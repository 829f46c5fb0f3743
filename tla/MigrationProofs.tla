--------------------------- MODULE MigrationProofs ---------------------------
(***************************************************************************)
(* What a migration never does, for any releases, topologies, failures and  *)
(* changes from outside.  Everything rests on the order of the steps that a *)
(* plan is made of: each step is either justified by the disk as it is, or   *)
(* stands behind the step that will justify it.                             *)
(***************************************************************************)
EXTENDS Migration, SequenceTheorems, TLAPS

-----------------------------------------------------------------------------
(* The invariant *)

Op == {"backup", "publish", "record", "unlink-legacy", "unlink-shared"}
Step == [op : Op] \cup [op : {"forget"}, name : Name]

(* A copy of opencode's own is only where its path is an entry of its own,   *)
(* and only a running command has steps left.                               *)
TypeInv ==
    /\ topology \in Topology
    /\ shared \in Bytes \cup {Absent}
    /\ legacy \in Bytes \cup {Absent}
    /\ topology \notin {"apart", "hard"} => legacy = Absent
    /\ rec \in [Name -> Kit \cup {None}]
    /\ req \in Request
    /\ todo \in Seq(Step)
    /\ noted \in BOOLEAN
    /\ outcome = "running" <=> todo # <<>>

(* In each of these x is a step, E what stands before it, r the request and  *)
(* n says that a step of it left a note.                                    *)

(* opencode's copy goes if it is the kit's and an entry of its own, and for  *)
(* an install only once the shared file is this release's.                  *)
CopyOk(x, E, r) ==
    x.op = "unlink-legacy" =>
        /\ topology \in {"apart", "hard"}
        /\ legacy # Mine
        /\ r.verb = "install" => shared = Now \/ "publish" \in E

(* The shared file goes for a request that may remove it. *)
SharedOk(x, r) ==
    x.op = "unlink-shared" =>
        /\ r.verb = "uninstall"
        /\ Agent \subseteq r.targets
        /\ shared = Mine => r.force

(* The user's bytes are published over by force, behind their backup. *)
PublishOk(x, E, r) ==
    x.op = "publish" =>
        /\ r.verb = "install"
        /\ shared = Mine => r.force /\ (saved = Mine \/ "backup" \in E)

(* What is recorded is what is there. *)
RecordOk(x, E, r) ==
    x.op = "record" =>
        /\ r.verb = "install"
        /\ shared = Now \/ "publish" \in E

(* A record is forgotten when the file it proves is gone, when the live one  *)
(* has taken over, or when it proves opencode's copy and nothing else; and   *)
(* never while that copy is there.                                          *)
ForgetOk(x, E, r, n) ==
    x.op = "forget" =>
        /\ x.name = "opencode-skill" => ~Proved \/ "unlink-legacy" \in E
        /\ \/ /\ r.verb = "uninstall"
              /\ shared = Absent \/ "unlink-shared" \in E
           \/ /\ r.verb = "install"
              /\ x.name # Live
              /\ shared = Now \/ "publish" \in E
              /\ n \/ rec[Live] = Now \/ "record" \in E
           \/ x.name = "opencode-skill" /\ topology \in {"apart", "hard"}

StepOk(x, E, r, n) ==
    /\ CopyOk(x, E, r) /\ SharedOk(x, r) /\ PublishOk(x, E, r)
    /\ RecordOk(x, E, r) /\ ForgetOk(x, E, r, n)

Ops(s) == {s[j].op : j \in DOMAIN s}
Earlier(s, i) == {s[j].op : j \in 1..(i - 1)}

(* The steps of s, where those of D stand before it. *)
Sound(s, D, r, n) == \A i \in DOMAIN s : StepOk(s[i], D \cup Earlier(s, i), r, n)

MInv == TypeInv /\ Sound(todo, {}, req, noted)

(* A backup is the first step if it is one, and the publication is next.     *)
FirstBackup(s) ==
    \A i \in DOMAIN s : s[i].op = "backup" => i = 1 /\ Len(s) > 1 /\ s[2].op = "publish"

-----------------------------------------------------------------------------
(* Sound plans *)

(* More before a step does not make it worse. *)
LEMMA Monotone ==
    ASSUME NEW x, NEW E, NEW F, E \subseteq F, NEW r, NEW n, StepOk(x, E, r, n)
    PROVE  StepOk(x, F, r, n)
BY DEF StepOk, CopyOk, SharedOk, PublishOk, RecordOk, ForgetOk

(* Two plans, one behind the other. *)
LEMMA JoinedOps ==
    ASSUME NEW s \in Seq(Step), NEW t \in Seq(Step)
    PROVE  Ops(s \o t) = Ops(s) \cup Ops(t)
<1>0. /\ \A i \in DOMAIN s : i \in DOMAIN (s \o t) /\ (s \o t)[i] = s[i]
      /\ \A i \in DOMAIN t : /\ i + Len(s) \in DOMAIN (s \o t)
                             /\ (s \o t)[i + Len(s)] = t[i]
      /\ \A i \in DOMAIN (s \o t) : i \notin DOMAIN s =>
            /\ i - Len(s) \in DOMAIN t
            /\ (s \o t)[i] = t[i - Len(s)]
  OBVIOUS
<1>1. Ops(s) \subseteq Ops(s \o t)
  BY <1>0 DEF Ops
<1>2. Ops(t) \subseteq Ops(s \o t)
  <2>1. ASSUME NEW i \in DOMAIN t
        PROVE  t[i].op \in Ops(s \o t)
    <3>1. /\ i + Len(s) \in DOMAIN (s \o t)
          /\ (s \o t)[i + Len(s)].op = t[i].op
      BY <1>0
    <3>q. QED
      BY <3>1 DEF Ops
  <2>q. QED
    BY <2>1 DEF Ops
<1>3. Ops(s \o t) \subseteq Ops(s) \cup Ops(t)
  BY <1>0 DEF Ops
<1>q. QED
  BY <1>1, <1>2, <1>3

LEMMA Joined ==
    ASSUME NEW s \in Seq(Step), NEW t \in Seq(Step), NEW D, NEW r, NEW n,
           Sound(s, D, r, n), Sound(t, D \cup Ops(s), r, n)
    PROVE  /\ s \o t \in Seq(Step)
           /\ Sound(s \o t, D, r, n)
           /\ Ops(s \o t) = Ops(s) \cup Ops(t)
<1>1. s \o t \in Seq(Step)
  OBVIOUS
<1>2. /\ \A i \in DOMAIN s : i \in DOMAIN (s \o t) /\ (s \o t)[i] = s[i]
      /\ \A i \in DOMAIN t : /\ i + Len(s) \in DOMAIN (s \o t)
                             /\ (s \o t)[i + Len(s)] = t[i]
      /\ \A i \in DOMAIN (s \o t) : i \notin DOMAIN s =>
            /\ i - Len(s) \in DOMAIN t
            /\ (s \o t)[i] = t[i - Len(s)]
  OBVIOUS
<1>3. Ops(s \o t) = Ops(s) \cup Ops(t)
  BY JoinedOps
<1>4. ASSUME NEW i \in DOMAIN (s \o t)
      PROVE  StepOk((s \o t)[i], D \cup Earlier(s \o t, i), r, n)
  <2>1. CASE i \in DOMAIN s
    <3>1. \A j \in 1..(i - 1) : j \in DOMAIN s /\ (s \o t)[j] = s[j]
      BY <2>1, <1>2
    <3>2. Earlier(s \o t, i) = Earlier(s, i)
      BY <3>1 DEF Earlier
    <3>q. QED
      BY <2>1, <3>2, <1>2 DEF Sound
  <2>2. CASE i \notin DOMAIN s
    <3> DEFINE k == i - Len(s)
    <3>1. k \in DOMAIN t /\ (s \o t)[i] = t[k]
      BY <2>2, <1>2
    <3>2. Ops(s) \subseteq Earlier(s \o t, i)
      <4>1. \A j \in DOMAIN s : j \in 1..(i - 1) /\ (s \o t)[j] = s[j]
        BY <2>2, <1>2
      <4>q. QED
        BY <4>1 DEF Ops, Earlier
    <3>3. Earlier(t, k) \subseteq Earlier(s \o t, i)
      <4>1. \A j \in 1..(k - 1) : /\ j + Len(s) \in 1..(i - 1)
                                  /\ (s \o t)[j + Len(s)] = t[j]
        BY <3>1, <1>2
      <4>q. QED
        BY <4>1 DEF Earlier
    <3>4. StepOk(t[k], (D \cup Ops(s)) \cup Earlier(t, k), r, n)
      BY <3>1 DEF Sound
    <3>5. (D \cup Ops(s)) \cup Earlier(t, k) \subseteq D \cup Earlier(s \o t, i)
      BY <3>2, <3>3
    <3>q. QED
      BY <3>1, <3>4, <3>5, Monotone
  <2>q. QED
    BY <2>1, <2>2
<1>q. QED
  BY <1>1, <1>3, <1>4 DEF Sound

LEMMA JoinedBackup ==
    ASSUME NEW s \in Seq(Step), NEW t \in Seq(Step),
           FirstBackup(s), "backup" \notin Ops(t)
    PROVE  FirstBackup(s \o t)
<1> SUFFICES ASSUME NEW i \in DOMAIN (s \o t), (s \o t)[i].op = "backup"
             PROVE  i = 1 /\ Len(s \o t) > 1 /\ (s \o t)[2].op = "publish"
  BY DEF FirstBackup
<1>1. /\ s \o t \in Seq(Step)
      /\ Len(s \o t) = Len(s) + Len(t)
      /\ \A j \in 1..Len(s) + Len(t) :
            (s \o t)[j] = IF j <= Len(s) THEN s[j] ELSE t[j - Len(s)]
  BY ConcatProperties
<1>2. i \in 1..Len(s) + Len(t) /\ Len(s) \in Nat /\ Len(t) \in Nat
  BY <1>1
<1>3. i \in DOMAIN s /\ s[i].op = "backup"
  <2>1. CASE i <= Len(s)
    BY <1>1, <1>2, <2>1
  <2>2. CASE i > Len(s)
    <3>1. i - Len(s) \in DOMAIN t /\ t[i - Len(s)].op = "backup"
      BY <1>1, <1>2, <2>2
    <3>q. QED
      BY <3>1 DEF Ops
  <2>q. QED
    BY <1>2, <2>1, <2>2
<1>4. i = 1 /\ Len(s) > 1 /\ s[2].op = "publish"
  BY <1>3 DEF FirstBackup
<1>5. (s \o t)[2] = s[2]
  BY <1>1, <1>2, <1>4
<1>q. QED
  BY <1>1, <1>2, <1>4, <1>5

LEMMA TailOps ==
    ASSUME NEW s \in Seq(Step), s # <<>>
    PROVE  /\ Ops(s) \subseteq {Head(s).op} \cup Ops(Tail(s))
           /\ Ops(Tail(s)) \subseteq Ops(s)
           /\ FirstBackup(s) => "backup" \notin Ops(Tail(s)) /\ FirstBackup(Tail(s))
           /\ FirstBackup(s) /\ Head(s).op = "backup" =>
                 Tail(s) # <<>> /\ Head(Tail(s)).op = "publish"
<1>1. /\ Head(s) = s[1] /\ 1 \in DOMAIN s
      /\ \A i \in DOMAIN s : i # 1 => i - 1 \in DOMAIN Tail(s) /\ Tail(s)[i - 1] = s[i]
      /\ \A i \in DOMAIN Tail(s) : i + 1 \in DOMAIN s /\ i + 1 # 1 /\ Tail(s)[i] = s[i + 1]
  OBVIOUS
<1>2. Ops(s) \subseteq {Head(s).op} \cup Ops(Tail(s))
  <2>1. ASSUME NEW i \in DOMAIN s
        PROVE  s[i].op \in {Head(s).op} \cup Ops(Tail(s))
    <3>1. CASE i = 1
      BY <1>1, <3>1
    <3>2. CASE i # 1
      BY <1>1, <3>2 DEF Ops
    <3>q. QED
      BY <3>1, <3>2
  <2>q. QED
    BY <2>1 DEF Ops
<1>3. Ops(Tail(s)) \subseteq Ops(s)
  BY <1>1 DEF Ops
<1>4. ASSUME FirstBackup(s)
      PROVE  "backup" \notin Ops(Tail(s)) /\ FirstBackup(Tail(s))
  BY <1>1, <1>4 DEF Ops, FirstBackup
<1>5. ASSUME FirstBackup(s), Head(s).op = "backup"
      PROVE  Tail(s) # <<>> /\ Head(Tail(s)).op = "publish"
  <2>1. Len(s) > 1 /\ s[2].op = "publish"
    BY <1>1, <1>5 DEF FirstBackup
  <2>2. Tail(s) # <<>> /\ Head(Tail(s)) = s[2]
    BY <2>1
  <2>q. QED
    BY <2>1, <2>2
<1>q. QED
  BY <1>2, <1>3, <1>4, <1>5

(* What a plan begins with is in the plan it is put behind another.          *)
LEMMA InRangeOfJoined ==
    ASSUME NEW s \in Seq(Step), NEW t \in Seq(Step), Len(t) = 2
    PROVE  t[1] \in Range(s \o t)
<1>1. /\ s \o t \in Seq(Step)
      /\ Len(s \o t) = Len(s) + Len(t)
      /\ \A i \in 1..Len(s) + Len(t) :
            (s \o t)[i] = IF i <= Len(s) THEN s[i] ELSE t[i - Len(s)]
  BY ConcatProperties
<1>2. Len(s) \in Nat /\ Len(s) + 1 \in 1..Len(s) + Len(t) /\ (Len(s) + 1) - Len(s) = 1
  OBVIOUS
<1>3. Len(s) + 1 \in DOMAIN (s \o t) /\ (s \o t)[Len(s) + 1] = t[1]
  BY <1>1, <1>2
<1>q. QED
  BY <1>3 DEF Range

LEMMA NoSteps ==
    ASSUME NEW D, NEW r, NEW n
    PROVE  <<>> \in Seq(Step) /\ Sound(<<>>, D, r, n) /\ Ops(<<>>) = {}
BY DEF Sound, Ops

LEMMA OneStep ==
    ASSUME NEW a \in Step, NEW D, NEW r, NEW n, StepOk(a, D, r, n)
    PROVE  <<a>> \in Seq(Step) /\ Sound(<<a>>, D, r, n) /\ Ops(<<a>>) = {a.op}
<1>1. <<a>> \in Seq(Step) /\ DOMAIN <<a>> = {1} /\ <<a>>[1] = a
  OBVIOUS
<1>2. Sound(<<a>>, D, r, n)
  BY <1>1, Monotone DEF Sound
<1>3. Ops(<<a>>) = {a.op}
  BY <1>1 DEF Ops
<1>q. QED
  BY <1>1, <1>2, <1>3

LEMMA TwoSteps ==
    ASSUME NEW a \in Step, NEW b \in Step, NEW D, NEW r, NEW n,
           StepOk(a, D, r, n), StepOk(b, D \cup {a.op}, r, n)
    PROVE  /\ <<a, b>> \in Seq(Step)
           /\ Sound(<<a, b>>, D, r, n)
           /\ Ops(<<a, b>>) = {a.op, b.op}
<1>1. <<a, b>> = <<a>> \o <<b>>
  <2>1. <<a, b>> \in Seq(Step) /\ <<a>> \o <<b>> \in Seq(Step)
    OBVIOUS
  <2>2. /\ Len(<<a, b>>) = Len(<<a>> \o <<b>>)
        /\ \A i \in 1..Len(<<a, b>>) : <<a, b>>[i] = (<<a>> \o <<b>>)[i]
    OBVIOUS
  <2>q. QED
    BY <2>1, <2>2, SeqEqual
<1>2. <<a>> \in Seq(Step) /\ Sound(<<a>>, D, r, n) /\ Ops(<<a>>) = {a.op}
  BY OneStep
<1>3. <<b>> \in Seq(Step) /\ Sound(<<b>>, D \cup {a.op}, r, n) /\ Ops(<<b>>) = {b.op}
  BY OneStep
<1>4. Sound(<<b>>, D \cup Ops(<<a>>), r, n)
  BY <1>2, <1>3
<1>5. /\ <<a>> \o <<b>> \in Seq(Step)
      /\ Sound(<<a>> \o <<b>>, D, r, n)
      /\ Ops(<<a>> \o <<b>>) = Ops(<<a>>) \cup Ops(<<b>>)
  BY <1>2, <1>3, <1>4, Joined
<1>q. QED
  BY <1>1, <1>2, <1>3, <1>5

LEMMA ThreeSteps ==
    ASSUME NEW a \in Step, NEW b \in Step, NEW c \in Step, NEW D, NEW r, NEW n,
           StepOk(a, D, r, n), StepOk(b, D \cup {a.op}, r, n),
           StepOk(c, D \cup {a.op, b.op}, r, n)
    PROVE  /\ <<a, b, c>> \in Seq(Step)
           /\ Sound(<<a, b, c>>, D, r, n)
           /\ Ops(<<a, b, c>>) = {a.op, b.op, c.op}
<1>1. <<a, b, c>> = <<a>> \o <<b, c>>
  <2>1. <<a, b, c>> \in Seq(Step) /\ <<a>> \o <<b, c>> \in Seq(Step)
    OBVIOUS
  <2>2. /\ Len(<<a, b, c>>) = Len(<<a>> \o <<b, c>>)
        /\ \A i \in 1..Len(<<a, b, c>>) : <<a, b, c>>[i] = (<<a>> \o <<b, c>>)[i]
    OBVIOUS
  <2>q. QED
    BY <2>1, <2>2, SeqEqual
<1>2. <<a>> \in Seq(Step) /\ Sound(<<a>>, D, r, n) /\ Ops(<<a>>) = {a.op}
  BY OneStep
<1>3. D \cup {a.op, b.op} = (D \cup {a.op}) \cup {b.op}
  OBVIOUS
<1>4. StepOk(c, (D \cup {a.op}) \cup {b.op}, r, n)
  BY <1>3
<1>5. /\ <<b, c>> \in Seq(Step)
      /\ Sound(<<b, c>>, D \cup {a.op}, r, n)
      /\ Ops(<<b, c>>) = {b.op, c.op}
  BY <1>4, TwoSteps
<1>6. Sound(<<b, c>>, D \cup Ops(<<a>>), r, n)
  BY <1>2, <1>5
<1>7. /\ <<a>> \o <<b, c>> \in Seq(Step)
      /\ Sound(<<a>> \o <<b, c>>, D, r, n)
      /\ Ops(<<a>> \o <<b, c>>) = Ops(<<a>>) \cup Ops(<<b, c>>)
  BY <1>2, <1>5, <1>6, Joined
<1>q. QED
  BY <1>1, <1>2, <1>5, <1>7

-----------------------------------------------------------------------------
(* The parts of a plan *)

(* The row: it publishes, and the user's bytes only by force and saved.      *)
LEMMA SkillPart ==
    ASSUME TypeInv, NEW r \in Request, r.verb = "install", NEW n,
           SkillPlan(r.force) # <<>>
    PROVE  /\ SkillPlan(r.force) \in Seq(Step)
           /\ Sound(SkillPlan(r.force), {}, r, n)
           /\ "record" \in Ops(SkillPlan(r.force))
           /\ shared = Now \/ "publish" \in Ops(SkillPlan(r.force))
           /\ FirstBackup(SkillPlan(r.force))
           /\ "backup" \in Ops(SkillPlan(r.force)) => saved = Absent
<1> DEFINE backup == [op |-> "backup"]
           publish == [op |-> "publish"]
           record == [op |-> "record"]
<1>1. backup \in Step /\ publish \in Step /\ record \in Step
  BY DEF Step, Op
<1>2. Now # Absent /\ Now # Mine /\ Absent # Mine
  BY ByteAssumption
<1>3. Managed => shared # Mine
  BY ByteAssumption DEF Managed, TypeInv, Projected, Name, Retired, Live
<1>4. CASE shared = Now
  <2>1. SkillPlan(r.force) = <<record>>
    BY <1>2, <1>4 DEF SkillPlan
  <2>2. StepOk(record, {}, r, n)
    BY <1>4 DEF StepOk, CopyOk, SharedOk, PublishOk, RecordOk, ForgetOk
  <2>q. QED
    BY <1>1, <1>4, <2>1, <2>2, OneStep DEF FirstBackup
<1>5. CASE shared # Now /\ (shared = Absent \/ Managed)
  <2>1. SkillPlan(r.force) = <<publish, record>>
    BY <1>5 DEF SkillPlan
  <2>2. StepOk(publish, {}, r, n) /\ StepOk(record, {} \cup {publish.op}, r, n)
    BY <1>2, <1>3, <1>5
       DEF StepOk, CopyOk, SharedOk, PublishOk, RecordOk, ForgetOk
  <2>q. QED
    BY <1>1, <2>1, <2>2, TwoSteps DEF FirstBackup
<1>6. CASE shared \notin {Absent, Now} /\ ~Managed
  <2>1. /\ r.force /\ saved = Absent
        /\ SkillPlan(r.force) = <<backup, publish, record>>
    BY <1>6 DEF SkillPlan
  <2>2. /\ StepOk(backup, {}, r, n)
        /\ StepOk(publish, {} \cup {backup.op}, r, n)
        /\ StepOk(record, {} \cup {backup.op, publish.op}, r, n)
    BY <2>1 DEF StepOk, CopyOk, SharedOk, PublishOk, RecordOk, ForgetOk
  <2>3. /\ <<backup, publish, record>> \in Seq(Step)
        /\ Sound(<<backup, publish, record>>, {}, r, n)
        /\ Ops(<<backup, publish, record>>) = {backup.op, publish.op, record.op}
    <3> HIDE DEF backup, publish, record
    <3>q. QED
      BY <1>1, <2>2, ThreeSteps
  <2>4. FirstBackup(<<backup, publish, record>>)
    BY DEF FirstBackup
  <2>q. QED
    BY <2>1, <2>3, <2>4
<1>q. QED
  BY <1>4, <1>5, <1>6

(* The aliases: what holds of each of them holds of the sequence.            *)
LEMMA ForgetsPart ==
    ASSUME NEW names \in SUBSET Retired, NEW D, NEW r, NEW n,
           \A m \in names : StepOk([op |-> "forget", name |-> m], D, r, n)
    PROVE  /\ Forgets(names) \in Seq(Step)
           /\ Sound(Forgets(names), D, r, n)
           /\ Ops(Forgets(names)) \subseteq {"forget"}
<1>1. ASSUME NEW m \in Retired, NEW F, D \subseteq F
      PROVE  /\ ForgetIf(m, names) \in Seq(Step)
             /\ Sound(ForgetIf(m, names), F, r, n)
             /\ Ops(ForgetIf(m, names)) \subseteq {"forget"}
  <2>1. CASE m \in names
    <3> DEFINE x == [op |-> "forget", name |-> m]
    <3>1. x \in Step /\ x.op = "forget" /\ StepOk(x, F, r, n)
      BY <1>1, <2>1, Monotone DEF Step, Name
    <3>2. ForgetIf(m, names) = <<x>>
      BY <2>1 DEF ForgetIf
    <3> HIDE DEF x
    <3>q. QED
      BY <3>1, <3>2, OneStep
  <2>2. CASE m \notin names
    BY <2>2, NoSteps DEF ForgetIf
  <2>q. QED
    BY <2>1, <2>2
<1>2. "codex-skill" \in Retired /\ "opencode-skill" \in Retired
  BY DEF Retired
<1> DEFINE s == ForgetIf("codex-skill", names)
           t == ForgetIf("opencode-skill", names)
<1>3. s \in Seq(Step) /\ Sound(s, D, r, n) /\ Ops(s) \subseteq {"forget"}
  BY <1>1, <1>2
<1>4. t \in Seq(Step) /\ Sound(t, D \cup Ops(s), r, n) /\ Ops(t) \subseteq {"forget"}
  BY <1>1, <1>2
<1> HIDE DEF s, t
<1>5. /\ s \o t \in Seq(Step)
      /\ Sound(s \o t, D, r, n)
      /\ Ops(s \o t) = Ops(s) \cup Ops(t)
  BY <1>3, <1>4, Joined
<1>q. QED
  BY <1>3, <1>4, <1>5 DEF Forgets, s, t

(* A copy that its record proves is one that a cleanup removes.              *)
LEMMA ProvedIsProvable ==
    ASSUME TypeInv, Proved
    PROVE  Rival /\ LegacyProvable
<1>1. topology \in {"apart", "hard"} /\ legacy # Absent /\ rec["opencode-skill"] = legacy
  BY DEF TypeInv, Proved
<1>2. LegacyThere /\ ~OneEntry
  BY <1>1 DEF LegacyThere, OneEntry
<1>3. legacy # None
  BY <1>1, ByteAssumption DEF TypeInv, Bytes
<1>4. LegacyProvable
  BY <1>1, <1>2, <1>3 DEF LegacyProvable
<1>q. QED
  BY <1>2, <1>4 DEF Rival

LEMMA ProvedIsCleaned ==
    ASSUME TypeInv, Proved
    PROVE  Cleanup = LegacyPlan /\ LegacyOwned = {"opencode-skill"}
<1>1. LegacyPlan # <<>>
  BY DEF LegacyPlan
<1>q. QED
  BY <1>1, ProvedIsProvable DEF Cleanup, LegacyOwned

(* The cleanup, behind the publication when there is one.                    *)
LEMMA CleanupPart ==
    ASSUME TypeInv, NEW D, NEW r, NEW n,
           r.verb = "install" => shared = Now \/ "publish" \in D
    PROVE  /\ Cleanup \in Seq(Step)
           /\ Sound(Cleanup, D, r, n)
           /\ Proved => "unlink-legacy" \in Ops(Cleanup)
           /\ Ops(Cleanup) \subseteq {"unlink-legacy", "forget"}
<1> DEFINE unlink == [op |-> "unlink-legacy"]
           forget == [op |-> "forget", name |-> "opencode-skill"]
<1>1. unlink \in Step /\ forget \in Step
  BY DEF Step, Op, Name, Retired
<1>2. CASE Rival /\ LegacyProvable
  <2>1. Cleanup = <<unlink, forget>>
    BY <1>2 DEF Cleanup, LegacyPlan
  <2>2. topology \in {"apart", "hard"} /\ legacy = rec["opencode-skill"]
    BY <1>2 DEF LegacyProvable, Rival, OneEntry, TypeInv, Topology
  <2>3. legacy # Mine
    BY <1>2, <2>2, ByteAssumption DEF LegacyProvable, TypeInv, Name, Retired
  <2>4. StepOk(unlink, D, r, n) /\ StepOk(forget, D \cup {unlink.op}, r, n)
    BY <2>2, <2>3 DEF StepOk, CopyOk, SharedOk, PublishOk, RecordOk, ForgetOk
  <2>5. /\ <<unlink, forget>> \in Seq(Step)
        /\ Sound(<<unlink, forget>>, D, r, n)
        /\ Ops(<<unlink, forget>>) = {unlink.op, forget.op}
    <3> HIDE DEF unlink, forget
    <3>q. QED
      BY <1>1, <2>4, TwoSteps
  <2>q. QED
    BY <2>1, <2>5
<1>3. CASE ~(Rival /\ LegacyProvable)
  <2>1. Cleanup = <<>>
    BY <1>3 DEF Cleanup
  <2>2. ~Proved
    BY <2>1, ProvedIsCleaned DEF LegacyPlan
  <2>q. QED
    BY <2>1, <2>2, NoSteps
<1>q. QED
  BY <1>2, <1>3

(* The row of an install and its aliases. *)
Row(r) ==
    IF Selects(r)
    THEN SkillPlan(r.force) \o Forgets(Proving \ LegacyOwned)
    ELSE <<>>

(* A plan that publishes has its forgetting behind the record it wrote.      *)
LEMMA RowSound ==
    ASSUME TypeInv, NEW r \in Request, r.verb = "install", ~InstallRefuses(r), NEW n
    PROVE  /\ Row(r) \in Seq(Step)
           /\ Sound(Row(r), {}, r, n)
           /\ FirstBackup(Row(r))
           /\ "backup" \in Ops(Row(r)) => saved = Absent
           /\ Selects(r) => /\ shared = Now \/ "publish" \in Ops(Row(r))
                            /\ "record" \in Ops(Row(r))
<1>1. CASE Selects(r)
  <2> DEFINE skill == SkillPlan(r.force)
             names == Proving \ LegacyOwned
  <2>1. /\ skill \in Seq(Step)
        /\ Sound(skill, {}, r, n)
        /\ "record" \in Ops(skill)
        /\ shared = Now \/ "publish" \in Ops(skill)
        /\ FirstBackup(skill)
        /\ "backup" \in Ops(skill) => saved = Absent
    BY <1>1, SkillPart DEF InstallRefuses
  <2>2. names \in SUBSET Retired
    BY DEF Proving
  <2>3. ASSUME NEW m \in names
        PROVE  StepOk([op |-> "forget", name |-> m], {} \cup Ops(skill), r, n)
    <3>1. m # Live
      BY <2>2 DEF Retired, Live
    <3>2. m = "opencode-skill" => ~Proved
      BY ProvedIsCleaned
    <3>q. QED
      BY <2>1, <3>1, <3>2 DEF StepOk, CopyOk, SharedOk, PublishOk, RecordOk, ForgetOk
  <2> HIDE DEF skill, names
  <2>4. /\ Forgets(names) \in Seq(Step)
        /\ Sound(Forgets(names), {} \cup Ops(skill), r, n)
        /\ Ops(Forgets(names)) \subseteq {"forget"}
    BY <2>2, <2>3, ForgetsPart
  <2>5. /\ skill \o Forgets(names) \in Seq(Step)
        /\ Sound(skill \o Forgets(names), {}, r, n)
        /\ Ops(skill \o Forgets(names)) = Ops(skill) \cup Ops(Forgets(names))
    BY <2>1, <2>4, Joined
  <2>6. FirstBackup(skill \o Forgets(names))
    BY <2>1, <2>4, JoinedBackup
  <2>q. QED
    BY <1>1, <2>1, <2>4, <2>5, <2>6 DEF Row, skill, names
<1>2. CASE ~Selects(r)
  BY <1>2, NoSteps DEF Row, FirstBackup
<1>q. QED
  BY <1>1, <1>2

(* An install cleans up behind its row, an uninstall before the shared file. *)
LEMMA InstallSound ==
    ASSUME TypeInv, NEW r \in Request, r.verb = "install", ~InstallRefuses(r), NEW n
    PROVE  /\ InstallPlan(r) \in Seq(Step)
           /\ Sound(InstallPlan(r), {}, r, n)
           /\ FirstBackup(InstallPlan(r))
           /\ "backup" \in Ops(InstallPlan(r)) => saved = Absent
           /\ Selects(r) => /\ shared = Now \/ "publish" \in Ops(InstallPlan(r))
                            /\ "record" \in Ops(InstallPlan(r))
           /\ "opencode" \in r.targets /\ Proved => "unlink-legacy" \in Ops(InstallPlan(r))
<1> DEFINE copy == IF "opencode" \in r.targets THEN Cleanup ELSE <<>>
<1>1. /\ Row(r) \in Seq(Step)
      /\ Sound(Row(r), {}, r, n)
      /\ FirstBackup(Row(r))
      /\ "backup" \in Ops(Row(r)) => saved = Absent
      /\ Selects(r) => /\ shared = Now \/ "publish" \in Ops(Row(r))
                       /\ "record" \in Ops(Row(r))
  BY RowSound
<1>2. "opencode" \in r.targets => Selects(r)
  BY DEF Selects, Agent
<1>3. /\ copy \in Seq(Step)
      /\ Sound(copy, {} \cup Ops(Row(r)), r, n)
      /\ "opencode" \in r.targets /\ Proved => "unlink-legacy" \in Ops(copy)
      /\ "backup" \notin Ops(copy)
  <2>1. CASE "opencode" \in r.targets
    BY <1>1, <1>2, <2>1, CleanupPart
  <2>2. CASE "opencode" \notin r.targets
    BY <2>2, NoSteps
  <2>q. QED
    BY <2>1, <2>2
<1> HIDE DEF copy
<1>4. /\ Row(r) \o copy \in Seq(Step)
      /\ Sound(Row(r) \o copy, {}, r, n)
      /\ Ops(Row(r) \o copy) = Ops(Row(r)) \cup Ops(copy)
  BY <1>1, <1>3, Joined
<1>5. FirstBackup(Row(r) \o copy)
  BY <1>1, <1>3, JoinedBackup
<1>6. InstallPlan(r) = Row(r) \o copy
  BY DEF InstallPlan, Row, copy
<1>q. QED
  BY <1>1, <1>3, <1>4, <1>5, <1>6

LEMMA UninstallSound ==
    ASSUME TypeInv, NEW r \in Request, r.verb = "uninstall", ~UninstallRefuses(r), NEW n
    PROVE  /\ UninstallPlan(r) \in Seq(Step)
           /\ Sound(UninstallPlan(r), {}, r, n)
           /\ "backup" \notin Ops(UninstallPlan(r))
           /\ "opencode" \in r.targets /\ Proved => "unlink-legacy" \in Ops(UninstallPlan(r))
<1> DEFINE copy == IF "opencode" \in r.targets THEN Cleanup ELSE <<>>
           file == IF Agent \subseteq r.targets THEN SharedRemoval ELSE <<>>
<1>1. /\ copy \in Seq(Step)
      /\ Sound(copy, {}, r, n)
      /\ "opencode" \in r.targets /\ Proved => "unlink-legacy" \in Ops(copy)
      /\ "backup" \notin Ops(copy)
  <2>1. CASE "opencode" \in r.targets
    BY <2>1, CleanupPart
  <2>2. CASE "opencode" \notin r.targets
    BY <2>2, NoSteps
  <2>q. QED
    BY <2>1, <2>2
<1> HIDE DEF copy
<1>2. /\ file \in Seq(Step)
      /\ Sound(file, {} \cup Ops(copy), r, n)
      /\ "backup" \notin Ops(file)
  <2>1. CASE Agent \subseteq r.targets /\ shared # Absent
    <3> DEFINE unlink == [op |-> "unlink-shared"]
               forget == [op |-> "forget", name |-> Live]
               two == <<unlink, forget>>
               F == {} \cup Ops(copy)
    <3>1. unlink \in Step /\ forget \in Step
      BY DEF Step, Op, Name, Retired
    <3>2. shared = Mine => r.force
      <4>1. Managed => shared # Mine
        BY ByteAssumption DEF Managed, TypeInv, Projected, Name, Retired, Live
      <4>q. QED
        BY <2>1, <4>1, ByteAssumption DEF UninstallRefuses
    <3>3. StepOk(unlink, F, r, n) /\ StepOk(forget, F \cup {unlink.op}, r, n)
      BY <2>1, <3>2
         DEF StepOk, CopyOk, SharedOk, PublishOk, RecordOk, ForgetOk, Live
    <3>4. two \in Seq(Step) /\ Sound(two, F, r, n) /\ Ops(two) = {unlink.op, forget.op}
      <4> HIDE DEF unlink, forget, F
      <4>q. QED
        BY <3>1, <3>3, TwoSteps
    <3>5. "opencode" \in r.targets
      BY <2>1 DEF Agent
    <3>6. ASSUME NEW m \in Proving
          PROVE  StepOk([op |-> "forget", name |-> m], F \cup Ops(two), r, n)
      BY <1>1, <3>4, <3>5 DEF StepOk, CopyOk, SharedOk, PublishOk, RecordOk, ForgetOk
    <3> HIDE DEF F, two
    <3>7. Proving \in SUBSET Retired
      BY DEF Proving
    <3>8. /\ Forgets(Proving) \in Seq(Step)
          /\ Sound(Forgets(Proving), F \cup Ops(two), r, n)
          /\ Ops(Forgets(Proving)) \subseteq {"forget"}
      BY <3>6, <3>7, ForgetsPart
    <3>9. /\ two \o Forgets(Proving) \in Seq(Step)
          /\ Sound(two \o Forgets(Proving), F, r, n)
          /\ Ops(two \o Forgets(Proving)) = Ops(two) \cup Ops(Forgets(Proving))
      BY <3>4, <3>8, Joined
    <3>10. file = two \o Forgets(Proving)
      BY <2>1 DEF SharedRemoval, two
    <3>11. "backup" \notin Ops(two \o Forgets(Proving))
      BY <3>4, <3>8, <3>9
    <3>q. QED
      BY <3>9, <3>10, <3>11 DEF F
  <2>2. CASE ~(Agent \subseteq r.targets /\ shared # Absent)
    BY <2>2, NoSteps DEF SharedRemoval
  <2>q. QED
    BY <2>1, <2>2
<1> HIDE DEF file
<1>3. /\ copy \o file \in Seq(Step)
      /\ Sound(copy \o file, {}, r, n)
      /\ Ops(copy \o file) = Ops(copy) \cup Ops(file)
  BY <1>1, <1>2, Joined
<1>4. UninstallPlan(r) = copy \o file
  BY DEF UninstallPlan, copy, file
<1>q. QED
  BY <1>1, <1>2, <1>3, <1>4

(* Whatever a request plans is sound on the disk it was planned for.         *)
LEMMA PlanSound ==
    ASSUME TypeInv, NEW r \in Request, ~Refused(r), NEW n
    PROVE  Plan(r) \in Seq(Step) /\ Sound(Plan(r), {}, r, n)
<1>1. r.verb \in {"install", "uninstall"}
  BY DEF Request
<1>2. CASE r.verb = "install"
  BY <1>2, InstallSound DEF Plan, Refused
<1>3. CASE r.verb = "uninstall"
  BY <1>3, UninstallSound DEF Plan, Refused
<1>q. QED
  BY <1>1, <1>2, <1>3

-----------------------------------------------------------------------------
(* Steps *)

LEMMA HeadAndTail ==
    ASSUME NEW s \in Seq(Step), s # <<>>, NEW r, NEW n, Sound(s, {}, r, n)
    PROVE  /\ Head(s) \in Step
           /\ Tail(s) \in Seq(Step)
           /\ StepOk(Head(s), {}, r, n)
           /\ Sound(Tail(s), {Head(s).op}, r, n)
<1>1. Head(s) \in Step /\ Head(s) = s[1] /\ Tail(s) \in Seq(Step) /\ 1 \in DOMAIN s
  OBVIOUS
<1>2. \A i \in DOMAIN Tail(s) : i + 1 \in DOMAIN s /\ Tail(s)[i] = s[i + 1]
  OBVIOUS
<1>3. StepOk(Head(s), {}, r, n)
  <2>1. {} \cup Earlier(s, 1) = {}
    BY DEF Earlier
  <2>2. StepOk(s[1], {} \cup Earlier(s, 1), r, n)
    BY <1>1 DEF Sound
  <2>q. QED
    BY <1>1, <2>1, <2>2
<1>4. ASSUME NEW i \in DOMAIN Tail(s)
      PROVE  StepOk(Tail(s)[i], {Head(s).op} \cup Earlier(Tail(s), i), r, n)
  <2>1. Earlier(s, i + 1) \subseteq {Head(s).op} \cup Earlier(Tail(s), i)
    <3>1. ASSUME NEW j \in 1..i
          PROVE  s[j].op \in {Head(s).op} \cup Earlier(Tail(s), i)
      <4>1. CASE j = 1
        BY <1>1, <4>1
      <4>2. CASE j # 1
        <5>1. j - 1 \in 1..(i - 1) /\ j - 1 \in DOMAIN Tail(s) /\ Tail(s)[j - 1] = s[j]
          BY <1>1, <1>2, <4>2
        <5>q. QED
          BY <5>1 DEF Earlier
      <4>q. QED
        BY <4>1, <4>2
    <3>2. Earlier(s, i + 1) = {s[j].op : j \in 1..i}
      BY <1>1 DEF Earlier
    <3>q. QED
      BY <3>1, <3>2
  <2>2. StepOk(s[i + 1], {} \cup Earlier(s, i + 1), r, n)
    BY <1>2 DEF Sound
  <2>3. {} \cup Earlier(s, i + 1) = Earlier(s, i + 1)
    OBVIOUS
  <2>q. QED
    BY <1>2, <2>1, <2>2, <2>3, Monotone
<1>q. QED
  BY <1>1, <1>3, <1>4 DEF Sound

(* A step that makes good what stood on it leaves a sound plan.              *)
LEMMA Advanced ==
    ASSUME TypeInv, Sound(todo, {}, req, noted), outcome = "running",
           NEW note \in BOOLEAN, Advance(note),
           \A x \in Step : \A E :
              StepOk(x, {Head(todo).op} \cup E, req, noted)
                 => (StepOk(x, E, req, noted))'
    PROVE  /\ req' \in Request
           /\ todo' \in Seq(Step)
           /\ noted' \in BOOLEAN
           /\ outcome' = "running" <=> todo' # <<>>
           /\ (Sound(todo, {}, req, noted))'
<1>1. todo \in Seq(Step) /\ todo # <<>> /\ noted \in BOOLEAN /\ req \in Request
  BY DEF TypeInv
<1>2. todo' \in Seq(Step) /\ Sound(todo', {Head(todo).op}, req, noted)
  BY <1>1, HeadAndTail DEF Advance
<1>3. ASSUME NEW i \in DOMAIN todo'
      PROVE  (StepOk(todo[i], {} \cup Earlier(todo, i), req, noted))'
  <2>1. todo'[i] \in Step
    BY <1>2
  <2>2. StepOk(todo'[i], {Head(todo).op} \cup Earlier(todo', i), req, noted)
    BY <1>2 DEF Sound
  <2>3. {} \cup Earlier(todo', i) = Earlier(todo', i)
    OBVIOUS
  <2>q. QED
    BY <2>1, <2>2, <2>3 DEF StepOk, CopyOk, SharedOk, PublishOk, RecordOk, ForgetOk, Earlier
<1>4. (Sound(todo, {}, req, noted))'
  BY <1>3 DEF Sound
<1>5. noted' \in BOOLEAN /\ req' \in Request
  BY <1>1 DEF Advance
<1>6. outcome' = "running" <=> todo' # <<>>
  BY DEF Advance
<1>q. QED
  BY <1>2, <1>4, <1>5, <1>6

-----------------------------------------------------------------------------
(* The invariant is one *)

(* The step at the head of a sound plan, and what it may rely on.            *)
LEMMA AtHead ==
    ASSUME MInv, outcome = "running"
    PROVE  Head(todo) \in Step /\ StepOk(Head(todo), {}, req, noted)
BY HeadAndTail DEF MInv, TypeInv

(* MInv, once a step has advanced: what is left to show is the disk's part.  *)
LEMMA Stepped ==
    ASSUME MInv, outcome = "running", NEW note \in BOOLEAN, Advance(note),
           topology' \in Topology,
           shared' \in Bytes \cup {Absent},
           legacy' \in Bytes \cup {Absent},
           topology' \notin {"apart", "hard"} => legacy' = Absent,
           rec' \in [Name -> Kit \cup {None}],
           \A x \in Step : \A E :
              StepOk(x, {Head(todo).op} \cup E, req, noted)
                 => (StepOk(x, E, req, noted))'
    PROVE  MInv'
<1>1. TypeInv /\ Sound(todo, {}, req, noted)
  BY DEF MInv
<1>2. /\ req' \in Request
      /\ todo' \in Seq(Step)
      /\ noted' \in BOOLEAN
      /\ outcome' = "running" <=> todo' # <<>>
      /\ (Sound(todo, {}, req, noted))'
  BY <1>1, Advanced
<1>q. QED
  BY <1>2 DEF MInv, TypeInv

LEMMA BackupStep == MInv /\ Backup => MInv'
<1> SUFFICES ASSUME MInv, Backup PROVE MInv'
  OBVIOUS
<1>1. outcome = "running" /\ Head(todo).op = "backup" /\ Advance(FALSE)
  BY DEF Backup, AtStep
<1>2. ASSUME NEW x \in Step, NEW E, StepOk(x, {"backup"} \cup E, req, noted)
      PROVE  (StepOk(x, E, req, noted))'
  BY <1>2 DEF Backup, Advance, Proved, StepOk, CopyOk, SharedOk, PublishOk, RecordOk, ForgetOk
<1>q. QED
  BY <1>1, <1>2, Stepped DEF MInv, TypeInv, Backup

LEMMA PublishStep == MInv /\ Publish => MInv'
<1> SUFFICES ASSUME MInv, Publish PROVE MInv'
  OBVIOUS
<1>1. outcome = "running" /\ Head(todo).op = "publish" /\ Advance(FALSE)
  BY DEF Publish, AtStep
<1>2. Now # Mine
  BY ByteAssumption
<1>3. req.verb = "install"
  BY <1>1, AtHead DEF StepOk, PublishOk
<1>4. ASSUME NEW x \in Step, NEW E, StepOk(x, {"publish"} \cup E, req, noted)
      PROVE  (StepOk(x, E, req, noted))'
  BY <1>2, <1>3, <1>4
     DEF Publish, Advance, Unlinked, Proved, StepOk, CopyOk, SharedOk, PublishOk, RecordOk, ForgetOk
<1>5. Now \in Bytes
  BY ByteAssumption DEF Bytes
<1>q. QED
  BY <1>1, <1>4, <1>5, Stepped DEF MInv, TypeInv, Publish, Unlinked, Topology

LEMMA RecordStep == MInv /\ Record => MInv'
<1> SUFFICES ASSUME MInv, Record PROVE MInv'
  OBVIOUS
<1>1. outcome = "running" /\ Head(todo).op = "record" /\ Advance(FALSE)
  BY DEF Record, AtStep
<1>2. req.verb = "install" /\ shared = Now
  BY <1>1, AtHead DEF StepOk, RecordOk
<1>3. rec' \in [Name -> Kit \cup {None}] /\ rec'[Live] = Now
      /\ rec'["opencode-skill"] = rec["opencode-skill"]
  BY ByteAssumption DEF Record, MInv, TypeInv, Name, Live, Retired
<1>4. ASSUME NEW x \in Step, NEW E, StepOk(x, {"record"} \cup E, req, noted)
      PROVE  (StepOk(x, E, req, noted))'
  BY <1>2, <1>3, <1>4
     DEF Record, Advance, Proved, StepOk, CopyOk, SharedOk, PublishOk, RecordOk, ForgetOk
<1>q. QED
  BY <1>1, <1>3, <1>4, Stepped DEF MInv, TypeInv, Record

LEMMA ForgetStep == MInv /\ Forget => MInv'
<1> SUFFICES ASSUME MInv, Forget PROVE MInv'
  OBVIOUS
<1> DEFINE m == Head(todo).name
<1>1. outcome = "running" /\ Head(todo).op = "forget" /\ Advance(FALSE)
  BY DEF Forget, AtStep
<1>2. m \in Name /\ ForgetOk(Head(todo), {}, req, noted)
  BY <1>1, AtHead DEF StepOk, Step, Op
<1>3. /\ rec' \in [Name -> Kit \cup {None}]
      /\ \A k \in Name : rec'[k] = IF k = m THEN None ELSE rec[k]
  BY <1>2 DEF Forget, MInv, TypeInv
<1>4. Proved' => Proved
  BY <1>3, ByteAssumption DEF Proved, Forget, MInv, TypeInv, Bytes, Name, Retired
<1>5. req.verb = "install" => rec'[Live] = rec[Live]
  BY <1>1, <1>2, <1>3 DEF ForgetOk, Name, Live, Request, MInv, TypeInv
<1>6. ASSUME NEW x \in Step, NEW E, StepOk(x, {"forget"} \cup E, req, noted)
      PROVE  (StepOk(x, E, req, noted))'
  BY <1>4, <1>5, <1>6
     DEF Forget, Advance, StepOk, CopyOk, SharedOk, PublishOk, RecordOk, ForgetOk
<1>q. QED
  BY <1>1, <1>3, <1>6, Stepped DEF MInv, TypeInv, Forget

LEMMA UnlinkLegacyStep == MInv /\ UnlinkLegacy => MInv'
<1> SUFFICES ASSUME MInv, UnlinkLegacy PROVE MInv'
  OBVIOUS
<1>1. outcome = "running" /\ Head(todo).op = "unlink-legacy" /\ Advance(FALSE)
  BY DEF UnlinkLegacy, AtStep
<1>2. topology \in {"apart", "hard"}
  BY <1>1, AtHead DEF StepOk, CopyOk
<1>3. topology' = "apart" /\ shared' = shared /\ legacy' = Absent /\ UNCHANGED <<saved, rec>>
  BY <1>2 DEF UnlinkLegacy, Unlinked, OneEntry
<1>4. Absent # Mine
  BY ByteAssumption
<1>5. ASSUME NEW x \in Step, NEW E, StepOk(x, {"unlink-legacy"} \cup E, req, noted)
      PROVE  (StepOk(x, E, req, noted))'
  BY <1>1, <1>3, <1>4, <1>5
     DEF Advance, Proved, StepOk, CopyOk, SharedOk, PublishOk, RecordOk, ForgetOk
<1>q. QED
  BY <1>1, <1>3, <1>5, Stepped DEF MInv, TypeInv, Topology

LEMMA UnlinkSharedStep == MInv /\ UnlinkShared => MInv'
<1> SUFFICES ASSUME MInv, UnlinkShared PROVE MInv'
  OBVIOUS
<1>1. outcome = "running" /\ Head(todo).op = "unlink-shared" /\ Advance(FALSE)
  BY DEF UnlinkShared, AtStep
<1>2. req.verb = "uninstall"
  BY <1>1, AtHead DEF StepOk, SharedOk
<1>3. Absent # Mine
  BY ByteAssumption
<1>4. ASSUME NEW x \in Step, NEW E, StepOk(x, {"unlink-shared"} \cup E, req, noted)
      PROVE  (StepOk(x, E, req, noted))'
  BY <1>2, <1>3, <1>4
     DEF UnlinkShared, Advance, Unlinked, Proved,
         StepOk, CopyOk, SharedOk, PublishOk, RecordOk, ForgetOk
<1>q. QED
  BY <1>1, <1>4, Stepped DEF MInv, TypeInv, UnlinkShared, Unlinked, Topology

(* A record that could not be written may be forgotten, with the note.       *)
LEMMA NoteStep == MInv /\ Note => MInv'
<1> SUFFICES ASSUME MInv, Note PROVE MInv'
  OBVIOUS
<1>1. outcome = "running" /\ Head(todo).op \in {"forget", "record"} /\ Advance(TRUE)
  BY DEF Note, AtStep
<1>2. Head(todo).op = "record" => req.verb = "install"
  BY <1>1, AtHead DEF StepOk, RecordOk
<1>3. UNCHANGED disk /\ noted' = TRUE /\ req' = req
  BY <1>1 DEF Note, Advance
<1>4. ASSUME NEW x \in Step, NEW E, StepOk(x, {Head(todo).op} \cup E, req, noted)
      PROVE  (StepOk(x, E, req, noted))'
  BY <1>1, <1>3, <1>4
     DEF disk, Proved, StepOk, CopyOk, SharedOk, PublishOk, RecordOk, ForgetOk
<1>q. QED
  BY <1>1, <1>3, <1>4, Stepped DEF MInv, TypeInv, disk

(* Nothing is left of the plan.                                              *)
LEMMA Ended ==
    ASSUME MInv, todo' = <<>>, outcome' # "running",
           req' \in Request, noted' \in BOOLEAN,
           topology' \in Topology,
           shared' \in Bytes \cup {Absent},
           legacy' \in Bytes \cup {Absent},
           topology' \notin {"apart", "hard"} => legacy' = Absent,
           rec' \in [Name -> Kit \cup {None}]
    PROVE  MInv'
<1>1. (Sound(todo, {}, req, noted))'
  BY DEF Sound
<1>2. todo' \in Seq(Step)
  OBVIOUS
<1>q. QED
  BY <1>1, <1>2 DEF MInv, TypeInv

LEMMA StartStep ==
    ASSUME MInv, NEW r \in Request, Start(r)
    PROVE  MInv'
<1>1. CASE Refuse(r)
  <2>1. outcome' # "running" /\ todo' = <<>> /\ req' = r /\ UNCHANGED <<noted, disk>>
    BY <1>1 DEF Refuse, Start
  <2>q. QED
    BY <2>1, Ended DEF MInv, TypeInv, disk
<1>2. CASE Accept(r)
  <2>1. UNCHANGED disk /\ req' = r /\ noted' = FALSE /\ todo' = Plan(r) /\ ~Refused(r)
    BY <1>2 DEF Accept, Start
  <2>2. Plan(r) \in Seq(Step) /\ Sound(Plan(r), {}, r, FALSE)
    BY <2>1, PlanSound DEF MInv
  <2>3. (Sound(todo, {}, req, noted))'
    BY <2>1, <2>2 DEF disk, Sound, Earlier, Proved,
                      StepOk, CopyOk, SharedOk, PublishOk, RecordOk, ForgetOk
  <2>4. outcome' = "running" <=> todo' # <<>>
    BY <1>2 DEF Accept
  <2>q. QED
    BY <2>1, <2>2, <2>3, <2>4 DEF MInv, TypeInv, disk
<1>q. QED
  BY <1>1, <1>2 DEF Start

LEMMA OutsideStep == MInv /\ Outside => MInv'
<1> SUFFICES ASSUME MInv, Outside PROVE MInv'
  OBVIOUS
<1>1. outcome # "running" /\ outcome' = "none" /\ UNCHANGED <<req, todo, noted>>
  BY DEF Outside, UserShared, UserLegacy, UserMovesBackup, OldRelease, Change
<1>2. todo' = <<>> /\ req' \in Request /\ noted' \in BOOLEAN
  BY <1>1 DEF MInv, TypeInv
<1>3. CASE \E b \in Bytes \cup {Absent} : UserShared(b)
  BY <1>1, <1>2, <1>3, Ended DEF UserShared, Unlinked, MInv, TypeInv, Topology
<1>4. CASE \E b \in Bytes \cup {Absent} : UserLegacy(b)
  BY <1>1, <1>2, <1>4, Ended DEF UserLegacy, Unlinked, MInv, TypeInv, Topology
<1>5. CASE UserMovesBackup
  BY <1>1, <1>2, <1>5, Ended DEF UserMovesBackup, MInv, TypeInv
<1>6. CASE \E m \in Retired, b \in Kit : OldRelease(m, b)
  <2>1. PICK m \in Retired, b \in Kit : OldRelease(m, b)
    BY <1>6
  <2>2. rec' \in [Name -> Kit \cup {None}]
    BY <2>1 DEF OldRelease, MInv, TypeInv
  <2>3. b \in Bytes
    BY DEF Bytes
  <2>4. /\ shared' \in Bytes \cup {Absent}
        /\ legacy' \in Bytes \cup {Absent}
        /\ topology' \in Topology
        /\ topology' \notin {"apart", "hard"} => legacy' = Absent
    BY <2>1, <2>3 DEF OldRelease, Unlinked, OneEntry, MInv, TypeInv, Topology
  <2>q. QED
    BY <1>1, <1>2, <2>2, <2>4, Ended
<1>q. QED
  BY <1>3, <1>4, <1>5, <1>6 DEF Outside

LEMMA StepKeepsMInv == MInv /\ [Next]_vars => MInv'
<1> SUFFICES ASSUME MInv, [Next]_vars PROVE MInv'
  OBVIOUS
<1>1. CASE Abort \/ Kill
  BY <1>1, Ended DEF Abort, Kill, disk, MInv, TypeInv
<1>2. CASE UNCHANGED vars
  BY <1>2 DEF vars, disk, MInv, TypeInv, Sound, Earlier, Proved,
              StepOk, CopyOk, SharedOk, PublishOk, RecordOk, ForgetOk
<1>q. QED
  BY <1>1, <1>2, BackupStep, PublishStep, RecordStep, ForgetStep, UnlinkLegacyStep,
     UnlinkSharedStep, NoteStep, StartStep, OutsideStep DEF Next, Apply

LEMMA InitHasMInv == Init => MInv
<1> SUFFICES ASSUME Init PROVE MInv
  OBVIOUS
<1>1. topology \in Topology
  BY TopologyAssumption DEF Init
<1>2. req \in Request
  BY DEF Init, Request
<1>3. todo = <<>> /\ todo \in Seq(Step) /\ Sound(todo, {}, req, noted)
  BY DEF Init, Sound
<1>q. QED
  BY <1>1, <1>2, <1>3 DEF Init, MInv, TypeInv

(* Every plan that runs stays sound, and everything has its type.            *)
THEOREM PlansStaySound == Spec => []MInv
<1>1. Init => MInv
  BY InitHasMInv
<1>2. MInv /\ [Next]_vars => MInv'
  BY StepKeepsMInv
<1>q. QED
  BY <1>1, <1>2, PTL DEF Spec

-----------------------------------------------------------------------------
(* What a migration never does *)

LEMMA OnlyApplyWorks == Next /\ Working => Apply
BY DEF Next, Working, Outside, Change, UserShared, UserLegacy, UserMovesBackup,
       OldRelease, Start

(* What the steps leave alone, by what they are. *)
LEMMA SmallSteps ==
    ASSUME Apply
    PROVE  /\ legacy' # legacy => UnlinkLegacy
           /\ shared' # shared => Publish \/ UnlinkLegacy \/ UnlinkShared
           /\ rec' # rec => Record \/ Forget
           /\ topology' # topology => Publish \/ UnlinkLegacy \/ UnlinkShared
BY DEF Apply, Backup, Publish, Record, Forget, UnlinkLegacy, UnlinkShared,
       Note, Abort, Kill, disk

(* The step that removes opencode's copy. *)
LEMMA CopyGoes ==
    ASSUME MInv, UnlinkLegacy
    PROVE  /\ topology \in {"apart", "hard"}
           /\ topology' = "apart"
           /\ legacy # Mine
           /\ shared' = shared
           /\ req.verb = "install" => shared = Now
<1>1. CopyOk(Head(todo), {}, req) /\ Head(todo).op = "unlink-legacy"
  BY AtHead DEF UnlinkLegacy, AtStep, StepOk
<1>q. QED
  BY <1>1 DEF CopyOk, UnlinkLegacy, Unlinked, OneEntry

(* The step that removes the shared file. *)
LEMMA SharedGoes ==
    ASSUME MInv, UnlinkShared
    PROVE  /\ req.verb = "uninstall"
           /\ Agent \subseteq req.targets
           /\ shared = Mine => req.force
BY AtHead DEF UnlinkShared, AtStep, StepOk, SharedOk

(* Cleaning up never takes the shared file, however the two paths of the     *)
(* skill are joined (plan_legacy_cleanup).                                  *)
THEOREM SharedSurvives == Spec => SharedSurvivesCleanup
<1>1. MInv /\ Next => (Working /\ shared # Absent /\ shared' = Absent
                         => req.verb = "uninstall" /\ Agent \subseteq req.targets)
  <2> SUFFICES ASSUME MInv, Next, Working, shared # Absent, shared' = Absent
               PROVE  req.verb = "uninstall" /\ Agent \subseteq req.targets
    OBVIOUS
  <2>1. Publish \/ UnlinkLegacy \/ UnlinkShared
    BY OnlyApplyWorks, SmallSteps
  <2>2. ~Publish
    BY ByteAssumption DEF Publish
  <2>3. ~UnlinkLegacy
    BY CopyGoes
  <2>q. QED
    BY <2>1, <2>2, <2>3, SharedGoes
<1>2. MInv /\ [Next]_vars =>
        [Working /\ shared # Absent /\ shared' = Absent
             => req.verb = "uninstall" /\ Agent \subseteq req.targets]_vars
  BY <1>1
<1>q. QED
  BY <1>2, PlansStaySound, PTL DEF Spec, SharedSurvivesCleanup

(* What the kit did not write goes by force only, only at the shared path,   *)
(* and an install has saved it (apply_file, legacy_provable).                *)
THEOREM UserBytesAreKept == Spec => UnprovenIsKept
<1>1. MInv /\ Next =>
        (Working => /\ legacy = Mine => legacy' = Mine
                    /\ shared = Mine /\ shared' # Mine =>
                          /\ req.force
                          /\ req.verb = "install" => saved = Mine)
  <2> SUFFICES ASSUME MInv, Next, Working
               PROVE  /\ legacy = Mine => legacy' = Mine
                      /\ shared = Mine /\ shared' # Mine =>
                            /\ req.force
                            /\ req.verb = "install" => saved = Mine
    OBVIOUS
  <2>1. Apply
    BY OnlyApplyWorks
  <2>2. legacy = Mine => legacy' = Mine
    BY <2>1, SmallSteps, CopyGoes
  <2>3. ASSUME shared = Mine, shared' # Mine
        PROVE  req.force /\ (req.verb = "install" => saved = Mine)
    <3>1. Publish \/ UnlinkShared
      BY <2>1, <2>3, SmallSteps, CopyGoes
    <3>2. CASE Publish
      <4>1. PublishOk(Head(todo), {}, req) /\ Head(todo).op = "publish"
        BY <3>2, AtHead DEF Publish, AtStep, StepOk
      <4>q. QED
        BY <2>3, <4>1 DEF PublishOk
    <3>3. CASE UnlinkShared
      BY <2>3, <3>3, SharedGoes
    <3>q. QED
      BY <3>1, <3>2, <3>3
  <2>q. QED
    BY <2>2, <2>3
<1>2. MInv /\ [Next]_vars =>
        [Working =>
             /\ legacy = Mine => legacy' = Mine
             /\ shared = Mine /\ shared' # Mine =>
                   /\ req.force
                   /\ req.verb = "install" => saved = Mine]_vars
  BY <1>1
<1>q. QED
  BY <1>2, PlansStaySound, PTL DEF Spec, UnprovenIsKept

(* An install removes opencode's copy only when the file that replaces it is *)
(* there (plan_install: the cleanup is last).                               *)
THEOREM ReplacementComesFirst == Spec => ReplacementFirst
<1>1. MInv /\ Next => (Working /\ req.verb = "install" /\ OwnCopy /\ ~OwnCopy'
                         => shared = Now)
  <2> SUFFICES ASSUME MInv, Next, Working, req.verb = "install", OwnCopy, ~OwnCopy'
               PROVE  shared = Now
    OBVIOUS
  <2>1. Apply
    BY OnlyApplyWorks
  <2>2. legacy' # legacy \/ (topology = "leaf" /\ topology' # "leaf")
    BY DEF OwnCopy
  <2>3. UnlinkLegacy
    BY <2>1, <2>2, SmallSteps DEF Publish, UnlinkShared, Unlinked
  <2>q. QED
    BY <2>3, CopyGoes
<1>2. MInv /\ [Next]_vars =>
        [Working /\ req.verb = "install" /\ OwnCopy /\ ~OwnCopy' => shared = Now]_vars
  BY <1>1
<1>q. QED
  BY <1>2, PlansStaySound, PTL DEF Spec, ReplacementFirst

(* A step that leaves a proved copy leaves its record. *)
LEMMA CopyStays ==
    ASSUME MInv, Apply, Proved, legacy' = legacy
    PROVE  Proved'
<1> SUFFICES ASSUME rec' # rec
             PROVE  rec'["opencode-skill"] = rec["opencode-skill"]
  BY DEF Proved
<1>1. Record \/ Forget
  BY SmallSteps
<1>2. rec \in [Name -> Kit \cup {None}]
  BY DEF MInv, TypeInv
<1>3. CASE Record
  BY <1>2, <1>3 DEF Record, Name, Retired, Live
<1>4. CASE Forget
  <2>1. ForgetOk(Head(todo), {}, req, noted) /\ Head(todo).op = "forget"
    BY <1>4, AtHead DEF Forget, AtStep, StepOk
  <2>2. Head(todo).name # "opencode-skill"
    BY <2>1 DEF ForgetOk
  <2>q. QED
    BY <1>2, <1>4, <2>2 DEF Forget, Name, Retired
<1>q. QED
  BY <1>1, <1>3, <1>4

(* The proof of opencode's copy stays as long as the copy (plan_install      *)
(* leaves the names of the cleanup to the cleanup).                          *)
THEOREM CopyStaysProvable == Spec => LegacyStaysProvable
<1>1. MInv /\ Next => (Working /\ Proved /\ legacy' = legacy => Proved')
  BY OnlyApplyWorks, CopyStays
<1>2. MInv /\ [Next]_vars =>
        [Working /\ Proved /\ legacy' = legacy => Proved']_vars
  BY <1>1
<1>q. QED
  BY <1>2, PlansStaySound, PTL DEF Spec, LegacyStaysProvable

(* Which record proves the shared file, when one does: never opencode's      *)
(* where the two paths are entries of their own.                             *)
LEMMA WhoProves ==
    ASSUME MInv
    PROVE  Managed =>
             /\ shared # Absent
             /\ shared # None
             /\ rec[Projected] = shared
             /\ Projected = "opencode-skill" => topology \notin {"apart", "hard", "bound"}
BY ByteAssumption DEF MInv, TypeInv, Managed, SameRealpath, OwnPath, Bytes

(* A step that leaves the shared file leaves it proved, or the run has noted *)
(* that the live record could not be written.                               *)
LEMMA ManagedStays ==
    ASSUME MInv, Apply, Managed, shared' = shared
    PROVE  Managed' \/ (noted' /\ shared = Now)
<1> SUFFICES ASSUME ~(noted' /\ shared = Now) PROVE Managed'
  OBVIOUS
<1>2. /\ shared \notin {Absent, None}
      /\ rec[Projected] = shared
      /\ Projected = "opencode-skill" => topology \notin {"apart", "hard", "bound"}
  BY WhoProves
<1>3. rec \in [Name -> Kit \cup {None}]
  BY DEF MInv, TypeInv
<1>4. rec[Live] = shared \/ (rec[Live] = None /\ rec["codex-skill"] = shared)
        \/ Projected = "opencode-skill"
  BY <1>2 DEF Projected, Proving
<1>5. (rec[Live] = shared => Managed)'
  BY <1>2 DEF Projected, Managed, SameRealpath, OwnPath, Live
<1>6. (rec[Live] = None /\ rec["codex-skill"] = shared => Managed)'
  BY <1>2 DEF Projected, Proving, Retired, SameFile, Managed, SameRealpath, OwnPath
<1>7. CASE Record
  <2>1. shared = Now
    BY <1>7, AtHead DEF Record, AtStep, StepOk, RecordOk
  <2>2. rec'[Live] = shared'
    BY <1>3, <1>7, <2>1 DEF Record, Name
  <2>q. QED
    BY <1>5, <2>2
<1>8. CASE Forget
  <2>1. /\ ForgetOk(Head(todo), {}, req, noted)
        /\ Head(todo).op = "forget"
        /\ noted => noted'
    BY <1>8, AtHead DEF Forget, AtStep, StepOk, Advance
  <2>2. \A k \in Name : k # Head(todo).name => rec'[k] = rec[k]
    BY <1>3, <1>8 DEF Forget
  <2>3. CASE Head(todo).name # Live /\ rec[Live] = Now /\ shared = Now
    BY <1>5, <2>2, <2>3 DEF Name
  <2>4. CASE Head(todo).name = "opencode-skill" /\ topology \in {"apart", "hard"}
    <3>1. rec'[Live] = rec[Live] /\ rec'["codex-skill"] = rec["codex-skill"]
      BY <2>2, <2>4 DEF Name, Live, Retired
    <3>q. QED
      BY <1>2, <1>4, <1>5, <1>6, <2>4, <3>1
  <2>q. QED
    BY <1>2, <2>1, <2>3, <2>4 DEF ForgetOk
<1>9. CASE rec' = rec
  <2>1. topology' # topology => topology = "hard"
    BY SmallSteps, CopyGoes DEF Publish, UnlinkShared, Unlinked
  <2>2. CASE topology' = topology
    BY <1>9, <2>2 DEF Managed, Projected, Proving, SameFile, SameRealpath
  <2>3. CASE topology = "hard"
    BY <1>2, <1>4, <1>5, <1>6, <1>9, <2>3
  <2>q. QED
    BY <2>1, <2>2, <2>3
<1>q. QED
  BY <1>7, <1>8, <1>9, SmallSteps

(* The shared file keeps its proof unless the run is bound to exit 1         *)
(* (project_retired, plan_forget_retired).                                  *)
THEOREM ProofStays == Spec => ProofIsCarriedOver
<1>1. MInv /\ Next => (Working /\ Managed /\ shared' = shared => Managed' \/ noted')
  BY OnlyApplyWorks, ManagedStays
<1>2. MInv /\ [Next]_vars =>
        [Working /\ Managed /\ shared' = shared => Managed' \/ noted']_vars
  BY <1>1
<1>q. QED
  BY <1>2, PlansStaySound, PTL DEF Spec, ProofIsCarriedOver

(* A copy is cleaned up, or refused, as doctor says beforehand, whichever     *)
(* remedy it names, but for the one it names without asking what proves the  *)
(* copy (legacy_provable, _opencode_competitor_check).                       *)
THEOREM DoctorAndInstallAgree == Spec => DoctorErrsInOneCase
<1> DEFINE Clears == Advice \in {"run install", "install clears it"} /\ ~UnprovenRemedy
           Fails == Advice = "move it aside" \/ UnprovenRemedy
<1>1. ASSUME MInv, NEW r \in Request, Start(r), r.verb = "install", "opencode" \in r.targets
      PROVE  /\ Fails => outcome' = "refused"
             /\ Clears =>
                   \/ [op |-> "unlink-legacy"] \in Range(todo')
                   \/ Conflict
                   \/ SkillPlan(r.force) = <<>>
  <2>1. /\ Fails => Rival /\ ~LegacyProvable
        /\ Clears => Rival /\ LegacyProvable
    <3>1. CASE Advice = "run install"
      <4>1. LegacyThere /\ shared = Absent
        BY <3>1 DEF Advice, AdviceBranch
      <4>2. Rival
        BY <4>1 DEF Rival, LegacyThere, OneEntry
      <4>q. QED
        BY <3>1, <4>2 DEF UnprovenRemedy
    <3>2. CASE Advice \in {"move it aside", "install clears it"}
      <4>1. LegacyThere /\ shared # Absent /\ ~SameFile("opencode-skill")
        BY <3>2 DEF Advice, AdviceBranch
      <4>2. topology = "apart"
        BY <4>1 DEF SameFile
      <4>q. QED
        BY <3>2, <4>1, <4>2 DEF Rival, OneEntry, Advice, AdviceBranch, UnprovenRemedy
    <3>q. QED
      BY <3>1, <3>2 DEF UnprovenRemedy
  <2>2. Fails => outcome' = "refused"
    <3> SUFFICES ASSUME Fails PROVE outcome' = "refused"
      OBVIOUS
    <3> HIDE DEF Fails
    <3>1. Refused(r)
      BY <1>1, <2>1 DEF Refused, InstallRefuses, CleanupRefuses
    <3>q. QED
      BY <1>1, <3>1 DEF Start, Refuse, Accept
  <2>3. ASSUME Clears, ~Conflict, SkillPlan(r.force) # <<>>
        PROVE  [op |-> "unlink-legacy"] \in Range(todo')
    <3>1. Rival /\ LegacyProvable
      BY <2>1, <2>3
    <3>2. ~Refused(r)
      BY <1>1, <2>3, <3>1 DEF Refused, InstallRefuses, CleanupRefuses
    <3>3. todo' = Plan(r)
      BY <1>1, <3>2 DEF Start, Refuse, Accept
    <3>4. Plan(r) = Row(r) \o LegacyPlan
      BY <1>1, <3>1 DEF Plan, InstallPlan, Row, Cleanup
    <3>5. Row(r) \in Seq(Step)
      BY <1>1, <2>3, <3>2, RowSound DEF Refused, MInv
    <3>6. LegacyPlan \in Seq(Step) /\ Len(LegacyPlan) = 2
            /\ LegacyPlan[1] = [op |-> "unlink-legacy"]
      BY DEF LegacyPlan, Step, Op, Name, Retired
    <3>7. LegacyPlan[1] \in Range(Row(r) \o LegacyPlan)
      BY <3>5, <3>6, InRangeOfJoined
    <3>q. QED
      BY <3>3, <3>4, <3>6, <3>7
  <2>q. QED
    BY <2>2, <2>3
<1>2. MInv /\ [Next]_vars =>
        [\A r \in Request :
            Start(r) /\ r.verb = "install" /\ "opencode" \in r.targets =>
               /\ Fails => outcome' = "refused"
               /\ Clears =>
                     \/ [op |-> "unlink-legacy"] \in Range(todo')
                     \/ Conflict
                     \/ SkillPlan(r.force) = <<>>]_vars
  BY <1>1
<1>q. QED
  BY <1>2, PlansStaySound, PTL DEF Spec, DoctorErrsInOneCase

-----------------------------------------------------------------------------
(* What a command leaves behind *)

(* Nothing is in the way of the same request: not the copy, and not the      *)
(* shared file, unless its backup is on the way and is given back.          *)
CopyInv == "opencode" \in req.targets => topology # "leaf" /\ (legacy = Absent \/ Proved)
Fine == shared \in {Now, Absent} \/ Managed
SlotFree == saved = Absent \/ (outcome = "running" /\ Head(todo).op = "publish")
FileInv ==
    /\ req.verb = "install" /\ Selects(req) => Fine \/ (req.force /\ SlotFree)
    /\ req.verb = "uninstall" /\ Agent \subseteq req.targets => Fine \/ req.force
AgainInv == outcome \in {"running", "ok", "error"} => CopyInv /\ FileInv

(* What is promised is done or still to do. *)
GoalInv ==
    outcome \in {"running", "ok"} =>
        /\ outcome = "ok" => todo = <<>> /\ ~noted
        /\ req.verb = "install" /\ Selects(req) =>
              /\ shared = Now \/ "publish" \in Ops(todo)
              /\ noted \/ rec[Live] = Now \/ "record" \in Ops(todo)
        /\ "opencode" \in req.targets => ~OwnCopy \/ "unlink-legacy" \in Ops(todo)

BackupInv ==
    outcome = "running" =>
        FirstBackup(todo) /\ ("backup" \in Ops(todo) => saved = Absent)

EndInv == AgainInv /\ GoalInv /\ BackupInv

(* What a plan contains. *)
LEMMA PlanOps ==
    ASSUME TypeInv, NEW r \in Request, ~Refused(r)
    PROVE  /\ FirstBackup(Plan(r))
           /\ "backup" \in Ops(Plan(r)) => saved = Absent
           /\ r.verb = "install" /\ Selects(r) =>
                 /\ shared = Now \/ "publish" \in Ops(Plan(r))
                 /\ "record" \in Ops(Plan(r))
           /\ "opencode" \in r.targets =>
                 /\ topology # "leaf" /\ (legacy = Absent \/ Proved)
                 /\ ~OwnCopy \/ "unlink-legacy" \in Ops(Plan(r))
<1>1. r.verb \in {"install", "uninstall"}
  BY DEF Request
<1>2. ASSUME "opencode" \in r.targets
      PROVE  topology # "leaf" /\ (legacy = Absent \/ Proved)
  <2>1. ~CleanupRefuses
    BY <1>1, <1>2 DEF Refused, InstallRefuses, UninstallRefuses, Agent
  <2>2. topology # "leaf"
    BY <2>1 DEF CleanupRefuses, Rival, LegacyThere, OneEntry, LegacyProvable
  <2>3. CASE legacy # Absent
    <3>1. topology \in {"apart", "hard"}
      BY <2>3 DEF TypeInv
    <3>2. Rival
      BY <2>3, <3>1 DEF Rival, LegacyThere, OneEntry
    <3>3. legacy = rec["opencode-skill"]
      BY <2>1, <3>1, <3>2 DEF CleanupRefuses, LegacyProvable, Rival
    <3>q. QED
      BY <2>2, <2>3, <3>3 DEF Proved
  <2>q. QED
    BY <2>2, <2>3
<1>3. CASE r.verb = "install"
  BY <1>2, <1>3, InstallSound DEF Plan, Refused, OwnCopy
<1>4. CASE r.verb = "uninstall"
  BY <1>2, <1>4, UninstallSound DEF Plan, Refused, OwnCopy, FirstBackup, Ops
<1>q. QED
  BY <1>1, <1>3, <1>4

(* The shared file stays this release's, absent or proved. *)
LEMMA FineStays ==
    ASSUME MInv, Apply, Fine
    PROVE  Fine'
<1>1. CASE shared' # shared
  <2>1. shared' \in {Now, Absent}
    BY <1>1, SmallSteps, CopyGoes DEF Publish, UnlinkShared
  <2>q. QED
    BY <2>1 DEF Fine
<1>2. CASE shared' = shared
  BY <1>2, ManagedStays DEF Fine
<1>q. QED
  BY <1>1, <1>2

LEMMA Running ==
    ASSUME MInv, Apply
    PROVE  /\ outcome = "running" /\ req' = req
           /\ todo \in Seq(Step) /\ todo # <<>>
           /\ Backup \/ Publish \/ Record \/ Forget \/ UnlinkLegacy \/ UnlinkShared \/ Note
                 => todo' = Tail(todo) /\ (noted => noted')
BY DEF Apply, Backup, Publish, Record, Forget, UnlinkLegacy, UnlinkShared,
       Note, Abort, Kill, AtStep, Advance, MInv, TypeInv

LEMMA AgainStep ==
    ASSUME MInv, EndInv, Apply
    PROVE  AgainInv'
<1> SUFFICES ASSUME outcome' # "killed" PROVE (CopyInv /\ FileInv)'
  BY DEF AgainInv
<1>1. outcome = "running" /\ req' = req /\ CopyInv /\ FileInv
  BY Running DEF EndInv, AgainInv
<1>2. CopyInv'
  <2>1. legacy' = legacy \/ legacy' = Absent
    BY SmallSteps DEF UnlinkLegacy
  <2>2. topology # "leaf" => topology' # "leaf"
    BY SmallSteps, CopyGoes DEF Publish, UnlinkShared, Unlinked
  <2>3. Proved /\ legacy' = legacy => Proved'
    BY CopyStays
  <2>q. QED
    BY <1>1, <2>1, <2>2, <2>3 DEF CopyInv
<1>3. ASSUME SlotFree, ~Fine
      PROVE  Fine' \/ SlotFree'
  <2>1. CASE Backup
    <3>1. Head(todo).op = "backup" /\ todo' = Tail(todo) /\ FirstBackup(todo)
      BY <1>1, <2>1 DEF Backup, AtStep, Advance, EndInv, BackupInv
    <3>2. todo' # <<>> /\ Head(todo').op = "publish"
      BY <3>1, Running, TailOps
    <3>q. QED
      BY <2>1, <3>2 DEF Backup, Advance, SlotFree
  <2>2. CASE Publish
    BY <2>2 DEF Publish, Fine
  <2>3. CASE Record \/ Forget \/ UnlinkLegacy \/ UnlinkShared \/ Note
    BY <1>3, <2>3 DEF Record, Forget, UnlinkLegacy, UnlinkShared, Note, AtStep, SlotFree, disk
  <2>4. CASE Abort
    BY <1>3, <2>4 DEF Abort, SlotFree, Fine
  <2>5. CASE Kill
    BY <2>5 DEF Kill
  <2>q. QED
    BY <2>1, <2>2, <2>3, <2>4, <2>5 DEF Apply
<1>4. FileInv'
  BY <1>1, <1>3, FineStays DEF FileInv, Selects
<1>q. QED
  BY <1>2, <1>4

LEMMA GoalStep ==
    ASSUME MInv, EndInv, Apply
    PROVE  GoalInv' /\ BackupInv'
<1> SUFFICES ASSUME outcome' \in {"running", "ok"}
             PROVE  (GoalInv /\ BackupInv)'
  BY DEF GoalInv, BackupInv
<1>1. /\ outcome = "running" /\ req' = req
      /\ todo \in Seq(Step) /\ todo # <<>>
      /\ todo' = Tail(todo)
      /\ noted => noted'
      /\ outcome' = "ok" => todo' = <<>> /\ ~noted'
  BY Running DEF Apply, Backup, Publish, Record, Forget, UnlinkLegacy, UnlinkShared,
                 Note, Abort, Kill, Advance
<1>2. /\ Ops(todo) \subseteq {Head(todo).op} \cup Ops(todo')
      /\ FirstBackup(todo) => "backup" \notin Ops(todo') /\ FirstBackup(todo')
  BY <1>1, TailOps
<1>3. BackupInv'
  <2>1. FirstBackup(todo)
    BY <1>1 DEF EndInv, BackupInv
  <2>2. FirstBackup(todo') /\ "backup" \notin Ops(todo')
    BY <1>2, <2>1
  <2>q. QED
    BY <2>2 DEF BackupInv, FirstBackup, Ops
<1>4. ASSUME req.verb = "install", Selects(req)
      PROVE  shared' = Now \/ "publish" \in Ops(todo')
  <2>1. shared = Now \/ "publish" \in Ops(todo)
    BY <1>1, <1>4 DEF EndInv, GoalInv
  <2>2. CASE Publish
    BY <2>2 DEF Publish
  <2>3. CASE ~Publish
    <3>1. shared' = shared
      BY <1>4, <2>3, SmallSteps, CopyGoes, SharedGoes
    <3>2. Head(todo).op # "publish"
      BY <2>3 DEF Apply, Backup, Record, Forget, UnlinkLegacy, UnlinkShared, Note, Abort,
                  Kill, AtStep
    <3>q. QED
      BY <1>2, <2>1, <3>1, <3>2
  <2>q. QED
    BY <2>2, <2>3
<1>5. ASSUME req.verb = "install", Selects(req)
      PROVE  noted' \/ rec'[Live] = Now \/ "record" \in Ops(todo')
  <2>1. noted \/ rec[Live] = Now \/ "record" \in Ops(todo)
    BY <1>1, <1>5 DEF EndInv, GoalInv
  <2>2. rec \in [Name -> Kit \cup {None}] /\ Live \in Name
    BY DEF MInv, TypeInv, Name
  <2>3. CASE Record
    BY <2>2, <2>3 DEF Record
  <2>4. CASE Note
    BY <2>4 DEF Note, Advance
  <2>5. CASE ~Record /\ ~Note
    <3>1. Head(todo).op # "record"
      BY <2>5 DEF Apply, Backup, Publish, Forget, UnlinkLegacy, UnlinkShared, Abort,
                  Kill, AtStep
    <3>2. rec'[Live] = rec[Live]
      <4>1. CASE Forget
        <5>1. ForgetOk(Head(todo), {}, req, noted) /\ Head(todo).op = "forget"
          BY <4>1, AtHead DEF Forget, AtStep, StepOk
        <5>2. Head(todo).name # Live
          BY <1>5, <5>1 DEF ForgetOk, Live
        <5>q. QED
          BY <2>2, <4>1, <5>2 DEF Forget
      <4>2. CASE ~Forget
        BY <2>5, <4>2, SmallSteps
      <4>q. QED
        BY <4>1, <4>2
    <3>q. QED
      BY <1>1, <1>2, <2>1, <3>1, <3>2
  <2>q. QED
    BY <2>3, <2>4, <2>5
<1>6. ASSUME "opencode" \in req.targets
      PROVE  ~OwnCopy' \/ "unlink-legacy" \in Ops(todo')
  <2>1. ~OwnCopy \/ "unlink-legacy" \in Ops(todo)
    BY <1>1, <1>6 DEF EndInv, GoalInv
  <2>2. CASE UnlinkLegacy
    BY <2>2, CopyGoes DEF UnlinkLegacy, OwnCopy
  <2>3. CASE ~UnlinkLegacy
    <3>1. Head(todo).op # "unlink-legacy"
      BY <2>3 DEF Apply, Backup, Publish, Record, Forget, UnlinkShared, Note, Abort,
                  Kill, AtStep
    <3>2. OwnCopy' => OwnCopy
      BY <2>3, SmallSteps DEF Publish, UnlinkShared, Unlinked, OwnCopy
    <3>q. QED
      BY <1>2, <2>1, <3>1, <3>2
  <2>q. QED
    BY <2>2, <2>3
<1>7. GoalInv'
  BY <1>1, <1>4, <1>5, <1>6 DEF GoalInv, Selects, Ops
<1>q. QED
  BY <1>3, <1>7

LEMMA SameDisk ==
    ASSUME UNCHANGED disk
    PROVE  /\ Managed' <=> Managed
           /\ Proved' <=> Proved
           /\ OwnCopy' <=> OwnCopy
BY DEF disk, Managed, Projected, Proving, SameFile, SameRealpath, Proved, OwnCopy

LEMMA StartEnds ==
    ASSUME MInv, NEW r \in Request, Start(r)
    PROVE  EndInv'
<1>1. CASE Refuse(r)
  BY <1>1 DEF Refuse, EndInv, AgainInv, GoalInv, BackupInv
<1>2. CASE Accept(r)
  <2>1. /\ UNCHANGED disk /\ req' = r /\ todo' = Plan(r) /\ ~noted' /\ ~Refused(r)
        /\ outcome' \in {"running", "ok"}
        /\ outcome' = "ok" => todo' = <<>>
    BY <1>2 DEF Accept, Start
  <2>2. /\ FirstBackup(todo')
        /\ "backup" \in Ops(todo') => saved = Absent
        /\ r.verb = "install" /\ Selects(r) =>
              /\ shared = Now \/ "publish" \in Ops(todo')
              /\ "record" \in Ops(todo')
        /\ "opencode" \in r.targets =>
              /\ topology # "leaf" /\ (legacy = Absent \/ Proved)
              /\ ~OwnCopy \/ "unlink-legacy" \in Ops(todo')
    BY <2>1, PlanOps DEF MInv
  <2>3. r.verb = "install" /\ Selects(r) => Fine \/ (r.force /\ saved = Absent)
    BY <2>1 DEF Refused, InstallRefuses, SkillPlan, Fine
  <2>4. r.verb = "uninstall" /\ Agent \subseteq r.targets => Fine \/ r.force
    BY <2>1 DEF Refused, UninstallRefuses, Fine
  <2>5. AgainInv'
    BY <2>1, <2>2, <2>3, <2>4, SameDisk
       DEF AgainInv, CopyInv, FileInv, SlotFree, Fine, Selects, disk
  <2>6. GoalInv'
    BY <2>1, <2>2, SameDisk DEF GoalInv, Selects, disk, Ops
  <2>7. BackupInv'
    BY <2>1, <2>2 DEF BackupInv, FirstBackup, Ops, disk
  <2>q. QED
    BY <2>5, <2>6, <2>7 DEF EndInv
<1>q. QED
  BY <1>1, <1>2 DEF Start

LEMMA EndsWell == Spec => []EndInv
<1>1. Init => EndInv
  BY DEF Init, EndInv, AgainInv, GoalInv, BackupInv
<1>2. MInv /\ EndInv /\ [Next]_vars => EndInv'
  <2> SUFFICES ASSUME MInv, EndInv, [Next]_vars PROVE EndInv'
    OBVIOUS
  <2>1. CASE Apply
    BY <2>1, AgainStep, GoalStep DEF EndInv
  <2>2. CASE \E r \in Request : Start(r)
    BY <2>2, StartEnds
  <2>3. CASE Outside
    <3>1. outcome' = "none"
      BY <2>3 DEF Outside, UserShared, UserLegacy, UserMovesBackup, OldRelease, Change
    <3>q. QED
      BY <3>1 DEF EndInv, AgainInv, GoalInv, BackupInv
  <2>4. CASE UNCHANGED vars
    <3>1. UNCHANGED disk /\ UNCHANGED <<req, todo, noted, outcome>>
      BY <2>4 DEF vars
    <3>q. QED
      BY <3>1, SameDisk DEF EndInv, AgainInv, GoalInv, BackupInv, CopyInv, FileInv, SlotFree,
                            Fine, Selects, disk, Ops, FirstBackup
  <2>q. QED
    BY <2>1, <2>2, <2>3, <2>4 DEF Next
<1>q. QED
  BY <1>1, <1>2, PlansStaySound, PTL DEF Spec

(* A run that reports success is complete: this release's file, its record,  *)
(* no copy that would win over it, and nothing for doctor to say.            *)
THEOREM MigrationEnds == Spec => []MigrationIsComplete
<1>1. MInv /\ EndInv => MigrationIsComplete
  <2> SUFFICES ASSUME MInv, EndInv, outcome = "ok"
               PROVE  /\ req.verb = "install" /\ Selects(req) => shared = Now /\ rec[Live] = Now
                      /\ "opencode" \in req.targets => ~OwnCopy /\ Advice = "quiet"
    BY DEF MigrationIsComplete
  <2>1. Ops(todo) = {} /\ ~noted
    BY DEF EndInv, GoalInv, Ops
  <2>2. ASSUME ~OwnCopy
        PROVE  Advice = "quiet"
    <3>1. topology \in Topology /\ topology # "leaf" /\ legacy = Absent
      BY <2>2 DEF OwnCopy, MInv, TypeInv
    <3>2. CASE topology \in {"apart", "hard"}
      <4>1. ~LegacyThere
        BY <3>1, <3>2 DEF LegacyThere, OneEntry
      <4>q. QED
        BY <4>1 DEF Advice, AdviceBranch
    <3>3. CASE topology \in {"joined", "bound"}
      <4>1. LegacyThere => SameFile("opencode-skill")
        BY <3>3 DEF LegacyThere, OneEntry, SameFile
      <4>q. QED
        BY <4>1 DEF Advice, AdviceBranch, SameFile
    <3>q. QED
      BY <3>1, <3>2, <3>3 DEF Topology
  <2>q. QED
    BY <2>1, <2>2 DEF EndInv, GoalInv
<1>q. QED
  BY <1>1, EndsWell, PlansStaySound, PTL

(* A command that ended, well or not, is admitted again unless the retired   *)
(* records contradict each other (RetiredRecordConflict).                    *)
THEOREM MigrationReruns == Spec => []RerunAdmitted
<1>1. MInv /\ EndInv => RerunAdmitted
  <2> SUFFICES ASSUME MInv, EndInv, outcome \in {"ok", "error"},
                      \A m, n \in Retired : None \in {rec[m], rec[n]} \/ rec[m] = rec[n]
               PROVE  ~Refused(req)
    BY DEF RerunAdmitted
  <2>1. ~Conflict
    BY DEF Conflict, Proving
  <2>2. req \in Request /\ CopyInv /\ FileInv
    BY DEF MInv, TypeInv, EndInv, AgainInv
  <2>3. "opencode" \in req.targets => ~CleanupRefuses
    <3> SUFFICES ASSUME "opencode" \in req.targets, Rival PROVE LegacyProvable
      BY DEF CleanupRefuses
    <3>1. topology \in {"apart", "hard"} /\ legacy # Absent
      BY <2>2 DEF CopyInv, Rival, LegacyThere, OneEntry, MInv, TypeInv, Topology
    <3>2. Proved
      BY <2>2, <3>1 DEF CopyInv
    <3>q. QED
      BY <3>2, ProvedIsProvable DEF MInv
  <2>4. CASE req.verb = "install"
    <3>1. Selects(req) => SkillPlan(req.force) # <<>>
      BY <2>2, <2>4 DEF FileInv, Fine, SlotFree, SkillPlan
    <3>q. QED
      BY <2>1, <2>3, <2>4, <3>1 DEF Refused, InstallRefuses
  <2>5. CASE req.verb = "uninstall"
    BY <2>1, <2>2, <2>3, <2>5 DEF Refused, UninstallRefuses, FileInv, Fine
  <2>q. QED
    BY <2>2, <2>4, <2>5 DEF Request
<1>q. QED
  BY <1>1, EndsWell, PlansStaySound, PTL

=============================================================================
