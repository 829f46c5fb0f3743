------------------------- MODULE OpencodePluginProofs -------------------------
(***************************************************************************)
(* The plugin's memory of warned sessions, for any number of sessions, of    *)
(* overlapping calls and of warnings, and any limit.                        *)
(***************************************************************************)
EXTENDS OpencodePlugin, FiniteSetTheorems, FunctionTheorems, SequenceTheorems, TLAPS

(* Until the memory is full it holds every warning there was.                *)
NothingForgottenYet == Len(warnedSessions) < Limit => Len(warnedSessions) = Len(log)

IInv == TypeOK /\ MemoryIsBounded /\ MemoryIsTheLastWarnings
           /\ NothingForgottenYet /\ RecentSessionsStayQuiet

(* A warning moves the memory up by d entries, which is one if it is full,    *)
(* and puts the session at its end.                                         *)
LEMMA RememberShifts ==
    ASSUME NEW s \in Session, TypeOK, Len(warnedSessions) <= Limit,
           warnedSessions' = Remember(s)
    PROVE  /\ warnedSessions' \in Seq(Session)
           /\ \E d \in 0..1 :
                 /\ Len(warnedSessions') = Len(warnedSessions) + 1 - d
                 /\ \A i \in 1..Len(warnedSessions) - d :
                       warnedSessions'[i] = warnedSessions[i + d]
                 /\ warnedSessions'[Len(warnedSessions')] = s
                 /\ Len(warnedSessions') <= Limit
                 /\ d = 1 => Len(warnedSessions) = Limit
<1>1. Limit \in Nat /\ Limit > 0 /\ Len(warnedSessions) \in Nat
  BY PluginAssumption, LenProperties DEF TypeOK
<1>2. \A t \in Seq(Session) :
         /\ Append(t, s) \in Seq(Session)
         /\ Len(Append(t, s)) = Len(t) + 1
         /\ \A i \in 1..Len(t) : Append(t, s)[i] = t[i]
         /\ Append(t, s)[Len(t) + 1] = s
  OBVIOUS
<1>3. CASE Len(warnedSessions) >= Limit
  <2> DEFINE t == Tail(warnedSessions)
  <2>1. warnedSessions # <<>> /\ warnedSessions' = Append(t, s)
    BY <1>1, <1>3, EmptySeq DEF Remember
  <2>2. /\ t \in Seq(Session)
        /\ Len(t) = Len(warnedSessions) - 1
        /\ \A i \in 1..Len(t) : t[i] = warnedSessions[i + 1]
    BY <2>1, HeadTailProperties DEF TypeOK
  <2> HIDE DEF t
  <2>3. /\ warnedSessions' \in Seq(Session)
        /\ Len(warnedSessions') = Len(t) + 1
        /\ \A i \in 1..Len(t) : warnedSessions'[i] = t[i]
        /\ warnedSessions'[Len(t) + 1] = s
    BY <1>2, <2>1, <2>2
  <2>4. \A i \in 1..Len(warnedSessions) - 1 : warnedSessions'[i] = warnedSessions[i + 1]
    BY <2>2, <2>3
  <2>5. Len(warnedSessions') = Len(warnedSessions) + 1 - 1 /\ Len(warnedSessions) = Limit
    BY <1>1, <1>3, <2>2, <2>3
  <2>6. warnedSessions'[Len(warnedSessions')] = s
    BY <2>3
  <2> QED
    BY <1>1, <2>3, <2>4, <2>5, <2>6
<1>4. CASE Len(warnedSessions) < Limit
  <2>1. warnedSessions' = Append(warnedSessions, s)
    BY <1>1, <1>4 DEF Remember
  <2>2. /\ warnedSessions' \in Seq(Session)
        /\ Len(warnedSessions') = Len(warnedSessions) + 1
        /\ \A i \in 1..Len(warnedSessions) : warnedSessions'[i] = warnedSessions[i]
        /\ warnedSessions'[Len(warnedSessions) + 1] = s
    BY <1>2, <2>1 DEF TypeOK
  <2>3. \A i \in 1..Len(warnedSessions) - 0 : warnedSessions'[i] = warnedSessions[i + 0]
    BY <1>1, <2>2
  <2>4. Len(warnedSessions') = Len(warnedSessions) + 1 - 0 /\ Len(warnedSessions') <= Limit
    BY <1>1, <1>4, <2>2
  <2>5. warnedSessions'[Len(warnedSessions')] = s
    BY <2>2
  <2> QED
    BY <2>2, <2>3, <2>4, <2>5
<1> QED
  BY <1>1, <1>3, <1>4

(* A memory without repetitions holds as many sessions as it has entries.    *)
LEMMA MembersAreCounted ==
    ASSUME NEW w \in Seq(Session),
           \A i, j \in DOMAIN w : w[i] = w[j] => i = j
    PROVE  IsFiniteSet(Members(w)) /\ Cardinality(Members(w)) = Len(w)
<1>1. Len(w) \in Nat /\ DOMAIN w = 1..Len(w) /\ w \in [1..Len(w) -> Members(w)]
  BY LenProperties DEF Members
<1>2. w \in Bijection(1..Len(w), Members(w))
  BY <1>1 DEF Bijection, Injection, Surjection, IsInjective, Members
<1>3. ExistsBijection(1..Len(w), Members(w))
  BY <1>2 DEF ExistsBijection
<1>4. IsFiniteSet(1..Len(w)) /\ Cardinality(1..Len(w)) = Len(w)
  BY <1>1, FS_Interval
<1> QED
  BY <1>3, <1>4, FS_Bijection

(* What lies between a session's new warning and its old one are Limit other *)
(* sessions: the memory was full, and did not hold it.                       *)
LEMMA WarnedLongAgo ==
    ASSUME TypeOK, MemoryIsBounded, MemoryIsTheLastWarnings, NothingForgottenYet,
           NEW s \in Session \ Members(warnedSessions),
           NEW i \in 1..Len(log), log[i] = s
    PROVE  Cardinality({log[k] : k \in i + 1..Len(log)} \ {s}) >= Limit
<1> DEFINE between == {log[k] : k \in i + 1..Len(log)} \ {s}
<1>1. /\ Limit \in Nat /\ Limit > 0
      /\ Len(warnedSessions) \in Nat /\ Len(log) \in Nat
      /\ Len(warnedSessions) <= Len(log) /\ Len(warnedSessions) <= Limit
  BY PluginAssumption, LenProperties DEF TypeOK, MemoryIsBounded, MemoryIsTheLastWarnings
<1>d. DOMAIN warnedSessions = 1..Len(warnedSessions) /\ DOMAIN log = 1..Len(log)
  BY LenProperties DEF TypeOK
<1>2. \A k \in Len(log) - Len(warnedSessions) + 1..Len(log) :
         log[k] \in Members(warnedSessions)
  <2> SUFFICES ASSUME NEW k \in Len(log) - Len(warnedSessions) + 1..Len(log)
               PROVE  log[k] \in Members(warnedSessions)
    OBVIOUS
  <2> DEFINE n == k - (Len(log) - Len(warnedSessions))
  <2>1. n \in 1..Len(warnedSessions) /\ Len(log) - Len(warnedSessions) + n = k
    BY <1>1
  <2>2. warnedSessions[n] = log[k]
    BY <1>1, <1>d, <2>1 DEF MemoryIsTheLastWarnings
  <2> QED
    BY <1>1, <1>d, <2>1, <2>2 DEF Members
<1>3. i <= Len(log) - Len(warnedSessions)
  BY <1>1, <1>2
<1>4. Len(warnedSessions) = Limit
  BY <1>1, <1>3 DEF NothingForgottenYet
<1>5. Members(warnedSessions) \subseteq between
  <2> SUFFICES ASSUME NEW n \in 1..Len(warnedSessions)
               PROVE  warnedSessions[n] \in between
    BY <1>1, <1>d DEF Members
  <2> DEFINE k == Len(log) - Len(warnedSessions) + n
  <2>1. k \in i + 1..Len(log)
    BY <1>1, <1>3
  <2>2. warnedSessions[n] = log[k]
    BY <1>1, <1>d DEF MemoryIsTheLastWarnings
  <2>3. warnedSessions[n] # s
    BY <1>1, <1>d DEF Members
  <2> QED
    BY <2>1, <2>2, <2>3
<1>6. Cardinality(Members(warnedSessions)) = Limit
  BY <1>4, MembersAreCounted DEF TypeOK, MemoryIsBounded
<1>7. IsFiniteSet(between)
  <2>1. IsFiniteSet(i + 1..Len(log))
    BY <1>1, FS_Interval
  <2> DEFINE between0 == {log[k] : k \in i + 1..Len(log)}
             f == [k \in i + 1..Len(log) |-> log[k]]
  <2>2. f \in Surjection(i + 1..Len(log), between0)
    BY DEF Surjection
  <2>3. IsFiniteSet(between0)
    <3> HIDE DEF f, between0
    <3> QED
      BY <2>1, <2>2, FS_Surjection
  <2> QED
    BY <2>3, FS_Subset
<1>8. Cardinality(Members(warnedSessions)) <= Cardinality(between)
  BY <1>5, <1>7, FS_Subset
<1>9. Cardinality(between) \in Nat
  BY <1>7, FS_CardinalityType
<1> QED
  BY <1>1, <1>6, <1>8, <1>9

(* One session is warned and takes the oldest one's room.                    *)
LEMMA WarnHolds ==
    ASSUME IInv, NEW s \in Session, Warn(s)
    PROVE  /\ MemoryIsBounded' /\ MemoryIsTheLastWarnings'
           /\ NothingForgottenYet' /\ RecentSessionsStayQuiet'
<1>0. TypeOK /\ MemoryIsBounded /\ MemoryIsTheLastWarnings /\ NothingForgottenYet
         /\ RecentSessionsStayQuiet
  BY DEF IInv
<1>1. /\ Limit \in Nat /\ Limit > 0
      /\ Len(warnedSessions) \in Nat /\ Len(log) \in Nat
      /\ Len(warnedSessions) <= Len(log) /\ Len(warnedSessions) <= Limit
  BY <1>0, PluginAssumption, LenProperties DEF TypeOK, MemoryIsBounded, MemoryIsTheLastWarnings
<1>d. DOMAIN warnedSessions = 1..Len(warnedSessions) /\ DOMAIN log = 1..Len(log)
  BY <1>0, LenProperties DEF TypeOK
<1>2. /\ log' \in Seq(Session)
      /\ Len(log') = Len(log) + 1
      /\ \A i \in 1..Len(log) : log'[i] = log[i]
      /\ log'[Len(log) + 1] = s
  BY <1>0 DEF TypeOK, Warn
<1>3. PICK d \in 0..1 :
         /\ Len(warnedSessions') = Len(warnedSessions) + 1 - d
         /\ \A i \in 1..Len(warnedSessions) - d :
               warnedSessions'[i] = warnedSessions[i + d]
         /\ warnedSessions'[Len(warnedSessions')] = s
         /\ Len(warnedSessions') <= Limit
         /\ d = 1 => Len(warnedSessions) = Limit
  BY <1>0, <1>1, RememberShifts DEF Warn
<1>4. Len(warnedSessions') \in Nat
  BY <1>1, <1>3
<1>e. DOMAIN warnedSessions' = 1..Len(warnedSessions') /\ DOMAIN log' = 1..Len(log')
  BY <1>0, <1>1, <1>2, RememberShifts, LenProperties DEF Warn
<1>5. \A i \in 1..Len(warnedSessions) : warnedSessions[i] # s
  BY <1>d DEF Members, Warn
<1>6. MemoryIsBounded'
  <2>1. ASSUME NEW i \in 1..Len(warnedSessions'), NEW j \in 1..Len(warnedSessions'),
               warnedSessions'[i] = warnedSessions'[j]
        PROVE  ~(i < j)
    <3> SUFFICES ASSUME i < j PROVE FALSE
      OBVIOUS
    <3>1. /\ i \in 1..Len(warnedSessions) - d
          /\ i + d \in 1..Len(warnedSessions)
      BY <1>1, <1>3
    <3>2. warnedSessions'[i] = warnedSessions[i + d]
      BY <1>3, <3>1
    <3>3. CASE j = Len(warnedSessions')
      BY <1>3, <1>5, <2>1, <3>1, <3>2, <3>3
    <3>4. CASE j < Len(warnedSessions')
      <4>1. /\ j \in 1..Len(warnedSessions) - d
            /\ j + d \in 1..Len(warnedSessions)
        BY <1>1, <1>3, <3>4
      <4>2. warnedSessions[i + d] = warnedSessions[j + d]
        BY <1>3, <2>1, <3>2, <4>1
      <4>3. i + d = j + d
        BY <1>0, <1>d, <3>1, <4>1, <4>2 DEF MemoryIsBounded
      <4> QED
        BY <4>3
    <3> QED
      BY <1>4, <3>3, <3>4
  <2>2. ASSUME NEW i \in 1..Len(warnedSessions'), NEW j \in 1..Len(warnedSessions'),
               warnedSessions'[i] = warnedSessions'[j]
        PROVE  i = j
    <3>1. ~(i < j)
      BY <2>1, <2>2
    <3>2. ~(j < i)
      BY <2>1, <2>2
    <3> QED
      BY <3>1, <3>2
  <2> QED
    BY <1>3, <1>e, <2>2 DEF MemoryIsBounded
<1>7. MemoryIsTheLastWarnings'
  <2>1. ASSUME NEW i \in 1..Len(warnedSessions')
        PROVE  warnedSessions'[i] = log'[Len(log') - Len(warnedSessions') + i]
    <3>1. CASE i = Len(warnedSessions')
      <4>1. Len(log') - Len(warnedSessions') + i = Len(log) + 1
        BY <1>1, <1>2, <1>4, <3>1
      <4> QED
        BY <1>2, <1>3, <3>1, <4>1
    <3>2. CASE i < Len(warnedSessions')
      <4>1. i \in 1..Len(warnedSessions) - d /\ i + d \in 1..Len(warnedSessions)
        BY <1>1, <1>3, <3>2
      <4> DEFINE k == Len(log) - Len(warnedSessions) + (i + d)
      <4>2. warnedSessions'[i] = log[k]
        BY <1>0, <1>d, <1>3, <4>1 DEF MemoryIsTheLastWarnings
      <4>3. k \in 1..Len(log) /\ k = Len(log') - Len(warnedSessions') + i
        BY <1>1, <1>2, <1>3, <4>1
      <4>4. log'[k] = log[k]
        BY <1>2, <4>3
      <4> HIDE DEF k
      <4> QED
        BY <4>2, <4>3, <4>4
    <3> QED
      BY <1>4, <3>1, <3>2
  <2>2. Len(warnedSessions') <= Len(log')
    BY <1>1, <1>2, <1>3
  <2> QED
    BY <1>e, <2>1, <2>2 DEF MemoryIsTheLastWarnings
<1>8. NothingForgottenYet'
  <2>1. Len(warnedSessions') < Limit => d = 0 /\ Len(warnedSessions) < Limit
    BY <1>1, <1>3
  <2> QED
    BY <1>0, <1>1, <1>2, <1>3, <2>1 DEF NothingForgottenYet
<1>9. RecentSessionsStayQuiet'
  <2> SUFFICES ASSUME NEW i \in 1..Len(log) + 1, NEW j \in 1..Len(log) + 1,
                      i < j, log'[i] = log'[j]
               PROVE  Cardinality({log'[k] : k \in i + 1..j - 1} \ {log'[i]}) >= Limit
    BY <1>2, <1>e DEF RecentSessionsStayQuiet
  <2>1. i \in 1..Len(log) /\ log'[i] = log[i]
    BY <1>1, <1>2
  <2>2. {log'[k] : k \in i + 1..j - 1} = {log[k] : k \in i + 1..j - 1}
    <3>1. \A k \in i + 1..j - 1 : k \in 1..Len(log)
      BY <1>1
    <3> QED
      BY <1>2, <3>1
  <2>3. CASE j <= Len(log)
    <3>1. j \in 1..Len(log) /\ log'[j] = log[j]
      BY <1>1, <1>2, <2>3
    <3>2. Cardinality({log[k] : k \in i + 1..j - 1} \ {log[i]}) >= Limit
      BY <1>0, <1>d, <2>1, <3>1 DEF RecentSessionsStayQuiet
    <3> QED
      BY <2>1, <2>2, <3>2
  <2>4. CASE j = Len(log) + 1
    <3>1. log[i] = s
      BY <1>2, <2>1, <2>4
    <3>2. Cardinality({log[k] : k \in i + 1..Len(log)} \ {s}) >= Limit
      BY <1>0, <2>1, <3>1, WarnedLongAgo DEF Warn
    <3>3. j - 1 = Len(log)
      BY <1>1, <2>4
    <3> QED
      BY <2>1, <2>2, <3>1, <3>2, <3>3
  <2> QED
    BY <1>1, <2>3, <2>4
<1> QED
  BY <1>6, <1>7, <1>8, <1>9

LEMMA InitHolds == Init => IInv
<1> SUFFICES ASSUME Init PROVE IInv
  OBVIOUS
<1> USE DEF Init
<1>1. TypeOK
  BY DEF TypeOK
<1>2. Len(warnedSessions) = 0 /\ Len(log) = 0 /\ DOMAIN log = {} /\ DOMAIN warnedSessions = {}
  OBVIOUS
<1> QED
  BY <1>1, <1>2, PluginAssumption
  DEF IInv, MemoryIsBounded, MemoryIsTheLastWarnings, NothingForgottenYet,
      RecentSessionsStayQuiet

(* Nothing but a warning touches the memory.                                 *)
LEMMA QuietHolds ==
    ASSUME IInv, UNCHANGED <<warnedSessions, log>>
    PROVE  /\ MemoryIsBounded' /\ MemoryIsTheLastWarnings'
           /\ NothingForgottenYet' /\ RecentSessionsStayQuiet'
BY DEF IInv, MemoryIsBounded, MemoryIsTheLastWarnings, NothingForgottenYet,
       RecentSessionsStayQuiet

LEMMA AnswerHolds ==
    ASSUME IInv, NEW s \in Session, NEW reply \in Reply, Answer(s, reply)
    PROVE  /\ warnedSessions' \in Seq(Session) /\ log' \in Seq(Session)
           /\ said' \in (Session \cup {Idle}) \X {"nothing", "report", "advice", "warning"}
           /\ MemoryIsBounded' /\ MemoryIsTheLastWarnings'
           /\ NothingForgottenYet' /\ RecentSessionsStayQuiet'
<1>1. CASE Warn(s)
  <2>1. warnedSessions' \in Seq(Session) /\ log' \in Seq(Session)
    BY <1>1, RememberShifts DEF IInv, TypeOK, MemoryIsBounded, Warn
  <2>2. said' = <<s, "warning">>
    BY <1>1 DEF Warn
  <2> QED
    BY <1>1, <2>1, <2>2, WarnHolds
<1>2. CASE ~Warn(s)
  <2>1. UNCHANGED <<warnedSessions, log>>
    BY <1>2 DEF Answer, KeepQuiet
  <2>2. said' \in (Session \cup {Idle}) \X {"nothing", "report", "advice", "warning"}
    BY <1>2 DEF Answer, KeepQuiet, Reply
  <2> QED
    BY <2>1, <2>2, QuietHolds DEF IInv, TypeOK
<1> QED
  BY <1>1, <1>2

LEMMA NextHolds == IInv /\ [Next]_vars => IInv'
<1> SUFFICES ASSUME IInv, [Next]_vars PROVE IInv'
  OBVIOUS
<1>1. ASSUME NEW c \in Call, NEW s \in Session, Begin(c, s)
      PROVE  IInv'
  <2>1. TypeOK'
    BY <1>1 DEF IInv, TypeOK, Begin
  <2> QED
    BY <1>1, <2>1, QuietHolds DEF IInv, Begin
<1>2. ASSUME NEW c \in Call, NEW reply \in Reply, Resume(c, reply)
      PROVE  IInv'
  <2>1. waiting[c] \in Session /\ Answer(waiting[c], reply)
    BY <1>2 DEF IInv, TypeOK, Resume
  <2>2. waiting' \in [Call -> Session \cup {Idle}]
    BY <1>2 DEF IInv, TypeOK, Resume
  <2> QED
    BY <2>1, <2>2, AnswerHolds DEF IInv, TypeOK
<1>3. CASE UNCHANGED vars
  <2>1. TypeOK'
    BY <1>3 DEF IInv, TypeOK, vars
  <2> QED
    BY <1>3, <2>1, QuietHolds DEF IInv, vars
<1> QED
  BY <1>1, <1>2, <1>3 DEF Next

LEMMA Invariant == Spec => []IInv
<1>1. Init => IInv
  BY InitHolds
<1>2. IInv /\ [Next]_vars => IInv'
  BY NextHolds
<1> QED
  BY <1>1, <1>2, PTL DEF Spec

(* The plugin's memory never outgrows MAX_WARNED_SESSIONS and never holds a  *)
(* session twice.                                                           *)
THEOREM BoundHolds == Spec => []MemoryIsBounded
<1>1. IInv => MemoryIsBounded
  BY DEF IInv
<1> QED
  BY <1>1, Invariant, PTL

(* It is always the tail of the warnings given.                              *)
THEOREM TailHolds == Spec => []MemoryIsTheLastWarnings
<1>1. IInv => MemoryIsTheLastWarnings
  BY DEF IInv
<1> QED
  BY <1>1, Invariant, PTL

(* However the calls of however many sessions overlap: before a session is   *)
(* warned again, Limit other sessions were warned.                          *)
THEOREM QuietnessHolds == Spec => []RecentSessionsStayQuiet
<1>1. IInv => RecentSessionsStayQuiet
  BY DEF IInv
<1> QED
  BY <1>1, Invariant, PTL
=============================================================================
