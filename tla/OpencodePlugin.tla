----------------------------- MODULE OpencodePlugin -----------------------------
(***************************************************************************)
(* The opencode plugin (adapters/opencode/semantic-linefeeds.ts): after each *)
(* edit it runs the checker and appends what the checker says to the tool's  *)
(* output.  A reply it cannot read is worth one warning per session, and it  *)
(* remembers the sessions it warned in a set of bounded size.               *)
(*                                                                         *)
(* Tool calls of one or several sessions overlap: a handler gives up control *)
(* while it waits for its checker, and what follows the await is one step.   *)
(***************************************************************************)
EXTENDS Sequences, Integers, FiniteSets

CONSTANTS
    Session,     \* session ids; a call without one counts as the session ""
    Call,        \* handlers that can be at work at the same time
    Idle,        \* no call
    Limit,       \* MAX_WARNED_SESSIONS
    MaxWarnings  \* how many warnings a behaviour may hold

ASSUME PluginAssumption ==
    /\ Limit \in Nat \ {0}
    /\ MaxWarnings \in Nat
    /\ Idle \notin Session

(* How the run of the checker ends, as advisoryFrom and the exit code have   *)
(* it: it cannot be started, it reports (exit 2), it fails (any other exit), *)
(* or it exits 0 with a readable or an unreadable reply.                     *)
Reply == {"broken", "report", "failed", "advice", "clean", "unreadable"}

VARIABLES
    warnedSessions,  \* the set, as the sequence it is iterated in
    waiting,         \* [Call -> the session whose checker it waits for]
    said,            \* what was appended to the last output, and whose it was
    log              \* every session that was warned, in order (a history)

vars == <<warnedSessions, waiting, said, log>>

Members(s) == {s[i] : i \in DOMAIN s}

TypeOK ==
    /\ warnedSessions \in Seq(Session)
    /\ waiting \in [Call -> Session \cup {Idle}]
    /\ said \in (Session \cup {Idle}) \X {"nothing", "report", "advice", "warning"}
    /\ log \in Seq(Session)

Init ==
    /\ warnedSessions = <<>>
    /\ waiting = [c \in Call |-> Idle]
    /\ said = <<Idle, "nothing">>
    /\ log = <<>>

(* The handler starts and waits.                                            *)
Begin(c, s) ==
    /\ waiting[c] = Idle
    /\ waiting' = [waiting EXCEPT ![c] = s]
    /\ UNCHANGED <<warnedSessions, said, log>>

(* Two bugs: the newest is forgotten; a full set takes no more.              *)
RememberForNewest(s) ==
    IF Len(warnedSessions) >= Limit
    THEN Append(SubSeq(warnedSessions, 1, Len(warnedSessions) - 1), s)
    ELSE Append(warnedSessions, s)
RememberIfRoom(s) ==
    IF Len(warnedSessions) >= Limit THEN warnedSessions
    ELSE Append(warnedSessions, s)

(* The oldest entry makes room for the new one.                              *)
Remember(s) ==
    IF Len(warnedSessions) >= Limit THEN Append(Tail(warnedSessions), s)
    ELSE Append(warnedSessions, s)

Warn(s) ==
    /\ s \notin Members(warnedSessions)
    /\ Len(log) < MaxWarnings
    /\ warnedSessions' = Remember(s)
    /\ said' = <<s, "warning">>
    /\ log' = Append(log, s)

KeepQuiet(s) ==
    /\ s \in Members(warnedSessions)
    /\ said' = <<s, "nothing">>
    /\ UNCHANGED <<warnedSessions, log>>

Answer(s, reply) ==
    IF reply = "unreadable" THEN Warn(s) \/ KeepQuiet(s)
    ELSE /\ said' = <<s, IF reply \in {"report", "advice"} THEN reply ELSE "nothing">>
         /\ UNCHANGED <<warnedSessions, log>>

(* Everything after the await.                                              *)
Resume(c, reply) ==
    /\ waiting[c] # Idle
    /\ waiting' = [waiting EXCEPT ![c] = Idle]
    /\ Answer(waiting[c], reply)

Next ==
    \E c \in Call :
        \/ \E s \in Session : Begin(c, s)
        \/ \E reply \in Reply : Resume(c, reply)

Spec == Init /\ [][Next]_vars

-----------------------------------------------------------------------------
(* Properties *)

(* The memory stays within its bound and holds no session twice, so that     *)
(* each entry is worth its room.                                            *)
MemoryIsBounded ==
    /\ Len(warnedSessions) <= Limit
    /\ \A i, j \in DOMAIN warnedSessions :
          warnedSessions[i] = warnedSessions[j] => i = j

(* A session hears the warning again only after Limit other sessions heard   *)
(* it: the sessions that are still at work are not told twice, however their *)
(* calls overlap.                                                           *)
RecentSessionsStayQuiet ==
    \A i, j \in DOMAIN log :
        i < j /\ log[i] = log[j] =>
            Cardinality({log[k] : k \in i + 1..j - 1} \ {log[i]}) >= Limit

(* What is remembered are the last warnings, and no other session is silenced. *)
MemoryIsTheLastWarnings ==
    /\ Len(warnedSessions) <= Len(log)
    /\ \A i \in DOMAIN warnedSessions :
          warnedSessions[i] = log[Len(log) - Len(warnedSessions) + i]
=============================================================================
