----------------------------- MODULE RecordLog -----------------------------
(***************************************************************************)
(* What a vault file promises the session store above it: a log of records *)
(* and the set of those somebody was told are kept.  A record enters the   *)
(* log before it is acknowledged, and the log may be rewritten, by a       *)
(* compaction or by a crash, only to one that still has what is owed and   *)
(* holds nothing that was never committed.                                 *)
(***************************************************************************)
EXTENDS Sequences, SequencesExt

CONSTANT Record

VARIABLES
  log,       \* records the file authenticates, oldest first
  committed, \* records that ever entered the log
  owed       \* records acknowledged to a caller and not expired since

Init == log = <<>> /\ committed = {} /\ owed = {}

\* A record is committed; its writer has not been told yet.
Commit(r) ==
  /\ log' = Append(log, r)
  /\ committed' = committed \cup {r}
  /\ UNCHANGED owed

\* The writer of a committed record is told.
Acknowledge(r) ==
  /\ r \in ToSet(log)
  /\ owed' = owed \cup {r}
  /\ UNCHANGED <<log, committed>>

\* Records reach the end of their life.
Expire == owed' \subseteq owed /\ UNCHANGED <<log, committed>>

\* The log is replaced: by a compaction, or by what a crash brings back.
Rewrite ==
  /\ log' \in Seq(Record)
  /\ ToSet(log') \subseteq committed
  /\ owed \subseteq ToSet(log')
  /\ UNCHANGED <<committed, owed>>

Next ==
  \/ \E r \in Record : Commit(r) \/ Acknowledge(r)
  \/ Expire \/ Rewrite

Spec == Init /\ [][Next]_<<log, committed, owed>>
=============================================================================
