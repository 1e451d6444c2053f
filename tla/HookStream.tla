----------------------------- MODULE HookStream -----------------------------
(***************************************************************************)
(* One hooked process, the files it leaves, and the collector that reads   *)
(* them while it may still be writing.                                     *)
(*                                                                         *)
(* Python: EventWriter of hooks/python/periskop_hook/writer.py, started by *)
(* bootstrap.py.  Application threads put events on a bounded ring without *)
(* a lock; a drain thread empties it into the stream and rewrites a status *)
(* sidecar; close joins the thread and drains once more.  A thread can     *)
(* lose the interpreter at any call, so len and append are two steps, and  *)
(* what is read before len(lines) and stored after it is two steps.        *)
(*                                                                         *)
(* Node: FileEventSink of hooks/node/src/event-writer.ts.  One thread: a   *)
(* timer flushes, and nothing is recorded during a flush.                  *)
(*                                                                         *)
(* Reader: collect of crates/periskop-runtime-collector/src/collector.rs.  *)
(*                                                                         *)
(* A call is its number.  A window is the number of the call that would    *)
(* have been next when it was measured: windows are ordered as their       *)
(* milliseconds are, none is empty, and it is known what each vouches for. *)
(*                                                                         *)
(* Two losses escape the count of the Python hook: an event pushed off a   *)
(* ring that filled after its length was looked at, and a count that is    *)
(* overwritten between the two halves of "+= len(lines)".  They happen     *)
(* here as they do there, and counts.missed, an observer, has what the     *)
(* count should and does not.                                              *)
(***************************************************************************)
EXTENDS Integers, FiniteSets, SequencesExt

CONSTANTS
  Callers,   \* application threads
  Setups,    \* processes to be looked at, see SetupType
  MaxCalls   \* bound: calls observed in one process

Drains == {"drain", "close"}

\* hook, ring capacity, application threads, and which faults may happen: an
\* import hook that fails to install, events that do not serialise, appends and
\* status writes that fail, a drain thread slower than close waits, application
\* threads that are daemons and outlive the start of close.
SetupType ==
  [hook : {"python", "node"}, capacity : Nat \ {0}, callers : SUBSET Callers,
   faults : SUBSET {"install", "spoilt", "append", "status", "slow", "daemon"}]

ASSUME StreamAssumption ==
  /\ IsFiniteSet(Callers) /\ Callers \cap Drains = {}
  /\ Setups \subseteq SetupType
  /\ MaxCalls \in Nat

Torn == 0               \* a line that is not a whole event
Absent == [is |-> "absent"]
Blank == [is |-> "blank"]  \* a sidecar just truncated
Unmeasured == -1        \* ObservedWindow::Unmeasured

VARIABLES
  setup,
  life,     \* "new", "declared", "active", "disowned", "closing", "over", "killed"
  calls,    \* how many calls were made
  ring,     \* the bounded buffer
  thread,   \* what each thread is doing
  counts,   \* dropped_events_count, written_events_count, and the observer
  stream,   \* the stream file: its lines, and whether the last lacks its end
  sidecar,  \* the status file
  reader    \* the collector

vars == <<setup, life, calls, ring, thread, counts, stream, sidecar, reader>>

Python == setup.hook = "python"
Faulty(f) == f \in setup.faults

Resting == [at |-> "off", batch |-> <<>>, base |-> 0, full |-> FALSE, doc |-> Absent]
Waits(t) == thread[t].at \in {"off", "idle", "done"}

\* write_status and snapshot: what the sidecar would say now.
Document ==
  [is |-> "status", active |-> life # "disowned", dropped |-> counts.dropped,
   until |-> calls + 1]

Init ==
  /\ setup \in Setups
  /\ life = "new" /\ calls = 0 /\ ring = <<>>
  /\ thread = [t \in Drains \cup setup.callers |-> Resting]
  /\ counts = [dropped |-> 0, written |-> 0, missed |-> 0]
  /\ stream = [lines |-> <<>>, cut |-> FALSE]
  /\ sidecar = Absent
  /\ reader = [at |-> "none", late |-> FALSE, listed |-> {}, got |-> {},
               dropped |-> 0, windows |-> <<>>]

(***************************************************************************)
(* Starting                                                                *)
(***************************************************************************)

\* recorder.activate: the writer is made and declares itself, before anything is
\* instrumented.  The Node sink is made and writes nothing.
Declare ==
  /\ life = "new"
  /\ life' = "declared"
  /\ thread' = IF Python THEN [thread EXCEPT !["close"].at = "status"] ELSE thread
  /\ UNCHANGED <<setup, calls, ring, counts, stream, sidecar, reader>>

\* importer.install, patchTransports.
Instrument ==
  /\ life = "declared" /\ Waits("close")
  /\ life' = "active"
  /\ UNCHANGED <<setup, calls, ring, thread, counts, stream, sidecar, reader>>

\* _disown_a_stream_nobody_is_filling; a Node hook that patched nothing only sets
\* a variable of its process, and its sink is never closed.
Disown ==
  /\ life = "declared" /\ Waits("close") /\ Faulty("install")
  /\ life' = "disowned"
  /\ thread' = IF Python THEN [thread EXCEPT !["close"].at = "status"] ELSE thread
  /\ UNCHANGED <<setup, calls, ring, counts, stream, sidecar, reader>>

(***************************************************************************)
(* Observing calls                                                         *)
(***************************************************************************)

Arriving == Cardinality({c \in setup.callers : thread[c].at = "put"})

\* The application still runs: close does not wait for a daemon thread.
Calling == life = "active" \/ (life = "closing" /\ Faulty("daemon"))

\* submit: the length is looked at.
Look(c) ==
  /\ Python /\ Calling /\ thread[c].at = "off" /\ calls + Arriving < MaxCalls
  /\ thread' = [thread EXCEPT ![c] = [@ EXCEPT !.at = "put",
                                               !.full = Len(ring) >= setup.capacity]]
  /\ UNCHANGED <<setup, life, calls, ring, counts, stream, sidecar, reader>>

\* deque.append with a maxlen: the oldest goes.
Appended(event) ==
  IF Len(ring) < setup.capacity THEN Append(ring, event)
  ELSE Append(Tail(ring), event)

\* Mutant of Started: a wakeup without a thread.
NotStarted == thread["drain"].at
\* _start, once
Started == IF thread["drain"].at = "off" THEN "idle" ELSE thread["drain"].at

\* An event goes, and the length was looked at before the ring was full.
Unseen(c) == Len(ring) >= setup.capacity /\ ~thread[c].full

\* submit: what was full is counted, and the event is in the ring.
Put(c) ==
  /\ thread[c].at = "put" /\ Calling
  /\ calls' = calls + 1
  /\ counts' = [counts EXCEPT !.dropped = @ + IF thread[c].full THEN 1 ELSE 0,
                              !.missed = @ + IF Unseen(c) THEN 1 ELSE 0]
  /\ ring' = Appended(calls + 1)
  /\ thread' = [thread EXCEPT ![c].at = "off", !["drain"].at = Started]
  /\ UNCHANGED <<setup, life, stream, sidecar, reader>>

\* FileEventSink.record, not during a flush.
Record ==
  /\ ~Python /\ life = "active" /\ calls < MaxCalls /\ Waits("drain")
  /\ calls' = calls + 1
  /\ counts' = [counts EXCEPT !.dropped = @ + IF Len(ring) >= setup.capacity THEN 1 ELSE 0]
  /\ ring' = Appended(calls + 1)
  /\ thread' = [thread EXCEPT !["drain"].at = "idle"]
  /\ UNCHANGED <<setup, life, stream, sidecar, reader>>

(***************************************************************************)
(* Draining: the thread, and close                                         *)
(***************************************************************************)

\* Where a drain goes once there is nothing more to write: the thread of a stopped
\* writer ends, and close always states what happened.
After(t) == IF t = "close" THEN "status" ELSE IF life = "closing" THEN "done" ELSE "idle"

\* The wait of _drain_forever runs out or is cut short; the timer of the sink fires.
Wake ==
  /\ thread["drain"].at = "idle" /\ life \in {"active", "closing"}
  /\ ring # <<>> \/ life = "closing"
  /\ thread' = [thread EXCEPT !["drain"].at = "take"]
  /\ UNCHANGED <<setup, life, calls, ring, counts, stream, sidecar, reader>>

\* _serialise_batch, one event: popleft, and a line or a loss.
Take(t) ==
  /\ Python /\ thread[t].at = "take" /\ ring # <<>>
  /\ ring' = Tail(ring)
  /\ \/ /\ thread' = [thread EXCEPT ![t].batch = Append(@, Head(ring))]
        /\ counts' = counts
     \/ /\ Faulty("spoilt")
        /\ counts' = [counts EXCEPT !.dropped = @ + 1]
        /\ thread' = thread
  /\ UNCHANGED <<setup, life, calls, stream, sidecar, reader>>

\* The sink's flush takes the whole buffer and leaves it there.
TakeAll(t) ==
  /\ ~Python /\ thread[t].at = "take" /\ ring # <<>>
  /\ thread' = [thread EXCEPT ![t].batch = ring, ![t].at = "write"]
  /\ UNCHANGED <<setup, life, calls, ring, counts, stream, sidecar, reader>>

Taken(t) ==
  /\ thread[t].at = "take" /\ ring = <<>>
  /\ thread' = [thread EXCEPT ![t].at = IF thread[t].batch = <<>> THEN After(t) ELSE "write"]
  /\ UNCHANGED <<setup, life, calls, ring, counts, stream, sidecar, reader>>

\* An append to a file whose last line is cut runs its first line into it.
Extended(s, batch) ==
  IF batch = <<>> THEN s
  ELSE [lines |-> s.lines \o IF s.cut THEN Tail(batch) ELSE batch, cut |-> FALSE]

\* What is in the file when an append stops half way: some lines, with a piece of
\* the next or without.  A piece that lacks only its newline is taken as torn.
Halves(s, batch) ==
  {[lines |-> Append(Extended(s, SubSeq(batch, 1, n)).lines, Torn), cut |-> TRUE] :
     n \in (IF s.cut THEN 1 ELSE 0) .. Len(batch) - 1}
  \cup {Extended(s, SubSeq(batch, 1, n)) : n \in 0 .. Len(batch)}

\* The append, and the count it is about to be added to.
Write(t) ==
  /\ thread[t].at = "write"
  /\ \/ /\ stream' = Extended(stream, thread[t].batch)
        /\ thread' = [thread EXCEPT ![t].at = "written", ![t].base = counts.written]
     \/ /\ Faulty("append")
        /\ stream' \in Halves(stream, thread[t].batch)
        /\ thread' = [thread EXCEPT ![t].at = "failed", ![t].base = counts.dropped]
  /\ UNCHANGED <<setup, life, calls, ring, counts, sidecar, reader>>

\* Mutant of Emptied: a flush leaves what it wrote in the buffer.
NotEmptied == ring
\* The buffer of a sink is emptied once the outcome is known.
Emptied == IF Python THEN ring ELSE <<>>

CountWritten(t) ==
  /\ thread[t].at = "written"
  /\ counts' = [counts EXCEPT !.written = thread[t].base + Len(thread[t].batch)]
  /\ ring' = Emptied
  /\ thread' = [thread EXCEPT ![t].at = "status", ![t].batch = <<>>]
  /\ UNCHANGED <<setup, life, calls, stream, sidecar, reader>>

\* Mutant of CountDropped: a batch that was not written is one loss.
CountOneDropped(t) ==
  /\ thread[t].at = "failed"
  /\ counts' = [counts EXCEPT !.dropped = thread[t].base + 1,
                              !.missed = @ + (counts.dropped - thread[t].base)]
  /\ ring' = Emptied
  /\ thread' = [thread EXCEPT ![t].batch = <<>>,
                  ![t].at = IF Python THEN After(t) ELSE "status"]
  /\ UNCHANGED <<setup, life, calls, stream, sidecar, reader>>

\* A batch that was not written is a loss of its length, added to a count that may
\* have moved since.  The writer raises past its status, the sink goes on to it.
CountDropped(t) ==
  /\ thread[t].at = "failed"
  /\ counts' = [counts EXCEPT !.dropped = thread[t].base + Len(thread[t].batch),
                              !.missed = @ + (counts.dropped - thread[t].base)]
  /\ ring' = Emptied
  /\ thread' = [thread EXCEPT ![t].batch = <<>>,
                  ![t].at = IF Python THEN After(t) ELSE "status"]
  /\ UNCHANGED <<setup, life, calls, stream, sidecar, reader>>

\* write_status: the document is made, and the file is opened, which empties it.
OpenStatus(t) ==
  /\ thread[t].at = "status"
  /\ \/ /\ sidecar' = Blank
        /\ thread' = [thread EXCEPT ![t].doc = Document, ![t].at = "fill"]
     \/ /\ Faulty("status") /\ sidecar' = sidecar
        /\ thread' = [thread EXCEPT ![t].at = "stated"]
  /\ UNCHANGED <<setup, life, calls, ring, counts, stream, reader>>

FillStatus(t) ==
  /\ thread[t].at = "fill"
  /\ \/ sidecar' = thread[t].doc
     \/ Faulty("status") /\ sidecar' = Blank
  /\ thread' = [thread EXCEPT ![t].at = "stated", ![t].doc = Absent]
  /\ UNCHANGED <<setup, life, calls, ring, counts, stream, reader>>

\* Back from write_status: close is over, and so is a start; the thread goes on.
Stated(t) ==
  /\ thread[t].at = "stated"
  /\ thread' = [thread EXCEPT ![t].at =
                  IF t = "close" THEN "off" ELSE IF life = "closing" THEN "done" ELSE "idle"]
  /\ life' = IF t = "close" /\ life = "closing" THEN "over" ELSE life
  /\ UNCHANGED <<setup, calls, ring, counts, stream, sidecar, reader>>

(***************************************************************************)
(* Ending                                                                  *)
(***************************************************************************)

\* atexit, once the application's threads have ended, but for the daemons; the exit
\* event of Node, which no flush is in the middle of.
BeginClose ==
  /\ life = "active" /\ Waits("close")
  /\ Faulty("daemon") \/ \A c \in setup.callers : Waits(c)
  /\ ~Python => Waits("drain")
  /\ life' = "closing"
  /\ thread' = [thread EXCEPT !["close"].at = IF Python THEN "join" ELSE "take",
                              !["drain"].at = IF Python THEN @ ELSE "done"]
  /\ UNCHANGED <<setup, calls, ring, counts, stream, sidecar, reader>>

\* Mutant of Join: it is not waited for the thread.
JoinNobody ==
  /\ life = "closing" /\ thread["close"].at = "join"
  /\ thread' = [thread EXCEPT !["close"].at = "take"]
  /\ UNCHANGED <<setup, life, calls, ring, counts, stream, sidecar, reader>>

\* thread.join, which may time out.
Join ==
  /\ life = "closing" /\ thread["close"].at = "join"
  /\ thread["drain"].at \in {"off", "done"} \/ Faulty("slow")
  /\ thread' = [thread EXCEPT !["close"].at = "take"]
  /\ UNCHANGED <<setup, life, calls, ring, counts, stream, sidecar, reader>>

\* A kill, and an append it cuts short.
Kill ==
  /\ life \notin {"new", "over", "killed"}
  /\ life' = "killed"
  /\ stream' \in {stream} \cup UNION {Halves(stream, thread[t].batch) :
                                        t \in {d \in Drains : thread[d].at = "write"}}
  /\ UNCHANGED <<setup, calls, ring, thread, counts, sidecar, reader>>

(***************************************************************************)
(* The collector                                                           *)
(***************************************************************************)

Exists == {f \in {"stream", "sidecar"} :
             IF f = "stream" THEN stream.lines # <<>> ELSE sidecar # Absent}

Ended == life \in {"over", "killed"} \/ (life = "disowned" /\ Waits("close"))

\* hook_files.  late is an observer: the process had ended before.
List ==
  /\ reader.at = "none"
  /\ reader' = [reader EXCEPT !.at = "stream", !.listed = Exists,
                              !.late = Ended]
  /\ UNCHANGED <<setup, life, calls, ring, thread, counts, stream, sidecar>>

\* What a reader may see: the file, or one that an append is half way through.
Views ==
  {stream} \cup UNION {Halves(stream, thread[t].batch) :
                         t \in {d \in Drains : thread[d].at = "write" /\ life # "killed"}}

\* read_event_file: whole lines are events, the others are counted.
ReadStream ==
  /\ reader.at = "stream"
  /\ \E seen \in Views :
       LET torn == {k \in 1 .. Len(seen.lines) : seen.lines[k] = Torn}
       IN  reader' = IF "stream" \notin reader.listed
                     THEN [reader EXCEPT !.at = "sidecar"]
                     ELSE [reader EXCEPT !.at = "sidecar",
                             !.got = ToSet(seen.lines) \ {Torn},
                             !.dropped = @ + Cardinality(torn),
                             !.windows = IF "sidecar" \in reader.listed THEN @
                                         ELSE Append(@, Unmeasured)]
  /\ UNCHANGED <<setup, life, calls, ring, thread, counts, stream, sidecar>>

\* status::read
Accounted(doc) ==
  IF doc = Blank THEN [dropped |-> 0, window |-> Unmeasured]
  ELSE [dropped |-> doc.dropped, window |-> IF doc.active THEN doc.until ELSE 0]

ReadSidecar ==
  /\ reader.at = "sidecar"
  /\ reader' = IF "sidecar" \notin reader.listed THEN [reader EXCEPT !.at = "done"]
               ELSE LET said == Accounted(sidecar)
                    IN  [reader EXCEPT !.at = "done", !.dropped = @ + said.dropped,
                                       !.windows = Append(@, said.window)]
  /\ UNCHANGED <<setup, life, calls, ring, thread, counts, stream, sidecar>>

\* WindowFold: the shortest, and one that could not say makes all of them so.
Window ==
  IF reader.windows = <<>> \/ Unmeasured \in ToSet(reader.windows) THEN Unmeasured
  ELSE CHOOSE w \in ToSet(reader.windows) : \A v \in ToSet(reader.windows) : w <= v

(***************************************************************************)
(* The whole                                                               *)
(***************************************************************************)

Running == life \notin {"over", "killed"}
Draining(t) == /\ Running
               /\ Take(t) \/ TakeAll(t) \/ Taken(t) \/ Write(t) \/ CountWritten(t)
                  \/ CountDropped(t) \/ OpenStatus(t) \/ FillStatus(t) \/ Stated(t)
Collect == List \/ ReadStream \/ ReadSidecar

Next ==
  \/ Declare \/ Instrument \/ Disown
  \/ \E c \in setup.callers : Look(c) \/ Put(c)
  \/ Record \/ Wake
  \/ \E t \in Drains : Draining(t)
  \/ BeginClose \/ Join \/ Kill
  \/ Collect

\* The drain thread is scheduled and the timer fires; a process that has begun to
\* close gets to its end.  Nothing makes the application call or exit.
Fairness ==
  /\ WF_vars(Wake) /\ WF_vars(Join)
  /\ \A t \in Drains : WF_vars(Draining(t))

Spec == Init /\ [][Next]_vars /\ Fairness

(***************************************************************************)
(* Properties                                                              *)
(***************************************************************************)

Delivered == ToSet(stream.lines) \ {Torn}
Kept == (ToSet(ring) \cup UNION {ToSet(thread[t].batch) : t \in Drains}) \ Delivered
TornLines == Cardinality({k \in 1 .. Len(stream.lines) : stream.lines[k] = Torn})

Channel == INSTANCE EventChannel WITH
  submitted <- calls, pending <- Kept, delivered <- Delivered,
  lines <- Len(stream.lines) - TornLines,
  excused <- counts.dropped + counts.missed + TornLines, alive <- Running

\* writer.py, event-writer.ts: while the process runs a call is in the hook, one line
\* of the stream, covered by the count or a torn line, or one of those that the two
\* races of the Python hook keep from the count; and in the stream never twice.  This
\* whatever fails, whoever interleaves, and beside a close that did not wait for its
\* thread: no other path loses a call unseen.
ImplementsEventChannel == Channel!Spec

\* Where those races cannot be: one thread or a ring that never fills, and no failed
\* append beside another loss.
CountsEveryLoss(s) ==
  s.hook = "python" =>
    /\ Cardinality(s.callers) <= 1 \/ MaxCalls <= s.capacity
    /\ "append" \in s.faults => MaxCalls <= s.capacity /\ s.faults \cap {"slow", "daemon"} = {}

\* There the count has every loss, and in a Node process always: dropped_events_count
\* falls short in no other way.
OnlyRacesGoUncounted == CountsEveryLoss(setup) => counts.missed = 0

\* writer.py:18-20, "every path out of the ring below either ends in a written line or
\* in the drop counter".  It does not hold: two threads can share the last place of a
\* ring that fills, and then the event that goes is in neither.
EveryLossIsCounted ==
  Running => Cardinality((1 .. calls) \ (Kept \cup Delivered)) <= counts.dropped + TornLines

\* The collector's answer about a process that had ended: everything up to the window
\* it states is in the events or in the count, but for what the hook itself missed.
\* After a clean exit the window is the whole run, and after a start that opened a
\* stream and then failed it is no time at all (bootstrap.py).  Left out are a killed
\* Python process, a status that could not be written, and a close that somebody
\* outlives, a drain thread or a daemon: for those the code gives a wrong window.
WindowIsBacked ==
  reader.at = "done" /\ reader.late =>
    /\ life # "disowned" /\ setup.faults \cap {"slow", "daemon", "status"} = {}
       /\ (Python => life = "over")
       => /\ Cardinality((1 .. Window - 1) \ reader.got) <= reader.dropped + counts.missed
          /\ life = "over" => Window = calls + 1
    /\ life = "disowned" /\ ~Faulty("status") => Window <= 0

\* As long as the process runs there is again a moment at which its hook holds no call
\* and is in the middle of no close: what was submitted was written or counted, and a
\* process that starts to close ends.
EveryCallIsSettled == []<>(~Running \/ (Kept = {} /\ life # "closing"))
=============================================================================
