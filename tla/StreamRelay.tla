---------------------------- MODULE StreamRelay ----------------------------
(***************************************************************************)
(* The way back: frames of a streamed answer in, text held while it may    *)
(* still turn into an alias, values put back, frames out.  The Relay of    *)
(* crates/periskop-proxy/src/http/stream/mod.rs with the HoldClock of      *)
(* hold_timeout.rs and the frame shapes of frame.rs; AliasScan has the     *)
(* automaton and the flush rule.                                           *)
(*                                                                         *)
(* A Relay is one thread's: a chunk is pushed and handled in one step.     *)
(* Whether the vault resolves an alias is MaskingGateway's subject; here a *)
(* piece that is an alias is one the vault is asked about.                 *)
(***************************************************************************)
EXTENDS AliasScan

CONSTANTS
  Lanes,       \* the independent texts of one answer, choices or content blocks, in
               \* the order of their numbers
  Letter,
  Policies,    \* what a stream is set up with, [aliases, waits, budget], and the
               \* answers that may come over it: the frames the provider may send,
               \* and the bounds on the frames of a chunk (chunk) and on the letters
               \* and frames of one answer (letters, frames)
  None,
  MaxTime      \* bound: the clock

Lane == ToSet(Lanes)

ASSUME RelayAssumption ==
  /\ Lanes \in Seq(Nat) /\ None \notin Nat
  /\ \A p \in Policies :
       /\ p.aliases \subseteq Seq(Letter) /\ IsFiniteSet(p.aliases) /\ p.waits \in BOOLEAN
       /\ {p.budget, p.chunk, p.letters, p.frames, MaxTime} \subseteq Nat
       /\ \A f \in p.sends :
            \/ f.kind \in {"mark", "end"}
            \/ /\ f.kind = "text"
               /\ f.slots \in Seq([lane : Lane, text : Seq(Letter)])

VARIABLES
  policy,  \* the frozen snapshot and the hold settings of this stream, and its bounds
  now,     \* the clock push is called with
  relay,   \* the Relay
  phase    \* "open", or "finished"

vars == <<policy, now, relay, phase>>

\* One lane.  ages is an observer: when each held letter arrived.
NoLane == [held |-> <<>>, since |-> None, template |-> None, slot |-> 0, ages |-> <<>>]

\* The Relay, and what the two ends saw: sent is each lane's text as the provider
\* wrote it, gone how much of it left the buffer, shown what the client got.  A
\* frame that is not rewritten is known by how much text came before it.
NewRelay ==
  [lanes |-> [l \in Lane |-> NoLane], deferred |-> <<>>, partial |-> 0, cut |-> FALSE,
   taken |-> 0, sent |-> [l \in Lane |-> <<>>], gone |-> [l \in Lane |-> 0],
   shown |-> [l \in Lane |-> <<>>], passed |-> <<>>, over |-> FALSE]

\* Window::of: its floor of MIN_LOOKAHEAD bytes only raises it, and a live prefix
\* is never longer than the longest alias.
Ceiling == LongestAlias(policy.aliases)
Holding(r) == \E l \in Lane : r.lanes[l].held # <<>>
Mark(r) == [nth |-> r.taken, need |-> [l \in Lane |-> Len(r.sent[l])]]

(***************************************************************************)
(* Out: rendering, deferring, draining                                     *)
(***************************************************************************)

\* render and with_text: the template with one slot rewritten; its other slots are
\* what they were.
Reads(shown, f, slot, pieces) ==
  LET Adds(shown1, k) ==
        [shown1 EXCEPT ![f.slots[k].lane] =
           @ \o IF k = slot THEN pieces ELSE Spelt(f.slots[k].text)]
  IN  FoldLeft(Adds, shown, [k \in 1 .. Len(f.slots) |-> k])

\* Nothing released is nothing written.
Rendered(r, f, slot, pieces) ==
  IF pieces = <<>> THEN r ELSE [r EXCEPT !.shown = Reads(@, f, slot, pieces)]

Passing(r, m) == [mark |-> m, gone |-> r.gone]
Emitted(r, m) == [r EXCEPT !.passed = Append(@, Passing(r, m))]

\* Mutant of EmitOrDefer: only what already waits is waited for.
EmitPastTheHold(r, m) ==
  IF r.deferred # <<>> THEN [r EXCEPT !.deferred = Append(@, m)] ELSE Emitted(r, m)

\* emit_or_defer
EmitOrDefer(r, m) ==
  IF Holding(r) \/ r.deferred # <<>> THEN [r EXCEPT !.deferred = Append(@, m)]
  ELSE Emitted(r, m)

\* drain_deferred
Drained(r) ==
  IF Holding(r) THEN r
  ELSE [r EXCEPT !.passed = @ \o [k \in 1 .. Len(r.deferred) |-> Passing(r, r.deferred[k])],
                 !.deferred = <<>>]

(***************************************************************************)
(* Released text                                                           *)
(***************************************************************************)

\* Mutant of Observed: every arriving chunk starts the clock again.
Restarted(lane, t) == [lane EXCEPT !.since = IF lane.held = <<>> THEN None ELSE t]

\* HoldClock::observe
Observed(lane, t) ==
  [lane EXCEPT !.since = IF lane.held = <<>> THEN None
                         ELSE IF lane.since = None THEN t ELSE lane.since]

Expired(lane, t) == lane.since # None /\ t - lane.since >= policy.budget

\* Buffer::release for one lane, and the frame it is written into.
Released(r, l, f, slot, trigger, t) ==
  LET lane == r.lanes[l]
      scan == Scan(policy.aliases, lane.held)
      verdict == Decide(scan, Len(lane.held), Ceiling, trigger, policy.waits)
      n    == verdict.release
      left == Observed([lane EXCEPT !.held = SubSeq(@, n + 1, Len(@)),
                                    !.ages = SubSeq(@, n + 1, Len(@))], t)
  IN  Rendered([r EXCEPT !.lanes[l] = left, !.gone[l] = @ + n,
                         !.partial = IF verdict.partial THEN @ + 1 ELSE @],
               f, slot, Pieces(scan, lane.held, n))

\* flush_lane
FlushedLane(r, l, trigger, t) ==
  IF r.lanes[l].held = <<>> THEN r
  ELSE Released(r, l, r.lanes[l].template, r.lanes[l].slot, trigger, t)

\* flush_all, over the lanes that are due.
Flushed(r, due, trigger, t) ==
  Folded(LAMBDA r1, k : IF Lanes[k] \in due THEN FlushedLane(r1, Lanes[k], trigger, t)
                        ELSE r1,
         r, Len(Lanes))

\* check_timeouts
TimedOut(r, t) == Flushed(r, {l \in Lane : Expired(r.lanes[l], t)}, "timeout", t)

(***************************************************************************)
(* In: one frame                                                           *)
(***************************************************************************)

Filled(lane, f, slot, text, t) ==
  [lane EXCEPT !.held = @ \o text, !.ages = @ \o [k \in 1 .. Len(text) |-> t],
               !.template = f, !.slot = slot]

\* One slot of a frame that carries text.
TakenSlot(r, f, slot, t) ==
  LET l == f.slots[slot].lane
      text == f.slots[slot].text
      filled == [r EXCEPT !.lanes[l] = Filled(@, f, slot, text, t), !.sent[l] = @ \o text]
  IN  Released(filled, l, f, slot, "settled", t)

TakenText(r, f, t) ==
  Folded(LAMBDA r1, k : TakenSlot(r1, f, k, t), r, Len(f.slots))

\* take
Taken(r0, f, t) ==
  LET r == [r0 EXCEPT !.taken = @ + 1, !.over = @ \/ f.kind = "end"]
  IN  CASE f.kind = "end"  -> Emitted(Drained(Flushed(r, Lane, "end", t)), Mark(r))
        [] f.kind = "mark" -> EmitOrDefer(r, Mark(r))
        [] f.kind = "text" -> TakenText(r, f, t)

AllTaken(r, frames, t) ==
  Folded(LAMBDA r1, k : Taken(r1, frames[k], t), r, Len(frames))

\* push
Pushed(r, frames, t) == Drained(TimedOut(AllTaken(r, frames, t), t))

(***************************************************************************)
(* The stream                                                              *)
(***************************************************************************)

Init ==
  /\ policy \in Policies
  /\ now = 0 /\ relay = NewRelay /\ phase = "open"

\* How many letters a sequence of frames carries.
LettersIn(frames) ==
  FoldLeft(LAMBDA n, f : n + IF f.kind # "text" THEN 0
                             ELSE FoldLeft(LAMBDA k, s : k + Len(s.text), 0, f.slots),
           0, frames)
Written(r) == FoldLeft(LAMBDA n, l : n + Len(r.sent[l]), 0, Lanes)
Fits(frames) == /\ relay.taken + Len(frames) <= policy.frames
                /\ Written(relay) + LettersIn(frames) <= policy.letters

\* A provider's ending is the last frame it sends.
EndsLast(frames) == /\ relay.over => frames = <<>>
                    /\ \A k \in 1 .. Len(frames) - 1 : frames[k].kind # "end"

Tick ==
  /\ phase = "open" /\ now < MaxTime
  /\ now' = now + 1
  /\ UNCHANGED <<policy, relay, phase>>

\* A chunk completes some frames, or none: comments and cut frames complete none.
Push(frames) ==
  /\ phase = "open" /\ Fits(frames) /\ EndsLast(frames)
  /\ relay' = Pushed(relay, frames, now)
  /\ UNCHANGED <<policy, now, phase>>

\* finish: what the frame reader still has is taken as a last frame.
Finish(tail) ==
  /\ phase = "open" /\ Fits(tail) /\ EndsLast(tail)
  /\ LET read == AllTaken([relay EXCEPT !.cut = @ \/ tail # <<>>], tail, now)
     IN  relay' = Drained(Flushed(read, Lane, "end", now))
  /\ phase' = "finished"
  /\ UNCHANGED <<policy, now>>

\* fail: the reader's bytes are dropped and what the lanes hold is delivered.
Fail(midFrame) ==
  /\ phase = "open"
  /\ relay' = [Drained(Flushed(relay, Lane, "error", now)) EXCEPT
                 !.cut = @ \/ midFrame]
  /\ phase' = "finished"
  /\ UNCHANGED <<policy, now>>

Next ==
  \/ Tick
  \/ \E frames \in SeqOf(policy.sends, policy.chunk) : Push(frames)
  \/ \E tail \in SeqOf(policy.sends, 1) : Finish(tail)
  \/ \E midFrame \in BOOLEAN : Fail(midFrame)

Spec == Init /\ [][Next]_vars

(***************************************************************************)
(* Properties                                                              *)
(***************************************************************************)

\* flush.rs: wherever the network cuts the answer, the client reads what it would
\* read of the whole text, with every alias recognised as if it had come in one
\* piece.  Only a hold timeout may change that, and it is counted.
CutsAreInvisible ==
  relay.partial = 0 =>
    \A l \in Lane : relay.shown[l] \o Reading(policy.aliases, relay.lanes[l].held)
                    = Reading(policy.aliases, relay.sent[l])

\* hold_timeout.rs: in flush mode no letter is still held by a chunk that comes
\* when it has waited the budget, however steadily the stream produces.  In wait
\* mode no fragment is ever let out.
NoLetterOutstaysTheBudget ==
  [][ (\E frames \in SeqOf(policy.sends, policy.chunk) : Push(frames)) =>
        /\ policy.waits => relay'.partial = 0
        /\ ~policy.waits => \A l \in Lane :
             relay.lanes[l].held # <<>> /\ relay'.lanes[l].held # <<>>
             => now - relay'.lanes[l].ages[1] < policy.budget ]_vars

\* mod.rs: "a frame this proxy does not rewrite never overtakes text that is still
\* held".  All the text before it has left when it leaves, and such frames leave
\* in the order they came.
FramesWaitTheirTurn ==
  /\ \A k \in 1 .. Len(relay.passed) : \A l \in Lane :
       relay.passed[k].gone[l] >= relay.passed[k].mark.need[l]
  /\ \A k \in 1 .. Len(relay.passed) - 1 :
       relay.passed[k].mark.nth < relay.passed[k + 1].mark.nth
=============================================================================
