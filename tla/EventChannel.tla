---------------------------- MODULE EventChannel ----------------------------
(***************************************************************************)
(* What a runtime hook promises of the calls it observes: an observed call *)
(* is kept, delivered to the stream, or covered by the count of losses.    *)
(* hooks/python/periskop_hook/writer.py: "every path out of the ring below *)
(* either ends in a written line or in the drop counter".  A delivered     *)
(* call is one line of the stream, and only the end of the process may     *)
(* take what is still kept.                                                *)
(***************************************************************************)
EXTENDS Integers, FiniteSets

VARIABLES
  submitted,  \* how many calls were observed; they are numbered from one
  pending,    \* those the hook still has
  delivered,  \* those that are whole lines of the stream
  lines,      \* how many whole lines the stream has
  excused,    \* how many losses the hook and its stream own up to
  alive

vars == <<submitted, pending, delivered, lines, excused, alive>>

Lost == (1 .. submitted) \ (pending \cup delivered)

Init ==
  /\ submitted = 0 /\ pending = {} /\ delivered = {} /\ lines = 0 /\ excused = 0
  /\ alive = TRUE

\* Some of what is kept becomes a line each.
Deliver ==
  /\ delivered' \in {delivered \cup got : got \in SUBSET pending}
  /\ lines' = lines + Cardinality(delivered' \ delivered)

\* One more call is observed.
Submit ==
  /\ alive
  /\ submitted' = submitted + 1
  /\ pending' \in {kept \cup {submitted'} : kept \in SUBSET pending}
  /\ excused' \in excused .. excused + 1
  /\ Cardinality(Lost') <= excused'
  /\ UNCHANGED <<delivered, lines, alive>>

\* Some of what is kept is settled.
Settle ==
  /\ alive
  /\ pending' \in SUBSET pending
  /\ Deliver
  /\ excused' >= excused
  /\ Cardinality(Lost') <= excused'
  /\ UNCHANGED <<submitted, alive>>

\* The process ends, some of it delivered on the way out.
End ==
  /\ alive /\ alive' = FALSE
  /\ Deliver
  /\ pending' = pending \ delivered'
  /\ excused' >= excused
  /\ UNCHANGED submitted

Next == Submit \/ Settle \/ End

Spec == Init /\ [][Next]_vars
=============================================================================
