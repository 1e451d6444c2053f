----------------------------- MODULE MCReconcile -----------------------------
(***************************************************************************)
(* Instances of Reconcile for TLC.  Destinations 1 and 2 are names, 9 is   *)
(* an address; the providers 1 and 2 serve the names 1 and 2.              *)
(***************************************************************************)
EXTENDS Reconcile

TwoNames == {1, 2}

Point(id, op, target, provider) ==
  [id |-> id, op |-> op, target |-> target, provider |-> provider]
Call(id, op, host, size) ==
  [id |-> id, op |-> op, host |-> host, unresolved |-> host = None, provider |-> host,
   size |-> size]
Flow(id, name, proc, scope, start, last, bytes) ==
  [id |-> id, name |-> name, addr |-> 9, provider |-> name, proc |-> proc, scope |-> scope,
   attribution |-> 0, start |-> start, last |-> last, bytes |-> bytes]

\* A run with the three sources and a volume band of 50% to 150%.
Full ==
  [declared |-> TRUE, runtime |-> TRUE, wire |-> TRUE, watched |-> TRUE,
   band |-> <<5000, 15000>>, tolerance |-> 1, points |-> {}, calls |-> {}, flows |-> {},
   room |-> <<0, 0, 0>>]

\* The ladder: points with and without an operation and a destination, of two vendors;
\* calls that name both, one or neither.
Code == {Point(1, 1, 1, 1), Point(2, 1, None, 2), Point(3, None, 2, 1), Point(4, 2, 2, 2)}
Ran == {Call(1, 1, 1, 2), Call(2, 2, None, 2), Call(3, 3, 2, 0), Call(4, 1, 2, 1),
        [Call(5, 3, 9, 1) EXCEPT !.provider = 1],
        [Call(6, 1, 1, 1) EXCEPT !.unresolved = TRUE]}
Ladder == [Full EXCEPT !.points = Code, !.calls = Ran, !.room = <<3, 3, 0>>]

\* Connections of two processes to one destination, read at the connect and at the
\* close, some of them uncounted; one to an address, and one out of scope.
Wire == {Flow(1, 1, 1, 0, 0, 0, 1), Flow(1, 1, 1, 0, 0, 3, 2),
         Flow(2, 1, 1, 0, 0, 1, 1), Flow(3, 1, 1, 0, 4, 4, NotCounted), Flow(3, 1, 1, 0, 4, 6, 2),
         Flow(4, 1, 2, 0, 1, 1, 1), Flow(5, None, 1, 0, 1, 1, 1),
         Flow(6, 1, 1, 1, 1, 1, 1)}
Traffic == [Full EXCEPT !.flows = Wire, !.room = <<0, 0, 5>>]

\* The three together.
Together ==
  [Full EXCEPT !.points = {Point(1, 1, 1, 1), Point(2, 1, None, 2)},
               !.calls = {Call(1, 1, 1, 2), Call(2, 2, None, 2), Call(3, 1, 2, 0),
                          Call(4, 1, 2, 4)},
               !.flows = {Flow(1, 1, 1, 0, 0, 0, 2), Flow(2, 1, 1, 0, 2, 2, 2),
                          Flow(3, 2, 1, 0, 0, 0, 1), Flow(4, 2, 2, 1, 1, 1, 1),
                          Flow(5, None, 1, 0, 1, 1, 1), Flow(6, 2, 1, 0, 1, 1, NotCounted)},
               !.room = <<2, 2, 2>>]
Lacking ==
  {[Together EXCEPT !.declared = d, !.runtime = r, !.wire = w, !.watched = a, !.band = b,
                    !.room = <<1, 1, 2>>] :
     d, r, w, a \in BOOLEAN, b \in {<<>>, <<5000, 15000>>}}

\* A call that names a host and says that it was not resolved, beside connections.
Unsure ==
  [Full EXCEPT !.points = {Point(1, 1, 1, 1)},
               !.calls = {[Call(1, 1, 1, 2) EXCEPT !.unresolved = TRUE], Call(2, 2, None, 2)},
               !.flows = {Flow(1, 1, 1, 0, 0, 0, 2), Flow(2, 2, 1, 0, 2, 2, 2)},
               !.room = <<1, 2, 2>>]

EveryScene == {Ladder, Traffic, Together, Unsure} \cup Lacking
=============================================================================
