--------------------------- MODULE MCStreamRelay ---------------------------
(***************************************************************************)
(* Instances of StreamRelay for TLC.  "P" stands for the letters of an     *)
(* alias before its number, so <<"P", "1">> is PERSON_1 and <<"P", "1",    *)
(* "1">> is PERSON_11; "1" and "2" are digits and ordinary text as well.   *)
(***************************************************************************)
EXTENDS StreamRelay

BothLanes == <<0, 1>>
One == <<"P", "1">>
Eleven == <<"P", "1", "1">>

Says(l, text) == [kind |-> "text", slots |-> <<[lane |-> l, text |-> text]>>]
AMark == [kind |-> "mark"]
AnEnd == [kind |-> "end"]

\* Every text of one or two letters, in one lane.
OneLane == {Says(0, text) : text \in SeqOf({"P", "1", "2"}, 2) \ {<<>>}}
\* One letter at a time in two lanes.
TwoLanes == {Says(l, <<c>>) : l \in {0, 1}, c \in {"P", "1"}} \cup {AMark, AnEnd}
\* A frame with a word for each of two lanes.
TwoChoices ==
  {[kind |-> "text",
    slots |-> <<[lane |-> 0, text |-> <<"1">>], [lane |-> 1, text |-> <<"2">>]>>]}

Policy(aliases, waits, budget, sends, chunk, letters, frames) ==
  [aliases |-> aliases, waits |-> waits, budget |-> budget, sends |-> sends,
   chunk |-> chunk, letters |-> letters, frames |-> frames]

\* One conversation with PERSON_1, and one that went on to PERSON_11; a stream
\* that waits, one that may hold for an instant, and one that may not hold.
OneText ==
  {Policy(aliases, hold.waits, hold.budget, OneLane, 1, 5, 4) :
     aliases \in {{One}, {One, Eleven}},
     hold \in {[waits |-> TRUE, budget |-> 1], [waits |-> FALSE, budget |-> 1],
               [waits |-> FALSE, budget |-> 0]}}
\* Two texts, with frames between them, two to a chunk.
TwoTexts == {Policy({One}, waits, 1, TwoLanes, 2, 5, 5) : waits \in BOOLEAN}
EveryPolicy == OneText \cup TwoTexts

ChoicesPolicy == {Policy({One, Eleven}, TRUE, 1, TwoChoices, 1, 4, 2)}
=============================================================================
