----------------------------- MODULE AliasScan -----------------------------
(***************************************************************************)
(* Which letters of a held text are settled, and which aliases are in it:  *)
(* crates/periskop-proxy/src/http/stream/automaton.rs, buffer.rs and       *)
(* flush.rs.  A text is a sequence of letters and an alias is a text.      *)
(*                                                                         *)
(* The automaton's node after a text is the longest end of the text that   *)
(* begins an alias, which is what its fail links compute, so the node is   *)
(* that end and its depth is the length of it.                             *)
(***************************************************************************)
EXTENDS Integers, Sequences, FiniteSets, SequencesExt

\* A loop of n turns from base, Op(x, k) being the k-th of them: FoldLeft over 1 .. n,
\* as a function of the turns, which is what is proved about.
Folded(Op(_, _), base, n) ==
  LET after[k \in 0 .. n] == IF k = 0 THEN base ELSE Op(after[k - 1], k)
  IN  after[n]

\* One text of the longest.
Longest(texts) == CHOOSE x \in texts : \A y \in texts : Len(y) <= Len(x)

\* Snapshot::longest.
LongestAlias(aliases) == IF aliases = {} THEN 0 ELSE Len(Longest(aliases))

\* step, over a whole text from the root.
Node(aliases, text) ==
  Longest({<<>>} \cup {s \in Suffixes(text) : \E a \in aliases : IsPrefix(s, a)})

\* hit: the longest alias that ends at a node, or the empty text.
HitAt(aliases, node) == Longest({<<>>} \cup {a \in aliases : IsSuffix(a, node)})

\* A Hit with no letters in it: no occurrence.
NoHit == [start |-> 0, end |-> 0]

\* The leftmost of two occurrences, and the longer of two that start together.
Preferred(current, candidate) ==
  IF \/ current = NoHit
     \/ candidate.start < current.start
     \/ candidate.start = current.start /\ candidate.end > current.end
  THEN candidate ELSE current

\* scan, one turn of its loop: a letter is read from where the last committed
\* occurrence ended, and an occurrence that can no longer grow is committed.
ScanStep(aliases, held, x) ==
  LET at   == x.at + 1
      node == Node(aliases, SubSeq(held, x.cursor + 1, at))
      hit  == HitAt(aliases, node)
      best == IF hit = <<>> THEN x.best
              ELSE Preferred(x.best, [start |-> at - Len(hit), end |-> at])
  IN  IF best # NoHit /\ Len(node) < at - best.start
      THEN [at |-> best.end, cursor |-> best.end, best |-> NoHit,
            hits |-> Append(x.hits, best)]
      ELSE [x EXCEPT !.at = at, !.best = best]

\* The loop, to the end of the text.  Every commit settles a letter or more and no
\* letter is read twice between two of them, which bounds its turns.
Turns(held) == (Len(held) + 1) * (Len(held) + 1)
Scanned(aliases, held) ==
  Folded(LAMBDA x, k : IF x.at = Len(held) THEN x ELSE ScanStep(aliases, held, x),
         [at |-> 0, cursor |-> 0, best |-> NoHit, hits |-> <<>>], Turns(held))

\* Scan: the committed occurrences, the pending one, and how many letters at the
\* end are undecided.
Scan(aliases, held) ==
  LET end == Scanned(aliases, held)
  IN  [hits |-> end.hits, pending |-> end.best,
       live |-> IF end.best # NoHit THEN Len(held) - end.best.start
                ELSE Len(Node(aliases, SubSeq(held, end.cursor + 1, Len(held))))]

Lesser(a, b) == IF a <= b THEN a ELSE b

\* Mutant of Decide: a complete alias counts as settled.
DecideGreedily(scan, held, ceiling, trigger, waits) ==
  LET live == IF scan.pending # NoHit THEN 0 ELSE scan.live
      clamped == Lesser(Lesser(live, ceiling), held)
  IN  IF trigger = "settled" \/ (trigger = "timeout" /\ waits)
      THEN [release |-> held - clamped, partial |-> FALSE]
      ELSE [release |-> held, partial |-> trigger = "timeout" /\ clamped > 0]

\* decide: the only thing that shortens a buffer.  F1 and F4 let everything go, F2
\* does in flush mode and says so, and nothing else reaches the live letters.
Decide(scan, held, ceiling, trigger, waits) ==
  LET clamped == Lesser(Lesser(scan.live, ceiling), held)
  IN  IF trigger = "settled" \/ (trigger = "timeout" /\ waits)
      THEN [release |-> held - clamped, partial |-> FALSE]
      ELSE [release |-> held, partial |-> trigger = "timeout" /\ clamped > 0]

\* A text that goes out as it stands: one piece per letter.
Spelt(text) == [k \in 1..Len(text) |-> <<text[k]>>]

\* The occurrences a release covers: the pending one too, once it reaches past it.
Occurrences(scan, release) ==
  SelectSeq(IF scan.pending = NoHit THEN scan.hits ELSE Append(scan.hits, scan.pending),
            LAMBDA h : h.end <= release)

\* release: the pieces that leave, in order.  A piece is an alias or one letter.
Pieces(scan, held, release) ==
  LET cut == FoldLeft(LAMBDA so, h :
                        [last |-> h.end,
                         out |-> so.out \o Spelt(SubSeq(held, so.last + 1, h.start))
                                 \o <<SubSeq(held, h.start + 1, h.end)>>],
                      [last |-> 0, out |-> <<>>], Occurrences(scan, release))
  IN  cut.out \o Spelt(SubSeq(held, cut.last + 1, release))

(***************************************************************************)
(* The reference: a text read from left to right, the longest alias first  *)
(***************************************************************************)

Reading(aliases, text) ==
  LET from[i \in 1 .. Len(text) + 1] ==
        LET here == {a \in aliases : IsPrefix(a, SubSeq(text, i, Len(text)))}
        IN  IF i > Len(text) THEN <<>>
            ELSE IF here = {} THEN <<<<text[i]>>>> \o from[i + 1]
            ELSE <<Longest(here)>> \o from[i + Len(Longest(here))]
  IN  from[1]
=============================================================================
