------------------------------ MODULE Detection ------------------------------
(***************************************************************************)
(* What the masking proxy claims about one piece of text: the pattern      *)
(* layer, the dictionary layer, the fenced segments they run over and the  *)
(* merge that makes one answer of them (crates/periskop-proxy/src/detect). *)
(*                                                                         *)
(* A text is a sequence of units.  A unit is a run of characters of one    *)
(* kind, already case folded: a piece of a word, a blank, an apostrophe, a *)
(* fence.  A claim is a record [entity, first, last] over unit positions,  *)
(* both ends inside.                                                       *)
(***************************************************************************)
EXTENDS Integers, FiniteSets, SequencesExt

CONSTANTS Words,          \* the units made of word characters
          Fence,          \* three backticks
          Apostrophe,
          Affixes,       \* the inflectional suffixes listed, each a unit
          Harmony(_, _),  \* may this suffix follow that unit
          LongEnough(_),  \* is this base as long as min_base_chars asks
          MaxAffixChain,
          IsShape(_, _),  \* is this text a whole match of the type's expression
          Admit(_, _),    \* {<<from, to>>} the gate admits in a match, or {}
          RetryMaxRuns

\* The types the two layers own, in the order EntityType declares them.
EntityOrder == <<"IBAN", "TCKN", "VKN", "CREDIT_CARD", "EMAIL", "PHONE", "IPV4", "IPV6",
                 "API_KEY", "SECRET", "URL", "HOST", "DATE",
                 "PERSON", "ORG", "LOC", "ADDRESS">>
DictionaryTypes == {"PERSON", "ORG", "LOC", "ADDRESS", "HOST", "SECRET"}
PatternTypes == ToSet(EntityOrder) \ DictionaryTypes
Rank(entity) == CHOOSE i \in DOMAIN EntityOrder : EntityOrder[i] = entity
Layer(entity) == IF entity \in PatternTypes THEN 2 ELSE 1

Slice(text, span) == SubSeq(text, span[1], span[2])
Width(span) == span[2] - span[1] + 1
SpanOf(claim) == <<claim.first, claim.last>>
Shared(a, b) == a[1] <= b[2] /\ b[1] <= a[2]
IsWord(text, i) == i \in DOMAIN text /\ text[i] \in Words

\* The leftmost of the spans, and of those that begin there the longest.
LeftmostLongest(spans) ==
  CHOOSE s \in spans : \A t \in spans : s[1] < t[1] \/ (s[1] = t[1] /\ s[2] >= t[2])
\* The longest of the spans, and of the longest the leftmost.
Longest(spans) ==
  CHOOSE s \in spans : \A t \in spans : Width(s) > Width(t) \/ (Width(s) = Width(t) /\ s[1] <= t[1])
SpansFrom(text, from) == {s \in (from..Len(text)) \X (from..Len(text)) : s[1] <= s[2]}

-----------------------------------------------------------------------------
(* Layer A: every detector walks the text on its own.                      *)

\* Where a detector's expression matches when it is run from a position.
Matches(entity, text, from) ==
  {s \in SpansFrom(text, from) : /\ ~IsWord(text, s[1] - 1) /\ ~IsWord(text, s[2] + 1)
                                 /\ IsShape(entity, Slice(text, s))}

\* The edges of a region and of the runs of word characters inside it.
RunStarts(text, region) ==
  {i \in region[1]..region[2] : IsWord(text, i) /\ (i = region[1] \/ ~IsWord(text, i - 1))}
RunEnds(text, region) ==
  {i \in region[1]..region[2] : IsWord(text, i) /\ (i = region[2] \/ ~IsWord(text, i + 1))}

\* The parts of a region that are the shape and that the gate admits.
Readings(entity, text, region) ==
  IF Cardinality(RunStarts(text, region)) > RetryMaxRuns THEN {}
  ELSE {s \in (RunStarts(text, region) \cup {region[1]})
              \X (RunEnds(text, region) \cup {region[2]}) :
          /\ s[1] <= s[2]
          /\ IsShape(entity, Slice(text, s))
          /\ Admit(entity, Slice(text, s)) # {}}

\* Mutant: a match the gate refuses is the end of its region.
ReadWhole(entity, text, region) ==
  IF Admit(entity, Slice(text, region)) # {} THEN {region} ELSE {}

\* What a region is read as: the whole match when the gate admits it, otherwise
\* the longest reading inside it.
ReadAs(entity, text, region) ==
  IF Admit(entity, Slice(text, region)) # {} THEN {region}
  ELSE LET readings == Readings(entity, text, region)
       IN IF readings = {} THEN {} ELSE {Longest(readings)}

\* The walk of one detector: the readings it stops at.  It goes on behind what
\* it admitted, or behind the region when nothing in it was.
Walk(entity, text) ==
  LET after[from \in 1..(Len(text) + 1)] ==
        LET hits == Matches(entity, text, from)
        IN IF hits = {} THEN {}
           ELSE LET region == LeftmostLongest(hits)
                    reading == ReadAs(entity, text, region)
                    resume == IF reading = {} THEN region[2] ELSE (CHOOSE r \in reading : TRUE)[2]
                IN reading \cup after[resume + 1]
  IN after[1]

PatternScan(text) ==
  UNION {{[entity |-> e, first |-> r[1] + t[1] - 1, last |-> r[1] + t[2] - 1] :
            t \in Admit(e, Slice(text, r))} : <<e, r>> \in
              UNION {{e} \X Walk(e, text) : e \in PatternTypes}}

-----------------------------------------------------------------------------
(* Layer B: one leftmost-longest pass over the word list.                  *)

\* The rest of the word a match ends in: an apostrophe and the word units after it.
WordTail(text, last) ==
  LET opens == last + 1 \in DOMAIN text /\ text[last + 1] = Apostrophe
      run == IF opens THEN last + 2 ELSE last + 1
      stops == {i \in run..(Len(text) + 1) : ~IsWord(text, i)}
  IN IF last >= Len(text) THEN <<>>
     ELSE SubSeq(text, last + 1, (CHOOSE i \in stops : \A j \in stops : i <= j) - 1)

\* A chain of listed suffixes, each in harmony with what it follows.
IsSuffixChain(base, tail) ==
  /\ Len(tail) <= MaxAffixChain
  /\ \A i \in DOMAIN tail : /\ tail[i] \in Affixes
                            /\ Harmony(IF i = 1 THEN Last(base) ELSE tail[i - 1], tail[i])

TailIsAnAffix(base, tail) ==
  \/ tail[1] = Apostrophe
  \/ LongEnough(base) /\ IsSuffixChain(base, tail)

BoundariesHold(list, text, span) ==
  LET tail == WordTail(text, span[2])
  IN /\ ~IsWord(text, span[1] - 1)
     /\ tail # <<>> => list.affixes /\ TailIsAnAffix(Slice(text, span), tail)

Listed(list, text) == {s \in SpansFrom(text, 1) : Slice(text, s) \in DOMAIN list.entries}

\* The hits of the automaton: each search goes on behind the last hit, and the
\* boundaries are looked at afterwards.
Hits(list, text) ==
  LET after[from \in 1..(Len(text) + 1)] ==
        LET hits == {s \in Listed(list, text) : s[1] >= from}
        IN IF hits = {} THEN {}
           ELSE LET hit == LeftmostLongest(hits) IN {hit} \cup after[hit[2] + 1]
  IN after[1]

DictionaryScan(list, text) ==
  {[entity |-> list.entries[Slice(text, s)], first |-> s[1], last |-> s[2]] :
     s \in {h \in Hits(list, text) : BoundariesHold(list, text, h)}}

-----------------------------------------------------------------------------
(* Segments and the merge.                                                 *)

Before(a, b) == a < b
Fences(text) == SetToSortSeq({i \in DOMAIN text : text[i] = Fence}, Before)

\* A fence opens a block that the next one closes; one left open runs to the end.
CodeSegments(text) ==
  {<<Fences(text)[i], IF i < Len(Fences(text)) THEN Fences(text)[i + 1] ELSE Len(text)>> :
     i \in {j \in DOMAIN Fences(text) : j % 2 = 1}}
IsCode(text, i) == \E s \in CodeSegments(text) : i \in s[1]..s[2]
\* The longest runs outside every block.
ProseSegments(text) ==
  {s \in SpansFrom(text, 1) : /\ \A i \in s[1]..s[2] : ~IsCode(text, i)
                              /\ s[1] = 1 \/ IsCode(text, s[1] - 1)
                              /\ s[2] = Len(text) \/ IsCode(text, s[2] + 1)}
Segments(text) == {[code |-> TRUE, span |-> s] : s \in CodeSegments(text)}
                    \cup {[code |-> FALSE, span |-> s] : s \in ProseSegments(text)}

PatternRuns(segment, code) == ~segment.code \/ code # "skip"
DictionaryRuns(segment, code) == ~segment.code \/ code = "full"

Shift(claims, by) ==
  {[entity |-> c.entity, first |-> c.first + by, last |-> c.last + by] : c \in claims}

\* Every claim of both layers, in the coordinates of the whole text.
Claims(policy, text) ==
  UNION {LET part == Slice(text, s.span)
             found == (IF PatternRuns(s, policy.code) THEN PatternScan(part) ELSE {})
                        \cup (IF DictionaryRuns(s, policy.code)
                              THEN DictionaryScan(policy.list, part) ELSE {})
         IN Shift(found, s.span[1] - 1) : s \in Segments(text)}

\* Who wins an overlap: the surer layer, then the wider claim, then the earlier,
\* then the type declared first.
Outranks(a, b) ==
  LET key(c) == <<-Layer(c.entity), -Width(SpanOf(c)), c.first, Rank(c.entity)>>
      x == key(a)
      y == key(b)
  IN \E i \in 1..4 : x[i] < y[i] /\ \A j \in 1..(i - 1) : x[j] = y[j]

KeepUnlessOverlapped(kept, claim) ==
  IF \E held \in kept : Shared(SpanOf(held), SpanOf(claim)) THEN kept ELSE kept \cup {claim}

\* The claims that stand: taken in order of rank, one that overlaps a claim
\* already kept is dropped.
Merge(claims) == FoldLeft(KeepUnlessOverlapped, {}, SetToSortSeq(claims, Outranks))

\* What a scan admits it did not look for.
Degraded(policy, text) ==
  {"ner_disabled"}
    \cup (IF \E s \in Segments(text) : s.code /\ ~DictionaryRuns(s, policy.code)
          THEN {"code_block_skipped"} ELSE {})
    \cup (IF policy.list.available THEN {} ELSE {"dictionary_unavailable"})

-----------------------------------------------------------------------------
(* What the layers owe a text, stated without the way they look for it.    *)

\* The values that stand in a text: a listed name on word boundaries, a text the
\* gate of its type admits.
StandingNames(list, text) == {s \in Listed(list, text) : BoundariesHold(list, text, s)}
StandingValues(entity, text) ==
  {s \in Matches(entity, text, 1) : Admit(entity, Slice(text, s)) # {}}

=============================================================================
