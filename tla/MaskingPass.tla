----------------------------- MODULE MaskingPass -----------------------------
(***************************************************************************)
(* The masking pass over the bodies of one conversation                    *)
(* (crates/periskop-proxy/src/http/request_path.rs with policy/scope.rs    *)
(* and alias/mint.rs): every string of the body is scanned, each claim is  *)
(* decided by the rules at its path, masked values are minted and filed,   *)
(* and the masked strings are written back.                                *)
(*                                                                         *)
(* A body is a sequence of leaves [path, raw].  A raw text that begins     *)
(* with "{" is a JSON document in a string: it is scanned as it is written *)
(* and, one level down, field by field.                                    *)
(***************************************************************************)
EXTENDS PolicyLoad

CONSTANTS Files,         \* the files an operator may have written
          Bodies,        \* the bodies a client may send
          MaxRequests,   \* bound: requests of the conversation
          MaxFailures,   \* bound: records the vault fails to file
          Unescaped,     \* [escaped unit -> the unit it spells]
          Pool(_),       \* the aliases of a type, in the order they are tried
          AliasShaped,   \* the units is_alias_shaped answers true for
          MaxAttempts

ASSUME BoundsAreNaturals == MaxRequests \in Nat /\ MaxFailures \in Nat /\ MaxAttempts \in Nat

VARIABLES file, policy, request, todo, current, left, out, pending, tally, degraded,
          minter, vault, failures, answer, served

pass == <<request, todo, current, left, out, pending, tally, degraded>>
settled == <<file, policy>>
vars == <<settled, pass, minter, vault, failures, answer, served>>

-----------------------------------------------------------------------------
(* The strings of a body.                                                  *)

Positions(raw, unit) == SetToSortSeq({i \in DOMAIN raw : raw[i] = unit}, Before)
IsDocument(raw) == raw # <<>> /\ raw[1] = "{"
Read(units) ==
  [i \in DOMAIN units |-> IF units[i] \in DOMAIN Unescaped THEN Unescaped[units[i]] ELSE units[i]]

\* A document is { key : text | key : text | }.
Fields(raw) ==
  LET colon == Positions(raw, ":")
      bar == Positions(raw, "|")
  IN [i \in DOMAIN colon |-> [key |-> raw[colon[i] - 1],
                              text |-> Read(SubSeq(raw, colon[i] + 1, bar[i] - 1))]]
Encode(fields) ==
  LET Field(i) == <<fields[i].key, ":">> \o fields[i].text \o <<"|">>
  IN <<"{">> \o FlattenSeq([i \in DOMAIN fields |-> Field(i)]) \o <<"}">>

\* The strings of a leaf in the order the walk reports them: the string itself,
\* then the fields of the document it carries.
StringsOf(leaf) ==
  <<[path |-> leaf.path, text |-> leaf.raw]>>
    \o (IF ~IsDocument(leaf.raw) THEN <<>>
        ELSE [i \in DOMAIN Fields(leaf.raw) |->
                [path |-> Append(leaf.path, Fields(leaf.raw)[i].key),
                 text |-> Fields(leaf.raw)[i].text]])
StringValues(body) == FlattenSeq([i \in DOMAIN body |-> StringsOf(body[i])])

-----------------------------------------------------------------------------
(* What a policy decides.                                                  *)

Severity == [allow |-> 0, mask |-> 1, block |-> 2]
StepWeight(step) == IF step = "[*]" THEN 1 ELSE 2
Narrowness(scope) == FoldLeft(LAMBDA n, step : n + StepWeight(step), 0, scope)
Covers(scope, path) ==
  /\ Len(scope) <= Len(path)
  /\ \A i \in DOMAIN scope : \/ scope[i] = path[i]
                             \/ scope[i] = "[*]" /\ path[i] \in Indexes
Specificity(rule) == 2 * Narrowness(rule.scope) + (IF rule.entity = None THEN 0 ELSE 1)
Applies(rule, path, entity) == rule.entity \in {None, entity} /\ Covers(rule.scope, path)

\* One rule against the best so far: the narrower wins, and of two equally
\* narrow ones the severer.
Prefer(best, rule) ==
  IF best = None \/ Specificity(rule) > Specificity(best) THEN rule
  ELSE IF /\ Specificity(rule) = Specificity(best)
          /\ Severity[rule.mode] > Severity[best.mode] THEN rule
  ELSE best

Decide(rules, default, path, entity) ==
  LET applying == SelectSeq(rules, LAMBDA r : Applies(r, path, entity))
      best == FoldLeft(Prefer, None, applying)
  IN IF best = None THEN default ELSE best.mode

\* date_policy answers for a date nothing but a general rule would mask.
DateAware(path, entity, mode) ==
  IF /\ entity = "DATE" /\ mode = "mask"
     /\ ~\E i \in DOMAIN policy.rules :
           policy.rules[i].entity = "DATE" /\ Covers(policy.rules[i].scope, path)
  THEN policy.date ELSE mode
ModeAt(path, entity) ==
  DateAware(path, entity, Decide(policy.rules, policy.default, path, entity))

-----------------------------------------------------------------------------
(* The minter of the conversation.                                         *)

MintedAs(entity) == IF entity = "URL" THEN "HOST" ELSE entity
Taken == {minter.issued[seed] : seed \in DOMAIN minter.issued}
\* Mutant: only the user's literals are kept out of the pool.
IsNotALiteral(alias) == alias \notin minter.withheld
IsFree(alias) == alias \notin Taken /\ alias \notin minter.withheld

\* The alias a seed gets: the one it has, or the first free one of its pool
\* within the attempts; None when they are used up.
AliasFor(seed) ==
  LET pool == Pool(seed.entity)
      free == {i \in 1..MaxAttempts : i \in DOMAIN pool /\ IsFree(pool[i])}
  IN IF seed \in DOMAIN minter.issued THEN minter.issued[seed]
     ELSE IF free = {} THEN None
     ELSE pool[CHOOSE i \in free : \A j \in free : i <= j]

\* The words of a text as the reservation cuts them: at blanks, quotes and
\* commas, and then trimmed of full stops.
Separators == {"_", "{", "}", ":", "|"}
WordSpans(text) ==
  {s \in SpansFrom(text, 1) :
     /\ \A i \in s[1]..s[2] : text[i] \notin Separators
     /\ s[1] = 1 \/ text[s[1] - 1] \in Separators
     /\ s[2] = Len(text) \/ text[s[2] + 1] \in Separators}
Trimmed(word) == SelectSeq(word, LAMBDA u : u # ".")
Literals(text) ==
  {u \in AliasShaped : \E s \in WordSpans(text) : Trimmed(Slice(text, s)) = <<u>>}

-----------------------------------------------------------------------------
(* The pass.                                                               *)

NoTally == [masked |-> {}, allowed |-> {}]
Idle == /\ request = None /\ todo = <<>> /\ current = None /\ left = {}
        /\ out = <<>> /\ pending = <<>> /\ tally = NoTally /\ degraded = {}

Init == /\ file \in Files /\ policy = None
        /\ Idle
        /\ minter = [issued |-> <<>>, withheld |-> {}]
        /\ vault = {} /\ failures = 0 /\ answer = None /\ served = 0

EndPass == /\ request' = None /\ todo' = <<>> /\ current' = None /\ left' = {}
           /\ out' = <<>> /\ pending' = <<>> /\ tally' = NoTally /\ degraded' = {}

\* The proxy starts, or does not: a file that does not load serves no request.
Start ==
  /\ policy = None
  /\ policy' = IF Loads(file) THEN Enforced(file) ELSE Invalid
  /\ UNCHANGED <<file, pass, minter, vault, failures, answer, served>>

\* A body arrives: literals shaped like aliases are withheld before any string is
\* scanned, except those this conversation issued itself.
Begin(body) ==
  /\ policy \notin {None, Invalid} /\ request = None /\ served < MaxRequests
  /\ request' = [body |-> body, known |-> Taken]
  /\ todo' = StringValues(body)
  /\ LET literals == UNION {Literals(s.text) : s \in ToSet(StringValues(body))}
     IN minter' = [minter EXCEPT !.withheld = @ \cup (literals \ Taken)]
  /\ served' = served + 1 /\ answer' = None
  /\ UNCHANGED <<settled, current, left, out, pending, tally, degraded, vault, failures>>

\* The next string is scanned.
Scan ==
  /\ request # None /\ current = None /\ todo # <<>>
  /\ current' = Head(todo) /\ todo' = Tail(todo)
  /\ left' = Merge(Claims(policy, Head(todo).text))
  /\ out' = Head(todo).text
  /\ degraded' = degraded \cup Degraded(policy, Head(todo).text)
  /\ UNCHANGED <<settled, request, pending, tally, minter, vault, failures, answer, served>>

\* The claims are applied from the right, so the positions before them hold.
Rightmost == CHOOSE c \in left : \A d \in left : d.first <= c.first
Mode(claim) == ModeAt(current.path, claim.entity)

Allow ==
  /\ current # None /\ left # {} /\ Mode(Rightmost) = "allow"
  /\ left' = left \ {Rightmost}
  /\ tally' = [tally EXCEPT !.allowed = @ \cup {Rightmost.entity}]
  /\ UNCHANGED <<settled, request, todo, current, out, pending, degraded, minter, vault,
                 failures, answer, served>>

Refuse(class) ==
  /\ answer' = [refused |-> class]
  /\ EndPass
  /\ UNCHANGED <<settled, served>>

Block ==
  /\ current # None /\ left # {} /\ Mode(Rightmost) = "block"
  /\ Refuse("entity_blocked")
  /\ UNCHANGED <<minter, vault, failures>>

\* The seed is the type and the text: the same value gets the same alias.
SeedOf(claim) == [entity |-> MintedAs(claim.entity), value |-> Slice(current.text, SpanOf(claim))]
Issue(seed, alias) ==
  minter' = [minter EXCEPT !.issued = (seed :> alias) @@ @]
Splice(text, span, unit) ==
  SubSeq(text, 1, span[1] - 1) \o <<unit>> \o SubSeq(text, span[2] + 1, Len(text))

\* A value is given its alias, the pair is filed, and only then replaced.
Mask ==
  /\ current # None /\ left # {} /\ Mode(Rightmost) = "mask" /\ Rightmost.entity # "DATE"
  /\ LET seed == SeedOf(Rightmost)
         alias == AliasFor(seed)
     IN /\ alias # None
        /\ Issue(seed, alias)
        /\ vault' = vault \cup {[alias |-> alias, value |-> seed.value]}
        /\ out' = Splice(out, SpanOf(Rightmost), alias)
        /\ tally' = [tally EXCEPT !.masked =
                       @ \cup {[entity |-> Rightmost.entity, value |-> seed.value]}]
  /\ left' = left \ {Rightmost}
  /\ UNCHANGED <<settled, request, todo, current, pending, degraded, failures, answer, served>>

\* The alias is issued and its record is not filed: the request is refused and
\* the minter remembers the alias.
MaskUnfiled ==
  /\ current # None /\ left # {} /\ Mode(Rightmost) = "mask" /\ Rightmost.entity # "DATE"
  /\ failures < MaxFailures /\ failures' = failures + 1
  /\ LET seed == SeedOf(Rightmost)
     IN AliasFor(seed) # None /\ Issue(seed, AliasFor(seed))
  /\ Refuse("vault_unavailable")
  /\ UNCHANGED vault

\* No alias of the type is free within the attempts, or the type has none.
MaskImpossible ==
  /\ current # None /\ left # {} /\ Mode(Rightmost) = "mask"
  /\ \/ Rightmost.entity = "DATE" /\ Refuse("endpoint_unsupported")
     \/ /\ Rightmost.entity # "DATE" /\ AliasFor(SeedOf(Rightmost)) = None
        /\ Refuse("alias_collision_unresolved")
  /\ UNCHANGED <<minter, vault, failures>>

\* A string whose claims are all applied is kept for the rewrite if it changed.
StringDone ==
  /\ current # None /\ left = {}
  /\ pending' = IF out = current.text THEN pending
                ELSE Append(pending, [path |-> current.path, text |-> out])
  /\ current' = None /\ out' = <<>>
  /\ UNCHANGED <<settled, request, todo, left, tally, degraded, minter, vault, failures, answer,
                 served>>

\* Mutant: a path that goes on below a string is not followed.
LeaveNested(leaf, key, text) == leaf

\* One masked string written at its path: over the leaf, or into the document
\* the leaf carries by now, which is then encoded again.  None when the path
\* leads nowhere any more.
SetInNested(leaf, key, text) ==
  LET fields == Fields(leaf.raw)
      at == {i \in DOMAIN fields : fields[i].key = key}
  IN IF at = {} THEN None
     ELSE [leaf EXCEPT !.raw = Encode([i \in DOMAIN fields |->
             IF i \in at THEN [key |-> key, text |-> text] ELSE fields[i]])]
SetAt(body, write) ==
  IF body = None THEN None
  ELSE LET i == CHOOSE j \in DOMAIN body : IsPrefix(body[j].path, write.path)
           leaf == IF body[i].path = write.path THEN [body[i] EXCEPT !.raw = write.text]
                   ELSE SetInNested(body[i], Last(write.path), write.text)
       IN IF leaf = None THEN None ELSE [body EXCEPT ![i] = leaf]

\* Every masked string is written back in the order it was found, or the request
\* is refused.
Rewrite ==
  /\ request # None /\ current = None /\ todo = <<>>
  /\ LET sent == FoldLeft(SetAt, request.body, pending)
     IN IF sent = None THEN Refuse("body_unparsable")
        ELSE /\ answer' = [sent |-> sent, body |-> request.body, known |-> request.known,
                           tally |-> tally, degraded |-> degraded]
             /\ EndPass /\ UNCHANGED <<settled, served>>
  /\ UNCHANGED <<minter, vault, failures>>

Next == \/ Start
        \/ \E body \in Bodies : Begin(body)
        \/ Scan \/ Allow \/ Block \/ Mask \/ MaskUnfiled \/ MaskImpossible
        \/ StringDone \/ Rewrite
Spec == Init /\ [][Next]_vars

-----------------------------------------------------------------------------
(* Properties.                                                             *)

Occurs(form, text) == \E s \in SpansFrom(text, 1) : Slice(text, s) = form
UnitsOf(body) == UNION {ToSet(body[i].raw) : i \in DOMAIN body}

\* The strings nothing is nested in, in the body as it came and as it was sent.
Innermost(body) ==
  UNION {IF IsDocument(body[i].raw)
         THEN {<<i, j>> : j \in DOMAIN Fields(body[i].raw)} ELSE {<<i, 0>>} : i \in DOMAIN body}
TextAt(body, at) == IF at[2] = 0 THEN body[at[1]].raw ELSE Fields(body[at[1]].raw)[at[2]].text
PathAt(body, at) ==
  IF at[2] = 0 THEN body[at[1]].path
  ELSE Append(body[at[1]].path, Fields(body[at[1]].raw)[at[2]].key)

\* The values standing in a text: the listed names and what the gates admit.
Standing(text) ==
  {[entity |-> policy.list.entries[Slice(text, s)], span |-> s] :
      s \in StandingNames(policy.list, text)}
    \cup UNION {{[entity |-> e, span |-> s] : s \in StandingValues(e, text)} : e \in PatternTypes}
Skipped(entity, text, span) ==
  /\ IsCode(text, span[1])
  /\ \/ policy.code = "skip"
     \/ entity \in DictionaryTypes /\ policy.code # "full"
Touched(text, span) == \E c \in Merge(Claims(policy, text)) : Shared(SpanOf(c), span)
\* A claim was open to the layer and went to a longer reading of the same text.
Outread(entity, text, span) ==
  \/ \E h \in Hits(policy.list, text) :
       Shared(h, span) /\ (h[1] < span[1] \/ Width(h) > Width(span))
  \/ \E r \in Walk(entity, text) : Width(r) >= Width(span) /\ span[2] < r[1]

\* No claim is lost on the way from the layers through the segments and the
\* merge: a listed name or an admissible value that stands in a scanned text is
\* covered by a claim that is kept, or lies in a block the policy skips, or was
\* given up for a longer reading of the same stretch (detect/pattern/mod.rs 322,
\* detect/dictionary.rs 230, detect/merge.rs 167).
ClaimsAreAccountedFor ==
  current # None =>
    \A v \in Standing(current.text) :
      \/ Touched(current.text, v.span)
      \/ Skipped(v.entity, current.text, v.span)
      \/ Outread(v.entity, current.text, v.span)

\* The record says of a stretch of a string why it crossed: by what the operator wrote
\* in the file its type is allowed there, or it lies in a block declared as skipped.
ToldOf(text, path, value) ==
  \/ /\ Skipped(value.entity, text, value.span)
     /\ "code_block_skipped" \in answer.degraded
  \/ \E c \in Merge(Claims(policy, text)) :
       /\ Shared(SpanOf(c), value.span) /\ SaysAllow(file, path, c.entity)
       /\ c.entity \in answer.tally.allowed
Untouched(text, value) ==
  ~Touched(text, value.span) /\ Outread(value.entity, text, value.span)

\* The values that stood in a string of the request and are still in that string when
\* it is sent, each with what else stood there and reads the same.
Survivors(at) ==
  LET text == TextAt(answer.body, at)
  IN {{w \in Standing(text) : Slice(text, w.span) = Slice(text, v.span)} :
        v \in {v \in Standing(text) : Occurs(Slice(text, v.span), TextAt(answer.sent, at))}}

\* Nothing crosses in the clear but for one of three reasons: it was allowed by what the
\* operator wrote, under a type the record names; it lies in a block the record declares
\* as skipped; or it was given up for a longer reading of the same stretch, and of that
\* one nobody is told (policy/load.rs 580: a value not understood that widens a rule;
\* http/request_path.rs 511 and 545: a mask that is not written back below a string).
EverySurvivorIsExplained ==
  answer # None /\ "sent" \in DOMAIN answer =>
    \A at \in Innermost(answer.body) : \A standing \in Survivors(at) : \E v \in standing :
      LET text == TextAt(answer.body, at)
      IN ToldOf(text, PathAt(answer.body, at), v) \/ Untouched(text, v)

\* What detect/pattern/mod.rs says of its walk: a second value of a region is still
\* reachable, and the errors it makes are all of masking too much.  Then whatever
\* crosses is something the record tells of.  It does not hold of a value in front of a
\* longer one.
EverySurvivorIsReported ==
  answer # None /\ "sent" \in DOMAIN answer =>
    \A at \in Innermost(answer.body) : \A standing \in Survivors(at) : \E v \in standing :
      ToldOf(TextAt(answer.body, at), PathAt(answer.body, at), v)

\* A value every occurrence of which, in one string, was decided to be masked there, and
\* that the record counts as masked.
MaskedThroughout(string, value) ==
  LET there == {s \in SpansFrom(string.text, 1) : Slice(string.text, s) = value}
  IN /\ there # {}
     /\ \A s \in there : \E c \in Merge(Claims(policy, string.text)) :
          c.first <= s[1] /\ s[2] <= c.last /\ ModeAt(string.path, c.entity) = "mask"
\* It is still in the j-th string of the i-th leaf as that was sent.
StillThere(i, j, value) ==
  /\ MaskedThroughout(StringsOf(answer.body[i])[j], value)
  /\ Occurs(value, StringsOf(answer.sent[i])[j].text)
CountedValues == {m.value : m \in answer.tally.masked}

\* A decision to mask that was filed and counted is applied: the value is gone from the
\* string the decision was about; unless the string is a document and something else was
\* decided of the value in a field of it, whose text is written last (http/
\* request_path.rs 511 rewrite, 545 set_at: the fields of a string are written into it
\* after the string).
FiledMasksAreApplied ==
  answer # None /\ "sent" \in DOMAIN answer =>
    \A i \in DOMAIN answer.body :
      LET strings == StringsOf(answer.body[i])
      IN \A j \in DOMAIN strings, value \in CountedValues : StillThere(i, j, value) =>
           /\ j = 1
           /\ \E k \in DOMAIN strings \ {1} :
                Occurs(value, strings[k].text) /\ ~MaskedThroughout(strings[k], value)

\* What rewrite is documented to ensure: no decision that was made, filed and counted
\* is left unapplied.  It does not hold of a string that is a document.
CountedMasksAreApplied ==
  answer # None /\ "sent" \in DOMAIN answer =>
    \A i \in DOMAIN answer.body : \A j \in DOMAIN StringsOf(answer.body[i]) :
      \A value \in CountedValues : ~StillThere(i, j, value)

\* An alias that leaves in a body can be read back, and as one value only: its
\* original is filed, also when an earlier request was refused between issuing
\* the alias and filing it (http/request_path.rs mint_and_file, alias/mint.rs 248).
AliasesSpeakForOneValue ==
  /\ \A x, y \in vault : x.alias = y.alias => x.value = y.value
  /\ answer # None /\ "sent" \in DOMAIN answer =>
       \A unit \in UnitsOf(answer.sent) \cap Taken :
         unit \in UnitsOf(answer.body) \/ \E x \in vault : x.alias = unit
=============================================================================
