----------------------------- MODULE AliasLadder -----------------------------
(***************************************************************************)
(* How a value gets its alias (crates/periskop-proxy/src/alias: mint.rs,   *)
(* derive.rs and the rungs): the seed, the attempts, what each rung        *)
(* renders, and what the run reports of it.                                *)
(*                                                                         *)
(* An alias is [form, of, text]: PSK and sixteen digits, a counted label,  *)
(* an address of a documented range, or the text itself.  A render seed    *)
(* expands to a stream of bytes that is read around and around; which one  *)
(* a seed and an attempt give is the key's choice.                         *)
(***************************************************************************)
EXTENDS Checksums, FiniteSets, Functions, TLC

CONSTANTS None,
          Scenes,        \* what one conversation may ask for: sets of [entity, text]
          Literals,      \* the alias shaped words its user may have written
          Streams,       \* the streams of bytes
          Styles,
          MaxAsks,       \* bound: values and literals of one conversation
          PoolAttempts,  \* POOL_ATTEMPTS
          MaxAttempts    \* MAX_ATTEMPTS

ASSUME LadderAssumption == MaxAsks \in Nat /\ PoolAttempts \in Nat /\ MaxAttempts \in Nat \ {0}

VARIABLES scene, style, minter, stats, asked, refused, asks

vars == <<scene, style, minter, stats, asked, refused, asks>>

-----------------------------------------------------------------------------
(* The types.                                                              *)

Labelled == {"PERSON", "ORG", "LOC", "ADDRESS"}
Entropic == {"API_KEY", "SECRET"}
NotMinted == {"DATE", "URL"}
TagLength == [IBAN |-> 4, TCKN |-> 4, VKN |-> 3, CREDIT_CARD |-> 11, EMAIL |-> 5, PHONE |-> 5,
              IPV4 |-> 4, IPV6 |-> 4, API_KEY |-> 7, SECRET |-> 6, URL |-> 3, HOST |-> 4,
              DATE |-> 4, PERSON |-> 6, ORG |-> 3, LOC |-> 3, ADDRESS |-> 7]
PreservingBound == [IBAN |-> 42, TCKN |-> 32, VKN |-> 31, CREDIT_CARD |-> 32, EMAIL |-> 40,
                    PHONE |-> 26, IPV4 |-> 25, IPV6 |-> 45, API_KEY |-> 128, SECRET |-> 128,
                    URL |-> 64, HOST |-> 64, DATE |-> 32, PERSON |-> 26, ORG |-> 26, LOC |-> 26,
                    ADDRESS |-> 26]
HexChars == 16
OpaqueBound(entity) == 4 + 1 + HexChars + TagLength[entity]
LengthBound(entity) ==
  IF PreservingBound[entity] > OpaqueBound(entity) THEN PreservingBound[entity]
  ELSE OpaqueBound(entity)

Upper(c) == IF c \in LowerCase THEN c - 26 ELSE c
Lower(c) == IF c \in UpperCase THEN c + 26 ELSE c
Map(Op(_), text) == [i \in DOMAIN text |-> Op(text[i])]
Trim(text) ==
  LET inked == {i \in DOMAIN text : text[i] # Blank}
  IN IF inked = {} THEN <<>>
     ELSE SubSeq(text, CHOOSE i \in inked : \A j \in inked : i <= j,
                       CHOOSE i \in inked : \A j \in inked : i >= j)

NormalPhone(text) ==
  LET digits == DigitsOf(text)
  IN IF IsPrefix(<<0, 0>>, digits) THEN <<Plus>> \o SubSeq(digits, 3, Len(digits))
     ELSE IF text # <<>> /\ text[1] = Plus THEN <<Plus>> \o digits
     ELSE digits
OneBlank(text) ==
  SelectSeq([i \in DOMAIN text |-> IF i > 1 /\ text[i] = Blank /\ text[i - 1] = Blank
                                   THEN None ELSE text[i]], LAMBDA c : c # None)
\* What two spellings of one value have in common.
Normalize(entity, text) ==
  LET t == Trim(text)
  IN CASE entity = "IBAN" -> Map(Upper, Without(t, {Blank, Hyphen, Dot}))
       [] entity \in {"TCKN", "VKN", "CREDIT_CARD"} -> DigitsOf(t)
       [] entity = "PHONE" -> NormalPhone(t)
       [] entity \in {"EMAIL", "HOST", "URL"} ->
            Map(Lower, IF t # <<>> /\ Last(t) = Dot THEN Front(t) ELSE t)
       [] entity = "IPV6" -> Map(Lower, t)
       [] entity \in Labelled -> OneBlank(Map(Lower, t))
       [] OTHER -> t
SeedOf(entity, text) == <<entity, Normalize(entity, text)>>

-----------------------------------------------------------------------------
(* The stream.                                                             *)

Byte(stream, at) == stream[((at - 1) % Len(stream)) + 1]
Short(stream, at) == Byte(stream, at) * 256 + Byte(stream, at + 1)
\* Four bytes, modulo the bound.
Below(stream, at, bound) ==
  FoldLeft(LAMBDA n, i : (n * 256 + Byte(stream, at + i)) % bound, 0, <<0, 1, 2, 3>>)
Digit(stream, at) == Byte(stream, at) % 10
Digits(stream, at, count) == [i \in 1..count |-> Digit(stream, at + i - 1)]
Hex(stream, at, count) ==
  [i \in 1..count |-> LET byte == Byte(stream, at + (i - 1) \div 2)
                      IN IF i % 2 = 1 THEN byte \div 16 ELSE byte % 16]

-----------------------------------------------------------------------------
(* The rungs.                                                              *)

Alias(form, entity, text) == [form |-> form, of |-> entity, text |-> text]
Opaque(entity, stream, at) == Alias("opaque", entity, Hex(stream, at, HexChars))
Plain(alias, rung) == [alias |-> alias, rung |-> rung, exhausted |-> FALSE, capped |-> FALSE]

\* Rung L.
Label(entity, index) == Plain(Alias("label", entity, Decimal(index)), "L")

\* Rung R: five or three digits and one of eight labels under .invalid, an
\* address of a test net, or one under 2001:db8.  What is drawn for it is drawn
\* before the rung is chosen.
Documented(entity, stream) ==
  LET mailbox == Digits(stream, 1, 5) \o <<Short(stream, 6) % 8>>
      name == Digits(stream, 1, 3) \o <<Short(stream, 4) % 8>>
      address == Append(TestNets[Below(stream, 1, 3) + 1], Below(stream, 5, 256))
  IN CASE entity = "EMAIL" -> <<Alias("mailbox", entity, mailbox), 8>>
       [] entity = "HOST" -> <<Alias("host", entity, name), 6>>
       [] entity = "IPV4" -> <<Alias("v4", entity, address), 9>>
       [] entity = "IPV6" -> <<Alias("v6", entity, Hex(stream, 1, 12)), 7>>
DocumentedOrOpaque(entity, stream, attempt) ==
  IF attempt < PoolAttempts THEN Plain(Documented(entity, stream)[1], "R")
  ELSE [Plain(Opaque(entity, stream, Documented(entity, stream)[2]), "O") EXCEPT !.exhausted = TRUE]

\* Rung I: a check digit that is not the right one.
WrongDigit(stream, at, correct) == (correct + Below(stream, at, 9) + 1) % 10
\* Mutant: an offset that goes all the way round.
AnyPair(stream, at, correct) == ((correct - 2 + Below(stream, at, 97)) % 97) + 2
WrongPair(stream, at, correct) == ((correct - 2 + Below(stream, at, 96) + 1) % 97) + 2

IbanSource(text) ==
  /\ Len(text) \in 15..34
  /\ Only(SubSeq(text, 1, 2), UpperCase) /\ Only(SubSeq(text, 5, Len(text)), Alphanumeric)
\* The body keeps its digits and letters where they were: one byte each or two.
Iban(stream, text) ==
  LET source == SubSeq(text, 5, Len(text))
      At(i) == i + Cardinality({j \in 1..(i - 1) : source[j] \notin Numerals})
      body == [i \in DOMAIN source |-> IF source[i] \in Numerals THEN Digit(stream, At(i))
                                       ELSE 10 + (Short(stream, At(i)) % 26)]
      country == SubSeq(text, 1, 2)
      pair == WrongPair(stream, At(Len(source) + 1), IbanCheck(country, body))
  IN Plain(Alias("text", "IBAN", country \o <<pair \div 10, pair % 10>> \o body), "I")

Tckn(stream) ==
  LET nine == <<1 + (Digit(stream, 1) % 9)>> \o Digits(stream, 2, 8)
      tenth == WrongDigit(stream, 10, TenthOf(nine))
      eleventh == WrongDigit(stream, 14, (Total(nine) + tenth) % 10)
  IN Plain(Alias("text", "TCKN", nine \o <<tenth, eleventh>>), "I")
Vkn(stream) ==
  LET nine == Digits(stream, 1, 9)
  IN Plain(Alias("text", "VKN", Append(nine, WrongDigit(stream, 10, VknCheck(nine)))), "I")

\* The published cards of the length and brand, or of the length, or all.
CardsFor(length, brand) ==
  LET OfLength(pan) == Len(pan) = length
      Exact(pan) == OfLength(pan) /\ pan[1] = brand
  IN IF SelectSeq(TestPans, Exact) # <<>> THEN SelectSeq(TestPans, Exact)
     ELSE IF SelectSeq(TestPans, OfLength) # <<>> THEN SelectSeq(TestPans, OfLength)
     ELSE TestPans
LuhnBreaking(stream, length, brand) ==
  LET drawn == <<brand>> \o Digits(stream, 1, length - 1)
  IN IF LuhnHolds(drawn) THEN [drawn EXCEPT ![length] = (@ + 1) % 10] ELSE drawn
Card(stream, text, base, attempt) ==
  LET length == IF Len(text) \in 13..19 THEN Len(text) ELSE 16
      cards == CardsFor(length, text[1])
  IN IF attempt < Len(cards)
     THEN Plain(Alias("text", "CREDIT_CARD", cards[((base + attempt) % Len(cards)) + 1]), "R")
     ELSE [Plain(Alias("text", "CREDIT_CARD", LuhnBreaking(stream, length, text[1])), "I")
             EXCEPT !.exhausted = TRUE]

\* An area code of the stream: no zero or one first, and not N11.
AreaCode(stream, count) ==
  LET drawn == [i \in 1..count |-> IF i = 1 THEN 2 + (Digit(stream, 1) % 8) ELSE Digit(stream, i)]
  IN IF count = 3 /\ drawn[2] = 1 /\ drawn[3] = 1 THEN [drawn EXCEPT ![3] = 2] ELSE drawn
Phone(stream, text, attempt) ==
  LET plan == CHOOSE p \in PlanOf(text) : TRUE
      range == plan.fiction
      code == <<Plus>> \o plan.country
  IN IF PlanOf(text) = {} THEN Plain(Opaque("PHONE", stream, 1), "O")
     ELSE IF HasFiction(plan) /\ attempt < PoolAttempts
     THEN Plain(Alias("text", "PHONE", code \o AreaCode(stream, range.head) \o range.block
                        \o Digits(stream, range.head + 1, range.tail)), "R")
     ELSE [Plain(Alias("text", "PHONE", code \o <<0>> \o Digits(stream, 1, plan.national)), "I")
             EXCEPT !.exhausted = HasFiction(plan)]

\* A key keeps what its first eight characters hold up to an underscore, and a
\* length class; its body is drawn in groups of at most eight.
MaxKeyPrefix == 8
KeyGroup == 8
CarriedPrefix(text) ==
  LET marks == {i \in DOMAIN text : i <= MaxKeyPrefix /\ text[i] = Underscore}
  IN IF marks = {} THEN <<>> ELSE SubSeq(text, 1, CHOOSE i \in marks : \A j \in marks : i >= j)
LengthClass(length) == IF length <= 32 THEN 32 ELSE IF length <= 64 THEN 64 ELSE 128
GroupedBody(stream, length) ==
  LET groups == (length + 1 + KeyGroup) \div (KeyGroup + 1)
      drawn == length - (groups - 1)
      Size(g) == drawn \div groups + (IF g <= drawn % groups THEN 1 ELSE 0)
      longer(g) == IF g < drawn % groups THEN g ELSE drawn % groups
      Start(g) == (g - 1) * (drawn \div groups) + longer(g - 1)
      Group(g) == [i \in 1..Size(g) |-> Short(stream, 2 * (Start(g) + i) - 1) % 62]
  IN FlattenSeq([g \in 1..groups |-> IF g = 1 THEN Group(g) ELSE <<Dot>> \o Group(g)])
Key(entity, stream, text) ==
  LET prefix == CarriedPrefix(text)
      class == LengthClass(Len(text))
  IN [Plain(Alias("text", entity, prefix \o GroupedBody(stream, class - Len(prefix))), "I")
        EXCEPT !.capped = Len(text) > 128]

Render(entity, text, index, base, attempt, stream) ==
  CASE style = "opaque" -> Plain(Opaque(entity, stream, 1), "O")
    [] style # "opaque" /\ entity \in Labelled -> Label(entity, index)
    [] style # "opaque" /\ entity \in {"EMAIL", "HOST", "IPV4", "IPV6"} ->
         DocumentedOrOpaque(entity, stream, attempt)
    [] style # "opaque" /\ entity = "CREDIT_CARD" -> Card(stream, text, base, attempt)
    [] style # "opaque" /\ entity = "PHONE" -> Phone(stream, text, attempt)
    [] style # "opaque" /\ entity = "IBAN" ->
         IF IbanSource(text) THEN Iban(stream, text) ELSE Plain(Opaque(entity, stream, 1), "O")
    [] style # "opaque" /\ entity = "TCKN" -> Tckn(stream)
    [] style # "opaque" /\ entity = "VKN" -> Vkn(stream)
    [] style # "opaque" /\ entity \in Entropic -> Key(entity, stream, text)

\* The bytes of an alias.
Length(alias) ==
  LET Widths == [i \in DOMAIN alias.text |->
                   IF alias.text[i] < 10 THEN 1 ELSE IF alias.text[i] < 100 THEN 2 ELSE 3]
  IN CASE alias.form = "opaque" -> 5 + TagLength[alias.of] + HexChars
       [] alias.form = "label" -> TagLength[alias.of] + 1 + Len(alias.text)
       [] alias.form = "mailbox" -> 27
       [] alias.form = "host" -> 25
       [] alias.form = "v4" -> Total(Widths) + 3
       [] alias.form = "v6" -> 24
       [] alias.form = "text" -> Len(alias.text)

-----------------------------------------------------------------------------
(* The minter of a conversation.                                           *)

Rank == [L |-> 0, R |-> 0, I |-> 1, O |-> 2]
ReportedRung(entity, rung) == IF entity \in Entropic THEN "O" ELSE rung
\* Mutant: the rung the type entered at stays in the report.
FoldFirst(entity, rung) ==
  LET slot == IF entity \in DOMAIN stats THEN stats[entity]
              ELSE [count |-> 0, rung |-> ReportedRung(entity, rung)]
  IN (entity :> [slot EXCEPT !.count = @ + 1]) @@ stats
\* One more alias of a type; the report keeps the weakest rung.
Fold(entity, rung) ==
  LET reported == ReportedRung(entity, rung)
      slot == IF entity \in DOMAIN stats THEN stats[entity] ELSE [count |-> 0, rung |-> reported]
  IN (entity :> [count |-> slot.count + 1,
                 rung |-> IF Rank[reported] > Rank[slot.rung] THEN reported ELSE slot.rung]) @@ stats

Taken == {minter.issued[seed].alias : seed \in DOMAIN minter.issued}
IsFree(alias) == alias \notin Taken /\ alias \notin minter.withheld
LabelStart(entity) == IF entity \in DOMAIN minter.labels THEN minter.labels[entity] ELSE 1

Init == /\ scene \in Scenes /\ style \in Styles
        /\ minter = [issued |-> <<>>, withheld |-> {}, labels |-> <<>>]
        /\ stats = <<>> /\ asked = None /\ refused = None /\ asks = 0

\* A word of the request that is shaped like an alias is taken out of the pool.
ReserveLiteral(literal) ==
  /\ asked = None /\ asks < MaxAsks /\ asks' = asks + 1
  /\ minter' = IF literal \in Taken THEN minter
               ELSE [minter EXCEPT !.withheld = @ \cup {literal}]
  /\ UNCHANGED <<scene, style, stats, asked, refused>>

\* A value is to be masked: refused, or the alias it has, or the first attempt.
\* The first four bytes of the seed say where the cards are tried from.
Ask(value, base) ==
  LET seed == SeedOf(value.entity, value.text)
  IN /\ asked = None /\ asks < MaxAsks /\ asks' = asks + 1
     /\ refused' = IF value.entity \in NotMinted THEN "not_minted"
                   ELSE IF seed[2] = <<>> THEN "empty_value" ELSE None
     /\ asked' = IF refused' # None \/ seed \in DOMAIN minter.issued THEN None
                 ELSE [seed |-> seed, base |-> base, attempt |-> 0]
     /\ UNCHANGED <<scene, style, minter, stats>>

Refuse(reason) == asked' = None /\ refused' = reason /\ UNCHANGED <<minter, stats>>
Again == asked' = [asked EXCEPT !.attempt = @ + 1] /\ UNCHANGED <<minter, stats, refused>>
Issue(rendered) ==
  LET entity == asked.seed[1]
      next == LabelStart(entity) + asked.attempt + 1
  IN /\ minter' = [minter EXCEPT
          !.issued = (asked.seed :> [alias |-> rendered.alias, rung |-> rendered.rung]) @@ @,
          !.labels = IF entity \in Labelled THEN (entity :> next) @@ @ ELSE @]
     /\ stats' = Fold(entity, rendered.rung)
     /\ asked' = None /\ UNCHANGED refused

\* One attempt.  A label moves on only when it is issued.
Attempt(stream) ==
  /\ asked # None
  /\ LET rendered == Render(asked.seed[1], asked.seed[2],
                            LabelStart(asked.seed[1]) + asked.attempt,
                            asked.base, asked.attempt, stream)
     IN IF Length(rendered.alias) > LengthBound(asked.seed[1])
        THEN Refuse("length_ceiling")
        ELSE IF IsFree(rendered.alias) THEN Issue(rendered)
        ELSE IF asked.attempt + 1 < MaxAttempts THEN Again
        ELSE Refuse("collision_unresolved")
  /\ UNCHANGED <<scene, style, asks>>

Next == \/ \E literal \in Literals : ReserveLiteral(literal)
        \/ \E value \in scene, base \in 0..1 : Ask(value, base)
        \/ \E stream \in Streams : Attempt(stream)
Spec == Init /\ [][Next]_vars

-----------------------------------------------------------------------------
(* Properties.                                                             *)

InRange(entity, alias) ==
  CASE entity = "EMAIL" -> alias.form = "mailbox"
    [] entity = "HOST" -> alias.form = "host"
    [] entity = "IPV4" -> alias.form = "v4" /\ SubSeq(alias.text, 1, 3) \in ToSet(TestNets)
    [] entity = "IPV6" -> alias.form = "v6"
    [] entity = "CREDIT_CARD" -> alias.text \in ToSet(TestPans)
    [] entity = "PHONE" -> InFiction(alias.text)
    [] OTHER -> FALSE
FailsItsRule(entity, text) ==
  CASE entity = "IBAN" -> ~IbanHolds(text)
    [] entity = "TCKN" -> ~TcknHolds(text)
    [] entity = "VKN" -> ~VknHolds(text)
    [] entity = "CREDIT_CARD" -> ~LuhnHolds(text)
    [] entity = "PHONE" -> OutOfPlan(text)
    [] OTHER -> FALSE
\* No run of a key's characters is long enough for a scanner, and enough of them
\* are drawn.
Unbelievable(text) ==
  LET Carried(i) == \E j \in i..Len(text) : j <= MaxKeyPrefix /\ text[j] = Underscore
      body == {i \in DOMAIN text : ~Carried(i)}
  IN /\ \A i \in DOMAIN text : i + KeyGroup <= Len(text) =>
          ~Only(SubSeq(text, i, i + KeyGroup), Alphanumeric)
     /\ Cardinality({i \in body : text[i] # Dot}) >= 22
\* The best evidence the alias itself gives, read by the published rules.
Shows(entity, alias) ==
  IF (alias.form = "label" /\ alias.of = entity) \/ InRange(entity, alias) THEN 0
  ELSE IF alias.form = "text" /\ FailsItsRule(entity, alias.text) THEN 1
  ELSE IF alias.form = "opaque" \/ (entity \in Entropic /\ Unbelievable(alias.text)) THEN 2
  ELSE 3

\* No alias is worth less than the run reports of its type: whatever rung a type
\* falls to and whatever the stream draws, what the report says of the type can be
\* read off every one of its aliases, by the rule or the range that was published;
\* the report counts every alias once, and none is longer than the stream holds
\* back for its type (alias/entity.rs 256, alias/rung_i.rs 1, alias/limits.rs).
EvidenceIsAsReported ==
  /\ refused # "length_ceiling"
  /\ \A seed \in DOMAIN minter.issued :
       LET alias == minter.issued[seed].alias
       IN /\ Shows(seed[1], alias) <= Rank[stats[seed[1]].rung]
          /\ Length(alias) <= LengthBound(seed[1])
  /\ \A entity \in DOMAIN stats :
       stats[entity].count = Cardinality({seed \in DOMAIN minter.issued : seed[1] = entity})
=============================================================================
