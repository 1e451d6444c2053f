------------------------------ MODULE Checksums ------------------------------
(***************************************************************************)
(* The published check digit rules and ranges aliases are judged by        *)
(* (crates/periskop-proxy/src/alias/checksum.rs and catalog.rs).           *)
(*                                                                         *)
(* A character is a number: 0..9 the digits, 10..35 the upper case         *)
(* letters, as ISO 13616 counts them, 36..61 the lower case ones, and from *)
(* there the marks below.  A text is a sequence of characters.             *)
(***************************************************************************)
EXTENDS Integers, Sequences, SequencesExt

Blank == 62
Hyphen == 63
Dot == 64
Plus == 65
Underscore == 66

Numerals == 0..9
UpperCase == 10..35
LowerCase == 36..61
Alphanumeric == 0..61

Total(numbers) == FoldLeft(LAMBDA sum, n : sum + n, 0, numbers)
Only(text, characters) == ToSet(text) \subseteq characters
Without(text, characters) == SelectSeq(text, LAMBDA c : c \notin characters)
DigitsOf(text) == SelectSeq(text, LAMBDA c : c \in Numerals)
Decimal(n) == IF n < 10 THEN <<n>> ELSE <<n \div 10, n % 10>>

-----------------------------------------------------------------------------
(* Check digits.                                                           *)

\* From the right every second digit counts twice, as the sum of its digits.
LuhnHolds(text) ==
  LET digits == Without(text, {Blank, Hyphen})
      Weighed(i) == LET doubled == 2 * digits[i]
                    IN IF (Len(digits) - i) % 2 = 0 THEN digits[i]
                       ELSE IF doubled > 9 THEN doubled - 9 ELSE doubled
  IN /\ Only(digits, Numerals) /\ Len(digits) >= 2
     /\ Total([i \in DOMAIN digits |-> Weighed(i)]) % 10 = 0

Compact(text) == Without(text, {Blank, Hyphen})
IbanShaped(text) ==
  /\ Len(text) \in 5..34
  /\ Only(SubSeq(text, 1, 2), UpperCase) /\ Only(SubSeq(text, 3, 4), Numerals)
  /\ Only(SubSeq(text, 5, Len(text)), Numerals \cup UpperCase)
\* The text as one number, its first four characters last, modulo 97.
Mod97(text) ==
  FoldLeft(LAMBDA rest, c : (IF c < 10 THEN rest * 10 + c ELSE rest * 100 + c) % 97, 0,
           SubSeq(text, 5, Len(text)) \o SubSeq(text, 1, 4))
IbanHolds(text) == IbanShaped(Compact(text)) /\ Mod97(Compact(text)) = 1
IbanCheck(country, body) == 98 - Mod97(country \o <<0, 0>> \o body)

TenthOf(nine) ==
  (7 * (nine[1] + nine[3] + nine[5] + nine[7] + nine[9])
     - (nine[2] + nine[4] + nine[6] + nine[8])) % 10
TcknHolds(text) ==
  /\ Len(text) = 11 /\ Only(text, Numerals) /\ text[1] # 0
  /\ text[10] = TenthOf(SubSeq(text, 1, 9))
  /\ text[11] = (Total(SubSeq(text, 1, 9)) + TenthOf(SubSeq(text, 1, 9))) % 10

VknCheck(nine) ==
  LET Term(i) == LET shifted == (nine[i] + 10 - i) % 10
                 IN IF shifted = 9 THEN 9 ELSE (shifted * 2 ^ (10 - i)) % 9
  IN (10 - (Total([i \in 1..9 |-> Term(i)]) % 10)) % 10
VknHolds(text) ==
  Len(text) = 10 /\ Only(text, Numerals) /\ text[10] = VknCheck(SubSeq(text, 1, 9))

-----------------------------------------------------------------------------
(* Published ranges.                                                       *)

TestNets == <<<<203, 0, 113>>, <<198, 51, 100>>, <<192, 0, 2>>>>

TestPans == <<
  <<4,2,4,2,4,2,4,2,4,2,4,2,4,2,4,2>>, <<4,0,0,0,0,5,6,6,5,5,6,6,5,5,5,6>>,
  <<4,1,1,1,1,1,1,1,1,1,1,1,1,1,1,1>>, <<4,0,1,2,8,8,8,8,8,8,8,8,1,8,8,1>>,
  <<4,2,2,2,2,2,2,2,2,2,2,2,2>>,       <<5,5,5,5,5,5,5,5,5,5,5,5,4,4,4,4>>,
  <<5,2,0,0,8,2,8,2,8,2,8,2,8,2,1,0>>, <<5,1,0,5,1,0,5,1,0,5,1,0,5,1,0,0>>,
  <<2,2,2,3,0,0,3,1,2,2,0,0,3,2,2,2>>, <<3,7,8,2,8,2,2,4,6,3,1,0,0,0,5>>,
  <<3,7,1,4,4,9,6,3,5,3,9,8,4,3,1>>,   <<6,0,1,1,1,1,1,1,1,1,1,1,1,1,1,7>>,
  <<6,0,1,1,0,0,0,9,9,0,1,3,9,4,2,4>>, <<3,0,5,6,9,3,0,0,0,9,0,2,0,0,0,4>>,
  <<3,5,6,6,0,0,2,0,2,0,3,6,0,5,0,5>>, <<3,6,2,2,7,2,0,6,2,7,1,6,6,7>> >>

\* The numbering plans this build knows: the digits of a national number, and
\* the range set aside for fiction, if the country has one.
NoRange == [head |-> 0, block |-> <<>>, tail |-> 0]
PhonePlans == {
  [country |-> <<9, 0>>, national |-> 10, fiction |-> NoRange],
  [country |-> <<4, 4>>, national |-> 10,
   fiction |-> [head |-> 0, block |-> <<7, 7, 0, 0, 9, 0, 0>>, tail |-> 3]],
  [country |-> <<1>>, national |-> 10,
   fiction |-> [head |-> 3, block |-> <<5, 5, 5, 0, 1>>, tail |-> 2]]}
HasFiction(plan) == plan.fiction # NoRange
\* At most one plan: no country code here begins another.
PlanOf(text) == {plan \in PhonePlans : IsPrefix(<<Plus>> \o plan.country, text)}
NationalOf(plan, text) == SubSeq(DigitsOf(text), Len(plan.country) + 1, Len(DigitsOf(text)))

InFiction(text) ==
  \E plan \in PlanOf(text) :
    LET national == NationalOf(plan, text)
        range == plan.fiction
    IN /\ HasFiction(plan)
       /\ Len(national) = range.head + Len(range.block) + range.tail
       /\ SubSeq(national, range.head + 1, range.head + Len(range.block)) = range.block
\* Longer than the plan allows, or behind a zero: never assigned.
OutOfPlan(text) ==
  \E plan \in PlanOf(text) :
    LET national == NationalOf(plan, text)
    IN national = <<>> \/ Len(national) > plan.national \/ national[1] = 0
=============================================================================
