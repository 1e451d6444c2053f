---------------------------- MODULE MCAliasLadder ----------------------------
(***************************************************************************)
(* Instances of AliasLadder for TLC: per scene the values of one kind, with *)
(* two spellings of one of them where the kind has spellings.              *)
(***************************************************************************)
EXTENDS AliasLadder

Value(entity, text) == [entity |-> entity, text |-> text]
Of(entity, texts) == {Value(entity, text) : text \in texts}
Run(character, count) == [i \in 1..count |-> character]

Norwegian == <<23, 24, 9, 3>> \o <<8, 6, 0, 1, 1, 1, 1, 7, 9, 4, 7>>
Spaced == <<Blank, 49, 50, 9, 3, Blank>> \o <<8, 6, 0, 1, Hyphen, 1, 1, 1, 7, Blank, 9, 4, 7>>
British == <<16, 11, 2, 9>> \o <<23, 32, 11, 20>> \o <<6, 0, 1, 6, 1, 3, 3, 1, 9, 2, 6, 8, 1, 9>>
Turkish == <<9, 0, 5, 3, 2, 1, 1, 1, 2, 2, 3, 3>>
Live == <<54, 46, Underscore, 47, 44, 57, 40, Underscore>>

Ladders == {
  Of("IBAN", {Norwegian, Spaced, British, <<1, 2, 3>>}),
  Of("TCKN", {<<1, 0, 0, 0, 0, 0, 0, 0, 1, 4, 6>>, <<1, 0, 0, Blank, 0, 0, 0, 0, 0, 1, 4, 6>>,
              <<2, 2>>, <<Hyphen>>}),
  Of("VKN", {Run(1, 10), Run(2, 10), Run(3, 10)}),
  Of("CREDIT_CARD", {Run(3, 15), <<3>> \o Run(1, 14), <<3>> \o Run(2, 14)}),
  Of("CREDIT_CARD", {Run(4, 13), <<4>> \o Run(1, 12), Run(9, 14), <<5, 5>>}),
  Of("PHONE", {<<Plus>> \o Turkish, <<0, 0>> \o Turkish, Turkish, <<Plus, 3, 3, 1>>}),
  Of("PHONE", {<<Plus, 4, 4, 7>>, <<Plus, 4, 4, 8>>, <<Plus, 1, 2>>, <<Plus, 1, 3>>}),
  Of("EMAIL", {<<36>>, <<10>>, <<37>>}) \cup Of("HOST", {<<36>>, <<36, Dot>>, <<37>>}),
  Of("IPV4", {<<1>>, <<2>>}) \cup Of("IPV6", {<<10>>, <<36>>, <<37>>}),
  Of("API_KEY", {Live \o Run(40, 24), Live \o Run(41, 57), Run(42, 129)}),
  Of("SECRET", {<<Underscore, 1>>, Run(43, 33)}) \cup Of("DATE", {<<1>>}),
  Of("PERSON", {<<10, Blank, 11>>, <<36, Blank, Blank, 37>>, <<38>>}) \cup Of("ORG", {<<38>>})}

Words == {Alias("label", "PERSON", <<1>>), Alias("label", "PERSON", <<3>>),
          Alias("opaque", "IPV4", Run(0, HexChars))}

Draws == {<<0>>, <<255>>, <<9, 1, 4>>, <<0, 97, 128, 3, 250>>, <<1, 17, 5, 66, 202, 33, 8>>}
=============================================================================
