---------------------------- MODULE MCMaskingPass ----------------------------
(* A small vocabulary: two listed names of which one begins the other, two    *)
(* account numbers of different length, a date, and texts in which they meet. *)
EXTENDS MaskingPass

CaseFold(unit) == IF unit = "Ali" THEN "ali" ELSE unit
KeyNames == {"messages", "content", "to"}

Vocabulary == {"ali", "veli", "can", "in", "no", "be", "1", "2", "3", "day", "P1", "P2",
               "u-ali", "kim"}
InHarmony(before, suffix) == before # "veli" \/ suffix = "in"
LongBase(base) == Len(base) >= 1

\* An account number: a country and groups with blanks between.
AccountNumber(text) ==
  /\ Len(text) >= 3 /\ Len(text) % 2 = 1 /\ text[1] \in {"no", "be"}
  /\ \A i \in 2..Len(text) : IF i % 2 = 0 THEN text[i] = "_"
                             ELSE text[i] \in {"no", "be", "1", "2", "3"}
Short == <<"no", "_", "1">>
Long == <<"be", "_", "2", "_", "3">>
ShapeOf(entity, text) ==
  \/ entity = "IBAN" /\ AccountNumber(text)
  \/ entity = "DATE" /\ text = <<"day">>
AdmittedOf(entity, text) ==
  IF entity = "DATE" \/ text \in {Short, Long} THEN {<<1, Len(text)>>} ELSE {}

Spelling == [u \in {"u-ali"} |-> "ali"]
AliasesOf(entity) == IF entity = "PERSON" THEN <<"P1", "P2">>
                     ELSE IF entity = "IBAN" THEN <<"I1", "I2">> ELSE <<"X1">>

(* Files: what is on disk, and what operators write.                        *)
Text(t) == <<"text", t>>
Number(n) == <<"number", n>>
Yes == <<"boolean", TRUE>>
No == <<"boolean", FALSE>>
Table(t) == <<"table", t>>
Array(a) == <<"array", a>>

Named(value, type) == [value |-> value, type |-> type]
Names1 == <<Named(<<"Ali">>, "PERSON"), Named(<<"ali", "_", "veli">>, "PERSON"),
            Named(<<"ali">>, "ORG")>>
Disk == [names |-> <<"list", [version |-> 1, id |-> "acme", entries |-> Names1]>>,
         blank |-> <<"list", [version |-> 1, id |-> "acme", entries |-> <<Named(<<"_">>, "PERSON")>>]>>,
         codes |-> <<"list", [version |-> 1, id |-> "acme", entries |-> <<Named(<<"no">>, "IBAN")>>]>>,
         later |-> <<"list", [version |-> 2, id |-> "acme", entries |-> Names1]>>,
         broken |-> <<"garbled">>, nowhere |-> <<"missing">>]
AffixFile(apostrophes) == <<[version |-> 1, language |-> "tr", suffixes |-> <<"in">>,
                             apostrophes |-> apostrophes]>>
Turkish == [tr |-> AffixFile(<<<<"'">>>>)]

Part(name, inside) == [name |-> name, inside |-> inside]
At(i) == <<"[", i>>
Scopes == [everyContent |-> <<Part("messages", <<At("[*]")>>), Part("content", <<>>)>>,
           firstTo |-> <<Part("messages", <<At("[0]")>>), Part("content", <<>>), Part("to", <<>>)>>,
           first |-> <<Part("messages", <<At("[0]")>>)>>,
           second |-> <<Part("messages", <<At("[1]")>>)>>,
           messages |-> <<Part("messages", <<>>)>>,
           trailing |-> <<Part("messages", <<At("[0]"), <<"x", "[1]">>>>)>>,
           unclosed |-> <<Part("messages", <<<<"[", "">>>>)>>,
           dotted |-> <<Part("messages", <<>>), Part("", <<>>)>>]

Bare(mode) == [policy_id |-> Text("p"), policy_version |-> Text("1"),
               default |-> Table([mode |-> Text(mode)])]
WithList(source) == [dictionary |-> Table([source |-> Text(source)])]
Inflected == [affix_rules |-> Table([languages |-> Array(<<Text("tr")>>)])]
Full == Bare("mask") @@ WithList("names") @@ Inflected
Ruled(rules) == Full @@ [rule |-> Array(rules)]
FileOf(document) == [text |-> Table(document), pinned |-> <<>>, lists |-> Disk, rules |-> Turkish]

To(entity) == [entity |-> Text(entity)]
In(scope) == [scope |-> Text(scope)]
Rule(mode, more) == Table([mode |-> Text(mode)] @@ more)
RuleLists == {
  <<>>,
  <<Rule("allow", In("everyContent") @@ To("PERSON"))>>,
  <<Rule("mask", In("everyContent") @@ To("PERSON")), Rule("allow", In("everyContent") @@ To("PERSON"))>>,
  <<Rule("allow", In("firstTo") @@ To("PERSON"))>>,
  <<Rule("block", In("first")), Rule("mask", In("everyContent"))>>,
  <<Rule("mask", To("DATE"))>>,
  <<Rule("block", In("messages") @@ To("IBAN")), Rule("allow", In("second") @@ To("IBAN"))>>,
  <<Rule("allow", In("trailing") @@ To("PERSON"))>>,
  <<Rule("allow", In("unclosed") @@ To("PERSON"))>>,
  <<Rule("allow", In("dotted") @@ To("PERSON"))>>,
  <<Rule("allow", [entity |-> Array(<<Text("IBAN")>>)])>>,
  <<Rule("allow", [scope |-> Array(<<Text("first")>>)] @@ To("PERSON"))>>,
  <<Rule("allow", To("PASSPORT"))>>,
  <<Rule("Allow", To("PERSON"))>>,
  <<Rule("allow", [entities |-> Text("IBAN")])>>,
  <<Number(1)>>}
Ruled1 == {Ruled(r) : r \in RuleLists}
Chosen1 == {Bare(d) @@ [date_policy |-> Text("block"), code_block_policy |-> Text(c)] @@ l :
              d \in {"mask", "allow"}, c \in {"pattern-only", "full", "skip"},
              l \in {WithList("names"),
                     [dictionary |-> Table([source |-> Text("nowhere"), required |-> No])]}}
\* One thing each that may or may not be said.
Said == {
  [dictionary |-> Table([source |-> Text("nowhere"), required |-> Text("no")])],
  [dictionary |-> Table([source |-> Text("broken"), required |-> No])],
  [dictionary |-> Table([required |-> No])],
  WithList("nowhere"), WithList("blank"), WithList("codes"), WithList("later"),
  [affix_rules |-> Table(<<>>)], [affix_rules |-> Table([languages |-> Array(<<>>)])],
  [affix_rules |-> Table([languages |-> Array(<<Text("tr"), Text("tr")>>)])],
  [affix_rules |-> Table([languages |-> Array(<<Text("en")>>)])],
  [date_policy |-> Text("shift")], [date_policy |-> Yes], [derived_date_action |-> Text("fail")],
  [code_block_policy |-> Number(1)], [code_block_polcy |-> Text("full")],
  [masking_profile |-> Text("pattern")], [rule |-> Table(<<>>)],
  [alias_style |-> Text("opaque"), stream |-> Table([l_max_session |-> Number(64)])],
  [alias_style |-> Text("opaque"), stream |-> Table([l_max_session |-> Number(32)])],
  [stream |-> Table([hold_timeout_ms |-> Number(-1)])], [stream |-> Number(40)],
  [detection |-> Table([ner |-> Table([enabled |-> Yes])])],
  [detection |-> Table([ner |-> Table([enabled |-> Text("true")])])],
  [detection |-> Table([ner |-> Table([enabled |-> No, threshold |-> <<"percent", 50>>])])],
  [detection |-> Table([ner |-> Table([languages |-> Array(<<Text("tr"), Text("en")>>)])])],
  [policy_id |-> Text("")], [default |-> Text("mask")],
  [default |-> Table([mode |-> Text("mask"), entity |-> Text("DATE")])],
  [policy_hash |-> <<"digest", Bare("mask")>>], [policy_hash |-> <<"digest", Bare("allow")>>],
  [policy_hash |-> Text("abc")]}
EveryFile == {FileOf(d) : d \in Ruled1 \cup Chosen1 \cup {s @@ Bare("mask") : s \in Said}}
  \cup {[FileOf(Bare("allow")) EXCEPT !.pinned = <<"digest", Bare(d)>>] : d \in {"allow", "mask"}}
  \cup {[FileOf(Full) EXCEPT !.rules = [tr |-> f]] :
          f \in {<<>>, AffixFile(<<>>), AffixFile(<<<<>>>>), AffixFile(<<<<"'", "'">>>>)}}
  \cup {[FileOf(Full) EXCEPT !.text = <<"garbled">>]}

Message(i, raw) == [path |-> <<"messages", i, "content">>, raw |-> raw]
One(raw) == <<Message("[0]", raw)>>
Document(to, note) == <<"{", "to", ":">> \o to \o <<"|", "note", ":">> \o note \o <<"|", "}">>
EveryBody == {
  One(<<"ali", "_", "veli">>),
  One(<<"ali", "_", "veli", "can">>),
  One(<<"ali", "'", "in", "_", "ali", "in">>),
  One(<<"kim", "_", "ali", "can">>),
  One(<<"ali", "fence", "ali", "_">> \o Short),
  One(Short \o <<"_">> \o Long),
  One(Long \o <<"_">> \o Short),
  One(<<"day", "_", "ali">>),
  One(<<"P1", ".", "_", "ali">>),
  One(Document(<<"u-ali", "_">> \o Short, <<"ali", "_", "veli">>)),
  One(Document(<<"ali">>, <<"fence", "ali">>)),
  One(Document(<<"ali", "_">> \o Short, <<"ali", "_", "veli">>)),
  One(<<"{", "ali", ":", "ali", "|", "}">>),
  <<Message("[0]", <<"ali", "_", "veli">>), Message("[1]", <<"ali", "_">> \o Short)>>}
=============================================================================
