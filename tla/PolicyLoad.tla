------------------------------ MODULE PolicyLoad ------------------------------
(***************************************************************************)
(* From the file an operator wrote to the policy the proxy enforces        *)
(* (crates/periskop-proxy/src/policy/load.rs with policy/scope.rs,         *)
(* detect/dictionary.rs and detect/affix.rs): a file either becomes a      *)
(* policy or nothing is served.                                            *)
(*                                                                         *)
(* A TOML value is <<kind, content>>; a table is a function from the keys  *)
(* that are written to values.  A file is a record: its text, the digest   *)
(* it was pinned to, and what the paths it names hold on disk.             *)
(***************************************************************************)
EXTENDS Detection

CONSTANTS None,           \* nothing is there
          Invalid,        \* something is there that the reader refuses
          Indexes,        \* the path steps that are array indexes
          Identifiers,    \* the key names a scope may use
          ScopeParts,     \* [scope text -> its parts between the full stops]
          Folded(_),      \* a unit, case folded
          Blanks          \* the units trim takes away

Is(value, kind) == value[1] = kind
Content(value) == value[2]
Tables(table, key) == key \in DOMAIN table => Is(table[key], "table")
OnlyKeys(table, known) == DOMAIN table \subseteq known

\* Mutant: a value that is no text counts as absent.
TextOrNothing(table, key) ==
  IF key \in DOMAIN table /\ Is(table[key], "text") THEN Content(table[key]) ELSE None

\* A key that holds a text: absent, the text, or refused.
StringAt(table, key) ==
  IF key \notin DOMAIN table THEN None
  ELSE IF Is(table[key], "text") THEN Content(table[key])
  ELSE Invalid
OneOf(table, key, values) == StringAt(table, key) \in values \cup {None}
Chosen(table, key, default) == IF StringAt(table, key) = None THEN default ELSE StringAt(table, key)
NonEmpty(table, key) == StringAt(table, key) \notin {None, Invalid, ""}
Switch(table, key) == key \in DOMAIN table => Is(table[key], "boolean")

\* Every entry of a list is one of the tags, at most once, and there is one.
TagList(table, key, tags) ==
  key \in DOMAIN table =>
    /\ Is(table[key], "array") /\ Content(table[key]) # <<>>
    /\ \A i \in DOMAIN Content(table[key]) :
         LET entry == Content(table[key])[i]
         IN /\ Is(entry, "text") /\ Content(entry) \in tags
            /\ \A j \in 1..(i - 1) : Content(table[key])[j] # entry

-----------------------------------------------------------------------------
(* Rules.                                                                  *)

Modes == {"mask", "block", "allow"}
ModeHolds(table) == StringAt(table, "mode") \in Modes

\* A part is a name and the bracketed texts behind it, each <<the character it
\* opens with, what is inside>>.  The opening character is not looked at.
PartParses(part) ==
  /\ part.name # "" \/ part.inside # <<>>
  /\ part.name \in Identifiers \cup {""}
  /\ \A i \in DOMAIN part.inside : part.inside[i][2] \in Indexes \cup {"[*]"}
ScopeParses(text) == text # "" /\ \A i \in DOMAIN ScopeParts[text] : PartParses(ScopeParts[text][i])
StepsOf(text) ==
  LET Steps(part) == (IF part.name = "" THEN <<>> ELSE <<part.name>>)
                       \o [i \in DOMAIN part.inside |-> part.inside[i][2]]
  IN FlattenSeq([i \in DOMAIN ScopeParts[text] |-> Steps(ScopeParts[text][i])])

RuleParses(item) ==
  /\ Is(item, "table")
  /\ LET table == Content(item)
         scope == StringAt(table, "scope")
     IN /\ OnlyKeys(table, {"scope", "entity", "mode"})
        /\ ModeHolds(table)
        /\ OneOf(table, "entity", ToSet(EntityOrder))
        /\ scope # Invalid
        /\ scope # None => ScopeParses(scope)
RuleOf(table) ==
  [scope |-> IF StringAt(table, "scope") = None THEN <<>> ELSE StepsOf(StringAt(table, "scope")),
   entity |-> StringAt(table, "entity"), mode |-> StringAt(table, "mode")]

RulesParse(document) ==
  "rule" \in DOMAIN document =>
    /\ Is(document["rule"], "array")
    /\ \A i \in DOMAIN Content(document["rule"]) : RuleParses(Content(document["rule"])[i])
RulesOf(document) ==
  IF "rule" \notin DOMAIN document THEN <<>>
  ELSE [i \in DOMAIN Content(document["rule"]) |-> RuleOf(Content(Content(document["rule"])[i]))]

-----------------------------------------------------------------------------
(* The other tables.                                                       *)

Within(value, bounds) == \/ Is(value, "number") /\ Content(value) \in bounds
                         \/ Is(value, "percent") /\ Content(value) \in 0..100
\* The labelling layer is read and may not be switched on.
DetectionHolds(document) ==
  LET detection == Content(document["detection"])
      ner == Content(detection["ner"])
  IN /\ Tables(document, "detection")
     /\ "detection" \in DOMAIN document =>
          /\ OnlyKeys(detection, {"ner"}) /\ Tables(detection, "ner")
          /\ "ner" \in DOMAIN detection =>
               /\ OnlyKeys(ner, {"enabled", "threshold", "languages", "on_model_error"})
               /\ "enabled" \in DOMAIN ner => ner["enabled"] = <<"boolean", FALSE>>
               /\ "threshold" \in DOMAIN ner => Within(ner["threshold"], {0, 1})
               /\ TagList(ner, "languages", {"tr", "en"})
               /\ OneOf(ner, "on_model_error", {"strict", "degraded"})

Ceiling(style) == IF style = "opaque" THEN 32 ELSE 128
Whole(table, key, least) ==
  key \in DOMAIN table => Is(table[key], "number") /\ Content(table[key]) >= least
StreamHolds(document, style) ==
  LET stream == Content(document["stream"])
  IN /\ Tables(document, "stream")
     /\ "stream" \in DOMAIN document =>
          /\ OnlyKeys(stream, {"hold_timeout_ms", "l_max_session"})
          /\ Whole(stream, "hold_timeout_ms", 0) /\ Whole(stream, "l_max_session", 1)
          /\ "l_max_session" \in DOMAIN stream => Content(stream["l_max_session"]) <= Ceiling(style)
NumberIn(document, key, default) ==
  IF "stream" \in DOMAIN document /\ key \in DOMAIN Content(document["stream"])
  THEN Content(Content(document["stream"])[key]) ELSE default

\* One language has rules.  A rule file is <<>> or <<its fields>>: <<>> when it
\* is missing, unreadable or not the shape.
AffixFileHolds(file, language) ==
  /\ file # <<>>
  /\ file[1].version = 1 /\ file[1].language = language
  /\ file[1].suffixes # <<>> /\ file[1].apostrophes # <<>>
  /\ \A i \in DOMAIN file[1].apostrophes : Len(file[1].apostrophes[i]) = 1
LanguagesOf(document) ==
  IF "affix_rules" \in DOMAIN document /\ "languages" \in DOMAIN Content(document["affix_rules"])
  THEN {Content(entry) : entry \in ToSet(Content(Content(document["affix_rules"])["languages"]))}
  ELSE {}
AffixesHold(document, rules) ==
  /\ Tables(document, "affix_rules")
  /\ "affix_rules" \in DOMAIN document =>
       /\ OnlyKeys(Content(document["affix_rules"]), {"languages"})
       /\ TagList(Content(document["affix_rules"]), "languages", {"tr"})
       /\ \A language \in LanguagesOf(document) : AffixFileHolds(rules[language], language)

-----------------------------------------------------------------------------
(* The word list.  What a path holds is <<"missing">>, <<"garbled">> or     *)
(* <<"list", fields>>.                                                     *)

ListHolds(held) ==
  /\ Is(held, "list")
  /\ Content(held).version = 1 /\ Content(held).id # ""
  /\ \A i \in DOMAIN Content(held).entries :
       LET entry == Content(held).entries[i]
       IN /\ \E unit \in ToSet(entry.value) : unit \notin Blanks
          /\ entry.type \in DictionaryTypes
FoldText(text) == [i \in DOMAIN text |-> Folded(text[i])]
\* The first of the entries that fold to one text decides its type.
EntriesOf(entries) ==
  LET folded == [i \in DOMAIN entries |-> FoldText(entries[i].value)]
  IN [f \in ToSet(folded) |-> entries[SelectInSeq(folded, LAMBDA g : g = f)].type]

Required(block) == IF "required" \in DOMAIN block THEN Content(block["required"]) ELSE TRUE
DictionaryHolds(document, lists) ==
  LET block == Content(document["dictionary"])
      held == lists[StringAt(block, "source")]
  IN /\ Tables(document, "dictionary")
     /\ "dictionary" \in DOMAIN document =>
          /\ OnlyKeys(block, {"source", "required"}) /\ Switch(block, "required")
          /\ StringAt(block, "source") \notin {None, Invalid}
          /\ IF Is(held, "missing") THEN ~Required(block) ELSE ListHolds(held)
ListOf(document, lists) ==
  LET affixes == LanguagesOf(document) # {}
      Empty(available) == [entries |-> <<>>, affixes |-> affixes, available |-> available]
  IN IF "dictionary" \notin DOMAIN document THEN Empty(TRUE)
     ELSE LET held == lists[StringAt(Content(document["dictionary"]), "source")]
          IN IF Is(held, "missing") THEN Empty(FALSE)
             ELSE [Empty(TRUE) EXCEPT !.entries = EntriesOf(Content(held).entries)]

-----------------------------------------------------------------------------
(* The load.                                                               *)

TopLevelKeys == {"policy_id", "policy_version", "policy_hash", "default", "rule", "alias_style",
                 "date_policy", "derived_date_action", "on_hold_timeout", "code_block_policy",
                 "tool_call_policy", "detection", "stream", "dictionary", "affix_rules"}

\* The body a digest covers.  A digest is named by the body it is of.
Body(document) == [key \in DOMAIN document \ {"policy_hash"} |-> document[key]]
HashHolds(document, pinned) ==
  /\ "policy_hash" \in DOMAIN document => document["policy_hash"] = <<"digest", Body(document)>>
  /\ pinned # <<>> => pinned = <<"digest", Body(document)>>

Styles == {"type-preserving", "opaque"}
Loads(file) ==
  LET document == Content(file.text)
  IN /\ Is(file.text, "table")
     /\ HashHolds(document, file.pinned)
     /\ OnlyKeys(document, TopLevelKeys)
     /\ NonEmpty(document, "policy_id") /\ NonEmpty(document, "policy_version")
     /\ "default" \in DOMAIN document /\ Tables(document, "default")
     /\ OnlyKeys(Content(document["default"]), {"mode"}) /\ ModeHolds(Content(document["default"]))
     /\ RulesParse(document)
     /\ OneOf(document, "alias_style", Styles)
     /\ OneOf(document, "date_policy", {"allow", "block"})
     /\ OneOf(document, "derived_date_action", {"annotate", "fail"})
     /\ OneOf(document, "on_hold_timeout", {"flush", "wait"})
     /\ OneOf(document, "code_block_policy", {"pattern-only", "full", "skip"})
     /\ OneOf(document, "tool_call_policy", {"pass-through", "reject"})
     /\ DetectionHolds(document)
     /\ StreamHolds(document, Chosen(document, "alias_style", "type-preserving"))
     /\ AffixesHold(document, file.rules)
     /\ DictionaryHolds(document, file.lists)

Enforced(file) ==
  LET document == Content(file.text)
  IN [rules |-> RulesOf(document), default |-> StringAt(Content(document["default"]), "mode"),
      style |-> Chosen(document, "alias_style", "type-preserving"),
      date |-> Chosen(document, "date_policy", "allow"),
      hold |-> Chosen(document, "on_hold_timeout", "flush"),
      code |-> Chosen(document, "code_block_policy", "pattern-only"),
      tools |-> Chosen(document, "tool_call_policy", "pass-through"),
      holdFor |-> NumberIn(document, "hold_timeout_ms", 40),
      lookahead |-> NumberIn(document, "l_max_session", None),
      warned |-> "derived_date_action" \in DOMAIN document,
      list |-> ListOf(document, file.lists)]

-----------------------------------------------------------------------------
(* What the file says, read without the loader.                            *)

Writes(table, key, text) == key \in DOMAIN table /\ table[key] = <<"text", text>>
Silent(table, key) == key \notin DOMAIN table
\* A scope covers a path when its steps, written out, lie along it.
ReachesTo(text, path) ==
  LET steps == StepsOf(text)
  IN /\ Len(steps) <= Len(path)
     /\ \A i \in DOMAIN steps : steps[i] = path[i] \/ (steps[i] = "[*]" /\ path[i] \in Indexes)
RulesWritten(document) ==
  IF Silent(document, "rule") THEN {}
  ELSE {Content(item) : item \in ToSet(Content(document["rule"]))}
Names(rule, path, entity) ==
  /\ Silent(rule, "entity") \/ Writes(rule, "entity", entity)
  /\ Silent(rule, "scope") \/ \E text \in DOMAIN ScopeParts :
       Writes(rule, "scope", text) /\ ReachesTo(text, path)
\* Somewhere in the file it is written that this type may cross at this path.
SaysAllow(file, path, entity) ==
  LET document == Content(file.text)
  IN \/ Writes(Content(document["default"]), "mode", "allow")
     \/ \E rule \in RulesWritten(document) :
          Writes(rule, "mode", "allow") /\ Names(rule, path, entity)
     \/ /\ entity = "DATE"
        /\ Silent(document, "date_policy") \/ Writes(document, "date_policy", "allow")
        /\ ~\E rule \in RulesWritten(document) :
              Writes(rule, "entity", entity) /\ Names(rule, path, entity)
=============================================================================
