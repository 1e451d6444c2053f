----------------------------- MODULE CallSites -----------------------------
(***************************************************************************)
(* From the calls of one file to findings with an identity:                *)
(* crates/periskop-static-scanner/src/engine/detect.rs.                    *)
(*                                                                         *)
(* A rule asks for a method and for a receiver that resolves into a        *)
(* package.  What survives is a call site; the sites of a file are put in  *)
(* source order and numbered within their scope, and that number is the    *)
(* last part of the identity a later report is compared by.                *)
(***************************************************************************)
EXTENDS SourceBindings, Integers

CONSTANTS
  FieldKeys,   \* names written with a dot: self.client, this.client
  Ordinary     \* modules of the project itself or of the language

\* A detector of calls on a bound receiver.  asksUrl: it downgrades on the
\* constructor keyword that names the destination.
Rule(id, family, provider, module, symbols, methods, asksUrl) ==
  [id |-> id, family |-> family, provider |-> provider, module |-> module,
   symbols |-> symbols, methods |-> methods, asksUrl |-> asksUrl]

\* constructor_arguments: plain names and the arguments they were built with,
\* for the whole file, in the two vocabularies it reads.  The first of two in the
\* source is met last and stays.
Constructions(lang, lines, name) ==
  IF lang \in {"go", "java"} THEN {}
  ELSE {k \in 1..Len(lines) : lines[k].kind = "make" /\ lines[k].target = name}

\* resolve_field for a constructor keyword: the url the index has, or nothing when
\* it has none to read.  A name written with a dot is a field, which no
\* construction is indexed under.
UrlOf(lang, lines, name) ==
  LET made == Constructions(lang, lines, name)
  IN  IF name \in FieldKeys \/ made = {} THEN "not evaluable"
      ELSE lines[Min(made)].url

\* What a rule makes of one call: nothing, an engine fault when the receiver
\* cannot be walked, or a site.
Walkable(lang, call) == ~(lang = "typescript" /\ call.built)

Uncertain(t, name) == name \in t.contested \cup t.speculative

\* classify, and the receiver's own doubt after it.
Judged(url, uncertain) ==
  IF url = "dynamic" \/ uncertain THEN "suspect" ELSE "confirmed"

\* evaluate, for one rule and one call whose method the rule names.
Matches(lang, t, call, r) ==
  /\ call.kind = "call" /\ call.method \in r.methods
  /\ Walkable(lang, call)
  /\ Satisfies(t, call.recv, r.module, r.symbols)

Site(lang, t, lines, k, r) ==
  LET url == IF r.asksUrl THEN UrlOf(lang, lines, lines[k].recv) ELSE "absent"
  IN  [at |-> k, rule |-> r.id, provider |-> r.provider, scope |-> lines[k].scope,
       shape |-> <<lines[k].method, r.module>>,
       confidence |-> Judged(url, Uncertain(t, lines[k].recv)),
       unresolved |-> url = "dynamic" \/ Uncertain(t, lines[k].recv)]

\* One node matched twice by one rule in one shape is one site: a set.
Sites(lang, rules, lines) ==
  LET t == Table(lang, lines)
  IN  UNION {{Site(lang, t, lines, k, r) : r \in {q \in rules : Matches(lang, t, lines[k], q)}} :
               k \in 1..Len(lines)}

\* The engine disagreeing with itself, which goes to the diagnostics.
Faults(lang, rules, lines) ==
  LET t == Table(lang, lines)
      calls == {k \in 1..Len(lines) : lines[k].kind = "call"}
  IN  \E k \in calls : \E r \in rules :
        /\ lines[k].method \in r.methods
        /\ \/ ~Walkable(lang, lines[k])
           \/ /\ Matches(lang, t, lines[k], r) /\ r.asksUrl
              /\ UrlOf(lang, lines, lines[k].recv) = "not evaluable"

\* Source order.  (The code breaks ties by the rule; no two rules here know one
\* package, so they never give one call one shape.)
Before(a, b) == a.at < b.at

\* Mutant of Occurrence: the calls of a file are numbered as one list.
OccurrenceInFile(sites, s) ==
  Cardinality({o \in sites : o.shape = s.shape /\ Before(o, s)})

\* findings_from: a site is numbered among those of its scope and shape.
Occurrence(sites, s) ==
  Cardinality({o \in sites : o.scope = s.scope /\ o.shape = s.shape /\ Before(o, s)})

\* build_finding: the identity of the egress point, and the finding that points at
\* it.  No line is in it.
EgressPoint(path, sites, s) == <<path, s.scope, s.shape, Occurrence(sites, s)>>
FindingId(path, sites, s) == <<EgressPoint(path, sites, s), s.rule>>

Findings(path, sites) ==
  {[id |-> FindingId(path, sites, s), path |-> path, at |-> s.at, scope |-> s.scope,
    provider |-> s.provider, confidence |-> s.confidence, unresolved |-> s.unresolved] :
      s \in sites}

\* unclaimed_imports: what the file imports and no rule of its family knows.  A rule
\* also answers for what is below its module, and for the packages above it.
Covers(known, module) == IsPrefix(known, module) \/ IsPrefix(module, known)
Unclaimed(lang, rules, lines) ==
  {m \in Table(lang, lines).modules \ Ordinary : ~ \E r \in rules : Covers(r.module, m)}
=============================================================================
