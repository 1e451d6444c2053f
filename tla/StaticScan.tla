----------------------------- MODULE StaticScan -----------------------------
(***************************************************************************)
(* One scan of a source tree, from the walk to the exit code:              *)
(* crates/periskop-cli/src/scan.rs over the scanner's discovery.rs,        *)
(* parser.rs and detect.rs, and the report that decides the verdict.       *)
(*                                                                         *)
(* The tree is walked once and every file that is code is read again when  *)
(* its turn comes; somebody may change one in between.  A file the         *)
(* scanner did not read, or read in part, has to be named with a reason.   *)
(***************************************************************************)
EXTENDS CallSites

CONSTANTS
  Order,     \* the paths of the tree, in the order a report lists them
  Setups,    \* the trees, rule sets and coverage limits a scan may be run with
  NoLimit,   \* no --max-unparsed-ratio
  MaxBody    \* bound: statements below the imports of a file

VARIABLES
  tree,        \* what is at every path
  rules,       \* the rules that loaded, those that compiled, and whether a file of
               \* them could not be loaded
  limit,       \* --max-unparsed-ratio, in basis points
  phase,       \* "idle", "walked" or "reported"
  queue,       \* discovered files still to be scanned
  touched,     \* somebody changed a file after the walk
  walked,      \* observer: what the walk met at every path
  read,        \* observer: the text of every file that was read in full
  parsed,      \* coverage.parsed_files
  unparsed,    \* coverage.unparsed_files
  undetected,  \* coverage.undetected_libraries
  diagnosed,   \* what the diagnostics name: paths, and the engine's own faults
  findings,    \* the findings of the report
  exit         \* the exit code of the command

\* What an entry of the tree may turn out to be.
Kinds == {"code", "garbled", "gone", "misnamed", "linked code", "linked directory",
          "linked text", "unreadable", "locked directory", "foreign", "large", "binary"}

Path == Range(Order)

ASSUME ScanAssumption ==
  /\ Order \in Seq(Path) /\ NoLimit \notin Nat
  /\ \A s \in Setups :
       /\ s.limit \in Nat \cup {NoLimit} /\ s.tree = [p \in Path |-> s.tree[p]]
       /\ \A p \in Path : LET e == s.tree[p] IN
            e.kind \in Kinds /\ e = [kind |-> e.kind, source |-> e.source, body |-> e.body]

world == <<tree, rules, limit>>
report == <<parsed, unparsed, undetected, diagnosed, findings>>
vars == <<tree, rules, limit, phase, queue, touched, walked, read, parsed, unparsed,
          undetected, diagnosed, findings, exit>>

\* A file of code is written in a source, [lang, imports, words], whose words are
\* the statements an editor may put below the imports.  Anything else has a kind.
Code(source, body) == [kind |-> "code", source |-> source, body |-> body]
NoSource == [lang |-> "", imports |-> <<>>, words |-> {}]
Other(kind) == [kind |-> kind, source |-> NoSource, body |-> <<>>]
Lines(e) == e.source.imports \o e.body

NothingYet ==
  /\ queue = <<>> /\ touched = FALSE /\ walked = [p \in Path |-> "gone"] /\ read = <<>>
  /\ parsed = 0 /\ unparsed = {} /\ undetected = {} /\ diagnosed = {} /\ findings = {}
  /\ exit = "none"

Init ==
  /\ \E s \in Setups : tree = s.tree /\ rules = s.rules /\ limit = s.limit
  /\ phase = "idle"
  /\ NothingYet

(***************************************************************************)
(* The walk                                                                *)
(***************************************************************************)

\* Mutant of SkipReason: an error of the walk is passed over.
SkipReasonOfFiles(kind) ==
  CASE kind \in {"linked code", "linked directory", "unreadable"} -> {"io_error"}
    [] kind \in {"linked text", "foreign"} -> {"unknown_language"}
    [] kind = "large"  -> {"skipped_too_large"}
    [] kind = "binary" -> {"skipped_binary"}
    [] OTHER -> {}

\* discover, classify_file and record_walk_error: why something is not scanned.
SkipReason(kind) ==
  CASE kind \in {"linked code", "linked directory", "unreadable", "locked directory"}
         -> {"io_error"}
    [] kind \in {"linked text", "foreign"} -> {"unknown_language"}
    [] kind = "large"  -> {"skipped_too_large"}
    [] kind = "binary" -> {"skipped_binary"}
    [] OTHER -> {}

\* The k-th of a set of numbers, from the smallest.
Nth(S, k) == CHOOSE i \in S : Cardinality({j \in S : j <= i}) = k

\* The places of the report's order that hold a file to be read again.
ToRead == {i \in DOMAIN Order : tree[Order[i]].kind \in {"code", "garbled"}}

\* A name that is not UTF-8 leaves the scan in the diagnostics.
Walk ==
  /\ phase = "idle"
  /\ phase' = "walked"
  /\ queue' = [k \in 1..Cardinality(ToRead) |-> Order[Nth(ToRead, k)]]
  /\ unparsed' = UNION {{<<p, r>> : r \in SkipReason(tree[p].kind)} : p \in Path}
  /\ diagnosed' = {p \in Path : tree[p].kind = "misnamed"}
  /\ walked' = [p \in Path |-> tree[p].kind]
  /\ UNCHANGED world /\ UNCHANGED <<touched, read, parsed, undetected, findings, exit>>

\* Between the walk and the second reading a file goes, or stops being readable,
\* or gets one more statement.
Touch(p) ==
  /\ phase = "walked" /\ ~touched /\ p \in Range(queue) /\ tree[p].kind = "code"
  /\ touched' = TRUE
  /\ \/ \E kind \in {"gone", "unreadable", "garbled"} : tree' = [tree EXCEPT ![p].kind = kind]
     \/ \E w \in tree[p].source.words :
          /\ Len(tree[p].body) < MaxBody
          /\ tree' = [tree EXCEPT ![p].body = Append(@, w)]
  /\ UNCHANGED <<rules, limit, phase, queue, walked, read, exit>> /\ UNCHANGED report

(***************************************************************************)
(* One file                                                                *)
(***************************************************************************)

\* compile_rule_families: the detectors that run over a grammar, and those whose
\* packages it counts as known.
Usable(lang) == {r \in rules.usable : r.family = lang}
Loaded(lang) == {r \in rules.loaded : r.family = lang}

NotScanned(p, reason) ==
  /\ unparsed' = unparsed \cup {<<p, reason>>}
  /\ UNCHANGED <<parsed, undetected, diagnosed, findings, read>>

\* detect over the text the tree shows, and what the loop does with it.
Scanned(p, lang, lines) ==
  /\ parsed' = parsed + 1
  /\ findings' = findings \cup Findings(p, Sites(lang, Usable(lang), lines))
  /\ undetected' = undetected \cup Unclaimed(lang, Loaded(lang), lines)
  /\ diagnosed' = diagnosed \cup (IF Faults(lang, Usable(lang), lines) THEN {"engine"} ELSE {})

\* A grammar without a usable rule is not read at all.
NoGrammar(p) ==
  /\ Usable(tree[p].source.lang) = {}
  /\ NotScanned(p, "no_grammar")

\* read_source.
Unreadable(p) ==
  /\ Usable(tree[p].source.lang) # {} /\ tree[p].kind # "code"
  /\ NotScanned(p, "io_error")

\* parse_as ends without a tree.
Unparseable(p) ==
  /\ Usable(tree[p].source.lang) # {} /\ tree[p].kind = "code"
  /\ \E reason \in {"parse_timeout", "parse_error"} : NotScanned(p, reason)

ParsedInFull(p) ==
  /\ Usable(tree[p].source.lang) # {} /\ tree[p].kind = "code"
  /\ Scanned(p, tree[p].source.lang, Lines(tree[p]))
  /\ read' = [q \in DOMAIN read \cup {p} |-> IF q = p THEN Lines(tree[p]) ELSE read[q]]
  /\ UNCHANGED unparsed

\* The tree has damaged regions: what is in them is not seen.
ParsedInPart(p) ==
  /\ Usable(tree[p].source.lang) # {} /\ tree[p].kind = "code"
  /\ \E k \in 1..Len(Lines(tree[p])) :
       Scanned(p, tree[p].source.lang, RemoveAt(Lines(tree[p]), k))
  /\ unparsed' = unparsed \cup {<<p, "partial_parse">>}
  /\ UNCHANGED read

ScanFile ==
  /\ phase = "walked" /\ queue # <<>>
  /\ LET p == Head(queue)
     IN  NoGrammar(p) \/ Unreadable(p) \/ Unparseable(p) \/ ParsedInFull(p) \/ ParsedInPart(p)
  /\ queue' = Tail(queue)
  /\ UNCHANGED world /\ UNCHANGED <<phase, touched, walked, exit>>

(***************************************************************************)
(* The report                                                              *)
(***************************************************************************)

\* unparsed_ratio_basis_points: never rounded down.
UnparsedRatio(done, missing) ==
  IF done + missing = 0 THEN 0
  ELSE (missing * 10000 + done + missing - 1) \div (done + missing)

Counted == {u \in unparsed : u[2] # "skipped_binary"}

\* The only failing hit of a scan without a policy: a rule file that would not load,
\* a rule that would not compile, or no rule at all.
RulesFailed == rules.broken \/ rules.loaded = {} \/ rules.usable # rules.loaded
Verdict ==
  IF RulesFailed THEN "FAIL"
  ELSE IF \E f \in findings : f.confidence = "suspect" THEN "WARN" ELSE "PASS"

\* Coverage is looked at before the verdict.
ExitCode ==
  IF limit # NoLimit /\ UnparsedRatio(parsed, Cardinality(Counted)) > limit
  THEN "insufficient coverage"
  ELSE IF Verdict = "FAIL" THEN "fail" ELSE "pass"

\* build, and run_scan after it.
Report ==
  /\ phase = "walked" /\ queue = <<>>
  /\ phase' = "reported"
  /\ exit' = ExitCode
  /\ UNCHANGED world /\ UNCHANGED report /\ UNCHANGED <<queue, touched, walked, read>>

(***************************************************************************)
(* Before the next scan                                                    *)
(***************************************************************************)

Texts(e) ==
  {e.body \o <<w>> : w \in e.source.words} \cup {<<w>> \o e.body : w \in e.source.words}

\* A statement is written at either end of what is below the imports.
Edit(p) ==
  /\ phase = "reported" /\ tree[p].kind = "code"
  /\ \E text \in Texts(tree[p]) :
       /\ Len(text) <= MaxBody
       /\ tree' = [tree EXCEPT ![p].body = text]
  /\ phase' = "idle" /\ exit' = "none"
  /\ queue' = <<>> /\ touched' = FALSE /\ walked' = [q \in Path |-> "gone"] /\ read' = <<>>
  /\ parsed' = 0 /\ unparsed' = {} /\ undetected' = {} /\ diagnosed' = {} /\ findings' = {}
  /\ UNCHANGED <<rules, limit>>

Next ==
  \/ Walk \/ ScanFile \/ Report
  \/ \E p \in Path : Touch(p) \/ Edit(p)

Spec == Init /\ [][Next]_vars

(***************************************************************************)
(* What the text says, without a table                                     *)
(***************************************************************************)

\* The imports a name may come from: those that write it down, or else the star
\* imports of the languages whose scanner reads them.
Suppliers(lang, lines, name) ==
  LET imports == {i \in 1..Len(lines) : lines[i].kind = "import"}
      writes  == {i \in imports : /\ lines[i].form \notin {"star", "effect"}
                                  /\ LocalOf(lang, lines[i]) = name}
      stars   == {i \in imports : /\ lines[i].form = "star"
                                  /\ lang \in {"python", "java"}
                                  /\ lines[i].module \notin Platform}
  IN  IF writes # {} THEN writes ELSE stars

\* The class a constructor names, when one import supplies the name.
Class(lang, s, from, attr) ==
  LET path == IF s.form = "star" THEN Append(s.module, from) ELSE PathOf(s)
  IN  CASE attr # "" -> Append(path, attr)
        [] attr = "" /\ s.form \in {"module", "namespace", "require"} -> Append(path, "default")
        [] OTHER -> path

IsOf(path, r) == IsPrefix(r.module, path) /\ r.symbols \cap Range(path) # {}

\* The rules whose client the make on line j builds.
BuiltBy(lang, lines, j, rs) ==
  LET i == Min(Suppliers(lang, lines, lines[j].from))
  IN  {r \in rs : IsOf(Class(lang, lines[i], lines[j].from, lines[j].attr), r)}

MakesOf(lines, name) == {j \in 1..Len(lines) : lines[j].kind = "make" /\ lines[j].target = name}

\* The makes a receiver was given its value by: the last one above it in its scope.
Origins(lines, k) ==
  LET above == {j \in MakesOf(lines, lines[k].recv) : j < k /\ lines[j].scope = lines[k].scope}
  IN  IF above = {} THEN {} ELSE {Max(above)}

OneSupplier(lang, lines, j) == Cardinality(Suppliers(lang, lines, lines[j].from)) = 1

(***************************************************************************)
(* Properties                                                              *)
(***************************************************************************)

\* The calls the scanner promises to see: on a name, built in the same scope in one
\* step from an import the file states or from its only star, and of which every
\* make in the file builds a client that has the method (bindings.rs, the limits
\* its header lists).
Owed(lang, lines, k) ==
  /\ lines[k].kind = "call" /\ ~lines[k].built /\ Origins(lines, k) # {}
  /\ \A j \in MakesOf(lines, lines[k].recv) :
       /\ OneSupplier(lang, lines, j)
       /\ \E r \in BuiltBy(lang, lines, j, Loaded(lang)) : lines[k].method \in r.methods

\* No such call is neither found nor declared: every one, the second of two alike
\* included, has a finding at its place in a file that was read in full, and no two
\* findings share an identity, which the report keeps one of (detect.rs findings_from,
\* report.rs build), or the run says that its rules did not load.
EveryCallIsReported ==
  phase = "reported" /\ ~RulesFailed =>
    /\ \A p \in DOMAIN read : \A k \in 1..Len(read[p]) :
         Owed(tree[p].source.lang, read[p], k) => \E f \in findings : f.path = p /\ f.at = k
    /\ \A f, g \in findings : f.id = g.id => f = g

\* A finding that is confirmed names the vendor of the client the call is really
\* made on, whatever the same name stands for elsewhere in the file, and no name
\* that only a star import explains is confirmed in Python (bindings.rs: "a
\* confident wrong answer is not" countable; detect.rs receiver_is_uncertain).
ConfirmedIsTheirs ==
  phase = "reported" =>
    \A f \in findings : f.confidence = "confirmed" /\ f.path \in DOMAIN read =>
      LET lang  == tree[f.path].source.lang
          lines == read[f.path]
      IN  \A j \in Origins(lines, f.at) :
            OneSupplier(lang, lines, j) =>
              /\ \E r \in BuiltBy(lang, lines, j, rules.usable) : r.provider = f.provider
              /\ lang = "python" =>
                   lines[Min(Suppliers(lang, lines, lines[j].from))].form # "star"

\* The identifiers a scan gives the findings of one scope.
IdsOf(p, e, scope) ==
  LET lang == e.source.lang
  IN  {f.id : f \in {g \in Findings(p, Sites(lang, Usable(lang), Lines(e))) : g.scope = scope}}

\* A call that is written in one function renames no finding of another, and one that
\* is written below everything renames none at all: a report can be compared with
\* the one before (detect.rs header, "Both survive an edit elsewhere in the file").
EditsStayLocal ==
  [][ \A p \in Path : \A w \in {x \in tree[p].source.words : x.kind = "call"} :
        Edit(p) => \A scope \in {x.scope : x \in tree[p].source.words} :
          /\ tree'[p].body = Append(tree[p].body, w)
             => IdsOf(p, tree[p], scope) \subseteq IdsOf(p, tree'[p], scope)
          /\ tree'[p].body = <<w>> \o tree[p].body /\ scope # w.scope
             => IdsOf(p, tree[p], scope) = IdsOf(p, tree'[p], scope) ]_vars

\* A run that passes has rules, and every file of the tree is read in full, or named
\* with the reason it was not, or named in the diagnostics; and under a limit of
\* nothing unread, only binaries and names that cannot be written were left out
\* (scan.rs, the two invariants of its header; coverage.rs).
PassMeansLooked ==
  phase = "reported" /\ exit = "pass" =>
    /\ ~RulesFailed
    /\ \A p \in Path : walked[p] # "gone" =>
         \/ p \in DOMAIN read \/ p \in diagnosed
         \/ \E u \in unparsed : u[1] = p /\ (limit = 0 => u[2] = "skipped_binary")
=============================================================================
