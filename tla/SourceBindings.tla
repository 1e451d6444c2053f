--------------------------- MODULE SourceBindings ---------------------------
(***************************************************************************)
(* What the names of one source file resolve to:                           *)
(* crates/periskop-static-scanner/src/engine/bindings.rs and its           *)
(* TypeScript, Go and Java companions.                                     *)
(*                                                                         *)
(* A file is a sequence of statements in source order: imports, values     *)
(* built from a constructor (makes) and calls.  A path is a sequence of    *)
(* segments.  The table has one entry per name for the whole file, and     *)
(* the walks that fill it keep their nodes on a stack, so they meet the    *)
(* statements last one first.                                              *)
(***************************************************************************)
EXTENDS Sequences, SequencesExt

CONSTANTS
  Platform,     \* packages that ship with Java
  PackageName   \* Go's package name convention: from import path to name

Languages == {"python", "typescript", "go", "java"}

\* The forms of an import: of a module under its own name, under an alias, of one
\* name of a module, of its default export, of everything it exports, for its
\* effect only, and the value of a require.
Import(form, module, symbol, local) ==
  [kind |-> "import", form |-> form, module |-> module, symbol |-> symbol,
   local |-> local, scope |-> ""]

\* target = from(url), or target = from.attr(url) when attr is not empty.  A Java
\* declaration says its type in from, whatever its value is.
Make(scope, target, from, attr, url) ==
  [kind |-> "make", scope |-> scope, target |-> target, from |-> from,
   attr |-> attr, url |-> url]

\* recv.method(), or recv().method() when the receiver is built on the spot.
CallOn(scope, recv, built, method) ==
  [kind |-> "call", scope |-> scope, recv |-> recv, built |-> built, method |-> method]

(***************************************************************************)
(* The table                                                               *)
(***************************************************************************)

EmptyTable ==
  [resolved |-> <<>>, modules |-> {}, stars |-> <<>>, contested |-> {}, speculative |-> {}]

Resolves(t, name) == name \in DOMAIN t.resolved

\* bind_import: the later write stands.
BindImport(t, local, path) == [t EXCEPT !.resolved = (local :> path) @@ @]

\* Mutant of BindValue: the later write stands and nothing is remembered.
BindValueQuietly(t, local, path) == [t EXCEPT !.resolved = (local :> path) @@ @]

\* bind_value: as an import, and a name two values disagree about is remembered.
BindValue(t, local, path) ==
  [t EXCEPT !.resolved = (local :> path) @@ @,
            !.contested = IF Resolves(t, local) /\ t.resolved[local] # path
                          THEN @ \cup {local} ELSE @]

\* bind_speculative: the path is a reading of a star import.
BindSpeculative(t, local, path) ==
  [BindImport(t, local, path) EXCEPT !.speculative = @ \cup {local}]

\* The only star import a name may come from: Python counts packages, Java counts
\* import lines and leaves the platform's out.
Candidates(lang, t) ==
  LET stars == SelectSeq(t.stars, LAMBDA m : m \notin Platform)
  IN  CASE lang = "python" -> IF Cardinality(ToSet(t.stars)) = 1 THEN ToSet(t.stars) ELSE {}
        [] lang = "java"   -> IF Len(stars) = 1 THEN ToSet(stars) ELSE {}
        [] OTHER           -> {}

(***************************************************************************)
(* First pass: imports                                                     *)
(***************************************************************************)

\* The name an import puts in the file.  import a.b binds a in Python, and a Go
\* package is reached through the name its path suggests.
LocalOf(lang, s) ==
  IF s.form # "module" THEN s.local
  ELSE IF lang = "python" THEN Head(s.module)
  ELSE PackageName[s.module]

PathOf(s) ==
  CASE s.form = "name"    -> Append(s.module, s.symbol)
    [] s.form = "default" -> Append(s.module, "default")
    [] OTHER              -> s.module

\* Mutant of TakeImport: a star import records its module and nothing else.
TakeImportButStars(lang, s, t) ==
  LET known == [t EXCEPT !.modules = @ \cup {s.module}]
  IN  CASE s.kind # "import" -> t
        [] s.kind = "import" /\ s.form \in {"star", "effect"} -> known
        [] s.kind = "import" /\ s.form = "require" -> BindValue(known, s.local, s.module)
        [] OTHER -> BindImport(known, LocalOf(lang, s), PathOf(s))

\* Every import is recorded.  A star import binds no name, an import for its effect
\* neither, and a require binds as a value does.
TakeImport(lang, s, t) ==
  LET known == [t EXCEPT !.modules = @ \cup {s.module}]
  IN  CASE s.kind # "import" -> t
        [] s.kind = "import" /\ s.form = "star"    -> [known EXCEPT !.stars = Append(@, s.module)]
        [] s.kind = "import" /\ s.form = "effect"  -> known
        [] s.kind = "import" /\ s.form = "require" -> BindValue(known, s.local, s.module)
        [] OTHER -> BindImport(known, LocalOf(lang, s), PathOf(s))

(***************************************************************************)
(* Second pass: one assignment step                                        *)
(***************************************************************************)

\* as_constructed: a module object used as a constructor is its default export.
AsConstructed(lang, path, t) ==
  IF lang = "typescript" /\ path \in t.modules THEN Append(path, "default") ELSE path

\* The paths the constructor of a make leads to by what the file states: one, or
\* none.  Go follows only calls that name a package.
Stated(lang, s, t) ==
  IF ~Resolves(t, s.from) THEN {}
  ELSE IF s.attr # "" THEN {Append(t.resolved[s.from], s.attr)}
  ELSE IF lang = "go" THEN {}
  ELSE {AsConstructed(lang, t.resolved[s.from], t)}

\* The path it may have from a star import, when the file states none.
Assumed(lang, s, t) ==
  IF s.attr # "" \/ Resolves(t, s.from) THEN {}
  ELSE {Append(m, s.from) : m \in Candidates(lang, t)}

\* collect_assignment, bind_instantiation, bind_constructed, bind_declaration and
\* bind_parameter.  Java takes a star import at its word.
TakeValue(lang, s, t) ==
  IF s.kind # "make" THEN t
  ELSE LET known == Stated(lang, s, t)
           guess == Assumed(lang, s, t)
       IN  IF known # {} THEN BindValue(t, s.target, CHOOSE p \in known : TRUE)
           ELSE IF guess = {} THEN t
           ELSE IF lang = "java" THEN BindValue(t, s.target, CHOOSE p \in guess : TRUE)
           ELSE BindSpeculative(t, s.target, CHOOSE p \in guess : TRUE)

\* collect: imports first, whatever the order in the file, then values.
Table(lang, lines) ==
  LET imports == FoldRight(LAMBDA s, t : TakeImport(lang, s, t), lines, EmptyTable)
  IN  FoldRight(LAMBDA s, t : TakeValue(lang, s, t), lines, imports)

\* satisfies: the name leads into the module and through one of the symbols.
Satisfies(t, name, module, symbols) ==
  /\ Resolves(t, name)
  /\ IsPrefix(module, t.resolved[name])
  /\ symbols \cap ToSet(t.resolved[name]) # {}
=============================================================================
