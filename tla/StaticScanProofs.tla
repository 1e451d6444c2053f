-------------------------- MODULE StaticScanProofs --------------------------
(***************************************************************************)
(* Theorems about StaticScan, for a tree of any size in any language, any  *)
(* set of rules and any limit.                                             *)
(***************************************************************************)
EXTENDS StaticScan, FiniteSetTheorems, TLAPS

(***************************************************************************)
(* The inductive invariant                                                 *)
(***************************************************************************)

IsEntry(e) == e.kind \in Kinds /\ e = [kind |-> e.kind, source |-> e.source, body |-> e.body]
IsTree(t) == t = [p \in Path |-> t[p]] /\ \A p \in Path : IsEntry(t[p])

TypeOK ==
  /\ phase \in {"idle", "walked", "reported"}
  /\ IsTree(tree)
  /\ limit \in Nat \cup {NoLimit}
  /\ queue \in Seq(Path)
  /\ walked \in [Path -> Kinds]
  /\ DOMAIN read \subseteq Path
  /\ parsed \in Nat
  /\ IsFiniteSet(unparsed) /\ \A u \in unparsed : u[1] \in Path

\* Whatever the walk met is still to be read, was read, or is named somewhere.
Accounted(p) ==
  \/ p \in Range(queue) \/ p \in DOMAIN read \/ p \in diagnosed
  \/ \E u \in unparsed : u[1] = p
NothingIsPassedOver ==
  phase # "idle" => \A p \in Path : walked[p] # "gone" => Accounted(p)

\* The exit code is about the report that stands.
ExitIsOfTheReport == phase = "reported" => queue = <<>> /\ exit = ExitCode

IInv == TypeOK /\ NothingIsPassedOver /\ ExitIsOfTheReport

(***************************************************************************)
(* The operators                                                           *)
(***************************************************************************)

\* The members of a finite set of numbers are its first, its second and so on.
LEMMA NthOf ==
  ASSUME NEW S \in SUBSET Nat, IsFiniteSet(S)
  PROVE  /\ Cardinality(S) \in Nat
         /\ \A k \in 1..Cardinality(S) : Nth(S, k) \in S
         /\ \A i \in S : \E k \in 1..Cardinality(S) : Nth(S, k) = i
<1> DEFINE upto(i) == {j \in S : j <= i}
           rank == [i \in S |-> Cardinality(upto(i))]
           n == Cardinality(S)
<1>1. n \in Nat
  BY FS_CardinalityType
<1>2. ASSUME NEW i \in S PROVE IsFiniteSet(upto(i)) /\ rank[i] \in 1..n
  <2>1. upto(i) \in SUBSET S /\ i \in upto(i)
    OBVIOUS
  <2> DEFINE U == upto(i)
  <2> HIDE DEF U
  <2>2. U \in SUBSET S /\ i \in U
    BY <2>1 DEF U
  <2>3. IsFiniteSet(U) /\ Cardinality(U) <= Cardinality(S) /\ Cardinality(U) \in Nat
    BY <2>2, FS_Subset, FS_CardinalityType
  <2>4. Cardinality(U) # 0
    BY <2>2, <2>3, FS_EmptySet
  <2> QED BY <1>1, <2>3, <2>4 DEF U
<1>3. ASSUME NEW i \in S, NEW j \in S, rank[i] = rank[j], i <= j PROVE i = j
  <2>1. upto(i) \in SUBSET upto(j) /\ Cardinality(upto(i)) = Cardinality(upto(j))
    <3>1. \A k \in S : k <= i => k <= j
      BY <1>3
    <3> QED BY <1>3, <3>1
  <2>2. IsFiniteSet(upto(j))
    BY <1>2
  <2>3. upto(j) = upto(i)
    <3> DEFINE U == upto(i)
               V == upto(j)
    <3>1. U \in SUBSET V /\ Cardinality(U) = Cardinality(V) /\ IsFiniteSet(V)
      BY <2>1, <2>2
    <3> HIDE DEF U, V
    <3>2. V = U
      BY <3>1, FS_Subset
    <3> QED BY <3>2 DEF U, V
  <2>4. j \in upto(i)
    BY <2>3
  <2> QED BY <1>3, <2>4
<1>4. \A i, j \in S : rank[i] = rank[j] => i = j
  <2> SUFFICES ASSUME NEW i \in S, NEW j \in S, rank[i] = rank[j] PROVE i = j
    OBVIOUS
  <2>1. i <= j \/ j <= i
    OBVIOUS
  <2> HIDE DEF rank
  <2> QED BY <1>3, <2>1
<1>5. rank \in Injection(S, 1..n)
  <2>1. rank \in [S -> 1..n]
    BY <1>2
  <2> HIDE DEF rank
  <2> QED BY <1>4, <2>1 DEF Injection, IsInjective
<1>6. rank \in Surjection(S, 1..n)
  <2>1. IsFiniteSet(1..n) /\ Cardinality(1..n) = n
    BY <1>1, FS_Interval
  <2> HIDE DEF rank
  <2> QED BY <1>5, <2>1, FS_Injection
<1>7. ASSUME NEW k \in 1..n PROVE Nth(S, k) \in S /\ rank[Nth(S, k)] = k
  <2>1. \E i \in S : rank[i] = k
    <3> HIDE DEF rank
    <3> QED BY <1>6 DEF Surjection
  <2>2. \E i \in S : Cardinality({j \in S : j <= i}) = k
    BY <2>1
  <2>3. Nth(S, k) \in S /\ Cardinality({j \in S : j <= Nth(S, k)}) = k
    BY <2>2 DEF Nth
  <2> QED BY <2>3
<1>8. ASSUME NEW i \in S PROVE rank[i] \in 1..n /\ Nth(S, rank[i]) = i
  <2>1. rank[i] \in 1..n
    BY <1>2
  <2> HIDE DEF rank
  <2>2. Nth(S, rank[i]) \in S /\ rank[Nth(S, rank[i])] = rank[i]
    BY <1>7, <2>1
  <2> QED BY <1>4, <2>1, <2>2
<1> HIDE DEF rank
<1> QED BY <1>1, <1>7, <1>8

\* A report has finitely many paths.
LEMMA PathIsFinite == IsFiniteSet(Path)
<1>1. Order \in Seq(Path)
  BY ScanAssumption
<1>2. Order \in Surjection(1..Len(Order), Path)
  BY <1>1 DEF Surjection, Path, Range
<1>3. IsFiniteSet(1..Len(Order))
  BY <1>1, FS_Interval
<1> QED BY <1>2, <1>3, FS_Surjection

\* Nothing unread beyond a limit of nothing: the share is never rounded down.
LEMMA RatioIsNotRoundedDown ==
  ASSUME NEW done \in Nat, NEW missing \in Nat, UnparsedRatio(done, missing) <= 0
  PROVE  missing = 0
<1> SUFFICES ASSUME missing > 0 PROVE FALSE
  OBVIOUS
<1> DEFINE total == done + missing
           top == missing * 10000 + done + missing - 1
<1>1. total \in Nat /\ total > 0 /\ top \in Nat /\ top >= total
  OBVIOUS
<1>2. UnparsedRatio(done, missing) = top \div total
  BY <1>1 DEF UnparsedRatio
<1> HIDE DEF total, top
<1>3. top \div total >= 1
  BY <1>1
<1> QED BY <1>1, <1>2, <1>3

LEMMA EveryKindHasAReason ==
  \A kind \in Kinds : \/ kind \in {"code", "garbled", "gone", "misnamed"}
                      \/ SkipReason(kind) # {}
BY DEF Kinds, SkipReason

(***************************************************************************)
(* The steps                                                               *)
(***************************************************************************)

LEMMA NewEntry ==
  ASSUME NEW t, IsTree(t), NEW p \in Path, NEW e, IsEntry(e)
  PROVE  IsTree([t EXCEPT ![p] = e])
BY DEF IsTree

LEMMA InitInv == Init => IInv
<1> SUFFICES ASSUME Init PROVE IInv
  OBVIOUS
<1>1. PICK s \in Setups : tree = s.tree /\ limit = s.limit
  BY DEF Init
<1>2. IsTree(tree) /\ limit \in Nat \cup {NoLimit}
  <2>1. s.tree = [p \in Path |-> s.tree[p]] /\ s.limit \in Nat \cup {NoLimit}
    BY ScanAssumption
  <2>2. ASSUME NEW p \in Path PROVE IsEntry(tree[p])
    BY <1>1, ScanAssumption DEF IsEntry
  <2>3. tree = [p \in Path |-> tree[p]]
    BY <1>1, <2>1
  <2> QED BY <1>1, <2>1, <2>2, <2>3 DEF IsTree
<1>3. /\ queue = <<>> /\ walked = [p \in Path |-> "gone"] /\ read = <<>> /\ parsed = 0
      /\ unparsed = {} /\ phase = "idle"
  BY DEF Init, NothingYet
<1>4. TypeOK
  <2>1. queue \in Seq(Path) /\ parsed \in Nat
    BY <1>3
  <2>2. walked \in [Path -> Kinds]
    BY <1>3 DEF Kinds
  <2>3. DOMAIN read \subseteq Path
    BY <1>3
  <2>4. IsFiniteSet(unparsed) /\ \A u \in unparsed : u[1] \in Path
    BY <1>3, FS_EmptySet
  <2> QED BY <1>2, <1>3, <2>1, <2>2, <2>3, <2>4 DEF TypeOK
<1> QED BY <1>3, <1>4 DEF IInv, NothingIsPassedOver, ExitIsOfTheReport

LEMMA WalkKeeps == ASSUME IInv, Walk PROVE IInv'
<1>1. /\ phase = "idle" /\ phase' = "walked"
      /\ queue' = [k \in 1..Cardinality(ToRead) |-> Order[Nth(ToRead, k)]]
      /\ unparsed' = UNION {{<<p, r>> : r \in SkipReason(tree[p].kind)} : p \in Path}
      /\ diagnosed' = {p \in Path : tree[p].kind = "misnamed"}
      /\ walked' = [p \in Path |-> tree[p].kind]
      /\ UNCHANGED <<tree, limit, read, parsed>>
  BY DEF Walk, world
<1>2. Order \in Seq(Path) /\ Path = Range(Order)
  BY ScanAssumption DEF Path
<1>3. ToRead \in SUBSET Nat /\ IsFiniteSet(ToRead)
  <2>1. ToRead \in SUBSET (1..Len(Order))
    BY <1>2 DEF ToRead
  <2>2. IsFiniteSet(1..Len(Order)) /\ 1..Len(Order) \subseteq Nat
    BY <1>2, FS_Interval
  <2> QED BY <2>1, <2>2, FS_Subset
<1> DEFINE n == Cardinality(ToRead)
<1>4. n \in Nat /\ (\A k \in 1..n : Nth(ToRead, k) \in ToRead)
  BY <1>3, NthOf
<1>5. queue' \in Seq(Path)
  <2>1. ASSUME NEW k \in 1..n PROVE Order[Nth(ToRead, k)] \in Path
    BY <1>2, <1>4 DEF ToRead
  <2> HIDE DEF n
  <2> QED BY <1>1, <1>4, <2>1 DEF n
<1>6. ASSUME NEW p \in Path, tree[p].kind \in {"code", "garbled"} PROVE p \in Range(queue')
  <2>1. PICK i \in DOMAIN Order : p = Order[i]
    BY <1>2 DEF Range
  <2>2. i \in ToRead
    BY <1>6, <2>1 DEF ToRead
  <2>3. PICK k \in 1..n : Nth(ToRead, k) = i
    BY <1>3, <2>2, NthOf
  <2>4. k \in DOMAIN queue' /\ queue'[k] = p
    BY <1>1, <2>1, <2>3
  <2> QED BY <2>4 DEF Range
<1>7. \A p \in Path : tree[p].kind \in Kinds
  BY DEF IInv, TypeOK, IsTree, IsEntry
<1> DEFINE Reasons == {"io_error", "unknown_language", "skipped_too_large", "skipped_binary"}
<1>8. \A kind : SkipReason(kind) \subseteq Reasons
  BY DEF SkipReason
<1>9. IsFiniteSet(unparsed')
  <2>1. IsFiniteSet(Reasons)
    <3>1. IsFiniteSet({"io_error"})
      BY FS_Singleton
    <3>2. IsFiniteSet({"io_error"} \cup {"unknown_language"})
      BY <3>1, FS_AddElement
    <3>3. IsFiniteSet(({"io_error"} \cup {"unknown_language"}) \cup {"skipped_too_large"})
      BY <3>2, FS_AddElement
    <3>4. IsFiniteSet((({"io_error"} \cup {"unknown_language"}) \cup {"skipped_too_large"})
                        \cup {"skipped_binary"})
      BY <3>3, FS_AddElement
    <3>5. Reasons = (({"io_error"} \cup {"unknown_language"}) \cup {"skipped_too_large"})
                      \cup {"skipped_binary"}
      OBVIOUS
    <3> QED BY <3>4, <3>5
  <2> HIDE DEF Reasons
  <2>2. IsFiniteSet(Path \X Reasons)
    BY <2>1, PathIsFinite, FS_Product
  <2>3. unparsed' \in SUBSET (Path \X Reasons)
    BY <1>1, <1>8
  <2> QED BY <2>2, <2>3, FS_Subset
<1>10. \A u \in unparsed' : u[1] \in Path
  BY <1>1
<1>11. TypeOK'
  <2>1. walked' \in [Path -> Kinds]
    BY <1>1, <1>7
  <2> QED BY <1>1, <1>5, <1>9, <1>10, <2>1 DEF IInv, TypeOK
<1>12. NothingIsPassedOver'
  <2> SUFFICES ASSUME NEW p \in Path, walked'[p] # "gone" PROVE Accounted(p)'
    BY DEF NothingIsPassedOver
  <2>1. tree[p].kind # "gone" /\ tree[p].kind \in Kinds
    BY <1>1, <1>7
  <2>2. CASE tree[p].kind \in {"code", "garbled"}
    BY <1>6, <2>2 DEF Accounted
  <2>3. CASE tree[p].kind = "misnamed"
    BY <1>1, <2>3 DEF Accounted
  <2>4. CASE SkipReason(tree[p].kind) # {}
    <3>1. PICK r \in SkipReason(tree[p].kind) : TRUE
      BY <2>4
    <3>2. <<p, r>> \in unparsed' /\ <<p, r>>[1] = p
      BY <1>1
    <3> QED BY <3>2 DEF Accounted
  <2> QED BY <2>1, <2>2, <2>3, <2>4, EveryKindHasAReason
<1>13. ExitIsOfTheReport'
  BY <1>1 DEF ExitIsOfTheReport
<1> QED BY <1>11, <1>12, <1>13 DEF IInv

LEMMA TouchKeeps == ASSUME IInv, NEW p \in Path, Touch(p) PROVE IInv'
<1>1. /\ phase = "walked"
      /\ UNCHANGED <<limit, phase, queue, walked, read, parsed, unparsed, diagnosed>>
  BY DEF Touch, report
<1>2. IsTree(tree) /\ IsEntry(tree[p])
  BY DEF IInv, TypeOK, IsTree
<1>3. IsTree(tree')
  <2>1. CASE \E kind \in {"gone", "unreadable", "garbled"} : tree' = [tree EXCEPT ![p].kind = kind]
    <3>1. PICK kind \in {"gone", "unreadable", "garbled"} : tree' = [tree EXCEPT ![p].kind = kind]
      BY <2>1
    <3> DEFINE e == [tree[p] EXCEPT !.kind = kind]
    <3>2. IsEntry(e)
      <4>1. kind \in Kinds
        BY DEF Kinds
      <4> QED BY <1>2, <4>1 DEF IsEntry
    <3>3. tree' = [tree EXCEPT ![p] = e]
      BY <3>1
    <3> HIDE DEF e
    <3> QED BY <1>2, <3>2, <3>3, NewEntry
  <2>2. CASE \E w : tree' = [tree EXCEPT ![p].body = Append(@, w)]
    <3>1. PICK w : tree' = [tree EXCEPT ![p].body = Append(@, w)]
      BY <2>2
    <3> DEFINE text == Append(tree[p].body, w)
               e == [tree[p] EXCEPT !.body = text]
    <3>2. tree' = [tree EXCEPT ![p] = e]
      BY <3>1
    <3>3. IsEntry(e)
      <4> HIDE DEF text
      <4> QED BY <1>2 DEF IsEntry
    <3> HIDE DEF e
    <3> QED BY <1>2, <3>2, <3>3, NewEntry
  <2> QED BY <2>1, <2>2 DEF Touch
<1>4. TypeOK'
  BY <1>1, <1>3 DEF IInv, TypeOK
<1>5. NothingIsPassedOver'
  BY <1>1 DEF IInv, NothingIsPassedOver, Accounted
<1> QED BY <1>1, <1>4, <1>5 DEF IInv, ExitIsOfTheReport

\* A file whose turn it is was read, or is named with a reason; and what was said of
\* the others stands.
LEMMA FileOutcome ==
  ASSUME IInv, NEW p \in Path,
         NoGrammar(p) \/ Unreadable(p) \/ Unparseable(p) \/ ParsedInFull(p) \/ ParsedInPart(p)
  PROVE  /\ DOMAIN read \subseteq DOMAIN read' /\ DOMAIN read' \subseteq Path
         /\ unparsed \subseteq unparsed' /\ IsFiniteSet(unparsed')
         /\ \A u \in unparsed' : u[1] \in Path
         /\ diagnosed \subseteq diagnosed' /\ parsed' \in Nat
         /\ p \in DOMAIN read' \/ \E u \in unparsed' : u[1] = p
<1>1. /\ IsFiniteSet(unparsed) /\ (\A u \in unparsed : u[1] \in Path)
      /\ parsed \in Nat /\ DOMAIN read \subseteq Path
  BY DEF IInv, TypeOK
<1>2. ASSUME NEW reason, unparsed' = unparsed \cup {<<p, reason>>}
      PROVE  /\ unparsed \subseteq unparsed' /\ IsFiniteSet(unparsed')
             /\ \A u \in unparsed' : u[1] \in Path
             /\ \E u \in unparsed' : u[1] = p
  <2>1. <<p, reason>> \in unparsed' /\ <<p, reason>>[1] = p
    BY <1>2
  <2>2. IsFiniteSet(unparsed')
    BY <1>1, <1>2, FS_AddElement
  <2> QED BY <1>1, <1>2, <2>1, <2>2
<1>3. CASE \E reason : NotScanned(p, reason)
  <2>1. PICK reason : NotScanned(p, reason)
    BY <1>3
  <2>2. /\ unparsed' = unparsed \cup {<<p, reason>>}
        /\ parsed' = parsed /\ diagnosed' = diagnosed /\ read' = read
    BY <2>1 DEF NotScanned
  <2> QED BY <1>1, <1>2, <2>2
<1>4. CASE ParsedInFull(p)
  <2>1. /\ parsed' = parsed + 1 /\ diagnosed \subseteq diagnosed' /\ unparsed' = unparsed
        /\ read' = [q \in DOMAIN read \cup {p} |-> IF q = p THEN Lines(tree[p]) ELSE read[q]]
    BY <1>4 DEF ParsedInFull, Scanned
  <2>2. DOMAIN read' = DOMAIN read \cup {p}
    BY <2>1
  <2> QED BY <1>1, <2>1, <2>2
<1>5. CASE ParsedInPart(p)
  <2>1. /\ parsed' = parsed + 1 /\ diagnosed \subseteq diagnosed' /\ read' = read
        /\ unparsed' = unparsed \cup {<<p, "partial_parse">>}
    BY <1>5 DEF ParsedInPart, Scanned
  <2>2. /\ unparsed \subseteq unparsed' /\ IsFiniteSet(unparsed')
        /\ \A u \in unparsed' : u[1] \in Path
        /\ \E u \in unparsed' : u[1] = p
    BY <1>2, <2>1
  <2>3. parsed' \in Nat
    BY <1>1, <2>1
  <2> QED BY <1>1, <2>1, <2>2, <2>3
<1>6. NoGrammar(p) \/ Unreadable(p) \/ Unparseable(p) => \E reason : NotScanned(p, reason)
  BY Zenon DEF NoGrammar, Unreadable, Unparseable
<1> QED BY <1>3, <1>4, <1>5, <1>6

LEMMA ScanFileKeeps == ASSUME IInv, ScanFile PROVE IInv'
<1> DEFINE p == Head(queue)
<1>1. /\ phase = "walked" /\ queue # <<>> /\ queue' = Tail(queue)
      /\ NoGrammar(p) \/ Unreadable(p) \/ Unparseable(p) \/ ParsedInFull(p) \/ ParsedInPart(p)
      /\ UNCHANGED <<tree, limit, phase, walked>>
  BY DEF ScanFile, world
<1>2. queue \in Seq(Path)
  BY DEF IInv, TypeOK
<1>3. /\ p \in Path /\ Tail(queue) \in Seq(Path)
      /\ \A q \in Range(queue) : q = p \/ q \in Range(Tail(queue))
  <2>1. Len(queue) > 0 /\ p = queue[1]
    BY <1>1, <1>2
  <2>2. ASSUME NEW k \in DOMAIN queue, k # 1 PROVE queue[k] \in Range(Tail(queue))
    <3>1. k - 1 \in DOMAIN Tail(queue) /\ Tail(queue)[k - 1] = queue[k]
      BY <1>2, <2>1, <2>2
    <3> QED BY <3>1 DEF Range
  <2>3. \A q \in Range(queue) : q = p \/ q \in Range(Tail(queue))
    <3> HIDE DEF p
    <3> QED BY <2>1, <2>2 DEF Range
  <2> QED BY <1>2, <2>1, <2>3
<1> HIDE DEF p
<1>4. /\ DOMAIN read \subseteq DOMAIN read' /\ DOMAIN read' \subseteq Path
      /\ unparsed \subseteq unparsed' /\ IsFiniteSet(unparsed')
      /\ \A u \in unparsed' : u[1] \in Path
      /\ diagnosed \subseteq diagnosed' /\ parsed' \in Nat
      /\ p \in DOMAIN read' \/ \E u \in unparsed' : u[1] = p
  BY <1>1, <1>3, FileOutcome
<1>5. TypeOK'
  BY <1>1, <1>3, <1>4 DEF IInv, TypeOK
<1>6. NothingIsPassedOver'
  <2> SUFFICES ASSUME NEW q \in Path, walked[q] # "gone" PROVE Accounted(q)'
    BY <1>1 DEF NothingIsPassedOver
  <2>1. Accounted(q)
    BY <1>1 DEF IInv, NothingIsPassedOver
  <2>2. CASE q = p
    BY <1>4, <2>2 DEF Accounted
  <2>3. CASE q # p /\ q \in Range(queue)
    BY <1>1, <1>3, <2>3 DEF Accounted
  <2>4. CASE q \notin Range(queue)
    BY <1>4, <2>1, <2>4 DEF Accounted
  <2> QED BY <2>2, <2>3, <2>4
<1> QED BY <1>1, <1>5, <1>6 DEF IInv, ExitIsOfTheReport

LEMMA ReportKeeps == ASSUME IInv, Report PROVE IInv'
<1>1. /\ phase = "walked" /\ phase' = "reported" /\ queue = <<>> /\ exit' = ExitCode
      /\ UNCHANGED <<tree, rules, limit, queue, walked, read, parsed, unparsed, diagnosed, findings>>
  BY DEF Report, world, report
<1>2. TypeOK'
  BY <1>1 DEF IInv, TypeOK
<1>3. NothingIsPassedOver'
  BY <1>1 DEF IInv, NothingIsPassedOver, Accounted
<1>4. ExitCode' = ExitCode
  BY <1>1 DEF ExitCode, Verdict, RulesFailed, Counted
<1> QED BY <1>1, <1>2, <1>3, <1>4 DEF IInv, ExitIsOfTheReport

LEMMA EditKeeps == ASSUME IInv, NEW p \in Path, Edit(p) PROVE IInv'
<1>1. /\ phase' = "idle" /\ queue' = <<>> /\ walked' = [q \in Path |-> "gone"]
      /\ read' = <<>> /\ parsed' = 0 /\ unparsed' = {} /\ limit' = limit
  BY DEF Edit
<1>2. IsTree(tree')
  <2>1. PICK text : tree' = [tree EXCEPT ![p].body = text]
    BY DEF Edit
  <2>2. IsTree(tree) /\ IsEntry(tree[p])
    BY DEF IInv, TypeOK, IsTree
  <2> DEFINE e == [tree[p] EXCEPT !.body = text]
  <2>3. tree' = [tree EXCEPT ![p] = e]
    BY <2>1
  <2>4. IsEntry(e)
    BY <2>2 DEF IsEntry
  <2> HIDE DEF e
  <2> QED BY <2>2, <2>3, <2>4, NewEntry
<1>3. TypeOK'
  <2>1. queue' \in Seq(Path) /\ parsed' \in Nat
    BY <1>1
  <2>2. walked' \in [Path -> Kinds]
    BY <1>1 DEF Kinds
  <2>3. DOMAIN read' \subseteq Path
    BY <1>1
  <2>4. IsFiniteSet(unparsed') /\ \A u \in unparsed' : u[1] \in Path
    BY <1>1, FS_EmptySet
  <2> QED BY <1>1, <1>2, <2>1, <2>2, <2>3, <2>4 DEF IInv, TypeOK
<1> QED BY <1>1, <1>3 DEF IInv, NothingIsPassedOver, ExitIsOfTheReport

LEMMA StutterKeeps == ASSUME IInv, UNCHANGED vars PROVE IInv'
<1>1. UNCHANGED <<tree, rules, limit, phase, queue, walked, read, parsed, unparsed, diagnosed,
                  findings, exit>>
  BY DEF vars
<1>2. TypeOK'
  BY <1>1 DEF IInv, TypeOK
<1>3. NothingIsPassedOver'
  BY <1>1 DEF IInv, NothingIsPassedOver, Accounted
<1>4. ExitCode' = ExitCode
  BY <1>1 DEF ExitCode, Verdict, RulesFailed, Counted
<1> QED BY <1>1, <1>2, <1>3, <1>4 DEF IInv, ExitIsOfTheReport

(***************************************************************************)
(* The theorems                                                            *)
(***************************************************************************)

LEMMA NextKeeps == IInv /\ [Next]_vars => IInv'
<1> SUFFICES ASSUME IInv, [Next]_vars PROVE IInv'
  OBVIOUS
<1>1. CASE Walk
  BY <1>1, WalkKeeps
<1>2. CASE ScanFile
  BY <1>2, ScanFileKeeps
<1>3. CASE Report
  BY <1>3, ReportKeeps
<1>4. CASE \E p \in Path : Touch(p)
  BY <1>4, TouchKeeps
<1>5. CASE \E p \in Path : Edit(p)
  BY <1>5, EditKeeps
<1>6. CASE UNCHANGED vars
  BY <1>6, StutterKeeps
<1> QED BY <1>1, <1>2, <1>3, <1>4, <1>5, <1>6 DEF Next

\* The inductive invariant of a scan: what the walk met is never passed over.
THEOREM ScanInvariant == Spec => []IInv
<1> QED BY InitInv, NextKeeps, PTL DEF Spec

\* A scan that passes has rules, and has read in full, or named with a reason, every
\* file the walk met; under a limit of nothing only binaries and names that cannot be
\* written were left out (scan.rs, coverage.rs).
THEOREM PassingMeansItLooked == Spec => []PassMeansLooked
<1>1. IInv => PassMeansLooked
  <2> SUFFICES ASSUME IInv, phase = "reported", exit = "pass"
               PROVE  /\ ~RulesFailed
                      /\ \A p \in Path : walked[p] # "gone" =>
                           \/ p \in DOMAIN read \/ p \in diagnosed
                           \/ \E u \in unparsed :
                                u[1] = p /\ (limit = 0 => u[2] = "skipped_binary")
    BY DEF PassMeansLooked
  <2>1. queue = <<>> /\ ExitCode = "pass"
    BY DEF IInv, ExitIsOfTheReport
  <2>2. /\ ~(limit # NoLimit /\ UnparsedRatio(parsed, Cardinality(Counted)) > limit)
        /\ Verdict # "FAIL"
    BY <2>1 DEF ExitCode
  <2>3. ~RulesFailed
    BY <2>2 DEF Verdict
  <2>4. ASSUME limit = 0, NEW u \in unparsed PROVE u[2] = "skipped_binary"
    <3>1. IsFiniteSet(Counted) /\ Cardinality(Counted) \in Nat
      <4>1. IsFiniteSet(unparsed) /\ Counted \in SUBSET unparsed
        BY DEF IInv, TypeOK, Counted
      <4> QED BY <4>1, FS_Subset, FS_CardinalityType
    <3>2. limit # NoLimit
      BY <2>4, ScanAssumption
    <3> DEFINE missing == Cardinality(Counted)
               ratio == UnparsedRatio(parsed, missing)
    <3>3. parsed \in Nat
      BY DEF IInv, TypeOK
    <3>4. ratio \in Int
      BY <3>1, <3>3 DEF UnparsedRatio
    <3>5. ~(ratio > 0)
      BY <2>2, <2>4, <3>2
    <3> HIDE DEF missing
    <3>6. missing \in Nat
      BY <3>1 DEF missing
    <3>7. UnparsedRatio(parsed, missing) <= 0
      <4> HIDE DEF ratio
      <4>1. ratio <= 0
        BY <3>4, <3>5
      <4> QED BY <4>1 DEF ratio
    <3>8. missing = 0
      BY <3>3, <3>6, <3>7, RatioIsNotRoundedDown
    <3>9. Counted = {}
      BY <3>1, <3>8, FS_EmptySet DEF missing
    <3> QED BY <3>9 DEF Counted
  <2>5. ASSUME NEW p \in Path, walked[p] # "gone"
        PROVE  \/ p \in DOMAIN read \/ p \in diagnosed
               \/ \E u \in unparsed : u[1] = p /\ (limit = 0 => u[2] = "skipped_binary")
    <3>1. Accounted(p)
      BY <2>5 DEF IInv, NothingIsPassedOver
    <3>2. p \notin Range(queue)
      BY <2>1 DEF Range
    <3> QED BY <2>4, <3>1, <3>2 DEF Accounted
  <2> QED BY <2>3, <2>5
<1> QED BY <1>1, ScanInvariant, PTL

=============================================================================
