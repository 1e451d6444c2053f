------------------------- MODULE StreamRelayProofs -------------------------
(***************************************************************************)
(* Theorems about StreamRelay, for any lanes, letters, aliases, chunks and *)
(* any clock: a frame that is not rewritten overtakes no text, and no      *)
(* letter is held past the budget, nor a fragment let out where waiting is *)
(* what was asked for.                                                     *)
(*                                                                         *)
(* What a piece is read as is not the subject: the argument only needs     *)
(* that a release lets go of a beginning of what is held, for which the    *)
(* scan has to end within its turns and its live prefix to be a number     *)
(* (ScanReadsAll, LiveIsNat), and of all of it when the trigger is not a   *)
(* settled frame or a timeout that is waited out (DecideReleases).  A lane *)
(* is then followed through a release (LeftOfLane, ReleasedKeeps), all     *)
(* lanes through a flush (FlushedKeeps), and a chunk through its frames    *)
(* and their slots (TakenTextKeeps, AllTakenKeeps), each by induction.     *)
(***************************************************************************)
EXTENDS StreamRelay, FiniteSetTheorems, WellFoundedInduction, TLAPS

---------------------------------------------------------------------------
(***************************************************************************)
(* Numbers and texts                                                       *)
(***************************************************************************)

\* A set of numbers that is not empty has a least one.
LEMMA LeastOf ==
  ASSUME NEW T \in SUBSET Nat, T # {}
  PROVE  \E m \in T : \A k \in T : m <= k
<1> DEFINE R == {ss \in Nat \X Nat : ss[1] < ss[2]}
<1>1. IsWellFoundedOn(R, Nat)
  BY NatLessThanWellFounded DEF OpToRel
<1> HIDE DEF R
<1>2. PICK m \in T : \A k \in T : ~(<<k, m>> \in R)
  BY <1>1, WFMin
<1>3. ASSUME NEW k \in T PROVE m <= k
  <2>1. ~(k < m)
    BY <1>2 DEF R
  <2>2. QED BY <2>1
<1>4. QED BY <1>2, <1>3

\* A set that has 0, and with every number the next, has them all.
LEMMA Induct ==
  ASSUME NEW T \in SUBSET Nat, 0 \in T, \A n \in T : n + 1 \in T
  PROVE  T = Nat
<1>1. SUFFICES ASSUME Nat \ T # {} PROVE FALSE
  OBVIOUS
<1>2. PICK m \in Nat \ T : \A k \in Nat \ T : m <= k
  BY <1>1, LeastOf
<1>3. m # 0 /\ m - 1 \in Nat
  OBVIOUS
<1>4. m - 1 \in T
  BY <1>2, <1>3
<1>5. QED BY <1>4

\* Of finitely many texts there is one that is as long as any.
LEMMA LongestIsOne ==
  ASSUME NEW X, NEW S \in SUBSET Seq(X), IsFiniteSet(S), S # {}
  PROVE  Longest(S) \in S /\ \A y \in S : Len(y) <= Len(Longest(S))
<1> DEFINE Has(T) == \E x \in T : \A y \in T : Len(y) <= Len(x)
           Good == {n \in Nat : \A T \in SUBSET S : Cardinality(T) = n /\ T # {} => Has(T)}
<1>1. 0 \in Good
  BY FS_Subset, FS_EmptySet
<1>2. ASSUME NEW n \in Good PROVE n + 1 \in Good
  <2> HIDE DEF Has
  <2> n \in Nat /\ n + 1 \in Nat
    OBVIOUS
  <2>1. SUFFICES ASSUME NEW T \in SUBSET S, Cardinality(T) = n + 1, T # {}
                 PROVE  Has(T)
    OBVIOUS
  <2> USE DEF Has
  <2>2. PICK x \in T : TRUE
    BY <2>1
  <2> DEFINE R == T \ {x}
  <2>3. IsFiniteSet(T) /\ Cardinality(R) = n /\ R \in SUBSET S
    <3>1. IsFiniteSet(T)
      BY FS_Subset
    <3>2. Cardinality(R) = Cardinality(T) - 1
      BY <2>2, <3>1, FS_RemoveElement
    <3>3. QED BY <2>1, <3>1, <3>2
  <2>4. CASE R = {}
    <3>1. T = {x}
      BY <2>2, <2>4
    <3>2. x \in Seq(X)
      BY <2>2
    <3>3. QED BY <3>1, <3>2
  <2>5. CASE R # {}
    <3>1. PICK y \in R : \A z \in R : Len(z) <= Len(y)
      BY <2>3, <2>5
    <3>2. T = R \cup {x} /\ x \in T /\ y \in T /\ x \in Seq(X) /\ y \in Seq(X)
      BY <2>2, <3>1
    <3>3. CASE Len(x) <= Len(y)
      BY <3>1, <3>2, <3>3
    <3>4. CASE ~(Len(x) <= Len(y))
      <4>1. \A z \in R : z \in Seq(X)
        OBVIOUS
      <4>2. \A z \in T : Len(z) <= Len(x)
        <5>1. ASSUME NEW z \in T PROVE Len(z) <= Len(x)
          <6>1. CASE z = x
            BY <3>2, <6>1
          <6>2. CASE z \in R
            BY <3>1, <3>2, <3>4, <4>1, <6>2
          <6>3. QED BY <3>2, <6>1, <6>2
        <5>2. QED BY <5>1
      <4>3. QED BY <3>2, <4>2
    <3>5. QED BY <3>3, <3>4
  <2>6. QED BY <2>4, <2>5
<1>3. Good = Nat
  <2> HIDE DEF Good
  <2>1. Good \in SUBSET Nat
    BY DEF Good
  <2>2. QED BY <1>1, <1>2, <2>1, Induct
<1>4. Has(S)
  <2>1. Cardinality(S) \in Good
    BY <1>3, FS_CardinalityType
  <2>2. QED BY <2>1
<1>5. QED BY <1>4 DEF Longest

\* longest: the length of the longest alias, and none of no aliases, is a number.
LEMMA LongestAliasIsNat ==
  ASSUME NEW X, NEW A \in SUBSET Seq(X), IsFiniteSet(A)
  PROVE  LongestAlias(A) \in Nat
<1>1. CASE A = {}
  BY <1>1 DEF LongestAlias
<1>2. CASE A # {}
  BY <1>2, LongestIsOne DEF LongestAlias
<1>3. QED BY <1>1, <1>2

\* A node is no longer than the text that was read.
LEMMA NodeIsWithin ==
  ASSUME NEW X, NEW A, NEW text \in Seq(X)
  PROVE  Node(A, text) \in Seq(X) /\ Len(Node(A, text)) <= Len(text)
<1> DEFINE S == {<<>>} \cup {s \in Suffixes(text) : \E a \in A : IsPrefix(s, a)}
           End(i) == SubSeq(text, i, Len(text))
<1>1. S \in SUBSET Seq(X) /\ \A s \in S : Len(s) <= Len(text)
  <2>1. \A i \in 1 .. Len(text) : End(i) \in Seq(X) /\ Len(End(i)) <= Len(text)
    OBVIOUS
  <2>2. <<>> \in Seq(X) /\ Len(<<>>) <= Len(text)
    OBVIOUS
  <2>3. QED BY <2>1, <2>2 DEF Suffixes
<1>2. IsFiniteSet(Suffixes(text))
  <2> DEFINE I == 1 .. Len(text)
             E == {End(i) : i \in I}
             f == [i \in I |-> End(i)]
  <2>1. IsFiniteSet(I)
    BY FS_Interval
  <2>2. IsFiniteSet(E)
    <3>1. f \in Surjection(I, E)
      BY DEF Surjection
    <3>2. QED BY <2>1, <3>1, FS_Surjection
  <2>3. Suffixes(text) = E \cup {<<>>}
    BY DEF Suffixes
  <2> HIDE DEF E
  <2>4. IsFiniteSet(E \cup {<<>>})
    BY <2>2, FS_AddElement
  <2>5. QED BY <2>3, <2>4
<1>3. IsFiniteSet(S)
  <2>1. IsFiniteSet({s \in Suffixes(text) : \E a \in A : IsPrefix(s, a)})
    BY <1>2, FS_Subset
  <2>2. QED BY <2>1, FS_Singleton, FS_Union
<1>4. Longest(S) \in S
  <2>1. S # {}
    OBVIOUS
  <2> HIDE DEF S
  <2>2. QED BY <1>1, <1>3, <2>1, LongestIsOne
<1>5. Node(A, text) = Longest(S)
  BY DEF Node
<1>6. QED BY <1>1, <1>4, <1>5

\* And an occurrence no longer than its node.
LEMMA HitIsWithin ==
  ASSUME NEW X, NEW A \in SUBSET Seq(X), IsFiniteSet(A), NEW node \in Seq(X)
  PROVE  /\ HitAt(A, node) \in Seq(X)
         /\ Len(HitAt(A, node)) <= Len(node)
<1> DEFINE S == {<<>>} \cup {a \in A : IsSuffix(a, node)}
<1>1. S \in SUBSET Seq(X) /\ \A s \in S : Len(s) <= Len(node)
  <2>1. \A a \in Seq(X) : Len(Reverse(a)) = Len(a)
    BY DEF Reverse
  <2>2. \A a \in A : IsSuffix(a, node) => Len(a) <= Len(node)
    BY <2>1 DEF IsSuffix, IsPrefix
  <2>3. <<>> \in Seq(X) /\ Len(<<>>) <= Len(node)
    OBVIOUS
  <2>4. QED BY <2>2, <2>3
<1>2. IsFiniteSet(S)
  <2>1. IsFiniteSet({a \in A : IsSuffix(a, node)})
    BY FS_Subset
  <2>2. QED BY <2>1, FS_Singleton, FS_Union
<1>3. Longest(S) \in S
  <2>1. S # {}
    OBVIOUS
  <2> HIDE DEF S
  <2>2. QED BY <1>1, <1>2, <2>1, LongestIsOne
<1>4. HitAt(A, node) = Longest(S)
  BY DEF HitAt
<1>5. QED BY <1>1, <1>3, <1>4

---------------------------------------------------------------------------
(***************************************************************************)
(* The scan                                                                *)
(***************************************************************************)

\* Where a scan may be: within the text, its pending occurrence not empty, behind
\* the last committed one and already read.
ScanOK(held, x) ==
  /\ x = [at |-> x.at, cursor |-> x.cursor, best |-> x.best, hits |-> x.hits]
  /\ x.at \in 0 .. Len(held) /\ x.cursor \in 0 .. x.at
  /\ x.best # NoHit =>
       /\ x.best.start \in Nat /\ x.best.end \in Nat
       /\ x.cursor <= x.best.start /\ x.best.start < x.best.end /\ x.best.end <= x.at

\* A part of a sequence.
LEMMA PartOf ==
  ASSUME NEW X, NEW s \in Seq(X), NEW a \in Nat, NEW b \in Nat, a <= b, b <= Len(s)
  PROVE  SubSeq(s, a + 1, b) \in Seq(X) /\ Len(SubSeq(s, a + 1, b)) = b - a
OBVIOUS

\* A turn keeps a scan one, and goes on: from a letter to the next, or back to behind
\* a later commit.
LEMMA ScanTurn ==
  ASSUME NEW X, NEW A \in SUBSET Seq(X), IsFiniteSet(A), NEW held \in Seq(X),
         NEW x, ScanOK(held, x), x.at # Len(held)
  PROVE  LET y == ScanStep(A, held, x)
         IN  /\ ScanOK(held, y)
             /\ \/ y.cursor = x.cursor /\ y.at = x.at + 1
                \/ y.cursor > x.cursor
<1> DEFINE at   == x.at + 1
           text == SubSeq(held, x.cursor + 1, at)
           node == Node(A, text)
           hit  == HitAt(A, node)
           new  == [start |-> at - Len(hit), end |-> at]
           best == IF hit = <<>> THEN x.best ELSE Preferred(x.best, new)
           y    == ScanStep(A, held, x)
<1>1. /\ x.at \in Nat /\ x.cursor \in Nat /\ Len(held) \in Nat
      /\ x.cursor <= x.at /\ at \in Nat /\ at <= Len(held)
  BY DEF ScanOK
<1>2. text \in Seq(X) /\ Len(text) = at - x.cursor
  <2> DEFINE from == x.cursor
  <2>1. from \in Nat /\ at \in Nat /\ from <= at /\ at <= Len(held) /\ held \in Seq(X)
    <3> HIDE DEF from, at
    <3>1. QED BY <1>1 DEF from, at
  <2> HIDE DEF from, at
  <2>2. SubSeq(held, from + 1, at) \in Seq(X) /\ Len(SubSeq(held, from + 1, at)) = at - from
    BY ONLY <2>1, PartOf
  <2>3. QED BY <2>2 DEF from
<1>3. node \in Seq(X) /\ Len(node) <= at - x.cursor
  BY <1>2, NodeIsWithin
<1>4. hit \in Seq(X) /\ Len(hit) \in Nat /\ Len(hit) <= at - x.cursor
  <2>1. hit \in Seq(X) /\ Len(hit) <= Len(node)
    <3> HIDE DEF node
    <3>1. QED BY <1>3, HitIsWithin
  <2> HIDE DEF hit, node
  <2>2. QED BY <1>1, <1>3, <2>1
<1>5. y = IF best # NoHit /\ Len(node) < at - best.start
          THEN [at |-> best.end, cursor |-> best.end, best |-> NoHit,
                hits |-> Append(x.hits, best)]
          ELSE [x EXCEPT !.at = at, !.best = best]
  BY DEF ScanStep
<1>6. hit # <<>> => /\ new.start \in Nat /\ new.end \in Nat /\ new.end = at
                    /\ x.cursor <= new.start /\ new.start < new.end
  <2> HIDE DEF hit
  <2>1. hit # <<>> => Len(hit) > 0
    BY <1>4
  <2>2. QED BY <1>1, <1>4, <2>1, SMTT(30)
<1>7. best # NoHit => /\ best.start \in Nat /\ best.end \in Nat
                      /\ x.cursor <= best.start /\ best.start < best.end /\ best.end <= at
  <2>1. best = x.best \/ (hit # <<>> /\ best = new)
    BY DEF Preferred
  <2>2. x.best # NoHit => /\ x.best.start \in Nat /\ x.best.end \in Nat
                          /\ x.cursor <= x.best.start /\ x.best.start < x.best.end
                          /\ x.best.end <= at
    BY <1>1 DEF ScanOK
  <2> HIDE DEF best, new, hit, at
  <2>3. QED BY <1>1, <1>6, <2>1, <2>2
<1> HIDE DEF y, best, node, at
<1>8. CASE best # NoHit /\ Len(node) < at - best.start
  <2>1. /\ y.at = best.end /\ y.cursor = best.end /\ y.best = NoHit
        /\ y = [at |-> y.at, cursor |-> y.cursor, best |-> y.best, hits |-> y.hits]
    BY <1>5, <1>8
  <2>2. y.at \in 0 .. Len(held) /\ y.cursor \in 0 .. y.at /\ y.cursor > x.cursor
    BY <1>1, <1>7, <1>8, <2>1
  <2>3. QED BY <2>1, <2>2 DEF ScanOK, y
<1>9. CASE ~(best # NoHit /\ Len(node) < at - best.start)
  <2>1. y = [x EXCEPT !.at = at, !.best = best]
    BY <1>5, <1>9
  <2>2. /\ y.at = at /\ y.cursor = x.cursor /\ y.best = best
        /\ y = [at |-> y.at, cursor |-> y.cursor, best |-> y.best, hits |-> y.hits]
    BY <2>1 DEF ScanOK
  <2>3. y.at \in 0 .. Len(held) /\ y.cursor \in 0 .. y.at
    BY <1>1, <2>2 DEF at
  <2>4. ScanOK(held, y)
    BY <1>7, <2>2, <2>3 DEF ScanOK
  <2>5. QED BY <2>2, <2>4 DEF at, y
<1>10. QED BY <1>8, <1>9

\* A later commit outweighs every letter.
LEMMA Outweighs ==
  ASSUME NEW a \in Nat, NEW b \in Nat, NEW c \in Nat, a > b
  PROVE  a * c >= b * c + c
<1>1. (b + 1) * c = b * c + c
  OBVIOUS
<1>2. a * c = (b + 1) * c + (a - (b + 1)) * c
  OBVIOUS
<1>3. a - (b + 1) \in Nat /\ (a - (b + 1)) * c \in Nat /\ b * c \in Nat
  OBVIOUS
<1>4. QED BY <1>1, <1>2, <1>3

\* The scan reads its text to the end, in the turns it is given.
LEMMA ScanReadsAll ==
  ASSUME NEW X, NEW A \in SUBSET Seq(X), IsFiniteSet(A), NEW held \in Seq(X)
  PROVE  ScanOK(held, Scanned(A, held)) /\ Scanned(A, held).at = Len(held)
<1> DEFINE start == [at |-> 0, cursor |-> 0, best |-> NoHit, hits |-> <<>>]
           len == Len(held)
           turns == Turns(held)
           Turn(x) == IF x.at = len THEN x ELSE ScanStep(A, held, x)
           Step(f, n) == IF n = 0 THEN start ELSE Turn(f[n - 1])
           IsRun(f, k) == f = [n \in 0 .. k |-> Step(f, n)]
           Ran == {k \in Nat : \E f : IsRun(f, k)}
           Far(x) == x.cursor * (len + 1) + x.at
<1>1. Scanned(A, held) = (CHOOSE f : IsRun(f, turns))[turns]
  BY DEF Scanned, Folded
<1>2. len \in Nat /\ turns = (len + 1) * (len + 1) /\ turns \in Nat
  BY DEF Turns
<1>3. ScanOK(held, start) /\ Far(start) = 0
  BY <1>2 DEF ScanOK
<1>4. ASSUME NEW x, ScanOK(held, x)
      PROVE  /\ ScanOK(held, Turn(x))
             /\ x.at # len => Far(Turn(x)) >= Far(x) + 1
             /\ x.at = len => Turn(x) = x
             /\ Far(x) \in Nat /\ Far(Turn(x)) \in Nat
             /\ Far(x) < turns
  <2>1. ScanOK(held, Turn(x))
    BY <1>4, ScanTurn
  <2> DEFINE y == Turn(x)
  <2>2. x.at # len => (y.cursor = x.cursor /\ y.at = x.at + 1) \/ y.cursor > x.cursor
    BY <1>4, ScanTurn
  <2>3. x.at = len => y = x
    OBVIOUS
  <2> HIDE DEF y, turns, len
  <2>4. /\ x.at \in Nat /\ x.at <= len /\ x.cursor \in Nat /\ x.cursor <= len
        /\ y.at \in Nat /\ y.at <= len /\ y.cursor \in Nat
    BY <1>2, <1>4, <2>1 DEF ScanOK, y, len
  <2> DEFINE px == x.cursor * (len + 1)
             py == y.cursor * (len + 1)
  <2>5. /\ len + 1 \in Nat /\ px \in Nat /\ py \in Nat
        /\ Far(x) = px + x.at /\ Far(y) = py + y.at
    BY <1>2, <2>4, SMTT(30)
  <2>6. y.cursor > x.cursor => py >= px + (len + 1)
    BY <2>4, <2>5, Outweighs
  <2>7. y.cursor = x.cursor => py = px
    OBVIOUS
  <2>8. turns >= px + (len + 1)
    <3>1. len + 1 > x.cursor
      BY <1>2, <2>4
    <3>2. (len + 1) * (len + 1) >= px + (len + 1)
      BY <2>4, <2>5, <3>1, Outweighs
    <3>3. QED BY <1>2, <3>2
  <2> HIDE DEF px, py, Far
  <2>9. /\ x.at # len => Far(y) >= Far(x) + 1
        /\ Far(x) < turns /\ Far(x) \in Nat /\ Far(y) \in Nat
    <3>1. Far(x) \in Nat /\ Far(y) \in Nat
      BY <2>4, <2>5, SMTT(30)
    <3>2. Far(x) < turns
      BY <1>2, <2>4, <2>5, <2>8
    <3>3. ASSUME y.cursor > x.cursor PROVE Far(y) >= Far(x) + 1
      BY <1>2, <2>4, <2>5, <2>6, <3>3, SMTT(30)
    <3>4. ASSUME y.cursor = x.cursor, y.at = x.at + 1 PROVE Far(y) >= Far(x) + 1
      BY <2>4, <2>5, <2>7, <3>4
    <3>5. QED BY <2>2, <3>1, <3>2, <3>3, <3>4
  <2>10. QED BY <2>1, <2>3, <2>9 DEF y
<1> HIDE DEF start, len, turns, Turn, Far
<1>5. Ran = Nat
  <2>1. 0 \in Ran
    <3>1. IsRun([n \in 0 .. 0 |-> start], 0)
      OBVIOUS
    <3> HIDE DEF IsRun
    <3>2. QED BY <3>1
  <2>2. ASSUME NEW k \in Ran PROVE k + 1 \in Ran
    <3>1. PICK f : IsRun(f, k)
      OBVIOUS
    <3> DEFINE g == [n \in 0 .. k + 1 |-> IF n <= k THEN f[n] ELSE Turn(f[k])]
    <3>2. k \in Nat
      OBVIOUS
    <3>3. ASSUME NEW n \in 0 .. k + 1 PROVE g[n] = Step(g, n)
      <4>1. CASE n = 0
        BY <3>1, <3>2, <4>1
      <4>2. CASE n # 0 /\ n <= k
        <5>1. n - 1 \in 0 .. k /\ n \in 0 .. k /\ n - 1 \in 0 .. k + 1
          BY <3>2, <4>2
        <5>2. g[n] = f[n] /\ g[n - 1] = f[n - 1]
          BY <4>2, <5>1
        <5>3. f[n] = Turn(f[n - 1])
          BY <3>1, <4>2, <5>1
        <5>4. QED BY <4>2, <5>2, <5>3
      <4>3. CASE n = k + 1
        <5>1. k \in 0 .. k + 1 /\ k <= k /\ ~(k + 1 <= k) /\ n # 0 /\ n - 1 = k
          BY <3>2, <4>3
        <5>2. g[n] = Turn(f[k]) /\ g[n - 1] = f[k]
          BY <4>3, <5>1
        <5>3. QED BY <5>1, <5>2
      <4>4. QED BY <3>2, <4>1, <4>2, <4>3
    <3>4. IsRun(g, k + 1)
      <4>1. g = [n \in 0 .. k + 1 |-> g[n]]
        OBVIOUS
      <4> HIDE DEF g, Step
      <4>2. [n \in 0 .. k + 1 |-> g[n]] = [n \in 0 .. k + 1 |-> Step(g, n)]
        BY <3>3
      <4>3. QED BY <4>1, <4>2
    <3> HIDE DEF IsRun
    <3>5. QED BY <3>2, <3>4
  <2> HIDE DEF Ran
  <2>3. Ran \in SUBSET Nat
    BY DEF Ran
  <2>4. QED BY <2>1, <2>2, <2>3, Induct
<1> DEFINE f == CHOOSE g : IsRun(g, turns)
<1>6. IsRun(f, turns)
  <2> HIDE DEF IsRun
  <2>1. \E g : IsRun(g, turns)
    BY <1>2, <1>5
  <2>2. QED BY <2>1
<1> HIDE DEF f
<1> DEFINE Good == {n \in Nat : n <= turns => /\ ScanOK(held, f[n])
                                              /\ f[n].at = len \/ Far(f[n]) >= n}
<1>7. Good = Nat
  <2>1. 0 \in Good
    <3>1. f[0] = start
      BY <1>2, <1>6
    <3>2. QED BY <1>3, <3>1
  <2>2. ASSUME NEW n \in Good PROVE n + 1 \in Good
    <3>1. ASSUME n + 1 <= turns
          PROVE  /\ ScanOK(held, f[n + 1])
                 /\ f[n + 1].at = len \/ Far(f[n + 1]) >= n + 1
      <4>1. n \in Nat /\ n <= turns /\ n + 1 \in 0 .. turns /\ n + 1 # 0 /\ (n + 1) - 1 = n
        BY <1>2, <3>1
      <4>2. f[n + 1] = Turn(f[n])
        BY <1>6, <4>1
      <4>3. ScanOK(held, f[n]) /\ (f[n].at = len \/ Far(f[n]) >= n)
        BY <4>1
      <4> HIDE DEF IsRun
      <4>4. QED BY <1>4, <4>1, <4>2, <4>3, SMTT(30)
    <3>2. QED BY <3>1
  <2> HIDE DEF Good
  <2>3. Good \in SUBSET Nat
    BY DEF Good
  <2>4. QED BY <2>1, <2>2, <2>3, Induct
<1>8. ScanOK(held, f[turns]) /\ f[turns].at = len
  <2>1. turns \in Good
    BY <1>2, <1>7
  <2>2. ScanOK(held, f[turns]) /\ (f[turns].at = len \/ Far(f[turns]) >= turns)
    BY <1>2, <2>1
  <2> HIDE DEF IsRun, Good, Ran
  <2>3. Far(f[turns]) \in Nat /\ Far(f[turns]) < turns
    BY <1>4, <2>2
  <2>4. QED BY <1>2, <2>2, <2>3
<1>9. QED BY <1>1, <1>8 DEF f, len

\* What is undecided at the end of a text is a number of letters.
LEMMA LiveIsNat ==
  ASSUME NEW X, NEW A \in SUBSET Seq(X), IsFiniteSet(A), NEW held \in Seq(X)
  PROVE  Scan(A, held).live \in Nat
<1> DEFINE end == Scanned(A, held)
           rest == SubSeq(held, end.cursor + 1, Len(held))
<1>1. ScanOK(held, end)
  BY ScanReadsAll
<1>2. Scan(A, held).live = IF end.best # NoHit THEN Len(held) - end.best.start
                           ELSE Len(Node(A, rest))
  BY DEF Scan
<1> HIDE DEF end
<1>3. end.best # NoHit => Len(held) - end.best.start \in Nat
  BY <1>1 DEF ScanOK
<1>4. Len(Node(A, rest)) \in Nat
  <2>1. rest \in Seq(X)
    BY <1>1 DEF ScanOK
  <2> HIDE DEF rest
  <2>2. QED BY <2>1, NodeIsWithin
<1>5. QED BY <1>2, <1>3, <1>4

\* decide: what it lets go of is there, and it is all of it unless the frame has just
\* been settled, or has waited where waiting is what was asked for.
LEMMA DecideReleases ==
  ASSUME NEW scan, scan.live \in Nat, NEW held \in Nat, NEW ceiling \in Nat, NEW trigger,
         NEW waits \in BOOLEAN
  PROVE  LET d == Decide(scan, held, ceiling, trigger, waits)
         IN  /\ d.release \in 0 .. held /\ d.partial \in BOOLEAN
             /\ ~(trigger = "settled" \/ (trigger = "timeout" /\ waits)) => d.release = held
             /\ d.partial => trigger = "timeout" /\ ~waits
<1> DEFINE clamped == Lesser(Lesser(scan.live, ceiling), held)
           keeps == trigger = "settled" \/ (trigger = "timeout" /\ waits)
           d == Decide(scan, held, ceiling, trigger, waits)
<1>1. clamped \in Nat /\ clamped <= held
  BY DEF Lesser
<1>2. d = IF keeps THEN [release |-> held - clamped, partial |-> FALSE]
          ELSE [release |-> held, partial |-> trigger = "timeout" /\ clamped > 0]
  BY DEF Decide
<1> HIDE DEF clamped
<1>3. CASE keeps
  <2>1. d.release = held - clamped /\ d.partial = FALSE
    BY <1>2, <1>3
  <2> HIDE DEF d
  <2>2. d.release \in 0 .. held
    BY <1>1, <2>1
  <2>3. d.partial \in BOOLEAN /\ ~d.partial
    BY <2>1, Zenon
  <2> HIDE DEF keeps
  <2>4. QED BY <1>3, <2>2, <2>3 DEF d, keeps
<1>4. CASE ~keeps
  <2>1. d.release = held /\ d.partial = (trigger = "timeout" /\ clamped > 0)
    BY <1>2, <1>4
  <2> HIDE DEF d
  <2>2. d.release \in 0 .. held /\ d.partial \in BOOLEAN
    BY <2>1
  <2>3. d.partial => trigger = "timeout" /\ ~waits
    BY <1>4, <2>1
  <2> QED BY <1>4, <2>1, <2>2, <2>3 DEF d
<1> QED BY <1>3, <1>4

---------------------------------------------------------------------------
(***************************************************************************)
(* The inductive invariant                                                 *)
(***************************************************************************)

MarkType == [nth : Nat, need : [Lane -> Nat]]
PassedType == [mark : MarkType, gone : [Lane -> Nat]]

LaneParts == {"held", "since", "template", "slot", "ages"}
RelayParts == {"lanes", "deferred", "partial", "cut", "taken", "sent", "gone", "shown",
               "passed", "over"}

\* A lane at a time t: each held letter has an age, and none is older than what the
\* clock of the lane says, or than t where the clock has not been started.
LaneType(x, t) ==
  /\ x = [part \in LaneParts |-> x[part]]
  /\ x.held \in Seq(Letter) /\ x.ages \in Seq(Nat) /\ Len(x.ages) = Len(x.held)
  /\ x.since = None => \A k \in 1 .. Len(x.ages) : t <= x.ages[k]
  /\ x.since # None => /\ x.since \in Nat /\ x.since <= t
                       /\ \A k \in 1 .. Len(x.ages) : x.since <= x.ages[k]

\* The clock runs while a letter is held.
Timed(x) == x.held = <<>> <=> x.since = None

RelayType(r) ==
  /\ r = [part \in RelayParts |-> r[part]]
  /\ r.lanes = [l \in Lane |-> r.lanes[l]]
  /\ r.sent \in [Lane -> Seq(Letter)] /\ r.gone \in [Lane -> Nat]
  /\ r.passed \in Seq(PassedType) /\ r.deferred \in Seq(MarkType)
  /\ r.partial \in Nat /\ r.taken \in Nat

\* Of each lane's text, what has not left is held.
Balanced(r) == \A l \in Lane : r.gone[l] + Len(r.lanes[l].held) = Len(r.sent[l])

\* What passed and what waits, in the order it came: nothing passed before the text
\* in front of it, and nothing waits for text that has not come.
InTurn(r) ==
  /\ \A i, j \in 1 .. Len(r.passed) : i < j => r.passed[i].mark.nth < r.passed[j].mark.nth
  /\ \A i, j \in 1 .. Len(r.deferred) : i < j => r.deferred[i].nth < r.deferred[j].nth
  /\ \A i \in 1 .. Len(r.passed) : \A j \in 1 .. Len(r.deferred) :
       r.passed[i].mark.nth < r.deferred[j].nth
  /\ \A i \in 1 .. Len(r.passed) : \A l \in Lane : r.passed[i].gone[l] >= r.passed[i].mark.need[l]
  /\ \A j \in 1 .. Len(r.deferred) : \A l \in Lane : r.deferred[j].need[l] <= Len(r.sent[l])
NoneAfter(r, n) ==
  /\ \A i \in 1 .. Len(r.passed) : r.passed[i].mark.nth <= n
  /\ \A j \in 1 .. Len(r.deferred) : r.deferred[j].nth <= n

\* In wait mode no fragment was let out.
Whole(r) == policy.waits => r.partial = 0

\* A relay, but for the clock of one lane, which is being filled.
FillingOK(r, l, t) ==
  /\ RelayType(r) /\ Balanced(r) /\ InTurn(r) /\ NoneAfter(r, r.taken) /\ Whole(r)
  /\ \A k \in Lane : LaneType(r.lanes[k], t) /\ (k # l => Timed(r.lanes[k]))

RelayOK(r, t) ==
  /\ RelayType(r) /\ Balanced(r) /\ InTurn(r) /\ NoneAfter(r, r.taken) /\ Whole(r)
  /\ \A k \in Lane : LaneType(r.lanes[k], t) /\ Timed(r.lanes[k])

IInv == policy \in Policies /\ now \in Nat /\ RelayOK(relay, now)

---------------------------------------------------------------------------
(***************************************************************************)
(* What leaves                                                             *)
(***************************************************************************)

\* A trigger that lets all of a lane go.
LetsGo(trigger) == ~(trigger = "settled" \/ (trigger = "timeout" /\ policy.waits))

\* What releasing a lane of r leaves alone.
Beside(r, q, l) ==
  /\ q.passed = r.passed /\ q.deferred = r.deferred /\ q.sent = r.sent /\ q.taken = r.taken
  /\ \A k \in Lane : k # l => q.lanes[k] = r.lanes[k]

\* What the assumption says of the policy of a stream.
LEMMA PolicyParts ==
  ASSUME policy \in Policies
  PROVE  /\ policy.aliases \in SUBSET Seq(Letter) /\ IsFiniteSet(policy.aliases)
         /\ policy.waits \in BOOLEAN /\ policy.budget \in Nat
BY RelayAssumption

\* What render writes is all it changes.
LEMMA RenderedBeside ==
  ASSUME NEW r, RelayType(r), NEW f, NEW slot, NEW pieces
  PROVE  LET q == Rendered(r, f, slot, pieces)
         IN  /\ q.lanes = r.lanes /\ q.deferred = r.deferred /\ q.partial = r.partial
             /\ q.cut = r.cut /\ q.taken = r.taken /\ q.sent = r.sent /\ q.gone = r.gone
             /\ q.passed = r.passed /\ q.over = r.over
             /\ q = [part \in RelayParts |-> q[part]]
<1> DEFINE s == Reads(r.shown, f, slot, pieces)
<1>1. Rendered(r, f, slot, pieces) = IF pieces = <<>> THEN r ELSE [r EXCEPT !.shown = s]
  BY DEF Rendered
<1> HIDE DEF s
<1>2. QED BY <1>1 DEF RelayType, RelayParts

\* What is left of a sequence without its first n.
LEMMA RestOf ==
  ASSUME NEW X, NEW s \in Seq(X), NEW n \in 0 .. Len(s), NEW h, h = SubSeq(s, n + 1, Len(s))
  PROVE  /\ h \in Seq(X) /\ n + Len(h) = Len(s)
         /\ \A k \in 1 .. Len(h) : k + n \in 1 .. Len(s) /\ h[k] = s[k + n]
<1>1. h \in Seq(X) /\ n + Len(h) = Len(s) /\ Len(h) \in Nat
  OBVIOUS
<1>2. \A k \in 1 .. Len(h) : k + n \in 1 .. Len(s) /\ h[k] = s[k + n]
  OBVIOUS
<1>3. QED BY <1>1, <1>2

\* What is left of a lane, once n of its letters have gone.
LEMMA LeftOfLane ==
  ASSUME NEW t \in Nat, NEW x, LaneType(x, t), NEW n \in 0 .. Len(x.held)
  PROVE  LET y == Observed([x EXCEPT !.held = SubSeq(@, n + 1, Len(@)),
                                     !.ages = SubSeq(@, n + 1, Len(@))], t)
         IN  /\ LaneType(y, t) /\ Timed(y)
             /\ n + Len(y.held) = Len(x.held)
             /\ n = Len(x.held) => y.held = <<>>
<1> DEFINE h == SubSeq(x.held, n + 1, Len(x.held))
           g == SubSeq(x.ages, n + 1, Len(x.ages))
           z == [x EXCEPT !.held = h, !.ages = g]
           since == IF h = <<>> THEN None ELSE IF x.since = None THEN t ELSE x.since
           y == Observed(z, t)
<1>1. /\ x = [part \in LaneParts |-> x[part]]
      /\ x.held \in Seq(Letter) /\ x.ages \in Seq(Nat) /\ Len(x.ages) = Len(x.held)
      /\ x.since = None => \A k \in 1 .. Len(x.ages) : t <= x.ages[k]
      /\ x.since # None => /\ x.since \in Nat /\ x.since <= t
                           /\ \A k \in 1 .. Len(x.ages) : x.since <= x.ages[k]
  BY DEF LaneType
<1>2. h \in Seq(Letter) /\ n + Len(h) = Len(x.held) /\ (h = <<>> <=> Len(h) = 0)
  <2>1. x.held \in Seq(Letter) /\ n \in 0 .. Len(x.held) /\ h = SubSeq(x.held, n + 1, Len(x.held))
    BY <1>1
  <2> HIDE DEF h
  <2>2. h \in Seq(Letter) /\ n + Len(h) = Len(x.held)
    BY ONLY <2>1, RestOf
  <2>3. QED BY <2>2
<1>3. /\ g \in Seq(Nat) /\ n + Len(g) = Len(x.ages)
      /\ \A k \in 1 .. Len(g) : k + n \in 1 .. Len(x.ages) /\ g[k] = x.ages[k + n]
  <2>1. x.ages \in Seq(Nat) /\ n \in 0 .. Len(x.ages) /\ g = SubSeq(x.ages, n + 1, Len(x.ages))
    BY <1>1
  <2> HIDE DEF g
  <2>2. QED BY ONLY <2>1, RestOf, SMTT(30)
<1> HIDE DEF h, g
<1>4. Len(g) = Len(h)
  BY <1>1, <1>2, <1>3
<1>5. /\ z.held = h /\ z.since = x.since /\ z.ages = g
      /\ z = [part \in LaneParts |-> z[part]]
  BY <1>1 DEF LaneParts
<1> HIDE DEF z
<1>6. /\ y.held = h /\ y.since = since /\ y.ages = g
      /\ y = [part \in LaneParts |-> y[part]]
  BY <1>5 DEF Observed, LaneParts
<1> HIDE DEF y
<1>7. since # None => /\ since \in Nat /\ since <= t
                      /\ \A k \in 1 .. Len(g) : since <= g[k]
  <2>1. ASSUME x.since = None, h # <<>>
        PROVE  since \in Nat /\ since <= t /\ \A k \in 1 .. Len(g) : since <= g[k]
    <3>1. since = t
      BY <2>1
    <3>2. \A k \in 1 .. Len(g) : t <= g[k]
      BY <1>1, <1>3, <2>1
    <3> HIDE DEF since
    <3>3. QED BY <3>1, <3>2
  <2>2. ASSUME x.since # None, h # <<>>
        PROVE  since \in Nat /\ since <= t /\ \A k \in 1 .. Len(g) : since <= g[k]
    <3>1. since = x.since
      BY <2>2
    <3>2. \A k \in 1 .. Len(g) : x.since <= g[k]
      BY <1>1, <1>3, <2>2
    <3> HIDE DEF since
    <3>3. QED BY <1>1, <2>2, <3>1, <3>2
  <2>3. QED BY <2>1, <2>2
<1>8. since = None <=> h = <<>>
  BY RelayAssumption
<1> HIDE DEF since
<1>9. since = None => \A k \in 1 .. Len(g) : t <= g[k]
  BY <1>2, <1>4, <1>8
<1>10. LaneType(y, t) /\ Timed(y)
  BY <1>2, <1>3, <1>4, <1>6, <1>7, <1>8, <1>9 DEF LaneType, Timed
<1>11. n + Len(y.held) = Len(x.held) /\ (n = Len(x.held) => y.held = <<>>)
  BY <1>1, <1>2, <1>6
<1>12. QED BY <1>10, <1>11 DEF y, z, h, g

\* Releasing a lane keeps the relay one, and lets it all go where nothing is settled.
LEMMA ReleasedKeeps ==
  ASSUME policy \in Policies, NEW t \in Nat, NEW r, NEW l \in Lane, FillingOK(r, l, t),
         NEW f, NEW slot, NEW trigger
  PROVE  LET q == Released(r, l, f, slot, trigger, t)
         IN  /\ RelayOK(q, t) /\ Beside(r, q, l)
             /\ LetsGo(trigger) => q.lanes[l].held = <<>>
<1> DEFINE x == r.lanes[l]
           scan == Scan(policy.aliases, x.held)
           d == Decide(scan, Len(x.held), Ceiling, trigger, policy.waits)
           n == d.release
           y == Observed([x EXCEPT !.held = SubSeq(@, n + 1, Len(@)),
                                   !.ages = SubSeq(@, n + 1, Len(@))], t)
           partial == IF d.partial THEN r.partial + 1 ELSE r.partial
           p == [r EXCEPT !.lanes[l] = y, !.gone[l] = @ + n,
                          !.partial = IF d.partial THEN @ + 1 ELSE @]
           q == Released(r, l, f, slot, trigger, t)
<1>1. LaneType(x, t) /\ x.held \in Seq(Letter) /\ Len(x.held) \in Nat
  <2>1. LaneType(x, t)
    BY DEF FillingOK
  <2>2. x.held \in Seq(Letter)
    BY <2>1 DEF LaneType
  <2> HIDE DEF x
  <2>3. QED BY <2>1, <2>2
<1>2. scan.live \in Nat
  BY <1>1, PolicyParts, LiveIsNat
<1>3. Ceiling \in Nat
  BY PolicyParts, LongestAliasIsNat DEF Ceiling
<1>4. /\ n \in 0 .. Len(x.held) /\ d.partial \in BOOLEAN
      /\ LetsGo(trigger) => n = Len(x.held)
      /\ d.partial => ~policy.waits
  <2> HIDE DEF scan, x
  <2>1. QED BY <1>1, <1>2, <1>3, PolicyParts, DecideReleases DEF LetsGo
<1>5. q = Rendered(p, f, slot, Pieces(scan, x.held, n))
  BY DEF Released
<1> HIDE DEF d, n
<1>6. /\ LaneType(y, t) /\ Timed(y) /\ n + Len(y.held) = Len(x.held)
      /\ n = Len(x.held) => y.held = <<>>
  <2> HIDE DEF x
  <2>1. QED BY <1>1, <1>4, LeftOfLane, ZenonT(40)
<1> HIDE DEF y, scan
<1>7. RelayType(r) /\ n \in Nat
  BY <1>4 DEF FillingOK
<1>8. /\ p.lanes = [r.lanes EXCEPT ![l] = y] /\ p.gone = [r.gone EXCEPT ![l] = @ + n]
      /\ p.partial = partial /\ p.passed = r.passed /\ p.deferred = r.deferred
      /\ p.sent = r.sent /\ p.taken = r.taken
      /\ p = [part \in RelayParts |-> p[part]]
  BY <1>7 DEF RelayType, RelayParts
<1>9. partial \in Nat /\ (policy.waits => partial = 0)
  BY <1>4, <1>7 DEF RelayType, FillingOK, Whole
<1> HIDE DEF partial, p
<1>10. /\ p.lanes = [k \in Lane |-> p.lanes[k]] /\ p.lanes[l] = y
       /\ \A k \in Lane : k # l => p.lanes[k] = r.lanes[k]
       /\ p.gone \in [Lane -> Nat] /\ p.gone[l] = r.gone[l] + n
       /\ \A k \in Lane : k # l => p.gone[k] = r.gone[k]
  <2>1. r.lanes = [k \in Lane |-> r.lanes[k]] /\ r.gone \in [Lane -> Nat]
    BY <1>7 DEF RelayType
  <2>2. p.lanes = [k \in Lane |-> IF k = l THEN y ELSE r.lanes[k]]
    BY <1>8, <2>1
  <2>3. p.gone = [k \in Lane |-> IF k = l THEN r.gone[l] + n ELSE r.gone[k]]
    BY <1>8, <2>1
  <2>4. QED BY <1>7, <2>1, <2>2, <2>3
<1>11. RelayType(p)
  BY <1>7, <1>8, <1>9, <1>10 DEF RelayType
<1>12. /\ q.lanes = p.lanes /\ q.deferred = p.deferred /\ q.partial = p.partial
       /\ q.taken = p.taken /\ q.sent = p.sent /\ q.gone = p.gone /\ q.passed = p.passed
       /\ RelayType(q)
  <2>1. /\ q.lanes = p.lanes /\ q.deferred = p.deferred /\ q.partial = p.partial
        /\ q.taken = p.taken /\ q.sent = p.sent /\ q.gone = p.gone /\ q.passed = p.passed
        /\ q = [part \in RelayParts |-> q[part]]
    BY <1>5, <1>11, RenderedBeside
  <2> HIDE DEF q
  <2>2. QED BY <1>11, <2>1 DEF RelayType
<1> HIDE DEF q
<1>13. Balanced(q)
  <2>1. r.gone[l] + Len(x.held) = Len(r.sent[l]) /\ r.gone[l] \in Nat
    BY <1>7 DEF FillingOK, Balanced, RelayType
  <2>2. Len(y.held) \in Nat
    BY <1>6 DEF LaneType
  <2>3. q.gone[l] + Len(q.lanes[l].held) = Len(q.sent[l])
    <3>1. /\ q.gone[l] = r.gone[l] + n /\ q.lanes[l] = y /\ q.sent[l] = r.sent[l]
      BY <1>8, <1>10, <1>12
    <3>2. QED BY <1>1, <1>6, <1>7, <2>1, <2>2, <3>1
  <2>4. \A k \in Lane : k # l => q.gone[k] + Len(q.lanes[k].held) = Len(q.sent[k])
    BY <1>8, <1>10, <1>12, SMTT(30) DEF FillingOK, Balanced
  <2>5. QED BY <2>3, <2>4 DEF Balanced
<1>14. InTurn(q) /\ NoneAfter(q, q.taken) /\ Whole(q)
  BY <1>8, <1>9, <1>12 DEF FillingOK, InTurn, NoneAfter, Whole
<1>15. \A k \in Lane : LaneType(q.lanes[k], t) /\ Timed(q.lanes[k])
  BY <1>6, <1>10, <1>12 DEF FillingOK
<1>16. RelayOK(q, t)
  BY <1>12, <1>13, <1>14, <1>15 DEF RelayOK
<1>17. Beside(r, q, l)
  BY <1>8, <1>10, <1>12 DEF Beside
<1>18. LetsGo(trigger) => q.lanes[l].held = <<>>
  BY <1>4, <1>6, <1>10, <1>12
<1>19. QED BY <1>16, <1>17, <1>18 DEF q

\* flush_lane keeps the relay one.
LEMMA FlushedLaneKeeps ==
  ASSUME policy \in Policies, NEW t \in Nat, NEW r, RelayOK(r, t), NEW l \in Lane, NEW trigger
  PROVE  LET q == FlushedLane(r, l, trigger, t)
         IN  /\ RelayOK(q, t) /\ Beside(r, q, l)
             /\ LetsGo(trigger) => q.lanes[l].held = <<>>
<1>1. CASE r.lanes[l].held = <<>>
  BY <1>1 DEF FlushedLane, Beside
<1>2. CASE r.lanes[l].held # <<>>
  <2>1. FillingOK(r, l, t)
    BY DEF RelayOK, FillingOK
  <2>2. FlushedLane(r, l, trigger, t)
          = Released(r, l, r.lanes[l].template, r.lanes[l].slot, trigger, t)
    BY <1>2 DEF FlushedLane
  <2> DEFINE q == FlushedLane(r, l, trigger, t)
             f == r.lanes[l].template
             slot == r.lanes[l].slot
  <2>3. q = Released(r, l, f, slot, trigger, t)
    BY <2>2
  <2> HIDE DEF q, f, slot
  <2>4. RelayOK(q, t) /\ Beside(r, q, l) /\ (LetsGo(trigger) => q.lanes[l].held = <<>>)
    BY <2>1, <2>3, ReleasedKeeps
  <2>5. QED BY <2>4 DEF q
<1>3. QED BY <1>1, <1>2

\* What flushing lanes of r leaves alone, and what it empties.
FlushedFrom(r, q, due, trigger) ==
  /\ q.passed = r.passed /\ q.deferred = r.deferred /\ q.sent = r.sent /\ q.taken = r.taken
  /\ \A k \in Lane : k \notin due => q.lanes[k] = r.lanes[k]
  /\ LetsGo(trigger) => \A k \in Lane : r.lanes[k].held = <<>> => q.lanes[k].held = <<>>

\* Every lane has a place in the order of the lanes, and every place a lane.
LEMMA LanesAreNumbered ==
  /\ Len(Lanes) \in Nat /\ \A k \in 1 .. Len(Lanes) : Lanes[k] \in Lane
  /\ \A l \in Lane : \E k \in 1 .. Len(Lanes) : Lanes[k] = l
BY RelayAssumption DEF Lane, ToSet

\* flush_all keeps the relay one, by induction over the lanes; with a trigger that lets
\* everything go, every lane that was due is empty after it.
LEMMA FlushedKeeps ==
  ASSUME policy \in Policies, NEW t \in Nat, NEW r, RelayOK(r, t), NEW due, NEW trigger
  PROVE  LET q == Flushed(r, due, trigger, t)
         IN  /\ RelayOK(q, t) /\ FlushedFrom(r, q, due, trigger)
             /\ LetsGo(trigger) => \A l \in Lane : l \in due => q.lanes[l].held = <<>>
<1> DEFINE len == Len(Lanes)
           Turn(x, n) == IF Lanes[n] \in due THEN FlushedLane(x, Lanes[n], trigger, t) ELSE x
           Step(f, n) == IF n = 0 THEN r ELSE Turn(f[n - 1], n)
           IsRun(f, k) == f = [n \in 0 .. k |-> Step(f, n)]
           Ran == {k \in Nat : \E f : IsRun(f, k)}
           Reached(x, n) ==
             /\ RelayOK(x, t) /\ FlushedFrom(r, x, due, trigger)
             /\ LetsGo(trigger) => \A k \in 1 .. n : Lanes[k] \in due => x.lanes[Lanes[k]].held = <<>>
<1>1. Flushed(r, due, trigger, t) = (CHOOSE f : IsRun(f, len))[len]
  BY DEF Flushed, Folded
<1>2. len \in Nat /\ \A n \in 1 .. len : Lanes[n] \in Lane
  BY LanesAreNumbered
<1>3. Reached(r, 0)
  BY DEF FlushedFrom
<1>4. ASSUME NEW x, NEW n \in Nat, n + 1 <= len, Reached(x, n)
      PROVE  Reached(Turn(x, n + 1), n + 1)
  <2> DEFINE l == Lanes[n + 1]
             y == Turn(x, n + 1)
  <2>1. l \in Lane /\ n + 1 \in 1 .. len
    BY <1>2, <1>4
  <2>2. CASE l \in due
    <3>1. /\ RelayOK(y, t) /\ Beside(x, y, l)
          /\ LetsGo(trigger) => y.lanes[l].held = <<>>
      <4> HIDE DEF l
      <4>1. y = FlushedLane(x, l, trigger, t)
        BY <2>2 DEF l
      <4> HIDE DEF y
      <4>2. QED BY <1>4, <2>1, <4>1, FlushedLaneKeeps
    <3> HIDE DEF y
    <3>2. /\ y.passed = x.passed /\ y.deferred = x.deferred /\ y.sent = x.sent
          /\ y.taken = x.taken /\ \A k \in Lane : k # l => y.lanes[k] = x.lanes[k]
      BY <3>1 DEF Beside
    <3>3. FlushedFrom(r, x, due, trigger)
      BY <1>4
    <3>4. FlushedFrom(r, y, due, trigger)
      BY <2>2, <3>1, <3>2, <3>3 DEF FlushedFrom
    <3>5. ASSUME LetsGo(trigger), NEW k \in 1 .. n + 1, Lanes[k] \in due
          PROVE  y.lanes[Lanes[k]].held = <<>>
      <4>1. CASE Lanes[k] = l
        BY <3>1, <3>5, <4>1
      <4>2. CASE Lanes[k] # l
        <5>1. k \in 1 .. n /\ k \in 1 .. len
          BY <1>2, <1>4, <4>2
        <5>2. x.lanes[Lanes[k]].held = <<>> /\ Lanes[k] \in Lane
          BY <1>2, <1>4, <3>5, <5>1
        <5> HIDE DEF l
        <5>3. QED BY <3>2, <4>2, <5>2
      <4>3. QED BY <4>1, <4>2
    <3>6. Reached(y, n + 1)
      BY <3>1, <3>4, <3>5
    <3>7. QED BY <3>6 DEF y
  <2>3. CASE l \notin due
    <3>1. y = x
      BY <2>3
    <3>2. ASSUME LetsGo(trigger), NEW k \in 1 .. n + 1, Lanes[k] \in due
          PROVE  x.lanes[Lanes[k]].held = <<>>
      <4>1. k \in 1 .. n
        BY <2>3, <3>2
      <4>2. QED BY <1>4, <3>2, <4>1
    <3>3. Reached(x, n + 1)
      BY <1>4, <3>2
    <3> HIDE DEF Reached, y
    <3>4. QED BY <3>1, <3>3 DEF y
  <2>4. QED BY <2>2, <2>3
<1> HIDE DEF len, Turn, Reached
<1>5. Ran = Nat
  <2>1. 0 \in Ran
    <3>1. IsRun([n \in 0 .. 0 |-> r], 0)
      OBVIOUS
    <3> HIDE DEF IsRun
    <3>2. QED BY <3>1
  <2>2. ASSUME NEW k \in Ran PROVE k + 1 \in Ran
    <3>1. PICK f : IsRun(f, k)
      OBVIOUS
    <3> DEFINE g == [n \in 0 .. k + 1 |-> IF n <= k THEN f[n] ELSE Turn(f[k], k + 1)]
    <3>2. k \in Nat
      OBVIOUS
    <3>3. ASSUME NEW n \in 0 .. k + 1 PROVE g[n] = Step(g, n)
      <4>1. CASE n = 0
        BY <3>1, <3>2, <4>1
      <4>2. CASE n # 0 /\ n <= k
        <5>1. n - 1 \in 0 .. k /\ n \in 0 .. k /\ n - 1 \in 0 .. k + 1
          BY <3>2, <4>2
        <5>2. g[n] = f[n] /\ g[n - 1] = f[n - 1]
          BY <4>2, <5>1
        <5>3. f[n] = Turn(f[n - 1], n)
          BY <3>1, <4>2, <5>1
        <5>4. QED BY <4>2, <5>2, <5>3
      <4>3. CASE n = k + 1
        <5>1. k \in 0 .. k + 1 /\ k <= k /\ ~(k + 1 <= k) /\ n # 0 /\ n - 1 = k
          BY <3>2, <4>3
        <5>2. g[n] = Turn(f[k], n) /\ g[n - 1] = f[k]
          BY <4>3, <5>1
        <5>3. QED BY <5>1, <5>2
      <4>4. QED BY <3>2, <4>1, <4>2, <4>3
    <3>4. IsRun(g, k + 1)
      <4>1. g = [n \in 0 .. k + 1 |-> g[n]]
        OBVIOUS
      <4> HIDE DEF g, Step
      <4>2. [n \in 0 .. k + 1 |-> g[n]] = [n \in 0 .. k + 1 |-> Step(g, n)]
        BY <3>3
      <4>3. QED BY <4>1, <4>2
    <3> HIDE DEF IsRun
    <3>5. QED BY <3>2, <3>4
  <2> HIDE DEF Ran
  <2>3. Ran \in SUBSET Nat
    BY DEF Ran
  <2>4. QED BY <2>1, <2>2, <2>3, Induct
<1> DEFINE f == CHOOSE g : IsRun(g, len)
<1>6. IsRun(f, len)
  <2> HIDE DEF IsRun
  <2>1. \E g : IsRun(g, len)
    BY <1>2, <1>5
  <2>2. QED BY <2>1
<1> HIDE DEF f
<1> DEFINE Good == {n \in Nat : n <= len => Reached(f[n], n)}
<1>7. Good = Nat
  <2>1. 0 \in Good
    <3>1. f[0] = r
      BY <1>2, <1>6
    <3>2. QED BY <1>3, <3>1
  <2>2. ASSUME NEW n \in Good PROVE n + 1 \in Good
    <3>1. ASSUME n + 1 <= len PROVE Reached(f[n + 1], n + 1)
      <4>1. n \in Nat /\ n <= len /\ n + 1 \in 0 .. len /\ n + 1 # 0 /\ (n + 1) - 1 = n
        BY <1>2, <3>1
      <4>2. f[n + 1] = Turn(f[n], n + 1)
        BY <1>6, <4>1
      <4>3. Reached(f[n], n)
        BY <4>1
      <4> HIDE DEF IsRun
      <4>4. QED BY <1>4, <3>1, <4>1, <4>2, <4>3
    <3>2. QED BY <3>1
  <2> HIDE DEF Good
  <2>3. Good \in SUBSET Nat
    BY DEF Good
  <2>4. QED BY <2>1, <2>2, <2>3, Induct
<1>8. Reached(f[len], len)
  <2>1. len \in Good
    BY <1>2, <1>7
  <2>2. QED BY <1>2, <2>1
<1> DEFINE q == f[len]
<1>9. Flushed(r, due, trigger, t) = q
  BY <1>1 DEF f
<1>10. /\ RelayOK(q, t) /\ FlushedFrom(r, q, due, trigger)
       /\ LetsGo(trigger) => \A k \in 1 .. len : Lanes[k] \in due => q.lanes[Lanes[k]].held = <<>>
  BY <1>8 DEF Reached
<1> HIDE DEF q
<1>11. LetsGo(trigger) => \A l \in Lane : l \in due => q.lanes[l].held = <<>>
  BY <1>10, LanesAreNumbered DEF len
<1>12. QED BY <1>9, <1>10, <1>11

---------------------------------------------------------------------------
(***************************************************************************)
(* What waits                                                              *)
(***************************************************************************)

\* Only a held letter makes a relay hold, and one that does not hold has let all of
\* its text go.
LEMMA NothingHeld ==
  ASSUME NEW r, NEW t, RelayOK(r, t), ~Holding(r)
  PROVE  \A l \in Lane : r.lanes[l].held = <<>> /\ r.gone[l] = Len(r.sent[l])
<1>1. ASSUME NEW l \in Lane PROVE r.lanes[l].held = <<>> /\ r.gone[l] = Len(r.sent[l])
  <2>1. r.lanes[l].held = <<>>
    BY DEF Holding
  <2>2. r.gone[l] \in Nat /\ r.gone[l] + Len(r.lanes[l].held) = Len(r.sent[l])
    BY DEF RelayOK, RelayType, Balanced
  <2>3. QED BY <2>1, <2>2
<1>2. QED BY <1>1

\* One sequence behind another.
LEMMA BothOf ==
  ASSUME NEW X, NEW s \in Seq(X), NEW u \in Seq(X)
  PROVE  /\ s \o u \in Seq(X) /\ Len(s \o u) = Len(s) + Len(u)
         /\ \A i \in 1 .. Len(s) : (s \o u)[i] = s[i]
         /\ \A i \in Len(s) + 1 .. Len(s) + Len(u) :
              i - Len(s) \in 1 .. Len(u) /\ (s \o u)[i] = u[i - Len(s)]
<1>1. s \o u \in Seq(X) /\ Len(s \o u) = Len(s) + Len(u)
  OBVIOUS
<1>2. \A i \in 1 .. Len(s) : (s \o u)[i] = s[i]
  OBVIOUS
<1>3. \A i \in Len(s) + 1 .. Len(s) + Len(u) :
        i - Len(s) \in 1 .. Len(u) /\ (s \o u)[i] = u[i - Len(s)]
  OBVIOUS
<1>4. QED BY <1>1, <1>2, <1>3

\* drain_deferred keeps the relay one and touches no lane.
LEMMA DrainedKeeps ==
  ASSUME NEW r, NEW t, RelayOK(r, t)
  PROVE  LET q == Drained(r)
         IN  /\ RelayOK(q, t) /\ q.lanes = r.lanes /\ q.sent = r.sent /\ q.gone = r.gone
             /\ q.taken = r.taken /\ q.partial = r.partial
             /\ (\A n \in Nat : NoneAfter(r, n) => NoneAfter(q, n))
             /\ ~Holding(r) => q.deferred = <<>>
<1> DEFINE q == Drained(r)
<1>1. CASE Holding(r)
  BY <1>1 DEF Drained
<1>2. CASE ~Holding(r)
  <2> DEFINE p == Len(r.passed)
             d == Len(r.deferred)
             more == [k \in 1 .. d |-> Passing(r, r.deferred[k])]
             all == r.passed \o more
  <2>1. /\ RelayType(r) /\ p \in Nat /\ d \in Nat
        /\ r.passed \in Seq(PassedType) /\ r.deferred \in Seq(MarkType) /\ r.gone \in [Lane -> Nat]
    BY DEF RelayOK, RelayType
  <2>2. more \in Seq(PassedType) /\ Len(more) = d
    <3>1. \A k \in 1 .. d : Passing(r, r.deferred[k]) \in PassedType
      BY <2>1 DEF Passing, PassedType
    <3>2. QED BY <2>1, <3>1
  <2>3. \A k \in 1 .. d : more[k].mark = r.deferred[k] /\ more[k].gone = r.gone
    BY DEF Passing
  <2> HIDE DEF more
  <2>4. /\ all \in Seq(PassedType) /\ Len(all) = p + d
        /\ \A i \in 1 .. p : all[i] = r.passed[i]
        /\ \A i \in p + 1 .. p + d : i - p \in 1 .. d /\ all[i] = more[i - p]
    <3>1. /\ r.passed \in Seq(PassedType) /\ more \in Seq(PassedType)
          /\ Len(more) = d /\ p = Len(r.passed)
      BY <2>1, <2>2
    <3> HIDE DEF p, d
    <3>2. all \in Seq(PassedType) /\ Len(all) = p + d
      BY ONLY <3>1, BothOf
    <3>3. \A i \in 1 .. p : all[i] = r.passed[i]
      BY ONLY <3>1, BothOf
    <3>4. \A i \in p + 1 .. p + d : i - p \in 1 .. d /\ all[i] = more[i - p]
      BY ONLY <3>1, BothOf
    <3>5. QED BY <3>2, <3>3, <3>4
  <2> HIDE DEF all, p, d
  <2>5. \A i \in p + 1 .. p + d : i - p \in 1 .. d /\ all[i].mark = r.deferred[i - p] /\ all[i].gone = r.gone
    BY <2>3, <2>4
  <2>6. q = [r EXCEPT !.passed = all, !.deferred = <<>>]
    BY <1>2 DEF Drained, all, more, d
  <2> HIDE DEF q
  <2>7. /\ q = [part \in RelayParts |-> q[part]]
        /\ q.passed = all /\ q.deferred = <<>> /\ q.lanes = r.lanes /\ q.partial = r.partial
        /\ q.taken = r.taken /\ q.sent = r.sent /\ q.gone = r.gone
    BY <2>1, <2>6 DEF RelayType, RelayParts
  <2>8. RelayType(q)
    <3>1. <<>> \in Seq(MarkType)
      OBVIOUS
    <3>2. QED BY <2>1, <2>4, <2>7, <3>1 DEF RelayType
  <2>9. \A i \in 1 .. p + d : i \in 1 .. p \/ i \in p + 1 .. p + d
    BY <2>1
  <2>10. /\ \A i, j \in 1 .. p : i < j => r.passed[i].mark.nth < r.passed[j].mark.nth
         /\ \A i, j \in 1 .. d : i < j => r.deferred[i].nth < r.deferred[j].nth
         /\ \A i \in 1 .. p : \A j \in 1 .. d : r.passed[i].mark.nth < r.deferred[j].nth
         /\ \A i \in 1 .. p : \A l \in Lane : r.passed[i].gone[l] >= r.passed[i].mark.need[l]
         /\ \A j \in 1 .. d : \A l \in Lane : r.deferred[j].need[l] <= Len(r.sent[l])
    BY DEF RelayOK, InTurn, p, d
  <2>11. ASSUME NEW i \in 1 .. p + d, NEW j \in 1 .. p + d, i < j
         PROVE  all[i].mark.nth < all[j].mark.nth
    <3>1. CASE j \in 1 .. p
      <4>1. i \in 1 .. p
        BY <2>1, <2>11, <3>1
      <4>2. QED BY <2>4, <2>10, <2>11, <3>1, <4>1
    <3>2. CASE i \in 1 .. p /\ j \in p + 1 .. p + d
      BY <2>4, <2>5, <2>10, <3>2
    <3>3. CASE i \in p + 1 .. p + d /\ j \in p + 1 .. p + d
      <4>1. i - p \in 1 .. d /\ j - p \in 1 .. d /\ i - p < j - p
        BY <2>1, <2>5, <2>11, <3>3
      <4>2. QED BY <2>5, <2>10, <3>3, <4>1
    <3>4. QED BY <2>9, <3>1, <3>2, <3>3
  <2>12. ASSUME NEW i \in 1 .. p + d, NEW l \in Lane PROVE all[i].gone[l] >= all[i].mark.need[l]
    <3>1. CASE i \in 1 .. p
      BY <2>4, <2>10, <3>1
    <3>2. CASE i \in p + 1 .. p + d
      <4>1. r.gone[l] = Len(r.sent[l]) /\ r.gone[l] \in Nat
        BY <1>2, <2>1, NothingHeld
      <4>2. i - p \in 1 .. d /\ r.deferred[i - p].need[l] <= Len(r.sent[l]) /\ r.deferred[i - p] \in MarkType
        BY <2>1, <2>5, <2>10, <3>2 DEF d
      <4>3. r.deferred[i - p].need[l] \in Nat
        BY <4>2 DEF MarkType
      <4>4. all[i].gone[l] = r.gone[l] /\ all[i].mark = r.deferred[i - p]
        BY <2>5, <3>2
      <4>5. QED BY <4>1, <4>2, <4>3, <4>4
    <3>3. QED BY <2>9, <3>1, <3>2
  <2>13. Len(q.passed) = p + d /\ Len(q.deferred) = 0
    BY <2>4, <2>7
  <2>14. InTurn(q)
    <3>1. \A j \in 1 .. Len(q.deferred) : FALSE
      BY <2>13
    <3> HIDE DEF q
    <3>2. QED BY <2>7, <2>11, <2>12, <2>13, <3>1 DEF InTurn
  <2>15. ASSUME NEW n \in Nat, NoneAfter(r, n) PROVE NoneAfter(q, n)
    <3>1. ASSUME NEW i \in 1 .. p + d PROVE all[i].mark.nth <= n
      BY <2>4, <2>5, <2>9, <2>15 DEF NoneAfter, p, d
    <3>2. \A j \in 1 .. Len(q.deferred) : FALSE
      BY <2>13
    <3>3. QED BY <2>7, <2>13, <3>1, <3>2 DEF NoneAfter
  <2>16. RelayOK(q, t)
    <3>1. NoneAfter(q, q.taken)
      BY <2>1, <2>7, <2>15 DEF RelayOK, RelayType
    <3>2. Balanced(q) /\ Whole(q)
      BY <2>7 DEF RelayOK, Balanced, Whole
    <3>3. QED BY <2>7, <2>8, <2>14, <3>1, <3>2 DEF RelayOK
  <2>17. QED BY <1>2, <2>7, <2>15, <2>16 DEF q
<1>3. QED BY <1>1, <1>2

\* A frame that is not rewritten needs all the text that came before it.
LEMMA MarkFacts ==
  ASSUME NEW r, RelayType(r)
  PROVE  /\ Mark(r) \in MarkType /\ Mark(r).nth = r.taken
         /\ \A l \in Lane : Mark(r).need[l] = Len(r.sent[l]) /\ Len(r.sent[l]) \in Nat
BY DEF Mark, MarkType, RelayType

\* One more at the end of a sequence.
LEMMA OneMore ==
  ASSUME NEW X, NEW s \in Seq(X), NEW x \in X
  PROVE  /\ Append(s, x) \in Seq(X) /\ Len(Append(s, x)) = Len(s) + 1
         /\ \A i \in 1 .. Len(s) : Append(s, x)[i] = s[i]
         /\ Append(s, x)[Len(s) + 1] = x
OBVIOUS

\* A frame that is the last to come may pass when nothing waits and all text before it
\* has gone.
LEMMA EmittedKeeps ==
  ASSUME NEW r, NEW t, RelayOK(r, t), NEW n \in Nat, r.taken = n + 1, NoneAfter(r, n),
         NEW m \in MarkType, m.nth = r.taken, r.deferred = <<>>,
         \A l \in Lane : r.gone[l] >= m.need[l]
  PROVE  RelayOK(Emitted(r, m), t)
<1> DEFINE p == Len(r.passed)
           x == Passing(r, m)
           all == Append(r.passed, x)
           q == Emitted(r, m)
<1>1. RelayType(r) /\ p \in Nat /\ r.passed \in Seq(PassedType)
  BY DEF RelayOK, RelayType
<1>2. x \in PassedType /\ x.mark = m /\ x.gone = r.gone
  BY <1>1 DEF Passing, PassedType, RelayType
<1> HIDE DEF x
<1>3. /\ all \in Seq(PassedType) /\ Len(all) = p + 1
      /\ \A i \in 1 .. p : all[i] = r.passed[i]
      /\ all[p + 1] = x
  <2>1. r.passed \in Seq(PassedType) /\ x \in PassedType /\ p = Len(r.passed)
    BY <1>1, <1>2
  <2>2. /\ all \in Seq(PassedType) /\ Len(all) = Len(r.passed) + 1
        /\ \A i \in 1 .. Len(r.passed) : all[i] = r.passed[i]
        /\ all[Len(r.passed) + 1] = x
    BY ONLY <2>1, OneMore
  <2>3. QED BY <2>2
<1>4. q = [r EXCEPT !.passed = all]
  BY DEF Emitted, all, x
<1> HIDE DEF all, q
<1>5. /\ q = [part \in RelayParts |-> q[part]]
      /\ q.passed = all /\ q.deferred = r.deferred /\ q.lanes = r.lanes /\ q.partial = r.partial
      /\ q.taken = r.taken /\ q.sent = r.sent /\ q.gone = r.gone
  BY <1>1, <1>4 DEF RelayType, RelayParts
<1>6. RelayType(q)
  BY <1>1, <1>3, <1>5 DEF RelayType
<1>7. Len(q.passed) = p + 1 /\ \A j \in 1 .. Len(q.deferred) : FALSE
  BY <1>3, <1>5
<1>8. /\ \A i, j \in 1 .. p : i < j => r.passed[i].mark.nth < r.passed[j].mark.nth
      /\ \A i \in 1 .. p : \A l \in Lane : r.passed[i].gone[l] >= r.passed[i].mark.need[l]
      /\ \A i \in 1 .. p : r.passed[i].mark.nth <= n
  BY DEF RelayOK, InTurn, NoneAfter
<1>9. \A i \in 1 .. p : r.passed[i].mark.nth \in Nat
  <2>1. \A i \in 1 .. p : r.passed[i] \in PassedType
    BY <1>1
  <2>2. QED BY <2>1 DEF PassedType, MarkType
<1> HIDE DEF p
<1>10. ASSUME NEW i \in 1 .. p + 1, NEW j \in 1 .. p + 1, i < j
       PROVE  all[i].mark.nth < all[j].mark.nth
  <2>1. i \in 1 .. p
    BY <1>1, <1>10
  <2>2. CASE j \in 1 .. p
    BY <1>3, <1>8, <1>10, <2>1, <2>2
  <2>3. CASE j = p + 1
    <3>1. all[j].mark.nth = n + 1 /\ all[i].mark.nth = r.passed[i].mark.nth
      BY <1>2, <1>3, <2>1, <2>3
    <3>2. QED BY <1>8, <1>9, <2>1, <3>1
  <2>4. QED BY <1>1, <2>2, <2>3
<1>11. ASSUME NEW i \in 1 .. p + 1
       PROVE  all[i].mark.nth <= n + 1 /\ \A l \in Lane : all[i].gone[l] >= all[i].mark.need[l]
  <2>1. CASE i \in 1 .. p
    BY <1>3, <1>8, <1>9, <2>1
  <2>2. CASE i = p + 1
    BY <1>2, <1>3, <2>2
  <2>3. QED BY <1>1, <2>1, <2>2
<1>12. InTurn(q)
  BY <1>5, <1>7, <1>10, <1>11 DEF InTurn
<1>13. NoneAfter(q, q.taken)
  BY <1>5, <1>7, <1>11 DEF NoneAfter
<1>14. Balanced(q) /\ Whole(q) /\ \A k \in Lane : LaneType(q.lanes[k], t) /\ Timed(q.lanes[k])
  BY <1>5 DEF RelayOK, Balanced, Whole
<1>15. QED BY <1>6, <1>12, <1>13, <1>14 DEF RelayOK, q

\* And it may always wait.
LEMMA DeferredKeeps ==
  ASSUME NEW r, NEW t, RelayOK(r, t), NEW n \in Nat, r.taken = n + 1, NoneAfter(r, n),
         NEW m \in MarkType, m.nth = r.taken,
         \A l \in Lane : m.need[l] <= Len(r.sent[l])
  PROVE  RelayOK([r EXCEPT !.deferred = Append(@, m)], t)
<1> DEFINE d == Len(r.deferred)
           all == Append(r.deferred, m)
           q == [r EXCEPT !.deferred = all]
<1>1. RelayType(r) /\ d \in Nat /\ r.deferred \in Seq(MarkType)
  BY DEF RelayOK, RelayType
<1>2. /\ all \in Seq(MarkType) /\ Len(all) = d + 1
      /\ \A i \in 1 .. d : all[i] = r.deferred[i]
      /\ all[d + 1] = m
  <2>1. r.deferred \in Seq(MarkType) /\ m \in MarkType
    BY <1>1
  <2>2. /\ all \in Seq(MarkType) /\ Len(all) = Len(r.deferred) + 1
        /\ \A i \in 1 .. Len(r.deferred) : all[i] = r.deferred[i]
        /\ all[Len(r.deferred) + 1] = m
    BY ONLY <2>1, OneMore
  <2>3. QED BY <2>2
<1>3. q = [r EXCEPT !.deferred = Append(@, m)]
  BY DEF all
<1> HIDE DEF all
<1>4. /\ q = [part \in RelayParts |-> q[part]]
      /\ q.deferred = all /\ q.passed = r.passed /\ q.lanes = r.lanes /\ q.partial = r.partial
      /\ q.taken = r.taken /\ q.sent = r.sent /\ q.gone = r.gone
  BY <1>1 DEF RelayType, RelayParts
<1> HIDE DEF q
<1>5. RelayType(q)
  BY <1>1, <1>2, <1>4 DEF RelayType
<1>6. Len(q.deferred) = d + 1
  BY <1>2, <1>4
<1>7. /\ \A i, j \in 1 .. d : i < j => r.deferred[i].nth < r.deferred[j].nth
      /\ \A i \in 1 .. Len(r.passed) : \A j \in 1 .. d : r.passed[i].mark.nth < r.deferred[j].nth
      /\ \A j \in 1 .. d : \A l \in Lane : r.deferred[j].need[l] <= Len(r.sent[l])
      /\ \A j \in 1 .. d : r.deferred[j].nth <= n
      /\ \A i \in 1 .. Len(r.passed) : r.passed[i].mark.nth <= n
  BY DEF RelayOK, InTurn, NoneAfter
<1>8. /\ \A j \in 1 .. d : r.deferred[j].nth \in Nat
      /\ \A i \in 1 .. Len(r.passed) : r.passed[i].mark.nth \in Nat
  <2>1. \A j \in 1 .. d : r.deferred[j] \in MarkType
    BY <1>1
  <2>2. \A i \in 1 .. Len(r.passed) : r.passed[i] \in PassedType
    BY <1>1 DEF RelayType
  <2>3. QED BY <2>1, <2>2 DEF PassedType, MarkType
<1> HIDE DEF d
<1>9. \A j \in 1 .. d + 1 : j \in 1 .. d \/ j = d + 1
  BY <1>1
<1>10. ASSUME NEW i \in 1 .. d + 1, NEW j \in 1 .. d + 1, i < j
       PROVE  all[i].nth < all[j].nth
  <2>1. i \in 1 .. d
    BY <1>1, <1>10
  <2>2. CASE j \in 1 .. d
    BY <1>2, <1>7, <1>10, <2>1, <2>2
  <2>3. CASE j = d + 1
    <3>1. all[j].nth = n + 1 /\ all[i].nth = r.deferred[i].nth
      BY <1>2, <2>1, <2>3
    <3>2. QED BY <1>7, <1>8, <2>1, <3>1
  <2>4. QED BY <1>9, <2>2, <2>3
<1>11. ASSUME NEW j \in 1 .. d + 1
       PROVE  /\ all[j].nth <= n + 1
              /\ \A l \in Lane : all[j].need[l] <= Len(r.sent[l])
              /\ \A i \in 1 .. Len(r.passed) : r.passed[i].mark.nth < all[j].nth
  <2>1. CASE j \in 1 .. d
    BY <1>2, <1>7, <1>8, <2>1, SMTT(30)
  <2>2. CASE j = d + 1
    BY <1>2, <1>7, <1>8, <2>2, SMTT(30)
  <2>3. QED BY <1>9, <2>1, <2>2
<1>12. InTurn(q)
  <2>1. /\ \A i, j \in 1 .. Len(r.passed) : i < j => r.passed[i].mark.nth < r.passed[j].mark.nth
        /\ \A i \in 1 .. Len(r.passed) : \A l \in Lane :
             r.passed[i].gone[l] >= r.passed[i].mark.need[l]
    BY DEF RelayOK, InTurn
  <2>2. QED BY <1>4, <1>6, <1>10, <1>11, <2>1 DEF InTurn
<1>13. NoneAfter(q, q.taken)
  BY <1>4, <1>6, <1>7, <1>8, <1>11, SMTT(30) DEF NoneAfter
<1>14. Balanced(q) /\ Whole(q) /\ \A k \in Lane : LaneType(q.lanes[k], t) /\ Timed(q.lanes[k])
  BY <1>4 DEF RelayOK, Balanced, Whole
<1>15. QED BY <1>3, <1>5, <1>12, <1>13, <1>14 DEF RelayOK

---------------------------------------------------------------------------
(***************************************************************************)
(* What comes in                                                           *)
(***************************************************************************)

SlotType == [lane : Lane, text : Seq(Letter)]

\* A lane that was given more text, all of it arriving now.
LEMMA FilledLane ==
  ASSUME NEW t \in Nat, NEW x, LaneType(x, t), Timed(x), NEW text \in Seq(Letter),
         NEW f, NEW slot, NEW y, y = Filled(x, f, slot, text, t)
  PROVE  LaneType(y, t) /\ Len(y.held) = Len(x.held) + Len(text)
<1> DEFINE new == [k \in 1 .. Len(text) |-> t]
           held == x.held \o text
           ages == x.ages \o new
<1>1. /\ x = [part \in LaneParts |-> x[part]]
      /\ x.held \in Seq(Letter) /\ x.ages \in Seq(Nat) /\ Len(x.ages) = Len(x.held)
      /\ x.since # None => /\ x.since \in Nat /\ x.since <= t
                           /\ \A k \in 1 .. Len(x.ages) : x.since <= x.ages[k]
  BY DEF LaneType
<1>2. new \in Seq(Nat) /\ Len(new) = Len(text) /\ \A k \in 1 .. Len(text) : new[k] = t
  OBVIOUS
<1> HIDE DEF new
<1>3. held \in Seq(Letter) /\ Len(held) = Len(x.held) + Len(text)
  BY <1>1, BothOf
<1>4. /\ ages \in Seq(Nat) /\ Len(ages) = Len(x.ages) + Len(new)
      /\ \A i \in 1 .. Len(x.ages) : ages[i] = x.ages[i]
      /\ \A i \in Len(x.ages) + 1 .. Len(x.ages) + Len(new) :
           i - Len(x.ages) \in 1 .. Len(new) /\ ages[i] = new[i - Len(x.ages)]
  <2>1. x.ages \in Seq(Nat) /\ new \in Seq(Nat)
    BY <1>1, <1>2
  <2>2. QED BY ONLY <2>1, BothOf
<1>5. y = [x EXCEPT !.held = held, !.ages = ages, !.template = f, !.slot = slot]
  BY DEF Filled, new
<1> HIDE DEF held, ages
<1>6. /\ y.held = held /\ y.ages = ages /\ y.since = x.since
      /\ y = [part \in LaneParts |-> y[part]]
  BY <1>1, <1>5 DEF LaneParts
<1>7. ASSUME NEW i \in 1 .. Len(ages), i \notin 1 .. Len(x.ages) PROVE ages[i] = t
  <2>1. i \in Len(x.ages) + 1 .. Len(x.ages) + Len(new)
    BY <1>1, <1>2, <1>4, <1>7, SMTT(30)
  <2>2. QED BY <1>2, <1>4, <2>1
<1>8. ASSUME x.since = None PROVE \A i \in 1 .. Len(ages) : t <= ages[i]
  <2>1. Len(x.ages) = 0
    BY <1>1, <1>8 DEF Timed
  <2>2. QED BY <1>7, <2>1
<1>9. ASSUME x.since # None PROVE \A i \in 1 .. Len(ages) : x.since <= ages[i]
  <2>1. TAKE i \in 1 .. Len(ages)
  <2>2. CASE i \in 1 .. Len(x.ages)
    BY <1>1, <1>4, <1>9, <2>2
  <2>3. CASE i \notin 1 .. Len(x.ages)
    BY <1>1, <1>7, <1>9, <2>3
  <2>4. QED BY <2>2, <2>3
<1>10. Len(ages) = Len(held)
  BY <1>1, <1>2, <1>3, <1>4
<1>11. LaneType(y, t)
  BY <1>1, <1>3, <1>4, <1>6, <1>8, <1>9, <1>10 DEF LaneType
<1>12. QED BY <1>3, <1>6, <1>11

\* A slot of text that was taken leaves the relay one.
LEMMA TakenSlotKeeps ==
  ASSUME policy \in Policies, NEW t \in Nat, NEW r, RelayOK(r, t),
         NEW f, NEW slot, f.slots[slot] \in SlotType
  PROVE  RelayOK(TakenSlot(r, f, slot, t), t)
<1> DEFINE l == f.slots[slot].lane
           text == f.slots[slot].text
           y == Filled(r.lanes[l], f, slot, text, t)
           p == [r EXCEPT !.lanes[l] = Filled(@, f, slot, text, t), !.sent[l] = @ \o text]
<1>1. l \in Lane /\ text \in Seq(Letter)
  BY DEF SlotType
<1>2. TakenSlot(r, f, slot, t) = Released(p, l, f, slot, "settled", t)
  BY DEF TakenSlot
<1> HIDE DEF l, text
<1>3. /\ RelayType(r) /\ LaneType(r.lanes[l], t) /\ Timed(r.lanes[l])
      /\ r.lanes = [k \in Lane |-> r.lanes[k]] /\ r.sent \in [Lane -> Seq(Letter)]
  BY <1>1 DEF RelayOK, RelayType
<1> DEFINE x == r.lanes[l]
<1>4. LaneType(y, t) /\ Len(y.held) = Len(x.held) + Len(text)
  <2>1. LaneType(x, t) /\ Timed(x) /\ text \in Seq(Letter) /\ y = Filled(x, f, slot, text, t)
    BY <1>1, <1>3
  <2> HIDE DEF x, y
  <2>2. QED BY ONLY <2>1, t \in Nat, FilledLane
<1> HIDE DEF y
<1>5. /\ p = [part \in RelayParts |-> p[part]]
      /\ p.lanes = [r.lanes EXCEPT ![l] = y] /\ p.sent = [r.sent EXCEPT ![l] = @ \o text]
      /\ p.gone = r.gone /\ p.passed = r.passed /\ p.deferred = r.deferred
      /\ p.partial = r.partial /\ p.taken = r.taken
  BY <1>3 DEF RelayType, RelayParts, y
<1> HIDE DEF p
<1>6. r.sent[l] \o text \in Seq(Letter) /\ Len(r.sent[l] \o text) = Len(r.sent[l]) + Len(text)
  <2>1. r.sent[l] \in Seq(Letter)
    BY <1>1, <1>3
  <2>2. QED BY <1>1, <2>1, BothOf
<1>7. /\ p.lanes = [k \in Lane |-> p.lanes[k]] /\ p.lanes[l] = y
      /\ \A k \in Lane : k # l => p.lanes[k] = r.lanes[k]
      /\ p.sent \in [Lane -> Seq(Letter)] /\ p.sent[l] = r.sent[l] \o text
      /\ \A k \in Lane : k # l => p.sent[k] = r.sent[k]
  <2>1. p.lanes = [k \in Lane |-> IF k = l THEN y ELSE r.lanes[k]]
    BY <1>3, <1>5
  <2>2. p.sent = [k \in Lane |-> IF k = l THEN r.sent[l] \o text ELSE r.sent[k]]
    BY <1>3, <1>5
  <2>3. QED BY <1>1, <1>3, <1>6, <2>1, <2>2
<1>8. RelayType(p)
  BY <1>3, <1>5, <1>7 DEF RelayType
<1>9. Balanced(p)
  <2>1. /\ r.gone[l] \in Nat /\ r.gone[l] + Len(r.lanes[l].held) = Len(r.sent[l])
        /\ Len(r.lanes[l].held) \in Nat /\ Len(text) \in Nat
    BY <1>1, <1>3 DEF RelayOK, Balanced, RelayType, LaneType
  <2>2. Len(p.sent[l]) = Len(r.sent[l]) + Len(text) /\ Len(p.lanes[l].held) = Len(r.lanes[l].held) + Len(text)
    BY <1>4, <1>6, <1>7
  <2>3. p.gone[l] + Len(p.lanes[l].held) = Len(p.sent[l])
    <3> DEFINE g == r.gone[l]
               h == Len(r.lanes[l].held)
               w == Len(text)
    <3>1. /\ p.gone[l] = g /\ Len(p.lanes[l].held) = h + w /\ Len(p.sent[l]) = (g + h) + w
          /\ g \in Nat /\ h \in Nat /\ w \in Nat
      BY <1>5, <2>1, <2>2
    <3> HIDE DEF g, h, w
    <3>2. QED BY <3>1
  <2>4. \A k \in Lane : k # l => p.gone[k] + Len(p.lanes[k].held) = Len(p.sent[k])
    BY <1>5, <1>7 DEF RelayOK, Balanced
  <2>5. QED BY <2>3, <2>4 DEF Balanced
<1>10. InTurn(p)
  <2>1. InTurn(r)
    BY DEF RelayOK
  <2>2. ASSUME NEW j \in 1 .. Len(r.deferred), NEW k \in Lane
        PROVE  r.deferred[j].need[k] <= Len(p.sent[k])
    <3>1. r.deferred[j].need[k] <= Len(r.sent[k]) /\ r.deferred[j] \in MarkType
      <4>1. r.deferred[j].need[k] <= Len(r.sent[k])
        BY <2>1 DEF InTurn
      <4>2. r.deferred \in Seq(MarkType)
        BY <1>3 DEF RelayType
      <4>3. QED BY <4>1, <4>2
    <3>2. r.deferred[j].need[k] \in Nat
      BY <3>1 DEF MarkType
    <3>3. Len(r.sent[k]) \in Nat /\ Len(text) \in Nat
      BY <1>1, <1>3
    <3>4. Len(p.sent[k]) >= Len(r.sent[k]) /\ Len(p.sent[k]) \in Nat
      <4>1. CASE k = l
        <5>1. Len(p.sent[k]) = Len(r.sent[k]) + Len(text)
          BY <1>6, <1>7, <4>1
        <5>2. QED BY <3>3, <5>1
      <4>2. CASE k # l
        <5>1. p.sent[k] = r.sent[k]
          BY <1>7, <4>2
        <5>2. QED BY <3>3, <5>1
      <4>3. QED BY <4>1, <4>2
    <3>5. QED BY <3>1, <3>2, <3>3, <3>4, SMTT(30)
  <2>3. QED BY <1>5, <2>1, <2>2 DEF InTurn
<1>11. NoneAfter(p, p.taken) /\ Whole(p)
  BY <1>5 DEF RelayOK, NoneAfter, Whole
<1>12. \A k \in Lane : LaneType(p.lanes[k], t) /\ (k # l => Timed(p.lanes[k]))
  BY <1>4, <1>7 DEF RelayOK
<1>13. FillingOK(p, l, t)
  BY <1>8, <1>9, <1>10, <1>11, <1>12 DEF FillingOK
<1>14. QED BY <1>1, <1>2, <1>13, ReleasedKeeps

\* And so does a frame of them, by induction over its slots.
LEMMA TakenTextKeeps ==
  ASSUME policy \in Policies, NEW t \in Nat, NEW r, RelayOK(r, t),
         NEW f, f.slots \in Seq(SlotType)
  PROVE  RelayOK(TakenText(r, f, t), t)
<1> DEFINE len == Len(f.slots)
           Turn(x, n) == TakenSlot(x, f, n, t)
           Step(f1, n) == IF n = 0 THEN r ELSE Turn(f1[n - 1], n)
           IsRun(f1, k) == f1 = [n \in 0 .. k |-> Step(f1, n)]
           Ran == {k \in Nat : \E f1 : IsRun(f1, k)}
<1>1. TakenText(r, f, t) = (CHOOSE g : IsRun(g, len))[len]
  BY DEF TakenText, Folded
<1>2. len \in Nat /\ \A n \in 1 .. len : f.slots[n] \in SlotType
  OBVIOUS
<1>3. ASSUME NEW x, NEW n \in 1 .. len, RelayOK(x, t)
      PROVE  RelayOK(Turn(x, n), t)
  BY <1>2, <1>3, TakenSlotKeeps
<1> HIDE DEF len, Turn
<1>4. Ran = Nat
  <2>1. 0 \in Ran
    <3>1. IsRun([n \in 0 .. 0 |-> r], 0)
      OBVIOUS
    <3> HIDE DEF IsRun
    <3>2. QED BY <3>1
  <2>2. ASSUME NEW k \in Ran PROVE k + 1 \in Ran
    <3>1. PICK h : IsRun(h, k)
      OBVIOUS
    <3> DEFINE g == [n \in 0 .. k + 1 |-> IF n <= k THEN h[n] ELSE Turn(h[k], k + 1)]
    <3>2. k \in Nat
      OBVIOUS
    <3>3. ASSUME NEW n \in 0 .. k + 1 PROVE g[n] = Step(g, n)
      <4>1. CASE n = 0
        BY <3>1, <3>2, <4>1
      <4>2. CASE n # 0 /\ n <= k
        <5>1. n - 1 \in 0 .. k /\ n \in 0 .. k /\ n - 1 \in 0 .. k + 1
          BY <3>2, <4>2
        <5>2. g[n] = h[n] /\ g[n - 1] = h[n - 1]
          BY <4>2, <5>1
        <5>3. h[n] = Turn(h[n - 1], n)
          BY <3>1, <4>2, <5>1
        <5>4. QED BY <4>2, <5>2, <5>3
      <4>3. CASE n = k + 1
        <5>1. k \in 0 .. k + 1 /\ k <= k /\ ~(k + 1 <= k) /\ n # 0 /\ n - 1 = k
          BY <3>2, <4>3
        <5>2. g[n] = Turn(h[k], n) /\ g[n - 1] = h[k]
          BY <4>3, <5>1
        <5>3. QED BY <5>1, <5>2
      <4>4. QED BY <3>2, <4>1, <4>2, <4>3
    <3>4. IsRun(g, k + 1)
      <4>1. g = [n \in 0 .. k + 1 |-> g[n]]
        OBVIOUS
      <4> HIDE DEF g, Step
      <4>2. [n \in 0 .. k + 1 |-> g[n]] = [n \in 0 .. k + 1 |-> Step(g, n)]
        BY <3>3
      <4>3. QED BY <4>1, <4>2
    <3> HIDE DEF IsRun
    <3>5. QED BY <3>2, <3>4
  <2> HIDE DEF Ran
  <2>3. Ran \in SUBSET Nat
    BY DEF Ran
  <2>4. QED BY <2>1, <2>2, <2>3, Induct
<1> DEFINE h == CHOOSE g : IsRun(g, len)
<1>5. IsRun(h, len)
  <2> HIDE DEF IsRun
  <2>1. \E g : IsRun(g, len)
    BY <1>2, <1>4
  <2>2. QED BY <2>1
<1> HIDE DEF h
<1> DEFINE Good == {n \in Nat : n <= len => RelayOK(h[n], t)}
<1>6. Good = Nat
  <2>1. 0 \in Good
    <3>1. h[0] = r
      BY <1>2, <1>5
    <3>2. QED BY <3>1
  <2>2. ASSUME NEW n \in Good PROVE n + 1 \in Good
    <3>1. ASSUME n + 1 <= len PROVE RelayOK(h[n + 1], t)
      <4>1. n \in Nat /\ n <= len /\ n + 1 \in 0 .. len /\ n + 1 # 0 /\ (n + 1) - 1 = n
        BY <1>2, <3>1
      <4>2. h[n + 1] = Turn(h[n], n + 1)
        BY <1>5, <4>1
      <4>3. RelayOK(h[n], t) /\ n + 1 \in 1 .. len
        BY <4>1, <3>1
      <4> HIDE DEF IsRun
      <4>4. QED BY <1>3, <4>2, <4>3
    <3>2. QED BY <3>1
  <2> HIDE DEF Good
  <2>3. Good \in SUBSET Nat
    BY DEF Good
  <2>4. QED BY <2>1, <2>2, <2>3, Induct
<1>7. RelayOK(h[len], t)
  <2>1. len \in Good
    BY <1>2, <1>6
  <2>2. QED BY <1>2, <2>1
<1>8. QED BY <1>1, <1>7 DEF h

\* A frame is counted before anything is done with it, and nothing has its number yet.
LEMMA CountedKeeps ==
  ASSUME NEW t, NEW r, RelayOK(r, t), NEW e, NEW q,
         q = [r EXCEPT !.taken = @ + 1, !.over = e]
  PROVE  /\ RelayOK(q, t) /\ NoneAfter(q, r.taken)
         /\ r.taken \in Nat /\ q.taken = r.taken + 1
<1>1. RelayType(r) /\ r.taken \in Nat
  BY DEF RelayOK, RelayType
<1>2. /\ q = [part \in RelayParts |-> q[part]]
      /\ q.taken = r.taken + 1 /\ q.passed = r.passed /\ q.deferred = r.deferred
      /\ q.lanes = r.lanes /\ q.partial = r.partial /\ q.sent = r.sent /\ q.gone = r.gone
  BY <1>1 DEF RelayType, RelayParts
<1>3. RelayType(q)
  <2>1. q.taken \in Nat
    BY <1>1, <1>2
  <2>2. /\ r.lanes = [l \in Lane |-> r.lanes[l]] /\ r.sent \in [Lane -> Seq(Letter)]
        /\ r.gone \in [Lane -> Nat] /\ r.partial \in Nat
        /\ r.passed \in Seq(PassedType) /\ r.deferred \in Seq(MarkType)
    BY <1>1 DEF RelayType
  <2>3. QED BY <1>2, <2>1, <2>2 DEF RelayType
<1>4. NoneAfter(q, r.taken)
  BY <1>2 DEF RelayOK, NoneAfter
<1>5. NoneAfter(q, q.taken)
  <2>1. \A i \in 1 .. Len(r.passed) : r.passed[i].mark.nth \in Nat
    <3>1. \A i \in 1 .. Len(r.passed) : r.passed[i] \in PassedType
      BY <1>1 DEF RelayType
    <3>2. QED BY <3>1 DEF PassedType, MarkType
  <2>2. \A j \in 1 .. Len(r.deferred) : r.deferred[j].nth \in Nat
    <3>1. \A j \in 1 .. Len(r.deferred) : r.deferred[j] \in MarkType
      BY <1>1 DEF RelayType
    <3>2. QED BY <3>1 DEF MarkType
  <2>3. QED BY <1>1, <1>2, <1>4, <2>1, <2>2, SMTT(30) DEF NoneAfter
<1>6. InTurn(q) /\ Balanced(q) /\ Whole(q)
      /\ \A k \in Lane : LaneType(q.lanes[k], t) /\ Timed(q.lanes[k])
  BY <1>2 DEF RelayOK, InTurn, Balanced, Whole
<1>7. QED BY <1>1, <1>2, <1>3, <1>4, <1>5, <1>6 DEF RelayOK

\* The answer's end lets everything go, drains what waited, and passes last.
LEMMA EndedKeeps ==
  ASSUME policy \in Policies, NEW t \in Nat, NEW r, RelayOK(r, t), NEW n \in Nat,
         r.taken = n + 1, NoneAfter(r, n)
  PROVE  RelayOK(Emitted(Drained(Flushed(r, Lane, "end", t)), Mark(r)), t)
<1> DEFINE p == Flushed(r, Lane, "end", t)
           q == Drained(p)
           m == Mark(r)
<1>1. LetsGo("end")
  BY DEF LetsGo
<1>2. /\ RelayOK(p, t) /\ FlushedFrom(r, p, Lane, "end")
      /\ \A l \in Lane : p.lanes[l].held = <<>>
  BY <1>1, FlushedKeeps
<1> HIDE DEF p
<1>3. ~Holding(p)
  BY <1>2 DEF Holding
<1>4. p.passed = r.passed /\ p.deferred = r.deferred /\ p.sent = r.sent /\ p.taken = r.taken
  BY <1>2 DEF FlushedFrom
<1>5. NoneAfter(p, n)
  BY <1>4 DEF NoneAfter
<1>6. /\ RelayOK(q, t) /\ q.sent = p.sent /\ q.gone = p.gone /\ q.taken = p.taken
      /\ q.deferred = <<>> /\ NoneAfter(q, n)
  BY <1>2, <1>3, <1>5, DrainedKeeps
<1>7. \A l \in Lane : p.gone[l] = Len(p.sent[l])
  BY <1>2, <1>3, NothingHeld
<1>8. m \in MarkType /\ m.nth = r.taken /\ \A l \in Lane : m.need[l] = Len(r.sent[l]) /\ Len(r.sent[l]) \in Nat
  BY MarkFacts DEF RelayOK
<1> HIDE DEF q, m
<1>9. \A l \in Lane : q.gone[l] >= m.need[l]
  BY <1>4, <1>6, <1>7, <1>8
<1>10. RelayOK(Emitted(q, m), t)
  BY <1>4, <1>6, <1>8, <1>9, EmittedKeeps
<1>11. QED BY <1>10 DEF p, q, m

\* emit_or_defer keeps the relay one: what passes at once has nothing in front of it.
LEMMA EmitOrDeferKeeps ==
  ASSUME NEW t, NEW r, RelayOK(r, t), NEW n \in Nat, r.taken = n + 1, NoneAfter(r, n)
  PROVE  RelayOK(EmitOrDefer(r, Mark(r)), t)
<1> DEFINE m == Mark(r)
<1>1. m \in MarkType /\ m.nth = r.taken /\ \A l \in Lane : m.need[l] = Len(r.sent[l]) /\ Len(r.sent[l]) \in Nat
  BY MarkFacts DEF RelayOK
<1> HIDE DEF m
<1>2. CASE Holding(r) \/ r.deferred # <<>>
  <2>1. \A l \in Lane : m.need[l] <= Len(r.sent[l])
    BY <1>1
  <2>2. RelayOK([r EXCEPT !.deferred = Append(@, m)], t)
    BY <1>1, <2>1, DeferredKeeps
  <2>3. QED BY <1>2, <2>2 DEF EmitOrDefer, m
<1>3. CASE ~(Holding(r) \/ r.deferred # <<>>)
  <2>1. \A l \in Lane : r.gone[l] >= m.need[l]
    <3>1. \A l \in Lane : r.gone[l] = Len(r.sent[l])
      BY <1>3, NothingHeld
    <3>2. QED BY <1>1, <3>1
  <2>2. RelayOK(Emitted(r, m), t)
    BY <1>1, <1>3, <2>1, EmittedKeeps
  <2>3. QED BY <1>3, <2>2 DEF EmitOrDefer, m
<1>4. QED BY <1>2, <1>3

\* take, for each kind of frame.
LEMMA TakenKeeps ==
  ASSUME policy \in Policies, NEW t \in Nat, NEW r0, RelayOK(r0, t), NEW f \in policy.sends
  PROVE  RelayOK(Taken(r0, f, t), t)
<1> DEFINE e == r0.over \/ f.kind = "end"
           r == [r0 EXCEPT !.taken = @ + 1, !.over = e]
           n == r0.taken
<1>1. Taken(r0, f, t) =
        CASE f.kind = "end"  -> Emitted(Drained(Flushed(r, Lane, "end", t)), Mark(r))
          [] f.kind = "mark" -> EmitOrDefer(r, Mark(r))
          [] f.kind = "text" -> TakenText(r, f, t)
  BY DEF Taken
<1> HIDE DEF e
<1>2. RelayOK(r, t) /\ NoneAfter(r, n) /\ n \in Nat /\ r.taken = n + 1
  <2>1. r = [r0 EXCEPT !.taken = @ + 1, !.over = e]
    OBVIOUS
  <2> HIDE DEF r
  <2>2. QED BY ONLY <2>1, RelayOK(r0, t), CountedKeeps
<1> HIDE DEF r, n
<1>3. \/ f.kind = "mark"
      \/ f.kind = "end"
      \/ f.kind = "text" /\ f.slots \in Seq(SlotType)
  BY RelayAssumption DEF SlotType
<1>4. CASE f.kind = "end"
  <2>1. Taken(r0, f, t) = Emitted(Drained(Flushed(r, Lane, "end", t)), Mark(r))
    BY <1>1, <1>4
  <2>2. QED BY <1>2, <2>1, EndedKeeps
<1>5. CASE f.kind = "mark"
  <2>1. Taken(r0, f, t) = EmitOrDefer(r, Mark(r))
    BY <1>1, <1>5
  <2>2. QED BY <1>2, <2>1, EmitOrDeferKeeps
<1>6. CASE f.kind = "text" /\ f.slots \in Seq(SlotType)
  <2>1. Taken(r0, f, t) = TakenText(r, f, t)
    BY <1>1, <1>6
  <2>2. QED BY <1>2, <1>6, <2>1, TakenTextKeeps
<1>7. QED BY <1>3, <1>4, <1>5, <1>6

\* Frame by frame.
LEMMA AllTakenKeeps ==
  ASSUME policy \in Policies, NEW t \in Nat, NEW r, RelayOK(r, t),
         NEW frames \in Seq(policy.sends)
  PROVE  RelayOK(AllTaken(r, frames, t), t)
<1> DEFINE len == Len(frames)
           Turn(x, n) == Taken(x, frames[n], t)
           Step(f, n) == IF n = 0 THEN r ELSE Turn(f[n - 1], n)
           IsRun(f, k) == f = [n \in 0 .. k |-> Step(f, n)]
           Ran == {k \in Nat : \E f : IsRun(f, k)}
<1>1. AllTaken(r, frames, t) = (CHOOSE g : IsRun(g, len))[len]
  BY DEF AllTaken, Folded
<1>2. len \in Nat /\ \A n \in 1 .. len : frames[n] \in policy.sends
  OBVIOUS
<1>3. ASSUME NEW x, NEW n \in 1 .. len, RelayOK(x, t)
      PROVE  RelayOK(Turn(x, n), t)
  BY <1>2, <1>3, TakenKeeps
<1> HIDE DEF len, Turn
<1>4. Ran = Nat
  <2>1. 0 \in Ran
    <3>1. IsRun([n \in 0 .. 0 |-> r], 0)
      OBVIOUS
    <3> HIDE DEF IsRun
    <3>2. QED BY <3>1
  <2>2. ASSUME NEW k \in Ran PROVE k + 1 \in Ran
    <3>1. PICK h : IsRun(h, k)
      OBVIOUS
    <3> DEFINE g == [n \in 0 .. k + 1 |-> IF n <= k THEN h[n] ELSE Turn(h[k], k + 1)]
    <3>2. k \in Nat
      OBVIOUS
    <3>3. ASSUME NEW n \in 0 .. k + 1 PROVE g[n] = Step(g, n)
      <4>1. CASE n = 0
        BY <3>1, <3>2, <4>1
      <4>2. CASE n # 0 /\ n <= k
        <5>1. n - 1 \in 0 .. k /\ n \in 0 .. k /\ n - 1 \in 0 .. k + 1
          BY <3>2, <4>2
        <5>2. g[n] = h[n] /\ g[n - 1] = h[n - 1]
          BY <4>2, <5>1
        <5>3. h[n] = Turn(h[n - 1], n)
          BY <3>1, <4>2, <5>1
        <5>4. QED BY <4>2, <5>2, <5>3
      <4>3. CASE n = k + 1
        <5>1. k \in 0 .. k + 1 /\ k <= k /\ ~(k + 1 <= k) /\ n # 0 /\ n - 1 = k
          BY <3>2, <4>3
        <5>2. g[n] = Turn(h[k], n) /\ g[n - 1] = h[k]
          BY <4>3, <5>1
        <5>3. QED BY <5>1, <5>2
      <4>4. QED BY <3>2, <4>1, <4>2, <4>3
    <3>4. IsRun(g, k + 1)
      <4>1. g = [n \in 0 .. k + 1 |-> g[n]]
        OBVIOUS
      <4> HIDE DEF g, Step
      <4>2. [n \in 0 .. k + 1 |-> g[n]] = [n \in 0 .. k + 1 |-> Step(g, n)]
        BY <3>3
      <4>3. QED BY <4>1, <4>2
    <3> HIDE DEF IsRun
    <3>5. QED BY <3>2, <3>4
  <2> HIDE DEF Ran
  <2>3. Ran \in SUBSET Nat
    BY DEF Ran
  <2>4. QED BY <2>1, <2>2, <2>3, Induct
<1> DEFINE h == CHOOSE g : IsRun(g, len)
<1>5. IsRun(h, len)
  <2> HIDE DEF IsRun
  <2>1. \E g : IsRun(g, len)
    BY <1>2, <1>4
  <2>2. QED BY <2>1
<1> HIDE DEF h
<1> DEFINE Good == {n \in Nat : n <= len => RelayOK(h[n], t)}
<1>6. Good = Nat
  <2>1. 0 \in Good
    <3>1. h[0] = r
      BY <1>2, <1>5
    <3>2. QED BY <3>1
  <2>2. ASSUME NEW n \in Good PROVE n + 1 \in Good
    <3>1. ASSUME n + 1 <= len PROVE RelayOK(h[n + 1], t)
      <4>1. n \in Nat /\ n <= len /\ n + 1 \in 0 .. len /\ n + 1 # 0 /\ (n + 1) - 1 = n
        BY <1>2, <3>1
      <4>2. h[n + 1] = Turn(h[n], n + 1)
        BY <1>5, <4>1
      <4>3. RelayOK(h[n], t) /\ n + 1 \in 1 .. len
        BY <4>1, <3>1
      <4> HIDE DEF IsRun
      <4>4. QED BY <1>3, <4>2, <4>3
    <3>2. QED BY <3>1
  <2> HIDE DEF Good
  <2>3. Good \in SUBSET Nat
    BY DEF Good
  <2>4. QED BY <2>1, <2>2, <2>3, Induct
<1>7. RelayOK(h[len], t)
  <2>1. len \in Good
    BY <1>2, <1>6
  <2>2. QED BY <1>2, <2>1
<1>8. QED BY <1>1, <1>7 DEF h

---------------------------------------------------------------------------
(***************************************************************************)
(* The stream                                                              *)
(***************************************************************************)

\* The frames of a chunk are a sequence of frames.
LEMMA FramesAreMany ==
  ASSUME NEW X, NEW m \in Nat, NEW frames \in SeqOf(X, m)
  PROVE  frames \in Seq(X)
<1>1. PICK n \in 0 .. m : frames \in [1 .. n -> X]
  BY DEF SeqOf
<1>2. n \in Nat
  BY <1>1
<1>3. QED BY <1>1, <1>2

\* check_timeouts keeps the relay one; where fragments may be let out, what is held
\* after it has not waited the budget.
LEMMA TimedOutKeeps ==
  ASSUME policy \in Policies, NEW t \in Nat, NEW r, RelayOK(r, t)
  PROVE  LET q == TimedOut(r, t)
         IN  /\ RelayOK(q, t)
             /\ ~policy.waits =>
                  \A l \in Lane : q.lanes[l].held # <<>> => ~Expired(q.lanes[l], t)
<1> DEFINE due == {l \in Lane : Expired(r.lanes[l], t)}
           q == Flushed(r, due, "timeout", t)
<1>1. TimedOut(r, t) = q
  BY DEF TimedOut
<1>2. /\ RelayOK(q, t) /\ FlushedFrom(r, q, due, "timeout")
      /\ LetsGo("timeout") => \A l \in Lane : l \in due => q.lanes[l].held = <<>>
  <2> HIDE DEF due
  <2>1. QED BY FlushedKeeps
<1> HIDE DEF q
<1>3. ASSUME ~policy.waits, NEW l \in Lane, q.lanes[l].held # <<>>
      PROVE  ~Expired(q.lanes[l], t)
  <2>1. l \notin due
    BY <1>2, <1>3 DEF LetsGo
  <2>2. q.lanes[l] = r.lanes[l]
    BY <1>2, <2>1 DEF FlushedFrom
  <2>3. QED BY <2>1, <2>2
<1>4. QED BY <1>1, <1>2, <1>3

\* In a lane whose clock has not run out, the oldest letter has not waited the budget.
LEMMA NotExpired ==
  ASSUME policy \in Policies, NEW t \in Nat, NEW x, LaneType(x, t), Timed(x),
         x.held # <<>>, ~Expired(x, t)
  PROVE  t - x.ages[1] < policy.budget
<1>1. x.since # None /\ x.since \in Nat /\ \A k \in 1 .. Len(x.ages) : x.since <= x.ages[k]
  BY DEF LaneType, Timed
<1>2. 1 \in 1 .. Len(x.ages) /\ x.ages[1] \in Nat
  <2>1. x.held \in Seq(Letter) /\ x.ages \in Seq(Nat) /\ Len(x.ages) = Len(x.held)
    BY DEF LaneType
  <2>2. Len(x.held) \in Nat /\ Len(x.held) # 0
    BY <2>1
  <2>3. 1 \in 1 .. Len(x.ages)
    BY <2>1, <2>2
  <2>4. QED BY <2>1, <2>3
<1>3. ~(t - x.since >= policy.budget) /\ policy.budget \in Nat
  BY <1>1, PolicyParts DEF Expired
<1>4. x.since <= x.ages[1]
  BY <1>1, <1>2
<1>5. QED BY <1>1, <1>2, <1>3, <1>4

\* push keeps the relay one, and after it no letter has waited the budget.
LEMMA PushedKeeps ==
  ASSUME policy \in Policies, NEW t \in Nat, NEW r, RelayOK(r, t),
         NEW frames \in Seq(policy.sends)
  PROVE  LET q == Pushed(r, frames, t)
         IN  /\ RelayOK(q, t)
             /\ ~policy.waits => \A l \in Lane :
                  q.lanes[l].held # <<>> => t - q.lanes[l].ages[1] < policy.budget
<1> DEFINE p == AllTaken(r, frames, t)
           s == TimedOut(p, t)
           q == Drained(s)
<1>1. RelayOK(p, t)
  BY AllTakenKeeps
<1> HIDE DEF p
<1>2. /\ RelayOK(s, t)
      /\ ~policy.waits => \A l \in Lane : s.lanes[l].held # <<>> => ~Expired(s.lanes[l], t)
  BY <1>1, TimedOutKeeps
<1> HIDE DEF s
<1>3. RelayOK(q, t) /\ q.lanes = s.lanes
  BY <1>2, DrainedKeeps
<1> HIDE DEF q
<1>4. ASSUME ~policy.waits, NEW l \in Lane, q.lanes[l].held # <<>>
      PROVE  t - q.lanes[l].ages[1] < policy.budget
  <2> DEFINE x == q.lanes[l]
  <2>1. LaneType(x, t) /\ Timed(x)
    BY <1>3 DEF RelayOK
  <2>2. ~Expired(x, t)
    BY <1>2, <1>3, <1>4
  <2>3. x.held # <<>>
    BY <1>4
  <2> HIDE DEF x
  <2>4. t - x.ages[1] < policy.budget
    BY <2>1, <2>2, <2>3, NotExpired
  <2>5. QED BY <2>4 DEF x
<1>5. Pushed(r, frames, t) = q
  BY DEF Pushed, p, s, q
<1>6. QED BY <1>3, <1>4, <1>5

\* That the reader was cut mid-frame is noted and changes nothing else.
LEMMA CutKeeps ==
  ASSUME NEW t, NEW r, RelayOK(r, t), NEW e
  PROVE  RelayOK([r EXCEPT !.cut = e], t)
<1> DEFINE q == [r EXCEPT !.cut = e]
<1>1. RelayType(r)
  BY DEF RelayOK
<1>2. /\ q = [part \in RelayParts |-> q[part]]
      /\ q.taken = r.taken /\ q.passed = r.passed /\ q.deferred = r.deferred
      /\ q.lanes = r.lanes /\ q.partial = r.partial /\ q.sent = r.sent /\ q.gone = r.gone
  BY <1>1 DEF RelayType, RelayParts
<1> HIDE DEF q
<1>3. RelayType(q)
  BY <1>1, <1>2 DEF RelayType
<1>4. InTurn(q) /\ Balanced(q) /\ Whole(q) /\ NoneAfter(q, q.taken)
      /\ \A k \in Lane : LaneType(q.lanes[k], t) /\ Timed(q.lanes[k])
  BY <1>2 DEF RelayOK, InTurn, Balanced, Whole, NoneAfter
<1>5. RelayOK(q, t)
  BY <1>3, <1>4 DEF RelayOK
<1>6. QED BY <1>5 DEF q

\* Time passes: a lane that holds nothing has no letter to be late.
LEMMA LaterKeeps ==
  ASSUME NEW t \in Nat, NEW r, RelayOK(r, t)
  PROVE  RelayOK(r, t + 1)
<1>1. ASSUME NEW l \in Lane PROVE LaneType(r.lanes[l], t + 1)
  <2> DEFINE x == r.lanes[l]
  <2>1. LaneType(x, t) /\ Timed(x)
    BY DEF RelayOK
  <2> HIDE DEF x
  <2>2. x.since = None => Len(x.ages) = 0
    <3>1. Len(x.ages) = Len(x.held)
      BY <2>1 DEF LaneType
    <3>2. QED BY <2>1, <3>1 DEF Timed
  <2>3. x.since # None => x.since \in Nat /\ x.since <= t + 1
    BY <2>1 DEF LaneType
  <2>4. LaneType(x, t + 1)
    <3>1. /\ x = [part \in LaneParts |-> x[part]]
          /\ x.held \in Seq(Letter) /\ x.ages \in Seq(Nat) /\ Len(x.ages) = Len(x.held)
          /\ x.since # None => \A k \in 1 .. Len(x.ages) : x.since <= x.ages[k]
      BY <2>1 DEF LaneType
    <3>2. x.since = None => \A k \in 1 .. Len(x.ages) : t + 1 <= x.ages[k]
      BY <2>2
    <3>3. QED BY <2>3, <3>1, <3>2 DEF LaneType
  <2>5. QED BY <2>4 DEF x
<1>2. QED BY <1>1 DEF RelayOK

\* A stream begins with a relay that has done nothing.
LEMMA InvInit == Init => IInv
<1> SUFFICES ASSUME Init PROVE IInv
  OBVIOUS
<1> DEFINE r == NewRelay
<1>1. policy \in Policies /\ now = 0 /\ relay = r
  BY DEF Init
<1>2. /\ r.lanes = [l \in Lane |-> NoLane] /\ r.deferred = <<>> /\ r.partial = 0 /\ r.taken = 0
      /\ r.sent = [l \in Lane |-> <<>>] /\ r.gone = [l \in Lane |-> 0] /\ r.passed = <<>>
      /\ r = [part \in RelayParts |-> r[part]]
  BY DEF NewRelay, RelayParts
<1> HIDE DEF r
<1>3. RelayType(r)
  BY <1>2 DEF RelayType
<1>4. LaneType(NoLane, 0) /\ Timed(NoLane)
  <2>1. NoLane = [part \in LaneParts |-> NoLane[part]]
    BY DEF NoLane, LaneParts
  <2>2. NoLane.held = <<>> /\ NoLane.ages = <<>> /\ NoLane.since = None
    BY DEF NoLane
  <2>3. /\ <<>> \in Seq(Letter) /\ <<>> \in Seq(Nat)
        /\ \A k \in 1 .. Len(<<>>) : FALSE
    OBVIOUS
  <2> HIDE DEF NoLane
  <2>4. Timed(NoLane)
    BY <2>2 DEF Timed
  <2>5. Len(NoLane.ages) = Len(NoLane.held) /\ \A k \in 1 .. Len(NoLane.ages) : FALSE
    BY <2>2, <2>3
  <2>6. QED BY <2>1, <2>2, <2>3, <2>4, <2>5 DEF LaneType
<1>5. Balanced(r) /\ InTurn(r) /\ NoneAfter(r, r.taken) /\ Whole(r)
  BY <1>2 DEF Balanced, InTurn, NoneAfter, Whole, NoLane
<1>6. \A k \in Lane : LaneType(r.lanes[k], 0) /\ Timed(r.lanes[k])
  BY <1>2, <1>4
<1>7. RelayOK(r, 0)
  BY <1>3, <1>5, <1>6 DEF RelayOK
<1>8. QED BY <1>1, <1>7 DEF IInv

\* Every step keeps it.
LEMMA InvNext == IInv /\ [Next]_vars => IInv'
<1> SUFFICES ASSUME IInv, [Next]_vars PROVE IInv'
  OBVIOUS
<1>1. policy \in Policies /\ now \in Nat /\ RelayOK(relay, now)
  BY DEF IInv
<1>2. ASSUME policy' = policy, now' \in Nat, RelayOK(relay', now') PROVE IInv'
  BY <1>1, <1>2 DEF IInv, RelayOK, Whole
<1>3. CASE Tick
  <2>1. policy' = policy /\ now' = now + 1 /\ relay' = relay
    BY <1>3 DEF Tick
  <2>2. RelayOK(relay, now + 1)
    BY <1>1, LaterKeeps
  <2>3. QED BY <1>1, <1>2, <2>1, <2>2
<1>4. ASSUME NEW frames \in SeqOf(policy.sends, policy.chunk), Push(frames) PROVE IInv'
  <2>1. policy' = policy /\ now' = now /\ relay' = Pushed(relay, frames, now)
    BY <1>4 DEF Push
  <2>2. frames \in Seq(policy.sends)
    BY <1>1, FramesAreMany, RelayAssumption
  <2>3. RelayOK(Pushed(relay, frames, now), now)
    BY <1>1, <2>2, PushedKeeps
  <2>4. QED BY <1>1, <1>2, <2>1, <2>3
<1>5. ASSUME NEW tail \in SeqOf(policy.sends, 1), Finish(tail) PROVE IInv'
  <2> DEFINE e == relay.cut \/ tail # <<>>
             begun == [relay EXCEPT !.cut = e]
             read == AllTaken(begun, tail, now)
             flushed == Flushed(read, Lane, "end", now)
  <2>1. policy' = policy /\ now' = now /\ relay' = Drained(flushed)
    BY <1>5 DEF Finish
  <2>2. tail \in Seq(policy.sends)
    BY FramesAreMany
  <2> HIDE DEF e
  <2>3. RelayOK(begun, now)
    BY <1>1, CutKeeps
  <2> HIDE DEF begun
  <2>4. RelayOK(read, now)
    BY <1>1, <2>2, <2>3, AllTakenKeeps
  <2> HIDE DEF read
  <2>5. RelayOK(flushed, now)
    BY <1>1, <2>4, FlushedKeeps
  <2> HIDE DEF flushed
  <2>6. RelayOK(Drained(flushed), now)
    BY <2>5, DrainedKeeps
  <2>7. QED BY <1>1, <1>2, <2>1, <2>6
<1>6. ASSUME NEW midFrame \in BOOLEAN, Fail(midFrame) PROVE IInv'
  <2> DEFINE flushed == Flushed(relay, Lane, "error", now)
             drained == Drained(flushed)
             e == drained.cut \/ midFrame
  <2>1. policy' = policy /\ now' = now /\ relay' = [drained EXCEPT !.cut = e]
    BY <1>6 DEF Fail
  <2> HIDE DEF e
  <2>2. RelayOK(flushed, now)
    BY <1>1, FlushedKeeps
  <2> HIDE DEF flushed
  <2>3. RelayOK(drained, now)
    BY <2>2, DrainedKeeps
  <2> HIDE DEF drained
  <2>4. RelayOK([drained EXCEPT !.cut = e], now)
    BY <2>3, CutKeeps
  <2>5. QED BY <1>1, <1>2, <2>1, <2>4
<1>7. CASE UNCHANGED vars
  BY <1>1, <1>2, <1>7 DEF vars
<1>8. QED BY <1>3, <1>4, <1>5, <1>6, <1>7 DEF Next

\* The Relay keeps itself in order: each lane's text is partly gone and partly held and
\* never lost or doubled, its clock runs while it holds a letter, what waits is behind
\* what passed, and in wait mode no fragment is let out.
THEOREM RelayIsWellFormed == Spec => []IInv
<1>1. Init => IInv
  BY InvInit
<1>2. IInv /\ [Next]_vars => IInv'
  BY InvNext
<1>3. QED BY <1>1, <1>2, PTL DEF Spec

\* mod.rs: a frame the proxy does not rewrite leaves when the text before it has left,
\* and in the order it came.
THEOREM FramesInTurn == Spec => []FramesWaitTheirTurn
<1>1. IInv => FramesWaitTheirTurn
  <2> SUFFICES ASSUME IInv PROVE FramesWaitTheirTurn
    OBVIOUS
  <2>1. InTurn(relay) /\ Len(relay.passed) \in Nat
    BY DEF IInv, RelayOK, RelayType
  <2>2. ASSUME NEW k \in 1 .. Len(relay.passed) - 1
        PROVE  relay.passed[k].mark.nth < relay.passed[k + 1].mark.nth
    <3>1. k \in 1 .. Len(relay.passed) /\ k + 1 \in 1 .. Len(relay.passed) /\ k < k + 1
      BY <2>1
    <3>2. QED BY <2>1, <3>1 DEF InTurn
  <2>3. QED BY <2>1, <2>2 DEF InTurn, FramesWaitTheirTurn
<1>2. QED BY <1>1, RelayIsWellFormed, PTL

\* hold_timeout.rs: with flushing on, no letter is still held by a chunk that comes when
\* the letter has waited the budget; with waiting on, no fragment leaves.
THEOREM LettersLeaveInTime == Spec => NoLetterOutstaysTheBudget
<1> DEFINE InTime ==
      /\ policy.waits => relay'.partial = 0
      /\ ~policy.waits => \A l \in Lane :
           relay.lanes[l].held # <<>> /\ relay'.lanes[l].held # <<>>
           => now - relay'.lanes[l].ages[1] < policy.budget
      Pushes == \E frames \in SeqOf(policy.sends, policy.chunk) : Push(frames)
<1>1. IInv /\ [Next]_vars => [Pushes => InTime]_vars
  <2> SUFFICES ASSUME IInv, NEW frames \in SeqOf(policy.sends, policy.chunk), Push(frames)
               PROVE  InTime
    OBVIOUS
  <2> DEFINE q == Pushed(relay, frames, now)
  <2>1. policy \in Policies /\ now \in Nat /\ RelayOK(relay, now) /\ relay' = q
    BY DEF IInv, Push
  <2>2. frames \in Seq(policy.sends)
    BY <2>1, FramesAreMany, RelayAssumption
  <2>3. /\ RelayOK(q, now)
        /\ ~policy.waits => \A l \in Lane :
             q.lanes[l].held # <<>> => now - q.lanes[l].ages[1] < policy.budget
    BY <2>1, <2>2, PushedKeeps
  <2> HIDE DEF q
  <2>4. policy.waits => q.partial = 0
    BY <2>3 DEF RelayOK, Whole
  <2>5. QED BY <2>1, <2>3, <2>4
<1>2. QED BY <1>1, RelayIsWellFormed, PTL DEF Spec, NoLetterOutstaysTheBudget

=============================================================================
