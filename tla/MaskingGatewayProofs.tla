------------------------ MODULE MaskingGatewayProofs ------------------------
(***************************************************************************)
(* Theorems about MaskingGateway, for any sets of conversations, requests, *)
(* values and aliases and any configuration of the proxy: what was sent is *)
(* filed, a value restored is the right one, an alias sent is restored,    *)
(* and a lost vault stays lost and lets nobody in.                         *)
(*                                                                         *)
(* The argument: a pass over a body only adds to the session's slot and to *)
(* its minter, and what it sends it has filed in the one and issued from   *)
(* the other (PassAdds, by induction over the values of the body).  So a   *)
(* request in flight finds what it sent in its slot until the slot may     *)
(* expire, whoever else files there meanwhile; and as long as no minter is *)
(* dropped, the slot has no binding its minter did not issue, and two of a *)
(* minter's bindings never share an alias.                                 *)
(*                                                                         *)
(* The gateway keeps the slots VaultSessions keeps, so the lemmas about    *)
(* their operators are those of VaultSessionsProofs; two specifications    *)
(* with a Spec each cannot be extended together.                           *)
(***************************************************************************)
EXTENDS MaskingGateway, FiniteSetTheorems, WellFoundedInduction, TLAPS

---------------------------------------------------------------------------
(***************************************************************************)
(* The operators of a slot                                                 *)
(***************************************************************************)

\* One slot: typed, empty unless it is live, its two maps inverse, no larger than
\* the ceiling.
SlotOK(x) ==
  /\ x \in SessionType
  /\ x.live \/ x = Gone
  /\ \A sd \in Seed : \A a \in Alias : x.aliases[sd] = a <=> x.reverse[a] = sd
  /\ AliasCount(x) <= Ceiling

\* An empty slot, and one that has just been started, are slots.
LEMMA EmptySlot == SlotOK(Gone) /\ \A t \in Nat : SlotOK(Fresh(t))
<1>1. Gone \in SessionType /\ \A t \in Nat : Fresh(t) \in SessionType
  BY SlotAssumption DEF Gone, Fresh, SessionType
<1>2. \A sd \in Seed : \A a \in Alias :
        Gone.aliases[sd] = a <=> Gone.reverse[a] = sd
  BY SlotAssumption DEF Gone
<1>3. AliasCount(Gone) <= Ceiling
  <2>1. {sd \in Seed : Gone.aliases[sd] # None} = {}
    BY DEF Gone
  <2>2. QED BY <2>1, FS_EmptySet, SlotAssumption DEF AliasCount
<1>4. \A t \in Nat : Fresh(t).aliases = Gone.aliases
                     /\ Fresh(t).reverse = Gone.reverse
  BY DEF Fresh, Gone
<1>5. \A t \in Nat : Fresh(t).live
  BY DEF Fresh, Gone
<1>6. QED BY <1>1, <1>2, <1>3, <1>4, <1>5 DEF SlotOK, AliasCount

\* Moving a deadline touches neither map.
LEMMA TouchedSlot ==
  ASSUME NEW x, SlotOK(x), x.live, NEW t \in Nat
  PROVE  SlotOK([x EXCEPT !.last = Later(x.last, t)])
<1>1. Later(x.last, t) \in Nat
  BY DEF SlotOK, SessionType, Later
<1>2. [x EXCEPT !.last = Later(x.last, t)] \in SessionType
  BY <1>1 DEF SlotOK, SessionType
<1>3. /\ [x EXCEPT !.last = Later(x.last, t)].aliases = x.aliases
      /\ [x EXCEPT !.last = Later(x.last, t)].reverse = x.reverse
      /\ [x EXCEPT !.last = Later(x.last, t)].live
  BY DEF SlotOK, SessionType
<1>4. QED BY <1>2, <1>3 DEF SlotOK, AliasCount

\* refresh and ensure leave a slot a slot, and ensure leaves it live.
LEMMA RefreshedSlot ==
  ASSUME NEW x, SlotOK(x), NEW t \in Nat
  PROVE  SlotOK(Refreshed(x, t))
BY EmptySlot, TouchedSlot DEF Refreshed

LEMMA EnsuredSlot ==
  ASSUME NEW x, SlotOK(x), NEW t \in Nat
  PROVE  SlotOK(Ensured(x, t)) /\ Ensured(x, t).live
<1>1. Fresh(t).live
  BY DEF Fresh, Gone
<1>2. x.live /\ ~Expired(x, t) => Refreshed(x, t).live
  BY DEF Refreshed, SlotOK, SessionType
<1>3. QED BY <1>1, <1>2, EmptySlot, RefreshedSlot DEF Ensured

\* A record that neither collides nor is one too many keeps the maps inverse.
LEMMA InsertedSlot ==
  ASSUME NEW x, SlotOK(x), x.live, NEW sd \in Seed, NEW a \in Alias,
         x.aliases[sd] = None, ~Collides(x, sd, a), ~Full(x)
  PROVE  SlotOK(Inserted(x, sd, a))
<1> DEFINE y == Inserted(x, sd, a)
<1>1. y \in SessionType
  BY DEF SlotOK, SessionType, Inserted
<1>2. /\ y.aliases = [x.aliases EXCEPT ![sd] = a]
      /\ y.reverse = [x.reverse EXCEPT ![a] = sd]
      /\ y.live
  BY DEF SlotOK, SessionType, Inserted
<1>3. x.reverse[a] = None
  BY SlotAssumption DEF SlotOK, SessionType, Collides
<1>4. \A sd2 \in Seed : \A a2 \in Alias :
        y.aliases[sd2] = a2 <=> y.reverse[a2] = sd2
  BY <1>2, <1>3, SlotAssumption DEF SlotOK, SessionType
<1>5. AliasCount(y) <= Ceiling
  <2> DEFINE S == {sd2 \in Seed : x.aliases[sd2] # None}
  <2>1. IsFiniteSet(S) /\ Cardinality(S) \in Nat
    BY FS_Subset, FS_CardinalityType, SlotAssumption
  <2>2. {sd2 \in Seed : y.aliases[sd2] # None} = S \cup {sd}
    BY <1>2, SlotAssumption DEF SlotOK, SessionType
  <2>3. sd \notin S
    OBVIOUS
  <2>4. Cardinality(S \cup {sd}) = Cardinality(S) + 1
    BY <2>1, <2>3, FS_AddElement
  <2>5. Cardinality(S) < Ceiling
    BY <2>1, SlotAssumption DEF Full, AliasCount
  <2>6. AliasCount(y) = Cardinality(S \cup {sd})
    BY <2>2 DEF AliasCount
  <2> HIDE DEF S, y
  <2>7. QED BY <2>1, <2>4, <2>5, <2>6, SlotAssumption
<1>6. QED BY <1>1, <1>2, <1>4, <1>5 DEF SlotOK

---------------------------------------------------------------------------
(***************************************************************************)
(* The inductive invariant                                                 *)
(***************************************************************************)

MinterType == [kept : BOOLEAN, issued : [Seed -> Alias \cup {None}],
               withheld : SUBSET Alias, label : Nat, snapshot : SUBSET Binding,
               used : Nat]

\* A request has a session from the moment it is masked.
FlightType ==
  {f \in [stage : Stages, session : Session \cup {None}, sent : SUBSET Binding,
          snapshot : SUBSET Binding, since : Nat] :
     f.session = None <=> f.stage \in {"idle", "inside"}}

TypeOK ==
  /\ setup \in Setups
  /\ now \in Nat
  /\ store \in [Session -> SessionType]
  /\ access \in BOOLEAN
  /\ minters \in [Session -> MinterType]
  /\ flight \in [Request -> FlightType]

StoreOK == \A s \in Session : SlotOK(store[s])

\* One minter: no alias for two values, and a frozen set it has issued.
MinterOK(m) ==
  /\ m \in MinterType
  /\ \A sd, se \in Seed : m.issued[sd] = m.issued[se] /\ m.issued[sd] # None => sd = se
  /\ m.snapshot \subseteq Issued(m)

MintersOK == \A s \in Session : MinterOK(minters[s])

\* Only conversations that exist keep a minter, and none was used after now.
MintersAreDated ==
  /\ Kept(minters) \subseteq setup.sessions
  /\ ~setup.stepsBack => \A s \in Session : minters[s].used <= now

\* The minter m issued every binding of the slot x.
IssuedBy(x, m) ==
  \A sd \in Seed : x.aliases[sd] # None => m.kept /\ m.issued[sd] = x.aliases[sd]

\* As long as no minter can be dropped, the vault holds what the minters issued.
StoreIsMinted ==
  EveryMinterIsKept => \A s \in Session : IssuedBy(store[s], minters[s])

\* What a request sent is in its slot until the session may have expired.
StillFiled(r) ==
  InFlight(r) /\ ~MayHaveExpired(r) =>
    /\ flight[r].since <= now
    /\ store[flight[r].session].live
    /\ store[flight[r].session].last >= flight[r].since
    /\ \A b \in flight[r].sent : store[flight[r].session].aliases[b[1]] = b[2]

\* The frozen set has every alias sent, and its minter still stands by it.
StillIssued(r) ==
  /\ ~setup.stepsBack \/ EveryMinterIsKept => flight[r].sent \subseteq flight[r].snapshot
  /\ InFlight(r) /\ EveryMinterIsKept =>
       /\ minters[flight[r].session].kept
       /\ flight[r].snapshot \subseteq Issued(minters[flight[r].session])

FlightsOK == \A r \in Request : StillFiled(r) /\ StillIssued(r)

IInv ==
  /\ TypeOK /\ StoreOK /\ MintersOK
  /\ MintersAreDated /\ StoreIsMinted /\ FlightsOK
---------------------------------------------------------------------------
(***************************************************************************)
(* Induction over the natural numbers, for sets of them                    *)
(***************************************************************************)

\* A set of natural numbers that is not empty has a least one.
LEMMA LeastOf ==
  ASSUME NEW T \in SUBSET Nat, T # {}
  PROVE  \E m \in T : \A k \in T : m <= k
<1> DEFINE R == {ss \in Nat \X Nat : ss[1] < ss[2]}
<1>1. IsWellFoundedOn(R, Nat)
  BY NatLessThanWellFounded DEF OpToRel
<1> HIDE DEF R
<1>2. PICK m \in T : \A k \in T : ~(<<k, m>> \in R)
  BY <1>1, WFMin
<1>3. ASSUME NEW k \in T PROVE m <= k
  <2>1. ~(k < m)
    BY <1>2 DEF R
  <2>2. QED BY <2>1
<1>4. QED BY <1>2, <1>3

\* A set that has 0, and with every number the next, has them all.
LEMMA Induct ==
  ASSUME NEW T \in SUBSET Nat, 0 \in T, \A n \in T : n + 1 \in T
  PROVE  T = Nat
<1>1. SUFFICES ASSUME Nat \ T # {} PROVE FALSE
  OBVIOUS
<1>2. PICK m \in Nat \ T : \A k \in Nat \ T : m <= k
  BY <1>1, LeastOf
<1>3. m # 0 /\ m - 1 \in Nat
  OBVIOUS
<1>4. m - 1 \in T
  BY <1>2, <1>3
<1>5. QED BY <1>4

---------------------------------------------------------------------------
(***************************************************************************)
(* The minter                                                              *)
(***************************************************************************)

\* A minter that has issued nothing is one.
LEMMA EmptyMinter ==
  /\ MinterOK(NewMinter) /\ MinterOK(NoMinter)
  /\ NewMinter.kept /\ ~NoMinter.kept /\ NoMinter.used = 0
  /\ NewMinter.issued = [sd \in Seed |-> None] /\ NewMinter.snapshot = {}
<1>1. NewMinter \in MinterType /\ NoMinter \in MinterType
  BY DEF NewMinter, NoMinter, MinterType
<1>2. /\ NewMinter.issued = [sd \in Seed |-> None] /\ NewMinter.snapshot = {}
      /\ NoMinter.issued = [sd \in Seed |-> None] /\ NoMinter.snapshot = {}
      /\ NewMinter.kept /\ ~NoMinter.kept /\ NoMinter.used = 0
  BY DEF NewMinter, NoMinter
<1>3. QED BY <1>1, <1>2 DEF MinterOK

\* The label of the first free attempt, when there is one, is an alias that the
\* minter has not issued.
LEMMA FreeLabelIsFree ==
  ASSUME NEW m, MinterOK(m), setup \in Setups
  PROVE  FreeLabel(m) = None \/ (FreeLabel(m) \in Alias /\ FreeLabel(m) \notin Taken(m))
<1> DEFINE free == {k \in Alias \cap (m.label .. m.label + setup.attempts - 1) :
                      k \notin Taken(m) \cup m.withheld}
<1>1. CASE free = {}
  BY <1>1 DEF FreeLabel
<1>2. CASE free # {}
  <2>1. free \in SUBSET Nat
    BY GatewayAssumption
  <2>2. \E k \in free : \A j \in free : k <= j
    <3> HIDE DEF free
    <3>1. QED BY <1>2, <2>1, LeastOf
  <2>3. FreeLabel(m) \in free
    BY <1>2, <2>2 DEF FreeLabel
  <2>4. QED BY <2>3
<1>3. QED BY <1>1, <1>2

\* mint keeps what the minter issued, and gives no alias to a second value.
LEMMA MintedKeeps ==
  ASSUME NEW m, MinterOK(m), setup \in Setups, NEW sd \in Seed
  PROVE  /\ MinterOK(Minted(m, sd))
         /\ Minted(m, sd).kept = m.kept /\ Minted(m, sd).used = m.used
         /\ Minted(m, sd).snapshot = m.snapshot
         /\ \A se \in Seed : m.issued[se] # None => Minted(m, sd).issued[se] = m.issued[se]
<1> DEFINE n == Minted(m, sd)  f == FreeLabel(m)
<1>1. CASE m.issued[sd] # None \/ f = None
  BY <1>1 DEF Minted
<1>2. CASE m.issued[sd] = None /\ f # None
  <2>1. f \in Alias /\ f \notin Taken(m) /\ f \in Nat
    BY <1>2, FreeLabelIsFree, GatewayAssumption
  <2>2. n = [m EXCEPT !.issued[sd] = f, !.label = f + 1]
    BY <1>2, Zenon DEF Minted
  <2> HIDE DEF f
  <2>3. /\ n \in MinterType /\ n.issued = [m.issued EXCEPT ![sd] = f]
        /\ n.kept = m.kept /\ n.used = m.used /\ n.snapshot = m.snapshot
    <3> DEFINE i == [m.issued EXCEPT ![sd] = f]
               p == [m EXCEPT !.issued = i]
    <3>1. m \in MinterType /\ i \in [Seed -> Alias \cup {None}]
      BY <2>1 DEF MinterOK, MinterType
    <3>2. n = [p EXCEPT !.label = f + 1]
      BY <2>2
    <3> HIDE DEF i, n
    <3>3. p \in MinterType /\ p.issued = i /\ p.kept = m.kept /\ p.used = m.used
          /\ p.snapshot = m.snapshot
      BY <3>1 DEF MinterType
    <3> HIDE DEF p
    <3>4. n \in MinterType /\ n.issued = i /\ n.kept = p.kept /\ n.used = p.used
          /\ n.snapshot = p.snapshot
      BY <2>1, <3>2, <3>3 DEF MinterType
    <3>5. QED BY <3>3, <3>4 DEF i
  <2> HIDE DEF n
  <2>4. \A se \in Seed : m.issued[se] # None => se # sd /\ n.issued[se] = m.issued[se]
    BY <1>2, <2>3 DEF MinterOK, MinterType
  <2>5. \A se \in Seed : m.issued[se] # f
    <3>1. \A b \in Issued(m) : b[2] # f
      BY <2>1 DEF Taken
    <3>2. \A se \in Seed : m.issued[se] = f => <<se, f>> \in Issued(m)
      BY <2>1 DEF Issued, Binding
    <3>3. QED BY <3>1, <3>2
  <2>6. \A sa, sb \in Seed : n.issued[sa] = n.issued[sb] /\ n.issued[sa] # None => sa = sb
    BY <2>3, <2>5 DEF MinterOK, MinterType
  <2>7. n.snapshot \subseteq Issued(n)
    <3>1. \A b \in Issued(m) : b \in Issued(n)
      BY <2>4, SlotAssumption DEF Issued, Binding
    <3>2. QED BY <2>3, <3>1 DEF MinterOK
  <2>8. QED BY <2>3, <2>4, <2>6, <2>7 DEF MinterOK, n
<1>3. QED BY <1>1, <1>2

\* Reserving literals and counting a use touch nothing that was issued.
LEMMA ReservedKeeps ==
  ASSUME NEW m, MinterOK(m), now \in Nat, NEW L \in SUBSET Alias
  PROVE  LET n == Reserved([m EXCEPT !.used = now], L)
         IN  /\ MinterOK(n) /\ n.kept = m.kept /\ n.used = now
             /\ n.issued = m.issued /\ n.snapshot = m.snapshot
<1> DEFINE u == [m EXCEPT !.used = now]
           n == Reserved(u, L)
<1>1. u \in MinterType /\ u.issued = m.issued /\ u.snapshot = m.snapshot
      /\ u.kept = m.kept /\ u.used = now
  BY DEF MinterOK, MinterType
<1> HIDE DEF u
<1>2. n = [u EXCEPT !.withheld = @ \cup (L \ Taken(u))]
  BY DEF Reserved
<1> HIDE DEF n
<1>3. n \in MinterType /\ n.issued = u.issued /\ n.snapshot = u.snapshot
      /\ n.kept = u.kept /\ n.used = u.used
  BY <1>1, <1>2 DEF MinterType
<1>4. Issued(n) = Issued(m)
  BY <1>1, <1>3 DEF Issued
<1>5. MinterOK(n)
  BY <1>1, <1>3, <1>4 DEF MinterOK
<1>6. QED BY <1>1, <1>3, <1>5 DEF n, u

\* The frozen set of a minter is what it has issued once it is refreshed: the
\* issued set only grows, so an unchanged size is an unchanged set.
LEMMA RefrozenIsIssued ==
  ASSUME NEW m, MinterOK(m)
  PROVE  /\ MinterOK(Refrozen(m)) /\ Refrozen(m).snapshot = Issued(m)
         /\ Refrozen(m).issued = m.issued /\ Refrozen(m).kept = m.kept
         /\ Refrozen(m).used = m.used
<1> DEFINE n == [m EXCEPT !.snapshot = Issued(m)]
<1>1. n \in MinterType /\ n.snapshot = Issued(m) /\ n.issued = m.issued
      /\ n.kept = m.kept /\ n.used = m.used
  BY DEF MinterOK, MinterType, Issued, Binding
<1>2. MinterOK(n)
  <2> HIDE DEF n
  <2>1. Issued(n) = Issued(m)
    BY <1>1 DEF Issued
  <2>2. QED BY <1>1, <2>1 DEF MinterOK
<1>3. Cardinality(m.snapshot) = Cardinality(Issued(m)) => m.snapshot = Issued(m)
  <2> DEFINE g == [b \in Issued(m) |-> b[1]]
  <2>1. \A b, c \in Issued(m) : b[1] = c[1] => b = c
    BY DEF Issued, Binding
  <2>2. g \in Injection(Issued(m), Seed)
    BY <2>1 DEF Injection, IsInjective, Issued, Binding
  <2>3. IsFiniteSet(Issued(m))
    <3> HIDE DEF g
    <3>1. QED BY <2>2, FS_Injection, SlotAssumption
  <2>4. QED BY <2>3, FS_Subset DEF MinterOK
<1>4. CASE Cardinality(m.snapshot) = Cardinality(Issued(m))
  BY <1>3, <1>4 DEF Refrozen
<1>5. CASE Cardinality(m.snapshot) # Cardinality(Issued(m))
  <2>1. Refrozen(m) = n
    BY <1>5 DEF Refrozen
  <2>2. QED BY <1>1, <1>2, <2>1
<1>6. QED BY <1>4, <1>5
---------------------------------------------------------------------------
(***************************************************************************)
(* The slot                                                                *)
(***************************************************************************)

\* y is the slot x with its deadline moved, or emptied if it had expired at t.
AgedAs(y, x, t) ==
  /\ SlotOK(y)
  /\ \A sd \in Seed : y.aliases[sd] # None => y.aliases[sd] = x.aliases[sd]
  /\ x.live /\ ~Expired(x, t) =>
       y.live /\ y.last >= x.last /\ y.aliases = x.aliases /\ y.reverse = x.reverse

\* refresh and ensure only age a slot; ensure leaves it live until t and later.
LEMMA AgedSlot ==
  ASSUME NEW x, SlotOK(x), NEW t \in Nat
  PROVE  /\ AgedAs(Refreshed(x, t), x, t) /\ AgedAs(Ensured(x, t), x, t)
         /\ Ensured(x, t).live /\ Ensured(x, t).last >= t
<1> DEFINE y == [x EXCEPT !.last = Later(x.last, t)]
<1>1. SlotOK(Refreshed(x, t)) /\ SlotOK(Ensured(x, t)) /\ Ensured(x, t).live
  BY RefreshedSlot, EnsuredSlot
<1>2. /\ Later(x.last, t) \in Nat /\ Later(x.last, t) >= x.last /\ Later(x.last, t) >= t
      /\ x.last \in Nat
  BY DEF SlotOK, SessionType, Later
<1>3. y.last = Later(x.last, t) /\ y.aliases = x.aliases /\ y.reverse = x.reverse
      /\ y.live = x.live
  BY DEF SlotOK, SessionType
<1>4. /\ \A sd \in Seed : Gone.aliases[sd] = None /\ Fresh(t).aliases[sd] = None
      /\ Fresh(t).last = t
  BY DEF Gone, Fresh
<1>5. /\ \/ Refreshed(x, t) = Gone /\ Expired(x, t)
         \/ Refreshed(x, t) = y /\ x.live
         \/ Refreshed(x, t) = x /\ ~x.live
      /\ \/ Ensured(x, t) = Fresh(t) /\ (x.live => Expired(x, t))
         \/ Ensured(x, t) = y
  BY DEF Refreshed, Ensured
<1> HIDE DEF y
<1>6. AgedAs(Refreshed(x, t), x, t)
  BY <1>1, <1>2, <1>3, <1>4, <1>5 DEF AgedAs
<1>7. AgedAs(Ensured(x, t), x, t)
  BY <1>1, <1>2, <1>3, <1>4, <1>5 DEF AgedAs
<1>8. Ensured(x, t).last >= t
  BY <1>2, <1>3, <1>4, <1>5
<1>9. QED BY <1>1, <1>6, <1>7, <1>8

\* A record that is filed is added to what the slot holds.
LEMMA InsertedAdds ==
  ASSUME NEW x, SlotOK(x), x.live, NEW sd \in Seed, NEW a \in Alias,
         ~Holds(x, sd, a), ~Collides(x, sd, a), ~Full(x)
  PROVE  /\ SlotOK(Inserted(x, sd, a)) /\ Inserted(x, sd, a).live
         /\ Inserted(x, sd, a).last = x.last
         /\ Inserted(x, sd, a).aliases = [x.aliases EXCEPT ![sd] = a]
         /\ x.aliases[sd] = None
<1>1. x.aliases[sd] = None
  BY DEF Holds, Collides
<1>2. SlotOK(Inserted(x, sd, a))
  BY <1>1, InsertedSlot
<1>3. /\ Inserted(x, sd, a).live /\ Inserted(x, sd, a).last = x.last
      /\ Inserted(x, sd, a).aliases = [x.aliases EXCEPT ![sd] = a]
  BY DEF SlotOK, SessionType, Inserted
<1>4. QED BY <1>1, <1>2, <1>3

---------------------------------------------------------------------------
(***************************************************************************)
(* One pass over a body                                                    *)
(***************************************************************************)

PassType == [minter : MinterType, slot : SessionType, sent : SUBSET Binding,
             why : {"none", "collision", "limit", "unavailable"}, broken : BOOLEAN]

\* What a pass q has made of the minter m and the slot x it began with: it only
\* added to them, and what it sends it issued and filed.
Adds(q, m, x) ==
  /\ q \in PassType
  /\ MinterOK(q.minter) /\ q.minter.kept /\ q.minter.used = now
  /\ \A se \in Seed : m.issued[se] # None => q.minter.issued[se] = m.issued[se]
  /\ SlotOK(q.slot) /\ q.slot.live /\ q.slot.last >= now
  /\ \A se \in Seed : x.aliases[se] # None => q.slot.aliases[se] = x.aliases[se]
  /\ \A b \in q.sent : q.slot.aliases[b[1]] = b[2] /\ q.minter.issued[b[1]] = b[2]
  /\ IssuedBy(x, m) => IssuedBy(q.slot, q.minter)

\* A pass changes one field at a time.
LEMMA PassFields ==
  ASSUME NEW q \in PassType
  PROVE  /\ \A m \in MinterType : LET n == [q EXCEPT !.minter = m]
              IN  n \in PassType /\ n.minter = m /\ n.slot = q.slot /\ n.sent = q.sent
         /\ \A x \in SessionType : LET n == [q EXCEPT !.slot = x]
              IN  n \in PassType /\ n.minter = q.minter /\ n.slot = x /\ n.sent = q.sent
         /\ \A S \in SUBSET Binding : LET n == [q EXCEPT !.sent = S]
              IN  n \in PassType /\ n.minter = q.minter /\ n.slot = q.slot /\ n.sent = S
         /\ \A w \in {"none", "collision", "limit", "unavailable"} :
              LET n == [q EXCEPT !.why = w]
              IN  /\ n \in PassType /\ n.minter = q.minter /\ n.slot = q.slot
                  /\ n.sent = q.sent
<1> HIDE DEF MinterType, SessionType, Binding
<1>1. ASSUME NEW m \in MinterType
      PROVE  LET n == [q EXCEPT !.minter = m]
             IN  n \in PassType /\ n.minter = m /\ n.slot = q.slot /\ n.sent = q.sent
  BY DEF PassType
<1>2. ASSUME NEW x \in SessionType
      PROVE  LET n == [q EXCEPT !.slot = x]
             IN  n \in PassType /\ n.minter = q.minter /\ n.slot = x /\ n.sent = q.sent
  BY DEF PassType
<1>3. ASSUME NEW S \in SUBSET Binding
      PROVE  LET n == [q EXCEPT !.sent = S]
             IN  n \in PassType /\ n.minter = q.minter /\ n.slot = q.slot /\ n.sent = S
  BY DEF PassType
<1>4. ASSUME NEW w \in {"none", "collision", "limit", "unavailable"}
      PROVE  LET n == [q EXCEPT !.why = w]
             IN  /\ n \in PassType /\ n.minter = q.minter /\ n.slot = q.slot
                 /\ n.sent = q.sent
  BY DEF PassType
<1>5. QED BY <1>1, <1>2, <1>3, <1>4

\* mint_and_file, for a value that the minter gave the alias a, is one of these:
\* nothing was sent, the alias was filed already, or it is filed now.
LEMMA MaskedCases ==
  ASSUME NEW q \in PassType, setup \in Setups, now \in Nat, NEW sd \in Seed,
         MinterOK(q.minter), SlotOK(q.slot)
  PROVE  LET n == Masked(q, sd)
             m == Minted(q.minter, sd)
             a == m.issued[sd]
             x == Ensured(q.slot, now)
         IN  /\ n \in PassType
             /\ \/ n.minter = q.minter /\ n.slot = q.slot /\ n.sent = q.sent
                \/ n.minter = m /\ n.slot = q.slot /\ n.sent = q.sent
                \/ n.minter = m /\ n.slot = x /\ n.sent = q.sent
                \/ /\ n.minter = m /\ n.slot = x /\ n.sent = q.sent \cup {<<sd, a>>}
                   /\ a # None /\ Holds(x, sd, a)
                \/ /\ n.minter = m /\ n.slot = Inserted(x, sd, a)
                   /\ n.sent = q.sent \cup {<<sd, a>>} /\ a # None
                   /\ ~Holds(x, sd, a) /\ ~Collides(x, sd, a) /\ ~Full(x)
<1> DEFINE m == Minted(q.minter, sd)
           a == m.issued[sd]
           x == Ensured(q.slot, now)
           minted == [q EXCEPT !.minter = m]
           seen == [minted EXCEPT !.slot = x]
           n == Masked(q, sd)
           Case == /\ n \in PassType
                   /\ \/ n.minter = q.minter /\ n.slot = q.slot /\ n.sent = q.sent
                      \/ n.minter = m /\ n.slot = q.slot /\ n.sent = q.sent
                      \/ n.minter = m /\ n.slot = x /\ n.sent = q.sent
                      \/ /\ n.minter = m /\ n.slot = x /\ n.sent = q.sent \cup {<<sd, a>>}
                         /\ a # None /\ Holds(x, sd, a)
                      \/ /\ n.minter = m /\ n.slot = Inserted(x, sd, a)
                         /\ n.sent = q.sent \cup {<<sd, a>>} /\ a # None
                         /\ ~Holds(x, sd, a) /\ ~Collides(x, sd, a) /\ ~Full(x)
<1>1. \/ n = q
      \/ n = [minted EXCEPT !.why = "collision"]
      \/ n = [seen EXCEPT !.sent = @ \cup {<<sd, a>>}] /\ a # None /\ Holds(x, sd, a)
      \/ \E w \in {"collision", "limit", "unavailable"} : n = [seen EXCEPT !.why = w]
      \/ /\ n = [seen EXCEPT !.slot = Inserted(x, sd, a), !.sent = @ \cup {<<sd, a>>}]
         /\ a # None /\ ~Holds(x, sd, a) /\ ~Collides(x, sd, a) /\ ~Full(x)
  <2> HIDE DEF m, a, x
  <2>1. QED BY Zenon DEF Masked, AtCeiling, m, a, x
<1>2. m \in MinterType /\ a \in Alias \cup {None}
  BY MintedKeeps DEF MinterOK, MinterType
<1>3. SlotOK(x) /\ x.live /\ x \in SessionType
  BY EnsuredSlot DEF SlotOK
<1> HIDE DEF m, a, x
<1>4. minted \in PassType /\ minted.minter = m /\ minted.slot = q.slot /\ minted.sent = q.sent
  BY <1>2, PassFields
<1> HIDE DEF minted
<1>5. seen \in PassType /\ seen.minter = m /\ seen.slot = x /\ seen.sent = q.sent
  BY <1>3, <1>4, PassFields
<1> HIDE DEF seen, n
<1>6. ASSUME n = q PROVE Case
  BY <1>6
<1>7. ASSUME n = [minted EXCEPT !.why = "collision"] PROVE Case
  BY <1>4, <1>7, PassFields
<1>8. ASSUME \E w \in {"collision", "limit", "unavailable"} : n = [seen EXCEPT !.why = w]
      PROVE  Case
  <2>1. PICK w \in {"collision", "limit", "unavailable"} : n = [seen EXCEPT !.why = w]
    BY <1>8
  <2>2. n \in PassType /\ n.minter = seen.minter /\ n.slot = seen.slot /\ n.sent = seen.sent
    <3> DEFINE z == [seen EXCEPT !.why = w]
    <3>1. w \in {"none", "collision", "limit", "unavailable"}
      OBVIOUS
    <3>2. z \in PassType /\ z.minter = seen.minter /\ z.slot = seen.slot /\ z.sent = seen.sent
      BY <1>5, <3>1, PassFields
    <3> HIDE DEF z
    <3>3. n = z
      BY <2>1 DEF z
    <3>4. QED BY <3>2, <3>3
  <2>3. n \in PassType /\ n.minter = m /\ n.slot = x /\ n.sent = q.sent
    BY <1>5, <2>2
  <2>4. QED BY <2>3
<1>9. a # None => seen.sent \cup {<<sd, a>>} \in SUBSET Binding
  BY <1>2, <1>5 DEF PassType, Binding
<1>10. ASSUME n = [seen EXCEPT !.sent = @ \cup {<<sd, a>>}], a # None, Holds(x, sd, a)
       PROVE  Case
  <2> DEFINE S == seen.sent \cup {<<sd, a>>}
  <2>1. S \in SUBSET Binding /\ n = [seen EXCEPT !.sent = S]
    BY <1>9, <1>10
  <2> HIDE DEF S
  <2>2. n \in PassType /\ n.minter = seen.minter /\ n.slot = seen.slot /\ n.sent = S
    BY <1>5, <2>1, PassFields
  <2>3. QED BY <1>5, <1>10, <2>2 DEF S
<1>11. ASSUME n = [seen EXCEPT !.slot = Inserted(x, sd, a), !.sent = @ \cup {<<sd, a>>}],
              a # None, ~Holds(x, sd, a), ~Collides(x, sd, a), ~Full(x)
       PROVE  Case
  <2> DEFINE y == Inserted(x, sd, a)
             filed == [seen EXCEPT !.slot = y]
             S == seen.sent \cup {<<sd, a>>}
  <2>1. y \in SessionType
    BY <1>2, <1>3, <1>11, InsertedAdds DEF SlotOK
  <2>2. S \in SUBSET Binding /\ n = [filed EXCEPT !.sent = S]
    <3>1. filed.sent = seen.sent
      BY <1>5, <2>1, PassFields
    <3>2. n = [filed EXCEPT !.sent = filed.sent \cup {<<sd, a>>}]
      BY <1>11
    <3>3. QED BY <1>9, <1>11, <3>1, <3>2
  <2> HIDE DEF y, S
  <2>3. filed \in PassType /\ filed.minter = m /\ filed.slot = y
    BY <1>5, <2>1, PassFields
  <2> HIDE DEF filed
  <2>4. n \in PassType /\ n.minter = m /\ n.slot = y /\ n.sent = S
    BY <2>2, <2>3, PassFields
  <2>5. QED BY <1>5, <1>11, <2>4 DEF y, S
<1>12. Case
  <2> HIDE DEF Case
  <2>1. QED BY <1>1, <1>6, <1>7, <1>8, <1>10, <1>11
<1>13. QED BY <1>12 DEF m, a, x, n
\* So a value that is masked only adds to the pass.
LEMMA MaskedAdds ==
  ASSUME NEW q, NEW m, NEW x, Adds(q, m, x), setup \in Setups, now \in Nat, NEW sd \in Seed
  PROVE  Adds(Masked(q, sd), m, x)
<1> DEFINE n == Masked(q, sd)
           k == Minted(q.minter, sd)
           a == k.issued[sd]
           y == Ensured(q.slot, now)
<1>1. /\ q \in PassType /\ MinterOK(q.minter) /\ SlotOK(q.slot)
      /\ q.slot.live /\ q.slot.last >= now /\ q.minter.kept /\ q.minter.used = now
  BY DEF Adds
<1>2. /\ MinterOK(k) /\ k.kept /\ k.used = now /\ a \in Alias \cup {None}
      /\ \A se \in Seed : q.minter.issued[se] # None => k.issued[se] = q.minter.issued[se]
  BY <1>1, MintedKeeps DEF MinterOK, MinterType
<1>3. /\ SlotOK(y) /\ y.live /\ y.last >= now /\ y.aliases = q.slot.aliases
  <2>1. ~Expired(q.slot, now)
    <3>1. q.slot.last \in Nat
      BY <1>1 DEF PassType, SessionType
    <3>2. ~(now - q.slot.last > Ttl)
      BY <1>1, <3>1, SlotAssumption
    <3>3. QED BY <3>2 DEF Expired
  <2>2. AgedAs(y, q.slot, now) /\ y.live /\ y.last >= now
    BY <1>1, AgedSlot
  <2>3. QED BY <1>1, <2>1, <2>2 DEF AgedAs
<1>4. /\ n \in PassType
      /\ \/ n.minter = q.minter /\ n.slot = q.slot /\ n.sent = q.sent
         \/ n.minter = k /\ n.slot = q.slot /\ n.sent = q.sent
         \/ n.minter = k /\ n.slot = y /\ n.sent = q.sent
         \/ /\ n.minter = k /\ n.slot = y /\ n.sent = q.sent \cup {<<sd, a>>}
            /\ a # None /\ Holds(y, sd, a)
         \/ /\ n.minter = k /\ n.slot = Inserted(y, sd, a)
            /\ n.sent = q.sent \cup {<<sd, a>>} /\ a # None
            /\ ~Holds(y, sd, a) /\ ~Collides(y, sd, a) /\ ~Full(y)
  BY <1>1, MaskedCases
<1> HIDE DEF n, k, y
\* The minter only grew, and the slot too.
<1>5. /\ MinterOK(n.minter) /\ n.minter.kept /\ n.minter.used = now
      /\ \A se \in Seed : q.minter.issued[se] # None => n.minter.issued[se] = q.minter.issued[se]
  BY <1>1, <1>2, <1>4
<1>6. ASSUME a # None, ~Holds(y, sd, a), ~Collides(y, sd, a), ~Full(y)
      PROVE  /\ SlotOK(Inserted(y, sd, a)) /\ Inserted(y, sd, a).live
             /\ Inserted(y, sd, a).last = y.last
             /\ Inserted(y, sd, a).aliases = [y.aliases EXCEPT ![sd] = a]
             /\ y.aliases[sd] = None
  BY <1>2, <1>3, <1>6, InsertedAdds
<1>7. /\ SlotOK(n.slot) /\ n.slot.live /\ n.slot.last >= now
      /\ \A se \in Seed : q.slot.aliases[se] # None => n.slot.aliases[se] = q.slot.aliases[se]
  <2>1. \A se \in Seed : a # None /\ ~Holds(y, sd, a) /\ ~Collides(y, sd, a) /\ ~Full(y) =>
          (y.aliases[se] # None => Inserted(y, sd, a).aliases[se] = y.aliases[se])
    BY <1>3, <1>6 DEF SlotOK, SessionType
  <2>2. QED BY <1>1, <1>3, <1>4, <1>6, <2>1
<1>8. ASSUME NEW b \in n.sent
      PROVE  n.slot.aliases[b[1]] = b[2] /\ n.minter.issued[b[1]] = b[2]
  <2>1. b \in Binding /\ b[1] \in Seed /\ b[2] \in Alias /\ b[2] # None
    BY <1>4, SlotAssumption DEF PassType, Binding
  <2>2. ASSUME b \in q.sent PROVE n.slot.aliases[b[1]] = b[2] /\ n.minter.issued[b[1]] = b[2]
    <3>1. q.slot.aliases[b[1]] = b[2] /\ q.minter.issued[b[1]] = b[2]
      BY <2>2 DEF Adds
    <3>2. QED BY <1>5, <1>7, <2>1, <3>1
  <2>3. ASSUME b = <<sd, a>>, n.minter = k, n.slot = y, Holds(y, sd, a)
        PROVE  n.slot.aliases[b[1]] = b[2] /\ n.minter.issued[b[1]] = b[2]
    BY <2>3 DEF Holds
  <2>4. ASSUME b = <<sd, a>>, n.minter = k, n.slot = Inserted(y, sd, a), a # None,
               ~Holds(y, sd, a), ~Collides(y, sd, a), ~Full(y)
        PROVE  n.slot.aliases[b[1]] = b[2] /\ n.minter.issued[b[1]] = b[2]
    <3>1. [y.aliases EXCEPT ![sd] = a][sd] = a
      BY <1>3 DEF SlotOK, SessionType
    <3>2. QED BY <1>6, <2>4, <3>1
  <2>5. QED BY <1>4, <2>2, <2>3, <2>4
<1>9. ASSUME IssuedBy(q.slot, q.minter) PROVE IssuedBy(n.slot, n.minter)
  <2>1. ASSUME NEW se \in Seed, n.slot.aliases[se] # None
        PROVE  n.minter.issued[se] = n.slot.aliases[se]
    <3>1. ASSUME q.slot.aliases[se] # None PROVE n.minter.issued[se] = n.slot.aliases[se]
      BY <1>5, <1>7, <1>9, <3>1 DEF IssuedBy
    <3>2. ASSUME q.slot.aliases[se] = None PROVE n.minter.issued[se] = n.slot.aliases[se]
      <4>1. /\ n.minter = k /\ n.slot = Inserted(y, sd, a) /\ a # None
            /\ ~Holds(y, sd, a) /\ ~Collides(y, sd, a) /\ ~Full(y)
        BY <1>3, <1>4, <2>1, <3>2
      <4>2. se = sd /\ n.slot.aliases[se] = a
        BY <1>3, <1>6, <2>1, <3>2, <4>1 DEF SlotOK, SessionType
      <4>3. QED BY <4>1, <4>2
    <3>3. QED BY <3>1, <3>2
  <2>2. QED BY <1>5, <2>1 DEF IssuedBy
<1>10. \A se \in Seed : m.issued[se] # None => n.minter.issued[se] = m.issued[se]
  BY <1>5 DEF Adds
<1>11. \A se \in Seed : x.aliases[se] # None => n.slot.aliases[se] = x.aliases[se]
  BY <1>7 DEF Adds
<1>12. IssuedBy(x, m) => IssuedBy(n.slot, n.minter)
  BY <1>9 DEF Adds
<1>13. Adds(n, m, x)
  BY <1>4, <1>5, <1>7, <1>8, <1>10, <1>11, <1>12 DEF Adds
<1>14. QED BY <1>13 DEF n

\* The pass begins by adding nothing.
LEMMA OpenedAdds ==
  ASSUME TypeOK, StoreOK, MintersOK, NEW s \in Session, NEW body, NEW broken \in BOOLEAN,
         body.literals \in SUBSET Alias
  PROVE  Adds(Opened(s, body, broken),
              IF minters[s].kept THEN minters[s] ELSE NewMinter, Ensured(store[s], now))
<1> DEFINE m == IF minters[s].kept THEN minters[s] ELSE NewMinter
           n == Reserved([m EXCEPT !.used = now], body.literals)
           x == Ensured(store[s], now)
           q == Opened(s, body, broken)
<1>1. MinterOK(m) /\ m.kept
  BY EmptyMinter DEF MintersOK
<1>2. SlotOK(x) /\ x.live /\ x.last >= now
  BY AgedSlot DEF AgedAs, StoreOK, TypeOK
<1> HIDE DEF m, x
<1>3. MinterOK(n) /\ n.kept /\ n.used = now /\ n.issued = m.issued
  BY <1>1, ReservedKeeps DEF TypeOK
<1> HIDE DEF n
<1>4. q = [minter |-> n, slot |-> x, sent |-> {}, why |-> "none", broken |-> broken]
  BY DEF Opened, n, m, x
<1> HIDE DEF q
<1>5. q \in PassType /\ q.minter = n /\ q.slot = x /\ q.sent = {}
  BY <1>2, <1>3, <1>4 DEF PassType, MinterOK, SlotOK
<1>6. IssuedBy(x, m) => IssuedBy(x, n)
  BY <1>3 DEF IssuedBy
<1>7. Adds(q, m, x)
  BY <1>2, <1>3, <1>5, <1>6 DEF Adds
<1>8. QED BY <1>7 DEF q, m, x

\* And so does every pass, by induction over the values of the body.
LEMMA PassAdds ==
  ASSUME TypeOK, StoreOK, MintersOK, NEW s \in Session, NEW body \in
           [values : Seq(Seed), literals : SUBSET Alias], NEW broken \in BOOLEAN
  PROVE  Adds(Pass(s, body, broken),
              IF minters[s].kept THEN minters[s] ELSE NewMinter, Ensured(store[s], now))
<1> DEFINE m == IF minters[s].kept THEN minters[s] ELSE NewMinter
           x == Ensured(store[s], now)
           start == Opened(s, body, broken)
           v == body.values
           len == Len(v)
           Step(f, n) == IF n = 0 THEN start ELSE Masked(f[n - 1], v[n])
           IsRun(f, k) == f = [n \in 0 .. k |-> Step(f, n)]
           Ran == {k \in Nat : \E f : IsRun(f, k)}
<1>1. Pass(s, body, broken) = (CHOOSE f : IsRun(f, len))[len]
  BY DEF Pass
<1>2. len \in Nat /\ \A n \in 1 .. len : v[n] \in Seed
  OBVIOUS
<1>3. Adds(start, m, x)
  BY OpenedAdds
<1> HIDE DEF m, x, start, v, len
\* There is a run of any length, so the one the pass chooses is a run.
<1>4. Ran = Nat
  <2>1. 0 \in Ran
    <3>1. IsRun([n \in 0 .. 0 |-> start], 0)
      OBVIOUS
    <3> HIDE DEF IsRun
    <3>2. QED BY <3>1
  <2>2. ASSUME NEW k \in Ran PROVE k + 1 \in Ran
    <3>1. PICK f : IsRun(f, k)
      OBVIOUS
    <3> DEFINE g == [n \in 0 .. k + 1 |-> IF n <= k THEN f[n] ELSE Masked(f[k], v[k + 1])]
    <3>2. k \in Nat
      OBVIOUS
    <3>3. ASSUME NEW n \in 0 .. k + 1 PROVE g[n] = Step(g, n)
      <4>1. CASE n = 0
        BY <3>1, <3>2, <4>1
      <4>2. CASE n # 0 /\ n <= k
        <5>1. n - 1 \in 0 .. k /\ n \in 0 .. k /\ n - 1 \in 0 .. k + 1
          BY <3>2, <4>2
        <5>2. g[n] = f[n] /\ g[n - 1] = f[n - 1]
          BY <4>2, <5>1
        <5>3. f[n] = Masked(f[n - 1], v[n])
          BY <3>1, <4>2, <5>1
        <5>4. QED BY <4>2, <5>2, <5>3
      <4>3. CASE n = k + 1
        <5>1. k \in 0 .. k + 1 /\ k <= k /\ ~(k + 1 <= k) /\ n # 0 /\ n - 1 = k
          BY <3>2, <4>3
        <5>2. g[n] = Masked(f[k], v[n]) /\ g[n - 1] = f[k]
          BY <4>3, <5>1
        <5>3. QED BY <5>1, <5>2
      <4>4. QED BY <3>2, <4>1, <4>2, <4>3
    <3>4. IsRun(g, k + 1)
      <4>1. g = [n \in 0 .. k + 1 |-> g[n]]
        OBVIOUS
      <4> HIDE DEF g, Step
      <4>2. [n \in 0 .. k + 1 |-> g[n]] = [n \in 0 .. k + 1 |-> Step(g, n)]
        BY <3>3
      <4>3. QED BY <4>1, <4>2
    <3> HIDE DEF IsRun
    <3>5. QED BY <3>2, <3>4
  <2> HIDE DEF Ran
  <2>3. Ran \in SUBSET Nat
    BY DEF Ran
  <2>4. QED BY <2>1, <2>2, <2>3, Induct
<1> DEFINE f == CHOOSE g : IsRun(g, len)
<1>5. IsRun(f, len)
  <2> HIDE DEF IsRun
  <2>1. \E g : IsRun(g, len)
    BY <1>2, <1>4
  <2>2. QED BY <2>1
<1> HIDE DEF f
\* Every value of the body adds.
<1> DEFINE Good == {n \in Nat : n <= len => Adds(f[n], m, x)}
<1>6. Good = Nat
  <2>1. 0 \in Good
    <3>1. f[0] = start
      BY <1>2, <1>5
    <3>2. QED BY <1>3, <3>1
  <2>2. ASSUME NEW n \in Good PROVE n + 1 \in Good
    <3>1. CASE n + 1 <= len
      <4>1. n \in Nat /\ n <= len /\ n + 1 \in 0 .. len /\ n + 1 \in 1 .. len
            /\ n + 1 # 0 /\ (n + 1) - 1 = n
        BY <1>2, <3>1
      <4>2. f[n + 1] = Masked(f[n], v[n + 1])
        BY <1>5, <4>1
      <4>3. Adds(Masked(f[n], v[n + 1]), m, x)
        <5> DEFINE q == f[n]  sd == v[n + 1]
        <5>1. Adds(q, m, x) /\ sd \in Seed
          BY <1>2, <4>1
        <5>2. setup \in Setups /\ now \in Nat
          BY DEF TypeOK
        <5> HIDE DEF q, sd
        <5>3. Adds(Masked(q, sd), m, x)
          BY <5>1, <5>2, MaskedAdds
        <5>4. QED BY <5>3 DEF q, sd
      <4>4. QED BY <4>1, <4>2, <4>3
    <3>2. CASE ~(n + 1 <= len)
      BY <3>2
    <3>3. QED BY <3>1, <3>2
  <2> HIDE DEF Good
  <2>3. Good \in SUBSET Nat
    BY DEF Good
  <2>4. QED BY <2>1, <2>2, <2>3, Induct
<1>7. Adds(f[len], m, x)
  <2>1. len \in Good
    BY <1>2, <1>6
  <2>2. QED BY <1>2, <2>1
<1>8. QED BY <1>1, <1>7 DEF f, m, x
---------------------------------------------------------------------------
(***************************************************************************)
(* The steps                                                               *)
(***************************************************************************)

\* A configuration's parts.
LEMMA SetupParts ==
  ASSUME setup \in Setups
  PROVE  /\ setup.sessions \subseteq Session /\ IsFiniteSet(setup.sessions)
         /\ setup.bodies \subseteq [values : Seq(Seed), literals : SUBSET Alias]
         /\ setup.mintersKept \in Nat \ {0} /\ setup.stepsBack \in BOOLEAN
         /\ setup.maxTime \in Nat
<1>1. /\ setup.sessions \subseteq Session
      /\ setup.bodies \subseteq [values : Seq(Seed), literals : SUBSET Alias]
      /\ setup.mintersKept \in Nat \ {0} /\ setup.stepsBack \in BOOLEAN
      /\ setup.maxTime \in Nat
  BY GatewayAssumption
<1>2. IsFiniteSet(setup.sessions)
  BY <1>1, FS_Subset, GatewayAssumption
<1>3. QED BY <1>1, <1>2

LEMMA InvInit == Init => IInv
<1> SUFFICES ASSUME Init PROVE IInv
  OBVIOUS
<1>1. NoFlight \in FlightType /\ NoFlight.session = None /\ NoFlight.sent = {}
  BY DEF NoFlight, FlightType, Stages, Binding
<1>2. TypeOK
  BY <1>1, EmptySlot, EmptyMinter DEF Init, TypeOK, SlotOK, MinterOK
<1>3. StoreOK /\ MintersOK
  BY EmptySlot, EmptyMinter DEF Init, StoreOK, MintersOK
<1>4. MintersAreDated
  BY EmptyMinter DEF Init, MintersAreDated, Kept
<1>5. StoreIsMinted
  BY DEF Init, StoreIsMinted, IssuedBy, Gone
<1>6. FlightsOK
  BY <1>1 DEF Init, FlightsOK, StillFiled, StillIssued, InFlight
<1>7. QED BY <1>2, <1>3, <1>4, <1>5, <1>6 DEF IInv

\* prune takes at most whole minters, takes none as long as every conversation
\* can keep one, and never the one used now unless the clock was set back.
LEMMA PrunedMinters ==
  ASSUME setup \in Setups, now \in Nat,
         NEW ms \in [Session -> MinterType], NEW pruned \in Pruned(ms)
  PROVE  /\ pruned \in [Session -> MinterType]
         /\ \A t \in Session : pruned[t] = ms[t] \/ pruned[t] = NoMinter
         /\ EveryMinterIsKept /\ Kept(ms) \subseteq setup.sessions => pruned = ms
         /\ \A s \in Session :
              /\ NotAllInOneInstant(ms)
              /\ ms[s].used = now /\ \A t \in Session : ms[t].used <= now
              => pruned[s] = ms[s]
<1>1. CASE Cardinality(Kept(ms)) <= setup.mintersKept
  BY <1>1 DEF Pruned
<1>2. CASE ~(Cardinality(Kept(ms)) <= setup.mintersKept)
  <2>1. PICK u \in Kept(ms) : /\ \A r \in Kept(ms) : ms[u].used <= ms[r].used
                              /\ pruned = [ms EXCEPT ![u] = NoMinter]
    BY <1>2 DEF Pruned
  <2>2. /\ pruned \in [Session -> MinterType]
        /\ \A t \in Session : t # u => pruned[t] = ms[t]
        /\ pruned[u] = NoMinter /\ u \in Session
    BY <2>1, EmptyMinter DEF MinterOK, Kept
  <2>3. ~(EveryMinterIsKept /\ Kept(ms) \subseteq setup.sessions)
    <3>1. SUFFICES ASSUME EveryMinterIsKept, Kept(ms) \subseteq setup.sessions PROVE FALSE
      OBVIOUS
    <3>2. Cardinality(Kept(ms)) <= Cardinality(setup.sessions) /\ IsFiniteSet(Kept(ms))
      BY <3>1, SetupParts, FS_Subset
    <3>3. Cardinality(Kept(ms)) \in Nat /\ Cardinality(setup.sessions) \in Nat
      BY <3>2, SetupParts, FS_CardinalityType
    <3>4. setup.mintersKept \in Nat
      BY SetupParts
    <3>5. QED BY <1>2, <3>1, <3>2, <3>3, <3>4 DEF EveryMinterIsKept
  <2>4. ASSUME NEW s \in Session, NotAllInOneInstant(ms), ms[s].used = now,
               \A t \in Session : ms[t].used <= now
        PROVE  pruned[s] = ms[s]
    <3>1. Cardinality(Kept(ms)) > setup.mintersKept
      <4>1. IsFiniteSet(Kept(ms))
        BY FS_Subset, GatewayAssumption DEF Kept
      <4>2. Cardinality(Kept(ms)) \in Nat /\ setup.mintersKept \in Nat
        BY <4>1, FS_CardinalityType, SetupParts
      <4>3. QED BY <1>2, <4>2
    <3>2. PICK t \in Kept(ms) : ms[t].used # now
      BY <2>4, <3>1 DEF NotAllInOneInstant
    <3>3. ms[t].used < now /\ ms[u].used <= ms[t].used
      <4>1. ms[t].used \in Nat
        BY <3>2 DEF Kept, MinterType
      <4>2. ms[t].used <= now
        BY <2>4, <3>2 DEF Kept
      <4>3. ms[u].used <= ms[t].used
        BY <2>1, <3>2
      <4>4. QED BY <3>2, <4>1, <4>2, <4>3
    <3>4. ms[u].used < now
      <4>1. ms[t].used \in Nat /\ ms[u].used \in Nat
        BY <2>2, <3>2 DEF Kept, MinterType
      <4>2. QED BY <3>3, <4>1
    <3>5. s # u
      BY <2>4, <3>4
    <3>6. QED BY <2>2, <3>5
  <2>5. QED BY <2>2, <2>3, <2>4
<1>3. QED BY <1>1, <1>2
\* Accept, in terms of what it leaves: a slot and a minter the pass added to, the
\* other minters as they were or dropped, and one flight that starts or none.
Leaves(r, s, p, snap) ==
  /\ Adds(p, IF minters[s].kept THEN minters[s] ELSE NewMinter,
          Ensured(store[s], now))
  /\ store' = [store EXCEPT ![s] = p.slot]
  /\ minters' \in [Session -> MinterType]
  /\ \A t \in Session \ {s} : minters'[t] = minters[t] \/ minters'[t] = NoMinter
  /\ minters'[s] \in {p.minter, Refrozen(p.minter), NoMinter}
  /\ EveryMinterIsKept => /\ \A t \in Session \ {s} : minters'[t] = minters[t]
                          /\ minters'[s] # NoMinter
  /\ access' \in BOOLEAN
  /\ \/ flight' = [flight EXCEPT ![r] = NoFlight]
     \/ /\ flight' = [flight EXCEPT ![r] =
             [stage |-> "masked", session |-> s, sent |-> p.sent, since |-> now,
              snapshot |-> snap]]
        /\ snap = Issued(p.minter) \/ (snap = {} /\ minters'[s] = NoMinter)
        /\ ~setup.stepsBack \/ EveryMinterIsKept => snap = Issued(p.minter)

LEMMA MaskOutcome ==
  ASSUME IInv, NEW r \in Request, NEW s \in setup.sessions, NEW body \in setup.bodies,
         NEW broken \in BOOLEAN, Mask(r, s, body, broken)
  PROVE  \E p \in PassType : \E snap \in SUBSET Binding : Leaves(r, s, p, snap)
<1> DEFINE p == Pass(s, body, broken)
           m == IF minters[s].kept THEN minters[s] ELSE NewMinter
           x == Ensured(store[s], now)
           ms == [minters EXCEPT ![s] = p.minter]
<1>1. /\ setup \in Setups /\ now \in Nat /\ s \in Session /\ TypeOK /\ StoreOK /\ MintersOK
      /\ body \in [values : Seq(Seed), literals : SUBSET Alias]
  BY SetupParts DEF IInv, TypeOK
<1>2. Adds(p, m, x)
  BY <1>1, PassAdds
<1>3. PICK pruned \in Pruned(ms) :
        /\ NotAllInOneInstant(ms)
        /\ store' = [store EXCEPT ![s] = p.slot]
        /\ \/ /\ minters' = pruned /\ access' \in BOOLEAN
              /\ flight' = [flight EXCEPT ![r] = NoFlight]
           \/ /\ minters' = [pruned EXCEPT ![s] = IF @.kept THEN Refrozen(@) ELSE @]
              /\ flight' = [flight EXCEPT ![r] =
                   [stage |-> "masked", session |-> s, sent |-> p.sent, since |-> now,
                    snapshot |-> IF pruned[s].kept THEN Refrozen(pruned[s]).snapshot ELSE {}]]
              /\ access' = access
  <2> HIDE DEF p
  <2>1. QED BY DEF Mask, Ends, p, IInv, TypeOK
<1> HIDE DEF p, m, x
<1>4. /\ p \in PassType /\ MinterOK(p.minter) /\ p.minter.kept /\ p.minter.used = now
      /\ p.minter \in MinterType /\ p.minter # NoMinter
  BY <1>2, EmptyMinter DEF Adds, MinterOK
<1>5. ms \in [Session -> MinterType] /\ ms[s] = p.minter
      /\ \A t \in Session \ {s} : ms[t] = minters[t]
  BY <1>1, <1>4 DEF TypeOK
<1>6. Kept(ms) \subseteq setup.sessions
  BY <1>5 DEF Kept, IInv, MintersAreDated
<1>7. ~setup.stepsBack => \A t \in Session : ms[t].used <= now
  BY <1>1, <1>4, <1>5 DEF IInv, MintersAreDated
<1> HIDE DEF ms
<1>8. /\ pruned \in [Session -> MinterType]
      /\ \A t \in Session : pruned[t] = ms[t] \/ pruned[t] = NoMinter
      /\ EveryMinterIsKept => pruned = ms
      /\ ~setup.stepsBack => pruned[s] = ms[s]
  BY <1>1, <1>3, <1>4, <1>5, <1>6, <1>7, PrunedMinters
<1>9. Refrozen(p.minter) \in MinterType /\ Refrozen(p.minter).kept
      /\ Refrozen(p.minter).snapshot = Issued(p.minter) /\ Refrozen(p.minter) # NoMinter
  BY <1>4, RefrozenIsIssued, EmptyMinter DEF MinterOK
<1>10. pruned[s] = p.minter \/ pruned[s] = NoMinter
  BY <1>1, <1>5, <1>8
<1>11. Issued(p.minter) \in SUBSET Binding
  BY DEF Issued
<1>12. CASE /\ minters' = pruned /\ access' \in BOOLEAN
            /\ flight' = [flight EXCEPT ![r] = NoFlight]
  <2>1. minters' \in [Session -> MinterType]
    BY <1>8, <1>12
  <2>2. \A t \in Session \ {s} : minters'[t] = minters[t] \/ minters'[t] = NoMinter
    BY <1>5, <1>8, <1>12
  <2>3. minters'[s] \in {p.minter, Refrozen(p.minter), NoMinter}
    BY <1>10, <1>12
  <2>4. EveryMinterIsKept => /\ \A t \in Session \ {s} : minters'[t] = minters[t]
                             /\ minters'[s] # NoMinter
    BY <1>4, <1>5, <1>8, <1>12
  <2>5. Leaves(r, s, p, {})
    BY <1>2, <1>3, <1>12, <2>1, <2>2, <2>3, <2>4 DEF Leaves, m, x
  <2>6. QED BY <1>4, <2>5
<1>13. CASE /\ minters' = [pruned EXCEPT ![s] = IF @.kept THEN Refrozen(@) ELSE @]
            /\ flight' = [flight EXCEPT ![r] =
                 [stage |-> "masked", session |-> s, sent |-> p.sent, since |-> now,
                  snapshot |-> IF pruned[s].kept THEN Refrozen(pruned[s]).snapshot ELSE {}]]
            /\ access' = access
  <2> DEFINE snap == IF pruned[s].kept THEN Refrozen(pruned[s]).snapshot ELSE {}
  <2>1. /\ pruned[s] = p.minter => minters'[s] = Refrozen(p.minter) /\ snap = Issued(p.minter)
        /\ pruned[s] = NoMinter => minters'[s] = NoMinter /\ snap = {}
    BY <1>1, <1>4, <1>8, <1>9, <1>13, EmptyMinter
  <2>2. \A t \in Session \ {s} : minters'[t] = pruned[t]
    BY <1>8, <1>13
  <2>3. snap \in SUBSET Binding
    BY <1>10, <1>11, <2>1
  <2>4. flight' = [flight EXCEPT ![r] =
                    [stage |-> "masked", session |-> s, sent |-> p.sent, since |-> now,
              snapshot |-> snap]]
    BY <1>13
  <2> HIDE DEF snap
  <2>5. minters' \in [Session -> MinterType]
    <3>1. minters'[s] \in MinterType
      BY <1>4, <1>9, <1>10, <2>1, EmptyMinter DEF MinterOK
    <3>2. minters' = [pruned EXCEPT ![s] = minters'[s]]
      BY <1>1, <1>8, <1>13
    <3>3. QED BY <1>8, <3>1, <3>2
  <2>6. \A t \in Session \ {s} : minters'[t] = minters[t] \/ minters'[t] = NoMinter
    BY <1>5, <1>8, <2>2
  <2>7. minters'[s] \in {p.minter, Refrozen(p.minter), NoMinter}
    BY <1>10, <2>1
  <2>8. EveryMinterIsKept => /\ \A t \in Session \ {s} : minters'[t] = minters[t]
                             /\ minters'[s] # NoMinter
    BY <1>1, <1>5, <1>8, <1>9, <2>1, <2>2
  <2>9. /\ snap = Issued(p.minter) \/ (snap = {} /\ minters'[s] = NoMinter)
        /\ ~setup.stepsBack \/ EveryMinterIsKept => snap = Issued(p.minter)
    BY <1>1, <1>5, <1>8, <1>10, <2>1
  <2>10. access' \in BOOLEAN
    BY <1>1, <1>13 DEF TypeOK
  <2>11. Leaves(r, s, p, snap)
    BY <1>2, <1>3, <2>4, <2>5, <2>6, <2>7, <2>8, <2>9, <2>10 DEF Leaves, m, x
  <2>12. QED BY <1>4, <2>3, <2>11
<1>14. QED BY <1>3, <1>12, <1>13
LEMMA MaskStep ==
  ASSUME IInv, NEW r \in Request, NEW s \in setup.sessions, NEW body \in setup.bodies,
         NEW broken \in BOOLEAN, Mask(r, s, body, broken)
  PROVE  IInv'
<1> DEFINE m == IF minters[s].kept THEN minters[s] ELSE NewMinter
           x == Ensured(store[s], now)
<1>a. PICK p \in PassType : \E snap \in SUBSET Binding : Leaves(r, s, p, snap)
  BY MaskOutcome
<1>b. PICK snap \in SUBSET Binding : Leaves(r, s, p, snap)
  BY <1>a
<1>1. /\ Adds(p, m, x)
      /\ store' = [store EXCEPT ![s] = p.slot]
      /\ minters' \in [Session -> MinterType]
      /\ \A t \in Session \ {s} : minters'[t] = minters[t] \/ minters'[t] = NoMinter
      /\ minters'[s] \in {p.minter, Refrozen(p.minter), NoMinter}
      /\ EveryMinterIsKept => /\ \A t \in Session \ {s} : minters'[t] = minters[t]
                              /\ minters'[s] # NoMinter
      /\ access' \in BOOLEAN
      /\ \/ flight' = [flight EXCEPT ![r] = NoFlight]
         \/ /\ flight' = [flight EXCEPT ![r] =
                 [stage |-> "masked", session |-> s, sent |-> p.sent, since |-> now,
              snapshot |-> snap]]
            /\ snap = Issued(p.minter) \/ (snap = {} /\ minters'[s] = NoMinter)
            /\ ~setup.stepsBack \/ EveryMinterIsKept => snap = Issued(p.minter)
  BY <1>b DEF Leaves, m, x
<1>2. setup' = setup /\ now' = now
  BY DEF Mask
<1>3. /\ setup \in Setups /\ now \in Nat /\ s \in Session /\ TypeOK /\ StoreOK /\ MintersOK
      /\ MintersAreDated /\ StoreIsMinted /\ FlightsOK
  BY SetupParts DEF IInv, TypeOK
<1>4. /\ MinterOK(m) /\ m.kept
      /\ \A se \in Seed : minters[s].kept => m.issued[se] = minters[s].issued[se]
  BY <1>3, EmptyMinter DEF MintersOK
<1>5. AgedAs(x, store[s], now)
  BY <1>3, AgedSlot DEF StoreOK
<1> HIDE DEF m, x
<1>6. /\ MinterOK(p.minter) /\ p.minter.kept /\ p.minter.used = now
      /\ \A se \in Seed : m.issued[se] # None => p.minter.issued[se] = m.issued[se]
      /\ SlotOK(p.slot) /\ p.slot.live /\ p.slot.last >= now
      /\ \A se \in Seed : x.aliases[se] # None => p.slot.aliases[se] = x.aliases[se]
      /\ \A b \in p.sent : p.slot.aliases[b[1]] = b[2] /\ p.minter.issued[b[1]] = b[2]
      /\ IssuedBy(x, m) => IssuedBy(p.slot, p.minter)
  BY <1>1 DEF Adds
<1>7. /\ store' \in [Session -> SessionType] /\ store'[s] = p.slot
      /\ \A t \in Session \ {s} : store'[t] = store[t]
  BY <1>1, <1>3, <1>6 DEF TypeOK, SlotOK
\* The minter of s that is left, if it is left.
<1>8. /\ \A t \in Session : MinterOK(minters'[t])
      /\ minters'[s] # NoMinter => /\ minters'[s].kept /\ minters'[s].used = now
                                   /\ minters'[s].issued = p.minter.issued
  BY <1>1, <1>3, <1>6, RefrozenIsIssued, EmptyMinter DEF MintersOK
<1>9. ~NoMinter.kept /\ NoMinter.used = 0
  BY EmptyMinter
<1>10. flight' \in [Request -> FlightType]
  <2>1. s \in Session \cup {None} /\ p.sent \in SUBSET Binding
    BY <1>3 DEF PassType
  <2>2. [stage |-> "masked", session |-> s, sent |-> p.sent, since |-> now, snapshot |-> snap] \in FlightType
    BY <1>3, <2>1, GatewayAssumption DEF FlightType, Stages
  <2>3. NoFlight \in FlightType
    BY DEF NoFlight, FlightType, Stages, Binding
  <2>4. QED BY <1>1, <1>3, <2>2, <2>3 DEF TypeOK
<1>11. TypeOK'
  BY <1>1, <1>2, <1>3, <1>7, <1>10 DEF TypeOK
<1>12. StoreOK'
  BY <1>3, <1>6, <1>7 DEF StoreOK
<1>13. MintersOK'
  BY <1>8 DEF MintersOK
<1>14. MintersAreDated'
  <2>1. Kept(minters') \subseteq setup.sessions
    BY <1>1, <1>3, <1>9 DEF Kept, MintersAreDated
  <2>2. ~setup.stepsBack => \A t \in Session : minters'[t].used <= now
    BY <1>1, <1>3, <1>8, <1>9 DEF MintersAreDated
  <2>3. QED BY <1>2, <2>1, <2>2 DEF MintersAreDated, Kept
<1>15. StoreIsMinted'
  <2>1. ASSUME EveryMinterIsKept, NEW t \in Session PROVE IssuedBy(store'[t], minters'[t])
    <3>1. CASE t # s
      BY <1>1, <1>3, <1>7, <2>1, <3>1 DEF StoreIsMinted
    <3>2. CASE t = s
      <4>1. IssuedBy(store[s], minters[s])
        BY <1>3, <2>1 DEF StoreIsMinted
      <4>2. IssuedBy(x, m)
        BY <1>4, <1>5, <4>1 DEF IssuedBy, AgedAs
      <4>3. IssuedBy(p.slot, p.minter)
        BY <1>6, <4>2
      <4>4. QED BY <1>1, <1>7, <1>8, <2>1, <3>2, <4>3 DEF IssuedBy
    <3>3. QED BY <3>1, <3>2
  <2>2. EveryMinterIsKept' => EveryMinterIsKept
    BY <1>2 DEF EveryMinterIsKept
  <2>3. QED BY <2>1, <2>2 DEF StoreIsMinted
<1>16. FlightsOK'
  <2>1. ASSUME NEW q \in Request PROVE StillFiled(q)' /\ StillIssued(q)'
    <3> DEFINE u == flight[q].session
    <3>1. StillFiled(q) /\ StillIssued(q)
      BY <1>3 DEF FlightsOK
    <3>2. flight[q] \in FlightType
      BY <1>3 DEF TypeOK
    \* A request that was already on its way.
    <3>3. ASSUME flight'[q] = flight[q] PROVE StillFiled(q)' /\ StillIssued(q)'
      <4>1. ASSUME InFlight(q), ~MayHaveExpired(q)
            PROVE  /\ flight[q].since <= now
                   /\ store'[u].live /\ store'[u].last >= flight[q].since
                   /\ \A b \in flight[q].sent : store'[u].aliases[b[1]] = b[2]
        <5>1. /\ u \in Session /\ flight[q].since <= now /\ flight[q].since \in Nat
              /\ store[u].live /\ store[u].last >= flight[q].since
              /\ \A b \in flight[q].sent : store[u].aliases[b[1]] = b[2]
          BY <3>1, <3>2, <4>1 DEF StillFiled, InFlight, FlightType
        <5>2. CASE u # s
          BY <1>7, <5>1, <5>2
        <5>3. CASE u = s
          <6>1. ~(now - flight[q].since > Ttl)
            BY <4>1 DEF MayHaveExpired
          <6>2. store[s].last \in Nat
            BY <1>3 DEF TypeOK, SessionType
          <6>3. ~(now - store[s].last > Ttl)
            BY <1>3, <5>1, <5>3, <6>1, <6>2, SlotAssumption
          <6>4. x.aliases = store[s].aliases
            BY <1>5, <5>1, <5>3, <6>3 DEF AgedAs, Expired
          <6>5. \A b \in flight[q].sent : p.slot.aliases[b[1]] = b[2]
            <7>1. \A b \in flight[q].sent : b[1] \in Seed /\ b[2] # None
              BY <3>2, SlotAssumption DEF FlightType, Binding
            <7>2. QED BY <1>6, <5>1, <5>3, <6>4, <7>1
          <6>6. p.slot.last >= flight[q].since
            <7>1. p.slot.last \in Nat
              BY <1>6 DEF SlotOK, SessionType
            <7>2. QED BY <1>3, <1>6, <5>1, <7>1
          <6>7. QED BY <1>6, <1>7, <5>1, <5>3, <6>5, <6>6
        <5>4. QED BY <5>2, <5>3
      <4>2. StillFiled(q)'
        BY <1>2, <3>3, <4>1 DEF StillFiled, InFlight, MayHaveExpired
      <4>3. ASSUME InFlight(q), EveryMinterIsKept
            PROVE  minters'[u].kept /\ flight[q].snapshot \subseteq Issued(minters'[u])
        <5>1. /\ u \in Session /\ minters[u].kept
              /\ flight[q].snapshot \subseteq Issued(minters[u])
          BY <3>1, <3>2, <4>3 DEF StillIssued, InFlight, FlightType
        <5>2. CASE u # s
          BY <1>1, <4>3, <5>1, <5>2
        <5>3. CASE u = s
          <6>1. \A se \in Seed : minters[s].issued[se] # None =>
                  p.minter.issued[se] = minters[s].issued[se]
            BY <1>4, <1>6, <5>1, <5>3
          <6>2. minters'[s].kept /\ minters'[s].issued = p.minter.issued
            BY <1>1, <1>8, <4>3
          <6>3. \A b \in Issued(minters[s]) : b \in Issued(minters'[s])
            BY <6>1, <6>2, SlotAssumption DEF Issued, Binding
          <6>4. QED BY <5>1, <5>3, <6>2, <6>3
        <5>4. QED BY <5>2, <5>3
      <4>4. StillIssued(q)'
        BY <1>2, <3>1, <3>3, <4>3 DEF StillIssued, InFlight, EveryMinterIsKept
      <4>5. QED BY <4>2, <4>4
    \* A request that is refused now.
    <3>r. ASSUME flight'[q] = NoFlight PROVE StillFiled(q)' /\ StillIssued(q)'
      BY <3>r DEF StillFiled, StillIssued, InFlight, NoFlight
    \* The request that leaves now.
    <3>4. ASSUME flight'[q] # flight[q], flight'[q] # NoFlight
          PROVE  StillFiled(q)' /\ StillIssued(q)'
      <4>1. /\ flight'[q].session = s /\ flight'[q].sent = p.sent
            /\ flight'[q].since = now /\ flight'[q].snapshot = snap
            /\ snap = Issued(p.minter) \/ (snap = {} /\ minters'[s] = NoMinter)
            /\ ~setup.stepsBack \/ EveryMinterIsKept => snap = Issued(p.minter)
        BY <1>1, <1>3, <3>4 DEF TypeOK
      <4>2. StillFiled(q)'
        <5>1. /\ flight'[q].since <= now /\ store'[s].live /\ store'[s].last >= flight'[q].since
              /\ \A b \in flight'[q].sent : store'[s].aliases[b[1]] = b[2]
          BY <1>3, <1>6, <1>7, <4>1
        <5>2. QED BY <1>2, <4>1, <5>1 DEF StillFiled
      <4>3. p.sent \subseteq Issued(p.minter)
        BY <1>6 DEF PassType, Issued
      <4>4. EveryMinterIsKept => /\ minters'[s].kept
                                 /\ Issued(p.minter) \subseteq Issued(minters'[s])
        BY <1>1, <1>8 DEF Issued
      <4>5. StillIssued(q)'
        BY <1>2, <4>1, <4>3, <4>4 DEF StillIssued, EveryMinterIsKept
      <4>6. QED BY <4>2, <4>5
    <3>5. QED BY <3>3, <3>r, <3>4
  <2>2. QED BY <2>1 DEF FlightsOK
<1>17. QED BY <1>11, <1>12, <1>13, <1>14, <1>15, <1>16 DEF IInv
\* What the session of a request holds once it was only aged: everything, unless it
\* had expired.
LEMMA AgedStoreKeeps ==
  ASSUME IInv, NEW s \in Session, store' = [store EXCEPT ![s] = Refreshed(store[s], now)],
         UNCHANGED <<setup, now, minters>>,
         \A q \in Request : flight'[q] = flight[q] \/ flight'[q] = NoFlight
  PROVE  /\ store' \in [Session -> SessionType] /\ StoreOK'
         /\ StoreIsMinted' /\ FlightsOK'
<1> DEFINE y == Refreshed(store[s], now)
<1>1. /\ TypeOK /\ StoreOK /\ StoreIsMinted /\ FlightsOK /\ now \in Nat
  BY DEF IInv, TypeOK
<1>2. AgedAs(y, store[s], now)
  BY <1>1, AgedSlot DEF StoreOK
<1> HIDE DEF y
<1>3. /\ store' \in [Session -> SessionType] /\ store'[s] = y
      /\ \A t \in Session \ {s} : store'[t] = store[t]
  <2>1. store' = [store EXCEPT ![s] = y]
    BY DEF y
  <2>2. QED BY <1>1, <1>2, <2>1 DEF TypeOK, AgedAs, SlotOK
<1>4. StoreOK'
  BY <1>1, <1>2, <1>3 DEF StoreOK, AgedAs
<1>5. StoreIsMinted'
  <2>1. ASSUME EveryMinterIsKept, NEW t \in Session PROVE IssuedBy(store'[t], minters[t])
    <3>1. IssuedBy(store[t], minters[t])
      BY <1>1, <2>1 DEF StoreIsMinted
    <3>2. QED BY <1>2, <1>3, <3>1 DEF IssuedBy, AgedAs
  <2>2. QED BY <2>1 DEF StoreIsMinted, EveryMinterIsKept
<1>6. FlightsOK'
  <2>1. ASSUME NEW q \in Request, flight'[q] = flight[q]
        PROVE StillFiled(q)' /\ StillIssued(q)'
    <3> DEFINE u == flight[q].session
    <3>1. StillFiled(q) /\ StillIssued(q) /\ flight[q] \in FlightType
      BY <1>1 DEF FlightsOK, TypeOK
    <3>2. ASSUME InFlight(q), ~MayHaveExpired(q)
          PROVE  /\ flight[q].since <= now
                 /\ store'[u].live /\ store'[u].last >= flight[q].since
                 /\ \A b \in flight[q].sent : store'[u].aliases[b[1]] = b[2]
      <4>1. /\ u \in Session /\ flight[q].since <= now /\ flight[q].since \in Nat
            /\ store[u].live /\ store[u].last >= flight[q].since
            /\ \A b \in flight[q].sent : store[u].aliases[b[1]] = b[2]
        BY <3>1, <3>2 DEF StillFiled, InFlight, FlightType
      <4>2. CASE u # s
        BY <1>3, <4>1, <4>2
      <4>3. CASE u = s
        <5>1. ~(now - flight[q].since > Ttl)
          BY <3>2 DEF MayHaveExpired
        <5>2. store[s].last \in Nat
          BY <1>1 DEF TypeOK, SessionType
        <5>3. ~(now - store[s].last > Ttl)
          BY <1>1, <4>1, <4>3, <5>1, <5>2, SlotAssumption
        <5>4. y.live /\ y.last >= store[s].last /\ y.aliases = store[s].aliases
          BY <1>2, <4>1, <4>3, <5>3 DEF AgedAs, Expired
        <5>5. y.last \in Nat
          BY <1>2 DEF AgedAs, SlotOK, SessionType
        <5>6. y.last >= flight[q].since
          BY <4>1, <4>3, <5>2, <5>4, <5>5
        <5>7. QED BY <1>3, <4>1, <4>3, <5>4, <5>6
      <4>4. QED BY <4>2, <4>3
    <3>3. StillFiled(q)'
      BY <2>1, <3>2 DEF StillFiled, InFlight, MayHaveExpired
    <3>4. StillIssued(q)'
      BY <2>1, <3>1 DEF StillIssued, InFlight, EveryMinterIsKept
    <3>5. QED BY <3>3, <3>4
  <2>2. ASSUME NEW q \in Request, flight'[q] = NoFlight
        PROVE StillFiled(q)' /\ StillIssued(q)'
    BY <2>2 DEF StillFiled, StillIssued, InFlight, NoFlight
  <2>3. QED BY <2>1, <2>2 DEF FlightsOK
<1>7. QED BY <1>3, <1>4, <1>5, <1>6

\* A step on which the request q keeps what it holds.
Holding(q) ==
  /\ flight'[q].session = flight[q].session /\ flight'[q].sent = flight[q].sent
  /\ flight'[q].snapshot = flight[q].snapshot /\ flight'[q].since = flight[q].since

\* A step that leaves the vault and the minters alone, and moves flights on or ends
\* them at most.
LEMMA FlightsEnd ==
  ASSUME IInv, UNCHANGED <<setup, now, store, minters>>, access' \in BOOLEAN,
         flight' \in [Request -> FlightType],
         \A q \in Request : Holding(q) \/ flight'[q] = NoFlight
  PROVE  IInv'
<1>1. TypeOK' /\ StoreOK' /\ MintersOK'
  BY DEF IInv, TypeOK, StoreOK, MintersOK
<1>2. MintersAreDated'
  BY DEF IInv, MintersAreDated, Kept
<1>3. StoreIsMinted'
  BY DEF IInv, StoreIsMinted, EveryMinterIsKept
<1>4. ASSUME NEW q \in Request, Holding(q) PROVE StillFiled(q)' /\ StillIssued(q)'
  <2>1. StillFiled(q) /\ StillIssued(q)
    BY DEF IInv, FlightsOK
  <2>2. QED BY <1>4, <2>1
        DEF Holding, StillFiled, StillIssued, InFlight, MayHaveExpired, EveryMinterIsKept
<1>5. ASSUME NEW q \in Request, flight'[q] = NoFlight PROVE StillFiled(q)' /\ StillIssued(q)'
  BY <1>5 DEF StillFiled, StillIssued, InFlight, NoFlight
<1>6. FlightsOK'
  BY <1>4, <1>5 DEF FlightsOK
<1>7. QED BY <1>1, <1>2, <1>3, <1>6 DEF IInv

LEMMA TickStep == IInv /\ Tick => IInv'
<1> SUFFICES ASSUME IInv, Tick PROVE IInv'
  OBVIOUS
<1>1. now' \in Nat /\ (~setup.stepsBack => now' >= now) /\ now \in Nat
  <2>1. setup.maxTime \in Nat /\ now \in Nat
    BY SetupParts DEF IInv, TypeOK
  <2>2. now' \in IF setup.stepsBack THEN 0..setup.maxTime ELSE now..setup.maxTime
    BY DEF Tick
  <2>3. QED BY <2>1, <2>2
<1>2. UNCHANGED <<setup, store, access, minters, flight>>
  BY DEF Tick
<1>3. TypeOK' /\ StoreOK' /\ MintersOK'
  BY <1>1, <1>2 DEF IInv, TypeOK, StoreOK, MintersOK
<1>4. MintersAreDated'
  <2>1. \A s \in Session : minters[s].used \in Nat
    BY DEF IInv, TypeOK, MinterType
  <2>2. ~setup.stepsBack => \A s \in Session : minters[s].used <= now'
    BY <1>1, <2>1 DEF IInv, MintersAreDated
  <2>3. QED BY <1>2, <2>2 DEF IInv, MintersAreDated, Kept
<1>5. StoreIsMinted'
  BY <1>2 DEF IInv, StoreIsMinted, EveryMinterIsKept
<1>6. ASSUME NEW q \in Request PROVE StillFiled(q)' /\ StillIssued(q)'
  <2>1. StillFiled(q) /\ StillIssued(q) /\ flight[q].since \in Nat
    BY DEF IInv, FlightsOK, TypeOK, FlightType
  <2>2. ~MayHaveExpired(q)' => ~MayHaveExpired(q)
    <3>1. SUFFICES ASSUME ~setup.stepsBack, ~(now' - flight[q].since > Ttl)
                   PROVE  ~(now - flight[q].since > Ttl)
      BY <1>2 DEF MayHaveExpired
    <3>2. QED BY <1>1, <2>1, <3>1, SlotAssumption
  <2>3. ~MayHaveExpired(q)' /\ flight[q].since <= now => flight[q].since <= now'
    BY <1>1, <1>2, <2>1 DEF MayHaveExpired
  <2>4. StillFiled(q)'
    <3>1. SUFFICES ASSUME InFlight(q)', ~MayHaveExpired(q)'
                   PROVE  /\ flight[q].since <= now' /\ store[flight[q].session].live
                          /\ store[flight[q].session].last >= flight[q].since
                          /\ \A b \in flight[q].sent :
                               store[flight[q].session].aliases[b[1]] = b[2]
      BY <1>2 DEF StillFiled
    <3>2. InFlight(q)
      BY <1>2, <3>1 DEF InFlight
    <3>3. QED BY <2>1, <2>2, <2>3, <3>1, <3>2 DEF StillFiled
  <2>5. StillIssued(q)'
    BY <1>2, <2>1 DEF StillIssued, InFlight, EveryMinterIsKept
  <2>6. QED BY <2>4, <2>5
<1>7. FlightsOK'
  BY <1>6 DEF FlightsOK
<1>8. QED BY <1>3, <1>4, <1>5, <1>7 DEF IInv

LEMMA RestoreStep ==
  ASSUME IInv, NEW r \in Request, NEW a \in Alias, Restore(r, a)
  PROVE  IInv'
<1> DEFINE s == flight[r].session
<1>1. /\ UNCHANGED <<setup, now, access, minters>>
      /\ flight' = [flight EXCEPT ![r] = NoFlight] /\ InFlight(r)
      /\ store' = store \/ store' = [store EXCEPT ![s] = Refreshed(store[s], now)]
  BY DEF Restore, Ends, At, InFlight, IInv, TypeOK, FlightType
<1>2. s \in Session
  BY <1>1 DEF IInv, TypeOK, FlightType, InFlight
<1>3. NoFlight \in FlightType
  BY DEF NoFlight, FlightType, Stages, Binding
<1>4. /\ flight' \in [Request -> FlightType]
      /\ \A q \in Request : flight'[q] = flight[q] \/ flight'[q] = NoFlight
  BY <1>1, <1>3 DEF IInv, TypeOK
<1>5. CASE store' = store
  BY <1>1, <1>4, <1>5, FlightsEnd DEF Holding, IInv, TypeOK
<1>6. CASE store' = [store EXCEPT ![s] = Refreshed(store[s], now)]
  <2> HIDE DEF s
  <2>1. /\ store' \in [Session -> SessionType] /\ StoreOK'
        /\ StoreIsMinted' /\ FlightsOK'
    BY <1>1, <1>2, <1>4, <1>6, AgedStoreKeeps
  <2>2. TypeOK' /\ MintersOK'
    BY <1>1, <1>4, <2>1 DEF IInv, TypeOK, MintersOK
  <2>3. MintersAreDated'
    BY <1>1 DEF IInv, MintersAreDated, Kept
  <2>4. QED BY <2>1, <2>2, <2>3 DEF IInv
<1>7. QED BY <1>1, <1>5, <1>6

LEMMA InvStep == IInv /\ [Next]_vars => IInv'
<1> SUFFICES ASSUME IInv, [Next]_vars PROVE IInv'
  OBVIOUS
<1>1. flight \in [Request -> FlightType] /\ access \in BOOLEAN
  BY DEF IInv, TypeOK
<1>2. CASE Tick
  BY <1>2, TickStep
<1>3. ASSUME NEW r \in Request, TurnAway(r) PROVE IInv'
  BY <1>1, <1>3, FlightsEnd DEF TurnAway, Holding
<1>a. ASSUME NEW r \in Request, Enter(r) \/ Send(r) \/ Admit(r) PROVE IInv'
  <2>1. PICK to \in Stages :
          /\ UNCHANGED <<setup, now, store, access, minters>>
          /\ flight' = [flight EXCEPT ![r].stage = to]
          /\ to \in {"idle", "inside"} <=> flight[r].stage \in {"idle", "inside"}
    BY <1>a DEF Enter, Send, Admit, Moves, At, Stages
  <2>2. flight'[r] = [flight[r] EXCEPT !.stage = to]
        /\ \A q \in Request : q # r => flight'[q] = flight[q]
    BY <1>1, <2>1
  <2>3. flight[r] \in FlightType
    BY <1>1
  <2>4. flight'[r] \in FlightType /\ Holding(r)
    BY <2>1, <2>2, <2>3 DEF FlightType, Holding
  <2>5. flight' \in [Request -> FlightType]
    BY <1>1, <2>1, <2>2, <2>4
  <2>6. \A q \in Request : Holding(q)
    BY <2>2, <2>4 DEF Holding
  <2>7. QED BY <1>1, <2>1, <2>5, <2>6, FlightsEnd
<1>4. ASSUME NEW r \in Request, Fail(r) \/ Cut(r) \/ \E a \in Alias : HandOver(r, a)
      PROVE  IInv'
  <2>1. NoFlight \in FlightType
    BY DEF NoFlight, FlightType, Stages, Binding
  <2>2. /\ UNCHANGED <<setup, now, store, access, minters>>
        /\ flight' = [flight EXCEPT ![r] = NoFlight]
    BY <1>4 DEF Fail, Cut, HandOver, Ends
  <2>3. flight' \in [Request -> FlightType]
        /\ \A q \in Request : Holding(q) \/ flight'[q] = NoFlight
    BY <1>1, <2>1, <2>2 DEF Holding
  <2>4. QED BY <1>1, <2>2, <2>3, FlightsEnd
<1>5. ASSUME NEW r \in Request, NEW a \in Alias, Restore(r, a) PROVE IInv'
  BY <1>5, RestoreStep
<1>6. ASSUME NEW r \in Request, NEW s \in setup.sessions, NEW body \in setup.bodies,
             NEW broken \in BOOLEAN, Mask(r, s, body, broken)
      PROVE  IInv'
  BY <1>6, MaskStep
<1>7. CASE UNCHANGED vars
  BY <1>1, <1>7, FlightsEnd DEF vars, Holding
<1>8. QED BY <1>2, <1>3, <1>a, <1>4, <1>5, <1>6, <1>7 DEF Next, Answer
---------------------------------------------------------------------------
(***************************************************************************)
(* Theorems                                                                *)
(***************************************************************************)

\* gateway.rs, request_path.rs, mint.rs: in every state slots, minters and flights
\* are well formed and agree as IInv says.
THEOREM GatewayInvariant == Spec => []IInv
<1>1. IInv /\ [Next]_vars => IInv'
  BY InvStep
<1>2. QED BY InvInit, <1>1, PTL DEF Spec

\* request_path.rs mint_and_file: what a request sent is filed for as long as its
\* session may live, and its answer is read against every alias it sent.
THEOREM SentStaysFiled == Spec => []SentIsFiled
<1>1. IInv => SentIsFiled
  <2> SUFFICES ASSUME IInv, NEW r \in Request
               PROVE  /\ InFlight(r) /\ ~MayHaveExpired(r) =>
                           \A b \in flight[r].sent :
                             /\ store[flight[r].session].aliases[b[1]] = b[2]
                             /\ store[flight[r].session].reverse[b[2]] = b[1]
                      /\ ~setup.stepsBack \/ EveryMinterIsKept =>
                           flight[r].sent \subseteq flight[r].snapshot
    BY DEF SentIsFiled
  <2>1. StillFiled(r) /\ StillIssued(r) /\ flight[r] \in FlightType
    BY DEF IInv, FlightsOK, TypeOK
  <2>2. ASSUME InFlight(r), ~MayHaveExpired(r), NEW b \in flight[r].sent
        PROVE  /\ store[flight[r].session].aliases[b[1]] = b[2]
               /\ store[flight[r].session].reverse[b[2]] = b[1]
    <3>1. store[flight[r].session].aliases[b[1]] = b[2]
      BY <2>1, <2>2 DEF StillFiled
    <3>2. b[1] \in Seed /\ b[2] \in Alias /\ flight[r].session \in Session
      BY <2>1, <2>2 DEF FlightType, Binding, InFlight
    <3>3. SlotOK(store[flight[r].session])
      BY <3>2 DEF IInv, StoreOK
    <3>4. QED BY <3>1, <3>2, <3>3 DEF SlotOK
  <2>3. QED BY <2>1, <2>2 DEF StillIssued
<1>2. QED BY GatewayInvariant, <1>1, PTL

\* An answer that carries a value or leaves an alias raw is the one restore_answer
\* gives.
LEMMA AnswersComeFromRestore ==
  ASSUME IInv, Next, NEW r \in Request, NEW kind \in {"value", "raw"}, Answers(r, kind)
  PROVE  \E a \in Alias : Restore(r, a)
<1>1. InFlight(r) /\ ~InFlight(r)' /\ reply'.kind = kind /\ flight \in [Request -> FlightType]
  BY DEF Answers, IInv, TypeOK
<1>2. flight'[r] # flight[r]
  BY <1>1 DEF InFlight
<1>3. reply'.kind # "none" /\ reply'.kind # "unavailable" /\ reply'.kind # "failed"
      /\ reply'.kind # "untouched"
  BY <1>1
<1>4. ~Tick /\ \A q \in Request : /\ ~TurnAway(q) /\ ~Enter(q) /\ ~Send(q) /\ ~Admit(q)
                                   /\ ~Fail(q) /\ ~Cut(q)
                                   /\ \A a \in Alias : ~HandOver(q, a)
  BY <1>3 DEF Tick, TurnAway, Enter, Send, Admit, Fail, Cut, HandOver, Ends, NoResponse,
              Response
<1>6. ASSUME NEW q \in Request, NEW s \in setup.sessions, NEW body \in setup.bodies,
             NEW broken \in BOOLEAN, Mask(q, s, body, broken)
      PROVE  FALSE
  <2>1. /\ At(q, "inside")
        /\ \E d : flight' = [flight EXCEPT ![q] = d]
    BY <1>6 DEF Mask, Ends
  <2>2. ~InFlight(q)
    BY <1>1, <2>1 DEF At, InFlight, FlightType
  <2>3. q # r
    BY <1>1, <2>2
  <2>4. QED BY <1>1, <1>2, <2>1, <2>3
<1>7. ASSUME NEW q \in Request, NEW a \in Alias, Restore(q, a) PROVE q = r
  <2>1. flight' = [flight EXCEPT ![q] = NoFlight]
    BY <1>7 DEF Restore, Ends
  <2>2. QED BY <1>1, <1>2, <2>1
<1>8. QED BY <1>4, <1>6, <1>7 DEF Next, Answer

\* restore.rs, "answers with the value, or with nothing": the value put into an
\* answer is the one its alias stood for when the request left.
THEOREM AnswersCarryTheRightValue == Spec => RightValue
<1>1. ASSUME IInv, Next, NEW r \in Request, Answers(r, "value")
      PROVE  /\ EveryMinterIsKept => <<reply'.value, reply'.alias>> \in flight[r].snapshot
             /\ /\ ~MayHaveExpired(r)
                /\ reply'.alias \in {b[2] : b \in flight[r].sent}
                => <<reply'.value, reply'.alias>> \in flight[r].sent
  <2> DEFINE s == flight[r].session
             x == Refreshed(store[s], now)
  <2>1. PICK a \in Alias : Restore(r, a)
    BY <1>1, AnswersComeFromRestore
  <2> DEFINE sd == x.reverse[a]
  <2>2. a \in Frozen(r) /\ sd # None /\ reply'.alias = a /\ reply'.value = sd /\ InFlight(r)
    BY <1>1, <2>1 DEF Restore, Ends, Response, Answers
  <2>3. s \in Session /\ flight[r] \in FlightType /\ SlotOK(store[s]) /\ now \in Nat
    BY <1>1, <2>2 DEF IInv, TypeOK, StoreOK, FlightType, InFlight
  <2>4. AgedAs(x, store[s], now)
    BY <2>3, AgedSlot
  <2> HIDE DEF x
  <2>5. sd \in Seed /\ x.aliases[sd] = a /\ a # None
    BY <2>2, <2>4, SlotAssumption DEF AgedAs, SlotOK, SessionType
  <2>6. store[s].aliases[sd] = a /\ store[s].reverse[a] = sd
    BY <2>3, <2>4, <2>5 DEF AgedAs, SlotOK
  <2>7. StillFiled(r) /\ StillIssued(r)
    BY <1>1 DEF IInv, FlightsOK
  <2> HIDE DEF sd
  <2>8. ASSUME EveryMinterIsKept PROVE <<sd, a>> \in flight[r].snapshot
    <3>1. minters[s].issued[sd] = a
      BY <1>1, <2>3, <2>5, <2>6, <2>8 DEF IInv, StoreIsMinted, IssuedBy
    <3>2. PICK b \in flight[r].snapshot : b[2] = a
      BY <2>2 DEF Frozen
    <3>3. b \in Issued(minters[s])
      BY <2>2, <2>7, <2>8 DEF StillIssued
    <3>4. b[1] \in Seed /\ minters[s].issued[b[1]] = a /\ b = <<b[1], a>>
      BY <3>2, <3>3 DEF Issued, Binding
    <3>5. MinterOK(minters[s])
      BY <1>1, <2>3 DEF IInv, MintersOK
    <3>6. b[1] = sd
      BY <2>5, <3>1, <3>4, <3>5 DEF MinterOK
    <3>7. QED BY <3>4, <3>6
  <2>9. ASSUME ~MayHaveExpired(r), a \in {b[2] : b \in flight[r].sent}
        PROVE  <<sd, a>> \in flight[r].sent
    <3>1. PICK b \in flight[r].sent : b[2] = a
      BY <2>9
    <3>2. b[1] \in Seed /\ b = <<b[1], a>>
      BY <2>3, <3>1 DEF FlightType, Binding
    <3>3. store[s].aliases[b[1]] = a
      BY <2>2, <2>7, <2>9, <3>1 DEF StillFiled
    <3>4. store[s].reverse[a] = b[1]
      BY <2>3, <3>2, <3>3 DEF SlotOK
    <3>5. QED BY <2>6, <3>2, <3>4
  <2>10. QED BY <2>2, <2>8, <2>9
<1>2. ASSUME IInv, [Next]_vars
      PROVE  [ \A r \in Request :
                 Answers(r, "value") =>
                   LET read == <<reply'.value, reply'.alias>>
                   IN  /\ EveryMinterIsKept => read \in flight[r].snapshot
                       /\ /\ ~MayHaveExpired(r)
                          /\ reply'.alias \in {b[2] : b \in flight[r].sent}
                          => read \in flight[r].sent ]_vars
  BY <1>1, <1>2
<1>3. QED BY GatewayInvariant, <1>2, PTL DEF Spec, RightValue

\* The round trip: an alias a request sent is restored, until its session may have
\* expired.
THEOREM SentAliasesComeBack == Spec => AnswersAreRestored
<1>1. ASSUME IInv, Next, NEW r \in Request, Answers(r, "raw"),
             reply'.alias \in {b[2] : b \in flight[r].sent}
      PROVE  MayHaveExpired(r)
  <2> DEFINE s == flight[r].session
             x == Refreshed(store[s], now)
  <2>1. PICK a \in Alias : Restore(r, a)
    BY <1>1, AnswersComeFromRestore
  <2>2. reply'.alias = a /\ InFlight(r) /\ (a \in Frozen(r) => x.reverse[a] = None)
    BY <1>1, <2>1 DEF Restore, Ends, Response, Answers
  <2>3. s \in Session /\ flight[r] \in FlightType /\ SlotOK(store[s]) /\ now \in Nat
    BY <1>1, <2>2 DEF IInv, TypeOK, StoreOK, FlightType, InFlight
  <2>4. AgedAs(x, store[s], now)
    BY <2>3, AgedSlot
  <2> HIDE DEF x
  <2>5. SUFFICES ASSUME ~MayHaveExpired(r) PROVE FALSE
    OBVIOUS
  <2>6. StillFiled(r) /\ StillIssued(r)
    BY <1>1 DEF IInv, FlightsOK
  <2>7. PICK b \in flight[r].sent : b[2] = a
    BY <1>1, <2>2
  <2>8. a \in Frozen(r)
    <3>1. ~setup.stepsBack
      BY <2>5 DEF MayHaveExpired
    <3>2. b \in flight[r].snapshot
      BY <2>6, <2>7, <3>1 DEF StillIssued
    <3>3. QED BY <2>7, <3>2 DEF Frozen
  <2>9. b[1] \in Seed /\ b[1] # None
    BY <2>3, <2>7, SlotAssumption DEF FlightType, Binding
  <2>10. /\ store[s].live /\ store[s].last >= flight[r].since /\ store[s].aliases[b[1]] = a
         /\ flight[r].since <= now /\ ~(now - flight[r].since > Ttl)
    BY <2>2, <2>5, <2>6, <2>7 DEF StillFiled, MayHaveExpired
  <2>11. ~Expired(store[s], now)
    <3>1. store[s].last \in Nat /\ flight[r].since \in Nat
      BY <2>3 DEF SlotOK, SessionType, FlightType
    <3>2. ~(now - store[s].last > Ttl)
      BY <2>3, <2>10, <3>1, SlotAssumption
    <3>3. QED BY <3>2 DEF Expired
  <2>12. x.reverse[a] = b[1]
    <3>1. store[s].reverse[a] = b[1]
      BY <2>3, <2>9, <2>10 DEF SlotOK
    <3>2. QED BY <2>4, <2>10, <2>11, <3>1 DEF AgedAs
  <2>13. QED BY <2>2, <2>8, <2>9, <2>12
<1>2. ASSUME IInv, [Next]_vars
      PROVE  [ \A r \in Request :
                 Answers(r, "raw") /\ reply'.alias \in {b[2] : b \in flight[r].sent}
                 => MayHaveExpired(r) ]_vars
  BY <1>1, <1>2
<1>3. QED BY GatewayInvariant, <1>2, PTL DEF Spec, AnswersAreRestored

\* gateway.rs passthrough: once the vault is lost it stays lost, what still crosses
\* was past the door by then, and what is still delivered past the second look.
THEOREM LostVaultStaysClosed == Spec => FailClosed
<1> DEFINE Closed == /\ ~access'
                     /\ Inside' \subseteq Inside /\ Admitted' \subseteq Admitted
                     /\ \A r \in Request :
                          (\E kind \in {"value", "raw", "untouched"} : Answers(r, kind))
                          => r \in Admitted
<1>1. ASSUME IInv, Next, ~access PROVE Closed
  <2>1. flight \in [Request -> FlightType] /\ NoFlight.stage = "idle"
    BY <1>1 DEF IInv, TypeOK, NoFlight
  <2>2. ~access'
    <3>1. ASSUME NEW q \in Request, NEW s \in setup.sessions, NEW body \in setup.bodies,
                 NEW broken \in BOOLEAN, Mask(q, s, body, broken)
          PROVE  ~access'
      BY <1>1, <3>1 DEF Mask
    <3>2. ASSUME NEW q \in Request,
                 \/ TurnAway(q) \/ Enter(q) \/ Send(q) \/ Admit(q) \/ Fail(q) \/ Cut(q)
                 \/ \E a \in Alias : Restore(q, a) \/ HandOver(q, a)
          PROVE  access' = access
      BY <3>2 DEF TurnAway, Enter, Send, Admit, Fail, Cut, Restore, HandOver
    <3>3. Tick => access' = access
      BY DEF Tick
    <3>4. QED BY <1>1, <3>1, <3>2, <3>3 DEF Next, Answer
  <2>3. \/ flight' = flight
        \/ \E q \in Request :
             \/ flight' = [flight EXCEPT ![q] = NoFlight]
             \/ /\ ~At(q, "idle")
                /\ \E d : flight' = [flight EXCEPT ![q] = d] /\ d.stage \in {"masked", "sent"}
    <3>1. ASSUME NEW q \in Request, Enter(q) \/ Admit(q) PROVE FALSE
      BY <1>1, <3>1 DEF Enter, Admit, AtTheDoor
    <3>2. ASSUME NEW q \in Request, Send(q)
          PROVE  /\ ~At(q, "idle")
                 /\ \E d : flight' = [flight EXCEPT ![q] = d] /\ d.stage \in {"masked", "sent"}
      <4> DEFINE d == [flight[q] EXCEPT !.stage = "sent"]
      <4>1. flight' = [flight EXCEPT ![q] = d] /\ ~At(q, "idle")
        BY <2>1, <3>2 DEF Send, Moves, At
      <4>2. d.stage = "sent"
        BY <2>1 DEF FlightType
      <4>3. QED BY <4>1, <4>2
    <3>3. ASSUME NEW q \in Request, NEW s \in setup.sessions, NEW body \in setup.bodies,
                 NEW broken \in BOOLEAN, Mask(q, s, body, broken)
          PROVE  \/ flight' = [flight EXCEPT ![q] = NoFlight]
                 \/ /\ ~At(q, "idle")
                    /\ \E d : /\ flight' = [flight EXCEPT ![q] = d]
                              /\ d.stage \in {"masked", "sent"}
      BY <3>3 DEF Mask, Ends, At
    <3>4. ASSUME NEW q \in Request,
                 Fail(q) \/ Cut(q) \/ \E a \in Alias : Restore(q, a) \/ HandOver(q, a)
          PROVE  flight' = [flight EXCEPT ![q] = NoFlight]
      BY <3>4 DEF Fail, Cut, Restore, HandOver, Ends
    <3>5. ASSUME Tick \/ \E q \in Request : TurnAway(q) PROVE flight' = flight
      BY <3>5 DEF Tick, TurnAway
    <3>6. QED BY <1>1, <3>1, <3>2, <3>3, <3>4, <3>5 DEF Next, Answer
  <2>4. ASSUME NEW r \in Request
        PROVE  /\ ~At(r, "idle")' => ~At(r, "idle")
               /\ At(r, "answered")' => At(r, "answered")
    BY <2>1, <2>3 DEF At
  <2>5. ASSUME NEW r \in Request, NEW kind \in {"value", "raw", "untouched"}, Answers(r, kind)
        PROVE  At(r, "answered")
    <3>1. InFlight(r) /\ ~InFlight(r)' /\ flight'[r] # flight[r] /\ reply'.kind = kind
      BY <2>5 DEF Answers, InFlight
    <3>2. CASE kind \in {"value", "raw"}
      <4>1. PICK a \in Alias : Restore(r, a)
        BY <1>1, <2>5, <3>2, AnswersComeFromRestore
      <4>2. QED BY <4>1 DEF Restore
    <3>3. CASE kind = "untouched"
      <4>1. ASSUME NEW q \in Request, NEW s \in setup.sessions, NEW body \in setup.bodies,
                   NEW broken \in BOOLEAN, Mask(q, s, body, broken)
            PROVE  FALSE
        <5>1. At(q, "inside") /\ \E d : flight' = [flight EXCEPT ![q] = d]
          BY <4>1 DEF Mask, Ends
        <5>2. q = r
          BY <2>1, <3>1, <5>1
        <5>3. QED BY <2>1, <3>1, <5>1, <5>2 DEF At, InFlight, FlightType
      <4>2. ASSUME NEW q \in Request, NEW a \in Alias, Restore(q, a) PROVE FALSE
        BY <3>1, <3>3, <4>2 DEF Restore, Ends, Response
      <4>3. ASSUME \/ Tick
                   \/ \E q \in Request : \/ TurnAway(q) \/ Enter(q) \/ Send(q) \/ Admit(q)
                                         \/ Fail(q) \/ Cut(q)
            PROVE  FALSE
        BY <3>1, <3>3, <4>3
           DEF Tick, TurnAway, Enter, Send, Admit, Fail, Cut, Ends, NoResponse, Response
      <4>4. PICK q \in Request : \E a \in Alias : HandOver(q, a)
        BY <1>1, <4>1, <4>2, <4>3 DEF Next, Answer
      <4>5. At(q, "answered") /\ flight' = [flight EXCEPT ![q] = NoFlight]
        BY <4>4 DEF HandOver, Ends
      <4>6. QED BY <2>1, <3>1, <4>5
    <3>4. QED BY <3>2, <3>3
  <2>6. QED BY <2>2, <2>4, <2>5 DEF Inside, Admitted
<1>2. ASSUME IInv, [Next]_vars PROVE [~access => Closed]_vars
  BY <1>1, <1>2
<1>3. QED BY GatewayInvariant, <1>2, PTL DEF Spec, FailClosed
=============================================================================
