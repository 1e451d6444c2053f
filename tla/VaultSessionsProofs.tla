------------------------ MODULE VaultSessionsProofs ------------------------
(***************************************************************************)
(* Theorems about VaultSessions: what every slot of the session store      *)
(* keeps, for any set of sessions, seeds and aliases and any limits.       *)
(*                                                                         *)
(* The argument is about one slot at a time: SlotOK says what a slot is,   *)
(* and one lemma for each operator of session.rs says the operator keeps   *)
(* it.  The step lemma then only has to say which operator an action       *)
(* applies.                                                                *)
(***************************************************************************)
EXTENDS VaultSessions, FiniteSetTheorems, TLAPS

---------------------------------------------------------------------------
(***************************************************************************)
(* The operators of a slot                                                 *)
(***************************************************************************)

\* One slot: typed, empty unless it is live, its two maps inverse, no larger than
\* the ceiling.
SlotOK(x) ==
  /\ x \in SessionType
  /\ x.live \/ x = Gone
  /\ \A sd \in Seed : \A a \in Alias : x.aliases[sd] = a <=> x.reverse[a] = sd
  /\ AliasCount(x) <= Ceiling

\* An empty slot, and one that has just been started, are slots.
LEMMA EmptySlot == SlotOK(Gone) /\ \A t \in Nat : SlotOK(Fresh(t))
<1>1. Gone \in SessionType /\ \A t \in Nat : Fresh(t) \in SessionType
  BY SlotAssumption DEF Gone, Fresh, SessionType
<1>2. \A sd \in Seed : \A a \in Alias :
        Gone.aliases[sd] = a <=> Gone.reverse[a] = sd
  BY SlotAssumption DEF Gone
<1>3. AliasCount(Gone) <= Ceiling
  <2>1. {sd \in Seed : Gone.aliases[sd] # None} = {}
    BY DEF Gone
  <2>2. QED BY <2>1, FS_EmptySet, SlotAssumption DEF AliasCount
<1>4. \A t \in Nat : Fresh(t).aliases = Gone.aliases
                     /\ Fresh(t).reverse = Gone.reverse
  BY DEF Fresh, Gone
<1>5. \A t \in Nat : Fresh(t).live
  BY DEF Fresh, Gone
<1>6. QED BY <1>1, <1>2, <1>3, <1>4, <1>5 DEF SlotOK, AliasCount

\* Moving a deadline touches neither map.
LEMMA TouchedSlot ==
  ASSUME NEW x, SlotOK(x), x.live, NEW t \in Nat
  PROVE  SlotOK([x EXCEPT !.last = Later(x.last, t)])
<1>1. Later(x.last, t) \in Nat
  BY DEF SlotOK, SessionType, Later
<1>2. [x EXCEPT !.last = Later(x.last, t)] \in SessionType
  BY <1>1 DEF SlotOK, SessionType
<1>3. /\ [x EXCEPT !.last = Later(x.last, t)].aliases = x.aliases
      /\ [x EXCEPT !.last = Later(x.last, t)].reverse = x.reverse
      /\ [x EXCEPT !.last = Later(x.last, t)].live
  BY DEF SlotOK, SessionType
<1>4. QED BY <1>2, <1>3 DEF SlotOK, AliasCount

\* refresh and ensure leave a slot a slot, and ensure leaves it live.
LEMMA RefreshedSlot ==
  ASSUME NEW x, SlotOK(x), NEW t \in Nat
  PROVE  SlotOK(Refreshed(x, t))
BY EmptySlot, TouchedSlot DEF Refreshed

LEMMA EnsuredSlot ==
  ASSUME NEW x, SlotOK(x), NEW t \in Nat
  PROVE  SlotOK(Ensured(x, t)) /\ Ensured(x, t).live
<1>1. Fresh(t).live
  BY DEF Fresh, Gone
<1>2. x.live /\ ~Expired(x, t) => Refreshed(x, t).live
  BY DEF Refreshed, SlotOK, SessionType
<1>3. QED BY <1>1, <1>2, EmptySlot, RefreshedSlot DEF Ensured

\* A record that neither collides nor is one too many keeps the maps inverse.
LEMMA InsertedSlot ==
  ASSUME NEW x, SlotOK(x), x.live, NEW sd \in Seed, NEW a \in Alias,
         x.aliases[sd] = None, ~Collides(x, sd, a), ~Full(x)
  PROVE  SlotOK(Inserted(x, sd, a))
<1> DEFINE y == Inserted(x, sd, a)
<1>1. y \in SessionType
  BY DEF SlotOK, SessionType, Inserted
<1>2. /\ y.aliases = [x.aliases EXCEPT ![sd] = a]
      /\ y.reverse = [x.reverse EXCEPT ![a] = sd]
      /\ y.live
  BY DEF SlotOK, SessionType, Inserted
<1>3. x.reverse[a] = None
  BY SlotAssumption DEF SlotOK, SessionType, Collides
<1>4. \A sd2 \in Seed : \A a2 \in Alias :
        y.aliases[sd2] = a2 <=> y.reverse[a2] = sd2
  BY <1>2, <1>3, SlotAssumption DEF SlotOK, SessionType
<1>5. AliasCount(y) <= Ceiling
  <2> DEFINE S == {sd2 \in Seed : x.aliases[sd2] # None}
  <2>1. IsFiniteSet(S) /\ Cardinality(S) \in Nat
    BY FS_Subset, FS_CardinalityType, SlotAssumption
  <2>2. {sd2 \in Seed : y.aliases[sd2] # None} = S \cup {sd}
    BY <1>2, SlotAssumption DEF SlotOK, SessionType
  <2>3. sd \notin S
    OBVIOUS
  <2>4. Cardinality(S \cup {sd}) = Cardinality(S) + 1
    BY <2>1, <2>3, FS_AddElement
  <2>5. Cardinality(S) < Ceiling
    BY <2>1, SlotAssumption DEF Full, AliasCount
  <2>6. AliasCount(y) = Cardinality(S \cup {sd})
    BY <2>2 DEF AliasCount
  <2> HIDE DEF S, y
  <2>7. QED BY <2>1, <2>4, <2>5, <2>6, SlotAssumption
<1>6. QED BY <1>1, <1>2, <1>4, <1>5 DEF SlotOK

\* The undo puts back the slot that was there before the insert.
LEMMA ForgottenSlot ==
  ASSUME NEW x, SlotOK(x), NEW sd \in Seed, NEW a \in Alias,
         x.aliases[sd] = None, ~Collides(x, sd, a)
  PROVE  Forgotten(Inserted(x, sd, a), sd, a) = x
<1>1. x.reverse[a] = None
  BY SlotAssumption DEF SlotOK, SessionType, Collides
<1> DEFINE y == Forgotten(Inserted(x, sd, a), sd, a)
<1>2. /\ x \in SessionType /\ y \in SessionType
      /\ y.live = x.live /\ y.last = x.last
      /\ y.aliases = [[x.aliases EXCEPT ![sd] = a] EXCEPT ![sd] = None]
      /\ y.reverse = [[x.reverse EXCEPT ![a] = sd] EXCEPT ![a] = None]
  BY DEF SlotOK, SessionType, Inserted, Forgotten
<1>3. y.aliases = x.aliases /\ y.reverse = x.reverse
  BY <1>1, <1>2 DEF SessionType
<1> HIDE DEF y
<1>4. y = x
  BY <1>2, <1>3 DEF SessionType
<1>5. QED BY <1>4 DEF y

\* A slot that resolves an alias is live, and neither operator that ages a slot
\* moves the alias while the slot has not expired.
LEMMA AgedSlotKeepsBindings ==
  ASSUME NEW x, SlotOK(x), NEW t \in Nat, NEW a \in Alias,
         x.reverse[a] # None, ~Expired(x, t)
  PROVE  /\ Refreshed(x, t).reverse = x.reverse
         /\ Ensured(x, t).reverse = x.reverse
<1>1. x.live
  BY DEF SlotOK, Gone
<1>2. Refreshed(x, t).reverse = x.reverse
  BY <1>1 DEF Refreshed, SlotOK, SessionType
<1>3. QED BY <1>1, <1>2 DEF Ensured

---------------------------------------------------------------------------
(***************************************************************************)
(* The store                                                               *)
(***************************************************************************)

StoreOK == \A s \in Session : SlotOK(store[s])

IInv == TypeOK /\ StoreOK

---------------------------------------------------------------------------
\* A purge, and the sweep at the first clock, keep every slot.
LEMMA PurgedStore ==
  ASSUME IInv
  PROVE  /\ \A s \in Session : SlotOK(PurgedAt(now)[s]) /\ SlotOK(Swept[s])
         /\ PurgedAt(now) \in [Session -> SessionType]
         /\ Swept \in [Session -> SessionType]
<1>1. \A s \in Session : SlotOK(PurgedAt(now)[s]) /\ SlotOK(Swept[s])
  BY EmptySlot DEF IInv, StoreOK, PurgedAt, Swept
<1>2. QED BY <1>1 DEF IInv, TypeOK, PurgedAt, Swept, SlotOK

\* The frames of a compaction are frames, and each is in the sequence written.
LEMMA CompactedFrames ==
  ASSUME NEW st \in [Session -> SessionType], NEW q \in SetToSeqs(LiveFrames(st))
  PROVE  /\ q \in Seq(Frame)
         /\ \A f \in LiveFrames(st) : \E k \in 1..Len(q) : q[k] = f
<1> DEFINE F == LiveFrames(st)
           K == {k \in Session \X Seed :
                   st[k[1]].live /\ st[k[1]].aliases[k[2]] # None}
           Rec(k) == [session |-> k[1], seed |-> k[2],
                      alias |-> st[k[1]].aliases[k[2]], stamp |-> st[k[1]].last]
           n == Cardinality(F)
<1>1. F \subseteq Frame
  BY DEF LiveFrames, Frame, SessionType
<1>2. IsFiniteSet(F)
  <2>1. IsFiniteSet(K)
    <3>1. IsFiniteSet(Session \X Seed)
      BY FS_Product, SlotAssumption, SessionsAssumption
    <3>2. QED BY <3>1, FS_Subset
  <2>2. DEFINE g == [k \in K |-> Rec(k)]
  <2>3. F = {Rec(k) : k \in K}
    BY DEF LiveFrames
  <2>4. g \in Surjection(K, F)
    BY <2>3 DEF Surjection
  <2>5. QED BY <2>1, <2>4, FS_Surjection
<1>3. n \in Nat
  BY <1>2, FS_CardinalityType
<1>4. q \in [1..n -> F] /\ \A i, j \in 1..n : i # j => q[i] # q[j]
  BY DEF SetToSeqs
<1>5. q \in Seq(F) /\ Len(q) = n
  BY <1>3, <1>4
<1>6. q \in Surjection(1..n, F)
  <2>1. q \in Injection(1..n, F)
    BY <1>4 DEF Injection, IsInjective
  <2>2. Cardinality(1..n) = n
    BY <1>3, FS_Interval
  <2>3. QED BY <1>2, <2>1, <2>2, FS_Injection
<1>7. QED BY <1>1, <1>5, <1>6 DEF Surjection

---------------------------------------------------------------------------
(***************************************************************************)
(* The invariant of the store                                              *)
(***************************************************************************)

LEMMA InvInit == Init => IInv
<1> SUFFICES ASSUME Init PROVE IInv
  OBVIOUS
<1>1. StoreOK
  BY EmptySlot DEF Init, StoreOK
<1>2. TypeOK
  <2>1. store \in [Session -> SessionType]
    BY <1>1 DEF Init, StoreOK, SlotOK
  <2>2. now \in Nat
    BY SlotAssumption, SessionsAssumption DEF Init
  <2>3. lastClock \in Int /\ loaded \in Nat /\ frames \in Seq(Frame)
    BY DEF Init
  <2>4. /\ awaiting \in BOOLEAN /\ answer \in Answers
        /\ phase \in {"down", "loading", "up", "failed"}
    BY DEF Init, Answers
  <2>5. era \in [Session -> SUBSET (Seed \X Alias)]
    BY DEF Init
  <2>6. QED BY <2>1, <2>2, <2>3, <2>4, <2>5 DEF TypeOK
<1>3. QED BY <1>1, <1>2 DEF IInv

\* The operations that leave the file alone.
LEMMA InvStep == IInv /\ [Next]_vars => IInv'
<1> SUFFICES ASSUME IInv, [Next]_vars PROVE IInv'
  OBVIOUS
<1> USE SlotAssumption, SessionsAssumption
<1>t. TypeOK /\ StoreOK /\ now \in Nat
  BY DEF IInv, TypeOK
<1>w. /\ \A s \in Session : SlotOK(PurgedAt(now)[s]) /\ SlotOK(Swept[s])
      /\ PurgedAt(now) \in [Session -> SessionType]
      /\ Swept \in [Session -> SessionType]
  BY PurgedStore
<1>c. Clocked => lastClock' \in Int /\ awaiting' \in BOOLEAN
  <2>1. Clocked => lastClock' \in Int
    BY <1>t DEF Clocked, Later, TypeOK
  <2>2. Clocked => awaiting' \in BOOLEAN
    BY DEF Clocked
  <2>3. QED BY <2>1, <2>2
<1>l. \A T \in SUBSET Session : LivesAfter(T) \in [Session -> SUBSET (Seed \X Alias)]
  BY <1>t DEF LivesAfter, TypeOK
<1>g. /\ [s \in Session |-> Gone] \in [Session -> SessionType]
      /\ \A s \in Session : SlotOK([r \in Session |-> Gone][s])
  BY EmptySlot DEF SlotOK
<1>1. CASE Tick
  BY <1>1, <1>t DEF Tick, IInv, TypeOK, StoreOK
<1>2. CASE Open
  <2>1. StoreOK' /\ store' \in [Session -> SessionType]
    BY <1>2, <1>g DEF Open, StoreOK
  <2>2. lastClock' \in Int /\ loaded' \in Nat
    BY <1>2 DEF Open
  <2>3. /\ awaiting' \in BOOLEAN /\ answer' \in Answers
        /\ phase' \in {"down", "loading", "up", "failed"}
    BY <1>2 DEF Open, Answers
  <2>4. era' \in [Session -> SUBSET (Seed \X Alias)]
    BY <1>2, <1>t DEF Open, TypeOK
  <2>5. QED BY <1>2, <2>1, <2>2, <2>3, <2>4, <1>t DEF Open, IInv, TypeOK
<1>3. CASE LoadFrame
  <2> DEFINE f == frames[loaded + 1]
             x == IF store[f.session].live
                  THEN [store[f.session] EXCEPT !.last = Later(@, f.stamp)]
                  ELSE Fresh(f.stamp)
             held == Holds(x, f.seed, f.alias)
             refused == ~held /\ (Collides(x, f.seed, f.alias) \/ Full(x))
             y == IF refused \/ held THEN x ELSE Inserted(x, f.seed, f.alias)
  <2>1. f \in Frame
    BY <1>3, <1>t DEF LoadFrame, TypeOK
  <2>2. /\ f.session \in Session /\ f.seed \in Seed
        /\ f.alias \in Alias /\ f.stamp \in Nat
    BY <2>1 DEF Frame
  <2> HIDE DEF f
  <2>3. SlotOK(x) /\ x.live
    <3>1. CASE store[f.session].live
      <4>1. x = [store[f.session] EXCEPT !.last =
                   Later(store[f.session].last, f.stamp)]
        BY <3>1
      <4>2. SlotOK(store[f.session])
        BY <1>t, <2>2 DEF StoreOK
      <4>3. QED BY <4>1, <4>2, <3>1, <2>2, TouchedSlot DEF SlotOK, SessionType
    <3>2. CASE ~store[f.session].live
      BY <3>2, <2>2, EmptySlot DEF Fresh, Gone
    <3>3. QED BY <3>1, <3>2
  <2>4. SlotOK(y)
    <3> HIDE DEF x
    <3>1. CASE ~refused /\ ~held
      <4>1. x.aliases[f.seed] = None /\ ~Collides(x, f.seed, f.alias) /\ ~Full(x)
        BY <3>1, <2>2, <2>3 DEF SlotOK, SessionType, Collides, Holds
      <4>2. QED BY <3>1, <4>1, <2>2, <2>3, InsertedSlot
    <3>2. QED BY <3>1, <2>3
  <2>5. store' = [store EXCEPT ![f.session] = y]
    BY <1>3 DEF LoadFrame, f
  <2> HIDE DEF x, y
  <2>6. StoreOK' /\ store' \in [Session -> SessionType]
    BY <2>2, <2>4, <2>5, <1>t DEF StoreOK, TypeOK, SlotOK
  <2>7. QED BY <1>3, <2>6, <1>t DEF LoadFrame, IInv, TypeOK
<1>4. CASE Loaded
  BY <1>4, <1>t DEF Loaded, IInv, TypeOK, StoreOK
<1>5. CASE Stop
  <2>1. StoreOK' /\ store' \in [Session -> SessionType]
    BY <1>5, <1>g DEF Stop, StoreOK
  <2>2. lastClock' \in Int /\ loaded' \in Nat
    BY <1>5 DEF Stop
  <2>3. /\ awaiting' \in BOOLEAN /\ answer' \in Answers
        /\ phase' \in {"down", "loading", "up", "failed"}
    BY <1>5 DEF Stop, Answers
  <2>4. era' \in [Session -> SUBSET (Seed \X Alias)]
    BY <1>5, <1>t DEF Stop, TypeOK
  <2>5. QED BY <1>5, <2>1, <2>2, <2>3, <2>4, <1>t DEF Stop, IInv, TypeOK
<1>6. ASSUME NEW s \in Session, OpenSession(s) PROVE IInv'
  <2>1. SlotOK(Ensured(Swept[s], now))
    BY <1>t, <1>w, EnsuredSlot
  <2>2. store' = [Swept EXCEPT ![s] = Ensured(Swept[s], now)]
    BY <1>6, <1>w DEF OpenSession
  <2>3. StoreOK' /\ store' \in [Session -> SessionType]
    BY <2>1, <2>2, <1>w DEF StoreOK, SlotOK
  <2>4. QED BY <1>6, <2>3, <1>t, <1>c, <1>l DEF OpenSession, IInv, TypeOK, Answers
<1>7. ASSUME NEW s \in Session, NEW sd \in Seed, NEW a \in Alias,
             StoreNothing(s, sd, a)
      PROVE  IInv'
  <2>1. SlotOK(Ensured(Swept[s], now))
    BY <1>t, <1>w, EnsuredSlot
  <2>2. store' = [Swept EXCEPT ![s] = Ensured(Swept[s], now)]
    BY <1>7 DEF StoreNothing
  <2>3. StoreOK' /\ store' \in [Session -> SessionType]
    BY <2>1, <2>2, <1>w DEF StoreOK, SlotOK
  <2>4. QED BY <1>7, <2>3, <1>t, <1>c, <1>l DEF StoreNothing, IInv, TypeOK, Answers
<1>8. ASSUME NEW s \in Session, NEW sd \in Seed, NEW a \in Alias,
             StoreNew(s, sd, a)
      PROVE  IInv'
  <2> DEFINE x == Ensured(Swept[s], now)
             f == [session |-> s, seed |-> sd, alias |-> a, stamp |-> now]
  <2>1. SlotOK(x) /\ x.live
    BY <1>t, <1>w, EnsuredSlot
  <2>2. x.aliases[sd] = None /\ ~Collides(x, sd, a) /\ ~Full(x)
    BY <1>8 DEF StoreNew
  <2>3. SlotOK(Inserted(x, sd, a)) /\ SlotOK(Forgotten(Inserted(x, sd, a), sd, a))
    BY <2>1, <2>2, InsertedSlot, ForgottenSlot
  <2>4. \/ store' = [Swept EXCEPT ![s] = Inserted(x, sd, a)]
        \/ store' = [Swept EXCEPT ![s] = Forgotten(Inserted(x, sd, a), sd, a)]
    BY <1>8 DEF StoreNew
  <2>5. StoreOK' /\ store' \in [Session -> SessionType]
    BY <2>3, <2>4, <1>w DEF StoreOK, SlotOK
  <2>6. f \in Frame
    BY <1>t DEF Frame
  <2>7. frames' \in Seq(Frame)
    <3>1. frames \in Seq(Frame)
      BY <1>t DEF TypeOK
    <3>2. frames' = frames \/ frames' = Append(frames, f)
      BY <1>8 DEF StoreNew
    <3> HIDE DEF f
    <3>3. QED BY <2>6, <3>1, <3>2
  <2>8. era' \in [Session -> SUBSET (Seed \X Alias)]
    BY <1>8, <1>l DEF StoreNew
  <2>9. answer' \in Answers
    BY <1>8 DEF StoreNew, Answers
  <2>10. QED BY <1>8, <2>5, <2>7, <2>8, <2>9, <1>t, <1>c
             DEF StoreNew, IInv, TypeOK
<1>9. ASSUME NEW s \in Session, NEW a \in Alias, Restore(s, a) PROVE IInv'
  <2>1. SlotOK(Refreshed(Swept[s], now))
    BY <1>t, <1>w, RefreshedSlot
  <2>2. store' = [Swept EXCEPT ![s] = Refreshed(Swept[s], now)]
    BY <1>9 DEF Restore
  <2>3. StoreOK' /\ store' \in [Session -> SessionType]
    BY <2>1, <2>2, <1>w DEF StoreOK, SlotOK
  <2>4. QED BY <1>9, <2>3, <1>t, <1>c, <1>l DEF Restore, IInv, TypeOK, Answers
<1>10. CASE Purge
  BY <1>10, <1>t, <1>w, <1>c, <1>l DEF Purge, IInv, TypeOK, StoreOK, Answers
<1>11. CASE Compact
  <2>1. StoreOK' /\ store' \in [Session -> SessionType]
    BY <1>11, <1>w DEF Compact, StoreOK
  <2>2. frames' \in Seq(Frame)
    BY <1>11, <1>t, <1>w, CompactedFrames DEF Compact, TypeOK
  <2>3. QED BY <1>11, <2>1, <2>2, <1>t, <1>c, <1>l
            DEF Compact, IInv, TypeOK, Answers
<1>12. CASE UNCHANGED vars
  BY <1>12, <1>t DEF vars, IInv, TypeOK, StoreOK
<1>13. QED BY <1>1, <1>2, <1>3, <1>4, <1>5, <1>6, <1>7, <1>8, <1>9, <1>10,
              <1>11, <1>12 DEF Next

\* The inductive invariant holds in every state.
THEOREM StoreInvariant == Spec => []IInv
BY InvInit, InvStep, PTL DEF Spec

\* Type correctness of the vault.
THEOREM TypeCorrect == Spec => []TypeOK
BY StoreInvariant, PTL DEF IInv

\* session.rs insert and forget: one alias never stands for two values, through
\* every insert, undo, expiry and reload of any number of sessions.
THEOREM BooksAlwaysAgree == Spec => []BooksAgree
<1>1. IInv => BooksAgree
  BY DEF IInv, StoreOK, SlotOK, BooksAgree
<1>2. QED BY <1>1, StoreInvariant, PTL

\* session.rs insert: no order of stores and reloads passes the ceiling.
THEOREM CeilingAlwaysHeld == Spec => []CeilingHeld
<1>1. IInv => CeilingHeld
  BY DEF IInv, StoreOK, SlotOK, CeilingHeld
<1>2. QED BY <1>1, StoreInvariant, PTL

---------------------------------------------------------------------------
(***************************************************************************)
(* Bindings do not move                                                    *)
(***************************************************************************)

\* session.rs: in an open vault an alias keeps its value for as long as its session
\* has not expired, whatever is stored, refused, undone, purged or compacted.
THEOREM BindingsAreStable == Spec => BindingIsStable
<1> DEFINE Stable ==
      \A s \in Session : \A a \in Alias :
        /\ phase = "up" /\ phase' = "up"
        /\ store[s].reverse[a] # None /\ ~Expired(store[s], now)
        => store'[s].reverse[a] = store[s].reverse[a]
<1>1. IInv /\ [Next]_vars => Stable
  <2> SUFFICES ASSUME IInv, [Next]_vars,
                      NEW r \in Session, NEW b \in Alias,
                      phase = "up", phase' = "up",
                      store[r].reverse[b] # None, ~Expired(store[r], now)
               PROVE  store'[r].reverse[b] = store[r].reverse[b]
    OBVIOUS
  <2> USE SlotAssumption, SessionsAssumption
  <2>t. StoreOK /\ now \in Nat /\ store \in [Session -> SessionType]
    BY DEF IInv, TypeOK
  <2>w. /\ Swept \in [Session -> SessionType]
        /\ PurgedAt(now) \in [Session -> SessionType]
        /\ Swept[r] = store[r] /\ PurgedAt(now)[r] = store[r]
        /\ \A s \in Session : SlotOK(Swept[s])
    BY <2>t, PurgedStore DEF Swept, PurgedAt
  <2>a. /\ Refreshed(Swept[r], now).reverse = store[r].reverse
        /\ Ensured(Swept[r], now).reverse = store[r].reverse
    BY <2>t, <2>w, AgedSlotKeepsBindings DEF StoreOK
  <2>1. ASSUME NEW s \in Session, OpenSession(s)
        PROVE  store'[r].reverse[b] = store[r].reverse[b]
    BY <2>1, <2>w, <2>a DEF OpenSession
  <2>2. ASSUME NEW s \in Session, NEW sd \in Seed, NEW a \in Alias,
               StoreNothing(s, sd, a)
        PROVE  store'[r].reverse[b] = store[r].reverse[b]
    BY <2>2, <2>w, <2>a DEF StoreNothing
  <2>3. ASSUME NEW s \in Session, NEW sd \in Seed, NEW a \in Alias,
               StoreNew(s, sd, a)
        PROVE  store'[r].reverse[b] = store[r].reverse[b]
    <3> DEFINE x == Ensured(Swept[s], now)
               z == Inserted(x, sd, a)
    <3>1. SlotOK(x) /\ x.live
      BY <2>t, <2>w, EnsuredSlot
    <3>2. x.aliases[sd] = None /\ ~Collides(x, sd, a) /\ ~Full(x)
      BY <2>3 DEF StoreNew
    <3>3. Forgotten(z, sd, a) = x
      BY <3>1, <3>2, ForgottenSlot
    <3>4. store' = [Swept EXCEPT ![s] = z] \/ store' = [Swept EXCEPT ![s] = x]
      BY <2>3, <3>3 DEF StoreNew
    <3>5. CASE s = r
      <4>1. x.reverse = store[r].reverse
        BY <2>a, <3>5
      <4>2. x.reverse[a] = None
        BY <3>1, <3>2 DEF SlotOK, SessionType, Collides
      <4>3. z.reverse[b] = x.reverse[b]
        BY <2>t, <3>1, <4>1, <4>2 DEF Inserted, SlotOK, SessionType
      <4> HIDE DEF x, z
      <4>4. QED BY <2>w, <3>4, <3>5, <4>1, <4>3
    <3>6. CASE s # r
      <4> HIDE DEF x, z
      <4>1. QED BY <2>w, <3>4, <3>6
    <3>7. QED BY <3>5, <3>6
  <2>4. ASSUME NEW s \in Session, NEW a \in Alias, Restore(s, a)
        PROVE  store'[r].reverse[b] = store[r].reverse[b]
    BY <2>4, <2>w, <2>a DEF Restore
  <2>5. CASE Purge \/ Compact
    BY <2>5, <2>w DEF Purge, Compact
  <2>6. CASE Tick \/ Loaded \/ UNCHANGED vars
    BY <2>6 DEF Tick, Loaded, vars
  <2>7. CASE Open \/ LoadFrame \/ Stop
    BY <2>7 DEF Open, LoadFrame, Stop
  <2>8. QED BY <2>1, <2>2, <2>3, <2>4, <2>5, <2>6, <2>7 DEF Next
<1>2. QED BY <1>1, StoreInvariant, PTL DEF Spec, BindingIsStable

---------------------------------------------------------------------------
(***************************************************************************)
(* In file mode the file has everything memory answers from                *)
(***************************************************************************)

\* What slot x of session s resolves is in the first n of the frames q.
Covers(q, n, s, x) ==
  \A sd \in Seed :
    x.aliases[sd] # None =>
      \E k \in 1..n : /\ q[k].session = s /\ q[k].seed = sd
                      /\ q[k].alias = x.aliases[sd]

\* While a file is loading the frames read so far cover the slots, and from then
\* on all of them do.
FiledInv ==
  FileBacked =>
    /\ phase = "loading" =>
         /\ loaded <= Len(frames)
         /\ \A s \in Session : Covers(frames, loaded, s, store[s])
    /\ phase = "up" =>
         \A s \in Session : Covers(frames, Len(frames), s, store[s])

\* No operator that ages a slot adds a record to it.
LEMMA AgedSlotIsCovered ==
  ASSUME NEW q, NEW n, NEW s \in Session, NEW x, SlotOK(x), NEW t \in Nat,
         Covers(q, n, s, x)
  PROVE  Covers(q, n, s, Refreshed(x, t)) /\ Covers(q, n, s, Ensured(x, t))
<1>1. Covers(q, n, s, Gone) /\ Covers(q, n, s, Fresh(t))
  BY DEF Covers, Gone, Fresh
<1>2. x.live => [x EXCEPT !.last = Later(x.last, t)].aliases = x.aliases
  BY DEF SlotOK, SessionType
<1>3. Covers(q, n, s, Refreshed(x, t))
  BY <1>1, <1>2 DEF Covers, Refreshed
<1>4. QED BY <1>1, <1>3 DEF Ensured

LEMMA FiledInit == Init => FiledInv
BY DEF Init, FiledInv

LEMMA FiledStep == IInv /\ FiledInv /\ [Next]_vars => FiledInv'
<1> SUFFICES ASSUME IInv, FiledInv, [Next]_vars, FileBacked PROVE FiledInv'
  BY DEF FiledInv
<1> USE SlotAssumption, SessionsAssumption
<1>t. /\ StoreOK /\ now \in Nat /\ store \in [Session -> SessionType]
      /\ loaded \in Nat /\ frames \in Seq(Frame)
  BY DEF IInv, TypeOK
<1>n. Len(frames) \in Nat
  BY <1>t
<1>w. /\ Swept \in [Session -> SessionType]
      /\ PurgedAt(now) \in [Session -> SessionType]
      /\ \A s \in Session : SlotOK(Swept[s])
  BY PurgedStore
<1>c. phase = "up" =>
        \A s \in Session : /\ Covers(frames, Len(frames), s, PurgedAt(now)[s])
                           /\ Covers(frames, Len(frames), s, Swept[s])
  BY DEF FiledInv, Covers, PurgedAt, Swept, Gone
<1>1. CASE Tick \/ UNCHANGED vars
  BY <1>1 DEF Tick, vars, FiledInv
<1>2. CASE Open
  BY <1>2, <1>n DEF Open, FiledInv, Covers, Gone
<1>3. CASE LoadFrame
  <2> DEFINE f == frames[loaded + 1]
             x == IF store[f.session].live
                  THEN [store[f.session] EXCEPT !.last = Later(@, f.stamp)]
                  ELSE Fresh(f.stamp)
             held == Holds(x, f.seed, f.alias)
             refused == ~held /\ (Collides(x, f.seed, f.alias) \/ Full(x))
             y == IF refused \/ held THEN x ELSE Inserted(x, f.seed, f.alias)
  <2>1. /\ phase = "loading" /\ loaded + 1 <= Len(frames)
        /\ loaded' = loaded + 1 /\ frames' = frames /\ phase' # "up"
        /\ store' = [store EXCEPT ![f.session] = y]
    BY <1>3, <1>n, <1>t DEF LoadFrame
  <2>2. f \in Frame
    BY <2>1, <1>t, <1>n
  <2>3. /\ f.session \in Session /\ f.seed \in Seed
        /\ f.alias \in Alias /\ f.stamp \in Nat
    BY <2>2 DEF Frame
  <2>4. \A s \in Session : Covers(frames, loaded + 1, s, store[s])
    BY <2>1, <1>t DEF FiledInv, Covers
  <2>5. x.aliases \in [Seed -> Alias \cup {None}]
        /\ Covers(frames, loaded + 1, f.session, x)
    <3>1. CASE store[f.session].live
      <4>1. x.aliases = store[f.session].aliases
        BY <3>1, <2>3, <1>t DEF SessionType
      <4>2. store[f.session].aliases \in [Seed -> Alias \cup {None}]
        BY <2>3, <1>t DEF SessionType
      <4>3. Covers(frames, loaded + 1, f.session, store[f.session])
        BY <2>3, <2>4
      <4> HIDE DEF x, f
      <4>4. Covers(frames, loaded + 1, f.session, x)
        BY <4>1, <4>3 DEF Covers
      <4>5. QED BY <4>1, <4>2, <4>4
    <3>2. CASE ~store[f.session].live
      BY <3>2 DEF Fresh, Gone, Covers
    <3>3. QED BY <3>1, <3>2
  <2>6. x \in SessionType
    <3>1. CASE store[f.session].live
      <4>1. Later(store[f.session].last, f.stamp) \in Nat
        BY <2>3, <1>t DEF Later, SessionType
      <4>2. QED BY <3>1, <4>1, <2>3, <1>t DEF SessionType
    <3>2. CASE ~store[f.session].live
      BY <3>2, <2>3, EmptySlot DEF SlotOK
    <3>3. QED BY <3>1, <3>2
  <2>7. Covers(frames, loaded + 1, f.session, y)
    <3> HIDE DEF x
    <3>1. CASE refused \/ held
      BY <3>1, <2>5
    <3>2. CASE ~(refused \/ held)
      <4>1. y.aliases = [x.aliases EXCEPT ![f.seed] = f.alias]
        BY <3>2, <2>6 DEF Inserted, SessionType
      <4>2. loaded + 1 \in 1..(loaded + 1)
        BY <1>t
      <4> HIDE DEF y
      <4>3. QED BY <4>1, <4>2, <2>5, <2>3 DEF Covers
    <3>3. QED BY <3>1, <3>2
  <2> HIDE DEF y
  <2>8. \A s \in Session : Covers(frames, loaded + 1, s, store'[s])
    BY <2>1, <2>3, <2>4, <2>7, <1>t
  <2>9. QED BY <2>1, <2>8, <1>n, <1>t DEF FiledInv, Covers
<1>4. CASE Loaded
  BY <1>4 DEF Loaded, FiledInv
<1>5. CASE Stop
  BY <1>5 DEF Stop, FiledInv
<1>6. ASSUME NEW s \in Session, NEW y, Covers(frames, Len(frames), s, y),
             phase = "up", phase' = phase, frames' = frames,
             store' = [Swept EXCEPT ![s] = y]
      PROVE  FiledInv'
  <2>1. \A r \in Session : Covers(frames, Len(frames), r, store'[r])
    BY <1>6, <1>c, <1>w
  <2>2. QED BY <1>6, <2>1 DEF FiledInv, Covers
<1>7. ASSUME NEW s \in Session, OpenSession(s) PROVE FiledInv'
  <2>1. phase = "up" /\ Covers(frames, Len(frames), s, Ensured(Swept[s], now))
    BY <1>7, <1>c, <1>w, <1>t, AgedSlotIsCovered DEF OpenSession
  <2>2. QED BY <1>7, <2>1, <1>6 DEF OpenSession
<1>8. ASSUME NEW s \in Session, NEW sd \in Seed, NEW a \in Alias,
             StoreNothing(s, sd, a)
      PROVE  FiledInv'
  <2>1. phase = "up" /\ Covers(frames, Len(frames), s, Ensured(Swept[s], now))
    BY <1>8, <1>c, <1>w, <1>t, AgedSlotIsCovered DEF StoreNothing
  <2>2. QED BY <1>8, <2>1, <1>6 DEF StoreNothing
<1>9. ASSUME NEW s \in Session, NEW a \in Alias, Restore(s, a) PROVE FiledInv'
  <2>1. phase = "up" /\ Covers(frames, Len(frames), s, Refreshed(Swept[s], now))
    BY <1>9, <1>c, <1>w, <1>t, AgedSlotIsCovered DEF Restore
  <2>2. QED BY <1>9, <2>1, <1>6 DEF Restore
<1>10. ASSUME NEW s \in Session, NEW sd \in Seed, NEW a \in Alias,
              StoreNew(s, sd, a)
       PROVE  FiledInv'
  <2> DEFINE x == Ensured(Swept[s], now)
             z == Inserted(x, sd, a)
             f == [session |-> s, seed |-> sd, alias |-> a, stamp |-> now]
  <2>1. SlotOK(x) /\ phase = "up" /\ phase' = phase
    BY <1>10, <1>t, <1>w, EnsuredSlot DEF StoreNew
  <2>2. x.aliases[sd] = None /\ ~Collides(x, sd, a)
    BY <1>10 DEF StoreNew
  <2>3. Covers(frames, Len(frames), s, x)
    BY <2>1, <1>c, <1>w, <1>t, AgedSlotIsCovered
  <2>4. \/ store' = [Swept EXCEPT ![s] = z] /\ frames' = Append(frames, f)
        \/ /\ store' = [Swept EXCEPT ![s] = Forgotten(z, sd, a)]
           /\ frames' = frames \/ frames' = Append(frames, f)
    BY <1>10 DEF StoreNew
  <2>5. Forgotten(z, sd, a) = x
    BY <2>1, <2>2, ForgottenSlot
  <2>6. z.aliases = [x.aliases EXCEPT ![sd] = a]
    BY <2>1 DEF Inserted, SlotOK, SessionType
  <2>7. x.aliases \in [Seed -> Alias \cup {None}]
    BY <2>1 DEF SlotOK, SessionType
  <2>8. f.session = s /\ f.seed = sd /\ f.alias = a
    OBVIOUS
  <2> HIDE DEF x, z, f
  <2>9. CASE store' = [Swept EXCEPT ![s] = x] /\ frames' = frames
    BY <2>1, <2>3, <2>9, <1>6
  <2>10. CASE /\ store' = [Swept EXCEPT ![s] = z] \/ store' = [Swept EXCEPT ![s] = x]
              /\ frames' = Append(frames, f)
    <3>1. /\ Len(frames') = Len(frames) + 1
          /\ frames'[Len(frames) + 1] = f
          /\ \A k \in 1..Len(frames) : frames'[k] = frames[k]
      BY <2>10, <1>t, <1>n
    <3>2. \A r \in Session : Covers(frames', Len(frames'), r, Swept[r])
      BY <3>1, <1>c, <1>n, <2>1 DEF Covers
    <3>3. Covers(frames', Len(frames'), s, x)
      BY <3>1, <2>3, <1>n DEF Covers
    <3>4. Len(frames') \in 1..Len(frames')
      BY <3>1, <1>n
    <3>5. Covers(frames', Len(frames'), s, z)
      BY <3>1, <3>3, <3>4, <2>6, <2>7, <2>8 DEF Covers
    <3>6. \A r \in Session : Covers(frames', Len(frames'), r, store'[r])
      BY <3>2, <3>3, <3>5, <2>10, <1>w
    <3>7. QED BY <3>6, <2>1 DEF FiledInv, Covers
  <2>11. QED BY <2>4, <2>5, <2>9, <2>10
<1>11. CASE Purge
  <2>1. QED BY <1>11, <1>c, <1>w DEF Purge, FiledInv, Covers
<1>12. CASE Compact
  <2> DEFINE st == PurgedAt(now)
  <2>1. /\ phase = "up" /\ phase' = "up" /\ store' = st
        /\ frames' = frames \/ frames' \in SetToSeqs(LiveFrames(st))
    BY <1>12 DEF Compact
  <2>2. CASE frames' = frames
    BY <2>1, <2>2, <1>c DEF FiledInv, Covers
  <2>3. CASE frames' \in SetToSeqs(LiveFrames(st))
    <3>1. \A g \in LiveFrames(st) : \E k \in 1..Len(frames') : frames'[k] = g
      BY <2>3, <1>w, CompactedFrames
    <3>2. \A s \in Session : \A sd \in Seed : st[s].aliases[sd] # None =>
             st[s].live
      BY PurgedStore DEF SlotOK, Gone
    <3>3. \A s \in Session : \A sd \in Seed : st[s].aliases[sd] # None =>
             [session |-> s, seed |-> sd, alias |-> st[s].aliases[sd],
              stamp |-> st[s].last] \in LiveFrames(st)
      <4> SUFFICES ASSUME NEW s \in Session, NEW sd \in Seed,
                          st[s].aliases[sd] # None
                   PROVE  [session |-> s, seed |-> sd,
                           alias |-> st[s].aliases[sd],
                           stamp |-> st[s].last] \in LiveFrames(st)
        OBVIOUS
      <4> HIDE DEF st
      <4>1. PICK k \in Session \X Seed : k = <<s, sd>>
        OBVIOUS
      <4>2. k[1] = s /\ k[2] = sd /\ st[s].live
        BY <4>1, <3>2
      <4>3. QED BY <4>2 DEF LiveFrames
    <3> HIDE DEF st
    <3>4. \A s \in Session : Covers(frames', Len(frames'), s, st[s])
      <4> SUFFICES ASSUME NEW s \in Session, NEW sd \in Seed,
                          st[s].aliases[sd] # None
                   PROVE  \E k \in 1..Len(frames') :
                            /\ frames'[k].session = s /\ frames'[k].seed = sd
                            /\ frames'[k].alias = st[s].aliases[sd]
        BY DEF Covers
      <4> DEFINE g == [session |-> s, seed |-> sd, alias |-> st[s].aliases[sd],
                       stamp |-> st[s].last]
      <4>1. PICK k \in 1..Len(frames') : frames'[k] = g
        BY <3>1, <3>3
      <4>2. QED BY <4>1
    <3>5. QED BY <2>1, <3>4 DEF FiledInv, Covers
  <2>4. QED BY <2>1, <2>2, <2>3
<1>13. QED BY <1>1, <1>2, <1>3, <1>4, <1>5, <1>7, <1>8, <1>9, <1>10, <1>11,
              <1>12 DEF Next

\* mod.rs store_alias: in file mode no caller is ever answered from a record that
\* the file lacks, whichever appends fail and whatever is purged or compacted.
THEOREM FileAlwaysCoversMemory == Spec => []FileCoversMemory
<1>1. FiledInv => FileCoversMemory
  BY DEF FiledInv, FileCoversMemory, Covers
<1>2. Spec => []FiledInv
  BY FiledInit, FiledStep, StoreInvariant, PTL DEF Spec
<1>3. QED BY <1>1, <1>2, PTL
---------------------------------------------------------------------------
(***************************************************************************)
(* Lives end                                                               *)
(***************************************************************************)

\* session.rs restore: no answer comes from a session whose time to live is over,
\* and every answer moves the deadline to the caller's clock or later.
THEOREM ExpiredIsNeverServed == Spec => ExpiredIsNotServed
<1>1. ASSUME IInv, NEW s \in Session, NEW a \in Alias, Restore(s, a), answer' = "value"
      PROVE  now - store[s].last <= Ttl /\ store'[s].last >= now
  <2> DEFINE x == Swept[s]
             y == Refreshed(x, now)
  <2>1. x.live /\ y.live /\ store'[s] = y
    <3>1. Swept \in [Session -> SessionType]
      BY <1>1, PurgedStore
    <3>2. store' = [Swept EXCEPT ![s] = y]
      BY <1>1 DEF Restore
    <3>3. store'[s] = y
      BY <3>1, <3>2
    <3>4. x.live /\ y.live
      BY <1>1 DEF Restore
    <3>5. QED BY <3>3, <3>4
  <2>2. ~Expired(x, now) /\ x = store[s]
    <3>1. ~Gone.live
      BY DEF Gone
    <3>2. ~Expired(x, now)
      BY <2>1, <3>1 DEF Refreshed
    <3>3. x = store[s]
      BY <2>1, <3>1 DEF Swept, PurgedAt
    <3>4. QED BY <3>2, <3>3
  <2>3. now \in Nat /\ x.last \in Nat /\ x \in SessionType
    BY <1>1, <2>2 DEF IInv, TypeOK, SessionType
  <2>4. now - store[s].last <= Ttl
    BY <2>1, <2>2, <2>3, SlotAssumption DEF Expired
  <2>5. y.last = Later(x.last, now)
    BY <2>1, <2>2, <2>3 DEF Refreshed, SessionType
  <2>6. Later(x.last, now) >= now
    BY <2>3 DEF Later
  <2>7. QED BY <2>1, <2>4, <2>5, <2>6
<1>2. IInv => [ \A s \in Session : \A a \in Alias :
                  Restore(s, a) /\ answer' = "value"
                  => now - store[s].last <= Ttl /\ store'[s].last >= now ]_vars
  BY <1>1
<1>3. QED BY StoreInvariant, <1>2, PTL DEF ExpiredIsNotServed

\* Everything the slot x holds is in the life e.
Recorded(x, e) == \A sd \in Seed : x.aliases[sd] # None => <<sd, x.aliases[sd]>> \in e

\* The slot an identifier has holds nothing of an earlier life, expired or not: what
\* ends a life empties the slot in the same step.
OneLife == phase = "up" => \A s \in Session : Recorded(store[s], era[s])

\* Whatever a step does to the slots it touches and to those it sweeps, a life that
\* ends leaves no record behind.
LEMMA LivesEndEmpty ==
  ASSUME IInv, OneLife, phase = "up", NEW s \in Session, NEW T \in SUBSET Session
  PROVE  /\ s \notin T => Recorded(Swept[s], LivesAfter(T)[s])
         /\ s \in T => /\ Recorded(Ensured(Swept[s], now), LivesAfter(T)[s])
                       /\ Recorded(Refreshed(Swept[s], now), LivesAfter(T)[s])
                       /\ Recorded(PurgedAt(now)[s], LivesAfter(T)[s])
<1> DEFINE e == LivesAfter(T)[s]
<1>1. Recorded(store[s], era[s])
  BY DEF OneLife
<1>2. /\ \A f : Recorded(Gone, f) /\ Recorded(Fresh(now), f)
      /\ ~Gone.live
  BY DEF Recorded, Gone, Fresh
<1>3. e = IF (s \in T \/ awaiting) /\ Expired(store[s], now) THEN {} ELSE era[s]
  BY DEF LivesAfter
<1>4. /\ Swept[s] = IF awaiting /\ Expired(store[s], now) THEN Gone ELSE store[s]
      /\ PurgedAt(now)[s] = IF Expired(store[s], now) THEN Gone ELSE store[s]
  BY DEF Swept, PurgedAt
<1>5. ASSUME NEW x, SlotOK(x), NEW f, Recorded(x, f)
      PROVE  /\ Recorded(Ensured(x, now), f) /\ Recorded(Refreshed(x, now), f)
             /\ Expired(x, now) => /\ Ensured(x, now) = Fresh(now)
                                   /\ Refreshed(x, now) = Gone
  <2>1. x.live => [x EXCEPT !.last = Later(x.last, now)].aliases = x.aliases
    BY <1>5 DEF SlotOK, SessionType
  <2>2. Recorded(Refreshed(x, now), f)
    BY <1>2, <1>5, <2>1 DEF Recorded, Refreshed
  <2>3. Recorded(Ensured(x, now), f)
    BY <1>2, <2>2 DEF Ensured
  <2>4. Expired(x, now) => Ensured(x, now) = Fresh(now) /\ Refreshed(x, now) = Gone
    BY DEF Ensured, Refreshed
  <2>5. QED BY <2>2, <2>3, <2>4
<1>6. SlotOK(store[s]) /\ SlotOK(Gone)
  BY EmptySlot DEF IInv, StoreOK
<1> HIDE DEF e
<1>7. CASE Expired(store[s], now)
  <2>1. s \notin T => Recorded(Swept[s], e)
    BY <1>1, <1>2, <1>3, <1>4, <1>7
  <2>2. /\ Recorded(Ensured(Gone, now), {}) /\ Recorded(Refreshed(Gone, now), {})
        /\ Recorded(Ensured(store[s], now), {}) /\ Recorded(Refreshed(store[s], now), {})
    BY <1>1, <1>2, <1>5, <1>6, <1>7
  <2>3. s \in T => e = {} /\ PurgedAt(now)[s] = Gone /\ Swept[s] \in {Gone, store[s]}
    BY <1>3, <1>4, <1>7
  <2>4. QED BY <1>2, <2>1, <2>2, <2>3 DEF e
<1>8. CASE ~Expired(store[s], now)
  <2>1. e = era[s] /\ Swept[s] = store[s] /\ PurgedAt(now)[s] = store[s]
    BY <1>3, <1>4, <1>8
  <2>2. Recorded(Ensured(store[s], now), e) /\ Recorded(Refreshed(store[s], now), e)
    BY <1>1, <1>5, <1>6, <2>1
  <2>3. QED BY <1>1, <2>1, <2>2 DEF e
<1>9. QED BY <1>7, <1>8

LEMMA OneLifeStep == IInv /\ OneLife /\ [Next]_vars => OneLife'
<1> SUFFICES ASSUME IInv, OneLife, [Next]_vars, phase' = "up", NEW r \in Session
             PROVE  Recorded(store'[r], era'[r])
  BY DEF OneLife, Recorded
<1>t. /\ Swept \in [Session -> SessionType] /\ \A s \in Session : SlotOK(Swept[s])
      /\ now \in Nat
  BY PurgedStore DEF IInv, TypeOK
<1>g. Recorded(Gone, era'[r])
  BY DEF Recorded, Gone
<1>1. CASE Tick \/ UNCHANGED vars
  BY <1>1 DEF Tick, vars, OneLife
<1>2. CASE Open \/ Stop
  BY <1>2, <1>g DEF Open, Stop
<1>3. CASE LoadFrame
  BY <1>3 DEF LoadFrame
<1>4. CASE Loaded
  <2>1. /\ store' = store /\ store[r] \in SessionType
        /\ era'[r] = {k \in Seed \X Alias : store[r].aliases[k[1]] = k[2]}
    BY <1>4 DEF Loaded, IInv, TypeOK
  <2>2. QED BY <2>1 DEF Recorded, SessionType
<1>5. ASSUME NEW s \in Session, phase = "up", era' = LivesAfter({s}),
             \/ store' = [Swept EXCEPT ![s] = Ensured(Swept[s], now)]
             \/ store' = [Swept EXCEPT ![s] = Refreshed(Swept[s], now)]
      PROVE  Recorded(store'[r], era'[r])
  <2>1. CASE r = s
    BY <1>5, <1>t, <2>1, LivesEndEmpty
  <2>2. CASE r # s
    <3>1. Recorded(Swept[r], LivesAfter({s})[r])
      BY <1>5, <2>2, LivesEndEmpty
    <3>2. QED BY <1>5, <1>t, <2>2, <3>1
  <2>3. QED BY <2>1, <2>2
<1>6. ASSUME NEW s \in Session, OpenSession(s) PROVE Recorded(store'[r], era'[r])
  BY <1>5, <1>6 DEF OpenSession
<1>7. ASSUME NEW s \in Session, NEW sd \in Seed, NEW a \in Alias, StoreNothing(s, sd, a)
      PROVE  Recorded(store'[r], era'[r])
  BY <1>5, <1>7 DEF StoreNothing
<1>8. ASSUME NEW s \in Session, NEW a \in Alias, Restore(s, a)
      PROVE  Recorded(store'[r], era'[r])
  BY <1>5, <1>8 DEF Restore
<1>9. ASSUME NEW s \in Session, NEW sd \in Seed, NEW a \in Alias, StoreNew(s, sd, a)
      PROVE  Recorded(store'[r], era'[r])
  <2> DEFINE x == Ensured(Swept[s], now)
             z == Inserted(x, sd, a)
             L == LivesAfter({s})
  <2>1. SlotOK(x) /\ x.live /\ phase = "up" /\ x.aliases[sd] = None /\ ~Collides(x, sd, a)
    BY <1>9, <1>t, EnsuredSlot DEF StoreNew
  <2>2. Forgotten(z, sd, a) = x
    BY <2>1, ForgottenSlot
  <2>3. \/ store' = [Swept EXCEPT ![s] = z] /\ era' = [L EXCEPT ![s] = @ \cup {<<sd, a>>}]
        \/ store' = [Swept EXCEPT ![s] = x] /\ era' = L
    BY <1>9, <2>2 DEF StoreNew
  <2>4. z.aliases = [x.aliases EXCEPT ![sd] = a]
    BY <2>1 DEF Inserted, SlotOK, SessionType
  <2>5. x.aliases \in [Seed -> Alias \cup {None}]
    BY <2>1 DEF SlotOK, SessionType
  <2>6. Recorded(x, L[s]) /\ (r # s => Recorded(Swept[r], L[r]))
    BY <2>1, LivesEndEmpty
  <2> HIDE DEF x, z
  <2>7. Recorded(z, L[s] \cup {<<sd, a>>})
    BY <2>4, <2>5, <2>6 DEF Recorded
  <2>8. L \in [Session -> SUBSET (Seed \X Alias)]
    BY DEF LivesAfter, IInv, TypeOK
  <2> HIDE DEF L
  <2>9. CASE r = s
    BY <1>t, <2>3, <2>6, <2>7, <2>8, <2>9
  <2>10. CASE r # s
    <3>1. store'[r] = Swept[r] /\ era'[r] = L[r]
      BY <1>t, <2>3, <2>8, <2>10
    <3>2. QED BY <2>6, <2>10, <3>1
  <2>11. QED BY <2>9, <2>10
<1>10. CASE Purge \/ Compact
  <2>1. store' = PurgedAt(now) /\ era' = LivesAfter(Session) /\ phase = "up"
    BY <1>10 DEF Purge, Compact
  <2>2. QED BY <2>1, LivesEndEmpty
<1>11. QED BY <1>1, <1>2, <1>3, <1>4, <1>6, <1>7, <1>8, <1>9, <1>10 DEF Next

\* session.rs ensure: an identifier that is used again gets a new conversation, not a
\* resurrected one.
THEOREM NothingIsResurrected == Spec => []NotResurrected
<1>1. Init => OneLife
  BY DEF Init, OneLife
<1>2. OneLife => NotResurrected
  BY DEF OneLife, NotResurrected, Recorded
<1>3. QED BY <1>1, <1>2, StoreInvariant, OneLifeStep, PTL DEF Spec
=============================================================================
