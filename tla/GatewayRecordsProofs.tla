------------------------ MODULE GatewayRecordsProofs ------------------------
(***************************************************************************)
(* Theorems about GatewayRecords, for any number of requests, any lines,   *)
(* configurations and answers, and lists of any length but none.           *)
(***************************************************************************)
EXTENDS GatewayRecords, FiniteSetTheorems, WellFoundedInduction, TLAPS

(***************************************************************************)
(* What the variables hold                                                 *)
(***************************************************************************)

Phases == {"away", "declaring", "declared", "preparing", "awaiting", "abandoned", "answered",
           "counted", "measured", "done"}
Routes == {NotFound} \cup {Resolve(q.method, q.path) : q \in Sent}
Identities == {Identify(q.session, q.body.conversation, r) : q \in Sent, r \in Requests}
Origins == {"ephemeral"} \cup {i.origin : i \in Identities}
Scopes == {<<>>} \cup {i.scope : i \in Identities}
Named == {""} \cup {w.provider : w \in Routes}
Errors == MaskRefusals \cup {"", "tool_arguments_rejected"}
Kinds == Gaps \cup {"ner_disabled"}
Records ==
  [endpoint : {"unrouted"} \cup {EndpointOf(w) : w \in Routes}, provider : Named,
   origin : Origins, scope : Scopes, masked : Nat, degraded : SUBSET Kinds, status : Nat,
   error : Errors, truncated : BOOLEAN]
FindingSet == [scope : Scopes, provider : Named, rule : SUBSET Kinds]
EventSet == [scope : Scopes, degraded : SUBSET Kinds]
BasesOf(s) == Bases(s.configured, s.allow)
UpBases == UNION {{BasesOf(s)[p] : p \in DOMAIN BasesOf(s)} : s \in Setups}
Call(base, upstream, headers) ==
  [scheme |-> base.scheme, to |-> base.host, path |-> upstream, headers |-> headers]
Reached == {Nothing} \cup {Call(b, w.upstream, ToUpstream(q.headers)) :
                             b \in UpBases, w \in Routes, q \in Sent}
Counters == [requests : Nat, refusals : Nat, masked : Nat, reassembly : Nat,
             findings_evicted : Nat, events_evicted : Nat]

TypeOK ==
  /\ setup \in Setups /\ Starts(setup.configured, setup.allow)
  /\ access \in BOOLEAN
  /\ phase \in [Requests -> Phases]
  /\ request \in [Requests -> Sent]
  /\ route \in [Requests -> Routes]
  /\ record \in [Requests -> Records]
  /\ wire \in [Requests -> Reached]
  /\ findings \in Seq(FindingSet) /\ events \in Seq(EventSet)
  /\ metrics \in Counters
  /\ owed \in [Requests -> {0, 1}]

(***************************************************************************)
(* The inductive invariant                                                 *)
(***************************************************************************)

\* Requests that owe the list of findings a line, and those that have paid.
InDoubt(r) == record[r].degraded \cap Gaps # {}
Filed == {r \in Requests : InDoubt(r) /\ phase[r] # "declaring"}
Measured == {r \in Requests : phase[r] \in {"measured", "done"} /\ record[r].scope # <<>>}

\* Who has dropped something and not said so yet.
OwesFindings == {r \in Requests : phase[r] = "declared" /\ owed[r] = 1}
OwesEvents == {r \in Requests : phase[r] = "measured" /\ owed[r] = 1}

BooksBalance ==
  /\ Len(findings) <= FindingsKept /\ Len(events) <= EventsKept
  /\ \A r \in Requests : owed[r] = 1 => phase[r] \in {"declared", "measured"}
  /\ Len(findings) + metrics.findings_evicted + Cardinality(OwesFindings) = Cardinality(Filed)
  /\ Len(events) + metrics.events_evicted + Cardinality(OwesEvents) = Cardinality(Measured)

\* What a filed request left is still there, or its list is known not to be whole.
FindingFor(rec, f) == f.scope = rec.scope /\ f.rule \subseteq rec.degraded
EventFor(rec, e) == e.scope = rec.scope /\ e.degraded \cap Gaps # {}
FindingsAreKept ==
  \A r \in Filed :
    \/ \E f \in Range(findings) : FindingFor(record[r], f)
    \/ metrics.findings_evicted > 0 \/ OwesFindings # {}
EventsAreKept ==
  \A r \in Measured : InDoubt(r) =>
    \/ \E e \in Range(events) : EventFor(record[r], e)
    \/ metrics.events_evicted > 0 \/ OwesEvents # {}

\* What must be declared of a request's body.
Gap(r) == IF request[r].body.kind = "json" THEN GapOf(route[r].treatment, request[r].body) ELSE ""
AtOrBeyond == {"declaring", "declared", "preparing", "awaiting", "abandoned"}

\* A request that is let through was routed to a provider, and has declared the gap
\* of its body under a conversation that can be named.
Declared(r) ==
  /\ route[r].endpoint = "passthrough"
  /\ Gap(r) # "" => Gap(r) \in record[r].degraded

DoorHolds ==
  \A r \in Requests :
    /\ phase[r] = "away" => record[r].degraded = {} /\ record[r].scope = <<>>
    /\ phase[r] # "away" => route[r] = Resolve(request[r].method, request[r].path)
    /\ phase[r] \in AtOrBeyond \/ wire[r] # Nothing => Declared(r)
    /\ phase[r] \in {"away", "declaring", "declared", "preparing"} => wire[r] = Nothing
    /\ phase[r] = "declaring" => InDoubt(r)
    /\ InDoubt(r) => record[r].scope # <<>>

\* A call is to the base of the route's provider, for the route's upstream path.
Leads(r, call) ==
  /\ call.to = BasesOf(setup)[route[r].provider].host
  /\ call.scheme = BasesOf(setup)[route[r].provider].scheme
  /\ call.path = route[r].upstream

WireLeadsThere ==
  \A r \in Requests : wire[r] # Nothing =>
    /\ route[r].provider \in DOMAIN BasesOf(setup)
    /\ Leads(r, wire[r])

IInv == TypeOK /\ BooksBalance /\ FindingsAreKept /\ EventsAreKept /\ DoorHolds /\ WireLeadsThere

(***************************************************************************)
(* What the operators return                                               *)
(***************************************************************************)

\* A set of numbers with a bound has a greatest one.
LEMMA GreatestOf ==
  ASSUME NEW n \in Nat, NEW T \in SUBSET (1..n), T # {}
  PROVE  Max(T) \in T
<1> DEFINE R == {ss \in Nat \X Nat : ss[1] < ss[2]}
           U == {n - k : k \in T}
<1>1. IsWellFoundedOn(R, Nat)
  BY NatLessThanWellFounded DEF OpToRel
<1>2. U \subseteq Nat /\ U # {}
  <2>1. ASSUME NEW k \in T PROVE n - k \in Nat
    <3>1. k \in 1..n
      OBVIOUS
    <3> QED BY <3>1
  <2> QED BY <2>1
<1>3. PICK m \in U : \A l \in U : ~(<<l, m>> \in R)
  <2> HIDE DEF R, U
  <2> QED BY <1>1, <1>2, WFMin
<1>4. PICK k \in T : m = n - k
  OBVIOUS
<1>5. ASSUME NEW l \in T PROVE k >= l
  <2>1. n - l \in U /\ m \in U
    OBVIOUS
  <2>2. ~(n - l < n - k)
    BY <1>2, <1>3, <1>4, <2>1
  <2>3. l \in 1..n /\ k \in 1..n
    OBVIOUS
  <2> QED BY <2>2, <2>3
<1> QED BY <1>5 DEF Max

\* What is stripped of a path leaves its first segment the first.
LEMMA NormalisedIsTheBeginning ==
  ASSUME NEW path \in Seq(STRING)
  PROVE  /\ Normalised(path) \in Seq(STRING)
         /\ Len(Normalised(path)) > 0 => Normalised(path)[1] = path[1]
<1> DEFINE kept == {k \in DOMAIN path : path[k] # ""}
           n == IF kept = {} THEN 0 ELSE Max(kept)
<1>1. n \in 0..Len(path)
  <2>1. CASE kept = {}
    <3>1. Len(path) \in Nat
      OBVIOUS
    <3> HIDE DEF kept
    <3> QED BY <2>1, <3>1
  <2>2. CASE kept # {}
    <3>1. DOMAIN path = 1..Len(path) /\ Len(path) \in Nat
      OBVIOUS
    <3>2. kept \in SUBSET (1..Len(path))
      BY <3>1
    <3> HIDE DEF kept
    <3>3. Max(kept) \in kept
      BY <2>2, <3>1, <3>2, GreatestOf
    <3>4. Max(kept) \in 1..Len(path)
      BY <3>2, <3>3
    <3> QED BY <2>2, <3>1, <3>4
  <2> QED BY <2>1, <2>2
<1>2. Normalised(path) = SubSeq(path, 1, n)
  BY DEF Normalised
<1> HIDE DEF n
<1> QED BY <1>1, <1>2

LEMMA UnderWhat ==
  ASSUME NEW path \in Seq(STRING), NEW a, NEW b, Under(path, <<a, b>>)
  PROVE  Len(path) > 0 /\ path[1] = a
<1>1. Len(<<a, b>>) = 2 /\ SubSeq(<<a, b>>, 1, 2)[1] = a
  OBVIOUS
<1> QED BY <1>1 DEF Under, IsPrefix

Four == {"masked_round_trip", "masked_one_way", "no_user_text", "unmasked_declared"}
Towards(path) == IF path[1] = "anthropic" THEN "anthropic" ELSE "openai"

ModelLists == {<<"v1", "models">>, <<"anthropic", "v1", "models">>}

\* What a route leads to of a provider: a path of the table, or one below a declared
\* endpoint.
Leading(where) ==
  \/ \E e \in Table : e.provider = where.provider /\ where.upstream = e.upstream
  \/ where.provider = "openai" /\ \E d \in DeclaredUnmasked : Under(where.upstream, d)

\* A request that is forwarded goes to the provider whose namespace its path is in,
\* for a path that may be asked of it; it is treated in one of four ways, as having no
\* user's words only when it asks for a list of models.
LEMMA ForwardedWhere ==
  ASSUME NEW method, NEW path \in Seq(STRING), Resolve(method, path).endpoint = "passthrough"
  PROVE  /\ Resolve(method, path).provider = Towards(path)
         /\ Resolve(method, path).treatment \in Four
         /\ Resolve(method, path).treatment = "no_user_text"
              => method = "GET" /\ Normalised(path) \in ModelLists
         /\ Leading(Resolve(method, path))
<1> DEFINE norm == Normalised(path)
<1>1. /\ norm \in Seq(STRING) /\ (Len(norm) > 0 => norm[1] = path[1])
      /\ norm = Normalised(path)
  BY NormalisedIsTheBeginning
<1>2. /\ Resolve(method, path) \in
           {PeriskopRoute(method, norm), AdminRoute(method, norm), NotFound,
            Answered("unsupported"), PassthroughRoute(method, norm)}
         \/ /\ \E p \in DeclaredUnmasked : Under(norm, p)
            /\ Resolve(method, path)
                 = Forwarded(Entry(method, norm, "openai", "unmasked_declared", norm))
  <2> HIDE DEF norm
  <2> QED BY DEF Resolve, norm
<1> HIDE DEF norm
<1>3. /\ PeriskopRoute(method, norm).endpoint # "passthrough"
      /\ AdminRoute(method, norm).endpoint # "passthrough"
      /\ NotFound.endpoint # "passthrough"
      /\ Answered("unsupported").endpoint # "passthrough"
  BY DEF PeriskopRoute, AdminRoute, NotFound, MethodNotAllowed, Answered
<1>4. CASE Resolve(method, path) = PassthroughRoute(method, norm)
  <2>1. MethodNotAllowed.endpoint # "passthrough"
    BY DEF MethodNotAllowed, Answered
  <2>2. PICK e \in Table : /\ e.path = norm /\ e.verb = method
                          /\ Resolve(method, path) = Forwarded(e)
    BY <1>3, <1>4, <2>1 DEF PassthroughRoute
  <2>3. /\ Resolve(method, path).provider = e.provider
        /\ Resolve(method, path).treatment = e.treatment
        /\ Resolve(method, path).upstream = e.upstream
    BY <2>2 DEF Forwarded
  <2>4. /\ e.treatment \in Four /\ Len(e.path) > 0
        /\ \/ e.provider = "anthropic" /\ e.path[1] = "anthropic"
           \/ e.provider = "openai" /\ e.path[1] = "v1"
        /\ e.treatment = "no_user_text" => e.verb = "GET" /\ e.path \in ModelLists
    <3>1. ASSUME NEW verb, NEW provider, NEW treatment, NEW upstream, NEW at, Len(at) > 0,
                 treatment \in Four,
                 \/ provider = "anthropic" /\ at[1] = "anthropic"
                 \/ provider = "openai" /\ at[1] = "v1",
                 treatment = "no_user_text" => verb = "GET" /\ at \in ModelLists,
                 e = Entry(verb, at, provider, treatment, upstream)
          PROVE  /\ e.treatment \in Four /\ Len(e.path) > 0
                 /\ \/ e.provider = "anthropic" /\ e.path[1] = "anthropic"
                    \/ e.provider = "openai" /\ e.path[1] = "v1"
                 /\ e.treatment = "no_user_text" => e.verb = "GET" /\ e.path \in ModelLists
      BY <3>1 DEF Entry
    <3>2. /\ Len(<<"v1", "chat", "completions">>) > 0 /\ <<"v1", "chat", "completions">>[1] = "v1"
          /\ Len(<<"v1", "embeddings">>) > 0 /\ <<"v1", "embeddings">>[1] = "v1"
          /\ Len(<<"v1", "models">>) > 0 /\ <<"v1", "models">>[1] = "v1"
          /\ Len(<<"anthropic", "v1", "messages">>) > 0
          /\ <<"anthropic", "v1", "messages">>[1] = "anthropic"
          /\ Len(<<"anthropic", "v1", "models">>) > 0
          /\ <<"anthropic", "v1", "models">>[1] = "anthropic"
      OBVIOUS
    <3>3. <<"v1", "models">> \in ModelLists /\ <<"anthropic", "v1", "models">> \in ModelLists
      BY DEF ModelLists
    <3>4. /\ "masked_round_trip" # "no_user_text" /\ "masked_one_way" # "no_user_text"
          /\ {"masked_round_trip", "masked_one_way", "no_user_text"} \subseteq Four
      BY DEF Four
    <3> HIDE DEF ModelLists, Four
    <3> QED BY <3>1, <3>2, <3>3, <3>4, Zenon DEF Table
  <2>5. Leading(Resolve(method, path))
    BY <2>2, <2>3 DEF Leading, Forwarded
  <2>6. /\ Resolve(method, path).provider = Towards(path)
        /\ Resolve(method, path).treatment \in Four
    BY <1>1, <2>2, <2>3, <2>4 DEF Towards
  <2>7. Resolve(method, path).treatment = "no_user_text"
          => method = "GET" /\ Normalised(path) \in ModelLists
    BY <1>1, <2>2, <2>3, <2>4, Zenon
  <2> QED BY <2>5, <2>6, <2>7
<1>5. CASE /\ \E p \in DeclaredUnmasked : Under(norm, p)
           /\ Resolve(method, path)
                = Forwarded(Entry(method, norm, "openai", "unmasked_declared", norm))
  <2>1. Len(norm) > 0 /\ norm[1] = "v1"
    BY <1>1, <1>5, UnderWhat DEF DeclaredUnmasked
  <2>2. /\ Resolve(method, path).provider = "openai"
        /\ Resolve(method, path).treatment = "unmasked_declared"
        /\ Resolve(method, path).upstream = norm
    BY <1>5 DEF Forwarded, Entry
  <2>3. Leading(Resolve(method, path))
    BY <1>5, <2>2 DEF Leading
  <2>4. "unmasked_declared" \in Four /\ "unmasked_declared" # "no_user_text"
    BY DEF Four
  <2> QED BY <1>1, <2>1, <2>2, <2>3, <2>4 DEF Towards
<1> QED BY <1>2, <1>3, <1>4, <1>5

\* Told of a request that is past the door.
LEMMA RouteOf ==
  ASSUME IInv, NEW r \in Requests, Declared(r), phase[r] # "away"
  PROVE  /\ route[r].provider = Towards(request[r].path)
         /\ route[r].treatment \in Four
         /\ route[r].treatment = "no_user_text" => AsksForModels(request[r])
         /\ Leading(route[r])
<1> DEFINE method == request[r].method
           path == request[r].path
<1>1. route[r] = Resolve(method, path)
  BY DEF IInv, DoorHolds
<1>2. path \in Seq(STRING)
  <2>1. request[r] \in Sent
    BY DEF IInv, TypeOK
  <2> QED BY <2>1, RecordsAssumption
<1>3. AsksForModels(request[r]) <=> method = "GET" /\ Normalised(path) \in ModelLists
  BY DEF AsksForModels, ModelLists
<1>4. Resolve(method, path).endpoint = "passthrough"
  BY <1>1 DEF Declared
<1> HIDE DEF method, path
<1>5. /\ Resolve(method, path).provider = Towards(path)
      /\ Resolve(method, path).treatment \in Four
      /\ Resolve(method, path).treatment = "no_user_text"
           => method = "GET" /\ Normalised(path) \in ModelLists
      /\ Leading(Resolve(method, path))
  BY <1>2, <1>4, ForwardedWhere
<1> QED BY <1>1, <1>3, <1>5, Zenon DEF path

\* The base of a provider has been through the check of base URLs, whoever wrote it.
LEMMA BaseIsVetted ==
  ASSUME NEW configured, NEW allow, Starts(configured, allow),
         NEW p \in DOMAIN Bases(configured, allow)
  PROVE  Vetted(Bases(configured, allow)[p], allow)
<1>1. CASE p \in DOMAIN configured
  BY <1>1 DEF Bases, Starts
<1>2. CASE p \notin DOMAIN configured
  BY <1>2 DEF Bases
<1> QED BY <1>1, <1>2

LEMMA PushedList ==
  ASSUME NEW S, NEW list \in Seq(S), NEW bound \in Nat \ {0}, Len(list) <= bound, NEW item \in S
  PROVE  /\ Pushed(list, bound, item) \in Seq(S)
         /\ Dropped(list, bound) \in {0, 1}
         /\ Len(Pushed(list, bound, item)) <= bound
         /\ Len(Pushed(list, bound, item)) + Dropped(list, bound) = Len(list) + 1
         /\ item \in Range(Pushed(list, bound, item))
         /\ Dropped(list, bound) = 0 => Range(list) \subseteq Range(Pushed(list, bound, item))
<1>1. CASE Len(list) < bound
  <2>1. Dropped(list, bound) = 0
    BY <1>1 DEF Dropped
  <2>2. SubSeq(list, 1, Len(list)) = list
    OBVIOUS
  <2>3. Pushed(list, bound, item) = Append(list, item)
    BY <2>1, <2>2 DEF Pushed
  <2>4. Append(list, item) \in Seq(S) /\ Len(Append(list, item)) = Len(list) + 1
    OBVIOUS
  <2>5. item \in Range(Append(list, item))
    <3>1. Append(list, item)[Len(list) + 1] = item
      OBVIOUS
    <3> QED BY <2>4, <3>1 DEF Range
  <2>6. Range(list) \subseteq Range(Append(list, item))
    BY DEF Range
  <2> QED BY <1>1, <2>1, <2>3, <2>4, <2>5, <2>6
<1>2. CASE Len(list) = bound
  <2> DEFINE rest == SubSeq(list, 2, Len(list))
  <2>1. Dropped(list, bound) = 1
    BY <1>2 DEF Dropped
  <2>2. rest \in Seq(S) /\ Len(rest) = Len(list) - 1
    BY <1>2
  <2>3. Pushed(list, bound, item) = Append(rest, item)
    BY <2>1 DEF Pushed
  <2> HIDE DEF rest
  <2>4. Append(rest, item) \in Seq(S) /\ Len(Append(rest, item)) = Len(list)
    BY <2>2
  <2>5. item \in Range(Append(rest, item))
    BY <2>2 DEF Range
  <2> QED BY <1>2, <2>1, <2>3, <2>4, <2>5
<1> QED BY <1>1, <1>2

(***************************************************************************)
(* Records                                                                 *)
(***************************************************************************)

\* A record that is given an outcome keeps whose it is and what it declared.
SameAs(rec, old) ==
  /\ rec \in Records
  /\ rec.scope = old.scope /\ rec.degraded = old.degraded /\ rec.provider = old.provider

LEMMA WithStatus ==
  ASSUME NEW rec \in Records, NEW n \in Nat
  PROVE  SameAs([rec EXCEPT !.status = n], rec)
BY DEF SameAs, Records

LEMMA WithError ==
  ASSUME NEW rec \in Records, NEW e \in Errors
  PROVE  SameAs([rec EXCEPT !.error = e], rec)
BY DEF SameAs, Records

LEMMA WithTruncated ==
  ASSUME NEW rec \in Records, NEW t \in BOOLEAN
  PROVE  SameAs([rec EXCEPT !.truncated = t], rec)
BY DEF SameAs, Records

LEMMA WithMasked ==
  ASSUME NEW rec \in Records, NEW n \in Nat
  PROVE  SameAs([rec EXCEPT !.masked = n], rec)
BY DEF SameAs, Records

LEMMA WithDegraded ==
  ASSUME NEW rec \in Records, NEW d \in SUBSET Kinds
  PROVE  /\ [rec EXCEPT !.degraded = d] \in Records
         /\ [rec EXCEPT !.degraded = d].degraded = d
         /\ [rec EXCEPT !.degraded = d].scope = rec.scope
BY DEF Records

LEMMA StatusIsANumber == \A e : Status(e) \in Nat
BY DEF Status

LEMMA RefusedRecord ==
  ASSUME NEW rec \in Records, NEW e \in Errors
  PROVE  SameAs([rec EXCEPT !.status = Status(e), !.error = e], rec)
<1> DEFINE one == [rec EXCEPT !.status = Status(e)]
<1>1. SameAs(one, rec)
  BY StatusIsANumber, WithStatus
<1>2. [rec EXCEPT !.status = Status(e), !.error = e] = [one EXCEPT !.error = e]
  OBVIOUS
<1> HIDE DEF one
<1>3. SameAs([one EXCEPT !.error = e], one)
  BY <1>1, WithError DEF SameAs
<1> QED BY <1>1, <1>2, <1>3 DEF SameAs

LEMMA DeliveredRecord ==
  ASSUME NEW rec \in Records, NEW n \in Nat, NEW t \in BOOLEAN
  PROVE  SameAs([rec EXCEPT !.status = n, !.truncated = t], rec)
<1> DEFINE one == [rec EXCEPT !.status = n]
<1>1. SameAs(one, rec)
  BY WithStatus
<1>2. [rec EXCEPT !.status = n, !.truncated = t] = [one EXCEPT !.truncated = t]
  OBVIOUS
<1> HIDE DEF one
<1>3. SameAs([one EXCEPT !.truncated = t], one)
  BY <1>1, WithTruncated DEF SameAs
<1> QED BY <1>1, <1>2, <1>3 DEF SameAs

\* What is known of a request before anything is asked of it.
LEMMA BlankIsARecord ==
  BlankRecord \in Records /\ BlankRecord.degraded = {} /\ BlankRecord.scope = <<>>
<1>1. "" \in Named /\ "ephemeral" \in Origins /\ <<>> \in Scopes
  BY DEF Origins, Scopes, Named
<1>2. ASSUME NEW E, NEW e \in E, NEW sc \in Scopes, NEW d \in SUBSET Kinds,
             NEW no \in Errors, NEW p \in Named
      PROVE  [endpoint |-> e, provider |-> p, origin |-> "ephemeral", scope |-> sc,
              masked |-> 0, degraded |-> d, status |-> 0, error |-> no, truncated |-> FALSE]
               \in [endpoint : E, provider : Named, origin : Origins, scope : Scopes,
                    masked : Nat, degraded : SUBSET Kinds, status : Nat, error : Errors,
                    truncated : BOOLEAN]
  BY <1>1
<1>3. {} \in SUBSET Kinds /\ "" \in Errors
  BY DEF Errors
<1>4. BlankRecord \in Records
  BY <1>1, <1>2, <1>3, Zenon DEF BlankRecord, Records
<1> QED BY <1>4 DEF BlankRecord

LEMMA RoutedRecord ==
  ASSUME NEW where \in Routes
  PROVE  LET rec == [BlankRecord EXCEPT !.endpoint = EndpointOf(where),
                                        !.provider = where.provider]
         IN rec \in Records /\ rec.degraded = {} /\ rec.scope = <<>>
<1> DEFINE one == [BlankRecord EXCEPT !.endpoint = EndpointOf(where)]
           two == [one EXCEPT !.provider = where.provider]
<1>1. one \in Records /\ one.degraded = {} /\ one.scope = <<>>
  BY BlankIsARecord DEF Records
<1>2. [BlankRecord EXCEPT !.endpoint = EndpointOf(where), !.provider = where.provider] = two
  OBVIOUS
<1>3. two \in Records /\ two.degraded = {} /\ two.scope = <<>>
  <2> HIDE DEF one
  <2> QED BY <1>1 DEF Records, Named
<1> QED BY <1>2, <1>3

LEMMA ScopedRecord ==
  ASSUME NEW rec \in Records, NEW i \in Identities
  PROVE  /\ Scoped(rec, i) \in Records
         /\ Scoped(rec, i).degraded = rec.degraded
<1> DEFINE one == [rec EXCEPT !.origin = i.origin]
           two == [one EXCEPT !.scope = i.scope]
<1>1. one \in Records /\ one.degraded = rec.degraded
  BY DEF Records, Origins
<1>2. Scoped(rec, i) = two
  BY DEF Scoped
<1>3. two \in Records /\ two.degraded = one.degraded
  <2> HIDE DEF one
  <2> QED BY <1>1 DEF Records, Scopes
<1> QED BY <1>1, <1>2, <1>3

(***************************************************************************)
(* Steps that leave the buffers alone                                      *)
(***************************************************************************)

LEMMA IdentifiedSomehow ==
  ASSUME NEW q \in Sent, NEW r \in Requests
  PROVE  Identify(q.session, q.body.conversation, r) \in Identities
BY DEF Identities

LEMMA InitInv == Init => IInv
<1> SUFFICES ASSUME Init PROVE IInv
  OBVIOUS
<1> USE RecordsAssumption
<1>1. TypeOK
  <2>2. setup \in Setups /\ Starts(setup.configured, setup.allow)
    BY DEF Init
  <2>3. phase \in [Requests -> Phases] /\ access \in BOOLEAN
    BY DEF Init, Phases
  <2>4. request \in [Requests -> Sent]
    BY DEF Init
  <2>5. route \in [Requests -> Routes]
    BY DEF Init, Routes
  <2>6. record \in [Requests -> Records]
    BY BlankIsARecord DEF Init
  <2>7. wire \in [Requests -> Reached]
    <3>1. Nothing \in Reached
      BY DEF Reached
    <3> QED BY <3>1 DEF Init
  <2>8. findings \in Seq(FindingSet) /\ events \in Seq(EventSet)
    BY DEF Init
  <2>9. metrics \in Counters /\ owed \in [Requests -> {0, 1}]
    BY DEF Init, NoCounts, Counters
  <2> QED BY <2>2, <2>3, <2>4, <2>5, <2>6, <2>7, <2>8, <2>9 DEF TypeOK
<1>2. \A r \in Requests : /\ phase[r] = "away" /\ record[r] = BlankRecord
                          /\ wire[r] = Nothing /\ owed[r] = 0
  BY DEF Init
<1>3. Filed = {} /\ Measured = {} /\ OwesFindings = {} /\ OwesEvents = {}
  <2>1. \A r \in Requests : ~InDoubt(r)
    BY <1>2, BlankIsARecord DEF InDoubt
  <2> QED BY <1>2, <2>1 DEF Filed, Measured, OwesFindings, OwesEvents
<1>4. BooksBalance
  <2>1. Cardinality({}) = 0
    BY FS_EmptySet
  <2>2. /\ Len(findings) = 0 /\ Len(events) = 0
        /\ metrics.findings_evicted = 0 /\ metrics.events_evicted = 0
    BY DEF Init, NoCounts
  <2> QED BY <1>2, <1>3, <2>1, <2>2 DEF BooksBalance
<1>5. FindingsAreKept /\ EventsAreKept
  BY <1>3 DEF FindingsAreKept, EventsAreKept
<1>6. DoorHolds /\ WireLeadsThere
  <2>1. \A r \in Requests : record[r].degraded = {} /\ record[r].scope = <<>> /\ ~InDoubt(r)
    BY <1>2, BlankIsARecord DEF InDoubt
  <2> QED BY <1>2, <2>1 DEF DoorHolds, WireLeadsThere, AtOrBeyond
<1> QED BY <1>1, <1>4, <1>5, <1>6 DEF IInv

\* A request past the door gets on with it: its record keeps the conversation and what
\* it declared, and what it sends goes where its route says.
SentAlong(r) ==
  /\ wire' \in [Requests -> Reached]
  /\ \A s \in Requests \ {r} : wire'[s] = wire[s]
  /\ \/ wire'[r] = wire[r]
     \/ /\ phase[r] = "preparing"
        /\ route[r].provider \in DOMAIN BasesOf(setup)
        /\ Leads(r, wire'[r])

LEMMA GettingOn ==
  ASSUME IInv, NEW r \in Requests, NEW rec \in Records, NEW to,
         \/ phase[r] = "preparing" /\ to \in {"awaiting", "answered"}
         \/ phase[r] = "awaiting" /\ to \in {"abandoned", "answered"}
         \/ phase[r] = "answered" /\ to = "counted",
         rec.scope = record[r].scope, record[r].degraded \subseteq rec.degraded,
         rec.degraded \cap Gaps = record[r].degraded \cap Gaps,
         phase' = [phase EXCEPT ![r] = to], record' = [record EXCEPT ![r] = rec],
         SentAlong(r), access' \in BOOLEAN, metrics' \in Counters,
         metrics'.findings_evicted = metrics.findings_evicted,
         metrics'.events_evicted = metrics.events_evicted,
         UNCHANGED <<setup, request, route, findings, events, owed>>
  PROVE  IInv'
<1>1. TypeOK'
  <2>1. phase' \in [Requests -> Phases]
    BY DEF IInv, TypeOK, Phases
  <2>2. record' \in [Requests -> Records]
    BY DEF IInv, TypeOK
  <2> QED BY <2>1, <2>2 DEF IInv, TypeOK, SentAlong
<1>2. \A s \in Requests : /\ phase'[s] = (IF s = r THEN to ELSE phase[s])
                          /\ record'[s] = (IF s = r THEN rec ELSE record[s])
  BY DEF IInv, TypeOK
<1>3. \A s \in Requests : /\ InDoubt(s)' => InDoubt(s)
                          /\ InDoubt(s) => InDoubt(s)'
                          /\ record'[s].scope = record[s].scope
                          /\ record[s].degraded \subseteq record'[s].degraded
  BY <1>2 DEF InDoubt
<1>4. Filed' = Filed
  BY <1>2, <1>3 DEF Filed
<1>5. Measured' = Measured
  BY <1>2, <1>3 DEF Measured
<1>6. OwesFindings' = OwesFindings /\ OwesEvents' = OwesEvents
  <2>1. owed' = owed
    OBVIOUS
  <2> QED BY <1>2, <2>1 DEF OwesFindings, OwesEvents
<1>7. BooksBalance'
  <2>1. \A s \in Requests : owed[s] = 1 => phase'[s] \in {"declared", "measured"}
    BY <1>2 DEF IInv, BooksBalance
  <2> QED BY <1>4, <1>5, <1>6, <2>1 DEF IInv, BooksBalance
<1>8. FindingsAreKept'
  <2> SUFFICES ASSUME NEW s \in Filed
               PROVE  \/ \E f \in Range(findings) : FindingFor(record'[s], f)
                      \/ metrics.findings_evicted > 0 \/ OwesFindings # {}
    BY <1>4, <1>6 DEF FindingsAreKept
  <2>1. s \in Requests
    BY DEF Filed
  <2>2. \A f : FindingFor(record[s], f) => FindingFor(record'[s], f)
    BY <1>3, <2>1 DEF FindingFor
  <2> QED BY <2>2 DEF IInv, FindingsAreKept
<1>9. EventsAreKept'
  <2> SUFFICES ASSUME NEW s \in Measured, InDoubt(s)
               PROVE  \/ \E e \in Range(events) : EventFor(record'[s], e)
                      \/ metrics.events_evicted > 0 \/ OwesEvents # {}
    BY <1>3, <1>5, <1>6 DEF EventsAreKept, Measured
  <2>1. \A e : EventFor(record[s], e) => EventFor(record'[s], e)
    BY <1>3 DEF EventFor, Measured
  <2> QED BY <2>1 DEF IInv, EventsAreKept
<1>10. DoorHolds'
  <2> SUFFICES ASSUME NEW s \in Requests
               PROVE  /\ phase'[s] = "away" => record'[s].degraded = {} /\ record'[s].scope = <<>>
                      /\ phase'[s] # "away" => route[s] = Resolve(request[s].method, request[s].path)
                      /\ phase'[s] \in AtOrBeyond \/ wire'[s] # Nothing => Declared(s)'
                      /\ phase'[s] \in {"away", "declaring", "declared", "preparing"}
                           => wire'[s] = Nothing
                      /\ phase'[s] = "declaring" => InDoubt(s)'
                      /\ InDoubt(s)' => record'[s].scope # <<>>
    BY DEF DoorHolds
  <2>1. Declared(s) => Declared(s)'
    <3>1. Gap(s)' = Gap(s) /\ route' = route
      BY DEF Gap
    <3> QED BY <1>3, <3>1 DEF Declared
  <2>2. /\ phase[s] = "away" => record[s].degraded = {} /\ record[s].scope = <<>>
        /\ phase[s] # "away" => route[s] = Resolve(request[s].method, request[s].path)
        /\ phase[s] \in AtOrBeyond \/ wire[s] # Nothing => Declared(s)
        /\ phase[s] \in {"away", "declaring", "declared", "preparing"} => wire[s] = Nothing
        /\ phase[s] = "declaring" => InDoubt(s)
        /\ InDoubt(s) => record[s].scope # <<>>
    BY DEF IInv, DoorHolds
  <2>3. CASE s # r
    <3>1. phase'[s] = phase[s] /\ record'[s] = record[s] /\ wire'[s] = wire[s]
      BY <1>2, <2>3 DEF SentAlong
    <3> QED BY <1>3, <2>1, <2>2, <3>1
  <2>4. CASE s = r
    <3>1. phase'[s] = to /\ phase[s] # "away"
      BY <1>2, <2>4
    <3>2. to \in AtOrBeyond => phase[s] \in AtOrBeyond
      BY <2>4 DEF AtOrBeyond
    <3>3. wire'[s] # Nothing => wire[s] # Nothing \/ phase[s] \in AtOrBeyond
      BY <2>4 DEF SentAlong, AtOrBeyond
    <3> QED BY <1>3, <2>1, <2>2, <2>4, <3>1, <3>2, <3>3
  <2> QED BY <2>3, <2>4
<1>11. WireLeadsThere'
  BY DEF IInv, WireLeadsThere, Leads, SentAlong
<1> QED BY <1>1, <1>7, <1>8, <1>9, <1>10, <1>11 DEF IInv

\* A refusal past the door, an answer that is cut, and one that is delivered: the
\* record is kept but for its outcome.
LEMMA OutcomeKeeps ==
  ASSUME IInv, NEW r \in Requests, phase[r] \in {"preparing", "awaiting"}, NEW rec, NEW base,
         base \in Records, base.scope = record[r].scope,
         record[r].degraded \subseteq base.degraded,
         base.degraded \cap Gaps = record[r].degraded \cap Gaps,
         SameAs(rec, base), NEW answer, Answer(r, rec, answer), access' \in BOOLEAN,
         UNCHANGED <<setup, request, route, wire, findings, events, metrics, owed>>
  PROVE  IInv'
<1>1. phase' = [phase EXCEPT ![r] = "answered"] /\ record' = [record EXCEPT ![r] = rec]
  BY DEF Answer
<1>2. /\ rec \in Records /\ rec.scope = record[r].scope
      /\ record[r].degraded \subseteq rec.degraded
      /\ rec.degraded \cap Gaps = record[r].degraded \cap Gaps
  BY DEF SameAs
<1>3. SentAlong(r) /\ metrics' = metrics /\ metrics \in Counters
  BY DEF SentAlong, IInv, TypeOK
<1> QED BY <1>1, <1>2, <1>3, GettingOn

LEMMA RecordOf == ASSUME IInv, NEW r \in Requests PROVE record[r] \in Records
BY DEF IInv, TypeOK

LEMMA KeyRefusedKeeps == ASSUME IInv, NEW r \in Requests, KeyRefused(r) PROVE IInv'
<1>1. PICK error \in VaultFailures \cap Faults :
        Refuse(r, record[r], error) /\ access' = (access /\ error = "vault_unavailable")
  BY DEF KeyRefused
<1>2. error \in Errors
  BY DEF MaskRefusals, Errors
<1>3. record[r] \in Records
  BY RecordOf
<1> DEFINE rec == [record[r] EXCEPT !.status = Status(error), !.error = error]
           answer == Own(Status(error), {"x-periskop-policy-id", "x-periskop-error"})
<1>4. SameAs(rec, record[r])
  BY <1>2, <1>3, RefusedRecord
<1>5. Answer(r, rec, answer)
  BY <1>1 DEF Refuse
<1>6. phase[r] \in {"preparing", "awaiting"} /\ access' \in BOOLEAN
  BY <1>1 DEF KeyRefused
<1>7. UNCHANGED <<setup, request, route, wire, findings, events, metrics, owed>>
  BY DEF KeyRefused, buffers
<1> HIDE DEF rec, answer
<1> QED BY <1>3, <1>4, <1>5, <1>6, <1>7, OutcomeKeeps

LEMMA MaskRefusedKeeps == ASSUME IInv, NEW r \in Requests, MaskRefused(r) PROVE IInv'
<1>1. PICK error \in MaskRefusals \cap Faults :
        Refuse(r, record[r], error) /\ access' = (access /\ error \notin VaultFailures)
  BY DEF MaskRefused
<1>2. error \in Errors
  BY DEF Errors
<1>3. record[r] \in Records
  BY RecordOf
<1> DEFINE rec == [record[r] EXCEPT !.status = Status(error), !.error = error]
           answer == Own(Status(error), {"x-periskop-policy-id", "x-periskop-error"})
<1>4. SameAs(rec, record[r])
  BY <1>2, <1>3, RefusedRecord
<1>5. Answer(r, rec, answer)
  BY <1>1 DEF Refuse
<1>6. phase[r] \in {"preparing", "awaiting"} /\ access' \in BOOLEAN
  BY <1>1 DEF MaskRefused
<1>7. UNCHANGED <<setup, request, route, wire, findings, events, metrics, owed>>
  BY DEF MaskRefused, buffers
<1> HIDE DEF rec, answer
<1> QED BY <1>3, <1>4, <1>5, <1>6, <1>7, OutcomeKeeps

LEMMA PreparedKeeps ==
  ASSUME IInv, NEW r \in Requests, NEW masked \in {0, 1}
  PROVE  LET rec == Prepared(r, masked)
         IN /\ rec \in Records /\ rec.scope = record[r].scope
            /\ record[r].degraded \subseteq rec.degraded
            /\ rec.degraded \cap Gaps = record[r].degraded \cap Gaps
<1> DEFINE one == [record[r] EXCEPT !.masked = masked]
           more == one.degraded \cup (IF IsMasked(r) THEN {"ner_disabled"} ELSE {})
           two == [one EXCEPT !.degraded = more]
<1>1. SameAs(one, record[r])
  BY RecordOf, WithMasked
<1>2. Prepared(r, masked) = two
  BY DEF Prepared
<1>3. more \in SUBSET Kinds
  BY <1>1 DEF SameAs, Records, Kinds
<1>4. more \cap Gaps = one.degraded \cap Gaps /\ one.degraded \subseteq more
  BY DEF Gaps
<1> HIDE DEF one, more
<1>5. two \in Records /\ two.degraded = more /\ two.scope = one.scope
  BY <1>1, <1>3, WithDegraded DEF SameAs
<1> QED BY <1>1, <1>2, <1>4, <1>5 DEF SameAs

LEMMA SendKeeps == ASSUME IInv, NEW r \in Requests, Send(r) PROVE IInv'
<1>1. PICK masked \in {0, 1} :
        IF route[r].provider \notin DOMAIN BasesOf(setup)
        THEN Refuse(r, Prepared(r, masked), "endpoint_unsupported") /\ UNCHANGED wire
        ELSE /\ wire' = [wire EXCEPT ![r] = Call(BasesOf(setup)[route[r].provider],
                                                 route[r].upstream,
                                                 ToUpstream(request[r].headers))]
             /\ phase' = [phase EXCEPT ![r] = "awaiting"]
             /\ record' = [record EXCEPT ![r] = Prepared(r, masked)]
             /\ UNCHANGED told
  BY Zenon DEF Send, BasesOf, Call
<1>2. UNCHANGED <<setup, access, request, route, findings, events, metrics, owed>>
  BY DEF Send, buffers
<1> DEFINE base == Prepared(r, masked)
<1>3. /\ base \in Records /\ base.scope = record[r].scope
      /\ record[r].degraded \subseteq base.degraded
      /\ base.degraded \cap Gaps = record[r].degraded \cap Gaps
  BY PreparedKeeps
<1>4. phase[r] = "preparing" /\ access \in BOOLEAN
  BY DEF Send, IInv, TypeOK
<1>5. CASE route[r].provider \notin DOMAIN BasesOf(setup)
  <2> DEFINE error == "endpoint_unsupported"
             rec == [base EXCEPT !.status = Status(error), !.error = error]
             answer == Own(Status(error), {"x-periskop-policy-id", "x-periskop-error"})
  <2>1. Answer(r, rec, answer) /\ UNCHANGED wire
    BY <1>1, <1>5 DEF Refuse
  <2>2. SameAs(rec, base)
    <3>1. error \in Errors
      BY DEF Errors, MaskRefusals
    <3> HIDE DEF error, base
    <3> QED BY <1>3, <3>1, RefusedRecord
  <2> HIDE DEF rec, base, answer
  <2> QED BY <1>2, <1>3, <1>4, <2>1, <2>2, OutcomeKeeps
<1>6. CASE route[r].provider \in DOMAIN BasesOf(setup)
  <2> DEFINE out == Call(BasesOf(setup)[route[r].provider], route[r].upstream,
                         ToUpstream(request[r].headers))
  <2>1. /\ phase' = [phase EXCEPT ![r] = "awaiting"]
        /\ record' = [record EXCEPT ![r] = base]
        /\ wire' = [wire EXCEPT ![r] = out]
    BY <1>1, <1>6
  <2>2. out \in Reached
    <3>1. setup \in Setups /\ request[r] \in Sent /\ route[r] \in Routes
      BY DEF IInv, TypeOK
    <3>2. BasesOf(setup)[route[r].provider] \in UpBases
      <4>1. BasesOf(setup)[route[r].provider]
              \in {BasesOf(setup)[p] : p \in DOMAIN BasesOf(setup)}
        BY <1>6
      <4> QED BY <3>1, <4>1, Zenon DEF UpBases
    <3> QED BY <3>1, <3>2 DEF Reached
  <2>3. Leads(r, out)
    BY DEF Leads, Call
  <2> HIDE DEF out, base
  <2>4. SentAlong(r)
    BY <1>4, <1>6, <2>1, <2>2, <2>3 DEF SentAlong, IInv, TypeOK
  <2>5. metrics' = metrics /\ metrics \in Counters
    BY <1>2 DEF IInv, TypeOK
  <2> QED BY <1>2, <1>3, <1>4, <2>1, <2>4, <2>5, GettingOn
<1> QED BY <1>5, <1>6

LEMMA AbandonKeeps == ASSUME IInv, NEW r \in Requests, Abandon(r) PROVE IInv'
<1>1. /\ phase[r] = "awaiting" /\ phase' = [phase EXCEPT ![r] = "abandoned"]
      /\ UNCHANGED <<setup, access, request, route, record, wire, findings, events, metrics, owed>>
  BY DEF Abandon, buffers
<1>2. record' = [record EXCEPT ![r] = record[r]]
  BY <1>1 DEF IInv, TypeOK
<1>3. record[r] \in Records /\ SentAlong(r) /\ metrics \in Counters /\ access \in BOOLEAN
  BY <1>1 DEF SentAlong, IInv, TypeOK
<1> QED BY <1>1, <1>2, <1>3, GettingOn

LEMMA UnreachableKeeps == ASSUME IInv, NEW r \in Requests, Unreachable(r) PROVE IInv'
<1> DEFINE rec == [record[r] EXCEPT !.status = 502]
           answer == Own(502, {})
<1>1. /\ phase[r] = "awaiting" /\ Answer(r, rec, answer)
      /\ UNCHANGED <<setup, access, request, route, wire, findings, events, metrics, owed>>
  BY DEF Unreachable, buffers
<1>2. SameAs(rec, record[r]) /\ record[r] \in Records /\ access \in BOOLEAN
  <2>1. 502 \in Nat
    OBVIOUS
  <2> QED BY <2>1, RecordOf, WithStatus DEF IInv, TypeOK
<1> HIDE DEF rec, answer
<1> QED BY <1>1, <1>2, OutcomeKeeps

LEMMA CutKeeps ==
  ASSUME IInv, NEW r \in Requests, phase[r] = "awaiting", NEW error \in Errors, Cut(r, error),
         UNCHANGED <<setup, access, request, route, wire>>, UNCHANGED buffers
  PROVE  IInv'
<1> DEFINE rec == [record[r] EXCEPT !.status = Status(error), !.error = error]
           answer == Own(Status(error), MarksOf(record[r], TRUE, TRUE, {}))
<1>1. Answer(r, rec, answer)
  BY DEF Cut
<1>2. SameAs(rec, record[r]) /\ record[r] \in Records /\ access \in BOOLEAN
  BY RecordOf, RefusedRecord DEF IInv, TypeOK
<1>3. UNCHANGED <<setup, access, request, route, wire, findings, events, metrics, owed>>
  BY DEF buffers
<1> HIDE DEF rec, answer
<1> QED BY <1>1, <1>2, <1>3, OutcomeKeeps

LEMMA VaultGoneKeeps == ASSUME IInv, NEW r \in Requests, VaultGone(r) PROVE IInv'
<1>1. "vault_unavailable" \in Errors
  BY DEF Errors, MaskRefusals, VaultFailures
<1>2. /\ phase[r] = "awaiting" /\ Cut(r, "vault_unavailable")
      /\ UNCHANGED <<setup, access, request, route, wire>> /\ UNCHANGED buffers
  BY DEF VaultGone
<1> QED BY <1>1, <1>2, CutKeeps

LEMMA ProviderAnswersKeeps == ASSUME IInv, NEW r \in Requests, ProviderAnswers(r) PROVE IInv'
<1>1. /\ phase[r] = "awaiting"
      /\ UNCHANGED <<setup, access, request, route, wire>> /\ UNCHANGED buffers
  BY DEF ProviderAnswers
<1>2. PICK a \in Answers, aliases \in BOOLEAN :
        IF MayCut(a, aliases) THEN Cut(r, CutFor(a)) ELSE Deliver(r, a, aliases)
  BY Zenon DEF ProviderAnswers
<1>3. CASE MayCut(a, aliases)
  <2>1. CutFor(a) \in Errors
    BY DEF CutFor, Errors, MaskRefusals, VaultFailures
  <2> QED BY <1>1, <1>2, <1>3, <2>1, CutKeeps
<1>4. CASE ~MayCut(a, aliases)
  <2> DEFINE truncated == a.kind = "stream" /\ a.truncated
             rec == [record[r] EXCEPT !.status = a.status, !.truncated = truncated]
             answer == [status |-> a.status, degraded |-> rec.degraded,
                        headers |-> ToDownstream(a.headers,
                                      MarksOf(rec, FALSE, truncated, rec.degraded))]
  <2>1. Answer(r, rec, answer)
    BY <1>2, <1>4, Zenon DEF Deliver
  <2>2. a.status \in Nat /\ truncated \in BOOLEAN
    BY RecordsAssumption
  <2>3. SameAs(rec, record[r]) /\ record[r] \in Records /\ access \in BOOLEAN
    <3> HIDE DEF truncated
    <3> QED BY <2>2, RecordOf, DeliveredRecord DEF IInv, TypeOK
  <2>4. UNCHANGED <<setup, access, request, route, wire, findings, events, metrics, owed>>
    BY <1>1 DEF buffers
  <2> HIDE DEF rec, answer
  <2> QED BY <1>1, <2>1, <2>3, <2>4, OutcomeKeeps
<1> QED BY <1>3, <1>4

\* The counters of an answer say nothing of what the lists dropped.
LEMMA CountKeeps == ASSUME IInv, NEW r \in Requests, Count(r) PROVE IInv'
<1> DEFINE rec == record[r]
           refused == rec.error # ""
           n1 == metrics.refusals + (IF refused THEN 1 ELSE 0)
           n2 == metrics.requests + (IF refused THEN 0 ELSE 1)
           n3 == metrics.masked + (IF refused THEN 0 ELSE rec.masked)
           n4 == metrics.reassembly + (IF rec.truncated THEN 1 ELSE 0)
           one == [metrics EXCEPT !.refusals = n1]
           two == [one EXCEPT !.requests = n2]
           three == [two EXCEPT !.masked = n3]
           four == [three EXCEPT !.reassembly = n4]
<1>1. rec \in Records /\ metrics \in Counters /\ access \in BOOLEAN
  BY RecordOf DEF IInv, TypeOK
<1>2. n1 \in Nat /\ n2 \in Nat /\ n3 \in Nat /\ n4 \in Nat
  <2> HIDE DEF rec
  <2>1. rec.masked \in Nat
    BY <1>1 DEF Records
  <2>2. /\ metrics.refusals \in Nat /\ metrics.requests \in Nat
        /\ metrics.masked \in Nat /\ metrics.reassembly \in Nat
    BY <1>1 DEF Counters
  <2>3. \A a, b, c \in Nat : a + b \in Nat /\ a + c \in Nat
    OBVIOUS
  <2>4. /\ (IF refused THEN 1 ELSE 0) \in Nat /\ (IF refused THEN 0 ELSE 1) \in Nat
        /\ (IF refused THEN 0 ELSE rec.masked) \in Nat
        /\ (IF rec.truncated THEN 1 ELSE 0) \in Nat
    <3>1. 0 \in Nat /\ 1 \in Nat
      OBVIOUS
    <3> QED BY <2>1, <3>1, Zenon
  <2> HIDE DEF refused
  <2> QED BY <2>2, <2>3, <2>4, Zenon
<1>3. metrics' = [metrics EXCEPT !.refusals = n1, !.requests = n2, !.masked = n3,
                                 !.reassembly = n4]
  BY DEF Count
<1> HIDE DEF n1, n2, n3, n4
<1>4. metrics' = four
  BY <1>3
<1> DEFINE Same(m, old) == /\ m \in Counters /\ m.findings_evicted = old.findings_evicted
                           /\ m.events_evicted = old.events_evicted
<1>5. Same(one, metrics)
  BY <1>1, <1>2 DEF Counters
<1>6. Same(two, one)
  <2> HIDE DEF one
  <2> QED BY <1>2, <1>5 DEF Counters
<1>7. Same(three, two)
  <2> HIDE DEF two
  <2> QED BY <1>2, <1>6 DEF Counters
<1>8. Same(four, three)
  <2> HIDE DEF three
  <2> QED BY <1>2, <1>7 DEF Counters
<1>9. Same(metrics', metrics)
  BY <1>4, <1>5, <1>6, <1>7, <1>8
<1>10. /\ phase[r] = "answered" /\ phase' = [phase EXCEPT ![r] = "counted"]
       /\ record' = [record EXCEPT ![r] = record[r]]
       /\ UNCHANGED <<setup, access, request, route, wire, findings, events, owed>>
  BY DEF Count, IInv, TypeOK
<1>11. SentAlong(r)
  BY <1>10 DEF SentAlong, IInv, TypeOK
<1> QED BY <1>1, <1>9, <1>10, <1>11, GettingOn

(***************************************************************************)
(* The door                                                                *)
(***************************************************************************)

\* What the door may do with a request: answer it, let it declare the gap of its body
\* under a conversation that can be named, or let it through because there is none.
Admitted(r, q, where, to, rec) ==
  /\ rec \in Records
  /\ \/ to = "answered" /\ rec.degraded = {}
     \/ /\ to = "declaring" /\ where.endpoint = "passthrough" /\ rec.scope # <<>>
        /\ q.body.kind = "json" /\ rec.degraded = {GapOf(where.treatment, q.body)}
        /\ GapOf(where.treatment, q.body) # ""
     \/ /\ to = "preparing" /\ where.endpoint = "passthrough" /\ rec.degraded = {}
        /\ q.body.kind = "json" => GapOf(where.treatment, q.body) = ""

Moved(r, to, rec) == phase' = [phase EXCEPT ![r] = to] /\ record' = [record EXCEPT ![r] = rec]

LEMMA GapIsAGap == \A t, body : GapOf(t, body) # "" => GapOf(t, body) \in Gaps
BY DEF GapOf, Gaps

LEMMA RefusedAtTheDoor ==
  ASSUME NEW r, NEW q, NEW where, NEW rec \in Records, rec.degraded = {}, NEW error \in Errors,
         Refuse(r, rec, error)
  PROVE  \E to, new : Admitted(r, q, where, to, new) /\ Moved(r, to, new)
<1> DEFINE new == [rec EXCEPT !.status = Status(error), !.error = error]
<1>1. SameAs(new, rec)
  BY RefusedRecord
<1>2. Moved(r, "answered", new)
  BY DEF Refuse, Answer, Moved
<1> HIDE DEF new
<1>3. Admitted(r, q, where, "answered", new)
  BY <1>1 DEF SameAs, Admitted
<1> QED BY <1>2, <1>3

LEMMA AnsweredAtOnce ==
  ASSUME NEW r, NEW q, NEW where, NEW rec \in Records, rec.degraded = {}, AtOnce(r, where, rec)
  PROVE  \E to, new : Admitted(r, q, where, to, new) /\ Moved(r, to, new)
<1>1. ASSUME NEW n \in {200, 404, 405}, NEW answer, Answer(r, [rec EXCEPT !.status = n], answer)
      PROVE  \E to, new : Admitted(r, q, where, to, new) /\ Moved(r, to, new)
  <2> DEFINE new == [rec EXCEPT !.status = n]
  <2>1. n \in Nat
    OBVIOUS
  <2>2. SameAs(new, rec)
    BY <2>1, WithStatus
  <2>3. Moved(r, "answered", new)
    BY <1>1 DEF Answer, Moved
  <2> HIDE DEF new
  <2>4. Admitted(r, q, where, "answered", new)
    BY <2>2 DEF SameAs, Admitted
  <2> QED BY <2>3, <2>4
<1>2. CASE Refuse(r, rec, "endpoint_unsupported")
  <2>1. "endpoint_unsupported" \in Errors
    BY DEF Errors, MaskRefusals
  <2> QED BY <1>2, <2>1, RefusedAtTheDoor
<1>3. \/ \E n \in {200, 404, 405} : \E answer : Answer(r, [rec EXCEPT !.status = n], answer)
      \/ Refuse(r, rec, "endpoint_unsupported")
  BY DEF AtOnce
<1> QED BY <1>1, <1>2, <1>3

LEMMA AtTheDoorOutcome ==
  ASSUME NEW r \in Requests, NEW q \in Sent, NEW where, where.endpoint = "passthrough",
         NEW rec \in Records, rec.degraded = {}, AtTheDoor(r, q, where, rec)
  PROVE  \E to, new : Admitted(r, q, where, to, new) /\ Moved(r, to, new)
<1> DEFINE known == Scoped(rec, Identify(q.session, q.body.conversation, r))
           gap == IF q.body.kind = "json" THEN GapOf(where.treatment, q.body) ELSE ""
           named == [known EXCEPT !.degraded = {gap}]
<1>1. known \in Records /\ known.degraded = {}
  BY IdentifiedSomehow, ScopedRecord
<1>2. \/ \E error \in {"vault_unavailable", "body_unparsable"} : Refuse(r, rec, error)
      \/ Refuse(r, known, "tool_arguments_rejected")
      \/ /\ gap # "" /\ Nameable(known) /\ Moved(r, "declaring", named)
      \/ /\ gap = "" /\ Moved(r, "preparing", known)
  BY Zenon DEF AtTheDoor, Moved
<1> HIDE DEF known
<1>3. CASE \E error \in {"vault_unavailable", "body_unparsable"} : Refuse(r, rec, error)
  <2>1. {"vault_unavailable", "body_unparsable"} \subseteq Errors
    BY DEF Errors, MaskRefusals, VaultFailures
  <2> QED BY <1>3, <2>1, RefusedAtTheDoor
<1>4. CASE Refuse(r, known, "tool_arguments_rejected")
  <2>1. "tool_arguments_rejected" \in Errors
    BY DEF Errors
  <2> QED BY <1>1, <1>4, <2>1, RefusedAtTheDoor
<1>5. CASE gap # "" /\ Nameable(known) /\ Moved(r, "declaring", named)
  <2>1. {gap} \in SUBSET Kinds
    <3>1. q.body.kind = "json" /\ gap = GapOf(where.treatment, q.body)
      BY <1>5
    <3>2. gap \in Gaps
      BY <1>5, <3>1, GapIsAGap
    <3> HIDE DEF gap
    <3> QED BY <3>2 DEF Kinds
  <2> HIDE DEF gap
  <2>2. named \in Records /\ named.degraded = {gap} /\ named.scope = known.scope
    BY <1>1, <2>1, WithDegraded
  <2> HIDE DEF named
  <2>3. named.scope # <<>>
    BY <1>5, <2>2 DEF Nameable
  <2>4. Admitted(r, q, where, "declaring", named)
    BY <1>5, <2>2, <2>3 DEF Admitted, gap
  <2> QED BY <1>5, <2>4
<1>6. CASE gap = "" /\ Moved(r, "preparing", known)
  <2>1. Admitted(r, q, where, "preparing", known)
    BY <1>1, <1>6 DEF Admitted
  <2> QED BY <1>6, <2>1
<1> QED BY <1>2, <1>3, <1>4, <1>5, <1>6

LEMMA ArriveKeeps == ASSUME IInv, NEW r \in Requests, Arrive(r) PROVE IInv'
<1>1. phase[r] = "away" /\ UNCHANGED <<setup, access, wire, findings, events, metrics, owed>>
  BY DEF Arrive, buffers
<1>2. PICK q \in Sent :
        LET where == Resolve(q.method, q.path)
            rec == [BlankRecord EXCEPT !.endpoint = EndpointOf(where),
                                       !.provider = where.provider]
        IN /\ request' = [request EXCEPT ![r] = q]
           /\ route' = [route EXCEPT ![r] = where]
           /\ IF where.endpoint = "passthrough" THEN AtTheDoor(r, q, where, rec)
              ELSE AtOnce(r, where, rec)
  BY Zenon DEF Arrive
<1> DEFINE where == Resolve(q.method, q.path)
           rec0 == [BlankRecord EXCEPT !.endpoint = EndpointOf(where),
                                       !.provider = where.provider]
<1>3. where \in Routes
  BY DEF Routes
<1>4. /\ request' = [request EXCEPT ![r] = q] /\ route' = [route EXCEPT ![r] = where]
      /\ \/ where.endpoint = "passthrough" /\ AtTheDoor(r, q, where, rec0)
         \/ AtOnce(r, where, rec0)
  BY <1>2, Zenon
<1> HIDE DEF where
<1>5. rec0 \in Records /\ rec0.degraded = {}
  BY <1>3, RoutedRecord, Zenon
<1> HIDE DEF rec0
<1>6. PICK to, rec : Admitted(r, q, where, to, rec) /\ Moved(r, to, rec)
  BY <1>4, <1>5, AtTheDoorOutcome, AnsweredAtOnce
<1>7. to \in {"answered", "declaring", "preparing"} /\ rec \in Records
  BY <1>6 DEF Admitted
<1>8. TypeOK'
  <2>1. phase' \in [Requests -> Phases]
    BY <1>6, <1>7 DEF Moved, IInv, TypeOK, Phases
  <2>2. record' \in [Requests -> Records]
    BY <1>6, <1>7 DEF Moved, IInv, TypeOK
  <2>3. route' \in [Requests -> Routes] /\ request' \in [Requests -> Sent]
    BY <1>3, <1>4 DEF IInv, TypeOK
  <2> QED BY <1>1, <2>1, <2>2, <2>3 DEF IInv, TypeOK
<1>9. \A s \in Requests : /\ phase'[s] = (IF s = r THEN to ELSE phase[s])
                          /\ record'[s] = (IF s = r THEN rec ELSE record[s])
                          /\ request'[s] = (IF s = r THEN q ELSE request[s])
                          /\ route'[s] = (IF s = r THEN where ELSE route[s])
  BY <1>4, <1>6 DEF Moved, IInv, TypeOK
<1>10. ~InDoubt(r) /\ wire[r] = Nothing
  BY <1>1 DEF IInv, DoorHolds, InDoubt
<1>11. /\ InDoubt(r)' => to = "declaring" /\ rec.scope # <<>>
       /\ to = "declaring" => InDoubt(r)'
  BY <1>6, <1>9, GapIsAGap DEF Admitted, InDoubt
<1>12. \A s \in Requests \ {r} : /\ InDoubt(s)' => InDoubt(s)
                                 /\ InDoubt(s) => InDoubt(s)'
  BY <1>9 DEF InDoubt
<1>13. Filed' = Filed
  BY <1>1, <1>9, <1>10, <1>11, <1>12 DEF Filed
<1>14. Measured' = Measured
  BY <1>1, <1>7, <1>9 DEF Measured
<1>15. OwesFindings' = OwesFindings /\ OwesEvents' = OwesEvents
  BY <1>1, <1>7, <1>9 DEF OwesFindings, OwesEvents
<1>16. BooksBalance'
  <2>1. owed[r] # 1
    BY <1>1 DEF IInv, BooksBalance
  <2>2. \A s \in Requests : owed[s] = 1 => phase'[s] \in {"declared", "measured"}
    BY <1>9, <2>1 DEF IInv, BooksBalance
  <2> QED BY <1>1, <1>13, <1>14, <1>15, <2>2 DEF IInv, BooksBalance
<1>17. FindingsAreKept'
  <2>1. \A s \in Filed : record'[s] = record[s]
    BY <1>9, <1>10 DEF Filed
  <2> QED BY <1>1, <1>13, <1>15, <2>1 DEF IInv, FindingsAreKept
<1>18. EventsAreKept'
  <2>1. \A s \in Measured : s # r
    BY <1>1 DEF Measured
  <2>2. \A s \in Measured : record'[s] = record[s] /\ (InDoubt(s)' => InDoubt(s))
    BY <1>9, <1>12, <2>1 DEF Measured
  <2> QED BY <1>1, <1>14, <1>15, <2>2 DEF IInv, EventsAreKept
<1>19. DoorHolds'
  <2> SUFFICES ASSUME NEW s \in Requests
               PROVE  /\ phase'[s] = "away" => record'[s].degraded = {} /\ record'[s].scope = <<>>
                      /\ phase'[s] # "away"
                           => route'[s] = Resolve(request'[s].method, request'[s].path)
                      /\ phase'[s] \in AtOrBeyond \/ wire'[s] # Nothing => Declared(s)'
                      /\ phase'[s] \in {"away", "declaring", "declared", "preparing"}
                           => wire'[s] = Nothing
                      /\ phase'[s] = "declaring" => InDoubt(s)'
                      /\ InDoubt(s)' => record'[s].scope # <<>>
    BY DEF DoorHolds
  <2>1. CASE s # r
    <3>1. /\ phase'[s] = phase[s] /\ record'[s] = record[s] /\ request'[s] = request[s]
          /\ route'[s] = route[s] /\ wire'[s] = wire[s]
      BY <1>1, <1>9, <2>1
    <3>2. Gap(s)' = Gap(s)
      BY <3>1 DEF Gap
    <3>3. Declared(s) => Declared(s)'
      BY <3>1, <3>2 DEF Declared
    <3>4. /\ phase[s] = "away" => record[s].degraded = {} /\ record[s].scope = <<>>
          /\ phase[s] # "away" => route[s] = Resolve(request[s].method, request[s].path)
          /\ phase[s] \in AtOrBeyond \/ wire[s] # Nothing => Declared(s)
          /\ phase[s] \in {"away", "declaring", "declared", "preparing"} => wire[s] = Nothing
          /\ phase[s] = "declaring" => InDoubt(s)
          /\ InDoubt(s) => record[s].scope # <<>>
      BY DEF IInv, DoorHolds
    <3> QED BY <1>12, <2>1, <3>1, <3>3, <3>4
  <2>2. CASE s = r
    <3>1. /\ phase'[s] = to /\ record'[s] = rec /\ request'[s] = q /\ route'[s] = where
          /\ wire'[s] = Nothing
      BY <1>1, <1>9, <1>10, <2>2
    <3>2. to \in AtOrBeyond => Declared(s)'
      <4>1. Gap(s)' = IF q.body.kind = "json" THEN GapOf(where.treatment, q.body) ELSE ""
        BY <3>1 DEF Gap
      <4>2. ASSUME to = "declaring" PROVE Declared(s)'
        BY <1>6, <3>1, <4>1, <4>2 DEF Admitted, Declared
      <4>3. ASSUME to = "preparing" PROVE Declared(s)'
        BY <1>6, <3>1, <4>1, <4>3 DEF Admitted, Declared
      <4> QED BY <1>7, <4>2, <4>3 DEF AtOrBeyond
    <3>3. where = Resolve(request'[s].method, request'[s].path)
      BY <3>1 DEF where
    <3> QED BY <1>7, <1>11, <2>2, <3>1, <3>2, <3>3
  <2> QED BY <2>1, <2>2
<1>20. WireLeadsThere'
  BY <1>1, <1>9, <1>10 DEF IInv, WireLeadsThere, Leads
<1> QED BY <1>8, <1>16, <1>17, <1>18, <1>19, <1>20 DEF IInv

(***************************************************************************)
(* Steps that fill the buffers and count what they drop                    *)
(***************************************************************************)

LEMMA FiniteRequests ==
  ASSUME NEW S \in SUBSET Requests
  PROVE  IsFiniteSet(S) /\ Cardinality(S) \in Nat
BY RecordsAssumption, FS_Subset, FS_CardinalityType

LEMMA OneMore ==
  ASSUME NEW S \in SUBSET Requests, NEW r \in Requests, r \notin S
  PROVE  Cardinality(S \cup {r}) = Cardinality(S) + 1
BY FiniteRequests, FS_AddElement

LEMMA OneLess ==
  ASSUME NEW S \in SUBSET Requests, NEW r \in S
  PROVE  Cardinality(S \ {r}) = Cardinality(S) - 1
BY FiniteRequests, FS_RemoveElement

\* One more was put down: it is in the list, or what it pushed out is owed.
LEMMA OneIsPutDown ==
  ASSUME NEW len \in Nat, NEW longer \in Nat, NEW drop \in {0, 1}, NEW evicted \in Nat,
         NEW owes \in Nat, NEW all \in Nat,
         longer + drop = len + 1, len + evicted + owes = all
  PROVE  longer + evicted + (owes + drop) = all + 1
OBVIOUS

LEMMA RequestSets ==
  /\ Filed \in SUBSET Requests /\ Measured \in SUBSET Requests
  /\ OwesFindings \in SUBSET Requests /\ OwesEvents \in SUBSET Requests
BY DEF Filed, Measured, OwesFindings, OwesEvents

\* What the door promised of a request, told of the steps after it.
LEMMA DoorStays ==
  ASSUME IInv, NEW r \in Requests, NEW to,
         \/ phase[r] = "declaring" /\ to = "declared"
         \/ phase[r] = "declared" /\ to = "preparing"
         \/ phase[r] = "counted" /\ to = "measured"
         \/ phase[r] = "measured" /\ to = "done",
         phase' = [phase EXCEPT ![r] = to],
         UNCHANGED <<setup, request, route, record, wire>>
  PROVE  DoorHolds' /\ WireLeadsThere'
<1>1. \A s \in Requests : phase'[s] = IF s = r THEN to ELSE phase[s]
  BY DEF IInv, TypeOK
<1>2. \A s \in Requests : /\ Declared(s) => Declared(s)'
                          /\ InDoubt(s) => InDoubt(s)'
                          /\ InDoubt(s)' => InDoubt(s)
  BY DEF Declared, Gap, InDoubt
<1>3. DoorHolds'
  <2> SUFFICES ASSUME NEW s \in Requests
               PROVE  /\ phase'[s] = "away" => record[s].degraded = {} /\ record[s].scope = <<>>
                      /\ phase'[s] # "away" => route[s] = Resolve(request[s].method, request[s].path)
                      /\ phase'[s] \in AtOrBeyond \/ wire[s] # Nothing => Declared(s)'
                      /\ phase'[s] \in {"away", "declaring", "declared", "preparing"}
                           => wire[s] = Nothing
                      /\ phase'[s] = "declaring" => InDoubt(s)'
                      /\ InDoubt(s)' => record[s].scope # <<>>
    BY DEF DoorHolds
  <2>1. /\ phase[s] = "away" => record[s].degraded = {} /\ record[s].scope = <<>>
        /\ phase[s] # "away" => route[s] = Resolve(request[s].method, request[s].path)
        /\ phase[s] \in AtOrBeyond \/ wire[s] # Nothing => Declared(s)
        /\ phase[s] \in {"away", "declaring", "declared", "preparing"} => wire[s] = Nothing
        /\ phase[s] = "declaring" => InDoubt(s)
        /\ InDoubt(s) => record[s].scope # <<>>
    BY DEF IInv, DoorHolds
  <2>2. CASE s # r
    <3>1. phase'[s] = phase[s]
      BY <1>1, <2>2
    <3> QED BY <1>2, <2>1, <3>1
  <2>3. CASE s = r
    <3>1. /\ phase'[s] = to /\ phase[s] # "away" /\ to # "away" /\ to # "declaring"
          /\ to \in AtOrBeyond => phase[s] \in AtOrBeyond
          /\ to \in {"declared", "preparing"}
               => phase[s] \in {"away", "declaring", "declared", "preparing"}
          /\ to \in {"away", "declaring", "declared", "preparing"}
               => to \in {"declared", "preparing"}
      BY <1>1, <2>3 DEF AtOrBeyond
    <3> QED BY <1>2, <2>1, <3>1
  <2> QED BY <2>2, <2>3
<1>4. WireLeadsThere'
  BY DEF IInv, WireLeadsThere, Leads
<1> QED BY <1>3, <1>4

LEMMA FileFindingKeeps == ASSUME IInv, NEW r \in Requests, FileFinding(r) PROVE IInv'
<1> DEFINE item == FindingOf(r)
           drop == Dropped(findings, FindingsKept)
           list == Pushed(findings, FindingsKept, item)
<1>1. /\ phase[r] = "declaring" /\ phase' = [phase EXCEPT ![r] = "declared"]
      /\ findings' = list /\ owed' = [owed EXCEPT ![r] = drop]
      /\ UNCHANGED <<setup, access, request, route, record, wire, events, metrics>>
  BY DEF FileFinding
<1>2. item \in FindingSet
  BY RecordOf DEF FindingOf, FindingSet, Records
<1>3. findings \in Seq(FindingSet) /\ Len(findings) <= FindingsKept
  BY DEF IInv, TypeOK, BooksBalance
<1>4. /\ list \in Seq(FindingSet) /\ drop \in {0, 1} /\ Len(list) <= FindingsKept
      /\ Len(list) + drop = Len(findings) + 1 /\ item \in Range(list)
      /\ drop = 0 => Range(findings) \subseteq Range(list)
  <2> HIDE DEF item
  <2> QED BY <1>2, <1>3, PushedList, RecordsAssumption
<1>5. item.scope = record[r].scope /\ item.rule = record[r].degraded
  BY DEF FindingOf
<1> HIDE DEF item, drop, list
<1>6. TypeOK'
  <2>1. phase' \in [Requests -> Phases] /\ owed' \in [Requests -> {0, 1}]
    BY <1>1, <1>4 DEF IInv, TypeOK, Phases
  <2> QED BY <1>1, <1>4, <2>1 DEF IInv, TypeOK
<1>7. \A s \in Requests : /\ phase'[s] = (IF s = r THEN "declared" ELSE phase[s])
                          /\ owed'[s] = (IF s = r THEN drop ELSE owed[s])
  BY <1>1 DEF IInv, TypeOK
<1>8. \A s \in Requests : (InDoubt(s) => InDoubt(s)') /\ (InDoubt(s)' => InDoubt(s))
  BY <1>1 DEF InDoubt
<1>9. InDoubt(r)
  BY <1>1 DEF IInv, DoorHolds
<1>10. Filed' = Filed \cup {r} /\ r \notin Filed
  BY <1>1, <1>7, <1>8, <1>9 DEF Filed
<1>11. Measured' = Measured /\ OwesEvents' = OwesEvents
  BY <1>1, <1>7 DEF Measured, OwesEvents
<1>12. OwesFindings' = (IF drop = 1 THEN OwesFindings \cup {r} ELSE OwesFindings)
  BY <1>1, <1>4, <1>7 DEF OwesFindings
<1>13. r \notin OwesFindings
  BY <1>1 DEF OwesFindings
<1>14. BooksBalance'
  <2>1. /\ Cardinality(Filed') = Cardinality(Filed) + 1
        /\ Cardinality(OwesFindings') = Cardinality(OwesFindings) + drop
        /\ Cardinality(OwesFindings) \in Nat /\ Cardinality(Filed) \in Nat
    BY <1>4, <1>10, <1>12, <1>13, RequestSets, OneMore, FiniteRequests
  <2>2. \A s \in Requests : owed'[s] = 1 => phase'[s] \in {"declared", "measured"}
    BY <1>7 DEF IInv, BooksBalance
  <2>3. metrics.findings_evicted \in Nat /\ Len(findings) \in Nat /\ Len(list) \in Nat
    BY <1>3, <1>4 DEF IInv, TypeOK, Counters
  <2>4. Len(list) + metrics.findings_evicted + Cardinality(OwesFindings') = Cardinality(Filed')
    <3>1. Len(findings) + metrics.findings_evicted + Cardinality(OwesFindings)
            = Cardinality(Filed)
      BY DEF IInv, BooksBalance
    <3>2. Len(list) + drop = Len(findings) + 1 /\ drop \in {0, 1}
      BY <1>4
    <3> DEFINE len == Len(findings)
               longer == Len(list)
               evicted == metrics.findings_evicted
               owes == Cardinality(OwesFindings)
               all == Cardinality(Filed)
    <3>3. /\ len \in Nat /\ longer \in Nat /\ evicted \in Nat /\ owes \in Nat /\ all \in Nat
          /\ longer + drop = len + 1 /\ len + evicted + owes = all
      BY <2>1, <2>3, <3>1, <3>2
    <3> HIDE DEF len, longer, evicted, owes, all
    <3>4. longer + evicted + (owes + drop) = all + 1
      BY <3>2, <3>3, OneIsPutDown
    <3> QED BY <2>1, <3>4 DEF longer, evicted, owes, all
  <2> QED BY <1>1, <1>4, <1>11, <2>2, <2>4 DEF IInv, BooksBalance
<1>15. FindingsAreKept'
  <2> SUFFICES ASSUME NEW s \in Filed'
               PROVE  \/ \E f \in Range(list) : FindingFor(record[s], f)
                      \/ metrics.findings_evicted > 0 \/ OwesFindings' # {}
    BY <1>1 DEF FindingsAreKept
  <2>1. CASE drop = 1
    BY <1>12, <2>1
  <2>2. CASE drop = 0 /\ s = r
    BY <1>4, <1>5, <2>2 DEF FindingFor
  <2>3. CASE drop = 0 /\ s \in Filed
    BY <1>4, <1>12, <2>3 DEF IInv, FindingsAreKept
  <2> QED BY <1>4, <1>10, <2>1, <2>2, <2>3
<1>16. EventsAreKept'
  BY <1>1, <1>8, <1>11 DEF IInv, EventsAreKept, Measured
<1>17. DoorHolds' /\ WireLeadsThere'
  BY <1>1, DoorStays
<1> QED BY <1>6, <1>14, <1>15, <1>16, <1>17 DEF IInv

LEMMA CountDroppedFindingsKeeps ==
  ASSUME IInv, NEW r \in Requests, CountDroppedFindings(r) PROVE IInv'
<1> DEFINE n == metrics.findings_evicted + owed[r]
<1>1. /\ phase[r] = "declared" /\ phase' = [phase EXCEPT ![r] = "preparing"]
      /\ metrics' = [metrics EXCEPT !.findings_evicted = n] /\ owed' = [owed EXCEPT ![r] = 0]
      /\ UNCHANGED <<setup, access, request, route, record, wire, findings, events>>
  BY DEF CountDroppedFindings
<1>2. /\ metrics \in Counters /\ owed[r] \in {0, 1} /\ metrics.findings_evicted \in Nat
      /\ Len(findings) \in Nat
  BY DEF IInv, TypeOK, Counters
<1>3. n \in Nat /\ n >= metrics.findings_evicted
  BY <1>2
<1>4. n = metrics.findings_evicted + owed[r]
  OBVIOUS
<1> HIDE DEF n
<1>5. /\ metrics' \in Counters /\ metrics'.findings_evicted = n
      /\ metrics'.events_evicted = metrics.events_evicted
  BY <1>1, <1>2, <1>3 DEF Counters
<1>6. TypeOK'
  <2>1. phase' \in [Requests -> Phases] /\ owed' \in [Requests -> {0, 1}]
    BY <1>1 DEF IInv, TypeOK, Phases
  <2> QED BY <1>1, <1>5, <2>1 DEF IInv, TypeOK
<1>7. \A s \in Requests : /\ phase'[s] = (IF s = r THEN "preparing" ELSE phase[s])
                          /\ owed'[s] = (IF s = r THEN 0 ELSE owed[s])
  BY <1>1 DEF IInv, TypeOK
<1>8. \A s \in Requests : (InDoubt(s) => InDoubt(s)') /\ (InDoubt(s)' => InDoubt(s))
  BY <1>1 DEF InDoubt
<1>9. Filed' = Filed
  BY <1>1, <1>7, <1>8 DEF Filed
<1>10. Measured' = Measured /\ OwesEvents' = OwesEvents
  BY <1>1, <1>7 DEF Measured, OwesEvents
<1>11. /\ OwesFindings' = OwesFindings \ {r}
       /\ owed[r] = 1 => r \in OwesFindings
       /\ owed[r] = 0 => r \notin OwesFindings
  BY <1>1, <1>7 DEF OwesFindings
<1>12. BooksBalance'
  <2>1. Cardinality(OwesFindings') + owed[r] = Cardinality(OwesFindings)
    <3>1. CASE owed[r] = 1
      <4>1. Cardinality(OwesFindings') = Cardinality(OwesFindings) - 1
        BY <1>11, <3>1, RequestSets, OneLess
      <4> QED BY <3>1, <4>1, RequestSets, FiniteRequests
    <3>2. CASE owed[r] = 0
      <4>1. OwesFindings' = OwesFindings
        BY <1>11, <3>2
      <4> QED BY <3>2, <4>1, RequestSets, FiniteRequests
    <3> QED BY <1>2, <3>1, <3>2
  <2>2. OwesFindings' \in SUBSET Requests
    BY <1>11, RequestSets
  <2>3. Cardinality(OwesFindings') \in Nat
    BY <2>2, FiniteRequests
  <2>4. Len(findings) + n + Cardinality(OwesFindings') = Cardinality(Filed)
    <3>1. Len(findings) + metrics.findings_evicted + Cardinality(OwesFindings)
            = Cardinality(Filed)
      BY DEF IInv, BooksBalance
    <3> QED BY <1>2, <1>4, <2>1, <2>3, <3>1
  <2>5. \A s \in Requests : owed'[s] = 1 => phase'[s] \in {"declared", "measured"}
    BY <1>7 DEF IInv, BooksBalance
  <2> QED BY <1>1, <1>5, <1>9, <1>10, <2>4, <2>5 DEF IInv, BooksBalance
<1>13. FindingsAreKept'
  <2> SUFFICES ASSUME NEW s \in Filed
               PROVE  \/ \E f \in Range(findings) : FindingFor(record[s], f)
                      \/ n > 0 \/ OwesFindings' # {}
    BY <1>1, <1>5, <1>9 DEF FindingsAreKept
  <2>1. \/ \E f \in Range(findings) : FindingFor(record[s], f)
        \/ metrics.findings_evicted > 0 \/ OwesFindings # {}
    BY DEF IInv, FindingsAreKept
  <2>2. CASE metrics.findings_evicted > 0
    BY <1>2, <1>3, <2>2
  <2>3. CASE OwesFindings # {}
    <3>1. CASE owed[r] = 1
      BY <1>2, <1>4, <3>1
    <3>2. CASE owed[r] = 0
      BY <1>11, <2>3, <3>2
    <3> QED BY <1>2, <3>1, <3>2
  <2> QED BY <2>1, <2>2, <2>3
<1>14. EventsAreKept'
  BY <1>1, <1>5, <1>8, <1>10 DEF IInv, EventsAreKept, Measured
<1>15. DoorHolds' /\ WireLeadsThere'
  BY <1>1, DoorStays
<1> QED BY <1>6, <1>12, <1>13, <1>14, <1>15 DEF IInv

LEMMA MeasureKeeps == ASSUME IInv, NEW r \in Requests, Measure(r) PROVE IInv'
<1>1. /\ phase[r] = "counted" /\ phase' = [phase EXCEPT ![r] = "measured"]
      /\ UNCHANGED <<setup, access, request, route, record, wire, findings, metrics>>
  BY DEF Measure
<1>2. owed[r] = 0 /\ owed \in [Requests -> {0, 1}]
  BY <1>1 DEF IInv, TypeOK, BooksBalance
<1>3. PICK drop \in {0, 1} :
        /\ owed' = [owed EXCEPT ![r] = drop]
        /\ events' \in Seq(EventSet) /\ Len(events') <= EventsKept
        /\ record[r].scope # <<>> => /\ Len(events') + drop = Len(events) + 1
                                     /\ EventOf(r) \in Range(events')
        /\ record[r].scope = <<>> => events' = events /\ drop = 0
        /\ drop = 0 => Range(events) \subseteq Range(events')
  <2>1. events \in Seq(EventSet) /\ Len(events) <= EventsKept
    BY DEF IInv, TypeOK, BooksBalance
  <2>2. CASE record[r].scope = <<>>
    <3>1. owed' = owed /\ events' = events
      BY <2>2 DEF Measure
    <3>2. owed' = [owed EXCEPT ![r] = 0]
      BY <1>2, <3>1
    <3> QED BY <2>1, <2>2, <3>1, <3>2
  <2>3. CASE record[r].scope # <<>>
    <3> DEFINE item == EventOf(r)
               drop == Dropped(events, EventsKept)
               list == Pushed(events, EventsKept, item)
    <3>1. owed' = [owed EXCEPT ![r] = drop] /\ events' = list
      BY <2>3 DEF Measure
    <3>2. item \in EventSet
      BY RecordOf DEF EventOf, EventSet, Records
    <3>3. /\ list \in Seq(EventSet) /\ drop \in {0, 1} /\ Len(list) <= EventsKept
          /\ Len(list) + drop = Len(events) + 1 /\ item \in Range(list)
          /\ drop = 0 => Range(events) \subseteq Range(list)
      <4> HIDE DEF item
      <4> QED BY <2>1, <3>2, PushedList, RecordsAssumption
    <3> HIDE DEF drop, list
    <3> QED BY <2>3, <3>1, <3>3
  <2> QED BY <2>2, <2>3
<1>4. TypeOK'
  <2>1. phase' \in [Requests -> Phases] /\ owed' \in [Requests -> {0, 1}]
    BY <1>1, <1>3 DEF IInv, TypeOK, Phases
  <2> QED BY <1>1, <1>3, <2>1 DEF IInv, TypeOK
<1>5. \A s \in Requests : /\ phase'[s] = (IF s = r THEN "measured" ELSE phase[s])
                          /\ owed'[s] = (IF s = r THEN drop ELSE owed[s])
  BY <1>1, <1>3 DEF IInv, TypeOK
<1>6. \A s \in Requests : (InDoubt(s) => InDoubt(s)') /\ (InDoubt(s)' => InDoubt(s))
  BY <1>1 DEF InDoubt
<1>7. Filed' = Filed /\ OwesFindings' = OwesFindings
  <2>1. Filed' = Filed
    BY <1>1, <1>5, <1>6 DEF Filed
  <2>2. OwesFindings' = OwesFindings
    BY <1>1, <1>5 DEF OwesFindings
  <2> QED BY <2>1, <2>2
<1>8. /\ Measured' = (IF record[r].scope # <<>> THEN Measured \cup {r} ELSE Measured)
      /\ r \notin Measured
  BY <1>1, <1>5 DEF Measured
<1>9. /\ OwesEvents' = (IF drop = 1 THEN OwesEvents \cup {r} ELSE OwesEvents)
      /\ r \notin OwesEvents
  BY <1>1, <1>3, <1>5 DEF OwesEvents
<1>10. BooksBalance'
  <2>1. /\ Len(events) \in Nat /\ Len(events') \in Nat /\ metrics.events_evicted \in Nat
        /\ Cardinality(OwesEvents) \in Nat /\ Cardinality(Measured) \in Nat
    BY <1>3, RequestSets, FiniteRequests DEF IInv, TypeOK, Counters
  <2>2. Len(events) + metrics.events_evicted + Cardinality(OwesEvents) = Cardinality(Measured)
    BY DEF IInv, BooksBalance
  <2>3. Len(events') + metrics.events_evicted + Cardinality(OwesEvents') = Cardinality(Measured')
    <3>1. CASE record[r].scope = <<>>
      <4>1. drop = 0 /\ events' = events
        BY <1>3, <3>1
      <4>2. OwesEvents' = OwesEvents /\ Measured' = Measured
        BY <1>8, <1>9, <3>1, <4>1
      <4> QED BY <2>2, <4>1, <4>2
    <3>2. CASE record[r].scope # <<>>
      <4>1. Len(events') + drop = Len(events) + 1
        BY <1>3, <3>2
      <4>2. Cardinality(Measured') = Cardinality(Measured) + 1
        BY <1>8, <3>2, RequestSets, OneMore
      <4>3. Cardinality(OwesEvents') = Cardinality(OwesEvents) + drop
        BY <1>3, <1>9, <2>1, RequestSets, OneMore
      <4> DEFINE len == Len(events)
                 longer == Len(events')
                 evicted == metrics.events_evicted
                 owes == Cardinality(OwesEvents)
                 all == Cardinality(Measured)
      <4>4. /\ len \in Nat /\ longer \in Nat /\ evicted \in Nat /\ owes \in Nat /\ all \in Nat
            /\ longer + drop = len + 1 /\ len + evicted + owes = all
        BY <2>1, <2>2, <4>1
      <4> HIDE DEF len, longer, evicted, owes, all
      <4>5. longer + evicted + (owes + drop) = all + 1
        BY <4>4, OneIsPutDown
      <4> QED BY <4>2, <4>3, <4>5 DEF longer, evicted, owes, all
    <3> QED BY <3>1, <3>2
  <2>4. \A s \in Requests : owed'[s] = 1 => phase'[s] \in {"declared", "measured"}
    BY <1>5 DEF IInv, BooksBalance
  <2> QED BY <1>1, <1>3, <1>7, <2>3, <2>4 DEF IInv, BooksBalance
<1>11. FindingsAreKept'
  BY <1>1, <1>7 DEF IInv, FindingsAreKept
<1>12. EventsAreKept'
  <2> SUFFICES ASSUME NEW s \in Measured', InDoubt(s)
               PROVE  \/ \E e \in Range(events') : EventFor(record[s], e)
                      \/ metrics.events_evicted > 0 \/ OwesEvents' # {}
    BY <1>1, <1>6 DEF EventsAreKept, Measured
  <2>1. CASE drop = 1
    BY <1>9, <2>1
  <2>2. CASE drop = 0 /\ s \in Measured
    BY <1>3, <1>9, <2>2 DEF IInv, EventsAreKept
  <2>3. CASE drop = 0 /\ s \notin Measured
    <3>1. s = r /\ record[r].scope # <<>>
      BY <1>8, <2>3
    <3>2. EventFor(record[r], EventOf(r))
      BY <3>1 DEF EventFor, EventOf, InDoubt
    <3> QED BY <1>3, <3>1, <3>2
  <2> QED BY <1>3, <2>1, <2>2, <2>3
<1>13. DoorHolds' /\ WireLeadsThere'
  BY <1>1, DoorStays
<1> QED BY <1>4, <1>10, <1>11, <1>12, <1>13 DEF IInv

LEMMA LogKeeps == ASSUME IInv, NEW r \in Requests, Log(r) PROVE IInv'
<1> DEFINE n == metrics.events_evicted + owed[r]
<1>1. /\ phase[r] = "measured" /\ phase' = [phase EXCEPT ![r] = "done"]
      /\ metrics' = [metrics EXCEPT !.events_evicted = n] /\ owed' = [owed EXCEPT ![r] = 0]
      /\ UNCHANGED <<setup, access, request, route, record, wire, findings, events>>
  BY DEF Log
<1>2. /\ metrics \in Counters /\ owed[r] \in {0, 1} /\ metrics.events_evicted \in Nat
      /\ Len(events) \in Nat
  BY DEF IInv, TypeOK, Counters
<1>3. n \in Nat /\ n >= metrics.events_evicted
  BY <1>2
<1>4. n = metrics.events_evicted + owed[r]
  OBVIOUS
<1> HIDE DEF n
<1>5. /\ metrics' \in Counters /\ metrics'.events_evicted = n
      /\ metrics'.findings_evicted = metrics.findings_evicted
  BY <1>1, <1>2, <1>3 DEF Counters
<1>6. TypeOK'
  <2>1. phase' \in [Requests -> Phases] /\ owed' \in [Requests -> {0, 1}]
    BY <1>1 DEF IInv, TypeOK, Phases
  <2> QED BY <1>1, <1>5, <2>1 DEF IInv, TypeOK
<1>7. \A s \in Requests : /\ phase'[s] = (IF s = r THEN "done" ELSE phase[s])
                          /\ owed'[s] = (IF s = r THEN 0 ELSE owed[s])
  BY <1>1 DEF IInv, TypeOK
<1>8. \A s \in Requests : (InDoubt(s) => InDoubt(s)') /\ (InDoubt(s)' => InDoubt(s))
  BY <1>1 DEF InDoubt
<1>9. Measured' = Measured
  BY <1>1, <1>7 DEF Measured
<1>10. Filed' = Filed /\ OwesFindings' = OwesFindings
  <2>1. Filed' = Filed
    BY <1>1, <1>7, <1>8 DEF Filed
  <2>2. OwesFindings' = OwesFindings
    BY <1>1, <1>7 DEF OwesFindings
  <2> QED BY <2>1, <2>2
<1>11. /\ OwesEvents' = OwesEvents \ {r}
       /\ owed[r] = 1 => r \in OwesEvents
       /\ owed[r] = 0 => r \notin OwesEvents
  BY <1>1, <1>7 DEF OwesEvents
<1>12. BooksBalance'
  <2>1. Cardinality(OwesEvents') + owed[r] = Cardinality(OwesEvents)
    <3>1. CASE owed[r] = 1
      <4>1. Cardinality(OwesEvents') = Cardinality(OwesEvents) - 1
        BY <1>11, <3>1, RequestSets, OneLess
      <4> QED BY <3>1, <4>1, RequestSets, FiniteRequests
    <3>2. CASE owed[r] = 0
      <4>1. OwesEvents' = OwesEvents
        BY <1>11, <3>2
      <4> QED BY <3>2, <4>1, RequestSets, FiniteRequests
    <3> QED BY <1>2, <3>1, <3>2
  <2>2. OwesEvents' \in SUBSET Requests
    BY <1>11, RequestSets
  <2>3. Cardinality(OwesEvents') \in Nat
    BY <2>2, FiniteRequests
  <2>4. Len(events) + n + Cardinality(OwesEvents') = Cardinality(Measured)
    <3>1. Len(events) + metrics.events_evicted + Cardinality(OwesEvents)
            = Cardinality(Measured)
      BY DEF IInv, BooksBalance
    <3> QED BY <1>2, <1>4, <2>1, <2>3, <3>1
  <2>5. \A s \in Requests : owed'[s] = 1 => phase'[s] \in {"declared", "measured"}
    BY <1>7 DEF IInv, BooksBalance
  <2> QED BY <1>1, <1>5, <1>9, <1>10, <2>4, <2>5 DEF IInv, BooksBalance
<1>13. FindingsAreKept'
  BY <1>1, <1>5, <1>10 DEF IInv, FindingsAreKept
<1>14. EventsAreKept'
  <2> SUFFICES ASSUME NEW s \in Measured, InDoubt(s)
               PROVE  \/ \E e \in Range(events) : EventFor(record[s], e)
                      \/ n > 0 \/ OwesEvents' # {}
    BY <1>1, <1>5, <1>8, <1>9 DEF EventsAreKept, Measured
  <2>1. \/ \E e \in Range(events) : EventFor(record[s], e)
        \/ metrics.events_evicted > 0 \/ OwesEvents # {}
    BY DEF IInv, EventsAreKept
  <2>2. CASE metrics.events_evicted > 0
    BY <1>2, <1>3, <2>2
  <2>3. CASE OwesEvents # {}
    <3>1. CASE owed[r] = 1
      BY <1>2, <1>4, <3>1
    <3>2. CASE owed[r] = 0
      BY <1>11, <2>3, <3>2
    <3> QED BY <1>2, <3>1, <3>2
  <2> QED BY <2>1, <2>2, <2>3
<1>15. DoorHolds' /\ WireLeadsThere'
  BY <1>1, DoorStays
<1> QED BY <1>6, <1>12, <1>13, <1>14, <1>15 DEF IInv

(***************************************************************************)
(* The theorems                                                            *)
(***************************************************************************)

LEMMA StutterKeeps == ASSUME IInv, UNCHANGED vars PROVE IInv'
<1>1. UNCHANGED <<setup, access, phase, request, route, record, wire, findings, events, metrics, owed>>
  BY DEF vars
<1>2. \A r \in Requests : /\ Declared(r) => Declared(r)'
                          /\ InDoubt(r) => InDoubt(r)'
                          /\ InDoubt(r)' => InDoubt(r)
  BY <1>1 DEF Declared, Gap, InDoubt
<1>3. /\ Filed' = Filed /\ Measured' = Measured
      /\ OwesFindings' = OwesFindings /\ OwesEvents' = OwesEvents
  BY <1>1, <1>2 DEF Filed, Measured, OwesFindings, OwesEvents
<1>4. TypeOK' /\ BooksBalance' /\ WireLeadsThere'
  BY <1>1, <1>3 DEF IInv, TypeOK, BooksBalance, WireLeadsThere, Leads
<1>5. FindingsAreKept' /\ EventsAreKept'
  BY <1>1, <1>2, <1>3 DEF IInv, FindingsAreKept, EventsAreKept, Measured
<1>6. DoorHolds'
  BY <1>1, <1>2 DEF IInv, DoorHolds
<1> QED BY <1>4, <1>5, <1>6 DEF IInv

LEMMA NextKeeps == IInv /\ [Next]_vars => IInv'
<1> SUFFICES ASSUME IInv, [Next]_vars PROVE IInv'
  OBVIOUS
<1>1. CASE UNCHANGED vars
  BY <1>1, StutterKeeps
<1>2. CASE Next
  <2> PICK r \in Requests :
        \/ Arrive(r) \/ FileFinding(r) \/ CountDroppedFindings(r) \/ KeyRefused(r)
        \/ MaskRefused(r) \/ Send(r) \/ Abandon(r) \/ Unreachable(r) \/ VaultGone(r)
        \/ ProviderAnswers(r) \/ Count(r) \/ Measure(r) \/ Log(r)
    BY <1>2, Zenon DEF Next
  <2>1. CASE Arrive(r)
    BY <2>1, ArriveKeeps
  <2>2. CASE FileFinding(r)
    BY <2>2, FileFindingKeeps
  <2>3. CASE CountDroppedFindings(r)
    BY <2>3, CountDroppedFindingsKeeps
  <2>4. CASE KeyRefused(r) \/ MaskRefused(r)
    BY <2>4, KeyRefusedKeeps, MaskRefusedKeeps
  <2>5. CASE Send(r) \/ Abandon(r)
    BY <2>5, SendKeeps, AbandonKeeps
  <2>6. CASE Unreachable(r) \/ VaultGone(r) \/ ProviderAnswers(r)
    BY <2>6, UnreachableKeeps, VaultGoneKeeps, ProviderAnswersKeeps
  <2>7. CASE Count(r) \/ Measure(r) \/ Log(r)
    BY <2>7, CountKeeps, MeasureKeeps, LogKeeps
  <2> QED BY <2>1, <2>2, <2>3, <2>4, <2>5, <2>6, <2>7
<1> QED BY <1>1, <1>2

\* The inductive invariant of what a request is answered with and leaves behind.
THEOREM RecordsInvariant == Spec => []IInv
<1> QED BY InitInv, NextKeeps, PTL DEF Spec

\* At any moment nobody is between a drop and its count, each list and the counter of
\* what it dropped add up to all that was ever put down (file_finding, handle).
THEOREM NothingIsLostUncounted == Spec => []LossesAreCounted
<1>1. IInv => LossesAreCounted
  <2> SUFFICES ASSUME IInv, \A r \in Requests : phase[r] \notin {"declared", "measured"}
               PROVE  /\ Len(findings) + metrics.findings_evicted
                           = Cardinality({r \in Requests : record[r].degraded \cap Gaps # {}
                                                           /\ phase[r] # "declaring"})
                      /\ Len(events) + metrics.events_evicted
                           = Cardinality({r \in Requests : phase[r] = "done"
                                                           /\ record[r].scope # <<>>})
    BY DEF LossesAreCounted
  <2>1. OwesFindings = {} /\ OwesEvents = {}
    BY DEF OwesFindings, OwesEvents
  <2>2. Filed = {r \in Requests : record[r].degraded \cap Gaps # {} /\ phase[r] # "declaring"}
    BY DEF Filed, InDoubt
  <2>3. Measured = {r \in Requests : phase[r] = "done" /\ record[r].scope # <<>>}
    BY DEF Measured
  <2>4. /\ Len(findings) + metrics.findings_evicted + Cardinality(OwesFindings)
             = Cardinality(Filed)
        /\ Len(events) + metrics.events_evicted + Cardinality(OwesEvents)
             = Cardinality(Measured)
    BY DEF IInv, BooksBalance
  <2>5. /\ Cardinality({}) = 0 /\ Len(findings) \in Nat /\ Len(events) \in Nat
        /\ metrics.findings_evicted \in Nat /\ metrics.events_evicted \in Nat
    BY FS_EmptySet DEF IInv, TypeOK, Counters
  <2>6. /\ Len(findings) + metrics.findings_evicted = Cardinality(Filed)
        /\ Len(events) + metrics.events_evicted = Cardinality(Measured)
    BY <2>1, <2>4, <2>5
  <2> QED BY <2>2, <2>3, <2>6
<1> QED BY <1>1, RecordsInvariant, PTL

\* What crosses to a provider unmasked has a finding from before it crossed, and an
\* event once the request is over, or a counter says that the list is not whole; all
\* but a body sent along with a question for a list of models, which is sent on and
\* declared nowhere (passthrough, prepare_body, declare.rs).
THEOREM NoSilentPassage == Spec => []NothingCrossesInSilence
<1>1. IInv => NothingCrossesInSilence
  <2> SUFFICES ASSUME IInv, NEW r \in Requests, CrossesUnmasked(r), ~AsksForModels(request[r])
               PROVE  OwnsUp(r)
    BY DEF NothingCrossesInSilence
  <2>1. /\ wire[r] # Nothing /\ request[r].body.kind = "json"
        /\ \/ route[r].treatment \in {"unmasked_declared", "no_user_text"}
           \/ request[r].body.tools
    BY DEF CrossesUnmasked
  <2>2. /\ Declared(r) /\ phase[r] \notin {"away", "declaring"}
        /\ route[r] = Resolve(request[r].method, request[r].path)
        /\ InDoubt(r) => record[r].scope # <<>>
    BY <2>1 DEF IInv, DoorHolds
  <2>3. route[r].treatment \in Four /\ route[r].treatment # "no_user_text"
    BY <2>2, RouteOf
  <2>4. Gap(r) # ""
    BY <2>1, <2>3 DEF Gap, GapOf, Four
  <2>5. InDoubt(r)
    <3>1. Gap(r) \in record[r].degraded
      BY <2>2, <2>4 DEF Declared
    <3>2. Gap(r) \in Gaps
      BY <2>4, GapIsAGap DEF Gap
    <3> QED BY <3>1, <3>2 DEF InDoubt
  <2>6. r \in Filed
    BY <2>2, <2>5 DEF Filed
  <2>7. phase[r] = "done" => r \in Measured
    BY <2>2, <2>5 DEF Measured
  <2>8. \A s \in OwesFindings \cup OwesEvents : s \in Requests /\ owed[s] > 0
    BY DEF OwesFindings, OwesEvents
  <2>9. \/ \E f \in Range(findings) : FindingFor(record[r], f)
        \/ metrics.findings_evicted > 0 \/ OwesFindings # {}
    BY <2>6 DEF IInv, FindingsAreKept
  <2>10. phase[r] = "done" =>
           \/ \E e \in Range(events) : EventFor(record[r], e)
           \/ metrics.events_evicted > 0 \/ OwesEvents # {}
    BY <2>5, <2>7 DEF IInv, EventsAreKept
  <2> QED BY <2>8, <2>9, <2>10 DEF OwnsUp, FindingFor, EventFor
<1> QED BY <1>1, RecordsInvariant, PTL

\* A request is sent to the host its configuration gives the provider of its path, a
\* host of the allow list; in clear only to a name that reads as this machine, be it an
\* address or not; and for a path of the table or below a declared endpoint (route.rs,
\* passthrough.rs).
THEOREM ThePathDecides == Spec => []GoesWhereThePathSays
<1>1. IInv => GoesWhereThePathSays
  <2> SUFFICES ASSUME IInv, NEW r \in Requests, wire[r] # Nothing
               PROVE  LET p == Towards(request[r].path)
                          base == BasesOf(setup)[p]
                      IN /\ wire[r].to = base.host /\ Permits(setup.allow, wire[r].to)
                         /\ wire[r].scheme = "https" \/ IsLoopbackHost(Lowered[wire[r].to])
                         /\ \/ \E e \in Table : e.provider = p /\ wire[r].path = e.upstream
                            \/ p = "openai" /\ \E d \in DeclaredUnmasked :
                                                  Under(wire[r].path, d)
    BY Zenon DEF GoesWhereThePathSays, Towards, BasesOf
  <2> DEFINE p == route[r].provider
             base == BasesOf(setup)[p]
  <2>1. /\ Declared(r) /\ phase[r] # "away"
        /\ route[r] = Resolve(request[r].method, request[r].path)
    BY DEF IInv, DoorHolds
  <2>2. p = Towards(request[r].path) /\ Leading(route[r])
    BY <2>1, RouteOf
  <2>3. /\ p \in DOMAIN BasesOf(setup) /\ wire[r].to = base.host
        /\ wire[r].scheme = base.scheme /\ wire[r].path = route[r].upstream
    BY DEF IInv, WireLeadsThere, Leads
  <2>4. Starts(setup.configured, setup.allow)
    BY DEF IInv, TypeOK
  <2>5. Vetted(base, setup.allow)
    BY <2>3, <2>4, BaseIsVetted DEF BasesOf
  <2>6. /\ Permits(setup.allow, wire[r].to)
        /\ wire[r].scheme = "https" \/ IsLoopbackHost(Lowered[wire[r].to])
    <3> HIDE DEF base
    <3> QED BY <2>3, <2>5 DEF Vetted
  <2>7. \/ \E e \in Table : e.provider = p /\ wire[r].path = e.upstream
        \/ p = "openai" /\ \E d \in DeclaredUnmasked : Under(wire[r].path, d)
    BY <2>2, <2>3 DEF Leading
  <2> HIDE DEF base
  <2> QED BY <2>2, <2>3, <2>6, <2>7 DEF base
<1> QED BY <1>1, RecordsInvariant, PTL

=============================================================================
