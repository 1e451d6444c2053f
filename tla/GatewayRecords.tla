--------------------------- MODULE GatewayRecords ---------------------------
(***************************************************************************)
(* What a request is answered with and what it leaves behind:              *)
(* Gateway::handle and dispatch (http/gateway.rs), the declaration of a    *)
(* gap (declare.rs), the event (event.rs), the line of the log             *)
(* (observe.rs) and the counters (admin.rs).                               *)
(*                                                                         *)
(* Every buffer and the counters have a lock of their own and none is held *)
(* while another is taken, so requests meet between any two of them.  A    *)
(* client may close its connection while the provider is awaited, and its  *)
(* request is then dropped where it stands.  What masking does to a body   *)
(* is in MaskingPass, and what an answer is restored to in MaskingGateway; *)
(* here both have an outcome.                                              *)
(***************************************************************************)
EXTENDS Endpoints, ConversationIdentity, Integers

CONSTANTS
  Requests,      \* the requests of one run, in the order they arrive
  Sent,          \* what may be sent: the line, the headers and the body
  Setups,        \* how the proxy is configured
  Answers,       \* what a provider may answer
  Faults,        \* bound: what the vault and the minter may refuse with in one run,
                 \* and whether the system may have no randomness to give
  ThisMachine,   \* of the lower case spellings, those that are names of this machine
  FindingsKept,  \* the bound of the list of findings
  EventsKept     \* the bound of the list of events

\* A run is finite, a path is a list of segments, a provider answers with a status,
\* and neither list is kept at no length at all (gateway.rs FINDINGS_KEPT and
\* EVENTS_KEPT).
ASSUME RecordsAssumption ==
  /\ Requests \subseteq Nat /\ IsFiniteSet(Requests)
  /\ Sent # {} /\ \A q \in Sent : q.path \in Seq(STRING)
  /\ \A a \in Answers : a.status \in Nat /\ a.truncated \in BOOLEAN
  /\ FindingsKept \in Nat \ {0} /\ EventsKept \in Nat \ {0}

VARIABLES
  setup,     \* [allow, configured, tool_policy]
  access,    \* VaultAccess: the vault handle is still good
  phase,     \* where each request is
  request,   \* what was sent
  route,     \* what its line resolved to
  record,    \* its RequestRecord
  wire,      \* what went to the provider: [scheme, to, path, headers], or nothing
  told,      \* what the client was told: [status, degraded, headers], or nothing
  findings,  \* the list of findings, oldest first
  events,    \* the list of events, oldest first
  log,       \* the requests logged, in order
  metrics,   \* the counters
  owed       \* evictions a request has made and not yet counted

buffers == <<findings, events, log, metrics, owed>>
vars == <<setup, access, phase, request, route, record, wire, told, findings, events, log,
          metrics, owed>>

Nothing == [scheme |-> "", to |-> "", path |-> <<>>, headers |-> {}]
Untold == [status |-> 0, degraded |-> {}, headers |-> {}]

\* blank_record.
BlankRecord ==
  [endpoint |-> "unrouted", provider |-> "", origin |-> "ephemeral", scope |-> <<>>,
   masked |-> 0, degraded |-> {}, status |-> 0, error |-> "", truncated |-> FALSE]

NoCounts == [requests |-> 0, refusals |-> 0, masked |-> 0, reassembly |-> 0,
             findings_evicted |-> 0, events_evicted |-> 0]

Init ==
  /\ setup \in {s \in Setups : Starts(s.configured, s.allow)}
  /\ access = TRUE
  /\ phase = [r \in Requests |-> "away"]
  /\ request = [r \in Requests |-> CHOOSE s \in Sent : TRUE]
  /\ route = [r \in Requests |-> NotFound]
  /\ record = [r \in Requests |-> BlankRecord]
  /\ wire = [r \in Requests |-> Nothing]
  /\ told = [r \in Requests |-> Untold]
  /\ findings = <<>> /\ events = <<>> /\ log = <<>>
  /\ metrics = NoCounts
  /\ owed = [r \in Requests |-> 0]

(***************************************************************************)
(* Answers                                                                 *)
(***************************************************************************)

\* Marks::render: which of our own headers an answer carries.
MarksOf(rec, error, truncated, degraded) ==
  {"x-periskop-policy-id"}
  \cup (IF rec.masked > 0 \/ rec.scope # <<>> THEN {"x-periskop-masked-entities"} ELSE {})
  \cup (IF rec.scope # <<>> THEN {"x-periskop-alias-scope"} ELSE {})
  \cup (IF degraded # {} THEN {"x-periskop-degraded"} ELSE {})
  \cup (IF truncated THEN {"x-periskop-stream-truncated"} ELSE {})
  \cup (IF error THEN {"x-periskop-error"} ELSE {})

\* refuse and Outgoing::json: of the proxy's own answers most say nothing of the
\* conversation, and their only other header is a content type.
Own(status, marks) == [status |-> status, degraded |-> {}, headers |-> By("proxy", marks)]

Answer(r, rec, answer) ==
  /\ phase' = [phase EXCEPT ![r] = "answered"]
  /\ record' = [record EXCEPT ![r] = rec]
  /\ told' = [told EXCEPT ![r] = answer]

Refuse(r, rec, error) ==
  Answer(r, [rec EXCEPT !.status = Status(error), !.error = error],
         Own(Status(error), {"x-periskop-policy-id", "x-periskop-error"}))

(***************************************************************************)
(* The door: dispatch, and passthrough as far as the body                  *)
(***************************************************************************)

EndpointOf(where) == IF where.endpoint = "passthrough" THEN where.treatment ELSE where.endpoint
Scoped(rec, identity) == [rec EXCEPT !.origin = identity.origin, !.scope = identity.scope]

\* Subject::is_nameable, which asks what the schema asks.
Nameable(rec) == rec.scope # <<>> /\ rec.provider # ""

\* Mutant of GapOf: tools are looked for in chats only.
GapOfChats(treatment, body) ==
  CASE treatment = "unmasked_declared" -> "endpoint_unsupported_passthrough"
    [] treatment = "masked_round_trip" /\ body.tools -> "tool_arguments_unmasked"
    [] OTHER -> ""

GapOf(treatment, body) ==
  CASE treatment = "unmasked_declared" -> "endpoint_unsupported_passthrough"
    [] treatment \in {"masked_round_trip", "masked_one_way"} /\ body.tools ->
         "tool_arguments_unmasked"
    [] OTHER -> ""

\* An answer that takes no provider.
AtOnce(r, where, rec) ==
  \/ /\ where.endpoint \in {"not_found", "method_not_allowed"}
     /\ LET status == IF where.endpoint = "not_found" THEN 404 ELSE 405
        IN Answer(r, [rec EXCEPT !.status = status], Own(status, {}))
  \/ /\ where.endpoint = "unsupported"
     /\ Refuse(r, rec, "endpoint_unsupported")
  \/ /\ where.endpoint = "admin"
     /\ Answer(r, [rec EXCEPT !.status = 200], Own(200, {"x-periskop-api-version"}))
  \/ /\ where.endpoint = "periskop"
     /\ Answer(r, [rec EXCEPT !.status = 200], Own(200, {}))

\* Of a request that has a provider: the vault, the body, the conversation, and
\* whether what would cross unmasked may.  A conversation nobody can name takes a
\* random scope, which may not be had; an HMAC takes a key of any length.
AtTheDoor(r, q, where, rec) ==
  LET known == Scoped(rec, Identify(q.session, q.body.conversation, r))
      gap == IF q.body.kind = "json" THEN GapOf(where.treatment, q.body) ELSE ""
  IN \/ ~access /\ Refuse(r, rec, "vault_unavailable")
     \/ access /\ q.body.kind = "broken" /\ Refuse(r, rec, "body_unparsable")
     \/ /\ access /\ q.body.kind # "broken"
        /\ known.origin = "ephemeral" /\ "no_entropy" \in Faults
        /\ Refuse(r, rec, "vault_unavailable")
     \/ /\ access /\ q.body.kind # "broken" /\ gap # ""
        /\ \/ gap = "tool_arguments_unmasked" /\ setup.tool_policy = "reject"
           \/ ~Nameable(known)
        /\ Refuse(r, known, "tool_arguments_rejected")
     \/ /\ access /\ q.body.kind # "broken" /\ gap # "" /\ Nameable(known)
        /\ gap = "tool_arguments_unmasked" => setup.tool_policy = "pass_through"
        /\ phase' = [phase EXCEPT ![r] = "declaring"]
        /\ record' = [record EXCEPT ![r] = [known EXCEPT !.degraded = {gap}]]
        /\ UNCHANGED told
     \/ /\ access /\ q.body.kind # "broken" /\ gap = ""
        /\ phase' = [phase EXCEPT ![r] = "preparing"]
        /\ record' = [record EXCEPT ![r] = known]
        /\ UNCHANGED told

Arrive(r) ==
  /\ phase[r] = "away"
  /\ \A s \in Requests : s < r => phase[s] # "away"
  /\ \E q \in Sent :
       LET where == Resolve(q.method, q.path)
           rec == [BlankRecord EXCEPT !.endpoint = EndpointOf(where),
                                      !.provider = where.provider]
       IN /\ request' = [request EXCEPT ![r] = q]
          /\ route' = [route EXCEPT ![r] = where]
          /\ IF where.endpoint = "passthrough" THEN AtTheDoor(r, q, where, rec)
             ELSE AtOnce(r, where, rec)
  /\ UNCHANGED <<setup, access, wire>> /\ UNCHANGED buffers

(***************************************************************************)
(* The declared gap                                                        *)
(***************************************************************************)

\* Finding::id is a hash of the conversation, the provider and the rule.
FindingOf(r) == [scope |-> record[r].scope, provider |-> record[r].provider,
                 rule |-> record[r].degraded]

\* What pushing onto a full buffer drops.
Dropped(list, bound) == IF Len(list) >= bound THEN Len(list) - bound + 1 ELSE 0
Pushed(list, bound, item) == Append(SubSeq(list, Dropped(list, bound) + 1, Len(list)), item)

\* Mutant of FileFinding: what the buffer had to drop is dropped in silence.
FileFindingQuietly(r) ==
  /\ phase[r] = "declaring"
  /\ findings' = Pushed(findings, FindingsKept, FindingOf(r))
  /\ phase' = [phase EXCEPT ![r] = "preparing"]
  /\ UNCHANGED <<setup, access, request, route, record, wire, told, events, log, metrics, owed>>

\* file_finding under the lock of the findings.
FileFinding(r) ==
  /\ phase[r] = "declaring"
  /\ findings' = Pushed(findings, FindingsKept, FindingOf(r))
  /\ owed' = [owed EXCEPT ![r] = Dropped(findings, FindingsKept)]
  /\ phase' = [phase EXCEPT ![r] = "declared"]
  /\ UNCHANGED <<setup, access, request, route, record, wire, told, events, log, metrics>>

\* file_finding under the lock of the counters.
CountDroppedFindings(r) ==
  /\ phase[r] = "declared"
  /\ metrics' = [metrics EXCEPT !.findings_evicted = @ + owed[r]]
  /\ owed' = [owed EXCEPT ![r] = 0]
  /\ phase' = [phase EXCEPT ![r] = "preparing"]
  /\ UNCHANGED <<setup, access, request, route, record, wire, told, findings, events, log>>

(***************************************************************************)
(* The body, and the provider                                              *)
(***************************************************************************)

IsMasked(r) ==
  request[r].body.kind = "json" /\ route[r].treatment \in {"masked_round_trip", "masked_one_way"}

VaultFailures == {"vault_unavailable", "vault_integrity_failed", "vault_record_tamper"}
MaskRefusals == VaultFailures \cup {"alias_limit_exceeded", "alias_collision_unresolved",
                                    "entity_blocked", "endpoint_unsupported", "body_unparsable"}

\* alias_key_for: note_vault_failure only gives the vault up over what it calls
\* integrity.
KeyRefused(r) ==
  /\ phase[r] = "preparing" /\ IsMasked(r)
  /\ \E error \in VaultFailures \cap Faults :
       /\ Refuse(r, record[r], error)
       /\ access' = (access /\ error = "vault_unavailable")
  /\ UNCHANGED <<setup, request, route, wire>> /\ UNCHANGED buffers

MaskRefused(r) ==
  /\ phase[r] = "preparing" /\ IsMasked(r)
  /\ \E error \in MaskRefusals \cap Faults :
       /\ Refuse(r, record[r], error)
       /\ access' = (access /\ error \notin VaultFailures)
  /\ UNCHANGED <<setup, request, route, wire>> /\ UNCHANGED buffers

\* The rest of prepare_body, the base and the call (BaseUrl::target).  No names are looked for in a
\* body but those of the lists, and every masked request says so.
Prepared(r, masked) ==
  [record[r] EXCEPT !.masked = masked,
                    !.degraded = @ \cup (IF IsMasked(r) THEN {"ner_disabled"} ELSE {})]

Send(r) ==
  /\ phase[r] = "preparing"
  /\ \E masked \in (IF IsMasked(r) THEN {0, 1} ELSE {0}) :
       LET bases == Bases(setup.configured, setup.allow)
           p == route[r].provider
       IN IF p \notin DOMAIN bases
          THEN Refuse(r, Prepared(r, masked), "endpoint_unsupported") /\ UNCHANGED wire
          ELSE /\ wire' = [wire EXCEPT ![r] = [scheme |-> bases[p].scheme,
                                              to |-> bases[p].host,
                                              path |-> route[r].upstream,
                                              headers |-> ToUpstream(request[r].headers)]]
               /\ phase' = [phase EXCEPT ![r] = "awaiting"]
               /\ record' = [record EXCEPT ![r] = Prepared(r, masked)]
               /\ UNCHANGED told
  /\ UNCHANGED <<setup, access, request, route>> /\ UNCHANGED buffers

\* The client closes its connection: the handler is dropped at its await.
Abandon(r) ==
  /\ phase[r] = "awaiting"
  /\ phase' = [phase EXCEPT ![r] = "abandoned"]
  /\ UNCHANGED <<setup, access, request, route, record, wire, told>> /\ UNCHANGED buffers

\* An answer that was begun and is cut: nothing of the provider's is written.
Cut(r, error) ==
  LET marks == MarksOf(record[r], TRUE, TRUE, {})
  IN Answer(r, [record[r] EXCEPT !.status = Status(error), !.error = error],
            Own(Status(error), marks))

Unreachable(r) ==
  /\ phase[r] = "awaiting"
  /\ Answer(r, [record[r] EXCEPT !.status = 502], Own(502, {}))
  /\ UNCHANGED <<setup, access, request, route, wire>> /\ UNCHANGED buffers

VaultGone(r) ==
  /\ phase[r] = "awaiting" /\ ~access
  /\ Cut(r, "vault_unavailable")
  /\ UNCHANGED <<setup, access, request, route, wire>> /\ UNCHANGED buffers

\* restore_with and what it may refuse: `aliases` says the frozen set has some.
MayCut(a, aliases) == aliases /\ a.kind \in {"stream", "json"} /\ (a.coded \/ a.tampered)
CutFor(a) == IF a.coded THEN "endpoint_unsupported" ELSE "vault_record_tamper"

Deliver(r, a, aliases) ==
  LET truncated == a.kind = "stream" /\ a.truncated
      rec == [record[r] EXCEPT !.status = a.status, !.truncated = truncated]
      marks == MarksOf(rec, FALSE, truncated, rec.degraded)
  IN Answer(r, rec, [status |-> a.status, degraded |-> rec.degraded,
                     headers |-> ToDownstream(a.headers, marks)])

ProviderAnswers(r) ==
  /\ phase[r] = "awaiting" /\ access
  /\ \E a \in Answers, aliases \in (IF record[r].masked > 0 THEN {TRUE}
                                    ELSE IF IsMasked(r) THEN BOOLEAN ELSE {FALSE}) :
       IF MayCut(a, aliases) THEN Cut(r, CutFor(a)) ELSE Deliver(r, a, aliases)
  /\ UNCHANGED <<setup, access, request, route, wire>> /\ UNCHANGED buffers

(***************************************************************************)
(* What handle leaves behind                                               *)
(***************************************************************************)

\* record_refusal, record_request and record_stream_reassembly_error.
Count(r) ==
  /\ phase[r] = "answered"
  /\ LET rec == record[r]
         refused == rec.error # ""
     IN metrics' = [metrics EXCEPT
          !.refusals = @ + (IF refused THEN 1 ELSE 0),
          !.requests = @ + (IF refused THEN 0 ELSE 1),
          !.masked = @ + (IF refused THEN 0 ELSE rec.masked),
          !.reassembly = @ + (IF rec.truncated THEN 1 ELSE 0)]
  /\ phase' = [phase EXCEPT ![r] = "counted"]
  /\ UNCHANGED <<setup, access, request, route, record, wire, told>>
  /\ UNCHANGED <<findings, events, log, owed>>

\* ProxyEvent::of refuses a request that never reached a conversation.
EventOf(r) == [scope |-> record[r].scope, degraded |-> record[r].degraded]

Measure(r) ==
  /\ phase[r] = "counted"
  /\ IF record[r].scope = <<>> THEN UNCHANGED <<events, owed>>
     ELSE /\ events' = Pushed(events, EventsKept, EventOf(r))
          /\ owed' = [owed EXCEPT ![r] = Dropped(events, EventsKept)]
  /\ phase' = [phase EXCEPT ![r] = "measured"]
  /\ UNCHANGED <<setup, access, request, route, record, wire, told>>
  /\ UNCHANGED <<findings, log, metrics>>

\* record_events_evicted, and the line of the log.
Log(r) ==
  /\ phase[r] = "measured"
  /\ metrics' = [metrics EXCEPT !.events_evicted = @ + owed[r]]
  /\ owed' = [owed EXCEPT ![r] = 0]
  /\ log' = Append(log, r)
  /\ phase' = [phase EXCEPT ![r] = "done"]
  /\ UNCHANGED <<setup, access, request, route, record, wire, told, findings, events>>

Next ==
  \E r \in Requests :
    \/ Arrive(r)
    \/ FileFinding(r)
    \/ CountDroppedFindings(r)
    \/ KeyRefused(r)
    \/ MaskRefused(r)
    \/ Send(r)
    \/ Abandon(r)
    \/ Unreachable(r)
    \/ VaultGone(r)
    \/ ProviderAnswers(r)
    \/ Count(r)
    \/ Measure(r)
    \/ Log(r)

Spec == Init /\ [][Next]_vars

(***************************************************************************)
(* Properties                                                              *)
(***************************************************************************)

\* A provider gets something nothing looked at: a body of an endpoint that is not
\* masked, or the arguments of a tool.
CrossesUnmasked(r) ==
  /\ wire[r] # Nothing /\ request[r].body.kind = "json"
  /\ \/ route[r].treatment \in {"unmasked_declared", "no_user_text"}
     \/ request[r].body.tools
Gaps == {"endpoint_unsupported_passthrough", "tool_arguments_unmasked"}

\* It has a finding, or a counter says the list is not whole; and once the request is
\* over, it has an event, or a counter says so of the list of events.
OwnsUp(r) ==
  /\ \/ \E f \in Range(findings) :
          f.scope = record[r].scope /\ f.rule \subseteq record[r].degraded
     \/ metrics.findings_evicted > 0 \/ \E s \in Requests : owed[s] > 0
  /\ phase[r] = "done" =>
       \/ \E e \in Range(events) : e.scope = record[r].scope /\ e.degraded \cap Gaps # {}
       \/ metrics.events_evicted > 0 \/ \E s \in Requests : owed[s] > 0

\* A body that crossed unmasked has been owned up to since before it crossed, but for
\* one that came along with a question for the list of models: that one is sent on
\* as it is (declare.rs, and Treatment::NoUserText in prepare_body).
AsksForModels(q) ==
  q.method = "GET" /\ Normalised(q.path) \in {<<"v1", "models">>, <<"anthropic", "v1", "models">>}
NothingCrossesInSilence ==
  \A r \in Requests : CrossesUnmasked(r) => OwnsUp(r) \/ AsksForModels(request[r])

\* declare.rs promises it of every unmasked body: the request path cannot forward one
\* without holding a declaration.  It does not hold: prepare_body has none for a list of
\* models.
EveryUnmaskedBodyIsDeclared ==
  \A r \in Requests : CrossesUnmasked(r) => OwnsUp(r)

\* Whenever nobody is between a drop and its count, what is in a buffer and what the
\* counters say was dropped is all there ever was (file_finding and handle).
LossesAreCounted ==
  (\A r \in Requests : phase[r] \notin {"declared", "measured"}) =>
    /\ Len(findings) + metrics.findings_evicted
         = Cardinality({r \in Requests : record[r].degraded \cap Gaps # {}
                                         /\ phase[r] # "declaring"})
    /\ Len(events) + metrics.events_evicted
         = Cardinality({r \in Requests : phase[r] = "done" /\ record[r].scope # <<>>})

\* Two requests nobody named share a scope exactly when their conversations open with
\* the same words, whatever was said since and however it was written down
\* (session.rs).  A name is never an opening.
Opening(r) == <<SystemOf(request[r].body.conversation),
                FirstOf(request[r].body.conversation.turns, "user")>>
ScopesFollowConversations ==
  \A r, s \in Requests :
    (r # s /\ record[r].scope # <<>> /\ record[s].scope # <<>>) =>
      (record[r].scope = record[s].scope) =
        /\ record[r].origin = record[s].origin
        /\ \/ /\ record[r].origin = "client_header"
              /\ request[r].session = request[s].session
           \/ /\ record[r].origin = "conversation_fingerprint"
              /\ Opening(r) = Opening(s)

\* A request goes to the provider whose namespace its path is in, at the host the
\* operator named for it and the allow list has; in clear only to a name that reads
\* as this machine; and for a path of the table, or one below a declared endpoint
\* (route.rs, passthrough.rs).
GoesWhereThePathSays ==
  \A r \in Requests : wire[r] # Nothing =>
    LET p == IF request[r].path[1] = "anthropic" THEN "anthropic" ELSE "openai"
        base == Bases(setup.configured, setup.allow)[p]
    IN /\ wire[r].to = base.host /\ Permits(setup.allow, wire[r].to)
       /\ wire[r].scheme = "https" \/ IsLoopbackHost(Lowered[wire[r].to])
       /\ \/ \E e \in Table : e.provider = p /\ wire[r].path = e.upstream
          \/ p = "openai" /\ \E d \in DeclaredUnmasked : Under(wire[r].path, d)

\* What passthrough.rs says of plain HTTP: it stays on this machine, because anywhere
\* else the body and the credential would be on the wire in the clear.  It does not hold
\* of a name that begins with 127. and is not of this machine.
ClearTextStaysHere ==
  \A r \in Requests : (wire[r] # Nothing /\ wire[r].scheme = "http") =>
    Lowered[wire[r].to] \in ThisMachine

\* What passthrough.rs says of the target: it is a literal of the route table and
\* never the client's own path.  It does not hold below a declared endpoint.
TargetsAreLiterals ==
  \A r \in Requests : wire[r] # Nothing =>
    wire[r].path \in {e.upstream : e \in Table} \cup DeclaredUnmasked
=============================================================================
