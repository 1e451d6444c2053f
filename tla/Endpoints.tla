------------------------------ MODULE Endpoints ------------------------------
(***************************************************************************)
(* What the proxy decides about a request from its first line, its headers *)
(* and its configuration: http/route.rs, passthrough.rs, headers.rs and    *)
(* errors.rs.  A path is the sequence of its segments, a trailing slash an *)
(* empty last one; a header is a name, with the names a Connection header  *)
(* nominates beside it.                                                    *)
(***************************************************************************)
EXTENDS FiniteSets, SequencesExt, TLC

CONSTANTS
  Lowered,    \* the lower case spelling of every host name an operator may write
  Begin127    \* those of these spellings that begin with the letters 127.

Providers == {"openai", "anthropic"}

(***************************************************************************)
(* Routes                                                                  *)
(***************************************************************************)

\* Trailing slashes are stripped, and nothing else is rewritten.
Normalised(path) ==
  LET kept == {k \in DOMAIN path : path[k] # ""}
  IN SubSeq(path, 1, IF kept = {} THEN 0 ELSE Max(kept))

Under(path, prefix) == IsPrefix(prefix, path)

Refused == {<<"v1", "images">>, <<"v1", "audio">>, <<"v1", "batches">>,
            <<"anthropic", "v1", "batches">>}
DeclaredUnmasked == {<<"v1", "responses">>, <<"v1", "assistants">>, <<"v1", "threads">>}
AdminPaths == {<<"admin", "policy">>, <<"admin", "vault", "status">>, <<"admin", "metrics">>}

Entry(verb, path, provider, treatment, upstream) ==
  [verb |-> verb, path |-> path, provider |-> provider, treatment |-> treatment,
   upstream |-> upstream]
Table ==
  { Entry("POST", <<"v1", "chat", "completions">>, "openai", "masked_round_trip",
          <<"v1", "chat", "completions">>),
    Entry("POST", <<"v1", "embeddings">>, "openai", "masked_one_way", <<"v1", "embeddings">>),
    Entry("GET", <<"v1", "models">>, "openai", "no_user_text", <<"v1", "models">>),
    Entry("POST", <<"anthropic", "v1", "messages">>, "anthropic", "masked_round_trip",
          <<"v1", "messages">>),
    Entry("GET", <<"anthropic", "v1", "models">>, "anthropic", "no_user_text",
          <<"v1", "models">>) }

\* What a request line resolves to.
Answered(endpoint) == [endpoint |-> endpoint, provider |-> "", treatment |-> "", upstream |-> <<>>]
Forwarded(e) == [endpoint |-> "passthrough", provider |-> e.provider, treatment |-> e.treatment,
                 upstream |-> e.upstream]
NotFound == Answered("not_found")
MethodNotAllowed == Answered("method_not_allowed")

PeriskopRoute(method, path) ==
  IF path = <<"_periskop", "health">> \/ Len(path) = 3
  THEN IF method = "GET" THEN Answered("periskop") ELSE MethodNotAllowed
  ELSE IF method = "GET" THEN NotFound ELSE MethodNotAllowed

AdminRoute(method, path) ==
  IF path \notin AdminPaths THEN NotFound
  ELSE IF method = "GET" THEN Answered("admin") ELSE MethodNotAllowed

PassthroughRoute(method, path) ==
  LET there == {e \in Table : e.path = path}
      here == {e \in there : e.verb = method}
  IN IF here # {} THEN Forwarded(CHOOSE e \in here : TRUE)
     ELSE IF there # {} THEN MethodNotAllowed ELSE NotFound

Resolve(method, raw) ==
  LET path == Normalised(raw) IN
  CASE path = <<"_periskop", "health">>
       \/ (Under(path, <<"_periskop", "session">>) /\ Len(path) > 2) -> PeriskopRoute(method, path)
    [] Under(path, <<"admin">>) /\ Len(path) > 1 -> AdminRoute(method, path)
    [] path = <<"v1", "messages">> -> NotFound
    [] \E p \in Refused : Under(path, p) -> Answered("unsupported")
    [] \E p \in DeclaredUnmasked : Under(path, p) ->
         Forwarded(Entry(method, path, "openai", "unmasked_declared", path))
    [] OTHER -> PassthroughRoute(method, path)

(***************************************************************************)
(* Where a provider is                                                     *)
(***************************************************************************)

\* A base URL as an operator writes it; "" stands for a part that is not there.
BaseUrl(scheme, userinfo, host, port, dots) ==
  [scheme |-> scheme, userinfo |-> userinfo, host |-> host, port |-> port, dots |-> dots]

Permits(allow, host) == \E h \in allow : Lowered[h] = Lowered[host]

\* A host is compared as it is written and no name is resolved: a DNS name may begin
\* with 127. as well as an address.
IsLoopbackHost(host) == host \in {"localhost", "::1"} \cup Begin127

\* resolve_base_url: the host it leads to, or nothing.
Vetted(url, allow) ==
  /\ url.scheme # "" /\ ~url.userinfo /\ url.port # "bad" /\ url.host # ""
  /\ Permits(allow, url.host)
  /\ url.scheme = "https" \/ (url.scheme = "http" /\ IsLoopbackHost(Lowered[url.host]))
  /\ ~url.dots

Shipped == ("openai" :> BaseUrl("https", FALSE, "api.openai.com", "", FALSE)
            @@ "anthropic" :> BaseUrl("https", FALSE, "api.anthropic.com", "", FALSE))

\* Mutant of Bases: the shipped bases stay whatever the list says.
BasesShipped(configured, allow) == configured @@ Shipped

\* Gateway::new keeps the shipped bases the list permits; with_base puts what the
\* operator configured over them, or refuses to go on.
Bases(configured, allow) ==
  [p \in DOMAIN configured \cup {p \in Providers : Vetted(Shipped[p], allow)} |->
     IF p \in DOMAIN configured THEN configured[p] ELSE Shipped[p]]
Starts(configured, allow) == \A p \in DOMAIN configured : Vetted(configured[p], allow)

(***************************************************************************)
(* Headers                                                                 *)
(***************************************************************************)

ConnectionScoped == {"connection", "content-length", "host", "te", "transfer-encoding", "upgrade"}
CredentialBearing == {"authorization", "x-api-key", "cookie", "set-cookie"}
Negotiation == "accept-encoding"
Ours == {"x-periskop-session", "x-periskop-alias-scope", "x-periskop-masked-entities",
         "x-periskop-policy-id", "x-periskop-degraded", "x-periskop-stream-truncated",
         "x-periskop-error", "x-periskop-api-version"}

\* A list of headers: who wrote each, and the names its Connection header nominates.
Headers(fields, nominated) == [fields |-> fields, nominated |-> nominated]
By(author, names) == {<<n, author>> : n \in names}
Names(list) == {f[1] : f \in list.fields}
Nominated(list) == IF "connection" \in Names(list) THEN list.nominated ELSE {}
Travels(list, f, dropped) ==
  f[1] \notin ConnectionScoped \cup Nominated(list) \cup dropped \cup Ours

ToUpstream(list) ==
  By("proxy", {"host", Negotiation}) \cup {f \in list.fields : Travels(list, f, {Negotiation})}

\* Marks::render decides which of our own are written; they come last.
ToDownstream(list, marks) ==
  {f \in list.fields : Travels(list, f, CredentialBearing)} \cup By("proxy", marks)

(***************************************************************************)
(* The closed vocabulary of refusals                                       *)
(***************************************************************************)

Status(error) ==
  CASE error = "alias_limit_exceeded" -> 429
    [] error \in {"vault_unavailable", "vault_integrity_failed", "vault_record_tamper",
                  "policy_unloadable", "alias_collision_unresolved"} -> 503
    [] OTHER -> 400
=============================================================================
