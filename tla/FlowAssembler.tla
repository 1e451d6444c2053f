--------------------------- MODULE FlowAssembler ---------------------------
(***************************************************************************)
(* FlowAssembler of crates/periskop-network-sensor/src/assemble.rs: what   *)
(* the kernel's frames say of each connection is joined under the key they *)
(* carry, and a pass ends by turning what was joined into observations.    *)
(*                                                                         *)
(* An event is [kind, key, conn, at, facts]; conn is the connection it was *)
(* really about, which the code cannot see.  It is carried along in conn and from *)
(* so that a property can ask whether a record mixes two connections.      *)
(***************************************************************************)
EXTENDS NameMap

CONSTANTS
  Keys,        \* FlowKey: the connection keys in use
  AddressOf,   \* the destination address of a key
  FiveTupleOf, \* the five tuple of a key: without the source address
  NetnsOf,     \* the network namespace of a key
  OverTls,     \* the keys whose destination port is DNS_OVER_TLS_PORT
  BucketSecs   \* BUCKET_SECS

ASSUME FlowAssemblerAssumption ==
  /\ AddressOf \in [Keys -> Nat] /\ DOMAIN FiveTupleOf = Keys /\ DOMAIN NetnsOf = Keys
  /\ OverTls \subseteq Keys
  /\ BucketSecs \in Nat \ {0}

BucketOf(at) == at \div BucketSecs

(***************************************************************************)
(* Pending and FlowAssembler::new                                          *)
(***************************************************************************)

\* Pending::opened.  conn: the connection of the connect frame; from: those whose
\* volume or handshake was taken in; calls: the volume frames added up.
Opened(at) == [at |-> at, process |-> None, conn |-> None, from |-> {},
               calls |-> 0, hello |-> None, ended |-> FALSE]

NewAssembler == [dns |-> EmptyMap, live |-> NoEntries, closed |-> <<>>,
                 dropped |-> 0, droppedUnknown |-> FALSE, unlinked |-> 0,
                 dnsOverTls |-> FALSE]

\* entry(key).or_insert_with(opened)
PendingAt(a, e) == IF e.key \in DOMAIN a.live THEN a.live[e.key] ELSE Opened(e.at)

(***************************************************************************)
(* ingest                                                                  *)
(***************************************************************************)

\* A handshake seen before the connect is kept.
OnConnect(a, e) ==
  [a EXCEPT !.live = With(@, e.key, [PendingAt(a, e) EXCEPT
                                       !.at = e.at, !.process = e.facts,
                                       !.conn = e.conn])]

OnVolume(a, e) ==
  IF e.key \notin DOMAIN a.live THEN [a EXCEPT !.unlinked = @ + 1]
  ELSE [a EXCEPT !.live[e.key].calls = @ + 1,
                 !.live[e.key].from = @ \cup {e.conn}]

\* Mutant: a closed connection keeps its key.
OnCloseKeepingKey(a, e) ==
  IF e.key \notin DOMAIN a.live THEN [a EXCEPT !.unlinked = @ + 1]
  ELSE [a EXCEPT !.live[e.key].ended = TRUE]

OnClose(a, e) ==
  IF e.key \notin DOMAIN a.live THEN [a EXCEPT !.unlinked = @ + 1]
  ELSE [a EXCEPT !.live = Without(@, {e.key}),
                 !.closed = Append(@, [key |-> e.key, flow |-> [a.live[e.key] EXCEPT
                                                                  !.ended = TRUE]])]

OnHandshake(a, e) ==
  [a EXCEPT !.live = With(@, e.key, [PendingAt(a, e) EXCEPT
                                       !.hello = e.facts, !.from = @ \cup {e.conn}])]

OnAnswers(a, e) == [a EXCEPT !.dns = ObserveAnswers(@, e.facts, e.at)]

Ingest(a0, e) ==
  LET a == IF e.key \in OverTls THEN [a0 EXCEPT !.dnsOverTls = TRUE] ELSE a0
  IN  CASE e.kind = "connect"   -> OnConnect(a, e)
        [] e.kind = "volume"    -> OnVolume(a, e)
        [] e.kind = "close"     -> OnClose(a, e)
        [] e.kind = "handshake" -> OnHandshake(a, e)
        [] e.kind = "answers"   -> OnAnswers(a, e)

\* record_dropped: None when the kernel would not read its counter.
RecordDropped(a, losses) ==
  IF losses = None THEN [a EXCEPT !.droppedUnknown = TRUE]
                   ELSE [a EXCEPT !.dropped = @ + losses]

(***************************************************************************)
(* seal                                                                    *)
(***************************************************************************)

\* dns_observation
DnsUnseen(a) == a.dnsOverTls /\ a.dns.answers = 0

\* finalise: an observation.  nth: its place among the closed, or 0 while it is open.
Finalise(a, key, nth, flow) ==
  LET named == Arbitrate(flow.hello, NamesFor(a.dns, AddressOf[key], flow.at),
                         DnsUnseen(a), AddressOf[key] \in a.dns.losers)
  IN  [key |-> key, nth |-> nth, netns |-> NetnsOf[key], conn |-> flow.conn, from |-> flow.from,
       calls |-> flow.calls, at |-> flow.at, ended |-> flow.ended, process |-> flow.process,
       attribution |-> IF flow.process = None THEN "unattributed"
                                              ELSE "kernel_attributed",
       verdict |-> named.verdict, names |-> named.names, admits |-> named.admits]

\* The closed flows and those still open.  Their order in the report, by key and
\* bucket, is not modelled.
Sealed(a) ==
  {Finalise(a, a.closed[i].key, i, a.closed[i].flow) : i \in DOMAIN a.closed}
    \cup {Finalise(a, k, 0, a.live[k]) : k \in DOMAIN a.live}

(***************************************************************************)
(* The record: Flow::from_observation                                      *)
(***************************************************************************)

\* derive_flow_id hashes the five tuple and the bucket, and neither the namespace nor
\* the source address.
FlowId(key, at) == [tuple |-> FiveTupleOf[key], bucket |-> BucketOf(at)]

FromObservation(o) ==
  [field \in DOMAIN o \cup {"id", "classification"} |->
     CASE field = "id"             -> FlowId(o.key, o.at)
       [] field = "classification" -> Classification(o.verdict.host)
       [] OTHER                    -> o[field]]

\* Mutant: what is still open stays for the next window.
AfterSealKeepingOpen(a) == [a EXCEPT !.closed = <<>>]
AfterSeal(a) == [a EXCEPT !.live = NoEntries, !.closed = <<>>]
=============================================================================
