------------------------------ MODULE NameMap ------------------------------
(***************************************************************************)
(* How the network sensor names an address: the map that DNS answers build *)
(* (crates/periskop-network-sensor/src/resolve/cache.rs), the weighing of  *)
(* the map against the handshake (resolve/naming.rs), and the checks a     *)
(* record has to pass (flow/vocabulary.rs, flow/validate.rs); and what the *)
(* readers of packets, which fill the map, return (parse/).                *)
(*                                                                         *)
(* Time is the observation clock.  Addresses and names are numbers, so     *)
(* that the ties the code breaks in ascending order are broken here too.   *)
(***************************************************************************)
EXTENDS Integers, Sequences, FiniteSets, SequencesExt

CONSTANTS
  None,          \* Option::None
  MaxAddresses,  \* MAX_ADDRESSES
  MaxNames,      \* MAX_NAMES_PER_ADDRESS
  MinTtl,        \* MIN_TTL_SECS
  MaxTtl         \* MAX_TTL_SECS

ASSUME NameMapAssumption ==
  /\ {MaxAddresses, MaxNames, MinTtl, MaxTtl} \subseteq Nat \ {0}
  /\ MinTtl <= MaxTtl
  /\ None \notin Nat /\ None \notin {"sni", "dns", "dns_and_sni"}

Larger(x, y) == IF x < y THEN y ELSE x
Smaller(x, y) == IF x < y THEN x ELSE y
\* Mutant: a claimed lifetime is believed, however long.
ClampBelow(ttl) == Larger(MinTtl, ttl)
Clamp(ttl) == Larger(MinTtl, IF ttl > MaxTtl THEN MaxTtl ELSE ttl)

\* f with x mapped to y.
With(f, x, y) == [z \in DOMAIN f \cup {x} |-> IF z = x THEN y ELSE f[z]]
Without(f, S) == [z \in DOMAIN f \ S |-> f[z]]
NoEntries == [x \in {} |-> None]

(***************************************************************************)
(* DnsCache                                                                *)
(***************************************************************************)

EmptyMap == [entries |-> NoEntries, answers |-> 0, evicted |-> 0,
             losers |-> {}, forgotten |-> 0]

\* record_loss: the addresses that lost a name are remembered while there is room.
RecordLoss(m, ip) ==
  IF ip \notin m.losers /\ Cardinality(m.losers) >= MaxAddresses
    THEN [m EXCEPT !.forgotten = @ + 1]
    ELSE [m EXCEPT !.losers = @ \cup {ip}]

\* One mapping of observe.
TakeAnswer(m, answer, now) ==
  LET names == IF answer.ip \in DOMAIN m.entries THEN m.entries[answer.ip] ELSE NoEntries
      expiry == now + Clamp(answer.ttl)
      known == answer.name \in DOMAIN names
  IN  IF Cardinality(DOMAIN names) >= MaxNames /\ ~known
        THEN RecordLoss([m EXCEPT !.evicted = @ + 1], answer.ip)
        ELSE [m EXCEPT
                !.entries = With(@, answer.ip,
                                 With(names, answer.name,
                                      IF known THEN Larger(names[answer.name], expiry)
                                               ELSE expiry)),
                !.answers = @ + 1]

Expire(m, now) ==
  LET fresh(ip) == {n \in DOMAIN m.entries[ip] : m.entries[ip][n] > now}
      kept == {ip \in DOMAIN m.entries : fresh(ip) # {}}
  IN  [m EXCEPT !.entries = [ip \in kept |-> [n \in fresh(ip) |-> @[ip][n]]]]

\* The address whose names all run out soonest goes first.
LastExpiry(names) == CHOOSE t \in {names[n] : n \in DOMAIN names} :
                       \A n \in DOMAIN names : names[n] <= t
GoesBefore(m, ip, other) ==
  LET mine == LastExpiry(m.entries[ip])
      its == LastExpiry(m.entries[other])
  IN  mine < its \/ (mine = its /\ ip < other)

DropAddress(m, ip) ==
  RecordLoss([m EXCEPT !.evicted = @ + Cardinality(DOMAIN m.entries[ip]),
                       !.entries = Without(@, {ip})], ip)

EnforceCapacity(m) ==
  LET excess == Cardinality(DOMAIN m.entries) - MaxAddresses
      byExpiry == SetToSortSeq(DOMAIN m.entries, LAMBDA x, y : GoesBefore(m, x, y))
      after[n \in 0 .. excess] == IF n = 0 THEN m ELSE DropAddress(after[n - 1], byExpiry[n])
  IN  IF excess <= 0 THEN m ELSE after[excess]

\* observe: one response, which may hold several mappings.
ObserveAnswers(m, answers, now) ==
  LET after[n \in 0 .. Len(answers)] ==
        IF n = 0 THEN m ELSE TakeAnswer(after[n - 1], answers[n], now)
  IN  EnforceCapacity(Expire(after[Len(answers)], now))

NamesFor(m, ip, at) ==
  IF ip \in DOMAIN m.entries
    THEN {n \in DOMAIN m.entries[ip] : m.entries[ip][n] > at}
    ELSE {}

(***************************************************************************)
(* arbitrate                                                               *)
(***************************************************************************)

NamedHello(name) == [kind |-> "server_name", name |-> name]
EncryptedHello == [kind |-> "encrypted", name |-> None]
NamelessHello == [kind |-> "no_server_name", name |-> None]

PickName(names) ==
  IF names = {} THEN None ELSE CHOOSE n \in names : \A other \in names : n <= other

\* The host a flow may name, and where the name is from.
HostOf(hello, names) ==
  CASE hello # None /\ hello.kind = "server_name" ->
         [host |-> hello.name, sni |-> hello.name, sniSource |-> "client_hello",
          hostSource |-> IF hello.name \in names THEN "dns_and_sni" ELSE "sni"]
    [] hello = EncryptedHello ->
         [host |-> None, sni |-> None, sniSource |-> "encrypted_client_hello",
          hostSource |-> None]
    [] OTHER ->
         [host |-> PickName(names), sni |-> None, sniSource |-> "absent",
          hostSource |-> IF names = {} THEN None ELSE "dns"]

\* What the flow has to admit about its name.
Admissions(hello, names, dnsUnseen, namesDropped) ==
  {reason \in {"dns_sni_mismatch", "ech", "encrypted_dns", "map_overflow"} :
     CASE reason = "dns_sni_mismatch" -> /\ hello # None /\ hello.kind = "server_name"
                                         /\ names # {} /\ hello.name \notin names
       [] reason = "ech"              -> hello = EncryptedHello
       [] reason = "encrypted_dns"    -> names = {} /\ dnsUnseen
       [] reason = "map_overflow"     -> names = {} /\ namesDropped}

Arbitrate(hello, names, dnsUnseen, namesDropped) ==
  [verdict |-> HostOf(hello, names), names |-> names,
   admits |-> Admissions(hello, names, dnsUnseen, namesDropped)]

(***************************************************************************)
(* Classification and validate.  This build names no provider.             *)
(***************************************************************************)

Classification(host) == IF host = None THEN "opaque" ELSE "unclassified"

\* Flow::validate, on what a flow claims about its destination and its process.
IsValid(flow) ==
  /\ flow.verdict.sni # None => flow.verdict.sniSource = "client_hello"
  /\ flow.classification = "opaque" <=> flow.verdict.host = None
  /\ flow.attribution = "kernel_attributed" <=> flow.process # None
  /\ flow.verdict.host # None <=> flow.verdict.hostSource # None

(***************************************************************************)
(* What the readers of parse/ return: a record with what was read, or the  *)
(* cause it is refused for.                                                *)
(***************************************************************************)

Failed(cause) == [failed |-> cause]
HasFailed(result) == "failed" \in DOMAIN result

\* result? in the code: a refusal ends the reader, anything else is read on from.
Then(result, ReadOn(_)) == IF HasFailed(result) THEN result ELSE ReadOn(result)
=============================================================================
