----------------------------- MODULE DnsMessage -----------------------------
(***************************************************************************)
(* The reader of DNS responses,                                            *)
(* crates/periskop-network-sensor/src/parse/dns.rs over parse/cursor.rs:   *)
(* a sample of a packet becomes mappings of addresses to names, or one of  *)
(* the causes it is refused for.                                           *)
(*                                                                         *)
(* A message is a sequence of cells, and an offset is a cell: the header,  *)
(* then labels, roots and pointers, and the fixed fields between them.  A  *)
(* sample may end before any cell.  A name is the number its labels spell, *)
(* once they are folded to one case; 0 is the empty name.                  *)
(***************************************************************************)
EXTENDS NameMap

CONSTANTS
  MaxRecords,     \* MAX_RECORDS
  MaxLabels,      \* MAX_NAME_BYTES, in labels
  MaxJumps,       \* MAX_POINTER_JUMPS
  MaxCnameDepth   \* MAX_CNAME_DEPTH

ASSUME DnsMessageAssumption ==
  {MaxRecords, MaxLabels, MaxJumps, MaxCnameDepth} \subseteq Nat \ {0}

\* The cells.  A label is a letter, 1 to 9, in lower or, with 10 added, in upper
\* case; BadLabel holds a byte no host name has.
Header(response, questions, answers) ==
  [form |-> "header", response |-> response, questions |-> questions,
   answers |-> answers]
Label(letter) == [form |-> "label", letter |-> letter]
Root == [form |-> "root"]
Pointer(to) == [form |-> "pointer", to |-> to]
ReservedForm == [form |-> "reserved"]
QuestionFields == [form |-> "question"]
RecordFields(type, class, ttl, length) ==
  [form |-> "record", type |-> type, class |-> class, ttl |-> ttl, length |-> length]
AddressData(ip) == [form |-> "address", ip |-> ip]
BadLabel == 20

(***************************************************************************)
(* read_name                                                               *)
(***************************************************************************)

\* join_labels
JoinLabels(labels) == FoldLeft(LAMBDA name, letter : 10 * name + (letter % 10), 0, labels)

\* The labels from an offset on, and where reading goes on behind them: behind the
\* first pointer, wherever it led.
LabelsFrom(message, start) ==
  LET Read[at \in Nat, labels \in Seq(Nat), jumps \in Nat] ==
        IF at > Len(message) THEN Failed("dns_truncated")
        ELSE LET cell == message[at]
             IN  CASE cell.form = "root" -> [labels |-> labels, next |-> at + 1]
                   [] cell.form = "label" /\ Len(labels) < MaxLabels ->
                        Read[at + 1, Append(labels, cell.letter), jumps]
                   [] cell.form = "pointer" /\ jumps < MaxJumps ->
                        Then(Read[cell.to, labels, jumps + 1],
                             LAMBDA there : [there EXCEPT !.next = at + 1])
                   [] OTHER -> Failed("dns_malformed")
  IN  Read[start, <<>>, 0]

ReadName(message, at) ==
  Then(LabelsFrom(message, at), LAMBDA read :
    IF \E i \in DOMAIN read.labels : read.labels[i] = BadLabel
      THEN Failed("dns_malformed")
      ELSE [name |-> JoinLabels(read.labels), next |-> read.next])

(***************************************************************************)
(* The two sections.  A section is read up to: [at, and what it gave].     *)
(***************************************************************************)

\* One question: only the first gives the name that was asked for.
ReadQuestion(message, section, index) ==
  Then(ReadName(message, section.at), LAMBDA read :
    IF read.next > Len(message) THEN Failed("dns_truncated")
    ELSE [at |-> read.next + 1,
          query |-> IF index = 1 /\ read.name # 0 THEN read.name ELSE section.query])

ReadQuestions(message, count) ==
  FoldLeft(LAMBDA section, index :
             Then(section, LAMBDA s : ReadQuestion(message, s, index)),
           [at |-> 2, query |-> None], [i \in 1..count |-> i])

\* What a record of the class IN says.  A length that disagrees with its type is not
\* an address to report; an alias is read against the whole message.
AddressSays(owner, fields, cell) ==
  IF fields.length = 1
    THEN [says |-> <<[kind |-> "address", owner |-> owner, ip |-> cell.ip,
                      ttl |-> fields.ttl]>>]
    ELSE Failed("dns_malformed")
AliasSays(owner, target) ==
  [says |-> IF target = 0 THEN <<>>
            ELSE <<[kind |-> "alias", owner |-> owner, target |-> target]>>]
RecordSays(message, owner, fields, dataAt) ==
  CASE fields.type = "address" -> AddressSays(owner, fields, message[dataAt])
    [] fields.type = "cname"   -> Then(ReadName(message, dataAt),
                                       LAMBDA target : AliasSays(owner, target.name))
    [] OTHER                   -> [says |-> <<>>]

\* Mutant: the class of a record is not looked at.
IsOfAnyClass(fields) == TRUE
IsInternet(fields) == fields.class = "in"

\* One answer: its fields are behind its owner, and its data behind them.
ReadFields(message, section, owner, fields, dataAt) ==
  IF dataAt + fields.length > Len(message) + 1 THEN Failed("dns_truncated")
  ELSE IF ~IsInternet(fields) THEN [section EXCEPT !.at = dataAt + fields.length]
  ELSE Then(RecordSays(message, owner, fields, dataAt), LAMBDA says :
         [at |-> dataAt + fields.length, records |-> section.records \o says.says])
ReadRecord(message, section) ==
  Then(ReadName(message, section.at), LAMBDA owner :
    IF owner.next > Len(message) THEN Failed("dns_truncated")
    ELSE ReadFields(message, section, owner.name, message[owner.next], owner.next + 1))

ReadAnswers(message, at, count) ==
  FoldLeft(LAMBDA section, index : Then(section, LAMBDA s : ReadRecord(message, s)),
           [at |-> at, records |-> <<>>], [i \in 1..count |-> i])

(***************************************************************************)
(* resolve_mappings                                                        *)
(***************************************************************************)

\* The aliases: of two with the same owner the last counts.
AliasesOf(records) ==
  FoldLeft(LAMBDA map, r : IF r.kind = "alias" THEN With(map, r.owner, r.target) ELSE map,
           NoEntries, records)

\* Mutant: an alias is followed against its direction.
ChainComesFrom(aliases, from, to) ==
  LET Reaches[name \in Nat, left \in 0 .. MaxCnameDepth] ==
        /\ left > 0 /\ name \in DOMAIN aliases
        /\ aliases[name] = from \/ Reaches[aliases[name], left - 1]
  IN  Reaches[to, MaxCnameDepth]

\* chain_reaches
ChainReaches(aliases, from, to) ==
  LET Reaches[name \in Nat, left \in 0 .. MaxCnameDepth] ==
        /\ left > 0 /\ name \in DOMAIN aliases
        /\ aliases[name] = to \/ Reaches[aliases[name], left - 1]
  IN  Reaches[from, MaxCnameDepth]

\* The names an address record gives its address: its owner, and the name that was
\* asked for when the aliases lead from there to the owner.
NamesGiven(r, aliases, query) ==
  {r.owner} \cup {q \in {query} \ {None, r.owner} : ChainReaches(aliases, q, r.owner)}

\* A pair seen twice keeps the longer lifetime; the pairs ascend.
LongestLived(given) ==
  {m \in given : \A other \in given :
     other.ip = m.ip /\ other.name = m.name => other.ttl <= m.ttl}
MappingsOf(addresses, aliases, query) ==
  UNION {{[ip |-> r.ip, name |-> n, ttl |-> r.ttl] : n \in NamesGiven(r, aliases, query)} :
           r \in addresses}
ResolveMappings(records, query) ==
  SetToSortSeq(LongestLived(MappingsOf({r \in Range(records) : r.kind = "address"},
                                       AliasesOf(records), query)),
               LAMBDA x, y : x.ip < y.ip \/ (x.ip = y.ip /\ x.name < y.name))

\* parse_response: all the records, or none.
ReadSections(message, header) ==
  Then(ReadQuestions(message, header.questions), LAMBDA asked :
    Then(ReadAnswers(message, asked.at, header.answers), LAMBDA answered :
      [answers |-> ResolveMappings(answered.records, asked.query)]))
ParseResponse(message) ==
  IF message = <<>> THEN Failed("dns_truncated")
  ELSE IF ~message[1].response THEN Failed("dns_not_a_response")
  ELSE IF message[1].questions + message[1].answers > MaxRecords
    THEN Failed("dns_too_many_records")
  ELSE ReadSections(message, message[1])
=============================================================================
