-------------------------- MODULE MCNetworkSensor --------------------------
(***************************************************************************)
(* Instances of NetworkSensor for TLC.  Keys are numbers: 1 and 2 go to    *)
(* the addresses 1 and 2, and 2 is a key of DNS over TLS.                  *)
(***************************************************************************)
EXTENDS NetworkSensor

(***************************************************************************)
(* Packets: what servers and clients put on the wire, next to what they    *)
(* mean by it.  None of it is code of the sensor; said is what its readers *)
(* are held to.                                                            *)
(***************************************************************************)

\* A name is put down as far as no earlier name ends alike, and points there.
WriteName(out, name) ==
  LET Suffix(i) == SubSeq(name, i, Len(name))
      cut == CHOOSE i \in 1..Len(name) + 1 :
               /\ i = Len(name) + 1 \/ Suffix(i) \in DOMAIN out.places
               /\ \A j \in 1..i - 1 : Suffix(j) \notin DOMAIN out.places
  IN  [cells |-> out.cells \o [i \in 1..cut - 1 |-> Label(name[i])]
                   \o <<IF cut > Len(name) THEN Root ELSE Pointer(out.places[Suffix(cut)])>>,
       places |-> out.places @@ [s \in {Suffix(j) : j \in 1..cut - 1} |->
                                   Len(out.cells) + 1 + Len(name) - Len(s)]]

Fields(out, cells) == [out EXCEPT !.cells = @ \o cells]

\* A record as a server means it; the length of a bad one disagrees with its type.
A(owner, ip, ttl) == [type |-> "address", owner |-> owner, ip |-> ip, ttl |-> ttl,
                      class |-> "in", length |-> 1]
Cname(owner, target) == [type |-> "cname", owner |-> owner, target |-> target, ttl |-> 0,
                         class |-> "in"]
Txt(owner) == [type |-> "other", owner |-> owner, ttl |-> 0, class |-> "in", length |-> 1]

WriteRecord(out, r) ==
  LET named == WriteName(out, r.owner)
      fieldsOf(length) == <<RecordFields(r.type, r.class, r.ttl, length)>>
      target == WriteName(Fields(named, fieldsOf(0)), r.target)
  IN  IF r.type = "cname"
        THEN [target EXCEPT !.cells[Len(named.cells) + 1].length =
                                Len(target.cells) - Len(named.cells) - 1]
        ELSE Fields(named, fieldsOf(r.length) \o
                           [i \in 1..r.length |-> IF r.type = "address" THEN AddressData(r.ip)
                                                                       ELSE OtherData])

CellsOf(query, records) ==
  LET header == [cells |-> <<Header(TRUE, 1, Len(records))>>, places |-> NoEntries]
      asked == Fields(WriteName(header, query), <<QuestionFields>>)
  IN  FoldLeft(WriteRecord, asked, records).cells

\* What the records mean: the names an address is known under, the query among them when
\* no more aliases than MaxCnameDepth lead from it to the owner.
Means(query, records) ==
  LET all == {records[i] : i \in DOMAIN records}
      aliases == {<<JoinLabels(r.owner), JoinLabels(r.target)>> :
                    r \in {x \in all : x.type = "cname"}}
      known[d \in 0..MaxCnameDepth] ==
        IF d = 0 THEN {JoinLabels(query)}
        ELSE known[d - 1] \cup {a[2] : a \in {x \in aliases : x[1] \in known[d - 1]}}
      names(owner) == {owner} \cup (IF owner \in known[MaxCnameDepth]
                                     THEN {JoinLabels(query)} ELSE {})
  IN  UNION {{[ip |-> r.ip, name |-> n, ttl |-> r.ttl] : n \in names(JoinLabels(r.owner))} :
               r \in {x \in all : x.type = "address" /\ x.class = "in"}}

\* An answer is sound when each name has one meaning and a reader need not refuse it.
Sound(query, records) ==
  LET aliases == {i \in DOMAIN records : records[i].type = "cname"}
      names == {query} \cup {records[i].owner : i \in DOMAIN records}
               \cup {records[i].target : i \in aliases}
  IN  /\ \A i, j \in aliases : JoinLabels(records[i].owner) = JoinLabels(records[j].owner) => i = j
      /\ \A i \in DOMAIN records : records[i].type = "address" => records[i].length = 1
      /\ \A n \in names : Len(n) <= MaxLabels
      /\ 1 + Len(records) <= MaxRecords

Response(query, records) ==
  [cells |-> CellsOf(query, records),
   said |-> [kind |-> "answer", mappings |-> Means(query, records),
             sound |-> Sound(query, records)]]

\* The same, but the sample ends early.
Cut(packet, n) == [packet EXCEPT !.cells = SubSeq(@, 1, n), !.said.sound = FALSE]
Cuts(packet) == {Cut(packet, n) : n \in 0..Len(packet.cells) - 1}

Unsound(cells) == [cells |-> cells,
                   said |-> [kind |-> "answer", mappings |-> {}, sound |-> FALSE]]

\* A hello as a client means it: its names are in the open when none is encrypted.
HelloOf(type, extensions) ==
  LET cells == FlattenSeq(extensions)
      listed == IF cells = <<>> THEN <<>> ELSE <<ExtensionsLength(Len(cells))>> \o cells
      body == <<HelloHeader(type, 1 + Len(listed)), FixedFields>> \o listed
      offered == UNION {{e.name : e \in {x \in Range(c.list) : x.type = "host_name"}} :
                          c \in {x \in Range(cells) : x.form = "names" /\ x.list # None}}
      hidden == \E c \in Range(cells) :
                  c.form = "extension" /\ c.kind = "encrypted_client_hello"
  IN  [cells |-> <<RecordHeader("handshake", Len(body))>> \o body,
       said |-> [kind |-> "hello", names |-> IF hidden THEN {} ELSE offered,
                 sound |-> TRUE]]

Host(name) == [type |-> "host_name", name |-> name]
Names(list) == <<Extension("server_name", 1), ServerNames(list)>>
Hidden == <<Extension("encrypted_client_hello", 1), OtherData>>
Grease == <<Extension("grease", 0)>>

\* A hello over two records: the header of the second is among the extensions.
Split(packet, n) ==
  [packet EXCEPT !.cells = [SubSeq(@, 1, n) EXCEPT ![1].length = n - 1]
                             \o <<RecordHeader("handshake", Len(packet.cells) - n)>>
                             \o SubSeq(@, n + 1, Len(@))]

Hello(name) == HelloOf("client_hello", <<Names(<<Host(name)>>)>>)

(***************************************************************************)
(* Instances                                                               *)
(***************************************************************************)

TwoKeys == {1, 2}
ByNumber == [k \in Keys |-> k]
NoNetns == [k \in Keys |-> None]
AlsoOverTls == {2}

\* A machine that takes everything, with the object this build carries.
Capable ==
  [linux |-> TRUE, readable |-> TRUE, root |-> FALSE, caps |-> LoadCaps, btf |-> TRUE,
   object |-> TRUE, classifier |-> FALSE, capget |-> TRUE, clock |-> TRUE,
   verifierRefuses |-> FALSE, dropFails |-> FALSE, counterFails |-> FALSE,
   mapFills |-> FALSE, trailing |-> FALSE, layout |-> OurLayout,
   keys |-> {1}, procs |-> {"ours"}, hellos |-> {}, answers |-> {},
   ring |-> 3, conns |-> 2, calls |-> 1, replies |-> 0, time |-> 0, passes |-> 1]
\* One whose object carries the packet hooks too.
Classifying == [Capable EXCEPT !.caps = @ \cup {"net_admin"}, !.classifier = TRUE]

\* Every way to be refused, with no traffic.
Refusals ==
  {[Capable EXCEPT !.conns = 0, !.linux = l, !.readable = r, !.root = u, !.caps = c,
                   !.btf = b, !.object = o, !.classifier = t, !.capget = g, !.clock = k,
                   !.verifierRefuses = TRUE, !.dropFails = TRUE, !.passes = 2] :
     l, r, u, b, o, t, g, k \in BOOLEAN, c \in SUBSET (LoadCaps \cup {"net_admin"})}

\* Traffic while an attach is refused at any hook, and asked for again; frames that can
\* be read when they carry a handshake and not when they carry a close.
UnderRefusal ==
  {[Classifying EXCEPT !.verifierRefuses = TRUE, !.dropFails = TRUE],
   [Classifying EXCEPT !.layout = [OurLayout EXCEPT !.longer = 8], !.hellos = {Hello(1)}]}

\* A key is used three times, through a ring of three frames; two keys and two
\* windows; a handshake, sent again behind the close.
ReusedKey ==
  {[Capable EXCEPT !.conns = 3, !.counterFails = TRUE],
   [Capable EXCEPT !.conns = 1, !.procs = {"ours", "theirs"}],
   [Capable EXCEPT !.passes = 2, !.mapFills = TRUE, !.keys = {1, 2}],
   [Classifying EXCEPT !.hellos = {Hello(1)}, !.trailing = TRUE, !.ring = 4]}

\* Answers of one or two mappings for two addresses, before and after a connection to
\* one of them, with room for one address and for two names of an address.
Says(ip, name, ttl) == Response(<<name>>, <<A(<<name>>, ip, ttl)>>)
EveryAnswer == {Says(ip, name, ttl) : ip, name \in {1, 2}, ttl \in {0, 3}}
ShortAnswers == {Says(1, 1, 0), Says(1, 2, 0), Says(1, 3, 0), Says(2, 1, 0),
                 Response(<<1>>, <<A(<<1>>, 1, 0), A(<<2>>, 2, 0)>>)}

FewHellos == {Hello(1), Hello(2), HelloOf("client_hello", <<Hidden>>),
              HelloOf("client_hello", <<Grease>>)}

Named == [Classifying EXCEPT !.conns = 1, !.calls = 0, !.ring = 2]
NamingSetups ==
  {[Named EXCEPT !.answers = EveryAnswer, !.replies = 2, !.time = 3],
   [Named EXCEPT !.answers = ShortAnswers, !.replies = 3, !.ring = 1],
   [Named EXCEPT !.answers = ShortAnswers, !.replies = 1, !.time = 1, !.keys = {1, 2},
                 !.hellos = FewHellos]}

\* One response and one connection to an address it may name: aliases in chains and
\* loops up to one link more than are followed, records of another class or type, names
\* in the other case, a length that is wrong.
Owners == {<<1>>, <<2, 1>>, <<3, 2, 1>>}
SomeRecords == {A(o, 1, 0) : o \in Owners}
               \cup {Cname(o, t) : o, t \in Owners \cup {<<12, 1>>}}
               \cup {Txt(<<1>>), [A(<<1>>, 1, 0) EXCEPT !.class = "ch"],
                     [A(<<1>>, 1, 0) EXCEPT !.length = 2]}
Chain(names) == [i \in 1..Len(names) |-> IF i < Len(names) THEN Cname(names[i], names[i + 1])
                                                           ELSE A(names[i], 1, 0)]
Responses ==
  {Response(q, rs) : q \in {<<1>>, <<12, 1>>}, rs \in UNION {[1..n -> SomeRecords] : n \in 0..2}}
  \cup {Response(<<1>>, Chain(<<<<1>>, <<2>>, <<3>>, <<4>>>>)),
        Response(<<1>>, Chain(<<<<1>>, <<2>>, <<3>>>>)),
        Response(<<1>>, <<A(<<3>>, 1, 0), A(<<3>>, 1, 3)>> \o Chain(<<<<1>>, <<2>>, <<3>>>>))}
LongResponse == Response(<<3, 2, 1>>, <<Cname(<<3, 2, 1>>, <<2, 1>>), A(<<2, 1>>, 1, 0)>>)
BrokenResponses ==
  Cuts(LongResponse)
  \cup {Response(<<1>>, [i \in 1..MaxRecords |-> A(<<1>>, 1, 0)]),
        Response(<<4, 3, 2, 1>>, <<A(<<1>>, 1, 0)>>)}
  \cup {Unsound([LongResponse.cells EXCEPT ![1] = header]) :
          header \in {Header(FALSE, 1, 2), Header(TRUE, 1, 3)}}
  \cup {Unsound([LongResponse.cells EXCEPT ![2] = cell]) :
          cell \in {Pointer(2), Pointer(30), ReservedForm, Label(BadLabel)}}

\* One handshake: a name before or after the sign that it is only the outer one, lists
\* of names, names that are none, cut short anywhere or split over two records.
Extensions == {Names(<<Host(1)>>), Names(<<Host(2)>>), Names(<<Host(0)>>), Names(<<>>),
               Names(<<[type |-> "other", name |-> 2], Host(1)>>),
               <<Extension("server_name", 0)>>, <<Extension("server_name", 1), BrokenList>>,
               Hidden, Grease}
WholeHellos == {HelloOf("client_hello", es) : es \in UNION {[1..n -> Extensions] : n \in 0..2}}
OuterHello == HelloOf("client_hello", <<Names(<<Host(1)>>), Grease, Hidden>>)
Hellos == WholeHellos \cup {HelloOf("server_hello", <<>>)}
          \cup {Cut(OuterHello, n) : n \in 0..Len(OuterHello.cells) - 1}
          \cup {Split(OuterHello, n) : n \in 4..Len(OuterHello.cells) - 1}
          \cup {[OuterHello EXCEPT !.cells[1] = header] :
                  header \in {RecordHeader("alert", 3), RecordHeader("handshake", 0)}}

ReadingSetups ==
  {[Named EXCEPT !.answers = {r}, !.replies = 1] : r \in Responses \cup BrokenResponses}
  \cup {[Named EXCEPT !.hellos = {h}] : h \in Hellos}
  \cup {[Capable EXCEPT !.conns = 1, !.layout = layout] :
          layout \in {[OurLayout EXCEPT !.version = 2], [OurLayout EXCEPT !.reserved = 1],
                      [OurLayout EXCEPT !.longer = 8],
                      [OurLayout EXCEPT !.protocol = "sctp"]}}

AllSetups == Refusals \cup UnderRefusal \cup ReusedKey \cup NamingSetups \cup ReadingSetups
=============================================================================
