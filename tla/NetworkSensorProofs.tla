------------------------ MODULE NetworkSensorProofs ------------------------
(***************************************************************************)
(* Proofs about NetworkSensor: a record never mixes two connections, and   *)
(* what is watched is watched by every probe.                              *)
(*                                                                         *)
(* A key says nothing of the connection it was used for, so the argument   *)
(* is about order.  The frames of a key lie in the ring in the order of    *)
(* its connections (OrderInv), and between the frame that opens a flow and *)
(* the next connection with its key lies the frame of the close (EndsInv). *)
(* So whatever the assembler holds for a key is of one connection, the     *)
(* oldest that the ring can still speak of (PendingInv).  A lost close and *)
(* a late packet break this for one key, and a frame that could not be     *)
(* read for all of them: a key is Clean while nothing of this happened.    *)
(***************************************************************************)
EXTENDS NetworkSensor, FiniteSetTheorems, SequenceTheorems, WellFoundedInduction, TLAPS

(***************************************************************************)
(* Types                                                                   *)
(***************************************************************************)

Layouts == {s.layout : s \in Setups}
UsedKeys == UNION {s.keys : s \in Setups}
Processes == UNION {s.procs : s \in Setups}
HelloPackets == UNION {s.hellos : s \in Setups}
AnswerPackets == UNION {s.answers : s \in Setups}

Stages == {"idle", "granted", "attaching", "observing", "reading", "drained", "done"}
Hooks == {"connect", "sendmsg", "recvmsg", "close", "tc"}
States == {"connecting", "open", "closed", "failed"}
ConnType == [key : UsedKeys, process : Processes, st : States, tracked : BOOLEAN,
             greeted : BOOLEAN, calls : Nat]

ConnectFrames ==
  {Written(l, "connect", k, {}, [conn |-> c, at |-> t, process |-> p]) :
     l \in Layouts, k \in UsedKeys, c \in Nat, t \in Nat, p \in Processes}
OtherFrames ==
  {Written(l, kind, k, {}, [conn |-> c, at |-> t]) :
     l \in Layouts, kind \in {"volume", "close"}, k \in UsedKeys, c \in Nat, t \in Nat}
\* What a sample of one of these packets carries.
SampleBodies(whose, packets) ==
  [conn : whose, at : Nat, sample : {p.cells : p \in packets}, said : {p.said : p \in packets}]
HelloFrames ==
  {WrittenSample(l, k, {}, b) :
     l \in Layouts, k \in UsedKeys, b \in SampleBodies(Nat, HelloPackets)}
AnswerFrames ==
  {WrittenSample(l, k, {"payload_is_dns"}, b) :
     l \in Layouts, k \in UsedKeys, b \in SampleBodies({None}, AnswerPackets)}
Frames == ConnectFrames \cup OtherFrames \cup HelloFrames \cup AnswerFrames

\* What a flow knows of its handshake.
HelloFacts == {None} \cup {ParseClientHello(p.cells).hello : p \in HelloPackets}
FlowType == [at : Nat, process : Processes \cup {None}, conn : Nat \cup {None},
             from : SUBSET Nat, calls : Nat, hello : HelloFacts, ended : BOOLEAN]
AssemblerFields == {"dns", "live", "closed", "dropped", "droppedUnknown", "unlinked",
                    "dnsOverTls"}

AssemblerType(a) ==
  /\ DOMAIN a = AssemblerFields
  /\ \A k \in DOMAIN a.live : k \in UsedKeys /\ a.live[k] \in FlowType
  /\ a.closed \in Seq([key : UsedKeys, flow : FlowType])

TypeInv ==
  /\ setup \in Setups /\ now \in Nat /\ pass \in Nat /\ answered \in Nat
  /\ stage \in Stages /\ grant \in BOOLEAN /\ watching \in BOOLEAN
  /\ todo \in Seq(Hooks) /\ hooks \subseteq Hooks
  /\ conns \in Seq(ConnType) /\ ring \in Seq(Frames)
  /\ lost \in [frames : Nat, calls : Nat]
  /\ missed \subseteq DOMAIN conns /\ strayed \subseteq DOMAIN conns
  /\ AssemblerType(asm)

(***************************************************************************)
(* The inductive invariant                                                 *)
(***************************************************************************)

\* A frame about a connection; every other is an answer for some address.
About(frame) == frame.kind # "payload" \/ "payload_is_dns" \notin frame.flags
\* A frame that may open a flow.
Opens(frame) == frame.kind = "connect" \/ (frame.kind = "payload" /\ About(frame))

Over == {"closed", "failed"}
Clean(k) ==
  /\ \A c \in missed \cup strayed : conns[c].key # k
  /\ "record_undecodable" \notin DOMAIN rejected

\* Of the frames from the given one on, one ends c.
Ends(c, from) ==
  \E j \in 1 .. Len(ring) : j >= from /\ ring[j].kind = "close" /\ ring[j].body.conn = c
\* c is open yet, or its end is still to be read.
Lasts(c, from) == conns[c].st = "open" \/ Ends(c, from)
Members(flow) == flow.from \cup {flow.conn}

\* A frame about a connection bears its key.
FramesInv ==
  \A i \in 1 .. Len(ring) : About(ring[i]) =>
    /\ ring[i].body.conn \in DOMAIN conns
    /\ conns[ring[i].body.conn].key = ring[i].key

\* A key is used again when the connection that had it is over.
ConnsInv ==
  \A c, d \in DOMAIN conns :
    c < d /\ conns[c].key = conns[d].key => conns[c].st \in Over

OrderInv ==
  \A i, j \in 1 .. Len(ring) :
    /\ i < j /\ About(ring[i]) /\ About(ring[j])
    /\ ring[i].key = ring[j].key /\ Clean(ring[i].key)
    => ring[i].body.conn <= ring[j].body.conn

EndsInv ==
  \A i \in 1 .. Len(ring) :
    Opens(ring[i]) /\ Clean(ring[i].key) => Lasts(ring[i].body.conn, i + 1)

\* c owns what is held for k: nothing is left in the ring of a connection before it.
OwnedBy(k, c) ==
  /\ conns[c].key = k /\ Lasts(c, 1)
  /\ Members(asm.live[k]) \subseteq {c, None}
  /\ \A i \in 1 .. Len(ring) : About(ring[i]) /\ ring[i].key = k => c <= ring[i].body.conn
PendingInv ==
  \A k \in DOMAIN asm.live : Clean(k) => \E c \in DOMAIN conns : OwnedBy(k, c)

\* What was closed and what was recorded is of one connection.
OfOne(key, members) == Clean(key) => \E c \in DOMAIN conns : members \subseteq {c, None}
ClosedInv ==
  \A i \in DOMAIN asm.closed : OfOne(asm.closed[i].key, Members(asm.closed[i].flow))
OutcomeInv == \A flow \in outcome.flows : OfOne(flow.key, Members(flow))

\* Between two readings nothing is held.
StageInv == stage # "reading" => DOMAIN asm.live = {}

\* An attach that goes on has every hook of the plan behind it or before it.
Plan == {KprobePlan[i] : i \in DOMAIN KprobePlan}
AttachInv ==
  /\ stage = "attaching" => /\ ~watching
                            /\ Plan \subseteq hooks \cup {todo[i] : i \in DOMAIN todo}
  /\ watching => Plan \subseteq hooks /\ setup.capget /\ ~(LoadCaps \subseteq held)
  /\ pass = 0 => /\ stage \notin {"reading", "drained"}
                 /\ stage \in {"idle", "granted", "done"} => hooks = {} /\ ~watching

FlowsInv ==
  FramesInv /\ ConnsInv /\ OrderInv /\ EndsInv /\ PendingInv /\ ClosedInv /\ OutcomeInv
IInv == TypeInv /\ FlowsInv /\ StageInv /\ AttachInv

(***************************************************************************)
(* Frames and the events they become                                       *)
(***************************************************************************)

\* What a frame of the probes holds (wire.rs).
LEMMA FrameFacts ==
  ASSUME NEW f \in Frames
  PROVE  /\ f.key \in UsedKeys /\ f.body.at \in Nat
         /\ f.kind \in {"connect", "volume", "close", "payload"}
         /\ About(f) => f.body.conn \in Nat
         /\ f.kind = "connect" => f.body.process \in Processes
         /\ Opens(f) /\ f.kind # "connect" => \E p \in HelloPackets : f.body.sample = p.cells
         /\ ~About(f) => \E p \in AnswerPackets : f.body.sample = p.cells
<1>1. CASE f \in ConnectFrames
  BY <1>1 DEF ConnectFrames, Written, About, Opens
<1>2. CASE f \in OtherFrames
  BY <1>2 DEF OtherFrames, Written, About, Opens
<1>3. CASE f \in HelloFrames
  <2>1. PICK b \in SampleBodies(Nat, HelloPackets) : \E l \in Layouts, k \in UsedKeys :
          f = WrittenSample(l, k, {}, b)
    BY <1>3 DEF HelloFrames
  <2>2. b.conn \in Nat /\ b.at \in Nat /\ \E p \in HelloPackets : b.sample = p.cells
    BY DEF SampleBodies
  <2> QED BY <2>1, <2>2 DEF WrittenSample, About, Opens
<1>4. CASE f \in AnswerFrames
  <2>1. PICK b \in SampleBodies({None}, AnswerPackets) : \E l \in Layouts, k \in UsedKeys :
          f = WrittenSample(l, k, {"payload_is_dns"}, b)
    BY <1>4 DEF AnswerFrames
  <2>2. b.at \in Nat /\ \E p \in AnswerPackets : b.sample = p.cells
    BY DEF SampleBodies
  <2> QED BY <2>1, <2>2 DEF WrittenSample, About, Opens
<1> QED BY <1>1, <1>2, <1>3, <1>4 DEF Frames

LEMMA PayloadEvent ==
  ASSUME NEW f, f.kind = "payload", Decodable(f)
  PROVE  KernelEventFrom(f) = FactsFrom(f)
BY DEF KernelEventFrom

LEMMA OtherEvent ==
  ASSUME NEW f, Decodable(f), f.kind \in {"connect", "volume", "close"}
  PROVE  /\ ~HasFailed(KernelEventFrom(f))
         /\ KernelEventFrom(f).key = f.key /\ KernelEventFrom(f).conn = f.body.conn
         /\ KernelEventFrom(f).at = f.body.at /\ KernelEventFrom(f).kind = f.kind
         /\ f.kind = "connect" => KernelEventFrom(f).facts = f.body.process
<1>1. CASE f.kind = "connect"
  <2>1. KernelEventFrom(f) = [Event("connect", f) EXCEPT !.facts = f.body.process]
    BY <1>1 DEF KernelEventFrom
  <2> QED BY <2>1, <1>1 DEF Event, HasFailed
<1>2. CASE f.kind # "connect"
  <2>1. KernelEventFrom(f) = Event(f.kind, f)
    BY <1>2 DEF KernelEventFrom
  <2> QED BY <2>1, <1>2 DEF Event, HasFailed
<1> QED BY <1>1, <1>2

\* A frame that cannot be decoded is refused for that; of the others a sample may be
\* refused too (record.rs, decode; loader.rs, kernel_event_from).
LEMMA RefusedFrame ==
  ASSUME NEW f \in Frames, HasFailed(KernelEventFrom(f))
  PROVE  KernelEventFrom(f).failed = "record_undecodable" \/ f.kind = "payload"
<1>1. CASE ~Decodable(f)
  BY <1>1 DEF KernelEventFrom, Failed
<1>2. CASE Decodable(f)
  BY <1>2, FrameFacts, OtherEvent
<1> QED BY <1>1, <1>2

LEMMA SampleEvent ==
  ASSUME NEW f, f.kind = "payload", Decodable(f), ~HasFailed(FactsFrom(f))
  PROVE  /\ FactsFrom(f).key = f.key /\ FactsFrom(f).conn = f.body.conn
         /\ FactsFrom(f).at = f.body.at
         /\ FactsFrom(f).kind = IF About(f) THEN "handshake" ELSE "answers"
         /\ About(f) => /\ ~HasFailed(ParseClientHello(f.body.sample))
                         /\ FactsFrom(f).facts = ParseClientHello(f.body.sample).hello
         /\ ~About(f) => /\ ~HasFailed(ParseResponse(f.body.sample))
                          /\ FactsFrom(f).facts = ParseResponse(f.body.sample).answers
<1>1. CASE About(f)
  <2> DEFINE read == ParseClientHello(f.body.sample)
  <2>1. FactsFrom(f) = Then(read, LAMBDA r : [Event("handshake", f) EXCEPT !.facts = r.hello])
    BY <1>1 DEF FactsFrom, About
  <2>2. ~HasFailed(read)
    BY <2>1 DEF Then
  <2>3. FactsFrom(f) = [Event("handshake", f) EXCEPT !.facts = read.hello]
    BY <2>1, <2>2 DEF Then
  <2> QED BY <2>2, <2>3, <1>1 DEF Event
<1>2. CASE ~About(f)
  <2> DEFINE read == ParseResponse(f.body.sample)
  <2>1. FactsFrom(f) = Then(read, LAMBDA r : [Event("answers", f) EXCEPT !.facts = r.answers])
    BY <1>2 DEF FactsFrom, About
  <2>2. ~HasFailed(read)
    BY <2>1 DEF Then
  <2>3. FactsFrom(f) = [Event("answers", f) EXCEPT !.facts = read.answers]
    BY <2>1, <2>2 DEF Then
  <2> QED BY <2>2, <2>3, <1>2 DEF Event
<1> QED BY <1>1, <1>2

\* An event says of its frame what the frame said.
LEMMA EventFacts ==
  ASSUME NEW f \in Frames, ~HasFailed(KernelEventFrom(f))
  PROVE  LET e == KernelEventFrom(f)
         IN  /\ e.key = f.key /\ e.conn = f.body.conn /\ e.at = f.body.at
             /\ About(f) =>
                  /\ e.kind = IF f.kind = "payload" THEN "handshake" ELSE f.kind
                  /\ e.kind = "connect" => e.facts \in Processes
                  /\ e.kind = "handshake" => e.facts \in HelloFacts
             /\ ~About(f) => e.kind = "answers"
<1>1. Decodable(f)
  BY DEF KernelEventFrom, HasFailed, Failed
<1>2. CASE f.kind = "payload"
  <2>1. KernelEventFrom(f) = FactsFrom(f)
    BY <1>1, <1>2, PayloadEvent
  <2>2. ASSUME About(f)
        PROVE  FactsFrom(f).facts \in HelloFacts
    <3>1. PICK p \in HelloPackets : f.body.sample = p.cells
      BY <1>2, <2>2, FrameFacts DEF Opens
    <3> QED BY <3>1, <2>1, <2>2, <1>1, <1>2, SampleEvent DEF HelloFacts
  <2> QED BY <2>1, <2>2, <1>1, <1>2, SampleEvent
<1>3. CASE f.kind # "payload"
  <2>1. f.kind \in {"connect", "volume", "close"} /\ About(f)
    BY <1>3, FrameFacts DEF About
  <2> QED BY <2>1, <1>1, OtherEvent, FrameFacts
<1> QED BY <1>2, <1>3

(***************************************************************************)
(* The assembler, event by event                                           *)
(***************************************************************************)

LEMMA OpenedType ==
  ASSUME NEW t \in Nat
  PROVE  Opened(t) \in FlowType /\ Opened(t).from = {} /\ Opened(t).conn = None
BY DEF Opened, FlowType, HelloFacts

\* Noting a key of DNS over TLS touches no flow.
Noted(a, e) == IF e.key \in OverTls THEN [a EXCEPT !.dnsOverTls = TRUE] ELSE a
LEMMA NotedFacts ==
  ASSUME NEW a, NEW e, DOMAIN a = AssemblerFields
  PROVE  /\ DOMAIN Noted(a, e) = AssemblerFields
         /\ Noted(a, e).live = a.live /\ Noted(a, e).closed = a.closed
         /\ Noted(a, e).dns = a.dns
BY DEF Noted, AssemblerFields

LEMMA IngestIs ==
  ASSUME NEW a, NEW e
  PROVE  /\ e.kind = "connect" => Ingest(a, e) = OnConnect(Noted(a, e), e)
         /\ e.kind = "volume" => Ingest(a, e) = OnVolume(Noted(a, e), e)
         /\ e.kind = "close" => Ingest(a, e) = OnClose(Noted(a, e), e)
         /\ e.kind = "handshake" => Ingest(a, e) = OnHandshake(Noted(a, e), e)
         /\ e.kind = "answers" => Ingest(a, e) = OnAnswers(Noted(a, e), e)
BY DEF Ingest, Noted

LEMMA PendingAtFacts ==
  ASSUME NEW a, AssemblerType(a), NEW e, e.at \in Nat
  PROVE  /\ PendingAt(a, e) \in FlowType
         /\ e.key \in DOMAIN a.live => PendingAt(a, e) = a.live[e.key]
         /\ e.key \notin DOMAIN a.live => /\ PendingAt(a, e).from = {}
                                          /\ PendingAt(a, e).conn = None
BY OpenedType DEF PendingAt, AssemblerType

\* A connect and a handshake put a flow under their key; every other flow stays.
LEMMA ConnectFacts ==
  ASSUME NEW a, AssemblerType(a), NEW e, e.at \in Nat, e.key \in UsedKeys,
         e.conn \in Nat, e.facts \in Processes
  PROVE  LET b == OnConnect(a, e)
         IN  /\ AssemblerType(b) /\ b.closed = a.closed
             /\ DOMAIN b.live = DOMAIN a.live \cup {e.key}
             /\ \A k \in DOMAIN a.live : k # e.key => b.live[k] = a.live[k]
             /\ b.live[e.key].conn = e.conn
             /\ b.live[e.key].from = PendingAt(a, e).from
             /\ b.live[e.key].hello = PendingAt(a, e).hello /\ b.dns = a.dns
<1> DEFINE p == PendingAt(a, e)
           q == [p EXCEPT !.at = e.at, !.process = e.facts, !.conn = e.conn]
           b == OnConnect(a, e)
<1>1. p \in FlowType
  BY PendingAtFacts
<1>2. q \in FlowType /\ q.conn = e.conn /\ q.from = p.from /\ q.hello = p.hello
  BY <1>1 DEF FlowType
<1>3. /\ DOMAIN b = AssemblerFields /\ b.live = With(a.live, e.key, q)
      /\ b.closed = a.closed /\ b.dns = a.dns
  BY DEF OnConnect, AssemblerType, AssemblerFields
<1> HIDE DEF p, q, b
<1>4. /\ DOMAIN b.live = DOMAIN a.live \cup {e.key} /\ b.live[e.key] = q
      /\ \A k \in DOMAIN a.live : k # e.key => b.live[k] = a.live[k]
  BY <1>3 DEF With
<1> QED BY <1>2, <1>3, <1>4 DEF AssemblerType, p, b

LEMMA HandshakeFacts ==
  ASSUME NEW a, AssemblerType(a), NEW e, e.at \in Nat, e.key \in UsedKeys,
         e.conn \in Nat, e.facts \in HelloFacts
  PROVE  LET b == OnHandshake(a, e)
         IN  /\ AssemblerType(b) /\ b.closed = a.closed
             /\ DOMAIN b.live = DOMAIN a.live \cup {e.key}
             /\ \A k \in DOMAIN a.live : k # e.key => b.live[k] = a.live[k]
             /\ b.live[e.key].conn = PendingAt(a, e).conn
             /\ b.live[e.key].from = PendingAt(a, e).from \cup {e.conn}
             /\ b.live[e.key].hello = e.facts /\ b.dns = a.dns
<1> DEFINE p == PendingAt(a, e)
           q == [p EXCEPT !.hello = e.facts, !.from = @ \cup {e.conn}]
           b == OnHandshake(a, e)
<1>1. p \in FlowType
  BY PendingAtFacts
<1>2. /\ q \in FlowType /\ q.conn = p.conn /\ q.from = p.from \cup {e.conn}
      /\ q.hello = e.facts
  BY <1>1 DEF FlowType
<1>3. /\ DOMAIN b = AssemblerFields /\ b.live = With(a.live, e.key, q)
      /\ b.closed = a.closed /\ b.dns = a.dns
  BY DEF OnHandshake, AssemblerType, AssemblerFields
<1> HIDE DEF p, q, b
<1>4. /\ DOMAIN b.live = DOMAIN a.live \cup {e.key} /\ b.live[e.key] = q
      /\ \A k \in DOMAIN a.live : k # e.key => b.live[k] = a.live[k]
  BY <1>3 DEF With
<1> QED BY <1>2, <1>3, <1>4 DEF AssemblerType, p, b

\* A volume and a close without a flow are counted and change none.
LEMMA UnlinkedFacts ==
  ASSUME NEW a, AssemblerType(a), NEW e, e.key \notin DOMAIN a.live
  PROVE  /\ OnVolume(a, e) = OnClose(a, e)
         /\ AssemblerType(OnVolume(a, e))
         /\ OnVolume(a, e).live = a.live /\ OnVolume(a, e).closed = a.closed
         /\ OnVolume(a, e).dns = a.dns
BY DEF OnVolume, OnClose, AssemblerType, AssemblerFields

LEMMA VolumeFacts ==
  ASSUME NEW a, AssemblerType(a), NEW e, e.key \in DOMAIN a.live, e.conn \in Nat
  PROVE  LET b == OnVolume(a, e)
         IN  /\ AssemblerType(b) /\ b.closed = a.closed
             /\ DOMAIN b.live = DOMAIN a.live
             /\ \A k \in DOMAIN a.live : k # e.key => b.live[k] = a.live[k]
             /\ b.live[e.key].conn = a.live[e.key].conn
             /\ b.live[e.key].from = a.live[e.key].from \cup {e.conn}
             /\ b.live[e.key].hello = a.live[e.key].hello /\ b.dns = a.dns
<1> DEFINE p == a.live[e.key]
           q == [p EXCEPT !.calls = @ + 1, !.from = @ \cup {e.conn}]
           b == OnVolume(a, e)
<1>1. p \in FlowType
  BY DEF AssemblerType
<1>2. /\ q \in FlowType /\ q.conn = p.conn /\ q.from = p.from \cup {e.conn}
      /\ q.hello = p.hello
  <2> DEFINE counted == [p EXCEPT !.calls = @ + 1]
  <2>1. /\ counted \in FlowType /\ counted.conn = p.conn /\ counted.from = p.from
        /\ counted.hello = p.hello
    BY <1>1 DEF FlowType
  <2>2. q = [counted EXCEPT !.from = @ \cup {e.conn}]
    BY <1>1 DEF FlowType
  <2> QED BY <2>1, <2>2 DEF FlowType
<1>3. /\ DOMAIN b = AssemblerFields /\ b.closed = a.closed /\ b.dns = a.dns
      /\ b.live = [a.live EXCEPT ![e.key] = q]
  BY DEF OnVolume, AssemblerType, AssemblerFields
<1> HIDE DEF p, q, b
<1>4. /\ DOMAIN b.live = DOMAIN a.live /\ b.live[e.key] = q
      /\ \A k \in DOMAIN a.live : k # e.key => b.live[k] = a.live[k]
  BY <1>3
<1> QED BY <1>2, <1>3, <1>4 DEF AssemblerType, p, b

\* A close moves the flow, as it is, to those that are closed.
LEMMA CloseFacts ==
  ASSUME NEW a, AssemblerType(a), NEW e, e.key \in DOMAIN a.live
  PROVE  LET b == OnClose(a, e)
             n == Len(a.closed) + 1
         IN  /\ AssemblerType(b) /\ Len(b.closed) = n
             /\ DOMAIN b.live = DOMAIN a.live \ {e.key}
             /\ \A k \in DOMAIN b.live : b.live[k] = a.live[k]
             /\ \A i \in DOMAIN a.closed : b.closed[i] = a.closed[i]
             /\ b.closed[n].key = e.key
             /\ Members(b.closed[n].flow) = Members(a.live[e.key])
             /\ b.closed[n].flow.conn = a.live[e.key].conn
             /\ b.closed[n].flow.hello = a.live[e.key].hello /\ b.dns = a.dns
<1> DEFINE p == a.live[e.key]
           q == [p EXCEPT !.ended = TRUE]
           last == [key |-> e.key, flow |-> q]
           b == OnClose(a, e)
<1>1. p \in FlowType /\ e.key \in UsedKeys
  BY DEF AssemblerType
<1>2. q \in FlowType /\ q.conn = p.conn /\ q.from = p.from /\ q.hello = p.hello
  BY <1>1 DEF FlowType
<1>3. /\ DOMAIN b = AssemblerFields /\ b.closed = Append(a.closed, last)
      /\ b.live = Without(a.live, {e.key}) /\ b.dns = a.dns
  BY DEF OnClose, AssemblerType, AssemblerFields
<1>4. last \in [key : UsedKeys, flow : FlowType] /\ last.key = e.key /\ last.flow = q
  BY <1>1, <1>2
<1> HIDE DEF p, q, b, last
<1>5. /\ DOMAIN b.live = DOMAIN a.live \ {e.key}
      /\ \A k \in DOMAIN b.live : b.live[k] = a.live[k]
  BY <1>3 DEF Without
<1>6. /\ b.closed \in Seq([key : UsedKeys, flow : FlowType])
      /\ Len(b.closed) = Len(a.closed) + 1
      /\ \A i \in DOMAIN a.closed : b.closed[i] = a.closed[i]
      /\ b.closed[Len(a.closed) + 1] = last
  BY <1>3, <1>4 DEF AssemblerType
<1>7. AssemblerType(b)
  BY <1>3, <1>5, <1>6 DEF AssemblerType
<1> QED BY <1>2, <1>3, <1>4, <1>5, <1>6, <1>7 DEF Members, p, b

LEMMA AnswersFacts ==
  ASSUME NEW a, AssemblerType(a), NEW e
  PROVE  /\ AssemblerType(OnAnswers(a, e))
         /\ OnAnswers(a, e).live = a.live /\ OnAnswers(a, e).closed = a.closed
         /\ OnAnswers(a, e).dns = ObserveAnswers(a.dns, e.facts, e.at)
BY DEF OnAnswers, AssemblerType, AssemblerFields

LEMMA DroppedFacts ==
  ASSUME NEW a, AssemblerType(a), NEW losses
  PROVE  /\ AssemblerType(RecordDropped(a, losses))
         /\ RecordDropped(a, losses).live = a.live
         /\ RecordDropped(a, losses).closed = a.closed
         /\ RecordDropped(a, losses).dns = a.dns
BY DEF RecordDropped, AssemblerType, AssemblerFields

LEMMA AfterSealFacts ==
  ASSUME NEW a, AssemblerType(a)
  PROVE  /\ AssemblerType(AfterSeal(a))
         /\ DOMAIN AfterSeal(a).live = {} /\ AfterSeal(a).closed = <<>>
         /\ AfterSeal(a).dns = a.dns
<1>1. /\ DOMAIN AfterSeal(a) = AssemblerFields /\ AfterSeal(a).closed = <<>>
      /\ AfterSeal(a).live = NoEntries /\ AfterSeal(a).dns = a.dns
  BY DEF AfterSeal, AssemblerType, AssemblerFields
<1>2. DOMAIN NoEntries = {}
  BY DEF NoEntries
<1> QED BY <1>1, <1>2 DEF AssemblerType

\* A record has the key and the members of a flow that was sealed.
LEMMA FinaliseFacts ==
  ASSUME NEW a, NEW key, NEW nth, NEW flow
  PROVE  /\ Finalise(a, key, nth, flow).key = key
         /\ Finalise(a, key, nth, flow).conn = flow.conn
         /\ Finalise(a, key, nth, flow).from = flow.from
         /\ {"key", "conn", "from"} \subseteq DOMAIN Finalise(a, key, nth, flow)
BY DEF Finalise

LEMMA RecordFacts ==
  ASSUME NEW o, {"key", "conn", "from"} \subseteq DOMAIN o
  PROVE  /\ FromObservation(o).key = o.key
         /\ FromObservation(o).conn = o.conn
         /\ FromObservation(o).from = o.from
BY DEF FromObservation

(***************************************************************************)
(* Steps that change nothing the invariant of the flows speaks of          *)
(***************************************************************************)

\* The tally of rejected frames only grows, and a key is never clean again.
flows == <<conns, ring, missed, strayed, asm.live, asm.closed>>

LEMMA FlowsStutter ==
  ASSUME FlowsInv, UNCHANGED flows, DOMAIN rejected \subseteq DOMAIN rejected',
         outcome' = outcome \/ outcome'.flows = {}
  PROVE  FlowsInv'
<1>1. UNCHANGED <<conns, ring, missed, strayed, asm.live, asm.closed>>
  BY DEF flows
<1>2. \A k : Clean(k)' => Clean(k)
  BY <1>1 DEF Clean
<1>3. \A c, n : Lasts(c, n)' = Lasts(c, n)
  BY <1>1 DEF Lasts, Ends
<1>4. FramesInv' /\ ConnsInv'
  BY <1>1 DEF FlowsInv, FramesInv, ConnsInv
<1>5. OrderInv' /\ EndsInv'
  BY <1>1, <1>2, <1>3 DEF FlowsInv, OrderInv, EndsInv
<1>6. PendingInv'
  BY <1>1, <1>2, <1>3 DEF FlowsInv, PendingInv, OwnedBy
<1>7. ClosedInv'
  BY <1>1, <1>2 DEF FlowsInv, ClosedInv, OfOne
<1>8. OutcomeInv'
  BY <1>1, <1>2 DEF FlowsInv, OutcomeInv, OfOne
<1> QED BY <1>4, <1>5, <1>6, <1>7, <1>8 DEF FlowsInv

(***************************************************************************)
(* Traffic on one connection                                               *)
(***************************************************************************)

\* Clean and Lasts after a step.
CleanThen(k) ==
  /\ \A c \in missed' \cup strayed' : conns'[c].key # k
  /\ "record_undecodable" \notin DOMAIN rejected'
LastsThen(c, from) ==
  \/ conns'[c].st = "open"
  \/ \E j \in 1 .. Len(ring') :
       j >= from /\ ring'[j].kind = "close" /\ ring'[j].body.conn = c

\* What every step of a connection does: it stays what it is but for its state, puts a
\* frame about itself into the ring or none, and ends with a frame that says so or
\* without one that ever will.
Moves(c, f) ==
  /\ c \in DOMAIN conns /\ f \in Frames
  /\ conns' \in Seq(ConnType) /\ Len(conns') = Len(conns)
  /\ \A d \in DOMAIN conns : /\ conns'[d].key = conns[d].key
                             /\ d # c => conns'[d].st = conns[d].st
  /\ conns[c].st \notin Over \/ c \in strayed'
  /\ conns[c].st \in Over => conns'[c].st \in Over
  /\ \/ conns'[c].st = "open" \/ conns[c].st # "open" \/ c \in missed'
     \/ ring' = Append(ring, f) /\ f.kind = "close"
  /\ \/ ring' = ring
     \/ /\ ring' = Append(ring, f)
        /\ About(f) /\ f.body.conn = c /\ f.key = conns[c].key
        /\ Opens(f) => conns'[c].st = "open" \/ c \in strayed'
  /\ missed \subseteq missed' /\ strayed \subseteq strayed'
  /\ missed' \subseteq DOMAIN conns /\ strayed' \subseteq DOMAIN conns
  /\ UNCHANGED <<asm, rejected, outcome>>

LEMMA MovesRing ==
  ASSUME TypeInv, NEW c, NEW f, Moves(c, f)
  PROVE  /\ ring' \in Seq(Frames) /\ Len(ring) \in Nat
         /\ Len(ring') = Len(ring) \/ Len(ring') = Len(ring) + 1
         /\ \A i \in 1 .. Len(ring) : ring'[i] = ring[i]
         /\ Len(ring') = Len(ring) + 1 => ring' = Append(ring, f) /\ ring'[Len(ring')] = f
<1>1. ring \in Seq(Frames) /\ f \in Frames
  BY DEF TypeInv, Moves
<1>2. CASE ring' = ring
  BY <1>1, <1>2
<1>3. CASE ring' = Append(ring, f)
  BY <1>1, <1>3
<1> QED BY <1>2, <1>3 DEF Moves

LEMMA MovesClean ==
  ASSUME TypeInv, NEW c, NEW f, Moves(c, f), NEW k, CleanThen(k)
  PROVE  /\ Clean(k)
         /\ conns[c].key = k => /\ c \notin missed' /\ c \notin strayed'
                                /\ conns[c].st \notin Over
<1>1. \A d \in missed' \cup strayed' : d \in DOMAIN conns /\ conns[d].key # k
  BY DEF Moves, CleanThen
<1> QED BY <1>1 DEF Moves, Clean, CleanThen

LEMMA MovesLasts ==
  ASSUME TypeInv, NEW c, NEW f, Moves(c, f), NEW d \in DOMAIN conns,
         NEW n \in 1 .. Len(ring) + 1, Lasts(d, n), CleanThen(conns[d].key)
  PROVE  LastsThen(d, n)
<1>0. Len(ring) \in Nat
  BY MovesRing
<1>1. CASE Ends(d, n)
  <2>1. PICK j \in 1 .. Len(ring) : j >= n /\ ring[j].kind = "close" /\ ring[j].body.conn = d
    BY <1>1 DEF Ends
  <2>2. j \in 1 .. Len(ring') /\ ring'[j] = ring[j]
    BY <1>0, <2>1, MovesRing
  <2> QED BY <2>1, <2>2 DEF Lasts, Ends, LastsThen
<1>2. CASE conns[d].st = "open" /\ conns'[d].st = "open"
  BY <1>2 DEF LastsThen
<1>3. CASE conns[d].st = "open" /\ conns'[d].st # "open"
  <2>1. d = c /\ c \notin missed'
    BY <1>3, MovesClean DEF Moves
  <2>2. ring' = Append(ring, f) /\ f.kind = "close" /\ f.body.conn = c
    <3>1. ring' = Append(ring, f) /\ f.kind = "close"
      BY <1>3, <2>1 DEF Moves
    <3>2. ring' # ring
      <4>1. Len(ring') = Len(ring) + 1
        BY <3>1 DEF TypeInv, Moves
      <4> QED BY <4>1, <1>0
    <3> QED BY <3>1, <3>2 DEF Moves
  <2>3. Len(ring') = Len(ring) + 1 /\ ring'[Len(ring) + 1] = f
    BY <2>2 DEF TypeInv, Moves
  <2> QED BY <1>0, <2>1, <2>2, <2>3 DEF Lasts, Ends, LastsThen
<1> QED BY <1>1, <1>2, <1>3 DEF Lasts

\* Nothing in the ring is of a connection behind the one that moves.
LEMMA MovesLast ==
  ASSUME TypeInv, FlowsInv, NEW c, NEW f, Moves(c, f), NEW d \in DOMAIN conns,
         conns[d].key = conns[c].key, CleanThen(conns[c].key)
  PROVE  d <= c
<1>1. conns[c].st \notin Over /\ c \in DOMAIN conns
  BY MovesClean DEF Moves
<1>2. ~(c < d)
  BY <1>1 DEF FlowsInv, ConnsInv
<1>3. c \in Nat /\ d \in Nat
  BY <1>1 DEF TypeInv
<1> QED BY <1>2, <1>3

LEMMA MovesKeep ==
  ASSUME TypeInv, FlowsInv, NEW c, NEW f, Moves(c, f)
  PROVE  FlowsInv'
<1>0. /\ Len(ring) \in Nat /\ Len(conns) \in Nat
      /\ c \in DOMAIN conns /\ DOMAIN conns = 1 .. Len(conns)
      /\ DOMAIN conns' = DOMAIN conns
      /\ \A d \in DOMAIN conns : conns'[d].key = conns[d].key
      /\ \A i \in 1 .. Len(ring) : ring'[i] = ring[i]
  <2>1. /\ conns \in Seq(ConnType) /\ conns' \in Seq(ConnType) /\ Len(conns') = Len(conns)
        /\ c \in DOMAIN conns /\ \A d \in DOMAIN conns : conns'[d].key = conns[d].key
    BY DEF Moves, TypeInv
  <2>2. DOMAIN conns = 1 .. Len(conns) /\ DOMAIN conns' = DOMAIN conns /\ Len(conns) \in Nat
    BY <2>1
  <2> QED BY <2>1, <2>2, MovesRing
\* The frames of the ring: those that were there, and the one that may be new.
<1>1. ASSUME NEW i \in 1 .. Len(ring'), i \notin 1 .. Len(ring)
      PROVE  /\ ring' = Append(ring, f) /\ ring'[i] = f /\ i = Len(ring) + 1 /\ i = Len(ring')
             /\ About(f) /\ f.body.conn = c /\ f.key = conns[c].key
             /\ Opens(f) => conns'[c].st = "open" \/ c \in strayed'
  <2>1. Len(ring') = Len(ring) + 1 /\ i = Len(ring) + 1
    BY <1>0, <1>1, MovesRing
  <2>2. ring' # ring
    BY <1>0, <2>1
  <2> QED BY <2>1, <2>2, MovesRing DEF Moves
<1>2. FramesInv'
  <2>1. ASSUME NEW i \in 1 .. Len(ring'), About(ring'[i])
        PROVE  ring'[i].body.conn \in DOMAIN conns /\ conns[ring'[i].body.conn].key = ring'[i].key
    BY <1>0, <1>1, <2>1 DEF FlowsInv, FramesInv
  <2> QED BY <1>0, <2>1 DEF FramesInv, About
<1>3. ConnsInv'
  <2>1. ASSUME NEW d \in DOMAIN conns, conns[d].st \in Over
        PROVE  conns'[d].st \in Over
    BY <2>1 DEF Moves
  <2> QED BY <1>0, <2>1 DEF FlowsInv, ConnsInv
<1>4. OrderInv'
  <2> SUFFICES ASSUME NEW i \in 1 .. Len(ring'), NEW j \in 1 .. Len(ring'), i < j,
                      About(ring'[i]), About(ring'[j]), ring'[i].key = ring'[j].key,
                      CleanThen(ring'[i].key)
               PROVE  ring'[i].body.conn <= ring'[j].body.conn
    BY DEF OrderInv, About, Clean, CleanThen
  <2>1. i \in 1 .. Len(ring)
    BY <1>0, <1>1
  <2>2. CASE j \in 1 .. Len(ring)
    BY <1>0, <2>1, <2>2, MovesClean DEF FlowsInv, OrderInv
  <2>3. CASE j \notin 1 .. Len(ring)
    <3>1. /\ ring[i].body.conn \in DOMAIN conns
          /\ conns[ring[i].body.conn].key = ring[i].key
      BY <1>0, <2>1 DEF FlowsInv, FramesInv
    <3>2. ring'[j].body.conn = c /\ ring[i].key = conns[c].key
      BY <1>0, <1>1, <2>1, <2>3
    <3>3. ring[i].body.conn <= c
      BY <1>0, <2>1, <3>1, <3>2, MovesLast
    <3> QED BY <1>0, <2>1, <3>2, <3>3
  <2> QED BY <2>2, <2>3
<1>5. EndsInv'
  <2> SUFFICES ASSUME NEW i \in 1 .. Len(ring'), Opens(ring'[i]), CleanThen(ring'[i].key)
               PROVE  LastsThen(ring'[i].body.conn, i + 1)
    BY DEF EndsInv, Opens, About, Clean, CleanThen, Lasts, Ends, LastsThen
  <2>1. CASE i \in 1 .. Len(ring)
    <3>1. /\ ring[i].body.conn \in DOMAIN conns
          /\ conns[ring[i].body.conn].key = ring[i].key
      BY <1>0, <2>1 DEF FlowsInv, FramesInv, Opens, About
    <3>2. Lasts(ring[i].body.conn, i + 1)
      BY <1>0, <2>1, MovesClean DEF FlowsInv, EndsInv
    <3>3. i + 1 \in 1 .. Len(ring) + 1
      BY <1>0, <2>1
    <3>4. CleanThen(conns[ring[i].body.conn].key)
      BY <1>0, <2>1, <3>1
    <3>5. LastsThen(ring[i].body.conn, i + 1)
      BY <3>1, <3>2, <3>3, <3>4, MovesLasts
    <3> QED BY <1>0, <2>1, <3>5
  <2>2. CASE i \notin 1 .. Len(ring)
    <3>1. /\ ring'[i].body.conn = c /\ ring'[i].key = conns[c].key
          /\ conns'[c].st = "open" \/ c \in strayed'
      BY <1>1, <2>2
    <3> QED BY <3>1, MovesClean DEF LastsThen
  <2> QED BY <2>1, <2>2
<1>6. PendingInv'
  <2> SUFFICES ASSUME NEW k \in DOMAIN asm.live, CleanThen(k)
               PROVE  \E d \in DOMAIN conns : OwnedBy(k, d)'
    BY <1>0 DEF PendingInv, Moves, Clean, CleanThen
  <2>1. PICK d \in DOMAIN conns : OwnedBy(k, d)
    BY MovesClean DEF FlowsInv, PendingInv
  <2>2. conns'[d].key = k /\ CleanThen(conns[d].key)
    BY <1>0, <2>1 DEF OwnedBy
  <2>3. LastsThen(d, 1)
    BY <1>0, <2>1, <2>2, MovesLasts DEF OwnedBy
  <2>4. ASSUME NEW i \in 1 .. Len(ring'), About(ring'[i]), ring'[i].key = k
        PROVE  d <= ring'[i].body.conn
    <3>1. CASE i \in 1 .. Len(ring)
      BY <1>0, <2>1, <2>4, <3>1 DEF OwnedBy
    <3>2. CASE i \notin 1 .. Len(ring)
      <4>1. ring'[i].body.conn = c /\ conns[c].key = k
        BY <1>1, <2>4, <3>2
      <4> QED BY <2>1, <2>2, <4>1, MovesLast DEF OwnedBy
    <3> QED BY <3>1, <3>2
  <2>5. Members(asm'.live[k]) \subseteq {d, None}
    BY <2>1 DEF OwnedBy, Moves
  <2>6. OwnedBy(k, d)'
    BY <2>2, <2>3, <2>4, <2>5 DEF OwnedBy, About, Lasts, Ends, LastsThen
  <2> QED BY <2>6
<1>7. ASSUME NEW k, NEW members, OfOne(k, members)
      PROVE  OfOne(k, members)'
  BY <1>0, <1>7, MovesClean DEF OfOne, Clean, CleanThen
<1>8. ClosedInv' /\ OutcomeInv'
  <2>1. asm' = asm /\ outcome' = outcome
    BY DEF Moves
  <2> QED BY <1>7, <2>1 DEF FlowsInv, ClosedInv, OutcomeInv
<1> QED BY <1>2, <1>3, <1>4, <1>5, <1>6, <1>8 DEF FlowsInv

(***************************************************************************)
(* The frames of the probes are what TypeInv says of the ring              *)
(***************************************************************************)

LEMMA ConnFacts ==
  ASSUME TypeInv, NEW c \in DOMAIN conns
  PROVE  /\ c \in Nat /\ conns[c] \in ConnType
         /\ conns[c].key \in UsedKeys /\ conns[c].process \in Processes
<1>1. conns \in Seq(ConnType)
  BY DEF TypeInv
<1>2. c \in Nat /\ conns[c] \in ConnType
  BY <1>1
<1> QED BY <1>2 DEF ConnType

LEMMA SetupFacts ==
  ASSUME TypeInv
  PROVE  /\ setup.layout \in Layouts /\ setup.keys \subseteq UsedKeys
         /\ setup.procs \subseteq Processes /\ setup.hellos \subseteq HelloPackets
         /\ setup.answers \subseteq AnswerPackets /\ now \in Nat
BY DEF TypeInv, Layouts, UsedKeys, Processes, HelloPackets, AnswerPackets

LEMMA Counts ==
  ASSUME NEW r \in ConnType
  PROVE  /\ [r EXCEPT !.calls = @ + 1] \in ConnType
         /\ [r EXCEPT !.calls = @ + 1].key = r.key /\ [r EXCEPT !.calls = @ + 1].st = r.st
BY DEF ConnType

LEMMA Greeted ==
  ASSUME NEW r \in ConnType
  PROVE  /\ [r EXCEPT !.greeted = TRUE] \in ConnType
         /\ [r EXCEPT !.greeted = TRUE].key = r.key /\ [r EXCEPT !.greeted = TRUE].st = r.st
BY DEF ConnType

LEMMA ConnectFrame ==
  ASSUME TypeInv, NEW c \in DOMAIN conns
  PROVE  LET f == Written(setup.layout, "connect", conns[c].key, {},
                          [conn |-> c, at |-> now, process |-> conns[c].process])
         IN  /\ f \in Frames /\ About(f) /\ f.kind = "connect"
             /\ f.body.conn = c /\ f.key = conns[c].key
<1> DEFINE b == [conn |-> c, at |-> now, process |-> conns[c].process]
           f == Written(setup.layout, "connect", conns[c].key, {}, b)
<1>1. /\ setup.layout \in Layouts /\ conns[c].key \in UsedKeys
      /\ conns[c].process \in Processes /\ c \in Nat /\ now \in Nat
  BY ConnFacts, SetupFacts
<1>2. f \in Frames
  BY <1>1 DEF Frames, ConnectFrames
<1>3. /\ About(f) /\ f.kind = "connect" /\ f.body.conn = c /\ f.key = conns[c].key
  BY DEF Written, About
<1> QED BY <1>2, <1>3

LEMMA OtherFrame ==
  ASSUME TypeInv, NEW c \in DOMAIN conns, NEW kind \in {"volume", "close"}
  PROVE  LET f == Frame(kind, c)
         IN  /\ f \in Frames /\ About(f) /\ ~Opens(f) /\ f.kind = kind
             /\ f.body.conn = c /\ f.key = conns[c].key
<1> DEFINE f == Frame(kind, c)
<1>1. /\ setup.layout \in Layouts /\ conns[c].key \in UsedKeys /\ c \in Nat /\ now \in Nat
  BY ConnFacts, SetupFacts
<1>2. f \in Frames
  BY <1>1 DEF Frames, OtherFrames, Frame, Body
<1>3. /\ About(f) /\ ~Opens(f) /\ f.kind = kind /\ f.body.conn = c /\ f.key = conns[c].key
  BY DEF Frame, Body, Written, About, Opens
<1> QED BY <1>2, <1>3

LEMMA HelloFrame ==
  ASSUME TypeInv, NEW c \in DOMAIN conns, NEW hello \in setup.hellos
  PROVE  LET f == Sample(conns[c].key, c, {}, hello)
         IN  /\ f \in Frames /\ About(f) /\ f.kind = "payload"
             /\ f.body.conn = c /\ f.key = conns[c].key
<1> DEFINE f == Sample(conns[c].key, c, {}, hello)
<1>1. /\ setup.layout \in Layouts /\ conns[c].key \in UsedKeys /\ c \in Nat /\ now \in Nat
      /\ hello \in HelloPackets
  BY ConnFacts, SetupFacts
<1>2. f \in HelloFrames
  <2> DEFINE b == [conn |-> c, at |-> now, sample |-> hello.cells, said |-> hello.said]
  <2>1. b \in SampleBodies(Nat, HelloPackets)
    BY <1>1 DEF SampleBodies
  <2>2. f = WrittenSample(setup.layout, conns[c].key, {}, b)
    BY DEF Sample
  <2> HIDE DEF b, f
  <2> QED BY <1>1, <2>1, <2>2 DEF HelloFrames
<1>3. /\ About(f) /\ f.kind = "payload" /\ f.body.conn = c /\ f.key = conns[c].key
  BY DEF Sample, WrittenSample, About
<1> QED BY <1>2, <1>3 DEF Frames

LEMMA AnswerFrame ==
  ASSUME TypeInv, NEW k \in setup.keys, NEW message \in setup.answers
  PROVE  LET f == Sample(k, None, {"payload_is_dns"}, message)
         IN  f \in Frames /\ ~About(f) /\ f.kind = "payload"
<1> DEFINE f == Sample(k, None, {"payload_is_dns"}, message)
<1>1. /\ setup.layout \in Layouts /\ k \in UsedKeys /\ now \in Nat
      /\ message \in AnswerPackets
  BY SetupFacts
<1>2. f \in Frames
  <2> DEFINE b == [conn |-> None, at |-> now, sample |-> message.cells, said |-> message.said]
  <2>1. b \in SampleBodies({None}, AnswerPackets)
    BY <1>1 DEF SampleBodies
  <2>2. f = WrittenSample(setup.layout, k, {"payload_is_dns"}, b)
    BY DEF Sample
  <2> HIDE DEF b, f
  <2> QED BY <1>1, <2>1, <2>2 DEF AnswerFrames, Frames
<1>3. ~About(f) /\ f.kind = "payload"
  BY DEF Sample, WrittenSample, About
<1> QED BY <1>2, <1>3

LEMMA EmitFacts ==
  ASSUME TypeInv, NEW f \in Frames, Emit(f) \/ NoFrame
  PROVE  /\ ring' = ring \/ ring' = Append(ring, f)
         /\ ring' \in Seq(Frames) /\ lost' \in [frames : Nat, calls : Nat]
<1>1. ring \in Seq(Frames) /\ lost \in [frames : Nat, calls : Nat]
  BY DEF TypeInv
<1>2. ring' = ring \/ ring' = Append(ring, f)
  BY DEF Emit, NoFrame
<1>3. lost' = lost \/ lost' = [lost EXCEPT !.frames = @ + 1]
  BY DEF Emit, NoFrame
<1>4. ring' \in Seq(Frames)
  BY <1>1, <1>2
<1>5. lost' \in [frames : Nat, calls : Nat]
  BY <1>1, <1>3
<1> QED BY <1>2, <1>4, <1>5

(***************************************************************************)
(* The steps of a connection                                               *)
(***************************************************************************)

\* Traffic touches neither the attachment nor what was read.
LEMMA TrafficElse ==
  ASSUME IInv, UNCHANGED <<machine, attachment, reading>>
  PROVE  /\ StageInv' /\ AttachInv' /\ AssemblerType(asm)'
         /\ setup' \in Setups /\ now' \in Nat /\ pass' \in Nat /\ stage' \in Stages
         /\ grant' \in BOOLEAN /\ watching' \in BOOLEAN
         /\ todo' \in Seq(Hooks) /\ hooks' \subseteq Hooks
<1>1. /\ setup' = setup /\ now' = now /\ held' = held /\ stage' = stage /\ grant' = grant
      /\ todo' = todo /\ hooks' = hooks /\ watching' = watching /\ asm' = asm /\ pass' = pass
  BY DEF machine, attachment, reading
<1>2. StageInv'
  BY <1>1 DEF IInv, StageInv
<1>3. AttachInv'
  BY <1>1 DEF IInv, AttachInv
<1>4. AssemblerType(asm)'
  BY <1>1 DEF IInv, TypeInv, AssemblerType
<1> QED BY <1>1, <1>2, <1>3, <1>4 DEF IInv, TypeInv

LEMMA MovesKeepIt ==
  ASSUME IInv, NEW c, NEW f, Moves(c, f), UNCHANGED <<machine, attachment, reading>>,
         answered' = answered, lost' \in [frames : Nat, calls : Nat]
  PROVE  IInv'
<1>1. FlowsInv'
  BY MovesKeep DEF IInv
<1>2. /\ ring' \in Seq(Frames) /\ conns' \in Seq(ConnType) /\ DOMAIN conns' = DOMAIN conns
      /\ missed' \subseteq DOMAIN conns' /\ strayed' \subseteq DOMAIN conns'
  <2>1. ring' \in Seq(Frames)
    BY MovesRing DEF IInv
  <2> QED BY <2>1 DEF IInv, TypeInv, Moves
<1>3. TypeInv'
  BY <1>2, TrafficElse DEF TypeInv, IInv
<1> QED BY <1>1, <1>3, TrafficElse DEF IInv

LEMMA StateSet ==
  ASSUME TypeInv, NEW c \in DOMAIN conns, NEW st \in States,
         conns' = [conns EXCEPT ![c].st = st]
  PROVE  /\ conns' \in Seq(ConnType) /\ Len(conns') = Len(conns)
         /\ \A d \in DOMAIN conns : /\ conns'[d].key = conns[d].key
                                    /\ d # c => conns'[d].st = conns[d].st
         /\ conns'[c].st = st
<1> DEFINE r == [conns[c] EXCEPT !.st = st]
<1>1. conns \in Seq(ConnType) /\ conns[c] \in ConnType
  BY DEF TypeInv
<1>2. r \in ConnType /\ r.key = conns[c].key /\ r.st = st
  BY <1>1 DEF ConnType
<1>3. conns' = [conns EXCEPT ![c] = r]
  OBVIOUS
<1> HIDE DEF r
<1> QED BY <1>1, <1>2, <1>3

LEMMA ReturnConnectKeeps ==
  ASSUME IInv, NEW c \in DOMAIN conns, ReturnConnect(c)
  PROVE  IInv'
<1> DEFINE f == Written(setup.layout, "connect", conns[c].key, {},
                        [conn |-> c, at |-> now, process |-> conns[c].process])
<1>0. TypeInv
  BY DEF IInv
<1>1. /\ f \in Frames /\ About(f) /\ f.kind = "connect"
      /\ f.body.conn = c /\ f.key = conns[c].key
  BY <1>0, ConnectFrame
<1>2. /\ conns[c].st = "connecting" /\ conns' = [conns EXCEPT ![c].st = "open"]
      /\ Emit(f) \/ NoFrame
      /\ UNCHANGED <<machine, attachment, reading, answered, missed, strayed>>
  BY DEF ReturnConnect
<1> HIDE DEF f
<1>3. /\ ring' = ring \/ ring' = Append(ring, f)
      /\ lost' \in [frames : Nat, calls : Nat]
  BY <1>0, <1>1, <1>2, EmitFacts
<1>4. /\ conns' \in Seq(ConnType) /\ Len(conns') = Len(conns)
      /\ \A d \in DOMAIN conns : /\ conns'[d].key = conns[d].key
                                 /\ d # c => conns'[d].st = conns[d].st
      /\ conns'[c].st = "open"
  BY <1>0, <1>2, StateSet DEF States
<1>5. Moves(c, f)
  BY <1>0, <1>1, <1>2, <1>3, <1>4 DEF Moves, TypeInv, Over, reading
<1> QED BY <1>2, <1>3, <1>5, MovesKeepIt

LEMMA FailConnectKeeps ==
  ASSUME IInv, NEW c \in DOMAIN conns, FailConnect(c)
  PROVE  IInv'
<1> DEFINE f == Frame("volume", c)
<1>0. TypeInv
  BY DEF IInv
<1>1. f \in Frames
  BY <1>0, OtherFrame
<1>2. /\ conns[c].st = "connecting" /\ conns' = [conns EXCEPT ![c].st = "failed"]
      /\ ring' = ring /\ lost' = lost
      /\ UNCHANGED <<machine, attachment, reading, answered, missed, strayed>>
  BY DEF FailConnect
<1> HIDE DEF f
<1>4. /\ conns' \in Seq(ConnType) /\ Len(conns') = Len(conns)
      /\ \A d \in DOMAIN conns : /\ conns'[d].key = conns[d].key
                                 /\ d # c => conns'[d].st = conns[d].st
      /\ conns'[c].st = "failed"
  BY <1>0, <1>2, StateSet DEF States
<1>5. Moves(c, f)
  BY <1>0, <1>1, <1>2, <1>4 DEF Moves, TypeInv, Over, reading
<1>6. lost' \in [frames : Nat, calls : Nat]
  BY <1>0, <1>2 DEF TypeInv
<1> QED BY <1>2, <1>5, <1>6, MovesKeepIt

LEMMA TransferKeeps ==
  ASSUME IInv, NEW c \in DOMAIN conns, NEW hook \in Volumes, Transfer(c, hook)
  PROVE  IInv'
<1> DEFINE f == Frame("volume", c)
           r == [conns[c] EXCEPT !.calls = @ + 1]
<1>0. TypeInv
  BY DEF IInv
<1>1. /\ f \in Frames /\ About(f) /\ ~Opens(f) /\ f.kind = "volume"
      /\ f.body.conn = c /\ f.key = conns[c].key
  BY <1>0, OtherFrame
<1>2. /\ conns[c].st \in {"connecting", "open"} /\ conns' = [conns EXCEPT ![c] = r]
      /\ Emit(f) \/ NoFrame
      /\ UNCHANGED <<machine, attachment, reading, answered, missed, strayed>>
  BY DEF Transfer
<1>3. conns \in Seq(ConnType) /\ conns[c] \in ConnType
  BY <1>0 DEF TypeInv
<1>4. r \in ConnType /\ r.key = conns[c].key /\ r.st = conns[c].st
  BY <1>3, Counts
<1> HIDE DEF f, r
<1>5. /\ ring' = ring \/ ring' = Append(ring, f)
      /\ lost' \in [frames : Nat, calls : Nat]
  BY <1>0, <1>1, <1>2, EmitFacts
<1>6. /\ conns' \in Seq(ConnType) /\ Len(conns') = Len(conns)
      /\ \A d \in DOMAIN conns : conns'[d].key = conns[d].key /\ conns'[d].st = conns[d].st
  BY <1>2, <1>3, <1>4
<1>7. Moves(c, f)
  BY <1>0, <1>1, <1>2, <1>5, <1>6 DEF Moves, TypeInv, Over, reading
<1> QED BY <1>2, <1>5, <1>7, MovesKeepIt

LEMMA CloseKeeps ==
  ASSUME IInv, NEW c \in DOMAIN conns, Close(c)
  PROVE  IInv'
<1> DEFINE f == Frame("close", c)
<1>0. TypeInv
  BY DEF IInv
<1>1. /\ f \in Frames /\ About(f) /\ ~Opens(f) /\ f.kind = "close"
      /\ f.body.conn = c /\ f.key = conns[c].key
  BY <1>0, OtherFrame
<1>2. /\ conns[c].st = "open" /\ conns' = [conns EXCEPT ![c].st = "closed"]
      /\ Emit(f) \/ NoFrame
      /\ UNCHANGED <<machine, attachment, reading, answered, strayed>>
  BY DEF Close
<1>3. \/ missed' = missed /\ ring' = Append(ring, f)
      \/ missed' = missed \cup {c}
  BY DEF Close, Emit
<1> HIDE DEF f
<1>4. /\ ring' = ring \/ ring' = Append(ring, f)
      /\ lost' \in [frames : Nat, calls : Nat]
  BY <1>0, <1>1, <1>2, EmitFacts
<1>5. /\ conns' \in Seq(ConnType) /\ Len(conns') = Len(conns)
      /\ \A d \in DOMAIN conns : /\ conns'[d].key = conns[d].key
                                 /\ d # c => conns'[d].st = conns[d].st
      /\ conns'[c].st = "closed"
  BY <1>0, <1>2, StateSet DEF States
<1>6. Moves(c, f)
  BY <1>0, <1>1, <1>2, <1>3, <1>4, <1>5 DEF Moves, TypeInv, Over, reading
<1> QED BY <1>2, <1>4, <1>6, MovesKeepIt

LEMMA GreetKeeps ==
  ASSUME IInv, NEW c \in DOMAIN conns, NEW hello \in setup.hellos, Greet(c, hello)
  PROVE  IInv'
<1> DEFINE f == Sample(conns[c].key, c, {}, hello)
           r == [conns[c] EXCEPT !.greeted = TRUE]
<1>0. TypeInv
  BY DEF IInv
<1>1. /\ f \in Frames /\ About(f) /\ f.kind = "payload"
      /\ f.body.conn = c /\ f.key = conns[c].key
  BY <1>0, HelloFrame
<1>2. /\ \/ /\ conns[c].st = "open" /\ conns' = [conns EXCEPT ![c] = r]
            /\ strayed' = strayed
         \/ conns[c].st = "closed" /\ strayed' = strayed \cup {c} /\ conns' = conns
      /\ Emit(f) \/ NoFrame
      /\ UNCHANGED <<machine, attachment, reading, answered, missed>>
  BY DEF Greet
<1>3. conns \in Seq(ConnType) /\ conns[c] \in ConnType
  BY <1>0 DEF TypeInv
<1>4. r \in ConnType /\ r.key = conns[c].key /\ r.st = conns[c].st
  BY <1>3, Greeted
<1> HIDE DEF f, r
<1>5. /\ ring' = ring \/ ring' = Append(ring, f)
      /\ lost' \in [frames : Nat, calls : Nat]
  BY <1>0, <1>1, <1>2, EmitFacts
<1>6. /\ conns' \in Seq(ConnType) /\ Len(conns') = Len(conns)
      /\ \A d \in DOMAIN conns : conns'[d].key = conns[d].key /\ conns'[d].st = conns[d].st
  BY <1>2, <1>3, <1>4
<1>7. Moves(c, f)
  BY <1>0, <1>1, <1>2, <1>5, <1>6 DEF Moves, TypeInv, Over, reading
<1> QED BY <1>2, <1>5, <1>7, MovesKeepIt

(***************************************************************************)
(* New connections, and answers                                            *)
(***************************************************************************)

\* A connection may come, on a key that nobody has, and an answer into the ring.
Grows(f) ==
  /\ conns' \in Seq(ConnType) /\ Len(conns) <= Len(conns')
  /\ \A d \in DOMAIN conns : conns'[d].key = conns[d].key /\ conns'[d].st = conns[d].st
  /\ \A c, d \in DOMAIN conns' :
       d \notin DOMAIN conns /\ c < d /\ conns'[c].key = conns'[d].key => conns'[c].st \in Over
  /\ ring' = ring \/ (f \in Frames /\ ~About(f) /\ ring' = Append(ring, f))
  /\ UNCHANGED <<missed, strayed, asm, rejected, outcome>>

LEMMA GrowsRing ==
  ASSUME TypeInv, NEW f, Grows(f)
  PROVE  /\ ring' \in Seq(Frames) /\ Len(ring) \in Nat /\ Len(ring') \in Nat
         /\ Len(ring) <= Len(ring')
         /\ \A i \in 1 .. Len(ring) : ring'[i] = ring[i]
         /\ \A i \in 1 .. Len(ring') : i \notin 1 .. Len(ring) => ~About(ring'[i])
<1>1. ring \in Seq(Frames)
  BY DEF TypeInv
<1>2. CASE ring' = ring
  BY <1>1, <1>2
<1>3. CASE f \in Frames /\ ~About(f) /\ ring' = Append(ring, f)
  <2>1. /\ ring' \in Seq(Frames) /\ Len(ring) \in Nat /\ Len(ring') = Len(ring) + 1
        /\ \A i \in 1 .. Len(ring) : ring'[i] = ring[i]
        /\ ring'[Len(ring) + 1] = f
    BY <1>1, <1>3
  <2>2. \A i \in 1 .. Len(ring') : i \notin 1 .. Len(ring) => i = Len(ring) + 1
    BY <2>1
  <2> QED BY <1>3, <2>1, <2>2
<1> QED BY <1>2, <1>3 DEF Grows

LEMMA GrowsKeep ==
  ASSUME TypeInv, FlowsInv, NEW f, Grows(f)
  PROVE  FlowsInv'
<1>0. /\ Len(ring) \in Nat /\ Len(conns) \in Nat /\ Len(conns') \in Nat
      /\ DOMAIN conns = 1 .. Len(conns) /\ DOMAIN conns' = 1 .. Len(conns')
      /\ DOMAIN conns \subseteq DOMAIN conns'
      /\ \A d \in DOMAIN conns : conns'[d].key = conns[d].key /\ conns'[d].st = conns[d].st
      /\ \A i \in 1 .. Len(ring) : ring'[i] = ring[i] /\ i \in 1 .. Len(ring')
      /\ missed \subseteq DOMAIN conns /\ strayed \subseteq DOMAIN conns
  BY GrowsRing DEF Grows, TypeInv
<1>1. ASSUME NEW i \in 1 .. Len(ring'), About(ring'[i])
      PROVE  i \in 1 .. Len(ring) /\ ring'[i] = ring[i]
  BY <1>0, <1>1, GrowsRing
<1>2. ASSUME NEW k
      PROVE  CleanThen(k) = Clean(k)
  BY <1>0 DEF Grows, Clean, CleanThen
<1>3. ASSUME NEW c \in DOMAIN conns, NEW n, Lasts(c, n)
      PROVE  LastsThen(c, n)
  BY <1>0, <1>3 DEF Lasts, Ends, LastsThen
<1>4. FramesInv'
  <2>1. ASSUME NEW i \in 1 .. Len(ring'), About(ring'[i])
        PROVE  /\ ring'[i].body.conn \in DOMAIN conns'
               /\ conns'[ring'[i].body.conn].key = ring'[i].key
    BY <1>0, <1>1, <2>1 DEF FlowsInv, FramesInv
  <2> QED BY <2>1 DEF FramesInv, About
<1>5. ConnsInv'
  <2> SUFFICES ASSUME NEW c \in DOMAIN conns', NEW d \in DOMAIN conns', c < d,
                      conns'[c].key = conns'[d].key
               PROVE  conns'[c].st \in Over
    BY DEF ConnsInv
  <2>1. CASE d \notin DOMAIN conns
    BY <2>1 DEF Grows
  <2>2. CASE d \in DOMAIN conns
    <3>1. c \in DOMAIN conns
      BY <1>0, <2>2
    <3> QED BY <1>0, <2>2, <3>1 DEF FlowsInv, ConnsInv
  <2> QED BY <2>1, <2>2
<1>6. OrderInv'
  <2> SUFFICES ASSUME NEW i \in 1 .. Len(ring'), NEW j \in 1 .. Len(ring'), i < j,
                      About(ring'[i]), About(ring'[j]), ring'[i].key = ring'[j].key,
                      CleanThen(ring'[i].key)
               PROVE  ring'[i].body.conn <= ring'[j].body.conn
    BY DEF OrderInv, About, Clean, CleanThen
  <2> QED BY <1>1, <1>2 DEF FlowsInv, OrderInv
<1>7. EndsInv'
  <2> SUFFICES ASSUME NEW i \in 1 .. Len(ring'), Opens(ring'[i]), CleanThen(ring'[i].key)
               PROVE  LastsThen(ring'[i].body.conn, i + 1)
    BY DEF EndsInv, Opens, About, Clean, CleanThen, Lasts, Ends, LastsThen
  <2>1. About(ring'[i])
    BY DEF Opens, About
  <2>2. i \in 1 .. Len(ring) /\ ring'[i] = ring[i] /\ ring[i].body.conn \in DOMAIN conns
    BY <1>1, <2>1 DEF FlowsInv, FramesInv
  <2>3. Lasts(ring[i].body.conn, i + 1)
    BY <1>2, <2>2 DEF FlowsInv, EndsInv
  <2> QED BY <1>3, <2>2, <2>3
<1>8. PendingInv'
  <2> SUFFICES ASSUME NEW k \in DOMAIN asm.live, CleanThen(k)
               PROVE  \E d \in DOMAIN conns' : OwnedBy(k, d)'
    BY DEF PendingInv, Grows, Clean, CleanThen
  <2>1. PICK d \in DOMAIN conns : OwnedBy(k, d)
    BY <1>2 DEF FlowsInv, PendingInv
  <2>2. conns'[d].key = k /\ LastsThen(d, 1) /\ d \in DOMAIN conns'
    BY <1>0, <1>3, <2>1 DEF OwnedBy
  <2>3. ASSUME NEW i \in 1 .. Len(ring'), About(ring'[i]), ring'[i].key = k
        PROVE  d <= ring'[i].body.conn
    BY <1>1, <2>1, <2>3 DEF OwnedBy
  <2>4. Members(asm'.live[k]) \subseteq {d, None}
    BY <2>1 DEF OwnedBy, Grows
  <2>5. OwnedBy(k, d)'
    BY <2>2, <2>3, <2>4 DEF OwnedBy, About, Lasts, Ends, LastsThen
  <2> QED BY <2>2, <2>5
<1>9. ASSUME NEW k, NEW members, OfOne(k, members)
      PROVE  OfOne(k, members)'
  BY <1>0, <1>2, <1>9 DEF OfOne, Clean, CleanThen
<1>10. ClosedInv' /\ OutcomeInv'
  <2>1. asm' = asm /\ outcome' = outcome
    BY DEF Grows
  <2> QED BY <1>9, <2>1 DEF FlowsInv, ClosedInv, OutcomeInv
<1> QED BY <1>4, <1>5, <1>6, <1>7, <1>8, <1>10 DEF FlowsInv

LEMMA GrowsKeepIt ==
  ASSUME IInv, NEW f, Grows(f), UNCHANGED <<machine, attachment, reading>>,
         answered' \in Nat, lost' \in [frames : Nat, calls : Nat]
  PROVE  IInv'
<1>1. FlowsInv'
  BY GrowsKeep DEF IInv
<1>2. /\ ring' \in Seq(Frames) /\ conns' \in Seq(ConnType)
      /\ missed' \subseteq DOMAIN conns' /\ strayed' \subseteq DOMAIN conns'
  <2>1. ring' \in Seq(Frames)
    BY GrowsRing DEF IInv
  <2>2. DOMAIN conns \subseteq DOMAIN conns' /\ conns' \in Seq(ConnType)
    BY DEF IInv, TypeInv, Grows
  <2> QED BY <2>1, <2>2 DEF IInv, TypeInv, Grows
<1>3. TypeInv'
  BY <1>2, TrafficElse DEF TypeInv, IInv
<1> QED BY <1>1, <1>3, TrafficElse DEF IInv

LEMMA EnterConnectKeeps ==
  ASSUME IInv, NEW k \in setup.keys, NEW p \in setup.procs, EnterConnect(k, p)
  PROVE  IInv'
<1>0. TypeInv
  BY DEF IInv
<1>1. PICK tracked \in BOOLEAN :
        /\ conns' = Append(conns, [key |-> k, process |-> p, st |-> "connecting",
                                   tracked |-> tracked, greeted |-> FALSE, calls |-> 0])
        /\ lost' = IF "connect" \in hooks /\ ~tracked
                     THEN [lost EXCEPT !.calls = @ + 1] ELSE lost
  BY DEF EnterConnect
<1>2. /\ ~Busy(k)
      /\ UNCHANGED <<machine, attachment, reading, ring, answered, missed, strayed>>
  BY DEF EnterConnect
<1> DEFINE r == [key |-> k, process |-> p, st |-> "connecting",
                 tracked |-> tracked, greeted |-> FALSE, calls |-> 0]
           n == Len(conns) + 1
<1>3. r \in ConnType /\ r.key = k
  <2>1. k \in UsedKeys /\ p \in Processes /\ "connecting" \in States
    BY <1>0, SetupFacts DEF States
  <2> QED BY <2>1 DEF ConnType
<1>4. conns' = Append(conns, r)
  BY <1>1
<1> HIDE DEF r
<1>5. conns \in Seq(ConnType) /\ Len(conns) \in Nat
  BY <1>0 DEF TypeInv
<1>6. /\ conns' \in Seq(ConnType) /\ Len(conns') = n /\ conns'[n] = r
      /\ \A d \in DOMAIN conns : conns'[d] = conns[d]
  BY <1>3, <1>4, <1>5
<1>7. ASSUME NEW c \in DOMAIN conns', NEW d \in DOMAIN conns', d \notin DOMAIN conns, c < d,
             conns'[c].key = conns'[d].key
      PROVE  conns'[c].st \in Over
  <2>1. d = n /\ c \in DOMAIN conns
    BY <1>5, <1>6, <1>7
  <2>2. conns'[c] = conns[c] /\ conns[c].key = k
    BY <1>3, <1>6, <1>7, <2>1
  <2>3. conns[c].st \notin {"connecting", "open"}
    BY <1>2, <2>1, <2>2 DEF Busy
  <2>4. conns[c].st \in States
    BY <1>0, <2>1, ConnFacts DEF ConnType
  <2> QED BY <2>2, <2>3, <2>4 DEF States, Over
<1>8. lost' \in [frames : Nat, calls : Nat]
  <2>1. lost \in [frames : Nat, calls : Nat]
    BY <1>0 DEF TypeInv
  <2>2. lost' = lost \/ lost' = [lost EXCEPT !.calls = @ + 1]
    BY <1>1
  <2> QED BY <2>1, <2>2
<1>9. Grows(None)
  BY <1>2, <1>5, <1>6, <1>7 DEF Grows, reading
<1> QED BY <1>0, <1>2, <1>8, <1>9, GrowsKeepIt DEF TypeInv

LEMMA AnswerKeeps ==
  ASSUME IInv, NEW k \in setup.keys, NEW message \in setup.answers, Answer(k, message)
  PROVE  IInv'
<1> DEFINE f == Sample(k, None, {"payload_is_dns"}, message)
<1>0. TypeInv
  BY DEF IInv
<1>1. f \in Frames /\ ~About(f)
  BY <1>0, AnswerFrame
<1>2. /\ Emit(f) /\ answered' = answered + 1 /\ conns' = conns
      /\ UNCHANGED <<machine, attachment, reading, missed, strayed>>
  BY DEF Answer
<1> HIDE DEF f
<1>3. /\ ring' = ring \/ ring' = Append(ring, f)
      /\ lost' \in [frames : Nat, calls : Nat]
  BY <1>0, <1>1, <1>2, EmitFacts
<1>4. Grows(f)
  <2>1. conns \in Seq(ConnType)
    BY <1>0 DEF TypeInv
  <2> QED BY <1>1, <1>2, <1>3, <2>1 DEF Grows, reading
<1>5. answered' \in Nat
  BY <1>0, <1>2 DEF TypeInv
<1> QED BY <1>2, <1>3, <1>4, <1>5, GrowsKeepIt

(***************************************************************************)
(* Privilege, load and attach                                              *)
(***************************************************************************)

LEMMA OutcomeFacts ==
  ASSUME NEW state, NEW reason
  PROVE  Outcome(state, reason).flows = {}
BY DEF Outcome

\* A step between two readings that leaves the kernel alone.
Quiet ==
  /\ stage # "reading" /\ stage' \in Stages
  /\ grant' \in BOOLEAN /\ watching' \in BOOLEAN
  /\ todo' \in Seq(Hooks) /\ hooks' \subseteq Hooks
  /\ outcome' = outcome \/ outcome'.flows = {}
  /\ UNCHANGED <<setup, now, answered, missed, strayed, asm, rejected, pass>>

LEMMA QuietKeeps ==
  ASSUME IInv, Quiet, UNCHANGED <<conns, ring, lost>>
  PROVE  TypeInv' /\ FlowsInv' /\ StageInv'
<1>1. FlowsInv'
  <2>1. UNCHANGED flows
    BY DEF Quiet, flows
  <2> QED BY <2>1, FlowsStutter DEF IInv, Quiet
<1>2. AssemblerType(asm)'
  BY DEF IInv, TypeInv, AssemblerType, Quiet
<1>3. TypeInv'
  BY <1>2 DEF IInv, TypeInv, Quiet
<1>4. StageInv'
  BY DEF IInv, StageInv, Quiet
<1> QED BY <1>1, <1>3, <1>4

\* What was attached goes while nothing is held: no flow is torn.
LEMMA DetachKeeps ==
  ASSUME IInv, Quiet, Detach
  PROVE  TypeInv' /\ FlowsInv' /\ StageInv' /\ hooks' = {}
<1>0. /\ DOMAIN asm.live = {} /\ conns \in Seq(ConnType) /\ Len(conns) \in Nat
      /\ asm' = asm /\ missed' = missed /\ strayed' = strayed /\ rejected' = rejected
      /\ ring' = <<>> /\ conns' = [c \in DOMAIN conns |-> [conns[c] EXCEPT !.tracked = FALSE]]
      /\ lost' = [frames |-> 0, calls |-> 0] /\ hooks' = {}
  BY DEF IInv, TypeInv, StageInv, Quiet, Detach
<1>1. \A c \in DOMAIN conns : /\ conns'[c] \in ConnType /\ conns'[c].key = conns[c].key
                              /\ conns'[c].st = conns[c].st
  <2> SUFFICES ASSUME NEW c \in DOMAIN conns
               PROVE  /\ conns'[c] \in ConnType /\ conns'[c].key = conns[c].key
                      /\ conns'[c].st = conns[c].st
    OBVIOUS
  <2>1. conns[c] \in ConnType
    BY <1>0
  <2>2. conns'[c] = [conns[c] EXCEPT !.tracked = FALSE]
    BY <1>0
  <2> QED BY <2>1, <2>2 DEF ConnType
<1>2. conns' \in Seq(ConnType) /\ DOMAIN conns' = DOMAIN conns
  <2>1. DOMAIN conns = 1 .. Len(conns) /\ DOMAIN conns' = DOMAIN conns
    BY <1>0
  <2>2. conns' \in [1 .. Len(conns) -> ConnType]
    BY <1>0, <1>1, <2>1
  <2> QED BY <1>0, <2>1, <2>2
<1>3. ring' \in Seq(Frames) /\ Len(ring') = 0
  BY <1>0
<1>4. AssemblerType(asm)'
  BY <1>0 DEF IInv, TypeInv, AssemblerType
<1>5. TypeInv'
  <2>1. lost' \in [frames : Nat, calls : Nat]
    BY <1>0
  <2> QED BY <1>0, <1>2, <1>3, <1>4, <2>1 DEF IInv, TypeInv, Quiet
<1>6. ASSUME NEW k, NEW members, OfOne(k, members)
      PROVE  OfOne(k, members)'
  <2>1. missed \subseteq DOMAIN conns /\ strayed \subseteq DOMAIN conns
    BY DEF IInv, TypeInv
  <2> QED BY <1>0, <1>1, <1>2, <1>6, <2>1 DEF OfOne, Clean
<1>7. ClosedInv' /\ OutcomeInv'
  BY <1>0, <1>6 DEF IInv, FlowsInv, ClosedInv, OutcomeInv, Quiet
<1>8. FramesInv' /\ OrderInv' /\ EndsInv'
  BY <1>3 DEF FramesInv, OrderInv, EndsInv
<1>9. ConnsInv'
  BY <1>1, <1>2 DEF IInv, FlowsInv, ConnsInv
<1>10. PendingInv'
  BY <1>0 DEF PendingInv
<1>11. StageInv'
  BY <1>0 DEF StageInv
<1> QED BY <1>0, <1>5, <1>7, <1>8, <1>9, <1>10, <1>11 DEF FlowsInv

LEMMA EvaluateKeeps ==
  ASSUME IInv, Evaluate
  PROVE  IInv'
<1>1. /\ stage = "idle" /\ stage' \in {"granted", "done"} /\ grant' \in BOOLEAN
      /\ outcome' = outcome \/ outcome'.flows = {}
      /\ UNCHANGED <<setup, now, held, todo, hooks, watching, kernel, asm, rejected, pass>>
  BY OutcomeFacts DEF Evaluate, Refuse, MayAttachTc, machine, IInv, TypeInv
<1>2. Quiet
  BY <1>1 DEF Quiet, Stages, IInv, TypeInv, kernel
<1>3. AttachInv'
  BY <1>1 DEF IInv, AttachInv
<1> QED BY <1>1, <1>2, <1>3, QuietKeeps DEF IInv, kernel

LEMMA LoseCapabilitiesKeeps ==
  ASSUME IInv, LoseCapabilities
  PROVE  IInv'
<1>1. /\ stage = "granted" /\ held' \subseteq held
      /\ UNCHANGED <<setup, now, stage, grant, todo, hooks, watching, kernel, asm, rejected,
                     pass, outcome>>
  BY DEF LoseCapabilities, attachment, reading
<1>2. Quiet
  BY <1>1 DEF Quiet, IInv, TypeInv, kernel
<1>3. AttachInv'
  BY <1>1 DEF IInv, AttachInv
<1> QED BY <1>1, <1>2, <1>3, QuietKeeps DEF IInv, kernel

\* A loader that can read its capabilities back refuses to load without them.
LEMMA NoLoadWithout ==
  ASSUME setup.capget, ~(LoadCaps \subseteq held)
  PROVE  LoadRefusal # None
BY SensorAssumption DEF LoadRefusal, Reasons

LEMMA PlanFacts ==
  /\ KprobePlan \in Seq(Hooks) /\ Append(KprobePlan, "tc") \in Seq(Hooks)
  /\ Plan \subseteq {Append(KprobePlan, "tc")[i] : i \in DOMAIN Append(KprobePlan, "tc")}
<1>1. KprobePlan \in Seq(Hooks) /\ "tc" \in Hooks
  BY DEF KprobePlan, Hooks
<1> DEFINE longer == Append(KprobePlan, "tc")
<1>2. /\ longer \in Seq(Hooks) /\ DOMAIN KprobePlan \subseteq DOMAIN longer
      /\ \A i \in DOMAIN KprobePlan : longer[i] = KprobePlan[i]
  BY <1>1
<1> HIDE DEF longer
<1> QED BY <1>1, <1>2 DEF Plan, longer

LEMMA AttachRefusedFacts ==
  ASSUME NEW reason, AttachRefused(reason), grant \in BOOLEAN
  PROVE  /\ watching' = FALSE /\ stage' \in {"granted", "done"} /\ grant' \in BOOLEAN
         /\ outcome' = outcome \/ outcome'.flows = {}
BY OutcomeFacts DEF AttachRefused, Refuse

LEMMA LoadKeeps ==
  ASSUME IInv, Load
  PROVE  IInv'
<1>0. /\ stage = "granted" /\ grant \in BOOLEAN /\ watching \in BOOLEAN
      /\ UNCHANGED <<setup, now, held, hooks, kernel, asm, rejected, pass>>
  BY DEF Load, machine, IInv, TypeInv
<1>1. CASE LoadRefusal # None
  <2>1. /\ watching' = FALSE /\ stage' \in {"granted", "done"} /\ grant' \in BOOLEAN
        /\ outcome' = outcome \/ outcome'.flows = {}
        /\ todo' = todo
    BY <1>0, <1>1, AttachRefusedFacts DEF Load
  <2>2. Quiet
    BY <1>0, <2>1 DEF Quiet, Stages, IInv, TypeInv, kernel
  <2>3. AttachInv'
    BY <1>0, <2>1 DEF IInv, AttachInv
  <2> QED BY <1>0, <2>2, <2>3, QuietKeeps DEF IInv, kernel
<1>2. CASE LoadRefusal = None
  <2>1. /\ stage' = "attaching" /\ UNCHANGED <<grant, watching, outcome>>
        /\ todo' = Append(KprobePlan, "tc") \/ todo' = KprobePlan
    BY <1>2 DEF Load
  <2>2. todo' \in Seq(Hooks) /\ Plan \subseteq {todo'[i] : i \in DOMAIN todo'}
    BY <2>1, PlanFacts DEF Plan
  <2>3. ~watching
    BY <1>2, NoLoadWithout DEF IInv, AttachInv
  <2>4. Quiet
    BY <1>0, <2>1, <2>2 DEF Quiet, Stages, IInv, TypeInv, kernel
  <2>5. AttachInv'
    BY <1>0, <2>1, <2>2, <2>3 DEF IInv, AttachInv
  <2> QED BY <1>0, <2>4, <2>5, QuietKeeps DEF IInv, kernel
<1> QED BY <1>1, <1>2

LEMMA AttachHookKeeps ==
  ASSUME IInv, AttachHook
  PROVE  IInv'
<1>0. /\ stage = "attaching" /\ todo # <<>> /\ todo \in Seq(Hooks) /\ hooks \subseteq Hooks
      /\ grant \in BOOLEAN
      /\ UNCHANGED <<setup, now, held, answered, missed, strayed, asm, rejected, pass>>
  BY DEF AttachHook, machine, IInv, TypeInv
<1>1. CASE /\ hooks' = hooks \cup {Head(todo)} /\ todo' = Tail(todo)
           /\ UNCHANGED <<stage, grant, watching, outcome, conns, ring, lost>>
  <2>1. /\ Head(todo) \in Hooks /\ todo' \in Seq(Hooks)
        /\ \A i \in DOMAIN todo : todo[i] = Head(todo) \/ \E j \in DOMAIN todo' : todo'[j] = todo[i]
    <3>1. /\ Head(todo) \in Hooks /\ todo' \in Seq(Hooks) /\ Head(todo) = todo[1]
          /\ DOMAIN todo = 1 .. Len(todo) /\ DOMAIN todo' = 1 .. Len(todo) - 1
          /\ Len(todo) \in Nat
      BY <1>0, <1>1
    <3>2. ASSUME NEW i \in DOMAIN todo, i # 1
          PROVE  i - 1 \in DOMAIN todo' /\ todo'[i - 1] = todo[i]
      BY <1>0, <1>1, <3>1, <3>2
    <3> QED BY <3>1, <3>2
  <2>2. Quiet
    BY <1>0, <1>1, <2>1 DEF Quiet, IInv, TypeInv
  <2>3. AttachInv'
    <3>1. Plan \subseteq hooks' \cup {todo'[i] : i \in DOMAIN todo'} /\ ~watching
      BY <1>0, <1>1, <2>1 DEF IInv, AttachInv
    <3> QED BY <1>0, <1>1, <3>1 DEF AttachInv
  <2> QED BY <1>1, <2>2, <2>3, QuietKeeps DEF IInv
<1>2. CASE Detach /\ todo' = <<>> /\ AttachRefused("kernel_unsupported")
  <2>1. /\ watching' = FALSE /\ stage' \in {"granted", "done"} /\ grant' \in BOOLEAN
        /\ outcome' = outcome \/ outcome'.flows = {}
        /\ hooks' = {}
    BY <1>0, <1>2, AttachRefusedFacts DEF Detach
  <2>2. Quiet
    <3>1. todo' \in Seq(Hooks)
      BY <1>2
    <3> QED BY <1>0, <2>1, <3>1 DEF Quiet, Stages
  <2>3. AttachInv'
    BY <1>0, <2>1 DEF IInv, AttachInv
  <2> QED BY <1>2, <2>2, <2>3, DetachKeeps DEF IInv
<1> QED BY <1>1, <1>2 DEF AttachHook

LEMMA DropCapabilitiesKeeps ==
  ASSUME IInv, DropCapabilities
  PROVE  IInv'
<1>0. /\ stage = "attaching" /\ todo = <<>> /\ todo \in Seq(Hooks) /\ hooks \subseteq Hooks
      /\ grant \in BOOLEAN /\ todo' = todo
      /\ UNCHANGED <<setup, now, answered, missed, strayed, asm, rejected, pass>>
  BY DEF DropCapabilities, IInv, TypeInv
<1>1. CASE /\ setup.capget /\ held' = Dropped /\ stage' = "observing" /\ watching' = TRUE
           /\ UNCHANGED <<grant, hooks, outcome, conns, ring, lost>>
  <2>1. Plan \subseteq hooks
    BY <1>0 DEF IInv, AttachInv
  <2>2. ~(LoadCaps \subseteq held')
    BY <1>1 DEF Dropped, LoadCaps
  <2>3. Quiet
    BY <1>0, <1>1 DEF Quiet, Stages
  <2>4. AttachInv'
    BY <1>0, <1>1, <2>1, <2>2 DEF IInv, AttachInv
  <2> QED BY <1>1, <2>3, <2>4, QuietKeeps DEF IInv
<1>2. CASE Detach /\ AttachRefused("kernel_unsupported")
  <2>1. /\ watching' = FALSE /\ stage' \in {"granted", "done"} /\ grant' \in BOOLEAN
        /\ outcome' = outcome \/ outcome'.flows = {}
        /\ hooks' = {}
    BY <1>0, <1>2, AttachRefusedFacts DEF Detach
  <2>2. Quiet
    BY <1>0, <2>1 DEF Quiet, Stages
  <2>3. AttachInv'
    BY <1>0, <2>1 DEF IInv, AttachInv
  <2> QED BY <1>2, <2>2, <2>3, DetachKeeps DEF IInv
<1> QED BY <1>1, <1>2 DEF DropCapabilities

LEMMA ObserveAgainKeeps ==
  ASSUME IInv, ObserveAgain
  PROVE  IInv'
<1>1. /\ stage = "drained" /\ stage' = "idle"
      /\ UNCHANGED <<setup, now, held, grant, todo, hooks, watching, kernel, asm, rejected,
                     pass, outcome>>
  BY DEF ObserveAgain, machine, reading
<1>2. Quiet
  BY <1>1 DEF Quiet, Stages, IInv, TypeInv, kernel
<1>3. AttachInv'
  BY <1>1 DEF IInv, AttachInv
<1> QED BY <1>1, <1>2, <1>3, QuietKeeps DEF IInv, kernel

(***************************************************************************)
(* Poll, drain and seal                                                    *)
(***************************************************************************)

LEMMA CountedFacts ==
  ASSUME NEW cause, NEW count
  PROVE  /\ DOMAIN rejected \subseteq DOMAIN Counted(cause, count)
         /\ count # 0 => cause \in DOMAIN Counted(cause, count)
BY DEF Counted, With

LEMMA ReadCountersKeeps ==
  ASSUME IInv, ReadCounters
  PROVE  IInv'
<1>1. /\ stage' = "reading" /\ pass' = pass + 1 /\ outcome'.flows = {}
      /\ UNCHANGED <<setup, now, held, grant, todo, hooks, watching, kernel>>
  BY OutcomeFacts DEF ReadCounters, machine
<1>2. /\ AssemblerType(asm') /\ asm'.live = asm.live /\ asm'.closed = asm.closed
      /\ DOMAIN rejected \subseteq DOMAIN rejected'
  BY DroppedFacts, CountedFacts DEF ReadCounters, IInv, TypeInv
<1>3. FlowsInv'
  <2>1. UNCHANGED flows
    BY <1>1, <1>2 DEF flows, kernel
  <2> QED BY <1>1, <1>2, <2>1, FlowsStutter DEF IInv
<1>4. TypeInv'
  <2>1. AssemblerType(asm)'
    BY <1>2 DEF AssemblerType
  <2> QED BY <1>1, <2>1 DEF IInv, TypeInv, Stages, kernel
<1>5. StageInv' /\ AttachInv'
  <2>1. pass' # 0
    BY <1>1 DEF IInv, TypeInv
  <2> QED BY <1>1, <2>1 DEF IInv, StageInv, AttachInv
<1> QED BY <1>3, <1>4, <1>5 DEF IInv

\* The head of the ring is taken.
Takes ==
  /\ ring # <<>> /\ ring' = Tail(ring)
  /\ UNCHANGED <<conns, missed, strayed>> /\ DOMAIN rejected \subseteq DOMAIN rejected'

LEMMA TakesRing ==
  ASSUME TypeInv, Takes
  PROVE  /\ Len(ring) \in Nat /\ Len(ring') = Len(ring) - 1 /\ Head(ring) = ring[1]
         /\ ring' \in Seq(Frames) /\ 1 \in 1 .. Len(ring) /\ ring[1] \in Frames
         /\ \A i \in 1 .. Len(ring') : i + 1 \in 1 .. Len(ring) /\ ring'[i] = ring[i + 1]
BY DEF TypeInv, Takes

LEMMA TakesClean ==
  ASSUME Takes, NEW k, CleanThen(k)
  PROVE  Clean(k)
BY DEF Takes, Clean, CleanThen

LEMMA TakesLasts ==
  ASSUME TypeInv, Takes, NEW c, NEW n \in Nat \ {0}, Lasts(c, n + 1)
  PROVE  LastsThen(c, n)
<1>1. CASE conns[c].st = "open"
  BY <1>1 DEF LastsThen, Takes
<1>2. CASE Ends(c, n + 1)
  <2>1. PICK j \in 1 .. Len(ring) : j >= n + 1 /\ ring[j].kind = "close" /\ ring[j].body.conn = c
    BY <1>2 DEF Ends
  <2>2. /\ Len(ring) \in Nat /\ Len(ring') = Len(ring) - 1
        /\ \A i \in 1 .. Len(ring') : ring'[i] = ring[i + 1]
    BY TakesRing
  <2>3. j - 1 \in 1 .. Len(ring') /\ j - 1 + 1 = j /\ j - 1 >= n
    BY <2>1, <2>2
  <2>4. ring'[j - 1] = ring[j]
    BY <2>2, <2>3
  <2> QED BY <2>1, <2>3, <2>4 DEF LastsThen
<1> QED BY <1>1, <1>2 DEF Lasts

\* A connection whose end is not at the head has it behind the head.
LEMMA PastHead ==
  ASSUME NEW c, Lasts(c, 1), ~(ring[1].kind = "close" /\ ring[1].body.conn = c)
  PROVE  Lasts(c, 1 + 1)
<1>1. CASE conns[c].st = "open"
  BY <1>1 DEF Lasts
<1>2. CASE Ends(c, 1)
  <2>1. PICK j \in 1 .. Len(ring) : ring[j].kind = "close" /\ ring[j].body.conn = c
    BY <1>2 DEF Ends
  <2>2. j # 1
    BY <2>1
  <2>3. j >= 1 + 1
    BY <2>2
  <2> QED BY <2>1, <2>3 DEF Lasts, Ends
<1> QED BY <1>1, <1>2 DEF Lasts

LEMMA TakesFrames ==
  ASSUME TypeInv, FlowsInv, Takes
  PROVE  FramesInv' /\ ConnsInv' /\ OrderInv' /\ EndsInv'
<1>0. /\ Len(ring) \in Nat /\ Len(ring') = Len(ring) - 1
      /\ \A i \in 1 .. Len(ring') : i + 1 \in 1 .. Len(ring) /\ ring'[i] = ring[i + 1]
      /\ conns' = conns
  BY TakesRing DEF Takes
<1>1. FramesInv'
  <2>1. ASSUME NEW i \in 1 .. Len(ring'), About(ring'[i])
        PROVE  /\ ring'[i].body.conn \in DOMAIN conns
               /\ conns[ring'[i].body.conn].key = ring'[i].key
    <3>1. i + 1 \in 1 .. Len(ring) /\ ring'[i] = ring[i + 1]
      BY <1>0
    <3> QED BY <2>1, <3>1 DEF FlowsInv, FramesInv
  <2> QED BY <1>0, <2>1 DEF FramesInv, About
<1>2. ConnsInv'
  BY <1>0 DEF FlowsInv, ConnsInv
<1>3. OrderInv'
  <2> SUFFICES ASSUME NEW i \in 1 .. Len(ring'), NEW j \in 1 .. Len(ring'), i < j,
                      About(ring'[i]), About(ring'[j]), ring'[i].key = ring'[j].key,
                      CleanThen(ring'[i].key)
               PROVE  ring'[i].body.conn <= ring'[j].body.conn
    BY DEF OrderInv, About, Clean, CleanThen
  <2>1. /\ i + 1 \in 1 .. Len(ring) /\ j + 1 \in 1 .. Len(ring) /\ i + 1 < j + 1
        /\ ring'[i] = ring[i + 1] /\ ring'[j] = ring[j + 1]
    BY <1>0
  <2>2. Clean(ring[i + 1].key)
    BY <2>1, TakesClean
  <2> QED BY <2>1, <2>2 DEF FlowsInv, OrderInv
<1>4. EndsInv'
  <2> SUFFICES ASSUME NEW i \in 1 .. Len(ring'), Opens(ring'[i]), CleanThen(ring'[i].key)
               PROVE  LastsThen(ring'[i].body.conn, i + 1)
    BY DEF EndsInv, Opens, About, Clean, CleanThen, Lasts, Ends, LastsThen
  <2>1. i + 1 \in 1 .. Len(ring) /\ ring'[i] = ring[i + 1] /\ i + 1 \in Nat \ {0}
    BY <1>0
  <2>2. Clean(ring[i + 1].key) /\ Opens(ring[i + 1])
    BY <2>1, TakesClean
  <2>3. Lasts(ring[i + 1].body.conn, i + 1 + 1)
    BY <2>1, <2>2 DEF FlowsInv, EndsInv
  <2>4. LastsThen(ring[i + 1].body.conn, i + 1)
    BY <2>1, <2>3, TakesLasts
  <2> QED BY <2>1, <2>4
<1> QED BY <1>1, <1>2, <1>3, <1>4

\* Whose flow is held for the key of the head, the head is about.
LEMMA HeadIsOurs ==
  ASSUME TypeInv, FlowsInv, Takes, NEW c \in DOMAIN conns, About(ring[1]),
         Clean(ring[1].key), OwnedBy(ring[1].key, c)
  PROVE  ring[1].body.conn = c
<1> DEFINE d == ring[1].body.conn
<1>1. d \in DOMAIN conns /\ conns[d].key = ring[1].key /\ 1 \in 1 .. Len(ring)
  BY TakesRing DEF FlowsInv, FramesInv
<1>2. c \in Nat /\ d \in Nat /\ c <= d
  BY <1>1, ConnFacts DEF OwnedBy
<1>3. CASE c < d
  <2>1. conns[c].st # "open"
    BY <1>1, <1>3 DEF FlowsInv, ConnsInv, OwnedBy, Over
  <2>2. PICK j \in 1 .. Len(ring) : ring[j].kind = "close" /\ ring[j].body.conn = c
    BY <2>1 DEF OwnedBy, Lasts, Ends
  <2>3. About(ring[j]) /\ ring[j].key = ring[1].key
    BY <2>2 DEF About, FlowsInv, FramesInv, OwnedBy
  <2>4. j # 1
    BY <1>2, <1>3, <2>2
  <2>5. 1 < j
    BY <2>4
  <2>6. d <= c
    BY <1>1, <2>2, <2>3, <2>5 DEF FlowsInv, OrderInv
  <2> QED BY <1>2, <1>3, <2>6
<1> QED BY <1>2, <1>3

\* What a frame does to the assembler: every flow stays, but that a frame about a
\* connection joins its own, or closes it.
LEMMA IngestEffect ==
  ASSUME AssemblerType(asm), NEW f \in Frames, ~HasFailed(KernelEventFrom(f))
  PROVE  LET b == Ingest(asm, KernelEventFrom(f))
         IN  /\ AssemblerType(b)
             /\ \A k \in DOMAIN b.live :
                  \/ /\ k \in DOMAIN asm.live /\ b.live[k] = asm.live[k]
                     /\ k # f.key \/ ~About(f)
                  \/ /\ k = f.key /\ About(f) /\ f.kind # "close"
                     /\ \/ /\ k \in DOMAIN asm.live
                           /\ Members(b.live[k])
                                \subseteq Members(asm.live[k]) \cup {f.body.conn}
                        \/ /\ k \notin DOMAIN asm.live /\ Opens(f)
                           /\ Members(b.live[k]) \subseteq {None, f.body.conn}
             /\ \A i \in DOMAIN b.closed :
                  \/ i \in DOMAIN asm.closed /\ b.closed[i] = asm.closed[i]
                  \/ /\ b.closed[i].key \in DOMAIN asm.live
                     /\ Members(b.closed[i].flow) = Members(asm.live[b.closed[i].key])
<1> DEFINE e == KernelEventFrom(f)
           a == Noted(asm, e)
           b == Ingest(asm, e)
<1>0. /\ e.key = f.key /\ e.conn = f.body.conn /\ e.at = f.body.at
      /\ About(f) => /\ e.kind = IF f.kind = "payload" THEN "handshake" ELSE f.kind
                     /\ e.kind = "connect" => e.facts \in Processes
                     /\ e.kind = "handshake" => e.facts \in HelloFacts
      /\ ~About(f) => e.kind = "answers"
  BY EventFacts
<1>1. /\ f.key \in UsedKeys /\ f.body.at \in Nat
      /\ About(f) => f.body.conn \in Nat
      /\ f.kind \in {"connect", "volume", "close", "payload"}
  BY FrameFacts
<1>2. AssemblerType(a) /\ a.live = asm.live /\ a.closed = asm.closed
  BY NotedFacts DEF AssemblerType
<1>3. /\ e.kind = "connect" => b = OnConnect(a, e)
      /\ e.kind = "volume" => b = OnVolume(a, e)
      /\ e.kind = "close" => b = OnClose(a, e)
      /\ e.kind = "handshake" => b = OnHandshake(a, e)
      /\ e.kind = "answers" => b = OnAnswers(a, e)
  BY IngestIs
<1> HIDE DEF e, a, b
<1>4. CASE ~About(f)
  <2>1. /\ AssemblerType(OnAnswers(a, e)) /\ OnAnswers(a, e).live = a.live
        /\ OnAnswers(a, e).closed = a.closed
    BY <1>2, AnswersFacts
  <2>2. AssemblerType(b) /\ b.live = a.live /\ b.closed = a.closed
    BY <1>0, <1>3, <1>4, <2>1
  <2> QED BY <1>2, <1>4, <2>2 DEF b, e
<1>5. CASE About(f) /\ f.kind = "connect"
  <2>1. e.kind = "connect" /\ Opens(f)
    BY <1>0, <1>5 DEF Opens
  <2>2. /\ AssemblerType(b) /\ b.closed = a.closed
        /\ DOMAIN b.live = DOMAIN a.live \cup {e.key}
        /\ \A k \in DOMAIN a.live : k # e.key => b.live[k] = a.live[k]
        /\ b.live[e.key].conn = e.conn
        /\ b.live[e.key].from = PendingAt(a, e).from
    <3>1. e.at \in Nat /\ e.key \in UsedKeys /\ e.conn \in Nat /\ e.facts \in Processes
      BY <1>0, <1>1, <1>5, <2>1
    <3>2. /\ AssemblerType(OnConnect(a, e)) /\ OnConnect(a, e).closed = a.closed
          /\ DOMAIN OnConnect(a, e).live = DOMAIN a.live \cup {e.key}
          /\ \A k \in DOMAIN a.live : k # e.key => OnConnect(a, e).live[k] = a.live[k]
          /\ OnConnect(a, e).live[e.key].conn = e.conn
          /\ OnConnect(a, e).live[e.key].from = PendingAt(a, e).from
      BY <1>2, <3>1, ConnectFacts
    <3> QED BY <1>3, <2>1, <3>2
  <2>3. /\ e.key \in DOMAIN a.live => PendingAt(a, e) = a.live[e.key]
        /\ e.key \notin DOMAIN a.live => PendingAt(a, e).from = {}
    <3>1. e.at \in Nat
      BY <1>0, <1>1
    <3> QED BY <1>2, <3>1, PendingAtFacts
  <2> QED BY <1>0, <1>2, <1>5, <2>1, <2>2, <2>3 DEF b, e, Members
<1>6. CASE About(f) /\ f.kind = "payload"
  <2>1. e.kind = "handshake" /\ Opens(f)
    BY <1>0, <1>6 DEF Opens
  <2>2. /\ AssemblerType(b) /\ b.closed = a.closed
        /\ DOMAIN b.live = DOMAIN a.live \cup {e.key}
        /\ \A k \in DOMAIN a.live : k # e.key => b.live[k] = a.live[k]
        /\ b.live[e.key].conn = PendingAt(a, e).conn
        /\ b.live[e.key].from = PendingAt(a, e).from \cup {e.conn}
    <3>1. e.at \in Nat /\ e.key \in UsedKeys /\ e.conn \in Nat /\ e.facts \in HelloFacts
      BY <1>0, <1>1, <1>6, <2>1
    <3>2. /\ AssemblerType(OnHandshake(a, e)) /\ OnHandshake(a, e).closed = a.closed
          /\ DOMAIN OnHandshake(a, e).live = DOMAIN a.live \cup {e.key}
          /\ \A k \in DOMAIN a.live : k # e.key => OnHandshake(a, e).live[k] = a.live[k]
          /\ OnHandshake(a, e).live[e.key].conn = PendingAt(a, e).conn
          /\ OnHandshake(a, e).live[e.key].from = PendingAt(a, e).from \cup {e.conn}
      BY <1>2, <3>1, HandshakeFacts
    <3> QED BY <1>3, <2>1, <3>2
  <2>3. /\ e.key \in DOMAIN a.live => PendingAt(a, e) = a.live[e.key]
        /\ e.key \notin DOMAIN a.live => /\ PendingAt(a, e).from = {}
                                         /\ PendingAt(a, e).conn = None
    <3>1. e.at \in Nat
      BY <1>0, <1>1
    <3> QED BY <1>2, <3>1, PendingAtFacts
  <2> QED BY <1>0, <1>2, <1>6, <2>1, <2>2, <2>3 DEF b, e, Members
<1>7. CASE About(f) /\ f.kind = "volume" /\ e.key \in DOMAIN a.live
  <2>1. e.kind = "volume"
    BY <1>0, <1>7
  <2>2. /\ AssemblerType(b) /\ b.closed = a.closed
        /\ DOMAIN b.live = DOMAIN a.live
        /\ \A k \in DOMAIN a.live : k # e.key => b.live[k] = a.live[k]
        /\ b.live[e.key].conn = a.live[e.key].conn
        /\ b.live[e.key].from = a.live[e.key].from \cup {e.conn}
    <3>1. e.at \in Nat /\ e.key \in UsedKeys /\ e.conn \in Nat
      BY <1>0, <1>1, <1>7, <2>1
    <3>2. /\ AssemblerType(OnVolume(a, e)) /\ OnVolume(a, e).closed = a.closed
          /\ DOMAIN OnVolume(a, e).live = DOMAIN a.live
          /\ \A k \in DOMAIN a.live : k # e.key => OnVolume(a, e).live[k] = a.live[k]
          /\ OnVolume(a, e).live[e.key].conn = a.live[e.key].conn
          /\ OnVolume(a, e).live[e.key].from = a.live[e.key].from \cup {e.conn}
      BY <1>2, <1>7, <3>1, VolumeFacts
    <3> QED BY <1>3, <2>1, <3>2
  <2> QED BY <1>0, <1>2, <1>7, <2>1, <2>2 DEF b, e, Members
<1>8. CASE About(f) /\ f.kind \in {"volume", "close"} /\ e.key \notin DOMAIN a.live
  <2>1. b = OnVolume(a, e)
    BY <1>0, <1>2, <1>3, <1>8, UnlinkedFacts
  <2>2. AssemblerType(b) /\ b.live = a.live /\ b.closed = a.closed
    BY <1>2, <1>8, <2>1, UnlinkedFacts
  <2> QED BY <1>0, <1>2, <1>8, <2>2 DEF b, e
<1>9. CASE About(f) /\ f.kind = "close" /\ e.key \in DOMAIN a.live
  <2>1. e.kind = "close"
    BY <1>0, <1>9
  <2> DEFINE n == Len(a.closed) + 1
  <2>2. /\ AssemblerType(b) /\ Len(b.closed) = n
        /\ DOMAIN b.live = DOMAIN a.live \ {e.key}
        /\ \A k \in DOMAIN b.live : b.live[k] = a.live[k]
        /\ \A i \in DOMAIN a.closed : b.closed[i] = a.closed[i]
        /\ b.closed[n].key = e.key
        /\ Members(b.closed[n].flow) = Members(a.live[e.key])
    <3>1. /\ AssemblerType(OnClose(a, e)) /\ Len(OnClose(a, e).closed) = n
          /\ DOMAIN OnClose(a, e).live = DOMAIN a.live \ {e.key}
          /\ \A k \in DOMAIN OnClose(a, e).live : OnClose(a, e).live[k] = a.live[k]
          /\ \A i \in DOMAIN a.closed : OnClose(a, e).closed[i] = a.closed[i]
          /\ OnClose(a, e).closed[n].key = e.key
          /\ Members(OnClose(a, e).closed[n].flow) = Members(a.live[e.key])
      BY ONLY <1>2, <1>9, CloseFacts
    <3> HIDE DEF n
    <3> QED BY <1>3, <2>1, <3>1
  <2>3. \A i \in DOMAIN b.closed : i \in DOMAIN a.closed \/ i = n
    BY <1>2, <2>2 DEF AssemblerType
  <2> HIDE DEF n
  <2> QED BY <1>0, <1>2, <1>9, <2>2, <2>3 DEF b, e
<1> QED BY <1>1, <1>4, <1>5, <1>6, <1>7, <1>8, <1>9 DEF b, e

\* c owns what is held for k after the head was taken.
LEMMA OwnerAfter ==
  ASSUME TypeInv, Takes, NEW k, NEW c, conns[c].key = k, LastsThen(c, 1),
         Members(asm'.live[k]) \subseteq {c, None},
         \A i \in 1 .. Len(ring) :
           i # 1 /\ About(ring[i]) /\ ring[i].key = k => c <= ring[i].body.conn
  PROVE  OwnedBy(k, c)'
<1>1. ASSUME NEW i \in 1 .. Len(ring'), About(ring'[i]), ring'[i].key = k
      PROVE  c <= ring'[i].body.conn
  <2>1. i + 1 \in 1 .. Len(ring) /\ ring'[i] = ring[i + 1] /\ i + 1 # 1
    BY TakesRing
  <2> QED BY <1>1, <2>1
<1>2. conns' = conns
  BY DEF Takes
<1> QED BY <1>1, <1>2 DEF OwnedBy, About, Lasts, Ends, LastsThen

\* A flow that was left alone keeps its owner.
LEMMA OwnerStays ==
  ASSUME TypeInv, FlowsInv, Takes, NEW k, NEW c \in DOMAIN conns, OwnedBy(k, c),
         asm'.live[k] = asm.live[k],
         ring[1].kind # "close" \/ ring[1].key # k
  PROVE  OwnedBy(k, c)'
<1>1. ~(ring[1].kind = "close" /\ ring[1].body.conn = c)
  <2>1. SUFFICES ASSUME ring[1].kind = "close", ring[1].body.conn = c
                 PROVE  FALSE
    OBVIOUS
  <2>2. conns[c].key = ring[1].key
    BY <2>1, TakesRing DEF FlowsInv, FramesInv, About
  <2> QED BY <2>1, <2>2 DEF OwnedBy
<1>2. LastsThen(c, 1)
  BY <1>1, PastHead, TakesLasts DEF OwnedBy
<1> QED BY <1>2, OwnerAfter DEF OwnedBy

LEMMA TakePending ==
  ASSUME TypeInv, FlowsInv, Takes, ~HasFailed(KernelEventFrom(ring[1])),
         asm' = Ingest(asm, KernelEventFrom(ring[1]))
  PROVE  PendingInv'
<1> DEFINE f == ring[1]
<1>0. /\ f \in Frames /\ 1 \in 1 .. Len(ring) /\ AssemblerType(asm)
      /\ conns' = conns
  BY TakesRing DEF TypeInv, Takes
<1>1. \A k \in DOMAIN asm'.live :
        \/ /\ k \in DOMAIN asm.live /\ asm'.live[k] = asm.live[k]
           /\ k # f.key \/ ~About(f)
        \/ /\ k = f.key /\ About(f) /\ f.kind # "close"
           /\ \/ /\ k \in DOMAIN asm.live
                 /\ Members(asm'.live[k]) \subseteq Members(asm.live[k]) \cup {f.body.conn}
              \/ /\ k \notin DOMAIN asm.live /\ Opens(f)
                 /\ Members(asm'.live[k]) \subseteq {None, f.body.conn}
  BY <1>0, IngestEffect
<1> SUFFICES ASSUME NEW k \in DOMAIN asm'.live, CleanThen(k)
             PROVE  \E c \in DOMAIN conns : OwnedBy(k, c)'
  BY <1>0 DEF PendingInv, Clean, CleanThen
<1>2. Clean(k)
  BY TakesClean
<1>3. CASE /\ k \in DOMAIN asm.live /\ asm'.live[k] = asm.live[k]
           /\ k # f.key \/ ~About(f)
  <2>1. PICK c \in DOMAIN conns : OwnedBy(k, c)
    BY <1>2, <1>3 DEF FlowsInv, PendingInv
  <2>2. f.kind # "close" \/ f.key # k
    BY <1>3 DEF About
  <2> QED BY <1>3, <2>1, <2>2, OwnerStays
<1>4. CASE /\ k = f.key /\ About(f) /\ f.kind # "close" /\ k \in DOMAIN asm.live
           /\ Members(asm'.live[k]) \subseteq Members(asm.live[k]) \cup {f.body.conn}
  <2>1. PICK c \in DOMAIN conns : OwnedBy(k, c)
    BY <1>2, <1>4 DEF FlowsInv, PendingInv
  <2>2. f.body.conn = c
    BY <1>2, <1>4, <2>1, HeadIsOurs
  <2>3. LastsThen(c, 1)
    BY <1>4, <2>1, PastHead, TakesLasts DEF OwnedBy
  <2>4. Members(asm'.live[k]) \subseteq {c, None}
    BY <1>4, <2>1, <2>2 DEF OwnedBy
  <2> QED BY <2>1, <2>3, <2>4, OwnerAfter DEF OwnedBy
<1>5. CASE /\ k = f.key /\ About(f) /\ Opens(f)
           /\ Members(asm'.live[k]) \subseteq {None, f.body.conn}
  <2> DEFINE c == f.body.conn
  <2>1. c \in DOMAIN conns /\ conns[c].key = k
    BY <1>0, <1>5 DEF FlowsInv, FramesInv
  <2>2. Lasts(c, 1 + 1)
    BY <1>0, <1>2, <1>5 DEF FlowsInv, EndsInv
  <2>3. LastsThen(c, 1)
    BY <2>2, TakesLasts
  <2>4. ASSUME NEW i \in 1 .. Len(ring), i # 1, About(ring[i]), ring[i].key = k
        PROVE  c <= ring[i].body.conn
    <3>1. 1 < i
      BY <2>4
    <3> QED BY <1>0, <1>2, <1>5, <2>4, <3>1 DEF FlowsInv, OrderInv
  <2>5. Members(asm'.live[k]) \subseteq {c, None}
    BY <1>5
  <2> HIDE DEF c
  <2> QED BY <2>1, <2>3, <2>4, <2>5, OwnerAfter
<1> QED BY <1>1, <1>3, <1>4, <1>5

LEMMA TakeFrameKeeps ==
  ASSUME IInv, TakeFrame
  PROVE  IInv'
<1> DEFINE f == ring[1]
           e == KernelEventFrom(f)
<1>0. TypeInv /\ FlowsInv /\ AssemblerType(asm)
  BY DEF IInv, TypeInv
<1>1. /\ stage = "reading" /\ ring # <<>> /\ ring' = Tail(ring) /\ Head(ring) = f
      /\ UNCHANGED <<setup, now, held, stage, grant, todo, hooks, watching, conns, lost,
                     answered, missed, strayed, pass, outcome>>
  BY <1>0 DEF TakeFrame, machine, attachment, TypeInv
<1>2. \/ /\ HasFailed(e) /\ rejected' = Counted(e.failed, 1) /\ asm' = asm
      \/ /\ ~HasFailed(e) /\ asm' = Ingest(asm, e) /\ rejected' = rejected
  BY <1>1 DEF TakeFrame
<1>3. Takes
  BY <1>1, <1>2, CountedFacts DEF Takes
<1>4. f \in Frames /\ FramesInv' /\ ConnsInv' /\ OrderInv' /\ EndsInv'
  BY <1>0, <1>3, TakesRing, TakesFrames
<1>5. ASSUME NEW k, NEW members, OfOne(k, members)
      PROVE  OfOne(k, members)'
  BY <1>1, <1>3, <1>5 DEF OfOne, Takes, Clean
<1>6. OutcomeInv'
  BY <1>0, <1>1, <1>5 DEF FlowsInv, OutcomeInv
<1>7. ASSUME HasFailed(e), rejected' = Counted(e.failed, 1), asm' = asm
      PROVE  AssemblerType(asm)' /\ ClosedInv' /\ PendingInv'
  <2>1. AssemblerType(asm)'
    BY <1>0, <1>7 DEF AssemblerType
  <2>2. ClosedInv'
    BY <1>0, <1>5, <1>7 DEF FlowsInv, ClosedInv
  <2>3. e.failed \in DOMAIN rejected'
    BY <1>7, CountedFacts
  <2>4. PendingInv'
    <3> SUFFICES ASSUME NEW k \in DOMAIN asm.live, CleanThen(k)
                 PROVE  \E c \in DOMAIN conns : OwnedBy(k, c)'
      BY <1>1, <1>7 DEF PendingInv, Clean, CleanThen
    <3>1. f.kind = "payload"
      BY <1>4, <1>7, <2>3, RefusedFrame DEF CleanThen
    <3>2. PICK c \in DOMAIN conns : OwnedBy(k, c)
      BY <1>0, <1>3, TakesClean DEF FlowsInv, PendingInv
    <3> QED BY <1>0, <1>3, <1>7, <3>1, <3>2, OwnerStays
  <2> QED BY <2>1, <2>2, <2>4
<1>8. ASSUME ~HasFailed(e), asm' = Ingest(asm, e)
      PROVE  AssemblerType(asm)' /\ ClosedInv' /\ PendingInv'
  <2>1. /\ AssemblerType(asm')
        /\ \A i \in DOMAIN asm'.closed :
             \/ i \in DOMAIN asm.closed /\ asm'.closed[i] = asm.closed[i]
             \/ /\ asm'.closed[i].key \in DOMAIN asm.live
                /\ Members(asm'.closed[i].flow) = Members(asm.live[asm'.closed[i].key])
    BY <1>0, <1>4, <1>8, IngestEffect
  <2>2. AssemblerType(asm)'
    BY <2>1 DEF AssemblerType
  <2>3. \A k \in DOMAIN asm.live : OfOne(k, Members(asm.live[k]))
    BY <1>0 DEF FlowsInv, PendingInv, OfOne, OwnedBy
  <2>4. \A i \in DOMAIN asm'.closed : OfOne(asm'.closed[i].key, Members(asm'.closed[i].flow))
    BY <1>0, <2>1, <2>3 DEF FlowsInv, ClosedInv
  <2>5. ClosedInv'
    <3>1. \A k : CleanThen(k) => Clean(k)
      BY <1>3, TakesClean
    <3> QED BY <1>1, <2>4, <3>1 DEF ClosedInv, OfOne, Members, Clean, CleanThen
  <2>6. PendingInv'
    BY <1>0, <1>3, <1>8, TakePending
  <2> QED BY <2>2, <2>5, <2>6
<1>9. AssemblerType(asm)' /\ ClosedInv' /\ PendingInv'
  BY <1>2, <1>7, <1>8
<1>10. TypeInv'
  <2>1. ring' \in Seq(Frames)
    BY <1>0, <1>3, TakesRing
  <2> QED BY <1>0, <1>1, <1>9, <2>1 DEF TypeInv
<1>11. StageInv' /\ AttachInv'
  BY <1>1 DEF IInv, StageInv, AttachInv
<1> QED BY <1>4, <1>6, <1>9, <1>10, <1>11 DEF IInv, FlowsInv

\* A record has the key and the members of a flow that was closed or is held.
LEMMA SealedFacts ==
  ASSUME NEW o \in Sealed(asm)
  PROVE  /\ {"key", "conn", "from"} \subseteq DOMAIN o
         /\ \/ \E i \in DOMAIN asm.closed : /\ o.key = asm.closed[i].key
                                            /\ Members(o) = Members(asm.closed[i].flow)
            \/ \E k \in DOMAIN asm.live : o.key = k /\ Members(o) = Members(asm.live[k])
<1>1. CASE \E i \in DOMAIN asm.closed :
             o = Finalise(asm, asm.closed[i].key, i, asm.closed[i].flow)
  BY <1>1, FinaliseFacts DEF Members
<1>2. CASE \E k \in DOMAIN asm.live : o = Finalise(asm, k, 0, asm.live[k])
  BY <1>2, FinaliseFacts DEF Members
<1> QED BY <1>1, <1>2 DEF Sealed

LEMMA AdmittedFacts ==
  ASSUME NEW o, {"key", "conn", "from"} \subseteq DOMAIN o, NEW flow,
         flow = FromObservation(IF "tc" \in hooks THEN o
                                ELSE [o EXCEPT !.admits = @ \cup {"tc_unavailable"}])
  PROVE  flow.key = o.key /\ Members(flow) = Members(o)
<1> DEFINE p == IF "tc" \in hooks THEN o ELSE [o EXCEPT !.admits = @ \cup {"tc_unavailable"}]
<1>1. /\ {"key", "conn", "from"} \subseteq DOMAIN p
      /\ p.key = o.key /\ p.conn = o.conn /\ p.from = o.from
  OBVIOUS
<1>2. flow = FromObservation(p)
  OBVIOUS
<1> HIDE DEF p
<1> QED BY <1>1, <1>2, RecordFacts DEF Members

LEMMA SealKeeps ==
  ASSUME IInv, Seal
  PROVE  IInv'
<1>0. TypeInv /\ FlowsInv /\ AssemblerType(asm)
  BY DEF IInv, TypeInv
<1>1. /\ stage = "reading" /\ stage' = "drained" /\ asm' = AfterSeal(asm)
      /\ UNCHANGED <<setup, now, held, grant, todo, hooks, watching, kernel, rejected, pass>>
  BY DEF Seal, machine
<1> DEFINE admitted == {FromObservation(
                          IF "tc" \in hooks THEN o
                          ELSE [o EXCEPT !.admits = @ \cup {"tc_unavailable"}]) :
                        o \in Sealed(asm)}
<1>2. outcome'.flows \subseteq admitted
  BY DEF Seal, Outcome
<1>3. ASSUME NEW flow \in outcome'.flows
      PROVE  OfOne(flow.key, Members(flow))
  <2>1. PICK o \in Sealed(asm) :
          flow = FromObservation(IF "tc" \in hooks THEN o
                                 ELSE [o EXCEPT !.admits = @ \cup {"tc_unavailable"}])
    BY <1>2, <1>3
  <2>2. flow.key = o.key /\ Members(flow) = Members(o)
    BY <2>1, SealedFacts, AdmittedFacts
  <2>3. CASE \E i \in DOMAIN asm.closed : /\ o.key = asm.closed[i].key
                                          /\ Members(o) = Members(asm.closed[i].flow)
    BY <1>0, <2>2, <2>3 DEF FlowsInv, ClosedInv
  <2>4. CASE \E k \in DOMAIN asm.live : o.key = k /\ Members(o) = Members(asm.live[k])
    <3>1. \A k \in DOMAIN asm.live : OfOne(k, Members(asm.live[k]))
      BY <1>0 DEF FlowsInv, PendingInv, OfOne, OwnedBy
    <3> QED BY <2>2, <2>4, <3>1
  <2> QED BY <2>3, <2>4, SealedFacts
<1>4. /\ AssemblerType(asm') /\ DOMAIN asm'.live = {} /\ asm'.closed = <<>>
  BY <1>0, <1>1, AfterSealFacts
<1>5. FramesInv' /\ ConnsInv' /\ OrderInv' /\ EndsInv'
  <2>1. UNCHANGED <<conns, ring, missed, strayed, rejected>>
    BY <1>1 DEF kernel
  <2> QED BY <1>0, <2>1
          DEF FlowsInv, FramesInv, ConnsInv, OrderInv, EndsInv, Clean, Lasts, Ends
<1>6. PendingInv' /\ ClosedInv' /\ StageInv'
  BY <1>4 DEF PendingInv, ClosedInv, StageInv
<1>7. OutcomeInv'
  BY <1>1, <1>3 DEF OutcomeInv, OfOne, Members, Clean, kernel
<1>8. TypeInv'
  <2>1. AssemblerType(asm)'
    BY <1>4 DEF AssemblerType
  <2> QED BY <1>0, <1>1, <2>1 DEF TypeInv, Stages, kernel
<1>9. AttachInv'
  BY <1>1 DEF IInv, AttachInv
<1> QED BY <1>5, <1>6, <1>7, <1>8, <1>9 DEF IInv, FlowsInv

(***************************************************************************)
(* The theorems                                                            *)
(***************************************************************************)

LEMMA InitKeeps ==
  ASSUME Init
  PROVE  IInv
<1>1. /\ setup \in Setups /\ now = 0 /\ stage = "idle" /\ grant = FALSE /\ todo = <<>>
      /\ hooks = {} /\ watching = FALSE /\ conns = <<>> /\ ring = <<>>
      /\ lost = [frames |-> 0, calls |-> 0] /\ asm = NewAssembler /\ pass = 0
      /\ outcome = Outcome("none", None) /\ answered = 0 /\ missed = {} /\ strayed = {}
  BY DEF Init
<1>2. /\ DOMAIN asm = AssemblerFields /\ asm.closed = <<>> /\ DOMAIN asm.live = {}
  BY <1>1 DEF NewAssembler, AssemblerFields, NoEntries
<1>3. AssemblerType(asm)
  BY <1>2 DEF AssemblerType
<1>4. TypeInv
  <2>1. lost \in [frames : Nat, calls : Nat]
    BY <1>1
  <2>2. conns \in Seq(ConnType) /\ ring \in Seq(Frames) /\ todo \in Seq(Hooks)
    BY <1>1
  <2> QED BY <1>1, <1>3, <2>1, <2>2 DEF TypeInv, Stages
<1>5. Len(ring) = 0 /\ DOMAIN conns = {} /\ outcome.flows = {}
  BY <1>1, OutcomeFacts
<1>6. FramesInv /\ ConnsInv /\ OrderInv /\ EndsInv
  BY <1>5 DEF FramesInv, ConnsInv, OrderInv, EndsInv
<1>7. PendingInv /\ ClosedInv /\ OutcomeInv /\ StageInv
  BY <1>2, <1>5 DEF PendingInv, ClosedInv, OutcomeInv, StageInv
<1>8. AttachInv
  BY <1>1 DEF AttachInv
<1> QED BY <1>4, <1>6, <1>7, <1>8 DEF IInv, FlowsInv

LEMMA TickKeeps ==
  ASSUME IInv, Tick
  PROVE  IInv'
<1>1. now' = now + 1 /\ UNCHANGED <<setup, held, attachment, kernel, reading>>
  BY DEF Tick
<1>2. FlowsInv'
  <2>1. UNCHANGED flows /\ rejected' = rejected /\ outcome' = outcome
    BY <1>1 DEF flows, kernel, reading
  <2> QED BY <2>1, FlowsStutter DEF IInv
<1>3. TypeInv'
  <2>1. AssemblerType(asm)'
    BY <1>1 DEF IInv, TypeInv, AssemblerType, reading
  <2> QED BY <1>1, <2>1 DEF IInv, TypeInv, attachment, kernel, reading
<1>4. StageInv' /\ AttachInv'
  BY <1>1 DEF IInv, StageInv, AttachInv, attachment, reading
<1> QED BY <1>2, <1>3, <1>4 DEF IInv

LEMMA StutterKeeps ==
  ASSUME IInv, UNCHANGED vars
  PROVE  IInv'
<1>1. UNCHANGED <<machine, attachment, kernel, reading>>
  BY DEF vars
<1>2. FlowsInv'
  <2>1. UNCHANGED flows /\ rejected' = rejected /\ outcome' = outcome
    BY <1>1 DEF flows, kernel, reading
  <2> QED BY <2>1, FlowsStutter DEF IInv
<1>3. TypeInv'
  <2>1. AssemblerType(asm)'
    BY <1>1 DEF IInv, TypeInv, AssemblerType, reading
  <2> QED BY <1>1, <2>1 DEF IInv, TypeInv, machine, attachment, kernel, reading
<1>4. StageInv' /\ AttachInv'
  BY <1>1, TrafficElse
<1> QED BY <1>2, <1>3, <1>4 DEF IInv

LEMMA NextKeeps ==
  ASSUME IInv, [Next]_vars
  PROVE  IInv'
<1>1. CASE Traffic
  <2>1. CASE \E k \in setup.keys : \/ \E p \in setup.procs : EnterConnect(k, p)
                                   \/ \E message \in setup.answers : Answer(k, message)
    BY <2>1, EnterConnectKeeps, AnswerKeeps
  <2>2. CASE \E c \in DOMAIN conns :
               \/ ReturnConnect(c) \/ FailConnect(c) \/ Close(c)
               \/ \E hook \in Volumes : Transfer(c, hook)
               \/ \E hello \in setup.hellos : Greet(c, hello)
    BY <2>2, ReturnConnectKeeps, FailConnectKeeps, CloseKeeps, TransferKeeps, GreetKeeps
  <2> QED BY <1>1, <2>1, <2>2 DEF Traffic
<1>2. CASE Sensor
  BY <1>2, EvaluateKeeps, LoseCapabilitiesKeeps, LoadKeeps, AttachHookKeeps,
     DropCapabilitiesKeeps, ReadCountersKeeps, TakeFrameKeeps, SealKeeps, ObserveAgainKeeps
     DEF Sensor
<1>3. CASE Tick
  BY <1>3, TickKeeps
<1>4. CASE UNCHANGED vars
  BY <1>4, StutterKeeps
<1> QED BY <1>1, <1>2, <1>3, <1>4 DEF Next

\* The frames of a key lie in the ring in the order of its connections, each flow before
\* its end and each end before the next flow, and the assembler holds for a key the
\* oldest connection the ring can still speak of; an attach that goes on has every hook
\* behind it or before it (probes and ring buffer; assemble.rs; loader.rs, attach).
THEOREM SensorIsWellFormed == Spec => []IInv
<1>1. Init => IInv
  BY InitKeeps
<1>2. IInv /\ [Next]_vars => IInv'
  BY NextKeeps
<1> QED BY <1>1, <1>2, PTL DEF Spec

\* A record never mixes two connections, unless a close of a connection with its key
\* never became a frame, a packet came behind one, or frames could not be read
\* (assemble.rs, on_connect and on_close; record.rs, decode).
THEOREM RecordsAreNotMixed == Spec => []RecordsAreOfOneConnection
<1>1. IInv => RecordsAreOfOneConnection
  <2> SUFFICES ASSUME IInv, NEW flow \in outcome.flows, Clean(flow.key)
               PROVE  ~(Cardinality((flow.from \cup {flow.conn}) \ {None}) > 1)
    BY DEF RecordsAreOfOneConnection, Clean
  <2> DEFINE real == (flow.from \cup {flow.conn}) \ {None}
  <2>1. PICK c : Members(flow) \subseteq {c, None}
    BY DEF IInv, FlowsInv, OutcomeInv, OfOne
  <2>2. real \subseteq {c}
    BY <2>1 DEF Members
  <2> HIDE DEF real
  <2>3. IsFiniteSet({c}) /\ Cardinality({c}) = 1
    BY FS_Singleton
  <2>4. Cardinality(real) <= 1 /\ Cardinality(real) \in Nat
    BY <2>2, <2>3, FS_Subset, FS_CardinalityType
  <2>5. ~(Cardinality(real) > 1)
    BY <2>4
  <2> QED BY <2>5 DEF real
<1> QED BY <1>1, SensorIsWellFormed, PTL

\* What is watched is watched by every probe and without the authority to load more,
\* and a refused first attach leaves nothing attached (loader.rs, open; source.rs,
\* attach).
THEOREM WatchedByEveryProbe == Spec => []AttachedOrNothing
<1>1. IInv => AttachedOrNothing
  BY DEF IInv, AttachInv, AttachedOrNothing, Plan
<1> QED BY <1>1, SensorIsWellFormed, PTL

(***************************************************************************)
(* Induction over the natural numbers, for sets of them                    *)
(***************************************************************************)

\* A set of natural numbers that is not empty has a least one.
LEMMA LeastOf ==
  ASSUME NEW T \in SUBSET Nat, T # {}
  PROVE  \E m \in T : \A k \in T : m <= k
<1> DEFINE R == {ss \in Nat \X Nat : ss[1] < ss[2]}
<1>1. IsWellFoundedOn(R, Nat)
  BY NatLessThanWellFounded DEF OpToRel
<1> HIDE DEF R
<1>2. PICK m \in T : \A k \in T : ~(<<k, m>> \in R)
  BY <1>1, WFMin
<1>3. ASSUME NEW k \in T
      PROVE  m <= k
  <2>1. ~(k < m)
    BY <1>2 DEF R
  <2> QED BY <2>1
<1> QED BY <1>2, <1>3

\* A set that has 0, and with every number the next, has them all.
LEMMA Induct ==
  ASSUME NEW T \in SUBSET Nat, 0 \in T, \A n \in T : n + 1 \in T
  PROVE  T = Nat
<1>1. SUFFICES ASSUME Nat \ T # {}
               PROVE  FALSE
  OBVIOUS
<1>2. PICK m \in Nat \ T : \A k \in Nat \ T : m <= k
  BY <1>1, LeastOf
<1>3. m # 0 /\ m - 1 \in Nat
  OBVIOUS
<1>4. m - 1 \in T
  BY <1>2, <1>3
<1> QED BY <1>4

(***************************************************************************)
(* The map of names                                                        *)
(***************************************************************************)

\* What the map knows are names, of finitely many addresses.
MapOK(m) ==
  /\ "entries" \in DOMAIN m /\ IsFiniteSet(DOMAIN m.entries)
  /\ \A ip \in DOMAIN m.entries : DOMAIN m.entries[ip] \subseteq Nat

LEMMA RecordLossFacts ==
  ASSUME NEW m, MapOK(m), NEW ip
  PROVE  MapOK(RecordLoss(m, ip)) /\ RecordLoss(m, ip).entries = m.entries
BY DEF RecordLoss, MapOK

LEMMA TakeAnswerKeeps ==
  ASSUME NEW m, MapOK(m), NEW answer, answer.name \in Nat, NEW at
  PROVE  MapOK(TakeAnswer(m, answer, at))
<1> DEFINE names == IF answer.ip \in DOMAIN m.entries THEN m.entries[answer.ip] ELSE NoEntries
           expiry == at + Clamp(answer.ttl)
           known == answer.name \in DOMAIN names
           more == With(names, answer.name,
                        IF known THEN Larger(names[answer.name], expiry) ELSE expiry)
           all == With(m.entries, answer.ip, more)
           lost1 == [m EXCEPT !.evicted = @ + 1]
           b == TakeAnswer(m, answer, at)
<1>1. \/ b = RecordLoss(lost1, answer.ip)
      \/ b = [m EXCEPT !.entries = all, !.answers = @ + 1]
  BY DEF TakeAnswer
<1>2. DOMAIN names \subseteq Nat
  BY DEF NoEntries, MapOK
<1> SUFFICES MapOK(b)
  OBVIOUS
<1> HIDE DEF names, expiry, known, b
<1>3. DOMAIN more \subseteq Nat
  BY <1>2 DEF With
<1> HIDE DEF more
<1>4. /\ DOMAIN all = DOMAIN m.entries \cup {answer.ip}
      /\ all[answer.ip] = more
      /\ \A ip \in DOMAIN m.entries : ip # answer.ip => all[ip] = m.entries[ip]
  BY DEF With
<1> HIDE DEF all
<1>5. CASE b = RecordLoss(lost1, answer.ip)
  <2>1. MapOK(lost1)
    BY DEF MapOK
  <2> HIDE DEF lost1
  <2> QED BY <1>5, <2>1, RecordLossFacts
<1>6. CASE b = [m EXCEPT !.entries = all, !.answers = @ + 1]
  <2>1. "entries" \in DOMAIN b /\ b.entries = all
    BY <1>6 DEF MapOK
  <2>2. IsFiniteSet(DOMAIN all)
    BY <1>4, FS_AddElement DEF MapOK
  <2> QED BY <1>3, <1>4, <2>1, <2>2 DEF MapOK
<1> QED BY <1>1, <1>5, <1>6

LEMMA ExpireKeeps ==
  ASSUME NEW m, MapOK(m), NEW at
  PROVE  MapOK(Expire(m, at))
<1> DEFINE fresh(ip) == {n \in DOMAIN m.entries[ip] : m.entries[ip][n] > at}
           kept == {ip \in DOMAIN m.entries : fresh(ip) # {}}
           all == [ip \in kept |-> [n \in fresh(ip) |-> m.entries[ip][n]]]
<1>1. Expire(m, at) = [m EXCEPT !.entries = all]
  BY DEF Expire, MapOK
<1>2. kept \subseteq DOMAIN m.entries /\ DOMAIN all = kept
  OBVIOUS
<1>3. \A ip \in kept : DOMAIN all[ip] \subseteq Nat
  BY DEF MapOK
<1>4. IsFiniteSet(kept)
  BY <1>2, FS_Subset DEF MapOK
<1> HIDE DEF kept, all
<1> QED BY <1>1, <1>2, <1>3, <1>4 DEF MapOK

LEMMA DropAddressKeeps ==
  ASSUME NEW m, MapOK(m), NEW ip
  PROVE  MapOK(DropAddress(m, ip))
<1> DEFINE all == Without(m.entries, {ip})
           n == [m EXCEPT !.evicted = @ + Cardinality(DOMAIN m.entries[ip]), !.entries = all]
<1>1. "entries" \in DOMAIN n /\ n.entries = all
  BY DEF MapOK
<1>2. /\ DOMAIN all = DOMAIN m.entries \ {ip}
      /\ \A other \in DOMAIN all : all[other] = m.entries[other]
  BY DEF Without
<1>3. IsFiniteSet(DOMAIN all)
  BY <1>2, FS_Subset DEF MapOK
<1>4. DropAddress(m, ip) = RecordLoss(n, ip)
  BY DEF DropAddress
<1> HIDE DEF n, all
<1>5. MapOK(n)
  BY <1>1, <1>2, <1>3 DEF MapOK
<1> QED BY <1>4, <1>5, RecordLossFacts

\* Addresses are dropped until the rest fits.
LEMMA EnforceCapacityKeeps ==
  ASSUME NEW m, MapOK(m)
  PROVE  MapOK(EnforceCapacity(m))
<1> DEFINE len == Cardinality(DOMAIN m.entries) - MaxAddresses
           byExpiry == SetToSortSeq(DOMAIN m.entries, LAMBDA x, y : GoesBefore(m, x, y))
           Step(f, n) == IF n = 0 THEN m ELSE DropAddress(f[n - 1], byExpiry[n])
           IsRun(f, k) == f = [n \in 0 .. k |-> Step(f, n)]
           Ran == {k \in Nat : \E f : IsRun(f, k)}
<1>1. EnforceCapacity(m) = IF len <= 0 THEN m ELSE (CHOOSE f : IsRun(f, len))[len]
  BY DEF EnforceCapacity
<1> SUFFICES ASSUME ~(len <= 0)
             PROVE  MapOK((CHOOSE f : IsRun(f, len))[len])
  BY <1>1
<1>2. len \in Nat
  BY FS_CardinalityType, NameMapAssumption DEF MapOK
<1> HIDE DEF len, byExpiry
\* There is a run of any length, so the one that is chosen is one.
<1>3. Ran = Nat
  <2>1. 0 \in Ran
    <3>1. IsRun([n \in 0 .. 0 |-> m], 0)
      OBVIOUS
    <3> HIDE DEF IsRun
    <3> QED BY <3>1
  <2>2. ASSUME NEW k \in Ran
        PROVE  k + 1 \in Ran
    <3>1. PICK f : IsRun(f, k)
      OBVIOUS
    <3> DEFINE g == [n \in 0 .. k + 1 |-> IF n <= k THEN f[n] ELSE DropAddress(f[k], byExpiry[k + 1])]
    <3>2. k \in Nat
      OBVIOUS
    <3>3. ASSUME NEW n \in 0 .. k + 1
          PROVE  g[n] = Step(g, n)
      <4>1. CASE n = 0
        BY <3>1, <3>2, <4>1
      <4>2. CASE n # 0 /\ n <= k
        <5>1. n - 1 \in 0 .. k /\ n \in 0 .. k /\ n - 1 \in 0 .. k + 1
          BY <3>2, <4>2
        <5>2. g[n] = f[n] /\ g[n - 1] = f[n - 1]
          BY <4>2, <5>1
        <5>3. f[n] = DropAddress(f[n - 1], byExpiry[n])
          BY <3>1, <4>2, <5>1
        <5> QED BY <4>2, <5>2, <5>3
      <4>3. CASE n = k + 1
        <5>1. k \in 0 .. k + 1 /\ k <= k /\ ~(k + 1 <= k) /\ n # 0 /\ n - 1 = k
          BY <3>2, <4>3
        <5>2. g[n] = DropAddress(f[k], byExpiry[n]) /\ g[n - 1] = f[k]
          BY <4>3, <5>1
        <5> QED BY <5>1, <5>2
      <4> QED BY <3>2, <4>1, <4>2, <4>3
    <3>4. IsRun(g, k + 1)
      <4>1. g = [n \in 0 .. k + 1 |-> g[n]]
        OBVIOUS
      <4> HIDE DEF g, Step
      <4>2. [n \in 0 .. k + 1 |-> g[n]] = [n \in 0 .. k + 1 |-> Step(g, n)]
        BY <3>3
      <4> QED BY <4>1, <4>2
    <3> HIDE DEF IsRun
    <3> QED BY <3>2, <3>4
  <2> HIDE DEF Ran
  <2>3. Ran \in SUBSET Nat
    BY DEF Ran
  <2> QED BY <2>1, <2>2, <2>3, Induct
<1> DEFINE f == CHOOSE g : IsRun(g, len)
<1>4. IsRun(f, len)
  <2> HIDE DEF IsRun
  <2>1. \E g : IsRun(g, len)
    BY <1>2, <1>3
  <2> QED BY <2>1
<1> HIDE DEF f
<1> DEFINE Good == {n \in Nat : n <= len => MapOK(f[n])}
<1>5. Good = Nat
  <2>1. 0 \in Good
    <3>1. f[0] = m
      BY <1>2, <1>4
    <3> QED BY <3>1
  <2>2. ASSUME NEW n \in Good
        PROVE  n + 1 \in Good
    <3>1. CASE n + 1 <= len
      <4>1. /\ n \in Nat /\ n <= len /\ n + 1 \in 0 .. len /\ n + 1 \in 1 .. len
            /\ n + 1 # 0 /\ (n + 1) - 1 = n
        BY <1>2, <3>1
      <4>2. f[n + 1] = DropAddress(f[n], byExpiry[n + 1])
        BY <1>4, <4>1
      <4>3. MapOK(f[n])
        BY <4>1
      <4> HIDE DEF Good
      <4>4. MapOK(DropAddress(f[n], byExpiry[n + 1]))
        BY <1>2, <4>1, <4>3, DropAddressKeeps
      <4>5. MapOK(f[n + 1])
        BY <4>2, <4>4
      <4> QED BY <4>1, <4>5 DEF Good
    <3>2. CASE ~(n + 1 <= len)
      BY <3>2
    <3> QED BY <3>1, <3>2
  <2> HIDE DEF Good
  <2>3. Good \in SUBSET Nat
    BY DEF Good
  <2> QED BY <2>1, <2>2, <2>3, Induct
<1>6. MapOK(f[len])
  <2>1. len \in Good
    BY <1>2, <1>5
  <2> QED BY <1>2, <2>1
<1> QED BY <1>6 DEF f

\* A response that was read keeps it.
LEMMA ObserveAnswersKeeps ==
  ASSUME NEW m, MapOK(m), NEW answers, NEW at, Len(answers) \in Nat,
         \A i \in 1 .. Len(answers) : answers[i].name \in Nat
  PROVE  MapOK(ObserveAnswers(m, answers, at))
<1> DEFINE len == Len(answers)
           Step(f, n) == IF n = 0 THEN m ELSE TakeAnswer(f[n - 1], answers[n], at)
           IsRun(f, k) == f = [n \in 0 .. k |-> Step(f, n)]
           Ran == {k \in Nat : \E f : IsRun(f, k)}
<1>1. ObserveAnswers(m, answers, at)
        = EnforceCapacity(Expire((CHOOSE f : IsRun(f, len))[len], at))
  BY DEF ObserveAnswers
<1>2. len \in Nat /\ \A i \in 1 .. len : answers[i].name \in Nat
  OBVIOUS
<1> HIDE DEF len
\* There is a run of any length, so the one that is chosen is one.
<1>3. Ran = Nat
  <2>1. 0 \in Ran
    <3>1. IsRun([n \in 0 .. 0 |-> m], 0)
      OBVIOUS
    <3> HIDE DEF IsRun
    <3> QED BY <3>1
  <2>2. ASSUME NEW k \in Ran
        PROVE  k + 1 \in Ran
    <3>1. PICK f : IsRun(f, k)
      OBVIOUS
    <3> DEFINE g == [n \in 0 .. k + 1 |-> IF n <= k THEN f[n] ELSE TakeAnswer(f[k], answers[k + 1], at)]
    <3>2. k \in Nat
      OBVIOUS
    <3>3. ASSUME NEW n \in 0 .. k + 1
          PROVE  g[n] = Step(g, n)
      <4>1. CASE n = 0
        BY <3>1, <3>2, <4>1
      <4>2. CASE n # 0 /\ n <= k
        <5>1. n - 1 \in 0 .. k /\ n \in 0 .. k /\ n - 1 \in 0 .. k + 1
          BY <3>2, <4>2
        <5>2. g[n] = f[n] /\ g[n - 1] = f[n - 1]
          BY <4>2, <5>1
        <5>3. f[n] = TakeAnswer(f[n - 1], answers[n], at)
          BY <3>1, <4>2, <5>1
        <5> QED BY <4>2, <5>2, <5>3
      <4>3. CASE n = k + 1
        <5>1. k \in 0 .. k + 1 /\ k <= k /\ ~(k + 1 <= k) /\ n # 0 /\ n - 1 = k
          BY <3>2, <4>3
        <5>2. g[n] = TakeAnswer(f[k], answers[n], at) /\ g[n - 1] = f[k]
          BY <4>3, <5>1
        <5> QED BY <5>1, <5>2
      <4> QED BY <3>2, <4>1, <4>2, <4>3
    <3>4. IsRun(g, k + 1)
      <4>1. g = [n \in 0 .. k + 1 |-> g[n]]
        OBVIOUS
      <4> HIDE DEF g, Step
      <4>2. [n \in 0 .. k + 1 |-> g[n]] = [n \in 0 .. k + 1 |-> Step(g, n)]
        BY <3>3
      <4> QED BY <4>1, <4>2
    <3> HIDE DEF IsRun
    <3> QED BY <3>2, <3>4
  <2> HIDE DEF Ran
  <2>3. Ran \in SUBSET Nat
    BY DEF Ran
  <2> QED BY <2>1, <2>2, <2>3, Induct
<1> DEFINE f == CHOOSE g : IsRun(g, len)
<1>4. IsRun(f, len)
  <2> HIDE DEF IsRun
  <2>1. \E g : IsRun(g, len)
    BY <1>2, <1>3
  <2> QED BY <2>1
<1> HIDE DEF f
<1> DEFINE Good == {n \in Nat : n <= len => MapOK(f[n])}
<1>5. Good = Nat
  <2>1. 0 \in Good
    <3>1. f[0] = m
      BY <1>2, <1>4
    <3> QED BY <3>1
  <2>2. ASSUME NEW n \in Good
        PROVE  n + 1 \in Good
    <3>1. CASE n + 1 <= len
      <4>1. /\ n \in Nat /\ n <= len /\ n + 1 \in 0 .. len /\ n + 1 \in 1 .. len
            /\ n + 1 # 0 /\ (n + 1) - 1 = n
        BY <1>2, <3>1
      <4>2. f[n + 1] = TakeAnswer(f[n], answers[n + 1], at)
        BY <1>4, <4>1
      <4>3. MapOK(f[n])
        BY <4>1
      <4> HIDE DEF Good
      <4>4. MapOK(TakeAnswer(f[n], answers[n + 1], at))
        BY <1>2, <4>1, <4>3, TakeAnswerKeeps
      <4>5. MapOK(f[n + 1])
        BY <4>2, <4>4
      <4> QED BY <4>1, <4>5 DEF Good
    <3>2. CASE ~(n + 1 <= len)
      BY <3>2
    <3> QED BY <3>1, <3>2
  <2> HIDE DEF Good
  <2>3. Good \in SUBSET Nat
    BY DEF Good
  <2> QED BY <2>1, <2>2, <2>3, Induct
<1>6. MapOK(f[len])
  <2>1. len \in Good
    BY <1>2, <1>5
  <2> QED BY <1>2, <2>1
<1>7. MapOK((CHOOSE g : IsRun(g, len))[len])
  BY <1>6 DEF f
<1> QED BY <1>1, <1>7, ExpireKeeps, EnforceCapacityKeeps

\* What may name a flow is a name.
LEMMA NamesForFacts ==
  ASSUME NEW m, MapOK(m), NEW ip, NEW at
  PROVE  NamesFor(m, ip, at) \subseteq Nat
BY DEF NamesFor, MapOK

LEMMA PickNameFacts ==
  ASSUME NEW names \in SUBSET Nat
  PROVE  PickName(names) = None <=> names = {}
<1>1. CASE names = {}
  BY <1>1 DEF PickName
<1>2. CASE names # {}
  <2>1. \E n \in names : \A other \in names : n <= other
    BY <1>2, LeastOf
  <2>2. PickName(names) \in names
    BY <1>2, <2>1 DEF PickName
  <2> QED BY <1>2, <2>2, NameMapAssumption
<1> QED BY <1>1, <1>2

(***************************************************************************)
(* The inductive invariant of the connects                                 *)
(*                                                                         *)
(* A connect that came to be a frame waits in the ring, is held by the     *)
(* assembler, has ended, or was told of in a record: one of these, and     *)
(* once (OnceInv).  It is not lost on the way while no close went missing, *)
(* for the close of a connection is then read before the connect of the    *)
(* next with its key (TurnsInv, ClosesInv): no flow is written over.       *)
(***************************************************************************)

\* The places a connection's connect may have come to.
Connects(frame, c) == frame.kind = "connect" /\ frame.body.conn = c
Waits(c) == \E i \in 1 .. Len(ring) : Connects(ring[i], c)
Held(c) == \E k \in DOMAIN asm.live : asm.live[k].conn = c
Ended(c) == \E i \in DOMAIN asm.closed : asm.closed[i].flow.conn = c
Told(c) == \E r \in recorded : r.conn = c
Placed(c) == Waits(c) \/ Held(c) \/ Ended(c) \/ Told(c)

\* Nothing was lost that a record is made of.
Unread == "record_undecodable" \in DOMAIN rejected
Intact == missed = {} /\ lost.frames = 0 /\ ~Unread
Begun(c) == conns[c].st \in {"open", "closed"}

\* What came to a place is of a connection that was made; a flow is held under its key.
PlacesInv ==
  /\ \A c \in Nat : Placed(c) => c \in DOMAIN conns /\ Begun(c)
  /\ \A k \in DOMAIN asm.live :
       asm.live[k].conn \in Nat => conns[asm.live[k].conn].key = k

\* A connect came to one place, and once.
WaitsOnce(c) ==
  \A i, j \in 1 .. Len(ring) : Connects(ring[i], c) /\ Connects(ring[j], c) => i = j
EndedOnce(c) ==
  \A i, j \in DOMAIN asm.closed :
    asm.closed[i].flow.conn = c /\ asm.closed[j].flow.conn = c => i = j
ToldOnce(c) == \A r, s \in recorded : r.conn = c /\ s.conn = c => r = s
OnceInv ==
  \A c \in Nat :
    /\ WaitsOnce(c) /\ EndedOnce(c) /\ ToldOnce(c)
    /\ Waits(c) => ~Held(c) /\ ~Ended(c) /\ ~Told(c)
    /\ Held(c) => ~Ended(c) /\ ~Told(c)
    /\ Ended(c) => ~Told(c)

\* The connects and closes of a key lie in the ring in the order of its connections,
\* and behind the flow that is held for it.
Turns(frame) == frame.kind \in {"connect", "close"}
RingTurns ==
  \A i, j \in 1 .. Len(ring) :
    i < j /\ Turns(ring[i]) /\ Turns(ring[j]) /\ ring[i].key = ring[j].key =>
      ring[i].body.conn <= ring[j].body.conn
HeldTurns ==
  \A k \in DOMAIN asm.live : asm.live[k].conn \in Nat =>
    \A i \in 1 .. Len(ring) :
      Turns(ring[i]) /\ ring[i].key = k => asm.live[k].conn <= ring[i].body.conn
TurnsInv == RingTurns /\ HeldTurns

\* While no close went missing, a connection is open or its close is yet to be read.
ClosesInv ==
  missed = {} /\ ~Unread =>
    /\ \A i \in 1 .. Len(ring) : ring[i].kind = "connect" => Lasts(ring[i].body.conn, i + 1)
    /\ \A k \in DOMAIN asm.live : asm.live[k].conn \in Nat => Lasts(asm.live[k].conn, 1)

\* And a connection that was watched from its connect is somewhere.
SomewhereInv ==
  Intact => \A c \in DOMAIN conns : conns[c].tracked /\ Begun(c) => Placed(c)

\* What the map knows and what a handshake said are names.
IsNamed(hello) == hello = None \/ hello.kind # "server_name" \/ hello.name \in Nat
Named(a) ==
  /\ MapOK(a.dns)
  /\ \A k \in DOMAIN a.live : IsNamed(a.live[k].hello)
  /\ \A i \in DOMAIN a.closed : IsNamed(a.closed[i].flow.hello)

PlacedInv == PlacesInv /\ OnceInv /\ TurnsInv /\ ClosesInv /\ SomewhereInv /\ Named(asm)

(***************************************************************************)
(* Steps that move no connect                                              *)
(***************************************************************************)

places == <<conns, ring, lost.frames, missed, recorded, asm.live, asm.closed, asm.dns>>

LEMMA PlacesStutter ==
  ASSUME PlacedInv, UNCHANGED places, DOMAIN rejected \subseteq DOMAIN rejected'
  PROVE  PlacedInv'
<1>1. /\ UNCHANGED <<conns, ring, missed, recorded, asm.live, asm.closed, asm.dns>>
      /\ lost'.frames = lost.frames
  BY DEF places
<1>2. Unread => Unread'
  BY DEF Unread
<1>3. \A c, n : Lasts(c, n)' = Lasts(c, n)
  BY <1>1 DEF Lasts, Ends
<1>4. \A c : /\ Waits(c)' = Waits(c) /\ Held(c)' = Held(c) /\ Ended(c)' = Ended(c)
             /\ Told(c)' = Told(c) /\ Begun(c)' = Begun(c) /\ Placed(c)' = Placed(c)
  BY <1>1 DEF Waits, Held, Ended, Told, Begun, Placed
<1>5. PlacesInv'
  BY <1>1, <1>4 DEF PlacedInv, PlacesInv
<1>6. OnceInv'
  BY <1>1, <1>4 DEF PlacedInv, OnceInv, WaitsOnce, EndedOnce, ToldOnce
<1>7. TurnsInv'
  BY <1>1 DEF PlacedInv, TurnsInv, RingTurns, HeldTurns
<1>8. ClosesInv'
  BY <1>1, <1>2, <1>3 DEF PlacedInv, ClosesInv
<1>9. SomewhereInv'
  BY <1>1, <1>2, <1>4 DEF PlacedInv, SomewhereInv, Intact
<1>10. Named(asm)'
  BY <1>1 DEF PlacedInv, Named, IsNamed, MapOK
<1> QED BY <1>5, <1>6, <1>7, <1>8, <1>9, <1>10 DEF PlacedInv

(***************************************************************************)
(* Traffic                                                                 *)
(***************************************************************************)

\* What traffic does to the connects: a frame comes into the ring or none, a connect
\* when its connection begins, a close when it ends; else something is lost.
Flowing(f) ==
  /\ DOMAIN conns \subseteq DOMAIN conns'
  /\ \A d \in DOMAIN conns :
       /\ conns'[d].key = conns[d].key /\ conns'[d].tracked = conns[d].tracked
       /\ Begun(d) => Begun(d)'
  /\ \A d \in DOMAIN conns' : d \notin DOMAIN conns => conns'[d].st = "connecting"
  /\ \/ ring' = ring
     \/ /\ ring' = Append(ring, f) /\ f \in Frames
        /\ Turns(f) => /\ f.body.conn \in DOMAIN conns
                       /\ conns[f.body.conn].key = f.key
                       /\ conns[f.body.conn].st \notin Over
        /\ f.kind = "connect" => ~Begun(f.body.conn) /\ conns'[f.body.conn].st = "open"
  /\ \A d \in DOMAIN conns : conns[d].tracked /\ ~Begun(d) /\ Begun(d)' =>
       lost'.frames # 0 \/ (ring' = Append(ring, f) /\ Connects(f, d))
  /\ \A d \in DOMAIN conns : conns[d].st = "open" /\ conns'[d].st # "open" =>
       missed' # {} \/ (ring' = Append(ring, f) /\ f.kind = "close" /\ f.body.conn = d)
  /\ missed' = {} => missed = {}
  /\ lost'.frames = 0 => lost.frames = 0
  /\ UNCHANGED <<asm, rejected, recorded>>

LEMMA FlowingRing ==
  ASSUME TypeInv, NEW f, Flowing(f)
  PROVE  /\ Len(ring) \in Nat
         /\ \A i \in 1 .. Len(ring) : i \in 1 .. Len(ring') /\ ring'[i] = ring[i]
         /\ ring' = Append(ring, f) =>
              Len(ring) + 1 \in 1 .. Len(ring') /\ ring'[Len(ring) + 1] = f
         /\ \A i \in 1 .. Len(ring') : i \notin 1 .. Len(ring) =>
              /\ i = Len(ring) + 1 /\ ring'[i] = f
              /\ Turns(f) => /\ f.body.conn \in DOMAIN conns
                             /\ conns[f.body.conn].key = f.key
                             /\ conns[f.body.conn].st \notin Over
              /\ f.kind = "connect" => ~Begun(f.body.conn) /\ conns'[f.body.conn].st = "open"
<1>1. ring \in Seq(Frames)
  BY DEF TypeInv
<1>2. CASE ring' = ring
  <2>1. ring # Append(ring, f)
    <3>1. Len(Append(ring, f)) = Len(ring) + 1 /\ Len(ring) \in Nat
      BY <1>1
    <3> QED BY <3>1
  <2> QED BY <1>1, <1>2, <2>1
<1>3. CASE /\ ring' = Append(ring, f) /\ f \in Frames
           /\ Turns(f) => /\ f.body.conn \in DOMAIN conns
                          /\ conns[f.body.conn].key = f.key
                          /\ conns[f.body.conn].st \notin Over
           /\ f.kind = "connect" => ~Begun(f.body.conn) /\ conns'[f.body.conn].st = "open"
  <2>1. /\ Len(ring) \in Nat /\ Len(ring') = Len(ring) + 1
        /\ \A i \in 1 .. Len(ring) : ring'[i] = ring[i]
        /\ ring'[Len(ring) + 1] = f
    BY <1>1, <1>3
  <2>2. \A i \in 1 .. Len(ring') : i \notin 1 .. Len(ring) => i = Len(ring) + 1
    BY <2>1
  <2>3. Len(ring) + 1 \in 1 .. Len(ring') /\ \A i \in 1 .. Len(ring) : i \in 1 .. Len(ring')
    BY <2>1
  <2> QED BY <1>3, <2>1, <2>2, <2>3
<1> QED BY <1>2, <1>3 DEF Flowing

LEMMA FlowingLasts ==
  ASSUME TypeInv, NEW f, Flowing(f), NEW d \in DOMAIN conns,
         NEW n \in 1 .. Len(ring) + 1, Lasts(d, n), missed' = {}
  PROVE  LastsThen(d, n)
<1>0. Len(ring) \in Nat
  BY FlowingRing
<1>1. CASE Ends(d, n)
  <2>1. PICK j \in 1 .. Len(ring) : j >= n /\ ring[j].kind = "close" /\ ring[j].body.conn = d
    BY <1>1 DEF Ends
  <2>2. j \in 1 .. Len(ring') /\ ring'[j] = ring[j]
    BY FlowingRing
  <2> QED BY <2>1, <2>2 DEF LastsThen
<1>2. CASE conns[d].st = "open" /\ conns'[d].st = "open"
  BY <1>2 DEF LastsThen
<1>3. CASE conns[d].st = "open" /\ conns'[d].st # "open"
  <2>1. ring' = Append(ring, f) /\ f.kind = "close" /\ f.body.conn = d
    BY <1>3 DEF Flowing
  <2>2. Len(ring) + 1 \in 1 .. Len(ring') /\ ring'[Len(ring) + 1] = f
    BY <2>1, FlowingRing
  <2> QED BY <1>0, <2>1, <2>2 DEF LastsThen
<1> QED BY <1>1, <1>2, <1>3 DEF Lasts

\* A connection that is not over is the last one with its key.
LEMMA LastWithItsKey ==
  ASSUME TypeInv, ConnsInv, NEW c \in DOMAIN conns, NEW d \in DOMAIN conns,
         conns[d].key = conns[c].key, conns[c].st \notin Over
  PROVE  d <= c
<1>1. c \in Nat /\ d \in Nat
  BY ConnFacts
<1>2. ~(c < d)
  BY DEF ConnsInv
<1> QED BY <1>1, <1>2

LEMMA FlowingKeeps ==
  ASSUME IInv, PlacedInv, NEW f, Flowing(f)
  PROVE  PlacedInv'
<1>0. /\ TypeInv /\ ConnsInv /\ FramesInv
      /\ PlacesInv /\ OnceInv /\ RingTurns /\ HeldTurns /\ ClosesInv /\ SomewhereInv
      /\ asm' = asm /\ rejected' = rejected /\ recorded' = recorded
      /\ DOMAIN conns \subseteq DOMAIN conns'
      /\ \A d \in DOMAIN conns :
           /\ conns'[d].key = conns[d].key /\ conns'[d].tracked = conns[d].tracked
           /\ Begun(d) => Begun(d)'
  BY DEF IInv, FlowsInv, PlacedInv, TurnsInv, Flowing
<1>1. /\ Len(ring) \in Nat
      /\ \A i \in 1 .. Len(ring) : i \in 1 .. Len(ring') /\ ring'[i] = ring[i]
      /\ \A i \in 1 .. Len(ring') : i \notin 1 .. Len(ring) =>
           /\ i = Len(ring) + 1 /\ ring'[i] = f
           /\ Turns(f) => /\ f.body.conn \in DOMAIN conns
                          /\ conns[f.body.conn].key = f.key
                          /\ conns[f.body.conn].st \notin Over
           /\ f.kind = "connect" => ~Begun(f.body.conn) /\ conns'[f.body.conn].st = "open"
  BY <1>0, FlowingRing
<1>2. \A c : /\ Held(c)' = Held(c) /\ Ended(c)' = Ended(c) /\ Told(c)' = Told(c)
             /\ Waits(c) => Waits(c)'
  BY <1>0, <1>1 DEF Held, Ended, Told, Waits
<1>3. ASSUME NEW c \in Nat, Waits(c)', ~Waits(c)
      PROVE  /\ c \in DOMAIN conns /\ ~Begun(c) /\ Begun(c)'
             /\ ~Held(c) /\ ~Ended(c) /\ ~Told(c)
  <2>1. PICK i \in 1 .. Len(ring') : Connects(ring'[i], c)
    BY <1>3 DEF Waits, Connects
  <2>2. i \notin 1 .. Len(ring)
    BY <1>1, <1>3, <2>1 DEF Waits
  <2>3. f.kind = "connect" /\ f.body.conn = c /\ Turns(f)
    BY <1>1, <2>1, <2>2 DEF Connects, Turns
  <2>4. c \in DOMAIN conns /\ ~Begun(c) /\ conns'[c].st = "open"
    BY <1>1, <2>2, <2>3
  <2> QED BY <1>0, <2>4 DEF PlacesInv, Placed, Begun
<1>4. PlacesInv'
  <2>1. ASSUME NEW c \in Nat, Placed(c)'
        PROVE  c \in DOMAIN conns' /\ Begun(c)'
    BY <1>0, <1>2, <1>3, <2>1 DEF PlacesInv, Placed
  <2>2. ASSUME NEW k \in DOMAIN asm.live, asm.live[k].conn \in Nat
        PROVE  conns'[asm.live[k].conn].key = k
    BY <1>0, <2>2 DEF PlacesInv, Placed, Held
  <2> QED BY <1>0, <2>1, <2>2 DEF PlacesInv
<1>5. OnceInv'
  <2> SUFFICES ASSUME NEW c \in Nat
               PROVE  /\ WaitsOnce(c)' /\ EndedOnce(c)' /\ ToldOnce(c)'
                      /\ Waits(c)' => ~Held(c)' /\ ~Ended(c)' /\ ~Told(c)'
                      /\ Held(c)' => ~Ended(c)' /\ ~Told(c)'
                      /\ Ended(c)' => ~Told(c)'
    BY DEF OnceInv
  <2>1. EndedOnce(c)' /\ ToldOnce(c)'
    BY <1>0 DEF OnceInv, EndedOnce, ToldOnce
  <2>2. WaitsOnce(c)'
    <3> SUFFICES ASSUME NEW i \in 1 .. Len(ring'), NEW j \in 1 .. Len(ring'),
                        Connects(ring'[i], c), Connects(ring'[j], c)
                 PROVE  i = j
      BY DEF WaitsOnce, Connects
    <3>1. CASE i \in 1 .. Len(ring) /\ j \in 1 .. Len(ring)
      BY <1>0, <1>1, <3>1 DEF OnceInv, WaitsOnce
    <3>2. CASE i \notin 1 .. Len(ring) /\ j \notin 1 .. Len(ring)
      BY <1>1, <3>2
    <3>3. ASSUME NEW m \in 1 .. Len(ring), NEW n \in 1 .. Len(ring'), n \notin 1 .. Len(ring),
                 Connects(ring'[m], c), Connects(ring'[n], c)
          PROVE  FALSE
      <4>1. Waits(c)
        BY <1>1, <3>3 DEF Waits
      <4>2. ~Begun(c)
        BY <1>1, <3>3 DEF Connects
      <4> QED BY <1>0, <4>1, <4>2 DEF PlacesInv, Placed
    <3> QED BY <3>1, <3>2, <3>3
  <2> QED BY <1>0, <1>2, <1>3, <2>1, <2>2 DEF OnceInv
\* A frame that turns up is of the last connection with its key.
<1>6. ASSUME NEW i \in 1 .. Len(ring'), i \notin 1 .. Len(ring), Turns(ring'[i]),
             NEW d \in DOMAIN conns, conns[d].key = ring'[i].key
      PROVE  d <= ring'[i].body.conn
  BY <1>0, <1>1, <1>6, LastWithItsKey
<1>7. RingTurns'
  <2> SUFFICES ASSUME NEW i \in 1 .. Len(ring'), NEW j \in 1 .. Len(ring'), i < j,
                      Turns(ring'[i]), Turns(ring'[j]), ring'[i].key = ring'[j].key
               PROVE  ring'[i].body.conn <= ring'[j].body.conn
    BY DEF RingTurns, Turns
  <2>1. i \in 1 .. Len(ring)
    <3>1. j <= Len(ring) + 1
      BY <1>1
    <3> QED BY <1>1, <3>1
  <2>2. CASE j \in 1 .. Len(ring)
    BY <1>0, <1>1, <2>1, <2>2 DEF RingTurns
  <2>3. CASE j \notin 1 .. Len(ring)
    <3>1. /\ ring'[i] = ring[i] /\ ring[i].body.conn \in DOMAIN conns
          /\ conns[ring[i].body.conn].key = ring[i].key
      BY <1>0, <1>1, <2>1 DEF FramesInv, About, Turns
    <3> QED BY <1>6, <2>3, <3>1
  <2> QED BY <2>2, <2>3
<1>8. HeldTurns'
  <2> SUFFICES ASSUME NEW k \in DOMAIN asm.live, asm.live[k].conn \in Nat,
                      NEW i \in 1 .. Len(ring'), Turns(ring'[i]), ring'[i].key = k
               PROVE  asm.live[k].conn <= ring'[i].body.conn
    BY <1>0 DEF HeldTurns, Turns
  <2>1. CASE i \in 1 .. Len(ring)
    BY <1>0, <1>1, <2>1 DEF HeldTurns
  <2>2. CASE i \notin 1 .. Len(ring)
    <3>1. asm.live[k].conn \in DOMAIN conns /\ conns[asm.live[k].conn].key = k
      BY <1>0 DEF PlacesInv, Placed, Held
    <3> QED BY <1>6, <2>2, <3>1
  <2> QED BY <2>1, <2>2
<1>9. ClosesInv'
  <2> SUFFICES ASSUME missed' = {}, ~Unread'
               PROVE  /\ \A i \in 1 .. Len(ring') : ring'[i].kind = "connect" =>
                           LastsThen(ring'[i].body.conn, i + 1)
                      /\ \A k \in DOMAIN asm.live : asm.live[k].conn \in Nat =>
                           LastsThen(asm.live[k].conn, 1)
    BY <1>0 DEF ClosesInv, Lasts, Ends, LastsThen
  <2>1. missed = {} /\ ~Unread
    BY <1>0 DEF Flowing, Unread
  <2>2. ASSUME NEW i \in 1 .. Len(ring'), ring'[i].kind = "connect"
        PROVE  LastsThen(ring'[i].body.conn, i + 1)
    <3>1. CASE i \in 1 .. Len(ring)
      <4>1. ring'[i] = ring[i] /\ Lasts(ring[i].body.conn, i + 1) /\ i + 1 \in 1 .. Len(ring) + 1
        BY <1>0, <1>1, <2>1, <2>2, <3>1 DEF ClosesInv
      <4>2. ring[i].body.conn \in DOMAIN conns
        BY <1>0, <2>2, <3>1, <4>1 DEF FramesInv, About
      <4> QED BY <1>0, <4>1, <4>2, FlowingLasts
    <3>2. CASE i \notin 1 .. Len(ring)
      BY <1>1, <2>2, <3>2 DEF LastsThen
    <3> QED BY <3>1, <3>2
  <2>3. ASSUME NEW k \in DOMAIN asm.live, asm.live[k].conn \in Nat
        PROVE  LastsThen(asm.live[k].conn, 1)
    <3>1. asm.live[k].conn \in DOMAIN conns
      BY <1>0, <2>3 DEF PlacesInv, Placed, Held
    <3>2. Lasts(asm.live[k].conn, 1) /\ 1 \in 1 .. Len(ring) + 1
      BY <1>0, <1>1, <2>1, <2>3 DEF ClosesInv
    <3> QED BY <1>0, <3>1, <3>2, FlowingLasts
  <2> QED BY <2>2, <2>3
<1>10. SomewhereInv'
  <2> SUFFICES ASSUME Intact', NEW c \in DOMAIN conns', conns'[c].tracked, Begun(c)'
               PROVE  Placed(c)'
    BY DEF SomewhereInv
  <2>1. Intact
    BY <1>0 DEF Intact, Unread, Flowing
  <2>2. c \in DOMAIN conns
    BY DEF Begun, Flowing
  <2>3. CASE Begun(c)
    BY <1>0, <1>2, <2>1, <2>2, <2>3 DEF SomewhereInv, Placed
  <2>4. CASE ~Begun(c)
    <3>1. ring' = Append(ring, f) /\ Connects(f, c)
      BY <1>0, <2>2, <2>4 DEF Flowing, Intact
    <3>2. Waits(c)'
      BY <1>0, <3>1, FlowingRing DEF Waits, Connects
    <3> QED BY <3>2 DEF Placed
  <2> QED BY <2>3, <2>4
<1>11. Named(asm)'
  BY <1>0 DEF PlacedInv, Named, IsNamed, MapOK
<1> QED BY <1>4, <1>5, <1>7, <1>8, <1>9, <1>10, <1>11 DEF PlacedInv, TurnsInv

\* A frame got into the ring, or was counted as lost.
LEMMA EmitOrLoss ==
  ASSUME TypeInv, NEW f, Emit(f)
  PROVE  /\ \/ ring' = Append(ring, f) /\ lost'.frames = lost.frames
            \/ ring' = ring /\ lost'.frames = lost.frames + 1
         /\ lost.frames \in Nat
BY DEF Emit, TypeInv

LEMMA StateSetElse ==
  ASSUME TypeInv, NEW c \in DOMAIN conns, NEW st \in States,
         conns' = [conns EXCEPT ![c].st = st]
  PROVE  /\ DOMAIN conns' = DOMAIN conns
         /\ \A d \in DOMAIN conns : /\ conns'[d].key = conns[d].key
                                    /\ conns'[d].tracked = conns[d].tracked
                                    /\ d # c => conns'[d].st = conns[d].st
         /\ conns'[c].st = st
<1> DEFINE r == [conns[c] EXCEPT !.st = st]
<1>1. conns \in Seq(ConnType) /\ conns[c] \in ConnType
  BY DEF TypeInv
<1>2. r.key = conns[c].key /\ r.st = st /\ r.tracked = conns[c].tracked
  BY <1>1 DEF ConnType
<1>3. conns' = [conns EXCEPT ![c] = r]
  OBVIOUS
<1> HIDE DEF r
<1> QED BY <1>2, <1>3

LEMMA ReturnConnectFlows ==
  ASSUME IInv, NEW c \in DOMAIN conns, ReturnConnect(c)
  PROVE  \E f : Flowing(f)
<1> DEFINE f == Written(setup.layout, "connect", conns[c].key, {},
                        [conn |-> c, at |-> now, process |-> conns[c].process])
<1>0. TypeInv
  BY DEF IInv
<1>1. f \in Frames /\ f.kind = "connect" /\ f.body.conn = c /\ f.key = conns[c].key
  BY <1>0, ConnectFrame
<1>2. /\ conns[c].st = "connecting" /\ conns' = [conns EXCEPT ![c].st = "open"]
      /\ conns[c].tracked => Emit(f)
      /\ ~conns[c].tracked => NoFrame
      /\ UNCHANGED <<machine, attachment, reading, answered, missed, strayed>>
  BY DEF ReturnConnect
<1> HIDE DEF f
<1>3. /\ \/ ring' = Append(ring, f) /\ lost'.frames = lost.frames
         \/ ring' = ring /\ lost'.frames = lost.frames + 1
         \/ ring' = ring /\ lost' = lost /\ ~conns[c].tracked
      /\ lost.frames \in Nat
  BY <1>0, <1>2, EmitOrLoss DEF NoFrame, TypeInv
<1>4. /\ DOMAIN conns' = DOMAIN conns
      /\ \A d \in DOMAIN conns : /\ conns'[d].key = conns[d].key
                                 /\ conns'[d].tracked = conns[d].tracked
                                 /\ d # c => conns'[d].st = conns[d].st
      /\ conns'[c].st = "open"
  BY <1>0, <1>2, StateSetElse DEF States
<1>5. Flowing(f)
  BY <1>1, <1>2, <1>3, <1>4 DEF Flowing, Begun, Over, Connects, reading
<1> QED BY <1>5

LEMMA FailConnectFlows ==
  ASSUME IInv, NEW c \in DOMAIN conns, FailConnect(c)
  PROVE  Flowing(None)
<1>1. /\ conns[c].st = "connecting" /\ conns' = [conns EXCEPT ![c].st = "failed"]
      /\ ring' = ring /\ lost' = lost
      /\ UNCHANGED <<machine, attachment, reading, answered, missed, strayed>>
  BY DEF FailConnect
<1>2. /\ DOMAIN conns' = DOMAIN conns
      /\ \A d \in DOMAIN conns : /\ conns'[d].key = conns[d].key
                                 /\ conns'[d].tracked = conns[d].tracked
                                 /\ d # c => conns'[d].st = conns[d].st
      /\ conns'[c].st = "failed"
  BY <1>1, StateSetElse DEF States, IInv
<1> QED BY <1>1, <1>2 DEF Flowing, Begun, reading

\* Traffic that begins and ends no connection.
Calm(f) ==
  /\ DOMAIN conns' = DOMAIN conns
  /\ \A d \in DOMAIN conns : /\ conns'[d].key = conns[d].key /\ conns'[d].st = conns[d].st
                             /\ conns'[d].tracked = conns[d].tracked
  /\ f \in Frames /\ ~Turns(f)
  /\ Emit(f) \/ NoFrame
  /\ UNCHANGED <<missed, reading>>

LEMMA CalmFlows ==
  ASSUME TypeInv, NEW f, Calm(f)
  PROVE  Flowing(f)
<1>1. /\ \/ ring' = Append(ring, f) /\ lost'.frames = lost.frames
         \/ ring' = ring /\ lost'.frames = lost.frames + 1
         \/ ring' = ring /\ lost' = lost
      /\ lost.frames \in Nat
  BY EmitOrLoss DEF NoFrame, TypeInv, Calm
<1>2. f.kind # "connect"
  BY DEF Calm, Turns
<1> QED BY <1>1, <1>2 DEF Flowing, Calm, Begun, reading

LEMMA TransferFlows ==
  ASSUME IInv, NEW c \in DOMAIN conns, NEW hook \in Volumes, Transfer(c, hook)
  PROVE  \E f : Flowing(f)
<1> DEFINE f == Frame("volume", c)
           r == [conns[c] EXCEPT !.calls = @ + 1]
<1>0. TypeInv
  BY DEF IInv
<1>1. f \in Frames /\ ~Turns(f)
  BY <1>0, OtherFrame DEF Turns
<1>2. /\ conns' = [conns EXCEPT ![c] = r]
      /\ Emit(f) \/ NoFrame
      /\ UNCHANGED <<machine, attachment, reading, answered, missed, strayed>>
  BY DEF Transfer
<1>3. conns \in Seq(ConnType) /\ conns[c] \in ConnType
  BY <1>0 DEF TypeInv
<1>4. r.key = conns[c].key /\ r.st = conns[c].st /\ r.tracked = conns[c].tracked
  BY <1>3 DEF ConnType
<1> HIDE DEF f, r
<1>5. Calm(f)
  BY <1>1, <1>2, <1>3, <1>4 DEF Calm
<1> QED BY <1>0, <1>5, CalmFlows

LEMMA GreetFlows ==
  ASSUME IInv, NEW c \in DOMAIN conns, NEW hello \in setup.hellos, Greet(c, hello)
  PROVE  \E f : Flowing(f)
<1> DEFINE f == Sample(conns[c].key, c, {}, hello)
           r == [conns[c] EXCEPT !.greeted = TRUE]
<1>0. TypeInv
  BY DEF IInv
<1>1. f \in Frames /\ ~Turns(f)
  BY <1>0, HelloFrame DEF Turns
<1>2. /\ conns' = [conns EXCEPT ![c] = r] \/ conns' = conns
      /\ Emit(f) \/ NoFrame
      /\ UNCHANGED <<machine, attachment, reading, answered, missed>>
  BY DEF Greet
<1>3. conns \in Seq(ConnType) /\ conns[c] \in ConnType
  BY <1>0 DEF TypeInv
<1>4. r.key = conns[c].key /\ r.st = conns[c].st /\ r.tracked = conns[c].tracked
  BY <1>3 DEF ConnType
<1> HIDE DEF f, r
<1>5. Calm(f)
  BY <1>1, <1>2, <1>3, <1>4 DEF Calm
<1> QED BY <1>0, <1>5, CalmFlows

LEMMA AnswerFlows ==
  ASSUME IInv, NEW k \in setup.keys, NEW message \in setup.answers, Answer(k, message)
  PROVE  \E f : Flowing(f)
<1> DEFINE f == Sample(k, None, {"payload_is_dns"}, message)
<1>0. TypeInv
  BY DEF IInv
<1>1. f \in Frames /\ ~Turns(f)
  BY <1>0, AnswerFrame DEF Turns
<1>2. Emit(f) /\ conns' = conns /\ UNCHANGED <<reading, missed>>
  BY DEF Answer
<1> HIDE DEF f
<1>3. Calm(f)
  BY <1>1, <1>2 DEF Calm
<1> QED BY <1>0, <1>3, CalmFlows

LEMMA CloseFlows ==
  ASSUME IInv, NEW c \in DOMAIN conns, Close(c)
  PROVE  \E f : Flowing(f)
<1> DEFINE f == Frame("close", c)
<1>0. TypeInv
  BY DEF IInv
<1>1. f \in Frames /\ f.kind = "close" /\ f.body.conn = c /\ f.key = conns[c].key
  BY <1>0, OtherFrame
<1>2. /\ conns[c].st = "open" /\ conns' = [conns EXCEPT ![c].st = "closed"]
      /\ Emit(f) \/ NoFrame
      /\ UNCHANGED <<machine, attachment, reading, answered, strayed>>
  BY DEF Close
<1>3. \/ missed' = missed /\ ring' = Append(ring, f)
      \/ missed' = missed \cup {c}
  BY DEF Close, Emit
<1> HIDE DEF f
<1>4. /\ \/ ring' = Append(ring, f) /\ lost'.frames = lost.frames
         \/ ring' = ring /\ lost'.frames = lost.frames + 1
         \/ ring' = ring /\ lost' = lost
      /\ lost.frames \in Nat
  BY <1>0, <1>2, EmitOrLoss DEF NoFrame, TypeInv
<1>5. /\ DOMAIN conns' = DOMAIN conns
      /\ \A d \in DOMAIN conns : /\ conns'[d].key = conns[d].key
                                 /\ conns'[d].tracked = conns[d].tracked
                                 /\ d # c => conns'[d].st = conns[d].st
      /\ conns'[c].st = "closed"
  BY <1>0, <1>2, StateSetElse DEF States
<1>6. /\ missed' = {} => missed = {}
      /\ missed' # {} \/ ring' = Append(ring, f)
  BY <1>3
<1>7. ASSUME NEW d \in DOMAIN conns
      PROVE  Begun(d) <=> Begun(d)'
  BY <1>2, <1>5 DEF Begun
<1>8. /\ f.kind # "connect" /\ conns[c].st \notin Over
      /\ \A d \in DOMAIN conns : d # c => conns'[d].st = conns[d].st
  BY <1>1, <1>2, <1>5 DEF Over
<1>9. Flowing(f)
  BY <1>1, <1>2, <1>4, <1>5, <1>6, <1>7, <1>8 DEF Flowing, reading
<1> QED BY <1>9

LEMMA EnterConnectFlows ==
  ASSUME IInv, NEW k \in setup.keys, NEW p \in setup.procs, EnterConnect(k, p)
  PROVE  Flowing(None)
<1>0. conns \in Seq(ConnType) /\ lost \in [frames : Nat, calls : Nat]
  BY DEF IInv, TypeInv
<1>1. PICK tracked \in BOOLEAN :
        /\ conns' = Append(conns, [key |-> k, process |-> p, st |-> "connecting",
                                   tracked |-> tracked, greeted |-> FALSE, calls |-> 0])
        /\ lost' = IF "connect" \in hooks /\ ~tracked
                     THEN [lost EXCEPT !.calls = @ + 1] ELSE lost
  BY DEF EnterConnect
<1> DEFINE r == [key |-> k, process |-> p, st |-> "connecting",
                 tracked |-> tracked, greeted |-> FALSE, calls |-> 0]
<1>2. conns' = Append(conns, r) /\ r.st = "connecting" /\ ring' = ring
      /\ UNCHANGED <<reading, missed>>
  BY <1>1 DEF EnterConnect
<1>3. lost'.frames = lost.frames
  BY <1>0, <1>1
<1> HIDE DEF r
<1>4. /\ \A d \in DOMAIN conns : d \in DOMAIN conns' /\ conns'[d] = conns[d]
      /\ \A d \in DOMAIN conns' : d \notin DOMAIN conns => conns'[d] = r
  <2>1. /\ Len(conns) \in Nat /\ DOMAIN conns = 1 .. Len(conns)
        /\ DOMAIN conns' = 1 .. Len(conns) + 1
        /\ conns'[Len(conns) + 1] = r /\ \A d \in DOMAIN conns : conns'[d] = conns[d]
    BY <1>0, <1>2
  <2>2. \A d \in 1 .. Len(conns) + 1 : d \notin 1 .. Len(conns) => d = Len(conns) + 1
    BY <2>1
  <2> QED BY <2>1, <2>2
<1> QED BY <1>2, <1>3, <1>4 DEF Flowing, Begun, reading

LEMMA TrafficFlows ==
  ASSUME IInv, Traffic
  PROVE  \E f : Flowing(f)
<1>1. CASE \E k \in setup.keys : \/ \E p \in setup.procs : EnterConnect(k, p)
                                 \/ \E message \in setup.answers : Answer(k, message)
  BY <1>1, EnterConnectFlows, AnswerFlows
<1>2. CASE \E c \in DOMAIN conns :
             \/ ReturnConnect(c) \/ FailConnect(c) \/ Close(c)
             \/ \E hook \in Volumes : Transfer(c, hook)
             \/ \E hello \in setup.hellos : Greet(c, hello)
  BY <1>2, ReturnConnectFlows, FailConnectFlows, CloseFlows, TransferFlows, GreetFlows
<1> QED BY <1>1, <1>2 DEF Traffic

\* What was attached goes while nothing is held, and no connection is watched any more.
LEMMA DetachPlaces ==
  ASSUME IInv, PlacedInv, Detach, stage # "reading",
         UNCHANGED <<missed, recorded, asm, rejected>>
  PROVE  PlacedInv'
<1>0. /\ DOMAIN asm.live = {} /\ ring' = <<>> /\ Len(ring') = 0
      /\ DOMAIN conns' = DOMAIN conns
      /\ \A c \in DOMAIN conns : conns'[c].key = conns[c].key /\ conns'[c].st = conns[c].st
                                 /\ ~conns'[c].tracked
  <2>1. \A c \in DOMAIN conns : conns[c] \in ConnType
    BY DEF IInv, TypeInv
  <2>2. \A c \in DOMAIN conns : conns'[c] = [conns[c] EXCEPT !.tracked = FALSE]
    BY DEF Detach
  <2>3. ASSUME NEW c \in DOMAIN conns
        PROVE  conns'[c].key = conns[c].key /\ conns'[c].st = conns[c].st /\ ~conns'[c].tracked
    BY <2>1, <2>2 DEF ConnType
  <2> QED BY <2>3 DEF IInv, StageInv, Detach
<1>1. \A c : /\ Held(c)' = Held(c) /\ Ended(c)' = Ended(c) /\ Told(c)' = Told(c)
             /\ ~Waits(c)'
  BY <1>0 DEF Held, Ended, Told, Waits
<1>2. PlacesInv'
  BY <1>0, <1>1 DEF PlacedInv, PlacesInv, Placed, Begun
<1>3. OnceInv'
  BY <1>0, <1>1 DEF PlacedInv, OnceInv, WaitsOnce, EndedOnce, ToldOnce
<1>4. TurnsInv' /\ ClosesInv' /\ SomewhereInv'
  BY <1>0 DEF TurnsInv, RingTurns, HeldTurns, ClosesInv, SomewhereInv
<1>5. Named(asm)'
  BY DEF PlacedInv, Named, IsNamed, MapOK
<1> QED BY <1>2, <1>3, <1>4, <1>5 DEF PlacedInv

(***************************************************************************)
(* A frame is taken                                                        *)
(***************************************************************************)

\* What a reader took for a name is one.
LEMMA EventNames ==
  ASSUME NEW f \in Frames, ~HasFailed(KernelEventFrom(f)), f.kind = "payload"
  PROVE  LET facts == KernelEventFrom(f).facts
         IN  /\ About(f) => IsNamed(facts)
             /\ ~About(f) => /\ Len(facts) \in Nat
                             /\ \A i \in 1 .. Len(facts) : facts[i].name \in Nat
<1>1. Decodable(f)
  BY DEF KernelEventFrom, HasFailed, Failed
<1>2. KernelEventFrom(f) = FactsFrom(f)
  BY <1>1, PayloadEvent
<1>3. CASE About(f)
  <2>1. PICK p \in HelloPackets : f.body.sample = p.cells
    BY <1>3, FrameFacts DEF Opens
  <2>2. /\ ~HasFailed(ParseClientHello(p.cells))
        /\ KernelEventFrom(f).facts = ParseClientHello(p.cells).hello
    BY <1>1, <1>2, <1>3, <2>1, SampleEvent
  <2>3. PICK s \in Setups : p \in s.hellos
    BY DEF HelloPackets
  <2> QED BY <1>3, <2>2, <2>3, SensorAssumption DEF ReadsNames, IsNamed
<1>4. CASE ~About(f)
  <2>1. PICK p \in AnswerPackets : f.body.sample = p.cells
    BY <1>4, FrameFacts
  <2>2. /\ ~HasFailed(ParseResponse(p.cells))
        /\ KernelEventFrom(f).facts = ParseResponse(p.cells).answers
    BY <1>1, <1>2, <1>4, <2>1, SampleEvent
  <2>3. PICK s \in Setups : p \in s.answers
    BY DEF AnswerPackets
  <2> QED BY <1>4, <2>2, <2>3, SensorAssumption DEF ReadsNames
<1> QED BY <1>3, <1>4

\* The flows of b are those of a, of the same connections, and new ones of none.
SameConns(a, b) ==
  /\ b.closed = a.closed /\ DOMAIN a.live \subseteq DOMAIN b.live
  /\ \A k \in DOMAIN b.live :
       b.live[k].conn = IF k \in DOMAIN a.live THEN a.live[k].conn ELSE None
\* The flow of the key is of connection c now.
Connected(a, b, k, c) ==
  /\ b.closed = a.closed /\ DOMAIN b.live = DOMAIN a.live \cup {k}
  /\ b.live[k].conn = c /\ \A x \in DOMAIN a.live : x # k => b.live[x] = a.live[x]
\* The flow of the key has ended.
MovedOn(a, b, k) ==
  LET n == Len(a.closed) + 1
  IN  /\ DOMAIN b.live = DOMAIN a.live \ {k}
      /\ \A x \in DOMAIN b.live : b.live[x] = a.live[x]
      /\ n \in DOMAIN b.closed
      /\ \A i \in DOMAIN b.closed :
           IF i = n THEN b.closed[n].flow.conn = a.live[k].conn
           ELSE i \in DOMAIN a.closed /\ b.closed[i] = a.closed[i]
      /\ \A i \in DOMAIN a.closed : i # n /\ i \in DOMAIN b.closed

LEMMA IngestDetail ==
  ASSUME AssemblerType(asm), Named(asm), NEW f \in Frames, ~HasFailed(KernelEventFrom(f))
  PROVE  LET b == Ingest(asm, KernelEventFrom(f))
         IN  /\ Named(b)
             /\ f.kind = "connect" => Connected(asm, b, f.key, f.body.conn)
             /\ f.kind = "close" =>
                  IF f.key \in DOMAIN asm.live THEN MovedOn(asm, b, f.key) ELSE SameConns(asm, b)
             /\ f.kind \in {"volume", "payload"} => SameConns(asm, b)
<1> DEFINE e == KernelEventFrom(f)
           a == Noted(asm, e)
           b == Ingest(asm, e)
<1>0. /\ e.key = f.key /\ e.conn = f.body.conn /\ e.at = f.body.at
      /\ About(f) => /\ e.kind = IF f.kind = "payload" THEN "handshake" ELSE f.kind
                     /\ e.kind = "connect" => e.facts \in Processes
                     /\ e.kind = "handshake" => e.facts \in HelloFacts
      /\ ~About(f) => e.kind = "answers"
  BY EventFacts
<1>1. /\ f.key \in UsedKeys /\ f.body.at \in Nat
      /\ About(f) => f.body.conn \in Nat
      /\ f.kind \in {"connect", "volume", "close", "payload"}
      /\ f.kind # "payload" => About(f)
  BY FrameFacts DEF About
<1>2. AssemblerType(a) /\ a.live = asm.live /\ a.closed = asm.closed /\ a.dns = asm.dns
  BY NotedFacts DEF AssemblerType
<1>3. /\ e.kind = "connect" => b = OnConnect(a, e)
      /\ e.kind = "volume" => b = OnVolume(a, e)
      /\ e.kind = "close" => b = OnClose(a, e)
      /\ e.kind = "handshake" => b = OnHandshake(a, e)
      /\ e.kind = "answers" => b = OnAnswers(a, e)
  BY IngestIs
<1>4. f.kind = "payload" =>
        /\ About(f) => IsNamed(e.facts)
        /\ ~About(f) => /\ Len(e.facts) \in Nat
                        /\ \A i \in 1 .. Len(e.facts) : e.facts[i].name \in Nat
  BY EventNames
<1>5. /\ MapOK(a.dns)
      /\ \A k \in DOMAIN a.live : IsNamed(a.live[k].hello)
      /\ \A i \in DOMAIN a.closed : IsNamed(a.closed[i].flow.hello)
  BY <1>2 DEF Named
<1>6. /\ e.key \in DOMAIN a.live => PendingAt(a, e) = a.live[e.key]
      /\ e.key \notin DOMAIN a.live => PendingAt(a, e).conn = None
      /\ IsNamed(PendingAt(a, e).hello)
  <2>1. e.at \in Nat
    BY <1>0, <1>1
  <2>2. /\ e.key \in DOMAIN a.live => PendingAt(a, e) = a.live[e.key]
        /\ e.key \notin DOMAIN a.live => PendingAt(a, e).conn = None
    BY <1>2, <2>1, PendingAtFacts
  <2>3. e.key \notin DOMAIN a.live => PendingAt(a, e).hello = None
    BY DEF PendingAt, Opened
  <2> QED BY <1>5, <2>2, <2>3 DEF IsNamed
<1> SUFFICES /\ Named(b)
             /\ f.kind = "connect" => Connected(asm, b, f.key, f.body.conn)
             /\ f.kind = "close" =>
                  IF f.key \in DOMAIN asm.live THEN MovedOn(asm, b, f.key) ELSE SameConns(asm, b)
             /\ f.kind \in {"volume", "payload"} => SameConns(asm, b)
  OBVIOUS
<1> HIDE DEF e, a, b
<1>7. CASE ~About(f)
  <2>1. /\ OnAnswers(a, e).live = a.live /\ OnAnswers(a, e).closed = a.closed
        /\ OnAnswers(a, e).dns = ObserveAnswers(a.dns, e.facts, e.at)
    BY <1>2, AnswersFacts
  <2>2. /\ b.live = a.live /\ b.closed = a.closed
        /\ b.dns = ObserveAnswers(a.dns, e.facts, e.at)
    BY <1>0, <1>3, <1>7, <2>1
  <2>3. MapOK(ObserveAnswers(a.dns, e.facts, e.at))
    <3>1. Len(e.facts) \in Nat /\ \A i \in 1 .. Len(e.facts) : e.facts[i].name \in Nat
      BY <1>1, <1>4, <1>7
    <3> QED BY <1>5, <3>1, ObserveAnswersKeeps
  <2>4. Named(b)
    BY <1>5, <2>2, <2>3 DEF Named
  <2>5. SameConns(asm, b) /\ f.kind = "payload"
    BY <1>1, <1>2, <1>7, <2>2 DEF SameConns
  <2> QED BY <2>4, <2>5
<1>8. CASE About(f) /\ f.kind = "connect"
  <2>1. e.kind = "connect"
    BY <1>0, <1>8
  <2>2. e.at \in Nat /\ e.key \in UsedKeys /\ e.conn \in Nat /\ e.facts \in Processes
    BY <1>0, <1>1, <1>8, <2>1
  <2>3. /\ OnConnect(a, e).closed = a.closed /\ OnConnect(a, e).dns = a.dns
        /\ DOMAIN OnConnect(a, e).live = DOMAIN a.live \cup {e.key}
        /\ \A k \in DOMAIN a.live : k # e.key => OnConnect(a, e).live[k] = a.live[k]
        /\ OnConnect(a, e).live[e.key].conn = e.conn
        /\ OnConnect(a, e).live[e.key].hello = PendingAt(a, e).hello
    BY <1>2, <2>2, ConnectFacts
  <2>4. /\ b.closed = a.closed /\ b.dns = a.dns
        /\ DOMAIN b.live = DOMAIN a.live \cup {e.key}
        /\ \A k \in DOMAIN a.live : k # e.key => b.live[k] = a.live[k]
        /\ b.live[e.key].conn = e.conn /\ b.live[e.key].hello = PendingAt(a, e).hello
    BY <1>3, <2>1, <2>3
  <2>5. Named(b)
    BY <1>5, <1>6, <2>4 DEF Named
  <2>6. Connected(asm, b, f.key, f.body.conn)
    BY <1>0, <1>2, <2>4 DEF Connected
  <2> QED BY <1>8, <2>5, <2>6
<1>9. CASE About(f) /\ f.kind = "payload"
  <2>1. e.kind = "handshake"
    BY <1>0, <1>9
  <2>2. e.at \in Nat /\ e.key \in UsedKeys /\ e.conn \in Nat /\ e.facts \in HelloFacts
    BY <1>0, <1>1, <1>9, <2>1
  <2>3. /\ OnHandshake(a, e).closed = a.closed /\ OnHandshake(a, e).dns = a.dns
        /\ DOMAIN OnHandshake(a, e).live = DOMAIN a.live \cup {e.key}
        /\ \A k \in DOMAIN a.live : k # e.key => OnHandshake(a, e).live[k] = a.live[k]
        /\ OnHandshake(a, e).live[e.key].conn = PendingAt(a, e).conn
        /\ OnHandshake(a, e).live[e.key].hello = e.facts
    BY <1>2, <2>2, HandshakeFacts
  <2>4. /\ b.closed = a.closed /\ b.dns = a.dns
        /\ DOMAIN b.live = DOMAIN a.live \cup {e.key}
        /\ \A k \in DOMAIN a.live : k # e.key => b.live[k] = a.live[k]
        /\ b.live[e.key].conn = PendingAt(a, e).conn /\ b.live[e.key].hello = e.facts
    BY <1>3, <2>1, <2>3
  <2>5. Named(b)
    BY <1>4, <1>5, <1>9, <2>4 DEF Named
  <2>6. SameConns(asm, b)
    BY <1>2, <1>6, <2>4 DEF SameConns
  <2> QED BY <1>9, <2>5, <2>6
<1>10. CASE About(f) /\ f.kind = "volume" /\ e.key \in DOMAIN a.live
  <2>1. e.kind = "volume" /\ e.conn \in Nat
    BY <1>0, <1>1, <1>10
  <2>2. /\ OnVolume(a, e).closed = a.closed /\ OnVolume(a, e).dns = a.dns
        /\ DOMAIN OnVolume(a, e).live = DOMAIN a.live
        /\ \A k \in DOMAIN a.live : k # e.key => OnVolume(a, e).live[k] = a.live[k]
        /\ OnVolume(a, e).live[e.key].conn = a.live[e.key].conn
        /\ OnVolume(a, e).live[e.key].hello = a.live[e.key].hello
    BY <1>2, <1>10, <2>1, VolumeFacts
  <2>3. /\ b.closed = a.closed /\ b.dns = a.dns
        /\ DOMAIN b.live = DOMAIN a.live
        /\ \A k \in DOMAIN a.live : /\ b.live[k].conn = a.live[k].conn
                                    /\ b.live[k].hello = a.live[k].hello
    BY <1>3, <2>1, <2>2
  <2>4. Named(b)
    BY <1>5, <2>3 DEF Named, IsNamed
  <2>5. SameConns(asm, b)
    BY <1>2, <2>3 DEF SameConns
  <2> QED BY <1>10, <2>4, <2>5
<1>11. CASE About(f) /\ f.kind \in {"volume", "close"} /\ e.key \notin DOMAIN a.live
  <2>1. b = OnVolume(a, e)
    BY <1>0, <1>2, <1>3, <1>11, UnlinkedFacts
  <2>2. b.live = a.live /\ b.closed = a.closed /\ b.dns = a.dns
    BY <1>2, <1>11, <2>1, UnlinkedFacts
  <2>3. Named(b)
    BY <1>5, <2>2 DEF Named
  <2>4. SameConns(asm, b) /\ f.key \notin DOMAIN asm.live
    BY <1>0, <1>2, <1>11, <2>2 DEF SameConns
  <2> QED BY <1>11, <2>3, <2>4
<1>12. CASE About(f) /\ f.kind = "close" /\ e.key \in DOMAIN a.live
  <2>1. e.kind = "close"
    BY <1>0, <1>12
  <2> DEFINE n == Len(a.closed) + 1
  <2>2. /\ AssemblerType(OnClose(a, e)) /\ Len(OnClose(a, e).closed) = n
        /\ DOMAIN OnClose(a, e).live = DOMAIN a.live \ {e.key}
        /\ \A k \in DOMAIN OnClose(a, e).live : OnClose(a, e).live[k] = a.live[k]
        /\ \A i \in DOMAIN a.closed : OnClose(a, e).closed[i] = a.closed[i]
        /\ OnClose(a, e).closed[n].flow.conn = a.live[e.key].conn
        /\ OnClose(a, e).closed[n].flow.hello = a.live[e.key].hello
        /\ OnClose(a, e).dns = a.dns
    <3>1. AssemblerType(a) /\ e.key \in DOMAIN a.live
      BY <1>2, <1>12
    <3> HIDE DEF n
    <3>2. n = Len(a.closed) + 1
      BY DEF n
    <3> QED BY ONLY <3>1, <3>2, CloseFacts
  <2> HIDE DEF n
  <2>3. /\ AssemblerType(b) /\ Len(b.closed) = n /\ b.dns = a.dns
        /\ DOMAIN b.live = DOMAIN a.live \ {e.key}
        /\ \A k \in DOMAIN b.live : b.live[k] = a.live[k]
        /\ \A i \in DOMAIN a.closed : b.closed[i] = a.closed[i]
        /\ b.closed[n].flow.conn = a.live[e.key].conn
        /\ b.closed[n].flow.hello = a.live[e.key].hello
    BY <1>3, <2>1, <2>2
  <2>4. /\ n \in DOMAIN b.closed
        /\ \A i \in DOMAIN b.closed : i # n => i \in DOMAIN a.closed
        /\ \A i \in DOMAIN a.closed : i # n /\ i \in DOMAIN b.closed
    BY <1>2, <2>3 DEF AssemblerType, n
  <2>5. Named(b)
    <3>1. MapOK(b.dns) /\ \A k \in DOMAIN b.live : IsNamed(b.live[k].hello)
      BY <1>5, <2>3
    <3>2. ASSUME NEW i \in DOMAIN b.closed
          PROVE  IsNamed(b.closed[i].flow.hello)
      <4>1. CASE i = n
        BY <1>5, <1>12, <2>3, <4>1
      <4>2. CASE i # n
        BY <1>5, <2>3, <2>4, <4>2
      <4> QED BY <4>1, <4>2
    <3> QED BY <3>1, <3>2 DEF Named
  <2>6. MovedOn(asm, b, f.key) /\ f.key \in DOMAIN asm.live
    BY <1>0, <1>2, <1>12, <2>3, <2>4 DEF MovedOn, n
  <2> QED BY <1>12, <2>5, <2>6
<1> QED BY <1>1, <1>7, <1>8, <1>9, <1>10, <1>11, <1>12

\* What the head leaves in the ring.
LEMMA TakesWaits ==
  ASSUME IInv, PlacedInv, Takes
  PROVE  /\ RingTurns'
         /\ \A c \in Nat : /\ WaitsOnce(c)' /\ (Waits(c)' => Waits(c) /\ ~Connects(ring[1], c))
                           /\ Waits(c) => Waits(c)' \/ Connects(ring[1], c)
                           /\ Connects(ring[1], c) => Waits(c)
<1>0. TypeInv /\ OnceInv /\ RingTurns
  BY DEF IInv, PlacedInv, TurnsInv
<1>1. /\ Len(ring) \in Nat /\ Len(ring') = Len(ring) - 1 /\ 1 \in 1 .. Len(ring)
      /\ \A i \in 1 .. Len(ring') : i + 1 \in 1 .. Len(ring) /\ ring'[i] = ring[i + 1]
  BY <1>0, TakesRing
<1>2. RingTurns'
  <2> SUFFICES ASSUME NEW i \in 1 .. Len(ring'), NEW j \in 1 .. Len(ring'), i < j,
                      Turns(ring'[i]), Turns(ring'[j]), ring'[i].key = ring'[j].key
               PROVE  ring'[i].body.conn <= ring'[j].body.conn
    BY DEF RingTurns, Turns
  <2>1. /\ i + 1 \in 1 .. Len(ring) /\ j + 1 \in 1 .. Len(ring) /\ i + 1 < j + 1
        /\ ring'[i] = ring[i + 1] /\ ring'[j] = ring[j + 1]
    BY <1>1
  <2> QED BY <1>0, <2>1 DEF RingTurns
<1> SUFFICES ASSUME NEW c \in Nat
             PROVE  /\ WaitsOnce(c)' /\ (Waits(c)' => Waits(c) /\ ~Connects(ring[1], c))
                    /\ Waits(c) => Waits(c)' \/ Connects(ring[1], c)
                    /\ Connects(ring[1], c) => Waits(c)
  BY <1>2
<1>3. WaitsOnce(c)
  BY <1>0 DEF OnceInv
<1>4. WaitsOnce(c)'
  <2> SUFFICES ASSUME NEW i \in 1 .. Len(ring'), NEW j \in 1 .. Len(ring'),
                      Connects(ring'[i], c), Connects(ring'[j], c)
               PROVE  i = j
    BY DEF WaitsOnce, Connects
  <2>1. /\ i + 1 \in 1 .. Len(ring) /\ ring'[i] = ring[i + 1]
        /\ j + 1 \in 1 .. Len(ring) /\ ring'[j] = ring[j + 1]
    BY <1>1
  <2>2. i + 1 = j + 1
    BY <1>3, <2>1 DEF WaitsOnce
  <2> QED BY <2>2
<1>5. ASSUME Waits(c)'
      PROVE  Waits(c) /\ ~Connects(ring[1], c)
  <2>1. PICK i \in 1 .. Len(ring') : Connects(ring'[i], c)
    BY <1>5 DEF Waits, Connects
  <2>2. i + 1 \in 1 .. Len(ring) /\ Connects(ring[i + 1], c) /\ i + 1 # 1
    BY <1>1, <2>1
  <2> QED BY <1>1, <1>3, <2>2 DEF Waits, WaitsOnce
<1>6. ASSUME Waits(c), ~Connects(ring[1], c)
      PROVE  Waits(c)'
  <2>1. PICK i \in 1 .. Len(ring) : Connects(ring[i], c)
    BY <1>6 DEF Waits
  <2>2. i # 1
    BY <1>6, <2>1
  <2>3. i - 1 \in 1 .. Len(ring') /\ (i - 1) + 1 = i
    BY <1>1, <2>2
  <2>4. ring'[i - 1] = ring[i]
    BY <1>1, <2>3
  <2> QED BY <2>1, <2>3, <2>4 DEF Waits, Connects
<1> QED BY <1>1, <1>4, <1>5, <1>6 DEF Waits

\* A connect behind the head still has its close behind it.
LEMMA TakesCloses ==
  ASSUME IInv, PlacedInv, Takes, missed = {}, ~Unread,
         NEW i \in 1 .. Len(ring'), ring'[i].kind = "connect"
  PROVE  LastsThen(ring'[i].body.conn, i + 1)
<1>1. /\ i + 1 \in 1 .. Len(ring) /\ ring'[i] = ring[i + 1] /\ i + 1 \in Nat \ {0}
  BY TakesRing DEF IInv
<1>2. Lasts(ring[i + 1].body.conn, i + 1 + 1)
  BY <1>1 DEF PlacedInv, ClosesInv
<1> QED BY <1>1, <1>2, TakesLasts DEF IInv

\* A flow that is held and not of the head's key keeps its close before it.
LEMMA HeldCloses ==
  ASSUME IInv, PlacedInv, Takes, missed = {}, ~Unread,
         NEW k \in DOMAIN asm.live, asm.live[k].conn \in Nat,
         ring[1].kind # "close" \/ ring[1].key # k
  PROVE  LastsThen(asm.live[k].conn, 1)
<1> DEFINE d == asm.live[k].conn
<1>1. d \in DOMAIN conns /\ conns[d].key = k
  BY DEF PlacedInv, PlacesInv, Placed, Held
<1>2. ~(ring[1].kind = "close" /\ ring[1].body.conn = d)
  <2>1. SUFFICES ASSUME ring[1].kind = "close", ring[1].body.conn = d
                 PROVE  FALSE
    OBVIOUS
  <2>2. conns[d].key = ring[1].key
    BY <2>1, TakesRing DEF IInv, FlowsInv, FramesInv, About
  <2> QED BY <1>1, <2>1, <2>2
<1>3. Lasts(d, 1)
  BY DEF PlacedInv, ClosesInv
<1> HIDE DEF d
<1>4. LastsThen(d, 1)
  BY <1>2, <1>3, PastHead, TakesLasts DEF IInv
<1> QED BY <1>4 DEF d

\* And so the turns of what is left are behind what is held.
LEMMA TakesTurns ==
  ASSUME IInv, PlacedInv, Takes,
         NEW k \in DOMAIN asm.live, asm.live[k].conn \in Nat,
         NEW i \in 1 .. Len(ring'), Turns(ring'[i]), ring'[i].key = k
  PROVE  asm.live[k].conn <= ring'[i].body.conn
<1>1. i + 1 \in 1 .. Len(ring) /\ ring'[i] = ring[i + 1]
  BY TakesRing DEF IInv
<1> QED BY <1>1 DEF PlacedInv, TurnsInv, HeldTurns

\* What taking the head says in each of the cases below.
TakesOnly ==
  /\ Takes /\ UNCHANGED <<lost, recorded>>
  /\ Unread => Unread'

\* (A) No connect comes or goes, unless frames cannot be read.
LEMMA TakePlain ==
  ASSUME IInv, PlacedInv, TakesOnly, SameConns(asm, asm'),
         ring[1].kind = "connect" => Unread',
         ring[1].kind = "close" => Unread' \/ ring[1].key \notin DOMAIN asm.live
  PROVE  PlacesInv' /\ OnceInv' /\ TurnsInv' /\ ClosesInv' /\ SomewhereInv'
<1>0. /\ Takes /\ conns' = conns /\ missed' = missed /\ lost' = lost /\ recorded' = recorded
      /\ PlacesInv /\ OnceInv /\ SomewhereInv
  BY DEF TakesOnly, Takes, PlacedInv
<1>1. \A c \in Nat : c # None
  BY NameMapAssumption
<1>2. \A k \in DOMAIN asm'.live : asm'.live[k].conn \in Nat =>
        k \in DOMAIN asm.live /\ asm'.live[k].conn = asm.live[k].conn
  BY <1>1 DEF SameConns
<1>3. \A c \in Nat : /\ Held(c)' = Held(c) /\ Ended(c)' = Ended(c) /\ Told(c)' = Told(c)
                     /\ Waits(c)' => Waits(c)
  BY <1>0, <1>1, TakesWaits DEF SameConns, Held, Ended, Told
<1>4. PlacesInv'
  <2>1. ASSUME NEW c \in Nat, Placed(c)'
        PROVE  c \in DOMAIN conns /\ Begun(c)
    BY <1>0, <1>3, <2>1 DEF PlacesInv, Placed
  <2>2. \A k \in DOMAIN asm'.live : asm'.live[k].conn \in Nat => conns[asm'.live[k].conn].key = k
    BY <1>0, <1>2 DEF PlacesInv
  <2> QED BY <1>0, <2>1, <2>2 DEF PlacesInv, Begun
<1>5. OnceInv'
  <2> SUFFICES ASSUME NEW c \in Nat
               PROVE  /\ WaitsOnce(c)' /\ EndedOnce(c)' /\ ToldOnce(c)'
                      /\ Waits(c)' => ~Held(c)' /\ ~Ended(c)' /\ ~Told(c)'
                      /\ Held(c)' => ~Ended(c)' /\ ~Told(c)'
                      /\ Ended(c)' => ~Told(c)'
    BY DEF OnceInv
  <2>1. WaitsOnce(c)'
    BY <1>0, TakesWaits
  <2>2. EndedOnce(c)' /\ ToldOnce(c)'
    BY <1>0 DEF OnceInv, EndedOnce, ToldOnce, SameConns
  <2> QED BY <1>0, <1>3, <2>1, <2>2 DEF OnceInv
<1>6. TurnsInv'
  <2>1. RingTurns'
    BY <1>0, TakesWaits
  <2>2. ASSUME NEW k \in DOMAIN asm'.live, asm'.live[k].conn \in Nat,
               NEW i \in 1 .. Len(ring'), Turns(ring'[i]), ring'[i].key = k
        PROVE  asm'.live[k].conn <= ring'[i].body.conn
    BY <1>0, <1>2, <2>2, TakesTurns
  <2> QED BY <2>1, <2>2 DEF TurnsInv, HeldTurns, Turns
<1>7. ClosesInv'
  <2> SUFFICES ASSUME missed = {}, ~Unread'
               PROVE  /\ \A i \in 1 .. Len(ring') : ring'[i].kind = "connect" =>
                           LastsThen(ring'[i].body.conn, i + 1)
                      /\ \A k \in DOMAIN asm'.live : asm'.live[k].conn \in Nat =>
                           LastsThen(asm'.live[k].conn, 1)
    BY <1>0 DEF ClosesInv, Lasts, Ends, LastsThen
  <2>1. ~Unread
    BY DEF TakesOnly
  <2>2. ASSUME NEW k \in DOMAIN asm'.live, asm'.live[k].conn \in Nat
        PROVE  LastsThen(asm'.live[k].conn, 1)
    BY <1>0, <1>2, <2>1, <2>2, HeldCloses
  <2> QED BY <1>0, <2>1, <2>2, TakesCloses
<1>8. SomewhereInv'
  <2> SUFFICES ASSUME Intact', NEW c \in DOMAIN conns, conns[c].tracked, Begun(c)
               PROVE  Placed(c)'
    BY <1>0 DEF SomewhereInv, Begun
  <2>1. Intact /\ ~Unread' /\ c \in Nat
    BY <1>0, ConnFacts DEF Intact, TakesOnly, IInv
  <2>2. Placed(c)
    BY <1>0, <2>1 DEF SomewhereInv
  <2>3. ~Connects(ring[1], c)
    BY <2>1 DEF Connects
  <2>4. Waits(c) => Waits(c)'
    BY <1>0, <2>1, <2>3, TakesWaits
  <2> QED BY <1>3, <2>1, <2>2, <2>4 DEF Placed
<1> QED BY <1>4, <1>5, <1>6, <1>7, <1>8

\* (B) A connect is read: its flow is held.  No other was, that is of a connection.
LEMMA TakeConnect ==
  ASSUME IInv, PlacedInv, TakesOnly, ring[1].kind = "connect",
         NEW k0, k0 = ring[1].key, NEW c0, c0 = ring[1].body.conn,
         Connected(asm, asm', k0, c0)
  PROVE  PlacesInv' /\ OnceInv' /\ TurnsInv' /\ ClosesInv' /\ SomewhereInv'
<1>0. /\ Takes /\ conns' = conns /\ missed' = missed /\ lost' = lost /\ recorded' = recorded
      /\ PlacesInv /\ OnceInv /\ SomewhereInv /\ RingTurns /\ HeldTurns /\ ClosesInv
      /\ FramesInv /\ ConnsInv /\ TypeInv
  BY DEF TakesOnly, Takes, PlacedInv, TurnsInv, IInv, FlowsInv
<1>1. /\ 1 \in 1 .. Len(ring) /\ Len(ring) \in Nat
      /\ c0 \in DOMAIN conns /\ conns[c0].key = k0 /\ c0 \in Nat
      /\ Turns(ring[1]) /\ Connects(ring[1], c0)
  <2>1. 1 \in 1 .. Len(ring) /\ Len(ring) \in Nat
    BY <1>0, TakesRing
  <2>2. c0 \in DOMAIN conns /\ conns[c0].key = k0
    BY <1>0, <2>1 DEF FramesInv, About
  <2> QED BY <1>0, <2>1, <2>2, ConnFacts DEF Turns, Connects
<1>2. /\ asm'.closed = asm.closed /\ DOMAIN asm'.live = DOMAIN asm.live \cup {k0}
      /\ asm'.live[k0].conn = c0
      /\ \A k \in DOMAIN asm.live : k # k0 => asm'.live[k] = asm.live[k]
  BY DEF Connected
<1>3. \A c : Connects(ring[1], c) => c = c0
  BY DEF Connects
<1>4. /\ \A c \in Nat : /\ Ended(c)' = Ended(c) /\ Told(c)' = Told(c)
                        /\ Waits(c)' => Waits(c) /\ c # c0
                        /\ Waits(c) => Waits(c)' \/ c = c0
                        /\ Held(c)' => Held(c) \/ c = c0
      /\ Waits(c0) /\ Held(c0)'
  <2>1. \A c \in Nat : /\ Waits(c)' => Waits(c) /\ ~Connects(ring[1], c)
                       /\ Waits(c) => Waits(c)' \/ Connects(ring[1], c)
                       /\ Connects(ring[1], c) => Waits(c)
    BY <1>0, TakesWaits
  <2> QED BY <1>0, <1>1, <1>2, <1>3, <2>1 DEF Ended, Told, Held
<1>5. PlacesInv'
  <2>1. ASSUME NEW c \in Nat, Placed(c)'
        PROVE  c \in DOMAIN conns /\ Begun(c)
    BY <1>0, <1>1, <1>4, <2>1 DEF PlacesInv, Placed
  <2>2. \A k \in DOMAIN asm'.live : asm'.live[k].conn \in Nat => conns[asm'.live[k].conn].key = k
    BY <1>0, <1>1, <1>2 DEF PlacesInv
  <2> QED BY <1>0, <2>1, <2>2 DEF PlacesInv, Begun
<1>6. OnceInv'
  <2> SUFFICES ASSUME NEW c \in Nat
               PROVE  /\ WaitsOnce(c)' /\ EndedOnce(c)' /\ ToldOnce(c)'
                      /\ Waits(c)' => ~Held(c)' /\ ~Ended(c)' /\ ~Told(c)'
                      /\ Held(c)' => ~Ended(c)' /\ ~Told(c)'
                      /\ Ended(c)' => ~Told(c)'
    BY DEF OnceInv
  <2>1. WaitsOnce(c)'
    BY <1>0, TakesWaits
  <2>2. EndedOnce(c)' /\ ToldOnce(c)'
    BY <1>0, <1>2 DEF OnceInv, EndedOnce, ToldOnce
  <2>3. /\ Waits(c) => ~Held(c) /\ ~Ended(c) /\ ~Told(c)
        /\ Held(c) => ~Ended(c) /\ ~Told(c)
        /\ Ended(c) => ~Told(c)
    BY <1>0 DEF OnceInv
  <2> QED BY <1>4, <2>1, <2>2, <2>3
<1>7. TurnsInv'
  <2>1. RingTurns'
    BY <1>0, TakesWaits
  <2>2. ASSUME NEW k \in DOMAIN asm'.live, asm'.live[k].conn \in Nat,
               NEW i \in 1 .. Len(ring'), Turns(ring'[i]), ring'[i].key = k
        PROVE  asm'.live[k].conn <= ring'[i].body.conn
    <3>1. CASE k = k0
      <4>1. i + 1 \in 1 .. Len(ring) /\ ring'[i] = ring[i + 1] /\ 1 < i + 1
        BY <1>0, TakesRing
      <4> QED BY <1>0, <1>1, <1>2, <2>2, <3>1, <4>1 DEF RingTurns
    <3>2. CASE k # k0
      BY <1>0, <1>2, <2>2, <3>2, TakesTurns
    <3> QED BY <3>1, <3>2
  <2> QED BY <2>1, <2>2 DEF TurnsInv, HeldTurns, Turns
<1>8. ClosesInv'
  <2> SUFFICES ASSUME missed = {}, ~Unread'
               PROVE  /\ \A i \in 1 .. Len(ring') : ring'[i].kind = "connect" =>
                           LastsThen(ring'[i].body.conn, i + 1)
                      /\ \A k \in DOMAIN asm'.live : asm'.live[k].conn \in Nat =>
                           LastsThen(asm'.live[k].conn, 1)
    BY <1>0 DEF ClosesInv, Lasts, Ends, LastsThen
  <2>1. ~Unread
    BY DEF TakesOnly
  <2>2. ASSUME NEW k \in DOMAIN asm'.live, asm'.live[k].conn \in Nat
        PROVE  LastsThen(asm'.live[k].conn, 1)
    <3>1. CASE k = k0
      <4>1. Lasts(c0, 1 + 1)
        BY <1>0, <1>1, <2>1 DEF ClosesInv
      <4>2. LastsThen(c0, 1)
        BY <1>0, <4>1, TakesLasts
      <4> QED BY <1>2, <3>1, <4>2
    <3>2. CASE k # k0
      BY <1>0, <1>2, <2>1, <2>2, <3>2, HeldCloses
    <3> QED BY <3>1, <3>2
  <2> QED BY <1>0, <2>1, <2>2, TakesCloses
\* A flow that was held for the key would be of a connection before c0, with its close
\* behind the connect of c0.
<1>9. ASSUME missed = {}, ~Unread, k0 \in DOMAIN asm.live, asm.live[k0].conn \in Nat
      PROVE  FALSE
  <2> DEFINE d == asm.live[k0].conn
  <2>1. d \in DOMAIN conns /\ conns[d].key = k0 /\ Held(d) /\ d \in Nat
    BY <1>0, <1>9 DEF PlacesInv, Placed, Held
  <2>2. d <= c0
    BY <1>0, <1>1, <1>9 DEF HeldTurns
  <2>3. d # c0
    BY <1>0, <1>1, <1>4, <2>1 DEF OnceInv
  <2>4. d < c0
    BY <1>1, <2>1, <2>2, <2>3
  <2>5. conns[d].st # "open"
    BY <1>0, <1>1, <2>1, <2>4 DEF ConnsInv, Over
  <2>6. Lasts(d, 1)
    BY <1>0, <1>9 DEF ClosesInv
  <2>7. PICK j \in 1 .. Len(ring) : ring[j].kind = "close" /\ ring[j].body.conn = d
    BY <2>5, <2>6 DEF Lasts, Ends
  <2>8. Turns(ring[j]) /\ ring[j].key = k0 /\ j # 1
    BY <1>0, <2>1, <2>7 DEF FramesInv, About, Turns
  <2>9. 1 < j
    BY <2>8
  <2>10. c0 <= d
    BY <1>0, <1>1, <2>7, <2>8, <2>9 DEF RingTurns
  <2> QED BY <1>1, <2>1, <2>4, <2>10
<1>10. SomewhereInv'
  <2> SUFFICES ASSUME Intact', NEW c \in DOMAIN conns, conns[c].tracked, Begun(c)
               PROVE  Placed(c)'
    BY <1>0 DEF SomewhereInv, Begun
  <2>1. Intact /\ c \in Nat
    BY <1>0, ConnFacts DEF Intact, TakesOnly
  <2>2. Placed(c)
    BY <1>0, <2>1 DEF SomewhereInv
  <2>3. CASE Held(c)
    <3>1. PICK k \in DOMAIN asm.live : asm.live[k].conn = c
      BY <2>3 DEF Held
    <3>2. k # k0
      BY <1>9, <2>1, <3>1 DEF Intact
    <3>3. Held(c)'
      BY <1>2, <3>1, <3>2 DEF Held
    <3> QED BY <3>3 DEF Placed
  <2>4. CASE ~Held(c)
    BY <1>4, <2>1, <2>2, <2>4 DEF Placed
  <2> QED BY <2>3, <2>4
<1> QED BY <1>5, <1>6, <1>7, <1>8, <1>10

\* (C) A close is read: the flow of its key has ended.
LEMMA TakeClose ==
  ASSUME IInv, PlacedInv, TakesOnly, ring[1].kind = "close",
         NEW k0 \in DOMAIN asm.live, k0 = ring[1].key,
         NEW c0, c0 = asm.live[k0].conn, MovedOn(asm, asm', k0)
  PROVE  PlacesInv' /\ OnceInv' /\ TurnsInv' /\ ClosesInv' /\ SomewhereInv'
<1> DEFINE n == Len(asm.closed) + 1
<1>0. /\ Takes /\ conns' = conns /\ missed' = missed /\ lost' = lost /\ recorded' = recorded
      /\ PlacesInv /\ OnceInv /\ SomewhereInv /\ TypeInv
  BY DEF TakesOnly, Takes, PlacedInv, IInv
<1>1. /\ k0 \in DOMAIN asm.live
      /\ DOMAIN asm'.live = DOMAIN asm.live \ {k0}
      /\ \A k \in DOMAIN asm'.live : asm'.live[k] = asm.live[k]
      /\ n \in DOMAIN asm'.closed
      /\ \A i \in DOMAIN asm'.closed :
           IF i = n THEN asm'.closed[n].flow.conn = c0
           ELSE i \in DOMAIN asm.closed /\ asm'.closed[i] = asm.closed[i]
      /\ \A i \in DOMAIN asm.closed : i # n /\ i \in DOMAIN asm'.closed
  BY DEF MovedOn
<1>2. \A c : ~Connects(ring[1], c)
  BY DEF Connects
<1> HIDE DEF n
<1>3. Held(c0)
  BY DEF Held
<1>4. \A c \in Nat : /\ Told(c)' = Told(c) /\ Waits(c)' = Waits(c)
                     /\ Held(c)' => Held(c)
                     /\ Ended(c)' = (Ended(c) \/ c = c0)
                     /\ Held(c) => Held(c)' \/ c = c0
  <2> SUFFICES ASSUME NEW c \in Nat
               PROVE  /\ Told(c)' = Told(c) /\ Waits(c)' = Waits(c)
                      /\ Held(c)' => Held(c)
                      /\ Ended(c)' = (Ended(c) \/ c = c0)
                      /\ Held(c) => Held(c)' \/ c = c0
    OBVIOUS
  <2>1. Told(c)' = Told(c)
    BY <1>0 DEF Told
  <2>2. Waits(c)' = Waits(c)
    <3>1. (Waits(c)' => Waits(c)) /\ (Waits(c) => Waits(c)')
      BY <1>0, <1>2, TakesWaits
    <3> QED BY <3>1 DEF Waits
  <2>3. (Held(c)' => Held(c)) /\ (Held(c) => Held(c)' \/ c = c0)
    BY <1>1 DEF Held
  <2>4. Ended(c)' = (Ended(c) \/ c = c0)
    BY <1>1 DEF Ended
  <2> QED BY <2>1, <2>2, <2>3, <2>4
\* The flow of the key was the only one of its connection.
<1>5. c0 \in Nat => ~Held(c0)'
  <2> SUFFICES ASSUME c0 \in Nat, NEW k \in DOMAIN asm'.live, asm'.live[k].conn = c0
               PROVE  FALSE
    BY DEF Held
  <2>1. k \in DOMAIN asm.live /\ k # k0 /\ asm.live[k].conn = c0
    BY <1>1
  <2>2. conns[c0].key = k /\ conns[c0].key = k0
    BY <1>0, <1>1, <2>1 DEF PlacesInv
  <2> QED BY <2>1, <2>2
<1>6. PlacesInv'
  <2>1. ASSUME NEW c \in Nat, Placed(c)'
        PROVE  c \in DOMAIN conns /\ Begun(c)
    BY <1>0, <1>3, <1>4, <2>1 DEF PlacesInv, Placed
  <2>2. \A k \in DOMAIN asm'.live : asm'.live[k].conn \in Nat => conns[asm'.live[k].conn].key = k
    BY <1>0, <1>1 DEF PlacesInv
  <2> QED BY <1>0, <2>1, <2>2 DEF PlacesInv, Begun
<1>7. OnceInv'
  <2> SUFFICES ASSUME NEW c \in Nat
               PROVE  /\ WaitsOnce(c)' /\ EndedOnce(c)' /\ ToldOnce(c)'
                      /\ Waits(c)' => ~Held(c)' /\ ~Ended(c)' /\ ~Told(c)'
                      /\ Held(c)' => ~Ended(c)' /\ ~Told(c)'
                      /\ Ended(c)' => ~Told(c)'
    BY DEF OnceInv
  <2>1. WaitsOnce(c)'
    BY <1>0, TakesWaits
  <2>2. ToldOnce(c)'
    BY <1>0 DEF OnceInv, ToldOnce
  <2>3. /\ Waits(c) => ~Held(c) /\ ~Ended(c) /\ ~Told(c)
        /\ Held(c) => ~Ended(c) /\ ~Told(c)
        /\ Ended(c) => ~Told(c)
        /\ EndedOnce(c)
    BY <1>0 DEF OnceInv
  <2>4. EndedOnce(c)'
    <3> SUFFICES ASSUME NEW i \in DOMAIN asm'.closed, NEW j \in DOMAIN asm'.closed,
                        asm'.closed[i].flow.conn = c, asm'.closed[j].flow.conn = c
                 PROVE  i = j
      BY DEF EndedOnce
    <3>1. CASE i # n /\ j # n
      BY <1>1, <2>3, <3>1 DEF EndedOnce
    <3>2. ASSUME NEW x \in DOMAIN asm'.closed, x # n, asm'.closed[x].flow.conn = c, c = c0
          PROVE  FALSE
      <4>1. Ended(c)
        BY <1>1, <3>2 DEF Ended
      <4> QED BY <1>3, <2>3, <3>2, <4>1
    <3> QED BY <1>1, <3>1, <3>2
  <2> QED BY <1>3, <1>4, <1>5, <2>1, <2>2, <2>3, <2>4
<1>8. TurnsInv'
  <2>1. RingTurns'
    BY <1>0, TakesWaits
  <2>2. ASSUME NEW k \in DOMAIN asm'.live, asm'.live[k].conn \in Nat,
               NEW i \in 1 .. Len(ring'), Turns(ring'[i]), ring'[i].key = k
        PROVE  asm'.live[k].conn <= ring'[i].body.conn
    BY <1>0, <1>1, <2>2, TakesTurns
  <2> QED BY <2>1, <2>2 DEF TurnsInv, HeldTurns, Turns
<1>9. ClosesInv'
  <2> SUFFICES ASSUME missed = {}, ~Unread'
               PROVE  /\ \A i \in 1 .. Len(ring') : ring'[i].kind = "connect" =>
                           LastsThen(ring'[i].body.conn, i + 1)
                      /\ \A k \in DOMAIN asm'.live : asm'.live[k].conn \in Nat =>
                           LastsThen(asm'.live[k].conn, 1)
    BY <1>0 DEF ClosesInv, Lasts, Ends, LastsThen
  <2>1. ~Unread
    BY DEF TakesOnly
  <2>2. ASSUME NEW k \in DOMAIN asm'.live, asm'.live[k].conn \in Nat
        PROVE  LastsThen(asm'.live[k].conn, 1)
    <3>1. k \in DOMAIN asm.live /\ ring[1].key # k /\ asm'.live[k] = asm.live[k]
      BY <1>1
    <3> QED BY <1>0, <2>1, <2>2, <3>1, HeldCloses
  <2> QED BY <1>0, <2>1, <2>2, TakesCloses
<1>10. SomewhereInv'
  <2> SUFFICES ASSUME Intact', NEW c \in DOMAIN conns, conns[c].tracked, Begun(c)
               PROVE  Placed(c)'
    BY <1>0 DEF SomewhereInv, Begun
  <2>1. Intact /\ c \in Nat
    BY <1>0, ConnFacts DEF Intact, TakesOnly
  <2>2. Placed(c)
    BY <1>0, <2>1 DEF SomewhereInv
  <2> QED BY <1>4, <2>1, <2>2 DEF Placed
<1> QED BY <1>6, <1>7, <1>8, <1>9, <1>10

LEMMA TakeFramePlaces ==
  ASSUME IInv, PlacedInv, TakeFrame
  PROVE  PlacedInv'
<1> DEFINE f == ring[1]
           e == KernelEventFrom(f)
<1>0. TypeInv /\ AssemblerType(asm) /\ Named(asm)
  BY DEF IInv, TypeInv, PlacedInv
<1>1. /\ ring # <<>> /\ ring' = Tail(ring) /\ Head(ring) = f
      /\ UNCHANGED <<conns, lost, missed, strayed, recorded>>
  BY <1>0 DEF TakeFrame, TypeInv
<1>2. \/ /\ HasFailed(e) /\ rejected' = Counted(e.failed, 1) /\ asm' = asm
      \/ /\ ~HasFailed(e) /\ asm' = Ingest(asm, e) /\ rejected' = rejected
  BY <1>1 DEF TakeFrame
<1>3. TakesOnly
  <2>1. DOMAIN rejected \subseteq DOMAIN rejected'
    BY <1>2, CountedFacts
  <2> QED BY <1>1, <2>1 DEF TakesOnly, Takes, Unread
<1>4. f \in Frames /\ f.kind \in {"connect", "volume", "close", "payload"}
  BY <1>0, <1>3, TakesRing, FrameFacts DEF TakesOnly
<1>5. CASE HasFailed(e) /\ rejected' = Counted(e.failed, 1) /\ asm' = asm
  <2>1. Unread' \/ f.kind = "payload"
    BY <1>4, <1>5, RefusedFrame, CountedFacts DEF Unread
  <2>2. SameConns(asm, asm')
    BY <1>5 DEF SameConns
  <2>3. Named(asm)'
    BY <1>0, <1>5 DEF Named, IsNamed, MapOK
  <2> QED BY <1>3, <2>1, <2>2, <2>3, TakePlain DEF PlacedInv
<1>6. CASE ~HasFailed(e) /\ asm' = Ingest(asm, e)
  <2>1. /\ Named(asm')
        /\ f.kind = "connect" => Connected(asm, asm', f.key, f.body.conn)
        /\ f.kind = "close" =>
             IF f.key \in DOMAIN asm.live THEN MovedOn(asm, asm', f.key) ELSE SameConns(asm, asm')
        /\ f.kind \in {"volume", "payload"} => SameConns(asm, asm')
    BY <1>0, <1>4, <1>6, IngestDetail
  <2>2. Named(asm)'
    BY <2>1 DEF Named, IsNamed, MapOK
  <2>3. CASE f.kind = "connect"
    BY <1>3, <2>1, <2>2, <2>3, TakeConnect DEF PlacedInv
  <2>4. CASE f.kind = "close" /\ f.key \in DOMAIN asm.live
    BY <1>3, <2>1, <2>2, <2>4, TakeClose DEF PlacedInv
  <2>5. CASE f.kind \in {"volume", "payload"} \/ (f.kind = "close" /\ f.key \notin DOMAIN asm.live)
    BY <1>3, <2>1, <2>2, <2>5, TakePlain DEF PlacedInv
  <2> QED BY <1>4, <2>3, <2>4, <2>5
<1> QED BY <1>2, <1>5, <1>6

(***************************************************************************)
(* The window is sealed                                                    *)
(***************************************************************************)

\* A verdict has a host with its source, or neither, and a server name only from a
\* handshake (naming.rs, arbitrate).
LEMMA HostOfFacts ==
  ASSUME NEW hello, IsNamed(hello), NEW names \in SUBSET Nat
  PROVE  LET v == HostOf(hello, names)
         IN  /\ v.sni # None => v.sniSource = "client_hello"
             /\ v.host # None <=> v.hostSource # None
<1>1. CASE hello # None /\ hello.kind = "server_name"
  <2>1. hello.name \in Nat
    BY <1>1 DEF IsNamed
  <2>2. HostOf(hello, names) =
          [host |-> hello.name, sni |-> hello.name, sniSource |-> "client_hello",
           hostSource |-> IF hello.name \in names THEN "dns_and_sni" ELSE "sni"]
    BY <1>1 DEF HostOf, EncryptedHello
  <2> QED BY <2>1, <2>2, NameMapAssumption
<1>2. CASE hello = EncryptedHello
  <2>1. HostOf(hello, names) =
          [host |-> None, sni |-> None, sniSource |-> "encrypted_client_hello",
           hostSource |-> None]
    BY <1>2 DEF HostOf, EncryptedHello
  <2> QED BY <2>1
<1>3. CASE ~(hello # None /\ hello.kind = "server_name") /\ hello # EncryptedHello
  <2>1. HostOf(hello, names) =
          [host |-> PickName(names), sni |-> None, sniSource |-> "absent",
           hostSource |-> IF names = {} THEN None ELSE "dns"]
    BY <1>3 DEF HostOf
  <2> QED BY <2>1, PickNameFacts, NameMapAssumption
<1> QED BY <1>1, <1>2, <1>3

Admitted(o) ==
  FromObservation(IF "tc" \in hooks THEN o ELSE [o EXCEPT !.admits = @ \cup {"tc_unavailable"}])

\* The record of a flow passes its own checks.
LEMMA AdmittedIsValid ==
  ASSUME NEW a, MapOK(a.dns), NEW key, NEW nth, NEW flow, IsNamed(flow.hello)
  PROVE  LET f == Admitted(Finalise(a, key, nth, flow))
         IN  /\ IsValid(f)
             /\ f.key = key /\ f.nth = nth /\ f.conn = flow.conn
<1> DEFINE o == Finalise(a, key, nth, flow)
           p == IF "tc" \in hooks THEN o ELSE [o EXCEPT !.admits = @ \cup {"tc_unavailable"}]
           names == NamesFor(a.dns, AddressOf[key], flow.at)
           fields == {"key", "nth", "conn", "verdict", "attribution", "process"}
<1>1. /\ fields \subseteq DOMAIN o
      /\ o.key = key /\ o.nth = nth /\ o.conn = flow.conn /\ o.process = flow.process
      /\ o.verdict = HostOf(flow.hello, names)
      /\ o.attribution = IF flow.process = None THEN "unattributed" ELSE "kernel_attributed"
  BY DEF Finalise, Arbitrate
<1>2. /\ o.verdict.sni # None => o.verdict.sniSource = "client_hello"
      /\ o.verdict.host # None <=> o.verdict.hostSource # None
  BY <1>1, NamesForFacts, HostOfFacts
<1> HIDE DEF o, names
<1>3. /\ fields \subseteq DOMAIN p /\ \A x \in fields : p[x] = o[x]
  <2>1. CASE "tc" \in hooks
    BY <1>1, <2>1
  <2>2. CASE "tc" \notin hooks
    <3>1. p = [o EXCEPT !.admits = @ \cup {"tc_unavailable"}]
      BY <2>2
    <3>2. DOMAIN p = DOMAIN o /\ \A x \in DOMAIN o : x # "admits" => p[x] = o[x]
      BY <3>1
    <3> QED BY <1>1, <3>2
  <2> QED BY <2>1, <2>2
<1> DEFINE f == FromObservation(p)
<1>4. /\ \A x \in fields : f[x] = p[x]
      /\ f.classification = Classification(p.verdict.host)
  BY <1>3 DEF FromObservation
<1>5. f = Admitted(o)
  BY DEF Admitted
<1> HIDE DEF p, f
<1>6. /\ f.key = key /\ f.nth = nth /\ f.conn = flow.conn /\ f.verdict = o.verdict
      /\ f.attribution = o.attribution /\ f.process = o.process
      /\ f.classification = Classification(o.verdict.host)
  BY <1>1, <1>3, <1>4
<1>7. IsValid(f)
  BY <1>1, <1>2, <1>6 DEF IsValid, Classification
<1> QED BY <1>5, <1>6, <1>7 DEF o

\* A record of a pass: the connection's flow, by its key and place.
Record(key, nth, c) == [pass |-> pass, key |-> key, nth |-> nth, conn |-> c]
ClosedRecord(i) == Record(asm.closed[i].key, i, asm.closed[i].flow.conn)
OpenRecord(k) == Record(k, 0, asm.live[k].conn)

\* Every attributed flow that was sealed is recorded, and nothing else.
LEMMA SealRecords ==
  ASSUME PlacedInv, Seal
  PROVE  /\ \A i \in DOMAIN asm.closed :
              asm.closed[i].flow.conn # None => ClosedRecord(i) \in recorded'
         /\ \A k \in DOMAIN asm.live :
              asm.live[k].conn # None => OpenRecord(k) \in recorded'
         /\ \A r \in recorded' :
              \/ r \in recorded
              \/ \E i \in DOMAIN asm.closed : r = ClosedRecord(i)
              \/ \E k \in DOMAIN asm.live : r = OpenRecord(k)
         /\ recorded \subseteq recorded'
<1> DEFINE admitted == {Admitted(o) : o \in Sealed(asm)}
           fresh == {f \in admitted : IsValid(f) /\ f.conn # None}
           closed(i) == Finalise(asm, asm.closed[i].key, i, asm.closed[i].flow)
           open(k) == Finalise(asm, k, 0, asm.live[k])
<1>1. recorded' = recorded \cup {Record(f.key, f.nth, f.conn) : f \in fresh}
  BY DEF Seal, Record, Admitted
<1>2. ASSUME NEW i \in DOMAIN asm.closed
      PROVE  /\ Admitted(closed(i)) \in admitted /\ IsValid(Admitted(closed(i)))
             /\ Admitted(closed(i)).conn = asm.closed[i].flow.conn
             /\ Record(Admitted(closed(i)).key, Admitted(closed(i)).nth,
                       Admitted(closed(i)).conn) = ClosedRecord(i)
  <2>1. closed(i) \in Sealed(asm)
    BY DEF Sealed
  <2>2. MapOK(asm.dns) /\ IsNamed(asm.closed[i].flow.hello)
    BY DEF PlacedInv, Named
  <2> QED BY <2>1, <2>2, AdmittedIsValid DEF ClosedRecord
<1>3. ASSUME NEW k \in DOMAIN asm.live
      PROVE  /\ Admitted(open(k)) \in admitted /\ IsValid(Admitted(open(k)))
             /\ Admitted(open(k)).conn = asm.live[k].conn
             /\ Record(Admitted(open(k)).key, Admitted(open(k)).nth,
                       Admitted(open(k)).conn) = OpenRecord(k)
  <2>1. open(k) \in Sealed(asm)
    BY DEF Sealed
  <2>2. MapOK(asm.dns) /\ IsNamed(asm.live[k].hello)
    BY DEF PlacedInv, Named
  <2> QED BY <2>1, <2>2, AdmittedIsValid DEF OpenRecord
<1>4. \A f \in admitted : \/ \E i \in DOMAIN asm.closed : f = Admitted(closed(i))
                          \/ \E k \in DOMAIN asm.live : f = Admitted(open(k))
  BY DEF Sealed
<1> HIDE DEF admitted, closed, open
<1>5. ASSUME NEW i \in DOMAIN asm.closed, asm.closed[i].flow.conn # None
      PROVE  ClosedRecord(i) \in recorded'
  BY <1>1, <1>2, <1>5
<1>6. ASSUME NEW k \in DOMAIN asm.live, asm.live[k].conn # None
      PROVE  OpenRecord(k) \in recorded'
  BY <1>1, <1>3, <1>6
<1>7. ASSUME NEW r \in recorded', r \notin recorded
      PROVE  \/ \E i \in DOMAIN asm.closed : r = ClosedRecord(i)
             \/ \E k \in DOMAIN asm.live : r = OpenRecord(k)
  <2>1. PICK f \in fresh : r = Record(f.key, f.nth, f.conn)
    BY <1>1, <1>7
  <2> QED BY <1>2, <1>3, <1>4, <2>1
<1> QED BY <1>1, <1>5, <1>6, <1>7

\* A seal tells of what was held and what had ended, and nothing else moves.
LEMMA SealTells ==
  ASSUME IInv, PlacedInv, Seal, NEW c \in Nat
  PROVE  /\ ~Waits(c)' /\ ~Held(c)' /\ ~Ended(c)' /\ ~Waits(c)
         /\ Told(c)' <=> Told(c) \/ Held(c) \/ Ended(c)
<1>0. /\ DOMAIN asm'.live = {} /\ asm'.closed = <<>>
      /\ ring = <<>> /\ ring' = ring /\ Len(ring) = 0
  BY AfterSealFacts DEF Seal, IInv, TypeInv, kernel
<1>1. ~Waits(c)' /\ ~Held(c)' /\ ~Ended(c)' /\ ~Waits(c)
  BY <1>0 DEF Waits, Held, Ended
<1>2. c # None
  BY NameMapAssumption
<1>3. ASSUME Told(c)'
      PROVE  Told(c) \/ Held(c) \/ Ended(c)
  <2>1. PICK r \in recorded' : r.conn = c
    BY <1>3 DEF Told
  <2> QED BY <2>1, SealRecords DEF Told, Held, Ended, ClosedRecord, OpenRecord, Record
<1>4. ASSUME Held(c)
      PROVE  Told(c)'
  <2>1. PICK k \in DOMAIN asm.live : asm.live[k].conn = c
    BY <1>4 DEF Held
  <2>2. OpenRecord(k) \in recorded' /\ OpenRecord(k).conn = c
    BY <1>2, <2>1, SealRecords DEF OpenRecord, Record
  <2> QED BY <2>2 DEF Told
<1>5. ASSUME Ended(c)
      PROVE  Told(c)'
  <2>1. PICK i \in DOMAIN asm.closed : asm.closed[i].flow.conn = c
    BY <1>5 DEF Ended
  <2>2. ClosedRecord(i) \in recorded' /\ ClosedRecord(i).conn = c
    BY <1>2, <2>1, SealRecords DEF ClosedRecord, Record
  <2> QED BY <2>2 DEF Told
<1>6. Told(c) => Told(c)'
  BY SealRecords DEF Told
<1> QED BY <1>1, <1>3, <1>4, <1>5, <1>6

LEMMA SealPlaces ==
  ASSUME IInv, PlacedInv, Seal
  PROVE  PlacedInv'
<1>0. /\ stage = "reading" /\ asm' = AfterSeal(asm) /\ ring = <<>> /\ AssemblerType(asm)
      /\ UNCHANGED <<kernel, rejected>> /\ PlacesInv /\ OnceInv /\ SomewhereInv
  BY DEF Seal, IInv, TypeInv, PlacedInv
<1>1. /\ DOMAIN asm'.live = {} /\ asm'.closed = <<>> /\ asm'.dns = asm.dns
  BY <1>0, AfterSealFacts
<1>2. /\ UNCHANGED <<conns, ring, lost, missed>> /\ Len(ring) = 0
  BY <1>0 DEF kernel
<1>3. ASSUME NEW c \in Nat
      PROVE  /\ ~Waits(c)' /\ ~Held(c)' /\ ~Ended(c)' /\ ~Waits(c)
             /\ Told(c)' <=> Told(c) \/ Held(c) \/ Ended(c)
  BY SealTells
<1>4. PlacesInv'
  BY <1>0, <1>1, <1>2, <1>3 DEF PlacesInv, Placed, Begun
<1>5. OnceInv'
  <2> SUFFICES ASSUME NEW c \in Nat
               PROVE  WaitsOnce(c)' /\ EndedOnce(c)' /\ ToldOnce(c)'
    BY <1>3 DEF OnceInv
  <2>1. WaitsOnce(c)' /\ EndedOnce(c)'
    BY <1>1, <1>2 DEF WaitsOnce, EndedOnce
  <2>2. /\ EndedOnce(c) /\ ToldOnce(c)
        /\ Held(c) => ~Ended(c) /\ ~Told(c)
        /\ Ended(c) => ~Told(c)
    BY <1>0 DEF OnceInv
  <2>3. ASSUME NEW r \in recorded', r.conn = c
        PROVE  \/ r \in recorded /\ Told(c)
               \/ \E i \in DOMAIN asm.closed :
                    r = ClosedRecord(i) /\ asm.closed[i].flow.conn = c /\ Ended(c)
               \/ \E k \in DOMAIN asm.live :
                    r = OpenRecord(k) /\ asm.live[k].conn = c /\ Held(c)
    BY <2>3, SealRecords DEF Told, Held, Ended, ClosedRecord, OpenRecord, Record
  <2>4. ASSUME NEW i \in DOMAIN asm.closed, NEW j \in DOMAIN asm.closed,
               asm.closed[i].flow.conn = c, asm.closed[j].flow.conn = c
        PROVE  i = j
    BY <2>2, <2>4 DEF EndedOnce
  <2>5. ASSUME NEW k \in DOMAIN asm.live, NEW l \in DOMAIN asm.live,
               asm.live[k].conn = c, asm.live[l].conn = c
        PROVE  k = l
    <3>1. conns[c].key = k /\ conns[c].key = l
      BY <1>0, <2>5 DEF PlacesInv
    <3> QED BY <3>1
  <2>6. ToldOnce(c)'
    <3> SUFFICES ASSUME NEW r \in recorded', NEW s \in recorded', r.conn = c, s.conn = c
                 PROVE  r = s
      BY DEF ToldOnce
    <3>1. CASE Told(c)
      BY <2>2, <2>3, <3>1 DEF ToldOnce
    <3>2. CASE Ended(c)
      <4>1. PICK i \in DOMAIN asm.closed : r = ClosedRecord(i) /\ asm.closed[i].flow.conn = c
        BY <2>2, <2>3, <3>2
      <4>2. PICK j \in DOMAIN asm.closed : s = ClosedRecord(j) /\ asm.closed[j].flow.conn = c
        BY <2>2, <2>3, <3>2
      <4> QED BY <2>4, <4>1, <4>2
    <3>3. CASE Held(c)
      <4>1. PICK k \in DOMAIN asm.live : r = OpenRecord(k) /\ asm.live[k].conn = c
        BY <2>2, <2>3, <3>3
      <4>2. PICK l \in DOMAIN asm.live : s = OpenRecord(l) /\ asm.live[l].conn = c
        BY <2>2, <2>3, <3>3
      <4> QED BY <2>5, <4>1, <4>2
    <3> QED BY <2>3, <3>1, <3>2, <3>3
  <2> QED BY <2>1, <2>6
<1>6. TurnsInv' /\ ClosesInv'
  BY <1>1, <1>2 DEF TurnsInv, RingTurns, HeldTurns, ClosesInv
<1>7. SomewhereInv'
  <2> SUFFICES ASSUME Intact', NEW c \in DOMAIN conns, conns[c].tracked, Begun(c)
               PROVE  Told(c)'
    BY <1>2 DEF SomewhereInv, Begun, Placed
  <2>1. Intact /\ c \in Nat
    BY <1>0, <1>2, ConnFacts DEF Intact, Unread, IInv
  <2>2. Placed(c)
    BY <1>0, <2>1 DEF SomewhereInv
  <2> QED BY <1>3, <2>1, <2>2 DEF Placed
<1>8. Named(asm)'
  BY <1>1 DEF PlacedInv, Named, MapOK
<1> QED BY <1>4, <1>5, <1>6, <1>7, <1>8 DEF PlacedInv

LEMMA InitPlaces ==
  ASSUME Init
  PROVE  PlacedInv
<1>1. /\ conns = <<>> /\ ring = <<>> /\ recorded = {} /\ asm = NewAssembler
  BY DEF Init
<1>2. /\ Len(ring) = 0 /\ DOMAIN conns = {}
      /\ asm.closed = <<>> /\ DOMAIN asm.live = {} /\ asm.dns = EmptyMap
  BY <1>1 DEF NewAssembler, NoEntries
<1>3. MapOK(EmptyMap)
  <2>1. DOMAIN NoEntries = {} /\ EmptyMap.entries = NoEntries /\ "entries" \in DOMAIN EmptyMap
    BY DEF NoEntries, EmptyMap
  <2> QED BY <2>1, FS_EmptySet DEF MapOK
<1>4. \A c : ~Waits(c) /\ ~Held(c) /\ ~Ended(c) /\ ~Told(c)
  BY <1>1, <1>2 DEF Waits, Held, Ended, Told
<1>5. PlacesInv /\ OnceInv
  BY <1>1, <1>2, <1>4 DEF PlacesInv, Placed, OnceInv, WaitsOnce, EndedOnce, ToldOnce
<1>6. TurnsInv /\ ClosesInv /\ SomewhereInv
  BY <1>2 DEF TurnsInv, RingTurns, HeldTurns, ClosesInv, SomewhereInv
<1>7. Named(asm)
  BY <1>2, <1>3 DEF Named
<1> QED BY <1>5, <1>6, <1>7 DEF PlacedInv

LEMMA SensorPlaces ==
  ASSUME IInv, PlacedInv, Sensor
  PROVE  PlacedInv'
<1>0. TypeInv /\ AssemblerType(asm)
  BY DEF IInv, TypeInv
<1>1. CASE Evaluate
  <2>1. UNCHANGED places /\ rejected' = rejected
    BY <1>1 DEF Evaluate, places, kernel
  <2> QED BY <2>1, PlacesStutter
<1>2. CASE LoseCapabilities
  <2>1. UNCHANGED places /\ rejected' = rejected
    BY <1>2 DEF LoseCapabilities, places, kernel, reading
  <2> QED BY <2>1, PlacesStutter
<1>3. CASE Load
  <2>1. UNCHANGED places /\ rejected' = rejected
    BY <1>3 DEF Load, places, kernel
  <2> QED BY <2>1, PlacesStutter
<1>4. CASE AttachHook
  <2>1. UNCHANGED <<missed, asm, rejected, recorded>> /\ stage # "reading"
    BY <1>4 DEF AttachHook
  <2>2. CASE UNCHANGED <<conns, ring, lost>>
    <3>1. UNCHANGED places
      BY <2>1, <2>2 DEF places
    <3> QED BY <2>1, <3>1, PlacesStutter
  <2>3. CASE Detach
    BY <2>1, <2>3, DetachPlaces
  <2> QED BY <1>4, <2>2, <2>3 DEF AttachHook
<1>5. CASE DropCapabilities
  <2>1. UNCHANGED <<missed, asm, rejected, recorded>> /\ stage # "reading"
    BY <1>5 DEF DropCapabilities
  <2>2. CASE UNCHANGED <<conns, ring, lost>>
    <3>1. UNCHANGED places
      BY <2>1, <2>2 DEF places
    <3> QED BY <2>1, <3>1, PlacesStutter
  <2>3. CASE Detach
    BY <2>1, <2>3, DetachPlaces
  <2> QED BY <1>5, <2>2, <2>3 DEF DropCapabilities
<1>6. CASE ReadCounters
  <2>1. /\ asm'.live = asm.live /\ asm'.closed = asm.closed /\ asm'.dns = asm.dns
        /\ DOMAIN rejected \subseteq DOMAIN rejected'
    BY <1>0, <1>6, DroppedFacts, CountedFacts DEF ReadCounters
  <2>2. UNCHANGED places
    BY <1>6, <2>1 DEF ReadCounters, places, kernel
  <2> QED BY <2>1, <2>2, PlacesStutter
<1>7. CASE TakeFrame
  BY <1>7, TakeFramePlaces
<1>8. CASE Seal
  BY <1>8, SealPlaces
<1>9. CASE ObserveAgain
  <2>1. UNCHANGED places /\ rejected' = rejected
    BY <1>9 DEF ObserveAgain, places, kernel, reading
  <2> QED BY <2>1, PlacesStutter
<1> QED BY <1>1, <1>2, <1>3, <1>4, <1>5, <1>6, <1>7, <1>8, <1>9 DEF Sensor

LEMMA NextPlaces ==
  ASSUME IInv, PlacedInv, [Next]_vars
  PROVE  PlacedInv'
<1>1. CASE Traffic
  BY <1>1, TrafficFlows, FlowingKeeps
<1>2. CASE Sensor
  BY <1>2, SensorPlaces
<1>3. CASE Tick \/ UNCHANGED vars
  <2>1. UNCHANGED <<kernel, reading>>
    BY <1>3 DEF Tick, vars
  <2>2. UNCHANGED places /\ rejected' = rejected
    BY <2>1 DEF places, kernel, reading
  <2> QED BY <2>2, PlacesStutter
<1> QED BY <1>1, <1>2, <1>3 DEF Next

\* When a window is sealed and nothing was lost, every connection whose connect the
\* object that is loaded saw has exactly one attributed record, in this window or an
\* earlier one, however its frames fell over the windows (assemble.rs, seal; record.rs,
\* decode).
THEOREM EachConnectionOnce == Spec => EveryConnectionIsRecordedOnce
<1>1. Init => IInv /\ PlacedInv
  BY InitKeeps, InitPlaces
<1>2. IInv /\ PlacedInv /\ [Next]_vars => IInv' /\ PlacedInv'
  BY NextKeeps, NextPlaces
<1>3. ASSUME IInv, PlacedInv, PlacedInv',
             Seal, missed = {}, lost.frames = 0, "record_undecodable" \notin DOMAIN rejected,
             NEW c \in DOMAIN conns, conns[c].tracked, conns[c].st \in {"open", "closed"}
      PROVE  Cardinality({r \in recorded' : r.conn = c}) = 1
  <2>1. Intact /\ Begun(c) /\ c \in Nat
    BY <1>3, ConnFacts DEF IInv, Intact, Unread, Begun
  <2>2. Placed(c)
    BY <1>3, <2>1 DEF PlacedInv, SomewhereInv
  <2>3. Told(c)'
    BY <1>3, <2>1, <2>2, SealTells DEF Placed
  <2>4. PICK r \in recorded' : r.conn = c
    BY <2>3 DEF Told
  <2>5. \A s \in recorded' : s.conn = c => s = r
    BY <1>3, <2>1, <2>4 DEF PlacedInv, OnceInv, ToldOnce
  <2>6. {s \in recorded' : s.conn = c} = {r}
    BY <2>4, <2>5
  <2> QED BY <2>6, FS_Singleton
<1>4. IInv /\ PlacedInv /\ IInv' /\ PlacedInv' /\ [Next]_vars =>
        [Seal /\ missed = {} /\ lost.frames = 0 =>
           \/ "record_undecodable" \in DOMAIN rejected
           \/ \A c \in DOMAIN conns :
                conns[c].tracked /\ conns[c].st \in {"open", "closed"} =>
                  Cardinality({r \in recorded' : r.conn = c}) = 1]_vars
  BY <1>3
<1> QED BY <1>1, <1>2, <1>4, PTL DEF Spec, EveryConnectionIsRecordedOnce

=============================================================================
