--------------------------- MODULE NetworkSensor ---------------------------
(***************************************************************************)
(* The network sensor, from the kernel's probes to the outcome of a pass:  *)
(* crates/periskop-ebpf-object (the probes and their ring buffer),         *)
(* crates/periskop-ebpf-loader (loading, attaching, polling) and           *)
(* crates/periskop-network-sensor (privilege, source, assemble, sensor).   *)
(*                                                                         *)
(* Processes open, use and close connections at any moment: before the     *)
(* probes are attached, while they are attached one after the other, and   *)
(* while the ring buffer is drained.  A key is used again once the         *)
(* connection that had it is closed.                                       *)
(***************************************************************************)
EXTENDS FlowAssembler, WireFrames

CONSTANTS
  Setups,    \* the machines and the traffic looked at, one chosen at the start
  Codebase,  \* ScopePolicy: the processes of the codebase under scan
  Benign     \* ScopePolicy: the hosts declared benign

\* SensorUnavailable, as far as this build gives a reason; None is not one of them.
Reasons == {"unsupported_platform", "privilege_state_unreadable", "missing_capability",
            "kernel_unsupported", "loader_not_built"}

\* What a reader takes for a name is one, as its type in the code says.
ReadsNames ==
  /\ \A s \in Setups : \A p \in s.hellos :
       LET read == ParseClientHello(p.cells)
       IN  HasFailed(read) \/ read.hello.kind # "server_name" \/ read.hello.name \in Nat
  /\ \A s \in Setups : \A p \in s.answers :
       LET read == ParseResponse(p.cells)
       IN  \/ HasFailed(read)
           \/ /\ Len(read.answers) \in Nat
              /\ \A i \in 1 .. Len(read.answers) : read.answers[i].name \in Nat

ASSUME SensorAssumption == None \notin Reasons /\ ReadsNames

VARIABLES
  setup,     \* the machine, and the bounds on its traffic
  now,       \* seconds since attach, as the probes stamp them
  held,      \* the capabilities this process holds
  stage,     \* how far observe has come
  grant,     \* privilege::Grant: may the plan include the packet hooks
  todo,      \* the hooks of the plan not yet attached
  hooks,     \* the hooks that are attached
  watching,  \* PlatformKernel::attached
  conns,     \* the connections of the machine, oldest first
  ring,      \* EVENTS
  lost,      \* DROPPED: frames without room, and calls not tracked
  answered,  \* bound: the DNS answers that arrived
  asm,       \* the FlowAssembler
  rejected,  \* rejected_samples: how often, by cause
  pass,      \* bound: how often the ring was drained
  outcome,   \* SensorOutcome of the last pass
  \* What really happened, for the properties to compare with.
  missed,    \* connections whose close never became a frame
  strayed,   \* connections with a packet behind their close
  recorded,  \* the attributed records of all passes, with their connections
  heard      \* what the samples that were read really said

machine == <<setup, now, held>>
attachment == <<stage, grant, todo, hooks, watching>>
kernel == <<conns, ring, lost, answered, missed, strayed>>
reading == <<asm, rejected, pass, outcome, recorded, heard>>
vars == <<machine, attachment, kernel, reading>>

LoadCaps == {"bpf", "perfmon"}
Volumes == {"sendmsg", "recvmsg"}
KprobePlan == <<"connect", "sendmsg", "recvmsg", "close">>
Scopes == {"in_scope", "out_of_scope_process", "known_benign", "undetermined"}

Outcome(state, reason) ==
  [state |-> state, reason |-> reason, flows |-> {}, rejected |-> 0,
   tally |-> [s \in Scopes |-> 0], dropped |-> 0, unlinked |-> 0, shared |-> 0,
   really |-> 0]

Init ==
  /\ setup \in Setups
  /\ now = 0 /\ held = setup.caps
  /\ stage = "idle" /\ grant = FALSE /\ todo = <<>> /\ hooks = {} /\ watching = FALSE
  /\ conns = <<>> /\ ring = <<>> /\ lost = [frames |-> 0, calls |-> 0]
  /\ asm = NewAssembler /\ rejected = NoEntries /\ pass = 0 /\ outcome = Outcome("none", None)
  /\ answered = 0 /\ missed = {} /\ strayed = {} /\ recorded = {} /\ heard = {}

(***************************************************************************)
(* The probes                                                              *)
(***************************************************************************)

\* emit: the ring buffer takes the frame, or the loss is counted.
RoomInRing == Len(ring) < setup.ring
Emit(frame) ==
  IF RoomInRing
    THEN ring' = Append(ring, frame) /\ UNCHANGED lost
    ELSE lost' = [lost EXCEPT !.frames = @ + 1] /\ UNCHANGED ring
NoFrame == UNCHANGED <<ring, lost>>

\* A frame of the probes about connection c; body.conn is carried for the properties.
Body(c) == [conn |-> c, at |-> now]
Frame(kind, c) == Written(setup.layout, kind, conns[c].key, {}, Body(c))

Busy(k) == \E c \in DOMAIN conns : /\ conns[c].key = k
                                  /\ conns[c].st \in {"connecting", "open"}

\* periskop_connect_entry: the socket is put into IN_FLIGHT, or the map is full and
\* the call is counted.
EnterConnect(k, p) ==
  /\ Len(conns) < setup.conns /\ ~Busy(k)
  /\ \E tracked \in BOOLEAN :
       /\ tracked => "connect" \in hooks
       /\ "connect" \in hooks /\ ~tracked => setup.mapFills
       /\ conns' = Append(conns, [key |-> k, process |-> p, st |-> "connecting",
                                  tracked |-> tracked, greeted |-> FALSE, calls |-> 0])
       /\ lost' = IF "connect" \in hooks /\ ~tracked
                    THEN [lost EXCEPT !.calls = @ + 1] ELSE lost
  /\ UNCHANGED <<machine, attachment, reading, ring, answered, missed, strayed>>

\* periskop_connect_return
ReturnConnect(c) ==
  /\ conns[c].st = "connecting"
  /\ conns' = [conns EXCEPT ![c].st = "open"]
  /\ IF conns[c].tracked
       THEN Emit(Written(setup.layout, "connect", conns[c].key, {},
                         [conn |-> c, at |-> now, process |-> conns[c].process]))
       ELSE NoFrame
  /\ UNCHANGED <<machine, attachment, reading, answered, missed, strayed>>

\* The connect failed: no frame, and the socket keeps no destination.
FailConnect(c) ==
  /\ conns[c].st = "connecting"
  /\ conns' = [conns EXCEPT ![c].st = "failed"]
  /\ UNCHANGED <<machine, attachment, reading, ring, lost, answered, missed, strayed>>

\* sent and periskop_tcp_recvmsg_return.  A thread may send while another still
\* connects: the probe sits on the entry, before the socket is locked.
Transfer(c, hook) ==
  /\ conns[c].st \in {"connecting", "open"} /\ conns[c].calls < setup.calls
  /\ hook = "recvmsg" => conns[c].st = "open"
  /\ conns' = [conns EXCEPT ![c].calls = @ + 1]
  /\ IF hook \in hooks THEN Emit(Frame("volume", c)) ELSE NoFrame
  /\ UNCHANGED <<machine, attachment, reading, answered, missed, strayed>>

\* periskop_tcp_close
Close(c) ==
  /\ conns[c].st = "open"
  /\ conns' = [conns EXCEPT ![c].st = "closed"]
  /\ LET seen == "close" \in hooks
     IN  /\ IF seen THEN Emit(Frame("close", c)) ELSE NoFrame
         /\ missed' = IF seen /\ RoomInRing THEN missed ELSE missed \cup {c}
  /\ UNCHANGED <<machine, attachment, reading, answered, strayed>>

\* The packet hooks copy a sample; said, what the packet really said, is carried for
\* the properties.  A ClientHello leaves, and may be sent again when its connection is
\* closed already.
Sample(key, c, flags, packet) ==
  WrittenSample(setup.layout, key, flags,
                [conn |-> c, at |-> now, sample |-> packet.cells, said |-> packet.said])

Greet(c, hello) ==
  /\ "tc" \in hooks
  /\ \/ /\ conns[c].st = "open" /\ ~conns[c].greeted
        /\ conns' = [conns EXCEPT ![c].greeted = TRUE]
        /\ UNCHANGED strayed
     \/ /\ conns[c].st = "closed" /\ conns[c].greeted
        /\ setup.trailing /\ c \notin strayed
        /\ strayed' = strayed \cup {c}
        /\ UNCHANGED conns
  /\ Emit(Sample(conns[c].key, c, {}, hello))
  /\ UNCHANGED <<machine, attachment, reading, answered, missed>>

\* A response arrives on some key.
Answer(k, message) ==
  /\ "tc" \in hooks /\ answered < setup.replies
  /\ answered' = answered + 1
  /\ Emit(Sample(k, None, {"payload_is_dns"}, message))
  /\ UNCHANGED <<machine, attachment, reading, conns, missed, strayed>>

(***************************************************************************)
(* Privilege, load and attach                                              *)
(***************************************************************************)

MayLoad == LoadCaps \subseteq held \/ setup.root
MayAttachTc == "net_admin" \in held \/ setup.root

Refuse(reason) ==
  /\ stage' = "done" /\ outcome' = Outcome("not_started", reason)

\* privilege::evaluate, on a fresh reading of the process.
EvaluateRefusal ==
  IF ~setup.linux THEN "unsupported_platform"
  ELSE IF ~setup.readable THEN "privilege_state_unreadable"
  ELSE IF ~MayLoad THEN "missing_capability"
  ELSE IF ~setup.btf THEN "kernel_unsupported"
  ELSE None

Evaluate ==
  /\ stage = "idle"
  /\ IF EvaluateRefusal # None THEN Refuse(EvaluateRefusal) /\ UNCHANGED grant
     ELSE stage' = "granted" /\ grant' = MayAttachTc /\ UNCHANGED outcome
  /\ UNCHANGED <<machine, todo, hooks, watching, kernel, asm, rejected, pass,
                 recorded, heard>>

\* Before anything is attached the process may give up what it was granted.
LoseCapabilities ==
  /\ stage = "granted" /\ held # {}
  /\ \E kept \in SUBSET held \ {held} : held' = kept
  /\ UNCHANGED <<setup, now, attachment, kernel, reading>>

\* EbpfLoader::load, up to Attached::open.
LoadRefusal ==
  IF ~setup.linux THEN "unsupported_platform"
  ELSE IF ~MayLoad \/ (grant /\ ~MayAttachTc) THEN "missing_capability"
  ELSE IF ~setup.btf THEN "kernel_unsupported"
  ELSE IF ~setup.object \/ (grant /\ ~setup.classifier) THEN "loader_not_built"
  ELSE IF setup.capget /\ ~(LoadCaps \subseteq held) THEN "missing_capability"
  ELSE IF ~setup.clock THEN "kernel_unsupported"
  ELSE None

\* EbpfFlowSource::attach: a refused plan is asked for once more without the packet
\* hooks.
AttachRefused(reason) ==
  /\ watching' = FALSE
  /\ IF grant THEN stage' = "granted" /\ grant' = FALSE /\ UNCHANGED outcome
              ELSE Refuse(reason) /\ UNCHANGED grant

Load ==
  /\ stage = "granted"
  /\ IF LoadRefusal # None
       THEN AttachRefused(LoadRefusal) /\ UNCHANGED todo
       ELSE /\ stage' = "attaching"
            /\ todo' = IF grant THEN Append(KprobePlan, "tc") ELSE KprobePlan
            /\ UNCHANGED <<grant, watching, outcome>>
  /\ UNCHANGED <<machine, hooks, kernel, asm, rejected, pass, recorded, heard>>

\* What had been attached goes with the value that held it, and so do its maps: the
\* ring with what is in it, the counters, and the calls in flight.
Detach ==
  /\ hooks' = {} /\ ring' = <<>> /\ lost' = [frames |-> 0, calls |-> 0]
  /\ conns' = [c \in DOMAIN conns |-> [conns[c] EXCEPT !.tracked = FALSE]]

\* Mutant: the hooks attached before the one that is refused stay.
AttachHookAndLeave ==
  /\ stage = "attaching" /\ todo # <<>>
  /\ \/ /\ hooks' = hooks \cup {Head(todo)} /\ todo' = Tail(todo)
        /\ UNCHANGED <<stage, grant, watching, outcome, conns, ring, lost>>
     \/ /\ setup.verifierRefuses
        /\ todo' = <<>> /\ UNCHANGED <<hooks, conns, ring, lost>>
        /\ AttachRefused("kernel_unsupported")
  /\ UNCHANGED <<machine, answered, missed, strayed, asm, rejected, pass, recorded, heard>>

\* attach_one, hook after hook: traffic that starts meanwhile is seen by some of the
\* probes and not by others.
AttachHook ==
  /\ stage = "attaching" /\ todo # <<>>
  /\ \/ /\ hooks' = hooks \cup {Head(todo)} /\ todo' = Tail(todo)
        /\ UNCHANGED <<stage, grant, watching, outcome, conns, ring, lost>>
     \/ /\ setup.verifierRefuses
        /\ Detach /\ todo' = <<>>
        /\ AttachRefused("kernel_unsupported")
  /\ UNCHANGED <<machine, answered, missed, strayed, asm, rejected, pass, recorded, heard>>

\* drop_load_capabilities, and the check that they are gone.
Dropped == held \ (LoadCaps \cup {"net_admin"})
DropCapabilities ==
  /\ stage = "attaching" /\ todo = <<>>
  /\ \/ /\ setup.capget
        /\ held' = Dropped
        /\ stage' = "observing" /\ watching' = TRUE
        /\ UNCHANGED <<grant, hooks, outcome, conns, ring, lost>>
     \/ /\ setup.dropFails \/ ~setup.capget
        /\ Detach /\ held' \in {held, Dropped}
        /\ AttachRefused("kernel_unsupported")
  /\ UNCHANGED <<setup, now, todo, answered, missed, strayed, asm, rejected, pass,
                 recorded, heard>>

(***************************************************************************)
(* Poll, drain and seal                                                    *)
(***************************************************************************)

\* A tally by cause; a cause is there when it was counted.
Counted(cause, count) ==
  IF count = 0 THEN rejected
  ELSE With(rejected, cause,
            count + (IF cause \in DOMAIN rejected THEN rejected[cause] ELSE 0))

\* The first half of poll: the counters are read before the ring is.  They count
\* since the load, and the kernel may refuse to answer for them.
ReadCounters ==
  /\ stage \in {"observing", "drained"} /\ pass < setup.passes
  /\ stage' = "reading" /\ pass' = pass + 1
  /\ \/ /\ asm' = RecordDropped(asm, lost.frames)
        /\ rejected' = Counted("kernel_call_not_tracked", lost.calls)
     \/ /\ setup.counterFails
        /\ asm' = RecordDropped(asm, None) /\ UNCHANGED rejected
  /\ outcome' = Outcome("none", None)
  /\ UNCHANGED <<machine, grant, todo, hooks, watching, kernel, recorded, heard>>

\* The second half: every frame the ring holds, in order, to the assembler.  One that
\* is refused is counted, by its cause.
TakeFrame ==
  /\ stage = "reading" /\ ring # <<>>
  /\ ring' = Tail(ring)
  /\ \E event \in {KernelEventFrom(Head(ring))} :
       IF HasFailed(event)
         THEN rejected' = Counted(event.failed, 1) /\ UNCHANGED asm
         ELSE asm' = Ingest(asm, event) /\ UNCHANGED rejected
  /\ LET frame == Head(ring)
     IN  heard' = IF frame.kind # "payload" THEN heard
                  ELSE heard \cup {[said |-> frame.body.said, key |-> frame.key,
                                    at |-> frame.body.at]}
  /\ UNCHANGED <<machine, attachment, conns, lost, answered, missed, strayed,
                 pass, outcome, recorded>>

\* ScopePolicy::classify
ScopeOf(flow) ==
  IF flow.process = None THEN "undetermined"
  ELSE IF flow.verdict.host \in Benign THEN "known_benign"
  ELSE IF flow.process \in Codebase THEN "in_scope"
  ELSE "out_of_scope_process"

\* shared_identities: the records whose identity is found in two namespaces.
SharedIdentities(flows) ==
  Cardinality({f \in flows : Cardinality({g.netns : g \in {h \in flows : h.id = f.id}}) > 1})

\* The ring is empty: the window is sealed, and observe_on makes its records.
Seal ==
  /\ stage = "reading" /\ ring = <<>>
  /\ LET admitted == {FromObservation(
                        IF "tc" \in hooks THEN o
                        ELSE [o EXCEPT !.admits = @ \cup {"tc_unavailable"}]) :
                      o \in Sealed(asm)}
         flows == {f \in admitted : IsValid(f)}
     IN  /\ outcome' =
              [Outcome("observed", None) EXCEPT
                 !.flows = flows, !.rejected = Cardinality(admitted \ flows),
                 !.tally = [s \in Scopes |-> Cardinality({f \in flows : ScopeOf(f) = s})],
                 !.dropped = IF asm.droppedUnknown THEN None ELSE asm.dropped,
                 !.unlinked = asm.unlinked, !.shared = SharedIdentities(flows),
                 !.really = lost.frames]
         /\ recorded' = recorded \cup
              {[pass |-> pass, key |-> f.key, nth |-> f.nth, conn |-> f.conn] :
                 f \in {g \in flows : g.conn # None}}
  /\ asm' = AfterSeal(asm)
  /\ stage' = "drained"
  /\ UNCHANGED <<machine, grant, todo, hooks, watching, kernel, rejected, pass, heard>>

\* observe is called again on the same source.
ObserveAgain ==
  /\ stage = "drained" /\ pass < setup.passes
  /\ stage' = "idle"
  /\ UNCHANGED <<machine, grant, todo, hooks, watching, kernel, reading>>

Tick ==
  /\ now < setup.time
  /\ now' = now + 1
  /\ UNCHANGED <<setup, held, attachment, kernel, reading>>

Traffic ==
  \/ \E k \in setup.keys :
       \/ \E p \in setup.procs : EnterConnect(k, p)
       \/ \E message \in setup.answers : Answer(k, message)
  \/ \E c \in DOMAIN conns :
       \/ ReturnConnect(c) \/ FailConnect(c) \/ Close(c)
       \/ \E hook \in Volumes : Transfer(c, hook)
       \/ \E hello \in setup.hellos : Greet(c, hello)

Sensor ==
  \/ Evaluate \/ LoseCapabilities \/ Load \/ AttachHook \/ DropCapabilities
  \/ ReadCounters \/ TakeFrame \/ Seal \/ ObserveAgain

Next == Traffic \/ Sensor \/ Tick
Spec == Init /\ [][Next]_vars

(***************************************************************************)
(* Properties                                                              *)
(***************************************************************************)

\* A record never mixes two connections, whichever probes were attached when and
\* whatever the ring lost, unless the close of a connection with its key never became
\* a frame or a packet came behind one, or the run says that it could not read frames
\* (assemble.rs, on_connect and on_close; record.rs, decode).
RecordsAreOfOneConnection ==
  \A flow \in outcome.flows :
    Cardinality((flow.from \cup {flow.conn}) \ {None}) > 1 =>
      \/ \E c \in missed \cup strayed : conns[c].key = flow.key
      \/ "record_undecodable" \in DOMAIN rejected

\* When a window is sealed and no close went missing, every connection whose connect
\* the object that is loaded saw has exactly one attributed record, in this window or in an earlier
\* one, however its frames fell over the windows; or the run says that it could not
\* read frames (assemble.rs, seal; record.rs, decode).
EveryConnectionIsRecordedOnce ==
  [][Seal /\ missed = {} /\ lost.frames = 0 =>
       \/ "record_undecodable" \in DOMAIN rejected
       \/ \A c \in DOMAIN conns :
            conns[c].tracked /\ conns[c].st \in {"open", "closed"} =>
              Cardinality({r \in recorded' : r.conn = c}) = 1]_vars

\* What is watched is watched by every probe and without the authority to load more;
\* a refused first attach, at whichever hook and for whichever cause, leaves nothing
\* attached (loader.rs, open; source.rs, attach).
AttachedOrNothing ==
  /\ watching => {KprobePlan[i] : i \in DOMAIN KprobePlan} \subseteq hooks
                 /\ ~(LoadCaps \subseteq held)
  /\ stage = "done" /\ pass = 0 => hooks = {} /\ ~watching

\* What the packets that were read said, one by one.
HeardAnswers == {h \in heard : h.said.kind = "answer"}
HeardHellos(key) == {h \in heard : h.said.kind = "hello" /\ h.key = key}

\* A wrong name is worse than none.  Every name on a record was really answered for
\* its address, directly or along the aliases of that answer, and no longer before the
\* connection than the longest lifetime kept; a server name was offered in the open by
\* a handshake on its key.  And none is missed: when the map let nothing go, a name
\* from a sound answer is there while the answer holds (dns.rs, parse_response; tls.rs,
\* parse_client_hello; cache.rs, names_for; naming.rs, arbitrate).
NamesAreWhatWasSaid ==
  \A flow \in outcome.flows :
    LET given(h) == {m \in h.said.mappings : m.ip = AddressOf[flow.key]}
    IN  /\ \A n \in flow.names :
             \E h \in HeardAnswers :
               /\ flow.at - h.at < MaxTtl
               /\ \E m \in given(h) : m.name = n
        /\ flow.verdict.sni # None =>
             \E h \in HeardHellos(flow.key) : flow.verdict.sni \in h.said.names
        /\ asm.dns.evicted = 0 =>
             \A h \in HeardAnswers :
               \A m \in given(h) :
                 h.said.sound /\ now < h.at + Clamp(m.ttl) => m.name \in flow.names

=============================================================================
