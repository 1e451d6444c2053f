----------------------------- MODULE Reconcile -----------------------------
(***************************************************************************)
(* What the code says, against what ran, against what left the machine     *)
(* (crates/periskop-reconcile).  A report is a pass of reconcile() over    *)
(* the records the sources hold; the sources grow, record by record and    *)
(* in any order, and the report is written again.                          *)
(*                                                                         *)
(* A destination is a number, 0 when a side names none; the destinations   *)
(* of Names are host names and the others address literals.  A process is  *)
(* a number.  Wording, hashes and evidence lines are left out.             *)
(***************************************************************************)
EXTENDS Integers, Sequences, SequencesExt, FiniteSets, FiniteSetsExt

CONSTANTS
  Names,      \* the destinations that are host names
  Scenes      \* the runs: which sources feed the report, its settings, and the
              \* records they may hold (SceneType)

None == 0               \* no destination, operation, provider or process
NotCounted == -1        \* bytes_out: None
InScope == 0            \* FlowScope; the other three buckets are 1..3
KernelAttributed == 0   \* ProcessAttribution; Inferred and Unattributed are 1 and 2

ASSUME NamesAssumption == Names \subseteq Nat \ {None}

SceneType ==
  [declared : BOOLEAN, runtime : BOOLEAN, wire : BOOLEAN,
   watched : BOOLEAN,           \* the window covers min_dormant_window_ms
   band : {<<>>} \cup (Nat \X Nat),    \* the declared volume band, in basis points
   tolerance : Nat,             \* effective_join_tolerance_ms
   points : SUBSET [id : Nat, op : Nat, target : Nat, provider : Nat],
   calls : SUBSET [id : Nat, op : Nat, host : Nat, unresolved : BOOLEAN,
                   provider : Nat, size : Nat],
   flows : SUBSET [id : Nat, name : Nat, addr : Nat, provider : Nat, proc : Nat,
                   scope : 0..3, attribution : 0..2, start : Nat, last : Nat,
                   bytes : Int],
   room : Nat \X Nat \X Nat]    \* records of each source

ASSUME ScenesAssumption == Scenes \subseteq SceneType

VARIABLES
  scene,      \* the run
  points,     \* the declared points, as the scan hands them over
  calls,      \* the observed calls, as the collector read them
  flows,      \* the flow records, as the sensor's directory was read
  report      \* what the last pass established

vars == <<scene, points, calls, flows, report>>
-----------------------------------------------------------------------------
(* wire: flow records become the conversations they belong to. *)

\* A flow record as a conversation of its own (WireEpisode::of_flow, target_of).
EpisodeOf(flow) ==
  [id |-> flow.id, ids |-> {flow.id},
   target |-> IF flow.name # None THEN flow.name ELSE flow.addr,
   proc |-> flow.proc, scope |-> flow.scope, attribution |-> flow.attribution,
   start |-> flow.start, last |-> flow.last, provider |-> flow.provider,
   bytes |-> flow.bytes]

Conversation(e) == <<e.target, e.proc, e.scope, e.attribution>>
\* Mutant: the bucket of the flow is not compared.
SameConversationInAnyBucket(d, e) ==
  d.target = e.target /\ d.proc = e.proc /\ d.attribution = e.attribution
SameConversation(d, e) == Conversation(d) = Conversation(e)

Precedes(d, e) ==
  LET left == Conversation(d) \o <<d.start, d.last, d.id>>
      right == Conversation(e) \o <<e.start, e.last, e.id>>
  IN  \E i \in DOMAIN left :
        /\ left[i] < right[i]
        /\ \A j \in 1..(i - 1) : left[j] = right[j]

Gap(d, e) == Max({0, d.start - e.last, e.start - d.last})

Joined(d, e) == [d EXCEPT !.start = Min({@, e.start}), !.last = Max({@, e.last})]

\* Two counts, where a count that is missing is no count.
Counted(Add(_, _), left, right) ==
  IF left = NotCounted THEN right
  ELSE IF right = NotCounted THEN left
  ELSE Add(left, right)

\* Another record of the same connection: its count replaces a smaller one.
MergeReading(d, e) ==
  LET Larger(left, right) == Max({left, right})
  IN  [Joined(d, e) EXCEPT !.bytes = Counted(Larger, @, e.bytes)]

\* Another connection of the same conversation: its count is added.
Absorb(d, e) ==
  LET Sum(left, right) == left + right
  IN  [Joined(d, e) EXCEPT !.bytes = Counted(Sum, @, e.bytes), !.ids = @ \cup e.ids]

\* Mutant: only two records that sort next to each other are one connection.
OneRecordOfNeighbours(singles) ==
  LET Fold(merged, e) ==
        IF /\ merged # <<>>
           /\ Last(merged).id = e.id
           /\ SameConversation(Last(merged), e)
        THEN [merged EXCEPT ![Len(merged)] = MergeReading(@, e)]
        ELSE Append(merged, e)
  IN  FoldLeft(Fold, <<>>, singles)
OneRecordPerConnection(singles) ==
  LET Fold(merged, e) ==
        LET earlier == {at \in DOMAIN merged : /\ merged[at].id = e.id
                                               /\ SameConversation(merged[at], e)}
        IN  IF earlier = {} THEN Append(merged, e)
            ELSE [merged EXCEPT ![Min(earlier)] = MergeReading(@, e)]
  IN  FoldLeft(Fold, <<>>, singles)

Group(singles, tolerance) ==
  LET Fold(open, e) ==
        IF /\ open # <<>>
           /\ SameConversation(Last(open), e)
           /\ Gap(Last(open), e) <= tolerance
        THEN [open EXCEPT ![Len(open)] = Absorb(@, e)]
        ELSE Append(open, e)
  IN  FoldLeft(Fold, <<>>, singles)

Seal(e) == [e EXCEPT !.id = Min(e.ids)]

Episodes(records, tolerance) ==
  LET singles == SortSeq([i \in DOMAIN records |-> EpisodeOf(records[i])], Precedes)
      grouped == Group(OneRecordPerConnection(singles), tolerance)
  IN  {Seal(grouped[i]) : i \in DOMAIN grouped}
-----------------------------------------------------------------------------
(* join: J2, the declared points against the observed calls. *)

\* The rungs, strongest first.
OperationAndTarget == 1
OperationOnly == 2
TargetOnly == 3
ProviderOnly == 4

AttributesACall(tier) == tier # ProviderOnly

\* The destination a call established; a hook states that it could not read one in
\* either of two fields.
Observed(call) == IF call.unresolved THEN None ELSE call.host

OperationAgrees(point, call) == point.op # None /\ point.op = call.op
TargetAgrees(point, call) == point.target # None /\ point.target = Observed(call)
ProviderAgrees(point, call) == point.provider # None /\ point.provider = call.provider

Tier(point, call) ==
  IF OperationAgrees(point, call)
    THEN {IF TargetAgrees(point, call) THEN OperationAndTarget ELSE OperationOnly}
  ELSE IF TargetAgrees(point, call) THEN {TargetOnly}
  ELSE IF ProviderAgrees(point, call) THEN {ProviderOnly}
  ELSE {}

\* Mutant: a point keeps one call, the last one offered to it.
LinksOfOneCall(declared, observed) ==
  LET offered == UNION {{[point |-> p.id, call |-> c.id, tier |-> t, observed |-> Observed(c)] :
                           t \in Tier(p, c)} : p \in Range(declared), c \in Range(observed)}
  IN  {m \in offered : \A n \in offered : n.point = m.point => n.call <= m.call}
Links(declared, observed) ==
  LET offered == UNION {{[point |-> p.id, call |-> c.id, tier |-> t, observed |-> Observed(c)] :
                           t \in Tier(p, c)} : p \in Range(declared), c \in Range(observed)}
      SamePair(m, n) == m.point = n.point /\ m.call = n.call
      Stronger(m, n) == \/ m.tier < n.tier
                        \/ m.tier = n.tier /\ m.observed < n.observed
  IN  {m \in offered : ~ \E n \in offered : SamePair(m, n) /\ Stronger(n, m)}

Unlinked(links, observed) == {c.id : c \in Range(observed)} \ {m.call : m \in links}

\* The strongest rung of a point, as a set of at most one.
StrongestTier(links, point) ==
  LET tiers == {m.tier : m \in {m \in links : m.point = point.id}}
  IN  {t \in tiers : \A other \in tiers : t <= other}

Attributed(links, point) == {m \in links : m.point = point.id /\ AttributesACall(m.tier)}
-----------------------------------------------------------------------------
(* j1: the conversations against the observed calls. *)

Candidates(episode, observed) ==
  {c.id : c \in {c \in Range(observed) : c.host # None /\ c.host = episode.target}}

UnreadableCalls(observed) == {c.id : c \in {c \in Range(observed) : c.host = None}}

IsNamed(episode) == episode.target \in Names

\* Every pair the join established; the identity of a conversation is its anchor.
\* Mutant: a call that was read twice is two candidates.
TiesOfEveryCopy(episodes, observed) ==
  UNION {{[flow |-> e.id, call |-> c,
           exact |-> /\ Cardinality({i \in DOMAIN observed :
                                       observed[i].host = e.target}) = 1
                     /\ IsNamed(e)
                     /\ e.attribution = KernelAttributed] : c \in Candidates(e, observed)} :
           e \in episodes}
Ties(episodes, observed) ==
  UNION {{[flow |-> e.id, call |-> c,
           exact |-> /\ Cardinality(Candidates(e, observed)) = 1
                     /\ IsNamed(e)
                     /\ e.attribution = KernelAttributed] : c \in Candidates(e, observed)} :
           e \in episodes}

Unmatched(episodes, observed) ==
  {e.id : e \in {e \in episodes : Candidates(e, observed) = {}}}
-----------------------------------------------------------------------------
(* capability: what the sources of a run can support. *)

DerivedKinds == {"dormant", "drift", "unmatched", "volume"}

Suppressed(run, records) ==
  LET Because(applies, kinds, reason) == IF applies THEN kinds \X {reason} ELSE {}
  IN  UNION
        {Because(~ run.declared, DerivedKinds, "declared_source_absent"),
         Because(~ run.runtime, {"dormant", "drift", "volume"}, "runtime_source_absent"),
         Because(~ run.wire, {"unmatched", "volume"}, "wire_source_absent"),
         Because(~ run.watched, {"dormant"}, "observation_window_too_short"),
         Because(run.band = <<>>, {"volume"}, "volume_band_not_declared"),
         Because(records # <<>> /\ \A i \in DOMAIN records : records[i].bytes = NotCounted,
                 {"volume"}, "volume_not_measured")}

Allows(suppressed, kind) == \A s \in suppressed : s[1] # kind
-----------------------------------------------------------------------------
(* The derivers. *)

\* Points no observed call is attributed to.
Dormant(declared, links, unlinked) ==
  {[point |-> p.id,
    sure |-> p.target # None /\ unlinked = {} /\ StrongestTier(links, p) = {}] :
     p \in {p \in Range(declared) : Attributed(links, p) = {}}}

\* Points whose calls went somewhere else, with the destinations they reached.
Drift(declared, links) ==
  LET Astray(p) == {m \in Attributed(links, p) : m.observed \notin {None, p.target}}
  IN  {[point |-> p.id, reached |-> {m.observed : m \in Astray(p)},
        calls |-> {m.call : m \in Astray(p)}] :
         p \in {p \in Range(declared) : p.target # None /\ Astray(p) # {}}}

\* Destinations an observation supplied for points that declare none.
Resolved(declared, links) ==
  UNION {{[point |-> p.id, target |-> m.observed] :
            m \in {m \in Attributed(links, p) : m.observed # None}} :
           p \in {p \in Range(declared) : p.target = None}}

DeclaredTarget(episode, declared) == \E p \in Range(declared) : p.target = episode.target
DeclaredProvider(episode, declared) ==
  /\ episode.provider # None
  /\ \E p \in Range(declared) : p.provider = episode.provider

CountsTowardFindings(episode) == episode.scope = InScope

Unexplained(episodes, observed) ==
  {e \in episodes : CountsTowardFindings(e) /\ e.id \in Unmatched(episodes, observed)}

Accused(episodes, declared, observed) ==
  {e \in Unexplained(episodes, observed) :
     ~ DeclaredTarget(e, declared) /\ ~ DeclaredProvider(e, declared)}

UnmatchedTraffic(run, episodes, declared, observed) ==
  {[flow |-> e.id, flows |-> e.ids,
    sure |-> run.runtime /\ IsNamed(e) /\ UnreadableCalls(observed) = {},
    impact |-> IF ~ run.runtime THEN "unhooked_process"
               ELSE IF UnreadableCalls(observed) # {} THEN "unresolved_target"
               ELSE "none"] :
     e \in Accused(episodes, declared, observed)}

\* Conversations and connections that produced no finding, of one reason.
Tally(episodes) == [episodes |-> Cardinality(episodes),
                    flows |-> MapThenSumSet(LAMBDA e : Cardinality(e.ids), episodes)]

SilencedByTarget(episodes, declared, observed) ==
  {e \in Unexplained(episodes, observed) : DeclaredTarget(e, declared)}
SilencedByProvider(episodes, declared, observed) ==
  {e \in Unexplained(episodes, observed) :
     ~ DeclaredTarget(e, declared) /\ DeclaredProvider(e, declared)}

Low(band, expected) == (expected * band[1]) \div 10000
High(band, expected) == (expected * band[2] + 9999) \div 10000
Admits(band, observed, expected) == observed \in Low(band, expected)..High(band, expected)

\* The calls a conversation is tied to, and what they say they sent: the first record
\* of each.
TiedCalls(ties, episode) == {t.call : t \in {t \in ties : t.flow = episode.id}}
SizeOf(observed, id) == observed[Min({i \in DOMAIN observed : observed[i].id = id})].size
DeclaredBytes(ties, observed, episode) ==
  MapThenSumSet(LAMBDA id : SizeOf(observed, id), TiedCalls(ties, episode))
IsComplete(ties, observed, episode) ==
  \A id \in TiedCalls(ties, episode) : SizeOf(observed, id) # 0

Comparable(episodes, ties) ==
  {e \in episodes : CountsTowardFindings(e) /\ TiedCalls(ties, e) # {}}
Uncounted(episodes, ties) == {e \in Comparable(episodes, ties) : e.bytes = NotCounted}
Unsized(episodes, ties, observed) ==
  {e \in Comparable(episodes, ties) \ Uncounted(episodes, ties) :
     ~ IsComplete(ties, observed, e)}

VolumeAnomalies(band, episodes, ties, observed) ==
  {[flow |-> e.id, flows |-> e.ids, bytes |-> e.bytes,
    sure |-> \E t \in ties : t.flow = e.id /\ t.exact] :
     e \in {e \in Comparable(episodes, ties) \ (Uncounted(episodes, ties)
                                                 \cup Unsized(episodes, ties, observed)) :
              ~ Admits(band, e.bytes, DeclaredBytes(ties, observed, e))}}
-----------------------------------------------------------------------------
(* engine: one pass. *)

Buckets(records) ==
  [s \in 0..3 |-> Cardinality({i \in DOMAIN records : records[i].scope = s})]

Report(run, declared, observed, records) ==
  LET links == Links(declared, observed)
      unlinked == Unlinked(links, observed)
      episodes == Episodes(records, run.tolerance)
      ties == Ties(episodes, observed)
      suppressed == Suppressed(run, records)
      If(kind, derived) == IF Allows(suppressed, kind) THEN derived ELSE {}
  IN  [suppressed |-> suppressed,
       unlinked |-> unlinked,
       unreadable |-> UnreadableCalls(observed),
       ties |-> ties,
       wire |-> IF run.wire THEN <<Buckets(records)>> ELSE <<>>,
       dormant |-> If("dormant", Dormant(declared, links, unlinked)),
       drift |-> If("drift", Drift(declared, links)),
       resolved |-> If("drift", Resolved(declared, links)),
       unmatched |-> If("unmatched", UnmatchedTraffic(run, episodes, declared, observed)),
       silenced |-> <<Tally(If("unmatched", SilencedByTarget(episodes, declared, observed))),
                      Tally(If("unmatched", SilencedByProvider(episodes, declared, observed)))>>,
       volume |-> If("volume", VolumeAnomalies(run.band, episodes, ties, observed)),
       notCompared |-> <<Tally(If("volume", Uncounted(episodes, ties))),
                         Tally(If("volume", Unsized(episodes, ties, observed)))>>]

Init ==
  /\ scene \in Scenes
  /\ points = <<>> /\ calls = <<>> /\ flows = <<>>
  /\ report = Report(scene, <<>>, <<>>, <<>>)

\* One more declared point, call or flow record, and the report of it.
Declare(point) ==
  /\ scene.declared
  /\ Len(points) < scene.room[1]
  /\ points' = Append(points, point)
  /\ report' = Report(scene, points', calls, flows)
  /\ UNCHANGED <<scene, calls, flows>>

Observe(call) ==
  /\ scene.runtime
  /\ Len(calls) < scene.room[2]
  /\ calls' = Append(calls, call)
  /\ report' = Report(scene, points, calls', flows)
  /\ UNCHANGED <<scene, points, flows>>

Sense(flow) ==
  /\ scene.wire
  /\ Len(flows) < scene.room[3]
  /\ flows' = Append(flows, flow)
  /\ report' = Report(scene, points, calls, flows')
  /\ UNCHANGED <<scene, points, calls>>

Next ==
  \/ \E point \in scene.points : Declare(point)
  \/ \E call \in scene.calls : Observe(call)
  \/ \E flow \in scene.flows : Sense(flow)

Spec == Init /\ [][Next]_vars
-----------------------------------------------------------------------------
(* Properties. *)

Readings(id) == {flows[i] : i \in {i \in DOMAIN flows : flows[i].id = id}}
Begins(id) == Min({r.start : r \in Readings(id)})
Ends(id) == Max({r.last : r \in Readings(id)})
Apart(i, j) == Max({0, Begins(i) - Ends(j), Begins(j) - Ends(i)})
Carried(id) == Max({r.bytes : r \in Readings(id)})

\* The conversations of a report are the connections that a chain of short gaps ties
\* together: none is split, none is joined across a longer gap, every connection is in
\* one, and its volume is the latest count of each connection, added up once
\* (wire.rs:171 absorb, 195 merge_reading, 265 episodes).
EpisodesAreConversations ==
  LET episodes == Episodes(flows, scene.tolerance)
      ids == {flows[i].id : i \in DOMAIN flows}
      counted(e) == {id \in e.ids : Carried(id) # NotCounted}
  IN  /\ \A id \in ids : Cardinality({e \in episodes : id \in e.ids}) = 1
      /\ \A d, e \in episodes :
           SameConversation(d, e) /\ d # e => \A i \in d.ids, j \in e.ids :
                                                Apart(i, j) > scene.tolerance
      /\ \A e \in episodes :
           /\ e.bytes = IF counted(e) = {} THEN NotCounted
                        ELSE MapThenSumSet(Carried, counted(e))
           /\ \A part \in SUBSET e.ids \ {{}, e.ids} :
                \E i \in part, j \in e.ids \ part : Apart(i, j) <= scene.tolerance

\* The report does not depend on the order the records came in, nor on a stream that was
\* read twice (join.rs:272, j1.rs:179 and 206, wire.rs:278, engine.rs:124).
OrderAndRepetitionAreInvisible ==
  LET once == Report(scene, SetToSeq(Range(points)), SetToSeq(Range(calls)),
                     SetToSeq(Range(flows)))
  IN  report = [once EXCEPT !.wire = report.wire]

\* A connection is accused only if it is in scope, no observed call and no declared point
\* names its destination; and with certainty only if every call that was observed names
\* a host (unmatched.rs:93, 214, 253).  A call that names one and says of it that it was
\* not resolved counts as naming one: j1 reads the host alone.
AccusedFlowsAreUnexplained ==
  \A finding \in report.unmatched, i \in DOMAIN flows :
    LET flow == EpisodeOf(flows[i]) IN
    flow.id \in finding.flows =>
      /\ flow.scope = InScope
      /\ \A c \in Range(calls) : c.host # flow.target
      /\ \A p \in Range(points) : p.target # flow.target
      /\ finding.sure => scene.runtime /\ \A c \in Range(calls) : c.host # None

\* What unmatched.rs says certainty needs: the destination of every call that was heard
\* could be read, in the reading j1.rs says it shares with the join of the points.  It
\* does not hold: j1 reads the host alone.
CertaintyNeedsEveryCallRead ==
  \A finding \in report.unmatched :
    finding.sure => \A c \in Range(calls) : Observed(c) # None

\* What is claimed, and how firmly: what a point or a connection is accused of.
DormantPoints(r) == {d.point : d \in r.dormant}
SurelyDormant(r) == {d.point : d \in {d \in r.dormant : d.sure}}
AccusedFlows(r) == UNION {u.flows : u \in r.unmatched}
SurelyAccused(r) == UNION {u.flows : u \in {u \in r.unmatched : u.sure}}

\* One more observed call never makes a point dormant or a connection unexplained, nor
\* either claim firmer; one more flow record withdraws no accusation
\* (join.rs:98 attributes_a_call, dormant.rs:125, unmatched.rs:214).
EvidenceOnlyExplains ==
  [][/\ calls' # calls =>
          /\ DormantPoints(report') \subseteq DormantPoints(report)
          /\ SurelyDormant(report') \subseteq SurelyDormant(report)
          /\ AccusedFlows(report') \subseteq AccusedFlows(report)
          /\ SurelyAccused(report') \subseteq SurelyAccused(report)
     /\ flows' # flows =>
          /\ AccusedFlows(report) \subseteq AccusedFlows(report')
          /\ SurelyAccused(report) \subseteq SurelyAccused(report')
     /\ points' # points => AccusedFlows(report') \subseteq AccusedFlows(report)]_vars
=============================================================================
