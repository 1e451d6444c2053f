--------------------------- MODULE MaskingGateway ---------------------------
(***************************************************************************)
(* The path of a masked request through the proxy, from the door to the    *)
(* answer: crates/periskop-proxy/src/http/gateway.rs (passthrough,         *)
(* prepare_body, restore_answer), http/request_path.rs and alias/mint.rs.  *)
(*                                                                         *)
(* The door reads without a lock whether the vault is still good.  The     *)
(* body is masked in one step, under the locks of the vault and of the     *)
(* minters; it is sent in another, with no lock held and nothing looked at *)
(* again.  When the provider has answered, the vault is asked for once     *)
(* more, without a lock, and the answer is restored in a step of its own.  *)
(* What other requests do between these steps is what this module is       *)
(* about.  Aliases are the label rung's: PERSON_1, PERSON_2, ... are the   *)
(* numbers 1, 2, ...  The vault is in memory mode, the one the command     *)
(* line opens.                                                             *)
(***************************************************************************)
EXTENDS SessionSlot, Sequences

CONSTANTS
  Session,  \* conversations
  Request,  \* requests that may be in flight at once
  Setups    \* the configurations and circumstances the proxy may run in:
            \*   sessions     the conversations its clients hold
            \*   bodies       what a client may send: the values in the order they
            \*                are masked, and the alias shaped literals in the text
            \*   spoilt       values whose sealed record does not open again
            \*   mintersKept  MINTERS_KEPT
            \*   attempts     MAX_ATTEMPTS of a mint
            \*   ceiling      the aliases a session may hold, at most Ceiling
            \*   diskMayFail  the vault may refuse a record
            \*   stepsBack    the wall clock may be set back
            \*   maxTime      bound: the clock

ASSUME GatewayAssumption ==
  /\ IsFiniteSet(Session) /\ IsFiniteSet(Request) /\ None \notin Session
  /\ Alias \subseteq Nat
  /\ Setups \subseteq
       [sessions : SUBSET Session, bodies : SUBSET [values : Seq(Seed), literals : SUBSET Alias],
        spoilt : SUBSET Seed, mintersKept : Nat \ {0}, attempts : Nat, ceiling : 0..Ceiling,
        diskMayFail : BOOLEAN, stepsBack : BOOLEAN, maxTime : Nat]

VARIABLES
  setup,    \* what the process was started with
  now,      \* Clock::System
  store,    \* the vault: one slot per session
  access,   \* VaultAccess: the vault handle is still good
  minters,  \* one Slot per conversation that keeps a minter
  flight,   \* where each request is, and what the proxy holds for it
  reply     \* the last response that left

vars == <<setup, now, store, access, minters, flight, reply>>

Binding == Seed \X Alias

(***************************************************************************)
(* Minter: the aliases of one conversation                                 *)
(***************************************************************************)

\* Slot and Minter::new.  The snapshot holds alias strings; the value beside each
\* is what the minter meant by it when the set was frozen.
NewMinter == [kept |-> TRUE, issued |-> [sd \in Seed |-> None], withheld |-> {},
              label |-> 1, snapshot |-> {}, used |-> 0]
NoMinter == [NewMinter EXCEPT !.kept = FALSE]

Issued(m) == {b \in Binding : m.issued[b[1]] = b[2]}
Taken(m) == {b[2] : b \in Issued(m)}

\* reserve_literal, for every literal of the body.
Reserved(m, literals) == [m EXCEPT !.withheld = @ \cup (literals \ Taken(m))]

\* The label the first free attempt renders, or None when none is free.  Bound: a
\* label is one of Alias.
FreeLabel(m) ==
  LET free == {k \in Alias \cap (m.label .. m.label + setup.attempts - 1) :
                 k \notin Taken(m) \cup m.withheld}
  IN  IF free = {} THEN None
      ELSE CHOOSE k \in free : \A j \in free : k <= j

\* Mutant of Minted: the label is neither checked nor counted on.
MintedWithoutABook(m, sd) ==
  IF m.issued[sd] # None THEN m ELSE [m EXCEPT !.issued[sd] = m.label]

\* mint: the same value keeps its alias, a new one takes the next free label.
Minted(m, sd) ==
  IF m.issued[sd] # None \/ FreeLabel(m) = None THEN m
  ELSE [m EXCEPT !.issued[sd] = FreeLabel(m), !.label = FreeLabel(m) + 1]

\* Mutant of Refrozen: the set of the first request is kept.
FrozenOnce(m) ==
  IF m.snapshot # {} THEN m ELSE [m EXCEPT !.snapshot = Issued(m)]

\* refreshed: the set is frozen again only when its size has changed.
Refrozen(m) ==
  IF Cardinality(m.snapshot) = Cardinality(Issued(m)) THEN m
  ELSE [m EXCEPT !.snapshot = Issued(m)]

(***************************************************************************)
(* mask: one pass over one body                                            *)
(***************************************************************************)

\* Mutant of Masked: a name the vault refuses is sent all the same.
MaskedAnyway(pass, sd) ==
  LET m == Minted(pass.minter, sd)
      x == Ensured(pass.slot, now)
  IN  IF pass.why # "none" \/ m.issued[sd] = None THEN pass
      ELSE [pass EXCEPT !.minter = m, !.sent = @ \cup {<<sd, m.issued[sd]>>},
                        !.slot = IF Holds(x, sd, m.issued[sd])
                                    \/ Collides(x, sd, m.issued[sd]) THEN x
                                 ELSE Inserted(x, sd, m.issued[sd])]

\* The session holds as many aliases as the policy allows it.
AtCeiling(x) == Full(x) \/ AliasCount(x) >= setup.ceiling

\* mint_and_file: the alias, then the record, then the body.
Masked(pass, sd) ==
  LET m == Minted(pass.minter, sd)
      a == m.issued[sd]
      x == Ensured(pass.slot, now)
      minted == [pass EXCEPT !.minter = m]
      seen == [minted EXCEPT !.slot = x]
  IN  IF pass.why # "none" THEN pass
      ELSE IF a = None THEN [minted EXCEPT !.why = "collision"]
      ELSE IF Holds(x, sd, a) THEN [seen EXCEPT !.sent = @ \cup {<<sd, a>>}]
      ELSE IF Collides(x, sd, a) THEN [seen EXCEPT !.why = "collision"]
      ELSE IF AtCeiling(x) THEN [seen EXCEPT !.why = "limit"]
      ELSE IF pass.broken THEN [seen EXCEPT !.why = "unavailable"]
      ELSE [seen EXCEPT !.slot = Inserted(x, sd, a), !.sent = @ \cup {<<sd, a>>}]

\* The pass a body makes: literals first, then every value, until one refuses.
Opened(s, body, broken) ==
  LET m == IF minters[s].kept THEN minters[s] ELSE NewMinter
  IN  [minter |-> Reserved([m EXCEPT !.used = now], body.literals),
       slot |-> Ensured(store[s], now), sent |-> {}, why |-> "none", broken |-> broken]

Pass(s, body, broken) ==
  LET after[n \in 0 .. Len(body.values)] ==
        IF n = 0 THEN Opened(s, body, broken) ELSE Masked(after[n - 1], body.values[n])
  IN  after[Len(body.values)]

Kept(ms) == {s \in Session : ms[s].kept}

\* prune: over the bound, a conversation that was used least recently goes.  Which
\* of several goes is decided by their identifiers, which are hashes.
Pruned(ms) ==
  IF Cardinality(Kept(ms)) <= setup.mintersKept THEN {ms}
  ELSE {[ms EXCEPT ![s] = NoMinter] :
          s \in {s \in Kept(ms) : \A r \in Kept(ms) : ms[s].used <= ms[r].used}}

\* Bound: the MINTERS_KEPT + 1 conversations of a full map are not all used in
\* one millisecond.  (A pass reads its clock before it waits for the locks; for
\* that to matter here, all of them would have to be served while one waits.)
NotAllInOneInstant(ms) ==
  Cardinality(Kept(ms)) > setup.mintersKept => \E s \in Kept(ms) : ms[s].used # now

(***************************************************************************)
(* passthrough: one request                                                *)
(***************************************************************************)

\* "inside" is past the door, "masked" about to be sent, "sent" with the provider,
\* "answered" past the second look at the vault.
Stages == {"idle", "inside", "masked", "sent", "answered"}

NoFlight == [stage |-> "idle", session |-> None, sent |-> {}, snapshot |-> {}, since |-> 0]
Response(r, kind, a, sd) == [to |-> r, kind |-> kind, alias |-> a, value |-> sd]
NoResponse == Response(None, "none", None, None)

At(r, stage) == flight[r].stage = stage
Moves(r, from, to) == At(r, from) /\ flight' = [flight EXCEPT ![r].stage = to]
Ends(r, response) == flight' = [flight EXCEPT ![r] = NoFlight] /\ reply' = response

\* The body of r is masked and its answer is still to come.
InFlight(r) == flight[r].session # None

Init ==
  /\ setup \in Setups
  /\ now = 0
  /\ store = [s \in Session |-> Gone]
  /\ access = TRUE
  /\ minters = [s \in Session |-> NoMinter]
  /\ flight = [r \in Request |-> NoFlight]
  /\ reply = NoResponse

Tick ==
  /\ now' \in IF setup.stepsBack THEN 0..setup.maxTime ELSE now..setup.maxTime
  /\ reply' = NoResponse
  /\ UNCHANGED <<setup, store, access, minters, flight>>

\* Mutant of AtTheDoor: an open vault is taken for granted.
OpenDoor == TRUE

\* passthrough's first line: a vault that is gone means no request crosses.
AtTheDoor == access

TurnAway(r) ==
  /\ At(r, "idle") /\ ~AtTheDoor
  /\ reply' = Response(r, "unavailable", None, None)
  /\ UNCHANGED <<setup, now, store, access, minters, flight>>

\* Past the door; what the request says is first looked at when it is masked.
Enter(r) ==
  /\ AtTheDoor /\ Moves(r, "idle", "inside")
  /\ reply' = NoResponse
  /\ UNCHANGED <<setup, now, store, access, minters>>

\* prepare_body, under both locks: mask, prune, freeze the set.  Whether the vault
\* is still good is not asked.
Mask(r, s, body, broken) ==
  /\ At(r, "inside")
  /\ broken => setup.diskMayFail
  /\ LET p == Pass(s, body, broken)
         ms == [minters EXCEPT ![s] = p.minter]
     IN  /\ NotAllInOneInstant(ms)
         /\ store' = [store EXCEPT ![s] = p.slot]
         /\ \E pruned \in Pruned(ms) :
              IF p.why # "none"
              THEN /\ minters' = pruned
                   /\ access' = (access /\ p.why # "unavailable")
                   /\ Ends(r, Response(r, p.why, None, None))
              ELSE /\ minters' = [pruned EXCEPT
                                    ![s] = IF @.kept THEN Refrozen(@) ELSE @]
                   /\ flight' = [flight EXCEPT ![r] =
                        [stage |-> "masked", session |-> s, sent |-> p.sent, since |-> now,
                         snapshot |-> IF pruned[s].kept
                                      THEN Refrozen(pruned[s]).snapshot ELSE {}]]
                   /\ reply' = NoResponse
                   /\ UNCHANGED access
  /\ UNCHANGED <<setup, now>>

\* The call to the provider.
Send(r) ==
  /\ Moves(r, "masked", "sent")
  /\ reply' = NoResponse
  /\ UNCHANGED <<setup, now, store, access, minters>>

\* A body that is not JSON, or arguments of a tool where they are rejected; no base
\* to send to; the provider not reached; an answer in a coding nobody here reads.
Fail(r) ==
  /\ ~At(r, "idle")
  /\ Ends(r, Response(r, "failed", None, None))
  /\ UNCHANGED <<setup, now, store, access, minters>>

\* The second look at the vault: the answer of one that was lost meanwhile is cut.
Cut(r) ==
  /\ At(r, "sent") /\ ~access
  /\ Ends(r, Response(r, "unavailable", None, None))
  /\ UNCHANGED <<setup, now, store, access, minters>>

Admit(r) ==
  /\ access /\ Moves(r, "sent", "answered")
  /\ reply' = NoResponse
  /\ UNCHANGED <<setup, now, store, access, minters>>

Frozen(r) == {b[2] : b \in flight[r].snapshot}

\* restore_answer, for an answer of events, or of JSON that parses, which mentions
\* alias a: an alias of the frozen set is looked up in the vault, which ages the
\* session; any other string is the model's own.
Restore(r, a) ==
  /\ At(r, "answered")
  /\ LET s == flight[r].session
         x == Refreshed(store[s], now)
         sd == x.reverse[a]
     IN  IF a \notin Frozen(r)
         THEN Ends(r, Response(r, "raw", a, None)) /\ UNCHANGED store
         ELSE /\ store' = [store EXCEPT ![s] = x]
              /\ Ends(r, IF sd = None THEN Response(r, "raw", a, None)
                         ELSE IF sd \in setup.spoilt THEN Response(r, "tamper", None, None)
                         ELSE Response(r, "value", a, sd))
  /\ UNCHANGED <<setup, now, access, minters>>

\* restore_answer, for an answer of any other content type and for JSON that does
\* not parse: the provider's bytes are delivered with alias a in them.
HandOver(r, a) ==
  /\ At(r, "answered")
  /\ Ends(r, Response(r, "untouched", a, None))
  /\ UNCHANGED <<setup, now, store, access, minters>>

Answer(r) == Fail(r) \/ Cut(r) \/ \E a \in Alias : Restore(r, a) \/ HandOver(r, a)

Next ==
  \/ Tick
  \/ \E r \in Request :
       \/ TurnAway(r) \/ Enter(r) \/ Send(r) \/ Admit(r) \/ Answer(r)
       \/ \E s \in setup.sessions : \E body \in setup.bodies : \E broken \in BOOLEAN :
            Mask(r, s, body, broken)

Spec == Init /\ [][Next]_vars

(***************************************************************************)
(* Properties                                                              *)
(***************************************************************************)

\* The session of a request may have been idle for the whole time to live.  A
\* clock that was set back no longer tells.
MayHaveExpired(r) == setup.stepsBack \/ now - flight[r].since > Ttl

\* The request r is answered in this step, with an alias the answer mentioned.
Answers(r, kind) == InFlight(r) /\ ~InFlight(r)' /\ reply'.kind = kind

\* No conversation can lose its minter to the others.
EveryMinterIsKept == Cardinality(setup.sessions) <= setup.mintersKept

\* restore.rs: a lookup "answers with the value, or with nothing".  A value that
\* is put into an answer is the one the alias stood for when the request left:
\* whatever the answer mentions as long as no minter is dropped, and always for
\* an alias the request itself sent, for the time to live of its session.  (Once
\* minter and session are both gone the aliases are counted from 1 again.)
RightValue ==
  [][ \A r \in Request :
        Answers(r, "value") =>
          LET read == <<reply'.value, reply'.alias>>
          IN  /\ EveryMinterIsKept => read \in flight[r].snapshot
              /\ /\ ~MayHaveExpired(r)
                 /\ reply'.alias \in {b[2] : b \in flight[r].sent}
                 => read \in flight[r].sent ]_vars

\* request_path.rs mint_and_file: a body carrying an alias is a body whose
\* original the vault holds, from the moment it is sent and for as long as the
\* session may live, whatever other requests do to the session meanwhile.  And the
\* set its answer is read against has every alias it sent: gateway.rs
\* prepare_body, "pruning keeps the most recently used", which a clock that was
\* set back can only break when there are more conversations than minters.
SentIsFiled ==
  \A r \in Request :
    /\ InFlight(r) /\ ~MayHaveExpired(r) =>
         \A b \in flight[r].sent : /\ store[flight[r].session].aliases[b[1]] = b[2]
                                   /\ store[flight[r].session].reverse[b[2]] = b[1]
    /\ ~setup.stepsBack \/ EveryMinterIsKept => flight[r].sent \subseteq flight[r].snapshot

\* The round trip: in an answer the gateway reads, of events or of JSON that
\* parses, an alias the request sent never comes back raw while its session has not
\* been idle for the whole time to live.  (An answer of another kind comes back as
\* the provider wrote it: restore_answer, "anything else crosses untouched".)
AnswersAreRestored ==
  [][ \A r \in Request :
        Answers(r, "raw") /\ reply'.alias \in {b[2] : b \in flight[r].sent}
        => MayHaveExpired(r) ]_vars

\* The requests past the door, and those whose answer passed the second look.
Inside == {r \in Request : ~At(r, "idle")}
Admitted == {r \in Request : At(r, "answered")}

\* gateway.rs passthrough, for a vault lost at any moment of other requests: it
\* stays lost; nothing crosses any more but requests that were past the door when
\* it was lost; and no answer is delivered, restored or not, but of requests whose
\* answer had passed the second look by then.
FailClosed ==
  [][ ~access => /\ ~access'
                 /\ Inside' \subseteq Inside /\ Admitted' \subseteq Admitted
                 /\ \A r \in Request :
                      (\E kind \in {"value", "raw", "untouched"} : Answers(r, kind))
                      => r \in Admitted ]_vars

\* What gateway.rs:556 says of the door, "a vault that is gone means no request
\* crosses": no body is sent after the vault was lost.  It does not hold, since the
\* door is not looked at again before the send.
NothingCrossesALostVault == [][ \A r \in Request : Send(r) => access ]_vars
=============================================================================
