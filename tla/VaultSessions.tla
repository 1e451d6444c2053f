--------------------------- MODULE VaultSessions ---------------------------
(***************************************************************************)
(* The vault as its callers see it: sessions that remember which alias     *)
(* stands for which value, expire, and in file mode come back after a      *)
(* restart.  Models crates/periskop-proxy/src/vault/session.rs and mod.rs. *)
(*                                                                         *)
(* What happens to one session is in module SessionSlot.  The file is the  *)
(* log of frames that RecordLog promises and VaultFile provides.           *)
(***************************************************************************)
EXTENDS SessionSlot, Sequences, SequencesExt

CONSTANTS
  Session,     \* session identifiers
  FileBacked,  \* the vault was opened on vault.psk, not in memory
  MaxTime,     \* bound: the clock
  MaxFrames,   \* bound: frames in the file
  StepsBack    \* the wall clock may be set back

ASSUME SessionsAssumption ==
  /\ IsFiniteSet(Session)
  /\ MaxTime \in Nat /\ MaxFrames \in Nat
  /\ {FileBacked, StepsBack} \subseteq BOOLEAN

VARIABLES
  now,        \* what the callers' clock reads
  phase,      \* "down", "loading", "up" or "failed": an open that refused
  loaded,     \* frames an open has filed so far
  store,      \* SessionStore: one slot per identifier
  awaiting,   \* awaiting_first_clock
  lastClock,  \* last_clock_ms, or -1 before the first
  frames,     \* the frames of the file, oldest first
  answer,     \* the last answer a caller was given
  era         \* observer: bindings stored in, or loaded into, the life each session is in

vars == <<now, phase, loaded, store, awaiting, lastClock, frames, answer, era>>

Frame == [session : Session, seed : Seed, alias : Alias, stamp : Nat]

PurgedAt(t) == [s \in Session |-> IF Expired(store[s], t) THEN Gone ELSE store[s]]

\* sweep_sessions_loaded_from_a_file: the first clock applies the time to live.
Swept == IF awaiting THEN PurgedAt(now) ELSE store

Clocked == lastClock' = Later(lastClock, now) /\ awaiting' = FALSE

\* A life ends when an operation touches a session whose time is over; the
\* first clock after a load touches every session.
LivesAfter(touched) ==
  [s \in Session |-> IF (s \in touched \/ awaiting) /\ Expired(store[s], now)
                     THEN {} ELSE era[s]]

Init ==
  /\ now \in 0..MaxTime
  /\ phase = "down" /\ loaded = 0
  /\ store = [s \in Session |-> Gone]
  /\ awaiting = FALSE /\ lastClock = -1
  /\ frames = <<>> /\ answer = "none"
  /\ era = [s \in Session |-> {}]

Tick ==
  /\ now' \in IF StepsBack THEN 0..MaxTime ELSE now..MaxTime
  /\ UNCHANGED <<phase, loaded, store, awaiting, lastClock, frames, answer, era>>

(***************************************************************************)
(* Opening                                                                 *)
(***************************************************************************)

\* Vault::open: nothing to read in memory mode; in file mode the frames follow.
Open ==
  /\ phase = "down"
  /\ phase' = IF FileBacked THEN "loading" ELSE "up"
  /\ loaded' = 0
  /\ store' = [s \in Session |-> Gone]
  /\ awaiting' = FALSE /\ lastClock' = -1 /\ answer' = "none"
  /\ UNCHANGED <<now, frames, era>>

\* load_frames, one frame: no expiry, the latest stamp wins, and the session's
\* own rules decide whether the record is taken.
LoadFrame ==
  /\ phase = "loading" /\ loaded < Len(frames)
  /\ LET f == frames[loaded + 1]
         x == IF store[f.session].live
              THEN [store[f.session] EXCEPT !.last = Later(@, f.stamp)]
              ELSE Fresh(f.stamp)
         refused == ~Holds(x, f.seed, f.alias)
                    /\ (Collides(x, f.seed, f.alias) \/ Full(x))
     IN  /\ store' = [store EXCEPT ![f.session] =
                        IF refused \/ Holds(x, f.seed, f.alias) THEN x
                        ELSE Inserted(x, f.seed, f.alias)]
         /\ phase' = IF refused THEN "failed" ELSE phase
  /\ loaded' = loaded + 1
  /\ UNCHANGED <<now, awaiting, lastClock, frames, answer, era>>

Loaded ==
  /\ phase = "loading" /\ loaded = Len(frames)
  /\ phase' = "up"
  /\ awaiting' = (frames # <<>>)
  /\ era' = [s \in Session |-> {k \in Seed \X Alias : store[s].aliases[k[1]] = k[2]}]
  /\ UNCHANGED <<now, loaded, store, lastClock, frames, answer>>

\* The process ends; a vault that refused to open may be tried again.
Stop ==
  /\ phase # "down"
  /\ phase' = "down" /\ loaded' = 0
  /\ store' = [s \in Session |-> Gone]
  /\ awaiting' = FALSE /\ lastClock' = -1 /\ answer' = "none"
  /\ era' = IF FileBacked THEN era ELSE [s \in Session |-> {}]
  /\ UNCHANGED <<now, frames>>

(***************************************************************************)
(* The operations of an open vault                                         *)
(***************************************************************************)

OpenSession(s) ==
  /\ phase = "up"
  /\ store' = [Swept EXCEPT ![s] = Ensured(@, now)]
  /\ era' = LivesAfter({s})
  /\ Clocked
  /\ answer' = "opened"
  /\ UNCHANGED <<now, phase, loaded, frames>>

\* store_alias when insert refuses, or has the record already.
StoreNothing(s, sd, a) ==
  /\ phase = "up"
  /\ LET x == Ensured(Swept[s], now)
     IN  /\ Holds(x, sd, a) \/ Collides(x, sd, a) \/ Full(x)
         /\ store' = [Swept EXCEPT ![s] = x]
         /\ answer' = IF Holds(x, sd, a) THEN "held"
                      ELSE IF Collides(x, sd, a) THEN "collision" ELSE "full"
  /\ era' = LivesAfter({s})
  /\ Clocked
  /\ UNCHANGED <<now, phase, loaded, frames>>

\* store_alias when insert answers Stored: in file mode the frame is appended,
\* and if the file refuses the record is taken back out of memory.  A flush that
\* fails after the header was written refuses too, and leaves the frame in the file.
StoreNew(s, sd, a) ==
  /\ phase = "up"
  /\ LET x == Ensured(Swept[s], now)
         f == [session |-> s, seed |-> sd, alias |-> a, stamp |-> now]
     IN  /\ x.aliases[sd] = None /\ ~Collides(x, sd, a) /\ ~Full(x)
         /\ \/ /\ FileBacked => Len(frames) < MaxFrames
               /\ store' = [Swept EXCEPT ![s] = Inserted(x, sd, a)]
               /\ frames' = IF FileBacked THEN Append(frames, f) ELSE frames
               /\ era' = [LivesAfter({s}) EXCEPT ![s] = @ \cup {<<sd, a>>}]
               /\ answer' = "stored"
            \/ /\ FileBacked
               /\ store' = [Swept EXCEPT ![s] =
                              Forgotten(Inserted(x, sd, a), sd, a)]
               /\ era' = LivesAfter({s})
               /\ answer' = "unfiled"
               /\ \/ UNCHANGED frames
                  \/ Len(frames) < MaxFrames /\ frames' = Append(frames, f)
  /\ Clocked
  /\ UNCHANGED <<now, phase, loaded>>

\* restore: a lookup, which ages the session, and the four answers it has.
Restore(s, a) ==
  /\ phase = "up"
  /\ LET x == Swept[s]
         y == Refreshed(x, now)
     IN  /\ store' = [Swept EXCEPT ![s] = y]
         /\ answer' = IF ~x.live THEN "session_unknown"
                      ELSE IF ~y.live THEN "session_expired"
                      ELSE IF y.reverse[a] = None THEN "alias_unknown"
                      ELSE "value"
  /\ era' = LivesAfter({s})
  /\ Clocked
  /\ UNCHANGED <<now, phase, loaded, frames>>

\* The frames compaction writes: every record of a live session, under the
\* session's own deadline.
LiveFrames(st) ==
  {[session |-> k[1], seed |-> k[2], alias |-> st[k[1]].aliases[k[2]],
    stamp |-> st[k[1]].last] :
     k \in {k \in Session \X Seed : st[k[1]].live /\ st[k[1]].aliases[k[2]] # None}}

\* purge_expired, and compact, which is a purge and then a new file.
Purge ==
  /\ phase = "up"
  /\ store' = PurgedAt(now)
  /\ era' = LivesAfter(Session)
  /\ Clocked
  /\ answer' = "purged"
  /\ UNCHANGED <<now, phase, loaded, frames>>

Compact ==
  /\ phase = "up" /\ FileBacked
  /\ store' = PurgedAt(now)
  /\ era' = LivesAfter(Session)
  /\ \/ /\ frames' \in SetToSeqs(LiveFrames(PurgedAt(now)))
        /\ answer' = "compacted"
     \/ answer' = "not_swapped" /\ UNCHANGED frames
  /\ Clocked
  /\ UNCHANGED <<now, phase, loaded>>

Next ==
  \/ Tick \/ Open \/ LoadFrame \/ Loaded \/ Stop \/ Purge \/ Compact
  \/ \E s \in Session :
       \/ OpenSession(s)
       \/ \E a \in Alias :
            \/ Restore(s, a)
            \/ \E sd \in Seed : StoreNothing(s, sd, a) \/ StoreNew(s, sd, a)

Spec == Init /\ [][Next]_vars

(***************************************************************************)
(* Properties                                                              *)
(***************************************************************************)

Answers == {"none", "opened", "held", "collision", "full", "stored", "unfiled",
            "session_unknown", "session_expired", "alias_unknown", "value",
            "purged", "compacted", "not_swapped"}

\* Every variable has its type.
TypeOK ==
  /\ now \in Nat
  /\ phase \in {"down", "loading", "up", "failed"}
  /\ loaded \in Nat
  /\ store \in [Session -> SessionType]
  /\ awaiting \in BOOLEAN
  /\ lastClock \in Int
  /\ frames \in Seq(Frame)
  /\ answer \in Answers
  /\ era \in [Session -> SUBSET (Seed \X Alias)]

\* The two maps of a session are each other's inverse, through every insert, undo,
\* expiry and reload: one alias never stands for two values, and an alias that
\* was published always leads back (session.rs, insert and forget).
BooksAgree ==
  \A s \in Session : \A sd \in Seed : \A a \in Alias :
    store[s].aliases[sd] = a <=> store[s].reverse[a] = sd

\* No session holds more aliases than the ceiling, reloaded ones included.
CeilingHeld == \A s \in Session : AliasCount(store[s]) <= Ceiling

\* In file mode memory never has a record the file lacks, so a restart loses
\* nothing that was being answered from (mod.rs store_alias).
FileCoversMemory ==
  FileBacked /\ phase = "up" =>
    \A s \in Session : \A sd \in Seed :
      store[s].aliases[sd] # None =>
        \E k \in 1..Len(frames) :
          /\ frames[k].session = s /\ frames[k].seed = sd
          /\ frames[k].alias = store[s].aliases[sd]

\* An alias keeps its meaning for as long as its session lives: only expiry, the
\* end of the process or a store the file refused takes a binding away, and
\* nothing rebinds it.
BindingIsStable ==
  [][ \A s \in Session : \A a \in Alias :
        /\ phase = "up" /\ phase' = "up"
        /\ store[s].reverse[a] # None /\ ~Expired(store[s], now)
        => store'[s].reverse[a] = store[s].reverse[a] ]_vars

\* A restore never answers from a session whose time to live is over, and every
\* restore that does answer moves the deadline to its own clock or later.
ExpiredIsNotServed ==
  [][ \A s \in Session : \A a \in Alias :
        Restore(s, a) /\ answer' = "value"
        => now - store[s].last <= Ttl /\ store'[s].last >= now ]_vars

\* session.rs ensure: "reusing an identifier gets a new conversation, not a
\* resurrected one".  What a session resolves was stored in the life it is in.
NotResurrected ==
  phase = "up" =>
    \A s \in Session : \A sd \in Seed :
      store[s].aliases[sd] # None /\ ~Expired(store[s], now)
      => <<sd, store[s].aliases[sd]>> \in era[s]

=============================================================================
