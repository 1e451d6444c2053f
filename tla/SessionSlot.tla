---------------------------- MODULE SessionSlot ----------------------------
(***************************************************************************)
(* One conversation in the vault: which alias stands for which value, and  *)
(* until when.  The operators are the methods of Session and SessionStore  *)
(* in crates/periskop-proxy/src/vault/session.rs, as functions of a slot.  *)
(*                                                                         *)
(* A value is known by its alias seed, which is stable for one session and *)
(* one passphrase; sealing is left out.                                    *)
(***************************************************************************)
EXTENDS Integers, FiniteSets

CONSTANTS
  Seed,        \* alias seeds: one per value a conversation may mention
  Alias,       \* alias strings a minter may hand out
  None,        \* no alias, or no seed
  Ttl,         \* milliseconds of inactivity after which a session is forgotten
  Ceiling      \* aliases one session may hold

ASSUME SlotAssumption ==
  /\ None \notin Seed \cup Alias
  /\ IsFiniteSet(Seed)
  /\ Ttl \in Nat /\ Ceiling \in Nat

\* A slot of the store.  One that is not live stands for an absent session.
SessionType == [live : BOOLEAN, last : Nat, aliases : [Seed -> Alias \cup {None}],
                reverse : [Alias -> Seed \cup {None}]]

Gone == [live |-> FALSE, last |-> 0, aliases |-> [sd \in Seed |-> None],
         reverse |-> [a \in Alias |-> None]]

Fresh(t) == [Gone EXCEPT !.live = TRUE, !.last = t]

Later(a, b) == IF a >= b THEN a ELSE b

\* A clock that moved back reads as not expired.
Expired(x, t) == x.live /\ t - x.last > Ttl

\* refresh: the one place a session is aged.
Refreshed(x, t) ==
  IF Expired(x, t) THEN Gone
  ELSE IF x.live THEN [x EXCEPT !.last = Later(x.last, t)] ELSE x

\* Mutant of Ensured: an expired session is taken up again.
EnsuredAsItWas(x, t) == IF x.live THEN [x EXCEPT !.last = Later(x.last, t)]
                        ELSE Fresh(t)

\* ensure: an expired session is dropped, then a missing one is started.
Ensured(x, t) ==
  IF x.live /\ ~Expired(x, t) THEN Refreshed(x, t) ELSE Fresh(t)

AliasCount(x) == Cardinality({sd \in Seed : x.aliases[sd] # None})

Holds(x, sd, a) == x.aliases[sd] = a

\* The same value under two aliases, or one alias for two values.
Collides(x, sd, a) ==
  \/ x.aliases[sd] \notin {None, a}
  \/ x.aliases[sd] = None /\ x.reverse[a] \notin {None, sd}

Full(x) == AliasCount(x) >= Ceiling

\* insert, when it answers Stored.
Inserted(x, sd, a) == [x EXCEPT !.aliases[sd] = a, !.reverse[a] = sd]

\* Mutants of Forgotten: half of the undo, and none of it.
ForgottenBySeed(x, sd, a) == [x EXCEPT !.aliases[sd] = None]
NotForgotten(x, sd, a) == x

\* forget undoes it.
Forgotten(x, sd, a) == [x EXCEPT !.aliases[sd] = None, !.reverse[a] = None]
=============================================================================
