------------------------ MODULE ConversationIdentity ------------------------
(***************************************************************************)
(* Which conversation a request belongs to: http/session.rs.  The client   *)
(* says so, or the opening of the conversation is its name, or the request *)
(* stands alone.  A text is a sequence of words; the keyed hash is taken   *)
(* to be ideal, so a scope is what was hashed, with its domain.            *)
(***************************************************************************)
EXTENDS SequencesExt

CONSTANTS
  NoText,   \* a block that carries no text, and a field that is not there
  Break,    \* the line feed between two blocks
  Unit      \* the unit separator between the two halves of an anchor

\* A content is text, or blocks each of which has a text or none, or neither.
Text(words) == [kind |-> "text", blocks |-> <<words>>]
Blocks(blocks) == [kind |-> "blocks", blocks |-> blocks]
Neither == [kind |-> "neither", blocks |-> <<>>]

Joined(texts) == FoldLeft(LAMBDA done, t : IF done = NoText THEN t ELSE done \o <<Break>> \o t,
                          NoText, texts)
TextOf(content) ==
  LET texts == SelectSeq(content.blocks, LAMBDA t : t # NoText)
  IN IF texts = <<>> THEN <<>> ELSE Joined(texts)

\* A body: the field `system`, if there is one, and the turns.
Turn(role, content) == [role |-> role, content |-> content]

FirstOf(turns, role) ==
  LET at == {k \in DOMAIN turns : turns[k].role = role}
  IN IF at = {} THEN NoText ELSE TextOf(turns[Min(at)].content)

SystemOf(body) ==
  IF body.system # NoText /\ body.system.kind # "neither" THEN TextOf(body.system)
  ELSE FirstOf(body.turns, "system")

\* Mutant of Anchor: the two halves run into each other.
AnchorRunTogether(body) ==
  IF FirstOf(body.turns, "user") = NoText THEN NoText
  ELSE (IF SystemOf(body) = NoText THEN <<>> ELSE SystemOf(body)) \o FirstOf(body.turns, "user")

Anchor(body) ==
  IF FirstOf(body.turns, "user") = NoText THEN NoText
  ELSE (IF SystemOf(body) = NoText THEN <<>> ELSE SystemOf(body))
       \o <<Unit>> \o FirstOf(body.turns, "user")

\* Binding::identify.  An empty header is no name; `fresh` is drawn for this request.
Identify(name, body, fresh) ==
  CASE name # "" -> [origin |-> "client_header", scope |-> <<"header", name>>]
    [] name = "" /\ body # NoText /\ Anchor(body) # NoText ->
         [origin |-> "conversation_fingerprint", scope |-> <<"fingerprint", Anchor(body)>>]
    [] OTHER -> [origin |-> "ephemeral", scope |-> <<"fresh", fresh>>]
=============================================================================
