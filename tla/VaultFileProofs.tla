-------------------------- MODULE VaultFileProofs --------------------------
(***************************************************************************)
(* Theorems about VaultFile: what the file of the vault keeps through      *)
(* failing calls, kills and power cuts, for any processes, records and     *)
(* inodes.                                                                 *)
(*                                                                         *)
(* The types hold in every state.  All else holds until two operations of  *)
(* two processes have overlapped; up to then one process at most is inside *)
(* an operation, and what it has done so far is known (StageOK).           *)
(***************************************************************************)
EXTENDS VaultFile, FiniteSetTheorems, TLAPS

(***************************************************************************)
(* Types                                                                   *)
(***************************************************************************)

Content == [whole : BOOLEAN, counter : Nat, tail : Seq(Record), body : Seq(Record \cup {Torn})]
Node == [cur : Content, dur : Content]
Memory == [ino : Inode \cup {None}, counter : Nat, tail : Seq(Record), held : SUBSET Record]

Opening    == {"created", "read"}
Appending  == {"linked", "written", "flushed", "committed"}
Compacting == {"cleared", "imaged", "confirmed"}
Places     == {"down", "idle", "created", "read", "linked", "written", "flushed",
               "committed", "cleared", "imaged", "confirmed"}
Operation  == [at : Places,
               rec : Record \cup {None}, ino : Inode \cup {None}, frames : Seq(Record)]

\* What a process needs to have in hand where it is.
InHand(p) ==
  /\ op[p].at = "down" => mem[p] = NoFile
  /\ op[p].at = "created" => op[p].ino \in Inode /\ mem[p] = NoFile
  /\ op[p].at = "read" => mem[p].ino = None
  /\ op[p].at \in {"idle"} \cup Appending \cup Compacting => mem[p].ino \in Inode
  /\ op[p].at \in Appending => op[p].rec \in Record
  /\ op[p].at \in Compacting => op[p].ino \in Inode
  /\ IsFiniteSet(mem[p].held)

TypeOK ==
  /\ setup \in Setups
  /\ disk \in [Inode -> Node]
  /\ path \in Inode \cup {None} /\ candidate \in Inode \cup {None}
  /\ survives \subseteq Inode \cup {None} /\ path \in survives
  /\ backup \in Content
  /\ mem \in [Proc -> Memory] /\ op \in [Proc -> Operation]
  /\ owed \subseteq Record /\ committed \subseteq Record /\ floor \in Nat
  /\ overlap \in BOOLEAN /\ last \in Proc \cup {None}
  /\ rolledBack \in {"no", "yes", "accepted"}
  /\ \A p \in Proc : InHand(p)

(***************************************************************************)
(* Before anything has overlapped                                          *)
(***************************************************************************)

\* The frames a header names are in a body.
Covers(body, tail) == Len(tail) <= Len(body) /\ \A k \in 1..Len(tail) : body[k] = tail[k]
Prefix(s, t) == Len(s) <= Len(t) /\ \A k \in 1..Len(s) : t[k] = s[k]

\* One inode: both headers are written or neither, the durable one is not ahead, and
\* whatever a power cut makes of the two bodies has the frames of both.
NodeOK(d) ==
  /\ d.cur.whole = d.dur.whole
  /\ ~d.cur.whole => d.cur.tail = <<>>
  /\ d.dur.counter <= d.cur.counter
  /\ Prefix(d.dur.tail, d.cur.tail)
  /\ d.cur.whole =>
       /\ Covers(d.cur.body, d.cur.tail) /\ Covers(d.dur.body, d.cur.tail)
       /\ d.cur.body # d.dur.body => Len(d.cur.tail) < Len(d.cur.body)

Same(c) == [cur |-> c, dur |-> c]

OneAtATime == \A p, q \in Proc : Busy(p) /\ Busy(q) => p = q

\* The header at the path is the one p remembers.
Remembers(p) ==
  /\ path = mem[p].ino /\ path # None
  /\ disk[path].cur.whole
  /\ disk[path].cur.counter = mem[p].counter
  /\ disk[path].cur.tail = mem[p].tail

\* The frame p is appending is where the next header will say.
FrameIsThere(p) ==
  LET body == disk[path].cur.body
      n == Len(mem[p].tail) + 1
  IN  Len(body) = n /\ body[n] = op[p].rec

\* What a process inside an operation has done to the disk.
StageOK(p) ==
  /\ op[p].at = "created" => path = op[p].ino /\ disk[path] = Same(Absent)
  /\ op[p].at = "read" =>
       /\ path # None /\ disk[path].cur.whole
       /\ disk[path].cur.counter = mem[p].counter /\ disk[path].cur.tail = mem[p].tail
  /\ op[p].at \in {"linked", "written", "flushed", "confirmed"} => Remembers(p)
  /\ op[p].at \in {"written", "flushed", "committed"} => FrameIsThere(p)
  /\ op[p].at = "flushed" => disk[path].dur = disk[path].cur
  /\ op[p].at = "committed" =>
       /\ path = mem[p].ino /\ disk[path].cur.whole
       /\ disk[path].cur.counter = mem[p].counter + 1
       /\ disk[path].cur.tail = Append(mem[p].tail, op[p].rec)
       /\ disk[path].dur.body = disk[path].cur.body
  /\ op[p].at \in Compacting =>
       /\ op[p].ino \notin survives /\ candidate \in {op[p].ino, None}
       /\ \A q \in Proc : mem[q].ino # op[p].ino
       /\ ToSet(op[p].frames) = mem[p].held
  /\ op[p].at \in {"imaged", "confirmed"} =>
       disk[op[p].ino] = Same(Image(mem[p].counter, op[p].frames))

Open(p) == op[p].at \notin {"down"} \cup Opening

\* Nobody remembers more than the file says, and while a header is being committed
\* everybody else remembers less.
NobodyIsAhead ==
  \A p \in Proc : Open(p) /\ path = mem[p].ino =>
    /\ mem[p].counter <= disk[path].cur.counter
    /\ \A q \in Proc : op[q].at = "committed" /\ q # p => mem[p].counter < disk[path].cur.counter

\* Whoever is up to date holds what is owed.
HoldersAreCurrent ==
  NamesAreDurable /\ rolledBack = "no" =>
    \A p \in Proc : Open(p) /\ (Remembers(p) \/ op[p].at = "committed") => owed \subseteq mem[p].held

\* What is owed is under the path, and under whatever a power cut leads it to.
OwedIsSafe ==
  NamesAreDurable /\ rolledBack = "no" =>
    /\ IF path = None THEN owed = {} ELSE owed \subseteq ToSet(disk[path].cur.tail)
    /\ setup.powerCuts =>
         \A i \in survives : IF i = None THEN owed = {} ELSE owed \subseteq ToSet(disk[i].dur.tail)

\* A copy that is no older than what a caller has seen has what is owed.
CopyIsNoOlder == backup.whole /\ backup.counter >= floor => owed \subseteq ToSet(backup.tail)

\* Where the counter tells the age of a file.
Comparable == NamesAreDurable /\ ~(setup.powerCuts /\ setup.rollbacks)

BackupOK ==
  /\ NodeOK(Same(backup))
  /\ Comparable /\ rolledBack = "no" /\ backup.whole =>
       /\ path # None /\ disk[path].cur.whole
       /\ backup.counter <= disk[path].cur.counter
       /\ CopyIsNoOlder
       /\ \A p \in Proc : op[p].at = "committed" /\ backup.counter > mem[p].counter
            => op[p].rec \in ToSet(backup.tail)
  /\ Comparable /\ rolledBack = "yes" =>
       /\ CopyIsNoOlder
       /\ path # None => backup.whole /\ disk[path].cur = backup
       /\ \A p \in Proc : op[p].at \in {"down", "read"}

\* The last writer finds what it left, up to its own next header.
WriterIsCurrent ==
  ~setup.faults =>
    \A p \in Proc : last = p /\ Open(p) /\ op[p].at # "committed" => Remembers(p)

CalmInv ==
  /\ OneAtATime
  /\ \A i \in Inode : NodeOK(disk[i])
  /\ \A p \in Proc : StageOK(p)
  /\ NobodyIsAhead /\ HoldersAreCurrent /\ OwedIsSafe /\ BackupOK /\ WriterIsCurrent

\* Only records that were committed are anywhere, and a process that is not set up
\* does nothing.
OnlyCommitted(d) == ToSet(d.cur.tail) \cup ToSet(d.dur.tail) \subseteq committed
RemembersCommitted(p) ==
  /\ ToSet(mem[p].tail) \cup mem[p].held \subseteq committed
  /\ op[p].at \in Compacting => ToSet(op[p].frames) \subseteq committed
  /\ op[p].at = "committed" => op[p].rec \in committed
NothingIsInvented ==
  /\ \A i \in Inode : OnlyCommitted(disk[i])
  /\ ToSet(backup.tail) \subseteq committed
  /\ \A p \in Proc : RemembersCommitted(p)
OthersAreDown == \A p \in Proc \ setup.procs : op[p].at = "down"
LoneIsCalm == (\E p \in Proc : setup.procs = {p}) => ~overlap
NobodyMeddles == ~setup.rollbacks => backup = Absent /\ rolledBack = "no"

IInv == /\ TypeOK /\ NothingIsInvented /\ OthersAreDown /\ LoneIsCalm /\ NobodyMeddles
        /\ ~overlap => CalmInv

---------------------------------------------------------------------------
(***************************************************************************)
(* The operators                                                           *)
(***************************************************************************)

\* An empty file and a file written in one go are files.
LEMMA Contents ==
  /\ Absent \in Content /\ Same(Absent) \in Node /\ NodeOK(Same(Absent))
  /\ \A n \in Nat : \A f \in Seq(Record) :
       Image(n, f) \in Content /\ Same(Image(n, f)) \in Node /\ NodeOK(Same(Image(n, f)))
<1>1. Absent \in Content
  BY DEF Absent, Content
<1>2. NodeOK(Same(Absent))
  BY DEF Absent, Same, NodeOK, Prefix
<1>3. ASSUME NEW n \in Nat, NEW f \in Seq(Record)
      PROVE  Image(n, f) \in Content /\ NodeOK(Same(Image(n, f)))
  <2>1. f \in Seq(Record \cup {Torn})
    OBVIOUS
  <2>2. Image(n, f) \in Content
    BY <2>1 DEF Image, Content
  <2>3. Len(f) <= Len(f) /\ \A k \in 1..Len(f) : f[k] = f[k]
    OBVIOUS
  <2>4. QED BY <2>2, <2>3 DEF Image, Same, NodeOK, Prefix, Covers
<1>4. QED BY <1>1, <1>2, <1>3 DEF Same, Node

\* What a frame written over the end leaves of a body.
LEMMA OverwrittenBody ==
  ASSUME NEW body \in Seq(Record \cup {Torn}), NEW end \in Nat,
         NEW frame \in Record \cup {Torn}
  PROVE  /\ Overwritten(body, end, frame) \in Seq(Record \cup {Torn})
         /\ Len(Overwritten(body, end, frame)) = end + 1
         /\ Overwritten(body, end, frame)[end + 1] = frame
         /\ \A k \in 1..end : k <= Len(body) => Overwritten(body, end, frame)[k] = body[k]
<1> DEFINE new == Overwritten(body, end, frame)
<1>1. new \in [1..end + 1 -> Record \cup {Torn}]
  BY DEF Overwritten
<1>2. new \in Seq(Record \cup {Torn}) /\ Len(new) = end + 1
  BY <1>1
<1>3. QED BY <1>2 DEF Overwritten

\* A tail is among the frames that are one longer.
LEMMA ToSetAppend ==
  ASSUME NEW S, NEW s \in Seq(S), NEW x \in S
  PROVE  ToSet(Append(s, x)) = ToSet(s) \cup {x}
<1>1. Append(s, x) \in Seq(S) /\ Len(Append(s, x)) = Len(s) + 1
  OBVIOUS
<1>2. \A k \in 1..Len(s) : Append(s, x)[k] = s[k]
  OBVIOUS
<1>3. Append(s, x)[Len(s) + 1] = x
  OBVIOUS
<1>4. DOMAIN Append(s, x) = 1..Len(s) + 1 /\ DOMAIN s = 1..Len(s)
  BY <1>1
<1>5. QED BY <1>2, <1>3, <1>4 DEF ToSet

LEMMA ToSetPrefix ==
  ASSUME NEW S, NEW s \in Seq(S), NEW t \in Seq(S), Prefix(s, t)
  PROVE  ToSet(s) \subseteq ToSet(t)
<1>1. DOMAIN s = 1..Len(s) /\ DOMAIN t = 1..Len(t) /\ Len(s) \in Nat /\ Len(t) \in Nat
  OBVIOUS
<1>2. QED BY <1>1 DEF ToSet, Prefix

LEMMA ToSetType ==
  ASSUME NEW S, NEW s \in Seq(S)
  PROVE  ToSet(s) \subseteq S /\ IsFiniteSet(ToSet(s)) /\ (s = <<>> => ToSet(s) = {})
<1>1. DOMAIN s = 1..Len(s) /\ Len(s) \in Nat
  OBVIOUS
<1>2. ToSet(s) \subseteq S
  BY <1>1 DEF ToSet
<1>3. s \in Surjection(1..Len(s), ToSet(s))
  BY <1>1 DEF ToSet, Surjection
<1>4. IsFiniteSet(ToSet(s))
  BY <1>1, <1>3, FS_Interval, FS_Surjection
<1>5. QED BY <1>1, <1>2, <1>4 DEF ToSet

\* The frames of a compaction are the records kept.
LEMMA KeptFrames ==
  ASSUME NEW keep, IsFiniteSet(keep), NEW frames \in SetToSeqs(keep)
  PROVE  frames \in Seq(keep) /\ ToSet(frames) = keep
<1> DEFINE n == Cardinality(keep)
<1>1. n \in Nat
  BY FS_CardinalityType
<1>2. frames \in [1..n -> keep] /\ \A i, j \in 1..n : i # j => frames[i] # frames[j]
  BY DEF SetToSeqs
<1>3. frames \in Seq(keep) /\ Len(frames) = n
  BY <1>1, <1>2
<1>4. frames \in Surjection(1..n, keep)
  <2>1. frames \in Injection(1..n, keep)
    BY <1>2 DEF Injection, IsInjective
  <2>2. Cardinality(1..n) = n
    BY <1>1, FS_Interval
  <2>3. QED BY <2>1, <2>2, FS_Injection
<1>5. QED BY <1>3, <1>4, <1>2 DEF Surjection, ToSet

\* What a power cut leaves of an inode is one of its two headers, and on an inode
\* that was in order the frames of both.
LEMMA Survived ==
  ASSUME NEW d \in Node, NEW c \in Survivors(d)
  PROVE  /\ c \in Content
         /\ c.tail \in {d.cur.tail, d.dur.tail}
         /\ NodeOK(d) => NodeOK(Same(c))
<1>1. PICK h \in {d.cur, d.dur}, b \in Tears(d) :
        c = [whole |-> h.whole, counter |-> h.counter, tail |-> h.tail, body |-> b]
  BY DEF Survivors
<1> DEFINE torn == [d.cur.body EXCEPT ![Len(d.cur.body)] = Torn]
<1>2. h \in Content /\ d.cur \in Content /\ d.dur \in Content
  BY <1>1 DEF Node
<1>3. /\ h.whole \in BOOLEAN /\ h.counter \in Nat /\ h.tail \in Seq(Record)
      /\ d.cur.body \in Seq(Record \cup {Torn}) /\ d.dur.body \in Seq(Record \cup {Torn})
      /\ d.cur.tail \in Seq(Record) /\ d.dur.tail \in Seq(Record)
  BY <1>2 DEF Content
<1>4. /\ torn \in Seq(Record \cup {Torn}) /\ Len(torn) = Len(d.cur.body)
      /\ \A k \in 1..Len(d.cur.body) : k # Len(d.cur.body) => torn[k] = d.cur.body[k]
  <2>1. d.cur.body \in [1..Len(d.cur.body) -> Record \cup {Torn}] /\ Len(d.cur.body) \in Nat
    BY <1>3
  <2>2. torn \in [1..Len(d.cur.body) -> Record \cup {Torn}]
    BY <2>1
  <2>3. QED BY <2>1, <2>2
<1>5. b \in {d.cur.body, d.dur.body} \/ (d.cur.body # d.dur.body /\ b = torn)
  BY <1>1 DEF Tears
<1>6. b \in Seq(Record \cup {Torn})
  BY <1>3, <1>4, <1>5
<1>7. c \in Content
  BY <1>1, <1>3, <1>6 DEF Content
<1>8. c.tail \in {d.cur.tail, d.dur.tail}
  BY <1>1
<1>9. ASSUME NodeOK(d) PROVE NodeOK(Same(c))
  <2>1. c.whole = h.whole /\ c.tail = h.tail /\ c.body = b /\ c.counter = h.counter
    BY <1>1
  <2>2. h.whole = d.cur.whole /\ Prefix(h.tail, d.cur.tail)
    BY <1>1, <1>3, <1>9 DEF NodeOK, Prefix
  <2>3. ~h.whole => h.tail = <<>>
    BY <1>3, <1>9, <2>2 DEF NodeOK, Prefix
  <2>4. ASSUME h.whole PROVE Covers(b, h.tail)
    <3>1. Covers(b, d.cur.tail)
      <4> HIDE DEF torn
      <4>1. CASE b \in {d.cur.body, d.dur.body}
        BY <4>1, <2>2, <2>4, <1>9 DEF NodeOK
      <4>2. CASE d.cur.body # d.dur.body /\ b = torn
        <5>1. Len(d.cur.tail) < Len(d.cur.body) /\ Covers(d.cur.body, d.cur.tail)
          BY <4>2, <2>2, <2>4, <1>9 DEF NodeOK
        <5>2. QED BY <5>1, <4>2, <1>3, <1>4 DEF Covers
      <4>3. QED BY <4>1, <4>2, <1>5
    <3>2. /\ Len(d.cur.tail) <= Len(b) /\ \A k \in 1..Len(d.cur.tail) : b[k] = d.cur.tail[k]
          /\ Len(h.tail) <= Len(d.cur.tail) /\ \A k \in 1..Len(h.tail) : d.cur.tail[k] = h.tail[k]
      BY <3>1, <2>2 DEF Covers, Prefix
    <3>3. Len(h.tail) \in Nat /\ Len(d.cur.tail) \in Nat /\ Len(b) \in Nat
      BY <1>3, <1>6
    <3>4. Len(h.tail) <= Len(b) /\ \A k \in 1..Len(h.tail) : b[k] = h.tail[k]
      BY <3>2, <3>3
    <3>5. QED BY <3>4 DEF Covers
  <2>5. Prefix(h.tail, h.tail)
    BY <1>3 DEF Prefix
  <2>6. c.counter <= c.counter
    BY <2>1, <1>3
  <2>7. QED BY <2>1, <2>3, <2>4, <2>5, <2>6 DEF NodeOK, Same
<1>10. QED BY <1>7, <1>8, <1>9

---------------------------------------------------------------------------
(***************************************************************************)
(* Types                                                                   *)
(***************************************************************************)

LEMMA Beginnings ==
  /\ Down \in Operation /\ Idle \in Operation /\ NoFile \in Memory
  /\ Down.at = "down" /\ Idle.at = "idle" /\ NoFile.held = {} /\ NoFile.ino = None
  /\ IsFiniteSet(NoFile.held)
<1>1. Down \in Operation /\ Down.at = "down"
  BY DEF Down, Operation, Places
<1>2. Idle \in Operation /\ Idle.at = "idle"
  BY <1>1 DEF Idle, Operation, Places
<1>3. NoFile \in Memory /\ NoFile.held = {} /\ NoFile.ino = None
  BY DEF NoFile, Memory
<1>4. QED BY <1>1, <1>2, <1>3, FS_EmptySet

\* A process moves within an operation.
LEMMA Moved ==
  ASSUME NEW o \in Operation, NEW a \in Places
  PROVE  [o EXCEPT !.at = a] \in Operation
BY DEF Operation

\* What it remembers changes one field at a time.
LEMMA Recalled ==
  \A m \in Memory :
    /\ \A i \in Inode \cup {None} : [m EXCEPT !.ino = i] \in Memory
    /\ \A n \in Nat : [m EXCEPT !.counter = n] \in Memory
    /\ \A t \in Seq(Record) : [m EXCEPT !.tail = t] \in Memory
    /\ \A h \in SUBSET Record : [m EXCEPT !.held = h] \in Memory
BY DEF Memory

\* An inode with another body, and with another header.
LEMMA NodeWithBody ==
  ASSUME NEW d \in Node, NEW b \in Seq(Record \cup {Torn})
  PROVE  LET c == [whole |-> d.cur.whole, counter |-> d.cur.counter,
                   tail |-> d.cur.tail, body |-> b]
         IN  [d EXCEPT !.cur.body = b] = [cur |-> c, dur |-> d.dur] /\ c \in Content
<1> DEFINE c == [whole |-> d.cur.whole, counter |-> d.cur.counter,
                 tail |-> d.cur.tail, body |-> b]
<1>1. c \in Content /\ d.cur \in Content
  BY DEF Node, Content
<1>2. [d.cur EXCEPT !.body = b] = c
  BY <1>1 DEF Content
<1>3. [d EXCEPT !.cur.body = b] = [d EXCEPT !.cur = [d.cur EXCEPT !.body = b]]
  OBVIOUS
<1>4. [d EXCEPT !.cur = c] = [cur |-> c, dur |-> d.dur]
  BY DEF Node
<1>5. QED BY <1>1, <1>2, <1>3, <1>4

LEMMA NodeWithHeader ==
  ASSUME NEW d \in Node, NEW n \in Nat, NEW t \in Seq(Record)
  PROVE  LET c == [whole |-> TRUE, counter |-> n, tail |-> t, body |-> d.cur.body]
         IN  /\ [d EXCEPT !.cur.whole = TRUE, !.cur.counter = n, !.cur.tail = t]
                = [cur |-> c, dur |-> d.dur]
             /\ c \in Content
<1> DEFINE c == [whole |-> TRUE, counter |-> n, tail |-> t, body |-> d.cur.body]
           e == [d.cur EXCEPT !.whole = TRUE, !.counter = n, !.tail = t]
<1>1. c \in Content /\ d.cur \in Content
  BY DEF Node, Content
<1>2. e = c
  <2>1. e \in Content /\ e.whole = TRUE /\ e.counter = n /\ e.tail = t /\ e.body = d.cur.body
    BY <1>1 DEF Content
  <2>2. c.whole = TRUE /\ c.counter = n /\ c.tail = t /\ c.body = d.cur.body
    OBVIOUS
  <2> HIDE DEF e, c
  <2>3. QED BY <1>1, <2>1, <2>2 DEF Content
<1>3. [d EXCEPT !.cur.whole = TRUE, !.cur.counter = n, !.cur.tail = t] = [d EXCEPT !.cur = e]
  BY DEF Node
<1>4. \A x : [d EXCEPT !.cur = x] = [cur |-> x, dur |-> d.dur]
  BY DEF Node
<1>5. QED BY <1>1, <1>2, <1>3, <1>4

\* What is in an inode, and what a process has in hand.
LEMMA Typed ==
  ASSUME TypeOK
  PROVE  /\ \A i \in Inode :
              /\ disk[i] \in Node /\ disk[i].cur \in Content /\ disk[i].dur \in Content
              /\ disk[i].cur.counter \in Nat /\ disk[i].cur.tail \in Seq(Record)
              /\ disk[i].cur.body \in Seq(Record \cup {Torn})
              /\ disk[i].dur.counter \in Nat /\ disk[i].dur.tail \in Seq(Record)
              /\ disk[i].dur.body \in Seq(Record \cup {Torn})
              /\ Len(disk[i].cur.tail) \in Nat
         /\ \A p \in Proc :
              /\ mem[p].ino \in Inode \cup {None} /\ mem[p].counter \in Nat
              /\ mem[p].tail \in Seq(Record) /\ Len(mem[p].tail) \in Nat
              /\ mem[p].held \subseteq Record
              /\ op[p].at \in Places /\ op[p].rec \in Record \cup {None}
              /\ op[p].ino \in Inode \cup {None} /\ op[p].frames \in Seq(Record)
<1>1. ASSUME NEW i \in Inode PROVE disk[i] \in Node
  BY DEF TypeOK
<1>2. ASSUME NEW p \in Proc PROVE mem[p] \in Memory /\ op[p] \in Operation
  BY DEF TypeOK
<1>3. \A t \in Seq(Record) : Len(t) \in Nat
  OBVIOUS
<1>4. QED BY <1>1, <1>2, <1>3 DEF Node, Content, Memory, Operation

\* The writes of append, as what becomes of the inode.
LEMMA FrameStep ==
  ASSUME TypeOK, NEW p \in Proc, WriteFrame(p)
  PROVE  \E c \in Content :
           /\ c.whole = disk[mem[p].ino].cur.whole
           /\ c.counter = disk[mem[p].ino].cur.counter
           /\ c.tail = disk[mem[p].ino].cur.tail
           /\ c.body = Overwritten(disk[mem[p].ino].cur.body, Len(mem[p].tail), op[p].rec)
           /\ disk' = [disk EXCEPT ![mem[p].ino] =
                         [cur |-> c, dur |-> disk[mem[p].ino].dur]]
<1> DEFINE i == mem[p].ino
           b == Overwritten(disk[i].cur.body, Len(mem[p].tail), op[p].rec)
           c == [whole |-> disk[i].cur.whole, counter |-> disk[i].cur.counter,
                 tail |-> disk[i].cur.tail, body |-> b]
<1>1. i \in Inode /\ op[p].rec \in Record /\ disk[i] \in Node
  BY DEF WriteFrame, TypeOK, InHand, Appending
<1>2. Len(mem[p].tail) \in Nat /\ disk[i].cur.body \in Seq(Record \cup {Torn})
  BY <1>1, Typed
<1>3. b \in Seq(Record \cup {Torn})
  BY <1>1, <1>2, OverwrittenBody
<1>4. disk' = [disk EXCEPT ![i] = [disk[i] EXCEPT !.cur.body = b]]
  BY DEF WriteFrame
<1> HIDE DEF b
<1>5. c \in Content /\ [disk[i] EXCEPT !.cur.body = b] = [cur |-> c, dur |-> disk[i].dur]
  BY <1>1, <1>3, NodeWithBody
<1>6. QED BY <1>4, <1>5 DEF b

LEMMA TornStep ==
  ASSUME TypeOK, NEW p \in Proc, FailAppend(p), disk' # disk
  PROVE  \E c \in Content :
           /\ c.whole = disk[mem[p].ino].cur.whole
           /\ c.counter = disk[mem[p].ino].cur.counter
           /\ c.tail = disk[mem[p].ino].cur.tail
           /\ c.body = Overwritten(disk[mem[p].ino].cur.body, Len(mem[p].tail), Torn)
           /\ disk' = [disk EXCEPT ![mem[p].ino] =
                         [cur |-> c, dur |-> disk[mem[p].ino].dur]]
<1> DEFINE i == mem[p].ino
           b == Overwritten(disk[i].cur.body, Len(mem[p].tail), Torn)
           c == [whole |-> disk[i].cur.whole, counter |-> disk[i].cur.counter,
                 tail |-> disk[i].cur.tail, body |-> b]
<1>1. i \in Inode /\ disk[i] \in Node
  BY DEF FailAppend, TypeOK, InHand, Appending
<1>2. Len(mem[p].tail) \in Nat /\ disk[i].cur.body \in Seq(Record \cup {Torn})
  BY <1>1, Typed
<1>3. b \in Seq(Record \cup {Torn})
  BY <1>2, OverwrittenBody
<1>4. disk' = [disk EXCEPT ![i] = [disk[i] EXCEPT !.cur.body = b]]
  BY DEF FailAppend
<1> HIDE DEF b
<1>5. c \in Content /\ [disk[i] EXCEPT !.cur.body = b] = [cur |-> c, dur |-> disk[i].dur]
  BY <1>1, <1>3, NodeWithBody
<1>6. QED BY <1>4, <1>5 DEF b

LEMMA HeaderStep ==
  ASSUME TypeOK, NEW p \in Proc, WriteHeader(p)
  PROVE  \E c \in Content :
           /\ c.whole = TRUE /\ c.counter = mem[p].counter + 1
           /\ c.tail = Append(mem[p].tail, op[p].rec)
           /\ c.body = disk[mem[p].ino].cur.body
           /\ disk' = [disk EXCEPT ![mem[p].ino] =
                         [cur |-> c, dur |-> disk[mem[p].ino].dur]]
<1> DEFINE i == mem[p].ino
           n == mem[p].counter + 1
           t == Append(mem[p].tail, op[p].rec)
           c == [whole |-> TRUE, counter |-> n, tail |-> t, body |-> disk[i].cur.body]
           e == [disk[i] EXCEPT !.cur.whole = TRUE, !.cur.counter = n, !.cur.tail = t]
<1>1. i \in Inode /\ op[p].rec \in Record /\ disk[i] \in Node
  BY DEF WriteHeader, TypeOK, InHand, Appending
<1>2. n \in Nat /\ t \in Seq(Record)
  BY <1>1 DEF TypeOK, Memory
<1>3. disk' = [disk EXCEPT ![i] = e]
  BY DEF WriteHeader
<1> HIDE DEF n, t
<1>4. c \in Content /\ e = [cur |-> c, dur |-> disk[i].dur]
  BY <1>1, <1>2, NodeWithHeader
<1> HIDE DEF e
<1>5. QED BY <1>3, <1>4 DEF n, t

LEMMA TypeInit == Init => TypeOK
<1> SUFFICES ASSUME Init PROVE TypeOK
  OBVIOUS
<1>1. disk \in [Inode -> Node]
  BY Contents DEF Init, Same
<1>2. mem \in [Proc -> Memory] /\ op \in [Proc -> Operation]
  BY Beginnings DEF Init
<1>3. \A p \in Proc : InHand(p)
  BY Beginnings DEF Init, InHand, Opening, Appending, Compacting
<1>4. QED BY <1>1, <1>2, <1>3, Contents, VaultFileAssumption DEF Init, TypeOK

\* The parts of the type invariant a step changes one at a time.
LEMMA TypeStep == TypeOK /\ [Next]_vars => TypeOK'
<1> SUFFICES ASSUME TypeOK, [Next]_vars PROVE TypeOK'
  OBVIOUS
<1> USE VaultFileAssumption
<1>t. /\ setup \in Setups /\ setup.procs \subseteq Proc
      /\ disk \in [Inode -> Node]
      /\ path \in Inode \cup {None} /\ candidate \in Inode \cup {None}
      /\ survives \subseteq Inode \cup {None} /\ path \in survives
      /\ backup \in Content
      /\ mem \in [Proc -> Memory] /\ op \in [Proc -> Operation]
      /\ \A p \in Proc : InHand(p)
  BY DEF TypeOK
<1>f. FreeInodes \subseteq Inode \ (survives \cup {path, candidate})
  BY DEF FreeInodes
<1>d. \A i \in Inode : /\ disk[i].cur \in Content /\ disk[i].dur \in Content
                       /\ disk[i].cur.counter \in Nat /\ disk[i].cur.tail \in Seq(Record)
                       /\ disk[i].cur.body \in Seq(Record \cup {Torn})
  BY <1>t DEF Node, Content
<1>m. \A p \in Proc : /\ mem[p].ino \in Inode \cup {None} /\ mem[p].counter \in Nat
                      /\ mem[p].tail \in Seq(Record) /\ mem[p].held \subseteq Record
                      /\ op[p].rec \in Record \cup {None} /\ op[p].ino \in Inode \cup {None}
                      /\ op[p].frames \in Seq(Record)
  BY <1>t DEF Memory, Operation
<1>s. ASSUME NEW i \in Inode, Synced(i) PROVE disk' \in [Inode -> Node]
  BY <1>s, <1>t, <1>d DEF Synced, Node
<1>u. ASSUME NEW change, Flushes(change), path' = path
      PROVE  survives' \subseteq Inode \cup {None} /\ path' \in survives'
  BY <1>u, <1>t DEF Flushes
<1>1. ASSUME NEW p \in Proc, NEW known, CreateFile(p, known), setup' = setup PROVE TypeOK'
  <2>1. PICK i \in FreeInodes :
          /\ disk' = [disk EXCEPT ![i] = Same(Absent)]
          /\ path' = i /\ survives' = survives \cup {i}
          /\ op' = [op EXCEPT ![p] = [Down EXCEPT !.at = "created", !.ino = i]]
    BY <1>1 DEF CreateFile, Same
  <2>2. disk' \in [Inode -> Node] /\ i \in Inode
    BY <2>1, <1>t, <1>f, Contents
  <2>3. [Down EXCEPT !.at = "created", !.ino = i] \in Operation
    BY <2>2, Beginnings DEF Operation, Places
  <2>4. op' \in [Proc -> Operation]
    BY <2>1, <2>3, <1>t
  <2>5. \A q \in Proc : InHand(q)'
    BY <2>1, <2>2, <1>1, <1>t DEF CreateFile, InHand, Down, Opening, Appending, Compacting
  <2>6. QED BY <1>1, <1>t, <2>1, <2>2, <2>4, <2>5 DEF CreateFile, TypeOK, Overlapping
<1>2. ASSUME NEW p \in Proc, CreateHeader(p), setup' = setup PROVE TypeOK'
  <2>1. op[p].ino \in Inode /\ mem[p] = NoFile
    BY <1>2, <1>t DEF CreateHeader, InHand
  <2>2. disk' \in [Inode -> Node]
    <3>1. Same(Image(0, <<>>)) \in Node
      <4>1. 0 \in Nat /\ <<>> \in Seq(Record)
        OBVIOUS
      <4>2. QED BY <4>1, Contents
    <3>2. disk' = [disk EXCEPT ![op[p].ino] = Same(Image(0, <<>>))]
      BY <1>2 DEF CreateHeader, Same
    <3>3. QED BY <3>1, <3>2, <2>1, <1>t
  <2>3. [NoFile EXCEPT !.ino = op[p].ino] \in Memory
    BY <2>1, Beginnings DEF Memory
  <2>4. mem' \in [Proc -> Memory] /\ op' \in [Proc -> Operation]
    BY <1>2, <1>t, <2>3, Beginnings DEF CreateHeader, Ends
  <2>5. \A q \in Proc : InHand(q)'
    <3>1. [NoFile EXCEPT !.ino = op[p].ino].held = {} /\ [NoFile EXCEPT !.ino = op[p].ino].ino = op[p].ino
      BY DEF NoFile
    <3>2. QED BY <3>1, <1>2, <1>t, <2>1, Beginnings, FS_EmptySet
              DEF CreateHeader, Ends, InHand, Appending, Compacting
  <2>6. QED BY <1>2, <1>t, <1>u, <2>2, <2>4, <2>5 DEF CreateHeader, TypeOK
<1>3. ASSUME NEW p \in Proc, NEW known, ReadFile(p, known), setup' = setup PROVE TypeOK'
  <2> DEFINE m == [NoFile EXCEPT !.counter = disk[path].cur.counter, !.tail = disk[path].cur.tail]
  <2>1. m \in Memory /\ m.held = {} /\ m.ino = None
    BY <1>3, <1>t, <1>d DEF ReadFile, NoFile, Memory
  <2>2. mem' = [mem EXCEPT ![p] = m] /\ op' = [op EXCEPT ![p].at = "read"]
    BY <1>3 DEF ReadFile
  <2> HIDE DEF m
  <2>3. mem' \in [Proc -> Memory] /\ op' \in [Proc -> Operation]
    BY <2>1, <2>2, <1>t, Moved DEF Places
  <2>4. \A q \in Proc : InHand(q)'
    <3>1. InHand(p)'
      <4>1. op'[p].at = "read" /\ mem'[p] = m
        BY <2>2, <1>t DEF Operation
      <4>2. QED BY <4>1, <2>1, FS_EmptySet DEF InHand, Appending, Compacting
    <3>2. ASSUME NEW q \in Proc, q # p PROVE InHand(q)'
      BY <2>2, <3>2, <1>t DEF InHand
    <3>3. QED BY <3>1, <3>2
  <2>5. QED BY <1>3, <1>t, <2>3, <2>4 DEF ReadFile, TypeOK, storage, Overlapping
<1>4. ASSUME NEW p \in Proc, NEW known, RefuseOpen(p, known), setup' = setup PROVE TypeOK'
  BY <1>4 DEF RefuseOpen, storage, observed, TypeOK, InHand
<1>5. ASSUME NEW p \in Proc, OpenHandle(p), setup' = setup PROVE TypeOK'
  <2>1. ToSet(mem[p].tail) \subseteq Record /\ IsFiniteSet(ToSet(mem[p].tail)) /\ path \in Inode
    BY <1>5, <1>t, <1>m, ToSetType DEF OpenHandle
  <2>2. mem' \in [Proc -> Memory] /\ op' \in [Proc -> Operation]
    <3>1. op' \in [Proc -> Operation]
      BY <1>5, <1>t, Beginnings DEF OpenHandle, Ends
    <3>2. mem[p] \in Memory /\ path \in Inode \cup {None} /\ ToSet(mem[p].tail) \in SUBSET Record
      BY <1>t, <2>1
    <3>3. [[mem[p] EXCEPT !.ino = path] EXCEPT !.held = ToSet(mem[p].tail)] \in Memory
      BY <3>2, Recalled
    <3>4. mem' = [mem EXCEPT ![p] = [[mem[p] EXCEPT !.ino = path] EXCEPT !.held = ToSet(mem[p].tail)]]
      BY <1>5, <1>t, Zenon DEF OpenHandle
    <3>5. QED BY <3>1, <3>3, <3>4, <1>t
  <2>3. \A q \in Proc : InHand(q)'
    <3>1. op'[p] = Idle /\ \A q \in Proc \ {p} : op'[q] = op[q] /\ mem'[q] = mem[q]
      BY <1>5, <1>t DEF OpenHandle, Ends
    <3>2. mem'[p].ino \in Inode /\ IsFiniteSet(mem'[p].held)
      BY <1>5, <2>1, <1>t DEF OpenHandle, Memory
    <3>3. InHand(p)'
      BY <3>1, <3>2, Beginnings DEF InHand, Appending, Compacting
    <3>4. \A q \in Proc \ {p} : InHand(q)'
      BY <3>1, <1>t DEF InHand
    <3>5. QED BY <3>3, <3>4
  <2>4. floor' \in Nat
    BY <1>5, <1>m DEF OpenHandle, TypeOK
  <2>5. QED BY <1>5, <2>2, <2>3, <2>4 DEF OpenHandle, TypeOK, storage
<1>6. ASSUME NEW p \in Proc, FailOpen(p), setup' = setup PROVE TypeOK'
  <2>1. /\ op'[p] = Down /\ mem'[p] = NoFile
        /\ \A q \in Proc \ {p} : op'[q] = op[q] /\ mem'[q] = mem[q]
        /\ op' \in [Proc -> Operation] /\ mem' \in [Proc -> Memory]
    BY <1>6, <1>t, Beginnings DEF FailOpen
  <2>2. InHand(p)'
    BY <2>1, Beginnings DEF InHand, Appending, Compacting
  <2>3. \A q \in Proc \ {p} : InHand(q)'
    BY <2>1, <1>t DEF InHand
  <2>4. UNCHANGED storage /\ UNCHANGED observed
    BY <1>6 DEF FailOpen
  <2>5. QED BY <1>6, <2>1, <2>2, <2>3, <2>4 DEF TypeOK, storage, observed
<1>7. ASSUME NEW p \in Proc, NEW r \in Record, BeginAppend(p, r), setup' = setup PROVE TypeOK'
  <2>1. [Idle EXCEPT !.at = "linked", !.rec = r] \in Operation
    BY Beginnings DEF Operation, Places
  <2>2. op' \in [Proc -> Operation]
    BY <1>7, <1>t, <2>1 DEF BeginAppend
  <2>3. \A q \in Proc : InHand(q)'
    BY <1>7, <1>t DEF BeginAppend, InHand, Idle, Down, Appending, Compacting
  <2>4. QED BY <1>7, <2>2, <2>3 DEF BeginAppend, TypeOK, storage, Overlapping
<1>8. ASSUME NEW p \in Proc, RefuseAppend(p), setup' = setup PROVE TypeOK'
  BY <1>8 DEF RefuseAppend, storage, observed, TypeOK, InHand
<1>9. ASSUME NEW p \in Proc, WriteFrame(p), setup' = setup PROVE TypeOK'
  <2>1. mem[p].ino \in Inode /\ op[p].rec \in Record
    BY <1>9, <1>t DEF WriteFrame, InHand, Appending
  <2>2. Len(mem[p].tail) \in Nat
    BY <1>m
  <2>3. disk' \in [Inode -> Node]
    <3>1. PICK c \in Content : disk' = [disk EXCEPT ![mem[p].ino] =
                                            [cur |-> c, dur |-> disk[mem[p].ino].dur]]
      BY <1>9, FrameStep
    <3>2. QED BY <3>1, <2>1, <1>t, <1>d DEF Node
  <2>4. op' \in [Proc -> Operation] /\ \A q \in Proc : InHand(q)'
    <3>1. op' \in [Proc -> Operation]
      BY <1>9, <1>t, Moved DEF WriteFrame, Places
    <3>2. QED BY <3>1, <1>9, <1>t DEF WriteFrame, InHand, Appending, Compacting, Operation
  <2>5. QED BY <1>9, <1>t, <2>3, <2>4 DEF WriteFrame, TypeOK, observed
<1>10. ASSUME NEW p \in Proc, SyncFrame(p), setup' = setup PROVE TypeOK'
  <2>1. mem[p].ino \in Inode
    BY <1>10, <1>t DEF SyncFrame, InHand, Appending
  <2>2. disk' \in [Inode -> Node]
    BY <1>10, <2>1, <1>s DEF SyncFrame
  <2>3. op' \in [Proc -> Operation] /\ \A q \in Proc : InHand(q)'
    <3>1. op' \in [Proc -> Operation]
      BY <1>10, <1>t, Moved DEF SyncFrame, Places
    <3>2. QED BY <3>1, <1>10, <1>t DEF SyncFrame, InHand, Appending, Compacting, Operation
  <2>4. QED BY <1>10, <1>t, <1>u, <2>2, <2>3 DEF SyncFrame, TypeOK, observed
<1>11. ASSUME NEW p \in Proc, WriteHeader(p), setup' = setup PROVE TypeOK'
  <2>1. mem[p].ino \in Inode /\ op[p].rec \in Record
    BY <1>11, <1>t DEF WriteHeader, InHand, Appending
  <2>2. mem[p].counter + 1 \in Nat /\ Append(mem[p].tail, op[p].rec) \in Seq(Record)
    BY <2>1, <1>m
  <2>3. disk' \in [Inode -> Node]
    <3>1. PICK c \in Content : disk' = [disk EXCEPT ![mem[p].ino] =
                                            [cur |-> c, dur |-> disk[mem[p].ino].dur]]
      BY <1>11, HeaderStep
    <3>2. QED BY <3>1, <2>1, <1>t, <1>d DEF Node
  <2>4. op' \in [Proc -> Operation] /\ \A q \in Proc : InHand(q)'
    <3>1. op' \in [Proc -> Operation]
      BY <1>11, <1>t, Moved DEF WriteHeader, Places
    <3>2. QED BY <3>1, <1>11, <1>t DEF WriteHeader, InHand, Appending, Compacting, Operation
  <2>5. QED BY <1>11, <1>t, <2>1, <2>3, <2>4 DEF WriteHeader, TypeOK
<1>12. ASSUME NEW p \in Proc, SyncHeader(p), setup' = setup PROVE TypeOK'
  <2>1. mem[p].ino \in Inode /\ op[p].rec \in Record
    BY <1>12, <1>t DEF SyncHeader, InHand, Appending
  <2>2. disk' \in [Inode -> Node]
    BY <1>12, <2>1, <1>s DEF SyncHeader
  <2>3. mem[p].counter + 1 \in Nat /\ Append(mem[p].tail, op[p].rec) \in Seq(Record)
    BY <2>1, <1>m
  <2>4. mem' \in [Proc -> Memory]
    <3> DEFINE m == [[[mem[p] EXCEPT !.counter = mem[p].counter + 1]
                              EXCEPT !.tail = Append(mem[p].tail, op[p].rec)]
                              EXCEPT !.held = mem[p].held \cup {op[p].rec}]
    <3>1. mem' = [mem EXCEPT ![p] = m]
      BY <1>12 DEF SyncHeader
    <3>2. mem[p].held \cup {op[p].rec} \in SUBSET Record /\ mem[p] \in Memory
      BY <2>1, <1>m, <1>t
    <3>3. m \in Memory
      BY <3>2, <2>3, Recalled
    <3> HIDE DEF m
    <3>4. QED BY <3>1, <3>3, <1>t
  <2>5. op' \in [Proc -> Operation]
    BY <1>12, <1>t, Beginnings DEF SyncHeader, Ends
  <2>6. \A q \in Proc : InHand(q)'
    <3>1. IsFiniteSet(mem[p].held \cup {op[p].rec})
      BY <1>t, FS_AddElement DEF InHand
    <3>2. QED BY <3>1, <2>1, <1>12, <1>t, Beginnings
              DEF SyncHeader, Ends, InHand, Appending, Compacting, Memory
  <2>7. floor' \in Nat
    BY <1>12, <2>3 DEF SyncHeader, TypeOK
  <2>8. QED BY <1>12, <1>t, <1>u, <2>1, <2>2, <2>4, <2>5, <2>6, <2>7 DEF SyncHeader, TypeOK
<1>13. ASSUME NEW p \in Proc, FailAppend(p), setup' = setup PROVE TypeOK'
  <2>1. mem[p].ino \in Inode
    BY <1>13, <1>t DEF FailAppend, InHand, Appending
  <2>2. Len(mem[p].tail) \in Nat
    BY <1>m
  <2>3. disk' \in [Inode -> Node]
    <3>1. CASE UNCHANGED disk
      BY <3>1, <1>t
    <3>2. CASE disk' # disk
      <4>1. PICK c \in Content : disk' = [disk EXCEPT ![mem[p].ino] =
                                              [cur |-> c, dur |-> disk[mem[p].ino].dur]]
        BY <1>13, <3>2, TornStep
      <4>2. QED BY <4>1, <2>1, <1>t, <1>d DEF Node
    <3>3. QED BY <3>1, <3>2
  <2>4. op' \in [Proc -> Operation] /\ \A q \in Proc : InHand(q)'
    BY <1>13, <1>t, Beginnings DEF FailAppend, Ends, InHand, Appending, Compacting
  <2>5. QED BY <1>13, <1>t, <2>3, <2>4 DEF FailAppend, TypeOK, observed
<1>14. ASSUME NEW p \in Proc, NEW keep \in SUBSET mem[p].held, NEW frames \in SetToSeqs(keep),
              BeginCompact(p, keep, frames), setup' = setup
       PROVE  TypeOK'
  <2>1. PICK i \in FreeInodes :
          /\ disk' = [disk EXCEPT ![i] = Same(Absent)]
          /\ candidate' = i
          /\ op' = [op EXCEPT ![p] = [Idle EXCEPT !.at = "cleared", !.ino = i,
                                                  !.frames = frames]]
    BY <1>14 DEF BeginCompact, Same
  <2>2. disk' \in [Inode -> Node] /\ i \in Inode
    BY <2>1, <1>t, <1>f, Contents
  <2>3. IsFiniteSet(keep) /\ keep \subseteq Record
    BY <1>t, <1>m, FS_Subset DEF InHand
  <2>4. frames \in Seq(Record)
    BY <2>3, KeptFrames
  <2>5. [Idle EXCEPT !.at = "cleared", !.ino = i, !.frames = frames] \in Operation
    BY <2>2, <2>4, Beginnings DEF Operation, Places
  <2>6. op' \in [Proc -> Operation] /\ mem' \in [Proc -> Memory]
    <3>1. mem' = [mem EXCEPT ![p] = [mem[p] EXCEPT !.held = keep]]
      BY <1>14 DEF BeginCompact
    <3>2. [mem[p] EXCEPT !.held = keep] \in Memory
      BY <1>t, <2>3, Recalled
    <3>3. QED BY <2>1, <2>5, <3>1, <3>2, <1>t
  <2>7. \A q \in Proc : InHand(q)'
    BY <1>14, <2>1, <2>2, <2>3, <1>t
       DEF BeginCompact, InHand, Idle, Down, Appending, Compacting, Memory
  <2>8. QED BY <1>14, <1>t, <2>1, <2>2, <2>6, <2>7 DEF BeginCompact, TypeOK, Overlapping
<1>15. ASSUME NEW p \in Proc, WriteCandidate(p), setup' = setup PROVE TypeOK'
  <2>1. op[p].ino \in Inode
    BY <1>15, <1>t DEF WriteCandidate, InHand, Compacting
  <2>2. Same(Image(mem[p].counter, op[p].frames)) \in Node
    BY <1>m, Contents
  <2>3. disk' = [disk EXCEPT ![op[p].ino] = Same(Image(mem[p].counter, op[p].frames))]
    BY <1>15 DEF WriteCandidate, Same
  <2>4. op' \in [Proc -> Operation] /\ \A q \in Proc : InHand(q)'
    <3>1. op' \in [Proc -> Operation]
      BY <1>15, <1>t, Moved DEF WriteCandidate, Places
    <3>2. QED BY <3>1, <1>15, <1>t DEF WriteCandidate, InHand, Appending, Compacting, Operation
  <2>5. QED BY <1>15, <1>t, <1>u, <2>1, <2>2, <2>3, <2>4 DEF WriteCandidate, TypeOK, observed
<1>16. ASSUME NEW p \in Proc, ConfirmSwap(p), setup' = setup PROVE TypeOK'
  <2>1. op' \in [Proc -> Operation] /\ \A q \in Proc : InHand(q)'
    <3>1. op' \in [Proc -> Operation]
      BY <1>16, <1>t, Moved DEF ConfirmSwap, Places
    <3>2. QED BY <3>1, <1>16, <1>t DEF ConfirmSwap, InHand, Appending, Compacting, Operation
  <2>2. QED BY <1>16, <2>1 DEF ConfirmSwap, TypeOK, storage, observed
<1>17. ASSUME NEW p \in Proc, AbandonSwap(p), setup' = setup PROVE TypeOK'
  <2>1. op' \in [Proc -> Operation] /\ \A q \in Proc : InHand(q)'
    BY <1>17, <1>t, Beginnings DEF AbandonSwap, Ends, InHand, Appending, Compacting
  <2>2. QED BY <1>17, <2>1, <1>t DEF AbandonSwap, TypeOK, observed
<1>18. ASSUME NEW p \in Proc, FailCandidate(p), setup' = setup PROVE TypeOK'
  <2>1. op' \in [Proc -> Operation] /\ \A q \in Proc : InHand(q)'
    BY <1>18, <1>t, Beginnings DEF FailCandidate, Ends, InHand, Appending, Compacting
  <2>2. QED BY <1>18, <2>1 DEF FailCandidate, TypeOK, storage, observed
<1>19. ASSUME NEW p \in Proc, Swap(p), setup' = setup PROVE TypeOK'
  <2>1. op[p].ino \in Inode /\ candidate \in Inode
    BY <1>19, <1>t DEF Swap, InHand, Compacting
  <2>2. mem' \in [Proc -> Memory] /\ op' \in [Proc -> Operation]
    <3>1. mem' = [mem EXCEPT ![p] = [[mem[p] EXCEPT !.ino = op[p].ino]
                                             EXCEPT !.tail = op[p].frames]]
      BY <1>19 DEF Swap
    <3>2. [[mem[p] EXCEPT !.ino = op[p].ino] EXCEPT !.tail = op[p].frames] \in Memory
      BY <1>t, <1>m, <2>1, Recalled
    <3>3. op' \in [Proc -> Operation]
      BY <1>19, <1>t, Beginnings DEF Swap, Ends
    <3>4. QED BY <3>1, <3>2, <3>3, <1>t
  <2>3. \A q \in Proc : InHand(q)'
    BY <1>19, <2>1, <1>t, Beginnings DEF Swap, Ends, InHand, Appending, Compacting, Memory
  <2>4. QED BY <1>19, <1>t, <2>1, <2>2, <2>3 DEF Swap, TypeOK
<1>20. ASSUME NEW p \in Proc, Kill(p), setup' = setup PROVE TypeOK'
  <2>1. /\ op'[p] = Down /\ mem'[p] = NoFile
        /\ \A q \in Proc \ {p} : op'[q] = op[q] /\ mem'[q] = mem[q]
        /\ op' \in [Proc -> Operation] /\ mem' \in [Proc -> Memory]
    BY <1>20, <1>t, Beginnings DEF Kill
  <2>2. InHand(p)'
    BY <2>1, Beginnings DEF InHand, Appending, Compacting
  <2>3. \A q \in Proc \ {p} : InHand(q)'
    BY <2>1, <1>t DEF InHand
  <2>4. UNCHANGED storage /\ UNCHANGED observed
    BY <1>20 DEF Kill
  <2>5. QED BY <1>20, <2>1, <2>2, <2>3, <2>4 DEF TypeOK, storage, observed
<1>21. CASE PowerCut /\ setup' = setup
  <2>1. PICK i \in survives :
          /\ path' = i /\ survives' = {i}
          /\ \/ i = None /\ UNCHANGED disk
             \/ i # None /\ \E c \in Survivors(disk[i]) :
                  disk' = [disk EXCEPT ![i] = Same(c)]
    BY <1>21 DEF PowerCut, Same
  <2>2. disk' \in [Inode -> Node]
    BY <2>1, <1>t, Survived DEF Same, Node
  <2>3. \A q \in Proc : InHand(q)'
    BY <1>21, Beginnings DEF PowerCut, InHand, Appending, Compacting
  <2>4. mem' \in [Proc -> Memory] /\ op' \in [Proc -> Operation]
    BY <1>21, Beginnings DEF PowerCut
  <2>5. QED BY <1>21, <1>t, <2>1, <2>2, <2>3, <2>4 DEF PowerCut, TypeOK, observed
<1>22. CASE TakeBackup /\ setup' = setup
  BY <1>22, <1>t, <1>d DEF TakeBackup, TypeOK, observed, InHand
<1>23. CASE RollBack /\ setup' = setup
  <2>1. disk' \in [Inode -> Node]
    BY <1>23, <1>t DEF RollBack, Node
  <2>2. \A q \in Proc : InHand(q)'
    BY <1>23, <1>t DEF RollBack, InHand
  <2>3. QED BY <1>23, <1>t, <2>1, <2>2 DEF RollBack, TypeOK
<1>24. CASE UNCHANGED vars
  BY <1>24 DEF vars, TypeOK, InHand
<1>25. QED BY <1>1, <1>2, <1>3, <1>4, <1>5, <1>6, <1>7, <1>8, <1>9, <1>10, <1>11, <1>12,
              <1>13, <1>14, <1>15, <1>16, <1>17, <1>18, <1>19, <1>20, <1>21, <1>22,
              <1>23, <1>24, <1>t DEF Next, Step

---------------------------------------------------------------------------
(***************************************************************************)
(* What holds however operations overlap                                   *)
(***************************************************************************)

\* A process moves nobody else, and overlaps with others if with anybody.
LEMMA OthersStay ==
  ASSUME TypeOK, NEW p \in Proc, Step(p) \/ Kill(p)
  PROVE  /\ \A q \in Proc \ {p} : op'[q] = op[q] /\ mem'[q] = mem[q]
         /\ (overlap => overlap') /\ (overlap' => Overlapping(p))
<1> USE DEF TypeOK, observed, storage, Overlapping
<1>1. ASSUME NEW known, CreateFile(p, known) \/ ReadFile(p, known) \/ RefuseOpen(p, known)
      PROVE  /\ \A q \in Proc \ {p} : op'[q] = op[q] /\ mem'[q] = mem[q]
             /\ (overlap => overlap') /\ (overlap' => Overlapping(p))
  <2>1. CASE CreateFile(p, known)
    BY <2>1 DEF CreateFile
  <2>2. CASE ReadFile(p, known)
    BY <2>2 DEF ReadFile
  <2>3. CASE RefuseOpen(p, known)
    BY <2>3 DEF RefuseOpen
  <2>4. QED BY <1>1, <2>1, <2>2, <2>3
<1>2. CASE CreateHeader(p) \/ OpenHandle(p) \/ FailOpen(p) \/ Kill(p)
  BY <1>2 DEF CreateHeader, OpenHandle, FailOpen, Kill, Ends
<1>3. ASSUME NEW r \in Record, BeginAppend(p, r)
      PROVE  /\ \A q \in Proc \ {p} : op'[q] = op[q] /\ mem'[q] = mem[q]
             /\ (overlap => overlap') /\ (overlap' => Overlapping(p))
  BY <1>3 DEF BeginAppend
<1>4. CASE RefuseAppend(p) \/ WriteFrame(p) \/ SyncFrame(p) \/ WriteHeader(p)
  <2>1. CASE RefuseAppend(p) \/ WriteFrame(p)
    BY <2>1 DEF RefuseAppend, WriteFrame
  <2>2. CASE SyncFrame(p) \/ WriteHeader(p)
    BY <2>2 DEF SyncFrame, WriteHeader
  <2>3. QED BY <1>4, <2>1, <2>2
<1>5. CASE SyncHeader(p) \/ FailAppend(p)
  BY <1>5 DEF SyncHeader, FailAppend, Ends
<1>6. ASSUME NEW keep \in SUBSET mem[p].held, NEW frames \in SetToSeqs(keep),
             BeginCompact(p, keep, frames)
      PROVE  /\ \A q \in Proc \ {p} : op'[q] = op[q] /\ mem'[q] = mem[q]
             /\ (overlap => overlap') /\ (overlap' => Overlapping(p))
  BY <1>6 DEF BeginCompact
<1>7. CASE WriteCandidate(p) \/ ConfirmSwap(p) \/ AbandonSwap(p) \/ FailCandidate(p) \/ Swap(p)
  BY <1>7 DEF WriteCandidate, ConfirmSwap, AbandonSwap, FailCandidate, Swap, Ends
<1>8. QED BY <1>1, <1>2, <1>3, <1>4, <1>5, <1>6, <1>7 DEF Step

\* A process that is alone never overlaps with another, and nobody puts another file
\* in place where nobody may.
LEMMA SurroundingsStep ==
  ASSUME TypeOK, OthersAreDown, LoneIsCalm, NobodyMeddles, [Next]_vars
  PROVE  OthersAreDown' /\ LoneIsCalm' /\ NobodyMeddles' /\ (~overlap' => ~overlap)
<1>1. ASSUME NEW p \in setup.procs, Step(p) \/ Kill(p), setup' = setup
      PROVE  OthersAreDown' /\ LoneIsCalm' /\ (~overlap' => ~overlap)
  <2>1. p \in Proc
    BY <1>1, VaultFileAssumption DEF TypeOK
  <2>2. /\ \A q \in Proc \ {p} : op'[q] = op[q] /\ mem'[q] = mem[q]
        /\ (overlap => overlap') /\ (overlap' => Overlapping(p))
    BY <1>1, <2>1, OthersStay
  <2>3. OthersAreDown'
    BY <1>1, <2>2 DEF OthersAreDown
  <2>4. LoneIsCalm'
    <3>1. ASSUME setup.procs = {p} PROVE ~Overlapping(p)
      BY <2>1, <3>1 DEF Overlapping, Busy, OthersAreDown, LoneIsCalm
    <3>2. QED BY <1>1, <2>1, <2>2, <3>1 DEF LoneIsCalm
  <2>5. QED BY <2>2, <2>3, <2>4
<1>2. ASSUME PowerCut \/ TakeBackup \/ RollBack \/ UNCHANGED vars, setup' = setup
      PROVE  OthersAreDown' /\ LoneIsCalm' /\ (~overlap' => ~overlap)
  <2>1. op' = op \/ op' = [p \in Proc |-> Down]
    BY <1>2 DEF PowerCut, TakeBackup, RollBack, vars
  <2>2. overlap' = overlap
    BY <1>2 DEF PowerCut, TakeBackup, RollBack, vars, observed
  <2>3. OthersAreDown'
    BY <1>2, <2>1, Beginnings DEF OthersAreDown
  <2>4. QED BY <1>2, <2>2, <2>3 DEF LoneIsCalm
<1>3. ASSUME NEW p \in setup.procs, Step(p) \/ Kill(p), setup' = setup PROVE NobodyMeddles'
  <2>1. backup' = backup /\ (rolledBack' = rolledBack \/ rolledBack = "yes")
    <3>1. ASSUME NEW known, CreateFile(p, known) \/ ReadFile(p, known) \/ RefuseOpen(p, known)
          PROVE  backup' = backup /\ (rolledBack' = rolledBack \/ rolledBack = "yes")
      BY <3>1 DEF CreateFile, ReadFile, RefuseOpen, storage, observed
    <3>2. CASE CreateHeader(p) \/ OpenHandle(p) \/ FailOpen(p) \/ Kill(p)
      BY <3>2 DEF CreateHeader, OpenHandle, FailOpen, Kill, storage, observed
    <3>3. ASSUME NEW r \in Record, BeginAppend(p, r)
          PROVE  backup' = backup /\ (rolledBack' = rolledBack \/ rolledBack = "yes")
      BY <3>3 DEF BeginAppend, storage
    <3>4. CASE RefuseAppend(p) \/ WriteFrame(p) \/ SyncFrame(p) \/ WriteHeader(p)
      BY <3>4 DEF RefuseAppend, WriteFrame, SyncFrame, WriteHeader, storage, observed
    <3>5. CASE SyncHeader(p) \/ FailAppend(p)
      BY <3>5 DEF SyncHeader, FailAppend, observed
    <3>6. ASSUME NEW keep, NEW frames, BeginCompact(p, keep, frames)
          PROVE  backup' = backup /\ (rolledBack' = rolledBack \/ rolledBack = "yes")
      BY <3>6 DEF BeginCompact
    <3>7. CASE WriteCandidate(p) \/ ConfirmSwap(p) \/ AbandonSwap(p) \/ FailCandidate(p) \/ Swap(p)
      BY <3>7 DEF WriteCandidate, ConfirmSwap, AbandonSwap, FailCandidate, Swap, storage, observed
    <3>8. QED BY <1>3, <3>1, <3>2, <3>3, <3>4, <3>5, <3>6, <3>7 DEF Step
  <2>2. QED BY <1>3, <2>1 DEF NobodyMeddles
<1>4. ASSUME PowerCut \/ TakeBackup \/ RollBack \/ UNCHANGED vars, setup' = setup
      PROVE  NobodyMeddles'
  BY <1>4 DEF PowerCut, TakeBackup, RollBack, vars, observed, NobodyMeddles
<1>5. CASE UNCHANGED vars
  BY <1>2, <1>4, <1>5 DEF vars
<1>6. QED BY <1>1, <1>2, <1>3, <1>4, <1>5 DEF Next

\* Nothing is remembered or on the disk that was not committed.
LEMMA InventionStep ==
  ASSUME TypeOK, NothingIsInvented, [Next]_vars
  PROVE  NothingIsInvented'
<1>t. /\ disk \in [Inode -> Node] /\ mem \in [Proc -> Memory] /\ op \in [Proc -> Operation]
      /\ path \in Inode \cup {None} /\ setup.procs \subseteq Proc
  BY VaultFileAssumption DEF TypeOK
<1>n. /\ \A i \in Inode : OnlyCommitted(disk[i])
      /\ ToSet(backup.tail) \subseteq committed
      /\ \A p \in Proc : RemembersCommitted(p)
  BY DEF NothingIsInvented
<1>e. ToSet(<<>>) = {}
  BY DEF ToSet
<1>a. OnlyCommitted(Same(Absent)) /\ OnlyCommitted(Same(Image(0, <<>>)))
  BY <1>e DEF OnlyCommitted, Same, Absent, Image
<1>o. ASSUME NEW p \in Proc, Step(p) \/ Kill(p), committed \subseteq committed'
      PROVE  \A q \in Proc \ {p} : RemembersCommitted(q)'
  BY <1>o, <1>n, OthersStay DEF RemembersCommitted
<1>m. ASSUME NEW p \in Proc, mem' = mem, op'[p].at \notin Compacting \cup {"committed"},
             committed' = committed
      PROVE  RemembersCommitted(p)'
  BY <1>m, <1>n DEF RemembersCommitted
<1>d. ASSUME disk' = disk, committed' = committed
      PROVE  \A i \in Inode : OnlyCommitted(disk[i])'
  BY <1>d, <1>n DEF OnlyCommitted
<1>s. ASSUME NEW i \in Inode, Synced(i), committed \subseteq committed'
      PROVE  \A j \in Inode : OnlyCommitted(disk[j])'
  BY <1>s, <1>n, <1>t DEF OnlyCommitted, Synced, Node
<1>1. ASSUME NEW p \in Proc, NEW known, CreateFile(p, known), Step(p) PROVE NothingIsInvented'
  <2>1. PICK i \in Inode :
          /\ disk' = [disk EXCEPT ![i] = Same(Absent)]
          /\ op' = [op EXCEPT ![p] = [Down EXCEPT !.at = "created", !.ino = i]]
    BY <1>1 DEF CreateFile, Same, FreeInodes
  <2>2. committed' = committed /\ backup' = backup /\ mem' = mem
    BY <1>1 DEF CreateFile
  <2>3. \A j \in Inode : OnlyCommitted(disk[j])'
    BY <2>1, <2>2, <1>t, <1>n, <1>a DEF OnlyCommitted
  <2>4. op'[p].at = "created"
    BY <2>1, <1>t DEF Down
  <2>5. QED BY <2>2, <2>3, <2>4, <1>1, <1>m, <1>n, <1>o DEF NothingIsInvented, Compacting
<1>2. ASSUME NEW p \in Proc, CreateHeader(p), Step(p) PROVE NothingIsInvented'
  <2>1. disk' = [disk EXCEPT ![op[p].ino] = Same(Image(0, <<>>))]
    BY <1>2 DEF CreateHeader, Same
  <2>2. committed' = committed /\ backup' = backup
    BY <1>2 DEF CreateHeader
  <2>3. \A j \in Inode : OnlyCommitted(disk[j])'
    BY <2>1, <2>2, <1>t, <1>n, <1>a DEF OnlyCommitted
  <2>4. mem'[p].tail = <<>> /\ mem'[p].held = {} /\ op'[p].at = "idle"
    BY <1>2, <1>t DEF CreateHeader, Ends, NoFile, Idle, Down
  <2>5. RemembersCommitted(p)'
    BY <2>4, <1>e DEF RemembersCommitted, Compacting
  <2>6. QED BY <2>2, <2>3, <2>5, <1>2, <1>n, <1>o DEF NothingIsInvented
<1>3. ASSUME NEW p \in Proc, NEW known, ReadFile(p, known), Step(p) PROVE NothingIsInvented'
  <2>1. disk' = disk /\ committed' = committed /\ backup' = backup /\ path \in Inode
    BY <1>3, <1>t DEF ReadFile, storage
  <2>2. mem'[p].tail = disk[path].cur.tail /\ mem'[p].held = {} /\ op'[p].at = "read"
    BY <1>3, <1>t DEF ReadFile, NoFile, Operation
  <2>3. RemembersCommitted(p)'
    BY <2>1, <2>2, <1>n DEF RemembersCommitted, OnlyCommitted, Compacting
  <2>4. QED BY <2>1, <2>3, <1>3, <1>d, <1>n, <1>o DEF NothingIsInvented
<1>4. ASSUME NEW p \in Proc, NEW known, RefuseOpen(p, known) PROVE NothingIsInvented'
  BY <1>4, <1>n DEF RefuseOpen, storage, observed, NothingIsInvented, OnlyCommitted,
                    RemembersCommitted
<1>5. ASSUME NEW p \in Proc, OpenHandle(p), Step(p) PROVE NothingIsInvented'
  <2>1. disk' = disk /\ committed' = committed /\ backup' = backup
    BY <1>5 DEF OpenHandle, storage
  <2>2. mem'[p].tail = mem[p].tail /\ mem'[p].held = ToSet(mem[p].tail) /\ op'[p].at = "idle"
    BY <1>5, <1>t DEF OpenHandle, Ends, Idle, Down, Memory
  <2>3. RemembersCommitted(p)'
    BY <2>1, <2>2, <1>n DEF RemembersCommitted, Compacting
  <2>4. QED BY <2>1, <2>3, <1>5, <1>d, <1>n, <1>o DEF NothingIsInvented
<1>6. ASSUME NEW p \in Proc, FailOpen(p) \/ Kill(p), Step(p) \/ Kill(p) PROVE NothingIsInvented'
  <2>1. disk' = disk /\ committed' = committed /\ backup' = backup
    BY <1>6 DEF FailOpen, Kill, storage, observed
  <2>2. mem'[p].tail = <<>> /\ mem'[p].held = {} /\ op'[p].at = "down"
    BY <1>6, <1>t DEF FailOpen, Kill, NoFile, Down
  <2>3. RemembersCommitted(p)'
    BY <2>1, <2>2, <1>e DEF RemembersCommitted, Compacting
  <2>4. QED BY <2>1, <2>3, <1>6, <1>d, <1>n, <1>o DEF NothingIsInvented
<1>7. ASSUME NEW p \in Proc, NEW r \in Record, BeginAppend(p, r), Step(p) PROVE NothingIsInvented'
  <2>1. disk' = disk /\ committed' = committed /\ backup' = backup /\ mem' = mem
    BY <1>7 DEF BeginAppend, storage
  <2>2. op'[p].at = "linked"
    BY <1>7, <1>t DEF BeginAppend, Idle, Down
  <2>3. QED BY <2>1, <2>2, <1>7, <1>d, <1>m, <1>n, <1>o DEF NothingIsInvented, Compacting
<1>8. ASSUME NEW p \in Proc, RefuseAppend(p) PROVE NothingIsInvented'
  BY <1>8, <1>n DEF RefuseAppend, storage, observed, NothingIsInvented, OnlyCommitted,
                    RemembersCommitted
<1>9. ASSUME NEW p \in Proc, WriteFrame(p), Step(p) PROVE NothingIsInvented'
  <2>1. PICK c \in Content :
          /\ c.tail = disk[mem[p].ino].cur.tail
          /\ disk' = [disk EXCEPT ![mem[p].ino] = [cur |-> c, dur |-> disk[mem[p].ino].dur]]
    BY <1>9, FrameStep
  <2>2. committed' = committed /\ backup' = backup /\ mem' = mem /\ op'[p].at = "written"
    BY <1>9, <1>t DEF WriteFrame, observed, Operation
  <2>3. \A j \in Inode : OnlyCommitted(disk[j])'
    BY <2>1, <2>2, <1>t, <1>n DEF OnlyCommitted
  <2>4. QED BY <2>2, <2>3, <1>9, <1>m, <1>n, <1>o DEF NothingIsInvented, Compacting
<1>10. ASSUME NEW p \in Proc, SyncFrame(p), Step(p) PROVE NothingIsInvented'
  <2>1. /\ committed' = committed /\ backup' = backup /\ mem' = mem /\ op'[p].at = "flushed"
        /\ mem[p].ino \in Inode
    BY <1>10, <1>t DEF SyncFrame, observed, Operation, TypeOK, InHand, Appending
  <2>2. \A j \in Inode : OnlyCommitted(disk[j])'
    BY <2>1, <1>10, <1>s DEF SyncFrame
  <2>3. QED BY <2>1, <2>2, <1>10, <1>m, <1>n, <1>o DEF NothingIsInvented, Compacting
<1>11. ASSUME NEW p \in Proc, WriteHeader(p), Step(p) PROVE NothingIsInvented'
  <2>1. PICK c \in Content :
          /\ c.tail = Append(mem[p].tail, op[p].rec)
          /\ disk' = [disk EXCEPT ![mem[p].ino] = [cur |-> c, dur |-> disk[mem[p].ino].dur]]
    BY <1>11, HeaderStep
  <2>2. /\ committed' = committed \cup {op[p].rec} /\ backup' = backup /\ mem' = mem
        /\ op'[p].at = "committed" /\ op'[p].rec = op[p].rec
    BY <1>11, <1>t DEF WriteHeader, Operation
  <2>3. op[p].rec \in Record /\ mem[p].tail \in Seq(Record)
    BY <1>11, Typed DEF WriteHeader, TypeOK, InHand, Appending
  <2>4. ToSet(c.tail) \subseteq committed'
    BY <2>1, <2>2, <2>3, <1>n, ToSetAppend DEF RemembersCommitted
  <2>5. \A j \in Inode : OnlyCommitted(disk[j])'
    BY <2>1, <2>2, <2>4, <1>t, <1>n DEF OnlyCommitted
  <2>6. RemembersCommitted(p)'
    BY <2>2, <1>n DEF RemembersCommitted, Compacting
  <2>7. QED BY <2>2, <2>5, <2>6, <1>11, <1>n, <1>o DEF NothingIsInvented
<1>12. ASSUME NEW p \in Proc, SyncHeader(p), Step(p) PROVE NothingIsInvented'
  <2>1. /\ committed' = committed /\ backup' = backup /\ op'[p].at = "idle"
        /\ mem[p].ino \in Inode /\ op[p].rec \in Record /\ op[p].at = "committed"
        /\ mem[p].tail \in Seq(Record)
    BY <1>12, <1>t, Typed DEF SyncHeader, Ends, Idle, Down, TypeOK, InHand, Appending
  <2>2. \A j \in Inode : OnlyCommitted(disk[j])'
    BY <2>1, <1>12, <1>s DEF SyncHeader
  <2>3. /\ mem'[p].tail = Append(mem[p].tail, op[p].rec)
        /\ mem'[p].held = mem[p].held \cup {op[p].rec}
    BY <1>12, <1>t DEF SyncHeader, Memory
  <2>4. RemembersCommitted(p)'
    BY <2>1, <2>3, <1>n, ToSetAppend DEF RemembersCommitted, Compacting
  <2>5. QED BY <2>1, <2>2, <2>4, <1>12, <1>n, <1>o DEF NothingIsInvented
<1>13. ASSUME NEW p \in Proc, FailAppend(p), Step(p) PROVE NothingIsInvented'
  <2>1. committed' = committed /\ backup' = backup /\ mem' = mem /\ op'[p].at = "idle"
    BY <1>13, <1>t DEF FailAppend, Ends, Idle, Down, observed
  <2>2. \A j \in Inode : OnlyCommitted(disk[j])'
    <3>1. CASE disk' = disk
      BY <3>1, <2>1, <1>d
    <3>2. CASE disk' # disk
      <4>1. PICK c \in Content :
              /\ c.tail = disk[mem[p].ino].cur.tail
              /\ disk' = [disk EXCEPT ![mem[p].ino] =
                                        [cur |-> c, dur |-> disk[mem[p].ino].dur]]
        BY <3>2, <1>13, TornStep
      <4>2. QED BY <4>1, <2>1, <1>t, <1>n DEF OnlyCommitted
    <3>3. QED BY <3>1, <3>2
  <2>3. QED BY <2>1, <2>2, <1>13, <1>m, <1>n, <1>o DEF NothingIsInvented, Compacting
<1>14. ASSUME NEW p \in Proc, NEW keep \in SUBSET mem[p].held, NEW frames \in SetToSeqs(keep),
              BeginCompact(p, keep, frames), Step(p)
       PROVE  NothingIsInvented'
  <2>1. PICK i \in Inode :
          /\ disk' = [disk EXCEPT ![i] = Same(Absent)]
          /\ op' = [op EXCEPT ![p] = [Idle EXCEPT !.at = "cleared", !.ino = i,
                                                  !.frames = frames]]
    BY <1>14 DEF BeginCompact, Same, FreeInodes
  <2>2. committed' = committed /\ backup' = backup
    BY <1>14 DEF BeginCompact
  <2>3. \A j \in Inode : OnlyCommitted(disk[j])'
    BY <2>1, <2>2, <1>t, <1>n, <1>a DEF OnlyCommitted
  <2>4. /\ op'[p].at = "cleared" /\ op'[p].frames = frames
        /\ mem'[p].tail = mem[p].tail /\ mem'[p].held = keep
    BY <2>1, <1>14, <1>t DEF BeginCompact, Idle, Down, Memory
  <2>5. ToSet(frames) = keep
    BY <1>14, KeptFrames, FS_Subset DEF TypeOK, InHand
  <2>6. RemembersCommitted(p)'
    BY <2>2, <2>4, <2>5, <1>n DEF RemembersCommitted
  <2>7. QED BY <2>2, <2>3, <2>6, <1>14, <1>n, <1>o DEF NothingIsInvented
<1>15. ASSUME NEW p \in Proc, WriteCandidate(p), Step(p) PROVE NothingIsInvented'
  <2>1. disk' = [disk EXCEPT ![op[p].ino] = Same(Image(mem[p].counter, op[p].frames))]
    BY <1>15 DEF WriteCandidate, Same
  <2>2. /\ committed' = committed /\ backup' = backup /\ mem' = mem
        /\ op[p].at = "cleared" /\ op'[p].at = "imaged" /\ op'[p].frames = op[p].frames
    BY <1>15, <1>t DEF WriteCandidate, observed, Operation
  <2>3. ToSet(op[p].frames) \subseteq committed
    BY <2>2, <1>n DEF RemembersCommitted, Compacting
  <2>4. \A j \in Inode : OnlyCommitted(disk[j])'
    BY <2>1, <2>2, <2>3, <1>t, <1>n DEF OnlyCommitted, Same, Image
  <2>5. RemembersCommitted(p)'
    BY <2>2, <2>3, <1>n DEF RemembersCommitted
  <2>6. QED BY <2>2, <2>4, <2>5, <1>15, <1>n, <1>o DEF NothingIsInvented
<1>16. ASSUME NEW p \in Proc, ConfirmSwap(p), Step(p) PROVE NothingIsInvented'
  <2>1. /\ disk' = disk /\ committed' = committed /\ backup' = backup /\ mem' = mem
        /\ op[p].at = "imaged" /\ op'[p].at = "confirmed" /\ op'[p].frames = op[p].frames
    BY <1>16, <1>t DEF ConfirmSwap, storage, observed, Operation
  <2>2. RemembersCommitted(p)'
    BY <2>1, <1>n DEF RemembersCommitted, Compacting
  <2>3. QED BY <2>1, <2>2, <1>16, <1>d, <1>n, <1>o DEF NothingIsInvented
<1>17. ASSUME NEW p \in Proc, AbandonSwap(p) \/ FailCandidate(p), Step(p) PROVE NothingIsInvented'
  <2>1. /\ disk' = disk /\ committed' = committed /\ backup' = backup /\ mem' = mem
        /\ op'[p].at = "idle"
    BY <1>17, <1>t DEF AbandonSwap, FailCandidate, Ends, Idle, Down, storage, observed
  <2>2. QED BY <2>1, <1>17, <1>d, <1>m, <1>n, <1>o DEF NothingIsInvented, Compacting
<1>18. ASSUME NEW p \in Proc, Swap(p), Step(p) PROVE NothingIsInvented'
  <2>1. /\ disk' = disk /\ committed' = committed /\ backup' = backup
        /\ op[p].at = "confirmed" /\ op'[p].at = "idle"
        /\ mem'[p].tail = op[p].frames /\ mem'[p].held = mem[p].held
    BY <1>18, <1>t DEF Swap, Ends, Idle, Down, Memory
  <2>2. RemembersCommitted(p)'
    BY <2>1, <1>n DEF RemembersCommitted, Compacting
  <2>3. QED BY <2>1, <2>2, <1>18, <1>d, <1>n, <1>o DEF NothingIsInvented
<1>19. CASE PowerCut
  <2>1. committed' = committed /\ backup' = backup
    BY <1>19 DEF PowerCut, observed
  <2>2. \A q \in Proc : mem'[q].tail = <<>> /\ mem'[q].held = {} /\ op'[q].at = "down"
    BY <1>19 DEF PowerCut, NoFile, Down
  <2>3. \A q \in Proc : RemembersCommitted(q)'
    BY <2>1, <2>2, <1>e DEF RemembersCommitted, Compacting
  <2>4. \A j \in Inode : OnlyCommitted(disk[j])'
    <3>1. CASE disk' = disk
      BY <3>1, <2>1, <1>d
    <3>2. CASE disk' # disk
      <4>1. PICK i \in Inode : \E c \in Survivors(disk[i]) : disk' = [disk EXCEPT ![i] = Same(c)]
        BY <3>2, <1>19 DEF PowerCut, Same, TypeOK
      <4>2. PICK c \in Survivors(disk[i]) : disk' = [disk EXCEPT ![i] = Same(c)]
        BY <4>1
      <4>3. c.tail \in {disk[i].cur.tail, disk[i].dur.tail}
        BY <1>t, Survived
      <4>4. QED BY <4>2, <4>3, <2>1, <1>t, <1>n DEF OnlyCommitted, Same
    <3>3. QED BY <3>1, <3>2
  <2>5. QED BY <2>1, <2>3, <2>4, <1>n DEF NothingIsInvented
<1>20. CASE TakeBackup
  <2>1. /\ disk' = disk /\ committed' = committed /\ mem' = mem /\ op' = op
        /\ path \in Inode /\ backup' = disk[path].cur
    BY <1>20, <1>t DEF TakeBackup, observed
  <2>2. QED BY <2>1, <1>n DEF NothingIsInvented, OnlyCommitted, RemembersCommitted
<1>21. CASE RollBack
  <2>1. /\ committed' = committed /\ backup' = backup /\ mem' = mem /\ op' = op /\ path \in Inode
        /\ disk' = disk \/ disk' = [disk EXCEPT ![path] = Same(backup)]
    BY <1>21, <1>t DEF RollBack, Same
  <2>2. \A j \in Inode : OnlyCommitted(disk[j])'
    BY <2>1, <1>t, <1>n DEF OnlyCommitted, Same
  <2>3. QED BY <2>1, <2>2, <1>n DEF NothingIsInvented, RemembersCommitted
<1>22. CASE UNCHANGED vars
  BY <1>22, <1>n DEF vars, NothingIsInvented, OnlyCommitted, RemembersCommitted
<1>23. ASSUME NEW p \in Proc, Step(p) \/ Kill(p) PROVE NothingIsInvented'
  BY <1>1, <1>2, <1>3, <1>4, <1>5, <1>6, <1>7, <1>8, <1>9, <1>10, <1>11, <1>12, <1>13,
     <1>14, <1>15, <1>16, <1>17, <1>18, <1>23 DEF Step
<1>24. QED BY <1>19, <1>20, <1>21, <1>22, <1>23, <1>t DEF Next

---------------------------------------------------------------------------
(***************************************************************************)
(* What holds until two operations overlap                                 *)
(***************************************************************************)

LEMMA CalmInit == Init => CalmInv /\ NobodyMeddles /\ OthersAreDown /\ LoneIsCalm
                          /\ NothingIsInvented
<1> SUFFICES ASSUME Init
             PROVE  CalmInv /\ NobodyMeddles /\ OthersAreDown /\ LoneIsCalm /\ NothingIsInvented
  OBVIOUS
<1>1. /\ \A p \in Proc : op[p].at = "down" /\ mem[p] = NoFile
      /\ \A i \in Inode : disk[i] = Same(Absent)
      /\ path = None /\ survives = {None} /\ backup = Absent /\ owed = {}
      /\ rolledBack = "no" /\ overlap = FALSE
  BY Beginnings DEF Init, Same
<1>2. ~Absent.whole /\ Absent.tail = <<>> /\ ToSet(<<>>) = {}
  BY DEF Absent, ToSet
<1>3. OneAtATime /\ NobodyIsAhead /\ HoldersAreCurrent /\ WriterIsCurrent
  BY <1>1 DEF OneAtATime, Busy, NobodyIsAhead, HoldersAreCurrent, WriterIsCurrent, Open
<1>4. \A p \in Proc : StageOK(p)
  BY <1>1 DEF StageOK, Compacting
<1>5. OwedIsSafe
  BY <1>1 DEF OwedIsSafe
<1>6. BackupOK
  BY <1>1, <1>2, Contents DEF BackupOK
<1>7. \A i \in Inode : NodeOK(disk[i])
  BY <1>1, Contents
<1>8. CalmInv
  BY <1>3, <1>4, <1>5, <1>6, <1>7 DEF CalmInv
<1>9. NobodyMeddles /\ OthersAreDown /\ LoneIsCalm
  BY <1>1 DEF NobodyMeddles, OthersAreDown, LoneIsCalm
<1>10. NothingIsInvented
  <2>1. \A i \in Inode : OnlyCommitted(disk[i])
    BY <1>1, <1>2 DEF OnlyCommitted, Same
  <2>2. \A p \in Proc : RemembersCommitted(p)
    BY <1>1, <1>2 DEF RemembersCommitted, NoFile, Compacting
  <2>3. QED BY <1>1, <1>2, <2>1, <2>2 DEF NothingIsInvented
<1>11. QED BY <1>8, <1>9, <1>10

\* Whoever has a handle has the file open, and the other way round.
LEMMA Handles ==
  ASSUME TypeOK, NEW p \in Proc
  PROVE  Open(p) <=> mem[p].ino \in Inode
<1>1. InHand(p) /\ op[p].at \in Places /\ NoFile.ino \notin Inode
  BY VaultFileAssumption, Beginnings, Typed DEF TypeOK
<1>2. QED BY <1>1, VaultFileAssumption
          DEF InHand, Open, Places, Opening, Appending, Compacting

\* While a process is inside an operation, or enters one, the others are outside.
LEMMA OthersRest ==
  ASSUME TypeOK, OneAtATime, NEW p \in Proc, Step(p) \/ Kill(p), Busy(p) \/ ~Overlapping(p)
  PROVE  /\ \A q \in Proc \ {p} : /\ op'[q] = op[q] /\ mem'[q] = mem[q]
                                  /\ op[q].at \in {"down", "idle"}
         /\ OneAtATime'
         /\ \A q \in Proc \ {p} : StageOK(q)'
<1>1. \A q \in Proc \ {p} : /\ op'[q] = op[q] /\ mem'[q] = mem[q]
                            /\ op[q].at \in {"down", "idle"}
  BY OthersStay DEF OneAtATime, Busy, Overlapping
<1>2. OneAtATime'
  BY <1>1 DEF OneAtATime, Busy
<1>3. ASSUME NEW q \in Proc \ {p} PROVE StageOK(q)'
  <2>1. op'[q].at \in {"down", "idle"}
    BY <1>1, <1>3
  <2>2. QED BY <2>1 DEF StageOK, Compacting
<1>4. QED BY <1>1, <1>2, <1>3

\* The header at the path stays and a process moves within an operation: whoever was
\* up to date is, and nobody else becomes so.
LEMMA HeaderStays ==
  ASSUME TypeOK, CalmInv, NEW p \in Proc, Open(p),
         UNCHANGED <<setup, path, backup, mem, owed, floor, rolledBack, last>>,
         path # None => /\ disk'[path].cur.whole = disk[path].cur.whole
                        /\ disk'[path].cur.counter = disk[path].cur.counter
                        /\ disk'[path].cur.tail = disk[path].cur.tail,
         \A q \in Proc \ {p} : op'[q] = op[q],
         op'[p].at \notin {"down", "committed"} \cup Opening,
         op[p].at = "committed" => setup.faults
  PROVE  NobodyIsAhead' /\ HoldersAreCurrent' /\ BackupOK' /\ WriterIsCurrent'
<1>c. NobodyIsAhead /\ HoldersAreCurrent /\ BackupOK /\ WriterIsCurrent
  BY DEF CalmInv
<1>1. \A q \in Proc : Open(q)' => Open(q)
  BY DEF Open
<1>2. \A q \in Proc : Remembers(q)' <=> Remembers(q)
  BY DEF Remembers
<1>3. \A q \in Proc : op'[q].at = "committed" => op'[q] = op[q] /\ q # p
  OBVIOUS
<1>4. NobodyIsAhead'
  <2>1. ASSUME NEW q \in Proc, Open(q)', path' = mem'[q].ino
        PROVE  /\ mem'[q].counter <= disk'[path'].cur.counter
               /\ \A r \in Proc : op'[r].at = "committed" /\ r # q
                    => mem'[q].counter < disk'[path'].cur.counter
    <3>1. Open(q) /\ path = mem[q].ino
      BY <2>1, <1>1
    <3>2. path # None
      BY <3>1, VaultFileAssumption DEF TypeOK, InHand, Open, Opening, Appending, Compacting,
                                       Operation, Places
    <3>3. QED BY <3>1, <3>2, <1>3, <1>c DEF NobodyIsAhead
  <2>2. QED BY <2>1 DEF NobodyIsAhead
<1>5. HoldersAreCurrent'
  BY <1>1, <1>2, <1>3, <1>c DEF HoldersAreCurrent, NamesAreDurable
<1>6. WriterIsCurrent'
  BY <1>1, <1>2, <1>c DEF WriterIsCurrent
<1>7. BackupOK'
  <2>1. NodeOK(Same(backup))'
    BY <1>c DEF BackupOK
  <2>2. ~(Comparable /\ rolledBack = "yes")
    BY <1>c DEF BackupOK, Open, Opening
  <2>3. Comparable' <=> Comparable
    BY DEF Comparable, NamesAreDurable
  <2>4. CopyIsNoOlder' <=> CopyIsNoOlder
    BY DEF CopyIsNoOlder
  <2>5. QED BY <2>1, <2>2, <2>3, <2>4, <1>3, <1>c DEF BackupOK
<1>8. QED BY <1>4, <1>5, <1>6, <1>7

\* The steps that leave the disk alone.
LEMMA CalmBeginAppend ==
  ASSUME TypeOK, CalmInv, ~overlap', NEW p \in Proc, NEW r \in Record, BeginAppend(p, r),
         setup' = setup
  PROVE  CalmInv'
<1>1. /\ op[p].at = "idle" /\ op'[p].at = "linked" /\ UNCHANGED <<disk, mem, survives>>
      /\ UNCHANGED <<path, backup, owed, floor, rolledBack, last>>
  BY DEF BeginAppend, storage, Idle, Down, TypeOK
<1>2. Step(p) /\ ~Overlapping(p)
  BY DEF Step, BeginAppend
<1>3. /\ \A q \in Proc \ {p} : op'[q] = op[q] /\ mem'[q] = mem[q]
      /\ OneAtATime' /\ \A q \in Proc \ {p} : StageOK(q)'
  BY <1>2, OthersRest DEF CalmInv
<1>4. Remembers(p)
  BY VaultFileAssumption, <1>1 DEF BeginAppend, Confirm, Remembers, TypeOK, InHand
<1>5. StageOK(p)'
  BY <1>1, <1>4 DEF StageOK, Remembers, Compacting
<1>6. NobodyIsAhead' /\ HoldersAreCurrent' /\ BackupOK' /\ WriterIsCurrent'
  BY <1>1, <1>3, HeaderStays DEF Open, Opening
<1>7. OwedIsSafe'
  BY <1>1 DEF CalmInv, OwedIsSafe, NamesAreDurable
<1>8. \A i \in Inode : NodeOK(disk'[i])
  BY <1>1 DEF CalmInv
<1>9. QED BY <1>3, <1>5, <1>6, <1>7, <1>8 DEF CalmInv

LEMMA CalmConfirmSwap ==
  ASSUME TypeOK, CalmInv, NEW p \in Proc, ConfirmSwap(p), setup' = setup
  PROVE  CalmInv'
<1>1. /\ op[p].at = "imaged" /\ op'[p] = [op[p] EXCEPT !.at = "confirmed"]
      /\ UNCHANGED <<disk, mem, survives, candidate>>
      /\ UNCHANGED <<path, backup, owed, floor, rolledBack, last>>
  BY DEF ConfirmSwap, storage, observed, TypeOK
<1>2. /\ op'[p].at = "confirmed" /\ op'[p].ino = op[p].ino /\ op'[p].frames = op[p].frames
  BY <1>1 DEF TypeOK, Operation
<1>3. Step(p) /\ Busy(p)
  BY <1>1 DEF Step, Busy
<1>4. /\ \A q \in Proc \ {p} : op'[q] = op[q] /\ mem'[q] = mem[q]
      /\ OneAtATime' /\ \A q \in Proc \ {p} : StageOK(q)'
  BY <1>3, OthersRest DEF CalmInv
<1>5. Remembers(p)
  BY VaultFileAssumption, <1>1 DEF ConfirmSwap, Confirm, Remembers, TypeOK, InHand, Compacting
<1>6. StageOK(p)'
  <2>1. StageOK(p)
    BY DEF CalmInv
  <2>2. QED BY <2>1, <1>1, <1>2, <1>5 DEF StageOK, Remembers, Compacting
<1>7. NobodyIsAhead' /\ HoldersAreCurrent' /\ BackupOK' /\ WriterIsCurrent'
  BY <1>1, <1>2, <1>4, HeaderStays DEF Open, Opening
<1>8. OwedIsSafe'
  BY <1>1 DEF CalmInv, OwedIsSafe, NamesAreDurable
<1>9. \A i \in Inode : NodeOK(disk'[i])
  BY <1>1 DEF CalmInv
<1>10. QED BY <1>4, <1>6, <1>7, <1>8, <1>9 DEF CalmInv

\* An operation that fails, or gives up, and leaves the disk as it was.
LEMMA CalmGivesUp ==
  ASSUME TypeOK, CalmInv, NEW p \in Proc, setup' = setup, disk' = disk,
         FailAppend(p) \/ AbandonSwap(p) \/ FailCandidate(p)
  PROVE  CalmInv'
<1>1. /\ op'[p].at = "idle" /\ op[p].at \in Appending \cup Compacting
      /\ UNCHANGED <<mem, survives>> /\ UNCHANGED <<path, backup, owed, floor, rolledBack, last>>
  BY DEF FailAppend, AbandonSwap, FailCandidate, Ends, Idle, Down, storage, observed, TypeOK,
         Appending, Compacting
<1>2. op[p].at = "committed" => setup.faults
  BY DEF FailAppend, AbandonSwap, FailCandidate
<1>3. Step(p) /\ Busy(p)
  BY <1>1 DEF Step, Busy, Appending, Compacting
<1>4. /\ \A q \in Proc \ {p} : op'[q] = op[q] /\ mem'[q] = mem[q]
      /\ OneAtATime' /\ \A q \in Proc \ {p} : StageOK(q)'
  BY <1>3, OthersRest DEF CalmInv
<1>5. StageOK(p)'
  BY <1>1 DEF StageOK, Compacting
<1>6. NobodyIsAhead' /\ HoldersAreCurrent' /\ BackupOK' /\ WriterIsCurrent'
  BY <1>1, <1>2, <1>4, HeaderStays DEF Open, Opening, Appending, Compacting
<1>7. OwedIsSafe'
  BY <1>1 DEF CalmInv, OwedIsSafe, NamesAreDurable
<1>8. \A i \in Inode : NodeOK(disk'[i])
  BY DEF CalmInv
<1>9. QED BY <1>4, <1>5, <1>6, <1>7, <1>8 DEF CalmInv

\* A process that dies, or cannot open the file, forgets.
LEMMA CalmGoesDown ==
  ASSUME TypeOK, CalmInv, NEW p \in Proc, setup' = setup, FailOpen(p) \/ Kill(p)
  PROVE  CalmInv'
<1>c. /\ OneAtATime /\ \A q \in Proc : StageOK(q)
      /\ NobodyIsAhead /\ HoldersAreCurrent /\ OwedIsSafe /\ BackupOK /\ WriterIsCurrent
  BY DEF CalmInv
<1>1. /\ op'[p].at = "down" /\ mem'[p] = NoFile /\ UNCHANGED <<disk, survives, candidate>>
      /\ UNCHANGED <<path, backup, owed, floor, rolledBack, last>>
      /\ \A q \in Proc \ {p} : op'[q] = op[q] /\ mem'[q] = mem[q]
  BY Beginnings DEF FailOpen, Kill, storage, observed, TypeOK
<1>2. OneAtATime'
  BY <1>1, <1>c DEF OneAtATime, Busy
<1>3. StageOK(p)'
  BY <1>1 DEF StageOK, Compacting
<1>4. ASSUME NEW q \in Proc \ {p} PROVE StageOK(q)'
  <2>1. op[q].at \in Compacting => mem'[p].ino # op[q].ino
    BY <1>1, Beginnings, VaultFileAssumption DEF TypeOK, InHand
  <2>2. StageOK(q)
    BY <1>c
  <2>3. (Remembers(q)' <=> Remembers(q)) /\ (FrameIsThere(q)' <=> FrameIsThere(q))
    BY <1>1 DEF Remembers, FrameIsThere
  <2>4. op'[q] = op[q] /\ mem'[q] = mem[q] /\ UNCHANGED <<disk, path, survives, candidate>>
    BY <1>1
  <2>5. QED BY <2>1, <2>2, <2>3, <2>4, <1>1 DEF StageOK
<1>5. \A q \in Proc : /\ Open(q)' => Open(q) /\ q # p
                      /\ op'[q].at = "committed" => op[q].at = "committed" /\ q # p
  BY <1>1 DEF Open
<1>6. \A q \in Proc \ {p} : Remembers(q)' <=> Remembers(q)
  BY <1>1 DEF Remembers
<1>7. NobodyIsAhead'
  BY <1>c, <1>1, <1>5 DEF NobodyIsAhead
<1>8. HoldersAreCurrent' /\ WriterIsCurrent'
  BY <1>c, <1>1, <1>5, <1>6 DEF HoldersAreCurrent, WriterIsCurrent, NamesAreDurable
<1>9. OwedIsSafe'
  BY <1>c, <1>1 DEF OwedIsSafe, NamesAreDurable
<1>10. BackupOK'
  <2>1. \A q \in Proc : op[q].at \in {"down", "read"} => op'[q].at \in {"down", "read"}
    BY <1>1
  <2>2. (Comparable' <=> Comparable) /\ (CopyIsNoOlder' <=> CopyIsNoOlder)
    BY <1>1 DEF Comparable, NamesAreDurable, CopyIsNoOlder
  <2>3. QED BY <2>1, <2>2, <1>c, <1>1, <1>5 DEF BackupOK
<1>11. \A i \in Inode : NodeOK(disk'[i])
  BY <1>1 DEF CalmInv
<1>12. QED BY <1>2, <1>3, <1>4, <1>7, <1>8, <1>9, <1>10, <1>11 DEF CalmInv

\* The two writes of append on an inode that is in order, and a flush.
LEMMA FramedNode ==
  ASSUME NEW d \in Node, NodeOK(d), d.cur.whole, NEW c \in Content,
         c.whole = d.cur.whole, c.counter = d.cur.counter, c.tail = d.cur.tail,
         NEW frame \in Record \cup {Torn},
         c.body = Overwritten(d.cur.body, Len(d.cur.tail), frame)
  PROVE  /\ NodeOK([cur |-> c, dur |-> d.dur])
         /\ Len(c.body) = Len(c.tail) + 1 /\ c.body[Len(c.tail) + 1] = frame
<1>1. /\ d.cur.body \in Seq(Record \cup {Torn}) /\ d.cur.tail \in Seq(Record)
      /\ Len(d.cur.tail) \in Nat
  BY DEF Node, Content
<1>2. /\ Len(c.body) = Len(c.tail) + 1 /\ c.body[Len(c.tail) + 1] = frame
      /\ \A k \in 1..Len(c.tail) : k <= Len(d.cur.body) => c.body[k] = d.cur.body[k]
  <2> DEFINE new == Overwritten(d.cur.body, Len(d.cur.tail), frame)
  <2>1. /\ Len(new) = Len(d.cur.tail) + 1 /\ new[Len(d.cur.tail) + 1] = frame
        /\ \A k \in 1..Len(d.cur.tail) : k <= Len(d.cur.body) => new[k] = d.cur.body[k]
    <3> DEFINE body == d.cur.body
               end == Len(d.cur.tail)
    <3>1. body \in Seq(Record \cup {Torn}) /\ end \in Nat
      BY <1>1
    <3> HIDE DEF body, end
    <3>2. /\ Len(Overwritten(body, end, frame)) = end + 1
          /\ Overwritten(body, end, frame)[end + 1] = frame
          /\ \A k \in 1..end : k <= Len(body) => Overwritten(body, end, frame)[k] = body[k]
      BY <3>1, OverwrittenBody
    <3>3. QED BY <3>2 DEF body, end
  <2>2. c.body = new /\ c.tail = d.cur.tail
    OBVIOUS
  <2> HIDE DEF new
  <2>3. QED BY <2>1, <2>2
<1>3. Covers(c.body, c.tail)
  <2>1. /\ Len(d.cur.tail) <= Len(d.cur.body)
        /\ \A k \in 1..Len(d.cur.tail) : d.cur.body[k] = d.cur.tail[k]
    BY DEF NodeOK, Covers
  <2>2. \A k \in 1..Len(c.tail) : c.body[k] = c.tail[k]
    BY <1>1, <1>2, <2>1
  <2>3. QED BY <1>1, <1>2, <2>2 DEF Covers
<1> DEFINE e == [cur |-> c, dur |-> d.dur]
<1>4. e.cur = c /\ e.dur = d.dur
  OBVIOUS
<1> HIDE DEF e
<1>5. NodeOK(e)
  <2>1. /\ d.cur.whole = d.dur.whole /\ d.dur.counter <= d.cur.counter
        /\ Prefix(d.dur.tail, d.cur.tail) /\ Covers(d.dur.body, d.cur.tail)
    BY DEF NodeOK
  <2>2. Len(c.tail) < Len(c.body)
    BY <1>1, <1>2
  <2>3. QED BY <1>3, <1>4, <2>1, <2>2 DEF NodeOK
<1>6. QED BY <1>2, <1>5 DEF e

LEMMA HeadedNode ==
  ASSUME NEW d \in Node, NodeOK(d), d.cur.whole, d.dur = d.cur, NEW r \in Record,
         Len(d.cur.body) = Len(d.cur.tail) + 1, d.cur.body[Len(d.cur.tail) + 1] = r,
         NEW c \in Content, c.whole, c.counter = d.cur.counter + 1,
         c.tail = Append(d.cur.tail, r), c.body = d.cur.body
  PROVE  NodeOK([cur |-> c, dur |-> d.dur])
<1>1. /\ d.cur.tail \in Seq(Record) /\ Len(d.cur.tail) \in Nat
      /\ d.cur.counter \in Nat /\ d.cur.body \in Seq(Record \cup {Torn})
  BY DEF Node, Content
<1>2. /\ Len(c.tail) = Len(d.cur.tail) + 1 /\ c.tail[Len(d.cur.tail) + 1] = r
      /\ \A k \in 1..Len(d.cur.tail) : c.tail[k] = d.cur.tail[k]
  BY <1>1
<1>3. Covers(c.body, c.tail)
  BY <1>1, <1>2 DEF NodeOK, Covers
<1>4. Prefix(d.dur.tail, c.tail)
  BY <1>1, <1>2 DEF Prefix
<1> DEFINE e == [cur |-> c, dur |-> d.dur]
<1>5. e.cur = c /\ e.dur = d.dur
  OBVIOUS
<1> HIDE DEF e
<1>6. NodeOK(e)
  <2>1. d.cur.whole = d.dur.whole /\ d.dur.counter = d.cur.counter /\ d.dur.body = d.cur.body
    BY DEF NodeOK
  <2>2. d.dur.counter <= c.counter
    BY <1>1, <2>1
  <2>3. d.dur.whole = c.whole
    BY <2>1 DEF Node, Content
  <2>4. QED BY <1>3, <1>4, <1>5, <2>1, <2>2, <2>3 DEF NodeOK
<1>7. QED BY <1>6 DEF e

LEMMA FlushedNode ==
  ASSUME NEW d \in Node, NodeOK(d)
  PROVE  NodeOK(Same(d.cur)) /\ ToSet(d.dur.tail) \subseteq ToSet(d.cur.tail)
<1>1. /\ d.cur.tail \in Seq(Record) /\ d.dur.tail \in Seq(Record)
      /\ d.cur.counter \in Nat
  BY DEF Node, Content
<1>2. Prefix(d.cur.tail, d.cur.tail) /\ d.cur.counter <= d.cur.counter
  BY <1>1 DEF Prefix
<1>3. NodeOK(Same(d.cur))
  BY <1>2 DEF NodeOK, Same
<1>4. ToSet(d.dur.tail) \subseteq ToSet(d.cur.tail)
  BY <1>1, ToSetPrefix DEF NodeOK
<1>5. QED BY <1>3, <1>4

LEMMA CalmWriteFrame ==
  ASSUME TypeOK, CalmInv, NEW p \in Proc, WriteFrame(p), setup' = setup
  PROVE  CalmInv'
<1>c. StageOK(p) /\ OwedIsSafe /\ \A i \in Inode : NodeOK(disk[i])
  BY DEF CalmInv
<1>1. /\ op[p].at = "linked" /\ op'[p] = [op[p] EXCEPT !.at = "written"]
      /\ UNCHANGED <<path, survives, mem, backup, owed, floor, rolledBack, last>>
      /\ op[p].rec \in Record
  BY DEF WriteFrame, observed, TypeOK, InHand, Appending
<1>2. op'[p].at = "written" /\ op'[p].rec = op[p].rec
  BY <1>1 DEF TypeOK, Operation
<1>3. Step(p) /\ Busy(p)
  BY <1>1 DEF Step, Busy
<1>4. /\ \A q \in Proc \ {p} : op'[q] = op[q] /\ mem'[q] = mem[q]
      /\ OneAtATime' /\ \A q \in Proc \ {p} : StageOK(q)'
  BY <1>3, OthersRest DEF CalmInv
<1>5. Remembers(p) /\ path \in Inode
  BY <1>1, <1>c DEF StageOK, Remembers, TypeOK
<1>f. PICK c \in Content :
        /\ c.whole = disk[mem[p].ino].cur.whole
        /\ c.counter = disk[mem[p].ino].cur.counter
        /\ c.tail = disk[mem[p].ino].cur.tail
        /\ c.body = Overwritten(disk[mem[p].ino].cur.body, Len(mem[p].tail), op[p].rec)
        /\ disk' = [disk EXCEPT ![mem[p].ino] = [cur |-> c, dur |-> disk[mem[p].ino].dur]]
  BY FrameStep
<1>6. /\ c.whole = disk[path].cur.whole /\ c.counter = disk[path].cur.counter
      /\ c.tail = disk[path].cur.tail
      /\ c.body = Overwritten(disk[path].cur.body, Len(disk[path].cur.tail), op[p].rec)
      /\ disk' = [disk EXCEPT ![path] = [cur |-> c, dur |-> disk[path].dur]]
  BY <1>f, <1>5 DEF Remembers
<1>7. disk[path] \in Node /\ NodeOK(disk[path]) /\ disk[path].cur.whole
  BY <1>5, <1>c, Typed DEF Remembers
<1>8. /\ NodeOK([cur |-> c, dur |-> disk[path].dur])
      /\ Len(c.body) = Len(c.tail) + 1 /\ c.body[Len(c.tail) + 1] = op[p].rec
  <2> DEFINE d == disk[path]
  <2>1. /\ d \in Node /\ NodeOK(d) /\ d.cur.whole /\ op[p].rec \in Record \cup {Torn}
        /\ c.whole = d.cur.whole /\ c.counter = d.cur.counter /\ c.tail = d.cur.tail
        /\ c.body = Overwritten(d.cur.body, Len(d.cur.tail), op[p].rec)
    BY <1>1, <1>6, <1>7
  <2> HIDE DEF d
  <2>2. QED BY <2>1, FramedNode DEF d
<1>9. disk \in [Inode -> Node]
  BY DEF TypeOK
<1>10. disk'[path].cur = c /\ \A i \in Inode : disk'[i].dur = disk[i].dur
  BY <1>5, <1>6, <1>9
<1>11. \A i \in Inode : NodeOK(disk'[i])
  BY <1>5, <1>6, <1>8, <1>9, <1>c
<1>12. StageOK(p)'
  <2>1. Remembers(p)'
    BY <1>1, <1>5, <1>6, <1>10 DEF Remembers
  <2>2. FrameIsThere(p)'
    <3>1. c.tail = mem[p].tail /\ path' = path /\ mem' = mem
      BY <1>1, <1>5, <1>6 DEF Remembers
    <3>2. Len(disk'[path].cur.body) = Len(mem[p].tail) + 1
          /\ disk'[path].cur.body[Len(mem[p].tail) + 1] = op[p].rec
      BY <3>1, <1>8, <1>10
    <3>3. QED BY <3>1, <3>2, <1>2 DEF FrameIsThere
  <2>3. QED BY <2>1, <2>2, <1>2 DEF StageOK, Compacting
<1>13. NobodyIsAhead' /\ HoldersAreCurrent' /\ BackupOK' /\ WriterIsCurrent'
  BY <1>1, <1>2, <1>4, <1>6, <1>10, HeaderStays DEF Open, Opening
<1>14. OwedIsSafe'
  BY <1>1, <1>5, <1>6, <1>10, <1>c DEF OwedIsSafe, NamesAreDurable, TypeOK
<1>15. QED BY <1>4, <1>11, <1>12, <1>13, <1>14 DEF CalmInv

LEMMA CalmTornFrame ==
  ASSUME TypeOK, CalmInv, NEW p \in Proc, FailAppend(p), disk' # disk, setup' = setup
  PROVE  CalmInv'
<1>c. StageOK(p) /\ OwedIsSafe /\ \A i \in Inode : NodeOK(disk[i])
  BY DEF CalmInv
<1>1. /\ op[p].at = "linked" /\ op'[p].at = "idle"
      /\ UNCHANGED <<path, survives, mem, backup, owed, floor, rolledBack, last>>
  BY DEF FailAppend, Ends, Idle, Down, observed, TypeOK
<1>2. Step(p) /\ Busy(p)
  BY <1>1 DEF Step, Busy
<1>3. /\ \A q \in Proc \ {p} : op'[q] = op[q] /\ mem'[q] = mem[q]
      /\ OneAtATime' /\ \A q \in Proc \ {p} : StageOK(q)'
  BY <1>2, OthersRest DEF CalmInv
<1>4. Remembers(p) /\ path \in Inode
  BY <1>1, <1>c DEF StageOK, Remembers, TypeOK
<1>f. PICK c \in Content :
        /\ c.whole = disk[mem[p].ino].cur.whole
        /\ c.counter = disk[mem[p].ino].cur.counter
        /\ c.tail = disk[mem[p].ino].cur.tail
        /\ c.body = Overwritten(disk[mem[p].ino].cur.body, Len(mem[p].tail), Torn)
        /\ disk' = [disk EXCEPT ![mem[p].ino] = [cur |-> c, dur |-> disk[mem[p].ino].dur]]
  BY TornStep
<1>5. /\ c.whole = disk[path].cur.whole /\ c.counter = disk[path].cur.counter
      /\ c.tail = disk[path].cur.tail
      /\ c.body = Overwritten(disk[path].cur.body, Len(disk[path].cur.tail), Torn)
      /\ disk' = [disk EXCEPT ![path] = [cur |-> c, dur |-> disk[path].dur]]
  BY <1>f, <1>4 DEF Remembers
<1>6. disk[path] \in Node /\ NodeOK(disk[path]) /\ disk[path].cur.whole
  BY <1>4, <1>c, Typed DEF Remembers
<1>7. NodeOK([cur |-> c, dur |-> disk[path].dur])
  BY <1>5, <1>6, FramedNode
<1>8. disk \in [Inode -> Node]
  BY DEF TypeOK
<1>9. disk'[path].cur = c /\ \A i \in Inode : disk'[i].dur = disk[i].dur
  BY <1>4, <1>5, <1>8
<1>10. \A i \in Inode : NodeOK(disk'[i])
  BY <1>4, <1>5, <1>7, <1>8, <1>c
<1>11. StageOK(p)'
  BY <1>1 DEF StageOK, Compacting
<1>12. NobodyIsAhead' /\ HoldersAreCurrent' /\ BackupOK' /\ WriterIsCurrent'
  BY <1>1, <1>3, <1>5, <1>9, HeaderStays DEF Open, Opening
<1>13. OwedIsSafe'
  BY <1>1, <1>4, <1>5, <1>9, <1>c DEF OwedIsSafe, NamesAreDurable, TypeOK
<1>14. QED BY <1>3, <1>10, <1>11, <1>12, <1>13 DEF CalmInv

\* Of the contents under the path only the flush moves on, and with it, where the
\* names are durable, the name.
LEMMA FlushSafe ==
  ASSUME TypeOK, path \in Inode, NodeOK(disk[path]), OwedIsSafe, NEW change, Flushes(change),
         Synced(path), UNCHANGED <<setup, path, rolledBack>>,
         NEW more \in SUBSET ToSet(disk[path].cur.tail), owed' = owed \cup more,
         change \in {"create", "rename"}
  PROVE  OwedIsSafe'
<1>1. ASSUME NamesAreDurable, rolledBack = "no" PROVE owed' \subseteq ToSet(disk[path].cur.tail)
  BY <1>1, VaultFileAssumption DEF OwedIsSafe
<1>2. disk'[path].cur = disk[path].cur /\ disk'[path].dur = disk[path].cur
  BY DEF Synced, TypeOK, Node
<1>3. ASSUME NamesAreDurable, setup.powerCuts PROVE survives' = {path}
  BY <1>3 DEF Flushes, NamesAreDurable
<1>4. QED BY <1>1, <1>2, <1>3, VaultFileAssumption DEF OwedIsSafe, NamesAreDurable

LEMMA SyncedNode ==
  ASSUME TypeOK, NEW i \in Inode, Synced(i), \A j \in Inode : NodeOK(disk[j])
  PROVE  /\ \A j \in Inode : NodeOK(disk'[j])
         /\ disk'[i].cur = disk[i].cur /\ disk'[i].dur = disk[i].cur
<1>1. disk' = [disk EXCEPT ![i] = Same(disk[i].cur)]
  <2>1. [disk[i] EXCEPT !.dur = disk[i].cur] = Same(disk[i].cur)
    BY DEF TypeOK, Node, Same
  <2>2. disk' = [disk EXCEPT ![i] = [disk[i] EXCEPT !.dur = disk[i].cur]]
    BY DEF Synced
  <2>3. QED BY <2>1, <2>2
<1>2. NodeOK(Same(disk[i].cur))
  BY Typed, FlushedNode
<1>3. disk \in [Inode -> Node]
  BY DEF TypeOK
<1>4. QED BY <1>1, <1>2, <1>3 DEF Same

LEMMA CalmSyncFrame ==
  ASSUME TypeOK, CalmInv, NEW p \in Proc, SyncFrame(p), setup' = setup
  PROVE  CalmInv'
<1>c. StageOK(p) /\ OwedIsSafe /\ \A i \in Inode : NodeOK(disk[i])
  BY DEF CalmInv
<1>1. /\ op[p].at = "written" /\ op'[p] = [op[p] EXCEPT !.at = "flushed"]
      /\ UNCHANGED <<path, mem, backup, owed, floor, rolledBack, last>>
  BY DEF SyncFrame, observed, TypeOK
<1>2. op'[p].at = "flushed" /\ op'[p].rec = op[p].rec
  BY <1>1 DEF TypeOK, Operation
<1>3. Step(p) /\ Busy(p)
  BY <1>1 DEF Step, Busy
<1>4. /\ \A q \in Proc \ {p} : op'[q] = op[q] /\ mem'[q] = mem[q]
      /\ OneAtATime' /\ \A q \in Proc \ {p} : StageOK(q)'
  BY <1>3, OthersRest DEF CalmInv
<1>5. Remembers(p) /\ path \in Inode /\ FrameIsThere(p)
  BY <1>1, <1>c DEF StageOK, Remembers, TypeOK
<1>6. Synced(path) /\ Flushes("rename")
  BY <1>5 DEF SyncFrame, Remembers
<1>7. /\ \A j \in Inode : NodeOK(disk'[j])
      /\ disk'[path].cur = disk[path].cur /\ disk'[path].dur = disk[path].cur
  BY <1>5, <1>6, <1>c, SyncedNode
<1>8. StageOK(p)'
  <2>1. Remembers(p)' /\ FrameIsThere(p)'
    BY <1>1, <1>2, <1>5, <1>7 DEF Remembers, FrameIsThere
  <2>2. QED BY <2>1, <1>1, <1>2, <1>7 DEF StageOK, Compacting
<1>9. NobodyIsAhead' /\ HoldersAreCurrent' /\ BackupOK' /\ WriterIsCurrent'
  BY <1>1, <1>2, <1>4, <1>7, HeaderStays DEF Open, Opening
<1>10. OwedIsSafe'
  <2>1. owed' = owed \cup {} /\ {} \subseteq ToSet(disk[path].cur.tail)
    BY <1>1
  <2>2. QED BY <2>1, <1>1, <1>5, <1>6, <1>c, FlushSafe
<1>11. QED BY <1>4, <1>7, <1>8, <1>9, <1>10 DEF CalmInv

LEMMA CalmWriteHeader ==
  ASSUME TypeOK, CalmInv, NEW p \in Proc, WriteHeader(p), setup' = setup
  PROVE  CalmInv'
<1>c. /\ StageOK(p) /\ \A i \in Inode : NodeOK(disk[i])
      /\ NobodyIsAhead /\ HoldersAreCurrent /\ OwedIsSafe /\ BackupOK /\ WriterIsCurrent
  BY DEF CalmInv
<1>1. /\ op[p].at = "flushed" /\ op'[p] = [op[p] EXCEPT !.at = "committed"]
      /\ UNCHANGED <<path, survives, mem, backup, owed, floor, rolledBack>>
      /\ op[p].rec \in Record /\ last' = p
  BY DEF WriteHeader, TypeOK, InHand, Appending
<1>2. op'[p].at = "committed" /\ op'[p].rec = op[p].rec
  BY <1>1 DEF TypeOK, Operation
<1>3. Step(p) /\ Busy(p)
  BY <1>1 DEF Step, Busy
<1>4. /\ \A q \in Proc \ {p} : op'[q] = op[q] /\ mem'[q] = mem[q] /\ op[q].at \in {"down", "idle"}
      /\ OneAtATime' /\ \A q \in Proc \ {p} : StageOK(q)'
  BY <1>3, OthersRest DEF CalmInv
<1>5. Remembers(p) /\ path \in Inode /\ FrameIsThere(p) /\ disk[path].dur = disk[path].cur
  BY <1>1, <1>c DEF StageOK, Remembers, TypeOK
<1>f. PICK c \in Content :
        /\ c.whole = TRUE /\ c.counter = mem[p].counter + 1
        /\ c.tail = Append(mem[p].tail, op[p].rec)
        /\ c.body = disk[mem[p].ino].cur.body
        /\ disk' = [disk EXCEPT ![mem[p].ino] = [cur |-> c, dur |-> disk[mem[p].ino].dur]]
  BY HeaderStep
<1>6. /\ c.whole /\ c.counter = disk[path].cur.counter + 1
      /\ c.tail = Append(disk[path].cur.tail, op[p].rec) /\ c.body = disk[path].cur.body
      /\ disk' = [disk EXCEPT ![path] = [cur |-> c, dur |-> disk[path].dur]]
  BY <1>f, <1>5 DEF Remembers
<1>t. /\ disk \in [Inode -> Node] /\ disk[path] \in Node
      /\ disk[path].cur.counter \in Nat /\ disk[path].cur.tail \in Seq(Record)
      /\ \A q \in Proc : mem[q].counter \in Nat
  BY <1>5, Typed DEF TypeOK
<1>7. disk'[path].cur = c /\ \A i \in Inode : disk'[i].dur = disk[i].dur
  BY <1>5, <1>6, <1>t
<1>8. \A i \in Inode : NodeOK(disk'[i])
  <2> DEFINE d == disk[path]
  <2>1. /\ d \in Node /\ NodeOK(d) /\ d.cur.whole /\ d.dur = d.cur
        /\ Len(d.cur.body) = Len(d.cur.tail) + 1
        /\ d.cur.body[Len(d.cur.tail) + 1] = op[p].rec
        /\ c.counter = d.cur.counter + 1 /\ c.tail = Append(d.cur.tail, op[p].rec)
        /\ c.body = d.cur.body
    BY <1>c, <1>t, <1>5, <1>6 DEF Remembers, FrameIsThere
  <2> HIDE DEF d
  <2>2. NodeOK([cur |-> c, dur |-> d.dur])
    BY <2>1, <1>1, <1>6, HeadedNode
  <2>3. QED BY <2>2, <1>c, <1>5, <1>6, <1>t DEF d
<1>v. /\ disk'[path].cur.whole /\ disk'[path].cur.counter = disk[path].cur.counter + 1
      /\ disk'[path].cur.tail = Append(disk[path].cur.tail, op[p].rec)
      /\ disk'[path].cur.body = disk[path].cur.body /\ disk'[path].dur = disk[path].dur
  BY <1>5, <1>6, <1>7
<1>u. path' = path /\ mem' = mem
  BY <1>1
<1>9. ToSet(c.tail) = ToSet(disk[path].cur.tail) \cup {op[p].rec}
  BY <1>1, <1>6, <1>t, ToSetAppend
<1>10. StageOK(p)'
  <2>1. FrameIsThere(p)'
    BY <1>2, <1>5, <1>u, <1>v DEF FrameIsThere
  <2>2. /\ path' = mem'[p].ino /\ disk'[path'].cur.whole
        /\ disk'[path'].cur.counter = mem'[p].counter + 1
        /\ disk'[path'].cur.tail = Append(mem'[p].tail, op'[p].rec)
        /\ disk'[path'].dur.body = disk'[path'].cur.body
    BY <1>2, <1>5, <1>u, <1>v DEF Remembers
  <2>3. QED BY <2>1, <2>2, <1>2 DEF StageOK, Compacting
<1>11. \A q \in Proc \ {p} : ~Remembers(q)' /\ (Open(q)' <=> Open(q))
  <2>1. ASSUME NEW q \in Proc \ {p}, Remembers(q)' PROVE FALSE
    <3>1. path = mem[q].ino /\ mem[q].counter = disk[path].cur.counter + 1
      BY <2>1, <1>u, <1>v DEF Remembers
    <3>2. Open(q)
      BY <3>1, <1>5, Handles
    <3>3. mem[q].counter <= disk[path].cur.counter
      BY <3>1, <3>2, <1>c DEF NobodyIsAhead
    <3>4. QED BY <3>1, <3>3, <1>t
  <2>2. QED BY <2>1, <1>4 DEF Open
<1>12. NobodyIsAhead'
  <2>1. ASSUME NEW q \in Proc \ {p}, Open(q), path = mem[q].ino
        PROVE  /\ mem[q].counter < disk'[path].cur.counter
               /\ mem[q].counter <= disk'[path].cur.counter
    <3>1. mem[q].counter <= disk[path].cur.counter
      BY <2>1, <1>c DEF NobodyIsAhead
    <3>2. QED BY <3>1, <1>t, <1>v
  <2>2. mem[p].counter <= disk'[path].cur.counter
    <3>1. mem[p].counter \in Nat
      BY <1>t
    <3>2. disk'[path].cur.counter = mem[p].counter + 1
      BY <1>5, <1>v DEF Remembers
    <3>3. QED BY <3>1, <3>2
  <2>3. \A q \in Proc : op'[q].at = "committed" => q = p
    BY <1>4
  <2>4. QED BY <2>1, <2>2, <2>3, <1>11, <1>u DEF NobodyIsAhead
<1>13. HoldersAreCurrent'
  <2>1. NamesAreDurable /\ rolledBack = "no" => owed \subseteq mem[p].held
    BY <1>c, <1>1, <1>5 DEF HoldersAreCurrent, Open, Opening
  <2>2. QED BY <2>1, <1>1, <1>4, <1>11 DEF HoldersAreCurrent, NamesAreDurable
<1>14. OwedIsSafe'
  BY <1>c, <1>1, <1>5, <1>7, <1>9 DEF OwedIsSafe, NamesAreDurable, TypeOK
<1>15. BackupOK'
  <2>1. NodeOK(Same(backup))'
    BY <1>c, <1>1 DEF BackupOK
  <2>2. ~(Comparable /\ rolledBack = "yes")
    BY <1>c, <1>1 DEF BackupOK
  <2>3. (Comparable' <=> Comparable) /\ (CopyIsNoOlder' <=> CopyIsNoOlder)
    BY <1>1 DEF Comparable, NamesAreDurable, CopyIsNoOlder
  <2>4. ASSUME Comparable, rolledBack = "no", backup.whole
        PROVE  /\ backup.counter <= disk[path].cur.counter /\ CopyIsNoOlder
               /\ backup.counter \in Nat
    BY <2>4, <1>c DEF BackupOK, TypeOK, Content
  <2>5. ASSUME Comparable, rolledBack = "no", backup.whole
        PROVE  /\ backup.counter <= disk'[path].cur.counter
               /\ ~(backup.counter > mem[p].counter)
    <3>1. /\ backup.counter <= disk[path].cur.counter /\ backup.counter \in Nat
          /\ mem[p].counter = disk[path].cur.counter
          /\ disk'[path].cur.counter = disk[path].cur.counter + 1
          /\ disk[path].cur.counter \in Nat
      BY <2>4, <2>5, <1>5, <1>v, <1>t DEF Remembers
    <3>2. QED BY <3>1
  <2>6. \A q \in Proc : op'[q].at = "committed" => q = p
    BY <1>4
  <2>7. path # None /\ UNCHANGED <<path, mem, backup, rolledBack>>
    BY <1>1, <1>5, VaultFileAssumption
  <2>8. QED BY <2>1, <2>2, <2>3, <2>4, <2>5, <2>6, <2>7, <1>v DEF BackupOK
<1>16. WriterIsCurrent'
  BY <1>1, <1>2 DEF WriterIsCurrent
<1>17. QED BY <1>4, <1>8, <1>10, <1>12, <1>13, <1>14, <1>15, <1>16 DEF CalmInv

LEMMA CalmSyncHeader ==
  ASSUME TypeOK, CalmInv, NEW p \in Proc, SyncHeader(p), setup' = setup
  PROVE  CalmInv'
<1>c. /\ StageOK(p) /\ \A i \in Inode : NodeOK(disk[i])
      /\ NobodyIsAhead /\ HoldersAreCurrent /\ OwedIsSafe /\ BackupOK /\ WriterIsCurrent
  BY DEF CalmInv
<1>1. /\ op[p].at = "committed" /\ op'[p].at = "idle" /\ op[p].rec \in Record
      /\ UNCHANGED <<path, candidate, backup, rolledBack, last>>
      /\ owed' = owed \cup {op[p].rec}
  BY DEF SyncHeader, Ends, Idle, Down, TypeOK, InHand, Appending
<1>2. Step(p) /\ Busy(p)
  BY <1>1 DEF Step, Busy
<1>3. /\ \A q \in Proc \ {p} : op'[q] = op[q] /\ mem'[q] = mem[q] /\ op[q].at \in {"down", "idle"}
      /\ OneAtATime' /\ \A q \in Proc \ {p} : StageOK(q)'
  BY <1>2, OthersRest DEF CalmInv
<1>4. /\ path = mem[p].ino /\ disk[path].cur.whole
      /\ disk[path].cur.counter = mem[p].counter + 1
      /\ disk[path].cur.tail = Append(mem[p].tail, op[p].rec)
      /\ path \in Inode
  BY <1>1, <1>c DEF StageOK, TypeOK, InHand, Appending
<1>5. Synced(path) /\ Flushes("rename")
  BY <1>4 DEF SyncHeader
<1>6. /\ \A j \in Inode : NodeOK(disk'[j])
      /\ disk'[path].cur = disk[path].cur /\ disk'[path].dur = disk[path].cur
  BY <1>4, <1>5, <1>c, SyncedNode
<1>7. /\ mem'[p].ino = mem[p].ino /\ mem'[p].counter = mem[p].counter + 1
      /\ mem'[p].tail = Append(mem[p].tail, op[p].rec)
      /\ mem'[p].held = mem[p].held \cup {op[p].rec}
  BY DEF SyncHeader, TypeOK, Memory
<1>t. mem[p].tail \in Seq(Record) /\ \A q \in Proc : mem[q].counter \in Nat
  BY Typed
<1>8. op[p].rec \in ToSet(disk[path].cur.tail)
  BY <1>1, <1>4, <1>t, ToSetAppend
<1>9. StageOK(p)'
  BY <1>1 DEF StageOK, Compacting
<1>10. Remembers(p)'
  <2>1. path' = path /\ path # None
    BY <1>1, <1>4, VaultFileAssumption
  <2>2. QED BY <2>1, <1>4, <1>6, <1>7 DEF Remembers
<1>11. \A q \in Proc \ {p} : ~Remembers(q)' /\ (Remembers(q) => ~Open(q)) /\ (Open(q)' <=> Open(q))
  <2>1. ASSUME NEW q \in Proc \ {p}, path = mem[q].ino, mem[q].counter = disk[path].cur.counter
        PROVE  FALSE
    <3>1. Open(q)
      BY <2>1, <1>4, Handles
    <3>2. mem[q].counter < disk[path].cur.counter
      BY <2>1, <3>1, <1>1, <1>c DEF NobodyIsAhead
    <3>3. QED BY <2>1, <3>2, <1>t
  <2>2. QED BY <2>1, <1>1, <1>3, <1>6 DEF Open, Remembers
<1>12. NobodyIsAhead'
  <2>1. \A q \in Proc : op'[q].at # "committed"
    BY <1>1, <1>3
  <2>2. mem'[p].counter <= disk'[path'].cur.counter
    <3>1. mem'[p].counter = disk'[path'].cur.counter
      BY <1>1, <1>4, <1>6, <1>7
    <3>2. mem'[p].counter \in Nat
      BY <1>7, <1>t
    <3>3. QED BY <3>1, <3>2
  <2>3. ASSUME NEW q \in Proc \ {p}, Open(q), path = mem[q].ino
        PROVE  mem[q].counter <= disk[path].cur.counter
    BY <2>3, <1>c DEF NobodyIsAhead
  <2>4. QED BY <2>1, <2>2, <2>3, <1>1, <1>3, <1>6, <1>11 DEF NobodyIsAhead
<1>13. HoldersAreCurrent'
  <2>1. NamesAreDurable /\ rolledBack = "no" => owed \subseteq mem[p].held
    BY <1>c, <1>1 DEF HoldersAreCurrent, Open, Opening
  <2>2. \A q \in Proc \ {p} : op'[q].at # "committed"
    BY <1>3
  <2>3. QED BY <2>1, <2>2, <1>1, <1>7, <1>11 DEF HoldersAreCurrent, NamesAreDurable
<1>14. OwedIsSafe'
  BY <1>1, <1>4, <1>5, <1>6, <1>8, <1>c, FlushSafe
<1>15. BackupOK'
  <2>1. NodeOK(Same(backup))'
    BY <1>c, <1>1 DEF BackupOK
  <2>2. ~(Comparable /\ rolledBack = "yes")
    BY <1>c, <1>1 DEF BackupOK
  <2>3. Comparable' <=> Comparable
    BY DEF Comparable, NamesAreDurable
  <2>4. ASSUME Comparable, rolledBack = "no", backup.whole
        PROVE  /\ backup.counter <= disk[path].cur.counter /\ CopyIsNoOlder
               /\ backup.counter > mem[p].counter => op[p].rec \in ToSet(backup.tail)
               /\ backup.counter \in Nat
    BY <2>4, <1>1, <1>c DEF BackupOK, TypeOK, Content
  <2>5. /\ floor' \in Nat /\ floor \in Nat /\ floor' >= floor
        /\ floor' >= mem[p].counter + 1
    BY <1>t DEF SyncHeader, TypeOK
  <2>6. ASSUME Comparable, rolledBack = "no", backup.whole
        PROVE  CopyIsNoOlder'
    <3>1. ASSUME backup.counter >= floor' PROVE owed' \subseteq ToSet(backup.tail)
      <4>1. backup.counter >= floor /\ backup.counter > mem[p].counter
        BY <3>1, <2>4, <2>5, <2>6, <1>t
      <4>2. QED BY <4>1, <2>4, <2>6, <1>1 DEF CopyIsNoOlder
    <3>2. QED BY <3>1, <1>1 DEF CopyIsNoOlder
  <2>7. \A q \in Proc : op'[q].at # "committed"
    BY <1>1, <1>3
  <2>8. path # None
    BY <1>4, VaultFileAssumption
  <2>9. QED BY <2>1, <2>2, <2>3, <2>4, <2>6, <2>7, <2>8, <1>1, <1>4, <1>6 DEF BackupOK
<1>16. WriterIsCurrent'
  <2>1. ASSUME NEW q \in Proc \ {p}, ~setup.faults, last = q, Open(q)' PROVE FALSE
    <3>1. Open(q) /\ op[q].at # "committed"
      BY <2>1, <1>3, <1>11
    <3>2. QED BY <2>1, <3>1, <1>11, <1>c DEF WriterIsCurrent
  <2>2. QED BY <2>1, <1>1, <1>10 DEF WriterIsCurrent
<1>17. QED BY <1>3, <1>6, <1>9, <1>12, <1>13, <1>14, <1>15, <1>16 DEF CalmInv

\* open, from the descriptor to the VaultFile.
LEMMA CalmCreateFile ==
  ASSUME TypeOK, CalmInv, ~overlap', NEW p \in Proc, NEW known, CreateFile(p, known), Step(p),
         setup' = setup
  PROVE  CalmInv'
<1>c. /\ \A j \in Inode : NodeOK(disk[j])
      /\ OwedIsSafe /\ BackupOK /\ WriterIsCurrent
  BY DEF CalmInv
<1>1. PICK i \in FreeInodes :
        /\ disk' = [disk EXCEPT ![i] = Same(Absent)]
        /\ path' = i /\ survives' = survives \cup {i}
        /\ op' = [op EXCEPT ![p] = [Down EXCEPT !.at = "created", !.ino = i]]
  BY DEF CreateFile, Same
<1>2. i \in Inode /\ i \notin survives /\ \A q \in Proc : mem[q].ino # i
  BY DEF FreeInodes
<1>3. /\ op[p].at = "down" /\ path = None /\ ~Overlapping(p)
      /\ UNCHANGED <<mem, backup, owed, floor, last>>
      /\ rolledBack' # "yes" /\ (rolledBack' = "no" => rolledBack = "no")
  BY DEF CreateFile
<1>4. op'[p].at = "created" /\ op'[p].ino = i
  BY <1>1 DEF TypeOK, Down
<1>5. /\ \A q \in Proc \ {p} : op'[q] = op[q] /\ mem'[q] = mem[q] /\ op[q].at \in {"down", "idle"}
      /\ OneAtATime' /\ \A q \in Proc \ {p} : StageOK(q)'
  BY <1>3, OthersRest DEF CalmInv
<1>6. disk'[i] = Same(Absent) /\ \A j \in Inode \ {i} : disk'[j] = disk[j]
  BY <1>1, <1>2 DEF TypeOK
<1>7. \A j \in Inode : NodeOK(disk'[j])
  BY <1>6, <1>c, Contents
<1>8. StageOK(p)'
  BY <1>1, <1>4, <1>6 DEF StageOK, Compacting
<1>9. \A q \in Proc : ~Remembers(q)' /\ ~Remembers(q) /\ path' # mem'[q].ino
                      /\ op'[q].at # "committed"
  BY <1>1, <1>2, <1>3, <1>4, <1>5 DEF Remembers
<1>10. NobodyIsAhead' /\ HoldersAreCurrent'
  BY <1>9 DEF NobodyIsAhead, HoldersAreCurrent
<1>11. OwedIsSafe'
  <2>1. NamesAreDurable /\ rolledBack' = "no" => owed = {}
    BY <1>3, <1>c DEF OwedIsSafe
  <2>2. QED BY <2>1, <1>3 DEF OwedIsSafe, NamesAreDurable
<1>12. BackupOK'
  <2>1. NodeOK(Same(backup))'
    BY <1>c, <1>3 DEF BackupOK
  <2>2. ~(Comparable' /\ rolledBack' = "no" /\ backup'.whole)
    BY <1>c, <1>3 DEF BackupOK, Comparable, NamesAreDurable
  <2>3. QED BY <2>1, <2>2, <1>3 DEF BackupOK
<1>13. WriterIsCurrent'
  <2>1. \A q \in Proc : Open(q)' => Open(q) /\ op[q].at # "committed"
    BY <1>4, <1>5 DEF Open, Opening
  <2>2. QED BY <2>1, <1>3, <1>9, <1>c DEF WriterIsCurrent
<1>14. QED BY <1>5, <1>7, <1>8, <1>10, <1>11, <1>12, <1>13 DEF CalmInv

LEMMA CalmCreateHeader ==
  ASSUME TypeOK, CalmInv, NEW p \in Proc, CreateHeader(p), setup' = setup
  PROVE  CalmInv'
<1>c. /\ \A j \in Inode : NodeOK(disk[j])
      /\ StageOK(p) /\ NobodyIsAhead /\ OwedIsSafe /\ BackupOK
  BY DEF CalmInv
<1>1. /\ op[p].at = "created" /\ op'[p].at = "idle" /\ last' = p
      /\ UNCHANGED <<path, backup, owed, floor, rolledBack>>
  BY DEF CreateHeader, Ends, Idle, Down, TypeOK
<1>2. path = op[p].ino /\ disk[path] = Same(Absent) /\ path \in Inode
  BY <1>1, <1>c DEF StageOK, TypeOK, InHand
<1>3. Step(p) /\ Busy(p)
  BY <1>1 DEF Step, Busy
<1>4. /\ \A q \in Proc \ {p} : op'[q] = op[q] /\ mem'[q] = mem[q] /\ op[q].at \in {"down", "idle"}
      /\ OneAtATime' /\ \A q \in Proc \ {p} : StageOK(q)'
  BY <1>3, OthersRest DEF CalmInv
<1>5. disk'[path] = Same(Image(0, <<>>)) /\ \A j \in Inode \ {path} : disk'[j] = disk[j]
  BY <1>2 DEF CreateHeader, TypeOK, Same
<1>6. mem'[p].ino = path /\ mem'[p].counter = 0 /\ mem'[p].tail = <<>>
  BY <1>2 DEF CreateHeader, NoFile, TypeOK
<1>7. /\ disk'[path].cur.whole /\ disk'[path].cur.counter = 0 /\ disk'[path].cur.tail = <<>>
      /\ ~disk[path].cur.whole /\ disk[path].cur.counter = 0 /\ disk[path].cur.tail = <<>>
  BY <1>2, <1>5 DEF Same, Image, Absent
<1>8. \A j \in Inode : NodeOK(disk'[j])
  <2>1. <<>> \in Seq(Record) /\ 0 \in Nat
    OBVIOUS
  <2>2. NodeOK(Same(Image(0, <<>>)))
    BY <2>1, Contents
  <2>3. QED BY <2>2, <1>5, <1>c
<1>9. StageOK(p)'
  BY <1>1 DEF StageOK, Compacting
<1>10. Remembers(p)'
  BY <1>1, <1>2, <1>6, <1>7, VaultFileAssumption DEF Remembers
<1>11. NobodyIsAhead'
  <2>1. \A q \in Proc : op'[q].at # "committed"
    BY <1>1, <1>4
  <2>2. ASSUME NEW q \in Proc \ {p}, Open(q)', path = mem[q].ino
        PROVE  mem[q].counter <= disk'[path].cur.counter
    <3>1. mem[q].counter <= disk[path].cur.counter
      BY <2>2, <1>2, <1>c, Handles DEF NobodyIsAhead
    <3>2. QED BY <3>1, <1>7
  <2>3. QED BY <2>1, <2>2, <1>1, <1>4, <1>6, <1>7 DEF NobodyIsAhead
<1>12. ASSUME NamesAreDurable, rolledBack = "no" PROVE owed = {}
  <2>1. owed \subseteq ToSet(disk[path].cur.tail) /\ ToSet(<<>>) = {}
    BY <1>12, <1>2, <1>c, VaultFileAssumption DEF OwedIsSafe, ToSet
  <2>2. QED BY <2>1, <1>7
<1>13. HoldersAreCurrent' /\ OwedIsSafe'
  BY <1>1, <1>12 DEF HoldersAreCurrent, OwedIsSafe, NamesAreDurable
<1>14. BackupOK'
  <2>1. NodeOK(Same(backup))'
    BY <1>c, <1>1 DEF BackupOK
  <2>2. ~(Comparable /\ rolledBack = "no" /\ backup.whole) /\ ~(Comparable /\ rolledBack = "yes")
    BY <1>c, <1>1, <1>7 DEF BackupOK
  <2>3. Comparable' <=> Comparable
    BY DEF Comparable, NamesAreDurable
  <2>4. QED BY <2>1, <2>2, <2>3, <1>1 DEF BackupOK
<1>15. WriterIsCurrent'
  BY <1>1, <1>10 DEF WriterIsCurrent
<1>16. QED BY <1>4, <1>8, <1>9, <1>11, <1>13, <1>14, <1>15 DEF CalmInv

LEMMA CalmReadFile ==
  ASSUME TypeOK, CalmInv, ~overlap', NEW p \in Proc, NEW known, ReadFile(p, known), Step(p),
         setup' = setup
  PROVE  CalmInv'
<1>c. /\ \A j \in Inode : NodeOK(disk[j])
      /\ NobodyIsAhead /\ HoldersAreCurrent /\ OwedIsSafe /\ BackupOK /\ WriterIsCurrent
  BY DEF CalmInv
<1>1. /\ op[p].at = "down" /\ op'[p].at = "read" /\ path # None /\ ~Overlapping(p)
      /\ disk[path].cur.whole
      /\ UNCHANGED <<disk, path, survives, backup, owed, floor, rolledBack, last>>
  BY DEF ReadFile, Loads, TypeOK, Operation, storage
<1>2. mem'[p].counter = disk[path].cur.counter /\ mem'[p].tail = disk[path].cur.tail
  BY DEF ReadFile, NoFile, TypeOK
<1>3. /\ \A q \in Proc \ {p} : op'[q] = op[q] /\ mem'[q] = mem[q]
      /\ OneAtATime' /\ \A q \in Proc \ {p} : StageOK(q)'
  BY <1>1, OthersRest DEF CalmInv
<1>4. StageOK(p)'
  BY <1>1, <1>2 DEF StageOK, Compacting
<1>5. \A q \in Proc : /\ Open(q)' => Open(q) /\ q # p
                      /\ op'[q].at = "committed" => op[q].at = "committed" /\ q # p
  BY <1>1, <1>3 DEF Open, Opening
<1>6. \A q \in Proc \ {p} : Remembers(q)' <=> Remembers(q)
  BY <1>1, <1>3 DEF Remembers
<1>7. NobodyIsAhead'
  BY <1>c, <1>1, <1>3, <1>5 DEF NobodyIsAhead
<1>8. HoldersAreCurrent' /\ WriterIsCurrent'
  BY <1>c, <1>1, <1>3, <1>5, <1>6 DEF HoldersAreCurrent, WriterIsCurrent, NamesAreDurable
<1>9. OwedIsSafe'
  BY <1>c, <1>1 DEF OwedIsSafe, NamesAreDurable
<1>10. BackupOK'
  <2>1. \A q \in Proc : op[q].at \in {"down", "read"} => op'[q].at \in {"down", "read"}
    BY <1>1, <1>3
  <2>2. (Comparable' <=> Comparable) /\ (CopyIsNoOlder' <=> CopyIsNoOlder)
    BY <1>1 DEF Comparable, NamesAreDurable, CopyIsNoOlder
  <2>3. \A q \in Proc : op'[q].at = "committed" => op[q].at = "committed" /\ mem'[q] = mem[q]
                                                   /\ op'[q].rec = op[q].rec
    BY <1>3, <1>5
  <2>4. QED BY <2>1, <2>2, <2>3, <1>c, <1>1 DEF BackupOK
<1>11. \A j \in Inode : NodeOK(disk'[j])
  BY <1>1, <1>c
<1>12. QED BY <1>3, <1>4, <1>7, <1>8, <1>9, <1>10, <1>11 DEF CalmInv

LEMMA CalmOpenHandle ==
  ASSUME TypeOK, CalmInv, NEW p \in Proc, OpenHandle(p), setup' = setup
  PROVE  CalmInv'
<1>c. /\ \A j \in Inode : NodeOK(disk[j])
      /\ StageOK(p) /\ NobodyIsAhead /\ HoldersAreCurrent /\ OwedIsSafe /\ BackupOK
  BY DEF CalmInv
<1>1. /\ op[p].at = "read" /\ op'[p].at = "idle" /\ path # None /\ last' = p
      /\ UNCHANGED <<disk, path, survives, backup, owed>>
      /\ rolledBack' # "yes" /\ (rolledBack' = "no" => rolledBack = "no")
  BY DEF OpenHandle, Ends, Idle, Down, TypeOK, storage
<1>2. /\ mem'[p].counter = mem[p].counter /\ mem'[p].tail = mem[p].tail
      /\ mem'[p].ino = path /\ mem'[p].held = ToSet(mem[p].tail)
  BY DEF OpenHandle, TypeOK, Memory
<1>3. /\ disk[path].cur.whole /\ disk[path].cur.counter = mem[p].counter
      /\ disk[path].cur.tail = mem[p].tail
  BY <1>1, <1>c DEF StageOK
<1>4. Step(p) /\ Busy(p)
  BY <1>1 DEF Step, Busy
<1>5. /\ \A q \in Proc \ {p} : op'[q] = op[q] /\ mem'[q] = mem[q] /\ op[q].at \in {"down", "idle"}
      /\ OneAtATime' /\ \A q \in Proc \ {p} : StageOK(q)'
  BY <1>4, OthersRest DEF CalmInv
<1>6. StageOK(p)'
  BY <1>1 DEF StageOK, Compacting
<1>7. Remembers(p)'
  BY <1>1, <1>2, <1>3 DEF Remembers
<1>8. \A q \in Proc : op'[q].at # "committed"
  BY <1>1, <1>5
<1>t. mem[p].counter \in Nat
  BY Typed
<1>9. NobodyIsAhead'
  <2>1. mem'[p].counter <= disk[path].cur.counter
    BY <1>2, <1>3, <1>t
  <2>2. \A q \in Proc \ {p} : Open(q)' => Open(q)
    BY <1>5 DEF Open
  <2>3. QED BY <2>1, <2>2, <1>1, <1>5, <1>8, <1>c DEF NobodyIsAhead
<1>10. HoldersAreCurrent'
  <2>1. NamesAreDurable /\ rolledBack = "no" => owed \subseteq mem'[p].held
    BY <1>1, <1>2, <1>3, <1>c DEF OwedIsSafe
  <2>2. \A q \in Proc \ {p} : (Open(q)' => Open(q)) /\ (Remembers(q)' => Remembers(q))
    BY <1>1, <1>5 DEF Open, Remembers
  <2>3. QED BY <2>1, <2>2, <1>1, <1>5, <1>8, <1>c DEF HoldersAreCurrent, NamesAreDurable
<1>11. OwedIsSafe'
  BY <1>c, <1>1 DEF OwedIsSafe, NamesAreDurable
<1>12. BackupOK'
  <2>1. NodeOK(Same(backup))'
    BY <1>c, <1>1 DEF BackupOK
  <2>2. floor' >= floor /\ floor' \in Nat /\ floor \in Nat /\ backup.counter \in Nat
    BY <1>t DEF OpenHandle, TypeOK, Content
  <2>3. CopyIsNoOlder => CopyIsNoOlder'
    BY <2>2, <1>1 DEF CopyIsNoOlder
  <2>4. Comparable' <=> Comparable
    BY DEF Comparable, NamesAreDurable
  <2>5. QED BY <2>1, <2>3, <2>4, <1>1, <1>8, <1>c DEF BackupOK
<1>13. WriterIsCurrent'
  BY <1>1, <1>7 DEF WriterIsCurrent
<1>14. \A j \in Inode : NodeOK(disk'[j])
  BY <1>1, <1>c
<1>15. QED BY <1>5, <1>6, <1>9, <1>10, <1>11, <1>12, <1>13, <1>14 DEF CalmInv

\* Compaction leaves the vault alone until the rename.
LEMMA CalmBeginCompact ==
  ASSUME TypeOK, CalmInv, ~overlap', NEW p \in Proc, NEW keep \in SUBSET mem[p].held,
         NEW frames \in SetToSeqs(keep), BeginCompact(p, keep, frames), Step(p),
         setup' = setup
  PROVE  CalmInv'
<1>c. /\ \A j \in Inode : NodeOK(disk[j])
      /\ NobodyIsAhead /\ HoldersAreCurrent /\ OwedIsSafe /\ BackupOK /\ WriterIsCurrent
  BY DEF CalmInv
<1>1. PICK i \in FreeInodes :
        /\ disk' = [disk EXCEPT ![i] = Same(Absent)] /\ candidate' = i
        /\ op' = [op EXCEPT ![p] = [Idle EXCEPT !.at = "cleared", !.ino = i, !.frames = frames]]
  BY Zenon DEF BeginCompact, Same
<1>2. i \in Inode /\ i \notin survives /\ i # path /\ \A q \in Proc : mem[q].ino # i
  BY DEF FreeInodes
<1>3. /\ op[p].at = "idle" /\ ~Overlapping(p)
      /\ UNCHANGED <<path, survives, backup, floor, rolledBack, last>>
      /\ owed' = owed \ (mem[p].held \ keep)
  BY DEF BeginCompact
<1>4. op'[p].at = "cleared" /\ op'[p].ino = i /\ op'[p].frames = frames
  <2>1. op'[p] = [Idle EXCEPT !.at = "cleared", !.ino = i, !.frames = frames]
    BY <1>1 DEF TypeOK
  <2>2. QED BY <2>1, Zenon DEF Idle, Down
<1>5. /\ mem'[p].ino = mem[p].ino /\ mem'[p].counter = mem[p].counter
      /\ mem'[p].tail = mem[p].tail /\ mem'[p].held = keep
  BY DEF BeginCompact, TypeOK, Memory
<1>6. /\ \A q \in Proc \ {p} : op'[q] = op[q] /\ mem'[q] = mem[q] /\ op[q].at \in {"down", "idle"}
      /\ OneAtATime' /\ \A q \in Proc \ {p} : StageOK(q)'
  BY <1>3, OthersRest DEF CalmInv
<1>7. disk'[i] = Same(Absent) /\ \A j \in Inode \ {i} : disk'[j] = disk[j]
  BY <1>1, <1>2 DEF TypeOK
<1>8. \A j \in Inode : NodeOK(disk'[j])
  BY <1>7, <1>c, Contents
<1>9. StageOK(p)'
  <2>1. ToSet(frames) = keep
    <3>1. IsFiniteSet(mem[p].held)
      BY DEF TypeOK, InHand
    <3>2. IsFiniteSet(keep)
      BY <3>1, FS_Subset
    <3>3. QED BY <3>2, KeptFrames
  <2>2. \A q \in Proc : mem'[q].ino # i
    BY <1>2, <1>5, <1>6
  <2>3. QED BY <2>1, <2>2, <1>1, <1>2, <1>3, <1>4, <1>5 DEF StageOK
<1>10. /\ \A q \in Proc : Open(q)' => Open(q) /\ op'[q].at # "committed"
       /\ \A q \in Proc : Remembers(q)' <=> Remembers(q)
  <2>1. path # None => disk'[path] = disk[path]
    BY <1>2, <1>7 DEF TypeOK
  <2>2. \A q \in Proc : Remembers(q)' <=> Remembers(q)
    BY <2>1, <1>3, <1>5, <1>6 DEF Remembers
  <2>3. QED BY <2>2, <1>3, <1>4, <1>6 DEF Open, Opening
<1>11. NobodyIsAhead'
  <2>1. ASSUME NEW q \in Proc, Open(q)', path = mem'[q].ino
        PROVE  mem'[q].counter <= disk'[path].cur.counter
    <3>1. Open(q) /\ path = mem[q].ino
      BY <2>1, <1>5, <1>6, <1>10
    <3>2. path \in Inode \ {i}
      BY <3>1, <1>2, Handles
    <3>3. mem[q].counter <= disk[path].cur.counter
      BY <3>1, <1>c DEF NobodyIsAhead
    <3>4. QED BY <3>2, <3>3, <1>5, <1>6, <1>7
  <2>2. \A q \in Proc : op'[q].at # "committed"
    BY <1>4, <1>6
  <2>3. QED BY <2>1, <2>2, <1>3 DEF NobodyIsAhead
<1>12. HoldersAreCurrent'
  <2>1. ASSUME NamesAreDurable, rolledBack = "no", NEW q \in Proc, Open(q)', Remembers(q)'
        PROVE  owed' \subseteq mem'[q].held
    <3>1. owed \subseteq mem[q].held
      BY <2>1, <1>10, <1>c DEF HoldersAreCurrent
    <3>2. QED BY <3>1, <1>3, <1>5, <1>6
  <2>2. QED BY <2>1, <1>3, <1>10 DEF HoldersAreCurrent, NamesAreDurable
<1>13. OwedIsSafe'
  <2>1. \A j \in survives : j # None => disk'[j] = disk[j]
    BY <1>2, <1>7 DEF TypeOK
  <2>2. path # None => disk'[path] = disk[path]
    BY <2>1 DEF TypeOK
  <2>3. owed' \subseteq owed
    BY <1>3
  <2>4. QED BY <2>1, <2>2, <2>3, <1>3, <1>c DEF OwedIsSafe, NamesAreDurable
<1>14. BackupOK'
  <2>1. NodeOK(Same(backup))'
    BY <1>c, <1>3 DEF BackupOK
  <2>2. ~(Comparable /\ rolledBack = "yes")
    BY <1>c, <1>3 DEF BackupOK
  <2>3. (Comparable' <=> Comparable) /\ (CopyIsNoOlder => CopyIsNoOlder')
    BY <1>3 DEF Comparable, NamesAreDurable, CopyIsNoOlder
  <2>4. \A q \in Proc : op'[q].at # "committed"
    BY <1>4, <1>6
  <2>5. path # None => disk'[path] = disk[path]
    BY <1>2, <1>7 DEF TypeOK
  <2>6. QED BY <2>1, <2>2, <2>3, <2>4, <2>5, <1>3, <1>c DEF BackupOK
<1>15. WriterIsCurrent'
  <2>1. \A q \in Proc : Open(q)' => Open(q) /\ op[q].at # "committed"
    BY <1>3, <1>6, <1>10
  <2>2. QED BY <2>1, <1>3, <1>10, <1>c DEF WriterIsCurrent
<1>16. QED BY <1>6, <1>8, <1>9, <1>11, <1>12, <1>13, <1>14, <1>15 DEF CalmInv

LEMMA CalmWriteCandidate ==
  ASSUME TypeOK, CalmInv, NEW p \in Proc, WriteCandidate(p), setup' = setup
  PROVE  CalmInv'
<1> DEFINE i == op[p].ino
           c == Image(mem[p].counter, op[p].frames)
<1>1. /\ op[p].at = "cleared" /\ op'[p] = [op[p] EXCEPT !.at = "imaged"]
      /\ UNCHANGED <<path, candidate, backup, mem>>
      /\ UNCHANGED <<owed, floor, rolledBack, last>>
      /\ survives' \in {survives, {path}}
  BY DEF WriteCandidate, observed, TypeOK, Flushes
<1>2. op'[p].at = "imaged" /\ op'[p].ino = i /\ op'[p].frames = op[p].frames
  BY <1>1 DEF TypeOK, Operation
<1>3. /\ i \in Inode /\ i \notin survives /\ i # path /\ candidate \in {i, None}
      /\ \A q \in Proc : mem[q].ino # i
      /\ ToSet(op[p].frames) = mem[p].held
  BY <1>1 DEF CalmInv, StageOK, TypeOK, InHand, Compacting
<1>4. disk'[i] = Same(c) /\ \A j \in Inode \ {i} : disk'[j] = disk[j]
  BY <1>3 DEF WriteCandidate, TypeOK, Same
<1>5. Step(p) /\ Busy(p)
  BY <1>1 DEF Step, Busy
<1>6. /\ \A q \in Proc \ {p} : op'[q] = op[q] /\ mem'[q] = mem[q]
      /\ OneAtATime' /\ \A q \in Proc \ {p} : StageOK(q)'
  BY <1>5, OthersRest DEF CalmInv
<1>7. \A j \in Inode : NodeOK(disk'[j])
  <2>1. NodeOK(Same(c))
    BY Contents, Typed
  <2>2. QED BY <2>1, <1>4 DEF CalmInv
<1>8. StageOK(p)'
  <2>1. i \notin survives'
    BY <1>1, <1>3
  <2>2. mem' = mem /\ candidate' = candidate
    BY <1>1
  <2> HIDE DEF c
  <2>3. disk'[op'[p].ino] = Same(c)
    BY <1>2, <1>4
  <2>4. QED BY <2>1, <2>2, <2>3, <1>2, <1>3 DEF StageOK, c
<1>9. path # None => disk'[path] = disk[path]
  BY <1>3, <1>4 DEF TypeOK
<1>10. NobodyIsAhead' /\ HoldersAreCurrent' /\ BackupOK' /\ WriterIsCurrent'
  BY <1>1, <1>2, <1>6, <1>9, HeaderStays DEF Open, Opening
<1>11. OwedIsSafe'
  <2>1. \A j \in survives' : j \in survives /\ (j # None => disk'[j] = disk[j])
    BY <1>1, <1>3, <1>4 DEF TypeOK
  <2>2. QED BY <2>1, <1>1, <1>9 DEF CalmInv, OwedIsSafe, NamesAreDurable
<1>12. QED BY <1>6, <1>7, <1>8, <1>10, <1>11 DEF CalmInv

\* The rename: the new image holds what the process that wrote it holds.
LEMMA CalmSwap ==
  ASSUME TypeOK, CalmInv, NEW p \in Proc, Swap(p), setup' = setup
  PROVE  CalmInv'
<1> DEFINE i == op[p].ino
<1>c. /\ \A j \in Inode : NodeOK(disk[j])
      /\ StageOK(p) /\ HoldersAreCurrent /\ OwedIsSafe /\ BackupOK
  BY DEF CalmInv
<1>1. /\ op[p].at = "confirmed" /\ op'[p].at = "idle" /\ last' = p
      /\ UNCHANGED <<disk, backup, owed, floor, rolledBack>>
      /\ path' = candidate /\ candidate # None /\ survives' = survives \cup {candidate}
  BY DEF Swap, Ends, Idle, Down, TypeOK
<1>2. /\ mem'[p].counter = mem[p].counter /\ mem'[p].held = mem[p].held
      /\ mem'[p].ino = i /\ mem'[p].tail = op[p].frames
  BY DEF Swap, TypeOK, Memory
<1>3. /\ candidate = i /\ i \in Inode /\ Remembers(p)
      /\ \A q \in Proc : mem[q].ino # i
      /\ ToSet(op[p].frames) = mem[p].held
      /\ disk[i] = Same(Image(mem[p].counter, op[p].frames))
  BY <1>1, <1>c DEF StageOK, TypeOK, InHand, Compacting
<1>4. /\ disk[i].cur.whole /\ disk[i].cur.counter = mem[p].counter
      /\ disk[i].cur.tail = op[p].frames /\ disk[i].dur.tail = op[p].frames
  BY <1>3 DEF Same, Image
<1>5. Step(p) /\ Busy(p)
  BY <1>1 DEF Step, Busy
<1>6. /\ \A q \in Proc \ {p} : op'[q] = op[q] /\ mem'[q] = mem[q] /\ op[q].at \in {"down", "idle"}
      /\ OneAtATime' /\ \A q \in Proc \ {p} : StageOK(q)'
  BY <1>5, OthersRest DEF CalmInv
<1>7. StageOK(p)'
  BY <1>1 DEF StageOK, Compacting
<1>8. Remembers(p)' /\ \A q \in Proc \ {p} : path' # mem'[q].ino
  BY <1>1, <1>2, <1>3, <1>4, <1>6 DEF Remembers
<1>9. \A q \in Proc : op'[q].at # "committed"
  BY <1>1, <1>6
<1>10. NobodyIsAhead'
  <2>1. mem'[p].counter <= disk'[path'].cur.counter
    BY <1>1, <1>2, <1>3, <1>4, Typed
  <2>2. QED BY <2>1, <1>8, <1>9 DEF NobodyIsAhead
<1>11. ASSUME NamesAreDurable, rolledBack = "no" PROVE owed \subseteq mem[p].held
  BY <1>11, <1>1, <1>3, <1>c DEF HoldersAreCurrent, Open, Opening
<1>12. HoldersAreCurrent'
  BY <1>1, <1>2, <1>8, <1>9, <1>11 DEF HoldersAreCurrent, NamesAreDurable, Remembers
<1>13. OwedIsSafe'
  <2>1. /\ path' # None /\ path' = i
        /\ disk'[i].cur.tail = op[p].frames /\ disk'[i].dur.tail = op[p].frames
    BY <1>1, <1>3, <1>4
  <2>2. ASSUME NamesAreDurable, rolledBack = "no"
        PROVE  owed \subseteq ToSet(disk'[path'].cur.tail)
    BY <2>1, <2>2, <1>3, <1>11
  <2>3. ASSUME NamesAreDurable, rolledBack = "no", setup.powerCuts, NEW j \in survives'
        PROVE  IF j = None THEN owed = {} ELSE owed \subseteq ToSet(disk'[j].dur.tail)
    <3>1. CASE j \in survives
      BY <2>3, <3>1, <1>1, <1>c DEF OwedIsSafe
    <3>2. CASE j = i
      BY <2>1, <2>3, <3>2, <1>1, <1>3, <1>11
    <3>3. QED BY <3>1, <3>2, <2>3, <1>1, <1>3
  <2>4. QED BY <2>1, <2>2, <2>3, <1>1 DEF OwedIsSafe, NamesAreDurable
<1>14. BackupOK'
  <2>1. NodeOK(Same(backup))'
    BY <1>c, <1>1 DEF BackupOK
  <2>2. ~(Comparable /\ rolledBack = "yes")
    BY <1>c, <1>1 DEF BackupOK
  <2>3. (Comparable' <=> Comparable) /\ (CopyIsNoOlder' <=> CopyIsNoOlder)
    BY <1>1 DEF Comparable, NamesAreDurable, CopyIsNoOlder
  <2>4. /\ path' # None /\ disk'[path'].cur.whole
        /\ disk'[path'].cur.counter = disk[path].cur.counter
    BY <1>1, <1>3, <1>4 DEF Remembers
  <2>5. QED BY <2>1, <2>2, <2>3, <2>4, <1>1, <1>9, <1>c DEF BackupOK
<1>15. WriterIsCurrent'
  BY <1>1, <1>8 DEF WriterIsCurrent
<1>16. QED BY <1>6, <1>7, <1>10, <1>12, <1>13, <1>14, <1>15, <1>1, <1>c DEF CalmInv

\* The surroundings: a power cut, a copy taken, a copy or nothing put in place.
LEMMA CalmPowerCut ==
  ASSUME TypeOK, CalmInv, NobodyMeddles, PowerCut, setup' = setup
  PROVE  CalmInv'
<1>c. /\ \A j \in Inode : NodeOK(disk[j])
      /\ OwedIsSafe /\ BackupOK
  BY DEF CalmInv
<1>1. /\ setup.powerCuts /\ UNCHANGED <<backup, owed, floor, rolledBack>>
      /\ \A p \in Proc : op'[p] = Down
  BY DEF PowerCut, observed
<1>2. PICK i \in survives :
        /\ path' = i /\ survives' = {i}
        /\ IF i = None THEN UNCHANGED disk
           ELSE \E c \in Survivors(disk[i]) : disk' = [disk EXCEPT ![i] = [cur |-> c, dur |-> c]]
  BY DEF PowerCut
<1>3. /\ OneAtATime' /\ \A p \in Proc : StageOK(p)'
      /\ NobodyIsAhead' /\ HoldersAreCurrent' /\ WriterIsCurrent'
  <2>1. \A p \in Proc : op'[p].at = "down"
    BY <1>1 DEF Down
  <2>2. OneAtATime'
    BY <2>1 DEF OneAtATime, Busy
  <2>3. \A p \in Proc : StageOK(p)'
    BY <2>1 DEF StageOK, Compacting
  <2>4. NobodyIsAhead' /\ HoldersAreCurrent' /\ WriterIsCurrent'
    BY <2>1 DEF NobodyIsAhead, HoldersAreCurrent, WriterIsCurrent, Open
  <2>5. QED BY <2>2, <2>3, <2>4
<1>4. ASSUME i = None PROVE OwedIsSafe' /\ \A j \in Inode : NodeOK(disk'[j])
  <2>1. OwedIsSafe'
    BY <1>1, <1>2, <1>4, <1>c DEF OwedIsSafe, NamesAreDurable
  <2>2. \A j \in Inode : NodeOK(disk'[j])
    BY <1>2, <1>4, <1>c
  <2>3. QED BY <2>1, <2>2
<1>5. ASSUME i # None PROVE OwedIsSafe' /\ \A j \in Inode : NodeOK(disk'[j])
  <2>1. PICK c \in Survivors(disk[i]) : disk' = [disk EXCEPT ![i] = Same(c)]
    BY <1>2, <1>5 DEF Same
  <2>2. i \in Inode /\ disk[i] \in Node
    BY <1>5 DEF TypeOK
  <2>3. c \in Content /\ c.tail \in {disk[i].cur.tail, disk[i].dur.tail} /\ NodeOK(Same(c))
    BY <2>2, <1>c, Survived
  <2>4. disk'[i] = Same(c) /\ \A j \in Inode \ {i} : disk'[j] = disk[j]
    BY <2>1, <2>2 DEF TypeOK
  <2>5. ASSUME NamesAreDurable, rolledBack = "no" PROVE owed \subseteq ToSet(c.tail)
    <3>1. owed \subseteq ToSet(disk[i].dur.tail)
      BY <2>5, <1>1, <1>5, <1>c DEF OwedIsSafe
    <3>2. Prefix(disk[i].dur.tail, disk[i].cur.tail)
      BY <2>2, <1>c DEF NodeOK
    <3>3. ToSet(disk[i].dur.tail) \subseteq ToSet(disk[i].cur.tail)
      BY <3>2, <2>2, Typed, ToSetPrefix
    <3>4. QED BY <3>1, <3>3, <2>3
  <2>6. OwedIsSafe'
    <3>1. disk'[path'].cur.tail = c.tail /\ disk'[path'].dur.tail = c.tail /\ path' # None
      BY <2>4, <1>2, <1>5 DEF Same
    <3>2. QED BY <3>1, <2>5, <1>1, <1>2 DEF OwedIsSafe, NamesAreDurable
  <2>7. \A j \in Inode : NodeOK(disk'[j])
    BY <2>3, <2>4, <1>c
  <2>8. QED BY <2>6, <2>7
<1>6. BackupOK'
  <2>1. NodeOK(Same(backup))'
    BY <1>c, <1>1 DEF BackupOK
  <2>2. Comparable' => ~backup.whole /\ rolledBack = "no"
    BY <1>1 DEF Comparable, NobodyMeddles, Absent
  <2>3. QED BY <2>1, <2>2, <1>1 DEF BackupOK
<1>7. QED BY <1>3, <1>4, <1>5, <1>6 DEF CalmInv

LEMMA CalmTakeBackup ==
  ASSUME TypeOK, CalmInv, TakeBackup, setup' = setup
  PROVE  CalmInv'
<1>c. /\ \A j \in Inode : NodeOK(disk[j])
      /\ \A p \in Proc : StageOK(p)
      /\ OneAtATime /\ NobodyIsAhead /\ HoldersAreCurrent /\ OwedIsSafe /\ BackupOK
      /\ WriterIsCurrent
  BY DEF CalmInv
<1>1. /\ path # None /\ ~backup.whole /\ backup' = disk[path].cur /\ path \in Inode
      /\ UNCHANGED <<disk, path, survives, candidate, mem, op>>
      /\ UNCHANGED <<owed, floor, last, rolledBack>>
  BY DEF TakeBackup, observed, TypeOK
<1>2. OneAtATime' /\ \A p \in Proc : StageOK(p)'
  BY <1>c, <1>1 DEF OneAtATime, Busy, StageOK, Remembers, FrameIsThere
<1>3. NobodyIsAhead' /\ HoldersAreCurrent' /\ WriterIsCurrent' /\ OwedIsSafe'
  BY <1>c, <1>1
     DEF NobodyIsAhead, HoldersAreCurrent, WriterIsCurrent, OwedIsSafe, Open, Remembers,
         NamesAreDurable
<1>4. NodeOK(Same(disk[path].cur))
  <2>1. NodeOK(disk[path])
    BY <1>c, <1>1
  <2>2. Prefix(disk[path].cur.tail, disk[path].cur.tail) /\ disk[path].cur.counter \in Nat
    BY <1>1, Typed DEF Prefix
  <2>3. QED BY <2>1, <2>2 DEF NodeOK, Same
<1>5. ~(Comparable /\ rolledBack = "yes")
  BY <1>c, <1>1 DEF BackupOK
<1>6. ASSUME NamesAreDurable, rolledBack = "no" PROVE owed \subseteq ToSet(disk[path].cur.tail)
  BY <1>6, <1>1, <1>c DEF OwedIsSafe
<1>7. ASSUME NEW p \in Proc, op[p].at = "committed", disk[path].cur.counter > mem[p].counter
      PROVE  op[p].rec \in ToSet(disk[path].cur.tail)
  <2>1. disk[path].cur.tail = Append(mem[p].tail, op[p].rec)
    BY <1>7, <1>c DEF StageOK
  <2>2. mem[p].tail \in Seq(Record) /\ op[p].rec \in Record
    BY <1>7, Typed DEF TypeOK, InHand, Appending
  <2>3. QED BY <2>1, <2>2, ToSetAppend
<1>8. BackupOK'
  <2>1. Comparable' <=> Comparable
    BY DEF Comparable, NamesAreDurable
  <2>2. disk[path].cur.counter <= disk[path].cur.counter
    BY <1>1, Typed
  <2>3. NodeOK(Same(backup))'
    BY <1>1, <1>4
  <2>4. ASSUME Comparable, rolledBack = "no" PROVE CopyIsNoOlder'
    BY <2>4, <1>1, <1>6 DEF CopyIsNoOlder, Comparable
  <2>5. QED BY <2>1, <2>2, <2>3, <2>4, <1>1, <1>5, <1>7 DEF BackupOK
<1>9. QED BY <1>1, <1>2, <1>3, <1>8, <1>c DEF CalmInv

LEMMA CalmRollBack ==
  ASSUME TypeOK, CalmInv, RollBack, setup' = setup
  PROVE  CalmInv'
<1>c. /\ \A j \in Inode : NodeOK(disk[j])
      /\ BackupOK
  BY DEF CalmInv
<1>1. /\ path # None /\ \A p \in Proc : op[p].at = "down" /\ op'[p].at = "down"
      /\ UNCHANGED <<backup, owed, floor>>
      /\ rolledBack' = IF rolledBack = "no" THEN "yes" ELSE rolledBack
  BY DEF RollBack
<1>2. /\ OneAtATime' /\ \A p \in Proc : StageOK(p)'
      /\ NobodyIsAhead' /\ HoldersAreCurrent' /\ WriterIsCurrent'
  <2>1. OneAtATime'
    BY <1>1 DEF OneAtATime, Busy
  <2>2. \A p \in Proc : StageOK(p)'
    BY <1>1 DEF StageOK, Compacting
  <2>3. NobodyIsAhead' /\ HoldersAreCurrent' /\ WriterIsCurrent'
    BY <1>1 DEF NobodyIsAhead, HoldersAreCurrent, WriterIsCurrent, Open
  <2>4. QED BY <2>1, <2>2, <2>3
<1>3. rolledBack' # "no"
  BY <1>1
<1>4. OwedIsSafe'
  BY <1>3 DEF OwedIsSafe
<1>5. /\ path' # None => backup.whole /\ disk'[path'].cur = backup
      /\ \A j \in Inode : NodeOK(disk'[j])
  <2>1. CASE path' = None /\ UNCHANGED disk
    BY <2>1, <1>c
  <2>2. CASE /\ backup.whole /\ path' = path
             /\ disk' = [disk EXCEPT ![path] = Same(backup)]
    <3>1. disk'[path] = Same(backup) /\ \A j \in Inode \ {path} : disk'[j] = disk[j]
      BY <2>2, <1>1 DEF TypeOK
    <3>2. NodeOK(Same(backup))
      BY <1>c DEF BackupOK
    <3>3. QED BY <3>1, <3>2, <2>2, <1>c DEF Same
  <2>3. QED BY <2>1, <2>2 DEF RollBack, Same
<1>6. BackupOK'
  <2>1. NodeOK(Same(backup))'
    BY <1>c, <1>1 DEF BackupOK
  <2>2. ASSUME Comparable, rolledBack' = "yes" PROVE CopyIsNoOlder'
    <3>1. rolledBack \in {"no", "yes"}
      BY <2>2, <1>1 DEF TypeOK
    <3>2. backup.whole => CopyIsNoOlder
      BY <3>1, <2>2, <1>c DEF BackupOK
    <3>3. QED BY <3>2, <1>1 DEF CopyIsNoOlder
  <2>3. Comparable' <=> Comparable
    BY DEF Comparable, NamesAreDurable
  <2>4. QED BY <2>1, <2>2, <2>3, <1>1, <1>3, <1>5 DEF BackupOK
<1>7. QED BY <1>2, <1>4, <1>5, <1>6 DEF CalmInv

\* A refusal changes only what the caller is told.
LEMMA CalmRefuses ==
  ASSUME CalmInv, UNCHANGED storage, UNCHANGED <<mem, op, setup>>, UNCHANGED observed
  PROVE  CalmInv'
<1>1. /\ UNCHANGED <<disk, path, survives, candidate, backup, mem, op, setup>>
      /\ UNCHANGED <<owed, floor, last, rolledBack>>
  BY DEF storage, observed
<1>2. /\ OneAtATime' /\ \A p \in Proc : StageOK(p)'
      /\ \A j \in Inode : NodeOK(disk'[j])
  BY <1>1 DEF CalmInv, OneAtATime, Busy, StageOK, Remembers, FrameIsThere
<1>3. NobodyIsAhead' /\ HoldersAreCurrent' /\ WriterIsCurrent' /\ OwedIsSafe'
  BY <1>1 DEF CalmInv, NobodyIsAhead, HoldersAreCurrent, WriterIsCurrent, OwedIsSafe, Open,
              Remembers, NamesAreDurable
<1>4. BackupOK'
  <2>1. (Comparable' <=> Comparable) /\ (CopyIsNoOlder' <=> CopyIsNoOlder)
    BY <1>1 DEF Comparable, NamesAreDurable, CopyIsNoOlder
  <2>2. QED BY <2>1, <1>1 DEF CalmInv, BackupOK
<1>5. QED BY <1>2, <1>3, <1>4 DEF CalmInv

---------------------------------------------------------------------------
(***************************************************************************)
(* The invariant of every step                                             *)
(***************************************************************************)

LEMMA CalmStep ==
  ASSUME TypeOK, CalmInv, NobodyMeddles, ~overlap', [Next]_vars
  PROVE  CalmInv'
<1>1. ASSUME NEW p \in Proc, Step(p), setup' = setup PROVE CalmInv'
  <2>1. ASSUME NEW known, CreateFile(p, known) PROVE CalmInv'
    BY <2>1, <1>1, CalmCreateFile
  <2>2. ASSUME NEW known, ReadFile(p, known) PROVE CalmInv'
    BY <2>2, <1>1, CalmReadFile
  <2>3. ASSUME NEW known, RefuseOpen(p, known) PROVE CalmInv'
    BY <2>3, <1>1, CalmRefuses DEF RefuseOpen
  <2>4. CASE CreateHeader(p)
    BY <2>4, <1>1, CalmCreateHeader
  <2>5. CASE OpenHandle(p)
    BY <2>5, <1>1, CalmOpenHandle
  <2>6. CASE FailOpen(p)
    BY <2>6, <1>1, CalmGoesDown
  <2>7. ASSUME NEW r \in Record, BeginAppend(p, r) PROVE CalmInv'
    BY <2>7, <1>1, CalmBeginAppend
  <2>8. CASE RefuseAppend(p)
    BY <2>8, <1>1, CalmRefuses DEF RefuseAppend
  <2>9. CASE WriteFrame(p)
    BY <2>9, <1>1, CalmWriteFrame
  <2>10. CASE SyncFrame(p)
    BY <2>10, <1>1, CalmSyncFrame
  <2>11. CASE WriteHeader(p)
    BY <2>11, <1>1, CalmWriteHeader
  <2>12. CASE SyncHeader(p)
    BY <2>12, <1>1, CalmSyncHeader
  <2>13. CASE FailAppend(p)
    BY <2>13, <1>1, CalmGivesUp, CalmTornFrame
  <2>14. ASSUME NEW keep \in SUBSET mem[p].held, NEW frames \in SetToSeqs(keep),
                BeginCompact(p, keep, frames)
         PROVE  CalmInv'
    BY <2>14, <1>1, CalmBeginCompact
  <2>15. CASE WriteCandidate(p)
    BY <2>15, <1>1, CalmWriteCandidate
  <2>16. CASE ConfirmSwap(p)
    BY <2>16, <1>1, CalmConfirmSwap
  <2>17. CASE AbandonSwap(p)
    BY <2>17, <1>1, CalmGivesUp DEF AbandonSwap
  <2>18. CASE FailCandidate(p)
    BY <2>18, <1>1, CalmGivesUp DEF FailCandidate, storage
  <2>19. CASE Swap(p)
    BY <2>19, <1>1, CalmSwap
  <2>20. QED
    BY <1>1, <2>1, <2>2, <2>3, <2>4, <2>5, <2>6, <2>7, <2>8, <2>9, <2>10, <2>11, <2>12,
       <2>13, <2>14, <2>15, <2>16, <2>17, <2>18, <2>19 DEF Step
<1>2. ASSUME NEW p \in Proc, Kill(p), setup' = setup PROVE CalmInv'
  BY <1>2, CalmGoesDown
<1>3. CASE UNCHANGED vars
  BY <1>3, CalmRefuses DEF vars, storage, observed
<1>4. CASE Next
  <2>1. setup' = setup
    BY <1>4 DEF Next
  <2>2. setup.procs \subseteq Proc
    BY VaultFileAssumption DEF TypeOK
  <2>3. CASE PowerCut \/ TakeBackup \/ RollBack
    BY <2>1, <2>3, CalmPowerCut, CalmTakeBackup, CalmRollBack
  <2>4. ASSUME NEW p \in setup.procs, Step(p) \/ Kill(p) PROVE CalmInv'
    BY <1>1, <1>2, <2>1, <2>2, <2>4
  <2>5. QED BY <1>4, <2>3, <2>4 DEF Next
<1>5. QED BY <1>3, <1>4

LEMMA InvStep == IInv /\ [Next]_vars => IInv'
<1> SUFFICES ASSUME IInv, [Next]_vars PROVE IInv'
  OBVIOUS
<1>1. TypeOK' /\ NothingIsInvented'
  BY TypeStep, InventionStep DEF IInv
<1>2. OthersAreDown' /\ LoneIsCalm' /\ NobodyMeddles' /\ (~overlap' => ~overlap)
  BY SurroundingsStep DEF IInv
<1>3. ASSUME ~overlap' PROVE CalmInv'
  BY <1>2, <1>3, CalmStep DEF IInv
<1>4. QED BY <1>1, <1>2, <1>3 DEF IInv

\* The invariant of the file: until two operations overlap, every inode is whole or
\* empty, the process inside an operation has done exactly what it was to do (open,
\* append and compact of file.rs, compaction.rs), and what is owed is under every name
\* a power cut can lead to.
THEOREM FileInvariant == Spec => []IInv
<1>1. Init => IInv
  BY TypeInit, CalmInit DEF IInv
<1>2. QED BY <1>1, InvStep, PTL DEF Spec

---------------------------------------------------------------------------
(***************************************************************************)
(* What it gives                                                           *)
(***************************************************************************)

LEMMA WholeLoads ==
  ASSUME NEW d, NodeOK(d), d.cur.whole
  PROVE  Loads(d.cur)
BY DEF NodeOK, Covers, Loads

\* file.rs append: once an append has answered, an open finds its record, whichever
\* system calls fail and whenever processes or the machine die, until it expires.
THEOREM OwedRecordsStayFiled == Spec => []OwedRecordsAreFiled
<1>1. ASSUME IInv PROVE OwedRecordsAreFiled
  <2> SUFFICES ASSUME NamesAreDurable, rolledBack = "no", ~overlap
               PROVE  owed \subseteq Filed
    BY DEF OwedRecordsAreFiled
  <2>1. TypeOK /\ OwedIsSafe /\ \A i \in Inode : NodeOK(disk[i])
    BY <1>1 DEF IInv, CalmInv
  <2>2. CASE path = None
    BY <2>1, <2>2 DEF OwedIsSafe
  <2>3. CASE path # None
    <3>1. owed \subseteq ToSet(disk[path].cur.tail) /\ NodeOK(disk[path])
      BY <2>1, <2>3 DEF OwedIsSafe, TypeOK
    <3>2. CASE disk[path].cur.whole
      BY <2>3, <3>1, <3>2, WholeLoads DEF Filed
    <3>3. CASE ~disk[path].cur.whole
      <4>1. disk[path].cur.tail = <<>> /\ <<>> \in Seq(Record)
        BY <3>1, <3>3 DEF NodeOK
      <4>2. QED BY <3>1, <4>1, ToSetType
    <3>4. QED BY <3>2, <3>3
  <2>4. QED BY <2>2, <2>3
<1>2. QED BY <1>1, FileInvariant, PTL

\* file.rs append, "never both half done", and compaction.rs, "There is no third
\* state": a header that was written at all describes frames that are there.
THEOREM EveryInstantWhole == Spec => []EveryInstantIsWhole
<1>1. ASSUME IInv PROVE EveryInstantIsWhole
  <2> SUFFICES ASSUME ~overlap, path # None, disk[path].cur.whole
               PROVE  Loads(disk[path].cur)
    BY DEF EveryInstantIsWhole
  <2>1. path \in Inode /\ NodeOK(disk[path])
    BY <1>1 DEF IInv, CalmInv, TypeOK
  <2>2. QED BY <2>1, WholeLoads
<1>2. QED BY <1>1, FileInvariant, PTL

\* file.rs confirm_unchanged: a process that wrote last, while its system calls
\* succeed, finds the header it left.
THEOREM LastWriterProceeds == Spec => []LastWriterIsNeverRefused
<1>1. ASSUME IInv PROVE LastWriterIsNeverRefused
  <2> SUFFICES ASSUME ~setup.faults, ~overlap, NEW p \in Proc, last = p, op[p].at = "idle"
               PROVE  Confirm(p)
    BY DEF LastWriterIsNeverRefused
  <2>1. Remembers(p)
    BY <1>1 DEF IInv, CalmInv, WriterIsCurrent, Open, Opening
  <2>2. QED BY <2>1 DEF Remembers, Confirm
<1>2. QED BY <1>1, FileInvariant, PTL

LEMMA HeaderAppends ==
  ASSUME TypeOK, CalmInv, NEW p \in Proc, WriteHeader(p)
  PROVE  /\ path' = path /\ path \in Inode
         /\ disk'[path].cur.counter = disk[path].cur.counter + 1
         /\ disk'[path].cur.tail = Append(disk[path].cur.tail, op[p].rec)
<1>1. /\ Remembers(p) /\ path' = path /\ path \in Inode
  BY DEF WriteHeader, CalmInv, StageOK, Remembers, TypeOK
<1>2. PICK c \in Content :
        /\ c.counter = mem[p].counter + 1 /\ c.tail = Append(mem[p].tail, op[p].rec)
        /\ disk' = [disk EXCEPT ![mem[p].ino] = [cur |-> c, dur |-> disk[mem[p].ino].dur]]
  BY HeaderStep
<1>3. disk'[path].cur = c
  BY <1>1, <1>2 DEF Remembers, TypeOK
<1>4. QED BY <1>1, <1>2, <1>3 DEF Remembers

\* What a process does to the header at the path: nothing, the next one with one frame
\* more, or another image with the same counter.
LEMMA PathStep ==
  ASSUME TypeOK, CalmInv, NEW p \in Proc, Step(p) \/ Kill(p), path # None
  PROVE  \/ /\ path' = path
            /\ disk'[path].cur.counter = disk[path].cur.counter
            /\ disk'[path].cur.tail = disk[path].cur.tail
         \/ /\ op[p].at = "flushed" /\ path' = path
            /\ disk'[path].cur.counter = disk[path].cur.counter + 1
            /\ disk'[path].cur.tail = Append(disk[path].cur.tail, op[p].rec)
         \/ op[p].at = "confirmed" /\ disk'[path'].cur.counter = disk[path].cur.counter
<1> DEFINE Stays == /\ path' = path
                    /\ disk'[path].cur.counter = disk[path].cur.counter
                    /\ disk'[path].cur.tail = disk[path].cur.tail
           Grows == /\ op[p].at = "flushed" /\ path' = path
                    /\ disk'[path].cur.counter = disk[path].cur.counter + 1
                    /\ disk'[path].cur.tail = Append(disk[path].cur.tail, op[p].rec)
           Moves == op[p].at = "confirmed" /\ disk'[path'].cur.counter = disk[path].cur.counter
<1>c. StageOK(p) /\ path \in Inode /\ path \in survives /\ InHand(p)
  BY DEF CalmInv, TypeOK
<1>1. UNCHANGED <<disk, path>> => Stays
  OBVIOUS
<1>2. ASSUME NEW known, CreateFile(p, known) \/ ReadFile(p, known) \/ RefuseOpen(p, known)
      PROVE  Stays
  <2>1. CreateFile(p, known) => path = None
    BY Zenon DEF CreateFile
  <2>2. ReadFile(p, known) \/ RefuseOpen(p, known) => UNCHANGED <<disk, path>>
    BY DEF ReadFile, RefuseOpen, storage
  <2>3. QED BY <1>2, <2>1, <2>2, <1>1
<1>3. ASSUME CreateHeader(p) PROVE Stays
  <2>1. op[p].ino = path /\ disk[path] = Same(Absent)
    BY <1>3, <1>c DEF CreateHeader, StageOK
  <2>2. disk'[path] = Same(Image(0, <<>>)) /\ path' = path
    BY <1>3, <2>1, <1>c DEF CreateHeader, TypeOK, Same
  <2>3. QED BY <2>1, <2>2 DEF Same, Image, Absent
<1>4. ASSUME NEW r, BeginAppend(p, r) PROVE Stays
  BY <1>4, <1>1 DEF BeginAppend, storage
<1>5. OpenHandle(p) \/ FailOpen(p) \/ RefuseAppend(p) \/ ConfirmSwap(p) \/ AbandonSwap(p)
        \/ FailCandidate(p) \/ Kill(p) => Stays
  BY <1>1 DEF OpenHandle, FailOpen, RefuseAppend, ConfirmSwap, AbandonSwap, FailCandidate, Kill,
              storage
<1>6. ASSUME WriteFrame(p) PROVE Stays
  <2>1. path = mem[p].ino /\ path' = path
    BY <1>6, <1>c DEF WriteFrame, StageOK, Remembers
  <2>2. PICK c \in Content :
          /\ c.counter = disk[path].cur.counter /\ c.tail = disk[path].cur.tail
          /\ disk' = [disk EXCEPT ![path] = [cur |-> c, dur |-> disk[path].dur]]
    BY <1>6, <2>1, FrameStep
  <2>3. disk'[path].cur = c
    BY <2>2, <1>c DEF TypeOK
  <2>4. QED BY <2>1, <2>2, <2>3
<1>7. ASSUME FailAppend(p) PROVE Stays
  <2>1. CASE disk' = disk
    BY <1>7, <2>1, <1>1 DEF FailAppend
  <2>2. CASE disk' # disk
    <3>1. path = mem[p].ino /\ path' = path
      BY <1>7, <2>2, <1>c DEF FailAppend, StageOK, Remembers
    <3>2. PICK c \in Content :
            /\ c.counter = disk[path].cur.counter /\ c.tail = disk[path].cur.tail
            /\ disk' = [disk EXCEPT ![path] = [cur |-> c, dur |-> disk[path].dur]]
      BY <1>7, <2>2, <3>1, TornStep
    <3>3. disk'[path].cur = c
      BY <3>2, <1>c DEF TypeOK
    <3>4. QED BY <3>1, <3>2, <3>3
  <2>3. QED BY <2>1, <2>2
<1>8. ASSUME SyncFrame(p) \/ SyncHeader(p) PROVE Stays
  <2>1. path = mem[p].ino /\ path' = path /\ Synced(path)
    BY <1>8, <1>c DEF SyncFrame, SyncHeader, StageOK, Remembers
  <2>2. disk'[path].cur = disk[path].cur
    BY <2>1, <1>c, SyncedNode DEF CalmInv
  <2>3. QED BY <2>1, <2>2
<1>9. ASSUME WriteHeader(p) PROVE Grows
  <2>1. op[p].at = "flushed"
    BY <1>9 DEF WriteHeader
  <2>2. QED BY <1>9, <2>1, HeaderAppends
<1>10. ASSUME NEW keep, NEW frames, BeginCompact(p, keep, frames) PROVE Stays
  <2>1. PICK i \in FreeInodes : disk' = [disk EXCEPT ![i] = Same(Absent)]
    BY <1>10 DEF BeginCompact, Same
  <2>2. i # path /\ path' = path
    BY <1>10 DEF FreeInodes, BeginCompact
  <2>3. QED BY <2>1, <2>2, <1>c DEF TypeOK
<1>11. ASSUME WriteCandidate(p) PROVE Stays
  <2>1. op[p].ino # path /\ path' = path
    BY <1>11, <1>c DEF WriteCandidate, StageOK, Compacting
  <2>2. disk'[path] = disk[path]
    BY <1>11, <2>1, <1>c DEF WriteCandidate, TypeOK
  <2>3. QED BY <2>1, <2>2
<1>12. ASSUME Swap(p) PROVE Moves
  <2>1. /\ op[p].at = "confirmed" /\ candidate = op[p].ino /\ Remembers(p)
        /\ disk[op[p].ino] = Same(Image(mem[p].counter, op[p].frames))
    BY <1>12, <1>c DEF Swap, StageOK, Compacting
  <2>2. path' = op[p].ino /\ disk' = disk
    BY <1>12, <2>1 DEF Swap
  <2>3. QED BY <2>1, <2>2 DEF Remembers, Same, Image
<1> HIDE DEF Stays, Grows, Moves
<1>13. Stays \/ Grows \/ Moves
  BY <1>2, <1>3, <1>4, <1>5, <1>6, <1>7, <1>8, <1>9, <1>10, <1>11, <1>12 DEF Step
<1>14. QED BY <1>13 DEF Stays, Grows, Moves

\* file.rs image, and load, step 5: no process takes the counter of the file back, and
\* an open that is given the counter its caller last saw never takes a file that lacks
\* an acknowledged record.
THEOREM CounterAlwaysTellsTheAge == Spec => CounterTellsTheAge
<1>1. ASSUME IInv, [Next]_vars, ~overlap', ~PowerCut, ~RollBack, path # None, path' # None
      PROVE  disk'[path'].cur.counter >= disk[path].cur.counter
  <2>1. TypeOK /\ CalmInv /\ path \in Inode
    BY <1>1, SurroundingsStep DEF IInv, TypeOK
  <2>2. disk[path].cur.counter \in Nat
    BY <2>1, Typed
  <2>3. ASSUME NEW p \in setup.procs, Step(p) \/ Kill(p)
        PROVE  disk'[path'].cur.counter >= disk[path].cur.counter
    <3>1. p \in Proc
      BY <2>1, VaultFileAssumption DEF TypeOK
    <3>2. QED BY <1>1, <2>1, <2>2, <2>3, <3>1, PathStep
  <2>4. UNCHANGED <<disk, path>> => disk'[path'].cur.counter >= disk[path].cur.counter
    BY <2>2
  <2>5. UNCHANGED vars \/ TakeBackup => UNCHANGED <<disk, path>>
    BY DEF vars, TakeBackup
  <2>6. QED BY <1>1, <2>3, <2>4, <2>5 DEF Next
<1>2. ASSUME IInv, NEW p \in Proc, NamesAreDurable, ~(setup.powerCuts /\ setup.rollbacks),
             rolledBack # "accepted", ~overlap, ReadFile(p, floor)
      PROVE  owed \subseteq ToSet(mem'[p].tail)
  <2>1. TypeOK /\ OwedIsSafe /\ BackupOK
    BY <1>2 DEF IInv, CalmInv
  <2>2. /\ path # None /\ disk[path].cur.counter >= floor
        /\ mem'[p].tail = disk[path].cur.tail
    BY <1>2, <2>1 DEF ReadFile, NoFile, TypeOK
  <2>3. CASE rolledBack = "no"
    BY <1>2, <2>1, <2>2, <2>3 DEF OwedIsSafe
  <2>4. CASE rolledBack = "yes"
    <3>1. CopyIsNoOlder /\ backup.whole /\ disk[path].cur = backup
      BY <1>2, <2>1, <2>2, <2>4 DEF BackupOK, Comparable
    <3>2. QED BY <2>2, <3>1 DEF CopyIsNoOlder
  <2>5. QED BY <1>2, <2>1, <2>3, <2>4 DEF TypeOK
<1>3. IInv /\ [Next]_vars =>
        [ /\ ~overlap' /\ ~PowerCut /\ ~RollBack /\ path # None /\ path' # None
               => disk'[path'].cur.counter >= disk[path].cur.counter
          /\ \A p \in Proc :
               /\ NamesAreDurable /\ ~(setup.powerCuts /\ setup.rollbacks)
               /\ rolledBack # "accepted" /\ ~overlap /\ ReadFile(p, floor)
               => owed \subseteq ToSet(mem'[p].tail) ]_vars
  BY <1>1, <1>2
<1>4. QED BY <1>3, FileInvariant, PTL DEF Spec, CounterTellsTheAge

---------------------------------------------------------------------------
(***************************************************************************)
(* The file implements a log of records                                    *)
(***************************************************************************)

\* A file that one process writes is calm.
LEMMA PromisedIsCalm ==
  ASSUME IInv, Promised
  PROVE  /\ TypeOK /\ CalmInv /\ NothingIsInvented
         /\ NamesAreDurable /\ rolledBack = "no" /\ ~setup.rollbacks
BY DEF IInv, Promised, LoneIsCalm, NobodyMeddles

\* What the log is while it is promised.
LEMMA TheLog ==
  ASSUME IInv, Promised
  PROVE  /\ Authenticated \in Seq(Record)
         /\ ToSet(Authenticated) \subseteq committed
         /\ owed \subseteq ToSet(Authenticated)
<1>1. /\ TypeOK /\ OwedIsSafe /\ NothingIsInvented
      /\ NamesAreDurable /\ rolledBack = "no"
  BY PromisedIsCalm DEF CalmInv
<1>2. CASE path = None
  <2>1. Authenticated = <<>> /\ <<>> \in Seq(Record) /\ owed = {}
    BY <1>1, <1>2 DEF Authenticated, OwedIsSafe
  <2>2. QED BY <2>1, ToSetType
<1>3. CASE path # None
  <2>1. path \in Inode /\ Authenticated = disk[path].cur.tail
    BY <1>1, <1>3 DEF Authenticated, TypeOK
  <2>2. QED BY <1>1, <1>3, <2>1, Typed DEF OwedIsSafe, NothingIsInvented, OnlyCommitted
<1>4. QED BY <1>2, <1>3

\* file.rs and compaction.rs implement RecordLog: writing the header is what commits a
\* record, the second flush comes before the answer, and a compaction, a crash or a
\* power cut replaces the log by one that has what is owed.
THEOREM FileImplementsRecordLog == Spec => ImplementsRecordLog
<1> DEFINE alog == Authenticated
           acommitted == IF Promised THEN committed ELSE {}
           aowed == IF Promised THEN owed ELSE {}
<1>1. Init => Log!Init
  BY DEF Init, Log!Init, Authenticated
<1>2. ASSUME IInv, IInv', [Next]_vars
      PROVE  [Log!Next]_<<alog, acommitted, aowed>>
  <2>0. setup' = setup
    BY <1>2 DEF Next, vars
  <2>1. Promised' <=> Promised
    BY <2>0 DEF Promised, NamesAreDurable
  <2>2. CASE ~Promised
    BY <2>1, <2>2 DEF Authenticated
  <2>3. CASE Promised
    <3>1. /\ TypeOK /\ CalmInv /\ NamesAreDurable /\ rolledBack = "no" /\ ~setup.rollbacks
      BY <1>2, <2>3, PromisedIsCalm
    <3>2. /\ alog' \in Seq(Record) /\ ToSet(alog') \subseteq committed'
          /\ owed' \subseteq ToSet(alog')
      <4>1. (Authenticated \in Seq(Record) /\ ToSet(Authenticated) \subseteq committed
             /\ owed \subseteq ToSet(Authenticated))'
        BY <1>2, <2>1, <2>3, TheLog, PTL
      <4>2. QED BY <4>1
    <3>3. /\ acommitted = committed /\ acommitted' = committed'
          /\ aowed = owed /\ aowed' = owed'
      BY <2>1, <2>3
    <3>4. ASSUME committed' = committed, owed' = owed PROVE Log!Rewrite
      BY <3>2, <3>3, <3>4 DEF Log!Rewrite, ToSet, Log!ToSet
    <3>5. ASSUME NEW p \in Proc, WriteHeader(p) PROVE Log!Next
      <4>1. /\ path' = path /\ path # None
            /\ disk'[path].cur.tail = Append(disk[path].cur.tail, op[p].rec)
        BY <3>1, <3>5, HeaderAppends, VaultFileAssumption
      <4>2. alog' = Append(alog, op[p].rec)
        BY <4>1, <2>1, <2>3 DEF Authenticated
      <4>3. op[p].rec \in Record
        BY <3>1, <3>5 DEF WriteHeader, TypeOK, InHand, Appending
      <4>4. committed' = committed \cup {op[p].rec} /\ owed' = owed
        BY <3>5 DEF WriteHeader
      <4>5. Log!Commit(op[p].rec)
        BY <4>2, <4>4, <3>3 DEF Log!Commit
      <4>6. QED BY <4>3, <4>5 DEF Log!Next
    <3>6. ASSUME NEW p \in Proc, SyncHeader(p), Step(p) PROVE Log!Next
      <4>1. /\ path # None /\ op[p].at = "committed"
            /\ disk[path].cur.tail = Append(mem[p].tail, op[p].rec)
            /\ op[p].rec \in Record /\ mem[p].tail \in Seq(Record)
        BY <3>1, <3>6, Typed, VaultFileAssumption
           DEF SyncHeader, CalmInv, StageOK, TypeOK, InHand, Appending
      <4>2. path' = path /\ disk'[path].cur.tail = disk[path].cur.tail
        BY <4>1, <3>1, <3>6, PathStep
      <4>3. alog' = alog /\ op[p].rec \in ToSet(alog)
        BY <4>1, <4>2, <2>1, <2>3, ToSetAppend DEF Authenticated
      <4>4. committed' = committed /\ owed' = owed \cup {op[p].rec}
        BY <3>6 DEF SyncHeader
      <4>5. Log!Acknowledge(op[p].rec)
        BY <4>3, <4>4, <3>3 DEF Log!Acknowledge, ToSet, Log!ToSet
      <4>6. QED BY <4>1, <4>5 DEF Log!Next
    <3>7. ASSUME NEW p \in Proc, NEW keep, NEW frames, BeginCompact(p, keep, frames), Step(p)
          PROVE  Log!Next
      <4>1. /\ op[p].at = "idle" /\ path' = path /\ owed' \subseteq owed
            /\ committed' = committed
        BY <3>7 DEF BeginCompact
      <4>2. path # None => disk'[path].cur.tail = disk[path].cur.tail
        BY <4>1, <3>1, <3>7, PathStep
      <4>3. alog' = alog
        BY <4>1, <4>2, <2>1, <2>3 DEF Authenticated
      <4>4. Log!Expire
        BY <4>1, <4>3, <3>3 DEF Log!Expire
      <4>5. QED BY <4>4 DEF Log!Next
    <3>8. ASSUME NEW p \in setup.procs, Step(p) \/ Kill(p) PROVE Log!Next
      <4>1. p \in Proc
        BY <3>1, <3>8, VaultFileAssumption DEF TypeOK
      <4>2. \/ committed' = committed /\ owed' = owed
            \/ Step(p) /\ (WriteHeader(p) \/ SyncHeader(p)
                           \/ \E keep, frames : BeginCompact(p, keep, frames))
        <5> DEFINE Quiet == committed' = committed /\ owed' = owed
        <5>1. ASSUME NEW known, CreateFile(p, known) \/ ReadFile(p, known) \/ RefuseOpen(p, known)
              PROVE  Quiet
          <6>1. CreateFile(p, known) => Quiet
            BY Zenon DEF CreateFile
          <6>2. ReadFile(p, known) \/ RefuseOpen(p, known) => Quiet
            BY DEF ReadFile, RefuseOpen, observed
          <6>3. QED BY <5>1, <6>1, <6>2
        <5>2. ASSUME NEW r, BeginAppend(p, r) PROVE Quiet
          BY <5>2 DEF BeginAppend
        <5>3. CreateHeader(p) \/ OpenHandle(p) \/ FailOpen(p) \/ RefuseAppend(p) => Quiet
          BY DEF CreateHeader, OpenHandle, FailOpen, RefuseAppend, observed
        <5>4. WriteFrame(p) \/ SyncFrame(p) \/ FailAppend(p) => Quiet
          BY DEF WriteFrame, SyncFrame, FailAppend, observed
        <5>5. WriteCandidate(p) \/ ConfirmSwap(p) \/ AbandonSwap(p) \/ FailCandidate(p)
                \/ Swap(p) \/ Kill(p) => Quiet
          BY DEF WriteCandidate, ConfirmSwap, AbandonSwap, FailCandidate, Swap, Kill, observed
        <5> HIDE DEF Quiet
        <5>6. Quiet \/ WriteHeader(p) \/ SyncHeader(p)
                \/ \E keep, frames : BeginCompact(p, keep, frames)
          BY <3>8, <5>1, <5>2, <5>3, <5>4, <5>5 DEF Step
        <5>7. Quiet \/ Step(p)
          BY <3>8, <5>5
        <5>8. QED BY <5>6, <5>7 DEF Quiet
      <4>3. QED BY <4>1, <4>2, <3>4, <3>5, <3>6, <3>7 DEF Log!Next
    <3>9. PowerCut \/ TakeBackup \/ RollBack \/ UNCHANGED vars
            => committed' = committed /\ owed' = owed
      BY DEF PowerCut, TakeBackup, RollBack, vars, observed
    <3>10. QED BY <1>2, <3>4, <3>8, <3>9 DEF Next, Log!Next
  <2>4. QED BY <2>2, <2>3
<1>3. QED BY <1>1, <1>2, FileInvariant, PTL DEF Spec, ImplementsRecordLog, Log!Spec
=============================================================================
