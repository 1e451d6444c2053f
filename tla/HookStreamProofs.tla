-------------------------- MODULE HookStreamProofs --------------------------
(***************************************************************************)
(* Proofs about HookStream: the hook implements EventChannel, its count    *)
(* misses no loss but in two races, and what a collector says of a process *)
(* that had ended is backed by what it read.                               *)
(*                                                                         *)
(* The argument follows a call through the hook.  The ring always holds    *)
(* the last calls, one after another (RingInv), so a batch taken from its  *)
(* head is older than all that is left in it, and a call is at one place   *)
(* only (BatchInv, DeliveredInv).  A call that left the hook without       *)
(* becoming a line of its own is paid for by the drop count, by one of the *)
(* losses the count missed, or by a torn line (AccountInv); a torn line    *)
(* that is still the last one pays for the call that will run into it.     *)
(***************************************************************************)
EXTENDS HookStream, FiniteSetTheorems, SequenceTheorems, TLAPS

(***************************************************************************)
(* The inductive invariant                                                 *)
(***************************************************************************)

Events == Nat \ {0}
Lives == {"new", "declared", "active", "disowned", "closing", "over", "killed"}
Busy == {"take", "write", "written", "failed", "status", "fill", "stated"}
Places == {"off", "idle", "done", "put", "join"} \cup Busy
Statuses == [is : {"status"}, active : BOOLEAN, dropped : Nat, until : Events]
ThreadType ==
  [at : Places, batch : Seq(Events), base : Nat, full : BOOLEAN,
   doc : Statuses \cup {Absent}]

CountsType == [dropped : Nat, written : Nat, missed : Int]

TypeInv ==
  /\ setup \in Setups
  /\ life \in Lives
  /\ calls \in Nat
  /\ ring \in Seq(Events)
  /\ thread \in [Drains \cup setup.callers -> ThreadType]
  /\ counts \in CountsType
  /\ stream \in [lines : Seq(Nat), cut : BOOLEAN]
  /\ sidecar \in Statuses \cup {Absent, Blank}
  /\ reader \in [at : {"none", "stream", "sidecar", "done"}, late : BOOLEAN,
                 listed : SUBSET {"stream", "sidecar"}, got : SUBSET Events,
                 dropped : Nat, windows : Seq(Int)]

\* A process whose close may drain beside another thread: one it gave up on, or one
\* that a daemon has just started.
Slow == Python /\ (Faulty("slow") \/ Faulty("daemon"))

\* Which threads can be where.
ControlInv ==
  /\ \A c \in setup.callers :
       /\ thread[c].at \in {"off", "put"}
       /\ thread[c].at = "put" => Python /\ (life = "active" \/ Faulty("daemon"))
  /\ thread["drain"].at \notin {"put", "join"}
  /\ thread["close"].at \notin {"put", "idle", "done"}
  /\ thread["close"].at = "join" => Python
  /\ life \in {"new", "active", "over"} => thread["close"].at = "off"
  /\ life \in {"declared", "disowned"} =>
       /\ thread["close"].at \in {"off", "status", "fill", "stated"}
       /\ ~Python => thread["close"].at = "off"
  /\ life \in {"new", "declared", "disowned"} => thread["drain"].at = "off"
  /\ life = "closing" => thread["close"].at # "off"
  /\ thread["drain"].at = "done" => life \in {"closing", "over"}
  /\ ~Python /\ life = "closing" => thread["drain"].at = "done"
  /\ ~Slow /\ (thread["close"].at \in Busy \/ life = "over")
       => thread["drain"].at \in {"off", "done"}

\* The ring holds the last calls in order.
InOrder(r, n) == Len(r) <= n /\ \A i \in 1 .. Len(r) : r[i] = n - Len(r) + i
RingInv ==
  /\ InOrder(ring, calls)
  /\ life \in {"new", "declared", "disowned"} => calls = 0
  /\ calls + Arriving <= MaxCalls

\* A batch is older than the ring (Python) or is the ring (Node), and nothing of it
\* has been delivered before it is written.
Rising(s) == \A i, j \in 1 .. Len(s) : i < j => s[i] < s[j]
BatchInv ==
  /\ \A t \in Drains :
       /\ Rising(thread[t].batch)
       /\ Python => ToSet(thread[t].batch) \subseteq 1 .. calls - Len(ring)
       /\ ~Python => thread[t].batch = IF thread[t].at \in {"write", "written", "failed"}
                                       THEN ring ELSE <<>>
       /\ thread[t].at \notin {"take", "write", "written", "failed"}
            => thread[t].batch = <<>>
       /\ thread[t].at \in {"write", "written", "failed"} => thread[t].batch # <<>>
       /\ thread[t].at \in {"take", "write"}
            => ToSet(thread[t].batch) \cap Delivered = {}
  /\ Python => ToSet(thread["drain"].batch) \cap ToSet(thread["close"].batch) = {}

DeliveredInv ==
  /\ Delivered \subseteq 1 .. calls
  /\ Python \/ (\A t \in Drains : thread[t].at \notin {"written", "failed"})
       => Delivered \subseteq 1 .. calls - Len(ring)
  /\ life \in {"new", "declared", "disowned"} => stream.lines = <<>>

\* Where every loss is counted, what a submit saw of the ring is not too old, and what
\* a failed append read of the count is not old.
CountInv ==
  /\ \A t \in Drains : thread[t].at = "failed" => Faulty("append")
  /\ CountsEveryLoss(setup) =>
       /\ counts.missed = 0
       /\ \A c \in setup.callers : thread[c].at = "put" =>
            /\ thread[c].full \/ Len(ring) < setup.capacity
            /\ MaxCalls <= setup.capacity => ~thread[c].full
       /\ \A t \in Drains : thread[t].at = "failed" => thread[t].base = counts.dropped

\* Calls the hook no longer has, and those it wrote into a torn line.
Held == ToSet(ring) \cup UNION {ToSet(thread[t].batch) : t \in Drains}
Lost == (1 .. calls) \ (Held \cup Delivered)
Owing == UNION {ToSet(thread[t].batch) \ Delivered :
                  t \in {d \in Drains : thread[d].at = "written"}}
Losses == counts.dropped + counts.missed
AccountInv ==
  Cardinality(Lost \cup Owing) + (IF stream.cut THEN 1 ELSE 0) <= Losses + TornLines

\* What a status document of a Node process says is true of the stream beside it.
Backed(doc) ==
  doc.is = "status" =>
    Cardinality((1 .. doc.until - 1) \ Delivered) <= doc.dropped + counts.missed + TornLines

\* Where the status documents come from.
DocumentInv ==
  /\ ~Slow /\ (life = "over" \/ (/\ life = "closing"
                                 /\ thread["close"].at \in {"status", "fill", "stated"}))
       => ring = <<>>
  /\ Python /\ ~Slow /\ life = "closing"
       /\ thread["close"].at \in {"write", "written", "failed"} => ring = <<>>
  /\ ~Python /\ (\E t \in Drains : thread[t].at \in {"status", "fill", "stated"})
       => ring = <<>>
  /\ ~Python => \A t \in Drains : Backed(thread[t].doc)
  /\ ~Python /\ life \in {"new", "declared", "disowned"} => sidecar = Absent
  /\ ~Slow /\ life = "closing" /\ thread["close"].at = "fill"
       => thread["close"].doc = Document
  /\ ~Slow /\ ~Faulty("status")
       /\ (life = "over" \/ (life = "closing" /\ thread["close"].at = "stated"))
       => sidecar = Document
  /\ Python /\ life = "disowned" /\ thread["close"].at = "fill"
       => thread["close"].doc.is = "status" /\ ~thread["close"].doc.active
  /\ Python /\ life = "disowned" /\ thread["close"].at \in {"stated", "off"}
       /\ ~Faulty("status") => sidecar.is = "status" /\ ~sidecar.active
  /\ \A t \in Drains : thread[t].at = "fill" => thread[t].doc # Absent

\* What a reader that came after the end has read is what the files say, but beside a
\* thread that close did not wait for.
Said == Accounted(sidecar)
Unwritten == ~Slow \/ life = "disowned"
ReaderInv ==
  /\ reader.at = "none" => ~reader.late
  /\ reader.at \in {"none", "stream"} =>
       reader.got = {} /\ reader.dropped = 0 /\ reader.windows = <<>>
  /\ "sidecar" \in reader.listed => sidecar # Absent
  /\ reader.late =>
       /\ life \in {"over", "killed"} \/ (life = "disowned" /\ thread["close"].at = "off")
       /\ reader.listed = Exists
  /\ reader.late /\ Unwritten /\ reader.at \in {"sidecar", "done"} =>
       /\ reader.got = Delivered
       /\ reader.dropped =
            TornLines + IF reader.at = "done" /\ sidecar # Absent THEN Said.dropped ELSE 0
       /\ reader.windows =
            IF sidecar = Absent
            THEN IF stream.lines = <<>> THEN <<>> ELSE <<Unmeasured>>
            ELSE IF reader.at = "done" THEN <<Said.window>> ELSE <<>>

\* Nothing is asked of the threads of a process that was killed.
RunInv ==
  life # "killed" =>
    ControlInv /\ RingInv /\ BatchInv /\ DeliveredInv /\ CountInv /\ AccountInv /\ DocumentInv

IInv ==
  TypeInv /\ RunInv /\ (~Python => Backed(sidecar)) /\ ReaderInv /\ OnlyRacesGoUncounted

(***************************************************************************)
(* Sequences and counting                                                  *)
(***************************************************************************)

WholeOf(lines) == ToSet(lines) \ {Torn}
TornOf(lines) == Cardinality({k \in 1 .. Len(lines) : lines[k] = Torn})

\* The members of a sequence by their places.
LEMMA MembersOf ==
  ASSUME NEW S, NEW s \in Seq(S)
  PROVE  /\ \A e : e \in ToSet(s) <=> \E i \in 1 .. Len(s) : e = s[i]
         /\ ToSet(s) \subseteq S
         /\ s = <<>> => ToSet(s) = {}
         /\ s # <<>> => Len(s) \in Nat \ {0} /\ s[1] \in ToSet(s)
<1>1. Len(s) \in Nat /\ s \in [1 .. Len(s) -> S] /\ DOMAIN s = 1 .. Len(s)
  BY LenProperties, Zenon
<1>2. \A e : e \in ToSet(s) <=> \E i \in 1 .. Len(s) : e = s[i]
  BY <1>1 DEF ToSet
<1>3. ToSet(s) \subseteq S
  BY <1>1, <1>2
<1>4. s = <<>> => ToSet(s) = {}
  BY <1>2
<1>5. ASSUME s # <<>> PROVE Len(s) \in Nat \ {0} /\ s[1] \in ToSet(s)
  <2>1. Len(s) \in Nat \ {0}
    BY <1>5, EmptySeq, Zenon
  <2>2. QED BY <1>2, <2>1
<1>6. QED BY <1>2, <1>3, <1>4, <1>5

LEMMA MembersOfConcat ==
  ASSUME NEW S, NEW s \in Seq(S), NEW t \in Seq(S)
  PROVE  ToSet(s \o t) = ToSet(s) \cup ToSet(t)
<1> DEFINE u == s \o t
<1>1. /\ u \in Seq(S) /\ Len(u) = Len(s) + Len(t)
      /\ \A i \in 1 .. Len(s) + Len(t) : u[i] = IF i <= Len(s) THEN s[i] ELSE t[i - Len(s)]
  BY ConcatProperties, Zenon
<1>2. Len(s) \in Nat /\ Len(t) \in Nat
  BY LenProperties, Zenon
<1> HIDE DEF u
<1>3. /\ \A e : e \in ToSet(s) <=> \E i \in 1 .. Len(s) : e = s[i]
      /\ \A e : e \in ToSet(t) <=> \E i \in 1 .. Len(t) : e = t[i]
      /\ \A e : e \in ToSet(u) <=> \E i \in 1 .. Len(u) : e = u[i]
  BY <1>1, MembersOf, Zenon
<1>4. ASSUME NEW e \in ToSet(u) PROVE e \in ToSet(s) \cup ToSet(t)
  <2>1. PICK i \in 1 .. Len(u) : e = u[i]
    BY <1>3, <1>4
  <2>2. CASE i <= Len(s)
    BY <1>1, <1>2, <1>3, <2>1, <2>2
  <2>3. CASE ~(i <= Len(s))
    <3>1. i - Len(s) \in 1 .. Len(t) /\ e = t[i - Len(s)]
      BY <1>1, <1>2, <2>1, <2>3
    <3>2. QED BY <3>1, <1>3
  <2>4. QED BY <2>2, <2>3
<1>5. ASSUME NEW e \in ToSet(s) PROVE e \in ToSet(u)
  <2>1. PICK i \in 1 .. Len(s) : e = s[i]
    BY <1>3, <1>5
  <2>2. i \in 1 .. Len(u) /\ u[i] = e
    BY <1>1, <1>2, <2>1
  <2>3. QED BY <2>2, <1>3
<1>6. ASSUME NEW e \in ToSet(t) PROVE e \in ToSet(u)
  <2>1. PICK i \in 1 .. Len(t) : e = t[i]
    BY <1>3, <1>6
  <2> DEFINE j == Len(s) + i
  <2>2. j \in 1 .. Len(s) + Len(t) /\ ~(j <= Len(s)) /\ j - Len(s) = i
    BY <1>2, <2>1
  <2>3. j \in 1 .. Len(u) /\ u[j] = e
    BY <1>1, <2>1, <2>2
  <2>4. QED BY <2>3, <1>3
<1>7. QED BY <1>4, <1>5, <1>6 DEF u

\* A rising sequence has as many members as places, any sequence at most as many.
LEMMA MembersAreFew ==
  ASSUME NEW s \in Seq(Events)
  PROVE  /\ IsFiniteSet(ToSet(s)) /\ Cardinality(ToSet(s)) <= Len(s)
         /\ Rising(s) => Cardinality(ToSet(s)) = Len(s)
<1>1. Len(s) \in Nat /\ s \in [1 .. Len(s) -> Events]
  BY LenProperties, Zenon
<1>2. \A e : e \in ToSet(s) <=> \E i \in 1 .. Len(s) : e = s[i]
  BY MembersOf, Zenon
<1>3. s \in Surjection(1 .. Len(s), ToSet(s))
  BY <1>1, <1>2 DEF Surjection
<1>4. IsFiniteSet(1 .. Len(s)) /\ Cardinality(1 .. Len(s)) = Len(s)
  <2>1. IsFiniteSet(1 .. Len(s)) /\ Cardinality(1 .. Len(s)) = IF 1 > Len(s) THEN 0 ELSE Len(s) - 1 + 1
    BY <1>1, FS_Interval
  <2>2. QED BY <1>1, <2>1
<1>5. IsFiniteSet(ToSet(s)) /\ Cardinality(ToSet(s)) <= Cardinality(1 .. Len(s))
      /\ (Cardinality(ToSet(s)) = Cardinality(1 .. Len(s)) <=> s \in Injection(1 .. Len(s), ToSet(s)))
  BY <1>3, <1>4, FS_Surjection, Zenon
<1>6. ASSUME Rising(s) PROVE s \in Injection(1 .. Len(s), ToSet(s))
  <2>1. ASSUME NEW i \in 1 .. Len(s), NEW j \in 1 .. Len(s), s[i] = s[j] PROVE i = j
    <3>1. s[i] \in Nat /\ s[j] \in Nat
      BY <1>1 DEF Events
    <3>2. ~(i < j) /\ ~(j < i)
      BY <1>6, <2>1, <3>1 DEF Rising
    <3>3. QED BY <1>1, <3>2
  <2>2. s \in [1 .. Len(s) -> ToSet(s)]
    BY <1>3 DEF Surjection
  <2>3. QED BY <2>1, <2>2 DEF Injection, IsInjective
<1>7. QED BY <1>4, <1>5, <1>6

\* A piece of a batch from its n-th place is a rising sequence of its members.
LEMMA PieceOf ==
  ASSUME NEW s \in Seq(Events), Rising(s), NEW m \in {1, 2}, NEW n \in 0 .. Len(s)
  PROVE  /\ SubSeq(s, m, n) \in Seq(Events) /\ Rising(SubSeq(s, m, n))
         /\ ToSet(SubSeq(s, m, n)) \subseteq ToSet(s)
         /\ n = Len(s) => ToSet(s) \ ToSet(SubSeq(s, m, n)) \subseteq IF m = 1 THEN {} ELSE {s[1]}
<1> DEFINE p == SubSeq(s, m, n)
<1>1. Len(s) \in Nat /\ s \in [1 .. Len(s) -> Events]
  BY LenProperties, Zenon
<1>2. /\ p \in Seq(Events) /\ Len(p) = (IF m <= n THEN n - m + 1 ELSE 0)
      /\ \A i \in 1 .. n - m + 1 : p[i] = s[m + i - 1]
  <2>1. m \in Int /\ n \in Int /\ \A i \in m .. n : s[i] \in Events
    BY <1>1
  <2>2. QED BY <2>1, SubSeqProperties, SMTT(30)
<1> HIDE DEF p
<1>3. ASSUME NEW i \in 1 .. Len(p) PROVE m + i - 1 \in 1 .. Len(s) /\ p[i] = s[m + i - 1]
  BY <1>1, <1>2
<1>4. /\ \A e : e \in ToSet(s) <=> \E i \in 1 .. Len(s) : e = s[i]
      /\ \A e : e \in ToSet(p) <=> \E i \in 1 .. Len(p) : e = p[i]
  BY <1>2, MembersOf, Zenon
<1>5. Rising(p)
  <2> SUFFICES ASSUME NEW i \in 1 .. Len(p), NEW j \in 1 .. Len(p), i < j PROVE p[i] < p[j]
    BY DEF Rising
  <2>1. m + i - 1 \in 1 .. Len(s) /\ m + j - 1 \in 1 .. Len(s) /\ m + i - 1 < m + j - 1
    BY <1>3
  <2>2. s[m + i - 1] < s[m + j - 1]
    BY <2>1 DEF Rising
  <2>3. QED BY <1>3, <2>2
<1>6. ToSet(p) \subseteq ToSet(s)
  BY <1>3, <1>4
<1>7. ASSUME n = Len(s), NEW e \in ToSet(s) \ ToSet(p) PROVE e \in IF m = 1 THEN {} ELSE {s[1]}
  <2>1. PICK i \in 1 .. Len(s) : e = s[i]
    BY <1>4, <1>7
  <2>2. ASSUME m <= i PROVE FALSE
    <3> DEFINE j == i - m + 1
    <3>1. j \in 1 .. n - m + 1 /\ m + j - 1 = i /\ m <= n
      BY <1>1, <1>7, <2>1, <2>2
    <3>2. j \in 1 .. Len(p) /\ p[j] = e
      BY <1>2, <3>1, <2>1
    <3>3. QED BY <1>4, <1>7, <3>2
  <2>3. m = 2 /\ i = 1
    BY <1>1, <2>1, <2>2
  <2>4. QED BY <2>1, <2>3
<1>8. QED BY <1>2, <1>5, <1>6, <1>7 DEF p

(***************************************************************************)
(* What an append does to the stream                                       *)
(***************************************************************************)

\* Whole lines added: they are delivered, and no torn line comes or goes.
LEMMA WholeLinesAdded ==
  ASSUME NEW lines \in Seq(Nat), NEW more \in Seq(Events)
  PROVE  /\ lines \o more \in Seq(Nat) /\ Len(lines \o more) = Len(lines) + Len(more)
         /\ WholeOf(lines \o more) = WholeOf(lines) \cup ToSet(more)
         /\ TornOf(lines \o more) = TornOf(lines)
<1> DEFINE all == lines \o more
<1>1. more \in Seq(Nat)
  BY SeqMonotonic, Zenon DEF Events
<1>2. /\ all \in Seq(Nat) /\ Len(all) = Len(lines) + Len(more)
      /\ \A i \in 1 .. Len(lines) + Len(more) :
           all[i] = IF i <= Len(lines) THEN lines[i] ELSE more[i - Len(lines)]
  BY <1>1, ConcatProperties, Zenon
<1>3. ToSet(all) = ToSet(lines) \cup ToSet(more)
  BY <1>1, MembersOfConcat
<1>4. Torn \notin ToSet(more)
  <2>1. ToSet(more) \subseteq Events
    BY MembersOf, Zenon
  <2>2. QED BY <2>1 DEF Events, Torn
<1>5. Len(lines) \in Nat /\ Len(more) \in Nat /\ more \in [1 .. Len(more) -> Events]
  BY LenProperties, Zenon
<1> HIDE DEF all
<1>6. ASSUME NEW k \in 1 .. Len(all)
      PROVE  all[k] = Torn <=> k \in 1 .. Len(lines) /\ lines[k] = Torn
  <2>1. CASE k <= Len(lines)
    BY <1>2, <1>5, <2>1
  <2>2. CASE ~(k <= Len(lines))
    <3>1. k - Len(lines) \in 1 .. Len(more) /\ all[k] = more[k - Len(lines)]
      BY <1>2, <1>5, <2>2
    <3>2. QED BY <1>5, <3>1, <2>2 DEF Events, Torn
  <2>3. QED BY <2>1, <2>2
<1>7. {k \in 1 .. Len(all) : all[k] = Torn} = {k \in 1 .. Len(lines) : lines[k] = Torn}
  <2>1. \A k \in 1 .. Len(lines) : k \in 1 .. Len(all)
    BY <1>2, <1>5
  <2>2. QED BY <1>6, <2>1
<1>8. QED BY <1>2, <1>3, <1>4, <1>7 DEF all, WholeOf, TornOf

\* The lines that are torn are finitely many.
LEMMA TornIsNatural ==
  ASSUME NEW lines \in Seq(Nat)
  PROVE  TornOf(lines) \in Nat /\ IsFiniteSet({k \in 1 .. Len(lines) : lines[k] = Torn})
<1>1. Len(lines) \in Nat
  BY LenProperties, Zenon
<1>2. IsFiniteSet(1 .. Len(lines))
  BY <1>1, FS_Interval
<1>3. {k \in 1 .. Len(lines) : lines[k] = Torn} \in SUBSET (1 .. Len(lines))
  OBVIOUS
<1>4. IsFiniteSet({k \in 1 .. Len(lines) : lines[k] = Torn})
  BY <1>2, <1>3, FS_Subset, Zenon
<1>5. QED BY <1>4, FS_CardinalityType, Zenon DEF TornOf

\* A piece of a line added: one more torn line, and nothing delivered.
LEMMA TornLineAdded ==
  ASSUME NEW lines \in Seq(Nat)
  PROVE  /\ Append(lines, Torn) \in Seq(Nat) /\ Len(Append(lines, Torn)) = Len(lines) + 1
         /\ WholeOf(Append(lines, Torn)) = WholeOf(lines)
         /\ TornOf(Append(lines, Torn)) = TornOf(lines) + 1
<1> DEFINE all == Append(lines, Torn)
           torn == {k \in 1 .. Len(lines) : lines[k] = Torn}
<1>1. Torn \in Nat
  BY DEF Torn
<1>2. /\ all \in Seq(Nat) /\ Len(all) = Len(lines) + 1 /\ all[Len(lines) + 1] = Torn
      /\ \A i \in 1 .. Len(lines) : all[i] = lines[i]
  BY <1>1, AppendProperties
<1>3. Len(lines) \in Nat
  BY LenProperties, Zenon
<1> HIDE DEF all
<1>4. \A e : /\ e \in ToSet(lines) <=> \E i \in 1 .. Len(lines) : e = lines[i]
             /\ e \in ToSet(all) <=> \E i \in 1 .. Len(all) : e = all[i]
  BY <1>2, MembersOf, Zenon
<1>5. 1 .. Len(all) = (1 .. Len(lines)) \cup {Len(lines) + 1}
  BY <1>2, <1>3
<1>6. WholeOf(all) = WholeOf(lines)
  BY <1>2, <1>4, <1>5, SMTT(30) DEF WholeOf
<1>7. {k \in 1 .. Len(all) : all[k] = Torn} = torn \cup {Len(lines) + 1}
  BY <1>2, <1>5
<1>8. Len(lines) + 1 \notin torn
  BY <1>3
<1>9. Cardinality(torn \cup {Len(lines) + 1}) = Cardinality(torn) + 1
  <2>1. IsFiniteSet(torn)
    BY TornIsNatural, Zenon
  <2> HIDE DEF torn
  <2>2. QED BY <1>8, <2>1, FS_AddElement
<1>10. TornOf(all) = TornOf(lines) + 1
  BY <1>7, <1>9 DEF TornOf
<1>11. QED BY <1>2, <1>6, <1>10 DEF all

StreamType == [lines : Seq(Nat), cut : BOOLEAN]
\* How a stream grows by a part of a batch and a number of torn lines.
Grew(old, new, got, torn) ==
  /\ WholeOf(new.lines) = WholeOf(old.lines) \cup got
  /\ TornOf(new.lines) = TornOf(old.lines) + torn
  /\ Len(new.lines) = Len(old.lines) + Cardinality(got) + torn

\* An append that works delivers the batch, but for a first line that ran into a
\* torn one.
LEMMA WhatExtendedDoes ==
  ASSUME NEW s \in StreamType, NEW batch \in Seq(Events), Rising(batch), batch # <<>>
  PROVE  /\ Extended(s, batch) \in StreamType /\ ~Extended(s, batch).cut
         /\ \E got \in SUBSET ToSet(batch) :
              /\ Grew(s, Extended(s, batch), got, 0)
              /\ ToSet(batch) \ got \subseteq IF s.cut THEN {batch[1]} ELSE {}
<1> DEFINE m == IF s.cut THEN 2 ELSE 1
           piece == SubSeq(batch, m, Len(batch))
           new == [lines |-> s.lines \o piece, cut |-> FALSE]
<1>1. Len(batch) \in Nat \ {0}
  BY EmptySeq, Zenon
<1>2. Tail(batch) = SubSeq(batch, 2, Len(batch)) /\ batch = SubSeq(batch, 1, Len(batch))
  BY TailIsSubSeq, SubSeqFull, Zenon
<1>3. Extended(s, batch) = new
  <2>1. CASE s.cut
    BY <1>2, <2>1 DEF Extended
  <2>2. CASE ~s.cut
    BY <1>2, <2>2 DEF Extended
  <2>3. QED BY <2>1, <2>2
<1>4. m \in {1, 2} /\ Len(batch) \in 0 .. Len(batch) /\ (m = 1 <=> ~s.cut)
  BY <1>1
<1>5. s.lines \in Seq(Nat) /\ s.cut \in BOOLEAN
  BY DEF StreamType
<1> HIDE DEF m
<1>6. /\ piece \in Seq(Events) /\ Rising(piece) /\ ToSet(piece) \subseteq ToSet(batch)
      /\ ToSet(batch) \ ToSet(piece) \subseteq IF m = 1 THEN {} ELSE {batch[1]}
  BY <1>4, PieceOf, Zenon
<1> HIDE DEF piece
<1>7. /\ s.lines \o piece \in Seq(Nat) /\ Len(s.lines \o piece) = Len(s.lines) + Len(piece)
      /\ WholeOf(s.lines \o piece) = WholeOf(s.lines) \cup ToSet(piece)
      /\ TornOf(s.lines \o piece) = TornOf(s.lines)
  BY <1>5, <1>6, WholeLinesAdded, Zenon
<1>8. Cardinality(ToSet(piece)) = Len(piece)
  BY <1>6, MembersAreFew, Zenon
<1>9. new \in StreamType /\ ~new.cut /\ new.lines = s.lines \o piece
  BY <1>7 DEF StreamType
<1> HIDE DEF new
<1>10. Grew(s, new, ToSet(piece), 0)
  <2>1. Len(new.lines) = Len(s.lines) + Cardinality(ToSet(piece)) + 0
    <3>1. Len(s.lines) \in Nat /\ Len(piece) \in Nat
      BY <1>5, <1>6, LenProperties, Zenon
    <3>2. QED BY <3>1, <1>7, <1>8, <1>9
  <2>2. TornOf(new.lines) = TornOf(s.lines) + 0
    <3>1. TornOf(s.lines) \in Nat
      BY <1>5, TornIsNatural, Zenon
    <3>2. QED BY <3>1, <1>7, <1>9
  <2>3. QED BY <1>7, <1>9, <2>1, <2>2 DEF Grew
<1>11. ToSet(batch) \ ToSet(piece) \subseteq IF s.cut THEN {batch[1]} ELSE {}
  BY <1>4, <1>6
<1>12. QED BY <1>3, <1>6, <1>9, <1>10, <1>11

\* An append that stops half way leaves the file as it was, or delivers some of the
\* batch and may tear one line.
LEMMA WhatHalvesDo ==
  ASSUME NEW s \in StreamType, NEW batch \in Seq(Events), Rising(batch),
         NEW new \in Halves(s, batch)
  PROVE  \/ new = s
         \/ /\ new \in StreamType
            /\ \E got \in SUBSET ToSet(batch), torn \in {0, 1} :
                 Grew(s, new, got, torn) /\ (torn = 0 => ~new.cut)
<1>1. CASE new = s
  BY <1>1
<1>2. ASSUME NEW n \in (IF s.cut THEN 1 ELSE 0) .. Len(batch) - 1,
             new = [lines |-> Append(Extended(s, SubSeq(batch, 1, n)).lines, Torn), cut |-> TRUE]
      PROVE  new \in StreamType /\ new.cut /\ \E got \in SUBSET ToSet(batch) : Grew(s, new, got, 1)
  <2>1. /\ n \in (IF s.cut THEN 1 ELSE 0) .. Len(batch) - 1
        /\ new = [lines |-> Append(Extended(s, SubSeq(batch, 1, n)).lines, Torn), cut |-> TRUE]
    BY <1>2
  <2> DEFINE m == IF s.cut THEN 2 ELSE 1
             head == SubSeq(batch, 1, n)
             piece == SubSeq(batch, m, n)
             lines == s.lines \o piece
  <2>2. Len(batch) \in Nat /\ s.lines \in Seq(Nat) /\ s.cut \in BOOLEAN
    BY LenProperties, Zenon DEF StreamType
  <2>3. n \in 0 .. Len(batch) /\ m \in {1, 2} /\ (s.cut => n \in 1 .. Len(batch))
    BY <2>1, <2>2
  <2>4. head \in Seq(Events) /\ (head = <<>> => n = 0) /\ (n = 0 => head = <<>>)
    <3>1. head \in Seq(Events)
      BY <2>3, PieceOf, Zenon
    <3>2. \A i \in 1 .. n : batch[i] \in Events
      BY <2>2, <2>3, ElementOfSeq
    <3>3. Len(head) = IF 1 <= n THEN n - 1 + 1 ELSE 0
      BY <2>3, <3>2, SubSeqProperties
    <3> HIDE DEF head
    <3>4. Len(<<>>) = 0 /\ (head # <<>> => Len(head) \in Nat \ {0})
      BY <3>1, EmptySeq, Zenon
    <3>5. QED BY <2>3, <3>1, <3>3, <3>4
  <2>5. Extended(s, head).lines = lines
    <3>1. CASE s.cut
      <4>1. head # <<>> /\ 1 \in 1 .. Len(batch) /\ n \in 1 .. Len(batch)
        BY <2>3, <2>4, <3>1
      <4>2. Tail(head) = SubSeq(batch, 1 + 1, n)
        BY <4>1, HeadTailOfSubSeq, Zenon
      <4>3. m = 1 + 1
        BY <3>1
      <4>4. Extended(s, head).lines = s.lines \o Tail(head)
        BY <3>1, <4>1 DEF Extended
      <4>5. QED BY <4>2, <4>3, <4>4
    <3>2. CASE ~s.cut
      <4>1. m = 1 /\ piece = head
        BY <3>2
      <4>2. CASE head = <<>>
        <5>1. s.lines \o head = s.lines
          BY <4>2, <2>2, ConcatEmptySeq
        <5>2. QED BY <4>1, <4>2, <5>1 DEF Extended
      <4>3. CASE head # <<>>
        BY <3>2, <4>1, <4>3 DEF Extended
      <4>4. QED BY <4>2, <4>3
    <3>3. QED BY <3>1, <3>2
  <2> HIDE DEF m, head
  <2>6. piece \in Seq(Events) /\ Rising(piece) /\ ToSet(piece) \subseteq ToSet(batch)
    BY <2>3, PieceOf, Zenon
  <2> HIDE DEF piece
  <2>7. /\ lines \in Seq(Nat) /\ Len(lines) = Len(s.lines) + Len(piece)
        /\ WholeOf(lines) = WholeOf(s.lines) \cup ToSet(piece)
        /\ TornOf(lines) = TornOf(s.lines)
    BY <2>2, <2>6, WholeLinesAdded, Zenon
  <2> HIDE DEF lines
  <2>8. new = [lines |-> Append(lines, Torn), cut |-> TRUE]
    BY <2>1, <2>5 DEF head
  <2>9. /\ Append(lines, Torn) \in Seq(Nat) /\ Len(Append(lines, Torn)) = Len(lines) + 1
        /\ WholeOf(Append(lines, Torn)) = WholeOf(lines)
        /\ TornOf(Append(lines, Torn)) = TornOf(lines) + 1
    BY <2>7, TornLineAdded, Zenon
  <2>10. new \in StreamType /\ new.cut /\ new.lines = Append(lines, Torn)
    BY <2>8, <2>9 DEF StreamType
  <2>11. Cardinality(ToSet(piece)) = Len(piece)
    BY <2>6, MembersAreFew, Zenon
  <2>12. Grew(s, new, ToSet(piece), 1)
    <3>1. Len(s.lines) \in Nat /\ Len(piece) \in Nat
      BY <2>2, <2>6, LenProperties, Zenon
    <3>2. Len(new.lines) = Len(s.lines) + Cardinality(ToSet(piece)) + 1
      BY <3>1, <2>7, <2>9, <2>10, <2>11
    <3>3. QED BY <2>7, <2>9, <2>10, <3>2 DEF Grew
  <2>13. QED BY <2>6, <2>10, <2>12
<1>3. ASSUME NEW n \in 0 .. Len(batch), new = Extended(s, SubSeq(batch, 1, n)), new # s
      PROVE  new \in StreamType /\ ~new.cut /\ \E got \in SUBSET ToSet(batch) : Grew(s, new, got, 0)
  <2> DEFINE head == SubSeq(batch, 1, n)
  <2>1. head \in Seq(Events) /\ Rising(head) /\ ToSet(head) \subseteq ToSet(batch)
    BY PieceOf, Zenon
  <2>2. new = Extended(s, head)
    BY <1>3
  <2> HIDE DEF head
  <2>3. head # <<>>
    BY <1>3, <2>2 DEF Extended
  <2>4. /\ Extended(s, head) \in StreamType /\ ~Extended(s, head).cut
        /\ \E got \in SUBSET ToSet(head) : Grew(s, Extended(s, head), got, 0)
    BY <2>1, <2>3, WhatExtendedDoes, Zenon
  <2>5. QED BY <2>1, <2>2, <2>4
<1>4. \/ \E n \in (IF s.cut THEN 1 ELSE 0) .. Len(batch) - 1 :
           new = [lines |-> Append(Extended(s, SubSeq(batch, 1, n)).lines, Torn), cut |-> TRUE]
      \/ \E n \in 0 .. Len(batch) : new = Extended(s, SubSeq(batch, 1, n))
  BY Zenon DEF Halves
<1>5. QED BY <1>1, <1>2, <1>3, <1>4

(***************************************************************************)
(* What the threads are doing after a step                                 *)
(***************************************************************************)

\* One thread has new values, field by field, and the others have what they had.
Turned(f, g, D, t, at, batch, base, full, doc) ==
  /\ g \in [D -> ThreadType]
  /\ g[t].at = at /\ g[t].batch = batch /\ g[t].base = base /\ g[t].full = full
  /\ g[t].doc = doc
  /\ \A u \in D : u # t => g[u] = f[u]

LEMMA FieldsOf ==
  ASSUME NEW r \in ThreadType
  PROVE  /\ r.at \in Places /\ r.batch \in Seq(Events) /\ r.base \in Nat /\ r.full \in BOOLEAN
         /\ r.doc \in Statuses \cup {Absent}
BY DEF ThreadType

LEMMA TurnAt ==
  ASSUME NEW D, NEW f \in [D -> ThreadType], NEW t \in D, NEW v \in Places
  PROVE  Turned(f, [f EXCEPT ![t].at = v], D, t, v, f[t].batch, f[t].base, f[t].full, f[t].doc)
<1>1. f[t] \in ThreadType
  OBVIOUS
<1>2. QED BY <1>1 DEF Turned, ThreadType

LEMMA TurnBatch ==
  ASSUME NEW D, NEW f \in [D -> ThreadType], NEW t \in D, NEW v \in Seq(Events)
  PROVE  Turned(f, [f EXCEPT ![t].batch = v], D, t, f[t].at, v, f[t].base, f[t].full, f[t].doc)
<1>1. f[t] \in ThreadType
  OBVIOUS
<1>2. QED BY <1>1 DEF Turned, ThreadType

LEMMA TurnBatchAt ==
  ASSUME NEW D, NEW f \in [D -> ThreadType], NEW t \in D, NEW v \in Seq(Events), NEW w \in Places
  PROVE  Turned(f, [f EXCEPT ![t].batch = v, ![t].at = w], D, t, w, v, f[t].base, f[t].full, f[t].doc)
<1> DEFINE g == [f EXCEPT ![t].batch = v]
<1>1. [f EXCEPT ![t].batch = v, ![t].at = w] = [g EXCEPT ![t].at = w]
  OBVIOUS
<1>2. Turned(f, g, D, t, f[t].at, v, f[t].base, f[t].full, f[t].doc)
  BY TurnBatch
<1> HIDE DEF g
<1>3. Turned(g, [g EXCEPT ![t].at = w], D, t, w, g[t].batch, g[t].base, g[t].full, g[t].doc)
  <2>1. g \in [D -> ThreadType]
    BY <1>2 DEF Turned
  <2>2. QED BY <2>1, TurnAt
<1>4. QED BY <1>1, <1>2, <1>3 DEF Turned

LEMMA TurnBase ==
  ASSUME NEW D, NEW f \in [D -> ThreadType], NEW t \in D, NEW v \in Nat
  PROVE  Turned(f, [f EXCEPT ![t].base = v], D, t, f[t].at, f[t].batch, v, f[t].full, f[t].doc)
<1>1. f[t] \in ThreadType
  OBVIOUS
<1>2. QED BY <1>1 DEF Turned, ThreadType

LEMMA TurnFull ==
  ASSUME NEW D, NEW f \in [D -> ThreadType], NEW t \in D, NEW v \in BOOLEAN
  PROVE  Turned(f, [f EXCEPT ![t].full = v], D, t, f[t].at, f[t].batch, f[t].base, v, f[t].doc)
<1>1. f[t] \in ThreadType
  OBVIOUS
<1>2. QED BY <1>1 DEF Turned, ThreadType

LEMMA TurnDoc ==
  ASSUME NEW D, NEW f \in [D -> ThreadType], NEW t \in D, NEW v \in Statuses \cup {Absent}
  PROVE  Turned(f, [f EXCEPT ![t].doc = v], D, t, f[t].at, f[t].batch, f[t].base, f[t].full, v)
<1>1. f[t] \in ThreadType
  OBVIOUS
<1>2. QED BY <1>1 DEF Turned, ThreadType

LEMMA TurnAtBase ==
  ASSUME NEW D, NEW f \in [D -> ThreadType], NEW t \in D, NEW v \in Places, NEW w \in Nat
  PROVE  Turned(f, [f EXCEPT ![t].at = v, ![t].base = w], D, t, v, f[t].batch, w, f[t].full, f[t].doc)
<1> DEFINE g == [f EXCEPT ![t].at = v]
<1>1. [f EXCEPT ![t].at = v, ![t].base = w] = [g EXCEPT ![t].base = w]
  OBVIOUS
<1>2. Turned(f, g, D, t, v, f[t].batch, f[t].base, f[t].full, f[t].doc)
  BY TurnAt
<1> HIDE DEF g
<1>3. Turned(g, [g EXCEPT ![t].base = w], D, t, g[t].at, g[t].batch, w, g[t].full, g[t].doc)
  <2>1. g \in [D -> ThreadType]
    BY <1>2 DEF Turned
  <2>2. QED BY <2>1, TurnBase
<1>4. QED BY <1>1, <1>2, <1>3 DEF Turned

LEMMA TurnAtBatch ==
  ASSUME NEW D, NEW f \in [D -> ThreadType], NEW t \in D, NEW v \in Places, NEW w \in Seq(Events)
  PROVE  Turned(f, [f EXCEPT ![t].at = v, ![t].batch = w], D, t, v, w, f[t].base, f[t].full, f[t].doc)
<1> DEFINE g == [f EXCEPT ![t].at = v]
<1>1. [f EXCEPT ![t].at = v, ![t].batch = w] = [g EXCEPT ![t].batch = w]
  OBVIOUS
<1>2. Turned(f, g, D, t, v, f[t].batch, f[t].base, f[t].full, f[t].doc)
  BY TurnAt
<1> HIDE DEF g
<1>3. Turned(g, [g EXCEPT ![t].batch = w], D, t, g[t].at, w, g[t].base, g[t].full, g[t].doc)
  <2>1. g \in [D -> ThreadType]
    BY <1>2 DEF Turned
  <2>2. QED BY <2>1, TurnBatch
<1>4. QED BY <1>1, <1>2, <1>3 DEF Turned

LEMMA TurnAtDoc ==
  ASSUME NEW D, NEW f \in [D -> ThreadType], NEW t \in D, NEW v \in Places,
         NEW w \in Statuses \cup {Absent}
  PROVE  /\ Turned(f, [f EXCEPT ![t].at = v, ![t].doc = w], D, t, v, f[t].batch, f[t].base, f[t].full, w)
         /\ Turned(f, [f EXCEPT ![t].doc = w, ![t].at = v], D, t, v, f[t].batch, f[t].base, f[t].full, w)
<1> DEFINE g == [f EXCEPT ![t].at = v]
           h == [f EXCEPT ![t].doc = w]
<1>1. /\ [f EXCEPT ![t].at = v, ![t].doc = w] = [g EXCEPT ![t].doc = w]
      /\ [f EXCEPT ![t].doc = w, ![t].at = v] = [h EXCEPT ![t].at = v]
  OBVIOUS
<1>2. /\ Turned(f, g, D, t, v, f[t].batch, f[t].base, f[t].full, f[t].doc)
      /\ Turned(f, h, D, t, f[t].at, f[t].batch, f[t].base, f[t].full, w)
  BY TurnAt, TurnDoc
<1> HIDE DEF g, h
<1>3. g \in [D -> ThreadType] /\ h \in [D -> ThreadType]
  BY <1>2 DEF Turned
<1>4. /\ Turned(g, [g EXCEPT ![t].doc = w], D, t, g[t].at, g[t].batch, g[t].base, g[t].full, w)
      /\ Turned(h, [h EXCEPT ![t].at = v], D, t, v, h[t].batch, h[t].base, h[t].full, h[t].doc)
  BY <1>3, TurnAt, TurnDoc
<1>5. QED BY <1>1, <1>2, <1>4 DEF Turned

LEMMA TurnAtFull ==
  ASSUME NEW D, NEW f \in [D -> ThreadType], NEW t \in D, NEW v \in Places, NEW w \in BOOLEAN
  PROVE  Turned(f, [f EXCEPT ![t] = [@ EXCEPT !.at = v, !.full = w]],
                D, t, v, f[t].batch, f[t].base, w, f[t].doc)
<1> DEFINE g == [f EXCEPT ![t].at = v]
<1>1. [f EXCEPT ![t] = [@ EXCEPT !.at = v, !.full = w]] = [g EXCEPT ![t].full = w]
  OBVIOUS
<1>2. Turned(f, g, D, t, v, f[t].batch, f[t].base, f[t].full, f[t].doc)
  BY TurnAt
<1> HIDE DEF g
<1>3. Turned(g, [g EXCEPT ![t].full = w], D, t, g[t].at, g[t].batch, g[t].base, w, g[t].doc)
  <2>1. g \in [D -> ThreadType]
    BY <1>2 DEF Turned
  <2>2. QED BY <2>1, TurnFull
<1>4. QED BY <1>1, <1>2, <1>3 DEF Turned

(***************************************************************************)
(* The ring                                                                *)
(***************************************************************************)

LEMMA RingMembers ==
  ASSUME NEW r \in Seq(Events), NEW n \in Nat, InOrder(r, n)
  PROVE  ToSet(r) = n - Len(r) + 1 .. n
<1>1. Len(r) \in Nat /\ Len(r) <= n /\ \A i \in 1 .. Len(r) : r[i] = n - Len(r) + i
  BY LenProperties DEF InOrder
<1>2. \A e : e \in ToSet(r) <=> \E i \in 1 .. Len(r) : e = r[i]
  BY MembersOf, Zenon
<1>3. ASSUME NEW e \in n - Len(r) + 1 .. n PROVE e \in ToSet(r)
  <2> DEFINE i == e - (n - Len(r))
  <2>1. i \in 1 .. Len(r) /\ n - Len(r) + i = e
    BY <1>1
  <2>2. QED BY <1>1, <1>2, <2>1
<1>4. ASSUME NEW e \in ToSet(r) PROVE e \in n - Len(r) + 1 .. n
  <2>1. PICK i \in 1 .. Len(r) : e = r[i]
    BY <1>2, <1>4
  <2>2. QED BY <1>1, <2>1
<1>5. QED BY <1>3, <1>4

LEMMA RingAppended ==
  ASSUME NEW r \in Seq(Events), NEW n \in Nat, InOrder(r, n)
  PROVE  /\ Append(r, n + 1) \in Seq(Events) /\ Len(Append(r, n + 1)) = Len(r) + 1
         /\ InOrder(Append(r, n + 1), n + 1)
<1> DEFINE q == Append(r, n + 1)
<1>1. Len(r) \in Nat /\ Len(r) <= n /\ \A i \in 1 .. Len(r) : r[i] = n - Len(r) + i
  BY LenProperties DEF InOrder
<1>2. n + 1 \in Events
  BY DEF Events
<1>3. /\ q \in Seq(Events) /\ Len(q) = Len(r) + 1 /\ q[Len(r) + 1] = n + 1
      /\ \A i \in 1 .. Len(r) : q[i] = r[i]
  BY <1>2, AppendProperties
<1> HIDE DEF q
<1>4. InOrder(q, n + 1)
  BY <1>1, <1>3, SMTT(30) DEF InOrder
<1>5. QED BY <1>3, <1>4 DEF q

LEMMA RingTail ==
  ASSUME NEW r \in Seq(Events), NEW n \in Nat, InOrder(r, n), r # <<>>
  PROVE  /\ Tail(r) \in Seq(Events) /\ Len(Tail(r)) = Len(r) - 1 /\ InOrder(Tail(r), n)
         /\ Head(r) = n - Len(r) + 1 /\ Head(r) \in Events /\ Len(r) \in Nat \ {0}
<1>1. Len(r) \in Nat \ {0} /\ Len(r) <= n /\ \A i \in 1 .. Len(r) : r[i] = n - Len(r) + i
  BY EmptySeq DEF InOrder
<1>2. /\ Head(r) \in Events /\ Tail(r) \in Seq(Events) /\ Len(Tail(r)) = Len(r) - 1
      /\ \A i \in 1 .. Len(Tail(r)) : Tail(r)[i] = r[i + 1]
  BY HeadTailProperties, Zenon
<1>3. Head(r) = r[1]
  OBVIOUS
<1>4. InOrder(Tail(r), n)
  <2> DEFINE q == Tail(r)
  <2>1. Len(q) = Len(r) - 1 /\ \A i \in 1 .. Len(q) : q[i] = r[i + 1]
    BY <1>2
  <2> HIDE DEF q
  <2>2. InOrder(q, n)
    BY <1>1, <2>1 DEF InOrder
  <2>3. QED BY <2>2 DEF q
<1>5. QED BY <1>1, <1>2, <1>3, <1>4

\* What is counted after a step: no more than before, and what the step adds.
LEMMA CountGrows ==
  ASSUME NEW S, IsFiniteSet(S), NEW U, IsFiniteSet(U), NEW T, T \subseteq S \cup U
  PROVE  /\ IsFiniteSet(T) /\ Cardinality(T) \in Nat
         /\ Cardinality(S) \in Nat /\ Cardinality(U) \in Nat
         /\ Cardinality(T) <= Cardinality(S) + Cardinality(U)
<1>1. /\ IsFiniteSet(S \cup U)
      /\ Cardinality(S \cup U) = Cardinality(S) + Cardinality(U) - Cardinality(S \cap U)
  BY FS_Union, Zenon
<1>2. IsFiniteSet(S \cap U)
  BY FS_Intersection, Zenon
<1>3. IsFiniteSet(T) /\ Cardinality(T) <= Cardinality(S \cup U)
  BY <1>1, FS_Subset, Zenon
<1>4. /\ Cardinality(S) \in Nat /\ Cardinality(U) \in Nat /\ Cardinality(T) \in Nat
      /\ Cardinality(S \cap U) \in Nat
  BY <1>2, <1>3, FS_CardinalityType, Zenon
<1>5. QED BY <1>1, <1>3, <1>4

(***************************************************************************)
(* The state                                                               *)
(***************************************************************************)

LEMMA TypeFacts ==
  ASSUME TypeInv
  PROVE  /\ setup.hook \in {"python", "node"} /\ setup.capacity \in Nat \ {0}
         /\ IsFiniteSet(setup.callers) /\ setup.callers \cap Drains = {}
         /\ Drains \subseteq Drains \cup setup.callers
         /\ \A t \in Drains \cup setup.callers : thread[t] \in ThreadType
         /\ \A t \in Drains \cup setup.callers :
              /\ thread[t].at \in Places /\ thread[t].batch \in Seq(Events)
              /\ thread[t].base \in Nat /\ thread[t].full \in BOOLEAN
              /\ thread[t].doc \in Statuses \cup {Absent}
         /\ counts.dropped \in Nat /\ counts.written \in Nat
         /\ counts.missed \in Int /\ Losses \in Int
         /\ stream.lines \in Seq(Nat) /\ stream.cut \in BOOLEAN /\ TornLines \in Nat
         /\ Len(ring) \in Nat /\ MaxCalls \in Nat
<1>1. setup \in SetupType /\ MaxCalls \in Nat /\ IsFiniteSet(Callers) /\ Callers \cap Drains = {}
  BY StreamAssumption DEF TypeInv
<1>2. /\ setup.hook \in {"python", "node"} /\ setup.capacity \in Nat \ {0}
      /\ setup.callers \in SUBSET Callers
  BY <1>1 DEF SetupType
<1>3. IsFiniteSet(setup.callers) /\ setup.callers \cap Drains = {}
  <2>1. IsFiniteSet(setup.callers)
    BY <1>1, <1>2, FS_Subset, Zenon
  <2>2. QED BY <1>1, <1>2, <2>1
<1>4. \A t \in Drains \cup setup.callers : thread[t] \in ThreadType
  BY DEF TypeInv
<1>5. \A t \in Drains \cup setup.callers :
        /\ thread[t].at \in Places /\ thread[t].batch \in Seq(Events)
        /\ thread[t].base \in Nat /\ thread[t].full \in BOOLEAN
        /\ thread[t].doc \in Statuses \cup {Absent}
  BY <1>4, FieldsOf, Zenon
<1>6. counts.dropped \in Nat /\ counts.written \in Nat /\ counts.missed \in Int /\ Losses \in Int
  BY DEF TypeInv, CountsType, Losses
<1>7. stream.lines \in Seq(Nat) /\ stream.cut \in BOOLEAN
  BY DEF TypeInv
<1>8. TornLines \in Nat
  <2>1. TornOf(stream.lines) \in Nat
    BY <1>7, TornIsNatural, Zenon
  <2>2. QED BY <2>1, Zenon DEF TornLines, TornOf
<1>9. Len(ring) \in Nat
  BY LenProperties DEF TypeInv
<1>10. QED BY <1>1, <1>2, <1>3, <1>4, <1>5, <1>6, <1>7, <1>8, <1>9

\* Everything the hook has was observed.
LEMMA HeldWasObserved ==
  ASSUME TypeInv, RingInv, BatchInv
  PROVE  /\ ToSet(ring) = calls - Len(ring) + 1 .. calls
         /\ \A t \in Drains : ToSet(thread[t].batch) \subseteq 1 .. calls
         /\ Held \subseteq 1 .. calls /\ Owing \subseteq 1 .. calls
         /\ IsFiniteSet(Lost \cup Owing)
<1>1. calls \in Nat /\ ring \in Seq(Events) /\ InOrder(ring, calls) /\ Len(ring) <= calls
  BY DEF TypeInv, RingInv, InOrder
<1>2. Len(ring) \in Nat
  BY TypeFacts
<1>3. ToSet(ring) = calls - Len(ring) + 1 .. calls
  BY <1>1, RingMembers, Zenon
<1>4. ASSUME NEW t \in Drains PROVE ToSet(thread[t].batch) \subseteq 1 .. calls
  <2>1. CASE Python
    <3>1. ToSet(thread[t].batch) \subseteq 1 .. calls - Len(ring)
      BY <2>1, Zenon DEF BatchInv
    <3>2. QED BY <1>1, <1>2, <3>1
  <2>2. CASE ~Python
    <3>1. thread[t].batch = ring \/ thread[t].batch = <<>>
      BY <2>2, Zenon DEF BatchInv
    <3>2. CASE thread[t].batch = ring
      BY <1>1, <1>2, <1>3, <3>2
    <3>3. CASE thread[t].batch = <<>>
      <4>1. thread[t].batch \in Seq(Events)
        BY TypeFacts
      <4>2. ToSet(thread[t].batch) = {}
        BY <3>3, <4>1, MembersOf, Zenon
      <4>3. QED BY <4>2
    <3>4. QED BY <3>1, <3>2, <3>3
  <2>3. QED BY <2>1, <2>2
<1>5. Held \subseteq 1 .. calls
  BY <1>1, <1>2, <1>3, <1>4 DEF Held
<1>6. Owing \subseteq 1 .. calls
  BY <1>4 DEF Owing
<1>7. Lost \cup Owing \in SUBSET (1 .. calls) /\ IsFiniteSet(1 .. calls)
  <2>1. IsFiniteSet(1 .. calls)
    BY <1>1, FS_Interval
  <2>2. QED BY <1>6, <2>1 DEF Lost
<1>8. IsFiniteSet(Lost \cup Owing)
  BY <1>7, FS_Subset, Zenon
<1>9. QED BY <1>3, <1>4, <1>5, <1>6, <1>8

\* A step that leaves the ring, the batches, the counts and the stream alone, and takes
\* no thread into or out of an append, but a batch of a Python process to its append.
Quiet ==
  /\ UNCHANGED <<setup, calls, ring, counts, stream>>
  /\ thread' \in [Drains \cup setup.callers -> ThreadType]
  /\ \A t \in Drains :
       /\ thread'[t].batch = thread[t].batch /\ thread'[t].base = thread[t].base
       /\ \/ thread'[t].at = thread[t].at
          \/ /\ thread[t].at \notin {"write", "written", "failed"}
             /\ thread'[t].at \notin {"write", "written", "failed"}
             /\ thread[t].batch = <<>>
          \/ /\ Python /\ thread[t].at = "take" /\ thread'[t].at = "write"
             /\ thread[t].batch # <<>>
  /\ life' \in {"new", "declared", "disowned"} => life \in {"new", "declared", "disowned"}

LEMMA QuietKeepsCalls ==
  ASSUME TypeInv, RingInv, BatchInv, DeliveredInv, AccountInv, Quiet
  PROVE  /\ InOrder(ring', calls') /\ BatchInv' /\ DeliveredInv' /\ AccountInv'
         /\ \A t \in Drains : thread'[t].at = "failed" <=> thread[t].at = "failed"
<1>1. /\ setup' = setup /\ calls' = calls /\ ring' = ring /\ counts' = counts /\ stream' = stream
      /\ \A t \in Drains : thread'[t].batch = thread[t].batch
  BY DEF Quiet
<1>2. /\ (Python <=> Python') /\ Delivered' = Delivered /\ TornLines' = TornLines
      /\ InOrder(ring', calls')
  BY <1>1 DEF Python, Delivered, TornLines, RingInv
<1>3. \A t \in Drains :
        /\ thread'[t].at = "written" <=> thread[t].at = "written"
        /\ thread'[t].at = "failed" <=> thread[t].at = "failed"
  BY DEF Quiet
<1>4. ToSet(<<>>) = {}
  <2>1. <<>> \in Seq(Nat)
    OBVIOUS
  <2>2. QED BY <2>1, MembersOf
<1>5. ASSUME NEW t \in Drains
      PROVE  /\ ~Python => thread'[t].batch = IF thread'[t].at \in {"write", "written", "failed"}
                                              THEN ring ELSE <<>>
             /\ thread'[t].at \notin {"take", "write", "written", "failed"} => thread'[t].batch = <<>>
             /\ thread'[t].at \in {"write", "written", "failed"} => thread'[t].batch # <<>>
             /\ thread'[t].at \in {"take", "write"} => ToSet(thread'[t].batch) \cap Delivered = {}
  <2>1. CASE thread'[t].at = thread[t].at
    BY <1>1, <2>1, Zenon DEF BatchInv
  <2>2. CASE /\ thread[t].at \notin {"write", "written", "failed"}
             /\ thread'[t].at \notin {"write", "written", "failed"}
             /\ thread[t].batch = <<>>
    BY <1>1, <1>4, <2>2
  <2>3. CASE /\ Python /\ thread[t].at = "take" /\ thread'[t].at = "write"
             /\ thread[t].batch # <<>>
    BY <1>1, <2>3 DEF BatchInv
  <2>4. QED BY <2>1, <2>2, <2>3 DEF Quiet
<1>6. BatchInv'
  <2>1. ASSUME NEW t \in Drains
        PROVE  /\ Rising(thread'[t].batch)
               /\ Python => ToSet(thread'[t].batch) \subseteq 1 .. calls - Len(ring)
    BY <1>1 DEF BatchInv
  <2>2. Python => ToSet(thread'["drain"].batch) \cap ToSet(thread'["close"].batch) = {}
    BY <1>1 DEF BatchInv, Drains
  <2>3. QED BY <1>1, <1>2, <1>5, <2>1, <2>2 DEF BatchInv
<1>7. DeliveredInv'
  BY <1>1, <1>2, <1>3 DEF DeliveredInv, Quiet
<1>8. Held' = Held
  BY <1>1 DEF Held
<1>9. Lost' = Lost /\ Owing' = Owing
  BY <1>1, <1>2, <1>3, <1>8 DEF Lost, Owing
<1>10. AccountInv'
  BY <1>1, <1>2, <1>9 DEF AccountInv, Losses
<1>11. QED BY <1>2, <1>3, <1>6, <1>7, <1>10

\* All that holds of a process that was not killed.
Good ==
  /\ TypeInv /\ life # "killed"
  /\ ControlInv /\ RingInv /\ BatchInv /\ DeliveredInv /\ CountInv /\ AccountInv /\ DocumentInv
  /\ ~Python => Backed(sidecar)

LEMMA QuietKeepsCounts ==
  ASSUME Good, Quiet, \A c \in setup.callers : thread'[c] = thread[c]
  PROVE  RingInv' /\ BatchInv' /\ DeliveredInv' /\ CountInv' /\ AccountInv'
<1>1. /\ InOrder(ring', calls') /\ BatchInv' /\ DeliveredInv' /\ AccountInv'
      /\ \A t \in Drains : thread'[t].at = "failed" <=> thread[t].at = "failed"
  BY QuietKeepsCalls DEF Good
<1>2. /\ setup' = setup /\ calls' = calls /\ ring' = ring /\ counts' = counts
      /\ \A t \in Drains : thread'[t].base = thread[t].base
  BY DEF Quiet
<1>3. Arriving' = Arriving
  <2>1. {c \in setup'.callers : thread'[c].at = "put"} = {c \in setup.callers : thread[c].at = "put"}
    BY <1>2
  <2>2. QED BY <2>1 DEF Arriving
<1>4. RingInv'
  BY <1>1, <1>2, <1>3 DEF RingInv, Good, Quiet
<1>5. CountInv'
  BY <1>1, <1>2 DEF CountInv, Good, Faulty
<1>6. QED BY <1>1, <1>4, <1>5

LEMMA DeclareKeeps ==
  ASSUME Good, Declare
  PROVE  Good' /\ Quiet
<1> DEFINE D == Drains \cup setup.callers
<1>1. /\ life = "new" /\ life' = "declared"
      /\ UNCHANGED <<setup, calls, ring, counts, stream, sidecar, reader>>
      /\ thread' = IF Python THEN [thread EXCEPT !["close"].at = "status"] ELSE thread
  BY DEF Declare
<1>2. TypeInv /\ thread \in [D -> ThreadType] /\ "close" \in D /\ "close" \in Drains
      /\ thread["close"].at = "off" /\ thread["close"].batch = <<>> /\ setup.callers \cap Drains = {}
  BY <1>1, TypeFacts DEF Good, TypeInv, ControlInv, BatchInv, Drains
<1>3. /\ thread' \in [D -> ThreadType]
      /\ \A t \in D : t # "close" => thread'[t] = thread[t]
      /\ thread'["close"].batch = <<>> /\ thread'["close"].base = thread["close"].base
      /\ thread'["close"].doc = thread["close"].doc
      /\ thread'["close"].at = IF Python THEN "status" ELSE "off"
  <2>1. CASE Python
    <3>1. "status" \in Places
      BY DEF Places, Busy
    <3>2. Turned(thread, thread', D, "close", "status", thread["close"].batch, thread["close"].base,
                 thread["close"].full, thread["close"].doc)
      BY <1>1, <1>2, <2>1, <3>1, TurnAt
    <3>3. QED BY <1>2, <2>1, <3>2 DEF Turned
  <2>2. CASE ~Python
    BY <1>1, <1>2, <2>2
  <2>3. QED BY <2>1, <2>2
<1> HIDE DEF D
<1>4. Quiet /\ \A c \in setup.callers : thread'[c] = thread[c]
  BY <1>1, <1>2, <1>3 DEF Quiet, D
<1>5. RingInv' /\ BatchInv' /\ DeliveredInv' /\ CountInv' /\ AccountInv'
  BY <1>4, QuietKeepsCounts
<1>6. TypeInv'
  BY <1>1, <1>2, <1>3 DEF TypeInv, Lives, D
<1>7. ControlInv'
  BY <1>1, <1>2, <1>3 DEF Good, ControlInv, Python, Slow, Faulty, Drains, D
<1>8. Delivered' = Delivered /\ TornLines' = TornLines
  BY <1>1 DEF Delivered, TornLines
<1>9. DocumentInv' /\ (~Python' => Backed(sidecar)')
  BY <1>1, <1>2, <1>3, <1>8
     DEF Good, DocumentInv, Backed, Python, Slow, Faulty, Drains, D
<1>10. QED BY <1>1, <1>4, <1>5, <1>6, <1>7, <1>9 DEF Good

LEMMA InstrumentKeeps ==
  ASSUME Good, Instrument
  PROVE  Good' /\ Quiet
<1>1. /\ life = "declared" /\ life' = "active" /\ Waits("close")
      /\ UNCHANGED <<setup, calls, ring, thread, counts, stream, sidecar, reader>>
  BY DEF Instrument
<1>2. TypeInv /\ thread \in [Drains \cup setup.callers -> ThreadType] /\ thread["close"].at = "off"
  BY <1>1 DEF Good, TypeInv, ControlInv, Waits
<1>3. Quiet /\ \A c \in setup.callers : thread'[c] = thread[c]
  BY <1>1, <1>2 DEF Quiet
<1>4. RingInv' /\ BatchInv' /\ DeliveredInv' /\ CountInv' /\ AccountInv'
  BY <1>3, QuietKeepsCounts
<1>5. TypeInv'
  BY <1>1, <1>2 DEF TypeInv, Lives
<1>6. ControlInv'
  BY <1>1, <1>2 DEF Good, ControlInv, Python, Slow, Faulty, Busy
<1>7. Delivered' = Delivered /\ TornLines' = TornLines
  BY <1>1 DEF Delivered, TornLines
<1>8. DocumentInv' /\ (~Python' => Backed(sidecar)')
  BY <1>1, <1>2, <1>7 DEF Good, DocumentInv, Backed, Python, Slow, Faulty
<1>9. QED BY <1>1, <1>3, <1>4, <1>5, <1>6, <1>8 DEF Good

LEMMA DisownKeeps ==
  ASSUME Good, Disown
  PROVE  Good' /\ Quiet
<1> DEFINE D == Drains \cup setup.callers
<1>1. /\ life = "declared" /\ life' = "disowned" /\ Waits("close")
      /\ UNCHANGED <<setup, calls, ring, counts, stream, sidecar, reader>>
      /\ thread' = IF Python THEN [thread EXCEPT !["close"].at = "status"] ELSE thread
  BY DEF Disown
<1>2. TypeInv /\ thread \in [D -> ThreadType] /\ "close" \in D /\ "close" \in Drains
      /\ thread["close"].at = "off" /\ thread["close"].batch = <<>> /\ setup.callers \cap Drains = {}
  BY <1>1, TypeFacts DEF Good, TypeInv, ControlInv, BatchInv, Drains, Waits
<1>3. /\ thread' \in [D -> ThreadType]
      /\ \A t \in D : t # "close" => thread'[t] = thread[t]
      /\ thread'["close"].batch = <<>> /\ thread'["close"].base = thread["close"].base
      /\ thread'["close"].doc = thread["close"].doc
      /\ thread'["close"].at = IF Python THEN "status" ELSE "off"
  <2>1. CASE Python
    <3>1. "status" \in Places
      BY DEF Places, Busy
    <3>2. Turned(thread, thread', D, "close", "status", thread["close"].batch, thread["close"].base,
                 thread["close"].full, thread["close"].doc)
      BY <1>1, <1>2, <2>1, <3>1, TurnAt
    <3>3. QED BY <1>2, <2>1, <3>2 DEF Turned
  <2>2. CASE ~Python
    BY <1>1, <1>2, <2>2
  <2>3. QED BY <2>1, <2>2
<1> HIDE DEF D
<1>4. Quiet /\ \A c \in setup.callers : thread'[c] = thread[c]
  BY <1>1, <1>2, <1>3 DEF Quiet, D
<1>5. RingInv' /\ BatchInv' /\ DeliveredInv' /\ CountInv' /\ AccountInv'
  BY <1>4, QuietKeepsCounts
<1>6. TypeInv'
  BY <1>1, <1>2, <1>3 DEF TypeInv, Lives, D
<1>7. ControlInv'
  BY <1>1, <1>2, <1>3 DEF Good, ControlInv, Python, Slow, Faulty, Drains, D
<1>8. Delivered' = Delivered /\ TornLines' = TornLines
  BY <1>1 DEF Delivered, TornLines
<1>9. DocumentInv' /\ (~Python' => Backed(sidecar)')
  BY <1>1, <1>2, <1>3, <1>8
     DEF Good, DocumentInv, Backed, Python, Slow, Faulty, Drains, D
<1>10. QED BY <1>1, <1>4, <1>5, <1>6, <1>7, <1>9 DEF Good

LEMMA WakeKeeps ==
  ASSUME Good, Wake
  PROVE  Good' /\ Quiet
<1> DEFINE D == Drains \cup setup.callers
<1>1. /\ thread["drain"].at = "idle" /\ life \in {"active", "closing"}
      /\ UNCHANGED <<setup, life, calls, ring, counts, stream, sidecar, reader>>
      /\ thread' = [thread EXCEPT !["drain"].at = "take"]
  BY DEF Wake
<1>2. TypeInv /\ thread \in [D -> ThreadType] /\ "drain" \in D /\ "drain" \in Drains
      /\ thread["drain"].batch = <<>> /\ setup.callers \cap Drains = {}
  BY <1>1, TypeFacts DEF Good, TypeInv, BatchInv, Drains
<1>3. "take" \in Places
  BY DEF Places, Busy
<1>4. Turned(thread, thread', D, "drain", "take", thread["drain"].batch, thread["drain"].base,
             thread["drain"].full, thread["drain"].doc)
  BY <1>1, <1>2, <1>3, TurnAt
<1> HIDE DEF D
<1>5. Quiet /\ \A c \in setup.callers : thread'[c] = thread[c]
  BY <1>1, <1>2, <1>4 DEF Quiet, Turned, D
<1>6. RingInv' /\ BatchInv' /\ DeliveredInv' /\ CountInv' /\ AccountInv'
  BY <1>5, QuietKeepsCounts
<1>7. TypeInv'
  BY <1>1, <1>2, <1>4 DEF TypeInv, D, Turned
<1>8. ControlInv'
  BY <1>1, <1>2, <1>4 DEF Good, ControlInv, Python, Slow, Faulty, Drains, D, Turned
<1>9. Delivered' = Delivered /\ TornLines' = TornLines
  BY <1>1 DEF Delivered, TornLines
<1>10. DocumentInv' /\ (~Python' => Backed(sidecar)')
  BY <1>1, <1>2, <1>4, <1>9
     DEF Good, DocumentInv, Backed, Python, Slow, Faulty, Drains, D, Turned, Document
<1>11. QED BY <1>1, <1>5, <1>6, <1>7, <1>8, <1>10 DEF Good

LEMMA JoinKeeps ==
  ASSUME Good, Join
  PROVE  Good' /\ Quiet
<1> DEFINE D == Drains \cup setup.callers
<1>1. /\ thread["close"].at = "join" /\ life = "closing"
      /\ thread["drain"].at \in {"off", "done"} \/ Faulty("slow")
      /\ UNCHANGED <<setup, life, calls, ring, counts, stream, sidecar, reader>>
      /\ thread' = [thread EXCEPT !["close"].at = "take"]
  BY DEF Join
<1>2. TypeInv /\ thread \in [D -> ThreadType] /\ "close" \in D /\ "close" \in Drains
      /\ thread["close"].batch = <<>> /\ setup.callers \cap Drains = {}
  BY <1>1, TypeFacts DEF Good, TypeInv, BatchInv, Drains
<1>3. "take" \in Places
  BY DEF Places, Busy
<1>4. Turned(thread, thread', D, "close", "take", thread["close"].batch, thread["close"].base,
             thread["close"].full, thread["close"].doc)
  BY <1>1, <1>2, <1>3, TurnAt
<1> HIDE DEF D
<1>5. Quiet /\ \A c \in setup.callers : thread'[c] = thread[c]
  BY <1>1, <1>2, <1>4 DEF Quiet, Turned, D
<1>6. RingInv' /\ BatchInv' /\ DeliveredInv' /\ CountInv' /\ AccountInv'
  BY <1>5, QuietKeepsCounts
<1>7. TypeInv'
  BY <1>1, <1>2, <1>4 DEF TypeInv, D, Turned
<1>8. ControlInv'
  BY <1>1, <1>2, <1>4 DEF Good, ControlInv, Python, Slow, Faulty, Drains, D, Turned
<1>9. Delivered' = Delivered /\ TornLines' = TornLines
  BY <1>1 DEF Delivered, TornLines
<1>10. DocumentInv' /\ (~Python' => Backed(sidecar)')
  BY <1>1, <1>2, <1>4, <1>9
     DEF Good, DocumentInv, Backed, Python, Slow, Faulty, Drains, D, Turned, Document
<1>11. QED BY <1>1, <1>5, <1>6, <1>7, <1>8, <1>10 DEF Good

LEMMA BeginCloseKeeps ==
  ASSUME Good, BeginClose
  PROVE  Good' /\ Quiet
<1> DEFINE D == Drains \cup setup.callers
<1>1. /\ life = "active" /\ life' = "closing" /\ Waits("close")
      /\ Faulty("daemon") \/ \A c \in setup.callers : Waits(c)
      /\ ~Python => Waits("drain")
      /\ UNCHANGED <<setup, calls, ring, counts, stream, sidecar, reader>>
      /\ thread' = [thread EXCEPT !["close"].at = IF Python THEN "join" ELSE "take",
                                  !["drain"].at = IF Python THEN @ ELSE "done"]
  BY DEF BeginClose
<1>2. TypeInv /\ thread \in [D -> ThreadType] /\ "close" \in D /\ "drain" \in D
      /\ thread["close"].at = "off" /\ thread["close"].batch = <<>> /\ setup.callers \cap Drains = {}
      /\ (~Python => thread["drain"].batch = <<>>) /\ thread["drain"].at \in Places
      /\ (~Python => thread["drain"].at \in {"off", "idle", "done"})
  BY <1>1, TypeFacts DEF Good, TypeInv, ControlInv, BatchInv, Drains, Waits
<1> DEFINE v == IF Python THEN "join" ELSE "take"
           w == IF Python THEN thread["drain"].at ELSE "done"
<1>3. v \in Places /\ w \in Places
  BY <1>2 DEF Places, Busy
<1>4. thread' = [thread EXCEPT !["close"].at = v, !["drain"].at = w]
  <2>1. CASE Python
    BY <1>1, <1>2, <2>1
  <2>2. CASE ~Python
    BY <1>1, <1>2, <2>2
  <2>3. QED BY <2>1, <2>2
<1> HIDE DEF v, w, D
<1>5. /\ thread' \in [D -> ThreadType] /\ thread'["close"].at = v /\ thread'["drain"].at = w
      /\ \A x \in D : /\ thread'[x].batch = thread[x].batch /\ thread'[x].base = thread[x].base
                      /\ thread'[x].full = thread[x].full /\ thread'[x].doc = thread[x].doc
                      /\ x \notin {"close", "drain"} => thread'[x] = thread[x]
  <2>1. /\ "close" # "drain" /\ "close" \in D /\ "drain" \in D
        /\ thread \in [D -> ThreadType] /\ v \in Places /\ w \in Places
    BY <1>2, <1>3
  <2> DEFINE g == [thread EXCEPT !["close"].at = v]
             h == [g EXCEPT !["drain"].at = w]
  <2>2. thread' = h
    BY <1>4
  <2>3. Turned(thread, g, D, "close", v, thread["close"].batch, thread["close"].base,
               thread["close"].full, thread["close"].doc)
    BY <2>1, TurnAt
  <2> HIDE DEF g
  <2>4. g \in [D -> ThreadType]
    BY <2>3 DEF Turned
  <2>5. Turned(g, h, D, "drain", w, g["drain"].batch, g["drain"].base, g["drain"].full,
               g["drain"].doc)
    BY <2>1, <2>4, TurnAt
  <2> HIDE DEF h
  <2>6. QED BY <2>1, <2>2, <2>3, <2>5 DEF Turned
<1>6. Quiet /\ \A c \in setup.callers : thread'[c] = thread[c]
  BY <1>1, <1>2, <1>5 DEF Quiet, D, Drains, v, w
<1>7. RingInv' /\ BatchInv' /\ DeliveredInv' /\ CountInv' /\ AccountInv'
  BY <1>6, QuietKeepsCounts
<1>8. TypeInv'
  BY <1>1, <1>2, <1>5 DEF TypeInv, D, Lives
<1>9. ControlInv'
  BY <1>1, <1>2, <1>5 DEF Good, ControlInv, Python, Slow, Faulty, Drains, D, Waits, Busy, v, w
<1>10. Delivered' = Delivered /\ TornLines' = TornLines
  BY <1>1 DEF Delivered, TornLines
<1>11. DocumentInv' /\ (~Python' => Backed(sidecar)')
  <2>1. /\ Python => thread'["close"].at = "join" /\ thread'["drain"].at = thread["drain"].at
        /\ ~Python => thread'["close"].at = "take" /\ thread'["drain"].at = "done"
        /\ \A x \in Drains : thread'[x].doc = thread[x].doc
    BY <1>5 DEF v, w, D
  <2>2. QED
    BY <1>1, <2>1, <1>10 DEF Good, DocumentInv, Backed, Python, Slow, Faulty, Drains
<1>12. QED BY <1>1, <1>6, <1>7, <1>8, <1>9, <1>11 DEF Good

\* What is paid for stays so when the losses grow with the debt.
LEMMA StillPaid ==
  ASSUME NEW n \in Int, NEW m \in Int, NEW k \in Int, NEW d \in Int, NEW a \in Int, NEW b \in Int,
         NEW x \in Int, m <= n + d, a + d <= b, n + k <= a + x
  PROVE  m + k <= b + x
OBVIOUS

LEMMA SumGrows ==
  ASSUME NEW a \in Int, NEW b \in Int, NEW x \in Int, NEW y \in Int, a <= b, x <= y
  PROVE  a + x <= b + y
OBVIOUS

LEMMA SumStepsUp ==
  ASSUME NEW a \in Int, NEW b, NEW x \in Int, b \in a .. a + 1
  PROVE  b + x \in a + x .. a + x + 1
OBVIOUS

\* The hook of a draining thread, and what the other one can be doing.
LEMMA DrainFacts ==
  ASSUME Good, NEW t \in Drains
  PROVE  /\ TypeInv /\ t \in Drains \cup setup.callers /\ setup.callers \cap Drains = {}
         /\ thread \in [Drains \cup setup.callers -> ThreadType]
         /\ thread[t].at \in Places /\ thread[t].batch \in Seq(Events)
         /\ thread[t].base \in Nat /\ thread[t].doc \in Statuses \cup {Absent}
         /\ thread[t].full \in BOOLEAN
         /\ \A c \in setup.callers : c # t /\ c \notin Drains
         /\ ring \in Seq(Events) /\ calls \in Nat
<1>1. TypeInv
  BY DEF Good
<1>2. QED BY <1>1, TypeFacts DEF TypeInv

\* What the sidecar would say is true when the hook holds nothing.
LEMMA DocumentIsBacked ==
  ASSUME Good, ring = <<>>, \A t \in Drains : thread[t].batch = <<>>
  PROVE  Backed(Document)
<1>1. TypeInv /\ \A t \in Drains : thread[t].batch = <<>>
  BY DEF Good
<1>2. ToSet(<<>>) = {}
  <2>1. <<>> \in Seq(Nat)
    OBVIOUS
  <2>2. QED BY <2>1, MembersOf
<1>3. Held = {}
  BY <1>1, <1>2 DEF Held
<1>4. Lost = (1 .. calls) \ Delivered
  BY <1>3 DEF Lost
<1>5. /\ calls \in Nat /\ counts.dropped \in Nat /\ counts.missed \in Int /\ TornLines \in Nat
      /\ Losses \in Int
  BY <1>1, TypeFacts DEF TypeInv, Losses
<1>6. IsFiniteSet(Lost \cup Owing)
  BY <1>1, HeldWasObserved DEF Good
<1>7. Cardinality((1 .. calls) \ Delivered) <= Cardinality(Lost \cup Owing)
      /\ Cardinality((1 .. calls) \ Delivered) \in Nat /\ Cardinality(Lost \cup Owing) \in Nat
  <2>1. (1 .. calls) \ Delivered \in SUBSET (Lost \cup Owing)
    BY <1>4
  <2>2. IsFiniteSet((1 .. calls) \ Delivered)
        /\ Cardinality((1 .. calls) \ Delivered) <= Cardinality(Lost \cup Owing)
    BY <1>6, <2>1, FS_Subset, Zenon
  <2>3. QED BY <1>6, <2>2, FS_CardinalityType, Zenon
<1>8. Cardinality(Lost \cup Owing) <= Losses + TornLines
  <2> DEFINE n == Cardinality(Lost \cup Owing)
  <2>1. n + (IF stream.cut THEN 1 ELSE 0) <= Losses + TornLines
    BY DEF Good, AccountInv
  <2>2. n \in Nat
    BY <1>7
  <2> HIDE DEF n
  <2>3. n <= Losses + TornLines
    BY <1>5, <2>1, <2>2
  <2>4. QED BY <2>3 DEF n
<1>9. Cardinality((1 .. calls) \ Delivered) <= Losses + TornLines
  BY <1>5, <1>7, <1>8
<1>10. Document.until - 1 = calls /\ Document.dropped = counts.dropped
  BY <1>5 DEF Document
<1>11. Cardinality((1 .. calls) \ Delivered) <= counts.dropped + counts.missed + TornLines
  BY <1>9 DEF Losses
<1>12. QED BY <1>10, <1>11 DEF Backed

LEMMA TakenKeeps ==
  ASSUME Good, Running, NEW t \in Drains, Taken(t)
  PROVE  Good' /\ Quiet
<1> DEFINE D == Drains \cup setup.callers
           v == IF thread[t].batch = <<>> THEN After(t) ELSE "write"
<1>1. /\ thread[t].at = "take" /\ ring = <<>>
      /\ UNCHANGED <<setup, life, calls, ring, counts, stream, sidecar, reader>>
      /\ thread' = [thread EXCEPT ![t].at = v]
  BY DEF Taken
<1>2. /\ TypeInv /\ thread \in [D -> ThreadType] /\ t \in D
      /\ \A c \in setup.callers : c # t /\ c \notin Drains
  BY DrainFacts
<1>3. thread[t].batch = <<>> \/ Python
  BY <1>1 DEF Good, BatchInv
<1>4. life \in {"active", "closing"} /\ (t = "close" => life = "closing")
  BY <1>1 DEF Good, TypeInv, Lives, ControlInv, Drains, Running
<1>5. v \in Places /\ v \in {"status", "done", "idle", "write"}
      /\ (v = "write" <=> thread[t].batch # <<>>)
      /\ (v = "status" => t = "close") /\ (v = "done" => life = "closing") /\ (v = "idle" => t = "drain" /\ life = "active")
      /\ (t = "close" => v \in {"status", "write"})
  BY <1>4 DEF Places, Busy, After, Drains
<1> HIDE DEF v
<1>6. Turned(thread, thread', D, t, v, thread[t].batch, thread[t].base, thread[t].full,
             thread[t].doc)
  BY <1>1, <1>2, <1>5, TurnAt
<1> HIDE DEF D
<1>7. Quiet /\ \A c \in setup.callers : thread'[c] = thread[c]
  BY <1>1, <1>2, <1>3, <1>5, <1>6 DEF Quiet, Turned, D
<1>8. RingInv' /\ BatchInv' /\ DeliveredInv' /\ CountInv' /\ AccountInv'
  BY <1>7, QuietKeepsCounts
<1>9. TypeInv'
  BY <1>1, <1>2, <1>6 DEF TypeInv, D, Turned
<1>10. ControlInv'
  BY <1>1, <1>2, <1>4, <1>5, <1>6 DEF Good, ControlInv, Python, Slow, Faulty, Drains, D, Turned, Busy
<1>11. Delivered' = Delivered /\ TornLines' = TornLines
  BY <1>1 DEF Delivered, TornLines
<1>12. DocumentInv' /\ (~Python' => Backed(sidecar)')
  BY <1>1, <1>2, <1>4, <1>5, <1>6, <1>11, ZenonT(40)
     DEF Good, DocumentInv, Backed, Python, Slow, Faulty, Drains, D, Turned, Document
<1>13. QED BY <1>1, <1>7, <1>8, <1>9, <1>10, <1>12 DEF Good

LEMMA StatedKeeps ==
  ASSUME Good, Running, NEW t \in Drains, Stated(t)
  PROVE  Good' /\ Quiet
<1> DEFINE D == Drains \cup setup.callers
           v == IF t = "close" THEN "off" ELSE IF life = "closing" THEN "done" ELSE "idle"
<1>1. /\ thread[t].at = "stated"
      /\ UNCHANGED <<setup, calls, ring, counts, stream, sidecar, reader>>
      /\ life' = IF t = "close" /\ life = "closing" THEN "over" ELSE life
      /\ thread' = [thread EXCEPT ![t].at = v]
  BY DEF Stated
<1>2. /\ TypeInv /\ thread \in [D -> ThreadType] /\ t \in D
      /\ \A c \in setup.callers : c # t /\ c \notin Drains
  BY DrainFacts
<1>3. thread[t].batch = <<>>
  BY <1>1 DEF Good, BatchInv
<1>4. life \in {"declared", "disowned", "active", "closing"}
      /\ (t = "drain" => life \in {"active", "closing"}) /\ (t = "close" => life # "active")
  BY <1>1 DEF Good, TypeInv, Lives, ControlInv, Drains, Running
<1>5. v \in Places /\ v \in {"off", "done", "idle"}
      /\ (v = "off" <=> t = "close") /\ (v = "done" => life = "closing")
      /\ (v = "idle" => t = "drain" /\ life = "active")
  BY <1>4 DEF Places, Busy, Drains
<1> HIDE DEF v
<1>6. Turned(thread, thread', D, t, v, thread[t].batch, thread[t].base, thread[t].full,
             thread[t].doc)
  BY <1>1, <1>2, <1>5, TurnAt
<1> HIDE DEF D
<1>7. Quiet /\ \A c \in setup.callers : thread'[c] = thread[c]
  BY <1>1, <1>2, <1>3, <1>5, <1>6 DEF Quiet, Turned, D
<1>8. RingInv' /\ BatchInv' /\ DeliveredInv' /\ CountInv' /\ AccountInv'
  BY <1>7, QuietKeepsCounts
<1>9. TypeInv' /\ life' # "killed"
  BY <1>1, <1>2, <1>4, <1>6 DEF TypeInv, D, Turned, Lives
<1>10. ControlInv'
  BY <1>1, <1>2, <1>4, <1>5, <1>6 DEF Good, ControlInv, Python, Slow, Faulty, Drains, D, Turned, Busy
<1>11. Delivered' = Delivered /\ TornLines' = TornLines
  BY <1>1 DEF Delivered, TornLines
<1>12. DocumentInv' /\ (~Python' => Backed(sidecar)')
  <2>1. ~Python' => Backed(sidecar)'
    BY <1>1, <1>11 DEF Good, Backed, Python
  <2>2. CASE t = "close" /\ life = "closing"
    <3>1. life' = "over" /\ Document' = Document
      BY <1>1, <2>2 DEF Document
    <3>2. QED
      BY <1>1, <1>2, <1>5, <1>6, <1>11, <2>2, <3>1
         DEF Good, DocumentInv, Backed, Python, Slow, Faulty, Drains, D, Turned
  <2>3. CASE ~(t = "close" /\ life = "closing")
    BY <1>1, <1>2, <1>4, <1>5, <1>6, <1>11, <2>3, ZenonT(40)
       DEF Good, DocumentInv, Backed, Python, Slow, Faulty, Drains, D, Turned, Document
  <2>4. QED BY <2>1, <2>2, <2>3
<1>13. QED BY <1>1, <1>7, <1>8, <1>9, <1>10, <1>12 DEF Good

\* A document counts what was observed and lost so far, and is a status.
LEMMA DocumentIsStatus ==
  ASSUME TypeInv
  PROVE  Document \in Statuses /\ Document.is = "status" /\ Document.active = (life # "disowned")
BY TypeFacts DEF TypeInv, Document, Statuses, Events

LEMMA OpenStatusKeeps ==
  ASSUME Good, Running, NEW t \in Drains, OpenStatus(t)
  PROVE  Good' /\ Quiet
<1> DEFINE D == Drains \cup setup.callers
<1>1. /\ thread[t].at = "status"
      /\ UNCHANGED <<setup, life, calls, ring, counts, stream, reader>>
      /\ \/ /\ sidecar' = Blank
            /\ thread' = [thread EXCEPT ![t].doc = Document, ![t].at = "fill"]
         \/ /\ Faulty("status") /\ sidecar' = sidecar
            /\ thread' = [thread EXCEPT ![t].at = "stated"]
  BY DEF OpenStatus
<1>2. /\ TypeInv /\ thread \in [D -> ThreadType] /\ t \in D
      /\ \A c \in setup.callers : c # t /\ c \notin Drains
  BY DrainFacts
<1>3. thread[t].batch = <<>>
  BY <1>1 DEF Good, BatchInv
<1>4. life \in {"declared", "disowned", "active", "closing"}
      /\ (t = "drain" => life \in {"active", "closing"}) /\ (t = "close" => life # "active")
  BY <1>1 DEF Good, TypeInv, Lives, ControlInv, Drains, Running
<1>5. PICK v \in {"fill", "stated"}, doc \in Statuses \cup {Absent} :
        /\ Turned(thread, thread', D, t, v, thread[t].batch, thread[t].base, thread[t].full, doc)
        /\ v = "fill" => doc = Document /\ sidecar' = Blank
        /\ v = "stated" => doc = thread[t].doc /\ sidecar' = sidecar /\ Faulty("status")
  <2>1. "fill" \in Places /\ "stated" \in Places
    BY DEF Places, Busy
  <2>2. Document \in Statuses \cup {Absent} /\ thread[t].doc \in Statuses \cup {Absent}
    BY <1>2, DocumentIsStatus, DrainFacts
  <2>3. CASE /\ sidecar' = Blank
             /\ thread' = [thread EXCEPT ![t].doc = Document, ![t].at = "fill"]
    <3> DEFINE doc == Document
    <3>1. thread' = [thread EXCEPT ![t].doc = doc, ![t].at = "fill"] /\ doc \in Statuses \cup {Absent}
      BY <2>2, <2>3
    <3> HIDE DEF doc
    <3>2. Turned(thread, thread', D, t, "fill", thread[t].batch, thread[t].base, thread[t].full, doc)
      BY <1>2, <2>1, <3>1, TurnAtDoc
    <3>3. QED BY <2>3, <3>1, <3>2 DEF doc
  <2>4. CASE /\ Faulty("status") /\ sidecar' = sidecar
             /\ thread' = [thread EXCEPT ![t].at = "stated"]
    <3>1. Turned(thread, thread', D, t, "stated", thread[t].batch, thread[t].base, thread[t].full,
                 thread[t].doc)
      BY <1>2, <2>1, <2>4, TurnAt
    <3>2. QED BY <2>2, <2>4, <3>1
  <2>5. QED BY <1>1, <2>3, <2>4
<1> HIDE DEF D
<1>6. Quiet /\ \A c \in setup.callers : thread'[c] = thread[c]
  BY <1>1, <1>2, <1>3, <1>5 DEF Quiet, Turned, D
<1>7. RingInv' /\ BatchInv' /\ DeliveredInv' /\ CountInv' /\ AccountInv'
  BY <1>6, QuietKeepsCounts
<1>8. TypeInv'
  BY <1>1, <1>2, <1>5 DEF TypeInv, D, Turned
<1>9. ControlInv'
  BY <1>1, <1>2, <1>4, <1>5 DEF Good, ControlInv, Python, Slow, Faulty, Drains, D, Turned, Busy
<1>10. /\ Delivered' = Delivered /\ TornLines' = TornLines /\ Document' = Document
       /\ (Python <=> Python') /\ (Slow <=> Slow') /\ (Faulty("status") <=> Faulty("status")')
       /\ setup.hook = setup'.hook /\ counts'.missed = counts.missed
  BY <1>1 DEF Delivered, TornLines, Document, Python, Slow, Faulty
<1>11. Document.is = "status" /\ Document.active = (life # "disowned")
  BY <1>2, DocumentIsStatus
<1>12. ~Python => Backed(Document)
  <2>1. SUFFICES ASSUME ~Python PROVE Backed(Document)
    OBVIOUS
  <2>2. ring = <<>>
    BY <1>1, <2>1 DEF Good, DocumentInv
  <2>3. \A u \in Drains : thread[u].batch = <<>>
    BY <2>1, <2>2 DEF Good, BatchInv
  <2>4. QED BY <2>2, <2>3, DocumentIsBacked
<1>13. ~Python' => Backed(sidecar)' /\ \A u \in Drains : Backed(thread[u].doc)'
  <2>1. SUFFICES ASSUME ~Python PROVE Backed(sidecar)' /\ \A u \in Drains : Backed(thread[u].doc)'
    BY <1>10
  <2>2. Backed(sidecar)'
    <3>1. CASE sidecar' = Blank
      BY <3>1 DEF Backed, Blank
    <3>2. CASE sidecar' = sidecar
      <4>1. Backed(sidecar)
        BY <2>1 DEF Good
      <4>2. QED BY <1>10, <3>2, <4>1 DEF Backed
    <3>3. QED BY <1>5, <3>1, <3>2
  <2>3. ASSUME NEW u \in Drains PROVE Backed(thread[u].doc)'
    <3>1. thread'[u].doc = thread[u].doc \/ thread'[u].doc = Document
      BY <1>5 DEF Turned, D
    <3>2. Backed(thread[u].doc)
      BY <2>1 DEF Good, DocumentInv
    <3>3. QED BY <1>10, <1>12, <2>1, <3>1, <3>2 DEF Backed
  <2>4. QED BY <2>2, <2>3
<1>14. DocumentInv'
  <2>1. ASSUME ~Python' , life' \in {"new", "declared", "disowned"} PROVE sidecar' = Absent
    BY <1>1, <1>4, <1>10, <2>1 DEF Good, ControlInv, Drains
  <2>2. ~Slow' /\ life' = "closing" /\ thread'["close"].at = "fill" => thread'["close"].doc = Document'
    BY <1>1, <1>2, <1>5, <1>10 DEF Good, DocumentInv, Drains, D, Turned
  <2>3. ~Slow' /\ ~Faulty("status")'
          /\ (life' = "over" \/ (life' = "closing" /\ thread'["close"].at = "stated"))
        => sidecar' = Document'
    BY <1>1, <1>2, <1>4, <1>5, <1>10 DEF Good, DocumentInv, ControlInv, Drains, D, Turned, Busy
  <2>4. /\ Python' /\ life' = "disowned" /\ thread'["close"].at = "fill"
             => thread'["close"].doc.is = "status" /\ ~thread'["close"].doc.active
        /\ Python' /\ life' = "disowned" /\ thread'["close"].at \in {"stated", "off"}
             /\ ~Faulty("status")' => sidecar'.is = "status" /\ ~sidecar'.active
    <3>1. CASE t = "close"
      <4>1. life' = "disowned" => thread'["close"].doc = Document \/ thread'["close"].at # "fill"
        BY <1>1, <1>2, <1>5, <3>1, SMTT(20) DEF Drains, D, Turned
      <4>2. /\ thread'["close"].at \in {"fill", "stated"}
            /\ thread'["close"].at = "stated" => Faulty("status")
        BY <1>1, <1>2, <1>5, <3>1, SMTT(20) DEF Drains, D, Turned
      <4>3. life' = life /\ (Faulty("status")' <=> Faulty("status"))
        BY <1>1, <1>10
      <4>4. life' = "disowned" /\ thread'["close"].at = "fill"
              => thread'["close"].doc.is = "status" /\ ~thread'["close"].doc.active
        BY <1>11, <4>1, <4>3
      <4>5. thread'["close"].at \in {"stated", "off"} => Faulty("status")'
        BY <4>2, <4>3
      <4>6. QED BY <4>4, <4>5, Zenon
    <3>2. CASE t = "drain"
      <4>1. life' \in {"new", "declared", "disowned"} => FALSE
        BY <1>1, <1>4, <3>2, SMTT(20) DEF Good, ControlInv, Drains
      <4>2. QED BY <4>1
    <3>3. QED BY <3>1, <3>2 DEF Drains
  <2>5. /\ ~Slow' /\ (life' = "over" \/ (/\ life' = "closing"
                                         /\ thread'["close"].at \in {"status", "fill", "stated"}))
             => ring' = <<>>
        /\ Python' /\ ~Slow' /\ life' = "closing"
             /\ thread'["close"].at \in {"write", "written", "failed"} => ring' = <<>>
        /\ ~Python' /\ (\E u \in Drains : thread'[u].at \in {"status", "fill", "stated"})
             => ring' = <<>>
    BY <1>1, <1>2, <1>4, <1>5, <1>10 DEF Good, DocumentInv, Drains, D, Turned
  <2>6. \A u \in Drains : thread'[u].at = "fill" => thread'[u].doc # Absent
    BY <1>5, <1>11 DEF Good, DocumentInv, Drains, D, Turned, Absent
  <2>7. QED BY <1>13, <2>1, <2>2, <2>3, <2>4, <2>5, <2>6 DEF DocumentInv
<1>15. QED BY <1>1, <1>6, <1>7, <1>8, <1>9, <1>13, <1>14 DEF Good

LEMMA FillStatusKeeps ==
  ASSUME Good, Running, NEW t \in Drains, FillStatus(t)
  PROVE  Good' /\ Quiet
<1> DEFINE D == Drains \cup setup.callers
<1>1. /\ thread[t].at = "fill"
      /\ UNCHANGED <<setup, life, calls, ring, counts, stream, reader>>
      /\ sidecar' = thread[t].doc \/ (Faulty("status") /\ sidecar' = Blank)
      /\ thread' = [thread EXCEPT ![t].at = "stated", ![t].doc = Absent]
  BY DEF FillStatus
<1>2. /\ TypeInv /\ thread \in [D -> ThreadType] /\ t \in D
      /\ \A c \in setup.callers : c # t /\ c \notin Drains
      /\ thread[t].doc \in Statuses \cup {Absent}
  BY DrainFacts
<1>3. thread[t].batch = <<>>
  BY <1>1 DEF Good, BatchInv
<1>4. life \in {"declared", "disowned", "active", "closing"}
      /\ (t = "drain" => life \in {"active", "closing"}) /\ (t = "close" => life # "active")
  BY <1>1 DEF Good, TypeInv, Lives, ControlInv, Drains, Running
<1>5. Turned(thread, thread', D, t, "stated", thread[t].batch, thread[t].base, thread[t].full, Absent)
  <2>1. "stated" \in Places /\ Absent \in Statuses \cup {Absent}
    BY DEF Places, Busy
  <2>2. QED BY <1>1, <1>2, <2>1, TurnAtDoc
<1> HIDE DEF D
<1>6. Quiet /\ \A c \in setup.callers : thread'[c] = thread[c]
  BY <1>1, <1>2, <1>3, <1>5 DEF Quiet, Turned, D
<1>7. RingInv' /\ BatchInv' /\ DeliveredInv' /\ CountInv' /\ AccountInv'
  BY <1>6, QuietKeepsCounts
<1>8. TypeInv'
  BY <1>1, <1>2, <1>5 DEF TypeInv, D, Turned
<1>9. ControlInv'
  BY <1>1, <1>2, <1>4, <1>5 DEF Good, ControlInv, Python, Slow, Faulty, Drains, D, Turned, Busy
<1>10. /\ Delivered' = Delivered /\ TornLines' = TornLines /\ Document' = Document
       /\ (Python <=> Python') /\ (Slow <=> Slow') /\ (Faulty("status") <=> Faulty("status")')
       /\ counts'.missed = counts.missed
  BY <1>1 DEF Delivered, TornLines, Document, Python, Slow, Faulty
<1>11. ~Python' => Backed(sidecar)' /\ \A u \in Drains : Backed(thread[u].doc)'
  <2>1. SUFFICES ASSUME ~Python PROVE Backed(sidecar)' /\ \A u \in Drains : Backed(thread[u].doc)'
    BY <1>10
  <2>2. \A u \in Drains : Backed(thread[u].doc)
    BY <2>1 DEF Good, DocumentInv
  <2>3. Backed(sidecar)'
    BY <1>1, <1>10, <2>2 DEF Backed, Blank
  <2>4. ASSUME NEW u \in Drains PROVE Backed(thread[u].doc)'
    <3>1. thread'[u].doc = thread[u].doc \/ thread'[u].doc = Absent
      BY <1>5 DEF Turned, D
    <3>2. QED BY <1>10, <2>2, <3>1 DEF Backed, Absent
  <2>5. QED BY <2>3, <2>4
<1>12. DocumentInv'
  <2>1. ASSUME ~Python' , life' \in {"new", "declared", "disowned"} PROVE sidecar' = Absent
    BY <1>1, <1>4, <1>10, <2>1 DEF Good, ControlInv, Drains
  <2>2. ~Slow' /\ life' = "closing" /\ thread'["close"].at = "fill" => thread'["close"].doc = Document'
    BY <1>1, <1>2, <1>5, <1>10 DEF Good, DocumentInv, Drains, D, Turned
  <2>3. ~Slow' /\ ~Faulty("status")'
          /\ (life' = "over" \/ (life' = "closing" /\ thread'["close"].at = "stated"))
        => sidecar' = Document'
    BY <1>1, <1>2, <1>4, <1>5, <1>10 DEF Good, DocumentInv, ControlInv, Drains, D, Turned, Busy
  <2>4. /\ Python' /\ life' = "disowned" /\ thread'["close"].at = "fill"
             => thread'["close"].doc.is = "status" /\ ~thread'["close"].doc.active
        /\ Python' /\ life' = "disowned" /\ thread'["close"].at \in {"stated", "off"}
             /\ ~Faulty("status")' => sidecar'.is = "status" /\ ~sidecar'.active
    BY <1>1, <1>2, <1>4, <1>5, <1>10 DEF Good, DocumentInv, Drains, D, Turned
  <2>5. /\ ~Slow' /\ (life' = "over" \/ (/\ life' = "closing"
                                         /\ thread'["close"].at \in {"status", "fill", "stated"}))
             => ring' = <<>>
        /\ Python' /\ ~Slow' /\ life' = "closing"
             /\ thread'["close"].at \in {"write", "written", "failed"} => ring' = <<>>
        /\ ~Python' /\ (\E u \in Drains : thread'[u].at \in {"status", "fill", "stated"})
             => ring' = <<>>
    BY <1>1, <1>2, <1>4, <1>5, <1>10 DEF Good, DocumentInv, Drains, D, Turned
  <2>6. \A u \in Drains : thread'[u].at = "fill" => thread'[u].doc # Absent
    BY <1>5 DEF Good, DocumentInv, Drains, D, Turned
  <2>7. QED BY <1>11, <2>1, <2>2, <2>3, <2>4, <2>5, <2>6 DEF DocumentInv
<1>13. QED BY <1>1, <1>6, <1>7, <1>8, <1>9, <1>11, <1>12 DEF Good

LEMMA LookKeeps ==
  ASSUME Good, NEW c \in setup.callers, Look(c)
  PROVE  Good' /\ Quiet
<1> DEFINE D == Drains \cup setup.callers
           full == Len(ring) >= setup.capacity
<1>1. /\ Python /\ Calling /\ thread[c].at = "off" /\ calls + Arriving < MaxCalls
      /\ UNCHANGED <<setup, life, calls, ring, counts, stream, sidecar, reader>>
      /\ thread' = [thread EXCEPT ![c] = [@ EXCEPT !.at = "put", !.full = full]]
  BY DEF Look
<1>2. /\ TypeInv /\ thread \in [D -> ThreadType] /\ c \in D /\ c \notin Drains
      /\ setup.callers \cap Drains = {} /\ Len(ring) \in Nat /\ setup.capacity \in Nat
      /\ calls \in Nat /\ MaxCalls \in Nat /\ IsFiniteSet(setup.callers)
  BY TypeFacts DEF Good, TypeInv
<1>3. Turned(thread, thread', D, c, "put", thread[c].batch, thread[c].base, full, thread[c].doc)
  <2>1. "put" \in Places /\ full \in BOOLEAN
    BY DEF Places
  <2> HIDE DEF full
  <2>2. thread' = [thread EXCEPT ![c] = [@ EXCEPT !.at = "put", !.full = full]]
        /\ thread \in [D -> ThreadType] /\ c \in D
    BY <1>1, <1>2 DEF full
  <2>3. Turned(thread, [thread EXCEPT ![c] = [@ EXCEPT !.at = "put", !.full = full]],
               D, c, "put", thread[c].batch, thread[c].base, full, thread[c].doc)
    BY <2>1, <2>2, TurnAtFull, Zenon
  <2>4. QED BY <2>2, <2>3, Zenon
<1> HIDE DEF D
<1>4. Quiet
  BY <1>1, <1>2, <1>3 DEF Quiet, Turned, D
<1>5. InOrder(ring', calls') /\ BatchInv' /\ DeliveredInv' /\ AccountInv'
  BY <1>4, QuietKeepsCalls DEF Good
<1>6. calls' + Arriving' <= MaxCalls /\ Arriving \in Nat
  <2> DEFINE P == {x \in setup.callers : thread[x].at = "put"}
  <2>1. {x \in setup'.callers : thread'[x].at = "put"} = P \cup {c}
    BY <1>1, <1>3 DEF Turned, D
  <2>2. c \notin P /\ P \in SUBSET setup.callers
    BY <1>1
  <2>3. IsFiniteSet(P)
    BY <1>2, <2>2, FS_Subset, Zenon
  <2>4. Arriving' = Cardinality(P \cup {c}) /\ Arriving = Cardinality(P)
    BY <2>1 DEF Arriving
  <2> HIDE DEF P
  <2>5. Cardinality(P \cup {c}) = Cardinality(P) + 1 /\ Cardinality(P) \in Nat
    BY <2>2, <2>3, FS_AddElement, FS_CardinalityType
  <2>6. QED BY <1>1, <1>2, <2>4, <2>5
<1>7. RingInv'
  BY <1>1, <1>5, <1>6 DEF RingInv, Calling
<1>8. CountInv'
  <2>1. Len(ring) <= calls /\ calls < MaxCalls
    BY <1>1, <1>2, <1>6 DEF Good, RingInv, InOrder
  <2>2. ASSUME CountsEveryLoss(setup), NEW x \in setup.callers, thread'[x].at = "put"
        PROVE  /\ thread'[x].full \/ Len(ring) < setup.capacity
               /\ MaxCalls <= setup.capacity => ~thread'[x].full
    <3>1. CASE x = c
      <4>1. thread'[x].full = full
        BY <1>3, <3>1, Zenon DEF Turned
      <4>2. CASE Len(ring) >= setup.capacity
        <5>1. thread'[x].full = TRUE
          BY <4>1, <4>2
        <5>2. QED BY <1>2, <2>1, <4>2, <5>1
      <4>3. CASE ~(Len(ring) >= setup.capacity)
        <5>1. thread'[x].full = FALSE
          <6>1. full = FALSE
            BY <4>3
          <6> HIDE DEF full
          <6>2. QED BY <4>1, <6>1, Zenon
        <5>2. QED BY <1>2, <4>3, <5>1
      <4>4. QED BY <4>2, <4>3
    <3>2. CASE x # c
      BY <1>3, <2>2, <3>2 DEF Good, CountInv, Turned, D
    <3>3. QED BY <3>1, <3>2
  <2>3. ASSUME NEW t \in Drains, thread'[t].at = "failed"
        PROVE  Faulty("append") /\ (CountsEveryLoss(setup) => thread'[t].base = counts.dropped)
    BY <1>2, <1>3, <2>3 DEF Good, CountInv, Turned, D
  <2>4. CountsEveryLoss(setup) => counts.missed = 0
    BY DEF Good, CountInv
  <2>5. QED BY <1>1, <2>2, <2>3, <2>4 DEF CountInv, Faulty
<1>9. TypeInv'
  BY <1>1, <1>2, <1>3 DEF TypeInv, D, Turned
<1>10. ControlInv'
  BY <1>1, <1>2, <1>3
     DEF Good, ControlInv, Python, Slow, Faulty, Calling, Drains, D, Turned, Busy
<1>11. Delivered' = Delivered /\ TornLines' = TornLines
  BY <1>1 DEF Delivered, TornLines
<1>12. DocumentInv' /\ (~Python' => Backed(sidecar)')
  BY <1>1, <1>2, <1>3, <1>11
     DEF Good, DocumentInv, Backed, Python, Slow, Faulty, Drains, D, Turned, Document
<1>13. QED BY <1>1, <1>4, <1>5, <1>7, <1>8, <1>9, <1>10, <1>12 DEF Good

(***************************************************************************)
(* Observing a call                                                        *)
(***************************************************************************)

\* What submit and record have in common: the call goes into the ring, and what a full
\* ring gives up for it is counted or missed.
Observed ==
  /\ life \in {"active", "closing"} /\ life' = life
  /\ calls' = calls + 1 /\ ring' = Appended(calls + 1)
  /\ UNCHANGED <<setup, stream, sidecar>>
  /\ counts' \in CountsType
  /\ Losses' \in Losses .. Losses + 1
  /\ Len(ring) >= setup.capacity => Losses' = Losses + 1
  /\ thread' \in [Drains \cup setup.callers -> ThreadType]
  /\ \A t \in Drains :
       /\ thread'[t].batch = thread[t].batch /\ thread'[t].base = thread[t].base
       /\ thread'[t].doc = thread[t].doc
       /\ \/ thread'[t].at = thread[t].at
          \/ thread[t].at \notin Busy /\ thread'[t].at \notin Busy
       /\ ~Python => thread[t].at \notin Busy

LEMMA ObservedRing ==
  ASSUME Good, Observed
  PROVE  /\ ring' \in Seq(Events) /\ calls' \in Nat /\ InOrder(ring', calls')
         /\ ToSet(ring') = calls' - Len(ring') + 1 .. calls'
         /\ Len(ring') \in Nat \ {0}
         /\ Len(ring) < setup.capacity => Len(ring') = Len(ring) + 1
         /\ ~(Len(ring) < setup.capacity) => Len(ring') = Len(ring) /\ ring # <<>>
<1>1. /\ TypeInv /\ ring \in Seq(Events) /\ calls \in Nat /\ InOrder(ring, calls)
      /\ Len(ring) \in Nat /\ setup.capacity \in Nat \ {0} /\ calls' = calls + 1
      /\ ring' = Appended(calls + 1)
  BY TypeFacts DEF Good, TypeInv, RingInv, Observed
<1>2. /\ ring' \in Seq(Events) /\ InOrder(ring', calls + 1)
      /\ Len(ring) < setup.capacity => Len(ring') = Len(ring) + 1
      /\ ~(Len(ring) < setup.capacity) => Len(ring') = Len(ring) /\ ring # <<>>
  <2>1. CASE Len(ring) < setup.capacity
    <3>1. ring' = Append(ring, calls + 1)
      BY <1>1, <2>1 DEF Appended
    <3>2. /\ Append(ring, calls + 1) \in Seq(Events) /\ Len(Append(ring, calls + 1)) = Len(ring) + 1
          /\ InOrder(Append(ring, calls + 1), calls + 1)
      BY <1>1, RingAppended
    <3>3. QED BY <2>1, <3>1, <3>2
  <2>2. CASE ~(Len(ring) < setup.capacity)
    <3> DEFINE q == Tail(ring)
    <3>1. ring' = Append(q, calls + 1)
      BY <1>1, <2>2 DEF Appended
    <3>2. ring # <<>>
      <4>1. Len(ring) # 0
        BY <1>1, <2>2
      <4>2. Len(<<>>) = 0
        OBVIOUS
      <4>3. QED BY <4>1, <4>2
    <3>3. q \in Seq(Events) /\ Len(q) = Len(ring) - 1 /\ InOrder(q, calls)
      BY <1>1, <3>2, RingTail
    <3> HIDE DEF q
    <3>4. /\ Append(q, calls + 1) \in Seq(Events) /\ Len(Append(q, calls + 1)) = Len(q) + 1
          /\ InOrder(Append(q, calls + 1), calls + 1)
      BY <1>1, <3>3, RingAppended
    <3>5. ring' \in Seq(Events) /\ InOrder(ring', calls + 1) /\ Len(ring') = Len(q) + 1
      BY <3>1, <3>4, Zenon
    <3>6. Len(ring') = Len(ring)
      BY <1>1, <3>3, <3>5
    <3>7. QED BY <2>2, <3>2, <3>5, <3>6
  <2>3. QED BY <2>1, <2>2
<1>3. calls' \in Nat /\ InOrder(ring', calls')
  BY <1>1, <1>2
<1>4. ToSet(ring') = calls' - Len(ring') + 1 .. calls'
  BY <1>2, <1>3, RingMembers, Zenon
<1>5. Len(ring') \in Nat \ {0}
  BY <1>1, <1>2
<1>6. QED BY <1>2, <1>3, <1>4, <1>5

LEMMA ObservedKeepsCalls ==
  ASSUME Good, Observed
  PROVE  /\ BatchInv' /\ DeliveredInv' /\ AccountInv'
         /\ Delivered' = Delivered /\ TornLines' = TornLines
         /\ Held' \subseteq Held \cup {calls'} /\ calls' \in Held' /\ calls' \notin Delivered
<1>1. /\ TypeInv /\ ring \in Seq(Events) /\ calls \in Nat /\ Len(ring) \in Nat /\ Len(ring) <= calls
      /\ setup' = setup /\ stream' = stream /\ calls' = calls + 1
      /\ Losses \in Int /\ TornLines \in Nat /\ setup.capacity \in Nat \ {0}
  BY TypeFacts DEF Good, TypeInv, RingInv, InOrder, Observed
<1>2. /\ (Python <=> Python') /\ Delivered' = Delivered /\ TornLines' = TornLines
  BY <1>1 DEF Python, Delivered, TornLines
<1>3. /\ ToSet(ring) = calls - Len(ring) + 1 .. calls
      /\ \A t \in Drains : ToSet(thread[t].batch) \subseteq 1 .. calls
      /\ IsFiniteSet(Lost \cup Owing)
  BY <1>1, HeldWasObserved DEF Good
<1>4. /\ ToSet(ring') = calls + 1 - Len(ring') + 1 .. calls + 1
      /\ Len(ring') \in Nat \ {0}
      /\ Len(ring) < setup.capacity => Len(ring') = Len(ring) + 1
      /\ ~(Len(ring) < setup.capacity) => Len(ring') = Len(ring) /\ ring # <<>>
  BY <1>1, ObservedRing
<1>5. \A t \in Drains :
        /\ thread'[t].batch = thread[t].batch
        /\ thread'[t].at \in Busy \/ thread[t].at \in Busy => thread'[t].at = thread[t].at
        /\ ~Python => thread[t].at \notin Busy /\ thread'[t].at \notin Busy
  BY DEF Observed
<1>6. calls - Len(ring) <= calls' - Len(ring')
  BY <1>1, <1>4
<1>7. BatchInv'
  <2>1. ASSUME NEW t \in Drains
        PROVE  /\ Rising(thread'[t].batch)
               /\ Python => ToSet(thread'[t].batch) \subseteq 1 .. calls' - Len(ring')
               /\ ~Python => thread'[t].batch = IF thread'[t].at \in {"write", "written", "failed"}
                                                THEN ring' ELSE <<>>
               /\ thread'[t].at \notin {"take", "write", "written", "failed"} => thread'[t].batch = <<>>
               /\ thread'[t].at \in {"write", "written", "failed"} => thread'[t].batch # <<>>
               /\ thread'[t].at \in {"take", "write"} => ToSet(thread'[t].batch) \cap Delivered = {}
    <3>1. Rising(thread'[t].batch)
      BY <1>5 DEF Good, BatchInv
    <3>2. ASSUME Python PROVE ToSet(thread'[t].batch) \subseteq 1 .. calls' - Len(ring')
      <4>1. ToSet(thread[t].batch) \subseteq 1 .. calls - Len(ring)
        BY <3>2, Zenon DEF Good, BatchInv
      <4>2. QED BY <1>1, <1>4, <1>5, <1>6, <4>1
    <3>3. ASSUME ~Python
          PROVE  thread'[t].batch = IF thread'[t].at \in {"write", "written", "failed"}
                                    THEN ring' ELSE <<>>
      BY <1>5, <3>3 DEF Good, BatchInv, Busy
    <3>4. /\ thread'[t].at \notin {"take", "write", "written", "failed"} => thread'[t].batch = <<>>
          /\ thread'[t].at \in {"write", "written", "failed"} => thread'[t].batch # <<>>
          /\ thread'[t].at \in {"take", "write"} => ToSet(thread'[t].batch) \cap Delivered = {}
      BY <1>5 DEF Good, BatchInv, Busy
    <3>5. QED BY <3>1, <3>2, <3>3, <3>4
  <2>2. Python => ToSet(thread'["drain"].batch) \cap ToSet(thread'["close"].batch) = {}
    BY <1>5 DEF Good, BatchInv, Drains
  <2>3. QED BY <1>2, <2>1, <2>2 DEF BatchInv
<1>8. Delivered \subseteq 1 .. calls - Len(ring)
  BY <1>5 DEF Good, DeliveredInv, Busy
<1>9. DeliveredInv'
  <2>1. Delivered \subseteq 1 .. calls' - Len(ring') /\ Delivered \subseteq 1 .. calls'
    BY <1>1, <1>4, <1>6, <1>8
  <2>2. life' \notin {"new", "declared", "disowned"}
    BY DEF Observed
  <2>3. QED BY <1>2, <2>1, <2>2 DEF DeliveredInv
<1>10. calls' \in Held' /\ calls' \notin Delivered /\ Held' \subseteq Held \cup {calls'}
  <2>1. calls' \in ToSet(ring') /\ calls' \notin Delivered
    BY <1>1, <1>4, <1>8
  <2>2. ToSet(ring') \subseteq ToSet(ring) \cup {calls'}
    BY <1>1, <1>3, <1>4
  <2>3. QED BY <1>5, <2>1, <2>2 DEF Held
<1>11. Owing' = Owing
  BY <1>2, <1>5 DEF Owing, Busy
<1>12. CASE Len(ring) < setup.capacity
  <2>1. Lost' \subseteq Lost
    <3>1. ToSet(ring') = ToSet(ring) \cup {calls'}
      BY <1>1, <1>3, <1>4, <1>12
    <3>2. Held \subseteq Held'
      BY <1>5, <3>1 DEF Held
    <3>3. ASSUME NEW e \in Lost' PROVE e \in Lost
      BY <1>1, <1>2, <1>10, <3>2 DEF Lost
    <3>4. QED BY <3>3
  <2>2. (Lost' \cup Owing') \in SUBSET (Lost \cup Owing)
    BY <1>11, <2>1
  <2> DEFINE n == Cardinality(Lost \cup Owing)
             m == Cardinality(Lost' \cup Owing')
             k == IF stream.cut THEN 1 ELSE 0
  <2>3. n \in Nat /\ m \in Nat /\ m <= n
    BY <1>3, <2>2, FS_Subset, FS_CardinalityType
  <2>4. n + k <= Losses + TornLines
    BY DEF Good, AccountInv
  <2>5. Losses' \in Int /\ Losses <= Losses' /\ k \in {0, 1}
    BY <1>1 DEF Observed
  <2> HIDE DEF n, m, k
  <2>6. m + k <= Losses' + TornLines
    <3>1. m <= n + 0 /\ Losses + 0 <= Losses' /\ n \in Int /\ m \in Int /\ k \in Int /\ TornLines \in Int
      BY <1>1, <2>3, <2>5
    <3>2. QED BY <1>1, <2>4, <2>5, <3>1, StillPaid, 0 \in Int, Zenon
  <2>7. AccountInv'
    BY <1>1, <1>2, <2>6 DEF AccountInv, m, k
  <2>8. QED BY <1>2, <1>7, <1>9, <1>10, <2>7
<1>13. CASE ~(Len(ring) < setup.capacity)
  <2> DEFINE gone == calls - Len(ring) + 1
  <2>1. Lost' \subseteq Lost \cup {gone}
    <3>1. ToSet(ring') = (ToSet(ring) \cup {calls'}) \ {gone}
      BY <1>1, <1>3, <1>4, <1>13
    <3>2. Held \subseteq Held' \cup {gone}
      BY <1>5, <3>1 DEF Held
    <3>3. ASSUME NEW e \in Lost' , e # gone PROVE e \in Lost
      BY <1>1, <1>2, <1>10, <3>2, <3>3 DEF Lost
    <3>4. QED BY <3>3
  <2> HIDE DEF gone
  <2>2. Lost' \cup Owing' \subseteq (Lost \cup Owing) \cup {gone}
    BY <1>11, <2>1
  <2>3. IsFiniteSet({gone}) /\ Cardinality({gone}) = 1
    BY FS_Singleton
  <2> DEFINE n == Cardinality(Lost \cup Owing)
             m == Cardinality(Lost' \cup Owing')
             k == IF stream.cut THEN 1 ELSE 0
  <2>4. m \in Nat /\ n \in Nat /\ m <= n + Cardinality({gone})
    BY <1>3, <2>2, <2>3, CountGrows
  <2>5. n + k <= Losses + TornLines
    BY DEF Good, AccountInv
  <2>6. Losses' = Losses + 1 /\ k \in {0, 1}
    BY <1>1, <1>13 DEF Observed
  <2> HIDE DEF n, m, k
  <2>7. m + k <= Losses' + TornLines
    BY <1>1, <2>3, <2>4, <2>5, <2>6
  <2>8. AccountInv'
    BY <1>1, <1>2, <2>7 DEF AccountInv, m, k
  <2>9. QED BY <1>2, <1>7, <1>9, <1>10, <2>8
<1>14. QED BY <1>12, <1>13

\* Where every loss is counted: one caller, or a ring no call of this process can fill.
LEMMA PutFacts ==
  ASSUME CountsEveryLoss(setup), Good, Python
  PROVE  /\ MaxCalls <= setup.capacity \/ \A c, x \in setup.callers : c = x
         /\ Faulty("append") => MaxCalls <= setup.capacity /\ ~Slow
<1>1. /\ Cardinality(setup.callers) <= 1 \/ MaxCalls <= setup.capacity
      /\ "append" \in setup.faults =>
           MaxCalls <= setup.capacity /\ setup.faults \cap {"slow", "daemon"} = {}
  BY DEF CountsEveryLoss, Python
<1>2. ASSUME Cardinality(setup.callers) <= 1, NEW c \in setup.callers, NEW x \in setup.callers, c # x
      PROVE  FALSE
  <2>1. IsFiniteSet(setup.callers) /\ {c, x} \in SUBSET setup.callers
    BY TypeFacts DEF Good
  <2>2. IsFiniteSet({c}) /\ Cardinality({c}) = 1
    BY FS_Singleton
  <2>3. Cardinality({c} \cup {x}) = Cardinality({c}) + 1
    BY <1>2, <2>2, FS_AddElement
  <2>4. {c, x} = {c} \cup {x}
    OBVIOUS
  <2>5. Cardinality({c, x}) <= Cardinality(setup.callers)
    BY <2>1, FS_Subset, Zenon
  <2>6. Cardinality(setup.callers) \in Nat
    BY <2>1, FS_CardinalityType, Zenon
  <2>7. QED BY <1>2, <2>2, <2>3, <2>4, <2>5, <2>6
<1>3. QED BY <1>1, <1>2 DEF Slow, Faulty

\* What an assignment to the counts makes of them.
LEMMA CountedLoss ==
  ASSUME NEW r \in CountsType, NEW n \in Nat, NEW s, s = [r EXCEPT !.dropped = n]
  PROVE  s \in CountsType /\ s.dropped = n /\ s.missed = r.missed
BY DEF CountsType

LEMMA CountedLine ==
  ASSUME NEW r \in CountsType, NEW n \in Nat, NEW s, s = [r EXCEPT !.written = n]
  PROVE  s \in CountsType /\ s.dropped = r.dropped /\ s.missed = r.missed
BY DEF CountsType

LEMMA PutKeeps ==
  ASSUME Good, NEW c \in setup.callers, Put(c)
  PROVE  Good' /\ Observed
<1> DEFINE D == Drains \cup setup.callers
           v == Started
           more == IF thread[c].full THEN 1 ELSE 0
           gone == IF Unseen(c) THEN 1 ELSE 0
<1>1. /\ thread[c].at = "put" /\ Calling
      /\ UNCHANGED <<setup, life, stream, sidecar, reader>>
      /\ calls' = calls + 1 /\ ring' = Appended(calls + 1)
      /\ counts' = [counts EXCEPT !.dropped = @ + more, !.missed = @ + gone]
      /\ thread' = [thread EXCEPT ![c].at = "off", !["drain"].at = v]
  BY DEF Put
<1>2. /\ TypeInv /\ thread \in [D -> ThreadType] /\ c \in D /\ c \notin Drains /\ "drain" \in D
      /\ setup.callers \cap Drains = {} /\ Len(ring) \in Nat /\ setup.capacity \in Nat \ {0}
      /\ calls \in Nat /\ MaxCalls \in Nat /\ IsFiniteSet(setup.callers) /\ Python
      /\ counts.dropped \in Nat /\ counts.missed \in Int /\ thread["drain"].at \in Places
      /\ life \in {"active", "closing"} /\ (life = "active" => thread["close"].at = "off")
      /\ (life = "closing" => Slow)
  BY <1>1, TypeFacts DEF Good, TypeInv, ControlInv, Drains, Calling, Slow
<1>3. /\ v \in Places /\ v = (IF thread["drain"].at = "off" THEN "idle" ELSE thread["drain"].at)
      /\ more \in {0, 1} /\ gone \in {0, 1} /\ more + gone \in {0, 1}
      /\ (thread[c].full => more = 1) /\ (~thread[c].full => more = 0) /\ (Unseen(c) <=> gone = 1)
  BY <1>2 DEF Started, Places, Busy, Unseen
<1> HIDE DEF v, more, gone, D
<1>4. /\ thread' \in [D -> ThreadType] /\ thread'[c].at = "off" /\ thread'["drain"].at = v
      /\ \A x \in D : /\ thread'[x].batch = thread[x].batch /\ thread'[x].base = thread[x].base
                      /\ thread'[x].full = thread[x].full /\ thread'[x].doc = thread[x].doc
                      /\ x \notin {c, "drain"} => thread'[x] = thread[x]
  <2>1. c # "drain" /\ c \in D /\ "drain" \in D /\ "off" \in Places
        /\ thread \in [D -> ThreadType] /\ v \in Places
    BY <1>2, <1>3 DEF Drains, Places
  <2> DEFINE g == [thread EXCEPT ![c].at = "off"]
             h == [g EXCEPT !["drain"].at = v]
  <2>2. thread' = h
    BY <1>1
  <2>3. Turned(thread, g, D, c, "off", thread[c].batch, thread[c].base,
               thread[c].full, thread[c].doc)
    BY <2>1, TurnAt
  <2> HIDE DEF g
  <2>4. g \in [D -> ThreadType]
    BY <2>3 DEF Turned
  <2>5. Turned(g, h, D, "drain", v, g["drain"].batch, g["drain"].base, g["drain"].full,
               g["drain"].doc)
    BY <2>1, <2>4, TurnAt
  <2> HIDE DEF h
  <2>6. QED BY <2>1, <2>2, <2>3, <2>5 DEF Turned
<1>5. /\ counts' \in CountsType /\ counts'.dropped = counts.dropped + more
      /\ counts'.missed = counts.missed + gone
  <2>1. counts \in CountsType
    BY <1>2 DEF TypeInv
  <2>2. counts.dropped + more \in Nat /\ counts.missed + gone \in Int
    BY <1>2, <1>3
  <2>3. counts' = [counts EXCEPT !.dropped = counts.dropped + more, !.missed = counts.missed + gone]
    BY <1>1
  <2> DEFINE n == counts.dropped + more
             m == counts.missed + gone
  <2>4. n \in Nat /\ m \in Int /\ counts' = [counts EXCEPT !.dropped = n, !.missed = m]
    BY <2>2, <2>3
  <2> HIDE DEF n, m
  <2>5. counts' \in CountsType /\ counts'.dropped = n /\ counts'.missed = m
    BY <2>1, <2>4 DEF CountsType
  <2>6. QED BY <2>5 DEF n, m
<1>6. ASSUME CountsEveryLoss(setup)
      PROVE  /\ gone = 0 /\ counts.missed = 0
             /\ MaxCalls <= setup.capacity => more = 0
  BY <1>1, <1>2, <1>3, <1>6 DEF Good, CountInv, Unseen
<1>7. Observed
  <2>1. Len(ring) >= setup.capacity => Losses' = Losses + 1
    BY <1>2, <1>3, <1>5 DEF Unseen, Losses
  <2>2. Losses' \in Losses .. Losses + 1
    <3>1. Losses' = Losses + (more + gone) /\ Losses \in Int
      BY <1>2, <1>3, <1>5 DEF Losses
    <3>2. QED BY <1>3, <3>1
  <2>3. \A t \in Drains :
          /\ thread'[t].batch = thread[t].batch /\ thread'[t].base = thread[t].base
          /\ thread'[t].doc = thread[t].doc
          /\ \/ thread'[t].at = thread[t].at
             \/ thread[t].at \notin Busy /\ thread'[t].at \notin Busy
    BY <1>2, <1>3, <1>4 DEF Drains, D, Busy
  <2>4. QED BY <1>1, <1>2, <1>4, <1>5, <2>1, <2>2, <2>3 DEF Observed, D
<1>8. /\ BatchInv' /\ DeliveredInv' /\ AccountInv'
      /\ Delivered' = Delivered /\ TornLines' = TornLines
  BY <1>7, ObservedKeepsCalls
<1>9. /\ ring' \in Seq(Events) /\ calls' \in Nat /\ InOrder(ring', calls')
      /\ Len(ring') \in Nat \ {0} /\ Len(ring') <= calls'
      /\ Len(ring) < setup.capacity => Len(ring') = Len(ring) + 1
      /\ ~(Len(ring) < setup.capacity) => Len(ring') = Len(ring)
  BY <1>7, ObservedRing DEF InOrder
<1> DEFINE P == {x \in setup.callers : thread[x].at = "put"}
<1>10. /\ calls' + Arriving' <= MaxCalls /\ Arriving' \in Nat
       /\ \A x \in setup.callers : thread'[x].at = "put" => calls' < MaxCalls
  <2>1. {x \in setup'.callers : thread'[x].at = "put"} = P \ {c}
    BY <1>1, <1>2, <1>4 DEF Drains, D
  <2>2. c \in P /\ P \in SUBSET setup.callers
    BY <1>1
  <2>3. IsFiniteSet(P)
    BY <1>2, <2>2, FS_Subset, Zenon
  <2>4. Arriving' = Cardinality(P \ {c}) /\ Arriving = Cardinality(P)
    BY <2>1 DEF Arriving
  <2>5. \A x \in setup.callers : thread'[x].at = "put" => x \in P \ {c}
    BY <1>1, <2>1
  <2> HIDE DEF P
  <2>6. /\ IsFiniteSet(P \ {c}) /\ Cardinality(P \ {c}) = Cardinality(P) - 1
        /\ Cardinality(P) \in Nat /\ Cardinality(P \ {c}) \in Nat
        /\ (Cardinality(P \ {c}) = 0 <=> P \ {c} = {})
    BY <2>2, <2>3, FS_RemoveElement, FS_CardinalityType, FS_EmptySet
  <2>7. calls + Arriving <= MaxCalls
    BY DEF Good, RingInv
  <2>8. calls' + Arriving' <= MaxCalls /\ Arriving' \in Nat
    BY <1>1, <1>2, <2>4, <2>6, <2>7
  <2>9. ASSUME NEW x \in setup.callers, thread'[x].at = "put" PROVE calls' < MaxCalls
    <3>1. Cardinality(P \ {c}) # 0
      BY <2>5, <2>6, <2>9
    <3>2. QED BY <1>2, <1>9, <2>4, <2>6, <2>8, <3>1
  <2>10. QED BY <2>8, <2>9
<1>11. RingInv'
  BY <1>1, <1>2, <1>9, <1>10 DEF RingInv
<1>12. CountInv'
  <2>1. ASSUME CountsEveryLoss(setup), NEW x \in setup.callers, thread'[x].at = "put"
        PROVE  /\ thread'[x].full \/ Len(ring') < setup.capacity
               /\ MaxCalls <= setup.capacity => ~thread'[x].full
    <3>1. x # c /\ thread'[x] = thread[x] /\ thread[x].at = "put"
      BY <1>2, <1>4, <2>1 DEF D, Drains
    <3>2. MaxCalls <= setup.capacity
      BY <1>2, <2>1, <3>1, PutFacts
    <3>3. calls' < MaxCalls
      BY <1>10, <2>1
    <3>4. Len(ring') < setup.capacity
      BY <1>2, <1>9, <3>2, <3>3
    <3>5. QED BY <2>1, <3>1, <3>4 DEF Good, CountInv
  <2>2. ASSUME NEW t \in Drains, thread'[t].at = "failed"
        PROVE  Faulty("append") /\ thread[t].at = "failed" /\ thread'[t].base = thread[t].base
    <3>1. thread[t].at = "failed" /\ thread'[t].base = thread[t].base
      BY <1>2, <1>3, <1>4, <2>2 DEF D, Drains
    <3>2. QED BY <3>1 DEF Good, CountInv
  <2>3. ASSUME CountsEveryLoss(setup), NEW t \in Drains, thread'[t].at = "failed"
        PROVE  thread'[t].base = counts'.dropped
    <3>1. MaxCalls <= setup.capacity
      BY <1>2, <2>2, <2>3, PutFacts
    <3>2. counts'.dropped = counts.dropped
      <4>1. more = 0
        BY <1>6, <2>3, <3>1
      <4>2. QED BY <1>2, <1>5, <4>1
    <3>3. thread[t].base = counts.dropped
      BY <2>2, <2>3 DEF Good, CountInv
    <3>4. QED BY <2>2, <2>3, <3>2, <3>3
  <2>4. CountsEveryLoss(setup) => counts'.missed = 0
    BY <1>5, <1>6
  <2>5. QED BY <1>1, <2>1, <2>2, <2>3, <2>4 DEF CountInv, Faulty
<1>13. TypeInv'
  BY <1>1, <1>2, <1>4, <1>5, <1>9 DEF TypeInv, D
<1>14. ControlInv'
  BY <1>1, <1>2, <1>3, <1>4, SMTT(30) DEF Good, ControlInv, Python, Slow, Faulty, Drains, D, Busy
<1>15. DocumentInv' /\ (~Python' => Backed(sidecar)')
  <2>1. \A u \in Drains : /\ thread'[u].doc = thread[u].doc
                          /\ thread'[u].at = "fill" => thread[u].at = "fill"
    BY <1>2, <1>3, <1>4 DEF Drains, D
  <2>2. Python' /\ (Slow' <=> Slow)
    BY <1>1, <1>2 DEF Python, Slow, Faulty
  <2>3. life = "closing" => thread'["close"].at = thread["close"].at
    BY <1>2, <1>4 DEF Drains, D
  <2>4. QED BY <1>1, <1>2, <2>1, <2>2 DEF Good, DocumentInv
<1>16. QED BY <1>1, <1>7, <1>8, <1>11, <1>12, <1>13, <1>14, <1>15 DEF Good

LEMMA RecordKeeps ==
  ASSUME Good, Record
  PROVE  Good' /\ Observed
<1> DEFINE D == Drains \cup setup.callers
           more == IF Len(ring) >= setup.capacity THEN 1 ELSE 0
<1>1. /\ ~Python /\ life = "active" /\ calls < MaxCalls /\ Waits("drain")
      /\ UNCHANGED <<setup, life, stream, sidecar, reader>>
      /\ calls' = calls + 1 /\ ring' = Appended(calls + 1)
      /\ counts' = [counts EXCEPT !.dropped = @ + more]
      /\ thread' = [thread EXCEPT !["drain"].at = "idle"]
  BY DEF Record
<1>2. /\ TypeInv /\ thread \in [D -> ThreadType] /\ "drain" \in D
      /\ setup.callers \cap Drains = {} /\ Len(ring) \in Nat /\ setup.capacity \in Nat \ {0}
      /\ calls \in Nat /\ MaxCalls \in Nat
      /\ thread["close"].at = "off" /\ counts.dropped \in Nat /\ counts.missed \in Int
      /\ thread["drain"].at \in {"off", "idle", "done"}
  BY <1>1, TypeFacts DEF Good, TypeInv, ControlInv, Drains, Waits
<1>3. "idle" \in Places
  BY DEF Places
<1>4. more \in {0, 1} /\ (Len(ring) >= setup.capacity => more = 1)
  OBVIOUS
<1> HIDE DEF more
<1>5. Turned(thread, thread', D, "drain", "idle", thread["drain"].batch, thread["drain"].base,
             thread["drain"].full, thread["drain"].doc)
  BY <1>1, <1>2, <1>3, TurnAt
<1> HIDE DEF D
<1>6. /\ counts' \in CountsType /\ counts'.dropped = counts.dropped + more
      /\ counts'.missed = counts.missed
  <2>1. counts \in CountsType
    BY <1>2 DEF TypeInv
  <2>2. counts.dropped + more \in Nat
    BY <1>2, <1>4
  <2>3. counts' = [counts EXCEPT !.dropped = counts.dropped + more]
    BY <1>1
  <2>4. QED BY <2>1, <2>2, <2>3, CountedLoss
<1>7. Observed
  <2>1. /\ Len(ring) >= setup.capacity => Losses' = Losses + 1
        /\ Losses' \in Losses .. Losses + 1
    <3>1. Losses' = Losses + more /\ Losses \in Int
      BY <1>2, <1>4, <1>6 DEF Losses
    <3>2. QED BY <1>4, <3>1
  <2>2. thread' \in [Drains \cup setup.callers -> ThreadType]
    BY <1>5 DEF Turned, D
  <2>3. \A t \in Drains :
          /\ thread'[t].batch = thread[t].batch /\ thread'[t].base = thread[t].base
          /\ thread'[t].doc = thread[t].doc
          /\ \/ thread'[t].at = thread[t].at
             \/ thread[t].at \notin Busy /\ thread'[t].at \notin Busy
          /\ thread[t].at \notin Busy
    BY <1>2, <1>5 DEF Drains, D, Busy, Turned
  <2>4. QED BY <1>1, <1>6, <2>1, <2>2, <2>3 DEF Observed
<1>8. /\ BatchInv' /\ DeliveredInv' /\ AccountInv'
      /\ Delivered' = Delivered /\ TornLines' = TornLines
  BY <1>7, ObservedKeepsCalls
<1>9. /\ ring' \in Seq(Events) /\ calls' \in Nat /\ InOrder(ring', calls')
  BY <1>7, ObservedRing
<1>10. \A x \in setup.callers : thread'[x] = thread[x] /\ thread[x].at # "put"
  BY <1>1, <1>2, <1>5 DEF Good, ControlInv, Turned, D, Drains
<1>11. calls' + Arriving' <= MaxCalls
  <2>1. {x \in setup'.callers : thread'[x].at = "put"} = {}
    BY <1>1, <1>10
  <2>2. Arriving' = 0
    BY <2>1, FS_EmptySet DEF Arriving
  <2>3. QED BY <1>1, <1>2, <2>2
<1>12. RingInv'
  BY <1>1, <1>9, <1>11 DEF RingInv
<1>13. CountInv'
  <2>1. \A t \in Drains : thread'[t].at # "failed"
    BY <1>1, <1>2, <1>5 DEF Good, ControlInv, Drains, Turned, D
  <2>2. CountsEveryLoss(setup) => counts'.missed = 0
    BY <1>6 DEF Good, CountInv
  <2>3. QED BY <1>1, <1>10, <2>1, <2>2 DEF CountInv
<1>14. TypeInv'
  BY <1>1, <1>2, <1>5, <1>6, <1>9 DEF TypeInv, D, Turned
<1>15. ControlInv'
  BY <1>1, <1>2, <1>5 DEF Good, ControlInv, Python, Slow, Faulty, Drains, D, Busy, Turned
<1>16. DocumentInv' /\ (~Python' => Backed(sidecar)')
  BY <1>1, <1>2, <1>5, <1>6, <1>8
     DEF Good, DocumentInv, Backed, Python, Slow, Faulty, Drains, D, Turned
<1>17. QED BY <1>1, <1>7, <1>8, <1>12, <1>13, <1>14, <1>15, <1>16 DEF Good

(***************************************************************************)
(* Draining                                                                *)
(***************************************************************************)

\* Unless close gave up on its thread, one of the two drains at a time.
LEMMA OtherRests ==
  ASSUME Good, ~Slow, NEW t \in Drains, thread[t].at \in Busy, NEW u \in Drains, u # t
  PROVE  thread[u].at \notin Busy
BY DEF Good, ControlInv, Drains, Busy

\* What the steps between taking the events and counting them have in common.
DrainStep(t) ==
  /\ UNCHANGED <<setup, life, calls, sidecar, reader>>
  /\ thread[t].at \in {"take", "write", "written", "failed"}
  /\ thread' \in [Drains \cup setup.callers -> ThreadType]
  /\ \A u \in Drains \cup setup.callers : u # t => thread'[u] = thread[u]
  /\ thread'[t].doc = thread[t].doc
  /\ \/ thread'[t].at \in {"take", "write", "written", "failed", "status"}
     \/ Python /\ t = "drain" /\ thread'[t].at = IF life = "closing" THEN "done" ELSE "idle"
  /\ Python /\ thread[t].at = "take" => thread'[t].at = "take"
  /\ thread'[t].at = "failed" => Faulty("append") /\ thread'[t].base = counts'.dropped
  /\ ring' \in Seq(Events) /\ InOrder(ring', calls) /\ Len(ring') <= Len(ring)
  /\ ring' = ring \/ ring' = <<>> \/ thread[t].at = "take"
  /\ ~Python /\ thread'[t].at = "status" => ring' = <<>>
  /\ ~Python => ring' = ring \/ ring' = <<>>
  /\ counts' \in CountsType /\ (CountsEveryLoss(setup) => counts'.missed = counts.missed)
  /\ stream' \in StreamType
  /\ Delivered \subseteq Delivered' /\ TornLines <= TornLines'

\* A document stays true of a stream that grows.
LEMMA BackedStays ==
  ASSUME NEW doc \in Statuses \cup {Absent, Blank}, Backed(doc),
         Delivered \subseteq Delivered', TornLines <= TornLines',
         TornLines \in Nat, TornLines' \in Nat, counts.missed \in Int, counts'.missed = counts.missed
  PROVE  doc.is = "status" =>
           Cardinality((1 .. doc.until - 1) \ Delivered') <= doc.dropped + counts'.missed + TornLines'
<1> SUFFICES ASSUME doc.is = "status"
             PROVE  Cardinality((1 .. doc.until - 1) \ Delivered')
                      <= doc.dropped + counts'.missed + TornLines'
  OBVIOUS
<1>1. doc.until \in Nat /\ doc.dropped \in Nat
  BY DEF Statuses, Events, Absent, Blank
<1> DEFINE S == (1 .. doc.until - 1) \ Delivered
           T == (1 .. doc.until - 1) \ Delivered'
<1>2. IsFiniteSet(S)
  <2> DEFINE last == doc.until - 1
  <2>1. last \in Int
    BY <1>1
  <2> HIDE DEF last
  <2>2. IsFiniteSet(1 .. last)
    BY <2>1, FS_Interval
  <2>3. S \in SUBSET (1 .. last)
    BY DEF last
  <2>4. QED BY <2>2, <2>3, FS_Subset, Zenon
<1>3. T \in SUBSET S
  OBVIOUS
<1>4. Cardinality(S) <= doc.dropped + counts.missed + TornLines
  BY DEF Backed
<1> HIDE DEF S, T
<1>5. Cardinality(T) <= Cardinality(S) /\ Cardinality(T) \in Nat /\ Cardinality(S) \in Nat
  BY <1>2, <1>3, FS_Subset, FS_CardinalityType, Zenon
<1>6. Cardinality(T) <= doc.dropped + counts'.missed + TornLines'
  BY <1>1, <1>4, <1>5
<1>7. QED BY <1>6 DEF T

LEMMA DrainStepKeeps ==
  ASSUME Good, Running, NEW t \in Drains, DrainStep(t)
  PROVE  TypeInv' /\ ControlInv' /\ RingInv' /\ CountInv' /\ DocumentInv'
         /\ (~Python' => Backed(sidecar)')
<1> DEFINE D == Drains \cup setup.callers
<1>1. /\ TypeInv /\ thread \in [D -> ThreadType] /\ t \in D
      /\ setup.callers \cap Drains = {} /\ calls \in Nat /\ ring \in Seq(Events)
      /\ \A c \in setup.callers : c # t /\ c \notin Drains
  BY DrainFacts
<1>2. /\ UNCHANGED <<setup, life, calls, sidecar, reader>>
      /\ (Python' <=> Python) /\ (Slow' <=> Slow) /\ \A f : Faulty(f)' <=> Faulty(f)
      /\ setup.hook = setup'.hook
  BY DEF DrainStep, Python, Slow, Faulty
<1> HIDE DEF D
<1>3. \A x \in D : x # t => thread'[x] = thread[x]
  BY Zenon DEF DrainStep, D
<1>4. life \in {"active", "closing"} /\ (t = "close" => life = "closing")
  BY DEF DrainStep, Good, TypeInv, Lives, ControlInv, Drains, Running
<1>5. thread[t].at \in Busy /\ (~Slow => \A u \in Drains : u # t => thread[u].at \notin Busy)
  <2>1. thread[t].at \in Busy
    BY DEF DrainStep, Busy
  <2>2. QED BY <2>1, OtherRests
<1>6. TypeInv'
  BY <1>1, <1>2 DEF TypeInv, DrainStep, StreamType
<1>7. TornLines \in Nat /\ TornLines' \in Nat
  <2>1. TornLines \in Nat
    BY <1>1, TypeFacts
  <2>2. stream'.lines \in Seq(Nat)
    BY DEF DrainStep, StreamType
  <2>3. TornOf(stream'.lines) \in Nat
    BY <2>2, TornIsNatural
  <2>4. QED BY <2>1, <2>3 DEF TornLines, TornOf
<1>8. ControlInv'
  <2>1. CASE t = "close"
    <3>1. thread'["drain"] = thread["drain"] /\ \A c \in setup.callers : thread'[c] = thread[c]
      BY <1>1, <1>3, <2>1 DEF D, Drains
    <3>2. thread'["close"].at \in {"take", "write", "written", "failed", "status"}
      BY <2>1 DEF DrainStep
    <3>3. QED BY <1>2, <1>4, <1>5, <2>1, <3>1, <3>2, SMTT(20) DEF Good, ControlInv, Drains, Busy
  <2>2. CASE t = "drain"
    <3>1. thread'["close"] = thread["close"] /\ \A c \in setup.callers : thread'[c] = thread[c]
      BY <1>1, <1>3, <2>2 DEF D, Drains
    <3>2. \/ thread'["drain"].at \in {"take", "write", "written", "failed", "status"}
          \/ Python /\ thread'["drain"].at = IF life = "closing" THEN "done" ELSE "idle"
      BY <2>2 DEF DrainStep
    <3>3. ~Slow => thread["close"].at \notin Busy /\ life # "over"
      BY <1>4, <1>5, <2>2 DEF Drains
    <3>4. thread["drain"].at \in Busy
      BY <1>5, <2>2
    <3>5. QED BY <1>2, <1>4, <2>2, <3>1, <3>2, <3>3, <3>4, SMTT(20) DEF Good, ControlInv, Drains, Busy
  <2>3. QED BY <2>1, <2>2 DEF Drains
<1>9. RingInv'
  <2>1. {c \in setup'.callers : thread'[c].at = "put"} = {c \in setup.callers : thread[c].at = "put"}
    BY <1>1, <1>2, <1>3 DEF D
  <2>2. Arriving' = Arriving
    BY <2>1 DEF Arriving
  <2>3. QED BY <1>2, <1>4, <2>2 DEF RingInv, Good, DrainStep
<1>10. CountInv'
  <2>1. ASSUME CountsEveryLoss(setup), NEW c \in setup.callers, thread'[c].at = "put"
        PROVE  /\ thread'[c].full \/ Len(ring') < setup.capacity
               /\ MaxCalls <= setup.capacity => ~thread'[c].full
    <3>1. thread'[c] = thread[c]
      BY <1>1, <1>3 DEF D
    <3>2. Len(ring) \in Nat /\ Len(ring') \in Nat /\ Len(ring') <= Len(ring) /\ setup.capacity \in Nat
      BY <1>1, TypeFacts, LenProperties DEF DrainStep
    <3>3. /\ thread[c].full \/ Len(ring) < setup.capacity
          /\ MaxCalls <= setup.capacity => ~thread[c].full
      BY <2>1, <3>1 DEF Good, CountInv
    <3>4. QED BY <3>1, <3>2, <3>3
  <2>2. ASSUME NEW u \in Drains, thread'[u].at = "failed"
        PROVE  Faulty("append") /\ (CountsEveryLoss(setup) => thread'[u].base = counts'.dropped)
    <3>1. CASE u = t
      BY <2>2, <3>1 DEF DrainStep
    <3>2. CASE u # t
      <4>1. thread[u].at = "failed" /\ thread[u].at \in Busy
        BY <1>3, <2>2, <3>2 DEF D, Busy
      <4>2. Slow /\ Faulty("append")
        BY <1>5, <3>2, <4>1 DEF Good, CountInv
      <4>3. Python
        BY <4>2 DEF Slow
      <4>4. QED BY <4>2, <4>3, PutFacts
    <3>3. QED BY <3>1, <3>2
  <2>3. CountsEveryLoss(setup) => counts'.missed = 0
    BY DEF Good, CountInv, DrainStep
  <2>4. QED BY <1>2, <2>1, <2>2, <2>3 DEF CountInv
<1>11. ~Python => Backed(sidecar)' /\ \A u \in Drains : Backed(thread[u].doc)'
  <2>1. SUFFICES ASSUME ~Python PROVE Backed(sidecar)' /\ \A u \in Drains : Backed(thread[u].doc)'
    OBVIOUS
  <2>2. /\ Delivered \subseteq Delivered' /\ TornLines <= TornLines'
        /\ counts.missed \in Int /\ counts'.missed = counts.missed
    BY <1>1, <2>1, TypeFacts DEF DrainStep, CountsEveryLoss, Python
  <2>3. Backed(sidecar)'
    <3>1. sidecar \in Statuses \cup {Absent, Blank} /\ Backed(sidecar)
      BY <1>1, <2>1 DEF TypeInv, Good
    <3>2. sidecar.is = "status" =>
            Cardinality((1 .. sidecar.until - 1) \ Delivered')
              <= sidecar.dropped + counts'.missed + TornLines'
      BY <1>7, <2>2, <3>1, BackedStays
    <3>3. QED BY <1>2, <3>2 DEF Backed
  <2>4. ASSUME NEW u \in Drains PROVE Backed(thread[u].doc)'
    <3> DEFINE doc == thread[u].doc
    <3>1. doc \in Statuses \cup {Absent, Blank} /\ Backed(doc)
      BY <1>1, <2>1, TypeFacts DEF Good, DocumentInv
    <3>2. thread'[u].doc = doc
      BY <1>3 DEF DrainStep, D
    <3> HIDE DEF doc
    <3>3. doc.is = "status" =>
            Cardinality((1 .. doc.until - 1) \ Delivered') <= doc.dropped + counts'.missed + TornLines'
      BY <1>7, <2>2, <3>1, BackedStays
    <3>4. QED BY <3>2, <3>3 DEF Backed
  <2>5. QED BY <2>3, <2>4
<1>12. DocumentInv'
  <2>1. /\ ~Slow' /\ (life' = "over" \/ (/\ life' = "closing"
                                         /\ thread'["close"].at \in {"status", "fill", "stated"}))
             => ring' = <<>>
        /\ Python' /\ ~Slow' /\ life' = "closing"
             /\ thread'["close"].at \in {"write", "written", "failed"} => ring' = <<>>
        /\ ~Python' /\ (\E u \in Drains : thread'[u].at \in {"status", "fill", "stated"})
             => ring' = <<>>
    <3>1. ASSUME ~Slow, life = "closing", thread'["close"].at \in {"status", "fill", "stated"}
          PROVE  ring' = <<>>
      BY <1>3, <1>4, <1>5, <3>1 DEF DrainStep, Good, DocumentInv, D, Drains, Busy
    <3>2. ASSUME Python, ~Slow, life = "closing", thread'["close"].at \in {"write", "written", "failed"}
          PROVE  ring' = <<>>
      BY <1>3, <1>4, <1>5, <3>2 DEF DrainStep, Good, DocumentInv, D, Drains, Busy
    <3>3. ASSUME ~Python, NEW u \in Drains, thread'[u].at \in {"status", "fill", "stated"}
          PROVE  ring' = <<>>
      BY <1>3, <3>3 DEF DrainStep, Good, DocumentInv, D
    <3>4. QED BY <1>2, <1>4, <3>1, <3>2, <3>3
  <2>2. ~Slow' /\ life' = "closing" /\ thread'["close"].at \in {"fill", "stated"} => FALSE
    BY <1>2, <1>3, <1>4, <1>5 DEF DrainStep, D, Drains, Busy
  <2>3. \A u \in Drains : thread'[u].at = "fill" => thread'[u].doc # Absent
    BY <1>3 DEF DrainStep, Good, DocumentInv, D
  <2>4. QED BY <1>2, <1>4, <1>11, <2>1, <2>2, <2>3 DEF DocumentInv
<1>13. QED BY <1>2, <1>6, <1>8, <1>9, <1>10, <1>11, <1>12

\* What a step that settles calls does to what the channel shows of them.
Settled ==
  /\ Kept' \subseteq Kept
  /\ \E got \in SUBSET Kept :
       /\ Delivered' = Delivered \cup got
       /\ Len(stream'.lines) - TornLines' = Len(stream.lines) - TornLines + Cardinality(got)
  /\ Losses + TornLines <= Losses' + TornLines'

LEMMA NothingDelivered ==
  ASSUME TypeInv, stream' = stream, Held' \subseteq Held, Losses' \in Int, Losses <= Losses'
  PROVE  Settled
<1>1. Delivered' = Delivered /\ TornLines' = TornLines /\ TornLines \in Nat
      /\ Losses \in Int
  BY TypeFacts DEF Delivered, TornLines
<1>2. Kept' \subseteq Kept
  BY <1>1 DEF Kept, Held
<1>3. Len(stream.lines) \in Nat
  BY TypeFacts, LenProperties
<1>4. {} \in SUBSET Kept /\ Cardinality({}) = 0
  BY FS_EmptySet
<1>5. \E got \in SUBSET Kept :
        /\ Delivered' = Delivered \cup got
        /\ Len(stream'.lines) - TornLines' = Len(stream.lines) - TornLines + Cardinality(got)
  BY <1>1, <1>3, <1>4
<1>6. Losses + TornLines <= Losses' + TornLines'
  <2>1. TornLines \in Int /\ TornLines' \in Int /\ TornLines <= TornLines'
    BY <1>1
  <2>2. QED BY <1>1, <2>1, SumGrows, Zenon
<1>7. QED BY <1>2, <1>5, <1>6 DEF Settled

\* An event is put behind a batch of older ones.
LEMMA RisingAppended ==
  ASSUME NEW s \in Seq(Events), Rising(s), NEW e \in Events, \A x \in ToSet(s) : x < e
  PROVE  /\ Append(s, e) \in Seq(Events) /\ Rising(Append(s, e)) /\ Append(s, e) # <<>>
         /\ ToSet(Append(s, e)) = ToSet(s) \cup {e}
<1> DEFINE q == Append(s, e)
<1>1. /\ q \in Seq(Events) /\ Len(q) = Len(s) + 1 /\ q[Len(s) + 1] = e
      /\ \A i \in 1 .. Len(s) : q[i] = s[i]
  BY AppendProperties
<1>2. Len(s) \in Nat /\ Len(<<>>) = 0
  BY LenProperties, Zenon
<1> HIDE DEF q
<1>3. /\ \A x : x \in ToSet(s) <=> \E i \in 1 .. Len(s) : x = s[i]
      /\ \A x : x \in ToSet(q) <=> \E i \in 1 .. Len(q) : x = q[i]
  BY <1>1, MembersOf, Zenon
<1>4. 1 .. Len(q) = (1 .. Len(s)) \cup {Len(s) + 1}
  BY <1>1, <1>2
<1>5. ToSet(q) = ToSet(s) \cup {e}
  BY <1>1, <1>3, <1>4
<1>6. q # <<>>
  BY <1>1, <1>2
<1>7. Rising(q)
  <2> SUFFICES ASSUME NEW i \in 1 .. Len(q), NEW j \in 1 .. Len(q), i < j PROVE q[i] < q[j]
    BY DEF Rising
  <2>1. i \in 1 .. Len(s)
    BY <1>1, <1>2
  <2>2. CASE j \in 1 .. Len(s)
    BY <1>1, <2>1, <2>2 DEF Rising
  <2>3. CASE j = Len(s) + 1
    <3>1. q[i] = s[i] /\ q[j] = e /\ s[i] \in ToSet(s)
      BY <1>1, <1>3, <2>1, <2>3
    <3>2. QED BY <3>1
  <2>4. QED BY <1>4, <2>2, <2>3
<1>8. QED BY <1>1, <1>5, <1>6, <1>7 DEF q

\* What BatchInv says of the two threads.
LEMMA BatchFacts ==
  ASSUME Good, NEW t \in Drains
  PROVE  /\ Rising(thread[t].batch)
         /\ Python => ToSet(thread[t].batch) \subseteq 1 .. calls - Len(ring)
         /\ ~Python => thread[t].batch = IF thread[t].at \in {"write", "written", "failed"}
                                         THEN ring ELSE <<>>
         /\ thread[t].at \notin {"take", "write", "written", "failed"} => thread[t].batch = <<>>
         /\ thread[t].at \in {"write", "written", "failed"} => thread[t].batch # <<>>
         /\ thread[t].at \in {"take", "write"} => ToSet(thread[t].batch) \cap Delivered = {}
         /\ \A u \in Drains : u # t /\ Python =>
              ToSet(thread[t].batch) \cap ToSet(thread[u].batch) = {}
         /\ ToSet(thread[t].batch) \subseteq 1 .. calls
         /\ ToSet(thread[t].batch) \subseteq Held /\ ToSet(ring) \subseteq Held
<1>1. /\ Rising(thread[t].batch)
      /\ Python => ToSet(thread[t].batch) \subseteq 1 .. calls - Len(ring)
      /\ ~Python => thread[t].batch = IF thread[t].at \in {"write", "written", "failed"}
                                      THEN ring ELSE <<>>
      /\ thread[t].at \notin {"take", "write", "written", "failed"} => thread[t].batch = <<>>
      /\ thread[t].at \in {"write", "written", "failed"} => thread[t].batch # <<>>
      /\ thread[t].at \in {"take", "write"} => ToSet(thread[t].batch) \cap Delivered = {}
  BY Zenon DEF Good, BatchInv
<1>2. \A u \in Drains : u # t /\ Python => ToSet(thread[t].batch) \cap ToSet(thread[u].batch) = {}
  BY DEF Good, BatchInv, Drains
<1>3. ToSet(thread[t].batch) \subseteq 1 .. calls
  BY HeldWasObserved DEF Good
<1>4. ToSet(thread[t].batch) \subseteq Held /\ ToSet(ring) \subseteq Held
  BY DEF Held
<1>5. QED BY <1>1, <1>2, <1>3, <1>4

\* An event popped and put behind the batch.
LEMMA TakeOneKeeps ==
  ASSUME Good, Running, NEW t \in Drains, Take(t), counts' = counts,
         thread' = [thread EXCEPT ![t].batch = Append(@, Head(ring))]
  PROVE  Good' /\ Settled
<1> DEFINE D == Drains \cup setup.callers
           gone == Head(ring)
           more == Append(thread[t].batch, gone)
<1>1. /\ Python /\ thread[t].at = "take" /\ ring # <<>> /\ ring' = Tail(ring)
      /\ UNCHANGED <<setup, life, calls, stream, sidecar, reader>> /\ life # "killed"
  BY DEF Take, Good
<1>2. /\ TypeInv /\ thread \in [D -> ThreadType] /\ t \in D
      /\ setup.callers \cap Drains = {} /\ calls \in Nat /\ ring \in Seq(Events)
      /\ thread[t].batch \in Seq(Events) /\ InOrder(ring, calls)
  BY DrainFacts DEF Good, RingInv
<1>3. /\ Tail(ring) \in Seq(Events) /\ Len(Tail(ring)) = Len(ring) - 1 /\ InOrder(Tail(ring), calls)
      /\ gone = calls - Len(ring) + 1 /\ gone \in Events /\ Len(ring) \in Nat \ {0}
      /\ Len(ring) <= calls
  BY <1>1, <1>2, RingTail DEF InOrder
<1>4. /\ Rising(thread[t].batch) /\ ToSet(thread[t].batch) \subseteq 1 .. calls - Len(ring)
      /\ ToSet(thread[t].batch) \cap Delivered = {}
      /\ Delivered \subseteq 1 .. calls - Len(ring)
  BY <1>1, BatchFacts DEF Good, DeliveredInv
<1> HIDE DEF gone
<1>5. /\ more \in Seq(Events) /\ Rising(more) /\ more # <<>>
      /\ ToSet(more) = ToSet(thread[t].batch) \cup {gone}
  <2>1. \A x \in ToSet(thread[t].batch) : x < gone
    BY <1>2, <1>3, <1>4
  <2>2. QED BY <1>2, <1>3, <1>4, <2>1, RisingAppended
<1> HIDE DEF more
<1>6. Turned(thread, thread', D, t, "take", more, thread[t].base, thread[t].full, thread[t].doc)
  <2>1. thread' = [thread EXCEPT ![t].batch = more]
    BY DEF more, gone
  <2>2. thread \in [D -> ThreadType] /\ t \in D /\ more \in Seq(Events)
    BY <1>2, <1>5
  <2>3. Turned(thread, [thread EXCEPT ![t].batch = more], D, t, thread[t].at, more, thread[t].base,
               thread[t].full, thread[t].doc)
    BY <2>2, TurnBatch
  <2>4. QED BY <1>1, <2>1, <2>3
<1> HIDE DEF D
<1>7. Delivered' = Delivered /\ TornLines' = TornLines /\ (Python <=> Python') /\ TornLines \in Nat
      /\ Losses \in Int /\ Losses' = Losses
  BY <1>1, <1>2, TypeFacts DEF Losses, Delivered, TornLines, Python
<1>8. DrainStep(t)
  BY <1>1, <1>2, <1>3, <1>6, <1>7, SMTT(30) DEF DrainStep, Turned, D, TypeInv, StreamType
<1>9. TypeInv' /\ ControlInv' /\ RingInv' /\ CountInv' /\ DocumentInv' /\ (~Python' => Backed(sidecar)')
  BY <1>8, DrainStepKeeps
<1>10. calls - Len(ring') = calls - Len(ring) + 1
  BY <1>1, <1>2, <1>3
<1>11. BatchInv'
  <2>1. ASSUME NEW u \in Drains
        PROVE  /\ Rising(thread'[u].batch)
               /\ ToSet(thread'[u].batch) \subseteq 1 .. calls - Len(ring')
               /\ thread'[u].at \notin {"take", "write", "written", "failed"} => thread'[u].batch = <<>>
               /\ thread'[u].at \in {"write", "written", "failed"} => thread'[u].batch # <<>>
               /\ thread'[u].at \in {"take", "write"} => ToSet(thread'[u].batch) \cap Delivered = {}
               /\ u # t => ToSet(thread'[u].batch) \cap ToSet(more) = {}
    <3>1. CASE u = t
      <4>1. thread'[u].batch = more /\ thread'[u].at = "take"
        BY <1>6, <3>1 DEF Turned
      <4>2. ToSet(more) \subseteq 1 .. calls - Len(ring') /\ ToSet(more) \cap Delivered = {}
        BY <1>2, <1>3, <1>4, <1>5, <1>10
      <4>3. QED BY <1>5, <3>1, <4>1, <4>2
    <3>2. CASE u # t
      <4>1. thread'[u] = thread[u]
        BY <1>6, <3>2 DEF Turned, D
      <4>2. /\ Rising(thread[u].batch)
            /\ ToSet(thread[u].batch) \subseteq 1 .. calls - Len(ring)
            /\ thread[u].at \notin {"take", "write", "written", "failed"} => thread[u].batch = <<>>
            /\ thread[u].at \in {"write", "written", "failed"} => thread[u].batch # <<>>
            /\ thread[u].at \in {"take", "write"} => ToSet(thread[u].batch) \cap Delivered = {}
            /\ ToSet(thread[u].batch) \cap ToSet(thread[t].batch) = {}
        BY <1>1, <3>2, BatchFacts
      <4>3. /\ ToSet(thread[u].batch) \subseteq 1 .. calls - Len(ring')
            /\ ToSet(thread[u].batch) \cap ToSet(more) = {}
        BY <1>2, <1>3, <1>5, <1>10, <4>2
      <4>4. QED BY <4>1, <4>2, <4>3
    <3>3. QED BY <3>1, <3>2
  <2>2. ToSet(thread'["drain"].batch) \cap ToSet(thread'["close"].batch) = {}
    BY <1>6, <2>1 DEF Drains, Turned
  <2>3. QED BY <1>1, <1>7, <2>1, <2>2 DEF BatchInv
<1>12. DeliveredInv'
  BY <1>1, <1>2, <1>3, <1>4, <1>7, <1>10 DEF DeliveredInv, Good
<1>13. Held' = Held
  <2>1. ToSet(ring) = ToSet(ring') \cup {gone}
    <3>1. /\ ToSet(ring) = calls - Len(ring) + 1 .. calls
          /\ ToSet(ring') = calls - Len(ring') + 1 .. calls
      BY <1>1, <1>2, <1>3, RingMembers, Zenon
    <3>2. QED BY <1>2, <1>3, <1>10, <3>1
  <2>2. \A u \in Drains : u # t => thread'[u].batch = thread[u].batch
    BY <1>6 DEF Turned, D
  <2>3. thread'[t].batch = more
    BY <1>6 DEF Turned
  <2>4. QED BY <1>5, <2>1, <2>2, <2>3 DEF Held
<1>14. Owing' = Owing
  <2>1. \A u \in Drains : thread'[u].at = "written" <=> thread[u].at = "written"
    BY <1>1, <1>6 DEF Turned, D
  <2>2. \A u \in Drains : thread[u].at = "written" => thread'[u].batch = thread[u].batch
    BY <1>1, <1>6 DEF Turned, D
  <2>3. QED BY <1>7, <2>1, <2>2 DEF Owing
<1>15. AccountInv'
  BY <1>1, <1>7, <1>13, <1>14 DEF Good, AccountInv, Lost
<1>16. Settled
  BY <1>1, <1>2, <1>7, <1>13, NothingDelivered
<1>17. QED BY <1>1, <1>9, <1>11, <1>12, <1>15, <1>16 DEF Good

\* An event popped that does not become a line, and is counted.
LEMMA TakeSpoiltKeeps ==
  ASSUME Good, Running, NEW t \in Drains, Take(t), Faulty("spoilt"),
         thread' = thread, counts' = [counts EXCEPT !.dropped = @ + 1]
  PROVE  Good' /\ Settled
<1> DEFINE D == Drains \cup setup.callers
           gone == Head(ring)
<1>1. /\ Python /\ thread[t].at = "take" /\ ring # <<>> /\ ring' = Tail(ring)
      /\ UNCHANGED <<setup, life, calls, stream, sidecar, reader>> /\ life # "killed"
  BY DEF Take, Good
<1>2. /\ TypeInv /\ thread \in [D -> ThreadType] /\ t \in D
      /\ setup.callers \cap Drains = {} /\ calls \in Nat /\ ring \in Seq(Events)
      /\ InOrder(ring, calls)
  BY DrainFacts DEF Good, RingInv
<1>3. /\ Tail(ring) \in Seq(Events) /\ Len(Tail(ring)) = Len(ring) - 1 /\ InOrder(Tail(ring), calls)
      /\ gone = calls - Len(ring) + 1 /\ gone \in Events /\ Len(ring) \in Nat \ {0}
      /\ Len(ring) <= calls
  BY <1>1, <1>2, RingTail DEF InOrder
<1> HIDE DEF gone, D
<1>4. Delivered \subseteq 1 .. calls - Len(ring)
  BY <1>1 DEF Good, DeliveredInv
<1>5. Delivered' = Delivered /\ TornLines' = TornLines /\ (Python <=> Python') /\ TornLines \in Nat
      /\ counts.dropped \in Nat /\ counts.missed \in Int
  BY <1>1, <1>2, TypeFacts DEF Delivered, TornLines, Python
<1>6. /\ counts' \in CountsType /\ counts'.missed = counts.missed
      /\ Losses' = Losses + 1 /\ Losses \in Int
  <2>1. counts \in CountsType /\ counts.dropped + 1 \in Nat
    BY <1>2, <1>5 DEF TypeInv
  <2>2. counts' = [counts EXCEPT !.dropped = counts.dropped + 1]
    OBVIOUS
  <2>3. counts' \in CountsType /\ counts'.missed = counts.missed /\ counts'.dropped = counts.dropped + 1
    BY <2>1, <2>2, CountedLoss
  <2>4. QED BY <1>5, <2>3 DEF Losses
<1>7. DrainStep(t)
  BY <1>1, <1>2, <1>3, <1>5, <1>6 DEF DrainStep, D, TypeInv, StreamType
<1>8. TypeInv' /\ ControlInv' /\ RingInv' /\ CountInv' /\ DocumentInv' /\ (~Python' => Backed(sidecar)')
  BY <1>7, DrainStepKeeps
<1>9. calls - Len(ring') = calls - Len(ring) + 1
  BY <1>1, <1>2, <1>3
<1>10. BatchInv'
  <2>1. ASSUME NEW u \in Drains
        PROVE  /\ Rising(thread[u].batch)
               /\ ToSet(thread[u].batch) \subseteq 1 .. calls - Len(ring')
               /\ thread[u].at \notin {"take", "write", "written", "failed"} => thread[u].batch = <<>>
               /\ thread[u].at \in {"write", "written", "failed"} => thread[u].batch # <<>>
               /\ thread[u].at \in {"take", "write"} => ToSet(thread[u].batch) \cap Delivered = {}
    <3>1. /\ Rising(thread[u].batch)
          /\ ToSet(thread[u].batch) \subseteq 1 .. calls - Len(ring)
          /\ thread[u].at \notin {"take", "write", "written", "failed"} => thread[u].batch = <<>>
          /\ thread[u].at \in {"write", "written", "failed"} => thread[u].batch # <<>>
          /\ thread[u].at \in {"take", "write"} => ToSet(thread[u].batch) \cap Delivered = {}
      BY <1>1, BatchFacts
    <3>2. ToSet(thread[u].batch) \subseteq 1 .. calls - Len(ring')
      BY <1>2, <1>3, <1>9, <3>1
    <3>3. QED BY <3>1, <3>2
  <2>2. ToSet(thread["drain"].batch) \cap ToSet(thread["close"].batch) = {}
    BY <1>1 DEF Good, BatchInv
  <2>3. QED BY <1>1, <1>5, <2>1, <2>2 DEF BatchInv
<1>11. DeliveredInv'
  BY <1>1, <1>2, <1>3, <1>4, <1>5, <1>9 DEF DeliveredInv, Good
<1>12. Held \subseteq Held' \cup {gone} /\ Held' \subseteq Held
  <2>1. ToSet(ring) = ToSet(ring') \cup {gone}
    <3>1. /\ ToSet(ring) = calls - Len(ring) + 1 .. calls
          /\ ToSet(ring') = calls - Len(ring') + 1 .. calls
      BY <1>1, <1>2, <1>3, RingMembers, Zenon
    <3>2. QED BY <1>2, <1>3, <1>9, <3>1
  <2>2. QED BY <2>1 DEF Held
<1>13. Owing' = Owing
  BY <1>5 DEF Owing
<1>14. AccountInv'
  <2> DEFINE n == Cardinality(Lost \cup Owing)
             m == Cardinality(Lost' \cup Owing')
             k == IF stream.cut THEN 1 ELSE 0
  <2>1. Lost' \cup Owing' \subseteq (Lost \cup Owing) \cup {gone}
    BY <1>1, <1>5, <1>12, <1>13 DEF Lost
  <2>2. IsFiniteSet({gone}) /\ Cardinality({gone}) = 1
    BY FS_Singleton
  <2>3. IsFiniteSet(Lost \cup Owing)
    BY <1>2, HeldWasObserved DEF Good
  <2>4. m \in Nat /\ n \in Nat /\ m <= n + Cardinality({gone})
    BY <2>1, <2>2, <2>3, CountGrows
  <2>5. n + k <= Losses + TornLines
    BY DEF Good, AccountInv
  <2>6. k \in {0, 1}
    OBVIOUS
  <2> HIDE DEF n, m, k
  <2>7. m + k <= Losses' + TornLines
    BY <1>5, <1>6, <2>2, <2>4, <2>5, <2>6
  <2>8. QED BY <1>1, <1>5, <2>7 DEF AccountInv, m, k
<1>15. Settled
  BY <1>1, <1>2, <1>5, <1>6, <1>12, NothingDelivered
<1>16. QED BY <1>1, <1>8, <1>10, <1>11, <1>14, <1>15 DEF Good

LEMMA TakeKeeps ==
  ASSUME Good, Running, NEW t \in Drains, Take(t)
  PROVE  Good' /\ Settled
<1>1. \/ thread' = [thread EXCEPT ![t].batch = Append(@, Head(ring))] /\ counts' = counts
      \/ Faulty("spoilt") /\ counts' = [counts EXCEPT !.dropped = @ + 1] /\ thread' = thread
  BY DEF Take
<1>2. QED BY <1>1, TakeOneKeeps, TakeSpoiltKeeps

\* A flush takes the buffer as it is.
LEMMA TakeAllKeeps ==
  ASSUME Good, Running, NEW t \in Drains, TakeAll(t)
  PROVE  Good' /\ Settled
<1> DEFINE D == Drains \cup setup.callers
<1>1. /\ ~Python /\ ~Slow /\ thread[t].at = "take" /\ ring # <<>>
      /\ UNCHANGED <<setup, life, calls, ring, counts, stream, sidecar, reader>> /\ life # "killed"
      /\ thread' = [thread EXCEPT ![t].batch = ring, ![t].at = "write"]
  BY DEF TakeAll, Good, Slow
<1>2. /\ TypeInv /\ thread \in [D -> ThreadType] /\ t \in D
      /\ setup.callers \cap Drains = {} /\ calls \in Nat /\ ring \in Seq(Events)
      /\ InOrder(ring, calls)
  BY DrainFacts DEF Good, RingInv
<1>3. Len(ring) \in Nat /\ Len(ring) <= calls /\ \A i \in 1 .. Len(ring) : ring[i] = calls - Len(ring) + i
  BY <1>2, TypeFacts DEF InOrder
<1>4. Turned(thread, thread', D, t, "write", ring, thread[t].base, thread[t].full, thread[t].doc)
  <2>1. "write" \in Places
    BY DEF Places, Busy
  <2>2. Turned(thread, [thread EXCEPT ![t].batch = ring, ![t].at = "write"], D, t, "write", ring,
               thread[t].base, thread[t].full, thread[t].doc)
    BY <1>2, <2>1, TurnBatchAt
  <2>3. QED BY <1>1, <2>2
<1> HIDE DEF D
<1>5. Delivered' = Delivered /\ TornLines' = TornLines /\ (Python <=> Python') /\ TornLines \in Nat
      /\ Losses \in Int /\ Losses' = Losses
  BY <1>1, <1>2, TypeFacts DEF Losses, Delivered, TornLines, Python
<1>6. DrainStep(t)
  <2>1. /\ thread' \in [Drains \cup setup.callers -> ThreadType]
        /\ \A u \in Drains \cup setup.callers : u # t => thread'[u] = thread[u]
        /\ thread'[t].doc = thread[t].doc /\ thread'[t].at = "write"
    BY <1>4 DEF Turned, D
  <2>2. counts' \in CountsType /\ stream' \in StreamType
    BY <1>1, <1>2 DEF TypeInv, StreamType
  <2>3. /\ ring' \in Seq(Events) /\ InOrder(ring', calls) /\ Len(ring') <= Len(ring)
        /\ Delivered \subseteq Delivered' /\ TornLines <= TornLines'
    BY <1>1, <1>2, <1>3, <1>5
  <2>4. QED BY <1>1, <2>1, <2>2, <2>3 DEF DrainStep
<1>7. TypeInv' /\ ControlInv' /\ RingInv' /\ CountInv' /\ DocumentInv' /\ (~Python' => Backed(sidecar)')
  BY <1>6, DrainStepKeeps
<1>8. \A u \in Drains : u # t => thread[u].at \notin Busy /\ thread'[u] = thread[u]
  <2>1. thread[t].at \in Busy
    BY <1>1 DEF Busy
  <2>2. QED BY <1>1, <1>4, <2>1, OtherRests DEF Turned, D
<1>9. Delivered \subseteq 1 .. calls - Len(ring)
  BY <1>1, <1>8 DEF Good, DeliveredInv, Busy
<1>10. \A u \in Drains : thread[u].batch = <<>>
  BY <1>1, <1>8, BatchFacts DEF Busy
<1>11. ToSet(ring) \cap Delivered = {} /\ Rising(ring)
  <2>1. ToSet(ring) = calls - Len(ring) + 1 .. calls
    BY <1>2, RingMembers, Zenon
  <2>2. ToSet(ring) \cap Delivered = {}
    BY <1>2, <1>3, <1>9, <2>1
  <2>3. Rising(ring)
    BY <1>2, <1>3 DEF Rising
  <2>4. QED BY <2>2, <2>3
<1>12. BatchInv'
  <2>1. ASSUME NEW u \in Drains
        PROVE  /\ Rising(thread'[u].batch)
               /\ thread'[u].batch = IF thread'[u].at \in {"write", "written", "failed"}
                                     THEN ring ELSE <<>>
               /\ thread'[u].at \notin {"take", "write", "written", "failed"} => thread'[u].batch = <<>>
               /\ thread'[u].at \in {"write", "written", "failed"} => thread'[u].batch # <<>>
               /\ thread'[u].at \in {"take", "write"} => ToSet(thread'[u].batch) \cap Delivered = {}
    <3>1. CASE u = t
      BY <1>1, <1>4, <1>11, <3>1 DEF Turned
    <3>2. CASE u # t
      BY <1>1, <1>8, <1>10, <3>2, BatchFacts DEF Busy
    <3>3. QED BY <3>1, <3>2
  <2>2. QED BY <1>1, <1>5, <2>1 DEF BatchInv
<1>13. DeliveredInv'
  BY <1>1, <1>5, <1>9 DEF DeliveredInv, Good
<1>14. Held' = Held
  <2>1. ToSet(<<>>) = {}
    <3>1. <<>> \in Seq(Nat)
      OBVIOUS
    <3>2. QED BY <3>1, MembersOf
  <2>2. \A u \in Drains : thread'[u].batch = ring \/ thread'[u].batch = <<>>
    BY <1>4, <1>8, <1>10 DEF Turned
  <2>3. QED BY <1>1, <1>10, <2>1, <2>2 DEF Held
<1>15. Owing' = Owing
  <2>1. \A u \in Drains : thread'[u].at # "written" /\ thread[u].at # "written"
    BY <1>1, <1>4, <1>8 DEF Turned, Busy
  <2>2. QED BY <2>1 DEF Owing
<1>16. AccountInv'
  BY <1>1, <1>5, <1>14, <1>15 DEF Good, AccountInv, Lost
<1>17. Settled
  BY <1>1, <1>2, <1>5, <1>14, NothingDelivered
<1>18. QED BY <1>1, <1>7, <1>12, <1>13, <1>16, <1>17 DEF Good

\* An append, whole or half way: some of the batch is delivered, and no torn line is
\* left without a count.
LEMMA WriteKeeps ==
  ASSUME Good, Running, NEW t \in Drains, Write(t)
  PROVE  Good' /\ Settled
<1> DEFINE D == Drains \cup setup.callers
           batch == thread[t].batch
<1>1. /\ thread[t].at = "write" /\ life # "killed"
      /\ UNCHANGED <<setup, life, calls, ring, counts, sidecar, reader>>
  BY DEF Write, Good
<1>2. /\ TypeInv /\ thread \in [D -> ThreadType] /\ t \in D
      /\ setup.callers \cap Drains = {} /\ calls \in Nat /\ ring \in Seq(Events)
      /\ batch \in Seq(Events) /\ InOrder(ring, calls)
  BY DrainFacts DEF Good, RingInv
<1>3. /\ Rising(batch) /\ batch # <<>> /\ ToSet(batch) \cap Delivered = {}
      /\ Python => ToSet(batch) \subseteq 1 .. calls - Len(ring)
      /\ ToSet(batch) \subseteq 1 .. calls /\ ToSet(batch) \subseteq Held
  BY <1>1, BatchFacts
<1>4. /\ counts.dropped \in Nat /\ counts.written \in Nat /\ TornLines \in Nat /\ stream \in StreamType
      /\ Len(ring) \in Nat /\ stream.cut \in BOOLEAN /\ Len(stream.lines) \in Nat
      /\ Len(ring) <= calls /\ Losses \in Int /\ Losses' = Losses
  BY <1>1, <1>2, TypeFacts, LenProperties DEF TypeInv, StreamType, InOrder, Losses
<1> HIDE DEF batch
<1>5. PICK v \in {"written", "failed"}, w \in Nat :
        /\ thread' = [thread EXCEPT ![t].at = v, ![t].base = w]
        /\ v = "written" => stream' = Extended(stream, batch)
        /\ v = "failed" => Faulty("append") /\ stream' \in Halves(stream, batch) /\ w = counts.dropped
  BY <1>4 DEF Write, batch
<1>6. Turned(thread, thread', D, t, v, batch, w, thread[t].full, thread[t].doc)
  <2>1. v \in Places /\ thread \in [D -> ThreadType] /\ t \in D
    BY <1>2 DEF Places, Busy
  <2>2. Turned(thread, [thread EXCEPT ![t].at = v, ![t].base = w], D, t, v, thread[t].batch, w,
               thread[t].full, thread[t].doc)
    BY <2>1, TurnAtBase
  <2>3. QED BY <1>5, <2>2 DEF batch
<1> HIDE DEF D
<1>7. PICK got \in SUBSET ToSet(batch), torn \in {0, 1} :
        /\ stream' \in StreamType
        /\ Delivered' = Delivered \cup got /\ TornLines' = TornLines + torn
        /\ Len(stream'.lines) = Len(stream.lines) + Cardinality(got) + torn
        /\ v = "written" => /\ ~stream'.cut
                            /\ ToSet(batch) \ got \subseteq IF stream.cut THEN {batch[1]} ELSE {}
                            /\ torn = 0
        /\ v = "failed" => torn = 1 \/ stream' = stream \/ ~stream'.cut
  <2>1. \A lines : WholeOf(lines) = ToSet(lines) \ {Torn}
                   /\ TornOf(lines) = Cardinality({k \in 1 .. Len(lines) : lines[k] = Torn})
    BY DEF WholeOf, TornOf
  <2>2. /\ Delivered = WholeOf(stream.lines) /\ Delivered' = WholeOf(stream'.lines)
        /\ TornLines = TornOf(stream.lines) /\ TornLines' = TornOf(stream'.lines)
    BY <2>1, Zenon DEF Delivered, TornLines
  <2>3. CASE v = "written"
    <3>1. /\ stream' \in StreamType /\ ~stream'.cut
          /\ \E got \in SUBSET ToSet(batch) :
               /\ Grew(stream, stream', got, 0)
               /\ ToSet(batch) \ got \subseteq IF stream.cut THEN {batch[1]} ELSE {}
      BY <1>2, <1>3, <1>4, <1>5, <2>3, WhatExtendedDoes
    <3>2. PICK got \in SUBSET ToSet(batch) :
            /\ Grew(stream, stream', got, 0)
            /\ ToSet(batch) \ got \subseteq IF stream.cut THEN {batch[1]} ELSE {}
      BY <3>1
    <3>3. QED BY <2>2, <2>3, <3>1, <3>2 DEF Grew
  <2>4. CASE v = "failed"
    <3>1. stream' \in Halves(stream, batch)
      BY <1>5, <2>4
    <3>2. \/ stream' = stream
          \/ /\ stream' \in StreamType
             /\ \E got \in SUBSET ToSet(batch), torn \in {0, 1} :
                  Grew(stream, stream', got, torn) /\ (torn = 0 => ~stream'.cut)
      BY <1>2, <1>3, <1>4, <3>1, WhatHalvesDo
    <3>3. CASE stream' = stream
      <4>1. {} \in SUBSET ToSet(batch) /\ Cardinality({}) = 0
        BY FS_EmptySet
      <4>2. /\ Delivered' = Delivered \cup {} /\ TornLines' = TornLines + 0
            /\ Len(stream'.lines) = Len(stream.lines) + Cardinality({}) + 0
        BY <1>4, <2>2, <3>3, <4>1
      <4>3. QED BY <1>4, <2>4, <3>3, <4>1, <4>2
    <3>4. CASE /\ stream' \in StreamType
               /\ \E got \in SUBSET ToSet(batch), torn \in {0, 1} :
                    Grew(stream, stream', got, torn) /\ (torn = 0 => ~stream'.cut)
      <4>1. PICK got \in SUBSET ToSet(batch), torn \in {0, 1} :
              Grew(stream, stream', got, torn) /\ (torn = 0 => ~stream'.cut)
        BY <3>4
      <4>2. QED BY <2>2, <2>4, <3>4, <4>1 DEF Grew
    <3>5. QED BY <3>2, <3>3, <3>4
  <2>5. QED BY <2>3, <2>4
<1>8. (Python <=> Python') /\ TornLines <= TornLines' /\ TornLines' \in Nat /\ Delivered \subseteq Delivered'
  BY <1>1, <1>4, <1>7 DEF Python
<1>9. DrainStep(t)
  <2>1. /\ thread' \in [Drains \cup setup.callers -> ThreadType]
        /\ \A u \in Drains \cup setup.callers : u # t => thread'[u] = thread[u]
        /\ thread'[t].doc = thread[t].doc /\ thread'[t].at = v /\ thread'[t].base = w
    BY <1>6 DEF Turned, D
  <2>2. counts' \in CountsType /\ stream' \in StreamType
    BY <1>1, <1>2, <1>7 DEF TypeInv
  <2>3. ring' \in Seq(Events) /\ InOrder(ring', calls) /\ Len(ring') <= Len(ring)
    BY <1>1, <1>2, <1>4
  <2>4. thread'[t].at = "failed" => Faulty("append") /\ thread'[t].base = counts'.dropped
    BY <1>1, <1>5, <2>1
  <2>5. QED BY <1>1, <1>8, <2>1, <2>2, <2>3, <2>4 DEF DrainStep
<1>10. TypeInv' /\ ControlInv' /\ RingInv' /\ CountInv' /\ DocumentInv' /\ (~Python' => Backed(sidecar)')
  BY <1>9, DrainStepKeeps
<1>11. \A u \in Drains : thread'[u].batch = thread[u].batch
  BY <1>6 DEF Turned, D, batch
<1>12. BatchInv'
  <2>1. ASSUME NEW u \in Drains
        PROVE  /\ Rising(thread'[u].batch)
               /\ Python => ToSet(thread'[u].batch) \subseteq 1 .. calls - Len(ring)
               /\ ~Python => thread'[u].batch = IF thread'[u].at \in {"write", "written", "failed"}
                                                THEN ring ELSE <<>>
               /\ thread'[u].at \notin {"take", "write", "written", "failed"} => thread'[u].batch = <<>>
               /\ thread'[u].at \in {"write", "written", "failed"} => thread'[u].batch # <<>>
               /\ thread'[u].at \in {"take", "write"} => ToSet(thread'[u].batch) \cap Delivered' = {}
    <3>1. /\ Rising(thread[u].batch)
          /\ Python => ToSet(thread[u].batch) \subseteq 1 .. calls - Len(ring)
          /\ ~Python => thread[u].batch = IF thread[u].at \in {"write", "written", "failed"}
                                          THEN ring ELSE <<>>
          /\ thread[u].at \notin {"take", "write", "written", "failed"} => thread[u].batch = <<>>
          /\ thread[u].at \in {"write", "written", "failed"} => thread[u].batch # <<>>
          /\ thread[u].at \in {"take", "write"} => ToSet(thread[u].batch) \cap Delivered = {}
      BY BatchFacts
    <3>2. CASE u = t
      <4>1. thread'[u].at \in {"written", "failed"} /\ thread[u].at = "write"
        BY <1>1, <1>6, <3>2 DEF Turned
      <4>2. QED BY <1>11, <3>1, <4>1
    <3>3. CASE u # t
      <4>1. thread'[u] = thread[u]
        BY <1>6, <3>3 DEF Turned, D
      <4>2. thread[u].at \in {"take", "write"} => ToSet(thread[u].batch) \cap got = {}
        <5>1. CASE Python
          <6>1. ToSet(thread[u].batch) \cap ToSet(batch) = {}
            BY <3>3, <5>1, BatchFacts DEF batch
          <6>2. QED BY <6>1
        <5>2. CASE ~Python
          <6>1. ~Slow /\ thread[t].at \in Busy
            BY <1>1, <5>2 DEF Slow, Busy
          <6>2. thread[u].at \notin Busy
            BY <3>3, <6>1, OtherRests
          <6>3. QED BY <6>2 DEF Busy
        <5>3. QED BY <5>1, <5>2
      <4>3. QED BY <1>7, <3>1, <4>1, <4>2
    <3>4. QED BY <3>2, <3>3
  <2>2. Python => ToSet(thread'["drain"].batch) \cap ToSet(thread'["close"].batch) = {}
    BY <1>11 DEF Good, BatchInv, Drains
  <2>3. QED BY <1>1, <1>8, <2>1, <2>2 DEF BatchInv
<1>13. DeliveredInv'
  <2>1. Delivered' \subseteq 1 .. calls
    BY <1>3, <1>7 DEF Good, DeliveredInv
  <2>2. Python => Delivered' \subseteq 1 .. calls - Len(ring)
    BY <1>3, <1>7 DEF Good, DeliveredInv
  <2>3. thread'[t].at \in {"written", "failed"}
    BY <1>6 DEF Turned
  <2>4. life \notin {"new", "declared", "disowned"}
    BY <1>1 DEF Good, ControlInv, Drains
  <2>5. QED BY <1>1, <1>8, <2>1, <2>2, <2>3, <2>4 DEF DeliveredInv
<1>14. Held' = Held
  BY <1>1, <1>11 DEF Held
<1>15. Lost' \subseteq Lost
  BY <1>1, <1>7, <1>14 DEF Lost
<1>16. AccountInv'
  <2> DEFINE n == Cardinality(Lost \cup Owing)
             m == Cardinality(Lost' \cup Owing')
             k == IF stream.cut THEN 1 ELSE 0
             l == IF stream'.cut THEN 1 ELSE 0
             U == IF v = "written" /\ stream.cut THEN {batch[1]} ELSE {}
  <2>1. Owing' \subseteq Owing \cup U
    <3>1. ASSUME NEW e \in Owing' PROVE e \in Owing \cup U
      <4>1. PICK u \in Drains : thread'[u].at = "written" /\ e \in ToSet(thread'[u].batch) \ Delivered'
        BY <3>1 DEF Owing
      <4>2. CASE u = t
        <5>1. v = "written" /\ e \in ToSet(batch) \ got
          BY <1>6, <1>7, <4>1, <4>2 DEF Turned
        <5>2. QED BY <1>7, <5>1
      <4>3. CASE u # t
        BY <1>6, <1>7, <4>1, <4>3 DEF Owing, Turned, D
      <4>4. QED BY <4>2, <4>3
    <3>2. QED BY <3>1
  <2>2. IsFiniteSet(U) /\ Cardinality(U) \in {0, 1} /\ (~(v = "written" /\ stream.cut) => Cardinality(U) = 0)
    BY FS_Singleton, FS_EmptySet
  <2>3. IsFiniteSet(Lost \cup Owing)
    BY <1>2, HeldWasObserved DEF Good
  <2>4. Lost' \cup Owing' \subseteq (Lost \cup Owing) \cup U
    BY <1>15, <2>1
  <2> HIDE DEF U
  <2>5. m \in Nat /\ n \in Nat /\ m <= n + Cardinality(U)
    BY <2>2, <2>3, <2>4, CountGrows
  <2>6. n + k <= Losses + TornLines
    BY DEF Good, AccountInv
  <2>7. k \in {0, 1} /\ l \in {0, 1} /\ (stream.cut <=> k = 1) /\ (stream'.cut <=> l = 1)
    BY <1>4, <1>7 DEF StreamType
  <2> HIDE DEF n, m, k, l
  <2>8. m + l <= Losses' + TornLines'
    <3>1. CASE v = "written"
      <4> DEFINE c == Cardinality(U)
      <4>1. TornLines' = TornLines /\ l = 0
        BY <1>4, <1>7, <2>7, <3>1
      <4>2. c \in {0, 1} /\ (k = 0 => c = 0) /\ m <= n + c
        BY <2>2, <2>5, <2>7
      <4> HIDE DEF c
      <4>3. QED BY <1>4, <2>5, <2>6, <2>7, <4>1, <4>2
    <3>2. CASE v = "failed"
      <4>1. CASE torn = 1
        BY <1>4, <1>7, <2>2, <2>5, <2>6, <2>7, <3>2, <4>1
      <4>2. CASE torn = 0
        <5>1. l <= k
          BY <1>7, <2>7, <3>2, <4>2
        <5>2. QED BY <1>4, <1>7, <2>2, <2>5, <2>6, <2>7, <3>2, <4>2, <5>1
      <4>3. QED BY <4>1, <4>2
    <3>3. QED BY <3>1, <3>2
  <2>9. QED BY <1>1, <2>8 DEF AccountInv, m, l
<1>17. Settled
  <2>1. got \in SUBSET Kept
    BY <1>3, <1>7 DEF Kept, Held
  <2>2. Kept' \subseteq Kept
    BY <1>7, <1>14 DEF Kept, Held
  <2>3. Cardinality(got) \in Nat
    <3>1. IsFiniteSet(ToSet(batch))
      BY <1>2, MembersAreFew
    <3>2. IsFiniteSet(got)
      BY <3>1, FS_Subset, Zenon
    <3>3. QED BY <3>2, FS_CardinalityType, Zenon
  <2>4. Len(stream'.lines) - TornLines' = Len(stream.lines) - TornLines + Cardinality(got)
    BY <1>4, <1>7, <2>3
  <2>5. QED BY <1>1, <1>4, <1>7, <1>8, <2>1, <2>2, <2>4 DEF Settled
<1>18. QED BY <1>1, <1>10, <1>12, <1>13, <1>16, <1>17 DEF Good

\* The outcome of an append is counted, and the batch is given up; what of it was not
\* delivered is Owing after a write that worked.
GivenUp(t) ==
  /\ UNCHANGED <<setup, life, calls, stream, sidecar, reader>>
  /\ thread[t].at \in {"written", "failed"} /\ ring' = Emptied
  /\ counts' \in CountsType /\ (CountsEveryLoss(setup) => counts'.missed = counts.missed)
  /\ Losses' = Losses + IF thread[t].at = "failed" THEN Len(thread[t].batch) ELSE 0
  /\ \E v \in {"status", "done", "idle"} :
       /\ Turned(thread, thread', Drains \cup setup.callers, t, v, <<>>, thread[t].base,
                 thread[t].full, thread[t].doc)
       /\ v # "status" => Python /\ t = "drain" /\ v = IF life = "closing" THEN "done" ELSE "idle"

LEMMA GivenUpKeeps ==
  ASSUME Good, Running, NEW t \in Drains, GivenUp(t)
  PROVE  Good' /\ Settled
<1> DEFINE D == Drains \cup setup.callers
           batch == thread[t].batch
<1>1. /\ thread[t].at \in {"written", "failed"} /\ thread[t].at \in Busy /\ life # "killed"
      /\ UNCHANGED <<setup, life, calls, stream, sidecar, reader>>
      /\ ring' = IF Python THEN ring ELSE <<>>
  BY DEF GivenUp, Good, Emptied, Busy
<1>2. /\ TypeInv /\ thread \in [D -> ThreadType] /\ t \in D
      /\ setup.callers \cap Drains = {} /\ calls \in Nat /\ ring \in Seq(Events)
      /\ batch \in Seq(Events) /\ InOrder(ring, calls)
  BY DrainFacts DEF Good, RingInv
<1>3. /\ Losses \in Int /\ TornLines \in Nat /\ stream \in StreamType
      /\ Len(ring) \in Nat /\ stream.cut \in BOOLEAN /\ Len(ring) <= calls
  BY <1>2, TypeFacts DEF TypeInv, StreamType, InOrder
<1>4. Len(batch) \in Nat
  BY <1>2, LenProperties, Zenon
<1>5. /\ ~Python => ring = batch /\ (\A u \in Drains : u # t => thread[u].batch = <<>>)
      /\ ToSet(batch) \subseteq Held
  <2>1. ToSet(batch) \subseteq Held /\ (~Python => ring = batch)
    BY <1>1, BatchFacts
  <2>2. ASSUME ~Python, NEW u \in Drains, u # t PROVE thread[u].batch = <<>>
    <3>1. thread[u].at \notin Busy
      BY <1>1, <2>2, OtherRests DEF Slow
    <3>2. QED BY <3>1, BatchFacts DEF Busy
  <2>3. QED BY <2>1, <2>2
<1> HIDE DEF batch
<1>6. PICK v \in {"status", "done", "idle"} :
        /\ Turned(thread, thread', D, t, v, <<>>, thread[t].base, thread[t].full, thread[t].doc)
        /\ v # "status" => Python /\ t = "drain" /\ v = IF life = "closing" THEN "done" ELSE "idle"
  BY Zenon DEF GivenUp
<1> HIDE DEF D
<1>7. /\ thread' \in [Drains \cup setup.callers -> ThreadType]
      /\ \A u \in Drains \cup setup.callers : u # t => thread'[u] = thread[u]
      /\ thread'[t].doc = thread[t].doc /\ thread'[t].at = v /\ thread'[t].batch = <<>>
  BY <1>6 DEF Turned, D
<1>8. /\ counts' \in CountsType /\ (CountsEveryLoss(setup) => counts'.missed = counts.missed)
      /\ Losses' \in Int
      /\ thread[t].at = "written" => Losses' = Losses
      /\ thread[t].at = "failed" => Losses' = Losses + Len(batch)
  BY <1>3, <1>4 DEF GivenUp, batch
<1>9. Delivered' = Delivered /\ TornLines' = TornLines /\ (Python <=> Python')
  BY <1>1 DEF Delivered, TornLines, Python
<1>10. ring' \in Seq(Events) /\ InOrder(ring', calls) /\ Len(ring') <= Len(ring)
  <2>1. <<>> \in Seq(Events) /\ Len(<<>>) = 0
    OBVIOUS
  <2>2. InOrder(<<>>, calls)
    BY <1>2, <2>1 DEF InOrder
  <2>3. QED BY <1>1, <1>2, <1>3, <2>1, <2>2
<1>11. DrainStep(t)
  BY <1>1, <1>3, <1>6, <1>7, <1>8, <1>9, <1>10 DEF DrainStep
<1>12. TypeInv' /\ ControlInv' /\ RingInv' /\ CountInv' /\ DocumentInv' /\ (~Python' => Backed(sidecar)')
  BY <1>11, DrainStepKeeps
<1>13. ToSet(<<>>) = {}
  <2>1. <<>> \in Seq(Nat)
    OBVIOUS
  <2>2. QED BY <2>1, MembersOf
<1>14. BatchInv'
  <2>1. ASSUME NEW u \in Drains
        PROVE  /\ Rising(thread'[u].batch)
               /\ Python => ToSet(thread'[u].batch) \subseteq 1 .. calls - Len(ring')
               /\ ~Python => thread'[u].batch = IF thread'[u].at \in {"write", "written", "failed"}
                                                THEN ring' ELSE <<>>
               /\ thread'[u].at \notin {"take", "write", "written", "failed"} => thread'[u].batch = <<>>
               /\ thread'[u].at \in {"write", "written", "failed"} => thread'[u].batch # <<>>
               /\ thread'[u].at \in {"take", "write"} => ToSet(thread'[u].batch) \cap Delivered = {}
               /\ u = t => ToSet(thread'[u].batch) = {}
    <3>1. CASE u = t
      <4>1. thread'[u].batch = <<>> /\ thread'[u].at \in {"status", "done", "idle"}
        BY <1>7, <3>1
      <4>2. Rising(<<>>)
        BY DEF Rising
      <4>3. QED BY <1>13, <4>1, <4>2
    <3>2. CASE u # t
      <4>1. thread'[u] = thread[u]
        BY <1>7, <3>2
      <4>2. /\ Rising(thread[u].batch)
            /\ Python => ToSet(thread[u].batch) \subseteq 1 .. calls - Len(ring)
            /\ thread[u].at \notin {"take", "write", "written", "failed"} => thread[u].batch = <<>>
            /\ thread[u].at \in {"write", "written", "failed"} => thread[u].batch # <<>>
            /\ thread[u].at \in {"take", "write"} => ToSet(thread[u].batch) \cap Delivered = {}
        BY BatchFacts
      <4>3. QED BY <1>1, <1>5, <3>2, <4>1, <4>2
    <3>3. QED BY <3>1, <3>2
  <2>2. Python => ToSet(thread'["drain"].batch) \cap ToSet(thread'["close"].batch) = {}
    BY <2>1 DEF Drains
  <2>3. QED BY <1>1, <1>9, <2>1, <2>2 DEF BatchInv
<1>15. DeliveredInv'
  <2>1. Delivered \subseteq 1 .. calls /\ (Python => Delivered \subseteq 1 .. calls - Len(ring))
    BY DEF Good, DeliveredInv
  <2>2. ~Python => Len(ring') = 0
    BY <1>1
  <2>3. Delivered \subseteq 1 .. calls - Len(ring')
    BY <1>1, <1>2, <2>1, <2>2
  <2>4. life \notin {"new", "declared", "disowned"}
    BY <1>1 DEF Good, ControlInv, Drains, Busy
  <2>5. QED BY <1>1, <1>9, <2>1, <2>3, <2>4 DEF DeliveredInv
<1>16. Held \subseteq Held' \cup ToSet(batch) /\ Held' \subseteq Held
  <2>1. \A u \in Drains : u # t => thread'[u].batch = thread[u].batch
    BY <1>7
  <2>2. Held' \subseteq Held
    <3>1. ToSet(ring') \subseteq ToSet(ring)
      BY <1>1, <1>13
    <3>2. \A u \in Drains : ToSet(thread'[u].batch) \subseteq ToSet(thread[u].batch)
      BY <1>7, <1>13, <2>1
    <3>3. QED BY <3>1, <3>2 DEF Held
  <2>3. Held \subseteq Held' \cup ToSet(batch)
    <3>1. ToSet(ring) \subseteq ToSet(ring') \cup ToSet(batch)
      BY <1>1, <1>5
    <3>2. \A u \in Drains : ToSet(thread[u].batch) \subseteq ToSet(thread'[u].batch) \cup ToSet(batch)
      BY <2>1 DEF batch
    <3>3. QED BY <3>1, <3>2 DEF Held
  <2>4. QED BY <2>2, <2>3
<1>17. Owing' \subseteq Owing
  <2>1. \A u \in Drains : thread'[u].at = "written" => u # t
    BY <1>7
  <2>2. QED BY <1>7, <1>9, <2>1 DEF Owing
<1>18. AccountInv'
  <2> DEFINE n == Cardinality(Lost \cup Owing)
             m == Cardinality(Lost' \cup Owing')
             k == IF stream.cut THEN 1 ELSE 0
             U == IF thread[t].at = "failed" THEN ToSet(batch) ELSE {}
  <2>1. Lost' \cup Owing' \subseteq (Lost \cup Owing) \cup U
    <3>1. ASSUME NEW e \in Lost' PROVE e \in (Lost \cup Owing) \cup U
      <4>1. e \in 1 .. calls /\ e \notin Held' /\ e \notin Delivered
        BY <1>1, <1>9, <3>1 DEF Lost
      <4>2. CASE e \notin Held
        BY <4>1, <4>2 DEF Lost
      <4>3. CASE e \in Held
        <5>1. e \in ToSet(batch)
          BY <1>16, <4>1, <4>3
        <5>2. CASE thread[t].at = "failed"
          BY <5>1, <5>2
        <5>3. CASE thread[t].at = "written"
          BY <4>1, <5>1, <5>3 DEF Owing, batch
        <5>4. QED BY <1>1, <5>2, <5>3
      <4>4. QED BY <4>2, <4>3
    <3>2. QED BY <1>17, <3>1
  <2> DEFINE c == Cardinality(U)
  <2>2. /\ IsFiniteSet(U) /\ (thread[t].at = "written" => c = 0)
        /\ (thread[t].at = "failed" => c <= Len(batch))
    BY <1>1, <1>2, MembersAreFew, FS_EmptySet
  <2>3. IsFiniteSet(Lost \cup Owing)
    BY <1>2, HeldWasObserved DEF Good
  <2> HIDE DEF U
  <2>4. m \in Nat /\ n \in Nat /\ c \in Nat /\ m <= n + c
    BY <2>1, <2>2, <2>3, CountGrows
  <2>5. n + k <= Losses + TornLines
    BY DEF Good, AccountInv
  <2>6. k \in {0, 1}
    OBVIOUS
  <2> HIDE DEF n, m, k, c
  <2>7. m + k <= Losses' + TornLines
    <3>1. Losses + c <= Losses'
      BY <1>1, <1>3, <1>4, <1>8, <2>2, <2>4
    <3>2. n \in Int /\ m \in Int /\ k \in Int /\ c \in Int /\ TornLines \in Int
          /\ Losses \in Int /\ Losses' \in Int
      BY <1>1, <1>3, <1>4, <1>8, <2>4, <2>6
    <3>3. QED BY <2>4, <2>5, <3>1, <3>2, StillPaid, Zenon
  <2>8. QED BY <1>1, <1>9, <2>7 DEF AccountInv, m, k
<1>19. Settled
  <2>1. Losses <= Losses'
    BY <1>1, <1>3, <1>4, <1>8
  <2>2. QED BY <1>1, <1>2, <1>8, <1>16, <2>1, NothingDelivered
<1>20. QED BY <1>1, <1>12, <1>14, <1>15, <1>18, <1>19 DEF Good

LEMMA CountWrittenKeeps ==
  ASSUME Good, Running, NEW t \in Drains, CountWritten(t)
  PROVE  Good' /\ Settled
<1> DEFINE D == Drains \cup setup.callers
           sum == thread[t].base + Len(thread[t].batch)
<1>1. /\ thread[t].at = "written"
      /\ UNCHANGED <<setup, life, calls, stream, sidecar, reader>> /\ ring' = Emptied
      /\ counts' = [counts EXCEPT !.written = sum]
      /\ thread' = [thread EXCEPT ![t].at = "status", ![t].batch = <<>>]
  BY DEF CountWritten
<1>2. /\ TypeInv /\ thread \in [D -> ThreadType] /\ t \in D
      /\ thread[t].batch \in Seq(Events) /\ thread[t].base \in Nat
  BY DrainFacts
<1>3. sum \in Nat /\ counts \in CountsType /\ Losses \in Int
  <2>1. Len(thread[t].batch) \in Nat
    BY <1>2, LenProperties, Zenon
  <2>2. QED BY <1>2, <2>1, TypeFacts DEF TypeInv
<1> HIDE DEF sum
<1>4. counts' \in CountsType /\ counts'.missed = counts.missed /\ Losses' = Losses
  <2>1. counts' \in CountsType /\ counts'.missed = counts.missed /\ counts'.dropped = counts.dropped
    BY <1>1, <1>3, CountedLine
  <2>2. QED BY <2>1 DEF Losses
<1>5. Turned(thread, thread', D, t, "status", <<>>, thread[t].base, thread[t].full, thread[t].doc)
  <2>1. "status" \in Places /\ <<>> \in Seq(Events)
    BY DEF Places, Busy
  <2>2. Turned(thread, [thread EXCEPT ![t].at = "status", ![t].batch = <<>>], D, t, "status", <<>>,
               thread[t].base, thread[t].full, thread[t].doc)
    BY <1>2, <2>1, TurnAtBatch
  <2>3. QED BY <1>1, <2>2
<1>6. GivenUp(t)
  BY <1>1, <1>3, <1>4, <1>5 DEF GivenUp
<1>7. QED BY <1>6, GivenUpKeeps

LEMMA CountDroppedKeeps ==
  ASSUME Good, Running, NEW t \in Drains, CountDropped(t)
  PROVE  Good' /\ Settled
<1> DEFINE D == Drains \cup setup.callers
           sum == thread[t].base + Len(thread[t].batch)
           behind == counts.missed + (counts.dropped - thread[t].base)
           v == IF Python THEN After(t) ELSE "status"
<1>1. /\ thread[t].at = "failed"
      /\ UNCHANGED <<setup, life, calls, stream, sidecar, reader>> /\ ring' = Emptied
      /\ counts' = [counts EXCEPT !.dropped = sum, !.missed = behind]
      /\ thread' = [thread EXCEPT ![t].batch = <<>>, ![t].at = v]
  BY DEF CountDropped
<1>2. /\ TypeInv /\ thread \in [D -> ThreadType] /\ t \in D
      /\ thread[t].batch \in Seq(Events) /\ thread[t].base \in Nat
  BY DrainFacts
<1>3. /\ sum \in Nat /\ behind \in Int /\ counts \in CountsType
      /\ sum + behind = Losses + Len(thread[t].batch)
      /\ CountsEveryLoss(setup) => behind = counts.missed
  <2>1. Len(thread[t].batch) \in Nat /\ counts.dropped \in Nat /\ counts.missed \in Int
    BY <1>2, LenProperties, TypeFacts
  <2>2. CountsEveryLoss(setup) => thread[t].base = counts.dropped
    BY <1>1, <1>2 DEF Good, CountInv
  <2>3. sum \in Nat /\ behind \in Int /\ counts \in CountsType
    <3>1. counts \in CountsType
      BY <1>2 DEF TypeInv
    <3>2. QED BY <1>2, <2>1, <3>1
  <2>4. sum + behind = (counts.dropped + counts.missed) + Len(thread[t].batch)
    BY <1>2, <2>1
  <2>5. CountsEveryLoss(setup) => behind = counts.missed
    BY <2>1, <2>2
  <2>6. QED BY <2>3, <2>4, <2>5 DEF Losses
<1> HIDE DEF sum, behind
<1>4. /\ counts' \in CountsType /\ (CountsEveryLoss(setup) => counts'.missed = counts.missed)
      /\ Losses' = Losses + Len(thread[t].batch)
  <2>1. counts' \in CountsType /\ counts'.missed = behind /\ counts'.dropped = sum
    BY <1>1, <1>3 DEF CountsType
  <2>2. QED BY <1>3, <2>1 DEF Losses
<1>5. /\ v \in Places /\ v \in {"status", "done", "idle"}
      /\ v # "status" => Python /\ t = "drain" /\ v = IF life = "closing" THEN "done" ELSE "idle"
  BY DEF Places, Busy, After, Drains
<1> HIDE DEF v
<1>6. Turned(thread, thread', D, t, v, <<>>, thread[t].base, thread[t].full, thread[t].doc)
  <2>1. <<>> \in Seq(Events)
    OBVIOUS
  <2>2. Turned(thread, [thread EXCEPT ![t].batch = <<>>, ![t].at = v], D, t, v, <<>>,
               thread[t].base, thread[t].full, thread[t].doc)
    BY <1>2, <1>5, <2>1, TurnBatchAt
  <2>3. QED BY <1>1, <2>2
<1>7. GivenUp(t)
  BY <1>1, <1>3, <1>4, <1>5, <1>6 DEF GivenUp
<1>8. QED BY <1>7, GivenUpKeeps

(***************************************************************************)
(* The end, and the collector                                              *)
(***************************************************************************)

\* What a process does before its end.
Working ==
  \/ Declare \/ Instrument \/ Disown
  \/ \E c \in setup.callers : Look(c) \/ Put(c)
  \/ Record \/ Wake
  \/ \E t \in Drains : Draining(t)
  \/ BeginClose \/ Join

LEMMA WorkingKeeps ==
  ASSUME Good, Working
  PROVE  Good'
<1>1. ASSUME NEW c \in setup.callers, Look(c) \/ Put(c) PROVE Good'
  BY <1>1, LookKeeps, PutKeeps
<1>2. ASSUME NEW t \in Drains, Draining(t) PROVE Good'
  BY <1>2, TakeKeeps, TakeAllKeeps, TakenKeeps, WriteKeeps, CountWrittenKeeps,
     CountDroppedKeeps, OpenStatusKeeps, FillStatusKeeps, StatedKeeps DEF Draining
<1>3. CASE Declare \/ Instrument \/ Disown
  BY <1>3, DeclareKeeps, InstrumentKeeps, DisownKeeps
<1>4. CASE Record \/ Wake \/ BeginClose \/ Join
  BY <1>4, RecordKeeps, WakeKeeps, BeginCloseKeeps, JoinKeeps
<1>5. QED BY <1>1, <1>2, <1>3, <1>4 DEF Working

\* A collector that came after the end sees no more of the process, and a status
\* document that was there stays.
LEMMA WorkingIsSeenByNobody ==
  ASSUME Good, ReaderInv, Working
  PROVE  ~reader.late /\ reader' = reader /\ (sidecar # Absent => sidecar' # Absent)
<1>1. life # "over" /\ ~(life = "disowned" /\ thread["close"].at = "off")
  <2>1. ASSUME NEW t \in Drains, Draining(t)
        PROVE  life # "over" /\ ~(life = "disowned" /\ thread["close"].at = "off")
    <3>1. life # "over" /\ thread[t].at \in Busy
      BY <2>1 DEF Draining, Running, Take, TakeAll, Taken, Write, CountWritten, CountDropped,
                  OpenStatus, FillStatus, Stated, Busy
    <3>2. life = "disowned" => thread["drain"].at = "off"
      BY DEF Good, ControlInv
    <3>3. QED BY <3>1, <3>2 DEF Drains, Busy
  <2>2. ASSUME NEW c \in setup.callers, Look(c) \/ Put(c) PROVE life \in {"active", "closing"}
    BY <2>2 DEF Look, Put, Calling
  <2>3. QED
    BY <2>1, <2>2 DEF Working, Declare, Instrument, Disown, Record, Wake, BeginClose, Join
<1>2. ~reader.late
  <2>1. reader.late => life \in {"over", "killed"} \/ (life = "disowned" /\ thread["close"].at = "off")
    BY Zenon DEF ReaderInv
  <2>2. QED BY <1>1, <2>1 DEF Good
<1>3. reader' = reader /\ (sidecar # Absent => sidecar' # Absent)
  <2>1. ASSUME NEW t \in Drains, Draining(t)
        PROVE  reader' = reader /\ (sidecar # Absent => sidecar' # Absent)
    <3>1. CASE FillStatus(t)
      <4>1. reader' = reader /\ thread[t].at = "fill" /\ (sidecar' = thread[t].doc \/ sidecar' = Blank)
        BY <3>1 DEF FillStatus
      <4>2. thread[t].doc # Absent
        BY <4>1 DEF Good, DocumentInv
      <4>3. QED BY <4>1, <4>2 DEF Blank, Absent
    <3>2. CASE OpenStatus(t)
      BY <3>2 DEF OpenStatus, Blank, Absent
    <3>3. CASE Take(t) \/ TakeAll(t) \/ Taken(t) \/ Write(t) \/ CountWritten(t) \/ CountDropped(t) \/ Stated(t)
      BY <3>3 DEF Take, TakeAll, Taken, Write, CountWritten, CountDropped, Stated
    <3>4. QED BY <2>1, <3>1, <3>2, <3>3 DEF Draining
  <2>2. ASSUME NEW c \in setup.callers, Look(c) \/ Put(c) PROVE reader' = reader /\ sidecar' = sidecar
    BY <2>2 DEF Look, Put
  <2>3. QED
    BY <2>1, <2>2 DEF Working, Declare, Instrument, Disown, Record, Wake, BeginClose, Join
<1>4. QED BY <1>2, <1>3

\* Who has not come after the end has said nothing yet that could be wrong.
LEMMA EarlyReader ==
  ASSUME ReaderInv, ~reader.late, reader' = reader, sidecar # Absent => sidecar' # Absent
  PROVE  ReaderInv'
BY DEF ReaderInv

\* A kill may tear one more line, of which nobody may ask more than what was written
\* before.
LEMMA KillKeeps ==
  ASSUME Good, ReaderInv, Kill
  PROVE  /\ TypeInv' /\ life' = "killed" /\ (~Python' => Backed(sidecar)') /\ ReaderInv'
         /\ \E got \in SUBSET Kept :
              /\ Delivered' = Delivered \cup got /\ TornLines <= TornLines'
              /\ Len(stream'.lines) - TornLines' = Len(stream.lines) - TornLines + Cardinality(got)
<1>1. /\ life \notin {"new", "over", "killed"} /\ life' = "killed"
      /\ UNCHANGED <<setup, calls, ring, thread, counts, sidecar, reader>>
      /\ stream' = stream
         \/ \E t \in Drains : thread[t].at = "write" /\ stream' \in Halves(stream, thread[t].batch)
  BY DEF Kill
<1>2. /\ TypeInv /\ stream \in StreamType /\ TornLines \in Nat /\ Len(stream.lines) \in Nat
  BY TypeFacts, LenProperties DEF Good, TypeInv, StreamType
<1>3. PICK got \in SUBSET Kept, torn \in {0, 1} :
        /\ stream' \in StreamType
        /\ Delivered' = Delivered \cup got /\ TornLines' = TornLines + torn
        /\ Len(stream'.lines) = Len(stream.lines) + Cardinality(got) + torn
        /\ Cardinality(got) \in Nat
        /\ stream' = stream \/ \E t \in Drains : thread[t].at = "write"
  <2>1. \A lines : WholeOf(lines) = ToSet(lines) \ {Torn}
                   /\ TornOf(lines) = Cardinality({k \in 1 .. Len(lines) : lines[k] = Torn})
    BY DEF WholeOf, TornOf
  <2>2. /\ Delivered = WholeOf(stream.lines) /\ Delivered' = WholeOf(stream'.lines)
        /\ TornLines = TornOf(stream.lines) /\ TornLines' = TornOf(stream'.lines)
    BY <2>1, Zenon DEF Delivered, TornLines
  <2>3. CASE stream' = stream
    <3>1. {} \in SUBSET Kept /\ Cardinality({}) = 0
      BY FS_EmptySet
    <3>2. /\ Delivered' = Delivered \cup {} /\ TornLines' = TornLines + 0
          /\ Len(stream'.lines) = Len(stream.lines) + Cardinality({}) + 0
      BY <1>2, <2>2, <2>3, <3>1
    <3>3. QED BY <1>2, <2>3, <3>1, <3>2
  <2>4. ASSUME NEW t \in Drains, thread[t].at = "write", stream' \in Halves(stream, thread[t].batch),
               stream' # stream
        PROVE  \E got \in SUBSET Kept, torn \in {0, 1} :
                 /\ stream' \in StreamType
                 /\ Delivered' = Delivered \cup got /\ TornLines' = TornLines + torn
                 /\ Len(stream'.lines) = Len(stream.lines) + Cardinality(got) + torn
                 /\ Cardinality(got) \in Nat
    <3> DEFINE batch == thread[t].batch
    <3>1. /\ batch \in Seq(Events) /\ Rising(batch) /\ ToSet(batch) \cap Delivered = {}
          /\ ToSet(batch) \subseteq Held
      BY <2>4, BatchFacts, DrainFacts
    <3> HIDE DEF batch
    <3>2. /\ stream' \in StreamType
          /\ \E got \in SUBSET ToSet(batch), torn \in {0, 1} : Grew(stream, stream', got, torn)
      <4>1. stream' \in Halves(stream, batch)
        BY <2>4 DEF batch
      <4>2. QED BY <1>2, <2>4, <3>1, <4>1, WhatHalvesDo
    <3>3. PICK got \in SUBSET ToSet(batch), torn \in {0, 1} : Grew(stream, stream', got, torn)
      BY <3>2
    <3>4. got \in SUBSET Kept
      BY <3>1 DEF Kept, Held
    <3>5. Cardinality(got) \in Nat
      <4>1. IsFiniteSet(ToSet(batch))
        BY <3>1, MembersAreFew
      <4>2. IsFiniteSet(got)
        BY <4>1, FS_Subset, Zenon
      <4>3. QED BY <4>2, FS_CardinalityType, Zenon
    <3>6. QED BY <2>2, <3>2, <3>3, <3>4, <3>5 DEF Grew
  <2>5. QED BY <1>1, <2>3, <2>4
<1>4. TypeInv'
  BY <1>1, <1>2, <1>3 DEF TypeInv, Lives, StreamType
<1>5. TornLines <= TornLines' /\ TornLines' \in Nat /\ Delivered \subseteq Delivered'
  BY <1>2, <1>3
<1>6. ~Python' => Backed(sidecar)'
  <2>1. SUFFICES ASSUME ~Python PROVE Backed(sidecar)'
    BY <1>1 DEF Python
  <2>2. sidecar \in Statuses \cup {Absent, Blank} /\ Backed(sidecar)
    BY <1>2, <2>1 DEF TypeInv, Good
  <2>3. sidecar.is = "status" =>
          Cardinality((1 .. sidecar.until - 1) \ Delivered')
            <= sidecar.dropped + counts'.missed + TornLines'
    BY <1>1, <1>2, <1>5, <2>2, TypeFacts, BackedStays
  <2>4. QED BY <1>1, <2>3 DEF Backed
<1>7. ReaderInv'
  <2>1. CASE ~reader.late
    BY <1>1, <2>1, EarlyReader
  <2>2. CASE reader.late
    <3>1. life = "disowned" /\ thread["close"].at = "off" /\ thread["drain"].at = "off"
      BY <1>1, <2>2 DEF ReaderInv, Good, ControlInv
    <3>2. stream' = stream
      BY <1>1, <3>1 DEF Drains
    <3>3. Exists' = Exists /\ Delivered' = Delivered /\ TornLines' = TornLines /\ Said' = Said
          /\ (Unwritten' => Unwritten)
      BY <1>1, <3>1, <3>2
         DEF Exists, Delivered, TornLines, Said, Accounted, Unwritten, Slow, Python, Faulty
    <3>4. QED BY <1>1, <3>2, <3>3 DEF ReaderInv
  <2>3. QED BY <2>1, <2>2
<1>8. /\ Delivered' = Delivered \cup got /\ TornLines <= TornLines'
      /\ Len(stream'.lines) - TornLines' = Len(stream.lines) - TornLines + Cardinality(got)
  BY <1>2, <1>3, <1>5
<1>9. QED BY <1>1, <1>4, <1>6, <1>7, <1>8

\* What a collector may see of a stream, and what it counts in it.
LEMMA WhatIsSeen ==
  ASSUME TypeInv, RunInv, NEW seen \in Views
  PROVE  /\ seen \in StreamType
         /\ reader.late /\ Unwritten /\ ReaderInv => seen = stream
<1>1. stream \in StreamType
  BY DEF TypeInv, StreamType
<1>2. CASE life = "killed" \/ \A t \in Drains : thread[t].at # "write"
  BY <1>1, <1>2 DEF Views
<1>3. CASE life # "killed" /\ \E t \in Drains : thread[t].at = "write"
  <2>1. seen \in StreamType
    <3>1. CASE seen = stream
      BY <1>1, <3>1
    <3>2. ASSUME seen # stream PROVE seen \in StreamType
      <4>1. PICK t \in Drains : thread[t].at = "write" /\ seen \in Halves(stream, thread[t].batch)
        BY <3>2 DEF Views
      <4>2. thread[t].batch \in Seq(Events) /\ Rising(thread[t].batch)
        BY <1>3, TypeFacts DEF RunInv, BatchInv
      <4>3. QED BY <1>1, <3>2, <4>1, <4>2, WhatHalvesDo
    <3>3. QED BY <3>1, <3>2
  <2>2. ASSUME reader.late, Unwritten, ReaderInv PROVE FALSE
    <3>1. life = "over" \/ (life = "disowned" /\ thread["close"].at = "off")
      BY <1>3, <2>2 DEF ReaderInv
    <3>2. ControlInv
      BY <1>3 DEF RunInv
    <3>3. QED BY <1>3, <2>2, <3>1, <3>2 DEF ControlInv, Drains, Unwritten
  <2>3. QED BY <2>1, <2>2
<1>4. QED BY <1>2, <1>3

\* A collector changes nothing but itself.
LEMMA ProcessStays ==
  ASSUME TypeInv, RunInv, ~Python => Backed(sidecar),
         UNCHANGED <<setup, life, calls, ring, thread, counts, stream, sidecar>>
  PROVE  RunInv' /\ (~Python' => Backed(sidecar)') /\ Delivered' = Delivered
         /\ TornLines' = TornLines /\ Exists' = Exists /\ Said' = Said /\ (Unwritten' <=> Unwritten)
<1>1. /\ Delivered' = Delivered /\ TornLines' = TornLines /\ Exists' = Exists /\ Said' = Said
      /\ (Python' <=> Python) /\ (Slow' <=> Slow) /\ Document' = Document
      /\ (Unwritten' <=> Unwritten) /\ \A f : Faulty(f)' <=> Faulty(f)
  BY DEF Delivered, TornLines, Exists, Said, Accounted, Unwritten, Slow, Python, Faulty, Document
<1>2. CASE life = "killed"
  BY <1>1, <1>2 DEF RunInv, Backed
<1>3. CASE life # "killed"
  <2>1. ControlInv /\ RingInv /\ BatchInv /\ DeliveredInv /\ CountInv /\ AccountInv /\ DocumentInv
    BY <1>3 DEF RunInv
  <2>2. ControlInv'
    BY <1>1, <2>1 DEF ControlInv
  <2>3. RingInv' /\ BatchInv' /\ DeliveredInv' /\ CountInv'
    <3>1. Arriving' = Arriving
      BY DEF Arriving
    <3>2. QED BY <1>1, <2>1, <3>1 DEF RingInv, BatchInv, DeliveredInv, CountInv
  <2>4. AccountInv'
    <3>1. Held' = Held
      BY DEF Held
    <3>2. Lost' = Lost /\ Owing' = Owing
      BY <1>1, <3>1 DEF Lost, Owing
    <3>3. Losses' = Losses
      BY DEF Losses
    <3>4. QED BY <1>1, <2>1, <3>2, <3>3 DEF AccountInv
  <2>5. DocumentInv'
    <3>1. ~Python => \A t \in Drains : Backed(thread[t].doc)'
      BY <1>1, <2>1 DEF DocumentInv, Backed
    <3>2. QED BY <1>1, <2>1, <3>1 DEF DocumentInv
  <2>6. QED BY <1>1, <2>2, <2>3, <2>4, <2>5 DEF RunInv, Backed
<1>4. QED BY <1>1, <1>2, <1>3

LEMMA CollectKeeps ==
  ASSUME IInv, Collect
  PROVE  IInv'
<1> DEFINE ReaderType == [at : {"none", "stream", "sidecar", "done"}, late : BOOLEAN,
                          listed : SUBSET {"stream", "sidecar"}, got : SUBSET Events,
                          dropped : Nat, windows : Seq(Int)]
<1>1. UNCHANGED <<setup, life, calls, ring, thread, counts, stream, sidecar>>
  <2>1. CASE List
    BY <2>1 DEF List
  <2>2. CASE ReadStream
    BY <2>2, Zenon DEF ReadStream
  <2>3. CASE ReadSidecar
    BY <2>3 DEF ReadSidecar
  <2>4. QED BY <2>1, <2>2, <2>3 DEF Collect
<1>2. TypeInv /\ RunInv /\ (~Python => Backed(sidecar)) /\ ReaderInv /\ reader \in ReaderType
  BY DEF IInv, TypeInv
<1>3. RunInv' /\ (~Python' => Backed(sidecar)') /\ Delivered' = Delivered
      /\ TornLines' = TornLines /\ Exists' = Exists /\ Said' = Said /\ (Unwritten' <=> Unwritten)
  BY <1>1, <1>2, ProcessStays
<1>4. reader' \in ReaderType => TypeInv'
  BY <1>1, <1>2 DEF TypeInv
<1>5. TornLines \in Nat /\ stream.lines \in Seq(Nat)
  BY <1>2, TypeFacts
<1>6. /\ Exists \subseteq {"stream", "sidecar"}
      /\ "stream" \in Exists <=> stream.lines # <<>>
      /\ "sidecar" \in Exists <=> sidecar # Absent
  BY DEF Exists
<1>7. sidecar # Absent => Said.dropped \in Nat /\ Said.window \in Int
  <2>1. Unmeasured \in Int
    BY DEF Unmeasured
  <2>2. CASE sidecar = Blank
    BY <2>1, <2>2 DEF Said, Accounted
  <2>3. CASE sidecar \in Statuses /\ sidecar # Blank
    BY <2>3 DEF Said, Accounted, Statuses, Events
  <2>4. QED BY <1>2, <2>2, <2>3 DEF TypeInv
<1>7a. OnlyRacesGoUncounted'
  BY <1>1 DEF IInv, OnlyRacesGoUncounted
<1>8. CASE List
  <2>1. /\ reader.at = "none"
        /\ reader' = [reader EXCEPT !.at = "stream", !.listed = Exists, !.late = Ended]
    BY <1>8 DEF List
  <2>2. /\ reader'.at = "stream" /\ reader'.listed = Exists /\ reader'.late = Ended
        /\ reader'.got = reader.got /\ reader'.dropped = reader.dropped
        /\ reader'.windows = reader.windows
    BY <1>2, <2>1
  <2>3. Ended \in BOOLEAN
    BY DEF Ended
  <2>4. reader' \in ReaderType
    BY <1>2, <1>6, <2>1, <2>3
  <2>5. ReaderInv'
    <3>1. reader'.late => life \in {"over", "killed"} \/ (life = "disowned" /\ thread["close"].at = "off")
      <4>1. Ended => life \in {"over", "killed"} \/ (life = "disowned" /\ thread["close"].at = "off")
        BY <1>2 DEF Ended, Waits, RunInv, ControlInv
      <4>2. QED BY <2>2, <4>1
    <3>2. reader.got = {} /\ reader.dropped = 0 /\ reader.windows = <<>>
      BY <1>2, <2>1 DEF ReaderInv
    <3>3. QED BY <1>1, <1>3, <1>6, <2>2, <3>1, <3>2 DEF ReaderInv
  <2>6. QED BY <1>3, <1>4, <1>7a, <2>4, <2>5 DEF IInv
<1>9. CASE ReadStream
  <2>1. PICK seen \in Views :
          reader' = IF "stream" \notin reader.listed
                    THEN [reader EXCEPT !.at = "sidecar"]
                    ELSE [reader EXCEPT !.at = "sidecar",
                            !.got = ToSet(seen.lines) \ {Torn},
                            !.dropped = @ + Cardinality({k \in 1 .. Len(seen.lines) : seen.lines[k] = Torn}),
                            !.windows = IF "sidecar" \in reader.listed THEN @
                                        ELSE Append(@, Unmeasured)]
    BY <1>9, Zenon DEF ReadStream
  <2>2. reader.at = "stream"
    BY <1>9, Zenon DEF ReadStream
  <2>3. seen \in StreamType /\ (reader.late /\ Unwritten => seen = stream)
    BY <1>2, WhatIsSeen
  <2> DEFINE got == ToSet(seen.lines) \ {Torn}
             torn == Cardinality({k \in 1 .. Len(seen.lines) : seen.lines[k] = Torn})
             windows == IF "sidecar" \in reader.listed THEN reader.windows
                        ELSE Append(reader.windows, Unmeasured)
  <2>4. got \subseteq Events /\ torn \in Nat /\ windows \in Seq(Int)
    <3>1. seen.lines \in Seq(Nat)
      BY <2>3 DEF StreamType
    <3>2. ToSet(seen.lines) \subseteq Nat
      BY <3>1, MembersOf
    <3>3. TornOf(seen.lines) \in Nat
      BY <3>1, TornIsNatural
    <3>4. Unmeasured \in Int /\ reader.windows \in Seq(Int)
      BY <1>2 DEF Unmeasured
    <3>5. windows \in Seq(Int)
      BY <3>4, AppendProperties
    <3>6. QED BY <3>2, <3>3, <3>5 DEF TornOf, Events, Torn
  <2>5. reader.late /\ Unwritten => got = Delivered /\ torn = TornLines
    BY <2>3 DEF Delivered, TornLines
  <2>6. reader.got = {} /\ reader.dropped = 0 /\ reader.windows = <<>>
    BY <1>2, <2>2 DEF ReaderInv
  <2>7. "stream" \in reader.listed =>
          reader' = [reader EXCEPT !.at = "sidecar", !.got = got, !.dropped = torn, !.windows = windows]
    <3>1. "stream" \in reader.listed =>
            reader' = [reader EXCEPT !.at = "sidecar", !.got = got, !.dropped = reader.dropped + torn,
                                     !.windows = windows]
      BY <2>1
    <3> HIDE DEF got, torn, windows
    <3>2. reader.dropped + torn = torn
      BY <2>4, <2>6
    <3>3. QED BY <3>1, <3>2
  <2>8. "stream" \notin reader.listed => reader' = [reader EXCEPT !.at = "sidecar"]
    BY <2>1
  <2>9. /\ "sidecar" \in reader.listed => windows = <<>>
        /\ "sidecar" \notin reader.listed => windows = <<Unmeasured>>
    BY <2>6
  <2> HIDE DEF got, torn, windows
  <2>10. /\ reader'.at = "sidecar" /\ reader'.late = reader.late /\ reader'.listed = reader.listed
         /\ "stream" \in reader.listed =>
              reader'.got = got /\ reader'.dropped = torn /\ reader'.windows = windows
         /\ "stream" \notin reader.listed =>
              reader'.got = {} /\ reader'.dropped = 0 /\ reader'.windows = <<>>
    BY <1>2, <2>6, <2>7, <2>8
  <2>11. reader' \in ReaderType
    BY <1>2, <2>4, <2>7, <2>8
  <2>12. ReaderInv'
    <3>1. ASSUME reader.late PROVE /\ life \in {"over", "killed"} \/ (life = "disowned" /\ thread["close"].at = "off")
                                   /\ reader.listed = Exists
      BY <1>2, <3>1 DEF ReaderInv
    <3>2. ASSUME reader.late, Unwritten
          PROVE  /\ reader'.got = Delivered /\ reader'.dropped = TornLines
                 /\ reader'.windows = IF sidecar = Absent
                                      THEN IF stream.lines = <<>> THEN <<>> ELSE <<Unmeasured>>
                                      ELSE <<>>
      <4>1. CASE stream.lines = <<>>
        <5>1. Delivered = {} /\ TornLines = 0
          <6>1. ToSet(<<>>) = {}
            <7>1. <<>> \in Seq(Nat)
              OBVIOUS
            <7>2. QED BY <7>1, MembersOf
          <6>2. {k \in 1 .. Len(stream.lines) : stream.lines[k] = Torn} = {}
            BY <4>1
          <6>3. QED BY <4>1, <6>1, <6>2, FS_EmptySet DEF Delivered, TornLines
        <5>2. "stream" \notin reader.listed
          BY <1>6, <3>1, <3>2, <4>1
        <5>3. QED BY <2>10, <4>1, <5>1, <5>2
      <4>2. CASE stream.lines # <<>>
        BY <1>6, <2>5, <2>9, <2>10, <3>1, <3>2, <4>2
      <4>3. QED BY <4>1, <4>2
    <3>3. "sidecar" \in reader.listed => sidecar # Absent
      BY <1>2 DEF ReaderInv
    <3>4. TornLines + 0 = TornLines
      BY <1>5
    <3>5. QED BY <1>1, <1>3, <2>10, <3>1, <3>2, <3>3, <3>4 DEF ReaderInv
  <2>13. QED BY <1>3, <1>4, <1>7a, <2>11, <2>12 DEF IInv
<1>10. CASE ReadSidecar
  <2>1. /\ reader.at = "sidecar"
        /\ "sidecar" \notin reader.listed => reader' = [reader EXCEPT !.at = "done"]
        /\ "sidecar" \in reader.listed =>
             reader' = [reader EXCEPT !.at = "done", !.dropped = @ + Said.dropped,
                                      !.windows = Append(@, Said.window)]
    BY <1>10 DEF ReadSidecar, Said
  <2>2. "sidecar" \in reader.listed => sidecar # Absent
    BY <1>2 DEF ReaderInv
  <2> DEFINE more == reader.dropped + Said.dropped
             windows == Append(reader.windows, Said.window)
  <2>3. sidecar # Absent => more \in Nat /\ windows \in Seq(Int)
    BY <1>2, <1>7, AppendProperties
  <2>4. "sidecar" \in reader.listed =>
          reader' = [reader EXCEPT !.at = "done", !.dropped = more, !.windows = windows]
    BY <2>1
  <2>5. reader.windows = <<>> => windows = <<Said.window>>
    OBVIOUS
  <2> HIDE DEF windows
  <2>6. /\ reader'.at = "done" /\ reader'.late = reader.late /\ reader'.listed = reader.listed
        /\ reader'.got = reader.got
        /\ "sidecar" \in reader.listed => reader'.dropped = more /\ reader'.windows = windows
        /\ "sidecar" \notin reader.listed =>
             reader'.dropped = reader.dropped /\ reader'.windows = reader.windows
    BY <1>2, <2>1, <2>4
  <2>7. reader' \in ReaderType
    BY <1>2, <2>1, <2>2, <2>3, <2>4
  <2>8. ReaderInv'
    <3>1. ASSUME reader.late PROVE /\ life \in {"over", "killed"} \/ (life = "disowned" /\ thread["close"].at = "off")
                                   /\ reader.listed = Exists
      BY <1>2, <3>1 DEF ReaderInv
    <3>2. ASSUME reader.late, Unwritten
          PROVE  /\ reader'.got = Delivered
                 /\ reader'.dropped = TornLines + IF sidecar # Absent THEN Said.dropped ELSE 0
                 /\ reader'.windows = IF sidecar = Absent
                                      THEN IF stream.lines = <<>> THEN <<>> ELSE <<Unmeasured>>
                                      ELSE <<Said.window>>
      <4>1. /\ reader.got = Delivered /\ reader.dropped = TornLines + 0
            /\ reader.windows = IF sidecar = Absent
                                THEN IF stream.lines = <<>> THEN <<>> ELSE <<Unmeasured>>
                                ELSE <<>>
        BY <1>2, <2>1, <3>2 DEF ReaderInv
      <4>2. QED BY <1>5, <1>6, <2>5, <2>6, <3>1, <3>2, <4>1
    <3>3. QED BY <1>1, <1>3, <2>2, <2>6, <3>1, <3>2 DEF ReaderInv
  <2>9. QED BY <1>3, <1>4, <1>7a, <2>7, <2>8 DEF IInv
<1>11. QED BY <1>8, <1>9, <1>10 DEF Collect

(***************************************************************************)
(* The invariant                                                           *)
(***************************************************************************)

LEMMA EmptyHasNoMembers ==
  ToSet(<<>>) = {} /\ IsFiniteSet({}) /\ Cardinality({}) = 0
<1>1. <<>> \in Seq(Nat)
  OBVIOUS
<1>2. QED BY <1>1, MembersOf, FS_EmptySet

LEMMA InitIsGood ==
  ASSUME Init
  PROVE  IInv
<1> DEFINE D == Drains \cup setup.callers
<1>1. /\ setup \in Setups /\ life = "new" /\ calls = 0 /\ ring = <<>>
      /\ thread = [t \in D |-> Resting]
      /\ counts = [dropped |-> 0, written |-> 0, missed |-> 0]
      /\ stream = [lines |-> <<>>, cut |-> FALSE]
      /\ sidecar = Absent
      /\ reader = [at |-> "none", late |-> FALSE, listed |-> {}, got |-> {},
                   dropped |-> 0, windows |-> <<>>]
  BY DEF Init
<1>2. Resting \in ThreadType
  BY DEF Resting, ThreadType, Places
<1>3. TypeInv
  BY <1>1, <1>2 DEF TypeInv, CountsType, Lives
<1>4. Drains \subseteq D /\ setup.callers \subseteq D
  OBVIOUS
<1>5. \A t \in D : /\ thread[t].at = "off" /\ thread[t].batch = <<>> /\ thread[t].doc = Absent
  BY <1>1 DEF Resting
<1> HIDE DEF D
<1>6. ToSet(<<>>) = {} /\ Len(<<>>) = 0 /\ Cardinality({}) = 0
  BY EmptyHasNoMembers
<1>7. Delivered = {} /\ TornLines = 0 /\ Held = {} /\ Owing = {}
  <2>1. {k \in 1 .. Len(stream.lines) : stream.lines[k] = Torn} = {}
    BY <1>1, <1>6
  <2>2. Delivered = {} /\ TornLines = 0
    BY <1>1, <1>6, <2>1 DEF Delivered, TornLines
  <2>3. Held = {} /\ Owing = {}
    BY <1>1, <1>4, <1>5, <1>6 DEF Held, Owing
  <2>4. QED BY <2>2, <2>3
<1>8. ControlInv
  BY <1>1, <1>4, <1>5 DEF ControlInv, Drains, Busy
<1>9. RingInv
  <2>1. {c \in setup.callers : thread[c].at = "put"} = {}
    BY <1>4, <1>5
  <2>2. Arriving = 0 /\ MaxCalls \in Nat
    BY <1>6, <2>1, StreamAssumption DEF Arriving
  <2>3. QED BY <1>1, <1>6, <2>2 DEF RingInv, InOrder
<1>10. BatchInv
  <2>1. Rising(<<>>)
    BY DEF Rising
  <2>2. QED BY <1>1, <1>4, <1>5, <1>6, <2>1 DEF BatchInv, Drains
<1>11. DeliveredInv /\ CountInv
  BY <1>1, <1>4, <1>5, <1>7 DEF DeliveredInv, CountInv
<1>12. AccountInv
  <2>1. Lost \cup Owing = {}
    BY <1>1, <1>7 DEF Lost
  <2>2. Cardinality(Lost \cup Owing) = 0
    BY <1>6, <2>1
  <2>3. Losses = 0 /\ ~stream.cut
    BY <1>1 DEF Losses
  <2>4. QED BY <1>7, <2>2, <2>3 DEF AccountInv
<1>13. DocumentInv /\ Backed(sidecar)
  BY <1>1, <1>4, <1>5 DEF DocumentInv, Backed, Absent, Drains
<1>14. ReaderInv
  BY <1>1 DEF ReaderInv
<1>15. OnlyRacesGoUncounted
  BY <1>1 DEF OnlyRacesGoUncounted
<1>16. QED BY <1>3, <1>8, <1>9, <1>10, <1>11, <1>12, <1>13, <1>14, <1>15 DEF IInv, RunInv

\* Only a collector is left of a process that was killed.
LEMMA KilledDoesNothing ==
  ASSUME life = "killed", Next
  PROVE  Collect
<1>1. ASSUME NEW t \in Drains PROVE ~Draining(t)
  BY DEF Draining, Running
<1>2. ASSUME NEW c \in setup.callers PROVE ~Look(c) /\ ~Put(c)
  BY DEF Look, Put, Calling
<1>3. ~Declare /\ ~Instrument /\ ~Disown /\ ~Record /\ ~Wake /\ ~BeginClose /\ ~Join /\ ~Kill
  BY DEF Declare, Instrument, Disown, Record, Wake, BeginClose, Join, Kill
<1>4. QED BY <1>1, <1>2, <1>3 DEF Next

LEMMA NextKeeps ==
  ASSUME IInv, [Next]_vars
  PROVE  IInv'
<1>1. CASE UNCHANGED vars
  <2>1. UNCHANGED <<setup, life, calls, ring, thread, counts, stream, sidecar>> /\ reader' = reader
    BY <1>1 DEF vars
  <2>2. TypeInv /\ RunInv /\ (~Python => Backed(sidecar)) /\ ReaderInv /\ OnlyRacesGoUncounted
    BY DEF IInv
  <2>3. RunInv' /\ (~Python' => Backed(sidecar)') /\ Delivered' = Delivered
        /\ TornLines' = TornLines /\ Exists' = Exists /\ Said' = Said /\ (Unwritten' <=> Unwritten)
    BY <2>1, <2>2, ProcessStays
  <2>4. TypeInv'
    BY <2>1, <2>2 DEF TypeInv
  <2>5. ReaderInv'
    BY <2>1, <2>2, <2>3 DEF ReaderInv
  <2>6. OnlyRacesGoUncounted'
    BY <2>1, <2>2 DEF OnlyRacesGoUncounted
  <2>7. QED BY <2>3, <2>4, <2>5, <2>6 DEF IInv
<1>2. CASE Collect
  BY <1>2, CollectKeeps
<1>3. CASE Working /\ life # "killed"
  <2>1. Good /\ ReaderInv
    BY <1>3 DEF IInv, RunInv, Good
  <2>2. Good'
    BY <1>3, <2>1, WorkingKeeps
  <2>3. ReaderInv'
    BY <1>3, <2>1, WorkingIsSeenByNobody, EarlyReader
  <2>4. OnlyRacesGoUncounted'
    BY <2>2 DEF Good, CountInv, OnlyRacesGoUncounted
  <2>5. QED BY <2>2, <2>3, <2>4 DEF Good, IInv, RunInv
<1>4. CASE Kill
  <2>1. Good /\ ReaderInv
    BY <1>4 DEF IInv, RunInv, Good, Kill
  <2>2. OnlyRacesGoUncounted'
    BY <1>4 DEF IInv, OnlyRacesGoUncounted, Kill
  <2>3. QED BY <1>4, <2>1, <2>2, KillKeeps DEF IInv, RunInv
<1>5. QED BY <1>1, <1>2, <1>3, <1>4, KilledDoesNothing DEF Next, Working

\* The state of a hooked process, its files and its collector is well formed whatever
\* fails and whoever interleaves (IInv).
THEOREM StreamIsWellFormed ==
  Spec => []IInv
<1>1. Init => IInv
  BY InitIsGood
<1>2. IInv /\ [Next]_vars => IInv'
  BY NextKeeps
<1>3. QED BY <1>1, <1>2, PTL DEF Spec

\* The drop count falls short of the losses only where two threads share a ring that
\* fills, or a failed append is counted beside another loss.
THEOREM CountIsExactButForRaces ==
  Spec => []OnlyRacesGoUncounted
<1>1. IInv => OnlyRacesGoUncounted
  BY DEF IInv
<1>2. QED BY <1>1, StreamIsWellFormed, PTL

(***************************************************************************)
(* What the collector says                                                 *)
(***************************************************************************)

\* The window of what one file said.
LEMMA WindowOf ==
  /\ reader.windows = <<>> => Window = Unmeasured
  /\ \A w \in Int : reader.windows = <<w>> => Window = w
<1>1. reader.windows = <<>> => Window = Unmeasured
  BY DEF Window
<1>2. ASSUME NEW w \in Int, reader.windows = <<w>> PROVE Window = w
  <2>1. ToSet(<<w>>) = {w}
    <3>1. <<w>> \in Seq(Int) /\ Len(<<w>>) = 1 /\ <<w>>[1] = w /\ <<w>> # <<>>
      OBVIOUS
    <3> DEFINE one == <<w>>
    <3>2. one \in Seq(Int) /\ Len(one) = 1 /\ one[1] = w
      BY <3>1
    <3> HIDE DEF one
    <3>3. \A e : e \in ToSet(one) <=> \E i \in 1 .. Len(one) : e = one[i]
      BY <3>2, MembersOf
    <3>4. ToSet(one) = {w}
      BY <3>2, <3>3
    <3>5. QED BY <3>4 DEF one
  <2>2. <<w>> # <<>>
    OBVIOUS
  <2>3. CASE w = Unmeasured
    BY <1>2, <2>1, <2>3 DEF Window
  <2>4. CASE w # Unmeasured
    <3>1. Window = CHOOSE x \in {w} : \A v \in {w} : x <= v
      BY <1>2, <2>1, <2>2, <2>4 DEF Window
    <3>2. w <= w
      BY <1>2
    <3>3. \A x : x \in {w} /\ (\A v \in {w} : x <= v) <=> x = w
      BY <3>2
    <3>4. (CHOOSE x \in {w} : \A v \in {w} : x <= v) = w
      BY <3>2
    <3>5. QED BY <3>1, <3>4
  <2>5. QED BY <2>3, <2>4
<1>3. QED BY <1>1, <1>2

\* After a clean exit the hook holds nothing, and its last document is true.
LEMMA LastDocument ==
  ASSUME Good, life = "over", ~Slow, ~Faulty("status")
  PROVE  sidecar = Document /\ Backed(Document)
<1>1. ring = <<>> /\ sidecar = Document
  BY DEF Good, DocumentInv
<1>2. thread["close"].at = "off" /\ thread["drain"].at \in {"off", "done"}
  BY DEF Good, ControlInv
<1>3. \A t \in Drains : thread[t].batch = <<>>
  BY <1>2 DEF Good, BatchInv, Drains
<1>4. QED BY <1>1, <1>3, DocumentIsBacked

LEMMA WindowFollows ==
  ASSUME IInv
  PROVE  WindowIsBacked
<1> SUFFICES ASSUME reader.at = "done", reader.late PROVE WindowIsBacked
  BY DEF WindowIsBacked
<1>1. /\ TypeInv /\ RunInv /\ ReaderInv /\ calls \in Nat /\ TornLines \in Nat /\ Unmeasured = -1
      /\ life \in {"over", "killed"} \/ (life = "disowned" /\ thread["close"].at = "off")
      /\ sidecar \in Statuses \cup {Absent, Blank}
  BY TypeFacts DEF IInv, TypeInv, ReaderInv, Unmeasured
<1>2. ASSUME Unwritten
      PROVE  /\ reader.got = Delivered
             /\ sidecar = Absent => reader.dropped = TornLines /\ Window = -1
             /\ sidecar = Blank => reader.dropped = TornLines /\ Window = -1
             /\ sidecar \in Statuses =>
                  /\ reader.dropped = TornLines + sidecar.dropped
                  /\ Window = IF sidecar.active THEN sidecar.until ELSE 0
             /\ sidecar = Absent /\ stream.lines = <<>> => Window = -1
  <2>1. /\ reader.got = Delivered
        /\ reader.dropped = TornLines + IF sidecar # Absent THEN Said.dropped ELSE 0
        /\ reader.windows = IF sidecar = Absent
                            THEN IF stream.lines = <<>> THEN <<>> ELSE <<Unmeasured>>
                            ELSE <<Said.window>>
    BY <1>1, <1>2 DEF ReaderInv
  <2>2. CASE sidecar = Absent
    <3>1. reader.windows = <<>> \/ reader.windows = <<Unmeasured>>
      BY <2>1, <2>2
    <3>2. Window = -1 /\ Blank # Absent /\ Absent \notin Statuses
      BY <1>1, <3>1, WindowOf DEF Statuses, Absent, Blank
    <3>3. QED BY <1>1, <2>1, <2>2, <3>2
  <2>3. CASE sidecar = Blank
    <3>1. Said.dropped = 0 /\ Said.window = Unmeasured
      BY <2>3 DEF Said, Accounted
    <3>2. Blank # Absent /\ Blank \notin Statuses
      BY DEF Statuses, Absent, Blank
    <3>3. Window = -1
      BY <1>1, <2>1, <2>3, <3>1, <3>2, WindowOf
    <3>4. QED BY <1>1, <2>1, <2>3, <3>1, <3>2, <3>3
  <2>4. CASE sidecar \in Statuses
    <3>1. sidecar # Absent /\ sidecar # Blank
      BY <2>4 DEF Statuses, Absent, Blank
    <3>2. Said.dropped = sidecar.dropped /\ Said.window = IF sidecar.active THEN sidecar.until ELSE 0
      BY <3>1 DEF Said, Accounted
    <3>3. Said.window \in Int
      BY <2>4, <3>2 DEF Statuses, Events
    <3>4. Window = Said.window
      BY <2>1, <3>1, <3>3, WindowOf
    <3>5. QED BY <2>1, <3>1, <3>2, <3>4
  <2>5. QED BY <1>1, <2>2, <2>3, <2>4
<1>3. 1 .. -1 - 1 = {} /\ 1 .. 0 - 1 = {} /\ Cardinality({}) = 0
  BY FS_EmptySet
<1>4. ASSUME life # "disowned", setup.faults \cap {"slow", "daemon", "status"} = {}, Python => life = "over"
      PROVE  /\ Cardinality((1 .. Window - 1) \ reader.got) <= reader.dropped + counts.missed
             /\ life = "over" => Window = calls + 1
  <2>1. ~Slow /\ ~Faulty("status") /\ Unwritten
    BY <1>4 DEF Slow, Faulty, Unwritten
  <2>2. CASE life = "over"
    <3>1. Good
      <4>1. ~Python => Backed(sidecar)
        BY DEF IInv
      <4>2. QED BY <1>1, <2>2, <4>1 DEF RunInv, Good
    <3>2. sidecar = Document /\ Backed(sidecar)
      BY <2>1, <2>2, <3>1, LastDocument
    <3>3. /\ Document \in Statuses /\ Document.is = "status" /\ Document.active
          /\ Document.until = calls + 1
      <4>1. Document \in Statuses /\ Document.is = "status" /\ Document.active = (life # "disowned")
        BY <1>1, DocumentIsStatus
      <4>2. Document.until = calls + 1
        BY DEF Document
      <4>3. QED BY <2>2, <4>1, <4>2
    <3>4. Window = calls + 1 /\ reader.dropped = TornLines + sidecar.dropped /\ reader.got = Delivered
      BY <1>2, <2>1, <3>2, <3>3
    <3>5. Cardinality((1 .. Window - 1) \ reader.got) <= sidecar.dropped + counts.missed + TornLines
      BY <3>2, <3>3, <3>4 DEF Backed
    <3>6. sidecar.dropped \in Nat /\ counts.missed \in Int
      BY <1>1, <3>2, <3>3, TypeFacts DEF Statuses
    <3>7. QED BY <1>1, <3>4, <3>5, <3>6
  <2>3. CASE life = "killed"
    <3>1. ~Python /\ Backed(sidecar) /\ counts.missed = 0
      BY <1>4, <2>3 DEF IInv, OnlyRacesGoUncounted, CountsEveryLoss, Python
    <3>2. CASE sidecar = Absent \/ sidecar = Blank
      <4>1. Window = -1 /\ reader.dropped = TornLines
        BY <1>2, <2>1, <3>2
      <4>2. (1 .. Window - 1) \ reader.got = {}
        BY <4>1
      <4>3. QED BY <1>1, <1>3, <2>3, <3>1, <4>1, <4>2
    <3>3. CASE sidecar \in Statuses /\ ~sidecar.active
      <4>1. Window = 0 /\ reader.dropped = TornLines + sidecar.dropped /\ sidecar.dropped \in Nat
        BY <1>2, <2>1, <3>3 DEF Statuses
      <4>2. (1 .. Window - 1) \ reader.got = {}
        BY <4>1
      <4>3. QED BY <1>1, <1>3, <2>3, <3>1, <4>1, <4>2
    <3>4. CASE sidecar \in Statuses /\ sidecar.active
      <4>1. /\ Window = sidecar.until /\ reader.dropped = TornLines + sidecar.dropped
            /\ sidecar.dropped \in Nat /\ sidecar.is = "status" /\ reader.got = Delivered
        BY <1>2, <2>1, <3>4 DEF Statuses
      <4>2. Cardinality((1 .. sidecar.until - 1) \ Delivered) <= sidecar.dropped + counts.missed + TornLines
        BY <3>1, <4>1 DEF Backed
      <4>3. QED BY <1>1, <2>3, <3>1, <4>1, <4>2
    <3>5. QED BY <1>1, <3>2, <3>3, <3>4
  <2>4. QED BY <1>1, <1>4, <2>2, <2>3
<1>5. ASSUME life = "disowned", ~Faulty("status") PROVE Window <= 0
  <2>1. Unwritten /\ DocumentInv /\ DeliveredInv /\ thread["close"].at = "off"
    BY <1>1, <1>5 DEF Unwritten, RunInv
  <2>2. CASE Python
    <3>1. sidecar.is = "status" /\ ~sidecar.active
      BY <1>5, <2>1, <2>2 DEF DocumentInv
    <3>2. sidecar \in Statuses
      BY <1>1, <3>1 DEF Absent, Blank
    <3>3. Window = 0
      BY <1>2, <2>1, <3>1, <3>2
    <3>4. QED BY <3>3
  <2>3. CASE ~Python
    <3>1. sidecar = Absent
      BY <1>5, <2>1, <2>3 DEF DocumentInv
    <3>2. Window = -1
      BY <1>2, <2>1, <3>1
    <3>3. QED BY <3>2
  <2>4. QED BY <2>2, <2>3
<1>6. QED BY <1>4, <1>5 DEF WindowIsBacked

\* What the collector answers about a process that had ended is backed by what it
\* read: everything up to the window it states is in the events or in the count, but
\* for what the count itself missed.
THEOREM CollectorIsBacked ==
  Spec => []WindowIsBacked
<1>1. IInv => WindowIsBacked
  BY WindowFollows
<1>2. Spec => []IInv
  BY StreamIsWellFormed
<1>3. QED BY <1>1, <1>2, PTL

(***************************************************************************)
(* The channel                                                             *)
(***************************************************************************)

\* The channel counts as this module does.
LEMMA SameCardinality ==
  ASSUME NEW S
  PROVE  Channel!Cardinality(S) = Cardinality(S)
BY DEF Channel!Cardinality, Cardinality

Lines == Len(stream.lines) - TornLines
Excused == counts.dropped + counts.missed + TornLines

\* What is lost to the channel is paid for.
LEMMA AccountShows ==
  Good => /\ Cardinality(Channel!Lost) <= Excused
          /\ Lines \in Int /\ Excused \in Int /\ Kept \cap Delivered = {}
<1> SUFFICES ASSUME Good
             PROVE  /\ Cardinality(Channel!Lost) <= Excused
                    /\ Lines \in Int /\ Excused \in Int /\ Kept \cap Delivered = {}
  OBVIOUS
<1>1. /\ Losses \in Int /\ Excused = Losses + TornLines
      /\ TornLines \in Nat /\ stream.lines \in Seq(Nat)
  BY TypeFacts DEF Good, Losses, Excused
<1>2. Lines \in Int /\ Excused \in Int
  <2>1. Len(stream.lines) \in Nat
    BY <1>1, LenProperties, Zenon
  <2>2. QED BY <1>1, <2>1 DEF Lines
<1>3. Channel!Lost = Lost
  BY DEF Channel!Lost, Lost, Kept, Held
<1>4. IsFiniteSet(Lost \cup Owing)
  BY HeldWasObserved DEF Good
<1> DEFINE n == Cardinality(Lost \cup Owing)
           m == Cardinality(Lost)
           k == IF stream.cut THEN 1 ELSE 0
<1>5. n \in Nat /\ m \in Nat /\ m <= n
  <2>1. Lost \in SUBSET (Lost \cup Owing)
    OBVIOUS
  <2>2. IsFiniteSet(Lost) /\ m <= n
    BY <1>4, <2>1, FS_Subset, Zenon
  <2>3. QED BY <1>4, <2>2, FS_CardinalityType, Zenon
<1>6. n + k <= Excused /\ k \in {0, 1}
  BY <1>1 DEF Good, AccountInv
<1> HIDE DEF n, m, k
<1>7. m <= Excused
  BY <1>2, <1>5, <1>6
<1>8. QED BY <1>2, <1>3, <1>7 DEF m, Kept

\* The same of the next state.
LEMMA AccountShowsThen ==
  Good' => Cardinality(Channel!Lost') <= Excused' /\ Excused' \in Int
<1>1. Good => Cardinality(Channel!Lost) <= Excused /\ Excused \in Int
  BY AccountShows
<1>2. Good' => (Cardinality(Channel!Lost) <= Excused /\ Excused \in Int)'
  BY <1>1, PTL
<1>3. QED BY <1>2

LEMMA TornThen ==
  TypeInv' => TornLines' \in Nat
<1>1. TypeInv => TornLines \in Nat
  BY TypeFacts
<1>2. TypeInv' => (TornLines \in Nat)'
  BY <1>1, PTL
<1>3. QED BY <1>2

LEMMA QuietShows ==
  ASSUME Quiet
  PROVE  /\ calls' = calls /\ Kept' = Kept /\ Delivered' = Delivered
         /\ Lines' = Lines /\ Excused' = Excused
BY DEF Quiet, Kept, Delivered, Lines, Excused, TornLines

\* A call observed is submitted.
LEMMA ObservedSubmits ==
  ASSUME Good, Good', Observed
  PROVE  Channel!Submit
<1>1. /\ Delivered' = Delivered /\ TornLines' = TornLines
      /\ Held' \subseteq Held \cup {calls'} /\ calls' \in Held' /\ calls' \notin Delivered
  BY ObservedKeepsCalls
<1>2. /\ life \in {"active", "closing"} /\ life' = life /\ calls' = calls + 1 /\ stream' = stream
      /\ Losses' \in Losses .. Losses + 1
  BY DEF Observed
<1>3. /\ Cardinality(Channel!Lost') <= Excused'
      /\ Excused \in Int /\ Losses \in Int /\ TornLines \in Nat
      /\ Excused = Losses + TornLines /\ Excused' = Losses' + TornLines'
  <2>1. Cardinality(Channel!Lost') <= Excused'
    BY AccountShowsThen
  <2>2. Excused \in Int /\ Losses \in Int /\ TornLines \in Nat
    BY AccountShows, TypeFacts DEF Good
  <2>3. QED BY <2>1, <2>2 DEF Excused, Losses
<1>4. Kept' \in {kept \cup {calls'} : kept \in SUBSET Kept}
  <2>1. /\ Kept = Held \ Delivered /\ Kept' = Held' \ Delivered'
    BY DEF Kept, Held
  <2>2. Kept' \ {calls'} \in SUBSET Kept
    BY <1>1, <2>1
  <2>3. Kept' = (Kept' \ {calls'}) \cup {calls'}
    BY <1>1, <2>1
  <2>4. QED BY <2>2, <2>3
<1>5. Excused' \in Excused .. Excused + 1
  <2>1. TornLines \in Int /\ Losses' + TornLines \in Losses + TornLines .. Losses + TornLines + 1
    <3>1. TornLines \in Int
      BY <1>3
    <3>2. QED BY <1>2, <1>3, <3>1, SumStepsUp, Zenon
  <2>2. QED BY <1>1, <1>3, <2>1, Zenon
<1>6. Running /\ Running' = Running /\ Lines' = Lines
  BY <1>1, <1>2 DEF Running, Lines
<1>7. /\ (counts.dropped + counts.missed + TornLines)'
           \in counts.dropped + counts.missed + TornLines .. counts.dropped + counts.missed + TornLines + 1
      /\ Cardinality(Channel!Lost') <= (counts.dropped + counts.missed + TornLines)'
      /\ (Len(stream.lines) - TornLines)' = Len(stream.lines) - TornLines
  BY <1>3, <1>5, <1>6 DEF Excused, Lines
<1>8. QED
  BY <1>1, <1>2, <1>4, <1>6, <1>7, SameCardinality, Zenon DEF Channel!Submit

\* Some of what is kept became a line each.
LEMMA SomeDelivered ==
  ASSUME Good, NEW got \in SUBSET Kept, Delivered' = Delivered \cup got,
         Lines' = Lines + Cardinality(got)
  PROVE  Channel!Deliver
<1>1. Delivered' \ Delivered = got
  BY AccountShows
<1>2. Delivered' \in {Delivered \cup some : some \in SUBSET Kept}
  OBVIOUS
<1>3. (Len(stream.lines) - TornLines)' = Len(stream.lines) - TornLines + Cardinality(Delivered' \ Delivered)
  BY <1>1 DEF Lines
<1>4. QED BY <1>2, <1>3, SameCardinality, Zenon DEF Channel!Deliver

LEMMA SettledSettles ==
  ASSUME Good, Good', Settled, Running, calls' = calls, life' = life
  PROVE  Channel!Settle
<1>1. Cardinality(Channel!Lost') <= Excused' /\ Excused' \in Int
  BY AccountShowsThen
<1>2. /\ Kept' \in SUBSET Kept /\ Excused <= Excused'
      /\ \E got \in SUBSET Kept :
           /\ Delivered' = Delivered \cup got
           /\ Lines' = Lines + Cardinality(got)
  BY DEF Settled, Lines, Excused, Losses
<1>3. Channel!Deliver
  BY <1>2, SomeDelivered
<1>4. Excused \in Int
  BY AccountShows
<1>5. Running' = Running
  BY DEF Running
<1>6. /\ (counts.dropped + counts.missed + TornLines)' >= counts.dropped + counts.missed + TornLines
      /\ Cardinality(Channel!Lost') <= (counts.dropped + counts.missed + TornLines)'
  BY <1>1, <1>2, <1>4 DEF Excused
<1>7. QED BY <1>2, <1>3, <1>5, <1>6, SameCardinality, Zenon DEF Channel!Settle

\* Nothing but a close that has stated its end takes a working process there.
LEMMA StatedEnds ==
  ASSUME Good, Running, NEW t \in Drains, Stated(t), Quiet
  PROVE  Channel!End \/ UNCHANGED Channel!vars
<1>1. /\ calls' = calls /\ Kept' = Kept /\ Delivered' = Delivered
      /\ Lines' = Lines /\ Excused' = Excused
  BY QuietShows
<1>2. Lines \in Int /\ Excused \in Int /\ Kept \cap Delivered = {}
  BY AccountShows
<1>3. CASE t = "close" /\ life = "closing"
  <2>1. ~Running'
    BY <1>3 DEF Stated, Running
  <2>2. Channel!Deliver
    <3>1. {} \in SUBSET Kept /\ Delivered' = Delivered \cup {} /\ Lines' = Lines + Cardinality({})
      BY <1>1, <1>2, FS_EmptySet
    <3>2. QED BY <3>1, SomeDelivered
  <2>3. QED BY <1>1, <1>2, <2>1, <2>2 DEF Channel!End, Excused
<1>4. CASE ~(t = "close" /\ life = "closing")
  <2>1. Running' = Running
    BY <1>4 DEF Stated, Running
  <2>2. QED BY <1>1, <2>1 DEF Channel!vars, Lines, Excused
<1>5. QED BY <1>3, <1>4

LEMMA KillEnds ==
  ASSUME Good, ReaderInv, Kill
  PROVE  Channel!End
<1>1. /\ life \notin {"over", "killed"} /\ life' = "killed" /\ calls' = calls
      /\ ring' = ring /\ thread' = thread /\ counts' = counts
  BY DEF Kill
<1>2. PICK got \in SUBSET Kept :
        /\ Delivered' = Delivered \cup got /\ TornLines <= TornLines'
        /\ Len(stream'.lines) - TornLines' = Len(stream.lines) - TornLines + Cardinality(got)
  BY KillKeeps
<1>3. /\ TornLines' \in Nat /\ TornLines \in Nat
      /\ counts.dropped \in Nat /\ counts.missed \in Int
  BY KillKeeps, TornThen, TypeFacts DEF Good
<1>4. Channel!Deliver
  <2>1. Lines' = Lines + Cardinality(got)
    BY <1>2 DEF Lines
  <2>2. QED BY <1>2, <2>1, SomeDelivered
<1>5. Kept' = Kept \ Delivered'
  BY <1>1, <1>2 DEF Kept
<1>6. counts'.dropped + counts'.missed + TornLines' >= counts.dropped + counts.missed + TornLines
  BY <1>1, <1>2, <1>3
<1>7. Running /\ ~Running'
  BY <1>1 DEF Running
<1>8. QED BY <1>1, <1>4, <1>5, <1>6, <1>7 DEF Channel!End

LEMMA StepImplements ==
  ASSUME IInv, [Next]_vars
  PROVE  [Channel!Next]_(Channel!vars)
<1>1. /\ TypeInv /\ ReaderInv /\ (life # "killed" => Good)
  BY DEF IInv, RunInv, Good
<1>2. ASSUME Quiet, Running' = Running PROVE UNCHANGED Channel!vars
  <2>1. calls' = calls /\ Kept' = Kept /\ Delivered' = Delivered
        /\ Lines' = Lines /\ Excused' = Excused
    BY <1>2, QuietShows
  <2>2. QED BY <1>2, <2>1 DEF Channel!vars, Lines, Excused
<1>3. ASSUME UNCHANGED <<life, calls, ring, thread, counts, stream>> PROVE UNCHANGED Channel!vars
  BY <1>3 DEF Channel!vars, Kept, Delivered, TornLines, Running
<1>4. CASE UNCHANGED vars
  BY <1>3, <1>4 DEF vars
<1>5. CASE Collect
  <2>1. CASE List
    BY <1>3, <2>1 DEF List
  <2>2. CASE ReadStream
    <3>1. UNCHANGED <<life, calls, ring, thread, counts, stream>>
      BY <2>2, Zenon DEF ReadStream
    <3>2. QED BY <1>3, <3>1
  <2>3. CASE ReadSidecar
    BY <1>3, <2>3 DEF ReadSidecar
  <2>4. QED BY <1>5, <2>1, <2>2, <2>3 DEF Collect
<1>6. CASE Kill
  <2>1. Good
    BY <1>1, <1>6 DEF Kill
  <2>2. QED BY <1>1, <1>6, <2>1, KillEnds DEF Channel!Next
<1>7. CASE Working /\ life # "killed"
  <2>1. Good
    BY <1>1, <1>7
  <2>2. CASE Declare \/ Instrument \/ Disown \/ Wake \/ Join \/ BeginClose
    <3>1. Quiet
      BY <2>1, <2>2, DeclareKeeps, InstrumentKeeps, DisownKeeps, WakeKeeps, JoinKeeps, BeginCloseKeeps
    <3>2. Running' = Running
      BY <2>2 DEF Declare, Instrument, Disown, Wake, Join, BeginClose, Running
    <3>3. QED BY <1>2, <3>1, <3>2
  <2>3. ASSUME NEW c \in setup.callers, Look(c) \/ Put(c) PROVE Channel!Next \/ UNCHANGED Channel!vars
    <3>1. CASE Look(c)
      <4>1. Quiet
        BY <2>1, <3>1, LookKeeps
      <4>2. Running' = Running
        BY <3>1 DEF Look, Running
      <4>3. QED BY <1>2, <4>1, <4>2
    <3>2. CASE Put(c)
      BY <2>1, <3>2, PutKeeps, ObservedSubmits DEF Channel!Next
    <3>3. QED BY <2>3, <3>1, <3>2
  <2>4. CASE Record
    BY <2>1, <2>4, RecordKeeps, ObservedSubmits DEF Channel!Next
  <2>5. ASSUME NEW t \in Drains, Draining(t) PROVE Channel!Next \/ UNCHANGED Channel!vars
    <3>1. Running
      BY <2>5 DEF Draining
    <3>2. CASE Taken(t) \/ OpenStatus(t) \/ FillStatus(t)
      <4>1. Quiet
        BY <2>1, <3>1, <3>2, TakenKeeps, OpenStatusKeeps, FillStatusKeeps
      <4>2. Running' = Running
        BY <3>2 DEF Taken, OpenStatus, FillStatus, Running
      <4>3. QED BY <1>2, <4>1, <4>2
    <3>3. CASE Stated(t)
      BY <2>1, <3>1, <3>3, StatedKeeps, StatedEnds DEF Channel!Next
    <3>4. CASE Take(t) \/ TakeAll(t) \/ Write(t) \/ CountWritten(t) \/ CountDropped(t)
      <4>1. Good' /\ Settled
        BY <2>1, <3>1, <3>4, TakeKeeps, TakeAllKeeps, WriteKeeps, CountWrittenKeeps, CountDroppedKeeps
      <4>2. calls' = calls /\ life' = life
        BY <3>4 DEF Take, TakeAll, Write, CountWritten, CountDropped
      <4>3. QED BY <2>1, <3>1, <4>1, <4>2, SettledSettles DEF Channel!Next
    <3>5. QED BY <2>5, <3>2, <3>3, <3>4 DEF Draining
  <2>6. QED BY <1>7, <2>2, <2>3, <2>4, <2>5 DEF Working
<1>8. QED BY <1>4, <1>5, <1>6, <1>7, KilledDoesNothing DEF Next, Working

LEMMA InitImplements ==
  ASSUME Init
  PROVE  Channel!Init
<1>1. /\ calls = 0 /\ ring = <<>> /\ life = "new"
      /\ thread = [t \in Drains \cup setup.callers |-> Resting]
      /\ counts = [dropped |-> 0, written |-> 0, missed |-> 0]
      /\ stream = [lines |-> <<>>, cut |-> FALSE]
  BY DEF Init
<1>2. ToSet(<<>>) = {} /\ Cardinality({}) = 0 /\ Len(<<>>) = 0
  BY EmptyHasNoMembers
<1>3. {k \in 1 .. Len(stream.lines) : stream.lines[k] = Torn} = {}
  BY <1>1, <1>2
<1>4. Delivered = {} /\ TornLines = 0
  BY <1>1, <1>2, <1>3 DEF Delivered, TornLines
<1>5. \A t \in Drains : thread[t].batch = <<>>
  BY <1>1 DEF Resting
<1>6. Kept = {}
  BY <1>1, <1>2, <1>5 DEF Kept
<1>7. Running
  BY <1>1 DEF Running
<1>8. Len(stream.lines) - TornLines = 0 /\ counts.dropped + counts.missed + TornLines = 0
  BY <1>1, <1>2, <1>4
<1>9. QED BY <1>1, <1>4, <1>6, <1>7, <1>8 DEF Channel!Init

\* The hook implements the channel, step by step: while the process runs, a call is in
\* the hook, one line of the stream, covered by the counts, or one of those that the
\* two races keep from the count.
THEOREM HookImplementsChannel ==
  Spec => ImplementsEventChannel
<1>1. Init => Channel!Init
  BY InitImplements
<1>2. IInv /\ [Next]_vars => [Channel!Next]_(Channel!vars)
  BY StepImplements
<1>3. Spec => []IInv
  BY StreamIsWellFormed
<1>4. QED BY <1>1, <1>2, <1>3, PTL DEF Spec, ImplementsEventChannel, Channel!Spec

=============================================================================
