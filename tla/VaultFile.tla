----------------------------- MODULE VaultFile -----------------------------
(***************************************************************************)
(* The file backend of the masking vault: vault.psk, written by            *)
(* crates/periskop-proxy/src/vault/file.rs and compaction.rs.              *)
(*                                                                         *)
(* The file is a header followed by frames.  The header carries a record   *)
(* counter, the number of frames it authenticates and the chain tail over  *)
(* them.  The chain MAC is ideal: the tail is modelled as the sequence of  *)
(* frames it was computed over, so two tails are equal exactly when the    *)
(* frames are, and the frame count is the length of the tail.              *)
(*                                                                         *)
(* Below the program sits a disk.  Every inode has what a reader sees now  *)
(* (cur) and what the device is known to hold (dur); fdatasync makes the   *)
(* second equal to the first.  A name is durable only when the directory   *)
(* is, and nothing in the program flushes the directory.                   *)
(***************************************************************************)
EXTENDS Integers, Sequences, FiniteSets, SequencesExt

CONSTANTS
  Proc,            \* processes that may have the vault open
  Record,          \* records a session store may ask to be filed
  Inode,           \* files the file system can hold
  None,            \* no inode, or no record
  Torn,            \* bytes that are no frame
  DurableNames,    \* the directory changes that are durable once a later
                   \* fdatasync returns: a subset of {"create", "rename"}
  Setups           \* the surroundings a history may have, see setup

ASSUME VaultFileAssumption ==
  /\ Torn \notin Record
  /\ None \notin Record \cup Inode
  /\ DurableNames \subseteq {"create", "rename"}
  /\ Setups \subseteq [procs : SUBSET Proc, faults : BOOLEAN, powerCuts : BOOLEAN,
                       rollbacks : BOOLEAN, maxCounter : Nat]

VARIABLES
  setup,      \* the processes that run, whether system calls may fail, the machine
              \* may lose power, an operator may put an older copy back or delete
              \* the file, and the bound on appends committed in one history
  disk,       \* the two contents of every inode
  path,       \* the inode the name vault.psk leads to, or None
  survives,   \* what that name may lead to once the power comes back
  candidate,  \* the inode the name vault.psk.compact leads to, or None
  backup,     \* a copy of the vault an operator kept, or Absent
  mem,        \* what an open VaultFile remembers
  op,         \* where in an operation each process is
  outcome,    \* how the last operation of each process ended
  owed,       \* observer: records an append acknowledged, not expired since
  committed,  \* observer: records a header was ever written for
  floor,      \* the highest counter a caller was told (Vault::record_counter)
  overlap,    \* observer: two operations of two processes have overlapped
  last,       \* observer: who opened the file or wrote to it last
  rolledBack  \* observer: an operator put another file in place, and whether a
              \* caller who remembered nothing opened it

storage  == <<disk, path, survives, candidate, backup>>
observed == <<owed, committed, floor, overlap, last, rolledBack>>
vars == <<setup, disk, path, survives, candidate, backup, mem, op, outcome,
          owed, committed, floor, overlap, last, rolledBack>>

\* A file nothing was written to: shorter than a header, so no header decodes.
Absent == [whole |-> FALSE, counter |-> 0, tail |-> <<>>, body |-> <<>>]

\* The file written in one go, from the header to the last frame.
Image(counter, frames) ==
  [whole |-> TRUE, counter |-> counter, tail |-> frames, body |-> frames]

Down   == [at |-> "down", rec |-> None, ino |-> None, frames |-> <<>>]
Idle   == [Down EXCEPT !.at = "idle"]
NoFile == [ino |-> None, counter |-> 0, tail |-> <<>>, held |-> {}]

Busy(p) == op[p].at \notin {"down", "idle"}
Overlapping(p) == overlap \/ \E q \in Proc \ {p} : Busy(q)

(***************************************************************************)
(* What the file means                                                     *)
(***************************************************************************)

\* file.rs, walk and the steps of load before it: a whole header whose frames
\* are all there and link to its tail.  Bytes after them are not looked at.
Loads(c) ==
  /\ c.whole
  /\ Len(c.tail) <= Len(c.body)
  /\ \A k \in 1..Len(c.tail) : c.body[k] = c.tail[k]

\* file.rs, confirm_unchanged: the handle is still the file at the path, and
\* its header is the one this process last committed.
Confirm(p) ==
  /\ path = mem[p].ino
  /\ LET c == disk[mem[p].ino].cur
     IN  /\ c.whole
         /\ c.counter = mem[p].counter
         /\ c.tail = mem[p].tail

\* Mutant of Overwritten: the file is opened for appending, and no end is cut.
AppendedToTheFile(body, end, frame) == Append(body, frame)

\* truncate_to followed by write_at, at the end of the authenticated region.
\* A file that was shorter than that is extended with zeros.
Overwritten(body, end, frame) ==
  [k \in 1 .. end + 1 |-> IF k = end + 1 THEN frame
                          ELSE IF k <= Len(body) THEN body[k] ELSE Torn]

\* The bodies an interrupted write may leave on the device.
Tears(d) ==
  {d.cur.body, d.dur.body} \cup
  (IF d.cur.body # d.dur.body /\ d.cur.body # <<>>
     THEN {[d.cur.body EXCEPT ![Len(d.cur.body)] = Torn]} ELSE {})

\* The contents an inode may come back with: the header is one sector and is
\* old or new; the frames are old, new or spoilt.
Survivors(d) ==
  {[whole |-> h.whole, counter |-> h.counter, tail |-> h.tail, body |-> b] :
      h \in {d.cur, d.dur}, b \in Tears(d)}

FreeInodes ==
  Inode \ ({path, candidate} \cup survives
           \cup {mem[p].ino : p \in Proc} \cup {op[p].ino : p \in Proc})

\* Mutant of Synced: the flush is left out.
LeftToTheKernel(i) == UNCHANGED disk

\* sync_data on inode i.  Nobody flushes the directory; some file systems let
\* it follow the data.
Synced(i) == disk' = [disk EXCEPT ![i].dur = disk[i].cur]
Flushes(change) ==
  survives' = IF change \in DurableNames THEN {path} ELSE survives

Ends(p, how) ==
  /\ op' = [op EXCEPT ![p] = Idle]
  /\ outcome' = [outcome EXCEPT ![p] = how]

Init ==
  /\ setup \in Setups
  /\ disk = [i \in Inode |-> [cur |-> Absent, dur |-> Absent]]
  /\ path = None /\ survives = {None} /\ candidate = None
  /\ backup = Absent
  /\ mem = [p \in Proc |-> NoFile]
  /\ op = [p \in Proc |-> Down]
  /\ outcome = [p \in Proc |-> "none"]
  /\ owed = {} /\ committed = {} /\ floor = 0
  /\ overlap = FALSE /\ last = None /\ rolledBack = "no"

(***************************************************************************)
(* open: create when nothing is there, load when something is              *)
(***************************************************************************)

\* create_handle with create_new: the file exists and is empty.
CreateFile(p, known) ==
  /\ op[p].at = "down" /\ path = None /\ known = 0
  /\ \E i \in FreeInodes :
       /\ disk' = [disk EXCEPT ![i] = [cur |-> Absent, dur |-> Absent]]
       /\ path' = i
       /\ survives' = survives \cup {i}
       /\ op' = [op EXCEPT ![p] = [Down EXCEPT !.at = "created", !.ino = i]]
  /\ outcome' = [outcome EXCEPT ![p] = "none"]
  /\ rolledBack' = IF rolledBack = "yes" THEN "accepted" ELSE rolledBack
  /\ overlap' = Overlapping(p)
  /\ UNCHANGED <<candidate, backup, mem, owed, committed, floor, last>>

\* The header of an empty vault, written and flushed, and the VaultFile built.
CreateHeader(p) ==
  /\ op[p].at = "created"
  /\ disk' = [disk EXCEPT ![op[p].ino] = [cur |-> Image(0, <<>>),
                                          dur |-> Image(0, <<>>)]]
  /\ Flushes("create")
  /\ mem' = [mem EXCEPT ![p] = [NoFile EXCEPT !.ino = op[p].ino]]
  /\ last' = p
  /\ Ends(p, "ok")
  /\ UNCHANGED <<path, candidate, backup, owed, committed, floor, overlap, rolledBack>>

\* Mutant of ReadFile: the counter a caller supplies is not compared.
ReadFileAtAnyCounter(p, known) ==
  /\ op[p].at = "down" /\ path # None
  /\ Loads(disk[path].cur)
  /\ op' = [op EXCEPT ![p].at = "read"]
  /\ mem' = [mem EXCEPT ![p] = [NoFile EXCEPT !.counter = disk[path].cur.counter,
                                              !.tail = disk[path].cur.tail]]
  /\ outcome' = [outcome EXCEPT ![p] = "none"]
  /\ overlap' = Overlapping(p)
  /\ UNCHANGED storage /\ UNCHANGED <<owed, committed, floor, last, rolledBack>>

\* read_all and the six steps of load up to the walk, over one reading.
ReadFile(p, known) ==
  /\ op[p].at = "down" /\ path # None
  /\ Loads(disk[path].cur)
  /\ disk[path].cur.counter >= known
  /\ op' = [op EXCEPT ![p].at = "read"]
  /\ mem' = [mem EXCEPT ![p] = [NoFile EXCEPT !.counter = disk[path].cur.counter,
                                              !.tail = disk[path].cur.tail]]
  /\ outcome' = [outcome EXCEPT ![p] = "none"]
  /\ overlap' = Overlapping(p)
  /\ UNCHANGED storage /\ UNCHANGED <<owed, committed, floor, last, rolledBack>>

\* open refuses and repairs nothing: a rollback, a short header, a broken chain.
RefuseOpen(p, known) ==
  /\ op[p].at = "down"
  /\ IF path = None THEN known > 0
     ELSE ~Loads(disk[path].cur) \/ disk[path].cur.counter < known
  /\ outcome' = [outcome EXCEPT ![p] = "refused"]
  /\ UNCHANGED storage /\ UNCHANGED <<mem, op>> /\ UNCHANGED observed

\* open_handle: the descriptor is taken from the path a second time.
OpenHandle(p) ==
  /\ op[p].at = "read" /\ path # None
  /\ mem' = [mem EXCEPT ![p].ino = path, ![p].held = ToSet(mem[p].tail)]
  /\ floor' = IF mem[p].counter > floor THEN mem[p].counter ELSE floor
  /\ rolledBack' = IF rolledBack = "yes" THEN "accepted" ELSE rolledBack
  /\ last' = p
  /\ Ends(p, "ok")
  /\ UNCHANGED storage /\ UNCHANGED <<owed, committed, overlap>>

\* A system call of open fails: an empty file stays where create put one.
FailOpen(p) ==
  /\ setup.faults /\ op[p].at \in {"created", "read"}
  /\ op' = [op EXCEPT ![p] = Down]
  /\ mem' = [mem EXCEPT ![p] = NoFile]
  /\ outcome' = [outcome EXCEPT ![p] = "refused"]
  /\ UNCHANGED storage /\ UNCHANGED observed

(***************************************************************************)
(* append                                                                  *)
(***************************************************************************)

\* confirm_unchanged passed and the frame is linked, in memory only.
BeginAppend(p, r) ==
  /\ op[p].at = "idle" /\ r \notin mem[p].held
  /\ mem[p].counter < setup.maxCounter
  /\ Confirm(p)
  /\ op' = [op EXCEPT ![p] = [Idle EXCEPT !.at = "linked", !.rec = r]]
  /\ outcome' = [outcome EXCEPT ![p] = "none"]
  /\ overlap' = Overlapping(p)
  /\ UNCHANGED storage /\ UNCHANGED <<mem, owed, committed, floor, last, rolledBack>>

\* confirm_unchanged refuses before a byte is written.
RefuseAppend(p) ==
  /\ op[p].at = "idle" /\ ~Confirm(p)
  /\ outcome' = [outcome EXCEPT ![p] = "refused"]
  /\ UNCHANGED storage /\ UNCHANGED <<mem, op>> /\ UNCHANGED observed

WriteFrame(p) ==
  /\ op[p].at = "linked"
  /\ disk' = [disk EXCEPT ![mem[p].ino].cur.body =
                 Overwritten(@, Len(mem[p].tail), op[p].rec)]
  /\ op' = [op EXCEPT ![p].at = "written"]
  /\ UNCHANGED <<path, survives, candidate, backup, mem, outcome>>
  /\ UNCHANGED observed

SyncFrame(p) ==
  /\ op[p].at = "written"
  /\ Synced(mem[p].ino) /\ Flushes("rename")
  /\ op' = [op EXCEPT ![p].at = "flushed"]
  /\ UNCHANGED <<path, candidate, backup, mem, outcome>> /\ UNCHANGED observed

WriteHeader(p) ==
  /\ op[p].at = "flushed"
  /\ disk' = [disk EXCEPT ![mem[p].ino].cur.whole = TRUE,
                          ![mem[p].ino].cur.counter = mem[p].counter + 1,
                          ![mem[p].ino].cur.tail = Append(mem[p].tail, op[p].rec)]
  /\ op' = [op EXCEPT ![p].at = "committed"]
  /\ committed' = committed \cup {op[p].rec} /\ last' = p
  /\ UNCHANGED <<path, survives, candidate, backup, mem, outcome>>
  /\ UNCHANGED <<owed, floor, overlap, rolledBack>>

\* The second flush, the fields of the VaultFile, and the answer to the caller.
SyncHeader(p) ==
  /\ op[p].at = "committed"
  /\ Synced(mem[p].ino) /\ Flushes("rename")
  /\ mem' = [mem EXCEPT ![p].counter = @ + 1,
                        ![p].tail = Append(@, op[p].rec),
                        ![p].held = @ \cup {op[p].rec}]
  /\ owed' = owed \cup {op[p].rec}
  /\ floor' = IF mem[p].counter + 1 > floor THEN mem[p].counter + 1 ELSE floor
  /\ Ends(p, "ok")
  /\ UNCHANGED <<path, candidate, backup, committed, overlap, last, rolledBack>>

\* Any of the system calls of append fails: the error goes up, the fields stay
\* as they were.  A write may have put part of the frame down.
FailAppend(p) ==
  /\ setup.faults /\ op[p].at \in {"linked", "written", "flushed", "committed"}
  /\ \/ UNCHANGED disk
     \/ /\ op[p].at = "linked"
        /\ disk' = [disk EXCEPT ![mem[p].ino].cur.body =
                       Overwritten(@, Len(mem[p].tail), Torn)]
  /\ Ends(p, "refused")
  /\ UNCHANGED <<path, survives, candidate, backup, mem>> /\ UNCHANGED observed

(***************************************************************************)
(* compact                                                                 *)
(***************************************************************************)

\* Vault::compact purges first, then builds the image; a stale candidate is
\* removed and a new one created.  The order of the frames is the session
\* store's, abstracted to any order.
BeginCompact(p, keep, frames) ==
  /\ op[p].at = "idle" /\ keep \subseteq mem[p].held
  /\ frames \in SetToSeqs(keep)
  /\ \E i \in FreeInodes :
       /\ disk' = [disk EXCEPT ![i] = [cur |-> Absent, dur |-> Absent]]
       /\ candidate' = i
       /\ op' = [op EXCEPT ![p] = [Idle EXCEPT !.at = "cleared", !.ino = i,
                                               !.frames = frames]]
  /\ mem' = [mem EXCEPT ![p].held = keep]
  /\ owed' = owed \ (mem[p].held \ keep)
  /\ outcome' = [outcome EXCEPT ![p] = "none"]
  /\ overlap' = Overlapping(p)
  /\ UNCHANGED <<path, survives, backup, committed, floor, last, rolledBack>>

\* Mutant of WriteCandidate: the rename does not wait for the bytes.
WriteCandidateUnflushed(p) ==
  /\ op[p].at = "cleared"
  /\ disk' = [disk EXCEPT ![op[p].ino].cur = Image(mem[p].counter, op[p].frames)]
  /\ op' = [op EXCEPT ![p].at = "imaged"]
  /\ UNCHANGED <<path, survives, candidate, backup, mem, outcome>>
  /\ UNCHANGED observed

\* write_candidate: every byte written and sync_all returned.
WriteCandidate(p) ==
  /\ op[p].at = "cleared"
  /\ LET c == Image(mem[p].counter, op[p].frames)
     IN  disk' = [disk EXCEPT ![op[p].ino] = [cur |-> c, dur |-> c]]
  /\ Flushes("rename")
  /\ op' = [op EXCEPT ![p].at = "imaged"]
  /\ UNCHANGED <<path, candidate, backup, mem, outcome>> /\ UNCHANGED observed

ConfirmSwap(p) ==
  /\ op[p].at = "imaged" /\ Confirm(p)
  /\ op' = [op EXCEPT ![p].at = "confirmed"]
  /\ UNCHANGED storage /\ UNCHANGED <<mem, outcome>> /\ UNCHANGED observed

\* The vault changed, or the rename failed: the candidate goes away.
AbandonSwap(p) ==
  /\ \/ op[p].at = "imaged" /\ ~Confirm(p)
     \/ op[p].at = "confirmed" /\ (setup.faults \/ candidate = None)
  /\ candidate' = None
  /\ Ends(p, "refused")
  /\ UNCHANGED <<disk, path, survives, backup, mem>> /\ UNCHANGED observed

\* Creating, writing or flushing the candidate fails: it is left behind.
FailCandidate(p) ==
  /\ setup.faults /\ op[p].at = "cleared"
  /\ Ends(p, "refused")
  /\ UNCHANGED storage /\ UNCHANGED mem /\ UNCHANGED observed

\* Mutant of Swap: adopt keeps the tail of the file it replaced.
SwapKeepingTail(p) ==
  /\ op[p].at = "confirmed" /\ candidate # None
  /\ path' = candidate
  /\ survives' = survives \cup {candidate}
  /\ candidate' = None
  /\ mem' = [mem EXCEPT ![p].ino = op[p].ino]
  /\ last' = p
  /\ Ends(p, "ok")
  /\ UNCHANGED <<disk, backup, owed, committed, floor, overlap, rolledBack>>

\* rename over the vault, then adopt.  The rename moves whatever the candidate
\* name leads to; the adopted descriptor is the one this process wrote.
Swap(p) ==
  /\ op[p].at = "confirmed" /\ candidate # None
  /\ path' = candidate
  /\ survives' = survives \cup {candidate}
  /\ candidate' = None
  /\ mem' = [mem EXCEPT ![p].ino = op[p].ino, ![p].tail = op[p].frames]
  /\ last' = p
  /\ Ends(p, "ok")
  /\ UNCHANGED <<disk, backup, owed, committed, floor, overlap, rolledBack>>

(***************************************************************************)
(* What happens to the program                                             *)
(***************************************************************************)

\* The process dies; what it wrote is in the page cache and stays readable.
Kill(p) ==
  /\ op[p].at # "down"
  /\ op' = [op EXCEPT ![p] = Down]
  /\ mem' = [mem EXCEPT ![p] = NoFile]
  /\ outcome' = [outcome EXCEPT ![p] = "none"]
  /\ UNCHANGED storage /\ UNCHANGED observed

\* The machine dies; every inode and the name come back as the device has them.
PowerCut ==
  /\ setup.powerCuts /\ \E p \in Proc : op[p].at # "down"
  /\ \E i \in survives :
       /\ path' = i /\ survives' = {i}
       /\ IF i = None THEN UNCHANGED disk
          ELSE \E c \in Survivors(disk[i]) :
                 disk' = [disk EXCEPT ![i] = [cur |-> c, dur |-> c]]
  /\ op' = [p \in Proc |-> Down]
  /\ mem' = [p \in Proc |-> NoFile]
  /\ outcome' = [p \in Proc |-> "none"]
  /\ UNCHANGED <<candidate, backup>> /\ UNCHANGED observed

TakeBackup ==
  /\ setup.rollbacks /\ path # None /\ ~backup.whole
  /\ backup' = disk[path].cur
  /\ UNCHANGED <<disk, path, survives, candidate, mem, op, outcome>>
  /\ UNCHANGED observed

\* The older copy, or nothing at all, is put where the vault was.
RollBack ==
  /\ setup.rollbacks /\ path # None /\ \A p \in Proc : op[p].at = "down"
  /\ \/ path' = None /\ survives' = {None} /\ UNCHANGED disk
     \/ /\ backup.whole
        /\ disk' = [disk EXCEPT ![path] = [cur |-> backup, dur |-> backup]]
        /\ UNCHANGED <<path, survives>>
  /\ rolledBack' = IF rolledBack = "no" THEN "yes" ELSE rolledBack
  /\ UNCHANGED <<candidate, backup, mem, op, outcome>>
  /\ UNCHANGED <<owed, committed, floor, overlap, last>>

Step(p) ==
  \/ \E known \in {0, floor} :
       CreateFile(p, known) \/ ReadFile(p, known) \/ RefuseOpen(p, known)
  \/ CreateHeader(p) \/ OpenHandle(p) \/ FailOpen(p)
  \/ \E r \in Record : BeginAppend(p, r)
  \/ RefuseAppend(p)
  \/ WriteFrame(p) \/ SyncFrame(p) \/ WriteHeader(p) \/ SyncHeader(p)
  \/ FailAppend(p)
  \/ \E keep \in SUBSET mem[p].held : \E frames \in SetToSeqs(keep) :
       BeginCompact(p, keep, frames)
  \/ WriteCandidate(p) \/ ConfirmSwap(p) \/ AbandonSwap(p) \/ FailCandidate(p)
  \/ Swap(p)

Next ==
  /\ \/ \E p \in setup.procs : Step(p) \/ Kill(p)
     \/ PowerCut \/ TakeBackup \/ RollBack
  /\ UNCHANGED setup

Spec == Init /\ [][Next]_vars

(***************************************************************************)
(* Properties                                                              *)
(***************************************************************************)

\* A machine that may lose power keeps its promises only where a later fdatasync
\* makes the names durable as well: the program flushes no directory.
NamesAreDurable == setup.powerCuts => DurableNames = {"create", "rename"}

\* The records an open would find in the file at the path now.
Filed == IF path # None /\ Loads(disk[path].cur)
         THEN ToSet(disk[path].cur.tail) ELSE {}

\* A record whose append answered Ok is in the file whatever dies and whenever,
\* until it expires (file.rs append).  Holds as long as no two operations of
\* two processes overlap, the limit confirm_unchanged names for itself, and the
\* names survive what the machine survives.
OwedRecordsAreFiled ==
  NamesAreDurable /\ rolledBack = "no" /\ ~overlap => owed \subseteq Filed

\* At every instant the vault on disk is one whole vault: a header that was
\* written at all describes frames that are there (compaction.rs, "There is no
\* third state"; file.rs append, "never both half done").
EveryInstantIsWhole ==
  ~overlap /\ path # None /\ disk[path].cur.whole => Loads(disk[path].cur)

\* The counter tells how old a vault is.  In the file it never goes back by anything
\* this program does, appends and compactions alike: only a power cut or an operator
\* may take the file back.  So an open that is given the counter its caller last saw
\* never accepts a file that lacks an acknowledged record: an older copy is refused,
\* and a copy from before a compaction holds no fewer (file.rs image; load, step 5).
\* Not where both may happen: a power cut takes back a header that a copy was made
\* of, and the next append gives its counter to another record.
CounterTellsTheAge ==
  [][ /\ ~overlap' /\ ~PowerCut /\ ~RollBack /\ path # None /\ path' # None
         => disk'[path'].cur.counter >= disk[path].cur.counter
      /\ \A p \in Proc :
           /\ NamesAreDurable /\ ~(setup.powerCuts /\ setup.rollbacks)
           /\ rolledBack # "accepted" /\ ~overlap /\ ReadFile(p, floor)
           => owed \subseteq ToSet(mem'[p].tail) ]_vars

\* confirm_unchanged refuses a process whose file "another opener" changed.  The
\* process that opened or wrote the file last always finds the header it left, so
\* a process that is alone is never refused while its system calls succeed.
LastWriterIsNeverRefused ==
  ~setup.faults /\ ~overlap =>
    \A p \in Proc : last = p /\ op[p].at = "idle" => Confirm(p)

\* The log the file stands for: the frames its header authenticates.  Nothing is
\* promised of one that two processes write or an operator replaces.
Promised == (\E p \in Proc : setup.procs = {p}) /\ ~setup.rollbacks /\ NamesAreDurable
Authenticated == IF path = None \/ ~Promised THEN <<>> ELSE disk[path].cur.tail

\* The file of one process implements a log of records that loses nothing it
\* acknowledged, through failing calls, kills and power cuts.
Log == INSTANCE RecordLog WITH log <- Authenticated,
                               committed <- IF Promised THEN committed ELSE {},
                               owed <- IF Promised THEN owed ELSE {}
ImplementsRecordLog == Log!Spec
=============================================================================
