# periskop in TLA+

Specifications of [periskop](../src/README.md): what its parts do, checked with TLC on small
instances and, for some of it, proved with TLAPS for all of them. Every definition is translated
from the source; `PROJECT.json` (`map`) names the lines each one stands for. Source paths without
a prefix are under `crates/periskop-proxy/src/`.

    tlc -config vault.cfg MCVaultFile              # one of the runs listed below
    tlapm VaultSessionsProofs.tla                  # one of the modules of theorems

## 1. The system

periskop finds out where code sends data to model providers, by three sources (a static scan,
hooks in running processes, flows on the wire), reconciles the three, and has a proxy that masks
what should not leave. The proxy keeps state, serves several clients at a time and writes a file
whose loss cannot be repaired, so it came first; the three sources and the report follow.

| component | state it keeps | operations | what is hard about it | what makes it correct |
|---|---|---|---|---|
| vault file (`vault/file.rs`, `compaction.rs`, `chain.rs`, `layout.rs`) | `vault.psk`: header (counter, frame count, chain tail) and frames; the fields of an open `VaultFile` | open, create, append, compact | kills and power cuts between any two system calls, calls that fail, a second opener, an older copy put back | an acknowledged record is in a file that opens; every instant is one whole vault; the counter never falls |
| vault sessions (`vault/mod.rs`, `session.rs`) | per conversation: value to alias, alias to record, last use; first and last clock | open session, store, restore, purge, compact, status | expiry against a clock that may step back, an undo when the file refuses, reloads | the two directions agree; nothing expired is served; nothing answered from is missing in the file |
| masking gateway (`http/gateway.rs`, `request_path.rs`, `alias/mint.rs`) | the vault handle and whether it is still good, the minters, requests in flight | mask and file, send, restore | everything other requests do while one waits for its provider; eviction; a vault lost in flight | an alias is restored as what it stood for when the request left; a lost vault stays lost and lets nobody in |
| detection and policy (`detect/*`, `policy/*`) | the policy in force | load the file, find spans, merge overlapping ones, pick the rule of a place | a key that is not understood, overlaps, ties, precedence, a document inside a string that is read twice | a file that loads allows nothing it does not say; every claim is masked, allowed or refused; what crosses in clear is explained |
| streamed answers (`http/stream/*`) | per choice or block: held text, hold clock, last frame; deferred frames | push, timeouts, finish, fail | an alias cut anywhere, aliases that begin one another, frames that are not rewritten | the client reads the same whatever the cuts; holds are bounded; nothing overtakes |
| gateway records (`http/event.rs`, `observe.rs`, `admin.rs`, `declare.rs`) | bounded lists of events and findings, counters, the log, each under a lock of its own | file, evict, count, log | requests meet between two locks; a request is refused, cut or abandoned between two records of it | what crosses unmasked is on record before it does, but for what is sent along with a question for the list of models; what is kept and what is counted as dropped is all there was |
| http front (`http/route.rs`, `headers.rs`, `passthrough.rs`, `errors.rs`, `session.rs`; `listen.rs`, `serve.rs`, `upstream.rs`, `json.rs`) | none | resolve a line, vet a base, filter headers, identify a conversation | prefixes that overlap, an operator's list against the shipped bases, headers with two authors, conversations without a name | a request goes where its path says, to a host of the list; a conversation has one scope and shares it with none that opens otherwise |
| alias generation (`alias/*`) | per conversation: aliases issued, words withheld, labels counted, what is reported per type | make a seed, render on a rung, probe the next attempt, issue or refuse | pools that run out, renderings that collide, check digits that are wrong by arithmetic, a rung that changes in the middle of a conversation | what the report says of a type can be read off each of its aliases; none is longer than a stream holds back |
| network sensor (`crates/periskop-network-sensor`) | open flows by key, name map, what was attached | attach in order, drain, assemble frames into flows, expire names | frames lost or late, reused keys, full maps, partial grants | a record is of one connection; a connection watched whole has one record; a name is one an answer in force gave |
| ebpf loader and object | a ring of frames, hooks attached, capabilities held | load, attach, poll, drop capabilities | partial attachment, a full ring | what a refusal leaves attached is nothing |
| runtime hooks (`hooks/python`, `hooks/node`) | a ring, a drain thread, a status sidecar | submit, drain, close | several threads on one ring, a close that times out, a process that ends | every call is delivered, still kept, or covered by the drop count, but for two races |
| runtime collector | none | read streams and sidecars | torn lines, stale and half written sidecars | the window it reports is no longer than what the files account for |
| reconciliation (`crates/periskop-reconcile`) | none | merge, join, drift, dormant, unmatched, volume | order independence, repeated records, partial sources | only what nothing explains is accused |
| static scanner (`crates/periskop-static-scanner`) | per file: the table of names, the call sites | walk, read, parse, resolve names, match rules, number the calls | one table per file whatever the scopes, star imports, matches in no promised order, files that change under the scan | a call it promises to see is found or declared; what is confirmed names the right vendor; an edit renames nothing elsewhere |
| report and scan command (`crates/periskop-report`, `periskop-cli/src/scan.rs`) | findings, coverage, diagnostics of a run | collect, count what was not read, decide, exit | one of many files or rules failing | a run that passes has looked, or says where it did not |
| signature, other commands, mcp server, core types | none to speak of | render, sign, write | `write_target` checks a path it opens later | |

How they interact: the gateway calls the sessions under one lock and the sessions call the file;
the minters have a second lock that is taken inside a request's pass; the relay of a stream asks
the sessions about every alias it completes; no lock is held while a provider is awaited. The
hooks and the collector meet in two files, the probes and the sensor in a ring buffer, and the
three sources in the report.

Hazards, each at its line, are in `PROJECT.json` (`hazards`), with the property that would catch
each or the reason none does.

## 2. The modules

| module | models | uses |
|---|---|---|
| `RecordLog` | what a vault file promises: acknowledged records stay until they expire | |
| `VaultFile` | `file.rs` and `compaction.rs` on a disk that loses power | implements `RecordLog` |
| `VaultFileProofs` | theorems about `VaultFile`, its refinement of `RecordLog` included | `RecordLog` |
| `SessionSlot` | the methods of one session, as functions of its slot | |
| `VaultSessions` | `Vault` and `SessionStore`, in memory and on a file | `SessionSlot` |
| `VaultSessionsProofs` | theorems about `VaultSessions` and the methods of a slot | |
| `MaskingGateway` | requests from the door to the restored answer | `SessionSlot` |
| `MaskingGatewayProofs` | theorems about `MaskingGateway` | |
| `Detection` | what the pattern and dictionary layers claim about one text, and the merge | |
| `Checksums` | the published check digits and ranges | |
| `AliasLadder` | from a value to its alias on a rung of the ladder, and the report of it | `Checksums` |
| `PolicyLoad` | from the file an operator wrote to the policy in force, or to none | `Detection` |
| `MaskingPass` | what one request's pass does to a body: scan, decide, mint, file, write back | `PolicyLoad` |
| `Endpoints` | what is decided from a request's line, headers and the configuration | |
| `ConversationIdentity` | which conversation a request belongs to | |
| `GatewayRecords` | every outcome of a request, and what it leaves in the buffers, the counters and the log | `Endpoints`, `ConversationIdentity` |
| `GatewayRecordsProofs` | theorems about `GatewayRecords` and `Endpoints` | |
| `AliasScan` | the automaton, the buffer and the flush rule, and the reading they are compared with | |
| `StreamRelay` | the `Relay` of a streamed answer | `AliasScan` |
| `StreamRelayProofs` | theorems about `StreamRelay`, and the scan of `AliasScan` under it | |
| `EventChannel` | what a hook promises: a call is delivered, kept or counted | |
| `HookStream` | a hooked Python or Node process, its files, and the collector | implements `EventChannel` |
| `HookStreamProofs` | theorems about `HookStream`, its refinement of `EventChannel` included | `EventChannel` |
| `NameMap` | the map DNS answers build, and the name a flow is given | |
| `DnsMessage` | the reader of DNS responses: names, aliases, mappings | `NameMap` |
| `ClientHello` | the reader of TLS hellos | `NameMap` |
| `WireFrames` | frames of the probes, their decoder and the events made of them | `DnsMessage`, `ClientHello` |
| `FlowAssembler` | events joined under their key, and the records a pass seals | `NameMap` |
| `NetworkSensor` | probes, ring, loader and sensor, from the capability check to the outcome | `FlowAssembler`, `WireFrames` |
| `NetworkSensorProofs` | theorems about `NetworkSensor` and the assembler under it | |
| `Reconcile` | the pass that explains or accuses flows, calls and declared points | |
| `SourceBindings` | the names of one file, in Python, TypeScript, Go and Java, and what they resolve to | |
| `CallSites` | which calls a rule takes, how sure it is, and the identity of each finding | `SourceBindings` |
| `StaticScan` | one scan from the walk to the exit code, and the edits between two scans | `CallSites` |
| `StaticScanProofs` | theorems about `StaticScan` | |
| `MC...` | instances for TLC | |

**VaultFile.** One action per stretch of code between two things a crash can separate: for
`append`, the check (`BeginAppend`), the frame (`WriteFrame`), its flush, the header, its flush;
for `compact`, the candidate's creation, its bytes and flush, the second check, the rename. Each
inode has what a reader sees (`cur`) and what the device holds (`dur`); a flush makes them equal.
A killed process leaves `cur`; a power cut leaves any mix of a whole old or new header (one
sector) and old, new or spoilt frames, and a name leads wherever the device last knew it to lead:
`survives`. The program never flushes the directory, so `DurableNames` says which directory
changes follow a later flush of the file. The chain MAC is taken to be ideal: the tail *is* the
sequence of frames under it. `rename` moves whatever the candidate name leads to, as the system
call does, so two compactions at once are in the model. `last`, `owed`, `committed`, `overlap` and
`rolledBack` are observers. `setup`, chosen in `Init`, is who runs and what may go wrong.

**VaultSessions.** `SessionSlot` has one operator per method of `session.rs` (`Ensured`,
`Refreshed`, `Inserted`, `Forgotten`, ...), and every operation of `Vault` is an action that applies
them in the code's order, the sweep of the first clock after a load included. A value is its alias
seed. A load takes one frame per step, since it can be refused at any of them. `era` observes what
was stored in, or loaded into, the life a session is in.

**MaskingGateway.** A request goes through five stages, and other requests may do anything between
two of them. `Enter` is the look at the vault at the door, which takes no lock. `Mask` is
`prepare_body` under the vault's lock and the minters': literals are withheld, each value is minted
and filed or the body is refused, the minters are pruned, the set of aliases is frozen; whether the
vault is still good is not asked there, and a vault that refuses is lost for all. `Send` is the call,
with nothing held and nothing looked at again. `Admit` or `Cut` is the second look at the vault once
the provider has answered, again without a lock. Then the answer is restored in a step of its own: one
the gateway can read mentions some alias, which is looked up in the session *as it is then*
(`Restore`); one of another content type, or JSON that does not parse, is delivered as the provider
wrote it (`HandOver`). `Fail` is any other end. An answer that repeats several aliases is as many
answers, since each is looked up alone. Aliases are labels, issued in order; identifiers of
conversations are hashes, so ties in `prune` go either way. `setup`, chosen in `Init`, says which
bodies are sent and what may go wrong. What a pass does to a body is in `MaskingPass`.

**Detection, PolicyLoad and MaskingPass.** A text is a sequence of units (a piece of a word, a blank, an
apostrophe, a fence) and a claim a pair of positions with an entity. `Detection` translates the
walk over a pattern's hits with its shorter readings of a refused region, the listed names with
their suffixes, the fenced segments each layer runs over, and the merge; which texts a pattern
matches is the relation `IsShape`. `MaskingPass` walks the strings of a body, decides each claim by
the rules at its path, mints and files under failures of the vault, and writes back; a string that
is itself a document is scanned as it is written and again field by field, as in
`request_path.rs`, so both write the same field. Counts of what was masked or allowed are sets of
claims here. What became of a value that is still readable is asked of the body that was sent
(`Survivors`, `StillThere`), not of the counts. Retries by bytes, and trimming of white space, are left out.
`PolicyLoad` has a TOML value as its kind and its content: `Loads` is every condition under which
`load.rs` refuses a file, each table with its keys, the digest, the word list and the suffix rules
it names, and `Enforced` the policy it makes of one that loads. A digest is named by the body it
covers, a scope text by the parts it splits into (`ScopeParts`). `MaskingPass` starts with a file
(`Start`) and serves nothing when it does not load. `SaysAllow` reads the file without the loader.

**AliasLadder and Checksums.** A character is the number ISO 13616 gives it, so the published rules
are arithmetic on texts. `Render` is `mint::render`: one operator per generator, each reading the
stream of bytes at the positions the code reads it. Which stream a seed and an attempt give is the
key's choice (`Streams`), and streams are short, since the code reads its own around the end too.
`Ask` and `Attempt` are `Minter::mint`, one step per attempt of the loop. `Shows` reads an alias by
the rules alone, without the rung it was made on.

**GatewayRecords, Endpoints and ConversationIdentity.** A path is the sequence of its segments, a
header a name with its author, a text a sequence of words. `Endpoints` has the route table, the
vetting of a base URL and the two header filters. Host names are model values, and the constants
`Lowered` and `Begin127` say what the code reads off their letters, in lower case and with 127. in
front; `ThisMachine` says which of them really are this machine, and only `ClearTextStaysHere` looks
at it. `ConversationIdentity` has the three steps of
`Binding::identify`, over a keyed hash taken to be ideal. In `GatewayRecords` a request is one step
up to the moment another could see something of it, and one step per lock from then on: `Arrive`,
`FileFinding`, `CountDroppedFindings`, `Send` or a refusal, an answer, `Count`, `Measure`, `Log`. What
masking does to the body is an outcome here (`KeyRefused`, `MaskRefused`, or some number of masked
entities), and so is what restoring does to the answer (`MayCut`). `Abandon` is the client that
closes its connection: its handler is dropped at the await and leaves nothing more. `wire` (scheme,
host, path and headers) and `told` are what the provider and the client got. `owed` is a local
variable of the code.

**StreamRelay.** The automaton's node after a text is the longest end of it that begins an alias,
which is what `link_failures` computes, so `AliasScan` needs no tables; the scan's loop, with its
restart after a committed occurrence, is as in `buffer.rs`. A chunk is taken in one step, as it is
under `push`: frames in order, then timeouts, then what was deferred. What left is recorded lane by
lane as pieces (an alias the vault is asked about, or a letter) and compared with `Reading`, which
knows nothing of cuts: left to right, longest alias first. `Window::of`'s floor of lookahead is
left out, as it only raises a ceiling that is never reached.

**HookStream.** A thread of a Python process can lose the interpreter between any two bytecodes,
so `submit` is two steps (the length is looked at, then the event is appended), and the drain is
cut wherever it reads what it stores later. `Join` is `close` waiting for the drain thread, which
may give up on a slow one and drain beside it. A Node process has one thread and a timer. Both
leave a stream of lines and a status document, which is truncated and then written; the collector
reads the two after the process is gone (closed, exited or killed) and derives a window or disowns
it. A call is its number, and a window the number of the next call when it was measured, so it is
known what each window vouches for. `EventChannel` is the promise without rings, threads or files:
`ImplementsEventChannel` maps the calls to what was submitted, what the ring and the batches hold
to what is pending, whole lines of the stream to what was delivered, and the drop count plus torn
lines to what was owned up to. Two losses escape the count of a Python process: `submit` looks at the
length before it appends, so two threads can share the last place of a ring that fills (`Unseen`),
and a loss counted between the two halves of `+= len(lines)` is overwritten (`CountDropped`). Both
happen in the model, in every kind of process; the observer `counts.missed` has what the count
should have and does not, and the promise is kept with those excused. `CountsEveryLoss` says
where neither can be, and `OnlyRacesGoUncounted` that `missed` is zero there. A daemon thread of the
application may go on submitting while `close` drains (`Calling`).

**NetworkSensor.** Processes open, use and close connections at any moment, before and between
attachments and while the ring is drained. Attaching is one step per hook, as a connection may
close in between; a drain is a step per frame. `FlowAssembler` has one operator per kind of frame
(`OnConnect`, `OnVolume`, `OnHandshake`, `OnClose`, `OnAnswers`), and every frame carries the
connection it is really about, which the code cannot see and only the properties look at. A packet
hook copies a sample; `DnsMessage` and `ClientHello` read it as sequences of cells (a label, a
pointer, the header of an extension), so offsets and lengths count cells and a sample may end
before any. `MCNetworkSensor` plays the servers and the clients: it writes responses with compressed
names and hellos with extensions, and keeps with each what was meant, which is what
`NamesAreWhatWasSaid` compares with. A refused attach drops the value that held the programs, and
with it the ring, the counters and the calls in flight (`Detach`). `NameMap` is the bounded map of addresses and names with its evictions, lifetimes and the weighing against the
handshake. The packet hooks have no program in this build, so a full plan is refused before the
reduced one is tried; the model has both objects. `missed`, `strayed`, `recorded` and `heard` are
observers.

**Reconcile.** The sources grow record by record, in any order; the report is `Report` of what
they hold, so it is an operator and not a sequence of steps. Destinations, operations and
providers are small numbers, times are instants. Every accusing rule (drift, dormant points,
unmatched connections, the volume anomalies) is translated with its excuses, the capabilities that have to
be present and the coverage that has to be declared; wording, hashes and evidence lines are not. A
call says where it went in two fields, its host and whether that was resolved; the join of the points
reads both and the join of the wire the first alone, and the model does as each does. In the scenes one
name has one provider, so that the order of merged readings cannot show in the provider (section 6).

**SourceBindings, CallSites and StaticScan.** A file is a sequence of statements (imports, values
made by a constructor, calls), each in a function. `SourceBindings` fills the table as the four
collectors do: imports first, then values, the last statement first because the walks keep a stack,
with names two values disagree about (`contested`) and names only a star import explains
(`speculative`) remembered beside the one entry each name has. `CallSites` asks every rule about
every call, lowers the confidence for a url that cannot be read (looked up in an index that also has
one entry per name) or a receiver in doubt, and numbers the calls of a scope. `StaticScan` walks a
tree once, then reads file by file while somebody may change one, and reports. A tree with damaged
regions loses a statement. Its properties read the text without a table: `Suppliers`, `BuiltBy` and
`Origins` say what a name stands for by the rules of the language, and `Owed` what the scanner
promises to see. Simplified: an import brings one name; a constructor call that resolves to nothing
is not a statement; rules have a bound receiver (a rule without one matches on the query alone); the
lists of first party and standard modules are the constant `Ordinary`; the walk is one step. The
verdict is that of the default policy.

## 3. The runs

| run | what it shows |
|---|---|
| `vault` | one process where any call may fail, any step may be its last and the power may go: acknowledged records are filed, the file is whole at every instant, and it implements `RecordLog`, where a crash is a rewrite that keeps what is owed. Or two processes whose operations do not overlap (the limit `confirm_unchanged` states for itself), and an operator who puts an older copy back or deletes the file: neither undoes what the other was told is stored, the last writer is never refused while its calls succeed, and an open that knows the counter does not accept the older copy |
| `sessions` | a file vault with appends that fail, restarts frame by frame, compactions, full sessions and a clock that steps back: the two directions agree, what is held is in the file, and no process sees an earlier life of a session it began again |
| `gateway` | two requests of one conversation with a failing disk, records that do not open, words the user typed, a full session and a clock that steps back; and two conversations with one minter slot and expiry in flight, each step of the one between any two of the other: what was sent is filed, and in an answer the gateway reads it comes back as what it was. Once the vault is lost nobody enters and no answer is admitted; a request that was past the door may still be sent. `RightValue` is about whatever an answer mentions as long as no conversation can lose its minter, and otherwise about the aliases the request itself sent |
| `relay` | every way to stream five letters with PERSON_1 and PERSON_11 in both hold modes, and two lanes with passed-through frames and an ending: the cuts are invisible, no letter outstays the budget, nothing overtakes |
| `hooks` | ten processes: rings that overflow with one thread and with two, events that do not serialise, failing appends and status writes, also beside an overflow and a slow drain thread, a daemon thread that outlives the start of `close`, a failed start, Node: nothing is reported twice or lost unseen but for the two races, which cost the count nothing where they cannot be; the window is backed by the files, as far as the count goes; every call is settled while the process runs, and a process that begins to close ends |
| `sensor` | every way to be refused, keys used three times through a small ring, answers that expire and evict one another: records are of one connection, connections watched whole are recorded once, a refusal leaves nothing attached, and a name is one that was really said, by a hello seen to its end or by an answer in force, however packets are cut, split or looped |
| `reconcile` | every subset in every order of small sets of points, calls and flows, and every combination of sources: conversations are what their records say, order and copies do not show, only the unexplained is accused, and with certainty only if every call names a host, evidence only explains |
| `masking` | 67 policy files (every table, with values of the wrong kind, digests, word lists and scopes, of which 40 are refused), and two requests under each that loads, with nested documents, code blocks, suffixes and values that hide one another, and a vault that fails: every claim is accounted for; what crosses in clear was allowed by the words of the file, lies in a block the record declares, or was given up for a longer reading, and of the last nobody is told; what was filed to be masked is masked in the string the decision was about, but where the field of a document is written over it; and an alias stands for one value |
| `ladder` | up to four values and literals of one kind, in twelve scenes over all types and both styles, under streams that repeat: an alias is worth at least what the report says of its type, and none is longer than its bound |
| `front` | two requests over thirty lines (every prefix of the table, both methods, tools, six conversations of which two run together, one is written twice and one has no user turn, headers that are forged or nominate others) under eight configurations, of which some do not start: what crosses unmasked is on record before it crosses, but for bodies of a GET for the list of models; scopes follow conversations; requests go where their path says, in clear only to a name that reads as this machine; and with buffers of one entry, clients that go away and answers that are cut, nothing is lost uncounted between two locks |
| `static` | twelve ways to bring vendors into a file, with everything two functions may write below them in three statements, scanned, edited and scanned again; and a calling file beside every awkward entry of a tree, under five rule sets and three coverage limits: no promised call is missing without a word, what is confirmed is right, edits stay local, a pass means somebody looked |

One run, `relay_choices`, states what the repository says of itself and finds the code doing
otherwise. Eight further statements of that kind are definitions of the modules that no run checks;
section 6 lists them, and what TLC finds when one is added to the run named there.

**Bounds, and why they are enough.** `vault`: two records and three appends give an append after
a compaction, a compaction of a compacted file, a rewrite that drops a record and one that keeps
it; two inodes are the file and its candidate, so a third compaction reuses the first's.
The two processes have no faults and no power cuts, which the one has; with two counters equal a
power cut can hide a rollback from the counter (a lost record and its successor have the same
number), so the open that tells an older copy by its counter is claimed for a machine that may
lose power or a file that may be replaced, and not for both at once. `sessions`: with a time to live of 1 and
times 0 to 2 a session is used, idle, expired and begun again, and is one unit early or late at
each; three values and a ceiling of two fill a session and ask for more; two frames are a load that
merges and one that is refused. `gateway`: two requests are enough to have one do
anything while the other waits; three labels are two values and one literal; `MaxAttempts` is 2 so
that a mint runs out. A label is one of `Alias`; two values and a literal
count to three, so no scene comes to the end of it. `NotAllInOneInstant` leaves out the case that all `MINTERS_KEPT` + 1 (4097)
conversations of a full map were used in one millisecond. `relay*`: the longest alias has three letters, so five
letters are one alias with something on both sides, or two that overlap; the second lane has what
the first has not. `hooks`: three calls overflow a ring of one twice and leave one for the close; a
ring of three overflows never, so what is lost there is lost by the disk. Two callers on a ring of
one share its last place, and on a ring of three only the disk loses anything. `sensor`: three
connections use one key three times, so a flow has a predecessor and a successor; one address and
two names per address are the full map, and two lifetimes are an answer that expired and one in
force. Responses have up to two of 18 records, with chains of one alias more than are followed, pointers
one more than are jumped, and are cut before every cell; hellos have up to two of nine extensions
and one of three, cut and split before every cell. `reconcile`: three records of each source are enough for a rung of the ladder of explanations
to be tried against another, five of the wire for a conversation with a neighbour; times differ by
less and by more than the tolerance. `masking`: two listed names of which one begins the other, two
account numbers that can hide each other, and a pool of two aliases. `ladder`: `PoolAttempts` is 2 and `MaxAttempts` 4 where the
code has 12 and 32, so that a pool and a mint run out within three values; five streams give every
offset of a check digit its first, its last and some between. `static`: three statements are
a client made twice and called, or made once and called twice; a fourth would be a second copy of
one of them. Two vendors and two functions are the two answers one entry can give. `front`: every
property relates two requests at most; a buffer of one entry is full after the first, so that the
second drops what the first filed; `Faults` has one reason of each
class (one that gives the vault up and ends all that follow).

**Deadlock** is checked for the vault, the sessions and the gateway. It is off for `relay`,
`hooks`, `sensor`, `reconcile`, `masking`, `ladder`, `front` and `static`, which end: a stream is
over, a process gone and its files read, a pass sealed, all records handed over, the last request
answered, the file full and the command gone.

**Fairness.** `HookStream` assumes that a drain thread that can take a step takes one (`Draining`),
that its timer fires and the sleeping thread wakes (`Wake`), and that `close` goes on once begun
(`Join`): the interpreter schedules its threads, and `Event.wait` and `Thread.join` have timeouts.
Nothing makes the application call, close or exit. Under it `EveryCallIsSettled` holds: again and
again, unless the process ends, there is a moment at which the hook holds no call (the calls of a
run are finitely many), so each was delivered or counted. The other modules claim no liveness: nothing in the
vault runs by itself, a client may stop anywhere, a hold in wait mode waits for as long as the
provider is silent, and the sensor is polled by its caller.

## 4. What is proved

Eight modules are proved about, each in a module of its own: the theorems hold for every value of
the constants that its assumptions allow, so for any number of processes, sessions, requests,
values, records or files, where the runs have two or three. `PROJECT.json` (`theorems`) has the
list. Every theorem about a state is read off an inductive invariant called `IInv` in its module,
which was first checked with TLC on the instances of the module's run; every theorem about a step
is proved from `IInv /\ [Next]_vars`.

| theorem | property | what it rules out, for every instance |
|---|---|---|
| **`VaultFileProofs`** | | |
| `FileInvariant` | | (the inductive invariant) |
| `OwedRecordsStayFiled` | `OwedRecordsAreFiled` | a crash, a failed call or another process loses an acknowledged record |
| `EveryInstantWhole` | `EveryInstantIsWhole` | a header that describes frames which are not there |
| `LastWriterProceeds` | `LastWriterIsNeverRefused` | a process is refused for what it wrote itself |
| `CounterAlwaysTellsTheAge` | `CounterTellsTheAge` | the counter falls, or an open takes an older copy for the vault |
| `FileImplementsRecordLog` | `ImplementsRecordLog` | a step of the file that is no step of a log which keeps what it owes |
| **`VaultSessionsProofs`** | | |
| `StoreInvariant`, `TypeCorrect` | | (the inductive invariant; its types) |
| `BooksAlwaysAgree` | `BooksAgree` | an alias that stands for two values |
| `BindingsAreStable` | `BindingIsStable` (of no run) | a name rebound while its session lives |
| `CeilingAlwaysHeld` | | a session that outgrows its ceiling, reloaded ones included |
| `FileAlwaysCoversMemory` | `FileCoversMemory` | an answer from a record the file lacks |
| `ExpiredIsNeverServed` | `ExpiredIsNotServed` (of no run) | an answer from a session whose time is over |
| `NothingIsResurrected` | `NotResurrected` | a session begun again with what it held before |
| **`MaskingGatewayProofs`** | | |
| `GatewayInvariant` | | (the inductive invariant) |
| `SentStaysFiled` | `SentIsFiled` | an alias at a provider whose original nobody holds |
| `AnswersCarryTheRightValue` | `RightValue` | an answer with somebody else's value in it |
| `SentAliasesComeBack` | `AnswersAreRestored` | an alias left raw in its own answer, when that is of events or of JSON that parses |
| `LostVaultStaysClosed` | `FailClosed` | a vault that comes back; a request that enters after the loss, or an answer delivered that had not passed the second look before |
| **`StreamRelayProofs`** | | |
| `RelayIsWellFormed` | | (the inductive invariant) |
| `FramesInTurn` | `FramesWaitTheirTurn` | a frame that overtakes a word the model wrote before it |
| `LettersLeaveInTime` | `NoLetterOutstaysTheBudget` | a letter held past the budget by a steady stream, or a fragment let out in wait mode |
| **`GatewayRecordsProofs`** | | |
| `RecordsInvariant` | | (the inductive invariant) |
| `NothingIsLostUncounted` | `LossesAreCounted` | a finding or event that is neither kept nor counted |
| `NoSilentPassage` | `NothingCrossesInSilence` | a body that crossed unmasked and is on no list, unless it asked for the list of models |
| `ThePathDecides` | `GoesWhereThePathSays` | a request at a host of no or another provider, in clear to a name that does not read as this machine, or for a path that is neither in the table nor below a declared endpoint |
| **`StaticScanProofs`** | | |
| `ScanInvariant` | | (the inductive invariant) |
| `PassingMeansItLooked` | `PassMeansLooked` | a scan that passes over a file without a word |
| **`HookStreamProofs`** | | |
| `StreamIsWellFormed` | | (the inductive invariant) |
| `CountIsExactButForRaces` | `OnlyRacesGoUncounted` | a third way past the count |
| `CollectorIsBacked` | `WindowIsBacked` | a window that vouches for a call nobody has, counts or lost to a race |
| `HookImplementsChannel` | `ImplementsEventChannel` | a call reported twice, out of its turn, or lost unseen |
| **`NetworkSensorProofs`** | | |
| `SensorIsWellFormed` | | (the inductive invariant) |
| `RecordsAreNotMixed` | `RecordsAreOfOneConnection` | a record with bytes, names or a process of two connections |
| `WatchedByEveryProbe` | `AttachedOrNothing` | a sensor that watches with half of its probes, or a refusal that leaves one |
| `EachConnectionOnce` | `EveryConnectionIsRecordedOnce` | a connection that is recorded twice, or never, with nothing lost |

**The file.** `IInv` speaks of two situations. Always: types, that no record is anywhere which was
not committed (`NothingIsInvented`), that processes which are not set up do nothing, that a process
on its own overlaps with nobody, and that nothing is replaced where nobody replaces it. And until
two operations have overlapped, `CalmInv`, since afterwards the program promises nothing.
`OwedRecordsAreFiled` is far from inductive as it stands; what it needs, part by part:

- `NodeOK`: of one inode the durable header is never ahead of the one a reader sees, its frames are
  a beginning of the other's, and the bodies differ only beyond the frames of the later header. So
  whatever mix of old header, new header and spoilt frames a power cut leaves, it opens.
- `StageOK`: what a process inside an append or a compaction has done to the disk so far, from the
  frame that lies where the next header will say, to the candidate that has exactly the records
  held and is under no name a power cut could lead to.
- `OwedIsSafe`: what is owed is in the *visible* tail at the path and in the *durable* tail of every
  inode the path may lead to after a power cut. The second half makes the power cut a step of the
  proof like any other.
- `HoldersAreCurrent`: a process that remembers the header at the path holds what is owed, so that
  what it compacts to is no less. `NobodyIsAhead` and `WriterIsCurrent` say who remembers it.
- `BackupOK`: where the counter tells the age of a file, a copy whose counter is not below what a
  caller has seen has what is owed.

The theorems carry the limits of the code and no more: `~overlap`, which `confirm_unchanged` states
for itself, and `NamesAreDurable`, that on a machine that may lose power a later flush of the file
makes its names durable (the program flushes no directory, section 6). Without power cuts the
second asks for nothing. `VaultFileAssumption` says that a torn frame is no record and `None` no
record or inode. The refinement is of one process on a file nobody replaces (`Promised`); anything
else maps to the empty log. In it the header write is `Commit`, the second flush `Acknowledge`, a
rename, a kill or a power cut a `Rewrite`, and everything else a stutter; `IInv` gives for each
that the tail at the path maps as it should.

**The sessions.** The argument is about one slot at a time. `SlotOK` says a slot is typed, empty
unless live, has inverse maps and is within its ceiling; agreement alone is not inductive, because
an insert needs to know that an alias with no value has no holder, and an absent session that it
holds nothing. There is one lemma per operator of `session.rs` (`EmptySlot`, `TouchedSlot`,
`RefreshedSlot`, `EnsuredSlot`, `InsertedSlot`, `ForgottenSlot`, which says the undo is exact), and
the step lemma only says which operators an action applies to which slot; the gateway keeps the same
slots, and its module has the ones it needs again. For the
file, `FiledInv` adds that while a load is under way memory is covered by the frames read *so far*:
without it, a vault that comes up with a record no frame holds would be consistent. A compaction
is covered because the frames it writes enumerate the purged store (`CompactedFrames`).
`NotResurrected` needs `OneLife`: whatever a slot holds is among what this life of its session has
seen. Assumed (`SlotAssumption`, `SessionsAssumption`): that `None` is no value, that the sets that
are counted are finite, and that the limits are numbers. `CeilingAlwaysHeld` is no property of a
run: the runs fill a session and have no room in the file for one record more.
`BindingsAreStable` and `ExpiredIsNeverServed` are no properties of a run either: each is about one
step, and the proof covers every instance of it. They do not reach across a restart, where a load
merges the lives of a session (section 6 says what comes of that).

**The gateway.** `IInv` relates the three things a request leaves behind. `MintersOK`: no minter
issued one alias for two values, and what it froze it had issued. `StoreIsMinted`: as long as no
minter can be dropped, a slot holds only what its minter issued, which is why a value an answer
mentions by chance is right as well. `StillFiled`: what a request in flight sent is in its slot
until the session may have expired; it has to carry that the slot was used no earlier than the
request was begun, or an expiry could be near. `StillIssued` relates the frozen set to the minter.
That a lost vault stays lost needs the types only: each step either leaves `access` or takes it away,
and only `Enter` and `Admit`, which ask for it, let a request past the door or its answer past the
second look.
`MintersAreDated` is what makes `prune` keep the conversation in hand as long as the clock does not
step back. A body has any number of values: `Pass` is a recursive function of how many were done,
and that a property survives all of them is induction in the form the provers can use: the set of
numbers where it holds has 0 and is closed under successors, so it is `Nat` (`Induct`, from
`LeastOf`, from the library's well-foundedness of `<`). Assumed (`GatewayAssumption`): finitely many
sessions and requests, aliases that are numbers, at least one minter kept. `NotAllInOneInstant`
bounds the model and so the theorems.

**The relay.** `Balanced` says that of each lane's text what has not left is held, which is what
makes "nothing is held" the same as "everything before has left" (`NothingHeld`). It rests on a
release letting go of a beginning of the buffer: `DecideReleases`, for which the live prefix must be
a number, for which the scan must have come to an end. Its loop goes back after each commit, so
`ScanReadsAll` counts letters within commits: a turn reads a letter or moves the last commit on, and
a later commit outweighs every letter. `InTurn` has more than `FramesWaitTheirTurn`: also what still
waits is in order, came after all that passed, and waits for text that has come. `LaneType` and
`Timed` tie the clock to the letters: it runs exactly while something is held, and no held letter is
older than it, so a clock that has not run out leaves no letter overdue. The clock is not restarted
by a release that leaves something (`observe`), so the letter may be younger than the clock and
leave early; it is never late. Flushes, frames and slots are folds, and that their steps compose is
induction over the numbers as in the gateway. Assumed (`RelayAssumption`): lanes that are numbers, in
some order; finitely many aliases, which are sequences of letters, as are the texts that arrive; and
`None`, which is no time.

**The records.** Every append to a list is followed by a count in a step of its own, so between the
two the books do not balance; `BooksBalance` counts who is in between: the length of a list, its
counter and the requests that owe the counter one add up to the requests that put something down.
Balance says nothing about *what* is kept, so `FindingsAreKept` and `EventsAreKept` follow the lines
of each request until the counter moves, and `DoorHolds` that whatever reaches the wire declared
its gap before. `WireLeadsThere` follows the routed provider into the vetted bases; the theorem
then rests on lemmas about the route table (`RouteOf`), the scheme and the list of hosts alone. Which
hosts begin with 127. is a constant nothing is assumed of. Assumed
(`RecordsAssumption`): finitely many requests, paths that are sequences of strings, statuses that
are numbers, and lists of at least one entry.

**The scan.** A file leaves the queue when its turn comes and leaves the tree when somebody removes
it, so `NothingIsPassedOver` says of everything the *walk* met that it is still queued, was read, or
is named, and not what the tree says of it by now. The queue is the tree's order restricted to
code, and that each such path is in it takes a counting argument (`NthOf`: the k-th of a finite set
of numbers, for each k up to its cardinality, are all of them). `RatioIsNotRoundedDown` is what a
limit of nothing unread rests on. Assumed (`ScanAssumption`): trees of entries of the known kinds,
over finitely many paths, and a limit that is a number or absent.

**The hooks.** The argument follows a call. `RingInv`: the ring holds the last calls, one after
another, so a batch taken from its head is older than all that is left. `BatchInv` and
`DeliveredInv`: what a thread carries was not delivered before, two threads carry nothing in
common, and the whole lines of the stream rise. `AccountInv` is the heart: what left the hook
without a line of its own (`Lost`) is no more than the drop count, the losses the count missed and the torn
lines pay for, where a thread between its write and its `+=` owes the count a batch (`Owing`), and a
torn line that is still the last one pays for the event that will run into it. `CountInv` says how old
what a thread remembers may be: a length seen before the append, a count read before it is stored; and
that where neither race can be (`CountsEveryLoss`) nothing is missed. `DocumentInv` and `ReaderInv`
say where a status document and an answer come from; in Node a document is `Backed` by the stream
beside it at every instant, a kill included, in Python only once the process ended by itself, since the
timer may write it between a batch and its count. Assumed (`StreamAssumption`): finitely many callers,
none of them the drain thread. The theorems are of every process of `SetupType`, races included.

**The sensor.** A key says nothing of the connection it was used for, so both arguments are about
order. `OrderInv`: the frames of a key lie in the ring in the order of its connections. `EndsInv`:
between the frame that opens a flow and the next connection of its key lies the frame of the close.
So what the assembler holds for a key is of one connection, the oldest the ring can still speak of
(`PendingInv`), and a record is of one (`ClosedInv`, `OutcomeInv`). A lost close and a packet that
comes behind one break this for their key alone (`Clean`), frames that cannot be read for all. That
the decoder gives back what a probe wrote, or refuses it, under every layout is a chain of lemmas
about `WireFrames`; two of its cases changed the model and the property: the ring goes with a
refused attach, and an object with longer frames is read in part, handshakes but no closes, which
the record says (`record_undecodable`).

For `EveryConnectionIsRecordedOnce`, `PlacedInv` says where a connect is: it waits in the ring, is
held by the assembler, has ended, or was told of in a record, one of these and once (`OnceInv`). It
is not written over, because as long as no close went missing a connection that is held or waits
is open or its close is yet to be read (`ClosesInv`), and the connects and closes of a key take
turns (`TurnsInv`); so the connect of the next connection finds the key free. And it does not fall
out at the seal: a record passes its own checks when a verdict has a host exactly with a source of
it, which holds as what the map knows are names (`Named`): it needs that the names of a map are
still names after an answer was added, an entry expired and the fullest address evicted. Assumed
(`NameMapAssumption`, `SensorAssumption`): `None` is no number, no source and no reason, and what
the readers take for a name is one (`ReadsNames`), a fact about the packets of a scene that TLC
evaluates for all of the run's. The number of keys, connections, windows and the size of the ring
are any.

**Only model-checked.**

- `ScopesFollowConversations`: that two anchors are equal only for equal openings is a fact about
  texts joined by a fold, over all of them. It also fails where a text contains the separator
  (section 6), so it would need an assumption about texts.
- `EveryCallIsReported`, `ConfirmedIsTheirs`, `EditsStayLocal`: about tables built by folds over
  the statements of a file.
- `NamesAreWhatWasSaid`: what `DnsMessage` and `ClientHello` make of a packet, cell by cell, against
  what its writer meant. Both are recursions over the cells.
- `CutsAreInvisible`, `Reconcile`, `MaskingPass` and `AliasLadder`. `Reading` (with which the first
  compares), the ladders of `Reconcile` and the walks of `Detection` are recursions over data: what they
  compute for every input needs induction theorems with an operator as parameter, which no backend
  here can instantiate. The rest is open (section 5).
- `EveryCallIsSettled`, which needs fairness, and everything about `ENABLED`.

The prover knows nothing of `@@`, `:>` and `SelectSeq`, so what the proofs expand writes the function
out: `Bases`, `Walk` and `ParsedInFull` say by their values what the code says by inserting.

## 5. The plan

Done: the vault, the gateway and the streams; the hooks and their collector; the sensor; detection,
the load of a policy, the ladder of aliases and the masking pass; reconciliation; the static scan;
the front of the gateway and the records it keeps; the theorems of section 4. Next, in this order:

1. *Proofs*: `AliasesSpeakForOneValue` of a masking pass, whose state is small.
2. *Command line and bridge*: `write_target` with another process on the same path; the registry.

## 6. Where the code and its words differ

Kept as a run, with a counterexample:

- `relay_choices`: a frame with text for two choices is written once per choice, each time with
  the other's raw text; `http/stream/mod.rs:17` says text leaves in the order the model wrote it.

Kept as definitions. Each states what the repository says; TLC refutes it when it is added to the
cfg of the run, as an invariant (the first as a property).

| definition | run | what the code does | what is said of it |
|---|---|---|---|
| `NothingCrossesALostVault` | `gateway` | a request past the door is sent after another has lost the vault (`http/gateway.rs:618`) | `http/gateway.rs:556`: "A vault that is gone means no request crosses" |
| `EveryUnmaskedBodyIsDeclared` | `front` | a JSON body of a GET for `/v1/models` or `/anthropic/v1/models` is forwarded as it came (`http/gateway.rs:982`) | `http/declare.rs:16`: the request path cannot forward an unmasked body without holding a declaration |
| `ClearTextStaysHere` | `front` | every host that begins with 127. passes for this machine, DNS names too (`http/passthrough.rs:250`) | `http/passthrough.rs:182`: "a recorded or stubbed upstream on this machine" |
| `TargetsAreLiterals` | `front` | below a declared endpoint the target has the client's path (`http/route.rs:170`) | `http/passthrough.rs:110`: "never from the client's path"; `http/route.rs:288` |
| `EverySurvivorIsReported` | `masking` | in a refused region the longest reading wins and the walk goes on behind it, so a shorter value in front crosses and nobody is told (`detect/pattern/mod.rs:363`) | `detect/pattern/mod.rs:209`: "a second value in the same region is still reachable" |
| `CountedMasksAreApplied` | `masking` | a string that is a document is written, then its fields: a value masked in the string, filed and counted, is put back by a field where a narrower rule allows it (`http/request_path.rs:545`) | `http/request_path.rs:506`: made, minted, filed, counted "and then not applied is two failures at once" |
| `EveryLossIsCounted` | `hooks` | two callers on a full ring evict an event nobody counts (`hooks/python/periskop_hook/writer.py:116`) | `writer.py:19`: "every path out of the ring below either ends in a written line or in the drop counter" |
| `CertaintyNeedsEveryCallRead` | `reconcile` | `CallKey` reads the host and not the degraded reasons, which `join.rs:224` reads for the same question (`crates/periskop-reconcile/src/j1.rs:148`) | `j1.rs:144`: "Deliberately the same reading"; `unmatched.rs:210` |

The properties the runs check say what holds instead: `FailClosed`, `NothingCrossesInSilence`,
`GoesWhereThePathSays`, `EverySurvivorIsExplained`, `FiledMasksAreApplied`, `OnlyRacesGoUncounted` with
`ImplementsEventChannel`, `AccusedFlowsAreUnexplained`.

Noticed while modelling, and kept here only.

*Vault and gateway*

- A rename that did not reach the disk costs the records acknowledged after it
  (`vault/compaction.rs:109`); `vault/compaction.rs:29` says the old file holds a superset.
  `DurableNames` without `"rename"` shows it.
- Two lives of one session in one file can collide or pass the ceiling, and the open fails on a
  file only this program wrote (`vault/mod.rs:249`); `vault/mod.rs:198` lists what an open refuses.
- After an expiry and an eviction in flight an alias is restored as a later value
  (`http/gateway.rs:764`); `http/stream/restore.rs:12` says a lookup cannot answer with something
  plausible. `RightValue` is so restricted by `MayHaveExpired`.
- A header written and not yet flushed is served by the next process, which confirms the record
  without writing it; `vault/mod.rs:379` says it reaches the disk first (`vault/file.rs:226`).
- When the second flush of an append fails, later appends are refused as if another opener were
  writing (`vault/file.rs:353`).
- After a restart a conversation that expired and was begun again has its old names back;
  `vault/session.rs:392` says reuse does not resurrect (`vault/mod.rs:249`).
- After a step back of the clock the status counts fewer records than lookups return;
  `vault/mod.rs:298` against `vault/mod.rs:325`.
- A conversation that lost its minter counts from the first label again and is refused where the
  vault still holds it; `http/gateway.rs:56` says eviction costs consistency and nothing else.
- `prune` orders by the wall clock, so after a step back, with more conversations than minters are
  kept, the conversation in hand may be the one pruned, and its answer is read against the empty
  set; `http/gateway.rs:1058` says the most recently used is kept. `SentIsFiled` says of the frozen
  set what holds: it has every alias sent unless both are the case.
- An answer of another content type, or JSON that does not parse, is delivered with the aliases in it
  (`http/gateway.rs:760`, `:851`), as the comments there say; `http/gateway.rs:900` tells what that cost
  when coded bytes went that way. `AnswersAreRestored` is about the answers the gateway reads.
- A record that does not open cuts its answer and leaves the vault in use; `http/gateway.rs:1074`
  speaks of integrity and tamper as not retried.
- `purge_expired` has no caller in the proxy; `vault/session.rs:497` says a timer calls it.

- A body crosses unmasked and its answer is cut: the client is not sent the degraded header
  (`http/gateway.rs:680`), the first of the "three places" of `http/declare.rs:8`.
- A finding is filed before the body is masked (`http/gateway.rs:996`), and the request may be
  refused after it; `http/gateway.rs:198` says a finding is of a request that actually crossed.
- The proxy's own answers count as requests that reached an upstream, and cut answers as refusals
  before any (`http/gateway.rs:345`; `http/admin.rs:245`, `:250`).
- The log of requests has no bound (`http/gateway.rs:377`); `http/gateway.rs:174` calls that a leak.
- A first user turn without text (an image alone) still anchors, so conversations that share a
  system prompt and open with an image share a scope; the comment at `http/session.rs:197` calls
  that the worse mistake. A unit separator in a text moves the border of the two halves.
- The limit on a body is looked at after all of it was collected (`http/serve.rs:110`: "bounded").
- A request whose client goes away while the provider is awaited has no record, no event and no
  count; `http/serve.rs:64` says the request record carries what happened.

*Streams*

- Text released while a ping waits for another lane leaves before it; `http/stream/mod.rs:318`
  says released text is older than anything waiting.
- An issued alias is found inside a longer word the user wrote; `http/stream/automaton.rs:35` says
  such a word is never matched.
- A stream that ends between frames with text held is not marked truncated, because the mark is
  read after the flush; `http/stream/flush.rs:133` says the caller marks it.
- The hold clock keeps the time of letters that have left; `http/stream/hold_timeout.rs:48` says
  it is when the oldest byte still held arrived. A hold may so end early, never late.
- An opening frame with an empty text is never sent on; `http/stream/frame.rs:67`.

*Masking*

- An alias the user wrote with a suffix or in brackets (PERSON_1'in, (PERSON_1)) is not withheld,
  and a value of the same request may be given it (`http/request_path.rs:492`);
  `http/request_path.rs:120` says a literal shaped like an alias is withheld before anything is
  minted. The vault keeps the spelling it saw first, so a second spelling of a value comes back as
  the first (`vault/mod.rs`, `insert`). A value that is itself a published test number or address
  may be given itself as its alias, since `is_free` does not look at the value (`alias/mint.rs:234`).
- Values of nested documents are scanned and counted twice (`http/request_path.rs`).
- A policy loads with `dictionary.source = ""` and `required = false`, which the schema's least
  length refuses; `policy/load.rs:18` says the rule CI sees and the rule the process enforces come
  out of one file. `[affix_rules]` without `languages` loads with none.
- Of a bracket in a scope the opening character is not looked at: `messages[0]x1]` reads as
  `messages[0][1]`, and `[+0]` as an index (`policy/scope.rs`).
- Two listed texts that fold to one with different types load, and the first decides; unknown keys
  of a word list are ignored where unknown keys of the policy stop the load. The list is not part
  of what `policy_hash` covers.
- A key of a nested document is scanned as part of the string around it; when it is masked the
  nested write finds no such field and the body is refused. `policy/scope.rs` says masking never
  touches keys.
- The longest listed name at a place is taken even if its end is no word boundary, and hides a
  shorter one that would do (`detect/dictionary.rs:230`): "Ali Velican" with `Ali`, `Ali Veli`.
- Overlaps are merged before anything is decided, so an allowed claim can win over a masked one,
  and what lost is counted nowhere.

*Hooks and collector* (under `hooks/` and `crates/periskop-runtime-collector`)

- What a daemon thread submits after the last drain of a close is in neither file (`writer.py:194`).
- The window of a killed process can be longer than what its files back (`writer.py:188`);
  `window.rs` says the sidecar can only suppress a claim.
- Read while the hook still writes, a window may vouch for calls the stream does not have yet
  (`collector.rs:109`); the model reads after the end.
- A slow close leaves the drain thread's batch behind, uncounted (`writer.py:201`); a thread that
  does not start leaves `_thread` set; a status write that fails leaves the older document; the
  child of a fork has no drain thread; two updates of the drop count can lose one.

*Network sensor* (under `crates/`)

- The `DROPPED` counters of the kernel are cumulative and are added again at every poll.
- After the first attachment the capabilities are gone, so a second `observe` is refused while the
  probes stay attached (`periskop-network-sensor/src/source.rs:118`).
- Losses are read before the ring is drained, so a frame lost during the drain is declared by the
  next pass (`sensor.rs:261`).
- A hello split over two records is scanned through the header of the second, which reads as an
  extension of 768 bytes or more (`parse/tls.rs:111`): the name is lost, or, if that many follow,
  what comes after is read from the wrong place. The model's hellos are shorter.
- A pointer may lead anywhere in the message, fixed fields included, where bytes are read as labels
  (`parse/dns.rs:347`); the model's pointers lead to names, to themselves or past the end.
- A connection's names are looked up at its own time (`assemble.rs:43` says at that moment rather
  than the end of the run), but every later answer first expires the map at its time
  (`resolve/cache.rs:98`): a name in force at the connection may be gone when its record is sealed.
- A close between two attachments is missed and not counted, since the hooks are attached with the
  connect probe first; what is sent on that key later is taken for the old connection's.
- A handshake seen after its close makes an entry the next connect on the key adopts.
- An object whose frames are longer than this build's is read in part: a sample decodes, a close does
  not, so a flow is never ended and the next connection of its key goes on in it. The record counts
  the frames it could not read.

*Reconciliation* (under `crates/periskop-reconcile/src`)

- Records with one identifier and two targets are mixed into one episode (`engine.rs:128`);
  `wire.rs` says they cannot come from one run. They are left out of the scenes.
- The `provider_ref` of merged readings depends on the order of the records; `wire.rs:257` says
  "Deterministic by construction". The scenes have one provider to a name, so that
  `OrderAndRepetitionAreInvisible` does not see it.
- A conversation with one uncounted connection is compared with its calls as if that connection
  had carried nothing (`wire.rs:171`); `volume.rs:100` says a half measured one is not judged.

*Static scanner* (under `crates/periskop-static-scanner/src/engine`)

- A name two values give two vendors keeps the first in the source; a call of a method only the
  other vendor has is neither found nor declared. `bindings.rs:127` says the only correct response
  is to weaken the claim rather than to drop it. `Owed` asks for makes that all have the method.
- The index of constructor arguments has one entry per name: of two functions that each make a
  `client` with a url of its own, both report the first, confirmed; `detect.rs:401` says an unread
  value yields no destination rather than something invented.
- A name an import and a parameter share, or that is made again by something that resolves to
  nothing, answers for the import's or the first make's vendor and is confirmed.
- Of two imports of one name the first in the source wins, where the language takes the last; of
  `import a.b` and `import a.c` both bind `a`, to the first one's path.
- `from openai import *` followed by `OpenAI().create()`, and two star imports, leave a call neither
  found nor declared; `bindings.rs:311` calls that combination the one the scanner exists to make
  impossible. A TypeScript `new X().m()` is in the diagnostics only.
- A name a Java star import supplies is confirmed, a Python one is suspect.
- A make of another vendor added above in another function changes what the flat entry says, so it
  renames the findings of this one; `EditsStayLocal` is about calls.
- A file read in part counts as parsed and as unparsed. Text that is not UTF-8 is `io_error`.

## 7. What is not modelled

Cryptography (key derivation, sealing, MACs, signatures), byte layouts, sockets and TLS, parsing
(tree-sitter queries, JSON walks, the TOML of a policy file), the text of
findings and reports: none of it is state that steps interleave over. Of the modelled parts, left
out are: timings and per-type counts of a gateway request; the `pre_existing` marker, identity
pseudonyms and byte counts of the sensor; what an event says about a call; identifiers and
classification of the findings of reconciliation; declared targets, rules without a receiver and
fully qualified names of the static scan. `PROJECT.json` (`components`) has the list with
reasons.

Three properties reach less far than their names. `PassMeansLooked` is about the walk's own tree: a
directory the walk is told to leave out leaves no trace. `EvidenceIsAsReported` compares a VKN with the
rule of `alias/checksum.rs:256`, of which the file says that no published vector pins it.
`OrderAndRepetitionAreInvisible` has scenes with one provider to a name (section 6).
