# TLA+ models of ed2k-server

This directory is a verification project for the eDonkey2000 server in `src/`:
TLA+ modules translated from its code, TLC configurations that check them on
small instances, and proofs checked by TLAPS. `PROJECT.json` lists the runs,
the source lines behind every definition, the mutants that show each property
can fail, and the hazards the properties are aimed at.

    tlc -config KeywordIndex.cfg MCKeywordIndex      # a run
    tlapm KeywordIndexProofs.tla                     # the proofs of a component

## 1. Inventory

The server is one process. Each TCP client is one tokio task
(`server/connection.rs`); UDP is one task per socket; periodic work (sweeps,
gossip, keepalive, probes, watchers) is one task each; searches, large
publishes, the index sweep and the operator's index check run on the blocking
pool; the name history has a thread of its own. With `log.worker_threads = 1`,
the default, all tasks share one thread and a task runs undisturbed from one
await to the next; only blocking-pool jobs run beside it. Shared state is in
`ServerState`: concurrent maps with a lock per shard, atomics, and a few
mutexes. Of this nothing is persisted, and a restart is `Init`; what does
outlive a crash are files: lists and their updates, the bot filter, the panel's
certificate, the name history.

| Component | State | Operations | Hard behaviour | What makes it correct |
|---|---|---|---|---|
| Keyword index (`state/keyword_index.rs`, `cold_store.rs`, `posting_codec.rs`) | per keyword: hot Vec, compressed cold blob, pending removals | add_file, remove_file, lookups, compact | compaction merges with no lock held; lookups take three locks in turn | the tiers are one set; lookups see what was there |
| File index (`state/file_id.rs`, `state/mod.rs`) | slab of records with sources, free list with quarantine, user_files | add_file_with_source, remove_sources_of, orphan_sweep, purge_files | every operation is several critical sections; slots are reused | a published file stays findable; nothing is left behind |
| Sessions (`server/connection.rs`, `login.rs`) | client map, id index, side tables, slots, LowID count, takeover probes | login, replacement, frames, end_session | awaits inside login; old session ends late; jobs outlive sessions | the live session owns what is kept under its hash; the cap holds |
| Admission (`admission.rs`) | semaphores, per-source maps, token buckets, UDP source table, search queue | reserve, take, refund, release, sweep | limits under concurrency, refunds, waits that end two ways | bounds are never exceeded; nothing leaks |
| Publishing (`offerfiles.rs`, `offer_pacing.rs`) | per-user catches, attempts, bans, pace of a connection and of all | batches, ban, retention | counters in two places; batches of replaced sessions; live ceilings | a ban is earned, a budget and a pace are kept |
| Filters and lists (`filter/`, watchers in `main.rs`) | lists, generation, verdict cache, mtimes | check, reload, publish | verdicts computed while lists change; edits while files are read | what is served is what the lists in force say |
| Bots (`bot_detector.rs`, `bot_ipfilter.rs`) | detections, bans, throttles, a file and a list | detect, ban, add, reload, restart | several writers and loaders of one file | what was found stays filtered |
| Probes (`highid_probe.rs`, `ipv6_probe.rs`, `login.rs`) | marks, permits, LowID counter, pending and verified addresses | probe, conclude, expire | late answers for an ended session | an id and an address mean what they say |
| NAT traversal (`holepunch.rs`, `lugdunum_natt.rs`, `natt_proof.rs`, `callback.rs`) | waiters, tokens, counters, mapped addresses | request, keepalive, timeout, resend | lost, late and repeated datagrams | each request gets an outcome; an old proof moves nothing |
| Server list (`gossip.rs`, `server_met.rs`, `udp.rs`) | peer list, verified marks, keys, seed loops | merge, register, probe, expire | clients advertised as servers; shared addresses | only what proved itself is handed out |
| Search and sources (`search.rs`, `proto/search.rs`, `get_sources.rs`, `smart_sources.rs`) | shared answers, pages, lane | parse, rewrite, group, rank, cache | two implementations, stale shared answers | the answer is the reference's, on both channels |
| Wire (`proto/`, `obfuscated_conn.rs`, `udp.rs`) | keystream positions, buffers, keys per sender | read, write, negotiate, decode | TCP cuts anywhere; keys change | each side gets what the other sent |
| Operator (`web.rs`, `admin_auth.rs`, `admin_tls.rs`, `updates.rs`, `name_db.rs`, `activity.rs`, `health.rs`) | failure windows, sessions, certificate files, list files, history rows, counters | login, renew, update, note, reset | concurrent logins, crashes between files, failed writes | guarded, whole, and adding up |

Interactions: a session publishes through the file index, which indexes names
through the keyword index; `end_session` removes the user's sources; searches,
source answers, callback and hole punch read the registries sessions keep;
admission gates sockets, logins, searches and UDP; list reloads change the
filter under the serving paths; the bot detector feeds the IP filter, which
closes sessions.

## 2. Modules

Two modules have runs of their own: `KeywordIndex`, which refines `PostingSet`,
and `Sessions`, checked by `MCSessions`. `UdpBudget` is checked by `MCGuard`. All
others are components of four suites, `MCReach`, `MCServe`, `MCOperate` and
`MCGuard`. A suite instantiates its components side by side. They share no state
there, so their product would only multiply states: the variable `part`, fixed by
the initial state, picks the one whose steps are taken (`Only`), and a run of the
suite checks each of them under its own bounds.

| Module | Suite | Models |
|---|---|---|
| `PostingSet` | | abstract: a keyword's posting is a set, calls are atomic |
| `KeywordIndex` | | one keyword's three tiers at lock granularity |
| `PostingStore` | Serve | blobs, the arena of a shard, compaction and all lookups, as bytes and sorted lists |
| `FileIndex` | Serve | slab, postings, user_files at lock granularity |
| `Sessions` | Live | connections, registries, slots, takeover |
| `Sockets` | Reach, Live | accepted sockets: per-source maps, open and pending places |
| `Greeting` | Reach | the welcome batch, v1 terms, callbacks, under live edits |
| `ClientStream` | Reach | a TCP connection: handshake, keystream, frames, however it is cut |
| `UdpChannels` | Reach | obfuscated UDP: keys, cache, nearby sessions, pings, answers |
| `LoginId` | Reach | probes, marks, permits, HighID or LowID, the counter's wrap |
| `Ipv6Probe` | Reach, Live | the IPv6 of a client from announcement to verdict |
| `NatAddress` | Reach | what 0x9F datagrams teach, lost, late and repeated |
| `HolePunch` | Reach, Live | 0x60 requests, waits, resends, foreign requests |
| `PeerServers`, `SeedLoops` | Reach, Live | the server list; the supervisor of seed loops |
| `Publishing`, `OfferPacing` | Serve | batches, bans, soft limit; pace of a connection and of all |
| `ContentFilter` | Serve | layers and the verdict cache |
| `SourceAnswers`, `SourceRequests` | Serve | who is handed out for a file; requests of several hashes |
| `SearchQuery`, `SearchLane` | Serve | from the tree to both answers; the lane and the pages |
| `WireFormats` | Serve | tags, logins, offers, search options, descriptions, byte by byte |
| `BotFilter`, `Updates` | Operate | bots and their file; updates of list files |
| `ListReload`, `AdminTls` | Operate | edits of lists; certificates |
| `UdpBudget` | Guard | token buckets, server-wide and per-source budgets, source table |
| `AdminAccess` | Guard | the panel's door |
| `NameHistory` | Guard | queue, writer thread, transactions, crash, loss of power |
| `CountryData` | Guard | MaxMind DB and CSV, whole and cut short |
| `Warnings`, `Activity` | Guard | ring and throttle of warnings; activity of sources |

`ReachProofs`, `OperateProofs` and `GuardProofs` extend `MCReach`, `MCOperate`
and `MCGuard`. `Serving` instantiates the components of `MCServe` that are proved
about and states what each promises; `MCServe` and `ServeProofs` extend it. So the runs and the
theorems speak of the same definitions. The proofs about `KeywordIndex` and
`Sessions` are in `KeywordIndexProofs` and `SessionsProofs` (section 5).

Every module's header says what its abstractions are. The common ones: a hash,
name, key or token is a member of a small set; an age that has passed may take
effect at any later moment; what a peer or the network does is a choice;
handlers run to their next await where the module says so, and every lock
interleaves where it does not.

### KeywordIndex

Keywords share only locks, so one keyword is modelled. `hot`, `cold`, `pend`
are the three maps' entries for it. A writer is a thread inside `add_file` or
`remove_file`; each of its actions is one lock acquisition. The compactor is
`compact()` (serialised by `compact_lock`): `SnapshotHot` and `SnapshotPend`
copy the deferred tiers, `Install` is `ColdStore::rebuild`'s swap together with
the trimming of pending (done first in the callback, under the cold write lock,
and touching nothing else), `Subtract` the rest of the callback. A searcher is
`merge_tiers_locked`. Locks are state predicates: `ColdWriteLocked` is the
interval of the callback; a searcher that found a blob holds the shard's read
guard, one that found a hot Vec the hot guard. `must` and `may` record, for a
running lookup, the ids that were in the posting throughout and at some instant.

Assumptions. Calls on one id do not overlap: an id is added once, by the publish
that created it, before its `user_files` entry exists; the operator's purge is
the exception, in `FileIndex`. A call that is running when one compaction ends
returns before the next begins (`inflight`): compactions are ten minutes apart.
Without that assumption an add could be merged by one pass and have its mark
cleared after another, and lose its id.

`PostingStore` is the other half: the same operations with a file entering all
its postings in one step, but on the source's representation. A digit of a
varint has `DigitBits` bits for 7, a word `WordBits` for 32.

### FileIndex

One slab shard. A record is `hash`, `size`, `srcs`; a free slot is in `quar`
while its quarantine runs and in `aged` after it. `kw` is the set of
`<<id, hash>>` such that the id is indexed under that file's name. Publishes,
departures, the sweep (`"sweep"`) and the index check with purge (`"purge"`) are
sequences of critical sections, one action each. `shares` is a history: what a
user has published, has not withdrawn, and the operator has not purged.

Assumptions. The 60 s quarantine outlasts a publish, a departure and a sweep
(`Quarantined`); for the index check this is the constant `SlowCheck`, since it
walks the whole index between listing an id and purging it. The calls of one
user follow each other: a session awaits its own batch. (The one exception, a
replaced session's batch, is in `Sessions`.) Sizes agree when equal: unknown
sizes and 32-bit truncation only make more sizes agree. The suite runs one
janitor at a time, the sweep or the purge (`works`), the purge with one
publisher's call in progress at a time, and checks `PostingsPrecise` with the
sweep only: a purge between a publisher's
`get_or_insert` and its `add_file` leaves a posting of a dead id.

### Sessions

A connection is one task; `pc` is where it is. `AwaitPcs` are the awaits. With
`Parallel = FALSE` a task is scheduled only when every other one is at an await
(`Runs`), which is the current-thread runtime; `OfferJob`, on the blocking pool,
is exempt. With `Parallel = TRUE` every access to a shared map interleaves. A
HighID is the client's address, a LowID the connection itself (ids are fresh
until the 24-bit counter wraps; the wrap is in `LoginId`). The HighID probe's
answer, the peer's behaviour, socket failures, filter kicks and timers are
nondeterministic. Left out: frames that do not touch the registries, the later
IPv6 refresh frame (`Ipv6Probe`), the counters of blocked files (`Publishing`),
statistics. Malformed and banned logins change nothing. `WriteTables` is one
step for the IPv6 and NAT-T side tables, which are written and removed together.
The LowID count is adjusted with the map entry: the two are adjacent and nothing
else reads it for a decision.

### UdpBudget

`TokenBucket` as operators and `UdpBudget::check` and `sweep` as actions, one
per lock or atomic operation. A caller reads the clock in `Arrive` and uses that
time at both buckets, so callers may come to a bucket in the wrong order. An
`Entry` of the table stays locked while a slot is reserved and the bucket
inserted (`Locked`). The loop around `compare_exchange_weak` is one action: a
failed exchange changes nothing. The sweep visits entries one by one at the time
it began; an entry that is kept is unchanged and takes no step. Time is in
`Grain`-ths of a microsecond, levels in micro-credits. On the default runtime
`check` has no await and runs undisturbed; the interleavings are those of
`log.worker_threads` above one, and the properties hold for both. Histories:
`charged` and `spent` count the credits given out, `ideal` is the level of a
bucket filled continuously.

Assumptions. A call takes at most `MaxDelay` (any value). `Costs` stands for the
charges of `udp.rs` (arrival, cold decoding, search, source hashes, server
list). Left out: the `u64` saturation of a refill, which is then cut to the
burst anyway; `SourceKey::of`; the counters; and observe mode, which changes the
answer and not the accounting. The table may for a moment hold one entry more
than the cap: the one being erased, whose slot is given back first.

### Bytes

`WireFormats`, `CountryData`, `PostingStore`, `SourceRequests` and
`ClientStream` work on bytes (or four-byte units), because their hazards are
lengths and positions. Each has a writer (the server's own where it has one, a
peer's or publisher's otherwise), a fault that cuts what was written anywhere,
and the reader; the property compares what is read with what was meant.
`NameHistory` and `Updates` do the same with files and crashes.

## 3. Runs

| Run | Result | Shows |
|---|---|---|
| `KeywordIndex` | holds | the tiers implement `PostingSet`; lookups are sound; the inductive invariant of the proofs; once writers stop, hot and pending drain |
| `KeywordIndexSearch` | violated | a lookup of a keyword without a blob can miss a live file during its first compaction |
| `Sessions` | holds | three users at a cap of two, and one user contested from two addresses: cap, slots, registries and sources are those of the live session; only an owner replaces one |
| `SessionsSources` | violated | a batch on the blocking pool outlives its user |
| `Reach` | holds | sockets, stream, UDP keys, ids, greeting, IPv6, NAT, hole punches, server list, seeds |
| `Live` | holds | the liveness of sockets, IPv6 verdicts, hole punches, listed servers and logins |
| `UdpPing` | violated | the answer to a ping whose random part looks like a plain frame cannot be decoded |
| `Serve` | holds | publishing, pace, filter, sources, queries, lane, file index, messages, postings |
| `SearchWords` | violated | a query of unknown words loses them all when a constraint is ANDed to it |
| `UdpOptions` | violated | a 16-bit option of a 0x90 search takes two bytes of the tree with it |
| `Operate` | holds | bots, updates, lists, certificates |
| `Guard` | holds | UDP budgets, the panel's door, name history, country data, warnings, activity |

Each violated run checks one statement of a comment or test of the repository,
quoted in `PROJECT.json` under `findings`. They are narrow windows: most need a
particular operation to land between two adjacent steps of another.

Properties of a suite are conjunctions of the named properties of a component:
`FilesSound` is `SharedFindable`, `NoLastingOrphan`, `PurgesWhatWasChecked` and,
with the sweep, `PostingsPrecise`; `RecordsSound` is `HistorySound`,
`WarningsSound` and `ActivitySound`; `MessagesRead` is `WireFaithful` and
`RequestsRead`; `QueriesAnswered` also has `PostingStore`'s `PostingsExact`; the
others take the name of their component's conjunction. The type invariant of a
component is part of its conjunction.

Bounds. `KeywordIndex`: two writers, two ids, one searcher (an overlap of an
add, a removal, a compaction and a lookup, with an id re-added). `FileIndex`:
two users, hashes and slots, so a slot is reused for another file and a hash
moves to another slot. `Sessions`: three connections, so a session can be
replaced and its replacement end, or three users compete for two slots; calls
are reused, so behaviours are unbounded in length. `UdpBudget`: two callers, two
sources, one table slot, a cost above a source's burst, and three half
microseconds (`MaxClock`): a fraction is carried over, a bucket fills again, is
swept once (`MaxDrops`) and created anew by a late packet. In `Reach` there are
three sockets of two sources (one loopback) with ceilings of two; two sessions
of a client and three datagrams for `NatAddress`; two peers, one foreign, three
logins for `HolePunch`; three servers, of which one that does not run stands four
ports from one that does, so that an answer may be taken for it, and a list of two;
crypt pings with no, some and most padding, some with a zero challenge or one that begins
like a plain frame;
frames at, below and above every limit. In `Serve`, caches, queues, pages and
reply caps hold one or two so that each overflows; `SearchQuery` takes every
tree of its catalogue over three catalogues of files; the lists of
`PostingStore` have ids at both ends of a word. In `Operate`, two files, three
edits, a restart; four days of a three-day certificate and two crashes; two
published lists, three hand-made ones and no file, one update at a time with one
crash or one edit by hand (`MaxTroubles`). In
`Guard`, two panel logins at a limit of one; five offers of one hash at two
names, one fault; databases in three record sizes and both layouts cut at every
byte; four logged events of two peers in a ring of three; two requests by two
handlers around two resets. Deadlock is checked for `KeywordIndex` and `Sessions`;
in the suites the bounds on time and edits end every behaviour.

### Statements that are false of the code

Modules also define statements that comments make and TLC finds false of the
code as it is; the ones without a run are given here with the steps.

- `FileIndex!PurgesWhatWasChecked` with `SlowCheck = TRUE`: the index check lists
  ids while it walks the whole index; a slot freed and reused meanwhile is purged
  by its id (`web.rs:3855`).
- `Sessions!StaleIdRetracted`: the replacing session ends before the replaced
  one; nobody retracts the old id (`connection.rs:690`).
- `SearchQuery!CandidatesSuperset`: an OR under the right side of a NOT, or of a
  starred word, contributes no group of its own where the predicate would match;
  the queries clients send are not of that form (`ClientQueriesComplete` holds).
- `PeerServers!AdvertisedAnswers`: a held key counts as an answer for as long as
  the server runs (`main.rs:936`).
- `PeerServers!PhantomsNeverHandedOut`: `udp.rs:2084` says "a phantom port on an
  otherwise-real server's IP can never be advertised". An obfuscated answer of one
  server is taken for another of its host two to ten ports away
  (`udp.rs:316-344`), which is then advertised unheard. `OnlyProvenHandedOut` says
  how far this goes: no port but those `MayBeTakenFor` names.
- `SeedLoops!ChangeRetriesAll`: a seed that gave up between the reload and the
  supervisor's pass is not tried again.
- `Publishing!BannedSessionDropped`: the ban counts the files of several
  sessions, the drop the attempts of one; the banning session may go on.
- `ListReload!IdleIsApplied`: an operator's reload that read before an edit is
  applied after the watcher's; the mtime says all is well until the next edit
  (`main.rs:1868`).
- `NatAddress!PortOfAddress`: a login keeps the port observed for the address it
  left (`connection.rs:954`).
- `Ipv6Probe!DialsCapped`: the count of dials goes with the record that a
  withdrawal removes (`connection.rs:1285`).
- `BotFilter!RecordedStaysFiltered`: a load made before a line was appended is
  put in place after it and stays until the next load (`bot_ipfilter.rs:133`).
- `BotFilter!BannedSessionsWoken`: a new ban wakes the sessions, but renewing one
  that has run out and was not swept yet does not (`was_new`,
  `state/mod.rs:1472-1483`): a session that came in between stays until it next
  does something that is checked.
- `ClientStream!HandshakeCompletes`: padding in a later segment than the key is
  read as the handshake, and a handshake in two segments is refused.
- `Updates!FileWhole` with two updates at once: both use the same temporary name.
- `AdminTls!ReplacedAtStartServed`: `setup` loads the files (`admin_tls.rs:541`)
  and takes their mtimes afterwards (553). What is replaced in between counts as
  loaded and is not served until the files change again, and half of the new pair
  may be served with half of the old. The comment at 593-595, that a half-written
  pair "is retried on the next check instead of being skipped until the files
  change again", is true of the periodic check only, which takes the mtimes first
  (596). `FilesServed` allows for that one pair (`overlooked`).
- `AdminTls!NeverEnded` when a pair the check has just made does not load: the
  next check finds the note fresh (439) and does not load it, so the old
  certificate is served to its end (`overlooked`).
- `AdminTls!PairBelongsTogether` when names are set back to those of an earlier
  configuration: the note of the earlier pair then vouches for a mixture.
- With `Parallel = TRUE`, two users and a cap of one break `CapRespected` (a
  session releases its slot before its map entry), one user breaks
  `LiveSourcesKept`, and two addresses break `OnlyOwnerReplaces`: with
  `log.worker_threads` above one these guarantees of the default runtime are lost.

Smaller observations, met while modelling:

- `admin_tls.rs:446-448` says a key without its certificate "fails loudly at
  load"; `load_certified` does not compare them. What saves the pair is the note,
  written last.
- A salt of the name history that cannot be read is taken for none and counts for
  zero (`name_db.rs:287-289`, 305); `NameHistory!Open` leaves these failures out.
- `note_undecodable`'s `seen` is refreshed by every datagram; the timestamp of
  the decode cache only by a cold decode, though `main.rs:1075` says otherwise,
  and an entry swept between decoding and answering makes the answer go in clear.
- After the LowID counter wraps nothing checks that an id is free.
- `filter/mod.rs:135` describes an order of layers the code no longer has;
  `server/obfuscation.rs` is used by nothing.
- `flush_and_wait`'s send may block beyond `wait` on a full queue.
- `query_hashes` counts "at most 64, as the handler answers" while the 0x9A
  handler answers 32, and a bare 0x94 counts none.
- An unknown tag type inside an OFFERFILES record leaves the reader inside it.
- `client_ipv6` says only a HASH-typed tag is accepted; a 16-byte blob is too.
- A GETSERVERLIST on a replaced session reads the user's current NAT token.
- The throttle's cleanup drops the suppressed count of a peer that paused, so the
  next event that gets through reports none.
- The activity table may exceed its bound by the handlers that find room at once,
  and the results of an untracked search may be noted in a later record.
- With nested CSV ranges the country is that of the last range that starts at or
  before the address, or none when that one has ended.

## 4. Fairness

`KeywordIndex`: the sweep task calls `compact()` for as long as the server runs
(WF of its steps), a thread that waits for a lock gets it because the locks do
not starve a waiting writer (SF of `Install` and `Subtract`), and a lookup that
holds guards is a running thread (WF). Writers and the start of lookups are not
fair. `Sessions`, in `Live`: tokio's run queue is fair, so a task that can run
again and again does (SF of `TaskStep`, which includes the silence timer of a
replaced session); a running probe's deadline passes (WF of `ProbeEnds`).
`Sockets`: timeouts fire and releases go on (WF). `Ipv6Probe`: a dial ends, with
either answer, and the sweep runs (WF). `HolePunch`: a coordination's timer fires
(WF). `PeerServers`: a server that is probed again and again and answers is heard
once (SF of `ProbeAnswered`); the property says nothing of servers that never
answer. `ListReload`: the watcher polls (WF), and a read that is tried again and
again succeeds (SF). `BotFilter`: what a task began it goes on with, and the
periodic checks run (WF). `AdminTls`: the start and the periodic check run and go
on (WF of `Begin`, `Stat`, `Settle`), a load that is tried at check after check
does not fail for ever (SF of `LoadCert` and `LoadKey`), and the tool that
replaced one file replaces the other (WF of `ReplaceKey`). Nothing is assumed of
clients.

## 5. Proofs

Every theorem is for all values of the constants under the named assumptions of
its component.

`KeywordIndexProofs` proves, for any sets of ids, writers and searchers:
`Invariance` (`Spec => []IndInv`), `Disjointness`, `LookupSoundness`,
`LookupCompletenessOnCold` and `Refinement`
(`Spec => PostingSpec`), from the one assumption that `NoId` is not an id.

The argument. The documented invariant, hot and pending are disjoint, is not
inductive: compaction subtracts a snapshot taken before other calls ran.
`IndInv` adds what links snapshots to calls in progress: calls work on distinct
ids (`CallsDistinct`); an id whose add has reached hot is still in hot or was
merged, and only while the call is in `inflight` (`AddPlaced`); a removal past its first
step has taken the id out of hot (`RemoveTaken`); an id of a snapshot that is in
the blob is still in hot, marked, or being removed (`SnapshotsKept`). From these the
swap cannot revive a removed id nor the subtraction lose an added one. For
lookups, `LookupGuarded` says the guard keeps the blob in place, so what was
read from hot and what will be read from cold cover every id present throughout.
In the refinement an add takes effect when its id enters hot; a removal when its
id leaves the posting, which may be at its own step or at the compactor's swap,
so `PostingSet!Apply` takes a set of calls.

`GuardProofs` is about five components of `MCGuard`. Of `UdpBudget` it proves,
for any rates, bursts, costs, cap, grain, delay, and finite sets of callers and
keys: `BudgetInvariance` (`Spec => []BudgetInv`),
`GlobalRate_Bounded`, `NoCreditLost`, `TableKept`, `SourceRate_Bounded` and
`RatesAreHeld`.

The argument. The bound on credits given out says nothing of the credits a
bucket still holds, so it is not inductive. `Owed` is what a bucket holds plus
what is due since its last refill; `GlobalBalance` and `SourceBalance` bound
credits given out plus `Owed` by burst plus rate times time. A refill moves
credit from the second part of `Owed` to the first and can only lose the excess
over the burst (`RefillOwed`), whatever the order of the callers' times; time
adds the same to both sides. A swept source has spent nothing of its last burst
that its rate has not paid back (`ForgottenBalance`), so a new bucket restores
the balance up to the delay of the packet that creates it. For the table,
`EntriesLocked` says that an entry being inserted is vacant and one caller's,
and that the entry being erased is there: with it the counter is exact.
`MaxClock` and `MaxDrops` may be any numbers, so the bounds restrict nothing.

- `PanelAlwaysGuarded` (`Admin!Spec => []PanelGuarded`), for finitely many
  requests and addresses, any limits, window and table sizes of at least one, and
  any numbers of sessions, connections and ticks (`PanelBounds`). The bound on wrong
  answers says nothing of when they came, so it is not inductive. `GuessInv` says
  for each address, and for all remote ones together: while a window runs its
  counter is at least the number of wrong answers since it opened, one of which
  lies at its very start, and at most the limit; those before it are fewer than the
  limit. So when a window ends only the fewer later ones are left to the next. The
  counter stays within the limit because who is first in the line is looked at
  again (`HashInv`: whoever hashes is first and not locked out; one hashes at a
  time). An address whose entry is dropped from a full table, or which gave the right
  password, starts anew, and its earlier answers are forgiven (ghost `wrong`,
  which keeps the answers of the last window).
- `HistoryAlwaysGrows` (`History!Spec => HistoryGrows`), for any offers, caps,
  queue and faults, without assumptions: a stored name stays with its publishers
  and a verdict against it stays, but for a loss of power. An update replaces a
  row's publishers by those of the waiting change, so `HistoryInv` says that, while
  the writer runs, each change that waits for a stored row holds all its publishers.
- `WarningsAlwaysSound` (`Warn!Spec => []Warn!WarningsSound`, a part of
  `RecordsSound`), for any peers, ring and windows of which the cleanup's is not
  the shorter (`WarnBounds`; 600 s and 3600 s in the code): two entries of one
  event in the ring are a window apart and each counts its repeats. The cleanup
  forgets when an event was last logged, so `RingGood` says that what the ring has
  of an event is no newer than the throttle's entry, or, without one, older than
  what the cleanup drops.
- `ActivityAlwaysSound` (`Active!Spec => []Active!ActivitySound`, a part of
  `RecordsSound`), for finitely many sources and handlers, any limit and minute
  (`ActBounds`). Once a reset is through, the requests in the table with those not
  tracked, and the hours, differ from the totals by no more than the notes in
  progress and those the reset crossed; a record has a gap for each request but
  its first; and the table exceeds its limit by less than the handlers. A note
  adds to four figures in turn and a reset empties them in turn, so `ActSums` says
  at each stage of a reset which of them the notes in progress, and which those it
  crossed, can be missing from; `ActRoom` counts the handlers that found room
  together with the table. The requests in the table are a fold over the sources,
  so the sum's change with one record is a lemma by itself.

`SessionsProofs` proves, with `Parallel = FALSE` (`log.worker_threads = 1`, the
default), for any connections, users, addresses, cap and takeover policy:
`SessionsSound` (`Spec => []SessionInv`: types, the slot cap, one slot per user,
side tables, LowID count and id index that agree with the client map) and
`LiveSessionProven` (`Spec => LiveSessionKept`, the action property: only an
owner replaces a session, and the late end of an older session takes no source of
the session in the map).

The argument. Between two awaits one task runs (`OneRuns`), so what a step read
stays true until the task uses it. Each further part of `SessionsIInv` says what
a connection's place in its life implies for one registry: `MapSound` (who is in
the client map, and that a task past its removal finds no entry), `SlotsSound`
(exactly who holds a slot: a login past its reservation, a session in the map, or
one whose release its replacer still owes), `CapSound`, `TablesSound`,
`LowSound`, `IndexSound`, and `ContestSound`, which carries the recheck of
handle_login over the steps up to the insertion. None of these is inductive
alone: the cap needs `SlotsSound`, which needs `ReplacedSound`, which needs
`MapSound`. `OneThread` cannot be dropped: TLC refutes parts of it with
`Parallel = TRUE` (section 3).

`ServeProofs` is about five components of `MCServe`.

- `VerdictsInForce` (`Content!Spec => []FilterExact`), for any hashes, names,
  readers, size of cache and number of list changes (`FilterBounds`). A call
  under way may hold lists that have been replaced, so the cache's exactness is
  not inductive: `CallsExact` says of a call whose generation is still current
  what it has seen of the lists in force, `GenLags` that only a publication
  between its store and its bump is out of step, and `NoneAhead` that no entry or
  call is of a generation to come. A call reads the six lists one after another
  (`LoadHashes`, `LoadTerms`), and what it holds so far is of the lists it read.
- `SharedAlwaysFindable` and `PostingsAlwaysPrecise` (`FileIndex`), for any users,
  hashes, sizes, slots and either or both janitors (`FileBounds`): what a user
  shares is findable with the user as a source, a record without a source is one
  a departure is evicting, a purge evicts what was checked; and, while nothing is
  purged, every posting is of a live record or about to be taken out.
  `FilesAlwaysSound` states both of the run's specification, in which one janitor
  works at a time (`FilesSound`). `FileBounds` has one hypothesis about the code:
  where the purge runs the quarantine outlasts it (`~SlowCheck`); without it
  `PurgesWhatWasChecked` is false (section 3).

  The argument. A publish, a departure and a janitor each work on an id they
  looked up before, so the properties are not inductive. `StillHas` says of such
  an id that its record is the one it was, or that the slot is in quarantine;
  `CallsRefer` and `JanitorsRefer` say it at each step of a call, and the
  quarantine ends only for slots nobody refers to. With `OneRecord` (a hash has
  one live record) and `AllIndexed` (whatever is alive is indexed, or its
  publisher is about to) the file of `SharedHeld` is findable. For the postings,
  who indexes a file is a source of it (`KeywordHeld`), a slot without a record
  has no source (`DeadBare`), and departures and the sweep evict only what has
  none; a purge evicts a file its publisher may yet index, which is why the
  theorem is about the time without one.
- `PublishAlwaysLimited` (`Publish!Spec => []PublishLimits`), for finitely many
  connections and hashes, any verdicts, threshold, soft and hard limit
  (`PublishBounds`): a ban is earned by distinct blocked files, and the soft limit
  is a budget, but for one file for each other session whose batch overlaps. The
  bound on what is indexed says nothing of what a batch on the blocking pool may
  still index, so it is not inductive. While batches do not overlap, `OwnBudget`
  gives each record the room the count of its own batch left; when they do, each
  open batch has passed at most one check of the limit that it has not used
  (`Open`), and `SharedBudget` bounds the files indexed and the open batches
  together.
- `AnswersAlwaysSound` (`Answer!Spec => AnswersSound`), for any sources, caps,
  scans and number of changes (`AnswerBounds`): the record taken out for the
  requester hides no reachable source unless the answer is full of them, an
  answer has no LowID's address, and no step answers with sources of a listed
  file. What is shared is cached, so `AnswerInv` says of each cached payload that
  it has the direct sources of the time it was made, or one more of them than an
  answer holds (`CacheGood`). The facts about thinned and cut sequences it needs
  (`Kept`, `Prefix`, their lengths and members) are lemmas by induction on the
  length.
- `LaneAlwaysSound` (`Lane!Spec => []LaneSound`), for finite sets of callers, any
  numbers of jobs, results and page sizes (`LaneBounds`): permits and places are
  exactly those of the searches that hold them, no search is twice in the line,
  and the pages that were sent and the rest add up to the answer. The line is a
  sequence without repetition whose members are those that wait; the free jobs
  are the sum of what was granted.

`ReachProofs` is about nine components of `MCReach`.

- `SocketsAlwaysCounted` (`Sock!Spec => []SocketsCounted`), for finitely many
  connections, any sources and any ceilings (`SocketBounds`). That the ceilings
  hold says nothing of what a task will give back, so `SocketsInv` adds
  `SocketsLegal`: a task's list of pieces to release is a tail of what its stage
  was given, in the order of the guards' drops; `PoolsExact`: `openTcp` and
  `pendingLogin` are the numbers of sockets that hold a place; and that both maps
  are functions on sources. `OneMoves` says how a count of holders changes when
  one socket does, and every action is an instance of `SocketStep`.
- `WaitersAlwaysListed` (`HolePunch`), for any clients and any ceiling of tasks
  (`PunchBounds`). That a task's target is the session it was asked for needs
  `OneSession`: no LowID is two clients', and none is ahead of the logins. The
  ceiling needs the finiteness of the set of tasks.
- `AddressesProven` (`NatAddress`, with `Sized`): the address learnt for a client
  other than its own is where its newest proof came from, whatever is lost,
  late, repeated or of an earlier session.
- `PublishedOnlyAnswered` (`Ipv6Probe`, with `MaxDials \in Nat`): the IPv6 handed
  out is the session's and answered its dial, or was taken on trust where there
  was no route.
- `HandedOutAnswered` (`PeerServers`, with `PeerBounds`: servers are pairs of an
  address and a port): no connected client's address is listed, and whoever is
  handed out is at an address where some server answered. `PeerInv` carries this
  through `Vouched`, the three tables an entry's standing is read from.
- `ListAlwaysSound` (`PeerServers`, with `PeerBounds`): each server handed out has
  answered itself, or another of its host has, obfuscated, from a port that
  `pick_reply_server_port` may take for its own (`MayBeTakenFor`). Nothing is
  assumed of how far a host's servers are apart. `PeerInv` says this of every
  entry that is vouched for, through whichever table.
- `IdsAlwaysGiven` (`Id!Spec => []IdsGiven`), for finitely many users, any
  addresses and any length of the LowID counter (`IdBounds`): an id means what it
  says, a LowID is in range over the counter's wrap and odd only for who set
  Lugdunum's bit, and the permits add up to the probes and checks that hold them.
  Of four ids tried in a row one has the right parity wherever the counter wraps
  (`AllocateGood` and the lemmas after it).
- `ClientsAlwaysTold` (`Greet!Spec => []ClientsTold`), for any visitors, settings
  and edits (`GreetBounds`): a v1 session is told its terms before its first
  offer, is measured by the terms it was told, whatever is edited meanwhile, and
  no callback passes on an address nobody can reach. `GreetInv` says by stage what
  a session has been told (`ToldByStage`) and that its ident is of the policy it
  keeps (`IdentIsPolicy`), and of each inbox which frames can be in it (`Frames`).
- `SeedsAlwaysFollow` (`Seed!Spec => SeedsFollowConfig`), for any seeds and
  numbers of failures and reloads (`SeedBounds`): loops are those of seeds that
  are or were configured at the last tick, and a tick starts and stops what the
  configuration says.
- `ChannelsAlwaysWork` (`Udp!Spec => ChannelsWork`), for any clients, servers,
  exits and numbers of pings (`ChannelBounds`): a crypt ping is answered, and what
  is sent with a key we gave is heard, unless trying the keys could not be paid for
  (`OBF_COLD`, charged to every datagram no cached key opens, pings included:
  `udp.rs:622-630`); an answer can be read by who asked, and a datagram that a
  nearby session's key opens is rescued. A ping that begins like a plain frame is
  dispatched as one (513), and one whose challenge is zero is none (2949). A
  datagram that was decoded and is not answered has its
  key in the cache, unless the sweep took it (`BusyInv`), and no key in use is the
  part of a ping not yet sent (`Made`): without that a later ping's answer could
  be taken for an earlier key.

`OperateProofs` is about three components of `MCOperate`.

- `BotsAlwaysKnown` (`Bot!Spec => []BotsKnown`), for any addresses, actions,
  replacements of the file and restarts (`BotBounds`): whoever is banned or
  throttled has a detection, whatever the sweeps take, and a session of a filtered
  address has been told to look.
- `OwnPairAlwaysGood` (`Tls!Spec => []OwnPairGood`), for any names, validity and
  number of crashes (`TlsBounds`): the certificate and key that are served belong
  together, where the names are not set back to earlier ones, and the certificate
  does not end while it is served, though the daily check may fail on all but the
  last of the days kept for renewing, unless what fails is the load of the pair just
  made. A crash may come between any two of the
  three files written, so the invariant says of each prefix of the writing what
  the files hold.
- `UpdatesAlwaysSound` (`Update!Spec => []UpdatesSound`), for any hashes, any
  published and hand-made lists of them, backups, crashes and edits, one update at
  a time (`UpdateBounds`; with two it is false, section 3). That the file is whole
  says nothing of the temporary one: `DiskGood` says that the two names never
  point at one file, `RunGood` that who is about to rename has written the
  temporary file to its end, and that an update past its check holds a published
  list. What a merge keeps (`MergeFacts`) rests on the lines a recursive function
  picks from a list (`PickedPlaces`, by induction on the length): they come from
  the places of the list where such a line is, in order. A merge panics when a
  hash that is only in the new list is there twice, and then installs nothing;
  where it does not, a hash it adds is added once, and the merged list has all of
  them, so that the next merge adds nothing.

Only model-checked:
- liveness and `ENABLED`, for every component (outside the prover's reach);
- what the `RECURSIVE` operators of `SearchQuery` compute, and with them
  `QueriesAnswered`. A recursive function is provable where its argument is a
  number: so are the tries of `LoginId` and the thinned sequences of
  `SourceAnswers` written;
- of `RecordsSound`, `HistorySound`: the counts of the name history are folds over
  sets of records;
- `PaceHeld`: how far the rounded-down divisions of `OfferPacing` and its cap
  drift apart over a run depends on the rates; no bound that holds for all of
  them is one the code states;
- byte formats (`StreamFaithful`, `MessagesRead`, `PostingsExact`, `CountryExact`):
  the induction there is over the bytes of nested values;
- `ListsApplied` and `FilesServed`, which are liveness.

## 6. Not modelled

- What a term, pattern or normalisation matches in a text (`age_pattern.rs`,
  `jargon.rs`, `layer2_terms.rs`, `nfc.rs`): classification over fixed tables,
  without state; its outcome is a property of a name in `ContentFilter`.
- The memory representation of names and media (`name_interner.rs`,
  `file_name.rs`, `media.rs`), the slab's hash chains and alias tables.
- Ciphers, digests and compression: a ciphertext is its plaintext and its place
  in the keystream, a digest what it is computed from.
- Parsing of `config.toml` and its defaults; a live edit is an action where it
  has an effect.
- The panel's pages, JSON views, statistics, distributions, the estimate of
  different files, and `review_audit.rs`: they read and are not read back.
- The parsing of a search tree's bytes, numeric versions in 0xA3, the cap of 64
  candidates and 8192 entries of the crypt-ping sources.

## 7. Plan

Modelled in this order: the indexes and sessions, admission, publishing and its
limits, how clients and servers are reached, searches and sources, the
operator's side, byte formats. Next:

1. Proofs: the counts of the name history.
2. Compositions: `Publishing` with `Sessions` (a ban across a takeover);
   `ContentFilter` with `SourceAnswers` (a list change under a shared answer at
   lock granularity).
3. Algorithms: the slab's hash chains, the parser of search trees.
