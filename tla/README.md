# Packet Web Analyzer: a TLA+ model of the program

This directory models the analyser in `src/`: TLA+ modules translated from the Go code, TLC configurations that check them on small
instances, and TLAPS proofs of what holds for instances of any size.
`PROJECT.json` lists the runs, the lines of code behind each definition, one
broken variant of the code per property, the hazards, the findings and the theorems.

    tlc -workers 2 -config Stats.cfg MCStatsStore      # one run
    tlapm LiveFeedProofs.tla                           # one proof module, minutes at most

## 1. Inventory of the system

One Go process. One goroutine captures packets; one ticks the seconds; two belong
to the alert engine; `net/http` starts one per request. They share one in-memory
store, three SQLite files (session, alerts, users; a fourth for the audit log) and
one exporter.

    capture ──Add──> stats.Store ──channels──> SSE handler (one per viewer)
    ticker ──TickSecond──^   │                  ├─ enrich.Service ─ geo.Lookup, resolver
                             │                  ├─ db.DB.Insert
                             │                  └─ export.Exporter.WritePacket
                             └─channel──> alerts.Engine ── alerts.Store, webhooks
    requests ── RequireRole (token) ── handlers ── Snapshot, db, exporter, users, rules, audit

| Component | State | Operations | What is hard | Correct when |
|---|---|---|---|---|
| Store and fan-out, `internal/stats` | counters, two 30-second windows, list of subscriber channels, one mutex | `Add`, `TickSecond`, `Subscribe`, `Unsubscribe`, `Snapshot` | `Add` sends outside of the mutex to a copied list while subscribers leave | counts agree with the traffic; a subscriber sees packets in order, misses one only for its own full buffer, and never disturbs another |
| Live feed, `handlers.ssePackets` | per request: a channel, the packet in hand, the context | subscribe, select over packets, heartbeat and context, deferred unsubscribe | departure at any point, panics in the middle, writes by every viewer to shared storage | a handler owns its channel; a departed viewer is forgotten; what it stores is what it received |
| Alert engine, `internal/alerts` | packet buffer, rule table | `ingest`, `evaluate`, create and delete of rules | an evaluation lasts as long as its webhooks; rules, packets and the clock move on | no false alarm, cooldowns kept, deleted rules silent |
| Session database, `internal/db` | tables `packets` and `quarantine`, a pool of one connection | `Insert`, `QuarantineFlagged`, `DeleteAllFlagged`, queries | a transaction of two statements that may fail, beside inserts and other requests | each flagged packet is copied exactly once, atomically |
| Accounts, `internal/auth`, `userstore`, `audit` | user table, tokens in browsers, audit log | login, logout, create, role, delete, password | a token stays valid for 24 h whatever happens to its account | ids keep their meaning; the last admin is not lost among present admins |
| Enrichment, `internal/enrich` | cache of host names, running lookups | `cachedHostLookup`, sweep | late, empty or missing answers against a 50 ms timeout | a name is the resolver's and fresh; a packet is never held up for ever |
| Geo lookup, `internal/geo` | database handle, mock flag | `Locate` | a nil handle in mock mode | a panic costs one feed at most |
| Exporter, `internal/export`, exports page | recording file and writer, a directory | start, stop, `WritePacket`, CSV, JSON, download, list, delete | names that last a second, files deleted, emptied and read while they are written | a recording holds what was written to it; a finished file stays as it is; a download hands over the file as declared, or a beginning of it |
| Capture, `internal/capture`, filter form | device handle, mock flag, filter, metrics | `Start`, `SetFilter`, read loop, mock loop, `parseAdvancedPacket` | filters set beside the opening and the end of the device; flags read without the mutex; counters in several steps | the filter told is the filter applied; metrics and store agree |
| Deep packet inspection, `internal/dpi` | none | parsers of payloads | fixed distances and lengths at the edge; two parsers for one payload that differ in what they take for a host line | of a payload of a known shape the host and the number reported are those in it, the server name is up to a byte (section 3) |
| Dashboard, `Snapshot`, `apiConnections`, `apiGeoIPs` | none of its own | table, graph, map of one snapshot | cuts to the top 6 and 25 | the parts agree with one another |
| Server, `main.go` | open databases, timers | start, write deadline, shutdown in 10 s | feeds do not end by themselves; closings while handlers work | nothing works on a closed database; a signal ends the process |
| Metrics, threat page, pages, deployment | – | – | – | see section 5 |

## 2. Modules

| Module | Models | Used by |
|---|---|---|
| `StatsStore` | `stats.Store` with its callers as they use it | `LiveFeed`, `Dashboard` (EXTENDS) |
| `LossyBroadcast` | abstract: an append-only log read by members, each given increasing positions | implemented by `StatsStore` |
| `Dashboard` | `Snapshot` and the handlers that derive a table, a graph and a map | – |
| `LiveFeed` | the SSE handlers, the engine's subscription, storage; composes `StatsStore` | – |
| `AlertEngine` | `Engine` with the rule table and its admin handlers | – |
| `PacketDb` | `db.DB` and the review requests | – |
| `FlaggedEvidence` | abstract: quarantine as one step | implemented by `PacketDb` |
| `Accounts` | users, tokens, login, admin handlers, audit entries, restart | – |
| `HostCache` | `cachedHostLookup`, its cache, goroutines and timeout | – |
| `Exporter` | `export.Exporter`, the directory, the export and download handlers | `Server` (EXTENDS) |
| `Recorder` | abstract: a tape from start to stop | implemented by `Exporter` |
| `Server` | `main`, the timers of `http.Server`, feeds as requests; composes `Exporter` | – |
| `Dpi` | the parsers, as operators on a frame | `Capture` (EXTENDS) |
| `Capture` | `Capturer`, the filter form, the metrics of the capture | – |
| `LiveFeedProofs` (with the store and the dashboard), `PacketDbProofs`, `AccountsProofs`, `AlertEngineProofs`, `HostCacheProofs`, `ServerProofs` (with the exporter), `CaptureProofs` | theorems and proofs | – |
| `Sums` | lemmas on least elements and on sums over finite sets | `LiveFeedProofs`, `CaptureProofs` (EXTENDS) |
| `MC*` | instances for TLC: constants only | – |

Operators marked *Variant* just before a definition are broken on purpose: what a plausible
mistake in that code would look like. No specification uses them.

### StatsStore
A packet is its position in `captured`, so "in order" and "twice" are about
numbers. The variables keep the names of the Go struct (`subscribers`, and in the
record `agg` the counters and windows); `subs` is the local copy of `Add`. What the
code does under `mu` is one action: `Add(k)`, `TickSecond`, `Subscribe`,
`Unsubscribe`. The send loop after `mu.Unlock()` is one action per channel:
`Deliver` when there is room, `Drop` for the `default` branch, `SendOnClosed` for
the panic Go raises for a send on a closed channel. `Receive` is the channel's
owner. There is one capture goroutine, so `Add` waits for `subs` to be empty. A 0 in a
count map stands for a missing key.

### Dashboard
Operators on a state of the store, since `Snapshot` holds the read lock: the two
lists cut to 6 and 25 with ties in any order (Go's map order), the nodes
`apiConnections` sums from the list, the addresses `apiGeoIPs` places: it passes over private ones and
those `Locate` returns an error for, which are all but `Placed`.

### LiveFeed
A handler is named by its channel; a viewer that reconnects is another handler.
`pc` follows one turn: `select` → `insert` → `record` → `select`, or `leaving` →
`gone`. `Take` includes enrichment and the write to the client, whose error the
code ignores; `Insert` and `WritePacket` may fail unnoticed, as their errors are
ignored. `Depart` is what `net/http` does when the client goes or the write
deadline passes. `EnrichPanics` is `Locate` with a nil reader under `MOCK_GEO`;
`net/http` recovers and deferred calls run (`Cleanup`). Here a write's deadline may pass
at any time; `Server` has the timers.

### AlertEngine
`Second` moves the clock and fills the ticker's one slot. `evaluate` is split where
other goroutines can be seen: `ListRules` (the scan of `List` returns rows in the order of
their ids), `CopyPackets`, then per rule `PassOver`
or `Fire` and, when the webhook has returned, `Stamp`. `serial` numbers rules in
order of creation, to tell a rule from one that took its id.

### PacketDb
`conn` is the only connection of the pool; `tx` the tables as the transaction sees
them. `Begin`, `Copy`, `Mark`, `Commit` are the statements of `QuarantineFlagged`,
`Fail` any early return with its deferred `Rollback`. `Restart` loses requests and
what was not committed. The queries for pages read only and are left out.

### Accounts
A hash stands for the password it is of, `NoHash` for the empty string
`HashPassword` returns with an error. `Lookup` and `Grant` are the two halves of
`login`: the row is read, bcrypt takes its time, the token is issued for the row
read. `Claims(b)` is what `RequireRole("admin")` lets through: the cookie alone, no
look at the table. Names are taken case-folded.

### HostCache
`Miss` starts a goroutine and `waiting` is the caller's `select`; `Receive` and
`Expires` are its two cases, both possible once both are ready. An answer is put in
a channel with a buffer of one whether or not anyone waits. The time the code
itself takes is nought: `Tick` waits until no caller can move.

### Exporter and Recorder
`dir` maps names to inodes, `content` inodes to what they hold, so that `os.Remove` can
take a name away from an open file and `os.Create` empty one that others have open. A
name is its kind and the second it was created in (`timestamp`). `StartPCAP`,
`StopPCAP` and `WritePacket` hold the mutex and are one step; a record is written in two
writes, so a failed one may leave it `Torn`. A CSV or JSON export is
`Query`, `CreateFile`, `WriteOut` as often as the buffer fills, `Report`, with
`FailExport` for each early return. A download is `Open`, `Stat`, which declares the length, or
`StatFails`, whose dropped error makes the handler panic, and a `Copy` per chunk. `BreakOff` is any
failure of `io.Copy`, at any time: the client goes, the network breaks, the file cannot be read;
`GiveUp` is the return that drops the error. `Recorder` hides files, offsets and names.

The page serves and deletes any base name in `./exports`, which also holds the databases. The model
has the names of exports only: what becomes of SQLite when its file is removed under it is outside of it.

### Server
`Boot` does the steps of `main` one by one in their order, `Close` the deferred calls
backwards. `Signal`, then `Drained` or `Forced`: `Shutdown` returns when nothing is at
work, or gives up and `log.Fatal` ends the process without a deferred call. A feed is
seen as a request with an age: from `WriteTimeout` on its writes fail, and a failed
write cancels its context. `Beat` is its heartbeat, `Leave` its client going away. A download
copies nothing from `WriteTimeout` on (`Proceed`), and may be broken off before. Time is whole seconds
and does not pass by a timer that has expired.

### Dpi and Capture
A frame is the class of its payload with what the parsers look at; bytes are only
there for TLS, digits for cards, lines for HTTP. The two parsers of HTTP disagree on what is a
host: `dpi.go:126` trims the key, wants it to be `Host` and takes the last one of the head;
`capture.go:201` wants the line to start with `host:` in any spelling and takes the first one of the
payload, body included; and only the former wants the verb in capitals. So a line has the name of
its key, whether it is spelled `Host` (`proper`) and whether there are blanks around it (`padded`). A card is a run of 13 to 16 digits, which the
pattern finds, weighted from the right. `Parse` is `parseAdvancedPacket`: the
flag is drawn, the packet looked into, the flag drawn again. The capture loop is
`CountPacket`, `CountBytes`, `AddPacket`; `DeviceEnds` closes the handle and `CaptureEnds` is the
deferred `Dec` behind it (the packets the device dropped, a counter of their own, are left out). `mock.raced` says that `c.mock` was set beside
the mutex: `SetFilter` may then read either value (`MockRead`). `FilterCrashes` stands
for libpcap with a handle that `Close` has freed.

## 3. Runs

Twelve: eight pass, four show a disagreement between the code and what the
repository says of it. The type invariants, and `CountersLead` of the capture loop, are not among the properties of the runs:
they are proved.

| Run | Checks | Bounds, and why they are enough |
|---|---|---|
| `Stats` | `SubscribersOpen`, `OrderedDelivery`, `NoGap`, `CountersAgree`, `RollingWindow`, `GraphBalances`, `DashboardAgrees`; `AddReturns`, `IsLossyBroadcast` | two channels of capacity 1, three packets of two kinds, windows of 1 second, lists cut to 1: full buffers, cuts and ties occur, a channel leaves while the other is sent to. All but `AddReturns` is proved for all sizes |
| `StatsPanic` | `NeverPanics` is violated | two channels, two packets |
| `Live` | `ChannelOwned`, `PanicNeedsDeparture`, `StoredAsReceived`, `RowsPerViewer`; `DepartedForgotten` | the engine and one viewer, three packets, a channel of capacity 1, private and public addresses with `MOCK_GEO` set, so that the panic of `Enrich` occurs: packets before, while and after the viewer is there, a departure at every step of its handler. `Stats` has two subscribers; here the first four are proved for any number of viewers |
| `Alerts` | `BufferRecent`, `CooldownSpacing`, `DeletedIsSilent`, `LastTriggeredIsOwn`, `NoFalseAlarm`, `EvaluationEnds` | a buffer cut from 2 to 1, three packets, two rules that differ in threshold, window and cooldown, five instants: two evaluations, restarts, a webhook that times out, a rule that is replaced while its webhook is called |
| `Db` | `QuarantinedOnce`, `CopyIffMarked`, `CopyOfThatPacket`, `ToldHowMany`, `AllServed`, `QuarantineIsAtomic` | three requests, three rows, two flows: two quarantines with a delete between them |
| `Accounts` | `SessionKeepsIdentity`, `LastAdminKept` | two browsers (symmetry), two names, three rows ever: an account deleted and made again, two admins demoting each other, failing writes, restarts |
| `AccountsRoles` | `RoleTakesEffect` is violated | two rows |
| `Hosts` | `FreshHosts`, `KeptUntilExpiry`, `NothingHangs` | two callers, two addresses, two lookups, five instants, entries that live for two: lookups of one address overlap and answer late, entries expire and are swept |
| `Server` | `ServedOpen`, `KeptWhole`, `DownloadSound`, `IsRecorder`; `SignalEnds` | a feed, one request at once besides the recording's and the deletions, three calls in all, two seconds, two starts, timers of one second each: a file opened, deleted, emptied or grown while it is downloaded, a download broken off at every chunk or stopped by the write deadline, two files of one name, a heartbeat, a signal that drains and one that is forced, a crash and a restart. Two requests at once are left to the proofs, which are for any number of requests, calls, packets and seconds; `SignalEnds` is not proved |
| `Heartbeat` | `HeartbeatKeepsAlive` is violated | one feed, two seconds, a write deadline of 1 and a heartbeat of 2 for 15 and 25 |
| `Capture` | `FilterTold`, `HostRead`, `NameNear`, `CardRead` | two packets out of fifteen frames at the edges of the parsers: a host in the head and one in the body, one of another spelling or with blanks before it, in the URL, behind a verb in lower case, in a response; a server name found whole, without its first letter, with its length before it; numbers of odd and even length that pass the check and do not. Two requests (symmetry; no temporal property is checked here), two expressions that compile and one that does not. All four are proved, for any number of requests and payloads of any length |
| `CaptureFlags` | `FlaggedInspected` is violated | one packet |

Deadlock is not checked in the runs of the store, the feed, the server and the capture:
their bounded histories end, and the process may have died. In the others it is checked.

### Fairness
* `StatsStore`: `WF(Send)` only. The capture goroutine is never blocked in its
  loop, so the scheduler runs it. Nothing is assumed of any subscriber, which
  is the point of `AddReturns`.
* `LiveFeed`: weak fairness of each step of a handler and of the engine's receive.
  `Return` is strongly fair: a `select` with several ready cases picks one at
  random, so a done context is not passed over for ever although packets keep
  coming. No one is assumed to come or go.
* `AlertEngine`: `WF(Evaluate)`; the HTTP client's 5 s timeout ends each call.
  The clock needs no fairness: it cannot pass the end of a call.
* `PacketDb`: weak fairness of a request that holds the connection; strong
  fairness of getting it: `database/sql` hands a freed connection to those that
  wait. Inserts and failures are not fair.
* `HostCache`: weak fairness of the clock and of the callers. Nothing is assumed
  of the resolver; the second half of `NothingHangs` has its giving up as a premise.
* `Server`: weak fairness of the clock, of the end of `Shutdown`, of the deferred calls
  and of heartbeats, which are timers and `main` itself. Nothing is assumed of requests
  and feeds: `SignalEnds` holds although they may stay for ever.
* `Accounts`, `Capture`: safety only.

### Findings
1. `StatsPanic`. `Add` sends to a copied list after unlocking and `Unsubscribe`
   closes a channel at once: a viewer that leaves between the two makes the send
   panic in the capture goroutine, which has no `recover`; the process dies
   (`stats.go:144`, `:174`). `PanicNeedsDeparture`, proved, says that this is the
   only way, a handler that panicked for a packet (`MOCK_GEO`) counting as one that left.
2. `AccountsRoles`. The page promises that role changes take effect on the next
   request; the role in the token holds for 24 hours.
3. `CaptureFlags`. The forensics are done for packets of one draw, the flag reported is
   that of a second draw (`capture.go:171`, `:249`): most flagged packets go out
   without intel, and the feed's handler makes up a placeholder for them (`handlers.go:209`).
4. `Heartbeat`. The heartbeat "keeps connection alive" (`handlers.go:195`) and comes every 25
   seconds; the write deadline of 15 seconds counts from the request (`main.go:113`). A feed
   whose client is there is cut by its first heartbeat, if no packet comes after the deadline before,
   and its page connects again.

Met while reading, described here and not run:
* With `MOCK_GEO=true` no reader is opened, yet `Locate` uses it for an address it takes to be
  public (`geo.go:64`); the mock capture makes such addresses (`capture.go:311`). The feed ends;
  `Live` runs with it, and the handler still unsubscribes.
* A reset to a password of more than 72 bytes stores an empty hash and replies
  "Password updated" (`handlers.go:817`): nobody can log in to that account.
* The comment at `enrich.go:56` says 50 ms per unique address; an address without a name is
  waited for again with every packet (`enrich.go:85`).
* `parseTLS` takes the first two zeros for the type of the extension and looks for a
  name from ten bytes behind them on, where its second letter is: the first is lost
  (`dpi.go:189`). When two zeros come earlier, a name of 32 to 126 bytes is read with its own
  length for a first letter, since that byte is printable then. Both are within what `NameNear`
  allows, and the run has a frame for each. gopacket decodes port 443 itself, so no payload of that port gets there.
* `calculateThreatSeverity` returns "High" under the comment "MEDIUM" (`capture.go:276`).
* `metrics.FilterChanges` is registered and never incremented. In mock mode a filter is stored
  and "applied" is replied for any expression.
* Once the device is gone the handle stays set: the next filter is given to a handle that is
  closed (`capture.go:82`, `:125`).
* `ListFiles` drops the error of `Info` (`export.go:149`): a file deleted meanwhile makes
  the page's handler panic, which `net/http` recovers.
* `session.db` is opened before `export.New` makes its directory (`main.go:44`, `:51`): started where
  there is no `./exports` the process ends each time. The image creates it.
* Two exports of a kind in one second share a name, the second empties the first
  (`export.go:170`); `KeptWhole` and `DownloadSound` are about files alone in their second.
* The exports page counts "packets stored in session DB" (`handlers.go:510`), but every viewer inserts a row of its own for each packet,
  and none is stored without a viewer (`RowsPerViewer` bounds it).
* `templates/alerts.html:60` calls the cooldown "Min time between alerts".
  `UpdateLastTriggered` drops its error (`store.go:116`) and runs after the webhook, so
  a failed update or a crash in between lets the next evaluation call again;
  `CooldownSpacing` is stated for calls whose instant was recorded.
* `templates/alerts.html:51` says of a threshold "Trigger if > this". The
  cutoff is taken per rule, after the webhooks before it (up to 5 s each), over a copy of
  the packets from the start: a burst can fall out of a later rule's window. A threshold of 10000
  or more is never exceeded, since `BufferRecent` holds.
* `templates/flagged.html:140` speaks of moving packets to quarantine; `db.go:184` copies and
  marks them. `db.go:105` declares a foreign key, which SQLite does not enforce
  unless asked to: copies outlive their packets.
* A logout is never logged: its route has no middleware that would put claims in
  its context (`handlers.go:64`, `:665`).
* `capture.go:144` starts from "TCP", so packets of no known layer count as TCP.

## 4. Proofs

Every safety invariant, action property and refinement that a passing run checks is proved by TLAPS,
for any number of subscribers, viewers, requests, packets, rows, files, addresses and timers, and for payloads of any length:

| Theorem | Says | Argument |
|---|---|---|
| `TypeCorrect`, `WindowsExact`, `ListIsOpen`, `DeliveryOrdered`, `NothingGoesMissing` (`LiveFeedProofs`) | the type invariant, `RollingWindow`, `SubscribersOpen`, `OrderedDelivery`, `NoGap` | one inductive invariant, below |
| `StoreIsLossyBroadcast` | the store implements `LossyBroadcast` | each step maps to `Publish`, `Join`, `Give`, `Leave` or a stutter, using the invariant |
| `CountersAreCounts`, `GraphAlwaysBalances`, `DashboardAlwaysAgrees`, `SnapshotsExist` | `CountersAgree`, `GraphBalances`, `DashboardAgrees`; that there is a snapshot to say it of | sums over finite sets, below |
| `FeedUsesStore`, `FeedDelivers` | a behaviour of the feed is one of the store: what is proved of the store holds in it | each feed action conjoins a store action or leaves `vars` alone |
| `FeedChannelOwned`, `FeedPanicNeedsDeparture`, `FeedTypesHold`, `FeedStoredAsReceived`, `FeedRowsPerViewer` | `ChannelOwned`, `PanicNeedsDeparture`, `LiveTypeOK`, `StoredAsReceived`, `RowsPerViewer` | invariants on `pc`, `status` and the copied list; on the packet in hand |
| `DbTypeCorrect`, `DbQuarantinedOnce`, `DbCopyIffMarked`, `DbCopyOfThatPacket`, `DbToldHowMany` (`PacketDbProofs`) | the safety properties of the database | invariants of the committed and of the transaction's tables |
| `DbQuarantineIsAtomic` | `PacketDb` implements `FlaggedEvidence` | only `Commit` changes copies; `tx` is known at each `pc` |
| `TypesHold`, `BufferIsRecent`, `DeletedRulesAreSilent`, `CooldownsAreKept`, `InstantsAreOwn`, `AlarmsAreTrue`, `RulesAreCalledOnce` (`AlertEngineProofs`) | types, the five safety properties of the engine, and that no evaluation calls a rule twice | rules known by serial, below |
| `TypesHold`, `IdentitiesKept`, `LastAdminIsKept` (`AccountsProofs`) | types, `SessionKeepsIdentity`, `LastAdminKept` | an id belongs to one name for ever, as ids grow |
| `TypesHold`, `HostsAreFresh`, `EntriesAreKept` (`HostCacheProofs`) | types, `FreshHosts`, `KeptUntilExpiry` | each entry and each answer in a channel goes back to what the resolver said |
| `TypesHold`, `ServerExports`, `FilesAreKept`, `ExporterRecords`, `ServedFromOpen`, `DownloadsAreSound` (`ServerProofs`) | types of the exporter; the server behaves as the exporter; `KeptWhole`, `IsRecorder`, `ServedOpen`, `DownloadSound` | below |
| `CountersLeadHolds`, `FilterToldHolds`, `HostsAreRead`, `NamesAreNear`, `CardsAreRead` (`CaptureProofs`) | `CountersLead`, `FilterTold`, `HostRead`, `NameNear`, `CardRead` | the packet in hand; below |

**The store.** `OrderedDelivery` and `NoGap` are not inductive. A subscriber that has
not been offered the packet in flight must not have it yet, and one that has been
offered it must have it or have missed it; so the invariant relates the rest of the
copied list to what each channel has reached. The copied list holds a channel at
most once and only channels that joined before the packet in flight; the listed
channels are exactly the open ones, each once, which is needed for `Unsubscribe` to
remove all of a channel. `RollingWindow` is inductive with the lengths of the windows
and of `marks`, since the totals at a boundary differ by the running counts.

**Counters and dashboard.** The counters are cardinalities of sets of positions and sums over
functions, which the models write with the folds of the community modules. What a fold computes is
proved without an induction theorem (those take a predicate as a parameter, which no prover at hand
can supply): `Sums` proves that a set of numbers has a least element (`LeastNumber`) and a set of finite sets one
that falls out of it whichever element it loses (`SmallestSet`), and argues by the least counterexample. A sum is a function on all subsets of a
domain that adds one element at a time (`IsSum`); there is exactly one, the fold is it (`FoldIsSum`), it splits, is
renamed along an injection and grows by one where one summand does. `KeysAddUp`, that protocols, sources and connections each
add up to the total, is then inductive. A top list names keys once each (`TopListed`), so that the
sources shown are part of the sum of all and the links of one address part of those counted for it; it exists because
whoever counts least can be put at the end (`RankedMore`).

**The feed.** A channel is open exactly while its handler is past `Connect` and before
the end of `Cleanup`, the engine's is never closed, and a closed channel in the copied
list belongs to a handler whose context is done, or which took a packet that made `Enrich` panic (`Derailed`); that stays
so, since what was taken stays taken and packets keep their places. The rows of a packet map one to one to viewers that joined before it, as by `StoredAsReceived` none
stores it twice, and only finitely many viewers ever came (`MadeFinite`).

**The database.** A transaction is open exactly while its request holds the connection;
the transaction's tables are the committed ones before `Copy`, differ by the copies of
the pending rows before `Mark` and satisfy the invariant of the committed tables before
`Commit`. Nobody changes the committed tables meanwhile, since that needs the
connection; ids in copies are below `nextId`, so an id is not given out again. `ToldHowMany` holds
because a request about to commit has counted the pending rows of the committed table (`Told`), which
are those it copied and which nobody can have changed meanwhile.

**The engine.** A row, a rule on the list and a call are tied by the serial number of
their rule, which no other rule ever has. `CooldownSpacing` needs that the instant
in the row, and the one in the copy an evaluation works on, is no earlier than any recorded call of
that rule: nobody but the one evaluation changes it. `NoFalseAlarm` needs that the copy is
a piece of what was ingested without a hole, so that what is counted in it is counted in
the whole. Within an evaluation ids grow along the list, so the rules called come before those still to
judge: `RulesAreCalledOnce` is what remains of the cooldown for a call that was not recorded.

**The exporter.** A file is kept because whoever writes to an inode is the only one: the
recording and the exports under way have inodes of their own unless two files were
created under one name. The invariant says so (`Distinct`, `OneUser`, `Linked`), that a name was
created that is in use, and that the recording's file, whatever happened to its name,
holds a header and then as many items as its offset says (`TapeKept`). This last part needs no
premise: a recording is never disturbed, since a second file of its kind would have to be a second
recording.

**Downloads.** What was sent begins what was declared while the file stays as it is: the inode read is in use under
one name only (`ReadUnderName`), so only a writer of that name touches it, and if the name was created once that
writer appends behind what the reader has (`ReadFromStart`). Between `Open` and `Stat` nothing was
sent and nothing declared, so the file may be anything by then. The first part of `DownloadSound` holds
wherever a download is broken off. The second says what a handler that saw no error has handed over;
it speaks of the length, which is what `Content-Length` promises, as
a file of a name used twice may be emptied and filled to the same bytes again while it is copied.
Which downloads are cut short is not restricted: a client that goes away may have any part.

**The server.** `ServedOpen` rests on the order of `main`: nothing is at work in any phase
but up and draining, and all is open in these.

**The filter.** `applied = filter` needs that the filter is still empty when the device comes up;
the entries of success, and those still to be logged, are counted against the
changes, each step moving one from one side to the other.

**Inspection.** A packet from the device is the parse of a frame (`ParsedInv`). For `HostRead`,
the head of a request is a beginning of its lines, so its only host line, spelled as usual, is the last of the head for `dpi` and the first
of the payload for `capture`; with another spelling or blanks before it the two differ, which the premise rules out. For `CardRead`, the weights are the standard's
(`CountsAreWeights`), the check sums them modulo 10, and a digit changes exactly one weight,
to another value modulo 10 (`WeightTells`). For `NameNear` the bytes of a ClientHello are
known (`HelloBytes`), none of the eight from the extension on starts a name, and `Min` of the
candidates is found by where the first zeros are (`NameTaken`): the name, the name without its first letter, or the
name with its length before it, each of which is near it (`TakenIsNear`). The premises are what the proof asked for: printable bytes, no
printable byte behind the name, nothing before it that looks like a name.

The assumptions are those named in the modules: kinds of packets are records with a
natural size, capacities and windows are positive, the engine's channel is a channel,
`None` is no request, forms hold integers, sets that are counted are finite (addresses and protocol
names among them, `NamesAssumption`), `NoHost` is no host; payloads are made of bytes, digits and lines, and a ClientHello is in
a handshake record with a name of less than 250 bytes, so that its lengths fit into the low byte (`FramesAssumption`).
TLC evaluates each of them.

**Only model-checked.** Liveness under fairness, which is beyond the prover: `AddReturns`,
`DepartedForgotten`, `AllServed`, `EvaluationEnds`, `NothingHangs`, `SignalEnds`. The runs that expect a violation
show what is not so.

**What some properties do not say.**
* `SubscribersOpen` is about the list. It holds while `Add` still has a closed channel in its copy; `NeverPanics`, which
  is violated, is about that.
* `LastAdminKept` is about admins who are present: it permits the last admin to be taken away by a session whose own
  account is no admin any more, which is what `AccountsRoles` shows to be possible.
* `EvaluationEnds` assumes that each webhook call ends, as the client's 5 s timeout makes it; it would not notice that timeout gone.
* `KeptWhole` and the first part of `DownloadSound` are about files alone in their second;
  `NoFalseAlarm` does not say that
  there is an alarm.

## 5. Not modelled

* The data behind a packet (addresses, protocols, payloads) beyond what the
  properties tell apart; vendor, system and country tables; HTML.
* The Go memory model: what the code protects by a mutex is atomic here. `Capturer.mock` is
  written outside of it and may be read either way; `Capturer.handle` is written under it.
* SQLite and `database/sql`: a statement happens or fails as a whole, a transaction
  not committed is gone after a crash. Every file is of one process.
* What `dpi` reports beside names and cards: previews, header lists, bodies, DNS answers,
  the TLS version, the patterns for addresses and keys. They fill fields nothing relates to.
* The metrics of logins and requests: one increment each, never read by the program.
* The page handlers, queries and the listing of files, which only read; the threat page,
  which no route leads to; templates and scripts.

## 6. What could follow

1. Theorems of the abstract specifications (`Recorder`, `FlaggedEvidence`) carried over by the refinements.
2. `Server` together with `StatsStore`: feeds that are cut by the deadline and subscribe
   again, in place of `Depart` at any time.
3. The memory model: `handle` read by the loop while `SetFilter` uses it, `libpcap`'s own state.
