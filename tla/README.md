# A TLA+ model of Cipolin

Cipolin is a Nostr relay that computes NIP-85 assertions on demand. A client asks
for assertions about a user, an event or an address; the relay answers at once from
its own event database, fetches more source events from other relays, sends improved
assertions while they arrive, and publishes the last ones to its storage relays.

This directory models the parts of the program where several requests, goroutines
and servers meet, checks them with TLC on small instances, and proves the most
important results for every instance with TLAPS.

## The system

| part | code | state it keeps | operations |
|---|---|---|---|
| handler | `internal/handler/handler.go` | nothing between requests; per request a ticker and the last event count | `HandleNIP85QueryQueryStored`, `stream*Assertions`, `send*Metrics`, `publishToStorageRelays` |
| syncer | `internal/relay/sync.go` | per sync `SyncProgress` (event count, `Done`), a mutex around storing | `Sync*Async`, `persistEvent` |
| fetcher | `internal/fetcher/` | a cursor per relay and filter, in BoltDB | `FetchEvents`, `FetchContinuously`, `FetchAllContinuously` |
| graph rank engine | `internal/metrics/graphrank.go` | the rank cache, its expiry, the dirty mark, an `RWMutex`; the follow graph and the GDS projection in Neo4j | `IngestEvent`, `InvalidateCache`, `GetUserRank` |
| metrics | `internal/metrics/metrics.go` | none | pure functions over the event database |
| relay discovery | `internal/relay/discovery.go` | none | `GetPopularRelays`, `GetUserNIP65Relays`, `MergeRelays` |
| request policy | `internal/requestpolicy/plugin.go` | a child process and its pipes, under a mutex | `EvaluateRequest`, `Close` |
| keys | `internal/keys/keys.go` | the keys derived at start | `GetRequiredFilters`, `SignEventForMetric` |
| assembly | `cmd/cipolin/main.go` | the configuration | the chain of query handlers |

A request runs in a goroutine of the relay library. The handler sends a first set of
assertions, starts a sync, and waits for the client's departure, for the end of the
sync, or for a tick. The sync runs one goroutine per relay and filter; each of
them is a loop of pages that loads, uses and saves its cursor. Every event they find goes
through `persistEvent`: it is saved in BoltDB and, if it is a contact list, merged into
the graph in Neo4j, after which the rank cache is invalidated. The handler, on its
side, asks the engine for a rank each time it computes metrics, so it rebuilds the cache that the
syncs invalidate.

What is hard in this code is sharing: nothing serialises two requests for the same
subject, so cursors are overwritten; the rank cache is read by some requests while
others change the graph; and everything on the way (relay connections, BoltDB,
Neo4j, the client) may fail between two steps. `PROJECT.json` lists these hazards with
the line at which each of them bites and the properties aimed at it.

What makes each part correct:

- fetcher: a cursor never claims an event that was not handed over, and whole answers leave events out only where a second
  has more of them than a page; no page is fetched for nothing; no event is handed over twice until two clients overlap or a save is lost; every session ends.
- rank engine: nothing stale is taken for fresh; a rank takes account of every
  contact list that was done with before the question; one reader rebuilds at a time; no reader and no invalidation starves.
- handler and syncer: what is published counts all that the sync stored, progress that is announced
  is shown, a sync whose client has left stops storing, the `Done` a handler waits for
  has a sync behind it and none at work after it, and every request ends.
- policy plugin: a request is judged by the answer given for it, or by the configured
  failure mode; the plugin and the program stay in step; a call that talks to a plugin has one; no old script judges; every call returns.
- metrics and keys: what a wave counts is what the database held when it was begun or newer, nothing is counted
  twice, and the filters fetched cover the metrics asked for.
- relay discovery: a lookup passes over relays that are down, late or without a list.
- publication: the storage relays agree, and keep nothing older than the second in which the last request computed.

## Modules

| module | models | kind |
|---|---|---|
| `FetchService` | what fetching with a shared cursor promises | abstract specification |
| `Fetcher` | `internal/fetcher`, with the callback and deadline of `internal/relay/sync.go` | state machine, implements `FetchService` |
| `MCFetcher` | instances for TLC | model checking |
| `FetcherProofs` | type correctness, no gaps, boundary IDs, no repetitions, pages that move on, what is left out, refinement | proofs |
| `RankService` | what the rank engine promises | abstract specification |
| `RankEngine` | `internal/metrics/graphrank.go` and `persistEvent` | state machine, implements `RankService` |
| `MCRankEngine` | instances for TLC | model checking |
| `RankEngineProofs` | type correctness, freshness, the holder of the mutex, a cache that follows the graph, refinement | proofs |
| `StreamService` | what a request for assertions promises | abstract specification |
| `Stream` | `internal/handler` and the asynchronous syncs of `internal/relay/sync.go` | state machine, implements `StreamService` |
| `MCStream` | instances for TLC | model checking |
| `StreamProofs` | type correctness, complete publications, late stores, progress, nothing left unshown, the meaning of `Done`, refinement | proofs |
| `PolicyService` | what the request policy promises | abstract specification |
| `PolicyPlugin` | `internal/requestpolicy/plugin.go` with a child process that may do anything | state machine, implements `PolicyService` |
| `MCPolicyPlugin` | an instance for TLC | model checking |
| `PolicyPluginProofs` | type correctness, the process of a call, verdicts, scripts, step, refinement | proofs |
| `MetricKeys` | `internal/keys/keys.go`, and the author filter of `internal/handler` | functions |
| `Metrics` | `internal/metrics/metrics.go` | functions |
| `Discovery` | `internal/relay/discovery.go` | functions |
| `Assertion` | what assertions say and which of them are kept: `internal/handler` and `internal/relay/sync.go` with the three modules above | state machine |
| `MCAssertion` | the scenes for TLC | model checking |
| `MetricsProofs` | lemmas about the active hours | proofs |
| `Induction` | induction and loops over natural numbers | proofs |
| `DiscoveryProofs` | what lookups find, what merging keeps | proofs |
| `AssertionProofs` | type correctness, content of waves, selective sync, lookups, publication | proofs |

The five state machines are checked separately. They meet at narrow places, each of which is
abstracted in the module that does not own it: `Stream` takes from `Fetcher` that fetches hand over events one at a
time and end, `Fetcher` and `RankEngine` model the parts of `persistEvent` that concern
them, `PolicyPlugin` decides about a request before the handler sees it, and `Assertion` opens up what `Stream` keeps
closed: the one look at the database with which `Stream` computes a wave, and the publication it only records.
`Assertion` in turn leaves to `Stream` the loop over subjects and metrics, cancellation, and stores that fail.

### Fetcher

One relay and one filter, hence one cursor; `GenerateCursorID` keeps the cursors of other
relays and filters apart, and the only thing they share is the event database.

| model | code |
|---|---|
| `cursor` | the `FetchCursor` in BoltDB, field by field, without the fields that only name it |
| `pc`, `first`, `deadline`, `dir`, `cur`, `until`, `page`, `todo`, `outcome` | the local variables of one `FetchContinuously` |
| `ctxDone` | the request's context |
| `Start` | the goroutine of `FetchAllContinuously` |
| `LoopHead` | the deadline test, `LoadCursor`, and the checks of `FetchEvents` and of the head of `fetchBackward`/`fetchForward` |
| `ConnectFail`, `ConnectOk` | `RelayConnect` and the choice of `until` |
| `Query` | `QueryEvents` and the removal of boundary IDs |
| `Deliver` | `onEvent` on one event |
| `FinishBackward`, `FinishForward` | the new cursor, `SaveCursor`, and the decision to go on |
| `Cancel`, `Crash`, `Publish`, `Tick` | the client, the process, the relay's other users, the clock |

Loading the cursor and saving it are separate steps, so that sessions overwrite each
other as they do in the program. An answer holds the newest matching events, at most
`FetchLimit` of them, and with the fault `cut` any newest part of that, since
`QueryEvents` cannot tell a broken connection from the end of the stored events. `MaxTime`
bounds the clock; it appears in `Tick` and in `Start`, which only starts sessions whose
deadline the clock can reach. Events are published with the second of their
publication. An event back-dated into a range that was already fetched is
therefore outside the model; the program would never fetch it.

Three histories take part in the properties: `dropped` holds the events `onEvent` was given
and did not store, `skipped` those left out for good by an answer that brought nothing
new, and `alone` is true until two sessions overlap, one fetches forward, a save fails or the process crashes, which are the ways in
which the program comes to fetch a page again. `skipped` is exact about a limitation of the code rather than an excuse: an empty answer
ends the backward fetch, and a page of which every event was seen makes
the boundary move past its second, which loses events when `FetchLimit` or more events
share a second or when the answer was cut. `OnlyFullSeconds` says that whole answers do it in the first way only.

`FetchService` is what the syncs may rely on, without cursors, boundaries, pages and clocks. There is one claim, events that a session which starts from it does not ask the
relay for: those below the newest second that was fetched and above the oldest. The newest second itself is not part of it, although
a backward session does not ask for it again either. A session takes it up (`Begin`), events are handed over or left out in any order, and in the end the session
puts in the place of the claim one that holds all it started from, and of what the relay has only what was handed over or left out (`Claim`);
that the claim may have grown in the meantime does not concern it, so progress can be taken back but never invented. An event is
left out only if answers are cut (`Cut`) or a page of its second was handed over (`PageOf`). `Publish` is possible only for
events that nobody claims. `Fetcher` implements it: the claim is what the persisted cursor claims (`ClaimedBy`), `from` is what the
cursor loaded by each session does.

### RankEngine

| model | code |
|---|---|
| `graph`, `version`, `projection` | Neo4j: `contact_list_created_at` of each author, the number of commits that changed the graph, and the version the GDS projection was made from |
| `mutex`, `scores`, `expiresAt`, `dirty` | `g.mu` held for writing, `g.cache` with `g.maxScore` (as the version they come from), `g.cacheExpiresAt`, `g.projectionDirty` |
| `ipc`, `list`, `commit` | one sync inside `persistEvent` |
| `rpc`, `asked`, `answer` | one call of `GetUserRank`; `asked` is the newest acknowledged version when it began |
| `acked`, `unanswered` | histories: the newest version whose `persistEvent` has invalidated the cache; a commit's answer was lost and the engine has not been reset since |
| `Save`, `ReadLastSeen`, `Commit`, `TxFail`, `InvalidateCache` | `SaveEvent`, the two halves of `IngestEvent`'s transaction, its failure, `InvalidateCache` |
| `Ask`, `CheckCache`, `Lock`, `DropProjection`, `EnsureProjection`, `StreamScores`, `QueryFail` | `GetUserRank` and `rebuildCacheLocked` |

The read lock is held only between two looks at memory, so it needs no variable. The
write lock is kept across three round trips to Neo4j, which are separate steps.
Commits and rebuilds interleave freely; Neo4j isolates
transactions at read committed, so `lastSeen` may be out of date when the edges are written.

`RankService` is the promise: the graph moves through versions, some of them become
acknowledged, a question is answered from a version between the one acknowledged
when it was asked and the current one, or refused (then `ComputeUserMetrics` falls
back to its own heuristic). `RankEngine` implements it, with `asked` hidden while no
question is open.

### Stream

`streamUserAssertions`, `streamEventAssertions` and `streamAddressAssertions` run the same loop over the
same three cases of `select`, `send*Metrics` the same loop over metrics, and the three `Sync*Async` the same
goroutine, with two groups of fetches for users and one for events and addresses. The model has each of
them once; `PROJECT.json` maps its actions to all three.

| model | code |
|---|---|
| `pc`, `subject`, `wave`, `left`, `last` | where `HandleNIP85QueryQueryStored` and its callees are: the pair of kind and `d` tag, `isFinal` or the reason for the wave, the metrics left in `metricNames`, `lastEventCount` |
| `shot` | the map of metrics a wave sends, as the set of events it counts |
| `stopped` | `yield` has returned false |
| `spc`, `count` | the goroutine of a sync and its `SyncProgress`; `closed` is `Done` |
| `gpc`, `held` | a call of `FetchAllContinuously` and the event it has in `onEvent` |
| `Begin`, `NextSubject`, `SkipInvalid`, `Finish` | the loop over subjects |
| `Malformed` | a subject that is no hex, in `MustPubKeyFromHex` or `MustIDFromHex` |
| `Compute`, `Send` | `Compute*Metrics`, and one round of the loop over metrics |
| `StartSync`, `Wait`, `SelectGone`, `SelectDone`, `SelectTick` | the start of the sync and the `select` |
| `SyncBegin`, `Receive`, `Save`, `Count`, `EndFetch`, `CloseDone` | the goroutine of the sync, the parts of `onEvent`, the end of the fetches, `close(progress.Done)` |
| `Cancel`, the third case of `Send` | the client leaves; the consumer of the iterator stops |

`Save` and `Count` are two steps of one holder of `storeMu`, because the handler reads the counter
and the database without that mutex. A sync that is no longer waited for keeps running beside
the sync of the next subject, on the same cancelled context. `select` takes any case that is
ready, as Go does. Calling `yield` after it returned false makes Go's iterators panic, and so it does
in the model.

A subject is tested for its length, or an address for being empty (`SkipInvalid`); one of the right length that is not hex panics, a user in
`GetUserNIP65Relays` before the first wave, an event or the author in an address in the goroutine of the sync (`Malformed`). Such a panic ends the program.
The model stops only the request and lets others and the fetches of earlier subjects go on, so it has more behaviours than the program, not fewer. `Discovery`, which
`Assertion` uses, is about users whose key is hex.

What a metric makes of the events is not part of it, nor are the
goroutines that carry a published assertion to the storage relays: `published` records what they are given. Both
are in `Assertion`.

`StreamService` is what the client and the storage relays may rely on. A subject gets at most one sync in its turn. An assertion counts what the
database has; one that is published is made after the sync, counts all that the sync stored, and all that are published about a subject
in one request agree. Before the request goes on, a client that stays and listens has been shown all that the sync stored, and the
sync is not at work any more. `Stream` implements it: `Place` is the subject a request works on, `Phase` whether its
sync is off, on or over; waves, ticks, groups of fetches, the counter and the mutex are hidden.

`FetchAllContinuously` is abstract here, since all that a group of fetches does to the handler
is to hand over events one at a time and to end.

### PolicyPlugin

| model | code |
|---|---|
| `plugin`, `inbox`, `outbox` | `p.cmd` with its process, `p.stdin` and `p.stdout` with what is in the pipes |
| `modTime`, `script`, `version` | `p.scriptModTime`, the modification time of the script, and the script the process was started from |
| `mutex` | `p.mu` |
| `pc`, `attempt`, `verdict` | one call of `EvaluateRequest`, the failed writes of `requestLocked`, what was returned |
| `late` | goroutines of `readLineWithTimeoutLocked` that have not looked at `p.stdout` yet, although their call is over |
| `Acquire`, `Reload`, `ReloadFail` | `p.mu.Lock`, `reloadIfChangedLocked` |
| `Ready`, `Stat`, `Exec`, `StartFail` | `ensureStartedLocked`, before the first write and after each one that failed |
| `Write`, `WriteBlocks`, `WriteFail`, `GiveUp` | the loop of `requestLocked` |
| `Read`, `ReadEof`, `Timeout`, `LateRead` | the two cases of the `select` and the reading goroutine; `Read` also holds the parsing of the line and the tests of `EvaluateRequest` |
| `Stop`, `Fail`, `Close` | `stopLocked`, `onPluginFailureLocked`, `Close` |
| `Answer`, `Chatter`, `Exit`, `WaitCloses` | the plugin: one line for each it read, a line nobody asked for, its end, and `cmd.Wait`, which closes the pipe |
| `ChangeScript` | an operator who replaces the script, which is taken to raise its modification time |

The verdict is the boolean `EvaluateRequest` returns: `shadowReject` is a rejection that carries no message. An
action `garbage` stands for every line that is empty or no JSON, `unknown` for one with an action the
code does not know. A line to be sent can always be marshalled; if it could not, the code would reject the request even where it fails open. The two looks at the script's time and the start of the process are
separate steps, so the script may change between them. A line is small, but nothing in the code bounds the wait for a
plugin that does not read, hence `WriteBlocks`.

In a goroutine that is late the code reads a field that other goroutines write without a lock between them. The model has the
outcomes this can have: the field is nil and the program panics, or it belongs to the next process, and
one of its lines is lost.

`PolicyService` is what the rest of the program may rely on: requests have their turn one after the other, each is judged once and for
good, and its verdict is something the policy said of that very request, in a version of the script no older than the one in place
when its turn came if the script is watched, or else the verdict of the failure mode. `PolicyPlugin` implements it. The
mutex is the turn; pipes, processes, attempts and late goroutines are hidden, and so are writing, reading and stopping.

### Assertion, with MetricKeys, Metrics and Discovery

A source event is a name with a record: kind, author, time, tags, topics, amount. A filter is a set of kinds
with an author or a tag's letter, which is all that `metrics.go` and `sync.go` use. The same filters stand twice in
the model, as they do in the code: in `Metrics` as the queries of the metrics, in `Assertion` as what a sync asks
relays for. The link between them is the table `MetricFilters` of `MetricKeys`.

| model | code |
|---|---|
| `scene` | what does not change during a run: the subject's kind, the `authors` of the client's filter, the database and the network at the start, what storage relays do to lookups, which of them take publications |
| `pc`, `wave`, `next`, `got`, `graph`, `began` | one `send*Metrics` inside a `stream*Assertions`: the number of the next query of `Compute*Metrics`, the answers so far, whether `GetUserRank` succeeded, `time.Now()` at its beginning |
| `spc`, `peers`, `handed`, `fresh` | the goroutine of the sync: its relays, the events `onEvent` was given, and `EventCount > lastEventCount` |
| `db` | the source events in BoltDB, which all requests share |
| `outbox`, `kept` | the goroutines of `publishToStorageRelays`; what each storage relay keeps |
| `base`, `ended`, `received` | histories: the database when a wave was begun, when the final one was signed, what reached a relay |
| `Begin`, `Update`, `Final` | the three calls of `send*Metrics` in a `stream*Assertions` |
| `Query`, `Rank` | one call of `queryAll`; the end of `ComputeUserMetrics` |
| `SendWave` | `createMetricEvent` for each metric asked for; `publishToStorageRelays` if the wave is final (`Publications`) |
| `SyncBegin`, `Store`, `EndSync` | the choice of relays, `onEvent`, `close(progress.Done)` |
| `Deliver`, `Lose` | one goroutine of `publishToStorageRelays`; the storage relay's choice between two replaceable events |

Each query is a step of its own, since others store events in between. An answer is any set of the newest matching
events up to `QueryLimit`; of events with one time the database may leave out either. Lookups are functions,
evaluated when the sync begins: `Try` is one round of the code's loop, which adds the seconds a storage relay takes to those spent, compares them with the timeout
that all of them share, and keeps the first list; `Lookup` runs the loop, and `FirstKnown` says what it promises without a loop. They do not move the model's clock. Keys are pairs of a kind and a
metric, and an assertion is its key, its request and its `created_at`; events of one key and one time have IDs, of which the
lower one wins, and the model orders them by the request.

The heuristic ranks are kept as the scores of which `CalculateUserRank` and `CalculateEventRank` take the logarithm, in integers
(thousandths and hundredths), and a rank of the graph engine only as having come from it: what it says is `RankEngine`'s
subject. Amounts are integers of the record instead of JSON, 0 where the JSON has none. Left out are an assertion that cannot be created, which the loop over metrics
passes over, and topics made of commas alone, with which the handler would send an event without topics.

## Runs

| run | instance | checks | shows |
|---|---|---|---|
| `fetch_race` | 2 sessions (symmetric), 4 events of which 3 share a second, pages of 2, no TTL, whole answers, saves failing, crashes | `TypeOK`, `GapFree`, `BoundaryIdsOffered`, `OnlyFullSeconds`, `PagesMoveOn`, `ImplementsService` | overwriting each other's cursor loses nothing but what the page size costs, and no page is fetched for nothing; the refinement |
| `fetch_live` | 1 session at a time, 3 events of which 2 share a second, pages of 2 that may be cut, events published before or while sessions run, both directions, TTL 1, all faults | `NeverRepeated`, `SessionEnds` | the boundary IDs do what they are for; no session hangs |
| `fetch_claimed` | 1 session, cancellation | `ClaimedIsStored` is violated | the cursor passes events that were dropped |
| `fetch_fresh` | 1 session, no faults | `FreshFetched` is violated | nothing new is fetched after the beginning was reached |
| `rank_cache` | 2 syncs, 2 readers, 1 author with 2 contact lists, all faults | `TypeOK`, `CacheFollowsGraph`, `RankIsFresh`, `ImplementsService` | nothing stale is taken for fresh unless an answer was lost; the refinement |
| `rank_live` | 1 sync, 2 readers, all faults except a crash | `InvalidationLands`, `RankAnswered` | the mutex starves nobody |
| `rank_lostack` | 1 sync, 1 reader, lost commit answers | `IngestInvalidates` is violated | a stale cache after a lost answer |
| `stream` | 1 request, 1 subject, both groups of fetches, 2 events, up to 2 counted, a client that leaves, a consumer that stops, saves that fail | `TypeOK`, `PublishedIsComplete`, `LateStoresBounded`, `UpdateShowsProgress`, `NothingUnshown`, `RequestEnds`, `StoredIsShown`, `ImplementsService` | what is sent and published keeps up with what is stored, the request ends, and it keeps its promise |
| `stream_cut` | 1 request, 2 subjects, 1 event, cancellation | `FinalMeansSynced` is violated | a sync that was cut short is published as final |
| `policy` | 2 requests, the policy fails closed, a script with 2 versions, all faults | `TypeOK`, `VerdictIsOwn`, `InStep`, `ScriptIsCurrent`, `CallReturns`, `ImplementsService` | no verdict goes astray, no old script judges, every call returns; the refinement |
| `assert` | 290 scenes, most with 1 request and some with 2, 28 source events, queries of at most 5 events | `TypeOK`, `SelectiveIsEnough`, `WaveIsCurrent`, `MentionsCountedOnce`, `ActiveHoursReachOut`, `LookupFindsFirst`, `RelaysAgree`, `LaterSecondWins`, `ArrivedIsKept`, `FinalIsKept` | assertions count what they should, a selective sync is enough, lookups fail over, the storage relays agree |
| `assert_hours` | the scene of a user with many notes, queries of at most 6 events | `ActiveHoursAboveQuarter` is violated | hours with a quarter of the peak's notes or less are active |

The bounds are chosen so that each interesting case occurs: pages smaller than the
number of events, a second with two events of which only one fits on a page, a second with three events, which no page
can hold (`fetch_race`), a second published into while sessions run, time enough for two sessions to follow each
other within and after the TTL; a cache that expires while it is rebuilt and a list that is committed in
every state of a rebuild. Two sessions suffice to overwrite a
cursor, and a third could only overwrite it again; two syncs and two readers
are the least with which commits overtake invalidations and readers meet at the
second look under the lock. Answers are cut in `fetch_live`, one session at a time; in `fetch_race` they are whole, because
`OnlyFullSeconds` is about such answers, and the proofs cover cut ones too. For the safety properties the proofs below remove the bounds.

In `stream` two events and a count of two are enough for a tick
between two stores, an event stored after the last tick, and one group storing while the other has ended. `MaxCount`
stands in the guard of `Receive`. Requests share only the database, in which events are only added, and the
safety properties are proved for any number of them. `NumMetrics` is 1: `StoredIsShown` is
about requests for which at least one metric is left after the author filter, and `NothingUnshown` names the
condition. With one subject the handler leaves it only by ending; that it may go on to another is covered by the proof.

In `policy` two requests are enough for the second to meet whatever the first has left behind: a line or an answer in the
pipes, a goroutine that reads late, a process that was stopped or started from an older script. `FailOpen` is `FALSE`, with which the failure
mode cannot be mistaken for an accepted request. `MaxScript` stands in the guard of
`ChangeScript`; one change suffices to make a process old. A plugin chatters once in its life.

In `assert` the scenes take the place of a free choice of events, whose subsets would be too many. They
ask for each metric of a user alone and for some together, for all metrics, and for keys of another kind; they have
a user with more notes than a query returns, around midnight, with topics that tie; notes that are a
comment and a quote at once; every sequence of up to three storage relays, each of them good, empty, slow, down, or
hanging for longer than the timeout; and two requests whose publications overtake each other, with and without losses, in which the clock may
move by one second between any two steps. `QueryLimit` is 5 instead of 5000, `TopicLimit` 2 instead of 5,
`PopularLimit` 2 instead of 10; `LookupTimeout` is the code's 10. `maxUpdates` stands in the guard of `Update`: one
wave of progress where one request runs, none where two publish, because only the final waves are published. `maxTime` bounds the clock. Two
requests suffice for an assertion to meet an older or a newer one at a storage relay; for all properties but `FinalIsKept` the proofs remove these bounds.

`CHECK_DEADLOCK FALSE` stands in the configurations of `Stream`, `Assertion` and `PolicyPlugin`, where a request runs once and then is
over, and in the fetcher's because the model stops when the
clock has reached its bound and no session can start. The rank runs
check deadlock.

Fairness. `Fetcher`: weak fairness of each session's steps and of the clock. The Go
scheduler runs every goroutine, `RelayConnect` is bounded by `FetchTimeout`, and the relay is
assumed to end its answer or to drop the connection. `RankEngine`: weak fairness of the rebuild's
queries, which `queryTimeout` ends, and strong fairness of the steps that wait
for the mutex, because `sync.RWMutex` lets no waiter starve. `Stream`: weak fairness of the handler
and of the sync's goroutine, strong fairness of the steps under `storeMu`, because
`sync.Mutex` hands itself over to a waiter that starves, and strong fairness of the end of the
fetches, which their deadline forces however many events arrive; that they end is `SessionEnds` of
`Fetcher`. `PolicyPlugin`: weak fairness of a call's steps, among them `Timeout`, since the timer fires, and strong fairness
of `Acquire`, for the reason given for `storeMu`. The plugin has none: it may never
answer. `CallReturns` assumes instead that no call stays at a full pipe for ever. `Assertion`: weak
fairness of a request's own steps, of the beginning and the end of its sync, which its deadline forces, and of
deliveries; none for stores, losses and the clock. Clients, publications by others and
faults have no fairness.

Each module holds a few operators marked as wrong variants, such as
`BelowBoundary`, `InvalidateUnlocked` or `CloseDoneEarly`. No definition uses them. `PROJECT.json` names, for every
property that holds, one of them that breaks it when it takes the place of the right one,
which shows that the property can fail on the instance it is checked on.

## Disagreements between the code and its documentation

- `ClaimedIsStored`: `sync-and-storage.md` says that fetched source events are persisted. When
  the client leaves during a page, `onEvent` drops the rest while the cursor moves past it, so
  these events are not fetched by later requests either.
- `FreshFetched`: `just-in-time.md` promises fresh deltas during the request. All syncs
  fetch backward, and a cursor that has reached the beginning answers every later
  request with nothing.
- `IngestInvalidates`: `rank-and-signing.md` says that the cache
  is invalidated when new edges are ingested. If the answer to a commit
  is lost, `IngestEvent` reports an error, or `false` after the driver's repetition finds
  the list already there, and nothing is invalidated until the cache expires. Even then the
  projection is not renewed, because it was not marked dirty.
- `FinalMeansSynced`: `request-lifecycle.md` says that the final metrics are published when the sync completes.
  A sync that the departure of the client has cut short, or not let begin at all, closes `Done` as well, and the
  handler's `select` may take that case although the context is cancelled. It then publishes assertions that count
  what happened to be there.
- `ActiveHoursAboveQuarter`: the comment at `metrics.go:358` says that the active hours grow from the peak over hours with more than 25% of
  its activity. The code divides the peak by four, rounds down and takes hours that reach it, so with a peak of up to three notes
  hours without any are active. `ActiveHoursReachOut` says what holds: an hour the comment means, up to eleven away from the peak, is never missed.

Two more have no run. `rank-and-signing.md:59-63` says that relays are asked only for what is requested, and nothing else is computed. An author filter that
names no key of the kind makes a sync fetch every type of event, although no assertion will be sent; the syncs of events and addresses fetch all that there is about
them, whatever the filter names; and a zap average makes the sync fetch posts, although the days it divides by are those of the zaps. The model does the
same, and `SelectiveIsEnough` only says that a sync never fetches too little. And `request-lifecycle.md:69-75` says that a subject is validated as 64
characters of hex and ignored if it is not, while the code panics if it has 64 others (`Malformed`); `RequestEnds` counts that as an end.

## Proofs

Checked by TLAPS for all values of the constants that satisfy the modules' assumptions.

`FetcherProofs`:

- `TypeCorrect`: `Spec => []TypeOK`.
- `NoGaps`: `Spec => []GapFree` for sessions that fetch backward, the only direction
  the program uses, any number of them, with any faults. `GapFree` speaks of the persisted
  cursor only and is not inductive: what a session will save depends on the cursor it
  loaded, its page, and what is still to be delivered. The invariant
  `GapInv` adds, for each session, that the loaded cursor is itself good
  (`GoodCursor`: it covers what it claims, and its boundary IDs were offered)
  and, once the page is there (`GoodSession`), that everything the cursor claims after
  that page is offered, skipped, or still to be delivered. Stale cursors are harmless because
  `offered` and `skipped` only grow, and because new events are
  never older than the clock.
- `BoundaryIdsWereOffered`: `Spec => []BoundaryIdsOffered`, from the same invariant.
- `NothingTwice`: `Spec => NeverRepeated` for sessions that fetch backward, any number of them, with any faults. The property itself
  speaks of the time before two sessions overlap, a save fails or the process crashes (`alone`), since each of these makes the program fetch a page
  again, which is harmless because `SaveEvent` refuses what it has. Until then answers may be cut, clients leave, stores fail, and events be published at any time. The invariant `OnlyBehind` says that what was handed over lies behind the boundary of the cursor
  (`Behind`: in a newer second, or in the boundary's own with its ID noted), or is part of the page
  that is being delivered. `BackwardCursorBehind` is the core: the cursor made from a page has behind it all of
  the page and all that the old one had behind it, also when the boundary stays in the same second.

and for sessions that fetch backward, any number of them, with any faults:

- `SavesMoveOn`: `Spec => PagesMoveOn`. `FinishAdvances` takes the three ways in which a page ends (new events, no events, only seen
  ones): the cursor that is recorded is good, claims all that the one it came from claimed, and is further down (`Advances`). When the boundary stays in
  its second, one of the new events has to belong to that second, which is where the answer's order
  and the exact removal of the boundary IDs are needed.
- `OnlyFullSecondsLose`: `Spec => []OnlyFullSeconds`. `SeenInv` says that boundary IDs belong to the boundary's second, so
  a whole answer of which every event was seen is a page of that second (`LeftOutOfFull`).
- `FetcherImplementsService`: `Spec => ImplementsService`, each step mapped to a step or a stutter of `FetchService`. `FinishAdvances` gives
  a session that its claim holds what it started from, `GapInv` that nothing else is claimed of what the relay has, `SeenInv` that only events
  of the relay are handed over, and that no cursor, persisted or loaded, claims the second of the clock makes room for a publication.

`RankEngineProofs`:

- `TypeCorrect`: `Spec => []TypeOK`.
- `RanksAreFresh`: `Spec => []RankIsFresh`, with any faults. The invariant `FreshInv`
  says that acknowledged versions are bounded by the cache whenever it is valid and by the
  projection whenever it is not marked dirty, that a rebuild past its first step has a
  projection, if there is one, at least as new as what was acknowledged, and that each reader's question is
  not newer than what is acknowledged. It needs the mutex: only its holder is in a
  rebuild, and an invalidation cannot come between projecting and
  clearing the mark.
- `OneRebuilds`: `Spec => []MutexHeld`, the part of `FreshInv` on which the rest of it stands: `Lock` is the only way into a rebuild and each of its ends unlocks.
- `EngineImplementsService`: `Spec => Service!Spec`, each step mapped to a step or a stutter of `RankService`.
- `NothingStale`: `Spec => []CacheFollowsGraph`, with any faults. Its invariant `FollowInv` says which commits
  are still on their way to an invalidation; one whose answer was lost is not, and `unanswered` remembers it until the next reset.

`StreamProofs`, for any number of requests, subjects and groups of fetches and any faults:

- `TypeCorrect`: `Spec => []TypeOK`.
- `PublishedAreComplete`: `Spec => []PublishedIsComplete`. The property relates the histories of two
  goroutines and needs the protocol between them: `PublishInv` says that what a sync stored is in
  the database, that its groups are at work only while it runs (so that nothing is stored after `Done`), that
  the syncs of later subjects are off (so that no sync starts twice), and that a final wave belongs
  to a sync that has ended and, once computed, counts all that it stored.
- `LateStoresAreBounded`: `Spec => []LateStoresBounded`. `LateInv` says that a group which was let through the
  test of the context has not stored anything late yet.
- `UpdatesShowProgress`: `Spec => []UpdateShowsProgress`. `ProgressInv` says that whatever is counted, or about
  to be, is in the database or failed to get there, and that this survives from the tick to the wave.
- `LeavesNothingUnshown`: `Spec => []NothingUnshown`, which is about a subject for ever after the handler has left it. `LeftIsOver` says that the sync of a
  subject that was left, by a request whose client is still there, is off or closed, so it stores nothing more; that it had stored nothing that the final wave does not count is
  `PublishInv`, and that the client was shown what a wave counts is `ShotIsShown`.
- `DoneIsMeant`: `Spec => []DoneMeansOver`. That a group works only while `Done` is open is part of `PublishInv`. That there is a sync behind the
  wait is `Started`: each wave after the first, and the wait between them, belong to a subject whose sync was started, and
  `wave` is `"initial"` again when the handler goes on to the next subject.
- `StreamImplementsService`: `Spec => ImplementsService`, each step mapped to a step or a stutter of `StreamService`. Besides the invariants above it needs `WaveInv`: a
  wave that is being sent counts only what the database has, and nothing but the final wave of a subject has been published, so that the assertions of that wave agree.

`PolicyPluginProofs`, for any number of requests, both failure modes, commands that are scripts or not, and any faults:

- `TypeCorrect`: `Spec => []TypeOK`. `attempt` stays below three because of `AttemptInv`: a call that failed to write has no
  process until it has started one, and the one it starts after the second failure is stopped without being written to. That no
  other call starts one in between is `MutexInv`: only the holder of the mutex is at work.
- `ProcessIsThere`: `Spec => []HasProcess`. Whoever stops a process holds the mutex or finds it free (`MutexInv`), so nobody else is writing to it or reading from
  it, and goes to a place where it needs none; `Ready` and `Exec` are the only ways to writing, and both leave a process there.
- `VerdictsAreOwn`: `Spec => []VerdictIsOwn`. `SaidInv` says that whatever is in the plugin's output was said.
- `ScriptsAreCurrent`: `Spec => []ScriptIsCurrent`. `ScriptInv` says that the process is at least as new as `modTime`, and at least
  as new as the script was at the turn of every call that has compared the two. That the code looks at the time before it starts the process, and not
  after it, is what makes this inductive.
- `StaysInStep`: `Spec => []InStep`. `StepInv` says that a process that was never out of step has at most one line
  or one answer in its pipes, and that only while a call reads; it needs `MutexInv`.
- `PolicyImplementsService`: `Spec => ImplementsService`, each step mapped to a step or a stutter of `PolicyService`. Besides the invariants above it needs that no call
  at work or waiting has a verdict (`Unjudged`), so that none is judged twice, and that a process comes from a version of the
  script that exists (`RunsScript`).

`AssertionProofs`, for any source events, scenes, requests, relays and limits:

- `TypeCorrect`: `Spec => []TypeOK`.
- `SelectiveSyncIsEnough`: `Spec => []SelectiveIsEnough`. The proof goes through the tables: what a metric's value depends on
  (`MetricNeedsAnswers`), that each of these queries is covered by the types `MetricFilters` names for the metric (`NeedsOfMetrics`), and
  that the sync asks relays for the same events as the query (`SyncAsksQueries`). `FinalInv` says that all that the sync was handed
  was in the database when the final wave was begun; with `AnsweredInv`, by which an answer is current, a sync
  of everything would add nothing that a needed query returns.
- `WavesAreCurrent`: `Spec => []WaveIsCurrent`. `AnsweredInv` says of each query already asked that the property holds for it;
  answers stay good because the database only grows.
- `NoMentionTwice`: `Spec => []MentionsCountedOnce`, from the same invariant and the test for quotes.
- `RelaysConverge`: `Spec => []RelaysAgree`. `KeptInv` says that what a relay keeps covers what it received: one assertion
  for each key, and nothing received beats it. Two covers of one set are equal (`CoverIsUnique`), since `Replaces` is a total order on the assertions of one key. `GivenInv` says
  that without losses what one relay has received or will receive is what each of them has or will.
- `LaterSecondIsKept`: `Spec => []LaterSecondWins`, for a request that began in a later second than another one ended. In one second the lower
  ID decides, and the earlier assertion may stay. `SignedInv` says that a request's assertions are on their way only
  when it is done, and bear the time at which its final wave ended, which is not before it began.
- `ArrivedAreKept`: `Spec => []ArrivedIsKept`. `DoneInv` says that, without losses, every storage relay has received each assertion of a
  request that is done, or will; with `KeptInv` it keeps that assertion or one that beats it, and with `SignedInv` the time of what beats it
  is that of a later signature.
- `LookupsFindFirst`: `Spec => []LookupFindsFirst`, from type correctness and `LookupIsFirst` of `DiscoveryProofs`.
- `HoursReachOut`: `Spec => []ActiveHoursReachOut`, from type correctness and the lemmas of `MetricsProofs`. Without an induction, that one of 24
  numbers is the greatest is shown by joining parts of the day (`PeakExists`), and the extremes of a set of hours come from it
  (`HoursHaveMax`, `HoursHaveMin`). `ReachGoesOn` says that a side of the range goes on at least as far as the hours with more than a quarter of the peak do, and `HourCountsType`
  assumes that the source events are finite and have integers as times.

`DiscoveryProofs` and `Induction`, for any storage relays and lists: a lookup gives what `FirstKnown` says (`LookupIsFirst`), and

- `MergedOnce`: `MergeRelays` gives the relays of both lists, each of them once, so that a fetch runs one goroutine for each cursor.

Both are about loops, which the modules write as recursive functions. `Induction` has what that takes: a set that holds 0 and with
each number the next holds all of them (`SetInduction`), and a loop over a sequence has a result (`LoopExists`). They are stated for sets and
functions, not for formulas, and follow from the well-foundedness of the natural numbers.

`MutexHeld`, `DoneMeansOver` and `HasProcess` are only proved: they are stated beside their proofs, and no run checks them.

Only model-checked: the liveness properties `SessionEnds`, `InvalidationLands`, `RankAnswered`, `RequestEnds`, `StoredIsShown`,
`CallReturns` and `FinalIsKept`, which rest on fairness and `ENABLED`, out of reach of the prover. Their safety halves are proved where
there is one: `NothingUnshown` for `StoredIsShown`, `ArrivedIsKept` for `FinalIsKept`, `MutexHeld` for `RankAnswered` and `InvalidationLands` (nobody waits for a mutex that
nobody will unlock), `DoneMeansOver` for `RequestEnds`, `HasProcess` for `CallReturns`, and `PagesMoveOn` for `SessionEnds` (no page leads back to where it began). What the properties leave open is
open in the program: two sessions that overlap do fetch the same page twice, and `NeverRepeated` ends there; a lost commit answer leaves the cache stale, and
`CacheFollowsGraph` ends there until the next invalidation, as do the acknowledged versions of `RankIsFresh`. Two syncs that ingest lists of one author can
leave the older one in the graph if Neo4j lets their transactions overlap, as they do in `rank_cache`; no property says otherwise.

Panics are outcomes of the model and of no property: after `yield` returned false, for a subject that is not hex, and in a goroutine of the plugin
engine that reads late. `RequestEnds` and `CallReturns` count them as ends. The timeout that storage relays share stands in `FirstKnown`
as it does in the code, so `LookupFindsFirst` would not object to it.

## Not modelled

- `cmd/cipolin/main.go`: it reads the environment, creates the parts and puts handlers into chains: policies that
  reject, then the NIP-85 handler, then the event database for everything else. It keeps no state, and each
  chain is what khatru, the relay library, makes of it.
- In `graphrank.go`, the PageRank computation, which Neo4j does, `normalizeRank` and `extractFollowTargets`. In `metrics.go`, the logarithm of
  the heuristic ranks and the parsing of amounts.
- Time in lookups: `Discovery` computes it, but a request's clock stands still meanwhile.
- The error of `LoadCursor`: it ends a session without a change, as a failed connection does, and has no outcome of its own.
- `DeleteCursor`, `ListCursors`, and the blocking variants `Sync*` and `generate*Assertions`, which nothing calls.
- The replacement of contact lists and other replaceable events in the program's own event database, a library.
- Key derivation and signing, the hashing of cursor IDs, JSON and log output, HTTP routes, container files, the sample policy script.

What could still be added: a proof that the waves of `Assertion` keep the promise of `StreamService` too, with relays that answer or not in
place of the sync's histories.
