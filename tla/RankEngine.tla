----------------------------- MODULE RankEngine -----------------------------
(***************************************************************************)
(* The graph rank engine (internal/metrics/graphrank.go) and the syncer's  *)
(* persistEvent, which feeds it (internal/relay/sync.go).                  *)
(*                                                                         *)
(* An ingestor is the sync of one client request: storeMu lets it persist  *)
(* one event at a time, but the syncs of other requests run beside it.  A  *)
(* reader is a call of GetUserRank.  Both share the engine's RWMutex.  A   *)
(* section that only touches memory while the mutex is held is one step.   *)
(*                                                                         *)
(* Neo4j is external.  It holds, for each author, the contact list whose   *)
(* FOLLOWS edges are in the graph, and at most one GDS projection, a copy  *)
(* of the graph in memory.  A version counts the commits that changed the  *)
(* graph; PageRank scores are represented by the version they come from.   *)
(***************************************************************************)
EXTENDS Integers, FiniteSets

CONSTANTS
    Ingestors,  \* the syncs that run at the same time
    Readers,    \* the calls of GetUserRank that run at the same time
    Author,     \* authors of contact lists
    MaxStamp,   \* the created_at values of contact lists are 1 .. MaxStamp
    CacheTTL,   \* GraphRankEngineConfig.CacheTTL
    MaxTime,    \* bound on the clock
    RankFaults  \* what may go wrong, a subset of RankFaultKinds

RankFaultKinds == {"txfail", "lostack", "queryfail", "crash", "neo4jrestart"}

ASSUME RankAssumption ==
    /\ MaxStamp \in Nat /\ MaxTime \in Nat
    /\ CacheTTL \in Nat \ {0}
    /\ RankFaults \subseteq RankFaultKinds

Nil  == -1       \* no projection, no rank
Free == "free"   \* nobody holds the mutex

ASSUME FreeAssumption == Free \notin Readers

\* A kind 3 event: its author and created_at.
ContactList == [author: Author, at: 1 .. MaxStamp]

VARIABLES
    now,          \* wall clock
    saved,        \* contact lists in the event database
    graph,        \* contact_list_created_at of each author; 0 for none
    version,      \* the commits that changed the graph
    projection,   \* the version the GDS projection was made from, or Nil
    mutex,        \* the reader that holds g.mu for writing, or Free
    scores,       \* the version g.cache was computed from
    expiresAt,    \* g.cacheExpiresAt; 0 for the zero time
    dirty,        \* g.projectionDirty
    ipc,          \* where each ingestor is in persistEvent
    list,         \* the contact list it persists
    commit,       \* the version its transaction made
    rpc,          \* where each reader is in GetUserRank
    acked,        \* history: the newest version persistEvent is done with
    unanswered,   \* history: the answer to a commit was lost, and the engine has
                  \* not been reset since
    asked,        \* history: acked when each reader asked
    answer        \* the version of each reader's rank; Nil for none

engine    == <<mutex, scores, expiresAt, dirty>>
ingestion == <<ipc, list, commit>>
reading   == <<rpc, asked, answer>>
history   == <<acked, unanswered>>
vars      == <<now, saved, graph, version, projection, engine, ingestion, reading, history>>

cacheIsValid == now < expiresAt

Init ==
    /\ now = 1
    /\ saved = {}
    /\ graph = [a \in Author |-> 0]
    /\ version = 0
    /\ projection \in {Nil, 0}  \* a Neo4j that outlived the last process
    /\ mutex = Free
    /\ scores = 0 /\ expiresAt = 0 /\ dirty = TRUE
    /\ ipc = [i \in Ingestors |-> "idle"]
    /\ list \in [Ingestors -> ContactList]
    /\ commit = [i \in Ingestors |-> 0]
    /\ rpc = [r \in Readers |-> "idle"]
    /\ acked = 0 /\ unanswered = FALSE
    /\ asked = [r \in Readers |-> 0]
    /\ answer = [r \in Readers |-> Nil]

-----------------------------------------------------------------------------
\* Wrong variants of ResetCache: one forgets the projection, one the scores.
ResetScoresOnly == scores' = 0 /\ expiresAt' = 0 /\ UNCHANGED dirty
ResetProjectionOnly == UNCHANGED <<scores, expiresAt>> /\ dirty' = TRUE

\* The engine's memory is as good as new.
ResetCache == scores' = 0 /\ expiresAt' = 0 /\ dirty' = TRUE

\* Wrong variant of Unlock: the mutex stays locked.
KeepLocked == UNCHANGED mutex

Unlock == mutex' = Free

-----------------------------------------------------------------------------
(* persistEvent and IngestEvent *)

\* SaveEvent.  It refuses an event the database has, and then the graph is not
\* told of it either.
Save(i) ==
    /\ ipc[i] = "idle"
    /\ \E l \in ContactList \ saved :
          /\ saved' = saved \cup {l}
          /\ list' = [list EXCEPT ![i] = l]
    /\ ipc' = [ipc EXCEPT ![i] = "read"]
    /\ UNCHANGED <<now, graph, version, projection, engine, commit, reading, history>>

\* The list is newer than the one in the graph.
IsNewer(l) == graph[l.author] < l.at

\* The transaction reads lastSeen and gives up on a list that is not newer.
ReadLastSeen(i) ==
    /\ ipc[i] = "read"
    /\ ipc' = [ipc EXCEPT ![i] =
                 IF IsNewer(list[i]) THEN "write" ELSE "idle"]
    /\ UNCHANGED <<now, saved, graph, version, projection, engine, list, commit,
                   reading, history>>

\* The transaction replaces the author's edges.  Neo4j isolates transactions
\* no further than read committed, so lastSeen may have changed since it was
\* read, and an older list may take the place of a newer one.  The commit's
\* answer may be lost: then the driver gives up, or runs the transaction again.
Commit(i) ==
    /\ ipc[i] = "write"
    /\ graph' = [graph EXCEPT ![list[i].author] = list[i].at]
    /\ version' = version + 1
    /\ \/ /\ ipc' = [ipc EXCEPT ![i] = "invalidate"]
          /\ commit' = [commit EXCEPT ![i] = version + 1]
          /\ UNCHANGED unanswered
       \/ /\ "lostack" \in RankFaults
          /\ \E next \in {"idle", "read"} : ipc' = [ipc EXCEPT ![i] = next]
          /\ unanswered' = TRUE
          /\ UNCHANGED commit
    /\ UNCHANGED <<now, saved, projection, engine, list, reading, acked>>

\* The transaction fails without effect: IngestEvent returns an error, which
\* persistEvent logs, or the driver runs the transaction again.
TxFail(i) ==
    /\ "txfail" \in RankFaults /\ ipc[i] \in {"read", "write"}
    /\ \E next \in {"idle", "read"} : ipc' = [ipc EXCEPT ![i] = next]
    /\ UNCHANGED <<now, saved, graph, version, projection, engine, list, commit,
                   reading, history>>

\* Wrong variant of InvalidateCache: it does not take the mutex.
InvalidateUnlocked(i) ==
    /\ ipc[i] = "invalidate"
    /\ ResetCache
    /\ ipc' = [ipc EXCEPT ![i] = "idle"]
    /\ acked' = IF commit[i] > acked THEN commit[i] ELSE acked
    /\ unanswered' = FALSE
    /\ UNCHANGED <<now, saved, graph, version, projection, mutex, list, commit, reading>>

\* InvalidateCache, once nobody holds the mutex.
InvalidateCache(i) ==
    /\ ipc[i] = "invalidate" /\ mutex = Free
    /\ ResetCache
    /\ ipc' = [ipc EXCEPT ![i] = "idle"]
    /\ acked' = IF commit[i] > acked THEN commit[i] ELSE acked
    /\ unanswered' = FALSE
    /\ UNCHANGED <<now, saved, graph, version, projection, mutex, list, commit, reading>>

-----------------------------------------------------------------------------
(* GetUserRank and rebuildCacheLocked *)

Ask(r) ==
    /\ rpc[r] = "idle"
    /\ rpc' = [rpc EXCEPT ![r] = "check"]
    /\ asked' = [asked EXCEPT ![r] = acked]
    /\ answer' = [answer EXCEPT ![r] = Nil]
    /\ UNCHANGED <<now, saved, graph, version, projection, engine, ingestion, history>>

\* GetUserRank returns a rank computed from version v, or the error Nil.
Reply(r, v) ==
    /\ rpc' = [rpc EXCEPT ![r] = "idle"]
    /\ answer' = [answer EXCEPT ![r] = v]
    /\ UNCHANGED asked

\* The look at the cache under the read lock.
CheckCache(r) ==
    /\ rpc[r] = "check" /\ mutex = Free
    /\ \/ cacheIsValid /\ Reply(r, scores)
       \/ ~cacheIsValid /\ rpc' = [rpc EXCEPT ![r] = "lock"] /\ UNCHANGED <<asked, answer>>
    /\ UNCHANGED <<now, saved, graph, version, projection, engine, ingestion, history>>

\* The second look, under the write lock, which a rebuild keeps.
Lock(r) ==
    /\ rpc[r] = "lock" /\ mutex = Free
    /\ \/ cacheIsValid /\ Reply(r, scores) /\ UNCHANGED mutex
       \/ /\ ~cacheIsValid
          /\ mutex' = r
          /\ rpc' = [rpc EXCEPT ![r] = IF dirty THEN "drop" ELSE "project"]
          /\ UNCHANGED <<asked, answer>>
    /\ UNCHANGED <<now, saved, graph, version, projection, scores, expiresAt, dirty,
                   ingestion, history>>

\* dropProjectionIfExists.
DropProjection(r) ==
    /\ rpc[r] = "drop"
    /\ projection' = Nil
    /\ rpc' = [rpc EXCEPT ![r] = "project"]
    /\ UNCHANGED <<now, saved, graph, version, engine, ingestion, asked, answer, history>>

\* ensureProjection copies the graph, unless there is a projection.
EnsureProjection(r) ==
    /\ rpc[r] = "project"
    /\ projection' = IF projection = Nil THEN version ELSE projection
    /\ rpc' = [rpc EXCEPT ![r] = "stream"]
    /\ UNCHANGED <<now, saved, graph, version, engine, ingestion, asked, answer, history>>

\* Wrong variant of StreamScores: it runs without a projection.
StreamBlindly(r) ==
    /\ rpc[r] = "stream"
    /\ scores' = projection
    /\ expiresAt' = now + CacheTTL
    /\ dirty' = FALSE
    /\ Unlock
    /\ Reply(r, projection)
    /\ UNCHANGED <<now, saved, graph, version, projection, ingestion, history>>

\* PageRank runs on the projection; the engine takes the scores over and
\* unlocks.
StreamScores(r) ==
    /\ rpc[r] = "stream" /\ projection # Nil
    /\ scores' = projection
    /\ expiresAt' = now + CacheTTL
    /\ dirty' = FALSE
    /\ Unlock
    /\ Reply(r, projection)
    /\ UNCHANGED <<now, saved, graph, version, projection, ingestion, history>>

\* A query of the rebuild fails, times out, or is cancelled; its effect on the
\* projection may have taken place.  There is nothing to stream without a
\* projection.
QueryFail(r) ==
    /\ rpc[r] \in {"drop", "project", "stream"}
    /\ "queryfail" \in RankFaults \/ (rpc[r] = "stream" /\ projection = Nil)
    /\ projection' \in {projection}
                       \cup (IF rpc[r] = "drop" THEN {Nil} ELSE {})
                       \cup (IF rpc[r] = "project" /\ projection = Nil THEN {version} ELSE {})
    /\ Unlock
    /\ Reply(r, Nil)
    /\ UNCHANGED <<now, saved, graph, version, scores, expiresAt, dirty, ingestion, history>>

-----------------------------------------------------------------------------
\* The process dies and restarts (NewGraphRankEngine); BoltDB and Neo4j stay.
Crash ==
    /\ "crash" \in RankFaults
    /\ Unlock
    /\ ResetCache
    /\ ipc' = [i \in Ingestors |-> "idle"]
    /\ rpc' = [r \in Readers |-> "idle"]
    /\ unanswered' = FALSE
    /\ UNCHANGED <<now, saved, graph, version, projection, list, commit, asked, answer, acked>>

\* Neo4j restarts: projections live in its memory only.
Neo4jRestart ==
    /\ "neo4jrestart" \in RankFaults /\ projection # Nil
    /\ projection' = Nil
    /\ UNCHANGED <<now, saved, graph, version, engine, ingestion, reading, history>>

Tick ==
    /\ now < MaxTime
    /\ now' = now + 1
    /\ UNCHANGED <<saved, graph, version, projection, engine, ingestion, reading, history>>

IngestStep(i) == ReadLastSeen(i) \/ Commit(i) \/ TxFail(i)

RebuildStep(r) ==
    DropProjection(r) \/ EnsureProjection(r) \/ StreamScores(r) \/ QueryFail(r)

Next ==
    \/ \E i \in Ingestors : Save(i) \/ IngestStep(i) \/ InvalidateCache(i)
    \/ \E r \in Readers : Ask(r) \/ CheckCache(r) \/ Lock(r) \/ RebuildStep(r)
    \/ Crash \/ Neo4jRestart \/ Tick

Spec == Init /\ [][Next]_vars

\* Queries end, by queryTimeout at the latest, and sync.RWMutex starves nobody.
Fairness ==
    /\ \A i \in Ingestors : SF_vars(InvalidateCache(i))
    /\ \A r \in Readers : /\ WF_vars(RebuildStep(r))
                          /\ SF_vars(CheckCache(r)) /\ SF_vars(Lock(r))

FairSpec == Spec /\ Fairness

-----------------------------------------------------------------------------
\* Type invariant of the engine and of what feeds it.
TypeOK ==
    /\ now \in Nat
    /\ saved \subseteq ContactList
    /\ graph \in [Author -> 0 .. MaxStamp]
    /\ version \in Nat
    /\ projection \in Nat \cup {Nil}
    /\ mutex \in Readers \cup {Free}
    /\ scores \in Nat /\ expiresAt \in Nat /\ dirty \in BOOLEAN
    /\ ipc \in [Ingestors -> {"idle", "read", "write", "invalidate"}]
    /\ list \in [Ingestors -> ContactList]
    /\ commit \in [Ingestors -> Nat]
    /\ rpc \in [Readers -> {"idle", "check", "lock", "drop", "project", "stream"}]
    /\ acked \in Nat /\ unanswered \in BOOLEAN
    /\ asked \in [Readers -> Nat]
    /\ answer \in [Readers -> Nat \cup {Nil}]

invalidationPending == \E i \in Ingestors : ipc[i] = "invalidate"

\* What the engine will take for fresh comes from the current graph.
CopiesFollowGraph ==
    /\ cacheIsValid => scores = version
    /\ ~dirty /\ projection # Nil => projection = version

\* The engine takes nothing stale for fresh, unless an invalidation is on its way
\* or the answer to a commit was lost; and what a lost answer has done is undone by
\* the next invalidation, whichever sync it comes from (IngestEvent,
\* InvalidateCache, rebuildCacheLocked).
CacheFollowsGraph == invalidationPending \/ unanswered \/ CopiesFollowGraph

\* A rank is never computed from a graph that lacks a contact list whose
\* persistEvent was done before the rank was asked for (GetUserRank).
RankIsFresh == \A r \in Readers : answer[r] # Nil => asked[r] <= answer[r]

\* An invalidation on its way is applied, however the readers keep the mutex
\* busy (InvalidateCache).
InvalidationLands ==
    \A i \in Ingestors : ipc[i] = "invalidate" ~> ipc[i] # "invalidate"

\* A reader gets an answer or an error, whatever the readers and ingestors it
\* shares the mutex with do (GetUserRank).
RankAnswered == \A r \in Readers : rpc[r] # "idle" ~> rpc[r] = "idle"

\* The engine keeps the promise of RankService.
Service ==
    INSTANCE RankService WITH
        None <- Nil,
        asked <- [r \in Readers |-> IF rpc[r] = "idle" THEN Nil ELSE asked[r]]

ImplementsService == Service!Spec

-----------------------------------------------------------------------------
(* A statement of the documentation that the code does not keep. *)

\* "cache is invalidated when new follow edges are ingested"
\* (docs/architecture/rank-and-signing.md): as long as no invalidation is on its
\* way, the engine takes nothing stale for fresh (IngestEvent, persistEvent).
IngestInvalidates == invalidationPending \/ CopiesFollowGraph
=============================================================================
