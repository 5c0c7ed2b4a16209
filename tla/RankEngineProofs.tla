-------------------------- MODULE RankEngineProofs --------------------------
(***************************************************************************)
(* Proofs about RankEngine: type correctness, that ranks are fresh, that   *)
(* the mutex is held by the one reader that rebuilds, that the engine      *)
(* implements RankService, and that it takes nothing stale for fresh       *)
(* except after a commit that went unanswered.                             *)
(***************************************************************************)
EXTENDS RankEngine, TLAPS

-----------------------------------------------------------------------------
(* Type correctness. *)

\* Every step keeps the types.
LEMMA TypeStep == TypeOK /\ [Next]_vars => TypeOK'
<1>. SUFFICES ASSUME TypeOK, [Next]_vars PROVE TypeOK'
  OBVIOUS
<1>. USE RankAssumption DEF TypeOK, engine, ingestion, reading, history
<1>1. ASSUME NEW i \in Ingestors, Save(i) PROVE TypeOK'
  BY <1>1 DEF Save
<1>2. ASSUME NEW i \in Ingestors, ReadLastSeen(i) \/ TxFail(i) PROVE TypeOK'
  BY <1>2 DEF ReadLastSeen, TxFail
<1>3. ASSUME NEW i \in Ingestors, Commit(i) PROVE TypeOK'
  <2>1. list[i].author \in Author /\ list[i].at \in 0 .. MaxStamp
    BY DEF ContactList
  <2>2. unanswered' \in BOOLEAN
    BY <1>3 DEF Commit
  <2>3. /\ graph' \in [Author -> 0 .. MaxStamp] /\ version' \in Nat
        /\ commit' \in [Ingestors -> Nat]
        /\ ipc' \in [Ingestors -> {"idle", "read", "write", "invalidate"}]
    BY <1>3, <2>1 DEF Commit
  <2>. QED BY <1>3, <2>2, <2>3 DEF Commit
<1>4. ASSUME NEW i \in Ingestors, InvalidateCache(i) PROVE TypeOK'
  BY <1>4 DEF InvalidateCache, ResetCache
<1>5. ASSUME NEW r \in Readers, Ask(r) PROVE TypeOK'
  BY <1>5 DEF Ask
<1>6. ASSUME NEW r \in Readers, CheckCache(r) PROVE TypeOK'
  <2>1. CASE cacheIsValid /\ Reply(r, scores)
    BY <1>6, <2>1 DEF CheckCache, Reply
  <2>2. CASE rpc' = [rpc EXCEPT ![r] = "lock"] /\ UNCHANGED <<asked, answer>>
    BY <1>6, <2>2 DEF CheckCache
  <2>. QED BY <1>6, <2>1, <2>2 DEF CheckCache
<1>7. ASSUME NEW r \in Readers, Lock(r) PROVE TypeOK'
  <2>1. CASE Reply(r, scores) /\ UNCHANGED mutex
    BY <1>7, <2>1 DEF Lock, Reply
  <2>2. CASE /\ mutex' = r /\ UNCHANGED <<asked, answer>>
             /\ rpc' = [rpc EXCEPT ![r] = IF dirty THEN "drop" ELSE "project"]
    BY <1>7, <2>2 DEF Lock
  <2>. QED BY <1>7, <2>1, <2>2 DEF Lock
<1>8. ASSUME NEW r \in Readers, DropProjection(r) \/ EnsureProjection(r) PROVE TypeOK'
  BY <1>8 DEF DropProjection, EnsureProjection
<1>9. ASSUME NEW r \in Readers, StreamScores(r) PROVE TypeOK'
  <2>1. projection \in Nat /\ now + CacheTTL \in Nat
    BY <1>9 DEF StreamScores
  <2>. QED BY <1>9, <2>1 DEF StreamScores, Reply, Unlock
<1>10. ASSUME NEW r \in Readers, QueryFail(r) PROVE TypeOK'
  BY <1>10 DEF QueryFail, Reply, Unlock
<1>11. CASE Crash
  BY <1>11 DEF Crash, ResetCache, Unlock
<1>13. CASE Neo4jRestart \/ Tick
  BY <1>13 DEF Neo4jRestart, Tick
<1>12. CASE UNCHANGED vars
  BY <1>12 DEF vars
<1>. QED
  BY <1>1, <1>2, <1>3, <1>4, <1>5, <1>6, <1>7, <1>8, <1>9, <1>10, <1>11, <1>12,
     <1>13 DEF Next, IngestStep, RebuildStep

LEMMA TypeInit == Init => TypeOK
<1>1. Init => unanswered \in BOOLEAN /\ dirty \in BOOLEAN
  BY DEF Init
<1>. QED BY <1>1, RankAssumption DEF Init, TypeOK

\* Every variable keeps its type, whatever the constants (graphrank.go).
THEOREM TypeCorrect == Spec => []TypeOK
  BY TypeInit, TypeStep, PTL DEF Spec

-----------------------------------------------------------------------------
(* Freshness. *)

\* What was acknowledged is part of the graph.
AckedIsCommitted == acked <= version /\ \A i \in Ingestors : commit[i] <= version

\* The cache and the projection come from a version the graph had.
CopiesAreReal == projection <= version /\ scores <= version

\* What the engine will take for fresh holds everything acknowledged: a valid
\* cache, a projection not marked dirty, and one a rebuild is about to use.
CopiesAreFresh ==
    /\ cacheIsValid => acked <= scores
    /\ ~dirty /\ projection # Nil => acked <= projection
    /\ \A r \in Readers :
          rpc[r] \in {"project", "stream"} /\ projection # Nil => acked <= projection

\* A question in progress was asked before the acknowledgements that followed,
\* and has no answer yet.
AskedEarlier ==
    \A r \in Readers : rpc[r] # "idle" => asked[r] <= acked /\ answer[r] = Nil

\* Whoever holds the mutex is rebuilding the cache, and nobody else is: neither
\* do two rebuilds meet on the one projection, nor does an answer, an error or a
\* crash leave the mutex locked, for which everybody would wait (GetUserRank,
\* rebuildCacheLocked).
MutexHeld ==
    \A r \in Readers : mutex = r <=> rpc[r] \in {"drop", "project", "stream"}

FreshInv ==
    /\ TypeOK /\ MutexHeld /\ AckedIsCommitted /\ CopiesAreReal /\ CopiesAreFresh
    /\ AskedEarlier /\ RankIsFresh

LEMMA FreshInit == Init => FreshInv
  BY TypeInit, RankAssumption, FreeAssumption
     DEF Init, FreshInv, MutexHeld, AckedIsCommitted, CopiesAreReal, CopiesAreFresh,
         AskedEarlier, RankIsFresh, cacheIsValid, Nil, TypeOK

\* Every step keeps the invariant: acknowledging a version needs the mutex, so
\* no rebuild is under way, and leaves neither a valid cache nor a clean
\* projection behind.
LEMMA FreshStep == FreshInv /\ [Next]_vars => FreshInv'
<1>. SUFFICES ASSUME FreshInv, [Next]_vars PROVE FreshInv'
  OBVIOUS
<1>0. TypeOK /\ TypeOK'
  BY TypeStep DEF FreshInv
<1>. USE <1>0, FreeAssumption
     DEF FreshInv, MutexHeld, AckedIsCommitted, CopiesAreReal, CopiesAreFresh,
         AskedEarlier, RankIsFresh, cacheIsValid, Nil,
         engine, ingestion, reading, history
<1>1. ASSUME NEW i \in Ingestors, Save(i) \/ ReadLastSeen(i) \/ TxFail(i) PROVE FreshInv'
  BY <1>1 DEF Save, ReadLastSeen, TxFail, TypeOK
<1>3. ASSUME NEW i \in Ingestors, Commit(i) PROVE FreshInv'
  BY <1>3 DEF Commit, TypeOK
<1>4. ASSUME NEW i \in Ingestors, InvalidateCache(i) PROVE FreshInv'
  BY <1>4 DEF InvalidateCache, ResetCache, TypeOK
<1>5. ASSUME NEW r \in Readers, Ask(r) PROVE FreshInv'
  BY <1>5 DEF Ask, TypeOK
<1>6. ASSUME NEW r \in Readers, CheckCache(r) PROVE FreshInv'
  BY <1>6 DEF CheckCache, Reply, TypeOK
<1>7. ASSUME NEW r \in Readers, Lock(r) PROVE FreshInv'
  BY <1>7 DEF Lock, Reply, TypeOK
<1>8. ASSUME NEW r \in Readers, DropProjection(r) \/ EnsureProjection(r) PROVE FreshInv'
  BY <1>8 DEF DropProjection, EnsureProjection, TypeOK
<1>9. ASSUME NEW r \in Readers, StreamScores(r) PROVE FreshInv'
  BY <1>9, RankAssumption DEF StreamScores, Reply, Unlock, TypeOK
<1>10. ASSUME NEW r \in Readers, QueryFail(r) PROVE FreshInv'
  BY <1>10 DEF QueryFail, Reply, Unlock, TypeOK
<1>11. CASE Crash
  BY <1>11 DEF Crash, ResetCache, Unlock, TypeOK
<1>12. CASE Neo4jRestart \/ Tick
  BY <1>12 DEF Neo4jRestart, Tick, TypeOK
<1>13. CASE UNCHANGED vars
  BY <1>13 DEF vars
<1>. QED
  BY <1>1, <1>3, <1>4, <1>5, <1>6, <1>7, <1>8, <1>9, <1>10, <1>11, <1>12, <1>13
     DEF Next, IngestStep, RebuildStep

LEMMA FreshInvHolds == Spec => []FreshInv
  BY FreshInit, FreshStep, PTL DEF Spec

\* No rank lacks a contact list that was persisted before it was asked for
\* (GetUserRank, InvalidateCache).
THEOREM RanksAreFresh == Spec => []RankIsFresh
  BY FreshInvHolds, PTL DEF FreshInv

\* One reader at a time rebuilds the cache, and the mutex is held for as long as
\* it does and no longer (GetUserRank, rebuildCacheLocked).
THEOREM OneRebuilds == Spec => []MutexHeld
  BY FreshInvHolds, PTL DEF FreshInv

-----------------------------------------------------------------------------
(* The engine implements RankService. *)

LEMMA ServiceInit == Init => Service!Init
  BY DEF Init, Service!Init

\* Every step of the engine is a step of the service or changes nothing the
\* service sees.
LEMMA ServiceStep ==
  FreshInv /\ [Next]_vars => [Service!Next]_(Service!serviceVars)
<1>. SUFFICES ASSUME FreshInv, [Next]_vars
              PROVE  Service!Next \/ UNCHANGED Service!serviceVars
  OBVIOUS
<1>. DEFINE asking(r) == IF rpc[r] = "idle" THEN Nil ELSE asked[r]
<1>. USE DEF history
<1>0. TypeOK /\ RankIsFresh /\ AskedEarlier /\ CopiesAreReal /\ CopiesAreFresh
      /\ AckedIsCommitted
  BY DEF FreshInv
<1>1. ASSUME UNCHANGED <<version, acked, asked, answer, rpc>>
      PROVE  UNCHANGED Service!serviceVars
  BY <1>1 DEF Service!serviceVars
<1>2. ASSUME NEW i \in Ingestors, Save(i) \/ ReadLastSeen(i) \/ TxFail(i)
      PROVE  UNCHANGED Service!serviceVars
  BY <1>1, <1>2 DEF Save, ReadLastSeen, TxFail, reading
<1>3. ASSUME NEW i \in Ingestors, Commit(i) PROVE Service!Update
  BY <1>3 DEF Commit, Service!Update, reading
<1>4. ASSUME NEW i \in Ingestors, InvalidateCache(i) PROVE Service!Acknowledge
  <2>1. acked' \in acked .. version
    BY <1>0, <1>4 DEF InvalidateCache, TypeOK, AckedIsCommitted
  <2>. QED BY <1>4, <2>1 DEF InvalidateCache, Service!Acknowledge, reading
<1>5. ASSUME NEW r \in Readers, Ask(r) PROVE Service!Ask(r)
  BY <1>0, <1>5 DEF Ask, Service!Ask, TypeOK
<1>6. ASSUME NEW r \in Readers, NEW v, v \in asked[r] .. version, rpc[r] # "idle",
             Reply(r, v), UNCHANGED <<version, acked>>
      PROVE  Service!Answer(r)
  <2>1. asked[r] \in Nat /\ asked[r] # Nil
    BY <1>0 DEF TypeOK, Nil
  <2>. QED BY <1>0, <1>6, <2>1 DEF Reply, Service!Answer, TypeOK
<1>7. ASSUME NEW r \in Readers, rpc[r] # "idle", rpc'[r] # "idle",
             \A q \in Readers \ {r} : rpc'[q] = rpc[q],
             UNCHANGED <<version, acked, asked, answer>>
      PROVE  UNCHANGED Service!serviceVars
  BY <1>7 DEF Service!serviceVars
<1>8. ASSUME NEW r \in Readers, CheckCache(r) \/ Lock(r)
      PROVE  Service!Answer(r) \/ UNCHANGED Service!serviceVars
  <2>1. CASE cacheIsValid /\ Reply(r, scores)
    <3>1. scores \in asked[r] .. version
      BY <1>0, <1>8, <2>1 DEF CheckCache, Lock, TypeOK, CopiesAreReal, CopiesAreFresh, AskedEarlier
    <3>. QED BY <1>6, <1>8, <2>1, <3>1 DEF CheckCache, Lock
  <2>2. CASE rpc' = [rpc EXCEPT ![r] = "lock"] /\ CheckCache(r)
    BY <1>0, <1>7, <2>2 DEF CheckCache, Reply, TypeOK
  <2>3. CASE ~cacheIsValid /\ Lock(r)
    BY <1>0, <1>7, <2>3 DEF Lock, TypeOK
  <2>. QED BY <1>8, <2>1, <2>2, <2>3 DEF CheckCache, Lock
<1>9. ASSUME NEW r \in Readers, DropProjection(r) \/ EnsureProjection(r)
      PROVE  UNCHANGED Service!serviceVars
  BY <1>0, <1>7, <1>9 DEF DropProjection, EnsureProjection, TypeOK
<1>10. ASSUME NEW r \in Readers, StreamScores(r) PROVE Service!Answer(r)
  <2>1. projection \in asked[r] .. version
    BY <1>0, <1>10 DEF StreamScores, TypeOK, CopiesAreReal, CopiesAreFresh, AskedEarlier
  <2>. QED BY <1>6, <1>10, <2>1 DEF StreamScores
<1>11. ASSUME NEW r \in Readers, QueryFail(r) PROVE Service!Next
  <2>1. rpc[r] # "idle" /\ rpc' = [rpc EXCEPT ![r] = "idle"]
        /\ UNCHANGED <<version, acked, asked>>
    BY <1>11 DEF QueryFail, Reply, Unlock
  <2>2. answer' = answer
    BY <1>0, <1>11 DEF QueryFail, Reply, AskedEarlier, TypeOK
  <2>3. asked[r] # Nil
    BY <1>0 DEF TypeOK, Nil
  <2>4. Service!Refuse({r})
    BY <1>0, <2>1, <2>2, <2>3 DEF Service!Refuse, TypeOK
  <2>. QED BY <2>4 DEF Service!Next
<1>12. CASE Crash
  <2>1. PICK R \in SUBSET Readers : R = {r \in Readers : rpc[r] # "idle"}
    OBVIOUS
  <2>2. CASE R = {}
    BY <1>12, <2>1, <2>2 DEF Crash, Service!serviceVars
  <2>3. CASE R # {}
    <3>1. Service!Refuse(R)
      BY <1>0, <1>12, <2>1, <2>3 DEF Crash, Service!Refuse, TypeOK, Nil
    <3>. QED BY <3>1 DEF Service!Next
  <2>. QED BY <2>2, <2>3
<1>13. CASE Neo4jRestart \/ Tick \/ UNCHANGED vars
  BY <1>1, <1>13 DEF Neo4jRestart, Tick, vars, reading
<1>. QED
  BY <1>2, <1>3, <1>4, <1>5, <1>8, <1>9, <1>10, <1>11, <1>12, <1>13
     DEF Next, IngestStep, RebuildStep, Service!Next

\* Every behaviour of the engine is one of the service: each rank comes from a
\* version between the last acknowledged when it was asked for and the current
\* one (GetUserRank, IngestEvent, InvalidateCache).
THEOREM EngineImplementsService == Spec => ImplementsService
<1>1. Init /\ [][Next]_vars /\ []FreshInv => Service!Spec
  BY ServiceInit, ServiceStep, PTL DEF Service!Spec
<1>. QED BY <1>1, FreshInvHolds DEF Spec, ImplementsService

-----------------------------------------------------------------------------
(* Nothing stale is taken for fresh. *)

\* A rebuild that is about to use a projection uses one of the current graph.
RebuildFollowsGraph ==
    \/ invalidationPending \/ unanswered
    \/ \A r \in Readers :
          rpc[r] \in {"project", "stream"} /\ projection # Nil => projection = version

FollowInv == TypeOK /\ MutexHeld /\ CacheFollowsGraph /\ RebuildFollowsGraph

\* Every step keeps the invariant: a commit leaves an invalidation pending or goes
\* unanswered, and an invalidation leaves nothing behind that could be stale.
LEMMA FollowStep == FreshInv /\ FollowInv /\ [Next]_vars => FollowInv'
<1>. SUFFICES ASSUME FreshInv, FollowInv, [Next]_vars PROVE FollowInv'
  OBVIOUS
<1>0. TypeOK /\ TypeOK' /\ MutexHeld'
  BY FreshStep DEF FreshInv
<1>. USE <1>0, FreeAssumption
     DEF FollowInv, MutexHeld, CacheFollowsGraph, CopiesFollowGraph, RebuildFollowsGraph,
         invalidationPending, cacheIsValid, Nil, engine, ingestion, reading, history, TypeOK
<1>1. ASSUME NEW i \in Ingestors, Save(i) \/ ReadLastSeen(i) \/ TxFail(i) PROVE FollowInv'
  BY <1>1 DEF Save, ReadLastSeen, TxFail
<1>3. ASSUME NEW i \in Ingestors, Commit(i) PROVE FollowInv'
  BY <1>3 DEF Commit
<1>4. ASSUME NEW i \in Ingestors, InvalidateCache(i) PROVE FollowInv'
  BY <1>4 DEF InvalidateCache, ResetCache
<1>5. ASSUME NEW r \in Readers, Ask(r) PROVE FollowInv'
  BY <1>5 DEF Ask
<1>6. ASSUME NEW r \in Readers, CheckCache(r) PROVE FollowInv'
  BY <1>6 DEF CheckCache, Reply
<1>7. ASSUME NEW r \in Readers, Lock(r) PROVE FollowInv'
  BY <1>7 DEF Lock, Reply
<1>8. ASSUME NEW r \in Readers, DropProjection(r) \/ EnsureProjection(r) PROVE FollowInv'
  BY <1>8 DEF DropProjection, EnsureProjection
<1>9. ASSUME NEW r \in Readers, StreamScores(r) PROVE FollowInv'
  BY <1>9 DEF StreamScores, Reply, Unlock
<1>10. ASSUME NEW r \in Readers, QueryFail(r) PROVE FollowInv'
  BY <1>10 DEF QueryFail, Reply, Unlock
<1>11. CASE Crash
  BY <1>11 DEF Crash, ResetCache, Unlock
<1>12. CASE Neo4jRestart \/ Tick
  BY <1>12 DEF Neo4jRestart, Tick
<1>13. CASE UNCHANGED vars
  BY <1>13 DEF vars
<1>. QED
  BY <1>1, <1>3, <1>4, <1>5, <1>6, <1>7, <1>8, <1>9, <1>10, <1>11, <1>12, <1>13
     DEF Next, IngestStep, RebuildStep

\* A valid cache and a clean projection come from the current graph, unless an
\* invalidation is on its way or a commit has gone unanswered since the last one,
\* with any faults (IngestEvent, InvalidateCache, rebuildCacheLocked).
THEOREM NothingStale == Spec => []CacheFollowsGraph
<1>1. Init => FollowInv
  BY FreshInit
     DEF Init, FreshInv, FollowInv, CacheFollowsGraph, CopiesFollowGraph,
         RebuildFollowsGraph, cacheIsValid
<1>2. FreshInv /\ FollowInv /\ [Next]_vars => FollowInv'
  BY FollowStep
<1>3. FollowInv => CacheFollowsGraph
  BY DEF FollowInv
<1>. QED BY <1>1, <1>2, <1>3, FreshInvHolds, PTL DEF Spec
=============================================================================
