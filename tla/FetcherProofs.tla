---------------------------- MODULE FetcherProofs ----------------------------
(***************************************************************************)
(* Proofs about Fetcher: type correctness for every value of the           *)
(* constants; and for sessions that only run backward, as they do in the   *)
(* program, the absence of gaps in the fetched range, that every page that *)
(* is saved moves on, that whole answers leave out events of full seconds  *)
(* only, and that the fetcher implements FetchService.  When sessions also *)
(* run one after the other, nothing is handed over twice.                  *)
(***************************************************************************)
EXTENDS Fetcher, FiniteSetTheorems, TLAPS

-----------------------------------------------------------------------------
(* Type correctness. *)

\* A fresh cursor is a cursor (NewFetchCursor).
LEMMA NewCursorType == NewCursor \in Cursor
  BY DEF NewCursor, Cursor, Stamp, Nil

\* The timestamps of a set of events are not 0 or 1 (created_at).
LEMMA StampsType ==
  ASSUME NEW E \in SUBSET Event, NEW t \in Stamps(E)
  PROVE  t \in Nat /\ t >= 2 /\ t \in Stamp
  BY FetcherAssumption DEF Stamps, Stamp

\* What fetchBackward and fetchForward make of a cursor is a cursor.
LEMMA CursorTypes ==
  ASSUME NEW c \in Cursor, NEW new \in SUBSET Event,
         NEW lo \in Stamp, NEW hi \in Stamp
  PROVE  /\ BackwardCursor(c, new, lo, hi) \in Cursor
         /\ ForwardCursor(c, new, hi) \in Cursor
         /\ [c EXCEPT !.reached = TRUE] \in Cursor
         /\ c.oldest # Nil => MovePastBoundary(c) \in Cursor
<1>. At(new, lo) \subseteq Event /\ At(new, hi) \subseteq Event
  BY DEF At
<1>1. BackwardCursor(c, new, lo, hi) \in Cursor
  BY DEF BackwardCursor, Cursor
<1>2. ForwardCursor(c, new, hi) \in Cursor
  BY DEF ForwardCursor, Cursor
<1>3. [c EXCEPT !.reached = TRUE] \in Cursor
  BY DEF Cursor
<1>4. ASSUME c.oldest # Nil PROVE MovePastBoundary(c) \in Cursor
  <2>1. c.oldest \in Nat
    BY <1>4 DEF Cursor, Stamp
  <2>2. c.oldest - 1 \in Stamp
    BY <2>1 DEF Stamp, Nil
  <2>. QED BY <2>2 DEF MovePastBoundary, Cursor
<1>. QED BY <1>1, <1>2, <1>3, <1>4

\* Returning from FetchContinuously keeps the types of what it resets.
LEMMA ReturnType ==
  ASSUME TypeOK, NEW s \in Sessions, NEW result \in Outcomes, Return(s, result)
  PROVE  /\ pc' \in [Sessions -> {"idle", "load", "connect", "query", "deliver"}]
         /\ outcome' \in [Sessions -> Outcomes]
         /\ cur' \in [Sessions -> Cursor]
         /\ first' \in [Sessions -> BOOLEAN]
         /\ deadline' \in [Sessions -> Nat]
         /\ dir' \in [Sessions -> {"backward", "forward"}]
         /\ ctxDone' \in [Sessions -> BOOLEAN]
  BY NewCursorType DEF TypeOK, Return

\* Recording the cursor of a page keeps the types.
LEMMA RecordType ==
  ASSUME TypeOK, NEW s \in Sessions, NEW c \in Cursor, NEW new, Record(s, c, new)
  PROVE  TypeOK'
<1>1. cursor' \in Cursor
  <2>1. [c EXCEPT !.lastFetched = now] \in Cursor
    BY DEF TypeOK, Cursor, Stamp
  <2>. QED BY <2>1 DEF TypeOK, Record
<1>2. CASE c.reached \/ new = {}
  <2>1. Return(s, "reachedEnd")
    BY <1>2 DEF Record
  <2>. QED
    BY <1>1, <2>1, ReturnType DEF TypeOK, Record, history, Stamp, Outcomes
<1>3. CASE ~(c.reached \/ new = {})
  BY <1>1, <1>3, NewCursorType DEF TypeOK, Record, history, Stamp
<1>. QED BY <1>2, <1>3

\* Every step keeps the types.
LEMMA TypeStep == TypeOK /\ [Next]_vars => TypeOK'
<1>. SUFFICES ASSUME TypeOK, [Next]_vars PROVE TypeOK'
  OBVIOUS
<1>. USE FetcherAssumption
<1>1. ASSUME NEW s \in Sessions, Start(s) PROVE TypeOK'
  <2>1. alone' \in BOOLEAN
    BY <1>1 DEF TypeOK, Start
  <2>. QED BY <1>1, <2>1 DEF TypeOK, Start, Deadline, Outcomes
<1>2. ASSUME NEW s \in Sessions, LoopHead(s) PROVE TypeOK'
  <2>1. CASE \E r \in {"timedOut", "skippedTTL", "reachedEnd"} : Return(s, r)
    BY <1>2, <2>1, ReturnType DEF TypeOK, LoopHead, history, Outcomes
  <2>2. CASE /\ pc' = [pc EXCEPT ![s] = "connect"]
             /\ cur' = [cur EXCEPT ![s] = cursor]
             /\ first' = [first EXCEPT ![s] = FALSE]
             /\ UNCHANGED <<outcome, deadline, dir, ctxDone>>
    BY <1>2, <2>2 DEF TypeOK, LoopHead, history
  <2>. QED BY <1>2, <2>1, <2>2 DEF LoopHead
<1>3. ASSUME NEW s \in Sessions, ConnectFail(s) PROVE TypeOK'
  BY <1>3, ReturnType DEF TypeOK, ConnectFail, history, Outcomes
<1>4. ASSUME NEW s \in Sessions, ConnectOk(s) PROVE TypeOK'
  <2>1. cur[s].oldest \in Stamp /\ now \in Stamp
    BY DEF TypeOK, Cursor, Stamp
  <2>. QED BY <1>4, <2>1 DEF TypeOK, ConnectOk, QueryUntil, history
<1>5. ASSUME NEW s \in Sessions, Query(s) PROVE TypeOK'
  BY <1>5 DEF TypeOK, Query, Matching, LeftOut
<1>6. ASSUME NEW s \in Sessions, Deliver(s) PROVE TypeOK'
  BY <1>6 DEF TypeOK, Deliver
<1>7. ASSUME NEW s \in Sessions, FinishBackward(s) PROVE TypeOK'
  <2>. DEFINE c == cur[s]
              new == page[s] \ c.oldestIds
  <2>0. c \in Cursor /\ new \in SUBSET Event
    BY DEF TypeOK
  <2>1. ASSUME NEW lo \in Stamps(new), NEW hi \in Stamps(new),
               Record(s, BackwardCursor(c, new, lo, hi), new)
        PROVE  TypeOK'
    <3>1. lo \in Stamp /\ hi \in Stamp
      BY <2>0, StampsType
    <3>2. BackwardCursor(c, new, lo, hi) \in Cursor
      BY <2>0, <3>1, CursorTypes
    <3>. QED BY <2>1, <3>2, RecordType
  <2>2. CASE Record(s, [c EXCEPT !.reached = TRUE], {})
    <3>1. [c EXCEPT !.reached = TRUE] \in Cursor
      BY <2>0 DEF Cursor
    <3>. QED BY <2>2, <3>1, RecordType
  <2>3. CASE c.oldest # Nil /\ Record(s, MovePastBoundary(c), {})
    <3>1. c.oldest \in Stamp
      BY <2>0 DEF Cursor
    <3>2. MovePastBoundary(c) \in Cursor
      BY <2>0, <2>3, <3>1, CursorTypes
    <3>. QED BY <2>3, <3>2, RecordType
  <2>. QED BY <1>7, <2>1, <2>2, <2>3 DEF FinishBackward
<1>8. ASSUME NEW s \in Sessions, FinishForward(s) PROVE TypeOK'
  <2>. DEFINE c == cur[s]
              new == page[s] \ c.newestIds
  <2>0. c \in Cursor /\ new \in SUBSET Event
    BY DEF TypeOK
  <2>1. ASSUME NEW hi \in Stamps(new), Record(s, ForwardCursor(c, new, hi), new)
        PROVE  TypeOK'
    <3>1. hi \in Stamp
      BY <2>0, StampsType
    <3>2. ForwardCursor(c, new, hi) \in Cursor
      BY <2>0, <3>1, CursorTypes
    <3>. QED BY <2>1, <3>2, RecordType
  <2>2. CASE Record(s, c, new)
    BY <2>0, <2>2, RecordType
  <2>. QED BY <1>8, <2>1, <2>2 DEF FinishForward
<1>9. ASSUME NEW s \in Sessions, Cancel(s) PROVE TypeOK'
  BY <1>9 DEF TypeOK, Cancel, history
<1>10. CASE Crash
  BY <1>10, NewCursorType DEF TypeOK, Crash, history, Stamp, Outcomes
<1>11. ASSUME NEW e \in Event, Publish(e) PROVE TypeOK'
  BY <1>11 DEF TypeOK, Publish, local, history
<1>12. CASE Tick
  BY <1>12 DEF TypeOK, Tick, local, history
<1>13. CASE UNCHANGED vars
  BY <1>13 DEF TypeOK, vars, local, history
<1>. QED
  BY <1>1, <1>2, <1>3, <1>4, <1>5, <1>6, <1>7, <1>8, <1>9, <1>10, <1>11,
     <1>12, <1>13 DEF Next, Step

\* Every variable keeps its type, whatever the constants (internal/fetcher).
THEOREM TypeCorrect == Spec => []TypeOK
<1>1. Init => TypeOK
  BY FetcherAssumption, NewCursorType DEF Init, TypeOK, Stamp, Outcomes
<1>. QED BY <1>1, TypeStep, PTL DEF Spec
-----------------------------------------------------------------------------
(* The absence of gaps. *)

\* The program never fetches forward (internal/relay/sync.go).
BackwardOnly == Directions = {"backward"}

\* What holds of every cursor, the persisted one and those in flight.
GoodCursor(c) ==
    /\ c.oldest = Nil <=> c.newest = Nil
    /\ c.oldest # Nil => c.oldest >= 1
    /\ c.newest <= now
    /\ c.oldestIds \subseteq offered
    /\ Covered(c)

\* An event this session's cursor will not claim, however long it works: it
\* is not below the newest event of the session's first page.
Late(s, e) ==
    CreatedAt[e] >= IF cur[s].newest = Nil THEN until[s] ELSE cur[s].newest

\* The bound of the query is the boundary, or the clock on the first page.
GoodUntil(s) ==
    IF cur[s].oldest = Nil THEN until[s] \in Nat /\ until[s] <= now
                           ELSE until[s] = cur[s].oldest

\* The page holds the newest events below the bound.
PageClosed(s) ==
    /\ page[s] \subseteq relay
    /\ \A f \in page[s] : CreatedAt[f] <= until[s]
    /\ \A e \in relay \ page[s] : \A f \in page[s] :
          CreatedAt[e] <= CreatedAt[f] \/ CreatedAt[e] > until[s] \/ Late(s, e)

\* What was not handed over yet is in todo.
PageOffered(s) == page[s] \ todo[s] \subseteq offered

\* A page without anything new leaves nothing behind, except what skipped has.
NothingBehind(s) ==
    page[s] \subseteq cur[s].oldestIds =>
       \A e \in relay :
          /\ CreatedAt[e] <= until[s]
          /\ page[s] = {} \/ CreatedAt[e] = until[s]
          => e \in offered \cup skipped \/ Late(s, e)

GoodSession(s) ==
    /\ dir[s] = "backward"
    /\ GoodCursor(cur[s])
    /\ pc[s] \in {"connect", "query", "deliver"} => ~cur[s].reached
    /\ pc[s] \in {"query", "deliver"} => GoodUntil(s)
    /\ pc[s] = "deliver" => PageClosed(s) /\ PageOffered(s) /\ NothingBehind(s)

\* The inductive invariant: the cursors in flight must not claim more than was
\* handed over either, because a save replaces the persisted one by them.
GapInv ==
    /\ TypeOK
    /\ GoodCursor(cursor)
    /\ \A s \in Sessions : GoodSession(s)

\* How a step may change what the invariant reads of the world: more events
\* handed over or given up, a later clock, events published at the clock.
Grows ==
    /\ offered \subseteq offered' /\ skipped \subseteq skipped'
    /\ now' \in Nat /\ now <= now'
    /\ relay \subseteq relay'
    /\ \A e \in relay' : e \in relay \/ CreatedAt[e] = now

\* The range a cursor claims stays covered: what is published later is not
\* below its newest event.
LEMMA GoodCursorStable ==
  ASSUME TypeOK, TypeOK', Grows, NEW c \in Cursor, GoodCursor(c)
  PROVE  /\ c.newest <= now'
         /\ c.oldestIds \subseteq offered'
         /\ \A e \in relay' : Claims(c, e) => e \in offered' \cup skipped'
<1>1. now \in Nat /\ now' \in Nat /\ c.newest \in Int
  BY DEF TypeOK, Cursor, Stamp, Nil
<1>2. c.newest <= now'
  BY <1>1 DEF Grows, GoodCursor
<1>3. c.oldestIds \subseteq offered'
  BY DEF Grows, GoodCursor
<1>4. ASSUME NEW e \in relay', Claims(c, e)
      PROVE  e \in offered' \cup skipped'
  <2>1. e \in Event /\ CreatedAt[e] \in Nat
    BY FetcherAssumption DEF TypeOK
  <2>2. CreatedAt[e] # now
    BY <1>1, <1>4, <2>1 DEF Claims, GoodCursor
  <2>3. e \in relay
    BY <2>2 DEF Grows
  <2>. QED BY <1>4, <2>3 DEF Grows, GoodCursor, Covered
<1>. QED BY <1>2, <1>3, <1>4

\* A cursor that has fetched nothing claims nothing (NewFetchCursor).
LEMMA NewCursorGood == TypeOK => GoodCursor(NewCursor)
  BY DEF TypeOK, GoodCursor, NewCursor, Covered, Claims, Nil

\* A session that does not move keeps its part of the invariant.
LEMMA GoodSessionStable ==
  ASSUME TypeOK, TypeOK', Grows, NEW s \in Sessions, GoodSession(s),
         pc'[s] = pc[s], dir'[s] = dir[s], cur'[s] = cur[s],
         until'[s] = until[s], page'[s] = page[s], todo'[s] = todo[s]
  PROVE  GoodSession(s)'
<1>0. cur[s] \in Cursor /\ GoodCursor(cur[s])
  BY DEF TypeOK, GoodSession
<1>1. GoodCursor(cur[s])'
  BY <1>0, GoodCursorStable DEF GoodCursor, Covered, offered
<1>2. now \in Nat /\ now' \in Nat /\ until[s] \in Int
      /\ cur[s].newest \in Int
  BY <1>0 DEF TypeOK, Cursor, Stamp, Nil
<1>3. ASSUME pc[s] \in {"query", "deliver"} PROVE GoodUntil(s)'
  BY <1>2, <1>3 DEF GoodSession, GoodUntil, Grows
<1>4. ASSUME pc[s] = "deliver", NEW e \in relay', e \notin relay
      PROVE  Late(s, e)
  <2>1. CreatedAt[e] = now
    BY <1>4 DEF Grows
  <2>2. cur[s].newest <= now
    BY <1>0 DEF GoodCursor
  <2>3. cur[s].newest = Nil => until[s] <= now
    BY <1>0, <1>4 DEF GoodSession, GoodUntil, GoodCursor
  <2>. QED BY <1>2, <2>1, <2>2, <2>3 DEF Late
<1>5. \A e : Late(s, e)' <=> Late(s, e)
  BY DEF Late
<1>6. ASSUME pc[s] = "deliver" PROVE PageClosed(s)'
  <2>1. PageClosed(s)
    BY <1>6 DEF GoodSession
  <2>2. page'[s] \subseteq relay' /\ \A f \in page'[s] : CreatedAt[f] <= until'[s]
    BY <2>1 DEF PageClosed, Grows
  <2>3. ASSUME NEW e \in relay' \ page'[s], NEW f \in page'[s]
        PROVE  CreatedAt[e] <= CreatedAt[f] \/ CreatedAt[e] > until'[s] \/ Late(s, e)'
    BY <1>4, <1>5, <1>6, <2>1, <2>3 DEF PageClosed
  <2>. QED BY <2>2, <2>3 DEF PageClosed
<1>7. ASSUME pc[s] = "deliver" PROVE PageOffered(s)'
  BY <1>7 DEF GoodSession, PageOffered, Grows
<1>8. ASSUME pc[s] = "deliver" PROVE NothingBehind(s)'
  <2>1. NothingBehind(s)
    BY <1>8 DEF GoodSession
  <2>2. ASSUME page[s] \subseteq cur[s].oldestIds, NEW e \in relay',
               CreatedAt[e] <= until[s], page[s] = {} \/ CreatedAt[e] = until[s]
        PROVE  e \in offered' \cup skipped' \/ Late(s, e)'
    BY <1>4, <1>5, <1>8, <2>1, <2>2 DEF NothingBehind, Grows
  <2>. QED BY <2>2 DEF NothingBehind
<1>. QED BY <1>1, <1>3, <1>6, <1>7, <1>8 DEF GoodSession

\* The cursor fetchBackward makes of a page with new events claims no more
\* than was handed over: an event above its oldest boundary is in the page,
\* because the page is closed upward, or was claimed before.
LEMMA BackwardCursorGood ==
  ASSUME TypeOK, NEW s \in Sessions, GoodSession(s),
         pc[s] = "deliver", todo[s] = {},
         NEW new, new = page[s] \ cur[s].oldestIds,
         NEW lo \in Stamps(new), NEW hi \in Stamps(new),
         IsOldest(lo, new), IsNewest(hi, new)
  PROVE  GoodCursor(BackwardCursor(cur[s], new, lo, hi))
<1>. DEFINE c == cur[s]
            d == BackwardCursor(c, new, lo, hi)
<1>1. /\ c \in Cursor /\ GoodCursor(c) /\ ~c.reached /\ GoodUntil(s)
      /\ PageClosed(s) /\ PageOffered(s)
  BY DEF TypeOK, GoodSession
<1>2. new \in SUBSET Event /\ new \subseteq page[s] /\ page[s] \subseteq Event
  BY DEF TypeOK
<1>3. lo \in Nat /\ lo >= 2 /\ hi \in Nat
  BY <1>2, StampsType
<1>4. /\ d.oldest = lo /\ d.reached = c.reached
      /\ d.newest = IF c.newest = Nil THEN hi ELSE c.newest
      /\ d.oldestIds \subseteq c.oldestIds \cup At(new, lo)
  BY <1>1 DEF BackwardCursor, Cursor
<1>5. /\ now \in Nat /\ until[s] \in Int /\ until[s] >= -1
      /\ c.oldest \in Int /\ c.newest \in Int
  BY <1>1 DEF TypeOK, Cursor, Stamp, Nil
<1>6. page[s] \subseteq offered
  BY <1>1 DEF PageOffered
<1>7. PICK f \in new : CreatedAt[f] = lo
  BY DEF Stamps
<1>8. PICK g \in new : CreatedAt[g] = hi
  BY DEF Stamps
<1>9. hi <= until[s]
  BY <1>1, <1>2, <1>8 DEF PageClosed
<1>10. c.newest = Nil => hi <= now
  BY <1>1, <1>3, <1>5, <1>9 DEF GoodUntil, GoodCursor
<1>11. d.newest <= now
  BY <1>1, <1>4, <1>10 DEF GoodCursor
<1>12. d.oldest # Nil /\ d.newest # Nil /\ d.oldest >= 1
  BY <1>3, <1>4 DEF Nil
<1>13. d.oldestIds \subseteq offered
  BY <1>1, <1>2, <1>4, <1>6 DEF At, GoodCursor
<1>14. ASSUME NEW e \in relay, Claims(d, e) PROVE e \in offered \cup skipped
  <2>0. e \in Event /\ CreatedAt[e] \in Nat
    BY FetcherAssumption DEF TypeOK
  <2>1. lo < CreatedAt[e] /\ CreatedAt[e] < d.newest
    BY <1>1, <1>4, <1>14 DEF Claims
  <2>2. CASE CreatedAt[e] > until[s]
    <3>1. c.oldest # Nil
      BY <1>1, <1>3, <1>4, <1>5, <1>9, <2>0, <2>1, <2>2 DEF GoodCursor
    <3>2. Claims(c, e)
      BY <1>1, <1>4, <2>1, <2>2, <3>1 DEF Claims, GoodUntil, GoodCursor
    <3>. QED BY <1>1, <3>2 DEF GoodCursor, Covered
  <2>3. CASE CreatedAt[e] <= until[s] /\ e \in page[s]
    BY <1>6, <2>3
  <2>4. CASE CreatedAt[e] <= until[s] /\ e \notin page[s]
    <3>1. CreatedAt[e] <= CreatedAt[f] \/ CreatedAt[e] > until[s] \/ Late(s, e)
      BY <1>1, <1>2, <2>4 DEF PageClosed
    <3>2. Late(s, e)
      BY <1>3, <1>5, <1>7, <2>0, <2>1, <2>4, <3>1
    <3>. QED BY <1>3, <1>4, <1>5, <1>9, <2>0, <2>1, <3>2 DEF Late
  <2>. QED BY <1>5, <2>0, <2>2, <2>3, <2>4
<1>. QED BY <1>11, <1>12, <1>13, <1>14 DEF GoodCursor, Covered

\* An empty page leaves nothing below the boundary but what skipped records.
LEMMA ReachedGood ==
  ASSUME TypeOK, NEW s \in Sessions, GoodSession(s),
         pc[s] = "deliver", page[s] = {}
  PROVE  GoodCursor([cur[s] EXCEPT !.reached = TRUE])
<1>. DEFINE c == cur[s]
            d == [c EXCEPT !.reached = TRUE]
<1>1. /\ c \in Cursor /\ GoodCursor(c) /\ GoodUntil(s) /\ NothingBehind(s)
  BY DEF TypeOK, GoodSession
<1>2. /\ d.oldest = c.oldest /\ d.newest = c.newest
      /\ d.oldestIds = c.oldestIds
  BY <1>1 DEF Cursor
<1>3. c.oldest \in Int /\ c.newest \in Int /\ now \in Nat
  BY <1>1 DEF TypeOK, Cursor, Stamp, Nil
<1>4. ASSUME NEW e \in relay, Claims(d, e) PROVE e \in offered \cup skipped
  <2>0. e \in Event /\ CreatedAt[e] \in Nat
    BY FetcherAssumption DEF TypeOK
  <2>1. c.oldest # Nil /\ c.newest # Nil /\ CreatedAt[e] < c.newest
    BY <1>1, <1>2, <1>4 DEF Claims, GoodCursor
  <2>2. until[s] = c.oldest
    BY <1>1, <2>1 DEF GoodUntil
  <2>3. CASE c.oldest < CreatedAt[e]
    BY <1>1, <2>1, <2>3 DEF Claims, GoodCursor, Covered
  <2>4. CASE CreatedAt[e] <= c.oldest
    BY <1>1, <1>3, <2>0, <2>1, <2>2, <2>4 DEF NothingBehind, Late
  <2>. QED BY <1>3, <2>0, <2>3, <2>4
<1>. QED BY <1>1, <1>2, <1>4 DEF GoodCursor, Covered

\* Moving past a boundary whose page held only seen events leaves nothing of
\* that second behind but what skipped records.
LEMMA MovePastGood ==
  ASSUME TypeOK, NEW s \in Sessions, GoodSession(s),
         pc[s] = "deliver", page[s] # {}, page[s] \ cur[s].oldestIds = {},
         cur[s].oldest # Nil
  PROVE  GoodCursor(MovePastBoundary(cur[s]))
<1>. DEFINE c == cur[s]
            d == MovePastBoundary(c)
<1>1. /\ c \in Cursor /\ GoodCursor(c) /\ ~c.reached /\ GoodUntil(s)
      /\ NothingBehind(s) /\ PageClosed(s)
  BY DEF TypeOK, GoodSession
<1>2. /\ d.oldest = c.oldest - 1 /\ d.newest = c.newest
      /\ d.oldestIds = {} /\ d.reached = c.reached
  BY <1>1 DEF MovePastBoundary, Cursor
<1>3. c.oldest \in Int /\ c.newest \in Int /\ now \in Nat
  BY <1>1 DEF TypeOK, Cursor, Stamp, Nil
<1>4. until[s] = c.oldest
  BY <1>1 DEF GoodUntil
<1>5. c.oldest >= 2
  <2>1. PICK f \in page[s] : TRUE
    OBVIOUS
  <2>2. f \in Event /\ CreatedAt[f] \in Nat \ {0, 1}
    BY FetcherAssumption DEF TypeOK
  <2>. QED BY <1>1, <1>3, <1>4, <2>2 DEF PageClosed
<1>6. d.oldest # Nil /\ d.oldest >= 1 /\ d.newest # Nil
  BY <1>1, <1>2, <1>3, <1>5 DEF Nil, GoodCursor
<1>7. ASSUME NEW e \in relay, Claims(d, e) PROVE e \in offered \cup skipped
  <2>0. e \in Event /\ CreatedAt[e] \in Nat
    BY FetcherAssumption DEF TypeOK
  <2>1. CreatedAt[e] < c.newest /\ c.oldest - 1 < CreatedAt[e]
    BY <1>1, <1>2, <1>7 DEF Claims
  <2>2. CASE c.oldest < CreatedAt[e]
    BY <1>1, <2>1, <2>2 DEF Claims, GoodCursor, Covered
  <2>3. CASE CreatedAt[e] = c.oldest
    BY <1>1, <1>2, <1>3, <1>4, <1>6, <2>0, <2>1, <2>3 DEF NothingBehind, Late
  <2>. QED BY <1>3, <2>0, <2>1, <2>2, <2>3
<1>. QED BY <1>1, <1>2, <1>6, <1>7 DEF GoodCursor, Covered

\* Saving a good cursor, or failing to, keeps the persisted cursor good and
\* leaves the session with nothing in flight.
LEMMA RecordGood ==
  ASSUME TypeOK, TypeOK', GoodCursor(cursor), Grows, NEW s \in Sessions,
         GoodSession(s), NEW c \in Cursor, GoodCursor(c), NEW new,
         Record(s, c, new)
  PROVE  GoodCursor(cursor)' /\ GoodSession(s)'
<1>. DEFINE d == [c EXCEPT !.lastFetched = now]
<1>1. d \in Cursor /\ GoodCursor(d)
  <2>1. d \in Cursor
    BY DEF TypeOK, Cursor, Stamp
  <2>2. /\ d.oldest = c.oldest /\ d.newest = c.newest /\ d.reached = c.reached
        /\ d.oldestIds = c.oldestIds
    BY DEF Cursor
  <2>. QED BY <2>1, <2>2 DEF GoodCursor, Covered, Claims
<1>2. GoodCursor(cursor)'
  <2>1. CASE cursor' = d
    BY <1>1, <2>1, GoodCursorStable DEF GoodCursor, Covered, offered
  <2>2. CASE cursor' = cursor
    <3>1. cursor \in Cursor
      BY DEF TypeOK
    <3>. QED BY <2>2, <3>1, GoodCursorStable DEF GoodCursor, Covered, offered
  <2>. QED BY <2>1, <2>2 DEF Record
<1>3. pc'[s] \in {"idle", "load"} /\ dir'[s] = "backward" /\ cur'[s] = NewCursor
  BY DEF Record, Return, TypeOK, GoodSession
<1>4. GoodCursor(cur[s])'
  BY <1>3, NewCursorType, NewCursorGood, GoodCursorStable
     DEF GoodCursor, Covered, offered
<1>. QED BY <1>2, <1>3, <1>4 DEF GoodSession

\* Steps that return without saving leave the session with nothing in flight.
LEMMA ReturnGood ==
  ASSUME TypeOK, TypeOK', Grows, NEW s \in Sessions, NEW result, Return(s, result)
  PROVE  GoodSession(s)'
<1>1. pc'[s] = "idle" /\ dir'[s] = "backward" /\ cur'[s] = NewCursor
  BY DEF Return, TypeOK
<1>2. GoodCursor(cur[s])'
  BY <1>1, NewCursorType, NewCursorGood, GoodCursorStable
     DEF GoodCursor, Covered, offered
<1>. QED BY <1>1, <1>2 DEF GoodSession

\* The history grows, the clock does not run back and the relay keeps its
\* events.
LEMMA GrowsAlways == TypeOK /\ [Next]_vars => Grows
<1>. SUFFICES ASSUME TypeOK, [Next]_vars PROVE Grows
  OBVIOUS
<1>. USE DEF Grows, offered, TypeOK, history
<1>1. ASSUME NEW s \in Sessions, Start(s) \/ ConnectFail(s) \/ ConnectOk(s) \/ Cancel(s)
      PROVE  Grows
  BY <1>1 DEF Start, ConnectFail, ConnectOk, Cancel
<1>2. ASSUME NEW s \in Sessions, LoopHead(s) PROVE Grows
  BY <1>2 DEF LoopHead
<1>3. ASSUME NEW s \in Sessions, Query(s) PROVE Grows
  BY <1>3 DEF Query
<1>4. ASSUME NEW s \in Sessions, Deliver(s) PROVE Grows
  BY <1>4 DEF Deliver
<1>5. ASSUME NEW s \in Sessions, FinishBackward(s) \/ FinishForward(s) PROVE Grows
  BY <1>5 DEF FinishBackward, FinishForward, Record
<1>6. CASE Crash
  BY <1>6 DEF Crash
<1>7. ASSUME NEW e \in Event, Publish(e) PROVE Grows
  BY <1>7 DEF Publish
<1>8. CASE Tick
  BY <1>8 DEF Tick
<1>9. CASE UNCHANGED vars
  BY <1>9 DEF vars
<1>. QED
  BY <1>1, <1>2, <1>3, <1>4, <1>5, <1>6, <1>7, <1>8, <1>9 DEF Next, Step

\* The answer to the query closes the page, and skipped records what an answer
\* without anything new leaves behind (fetchBackward).
LEMMA QueryGood ==
  ASSUME TypeOK, TypeOK', Grows, NEW s \in Sessions, GoodSession(s), Query(s)
  PROVE  GoodSession(s)'
<1>1. PICK ans \in SUBSET Matching(s) :
         /\ IsAnswer(ans, Matching(s))
         /\ page' = [page EXCEPT ![s] = ans]
         /\ todo' = [todo EXCEPT ![s] = ans \ BoundaryIds(s)]
         /\ skipped' = skipped \cup (LeftOut(s, ans) \ offered)
  BY DEF Query
<1>2. /\ pc[s] = "query" /\ pc'[s] = "deliver" /\ dir' = dir /\ cur' = cur
      /\ until' = until /\ relay' = relay /\ now' = now /\ offered' = offered
      /\ page'[s] = ans /\ todo'[s] = ans \ cur[s].oldestIds
  BY <1>1 DEF Query, TypeOK, offered, BoundaryIds, GoodSession
<1>3. /\ dir[s] = "backward" /\ GoodCursor(cur[s]) /\ ~cur[s].reached
      /\ GoodUntil(s) /\ cur[s] \in Cursor /\ until[s] \in Int
  BY <1>2 DEF GoodSession, TypeOK, Stamp, Nil
<1>4. Matching(s) = {e \in relay : CreatedAt[e] <= until[s]}
  BY <1>3 DEF Matching
<1>5. GoodCursor(cur[s])'
  BY <1>2, <1>3, GoodCursorStable DEF GoodCursor, Covered
<1>6. GoodUntil(s)'
  BY <1>2, <1>3 DEF GoodUntil
<1>7. PageClosed(s)'
  <2>1. ASSUME NEW e \in relay \ ans, NEW f \in ans
        PROVE  CreatedAt[e] <= CreatedAt[f] \/ CreatedAt[e] > until[s]
    <3>1. CreatedAt[e] \in Nat
      BY FetcherAssumption DEF TypeOK
    <3>2. CASE e \in Matching(s)
      BY <1>1, <2>1, <3>2 DEF IsAnswer
    <3>3. CASE e \notin Matching(s)
      BY <1>3, <1>4, <2>1, <3>1, <3>3
    <3>. QED BY <3>2, <3>3
  <2>. QED BY <1>2, <1>4, <2>1 DEF PageClosed
<1>8. PageOffered(s)'
  BY <1>2, <1>3 DEF PageOffered, GoodCursor
<1>9. NothingBehind(s)'
  <2>1. ASSUME ans \subseteq cur[s].oldestIds, NEW e \in relay,
               CreatedAt[e] <= until[s], ans = {} \/ CreatedAt[e] = until[s]
        PROVE  e \in offered' \cup skipped'
    <3>1. e \in LeftOut(s, ans)
      BY <1>3, <1>4, <2>1 DEF LeftOut, BoundaryIds
    <3>. QED BY <1>1, <1>2, <3>1
  <2>. QED BY <1>2, <2>1 DEF NothingBehind
<1>. QED BY <1>2, <1>3, <1>5, <1>6, <1>7, <1>8, <1>9 DEF GoodSession

\* Handing an event over keeps the page accounted for (onEvent).
LEMMA DeliverGood ==
  ASSUME TypeOK, TypeOK', Grows, NEW s \in Sessions, GoodSession(s), Deliver(s)
  PROVE  GoodSession(s)'
<1>1. PICK e \in todo[s] :
         /\ todo' = [todo EXCEPT ![s] = @ \ {e}]
         /\ \/ stored' = stored \cup {e} /\ dropped' = dropped
            \/ dropped' = dropped \cup {e} /\ stored' = stored
  BY DEF Deliver
<1>2. /\ pc[s] = "deliver" /\ pc' = pc /\ dir' = dir /\ cur' = cur
      /\ until' = until /\ relay' = relay /\ now' = now /\ page' = page
      /\ skipped' = skipped
      /\ offered' = offered \cup {e} /\ todo'[s] = todo[s] \ {e}
  BY <1>1 DEF Deliver, TypeOK, offered
<1>3. /\ dir[s] = "backward" /\ GoodCursor(cur[s]) /\ ~cur[s].reached
      /\ GoodUntil(s) /\ PageClosed(s) /\ PageOffered(s) /\ NothingBehind(s)
      /\ cur[s] \in Cursor
  BY <1>2 DEF GoodSession, TypeOK
<1>4. GoodCursor(cur[s])'
  BY <1>2, <1>3, GoodCursorStable DEF GoodCursor, Covered
<1>5. GoodUntil(s)' /\ PageClosed(s)'
  BY <1>2, <1>3 DEF GoodUntil, PageClosed, Late
<1>6. PageOffered(s)'
  BY <1>2, <1>3 DEF PageOffered
<1>7. NothingBehind(s)'
  BY <1>2, <1>3 DEF NothingBehind, Late
<1>. QED BY <1>2, <1>3, <1>4, <1>5, <1>6, <1>7 DEF GoodSession

\* A step keeps the invariant of the gaps.
LEMMA GapStep ==
  BackwardOnly /\ GapInv /\ TypeOK' /\ [Next]_vars => GapInv'
<1>. SUFFICES ASSUME BackwardOnly, GapInv, TypeOK', [Next]_vars PROVE GapInv'
  OBVIOUS
<1>0. TypeOK /\ Grows /\ cursor \in Cursor /\ GoodCursor(cursor)
      /\ \A s \in Sessions : GoodSession(s)
  BY GrowsAlways DEF GapInv, TypeOK
<1>1. ASSUME cursor' = cursor PROVE GoodCursor(cursor)'
  BY <1>0, <1>1, GoodCursorStable DEF GoodCursor, Covered, offered
<1>2. ASSUME NEW s \in Sessions, NEW t \in Sessions \ {s}, Start(s) \/ Step(s) \/ Cancel(s)
      PROVE  GoodSession(t)'
  <2>1. /\ pc'[t] = pc[t] /\ dir'[t] = dir[t] /\ cur'[t] = cur[t]
        /\ until'[t] = until[t] /\ page'[t] = page[t] /\ todo'[t] = todo[t]
    <3>. USE DEF TypeOK
    <3>1. CASE Start(s) \/ Cancel(s)
      BY <1>0, <1>2, <3>1 DEF Start, Cancel
    <3>2. CASE LoopHead(s)
      BY <1>0, <1>2, <3>2 DEF LoopHead, Return
    <3>3. CASE ConnectFail(s) \/ ConnectOk(s)
      BY <1>0, <1>2, <3>3 DEF ConnectFail, ConnectOk, Return
    <3>4. CASE Query(s) \/ Deliver(s)
      BY <1>0, <1>2, <3>4 DEF Query, Deliver
    <3>5. CASE FinishBackward(s)
      BY <1>0, <1>2, <3>5 DEF FinishBackward, Record, Return
    <3>6. CASE FinishForward(s)
      BY <1>0, <1>2, <3>6 DEF FinishForward, Record, Return
    <3>. QED BY <1>2, <3>1, <3>2, <3>3, <3>4, <3>5, <3>6 DEF Step
  <2>. QED BY <1>0, <2>1, GoodSessionStable
<1>3. ASSUME NEW s \in Sessions, Start(s) PROVE cursor' = cursor /\ GoodSession(s)'
  <2>1. pc'[s] = "load" /\ dir'[s] = "backward" /\ cur' = cur /\ cursor' = cursor
    BY <1>0, <1>3 DEF Start, BackwardOnly, TypeOK
  <2>2. GoodCursor(cur[s])'
    BY <1>0, <2>1, GoodCursorStable DEF GoodCursor, Covered, offered, GoodSession, TypeOK
  <2>. QED BY <2>1, <2>2 DEF GoodSession
<1>4. ASSUME NEW s \in Sessions, LoopHead(s) PROVE cursor' = cursor /\ GoodSession(s)'
  <2>1. CASE \E r \in {"timedOut", "skippedTTL", "reachedEnd"} : Return(s, r)
    BY <1>0, <1>4, <2>1, ReturnGood DEF LoopHead
  <2>2. CASE /\ ~IF dir[s] = "backward" THEN cursor.reached ELSE cursor.newest = Nil
             /\ pc' = [pc EXCEPT ![s] = "connect"]
             /\ cur' = [cur EXCEPT ![s] = cursor]
             /\ UNCHANGED dir
    <3>1. /\ pc'[s] = "connect" /\ cur'[s] = cursor /\ cursor' = cursor
          /\ dir[s] = "backward" /\ dir'[s] = "backward" /\ ~cursor.reached
      BY <1>0, <1>4, <2>2 DEF LoopHead, TypeOK, GoodSession
    <3>2. GoodCursor(cur[s])'
      BY <1>0, <3>1, GoodCursorStable DEF GoodCursor, Covered, offered
    <3>. QED BY <3>1, <3>2 DEF GoodSession
  <2>. QED BY <1>4, <2>1, <2>2 DEF LoopHead
<1>5. ASSUME NEW s \in Sessions, ConnectFail(s) PROVE cursor' = cursor /\ GoodSession(s)'
  BY <1>0, <1>5, ReturnGood DEF ConnectFail
<1>6. ASSUME NEW s \in Sessions, ConnectOk(s) PROVE cursor' = cursor /\ GoodSession(s)'
  <2>1. /\ pc[s] = "connect" /\ pc'[s] = "query" /\ cur' = cur /\ dir' = dir
        /\ cursor' = cursor /\ now' = now
        /\ until'[s] = IF cur[s].oldest # Nil THEN cur[s].oldest ELSE now
    BY <1>0, <1>6 DEF ConnectOk, QueryUntil, TypeOK, GoodSession
  <2>2. GoodCursor(cur[s])'
    BY <1>0, <2>1, GoodCursorStable DEF GoodCursor, Covered, offered, GoodSession, TypeOK
  <2>3. GoodUntil(s)'
    BY <1>0, <2>1 DEF GoodUntil, TypeOK
  <2>. QED BY <1>0, <2>1, <2>2, <2>3 DEF GoodSession
<1>7. ASSUME NEW s \in Sessions, Query(s) PROVE cursor' = cursor /\ GoodSession(s)'
  BY <1>0, <1>7, QueryGood DEF Query
<1>8. ASSUME NEW s \in Sessions, Deliver(s) PROVE cursor' = cursor /\ GoodSession(s)'
  BY <1>0, <1>8, DeliverGood DEF Deliver
<1>9. ASSUME NEW s \in Sessions, FinishBackward(s)
      PROVE  GoodCursor(cursor)' /\ GoodSession(s)'
  <2>. DEFINE c == cur[s]
              new == page[s] \ c.oldestIds
  <2>1. /\ c \in Cursor /\ new \in SUBSET Event /\ GoodSession(s)
        /\ pc[s] = "deliver" /\ todo[s] = {} /\ c.oldest \in Stamp
    BY <1>0, <1>9 DEF FinishBackward, TypeOK, Cursor
  <2>2. ASSUME NEW lo \in Stamps(new), NEW hi \in Stamps(new),
               IsOldest(lo, new), IsNewest(hi, new),
               Record(s, BackwardCursor(c, new, lo, hi), new)
        PROVE  GoodCursor(cursor)' /\ GoodSession(s)'
    <3>1. GoodCursor(BackwardCursor(c, new, lo, hi))
      BY <1>0, <2>1, <2>2, BackwardCursorGood
    <3>2. BackwardCursor(c, new, lo, hi) \in Cursor
      BY <2>1, StampsType, CursorTypes
    <3>. QED BY <1>0, <2>1, <2>2, <3>1, <3>2, RecordGood
  <2>3. CASE page[s] = {} /\ Record(s, [c EXCEPT !.reached = TRUE], {})
    <3>1. GoodCursor([c EXCEPT !.reached = TRUE])
      BY <1>0, <2>1, <2>3, ReachedGood
    <3>2. [c EXCEPT !.reached = TRUE] \in Cursor
      BY <2>1 DEF Cursor
    <3>. QED BY <1>0, <2>1, <2>3, <3>1, <3>2, RecordGood
  <2>4. CASE /\ page[s] # {} /\ new = {} /\ c.oldest # Nil
             /\ Record(s, MovePastBoundary(c), {})
    <3>1. GoodCursor(MovePastBoundary(c))
      BY <1>0, <2>1, <2>4, MovePastGood
    <3>2. MovePastBoundary(c) \in Cursor
      BY <2>1, <2>4, CursorTypes
    <3>. QED BY <1>0, <2>1, <2>4, <3>1, <3>2, RecordGood
  <2>. QED BY <1>9, <2>2, <2>3, <2>4 DEF FinishBackward
<1>10. ASSUME NEW s \in Sessions, FinishForward(s) PROVE FALSE
  BY <1>0, <1>10 DEF FinishForward, GoodSession
<1>11. ASSUME NEW s \in Sessions, Cancel(s) PROVE cursor' = cursor /\ GoodSession(s)'
  BY <1>0, <1>11, GoodSessionStable DEF Cancel
<1>12. CASE Crash
  <2>1. ASSUME NEW s \in Sessions PROVE GoodSession(s)'
    <3>1. pc'[s] = "idle" /\ dir'[s] = "backward" /\ cur'[s] = NewCursor
      BY <1>12 DEF Crash
    <3>2. GoodCursor(cur[s])'
      BY <1>0, <3>1, NewCursorType, NewCursorGood, GoodCursorStable
         DEF GoodCursor, Covered, offered
    <3>. QED BY <3>1, <3>2 DEF GoodSession
  <2>. QED BY <1>0, <1>1, <1>12, <2>1 DEF GapInv, Crash
<1>13. CASE (\E e \in Event : Publish(e)) \/ Tick \/ UNCHANGED vars
  <2>1. cursor' = cursor /\ UNCHANGED <<pc, dir, cur, until, page, todo>>
    BY <1>13 DEF Publish, Tick, vars, local
  <2>2. ASSUME NEW s \in Sessions PROVE GoodSession(s)'
    BY <1>0, <2>1, GoodSessionStable
  <2>. QED BY <1>0, <1>1, <2>1, <2>2 DEF GapInv
<1>14. ASSUME NEW s \in Sessions, Start(s) \/ Step(s) \/ Cancel(s) PROVE GapInv'
  <2>1. GoodCursor(cursor)' /\ GoodSession(s)'
    BY <1>1, <1>3, <1>4, <1>5, <1>6, <1>7, <1>8, <1>9, <1>10, <1>11, <1>14 DEF Step
  <2>. QED BY <1>2, <1>14, <2>1 DEF GapInv
<1>. QED BY <1>12, <1>13, <1>14 DEF Next

\* The invariant holds of every run of a backward fetcher.
LEMMA GapInvHolds ==
  ASSUME BackwardOnly
  PROVE  Spec => []GapInv
<1>1. Init => GapInv
  <2>. SUFFICES ASSUME Init PROVE GapInv
    OBVIOUS
  <2>1. TypeOK
    BY FetcherAssumption, NewCursorType DEF Init, TypeOK, Stamp, Outcomes
  <2>2. GoodCursor(NewCursor)
    BY <2>1, NewCursorGood
  <2>. QED BY <2>1, <2>2 DEF Init, GapInv, GoodSession
<1>2. GapInv /\ [Next]_vars => GapInv'
  BY GapStep, TypeStep DEF GapInv
<1>. QED BY <1>1, <1>2, PTL DEF Spec

\* No session loses an event of the range the cursor claims, whatever the other
\* sessions, the faults and the page size (fetchBackward, SaveCursor).
THEOREM NoGaps ==
  ASSUME BackwardOnly
  PROVE  Spec => []GapFree
<1>1. GapInv => GapFree
  BY DEF GapInv, GoodCursor, GapFree
<1>. QED BY <1>1, GapInvHolds, PTL

\* An event that a boundary ID makes fetchBackward skip was handed over before
\* (fetchBackward's removal of boundary duplicates).
THEOREM BoundaryIdsWereOffered ==
  ASSUME BackwardOnly
  PROVE  Spec => []BoundaryIdsOffered
<1>1. GapInv => BoundaryIdsOffered
  BY DEF GapInv, GoodCursor, BoundaryIdsOffered
<1>. QED BY <1>1, GapInvHolds, PTL

-----------------------------------------------------------------------------
(* No event is handed over twice by sessions that run one after the other. *)

\* The cursor's boundary keeps e out of every later page, or out of todo.
Behind(c, e) ==
    /\ c.oldest # Nil
    /\ \/ c.oldest < CreatedAt[e]
       \/ c.oldest = CreatedAt[e] /\ e \in c.oldestIds

\* No other session is at work.
OthersIdle(s) == \A t \in Sessions \ {s} : pc[t] = "idle"

\* What was handed over is behind the persisted cursor, which the session
\* works with, or belongs to the page in hand.
OnlyBehind(s) ==
    /\ pc[s] \in {"connect", "query", "deliver"} => cur[s] = cursor
    /\ pc[s] = "deliver" => todo[s] \subseteq page[s] \ cursor.oldestIds
    /\ \A e \in offered :
          \/ Behind(cursor, e)
          \/ pc[s] = "deliver" /\ e \in page[s] \ (todo[s] \cup cursor.oldestIds)

\* One session is at work at most, and what was handed over is behind the cursor
\* of each that is not kept from its work by another.
AllBehind ==
    \A s \in Sessions : /\ pc[s] # "idle" => OthersIdle(s)
                        /\ OthersIdle(s) => OnlyBehind(s)

\* What a page brings lies behind the cursor fetchBackward makes of it, with
\* everything that was behind the cursor it started from.
LEMMA BackwardCursorBehind ==
  ASSUME TypeOK, NEW s \in Sessions, GoodSession(s),
         pc[s] = "deliver", todo[s] = {}, cur[s] = cursor, OnlyBehind(s),
         NEW new, new = page[s] \ cursor.oldestIds,
         NEW lo \in Stamps(new), NEW hi, IsOldest(lo, new),
         NEW e \in offered
  PROVE  Behind(BackwardCursor(cursor, new, lo, hi), e)
<1>. DEFINE d == BackwardCursor(cursor, new, lo, hi)
<1>1. cursor \in Cursor /\ GoodUntil(s) /\ PageClosed(s)
  BY DEF TypeOK, GoodSession
<1>2. new \in SUBSET Event /\ e \in Event /\ CreatedAt[e] \in Nat
  BY FetcherAssumption DEF TypeOK, offered
<1>3. lo \in Nat /\ lo # Nil /\ cursor.oldest \in Int
  BY <1>1, <1>2, StampsType DEF Cursor, Stamp, Nil
<1>4. /\ d.oldest = lo
      /\ d.oldestIds = IF cursor.oldest = lo THEN cursor.oldestIds \cup At(new, lo)
                                             ELSE At(new, lo)
  BY <1>1 DEF BackwardCursor, Cursor
<1>5. CASE e \in new
  <2>1. lo <= CreatedAt[e]
    BY <1>5 DEF IsOldest
  <2>2. CreatedAt[e] = lo => e \in At(new, lo)
    BY <1>5 DEF At
  <2>. QED BY <1>2, <1>3, <1>4, <2>1, <2>2 DEF Behind
<1>6. CASE Behind(cursor, e)
  <2>1. PICK f \in new : CreatedAt[f] = lo
    BY DEF Stamps
  <2>2. lo <= cursor.oldest
    BY <1>1, <1>6, <2>1 DEF Behind, GoodUntil, PageClosed
  <2>. QED BY <1>2, <1>3, <1>4, <1>6, <2>2 DEF Behind
<1>. QED BY <1>5, <1>6 DEF OnlyBehind

\* Saving a cursor that has everything handed over behind it, and then
\* returning or going round again, leaves nothing in hand (SaveCursor).
LEMMA RecordBehind ==
  ASSUME TypeOK, alone', NEW s \in Sessions, NEW c \in Cursor,
         NEW new, Record(s, c, new), \A e \in offered : Behind(c, e)
  PROVE  OnlyBehind(s)'
<1>1. cursor' = [c EXCEPT !.lastFetched = now]
  BY DEF Record
<1>2. cursor'.oldest = c.oldest /\ cursor'.oldestIds = c.oldestIds
  BY <1>1 DEF Cursor
<1>3. pc'[s] \in {"idle", "load"} /\ offered' = offered
  BY DEF Record, Return, TypeOK, history, offered
<1>. QED BY <1>2, <1>3 DEF OnlyBehind, Behind

\* An event still to be handed over was not handed over before (onEvent).
LEMMA TodoIsNew ==
  ASSUME TypeOK, NEW s \in Sessions, GoodSession(s), OnlyBehind(s), pc[s] = "deliver"
  PROVE  todo[s] \cap offered = {}
<1>. SUFFICES ASSUME NEW e \in todo[s], e \in offered PROVE FALSE
  OBVIOUS
<1>1. e \in page[s] /\ e \notin cursor.oldestIds /\ cur[s] = cursor
  BY DEF OnlyBehind
<1>2. Behind(cursor, e)
  BY DEF OnlyBehind
<1>3. until[s] = cursor.oldest /\ CreatedAt[e] <= until[s]
  BY <1>1, <1>2 DEF GoodSession, GoodUntil, PageClosed, Behind
<1>4. CreatedAt[e] \in Nat /\ cursor.oldest \in Int
  BY FetcherAssumption DEF TypeOK, Cursor, Stamp, Nil, offered
<1>. QED BY <1>1, <1>2, <1>3, <1>4 DEF Behind

\* A step of the session s, the only one at work, keeps what was handed over behind
\* the cursor.
LEMMA SessionStaysBehind ==
  ASSUME GapInv, alone', NEW s \in Sessions, OnlyBehind(s), dir[s] = "backward",
         Start(s) \/ Step(s) \/ Cancel(s)
  PROVE  OnlyBehind(s)'
<1>0. TypeOK /\ GoodSession(s) /\ OnlyBehind(s) /\ cursor \in Cursor
  BY DEF GapInv, TypeOK
<1>. USE DEF TypeOK, OnlyBehind, offered, history
<1>1. CASE Start(s)
  BY <1>0, <1>1 DEF Start
<1>2. CASE LoopHead(s)
  BY <1>0, <1>2 DEF LoopHead, Return
<1>3. CASE ConnectFail(s) \/ ConnectOk(s)
  BY <1>0, <1>3 DEF ConnectFail, ConnectOk, Return
<1>4. CASE Query(s)
  BY <1>0, <1>4 DEF Query, BoundaryIds, GoodSession
<1>5. CASE Deliver(s)
  BY <1>0, <1>5 DEF Deliver
<1>6. CASE FinishBackward(s)
  <2>. DEFINE c == cur[s]
              new == page[s] \ c.oldestIds
  <2>1. /\ c = cursor /\ c \in Cursor /\ new \in SUBSET Event
        /\ pc[s] = "deliver" /\ todo[s] = {}
        /\ \A e \in offered : Behind(cursor, e) \/ e \in new
    BY <1>0, <1>6 DEF FinishBackward
  <2>2. ASSUME NEW lo \in Stamps(new), NEW hi \in Stamps(new),
               IsOldest(lo, new), Record(s, BackwardCursor(c, new, lo, hi), new)
        PROVE  OnlyBehind(s)'
    <3>1. \A e \in offered : Behind(BackwardCursor(c, new, lo, hi), e)
      BY <1>0, <2>1, <2>2, BackwardCursorBehind
    <3>2. BackwardCursor(c, new, lo, hi) \in Cursor
      BY <2>1, StampsType, CursorTypes
    <3>. QED BY <1>0, <2>1, <2>2, <3>1, <3>2, RecordBehind
  <2>3. CASE page[s] = {} /\ Record(s, [c EXCEPT !.reached = TRUE], {})
    <3>. DEFINE d == [c EXCEPT !.reached = TRUE]
    <3>1. d \in Cursor /\ d.oldest = c.oldest /\ d.oldestIds = c.oldestIds
      BY <2>1 DEF Cursor
    <3>2. \A e \in offered : Behind(d, e)
      BY <2>1, <2>3, <3>1 DEF Behind
    <3>. QED BY <1>0, <2>1, <2>3, <3>1, <3>2, RecordBehind
  <2>4. CASE /\ page[s] # {} /\ new = {} /\ c.oldest # Nil
             /\ Record(s, MovePastBoundary(c), {})
    <3>. DEFINE d == MovePastBoundary(c)
    <3>1. d \in Cursor /\ d.oldest = c.oldest - 1 /\ d.oldest # Nil
      <4>1. c.oldest >= 1 /\ c.oldest \in Int
        BY <1>0, <2>1, <2>4 DEF GapInv, GoodCursor, Cursor, Stamp, Nil
      <4>2. c.oldest \in Stamp
        BY <2>1 DEF Cursor
      <4>3. d \in Cursor
        BY <2>1, <2>4, <4>2, CursorTypes
      <4>4. d.oldest = c.oldest - 1
        BY <2>1 DEF MovePastBoundary, Cursor
      <4>. QED BY <4>1, <4>3, <4>4 DEF Nil
    <3>2. ASSUME NEW e \in offered PROVE Behind(d, e)
      <4>1. Behind(c, e) /\ CreatedAt[e] \in Nat /\ c.oldest \in Int
        BY <1>0, <2>1, <2>4, <3>2, FetcherAssumption DEF Cursor, Stamp, Nil
      <4>. QED BY <3>1, <4>1 DEF Behind
    <3>. QED BY <1>0, <2>1, <2>4, <3>1, <3>2, RecordBehind
  <2>. QED BY <1>6, <2>2, <2>3, <2>4 DEF FinishBackward
<1>7. CASE FinishForward(s)
  BY <1>7 DEF FinishForward
<1>8. CASE Cancel(s)
  BY <1>0, <1>8 DEF Cancel
<1>. QED
  BY <1>1, <1>2, <1>3, <1>4, <1>5, <1>6, <1>7, <1>8 DEF Step

\* As long as sessions are alone, a step leaves what was handed over behind.
LEMMA AloneStep ==
  ASSUME BackwardOnly, GapInv, alone => AllBehind, [Next]_vars, alone'
  PROVE  AllBehind'
<1>0. TypeOK
  BY DEF GapInv
<1>1. ASSUME NEW s \in Sessions, Start(s) \/ Step(s) \/ Cancel(s) PROVE AllBehind'
  <2>1. alone /\ AllBehind
    BY <1>1 DEF Start, Step, LoopHead, ConnectFail, ConnectOk, Query, Deliver,
                FinishBackward, FinishForward, Record, Cancel, history
  <2>2. OthersIdle(s)
    BY <1>1, <2>1 DEF AllBehind, OthersIdle, Start, Step, LoopHead, ConnectFail, ConnectOk,
                      Query, Deliver, FinishBackward, FinishForward, Cancel
  <2>3. dir[s] = "backward"
    BY DEF GapInv, GoodSession
  <2>4. OnlyBehind(s)'
    BY <1>1, <2>1, <2>2, <2>3, SessionStaysBehind DEF AllBehind
  <2>5. \A t \in Sessions \ {s} : pc'[t] = pc[t]
    BY <1>0, <1>1 DEF TypeOK, Start, Step, LoopHead, ConnectFail, ConnectOk, Query, Deliver,
                FinishBackward, FinishForward, Record, Return, Cancel, history
  <2>6. ASSUME NEW t \in Sessions \ {s}, OthersIdle(t)' PROVE OnlyBehind(t)'
    <3>1. pc'[s] = "idle" /\ pc'[t] = "idle"
      BY <2>2, <2>5, <2>6 DEF OthersIdle
    <3>. QED BY <2>4, <3>1 DEF OnlyBehind, offered
  <2>. QED BY <2>2, <2>4, <2>5, <2>6 DEF AllBehind, OthersIdle
<1>2. CASE (\E e \in Event : Publish(e)) \/ Tick \/ UNCHANGED vars
  <2>1. UNCHANGED <<pc, cur, page, todo, cursor, stored, dropped, alone>>
    BY <1>2 DEF Publish, Tick, vars, local, history
  <2>. QED BY <2>1 DEF AllBehind, OthersIdle, OnlyBehind, offered, Behind
<1>3. CASE Crash
  BY <1>3 DEF Crash
<1>. QED BY <1>1, <1>2, <1>3 DEF Next

\* The boundary IDs and the moving boundary keep sessions that run one after the
\* other from handing an event over twice, any number of them, whatever is
\* published meanwhile, however answers are cut, and whether or not the events
\* are stored (fetchBackward).
THEOREM NothingTwice ==
  ASSUME BackwardOnly
  PROVE  Spec => NeverRepeated
<1>1. Init => AllBehind
  BY DEF Init, AllBehind, OthersIdle, OnlyBehind, offered
<1>2. GapInv /\ (alone => AllBehind) /\ [Next]_vars => (alone => AllBehind)'
  BY AloneStep
<1>3. GapInv /\ (alone => AllBehind)
      => (alone => \A s \in Sessions : pc[s] = "deliver" /\ pc'[s] = "deliver"
             => (todo[s] \ todo'[s]) \cap offered = {})
  BY TodoIsNew DEF GapInv, AllBehind
<1>. QED BY <1>1, <1>2, <1>3, GapInvHolds, PTL DEF Spec, NeverRepeated

-----------------------------------------------------------------------------
(* Pages move on. *)

\* The IDs at the oldest boundary belong to its second.
IdsInSecond(c) == \A e \in c.oldestIds : CreatedAt[e] = c.oldest

\* What fetchBackward makes of the cursor c is good if c is, and further down.
Advances(d, c) ==
    /\ GoodCursor(d)
    /\ Extends(d, c) /\ IsPast(d, c)
    /\ IdsInSecond(c) => IdsInSecond(d)

\* A page with new events ends at an older boundary, or holds a new event of the
\* boundary's second.
LEMMA BackwardCursorAdvances ==
  ASSUME TypeOK, NEW s \in Sessions, GoodSession(s), pc[s] = "deliver", todo[s] = {},
         NEW new, new = page[s] \ cur[s].oldestIds,
         NEW lo \in Stamps(new), NEW hi \in Stamps(new), IsOldest(lo, new), IsNewest(hi, new)
  PROVE  Advances(BackwardCursor(cur[s], new, lo, hi), cur[s])
<1>. DEFINE c == cur[s]
            d == BackwardCursor(c, new, lo, hi)
<1>0. GoodCursor(d)
  BY BackwardCursorGood
<1>1. /\ c \in Cursor /\ GoodCursor(c) /\ ~c.reached /\ GoodUntil(s) /\ PageClosed(s)
      /\ new \in SUBSET Event /\ new \subseteq page[s] /\ new \cap c.oldestIds = {}
  BY DEF TypeOK, GoodSession
<1>2. lo \in Nat /\ lo # Nil /\ c.oldest \in Int /\ c.newest \in Int
  BY <1>1, StampsType DEF Cursor, Stamp, Nil
<1>3. /\ d.oldest = lo /\ d.reached = c.reached
      /\ d.newest = IF c.newest = Nil THEN hi ELSE c.newest
      /\ d.oldestIds = IF c.oldest = lo THEN c.oldestIds \cup At(new, lo) ELSE At(new, lo)
  BY <1>1 DEF BackwardCursor, Cursor
<1>4. PICK f \in new : CreatedAt[f] = lo
  BY DEF Stamps
<1>5. c.oldest # Nil => lo <= c.oldest
  BY <1>1, <1>2, <1>4 DEF GoodUntil, PageClosed
<1>6. Extends(d, c)
  <2>1. SUFFICES ASSUME NEW e \in Event, Claims(c, e) PROVE Claims(d, e)
    BY DEF Extends
  <2>2. /\ c.oldest # Nil /\ CreatedAt[e] < c.newest /\ c.oldest < CreatedAt[e]
        /\ CreatedAt[e] \in Nat
    BY <1>1, <2>1, FetcherAssumption DEF Claims
  <2>3. c.newest # Nil /\ d.newest = c.newest /\ lo < CreatedAt[e]
    BY <1>1, <1>2, <1>3, <1>5, <2>2 DEF GoodCursor
  <2>. QED BY <1>2, <1>3, <2>2, <2>3 DEF Claims
<1>7. IsPast(d, c)
  <2>1. CASE c.oldest = Nil
    BY <1>2, <1>3, <2>1 DEF IsPast
  <2>2. CASE lo < c.oldest
    BY <1>3, <2>2 DEF IsPast
  <2>3. CASE lo = c.oldest
    <3>1. f \in At(new, lo) /\ f \notin c.oldestIds
      BY <1>1, <1>4 DEF At
    <3>2. /\ d.oldest = c.oldest /\ c.oldestIds \subseteq d.oldestIds
          /\ f \in d.oldestIds
      BY <1>3, <2>3, <3>1
    <3>. QED BY <3>1, <3>2 DEF IsPast
  <2>. QED BY <1>2, <1>5, <2>1, <2>2, <2>3
<1>8. IdsInSecond(c) => IdsInSecond(d)
  BY <1>3 DEF IdsInSecond, At
<1>. QED BY <1>0, <1>6, <1>7, <1>8 DEF Advances

\* An empty page ends the fetching.
LEMMA ReachedAdvances ==
  ASSUME TypeOK, NEW s \in Sessions, GoodSession(s), pc[s] = "deliver", page[s] = {}
  PROVE  Advances([cur[s] EXCEPT !.reached = TRUE], cur[s])
<1>. DEFINE c == cur[s]
            d == [c EXCEPT !.reached = TRUE]
<1>0. GoodCursor(d)
  BY ReachedGood
<1>1. /\ c \in Cursor
      /\ d.oldest = c.oldest /\ d.newest = c.newest /\ d.oldestIds = c.oldestIds /\ d.reached
  BY DEF TypeOK, Cursor
<1>. QED BY <1>0, <1>1 DEF Advances, Extends, Claims, IsPast, IdsInSecond

\* A page that holds only seen events moves the boundary.
LEMMA MovePastAdvances ==
  ASSUME TypeOK, NEW s \in Sessions, GoodSession(s),
         pc[s] = "deliver", page[s] # {}, page[s] \ cur[s].oldestIds = {}, cur[s].oldest # Nil
  PROVE  Advances(MovePastBoundary(cur[s]), cur[s])
<1>. DEFINE c == cur[s]
            d == MovePastBoundary(c)
<1>0. GoodCursor(d)
  BY MovePastGood
<1>1. c \in Cursor /\ GoodCursor(c) /\ ~c.reached
  BY DEF TypeOK, GoodSession
<1>2. /\ d.oldest = c.oldest - 1 /\ d.newest = c.newest
      /\ d.oldestIds = {} /\ d.reached = c.reached
  BY <1>1 DEF MovePastBoundary, Cursor
<1>3. c.oldest \in Int /\ c.oldest >= 1
  BY <1>1 DEF GoodCursor, Cursor, Stamp, Nil
<1>4. d.oldest < c.oldest /\ d.oldest # Nil
  BY <1>2, <1>3 DEF Nil
<1>5. Extends(d, c)
  <2>1. SUFFICES ASSUME NEW e \in Event, Claims(c, e) PROVE Claims(d, e)
    BY DEF Extends
  <2>2. CreatedAt[e] \in Nat /\ CreatedAt[e] < c.newest /\ c.oldest < CreatedAt[e]
    BY <1>1, <2>1, FetcherAssumption DEF Claims
  <2>3. d.oldest < CreatedAt[e]
    BY <1>2, <1>3, <2>2
  <2>. QED BY <1>2, <1>4, <2>2, <2>3 DEF Claims
<1>6. IsPast(d, c)
  BY <1>4 DEF IsPast
<1>. QED BY <1>0, <1>2, <1>5, <1>6 DEF Advances, IdsInSecond

\* Whatever a page brings, fetchBackward records a cursor that advances.
LEMMA FinishAdvances ==
  ASSUME GapInv, NEW s \in Sessions, FinishBackward(s)
  PROVE  \E c \in Cursor, new \in SUBSET Event : Record(s, c, new) /\ Advances(c, cur[s])
<1>. DEFINE b == cur[s]
            new == page[s] \ b.oldestIds
<1>1. /\ TypeOK /\ GoodSession(s) /\ b \in Cursor /\ new \in SUBSET Event
      /\ pc[s] = "deliver" /\ todo[s] = {}
  BY DEF FinishBackward, GapInv, TypeOK
<1>2. ASSUME NEW lo \in Stamps(new), NEW hi \in Stamps(new),
             IsOldest(lo, new), IsNewest(hi, new), Record(s, BackwardCursor(b, new, lo, hi), new)
      PROVE  \E c \in Cursor, n \in SUBSET Event : Record(s, c, n) /\ Advances(c, b)
  <2>1. BackwardCursor(b, new, lo, hi) \in Cursor
    BY <1>1, StampsType, CursorTypes
  <2>2. Advances(BackwardCursor(b, new, lo, hi), b)
    BY <1>1, <1>2, BackwardCursorAdvances
  <2>. QED BY <1>1, <1>2, <2>1, <2>2
<1>3. ASSUME page[s] = {}, Record(s, [b EXCEPT !.reached = TRUE], {})
      PROVE  \E c \in Cursor, n \in SUBSET Event : Record(s, c, n) /\ Advances(c, b)
  <2>1. [b EXCEPT !.reached = TRUE] \in Cursor
    BY <1>1 DEF Cursor
  <2>2. Advances([b EXCEPT !.reached = TRUE], b)
    BY <1>1, <1>3, ReachedAdvances
  <2>. QED BY <1>3, <2>1, <2>2
<1>4. ASSUME page[s] # {}, new = {}, b.oldest # Nil, Record(s, MovePastBoundary(b), {})
      PROVE  \E c \in Cursor, n \in SUBSET Event : Record(s, c, n) /\ Advances(c, b)
  <2>1. MovePastBoundary(b) \in Cursor
    <3>1. b.oldest \in Stamp
      BY <1>1 DEF Cursor
    <3>. QED BY <1>1, <1>4, <3>1, CursorTypes
  <2>2. Advances(MovePastBoundary(b), b)
    BY <1>1, <1>4, MovePastAdvances
  <2>. QED BY <1>4, <2>1, <2>2
<1>. QED BY <1>2, <1>3, <1>4 DEF FinishBackward

\* The time of the save says nothing about what a cursor claims.
LEMMA StampedAdvances ==
  ASSUME NEW c \in Cursor, NEW b, NEW t, Advances(c, b)
  PROVE  LET d == [c EXCEPT !.lastFetched = t]
         IN  Extends(d, b) /\ IsPast(d, b) /\ (IdsInSecond(b) => IdsInSecond(d))
<1>. DEFINE d == [c EXCEPT !.lastFetched = t]
<1>1. /\ d.oldest = c.oldest /\ d.newest = c.newest /\ d.reached = c.reached
      /\ d.oldestIds = c.oldestIds
  BY DEF Cursor
<1>2. Extends(d, b)
  BY <1>1 DEF Advances, Extends, Claims
<1>3. IsPast(d, b)
  BY <1>1 DEF Advances, IsPast
<1>4. IdsInSecond(b) => IdsInSecond(d)
  BY <1>1 DEF Advances, IdsInSecond
<1>. QED BY <1>2, <1>3, <1>4

\* Only the session that finishes a page saves the cursor.
LEMMA OnlyFinishSaves ==
  ASSUME GapInv, [Next]_vars
  PROVE  cursor' = cursor \/ \E s \in Sessions : FinishBackward(s)
<1>1. ASSUME NEW s \in Sessions,
             \/ Start(s) \/ Cancel(s) \/ LoopHead(s) \/ ConnectFail(s) \/ ConnectOk(s)
             \/ Query(s) \/ Deliver(s)
      PROVE  cursor' = cursor
  BY <1>1 DEF Start, Cancel, LoopHead, ConnectFail, ConnectOk, Query, Deliver
<1>2. ASSUME NEW s \in Sessions, FinishForward(s) PROVE FALSE
  BY <1>2 DEF FinishForward, GapInv, GoodSession
<1>3. CASE Crash \/ Tick \/ UNCHANGED vars \/ \E e \in Event : Publish(e)
  BY <1>3 DEF Crash, Tick, vars, Publish
<1>. QED BY <1>1, <1>2, <1>3 DEF Next, Step

\* Any number of sessions, whatever fails: a save claims what the session had
\* claimed before, and moves on from there (fetchBackward, SaveCursor).
THEOREM SavesMoveOn ==
  ASSUME BackwardOnly
  PROVE  Spec => PagesMoveOn
<1>1. ASSUME GapInv, [Next]_vars, cursor' # cursor PROVE SaveAdvances
  <2>1. PICK s \in Sessions : FinishBackward(s)
    BY <1>1, OnlyFinishSaves
  <2>2. PICK c \in Cursor, new \in SUBSET Event : Record(s, c, new) /\ Advances(c, cur[s])
    BY <1>1, <2>1, FinishAdvances
  <2>3. cursor' = [c EXCEPT !.lastFetched = now]
    BY <1>1, <2>2 DEF Record
  <2>4. Extends(cursor', cur[s]) /\ IsPast(cursor', cur[s])
    BY <2>2, <2>3, StampedAdvances
  <2>5. pc[s] = "deliver" /\ pc'[s] # "deliver"
    BY <1>1, <2>1, <2>2 DEF FinishBackward, Record, Return, GapInv, TypeOK
  <2>. QED BY <2>4, <2>5 DEF SaveAdvances
<1>2. GapInv /\ [Next]_vars => [cursor' # cursor => SaveAdvances]_vars
  BY <1>1
<1>. QED BY <1>2, GapInvHolds, PTL DEF Spec, PagesMoveOn

-----------------------------------------------------------------------------
(* What is left out of a full second. *)

\* What is to be handed over came from the relay, and boundary IDs belong to the
\* second of the boundary.
SeenInv ==
    /\ IdsInSecond(cursor)
    /\ \A s \in Sessions : IdsInSecond(cur[s]) /\ todo[s] \subseteq relay

\* A session works with the cursor it had, the persisted one, or none.
LEMMA CursorOrigin ==
  ASSUME TypeOK, [Next]_vars, NEW t \in Sessions
  PROVE  cur'[t] \in {cur[t], cursor, NewCursor}
<1>. USE DEF TypeOK
<1>1. ASSUME NEW s \in Sessions, Start(s) \/ Cancel(s) \/ ConnectOk(s) \/ Query(s) \/ Deliver(s)
      PROVE  cur' = cur
  BY <1>1 DEF Start, Cancel, ConnectOk, Query, Deliver
<1>2. ASSUME NEW s \in Sessions, LoopHead(s) PROVE cur'[t] \in {cur[t], cursor, NewCursor}
  BY <1>2 DEF LoopHead, Return
<1>3. ASSUME NEW s \in Sessions, ConnectFail(s) PROVE cur'[t] \in {cur[t], cursor, NewCursor}
  BY <1>3 DEF ConnectFail, Return
<1>4. ASSUME NEW s \in Sessions, FinishBackward(s) \/ FinishForward(s)
      PROVE  cur'[t] \in {cur[t], cursor, NewCursor}
  <2>1. cur' = [cur EXCEPT ![s] = NewCursor]
    BY <1>4 DEF FinishBackward, FinishForward, Record, Return
  <2>. QED BY <2>1
<1>5. CASE Crash
  BY <1>5 DEF Crash
<1>6. CASE Tick \/ UNCHANGED vars \/ \E e \in Event : Publish(e)
  BY <1>6 DEF Tick, vars, local, Publish
<1>. QED BY <1>1, <1>2, <1>3, <1>4, <1>5, <1>6 DEF Next, Step

\* Only an answer adds to what a session has to hand over.
LEMMA TodoOrigin ==
  ASSUME TypeOK, [Next]_vars, NEW t \in Sessions
  PROVE  todo'[t] \subseteq todo[t] \cup relay
<1>. USE DEF TypeOK
<1>1. ASSUME NEW s \in Sessions, Query(s) PROVE todo'[t] \subseteq todo[t] \cup relay
  BY <1>1 DEF Query, Matching
<1>2. ASSUME NEW s \in Sessions, Deliver(s) PROVE todo'[t] \subseteq todo[t] \cup relay
  BY <1>2 DEF Deliver
<1>3. ASSUME NEW s \in Sessions,
             \/ Start(s) \/ Cancel(s) \/ ConnectOk(s) \/ LoopHead(s) \/ ConnectFail(s)
             \/ FinishBackward(s) \/ FinishForward(s)
      PROVE  todo' = todo
  BY <1>3 DEF Start, Cancel, ConnectOk, LoopHead, ConnectFail, FinishBackward, FinishForward,
              Record
<1>4. CASE Crash
  BY <1>4 DEF Crash
<1>5. CASE Tick \/ UNCHANGED vars \/ \E e \in Event : Publish(e)
  BY <1>5 DEF Tick, vars, local, Publish
<1>. QED BY <1>1, <1>2, <1>3, <1>4, <1>5 DEF Next, Step

LEMMA SeenStep == GapInv /\ SeenInv /\ [Next]_vars => SeenInv'
<1>. SUFFICES ASSUME GapInv, SeenInv, [Next]_vars PROVE SeenInv'
  OBVIOUS
<1>0. TypeOK /\ Grows
  BY GrowsAlways DEF GapInv
<1>1. IdsInSecond(cursor')
  <2>1. CASE cursor' = cursor
    BY <2>1 DEF SeenInv
  <2>2. ASSUME NEW s \in Sessions, FinishBackward(s), cursor' # cursor PROVE IdsInSecond(cursor')
    <3>1. PICK c \in Cursor, new \in SUBSET Event : Record(s, c, new) /\ Advances(c, cur[s])
      BY <2>2, FinishAdvances
    <3>2. cursor' = [c EXCEPT !.lastFetched = now]
      BY <2>2, <3>1 DEF Record
    <3>3. IdsInSecond(cur[s])
      BY DEF SeenInv
    <3>. QED BY <3>1, <3>2, <3>3, StampedAdvances
  <2>. QED BY <2>1, <2>2, OnlyFinishSaves
<1>2. ASSUME NEW t \in Sessions PROVE IdsInSecond(cur'[t]) /\ todo'[t] \subseteq relay'
  <2>1. cur'[t] \in {cur[t], cursor, NewCursor}
    BY <1>0, CursorOrigin
  <2>2. IdsInSecond(NewCursor)
    BY DEF IdsInSecond, NewCursor
  <2>3. IdsInSecond(cur'[t])
    BY <2>1, <2>2 DEF SeenInv
  <2>4. todo'[t] \subseteq todo[t] \cup relay
    BY <1>0, TodoOrigin
  <2>. QED BY <1>0, <2>3, <2>4 DEF SeenInv, Grows
<1>. QED BY <1>1, <1>2 DEF SeenInv, IdsInSecond

\* A page of the events of second t was handed over.
PageOf(t) ==
    \E P \in SUBSET offered : Cardinality(P) = FetchLimit /\ \A f \in P : CreatedAt[f] = t

\* An answer that is not cut leaves out events of a full second only: it is a whole
\* page, and all of it was seen at the boundary.
LEMMA LeftOutOfFull ==
  ASSUME TypeOK, "cut" \notin Faults, NEW s \in Sessions, GoodSession(s), pc[s] = "query",
         IdsInSecond(cur[s]), NEW ans \in SUBSET Matching(s), IsAnswer(ans, Matching(s)),
         NEW e \in LeftOut(s, ans), e \notin offered
  PROVE  PageOf(CreatedAt[e])
<1>1. /\ BoundaryIds(s) = cur[s].oldestIds /\ GoodUntil(s)
      /\ cur[s].oldestIds \subseteq offered /\ cur[s] \in Cursor
      /\ FetchLimit \in Nat \ {0} /\ e \in Matching(s)
  BY FetcherAssumption DEF GoodSession, GoodCursor, BoundaryIds, TypeOK, LeftOut
<1>2. ans # {}
  <2>1. Cardinality({}) = 0
    BY FS_EmptySet
  <2>. QED BY <1>1, <2>1 DEF IsAnswer
<1>3. ans \subseteq cur[s].oldestIds /\ CreatedAt[e] = until[s]
  BY <1>1, <1>2 DEF LeftOut
<1>4. ans \subseteq offered /\ e \notin ans
  BY <1>1, <1>3
<1>5. Cardinality(ans) = FetchLimit
  BY <1>1, <1>4 DEF IsAnswer
<1>6. ASSUME NEW f \in ans PROVE CreatedAt[f] = until[s]
  <2>1. CreatedAt[f] = cur[s].oldest
    BY <1>3 DEF IdsInSecond
  <2>2. CreatedAt[f] \in Nat
    BY FetcherAssumption DEF Matching, TypeOK
  <2>. QED BY <1>1, <2>1, <2>2 DEF GoodUntil, Nil
<1>. QED BY <1>3, <1>4, <1>5, <1>6 DEF PageOf

\* Only an answer leaves anything out.
LEMMA OnlyQuerySkips ==
  ASSUME [Next]_vars
  PROVE  skipped' = skipped \/ \E s \in Sessions : Query(s)
<1>1. ASSUME NEW s \in Sessions,
             \/ Start(s) \/ Cancel(s) \/ ConnectOk(s) \/ LoopHead(s) \/ ConnectFail(s)
             \/ Deliver(s) \/ FinishBackward(s) \/ FinishForward(s)
      PROVE  skipped' = skipped
  BY <1>1 DEF Start, Cancel, ConnectOk, LoopHead, ConnectFail, Deliver, FinishBackward,
              FinishForward, Record, history
<1>2. CASE Crash \/ Tick \/ UNCHANGED vars \/ \E e \in Event : Publish(e)
  BY <1>2 DEF Crash, Tick, vars, history, Publish
<1>. QED BY <1>1, <1>2 DEF Next, Step

LEMMA FullStep ==
  GapInv /\ SeenInv /\ OnlyFullSeconds /\ [Next]_vars => OnlyFullSeconds'
<1>. SUFFICES ASSUME GapInv, SeenInv, OnlyFullSeconds, [Next]_vars, "cut" \notin Faults,
                     NEW e \in skipped'
              PROVE  PageOf(CreatedAt[e])'
  BY DEF OnlyFullSeconds, PageOf
<1>0. TypeOK /\ Grows
  BY GrowsAlways DEF GapInv
<1>1. PageOf(CreatedAt[e]) => PageOf(CreatedAt[e])'
  <2>1. offered \subseteq offered'
    BY <1>0 DEF Grows
  <2>. QED BY <2>1 DEF PageOf
<1>2. CASE e \in skipped
  BY <1>1, <1>2 DEF OnlyFullSeconds, PageOf
<1>3. CASE e \notin skipped
  <2>1. PICK s \in Sessions : Query(s)
    BY <1>3, OnlyQuerySkips
  <2>2. PICK ans \in SUBSET Matching(s) :
          /\ IsAnswer(ans, Matching(s))
          /\ skipped' = skipped \cup (LeftOut(s, ans) \ offered)
    BY <2>1 DEF Query
  <2>3. e \in LeftOut(s, ans) /\ e \notin offered
    BY <1>3, <2>2
  <2>4. GoodSession(s) /\ pc[s] = "query" /\ IdsInSecond(cur[s])
    BY <2>1 DEF GapInv, SeenInv, Query
  <2>. QED BY <1>0, <1>1, <2>2, <2>3, <2>4, LeftOutOfFull
<1>. QED BY <1>2, <1>3

\* The invariant of what is left out holds of a backward fetcher.
LEMMA SeenInvHolds ==
  ASSUME BackwardOnly
  PROVE  Spec => [](GapInv /\ SeenInv /\ OnlyFullSeconds)
<1>1. Init => SeenInv /\ OnlyFullSeconds
  BY DEF Init, SeenInv, OnlyFullSeconds, IdsInSecond, NewCursor
<1>. QED BY <1>1, SeenStep, FullStep, GapInvHolds, PTL DEF Spec

\* As long as answers are whole, the page size costs an event only if as many others
\* of its second were handed over (fetchBackward's move past a boundary).
THEOREM OnlyFullSecondsLose ==
  ASSUME BackwardOnly
  PROVE  Spec => []OnlyFullSeconds
  BY SeenInvHolds, PTL

-----------------------------------------------------------------------------
(* The fetcher implements FetchService. *)

ServiceInv == GapInv /\ SeenInv

\* A cursor that has fetched nothing claims nothing.
LEMMA NothingClaimed == ClaimedBy(NewCursor) = {}
  BY DEF ClaimedBy, Claims, NewCursor

\* What the sessions started from changes with the cursor that one of them works with.
LEMMA LoadedMoves ==
  ASSUME TypeOK, NEW s \in Sessions, NEW c, cur' = [cur EXCEPT ![s] = c]
  PROVE  ClaimedByLoaded' = [ClaimedByLoaded EXCEPT ![s] = ClaimedBy(c)]
<1>1. \A t \in Sessions : cur'[t] = IF t = s THEN c ELSE cur[t]
  BY DEF TypeOK
<1>2. ASSUME NEW t \in Sessions
      PROVE  ClaimedBy(cur[t])' = IF t = s THEN ClaimedBy(c) ELSE ClaimedBy(cur[t])
  <2>1. CASE t = s
    <3>1. cur'[t] = c
      BY <1>1, <2>1
    <3>. QED BY <2>1, <3>1 DEF ClaimedBy, Claims
  <2>2. CASE t # s
    <3>1. cur'[t] = cur[t]
      BY <1>1, <2>2
    <3>. QED BY <2>2, <3>1 DEF ClaimedBy, Claims
  <2>. QED BY <2>1, <2>2
<1>. QED BY <1>2 DEF ClaimedByLoaded

\* It stays if the cursors do.
LEMMA ClaimsStay ==
  ASSUME UNCHANGED <<cursor, cur>>
  PROVE  UNCHANGED <<ClaimedBy(cursor), ClaimedByLoaded>>
  BY DEF ClaimedBy, ClaimedByLoaded, Claims

LEMMA ServiceInit == Init => Service!Init
<1>. SUFFICES ASSUME Init PROVE Service!Init
  OBVIOUS
<1>1. cursor = NewCursor /\ \A s \in Sessions : cur[s] = NewCursor
  BY DEF Init
<1>2. ClaimedBy(cursor) = {} /\ ClaimedByLoaded = [s \in Sessions |-> {}]
  BY <1>1, NothingClaimed DEF ClaimedByLoaded
<1>. QED BY <1>2 DEF Init, Service!Init

\* A session that gives up what it started from, with nothing else that counts.
LEMMA GivesUp ==
  ASSUME TypeOK, NEW s \in Sessions, cur' = [cur EXCEPT ![s] = NewCursor],
         UNCHANGED <<relay, cursor, stored, dropped, skipped>>
  PROVE  Service!GiveUp({s})
<1>1. ClaimedByLoaded' = [ClaimedByLoaded EXCEPT ![s] = {}]
  BY LoadedMoves, NothingClaimed
<1>2. ClaimedByLoaded' = [t \in Sessions |-> IF t \in {s} THEN {} ELSE ClaimedByLoaded[t]]
  BY <1>1 DEF ClaimedByLoaded
<1>3. ClaimedBy(cursor)' = ClaimedBy(cursor)
  BY DEF ClaimedBy, Claims
<1>. QED BY <1>2, <1>3 DEF Service!GiveUp

\* The loop head loads the cursor or returns.
LEMMA LoopHeadServes ==
  ASSUME TypeOK, NEW s \in Sessions, LoopHead(s)
  PROVE  Service!Begin(s) \/ Service!GiveUp({s})
<1>0. UNCHANGED <<relay, cursor, stored, dropped, skipped>>
  BY DEF LoopHead, history
<1>1. CASE cur' = [cur EXCEPT ![s] = cursor]
  <2>1. ClaimedByLoaded' = [ClaimedByLoaded EXCEPT ![s] = ClaimedBy(cursor)]
    BY <1>1, LoadedMoves
  <2>2. ClaimedBy(cursor)' = ClaimedBy(cursor)
    BY <1>0 DEF ClaimedBy, Claims
  <2>. QED BY <1>0, <2>1, <2>2 DEF Service!Begin
<1>2. CASE cur' = [cur EXCEPT ![s] = NewCursor]
  BY <1>0, <1>2, GivesUp
<1>. QED BY <1>1, <1>2 DEF LoopHead, Return

\* The query leaves out what its answer does, and no more.
LEMMA QueryServes ==
  ASSUME ServiceInv, NEW s \in Sessions, Query(s)
  PROVE  \E E \in SUBSET Event : Service!LeaveOut(E)
<1>1. PICK ans \in SUBSET Matching(s) :
        /\ IsAnswer(ans, Matching(s))
        /\ skipped' = skipped \cup (LeftOut(s, ans) \ offered)
  BY DEF Query
<1>. DEFINE E == LeftOut(s, ans) \ offered
<1>2. /\ TypeOK /\ GoodSession(s) /\ IdsInSecond(cur[s]) /\ pc[s] = "query"
      /\ UNCHANGED <<relay, cursor, stored, dropped, cur>>
  BY DEF ServiceInv, GapInv, SeenInv, Query
<1>3. E \subseteq relay \ offered /\ E \in SUBSET Event
  BY <1>2 DEF LeftOut, Matching, TypeOK
<1>4. ASSUME "cut" \notin Faults, NEW e \in E PROVE Service!PageOf(CreatedAt[e])
  <2>1. PageOf(CreatedAt[e])
    BY <1>1, <1>2, <1>4, LeftOutOfFull
  <2>2. PICK P \in SUBSET offered :
          Cardinality(P) = FetchLimit /\ \A f \in P : CreatedAt[f] = CreatedAt[e]
    BY <2>1 DEF PageOf
  <2>3. P \in SUBSET Service!handedOver
    BY DEF offered, Service!handedOver
  <2>4. Service!Cardinality(P) = Cardinality(P)
    BY DEF Cardinality, Service!Cardinality
  <2>. QED BY <2>2, <2>3, <2>4 DEF Service!PageOf
<1>5. UNCHANGED <<ClaimedBy(cursor), ClaimedByLoaded>>
  BY <1>2, ClaimsStay
<1>6. Service!LeaveOut(E)
  BY <1>1, <1>2, <1>3, <1>4, <1>5 DEF Service!LeaveOut, Service!handedOver, offered
<1>. QED BY <1>3, <1>6

\* onEvent is given an event of the relay.
LEMMA DeliverServes ==
  ASSUME ServiceInv, NEW s \in Sessions, Deliver(s)
  PROVE  \E e \in Event : Service!HandOver(e)
<1>1. PICK e \in todo[s] :
        \/ stored' = stored \cup {e} /\ UNCHANGED dropped
        \/ dropped' = dropped \cup {e} /\ UNCHANGED stored
  BY DEF Deliver
<1>2. e \in relay /\ e \in Event
  BY DEF ServiceInv, GapInv, SeenInv, TypeOK
<1>3. UNCHANGED <<ClaimedBy(cursor), ClaimedByLoaded>>
  BY ClaimsStay DEF Deliver
<1>4. UNCHANGED <<relay, skipped>>
  BY DEF Deliver
<1>5. Service!HandOver(e)
  BY <1>1, <1>2, <1>3, <1>4 DEF Service!HandOver
<1>. QED BY <1>2, <1>5

\* A save claims what it may, and what it claimed before; one that fails gives it up.
LEMMA FinishServes ==
  ASSUME ServiceInv, NEW s \in Sessions, FinishBackward(s)
  PROVE  Service!Claim(s) \/ Service!GiveUp({s})
<1>1. PICK c \in Cursor, new \in SUBSET Event : Record(s, c, new) /\ Advances(c, cur[s])
  BY FinishAdvances DEF ServiceInv
<1>2. /\ TypeOK /\ cur' = [cur EXCEPT ![s] = NewCursor]
      /\ UNCHANGED <<relay, stored, dropped, skipped>>
  BY <1>1 DEF Record, Return, ServiceInv, GapInv
<1>3. CASE cursor' = cursor
  BY <1>2, <1>3, GivesUp
<1>4. CASE cursor' = [c EXCEPT !.lastFetched = now]
  <2>1. ClaimedByLoaded' = [ClaimedByLoaded EXCEPT ![s] = {}]
    BY <1>2, LoadedMoves, NothingClaimed
  <2>2. Extends(cursor', cur[s])
    BY <1>1, <1>4, StampedAdvances
  <2>3. ClaimedByLoaded[s] \subseteq ClaimedBy(cursor)'
    BY <2>2 DEF ClaimedByLoaded, ClaimedBy, Extends
  <2>4. ASSUME NEW e \in relay, e \in ClaimedBy(cursor)' PROVE e \in offered \cup skipped
    <3>1. /\ cursor'.oldest = c.oldest /\ cursor'.newest = c.newest
          /\ cursor'.reached = c.reached
      BY <1>4 DEF Cursor
    <3>2. Claims(c, e)
      BY <2>4, <3>1 DEF ClaimedBy, Claims
    <3>. QED BY <1>1, <3>2 DEF Advances, GoodCursor, Covered
  <2>. QED BY <1>2, <2>1, <2>3, <2>4 DEF Service!Claim, Service!handedOver, offered
<1>. QED BY <1>1, <1>3, <1>4 DEF Record

\* What is published now is in nobody's claim, because a cursor's newest event is
\* not newer than now.
LEMMA PublishServes ==
  ASSUME ServiceInv, NEW e \in Event, Publish(e)
  PROVE  Service!Publish(e)
<1>1. ASSUME NEW c \in Cursor, GoodCursor(c) PROVE e \notin ClaimedBy(c)
  <2>1. c.newest <= now /\ c.newest \in Int /\ now \in Nat /\ CreatedAt[e] = now
    BY <1>1 DEF GoodCursor, Cursor, Stamp, Nil, ServiceInv, GapInv, TypeOK, Publish
  <2>. QED BY <2>1 DEF ClaimedBy, Claims
<1>2. e \notin ClaimedBy(cursor)
  BY <1>1 DEF ServiceInv, GapInv, TypeOK
<1>3. ASSUME NEW s \in Sessions PROVE e \notin ClaimedByLoaded[s]
  <2>1. cur[s] \in Cursor /\ GoodCursor(cur[s])
    BY DEF ServiceInv, GapInv, GoodSession, TypeOK
  <2>. QED BY <1>1, <2>1 DEF ClaimedByLoaded
<1>4. UNCHANGED <<ClaimedBy(cursor), ClaimedByLoaded>>
  BY ClaimsStay DEF Publish, local
<1>5. relay' = relay \cup {e} /\ UNCHANGED <<stored, dropped, skipped>>
  BY DEF Publish, history
<1>. QED BY <1>2, <1>3, <1>4, <1>5 DEF Service!Publish

\* A crash ends all sessions.
LEMMA CrashServes == ASSUME Crash PROVE Service!GiveUp(Sessions)
<1>1. ClaimedByLoaded' = [s \in Sessions |-> {}]
  BY NothingClaimed DEF Crash, ClaimedByLoaded
<1>2. ClaimedBy(cursor)' = ClaimedBy(cursor)
  BY DEF Crash, ClaimedBy, Claims
<1>. QED BY <1>1, <1>2 DEF Crash, Service!GiveUp

\* Every step is one of the service or changes nothing that it sees.
LEMMA ServiceStep ==
  ServiceInv /\ [Next]_vars => [Service!Next]_(Service!serviceVars)
<1>. SUFFICES ASSUME ServiceInv, [Next]_vars
              PROVE  Service!Next \/ UNCHANGED Service!serviceVars
  OBVIOUS
<1>0. TypeOK
  BY DEF ServiceInv, GapInv
<1>1. ASSUME UNCHANGED <<relay, cursor, stored, cur, dropped, skipped>>
      PROVE  UNCHANGED Service!serviceVars
  BY <1>1, ClaimsStay DEF Service!serviceVars
<1>2. ASSUME NEW s \in Sessions, Start(s) \/ Cancel(s) \/ ConnectOk(s)
      PROVE  UNCHANGED <<relay, cursor, stored, cur, dropped, skipped>>
  BY <1>2 DEF Start, Cancel, ConnectOk, history
<1>3. CASE Tick \/ UNCHANGED vars
  BY <1>1, <1>3 DEF Tick, vars, local, history
<1>4. ASSUME NEW s \in Sessions, LoopHead(s) PROVE Service!Next
  BY <1>0, <1>4, LoopHeadServes DEF Service!Next
<1>5. ASSUME NEW s \in Sessions, ConnectFail(s) PROVE Service!Next
  <2>1. Service!GiveUp({s})
    BY <1>0, <1>5, GivesUp DEF ConnectFail, Return, history
  <2>. QED BY <2>1 DEF Service!Next
<1>6. ASSUME NEW s \in Sessions, Query(s) \/ Deliver(s) PROVE Service!Next
  BY <1>6, QueryServes, DeliverServes DEF Service!Next
<1>7. ASSUME NEW s \in Sessions, FinishBackward(s) PROVE Service!Next
  BY <1>7, FinishServes DEF Service!Next
<1>8. ASSUME NEW s \in Sessions, FinishForward(s) PROVE FALSE
  BY <1>8 DEF FinishForward, ServiceInv, GapInv, GoodSession
<1>9. ASSUME NEW e \in Event, Publish(e) PROVE Service!Next
  BY <1>9, PublishServes DEF Service!Next
<1>10. CASE Crash
  BY <1>10, CrashServes DEF Service!Next
<1>. QED
  BY <1>1, <1>2, <1>3, <1>4, <1>5, <1>6, <1>7, <1>8, <1>9, <1>10 DEF Next, Step

\* A fetcher that runs backward, with any number of sessions, events, faults and any
\* page size, keeps the promise of FetchService (internal/fetcher).
THEOREM FetcherImplementsService ==
  ASSUME BackwardOnly
  PROVE  Spec => ImplementsService
<1>1. Init /\ [][Next]_vars /\ []ServiceInv => Service!Spec
  BY ServiceInit, ServiceStep, PTL DEF Service!Spec
<1>2. Spec => []ServiceInv
  BY SeenInvHolds, PTL DEF ServiceInv
<1>. QED BY <1>1, <1>2 DEF Spec, ImplementsService
=============================================================================
