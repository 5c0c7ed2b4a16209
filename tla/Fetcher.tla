------------------------------- MODULE Fetcher -------------------------------
(***************************************************************************)
(* Cursor based fetching of one relay and filter                           *)
(* (internal/fetcher), driven by the sync goroutines of internal/relay.    *)
(*                                                                         *)
(* A session is one call of FetchContinuously on this relay and filter,    *)
(* made for one client request.  Nothing serialises sessions: several      *)
(* requests for the same subject load, use and save the same persisted     *)
(* cursor.  Cursors of different relays or filters have different IDs and  *)
(* never meet, so one cursor is enough.                                    *)
(*                                                                         *)
(* The relay is external.  It holds events, answers a query with the       *)
(* newest matching ones, and gets new events stamped with the current      *)
(* second.                                                                 *)
(***************************************************************************)
EXTENDS Integers, FiniteSets

CONSTANTS
    Sessions,    \* the concurrent calls of FetchContinuously
    Event,       \* event ids
    CreatedAt,   \* the created_at of each event
    FetchLimit,  \* Config.FetchLimit, the size of a page
    TTL,         \* Config.TTL
    Window,      \* the syncer's deadline, 30 seconds after its start
    StartTime,   \* the clock when the model starts
    MaxTime,     \* bound on the clock
    Directions,  \* directions sessions run in; the program only uses "backward"
    Faults       \* what may go wrong, a subset of FaultKinds

FaultKinds == {"cut", "savefail", "storefail", "cancel", "crash"}

ASSUME FetcherAssumption ==
    /\ CreatedAt \in [Event -> Nat \ {0, 1}]  \* Until = 0 would mean "no until"
    /\ FetchLimit \in Nat \ {0}
    /\ TTL \in Nat /\ Window \in Nat /\ StartTime \in Nat /\ MaxTime \in Nat
    /\ Directions \subseteq {"backward", "forward"}
    /\ Faults \subseteq FaultKinds

Nil == -1                  \* a nil *int64 or *time.Time
Stamp == Nat \cup {Nil}

Cursor == [oldest: Stamp, newest: Stamp, reached: BOOLEAN, lastFetched: Stamp,
           oldestIds: SUBSET Event, newestIds: SUBSET Event]

NewCursor == [oldest |-> Nil, newest |-> Nil, reached |-> FALSE,
              lastFetched |-> Nil, oldestIds |-> {}, newestIds |-> {}]

VARIABLES
    relay,      \* the events the relay holds
    now,        \* wall clock, in seconds
    cursor,     \* the persisted cursor
    stored,     \* events in the local event database
    pc,         \* where each session is in FetchContinuously
    first,      \* isFirstIteration
    deadline,   \* the session's deadline
    dir,        \* the session's FetchDirection
    ctxDone,    \* the request's context is cancelled
    cur,        \* the cursor loaded in this iteration
    until,      \* upper bound of the query
    page,       \* the answer to the query
    todo,       \* new events of the page not yet handed to onEvent
    outcome,    \* what FetchContinuously returned
    dropped,    \* history: events onEvent was given and did not store
    skipped,    \* history: events an answer without anything new left out for good
    alone       \* history: sessions have fetched backward one after the other, and
                \* every cursor was saved

local   == <<pc, first, deadline, dir, ctxDone, cur, until, page, todo, outcome>>
history == <<dropped, skipped, alone>>
vars    == <<relay, now, cursor, stored, local, history>>

offered == stored \cup dropped   \* every event ever handed to onEvent

-----------------------------------------------------------------------------
\* Wrong variants of At: IDs mixed up with timestamps, and a whole second taken
\* for seen because one of its events was.
AtAsStamps(E, t) == {CreatedAt[e] : e \in {f \in E : CreatedAt[f] = t}}
AtWholeSecond(E, t) == {e \in Event : CreatedAt[e] = t}

\* The events of E created in second t.
At(E, t)       == {e \in E : CreatedAt[e] = t}
IsOldest(t, E) == At(E, t) # {} /\ \A e \in E : t <= CreatedAt[e]
IsNewest(t, E) == At(E, t) # {} /\ \A e \in E : CreatedAt[e] <= t
Stamps(E)      == {CreatedAt[e] : e \in E}

IsWithinTTL(c) == c.lastFetched # Nil /\ now - c.lastFetched < TTL

\* The IDs the cursor remembers at the boundary the session works on.
BoundaryIds(s) == IF dir[s] = "backward" THEN cur[s].oldestIds ELSE cur[s].newestIds

\* What the relay holds that matches the session's query.
Matching(s) == {e \in relay : /\ CreatedAt[e] <= until[s]
                              /\ dir[s] = "forward" => cur[s].newest <= CreatedAt[e]}

\* The relay sends the newest matching events first, at most FetchLimit of
\* them.  QueryEvents reports no error: a dropped connection or a CLOSED
\* message only ends the answer early.
IsAnswer(ans, match) ==
    /\ \A e \in ans, f \in match \ ans : CreatedAt[f] <= CreatedAt[e]
    /\ Cardinality(ans) <= FetchLimit
    /\ \/ ans = match
       \/ Cardinality(ans) = FetchLimit
       \/ "cut" \in Faults

\* An answer that brings nothing new ends the fetching of everything it could
\* have held when it is empty, and of the boundary's second otherwise.
LeftOut(s, ans) ==
    {e \in Matching(s) : \/ ans = {}
                         \/ ans \subseteq BoundaryIds(s) /\ CreatedAt[e] = until[s]}

Init ==
    /\ relay \in SUBSET {e \in Event : CreatedAt[e] <= StartTime}
    /\ now = StartTime
    /\ cursor = NewCursor
    /\ stored = {}
    /\ pc = [s \in Sessions |-> "idle"]
    /\ first = [s \in Sessions |-> TRUE]
    /\ deadline = [s \in Sessions |-> 0]
    /\ dir = [s \in Sessions |-> "backward"]
    /\ ctxDone = [s \in Sessions |-> FALSE]
    /\ cur = [s \in Sessions |-> NewCursor]
    /\ until = [s \in Sessions |-> 0]
    /\ page = [s \in Sessions |-> {}]
    /\ todo = [s \in Sessions |-> {}]
    /\ outcome = [s \in Sessions |-> "none"]
    /\ dropped = {} /\ skipped = {} /\ alone = TRUE

-----------------------------------------------------------------------------
\* Wrong variant of Deadline: none that ever passes.
NoDeadline == MaxTime + 1

\* The syncer's deadline.
Deadline == now + Window

\* A request starts a session; its deadline is fixed once.
Start(s) ==
    /\ pc[s] = "idle"
    /\ now + Window <= MaxTime
    /\ pc' = [pc EXCEPT ![s] = "load"]
    /\ deadline' = [deadline EXCEPT ![s] = Deadline]
    /\ \E d \in Directions :
          /\ dir' = [dir EXCEPT ![s] = d]
          /\ IF d = "backward" /\ \A t \in Sessions : pc[t] = "idle"
             THEN UNCHANGED alone ELSE alone' = FALSE
    /\ outcome' = [outcome EXCEPT ![s] = "none"]
    /\ UNCHANGED <<first, ctxDone>>
    /\ UNCHANGED <<relay, now, cursor, stored, cur, until, page, todo, dropped, skipped>>

\* FetchContinuously returns.
Return(s, result) ==
    /\ pc' = [pc EXCEPT ![s] = "idle"]
    /\ outcome' = [outcome EXCEPT ![s] = result]
    /\ cur' = [cur EXCEPT ![s] = NewCursor]
    /\ first' = [first EXCEPT ![s] = TRUE]
    /\ deadline' = [deadline EXCEPT ![s] = 0]
    /\ dir' = [dir EXCEPT ![s] = "backward"]
    /\ ctxDone' = [ctxDone EXCEPT ![s] = FALSE]

\* One loop head: the deadline, then LoadCursor and the checks of FetchEvents
\* that need no connection.  Only the first iteration looks at the TTL.
LoopHead(s) ==
    /\ pc[s] = "load"
    /\ \/ now >= deadline[s] /\ Return(s, "timedOut")
       \/ /\ now < deadline[s]
          /\ first[s] /\ IsWithinTTL(cursor)
          /\ Return(s, "skippedTTL")
       \/ /\ now < deadline[s]
          /\ ~(first[s] /\ IsWithinTTL(cursor))
          /\ IF dir[s] = "backward" THEN cursor.reached ELSE cursor.newest = Nil
          /\ Return(s, "reachedEnd")
       \/ /\ now < deadline[s]
          /\ ~(first[s] /\ IsWithinTTL(cursor))
          /\ ~IF dir[s] = "backward" THEN cursor.reached ELSE cursor.newest = Nil
          /\ pc' = [pc EXCEPT ![s] = "connect"]
          /\ cur' = [cur EXCEPT ![s] = cursor]
          /\ first' = [first EXCEPT ![s] = FALSE]
          /\ UNCHANGED <<outcome, deadline, dir, ctxDone>>
    /\ UNCHANGED <<relay, now, cursor, stored, until, page, todo, history>>

\* RelayConnect fails: unreachable, timed out, or the request was cancelled.
\* The cursor is not saved, so the TTL does not hold back the next session.
ConnectFail(s) ==
    /\ pc[s] = "connect"
    /\ Return(s, "error")
    /\ UNCHANGED <<relay, now, cursor, stored, until, page, todo, history>>

\* Wrong variant of QueryUntil: it leaves out the rest of the boundary's second.
BelowBoundary(s) ==
    IF dir[s] = "backward" /\ cur[s].oldest # Nil THEN cur[s].oldest - 1 ELSE now

\* The "until" of the query.
QueryUntil(s) ==
    IF dir[s] = "backward" /\ cur[s].oldest # Nil THEN cur[s].oldest ELSE now

ConnectOk(s) ==
    /\ pc[s] = "connect"
    /\ ~ctxDone[s]
    /\ pc' = [pc EXCEPT ![s] = "query"]
    /\ until' = [until EXCEPT ![s] = QueryUntil(s)]
    /\ UNCHANGED <<relay, now, cursor, stored, first, deadline, dir, ctxDone,
                   cur, page, todo, outcome, history>>

\* QueryEvents, and the removal of the events the boundary already names.
Query(s) ==
    /\ pc[s] = "query"
    /\ \E ans \in SUBSET Matching(s) :
          /\ IsAnswer(ans, Matching(s))
          /\ page' = [page EXCEPT ![s] = ans]
          /\ todo' = [todo EXCEPT ![s] = ans \ BoundaryIds(s)]
          /\ skipped' = skipped \cup (LeftOut(s, ans) \ offered)
    /\ pc' = [pc EXCEPT ![s] = "deliver"]
    /\ UNCHANGED <<relay, now, cursor, stored, first, deadline, dir, ctxDone,
                   cur, until, outcome, dropped, alone>>

\* onEvent on the next new event: nothing happens once the context is
\* cancelled, otherwise SaveEvent, whose failure is only logged.
Deliver(s) ==
    /\ pc[s] = "deliver"
    /\ \E e \in todo[s] :
          /\ \A f \in todo[s] : CreatedAt[f] <= CreatedAt[e]
          /\ todo' = [todo EXCEPT ![s] = @ \ {e}]
          /\ \/ /\ ~ctxDone[s]
                /\ stored' = stored \cup {e}
                /\ UNCHANGED dropped
             \/ /\ ctxDone[s] \/ "storefail" \in Faults
                /\ dropped' = dropped \cup {e}
                /\ UNCHANGED stored
    /\ UNCHANGED <<relay, now, cursor, pc, first, deadline, dir, ctxDone, cur,
                   until, page, outcome, skipped, alone>>

\* SaveCursor (a failure is only logged) and FetchContinuously's decision to
\* return or to go round again.
Record(s, c, new) ==
    /\ \/ cursor' = [c EXCEPT !.lastFetched = now] /\ UNCHANGED alone
       \/ "savefail" \in Faults /\ alone' = FALSE /\ UNCHANGED cursor
    /\ IF c.reached \/ new = {}
       THEN Return(s, "reachedEnd")
       ELSE /\ pc' = [pc EXCEPT ![s] = "load"]
            /\ cur' = [cur EXCEPT ![s] = NewCursor]
            /\ UNCHANGED <<outcome, first, deadline, dir, ctxDone>>
    /\ until' = [until EXCEPT ![s] = 0]
    /\ page' = [page EXCEPT ![s] = {}]
    /\ UNCHANGED <<relay, now, stored, todo, dropped, skipped>>

\* Wrong variant of BackwardCursor: it forgets the IDs the boundary already had.
BackwardCursorForgets(c, new, lo, hi) ==
    [c EXCEPT !.oldest = lo,
              !.oldestIds = At(new, lo),
              !.newest = IF c.newest = Nil THEN hi ELSE @,
              !.newestIds = IF c.newest = Nil THEN At(new, hi) ELSE @]

\* fetchBackward's cursor after a page with new events.
BackwardCursor(c, new, lo, hi) ==
    [c EXCEPT !.oldest = lo,
              !.oldestIds = IF c.oldest = lo THEN @ \cup At(new, lo) ELSE At(new, lo),
              !.newest = IF c.newest = Nil THEN hi ELSE @,
              !.newestIds = IF c.newest = Nil THEN At(new, hi) ELSE @]

\* Wrong variant of MovePastBoundary: it forgets the IDs and stays where it is.
StayAtBoundary(c) == [c EXCEPT !.oldestIds = {}]

\* fetchBackward's cursor after an answer that held only seen events.
MovePastBoundary(c) == [c EXCEPT !.oldest = c.oldest - 1, !.oldestIds = {}]

FinishBackward(s) ==
    LET c   == cur[s]
        new == page[s] \ c.oldestIds
    IN  /\ pc[s] = "deliver" /\ todo[s] = {} /\ dir[s] = "backward"
        /\ \/ \E lo, hi \in Stamps(new) :
                 /\ IsOldest(lo, new) /\ IsNewest(hi, new)
                 /\ Record(s, BackwardCursor(c, new, lo, hi), new)
           \/ /\ page[s] = {}
              /\ Record(s, [c EXCEPT !.reached = TRUE], {})
           \/ /\ page[s] # {} /\ new = {} /\ c.oldest # Nil
              /\ Record(s, MovePastBoundary(c), {})

\* fetchForward's cursor after a page with new events: the boundary is
\* replaced even when the newest second did not change.
ForwardCursor(c, new, hi) == [c EXCEPT !.newest = hi, !.newestIds = At(new, hi)]

FinishForward(s) ==
    LET c   == cur[s]
        new == page[s] \ c.newestIds
    IN  /\ pc[s] = "deliver" /\ todo[s] = {} /\ dir[s] = "forward"
        /\ \/ \E hi \in Stamps(new) :
                 IsNewest(hi, new) /\ Record(s, ForwardCursor(c, new, hi), new)
           \/ new = {} /\ Record(s, c, new)

-----------------------------------------------------------------------------
\* The client disconnects.
Cancel(s) ==
    /\ "cancel" \in Faults /\ pc[s] # "idle" /\ ~ctxDone[s]
    /\ ctxDone' = [ctxDone EXCEPT ![s] = TRUE]
    /\ UNCHANGED <<relay, now, cursor, stored, pc, first, deadline, dir, cur,
                   until, page, todo, outcome, history>>

\* The process dies and restarts: Bolt keeps the cursor and the events.
Crash ==
    /\ "crash" \in Faults /\ \E s \in Sessions : pc[s] # "idle"
    /\ pc' = [s \in Sessions |-> "idle"]
    /\ cur' = [s \in Sessions |-> NewCursor]
    /\ until' = [s \in Sessions |-> 0]
    /\ page' = [s \in Sessions |-> {}]
    /\ todo' = [s \in Sessions |-> {}]
    /\ outcome' = [s \in Sessions |-> "none"]
    /\ first' = [s \in Sessions |-> TRUE]
    /\ deadline' = [s \in Sessions |-> 0]
    /\ dir' = [s \in Sessions |-> "backward"]
    /\ ctxDone' = [s \in Sessions |-> FALSE]
    /\ alone' = FALSE
    /\ UNCHANGED <<relay, now, cursor, stored, dropped, skipped>>

\* Somebody publishes an event to the relay.
Publish(e) ==
    /\ e \notin relay /\ CreatedAt[e] = now
    /\ relay' = relay \cup {e}
    /\ UNCHANGED <<now, cursor, stored, local, history>>

Tick ==
    /\ now < MaxTime
    /\ now' = now + 1
    /\ UNCHANGED <<relay, cursor, stored, local, history>>

Step(s) ==
    \/ LoopHead(s) \/ ConnectFail(s) \/ ConnectOk(s) \/ Query(s) \/ Deliver(s)
    \/ FinishBackward(s) \/ FinishForward(s)

Next ==
    \/ \E s \in Sessions : Start(s) \/ Step(s) \/ Cancel(s)
    \/ \E e \in Event : Publish(e)
    \/ Crash
    \/ Tick

Spec == Init /\ [][Next]_vars

\* The Go scheduler runs every goroutine, connecting is bounded by
\* FetchTimeout, the relay ends its answers, and time passes.
Fairness == (\A s \in Sessions : WF_vars(Step(s))) /\ WF_vars(Tick)

FairSpec == Spec /\ Fairness

-----------------------------------------------------------------------------
Outcomes == {"none", "timedOut", "skippedTTL", "reachedEnd", "error"}

\* Type invariant of the fetcher's state.
TypeOK ==
    /\ relay \subseteq Event
    /\ now \in Nat
    /\ cursor \in Cursor
    /\ stored \subseteq Event
    /\ pc \in [Sessions -> {"idle", "load", "connect", "query", "deliver"}]
    /\ first \in [Sessions -> BOOLEAN]
    /\ deadline \in [Sessions -> Nat]
    /\ dir \in [Sessions -> {"backward", "forward"}]
    /\ ctxDone \in [Sessions -> BOOLEAN]
    /\ cur \in [Sessions -> Cursor]
    /\ until \in [Sessions -> Stamp]
    /\ page \in [Sessions -> SUBSET Event]
    /\ todo \in [Sessions -> SUBSET Event]
    /\ outcome \in [Sessions -> Outcomes]
    /\ dropped \subseteq Event
    /\ skipped \subseteq Event
    /\ alone \in BOOLEAN

\* The range a cursor claims: everything newer than its oldest boundary, and
\* everything once the beginning is reached, below its newest event.
Claims(c, e) ==
    /\ c.oldest # Nil
    /\ CreatedAt[e] < c.newest
    /\ c.oldest < CreatedAt[e] \/ c.reached

Covered(c) == \A e \in relay : Claims(c, e) => e \in offered \cup skipped

\* Every event in the range the persisted cursor claims has been handed to
\* onEvent, whatever sessions overwrite each other's cursor, requests are
\* cancelled, answers are cut, saves fail or the process crashes.  The only
\* exceptions are the events left out by an answer that brought nothing new
\* (fetchBackward, SaveCursor).
GapFree == Covered(cursor)

\* An event whose ID makes fetchBackward skip it has been handed to onEvent.
BoundaryIdsOffered == cursor.oldestIds \subseteq offered

\* Boundary IDs and the moving boundary keep fetchBackward from handing the
\* same event over twice, until two sessions overlap, a save fails or the process
\* crashes (docs/architecture/sync-and-storage.md).
NeverRepeated ==
    [][alone => \A s \in Sessions : pc[s] = "deliver" /\ pc'[s] = "deliver"
          => (todo[s] \ todo'[s]) \cap offered = {}]_vars

\* d claims all that c does.
Extends(d, c) == \A e \in Event : Claims(c, e) => Claims(d, e)

\* d is further down than c: at the end, at an older boundary, or at the same one
\* with more of its events seen.
IsPast(d, c) ==
    \/ d.reached
    \/ c.oldest = Nil /\ d.oldest # Nil
    \/ d.oldest < c.oldest
    \/ d.oldest = c.oldest /\ c.oldestIds \subseteq d.oldestIds /\ c.oldestIds # d.oldestIds

\* A session that has a page behind it saves a cursor that claims all that the one
\* loaded for this page did, and is further down.
SaveAdvances ==
    \E s \in Sessions :
        /\ pc[s] = "deliver" /\ pc'[s] # "deliver"
        /\ Extends(cursor', cur[s]) /\ IsPast(cursor', cur[s])

\* Sessions may take one another's progress back, but none gives a claim up or asks
\* for a page for nothing: the cursor only changes when one saves what follows from
\* the cursor it had loaded (fetchBackward, SaveCursor).
PagesMoveOn == [][cursor' # cursor => SaveAdvances]_vars

\* A relay that is not cut short loses an event to the page size only: if it is left
\* out, as many events of its second as a page holds were handed over (fetchBackward's
\* move past a boundary that brought nothing new).
OnlyFullSeconds ==
    "cut" \notin Faults =>
        \A e \in skipped :
            \E P \in SUBSET offered :
                Cardinality(P) = FetchLimit /\ \A f \in P : CreatedAt[f] = CreatedAt[e]

\* What a cursor claims, and what the cursors that sessions loaded do.
ClaimedBy(c)    == {e \in Event : Claims(c, e)}
ClaimedByLoaded == [s \in Sessions |-> ClaimedBy(cur[s])]

Service == INSTANCE FetchService WITH
    Second <- CreatedAt, Limit <- FetchLimit, Cut <- "cut" \in Faults,
    claimed <- ClaimedBy(cursor), from <- ClaimedByLoaded

\* The fetcher keeps the promise of FetchService: what the cursor claims, below the
\* newest second that was fetched, was handed over or left out, whatever cursor
\* overwrites which (FetchContinuously, fetchBackward, LoadCursor and SaveCursor).
ImplementsService == Service!Spec

\* Every session ends: by its deadline at the latest, whatever fails
\* (FetchContinuously).
SessionEnds == \A s \in Sessions : pc[s] # "idle" ~> pc[s] = "idle"

-----------------------------------------------------------------------------
(* Statements of the documentation that the code does not keep. *)

\* "Fetched source events are persisted into BoltDB": what the cursor claims
\* and the relay held is in the event database.
ClaimedIsStored == \A e \in relay : Claims(cursor, e) => e \in stored

\* "fresh deltas fetched during the request": a session that reports the end
\* has fetched all events of the seconds before the request started.
FreshFetched ==
    [][\A s \in Sessions : outcome[s] = "none" /\ outcome'[s] = "reachedEnd"
          => \A e \in relay : CreatedAt[e] < deadline[s] - Window => e \in offered]_vars
=============================================================================
