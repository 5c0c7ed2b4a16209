------------------------------ MODULE Assertion ------------------------------
(***************************************************************************)
(* What the assertions about one subject say, and which of them the        *)
(* storage relays keep.                                                    *)
(*                                                                         *)
(* Stream models the course of a request and takes the content of a wave   *)
(* as one look at the event database.  Here the content is modelled: the   *)
(* author filter decides which source events are synced, the metrics are   *)
(* computed from one query after the other while this and other requests   *)
(* store events, the assertions of the final wave are signed, and          *)
(* goroutines of their own carry them to the storage relays.               *)
(*                                                                         *)
(* Clients that leave, and events that cannot be stored, are Stream's, and *)
(* so is the loop over the metrics of a wave, here one step.  Events that  *)
(* no relay can be reached for are left out of scene.remote.               *)
(***************************************************************************)
EXTENDS MetricKeys, Metrics, Discovery

CONSTANTS
    Requests,    \* 1 .. n; the smaller one's assertion has the lower event ID
    Scenes,      \* what a run starts from, see Scene
    Subject,     \* the subject of each kind of assertion
    Root,        \* the event that is the subject of kind "event"
    Holds,       \* the events each relay holds
    StartTime    \* the clock when the model starts

ASSUME AssertionAssumption ==
    /\ MetricsAssumption /\ DiscoveryAssumption
    /\ Requests \subseteq Nat
    /\ StartTime \in Nat
    /\ \A s \in Scenes :
          /\ s.kind \in Kinds /\ s.requests \subseteq Requests
          /\ s.local \subseteq Event /\ s.remote \subseteq Event
          /\ s.popular \in Seq(StorageRelay) /\ s.nip65 \in Seq(StorageRelay)
          /\ s.maxTime \in Nat /\ s.maxUpdates \in Nat

VARIABLES
    scene,     \* constant: the subject's kind, the author filter, who asks,
               \* the event database and the network at the start, what the
               \* storage relays do to lookups, which of them take
               \* publications, whether publications get lost, and the bounds on
               \* the clock and on the waves between the first and the final one
    now,       \* wall clock, in seconds
    db,        \* source events in the event database
    pc,        \* where each request is
    wave,      \* the kind of wave it works on
    updates,   \* waves sent between the first and the final one
    next,      \* the number of the next query
    got,       \* the answers to the queries of this wave, and of the last
    graph,     \* the rank engine has answered
    base,      \* history: the event database when the wave was begun
    began,     \* the clock when the wave was begun
    ended,     \* history: the clock when the final wave was signed
    spc,       \* where the request's sync is
    peers,     \* the relays of its two groups of fetches
    handed,    \* events the sync was given
    fresh,     \* EventCount has grown since the last wave
    outbox,    \* assertions on their way to a storage relay
    received,  \* history: assertions that reached each storage relay
    kept       \* the assertions each storage relay keeps

compute   == <<wave, updates, next, got, graph, base, began, ended>>
sync      == <<db, spc, peers, handed>>
published == <<outbox, received, kept>>
vars      == <<scene, now, pc, compute, sync, fresh, published>>

kind    == scene.kind
subject == Subject[kind]

asked == {metric \in MetricsOf(kind) : shouldGenerateMetric(kind, metric, scene.authors)}

Init ==
    /\ scene \in Scenes
    /\ now = StartTime
    /\ db = scene.local
    /\ pc = [r \in Requests |-> "idle"]
    /\ wave = [r \in Requests |-> "initial"]
    /\ updates = [r \in Requests |-> 0]
    /\ next = [r \in Requests |-> 1]
    /\ got = [r \in Requests |-> [q \in DOMAIN Queries(scene.kind) |-> {}]]
    /\ graph = [r \in Requests |-> FALSE]
    /\ base = [r \in Requests |-> {}]
    /\ began = [r \in Requests |-> 0]
    /\ ended = [r \in Requests |-> 0]
    /\ spc = [r \in Requests |-> "off"]
    /\ peers = [r \in Requests |-> [own |-> {}, reports |-> {}]]
    /\ handed = [r \in Requests |-> {}]
    /\ fresh = [r \in Requests |-> FALSE]
    /\ outbox = {}
    /\ received = [x \in scene.outlets |-> {}]
    /\ kept = [x \in scene.outlets |-> {}]

-----------------------------------------------------------------------------
(* What a sync asks for *)

UserSync ==
    [posts       |-> {Authored(1)},
     reactions   |-> {Authored(7)},
     followers   |-> {Tagging({3}, "p")},
     zapsRecd    |-> {Tagging({9735}, "p"), Tagging({9321}, "p")},
     zapsSent    |-> {Tagging({9735}, "P"), Authored(9321)},
     reportsRecd |-> {Tagging({1984}, "p")},
     reportsSent |-> {Authored(1984)}]

EventSync ==
    {Tagging({1}, "e"), Tagging({1}, "q"), Tagging({6}, "e"), Tagging({7}, "e"),
     Tagging({9735}, "e"), Tagging({9321}, "e")}

AddressSync ==
    {Tagging({1}, "a"), Tagging({6, 16}, "a"), Tagging({7}, "a"),
     Tagging({9735}, "a"), Tagging({9321}, "a")}

ReportTypes == {"reportsRecd", "reportsSent"}

required == GetRequiredFilters(getRequestedMetrics(kind, scene.authors))

\* What the relays hold of these filters.
Found(filters, relays) ==
    {e \in scene.remote : /\ \E filter \in filters : Matches(filter, e, subject)
                          /\ \E x \in relays : e \in Holds[x]}

\* The events the sync of r can be given when it looks for these types.
Wanted(r, types) ==
    CASE kind = "user" ->
            Found(UNION {UserSync[t] : t \in types \ ReportTypes}, peers[r].own)
            \cup Found(UNION {UserSync[t] : t \in types \cap ReportTypes}, peers[r].reports)
      [] kind = "event"   -> Found(EventSync, peers[r].own)
      [] kind = "address" -> Found(AddressSync, peers[r].own)

\* The author's relays are looked up if the event is in the event database or
\* on a popular relay, or if the address names an author.
AuthorRelays ==
    IF \/ kind = "event" /\ \/ Root \in db
                            \/ \E x \in Range(GetPopularRelays(scene.popular)) :
                                  Root \in Holds[x] \cap scene.remote
       \/ kind = "address" /\ scene.authorKnown
    THEN GetUserNIP65Relays(scene.nip65)
    ELSE <<>>

-----------------------------------------------------------------------------
(* Computing the metrics of a wave *)

BeginWave(r, w) ==
    /\ pc' = [pc EXCEPT ![r] = "query"]
    /\ wave' = [wave EXCEPT ![r] = w]
    /\ next' = [next EXCEPT ![r] = 1]
    /\ base' = [base EXCEPT ![r] = db]
    /\ began' = [began EXCEPT ![r] = now]
    /\ fresh' = [fresh EXCEPT ![r] = FALSE]
    /\ UNCHANGED <<scene, now, got, graph, ended, sync, published>>

\* The request arrives, and the relays of the user are looked up.
Begin(r) ==
    /\ pc[r] = "idle" /\ r \in scene.requests
    /\ BeginWave(r, "initial")
    /\ UNCHANGED updates

\* Wrong variant of Query: what an earlier wave has found is not asked again.
QueryOnce(r) ==
    /\ pc[r] = "query" /\ next[r] <= Len(Order(kind))
    /\ LET q == Order(kind)[next[r]] IN
          \E answer \in Answers({e \in db : Matches(Queries(kind)[q], e, subject)}) :
              got' = [got EXCEPT ![r][q] = IF @ = {} THEN answer ELSE @]
    /\ next' = [next EXCEPT ![r] = @ + 1]
    /\ UNCHANGED <<scene, now, pc, wave, updates, graph, base, began, ended, sync, fresh, published>>

\* One query; others store events before the next.
Query(r) ==
    /\ pc[r] = "query" /\ next[r] <= Len(Order(kind))
    /\ LET q == Order(kind)[next[r]] IN
          \E answer \in Answers({e \in db : Matches(Queries(kind)[q], e, subject)}) :
              got' = [got EXCEPT ![r][q] = answer]
    /\ next' = [next EXCEPT ![r] = @ + 1]
    /\ UNCHANGED <<scene, now, pc, wave, updates, graph, base, began, ended, sync, fresh, published>>

\* GetUserRank, which may fail, for users.
Rank(r) ==
    /\ pc[r] = "query" /\ next[r] > Len(Order(kind))
    /\ \E answers \in IF kind = "user" THEN BOOLEAN ELSE {FALSE} :
           graph' = [graph EXCEPT ![r] = answers]
    /\ pc' = [pc EXCEPT ![r] = "send"]
    /\ UNCHANGED <<scene, now, wave, updates, next, got, base, began, ended, sync, fresh, published>>

Computed(g, r) ==
    CASE kind = "user"    -> ComputeUserMetrics(g, began[r], graph[r])
      [] kind = "event"   -> ComputeEventMetrics(g, subject)
      [] kind = "address" -> ComputeAddressMetrics(g)

\* The metrics a wave has an assertion for: topics need not have one.
Wave(r) == {metric \in asked : metric = "t" => TopTopics(got[r].posts) # {{}}}

-----------------------------------------------------------------------------
(* Sending a wave, and the sync beside it *)

\* Wrong variant of SignedAt: the time of the newest source event.
SignedAtNewest(r) == Max({0} \cup Stamps(UNION Range(got[r])))

\* createMetricEvent takes the time when it signs.
SignedAt(r) == now

Signed(r) == {[key |-> GetPubKey(kind, metric), by |-> r, at |-> SignedAt(r)] :
                 metric \in Wave(r)}

\* Wrong variant of Publications: the goroutines share the loop's variable, so all
\* of them publish to one storage relay.
PublicationsToOne(r) ==
    {<<a, CHOOSE y \in scene.outlets : TRUE>> : a \in Signed(r), x \in scene.outlets}

\* A goroutine for each assertion and each storage relay.
Publications(r) == Signed(r) \X scene.outlets

\* The assertions are sent to the client; those of the final wave are published.
SendWave(r) ==
    /\ pc[r] = "send"
    /\ \/ /\ wave[r] = "initial"
          /\ spc' = [spc EXCEPT ![r] = "begin"]
          /\ pc' = [pc EXCEPT ![r] = "select"]
          /\ UNCHANGED <<ended, outbox>>
       \/ /\ wave[r] = "update"
          /\ pc' = [pc EXCEPT ![r] = "select"]
          /\ UNCHANGED <<ended, spc, outbox>>
       \/ /\ wave[r] = "final"
          /\ ended' = [ended EXCEPT ![r] = now]
          /\ outbox' = outbox \cup Publications(r)
          /\ pc' = [pc EXCEPT ![r] = "done"]
          /\ UNCHANGED spc
    /\ UNCHANGED <<scene, now, wave, updates, next, got, graph, base, began, db, peers, handed,
                   fresh, received, kept>>

\* The goroutine of the sync looks the relays up that are not known yet.
SyncBegin(r) ==
    /\ spc[r] = "begin"
    /\ LET popular == GetPopularRelays(scene.popular)
           merged  == IF kind = "user"
                      THEN MergeRelays(popular, GetUserNIP65Relays(scene.nip65))
                      ELSE MergeRelays(popular, AuthorRelays)
       IN  peers' = [peers EXCEPT ![r] =
                        [own |-> IF kind = "user" THEN Range(GetUserNIP65Relays(scene.nip65))
                                 ELSE Range(merged),
                         reports |-> Range(merged)]]
    /\ spc' = [spc EXCEPT ![r] = "run"]
    /\ UNCHANGED <<scene, now, pc, compute, db, handed, fresh, published>>

\* onEvent: an event is stored and counted.
Store(r) ==
    /\ spc[r] = "run"
    /\ \E e \in Wanted(r, required) \ handed[r] :
          /\ db' = db \cup {e}
          /\ handed' = [handed EXCEPT ![r] = @ \cup {e}]
    /\ fresh' = [fresh EXCEPT ![r] = TRUE]
    /\ UNCHANGED <<scene, now, pc, compute, spc, peers, published>>

\* The fetches end with all events, by an error, or at the deadline.
EndSync(r) ==
    /\ spc[r] = "run"
    /\ spc' = [spc EXCEPT ![r] = "closed"]
    /\ UNCHANGED <<scene, now, pc, compute, db, peers, handed, fresh, published>>

\* A tick finds the count grown.
Update(r) ==
    /\ pc[r] = "select" /\ fresh[r] /\ updates[r] < scene.maxUpdates
    /\ BeginWave(r, "update")
    /\ updates' = [updates EXCEPT ![r] = @ + 1]

\* Wrong variant of Final: the final wave is left out if the count has not grown.
FinalIfFresh(r) ==
    /\ pc[r] = "select" /\ spc[r] = "closed" /\ fresh[r]
    /\ BeginWave(r, "final")
    /\ UNCHANGED updates

\* Done is closed.
Final(r) ==
    /\ pc[r] = "select" /\ spc[r] = "closed"
    /\ BeginWave(r, "final")
    /\ UNCHANGED updates

-----------------------------------------------------------------------------
(* Publication.  A storage relay keeps one assertion per key, kind and d tag. *)

\* The newer one, and of two with the same time the one with the lower ID.
Replaces(a, b) == a.at > b.at \/ (a.at = b.at /\ a.by < b.by)

Keep(a, S) ==
    IF \E b \in S : b.key = a.key /\ ~Replaces(a, b) THEN S
    ELSE {b \in S : b.key # a.key} \cup {a}

Deliver(m) ==
    /\ m \in outbox
    /\ outbox' = outbox \ {m}
    /\ received' = [received EXCEPT ![m[2]] = @ \cup {m[1]}]
    /\ kept' = [kept EXCEPT ![m[2]] = Keep(m[1], @)]
    /\ UNCHANGED <<scene, now, pc, compute, sync, fresh>>

\* The connection or the publication fails; nobody tries again.
Lose(m) ==
    /\ m \in outbox /\ scene.lossy
    /\ outbox' = outbox \ {m}
    /\ UNCHANGED <<scene, now, pc, compute, sync, fresh, received, kept>>

Tick ==
    /\ now < scene.maxTime
    /\ now' = now + 1
    /\ UNCHANGED <<scene, pc, compute, sync, fresh, published>>

Work(r) == Query(r) \/ Rank(r) \/ SendWave(r) \/ Update(r) \/ Final(r)

Next ==
    \/ \E r \in Requests : Begin(r) \/ Work(r) \/ SyncBegin(r) \/ Store(r) \/ EndSync(r)
    \/ \E m \in outbox : Deliver(m) \/ Lose(m)
    \/ Tick

Spec == Init /\ [][Next]_vars

\* Every goroutine runs, every sync ends by its deadline, and a publication
\* that does not fail arrives.
Fairness ==
    /\ \A r \in Requests : WF_vars(Work(r)) /\ WF_vars(SyncBegin(r)) /\ WF_vars(EndSync(r))
    /\ WF_vars(\E m \in outbox : Deliver(m))

FairSpec == Spec /\ Fairness

-----------------------------------------------------------------------------
Assertions == [key: MetricKeySet, by: Requests, at: Nat]

\* Type invariant of the requests, their syncs and the storage relays.
TypeOK ==
    /\ scene \in Scenes /\ now \in Nat /\ db \subseteq Event
    /\ pc \in [Requests -> {"idle", "query", "send", "select", "done"}]
    /\ wave \in [Requests -> {"initial", "update", "final"}]
    /\ updates \in [Requests -> Nat] /\ next \in [Requests -> Nat \ {0}]
    /\ got \in [Requests -> [DOMAIN Queries(kind) -> SUBSET Event]]
    /\ graph \in [Requests -> BOOLEAN] /\ fresh \in [Requests -> BOOLEAN]
    /\ base \in [Requests -> SUBSET Event] /\ began \in [Requests -> Nat]
    /\ ended \in [Requests -> Nat]
    /\ spc \in [Requests -> {"off", "begin", "run", "closed"}]
    /\ handed \in [Requests -> SUBSET Event]
    /\ outbox \subseteq Assertions \X scene.outlets
    /\ received \in [scene.outlets -> SUBSET Assertions]
    /\ kept \in [scene.outlets -> SUBSET Assertions]

\* What a query finds among the events S.
Selected(q, S) == {e \in S : Matches(Queries(kind)[q], e, subject)}

\* The answers r would have if its sync had asked for every type of event,
\* less what the limit keeps out.
Filled(r) ==
    [q \in DOMAIN got[r] |->
        got[r][q] \cup
        {e \in Selected(q, Wanted(r, FilterAll)) :
            ~ /\ Cardinality(got[r][q]) = QueryLimit
              /\ \A f \in got[r][q] : Data[e].at <= Data[f].at}]

\* A sync that asks only for the types of events that the requested metrics need
\* gives these metrics the values that a sync of everything would have given
\* them: the tables in keys.go, the filters in sync.go and the queries in
\* metrics.go agree ("Selective relay queries", rank-and-signing.md).
SelectiveIsEnough ==
    \A r \in Requests :
        /\ pc[r] = "send" /\ wave[r] = "final"
        /\ Wanted(r, required) \subseteq handed[r]
        => LET all   == Filled(r)
               mine  == Computed(got[r], r)
               whole == Computed(all, r)
           IN
           /\ \A metric \in asked \ {"t"} : mine[metric] = whole[metric]
           /\ "t" \in asked => TopTopics(got[r].posts) = TopTopics(all.posts)

\* Every wave counts what the event database held when the wave was begun, or
\* newer events up to the limit, and nothing that it does not hold, although the
\* queries are asked while events are stored (Compute*Metrics).
WaveIsCurrent ==
    \A r \in Requests : pc[r] = "send" =>
        \A q \in DOMAIN got[r] :
            /\ got[r][q] \subseteq db
            /\ \A e \in Selected(q, base[r]) \ got[r][q] :
                  /\ Cardinality(got[r][q]) = QueryLimit
                  /\ \A f \in got[r][q] : Data[e].at <= Data[f].at

\* A note that refers to the event by a reply and by a quote is counted once, and
\* every note the database had when the wave was begun is counted, whenever the
\* others are stored (ComputeEventMetrics).
MentionsCountedOnce ==
    \A r \in Requests : pc[r] = "send" /\ kind = "event" =>
        /\ CommentsOf(got[r], subject) \cap got[r].quotes = {}
        /\ Cardinality(got[r].comments) < QueryLimit /\ Cardinality(got[r].quotes) < QueryLimit
           => Selected("comments", base[r]) \subseteq CommentsOf(got[r], subject) \cup got[r].quotes

\* The active hours are a proper part of the day, around midnight if need be,
\* which holds the first of the busiest hours and every hour that is joined to it,
\* at most eleven hours away, by hours with more than a quarter of its notes
\* (findActiveHoursRange).
ActiveHoursReachOut ==
    \A r \in Requests : pc[r] = "send" /\ kind = "user" /\ got[r].posts # {} =>
        LET counts == HourCounts(got[r].posts)
            hours  == ActiveHours(counts)
            peak   == PeakHour(counts)
            busy(direction, k) ==
                \A i \in 1 .. k :
                    4 * counts[(peak + direction * i + 24) % 24] > counts[peak]
        IN  /\ hours[1] # hours[2]
            /\ \A direction \in {-1, 1} : \A k \in 0 .. 11 : busy(direction, k) =>
                  IsActive((peak + direction * k + 24) % 24, hours[1], hours[2])

\* Every active hour has more than a quarter of the notes of the busiest one, as
\* the comment on the range has it (metrics.go, line 358); the code compares with
\* the quarter rounded down, and takes an hour that has just as many.
ActiveHoursAboveQuarter ==
    \A r \in Requests : pc[r] = "send" /\ kind = "user" /\ got[r].posts # {} =>
        LET counts == HourCounts(got[r].posts)
            hours  == ActiveHours(counts)
        IN  \A h \in 0 .. 23 :
                IsActive(h, hours[1], hours[2]) => 4 * counts[h] > Peak(counts)

\* A lookup gives the list of the first storage relay that has one and is reached
\* in time, and the built-in list only if there is none; relays that are down,
\* slow or without a list are passed over (GetPopularRelays, GetUserNIP65Relays).
LookupFindsFirst ==
    \A r \in Requests : spc[r] = "begin" =>
        \A storage \in {scene.popular, scene.nip65} : Lookup(storage) = FirstKnown(storage)

\* When everything on its way has arrived and nothing was lost, all storage relays
\* keep the same assertions, in whatever order the goroutines of all requests
\* delivered them; with losses, those that received the same (publishToStorageRelays).
RelaysAgree ==
    \A x, y \in scene.outlets :
        (outbox = {} /\ ~scene.lossy) \/ received[x] = received[y] => kept[x] = kept[y]

\* An assertion whose computation began in a later second than another was signed
\* in is not given up for it, whatever goroutine is faster: no relay keeps the
\* older one of the two it has received.  Of two signed within one second a relay
\* keeps the one with the lower ID, which may be the one computed first
\* (createMetricEvent, publishToStorageRelays).
LaterSecondWins ==
    \A x \in scene.outlets : \A a, b \in received[x] :
        a.key = b.key /\ ended[b.by] < began[a.by] => b \notin kept[x]

\* Every storage relay keeps the assertions of r, or those of a request that signed
\* in the second in which the final wave of r was begun or later.
IsKept(r) ==
    \A metric \in Wave(r), x \in scene.outlets : \E a \in kept[x] :
        a.key = GetPubKey(kind, metric) /\ (a.by = r \/ ended[a.by] >= began[r])

\* When the publications of a request have arrived, every storage relay keeps its
\* assertions or others of the same metrics that are no older than the second in
\* which they were computed, also after those of other requests arrive, which may
\* have been signed before (publishToStorageRelays).
ArrivedIsKept ==
    \A r \in Requests :
        pc[r] = "done" /\ ~scene.lossy /\ (\A m \in outbox : m[1].by # r) => IsKept(r)

\* Every request has its assertions kept by every storage relay, or others of the
\* same metrics that are no older than the second in which they were computed,
\* unless publications are lost.
FinalIsKept ==
    \A r \in Requests : pc[r] # "idle" /\ ~scene.lossy ~> pc[r] = "done" /\ IsKept(r)
=============================================================================
