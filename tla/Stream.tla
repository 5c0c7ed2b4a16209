------------------------------- MODULE Stream -------------------------------
(***************************************************************************)
(* One request for assertions: the handler that streams them               *)
(* (internal/handler) and the sync it waits for (internal/relay/sync.go).  *)
(*                                                                         *)
(* The handler works on the subjects of the filter one after the other.    *)
(* For each it sends a first wave of assertions, starts a sync, sends      *)
(* further waves while events arrive, and a final wave, which is also      *)
(* published, when the sync is done.  The three kinds of assertions run    *)
(* the same loop.  A sync that is no longer waited for goes on until it    *)
(* notices the cancellation, beside the sync of the next subject.          *)
(*                                                                         *)
(* The client and the library that consumes the assertions are external:   *)
(* the client may leave, and the consumer may stop the iteration.          *)
(***************************************************************************)
EXTENDS Integers, FiniteSets

CONSTANTS
    Requests,     \* the requests, each of which runs once
    NumSubjects,  \* pairs of kind and d tag in the filter
    Groups,       \* the calls of FetchAllContinuously in a sync: user, reports
    Event,        \* source events
    NumMetrics,   \* assertions in a wave, after the author filter
    MaxCount,     \* bound on SyncProgress.EventCount
    StreamFaults  \* what may go wrong, a subset of StreamFaultKinds

StreamFaultKinds == {"cancel", "stop", "savefail"}

ASSUME StreamAssumption ==
    /\ NumSubjects \in Nat \ {0}
    /\ NumMetrics \in Nat /\ MaxCount \in Nat
    /\ StreamFaults \subseteq StreamFaultKinds

Subjects == 1 .. NumSubjects
Syncs    == Requests \X Subjects

VARIABLES
    db,         \* source events in the event database
    ctxDone,    \* the context of each request is cancelled
    stopped,    \* yield has returned false
    pc,         \* where each request is in its handler
    subject,    \* the subject it works on
    wave,       \* the kind of wave it sends
    shot,       \* the events the metrics of the wave are sure to count
    left,       \* assertions of the wave not yet sent
    last,       \* lastEventCount
    spc,        \* where the goroutine of each sync is
    gpc,        \* where each of its groups is
    held,       \* the event a group has in onEvent
    count,      \* SyncProgress.EventCount
    promised,   \* history: the events counted when the last tick was taken
    shown,      \* history: the events counted in what the client was sent
    counted,    \* history: the events counted in EventCount
    stored,     \* history: the events each sync put into the database
    failed,     \* history: events whose SaveEvent failed
    late,       \* history: events each group put there after the cancellation
    cutShort,   \* history: the sync gave something up because it was cancelled
    published   \* history: the shots of the published assertions

handler  == <<stopped, pc, subject, wave, shot, left, last, promised, shown, published>>
sync     == <<spc, gpc, held, count, counted, stored, failed, late, cutShort>>
vars     == <<db, ctxDone, handler, sync>>

Init ==
    /\ db \in SUBSET Event
    /\ ctxDone = [r \in Requests |-> FALSE]
    /\ stopped = [r \in Requests |-> FALSE]
    /\ pc = [r \in Requests |-> "idle"]
    /\ subject = [r \in Requests |-> 1]
    /\ wave = [r \in Requests |-> "initial"]
    /\ shot = [r \in Requests |-> {}]
    /\ left = [r \in Requests |-> 0]
    /\ last = [r \in Requests |-> 0]
    /\ promised = [r \in Requests |-> {}]
    /\ shown = [r \in Requests |-> {}]
    /\ published = [x \in Syncs |-> {}]
    /\ spc = [x \in Syncs |-> "off"]
    /\ gpc = [x \in Syncs |-> [g \in Groups |-> "off"]]
    /\ held = [x \in Syncs |-> [g \in Groups |-> {}]]
    /\ count = [x \in Syncs |-> 0]
    /\ counted = [x \in Syncs |-> {}]
    /\ stored = [x \in Syncs |-> {}]
    /\ failed = {}
    /\ late = [x \in Syncs |-> [g \in Groups |-> 0]]
    /\ cutShort = [x \in Syncs |-> FALSE]

current(r) == <<r, subject[r]>>   \* the sync the handler waits for

-----------------------------------------------------------------------------
(* The handler *)

\* HandleNIP85QueryQueryStored begins with the first subject.
Begin(r) ==
    /\ pc[r] = "idle"
    /\ pc' = [pc EXCEPT ![r] = "compute"]
    /\ UNCHANGED <<db, ctxDone, stopped, subject, wave, shot, left, last, promised, shown,
                   published, sync>>

\* The metrics of a wave are computed from the database.  Other requests store
\* while this runs, so later events may be counted too.
Compute(r) ==
    /\ pc[r] = "compute"
    /\ shot' = [shot EXCEPT ![r] = db]
    /\ left' = [left EXCEPT ![r] = NumMetrics]
    /\ pc' = [pc EXCEPT ![r] = "send"]
    /\ UNCHANGED <<db, ctxDone, stopped, subject, wave, last, promised, shown, published, sync>>

\* Wrong variant of Publish: every wave is published.
PublishAlways(r) == published' = [published EXCEPT ![current(r)] = @ \cup {shot[r]}]

\* publishToStorageRelays, if the wave is final.
Publish(r) ==
    published' = IF wave[r] = "final"
                 THEN [published EXCEPT ![current(r)] = @ \cup {shot[r]}]
                 ELSE published

\* One assertion is signed, published if the wave is final, and yielded.  When
\* yield returns false the rest of the wave is left out, but not the waves that
\* follow, and calling yield after that panics.
Send(r) ==
    /\ pc[r] = "send" /\ left[r] > 0
    /\ Publish(r)
    /\ \/ /\ stopped[r]
          /\ pc' = [pc EXCEPT ![r] = "panic"]
          /\ UNCHANGED <<stopped, left, shown>>
       \/ /\ ~stopped[r]
          /\ shown' = [shown EXCEPT ![r] = @ \cup shot[r]]
          /\ left' = [left EXCEPT ![r] = @ - 1]
          /\ UNCHANGED <<pc, stopped>>
       \/ /\ ~stopped[r] /\ "stop" \in StreamFaults
          /\ stopped' = [stopped EXCEPT ![r] = TRUE]
          /\ left' = [left EXCEPT ![r] = 0]
          /\ UNCHANGED <<pc, shown>>
    /\ UNCHANGED <<db, ctxDone, subject, wave, shot, last, promised, sync>>

\* The first wave is out: the sync starts.
StartSync(r) ==
    /\ pc[r] = "send" /\ left[r] = 0 /\ wave[r] = "initial"
    /\ spc' = [spc EXCEPT ![current(r)] = "begin"]
    /\ last' = [last EXCEPT ![r] = 0]
    /\ pc' = [pc EXCEPT ![r] = "select"]
    /\ UNCHANGED <<db, ctxDone, stopped, subject, wave, shot, left, promised, shown, published,
                   gpc, held, count, counted, stored, failed, late, cutShort>>

\* A wave of progress is out.
Wait(r) ==
    /\ pc[r] = "send" /\ left[r] = 0 /\ wave[r] = "update"
    /\ pc' = [pc EXCEPT ![r] = "select"]
    /\ UNCHANGED <<db, ctxDone, stopped, subject, wave, shot, left, last, promised, shown,
                   published, sync>>

\* Wrong variant of NextSubject: the loop does not end.
NextSubjectAlways(r) ==
    /\ subject' = [subject EXCEPT ![r] = @ + 1]
    /\ wave' = [wave EXCEPT ![r] = "initial"]
    /\ pc' = [pc EXCEPT ![r] = "compute"]

\* The stream of this subject returns and the loop goes on to the next one,
\* whatever made it return.
NextSubject(r) ==
    IF subject[r] < NumSubjects
    THEN /\ subject' = [subject EXCEPT ![r] = @ + 1]
         /\ wave' = [wave EXCEPT ![r] = "initial"]
         /\ pc' = [pc EXCEPT ![r] = "compute"]
    ELSE pc' = [pc EXCEPT ![r] = "done"] /\ UNCHANGED <<subject, wave>>

\* A subject of the wrong length, or an empty address, is left out.
SkipInvalid(r) ==
    /\ pc[r] = "compute" /\ wave[r] = "initial"
    /\ NextSubject(r)
    /\ UNCHANGED <<db, ctxDone, stopped, shot, left, last, promised, shown, published, sync>>

\* A subject of the right length that is not hex panics when it is taken for a key
\* or an ID: a user in the handler, before the first wave; an event, or the author
\* in an address, in the goroutine of the sync, whose deferred call closes Done.
\* The program ends, and with it all that the model lets go on after this.
Malformed(r) ==
    /\ \/ pc[r] = "compute" /\ wave[r] = "initial" /\ UNCHANGED spc
       \/ /\ pc[r] = "select" /\ spc[current(r)] = "begin" /\ ~ctxDone[r]
          /\ spc' = [spc EXCEPT ![current(r)] = "closed"]
    /\ pc' = [pc EXCEPT ![r] = "panic"]
    /\ UNCHANGED <<db, ctxDone, stopped, subject, wave, shot, left, last, promised, shown,
                   published, gpc, held, count, counted, stored, failed, late, cutShort>>

\* The final wave is out.
Finish(r) ==
    /\ pc[r] = "send" /\ left[r] = 0 /\ wave[r] = "final"
    /\ NextSubject(r)
    /\ UNCHANGED <<db, ctxDone, stopped, shot, left, last, promised, shown, published, sync>>

\* The three cases of the select.  When several are ready it takes any.
SelectGone(r) ==
    /\ pc[r] = "select" /\ ctxDone[r]
    /\ NextSubject(r)
    /\ UNCHANGED <<db, ctxDone, stopped, shot, left, last, promised, shown, published, sync>>

\* Wrong variant of SelectDone: it returns without a final wave.
SelectDoneSilently(r) ==
    /\ pc[r] = "select" /\ spc[current(r)] = "closed"
    /\ NextSubject(r)
    /\ UNCHANGED <<db, ctxDone, stopped, shot, left, last, promised, shown, published, sync>>

SelectDone(r) ==
    /\ pc[r] = "select" /\ spc[current(r)] = "closed"
    /\ wave' = [wave EXCEPT ![r] = "final"]
    /\ pc' = [pc EXCEPT ![r] = "compute"]
    /\ UNCHANGED <<db, ctxDone, stopped, subject, shot, left, last, promised, shown, published,
                   sync>>

SelectTick(r) ==
    /\ pc[r] = "select" /\ count[current(r)] > last[r]
    /\ last' = [last EXCEPT ![r] = count[current(r)]]
    /\ promised' = [promised EXCEPT ![r] = counted[current(r)]]
    /\ wave' = [wave EXCEPT ![r] = "update"]
    /\ pc' = [pc EXCEPT ![r] = "compute"]
    /\ UNCHANGED <<db, ctxDone, stopped, subject, shot, left, shown, published, sync>>

-----------------------------------------------------------------------------
(* The sync *)

\* The goroutine of a sync gives up at once when the context is cancelled, and
\* otherwise starts the groups whose filters are needed.
SyncBegin(x) ==
    /\ spc[x] = "begin"
    /\ \/ /\ ctxDone[x[1]]
          /\ spc' = [spc EXCEPT ![x] = "closed"]
          /\ cutShort' = [cutShort EXCEPT ![x] = TRUE]
          /\ UNCHANGED gpc
       \/ /\ ~ctxDone[x[1]]
          /\ spc' = [spc EXCEPT ![x] = "run"]
          /\ \E start \in [Groups -> {"fetch", "end"}] : gpc' = [gpc EXCEPT ![x] = start]
          /\ UNCHANGED cutShort
    /\ UNCHANGED <<db, ctxDone, handler, held, count, counted, stored, failed, late>>

\* Wrong variant of Receive: it does not look at the context.
ReceiveAlways(x, g) ==
    /\ gpc[x][g] = "fetch" /\ count[x] < MaxCount
    /\ \E e \in Event : held' = [held EXCEPT ![x][g] = {e}]
    /\ gpc' = [gpc EXCEPT ![x][g] = "save"]
    /\ UNCHANGED <<db, ctxDone, handler, spc, count, counted, stored, failed, late, cutShort>>

\* Wrong variant of Receive: the event is counted before it is stored.
ReceiveCounts(x, g) ==
    /\ gpc[x][g] = "fetch" /\ count[x] < MaxCount /\ ~ctxDone[x[1]]
    /\ \E e \in Event : /\ held' = [held EXCEPT ![x][g] = {e}]
                        /\ counted' = [counted EXCEPT ![x] = @ \cup {e}]
    /\ count' = [count EXCEPT ![x] = @ + 1]
    /\ gpc' = [gpc EXCEPT ![x][g] = "save"]
    /\ UNCHANGED <<db, ctxDone, handler, spc, stored, failed, late, cutShort>>

\* onEvent looks at the context, and only then waits for storeMu.  A group has
\* one event in onEvent at a time, because FetchAllContinuously serialises it.
Receive(x, g) ==
    /\ gpc[x][g] = "fetch" /\ count[x] < MaxCount
    /\ \/ /\ ctxDone[x[1]]
          /\ cutShort' = [cutShort EXCEPT ![x] = TRUE]
          /\ UNCHANGED <<gpc, held>>
       \/ /\ ~ctxDone[x[1]]
          /\ \E e \in Event : held' = [held EXCEPT ![x][g] = {e}]
          /\ gpc' = [gpc EXCEPT ![x][g] = "save"]
          /\ UNCHANGED cutShort
    /\ UNCHANGED <<db, ctxDone, handler, spc, count, counted, stored, failed, late>>

\* persistEvent under storeMu, which the group keeps until it has counted.
\* SaveEvent refuses an event it has; any error is only logged.
Save(x, g) ==
    /\ gpc[x][g] = "save" /\ \A h \in Groups : gpc[x][h] # "count"
    /\ gpc' = [gpc EXCEPT ![x][g] = "count"]
    /\ \/ /\ db' = db \cup held[x][g]
          /\ stored' = [stored EXCEPT ![x] = @ \cup held[x][g]]
          /\ late' = IF ctxDone[x[1]] THEN [late EXCEPT ![x][g] = @ + 1] ELSE late
          /\ UNCHANGED failed
       \/ /\ "savefail" \in StreamFaults
          /\ failed' = failed \cup held[x][g]
          /\ UNCHANGED <<db, stored, late>>
    /\ UNCHANGED <<ctxDone, handler, spc, held, count, counted, cutShort>>

Count(x, g) ==
    /\ gpc[x][g] = "count"
    /\ count' = [count EXCEPT ![x] = @ + 1]
    /\ counted' = [counted EXCEPT ![x] = @ \cup held[x][g]]
    /\ held' = [held EXCEPT ![x][g] = {}]
    /\ gpc' = [gpc EXCEPT ![x][g] = "fetch"]
    /\ UNCHANGED <<db, ctxDone, handler, spc, stored, failed, late, cutShort>>

\* The fetches of a group end: at the end, at an error, or at the deadline.
EndFetch(x, g) ==
    /\ gpc[x][g] = "fetch"
    /\ gpc' = [gpc EXCEPT ![x][g] = "end"]
    /\ UNCHANGED <<db, ctxDone, handler, spc, held, count, counted, stored, failed, late,
                   cutShort>>

\* Wrong variants of CloseDone: it waits for one group only, or closes nothing.
CloseDoneEarly(x) ==
    /\ spc[x] = "run" /\ \E g \in Groups : gpc[x][g] = "end"
    /\ spc' = [spc EXCEPT ![x] = "closed"]
    /\ UNCHANGED <<db, ctxDone, handler, gpc, held, count, counted, stored, failed, late,
                   cutShort>>
CloseNothing(x) ==
    /\ spc[x] = "run" /\ \A g \in Groups : gpc[x][g] = "end"
    /\ spc' = [spc EXCEPT ![x] = "off"]
    /\ UNCHANGED <<db, ctxDone, handler, gpc, held, count, counted, stored, failed, late,
                   cutShort>>

\* wg.Wait returns, and Done is closed.
CloseDone(x) ==
    /\ spc[x] = "run" /\ \A g \in Groups : gpc[x][g] = "end"
    /\ spc' = [spc EXCEPT ![x] = "closed"]
    /\ UNCHANGED <<db, ctxDone, handler, gpc, held, count, counted, stored, failed, late,
                   cutShort>>

-----------------------------------------------------------------------------
\* The client closes its subscription or its connection.
Cancel(r) ==
    /\ "cancel" \in StreamFaults /\ pc[r] \notin {"idle", "done"} /\ ~ctxDone[r]
    /\ ctxDone' = [ctxDone EXCEPT ![r] = TRUE]
    /\ UNCHANGED <<db, handler, sync>>

HandlerStep(r) ==
    \/ Compute(r) \/ Send(r) \/ StartSync(r) \/ Wait(r) \/ Finish(r)
    \/ SkipInvalid(r) \/ SelectGone(r) \/ SelectDone(r) \/ SelectTick(r)

GroupStep(x, g) == Save(x, g) \/ Count(x, g)

Next ==
    \/ \E r \in Requests : Begin(r) \/ HandlerStep(r) \/ Malformed(r) \/ Cancel(r)
    \/ \E x \in Syncs : \/ SyncBegin(x) \/ CloseDone(x)
                        \/ \E g \in Groups : Receive(x, g) \/ GroupStep(x, g) \/ EndFetch(x, g)

Spec == Init /\ [][Next]_vars

\* Every goroutine runs, sync.Mutex starves nobody, and every fetch ends by the
\* sync's deadline (Fetcher's SessionEnds) although events keep arriving.
Fairness ==
    /\ \A r \in Requests : WF_vars(HandlerStep(r))
    /\ \A x \in Syncs :
          /\ WF_vars(SyncBegin(x)) /\ WF_vars(CloseDone(x))
          /\ \A g \in Groups : SF_vars(GroupStep(x, g)) /\ SF_vars(EndFetch(x, g))

FairSpec == Spec /\ Fairness

-----------------------------------------------------------------------------
\* Type invariant of requests and syncs.
TypeOK ==
    /\ db \subseteq Event /\ failed \subseteq Event
    /\ ctxDone \in [Requests -> BOOLEAN] /\ stopped \in [Requests -> BOOLEAN]
    /\ pc \in [Requests -> {"idle", "compute", "send", "select", "done", "panic"}]
    /\ subject \in [Requests -> Subjects]
    /\ wave \in [Requests -> {"initial", "update", "final"}]
    /\ shot \in [Requests -> SUBSET Event]
    /\ left \in [Requests -> 0 .. NumMetrics] /\ last \in [Requests -> Nat]
    /\ promised \in [Requests -> SUBSET Event] /\ shown \in [Requests -> SUBSET Event]
    /\ spc \in [Syncs -> {"off", "begin", "run", "closed"}]
    /\ gpc \in [Syncs -> [Groups -> {"off", "fetch", "save", "count", "end"}]]
    /\ held \in [Syncs -> [Groups -> SUBSET Event]]
    /\ count \in [Syncs -> Nat]
    /\ counted \in [Syncs -> SUBSET Event] /\ stored \in [Syncs -> SUBSET Event]
    /\ late \in [Syncs -> [Groups -> Nat]]
    /\ cutShort \in [Syncs -> BOOLEAN]
    /\ published \in [Syncs -> SUBSET SUBSET Event]

\* A published assertion counts every event that the sync of its subject stored:
\* nothing is stored once Done is closed, and the final wave is computed after
\* that (SyncUserEventsAsync, streamUserAssertions).
PublishedIsComplete == \A x \in Syncs : \A s \in published[x] : stored[x] \subseteq s

\* After the client has left, each group of a sync stores at most the one event
\* it had let through (onEvent): "Sync stops when context is cancelled".
LateStoresBounded == \A x \in Syncs, g \in Groups : late[x][g] <= 1

\* A wave of progress counts the events whose number made the tick send it,
\* except those that could not be stored (onEvent, sendUserMetrics).
UpdateShowsProgress ==
    \A r \in Requests :
        wave[r] = "update" /\ pc[r] = "send" => promised[r] \subseteq shot[r] \cup failed

\* The handler is done with a subject.
IsLeft(x) == subject[x[1]] > x[2] \/ pc[x[1]] = "done"

\* When the handler leaves a subject, the client has been shown all that its sync
\* stored and will ever store, unless the client has left, its consumer has stopped
\* or the filter leaves no metric to send (streamUserAssertions).
NothingUnshown ==
    \A x \in Syncs :
        IsLeft(x) /\ ~ctxDone[x[1]] /\ ~stopped[x[1]] /\ NumMetrics > 0
            => stored[x] \subseteq shown[x[1]]

\* Where a request and the sync of a subject are, as StreamService sees it.
Place == [r \in Requests |-> IF pc[r] = "done" THEN NumSubjects + 1 ELSE subject[r]]
Phase == [x \in Syncs |-> IF spc[x] \in {"begin", "run"} THEN "on"
                           ELSE IF spc[x] = "closed" THEN "over" ELSE "off"]

Service == INSTANCE StreamService WITH
    Silent <- NumMetrics = 0, gone <- ctxDone, deaf <- stopped, at <- Place, phase <- Phase

\* The handler with its syncs keeps the promise of StreamService: in each subject's
\* turn one sync, one complete publication after it, and nothing unshown when the
\* request goes on (HandleNIP85QueryQueryStored and what it calls).
ImplementsService == Service!Spec

\* Every request ends, by a panic if its consumer stopped early or a subject is not
\* hex (HandleNIP85QueryQueryStored).
RequestEnds == \A r \in Requests : pc[r] = "compute" ~> pc[r] \in {"done", "panic"}

\* What a sync stores is shown to a client that stays and listens
\* (streamUserAssertions).
StoredIsShown ==
    \A x \in Syncs, e \in Event :
        e \in stored[x] ~> e \in shown[x[1]] \/ ctxDone[x[1]] \/ stopped[x[1]]

-----------------------------------------------------------------------------
(* A statement of the documentation that the code does not keep. *)

\* "When sync completes for the request window, Cipolin emits final metrics and
\* publishes": nothing is published for a sync that was cut short.
FinalMeansSynced == \A x \in Syncs : published[x] # {} => ~cutShort[x]
=============================================================================
