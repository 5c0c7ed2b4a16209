---------------------------- MODULE StreamProofs ----------------------------
(***************************************************************************)
(* Proofs about Stream for any number of requests, subjects and groups,    *)
(* and any faults: type correctness, the completeness of what is           *)
(* published, the bound on late stores, the promise of a progress wave,    *)
(* what a client has been shown when the handler leaves a subject, what    *)
(* Done means, and that the streaming implements StreamService.            *)
(***************************************************************************)
EXTENDS Stream, TLAPS

-----------------------------------------------------------------------------
(* Type correctness. *)

\* The sync the handler waits for is one of the syncs.
LEMMA CurrentType ==
  ASSUME TypeOK, NEW r \in Requests
  PROVE  current(r) \in Syncs
  BY DEF TypeOK, current, Syncs

\* A sync belongs to a request.
LEMMA SyncType ==
  ASSUME NEW x \in Syncs
  PROVE  x[1] \in Requests /\ x[2] \in Subjects /\ x = <<x[1], x[2]>>
  BY DEF Syncs

\* Where a group can be.
GroupPlaces == {"off", "fetch", "save", "count", "end"}

LEMMA TypeInit == Init => TypeOK
  BY StreamAssumption DEF Init, TypeOK, Subjects

\* Going on to the next subject keeps the types of what it changes.
LEMMA NextSubjectType ==
  ASSUME TypeOK, NEW r \in Requests, NextSubject(r)
  PROVE  /\ pc' \in [Requests -> {"idle", "compute", "send", "select", "done", "panic"}]
         /\ subject' \in [Requests -> Subjects]
         /\ wave' \in [Requests -> {"initial", "update", "final"}]
<1>1. CASE subject[r] < NumSubjects
  <2>1. subject[r] + 1 \in Subjects
    BY <1>1, StreamAssumption DEF TypeOK, Subjects
  <2>2. /\ subject' = [subject EXCEPT ![r] = subject[r] + 1]
        /\ wave' = [wave EXCEPT ![r] = "initial"]
        /\ pc' = [pc EXCEPT ![r] = "compute"]
    BY <1>1 DEF NextSubject
  <2>3. subject' \in [Requests -> Subjects]
    BY <2>1, <2>2 DEF TypeOK
  <2>. QED BY <2>2, <2>3 DEF TypeOK
<1>2. CASE ~(subject[r] < NumSubjects)
  BY <1>2 DEF TypeOK, NextSubject
<1>. QED BY <1>1, <1>2

\* Every step keeps the types.
LEMMA TypeStep == TypeOK /\ [Next]_vars => TypeOK'
<1>. SUFFICES ASSUME TypeOK, [Next]_vars PROVE TypeOK'
  OBVIOUS
<1>. USE DEF handler, sync
<1>1. ASSUME NEW r \in Requests, Begin(r) PROVE TypeOK'
  BY <1>1 DEF TypeOK, Begin
<1>2. ASSUME NEW r \in Requests, Compute(r) PROVE TypeOK'
  BY <1>2, StreamAssumption DEF TypeOK, Compute
<1>3. ASSUME NEW r \in Requests, Send(r) PROVE TypeOK'
  <2>1. current(r) \in Syncs
    BY CurrentType
  <2>2. published' \in [Syncs -> SUBSET SUBSET Event]
    BY <1>3, <2>1 DEF TypeOK, Send, Publish
  <2>3. left' \in [Requests -> 0 .. NumMetrics]
    BY <1>3, StreamAssumption DEF TypeOK, Send
  <2>4. pc' \in [Requests -> {"idle", "compute", "send", "select", "done", "panic"}]
    BY <1>3 DEF TypeOK, Send
  <2>5. stopped' \in [Requests -> BOOLEAN]
    BY <1>3 DEF TypeOK, Send
  <2>6. shown' \in [Requests -> SUBSET Event]
    <3>1. shown \in [Requests -> SUBSET Event] /\ shown[r] \cup shot[r] \in SUBSET Event
      BY DEF TypeOK
    <3>2. shown' = shown \/ shown' = [shown EXCEPT ![r] = shown[r] \cup shot[r]]
      BY <1>3 DEF Send
    <3>. QED BY <3>1, <3>2
  <2>. QED BY <1>3, <2>2, <2>3, <2>4, <2>5, <2>6 DEF TypeOK, Send
<1>4. ASSUME NEW r \in Requests, StartSync(r) PROVE TypeOK'
  BY <1>4, CurrentType DEF TypeOK, StartSync
<1>5. ASSUME NEW r \in Requests, Wait(r) PROVE TypeOK'
  BY <1>5 DEF TypeOK, Wait
<1>6. ASSUME NEW r \in Requests, Finish(r) PROVE TypeOK'
  <2>1. NextSubject(r)
    BY <1>6 DEF Finish
  <2>. QED BY <1>6, <2>1, NextSubjectType DEF TypeOK, Finish
<1>7. ASSUME NEW r \in Requests, SelectGone(r) PROVE TypeOK'
  <2>1. NextSubject(r)
    BY <1>7 DEF SelectGone
  <2>. QED BY <1>7, <2>1, NextSubjectType DEF TypeOK, SelectGone
<1>18. ASSUME NEW r \in Requests, SkipInvalid(r) PROVE TypeOK'
  <2>1. NextSubject(r)
    BY <1>18 DEF SkipInvalid
  <2>. QED BY <1>18, <2>1, NextSubjectType DEF TypeOK, SkipInvalid
<1>19. ASSUME NEW r \in Requests, Malformed(r) PROVE TypeOK'
  BY <1>19, CurrentType DEF TypeOK, Malformed
<1>8. ASSUME NEW r \in Requests, SelectDone(r) PROVE TypeOK'
  BY <1>8 DEF TypeOK, SelectDone
<1>9. ASSUME NEW r \in Requests, SelectTick(r) PROVE TypeOK'
  BY <1>9, CurrentType DEF TypeOK, SelectTick
<1>10. ASSUME NEW r \in Requests, Cancel(r) PROVE TypeOK'
  BY <1>10 DEF TypeOK, Cancel
<1>11. ASSUME NEW x \in Syncs, SyncBegin(x) PROVE TypeOK'
  <2>1. gpc' \in [Syncs -> [Groups -> GroupPlaces]]
    <3>1. gpc \in [Syncs -> [Groups -> GroupPlaces]]
      BY DEF TypeOK, GroupPlaces
    <3>2. {"fetch", "end"} \subseteq GroupPlaces
      BY DEF GroupPlaces
    <3>3. ASSUME NEW start \in [Groups -> {"fetch", "end"}], gpc' = [gpc EXCEPT ![x] = start]
          PROVE  gpc' \in [Syncs -> [Groups -> GroupPlaces]]
      <4>1. start \in [Groups -> GroupPlaces]
        BY <3>2
      <4>. QED BY <3>1, <3>3, <4>1
    <3>. QED BY <1>11, <3>1, <3>3 DEF SyncBegin
  <2>2. spc' \in [Syncs -> {"off", "begin", "run", "closed"}] /\ cutShort' \in [Syncs -> BOOLEAN]
    BY <1>11 DEF TypeOK, SyncBegin
  <2>. QED BY <1>11, <2>1, <2>2 DEF TypeOK, SyncBegin, GroupPlaces
<1>12. ASSUME NEW x \in Syncs, CloseDone(x) PROVE TypeOK'
  BY <1>12 DEF TypeOK, CloseDone
<1>13. ASSUME NEW x \in Syncs, NEW g \in Groups, Receive(x, g) PROVE TypeOK'
  <2>1. gpc' \in [Syncs -> [Groups -> GroupPlaces]]
    <3>1. gpc \in [Syncs -> [Groups -> GroupPlaces]] /\ "save" \in GroupPlaces
      BY DEF TypeOK, GroupPlaces
    <3>2. gpc' = gpc \/ gpc' = [gpc EXCEPT ![x][g] = "save"]
      BY <1>13 DEF Receive
    <3>. QED BY <3>1, <3>2
  <2>2. held' \in [Syncs -> [Groups -> SUBSET Event]]
    <3>1. held \in [Syncs -> [Groups -> SUBSET Event]]
      BY DEF TypeOK
    <3>2. held' = held \/ \E e \in Event : held' = [held EXCEPT ![x][g] = {e}]
      BY <1>13 DEF Receive
    <3>. QED BY <3>1, <3>2
  <2>3. cutShort' \in [Syncs -> BOOLEAN]
    BY <1>13 DEF TypeOK, Receive
  <2>. QED BY <1>13, <2>1, <2>2, <2>3 DEF TypeOK, Receive, GroupPlaces
<1>14. ASSUME NEW x \in Syncs, NEW g \in Groups, Save(x, g) PROVE TypeOK'
  <2>1. gpc' \in [Syncs -> [Groups -> GroupPlaces]]
    BY <1>14 DEF TypeOK, Save, GroupPlaces
  <2>2. late' \in [Syncs -> [Groups -> Nat]]
    <3>1. late \in [Syncs -> [Groups -> Nat]]
      BY DEF TypeOK
    <3>2. late' = late \/ late' = [late EXCEPT ![x][g] = @ + 1]
      BY <1>14 DEF Save
    <3>. QED BY <3>1, <3>2
  <2>3. held[x][g] \subseteq Event
    BY DEF TypeOK
  <2>4. db' \subseteq Event /\ failed' \subseteq Event
    BY <1>14, <2>3 DEF TypeOK, Save
  <2>5. stored' \in [Syncs -> SUBSET Event]
    <3>1. stored[x] \cup held[x][g] \in SUBSET Event
      BY <2>3 DEF TypeOK
    <3>. QED BY <1>14, <3>1 DEF TypeOK, Save
  <2>. QED BY <1>14, <2>1, <2>2, <2>4, <2>5 DEF TypeOK, Save, GroupPlaces
<1>15. ASSUME NEW x \in Syncs, NEW g \in Groups, Count(x, g) PROVE TypeOK'
  <2>1. gpc' \in [Syncs -> [Groups -> GroupPlaces]]
    BY <1>15 DEF TypeOK, Count, GroupPlaces
  <2>2. held' \in [Syncs -> [Groups -> SUBSET Event]]
    BY <1>15 DEF TypeOK, Count
  <2>3. count' \in [Syncs -> Nat] /\ counted' \in [Syncs -> SUBSET Event]
    BY <1>15 DEF TypeOK, Count
  <2>. QED BY <1>15, <2>1, <2>2, <2>3 DEF TypeOK, Count, GroupPlaces
<1>16. ASSUME NEW x \in Syncs, NEW g \in Groups, EndFetch(x, g) PROVE TypeOK'
  BY <1>16 DEF TypeOK, EndFetch
<1>17. CASE UNCHANGED vars
  BY <1>17 DEF TypeOK, vars
<1>. QED
  BY <1>1, <1>2, <1>3, <1>4, <1>5, <1>6, <1>7, <1>8, <1>9, <1>10, <1>11, <1>12, <1>13,
     <1>14, <1>15, <1>16, <1>17, <1>18, <1>19
     DEF Next, HandlerStep, GroupStep

\* Every variable keeps its type (handler.go, sync.go).
THEOREM TypeCorrect == Spec => []TypeOK
  BY TypeInit, TypeStep, PTL DEF Spec

\* A subject that is not hex stops its request, and a sync that has just begun.
LEMMA MalformedStops ==
  ASSUME TypeOK, NEW r \in Requests, Malformed(r)
  PROVE  /\ UNCHANGED <<db, ctxDone, stopped, subject, wave, shot, left, last, promised, shown,
                        published, gpc, held, count, counted, stored, failed, late>>
         /\ pc[r] \in {"compute", "select"} /\ pc'[r] = "panic"
         /\ \A q \in Requests : q # r => pc'[q] = pc[q]
         /\ \A y \in Syncs : \/ spc'[y] = spc[y]
                             \/ spc[y] = "begin" /\ spc'[y] = "closed" /\ y = current(r)
         /\ \/ spc' = spc
            \/ spc[current(r)] = "begin" /\ spc' = [spc EXCEPT ![current(r)] = "closed"]
                                         /\ pc[r] = "select"
<1>1. /\ spc \in [Syncs -> {"off", "begin", "run", "closed"}]
      /\ pc \in [Requests -> {"idle", "compute", "send", "select", "done", "panic"}]
      /\ current(r) \in Syncs
  BY CurrentType DEF TypeOK
<1>. QED BY <1>1 DEF Malformed

-----------------------------------------------------------------------------
(* Late stores. *)

\* A group has stored nothing late before the cancellation, at most one event
\* after it, and none yet while it holds one that it let through.
LateInv ==
    \A x \in Syncs, g \in Groups :
        /\ late[x][g] <= 1
        /\ ~ctxDone[x[1]] => late[x][g] = 0
        /\ gpc[x][g] = "save" => late[x][g] = 0

LEMMA LateStep == TypeOK /\ LateInv /\ [Next]_vars => LateInv'
<1>. SUFFICES ASSUME TypeOK, LateInv, [Next]_vars PROVE LateInv'
  OBVIOUS
<1>. USE DEF handler, sync
<1>1. ASSUME NEW r \in Requests, Begin(r) \/ HandlerStep(r) PROVE LateInv'
  BY <1>1 DEF LateInv, HandlerStep, Begin, Compute, Send, StartSync, Wait, Finish, SkipInvalid,
              SelectGone, SelectDone, SelectTick
<1>2. ASSUME NEW r \in Requests, Cancel(r) PROVE LateInv'
  BY <1>2, SyncType DEF LateInv, Cancel, TypeOK
<1>3. ASSUME NEW x \in Syncs, SyncBegin(x) PROVE LateInv'
  <2>1. \A y \in Syncs, h \in Groups : gpc'[y][h] = "save" => gpc[y][h] = "save"
    <3>1. gpc \in [Syncs -> [Groups -> GroupPlaces]]
      BY DEF TypeOK, GroupPlaces
    <3>2. \/ gpc' = gpc
          \/ \E start \in [Groups -> {"fetch", "end"}] : gpc' = [gpc EXCEPT ![x] = start]
      BY <1>3 DEF SyncBegin
    <3>. QED BY <3>1, <3>2
  <2>2. UNCHANGED <<late, ctxDone>>
    BY <1>3 DEF SyncBegin
  <2>. QED BY <2>1, <2>2 DEF LateInv
<1>4. ASSUME NEW x \in Syncs, CloseDone(x) PROVE LateInv'
  BY <1>4 DEF LateInv, CloseDone
<1>5. ASSUME NEW x \in Syncs, NEW g \in Groups, Receive(x, g) PROVE LateInv'
  <2>1. \A y \in Syncs, h \in Groups :
           gpc'[y][h] = "save" => gpc[y][h] = "save" \/ ~ctxDone[y[1]]
    <3>1. gpc \in [Syncs -> [Groups -> GroupPlaces]]
      BY DEF TypeOK, GroupPlaces
    <3>2. gpc' = gpc \/ (gpc' = [gpc EXCEPT ![x][g] = "save"] /\ ~ctxDone[x[1]])
      BY <1>5 DEF Receive
    <3>. QED BY <3>1, <3>2
  <2>2. UNCHANGED <<late, ctxDone>>
    BY <1>5 DEF Receive
  <2>. QED BY <2>1, <2>2 DEF LateInv
<1>6. ASSUME NEW x \in Syncs, NEW g \in Groups, Save(x, g) PROVE LateInv'
  BY <1>6 DEF LateInv, Save, TypeOK
<1>7. ASSUME NEW x \in Syncs, NEW g \in Groups, Count(x, g) \/ EndFetch(x, g) PROVE LateInv'
  <2>1. \A y \in Syncs, h \in Groups : gpc'[y][h] = "save" => gpc[y][h] = "save"
    <3>1. gpc \in [Syncs -> [Groups -> GroupPlaces]]
      BY DEF TypeOK, GroupPlaces
    <3>2. gpc' = [gpc EXCEPT ![x][g] = "fetch"] \/ gpc' = [gpc EXCEPT ![x][g] = "end"]
      BY <1>7 DEF Count, EndFetch
    <3>. QED BY <3>1, <3>2
  <2>2. UNCHANGED <<late, ctxDone>>
    BY <1>7 DEF Count, EndFetch
  <2>. QED BY <2>1, <2>2 DEF LateInv
<1>8. CASE UNCHANGED vars
  BY <1>8 DEF LateInv, vars
<1>9. ASSUME NEW r \in Requests, Malformed(r) PROVE LateInv'
  BY <1>9, MalformedStops DEF LateInv
<1>. QED
  BY <1>1, <1>2, <1>3, <1>4, <1>5, <1>6, <1>7, <1>8, <1>9 DEF Next, GroupStep

\* A group stores at most one event after the client has left (onEvent).
THEOREM LateStoresAreBounded == Spec => []LateStoresBounded
<1>1. Init => LateInv
  BY DEF Init, LateInv
<1>2. LateInv => LateStoresBounded
  BY DEF LateInv, LateStoresBounded
<1>. QED BY <1>1, <1>2, TypeCorrect, LateStep, PTL DEF Spec

-----------------------------------------------------------------------------
(* What is published is complete. *)

\* What a sync stored is in the database.
StoredInDb == \A x \in Syncs : stored[x] \subseteq db

\* Groups are at work only while their sync runs.
GroupsRun ==
    \A x \in Syncs, g \in Groups : gpc[x][g] \in {"fetch", "save", "count"} => spc[x] = "run"

\* The syncs of later subjects, and of this one during its first wave, are off.
NotYet ==
    \A r \in Requests, k \in Subjects :
        \/ k > subject[r]
        \/ k = subject[r] /\ wave[r] = "initial" /\ pc[r] \in {"idle", "compute", "send"}
        => spc[<<r, k>>] = "off"

\* A final wave is sent after the end of its sync, from all that it stored.
FinalClosed ==
    \A r \in Requests :
        wave[r] = "final" /\ pc[r] \in {"idle", "compute", "send"} =>
            /\ spc[current(r)] = "closed"
            /\ pc[r] = "send" => stored[current(r)] \subseteq shot[r]

\* What was published belongs to a sync that has ended.
PublishedClosed == \A x \in Syncs : published[x] # {} => spc[x] = "closed"

PublishInv ==
    StoredInDb /\ GroupsRun /\ NotYet /\ FinalClosed /\ PublishedClosed /\ PublishedIsComplete

LEMMA StoredInDbStep == TypeOK /\ StoredInDb /\ [Next]_vars => StoredInDb'
<1>. SUFFICES ASSUME TypeOK, StoredInDb, [Next]_vars PROVE StoredInDb'
  OBVIOUS
<1>1. CASE UNCHANGED <<db, stored>>
  BY <1>1 DEF StoredInDb
<1>2. ASSUME NEW x \in Syncs, NEW g \in Groups, Save(x, g) PROVE StoredInDb'
  <2>1. stored \in [Syncs -> SUBSET Event] /\ held[x][g] \subseteq Event
    BY DEF TypeOK
  <2>2. \/ UNCHANGED <<db, stored>>
        \/ db' = db \cup held[x][g] /\ stored' = [stored EXCEPT ![x] = stored[x] \cup held[x][g]]
    BY <1>2 DEF Save
  <2>. QED BY <2>1, <2>2 DEF StoredInDb
<1>3. ASSUME NEW r \in Requests, Begin(r) \/ HandlerStep(r) \/ Malformed(r) \/ Cancel(r)
      PROVE  UNCHANGED <<db, stored>>
  BY <1>3 DEF Malformed, HandlerStep, Begin, Compute, Send, StartSync, Wait, Finish, SkipInvalid, SelectGone,
              SelectDone, SelectTick, Cancel, sync
<1>4. ASSUME NEW x \in Syncs, SyncBegin(x) \/ CloseDone(x) PROVE UNCHANGED <<db, stored>>
  BY <1>4 DEF SyncBegin, CloseDone
<1>5. ASSUME NEW x \in Syncs, NEW g \in Groups, Receive(x, g) \/ Count(x, g) \/ EndFetch(x, g)
      PROVE  UNCHANGED <<db, stored>>
  BY <1>5 DEF Receive, Count, EndFetch
<1>. QED BY <1>1, <1>2, <1>3, <1>4, <1>5 DEF Next, GroupStep, vars, sync

LEMMA GroupsRunStep ==
  TypeOK /\ GroupsRun /\ NotYet /\ [Next]_vars => GroupsRun'
<1>. SUFFICES ASSUME TypeOK, GroupsRun, NotYet, [Next]_vars PROVE GroupsRun'
  OBVIOUS
<1>0. /\ gpc \in [Syncs -> [Groups -> GroupPlaces]]
      /\ spc \in [Syncs -> {"off", "begin", "run", "closed"}]
  BY DEF TypeOK, GroupPlaces
<1>1. CASE UNCHANGED <<gpc, spc>>
  BY <1>1 DEF GroupsRun
<1>2. ASSUME NEW r \in Requests, StartSync(r) PROVE GroupsRun'
  <2>1. current(r) \in Syncs
    BY CurrentType
  <2>2. spc[current(r)] = "off"
    BY <1>2 DEF NotYet, StartSync, current, TypeOK
  <2>3. gpc' = gpc /\ spc' = [spc EXCEPT ![current(r)] = "begin"]
    BY <1>2 DEF StartSync
  <2>. QED BY <1>0, <2>1, <2>2, <2>3 DEF GroupsRun
<1>3. ASSUME NEW x \in Syncs, SyncBegin(x) PROVE GroupsRun'
  <2>1. spc[x] = "begin"
    BY <1>3 DEF SyncBegin
  <2>2. CASE spc' = [spc EXCEPT ![x] = "closed"] /\ gpc' = gpc
    BY <1>0, <2>1, <2>2 DEF GroupsRun
  <2>3. ASSUME NEW start \in [Groups -> {"fetch", "end"}],
               spc' = [spc EXCEPT ![x] = "run"], gpc' = [gpc EXCEPT ![x] = start]
        PROVE  GroupsRun'
    BY <1>0, <2>3 DEF GroupsRun
  <2>. QED BY <1>3, <2>2, <2>3 DEF SyncBegin
<1>4. ASSUME NEW x \in Syncs, CloseDone(x) PROVE GroupsRun'
  BY <1>0, <1>4 DEF GroupsRun, CloseDone
<1>5. ASSUME NEW x \in Syncs, NEW g \in Groups,
             Receive(x, g) \/ Save(x, g) \/ Count(x, g) \/ EndFetch(x, g)
      PROVE  GroupsRun'
  <2>1. /\ spc' = spc
        /\ gpc[x][g] \in {"fetch", "save", "count"}
        /\ gpc' = gpc \/ \E p \in GroupPlaces : gpc' = [gpc EXCEPT ![x][g] = p]
    BY <1>5 DEF Receive, Save, Count, EndFetch, GroupPlaces
  <2>. QED BY <1>0, <2>1 DEF GroupsRun
<1>6. ASSUME NEW r \in Requests,
             \/ Begin(r) \/ Compute(r) \/ Send(r) \/ Wait(r) \/ Finish(r)
             \/ SkipInvalid(r) \/ SelectGone(r) \/ SelectDone(r) \/ SelectTick(r) \/ Cancel(r)
      PROVE  UNCHANGED <<gpc, spc>>
  BY <1>6 DEF Begin, Compute, Send, Wait, Finish, SkipInvalid, SelectGone, SelectDone, SelectTick,
              Cancel, sync
<1>7. ASSUME NEW r \in Requests, Malformed(r) PROVE GroupsRun'
  BY <1>0, <1>7, MalformedStops DEF GroupsRun
<1>. QED
  BY <1>1, <1>2, <1>3, <1>4, <1>5, <1>6, <1>7 DEF Next, HandlerStep, GroupStep, vars, sync

LEMMA NotYetStep == TypeOK /\ NotYet /\ [Next]_vars => NotYet'
<1>. SUFFICES ASSUME TypeOK, NotYet, [Next]_vars PROVE NotYet'
  OBVIOUS
<1>0. /\ spc \in [Syncs -> {"off", "begin", "run", "closed"}]
      /\ subject \in [Requests -> Subjects]
      /\ pc \in [Requests -> {"idle", "compute", "send", "select", "done", "panic"}]
      /\ wave \in [Requests -> {"initial", "update", "final"}]
      /\ \A r \in Requests, k \in Subjects : <<r, k>> \in Syncs
      /\ Subjects \subseteq Int
  BY DEF TypeOK, Syncs, Subjects
<1>1. CASE UNCHANGED <<pc, subject, wave, spc>>
  BY <1>1 DEF NotYet
<1>2. ASSUME NEW r \in Requests, Begin(r) \/ Compute(r) PROVE NotYet'
  <2>1. /\ pc[r] \in {"idle", "compute"} /\ UNCHANGED <<subject, wave, spc>>
        /\ pc' = [pc EXCEPT ![r] = "compute"] \/ pc' = [pc EXCEPT ![r] = "send"]
    BY <1>2 DEF Begin, Compute, sync
  <2>. QED BY <1>0, <2>1 DEF NotYet
<1>3. ASSUME NEW r \in Requests, Send(r) PROVE NotYet'
  <2>1. /\ UNCHANGED <<subject, wave, spc>>
        /\ pc' = pc \/ pc' = [pc EXCEPT ![r] = "panic"]
    BY <1>3 DEF Send, sync
  <2>. QED BY <1>0, <2>1 DEF NotYet
<1>4. ASSUME NEW r \in Requests, StartSync(r) PROVE NotYet'
  <2>1. /\ UNCHANGED <<subject, wave>>
        /\ pc' = [pc EXCEPT ![r] = "select"]
        /\ spc' = [spc EXCEPT ![<<r, subject[r]>>] = "begin"]
    BY <1>4 DEF StartSync, current
  <2>2. ASSUME NEW q \in Requests, NEW k \in Subjects,
               \/ k > subject'[q]
               \/ k = subject'[q] /\ wave'[q] = "initial" /\ pc'[q] \in {"idle", "compute", "send"}
        PROVE  spc'[<<q, k>>] = "off"
    <3>1. <<q, k>> # <<r, subject[r]>>
      BY <1>0, <2>1, <2>2
    <3>2. spc[<<q, k>>] = "off"
      <4>1. CASE q = r
        BY <1>0, <2>1, <2>2, <3>1, <4>1 DEF NotYet
      <4>2. CASE q # r
        BY <1>0, <2>1, <2>2, <4>2 DEF NotYet
      <4>. QED BY <4>1, <4>2
    <3>. QED BY <1>0, <2>1, <3>1, <3>2
  <2>. QED BY <2>2 DEF NotYet
<1>5. ASSUME NEW r \in Requests, Wait(r) \/ SelectDone(r) \/ SelectTick(r) PROVE NotYet'
  <2>1. /\ UNCHANGED <<subject, spc>>
        /\ \/ pc' = [pc EXCEPT ![r] = "select"] /\ wave' = wave
           \/ /\ pc' = [pc EXCEPT ![r] = "compute"]
              /\ \/ wave' = [wave EXCEPT ![r] = "final"]
                 \/ wave' = [wave EXCEPT ![r] = "update"]
    BY <1>5 DEF Wait, SelectDone, SelectTick, sync
  <2>. QED BY <1>0, <2>1 DEF NotYet
<1>6. ASSUME NEW r \in Requests, Finish(r) \/ SkipInvalid(r) \/ SelectGone(r) PROVE NotYet'
  <2>1. NextSubject(r) /\ spc' = spc
    BY <1>6 DEF Finish, SkipInvalid, SelectGone, sync
  <2>2. \/ /\ subject' = [subject EXCEPT ![r] = subject[r] + 1]
           /\ pc' = [pc EXCEPT ![r] = "compute"]
           /\ wave' = [wave EXCEPT ![r] = "initial"]
        \/ pc' = [pc EXCEPT ![r] = "done"] /\ UNCHANGED <<subject, wave>>
    BY <2>1 DEF NextSubject
  <2>3. ASSUME NEW q \in Requests, NEW k \in Subjects,
               \/ k > subject'[q]
               \/ k = subject'[q] /\ wave'[q] = "initial" /\ pc'[q] \in {"idle", "compute", "send"}
        PROVE  spc[<<q, k>>] = "off"
    <3>1. CASE q = r
      <4>1. k \in Int /\ subject[r] \in Int
        BY <1>0
      <4>2. CASE subject' = [subject EXCEPT ![r] = subject[r] + 1]
        <5>1. subject'[r] = subject[r] + 1
          BY <1>0, <4>2
        <5>. QED BY <2>3, <3>1, <4>1, <5>1 DEF NotYet
      <4>3. CASE pc' = [pc EXCEPT ![r] = "done"] /\ UNCHANGED <<subject, wave>>
        <5>1. pc'[r] = "done"
          BY <1>0, <4>3
        <5>. QED BY <2>3, <3>1, <4>3, <5>1 DEF NotYet
      <4>. QED BY <2>2, <4>2, <4>3
    <3>2. CASE q # r
      <4>1. subject'[q] = subject[q] /\ wave'[q] = wave[q] /\ pc'[q] = pc[q]
        BY <1>0, <2>2, <3>2
      <4>. QED BY <2>3, <4>1 DEF NotYet
    <3>. QED BY <3>1, <3>2
  <2>. QED BY <2>1, <2>3 DEF NotYet
<1>7. ASSUME NEW x \in Syncs, SyncBegin(x) \/ CloseDone(x) PROVE NotYet'
  <2>1. /\ UNCHANGED <<pc, subject, wave>> /\ spc[x] # "off"
        /\ spc' = [spc EXCEPT ![x] = "closed"] \/ spc' = [spc EXCEPT ![x] = "run"]
    BY <1>7 DEF SyncBegin, CloseDone, handler
  <2>. QED BY <1>0, <2>1 DEF NotYet
<1>8. ASSUME NEW x \in Syncs, NEW g \in Groups,
             Receive(x, g) \/ Save(x, g) \/ Count(x, g) \/ EndFetch(x, g)
      PROVE  UNCHANGED <<pc, subject, wave, spc>>
  BY <1>8 DEF Receive, Save, Count, EndFetch, handler
<1>9. ASSUME NEW r \in Requests, Cancel(r) PROVE UNCHANGED <<pc, subject, wave, spc>>
  BY <1>9 DEF Cancel, handler, sync
<1>10. ASSUME NEW r \in Requests, Malformed(r) PROVE NotYet'
  <2>1. /\ UNCHANGED <<subject, wave>> /\ pc'[r] = "panic"
        /\ \A q \in Requests : q # r => pc'[q] = pc[q]
        /\ \A y \in Syncs : spc[y] = "off" => spc'[y] = "off"
    BY <1>10, MalformedStops
  <2>. QED BY <1>0, <2>1 DEF NotYet, Syncs
<1>. QED
  BY <1>1, <1>2, <1>3, <1>4, <1>5, <1>6, <1>7, <1>8, <1>9, <1>10
     DEF Next, HandlerStep, GroupStep, vars, handler, sync

\* A step of a sync leaves the handlers alone, closes or runs the sync, and
\* stores events only while it runs.
LEMMA SyncStep ==
  ASSUME TypeOK, GroupsRun, NEW x \in Syncs,
         \/ SyncBegin(x) \/ CloseDone(x)
         \/ \E g \in Groups : Receive(x, g) \/ Save(x, g) \/ Count(x, g) \/ EndFetch(x, g)
  PROVE  /\ UNCHANGED handler
         /\ \A y \in Syncs :
               spc[y] = "closed" => spc'[y] = "closed" /\ stored'[y] = stored[y]
<1>0. /\ spc \in [Syncs -> {"off", "begin", "run", "closed"}]
      /\ stored \in [Syncs -> SUBSET Event]
  BY DEF TypeOK
<1>1. CASE SyncBegin(x) \/ CloseDone(x)
  <2>1. /\ UNCHANGED <<handler, stored>> /\ spc[x] \in {"begin", "run"}
        /\ spc' = [spc EXCEPT ![x] = "closed"] \/ spc' = [spc EXCEPT ![x] = "run"]
    BY <1>1 DEF SyncBegin, CloseDone
  <2>. QED BY <1>0, <2>1
<1>2. ASSUME NEW g \in Groups, Receive(x, g) \/ Count(x, g) \/ EndFetch(x, g)
      PROVE  UNCHANGED <<handler, spc, stored>>
  BY <1>2 DEF Receive, Count, EndFetch
<1>3. ASSUME NEW g \in Groups, Save(x, g)
      PROVE  /\ UNCHANGED <<handler, spc>> /\ spc[x] = "run"
             /\ stored' = stored \/ stored' = [stored EXCEPT ![x] = stored[x] \cup held[x][g]]
  BY <1>3 DEF GroupsRun, Save
<1>4. ASSUME NEW g \in Groups, Save(x, g)
      PROVE  \A y \in Syncs : spc[y] = "closed" => spc'[y] = "closed" /\ stored'[y] = stored[y]
  BY <1>0, <1>3, <1>4
<1>. QED BY <1>1, <1>2, <1>3, <1>4

\* The conjuncts that speak of a handler and the sync it waits for.
FinalPart == FinalClosed /\ PublishedClosed /\ PublishedIsComplete

LEMMA FinalStep == TypeOK /\ PublishInv /\ [Next]_vars => FinalPart'
<1>. SUFFICES ASSUME TypeOK, PublishInv, [Next]_vars PROVE FinalPart'
  OBVIOUS
<1>0. /\ spc \in [Syncs -> {"off", "begin", "run", "closed"}]
      /\ subject \in [Requests -> Subjects]
      /\ pc \in [Requests -> {"idle", "compute", "send", "select", "done", "panic"}]
      /\ wave \in [Requests -> {"initial", "update", "final"}]
      /\ shot \in [Requests -> SUBSET Event]
      /\ published \in [Syncs -> SUBSET SUBSET Event]
      /\ \A r \in Requests : current(r) \in Syncs
  BY CurrentType DEF TypeOK
<1>a. /\ FinalClosed /\ PublishedClosed /\ PublishedIsComplete
      /\ StoredInDb /\ GroupsRun /\ NotYet
  BY DEF PublishInv
<1>1. CASE UNCHANGED <<pc, subject, wave, shot, spc, stored, published>>
  BY <1>1, <1>a DEF FinalPart, FinalClosed, PublishedClosed, PublishedIsComplete, current
<1>2. ASSUME NEW r \in Requests, Begin(r) PROVE FinalPart'
  <2>1. /\ UNCHANGED <<subject, wave, shot, spc, stored, published>>
        /\ pc[r] = "idle" /\ pc' = [pc EXCEPT ![r] = "compute"]
    BY <1>2 DEF Begin, sync
  <2>. QED BY <1>0, <1>a, <2>1
       DEF FinalPart, FinalClosed, PublishedClosed, PublishedIsComplete, current
<1>3. ASSUME NEW r \in Requests, Compute(r) PROVE FinalPart'
  <2>1. /\ UNCHANGED <<subject, wave, spc, stored, published>>
        /\ pc[r] = "compute" /\ pc' = [pc EXCEPT ![r] = "send"]
        /\ shot' = [shot EXCEPT ![r] = db]
    BY <1>3 DEF Compute, sync
  <2>2. stored[current(r)] \subseteq db
    BY <1>0, <1>a DEF StoredInDb
  <2>3. FinalClosed'
    BY <1>0, <1>a, <2>1, <2>2 DEF FinalClosed, current
  <2>. QED BY <1>a, <2>1, <2>3 DEF FinalPart, PublishedClosed, PublishedIsComplete
<1>4. ASSUME NEW r \in Requests, Send(r) PROVE FinalPart'
  <2>1. /\ UNCHANGED <<subject, wave, shot, spc, stored>> /\ pc[r] = "send"
        /\ pc' = pc \/ pc' = [pc EXCEPT ![r] = "panic"]
        /\ \/ /\ wave[r] = "final"
              /\ published' = [published EXCEPT
                                 ![current(r)] = published[current(r)] \cup {shot[r]}]
           \/ published' = published
    BY <1>4 DEF Send, Publish, sync
  <2>2. FinalClosed'
    BY <1>0, <1>a, <2>1 DEF FinalClosed, current
  <2>3. wave[r] = "final" =>
           spc[current(r)] = "closed" /\ stored[current(r)] \subseteq shot[r]
    BY <1>a, <2>1 DEF FinalClosed
  <2>4. PublishedClosed'
    BY <1>0, <1>a, <2>1, <2>3 DEF PublishedClosed
  <2>5. PublishedIsComplete'
    BY <1>0, <1>a, <2>1, <2>3 DEF PublishedIsComplete
  <2>. QED BY <2>2, <2>4, <2>5 DEF FinalPart
<1>5. ASSUME NEW r \in Requests, StartSync(r) PROVE FinalPart'
  <2>1. /\ UNCHANGED <<subject, wave, shot, stored, published>>
        /\ wave[r] = "initial" /\ pc' = [pc EXCEPT ![r] = "select"]
        /\ spc' = [spc EXCEPT ![current(r)] = "begin"]
    BY <1>5 DEF StartSync
  <2>2. spc[current(r)] = "off"
    BY <1>0, <1>5, <1>a DEF NotYet, StartSync, current
  <2>3. FinalClosed'
    <3>1. \A q \in Requests : q # r => current(q) # current(r)
      BY DEF current
    <3>2. \A q \in Requests : current(q)' = current(q)
      BY <2>1 DEF current
    <3>. QED BY <1>0, <1>a, <2>1, <3>1, <3>2 DEF FinalClosed
  <2>4. PublishedClosed'
    BY <1>0, <1>a, <2>1, <2>2 DEF PublishedClosed
  <2>. QED BY <1>a, <2>1, <2>3, <2>4 DEF FinalPart, PublishedIsComplete
<1>6. ASSUME NEW r \in Requests, Wait(r) \/ SelectTick(r) \/ SelectDone(r) PROVE FinalPart'
  <2>1. /\ UNCHANGED <<subject, shot, spc, stored, published>>
        /\ \/ pc' = [pc EXCEPT ![r] = "select"] /\ wave' = wave
           \/ /\ pc' = [pc EXCEPT ![r] = "compute"]
              /\ \/ wave' = [wave EXCEPT ![r] = "update"]
                 \/ wave' = [wave EXCEPT ![r] = "final"] /\ spc[current(r)] = "closed"
    BY <1>6 DEF Wait, SelectTick, SelectDone, sync
  <2>2. FinalClosed'
    BY <1>0, <1>a, <2>1 DEF FinalClosed, current
  <2>. QED BY <1>a, <2>1, <2>2 DEF FinalPart, PublishedClosed, PublishedIsComplete
<1>7. ASSUME NEW r \in Requests, Finish(r) \/ SkipInvalid(r) \/ SelectGone(r) PROVE FinalPart'
  <2>1. NextSubject(r) /\ UNCHANGED <<shot, spc, stored, published>>
    BY <1>7 DEF Finish, SkipInvalid, SelectGone, sync
  <2>2. \/ /\ subject' = [subject EXCEPT ![r] = subject[r] + 1]
           /\ pc' = [pc EXCEPT ![r] = "compute"]
           /\ wave' = [wave EXCEPT ![r] = "initial"]
        \/ pc' = [pc EXCEPT ![r] = "done"] /\ UNCHANGED <<subject, wave>>
    BY <2>1 DEF NextSubject
  <2>3. FinalClosed'
    BY <1>0, <1>a, <2>1, <2>2 DEF FinalClosed, current
  <2>. QED BY <1>a, <2>1, <2>3 DEF FinalPart, PublishedClosed, PublishedIsComplete
<1>8. ASSUME NEW x \in Syncs,
             \/ SyncBegin(x) \/ CloseDone(x)
             \/ \E g \in Groups : Receive(x, g) \/ Save(x, g) \/ Count(x, g) \/ EndFetch(x, g)
      PROVE  FinalPart'
  <2>1. /\ UNCHANGED <<pc, subject, wave, shot, published>>
        /\ \A y \in Syncs : spc[y] = "closed" => spc'[y] = "closed" /\ stored'[y] = stored[y]
    BY <1>8, <1>a, SyncStep DEF handler
  <2>2. FinalClosed'
    BY <1>0, <1>a, <2>1 DEF FinalClosed, current
  <2>3. PublishedClosed'
    BY <1>a, <2>1 DEF PublishedClosed
  <2>4. PublishedIsComplete'
    BY <1>a, <2>1 DEF PublishedClosed, PublishedIsComplete
  <2>. QED BY <2>2, <2>3, <2>4 DEF FinalPart
<1>9. ASSUME NEW r \in Requests, Cancel(r)
      PROVE  UNCHANGED <<pc, subject, wave, shot, spc, stored, published>>
  BY <1>9 DEF Cancel, handler, sync
<1>10. ASSUME NEW r \in Requests, Malformed(r) PROVE FinalPart'
  <2>1. /\ UNCHANGED <<subject, wave, shot, stored, published>> /\ pc'[r] = "panic"
        /\ \A q \in Requests : q # r => pc'[q] = pc[q]
        /\ \A y \in Syncs : spc[y] = "closed" => spc'[y] = "closed"
    BY <1>10, MalformedStops
  <2>2. FinalClosed'
    BY <1>0, <1>a, <2>1 DEF FinalClosed, current
  <2>. QED BY <1>a, <2>1, <2>2 DEF FinalPart, PublishedClosed, PublishedIsComplete
<1>. QED
  BY <1>1, <1>2, <1>3, <1>4, <1>5, <1>6, <1>7, <1>8, <1>9, <1>10
     DEF Next, HandlerStep, GroupStep, vars, handler, sync

LEMMA PublishInvHolds == Spec => []PublishInv
<1>1. Init => PublishInv
  <2>1. Init => StoredInDb /\ GroupsRun /\ FinalClosed /\ PublishedClosed /\ PublishedIsComplete
    BY DEF Init, StoredInDb, GroupsRun, FinalClosed, PublishedClosed, PublishedIsComplete
  <2>2. Init => NotYet
    BY DEF Init, NotYet, Syncs
  <2>. QED BY <2>1, <2>2 DEF PublishInv
<1>2. TypeOK /\ PublishInv /\ [Next]_vars => PublishInv'
  BY StoredInDbStep, GroupsRunStep, NotYetStep, FinalStep DEF PublishInv, FinalPart
<1>. QED BY <1>1, <1>2, TypeCorrect, PTL DEF Spec

\* A published assertion counts every event that the sync of its subject stored
\* (SyncUserEventsAsync, streamUserAssertions).
THEOREM PublishedAreComplete == Spec => []PublishedIsComplete
  BY PublishInvHolds, PTL DEF PublishInv

-----------------------------------------------------------------------------
(* The handler waits for a sync that is there. *)

\* The first wave of the subject a request works on is out.
Needs(r) ==
    \/ pc[r] = "select"
    \/ pc[r] \in {"idle", "compute", "send"} /\ wave[r] # "initial"

\* Once the first wave of a subject is out its sync has been started.
Started == \A r \in Requests : Needs(r) => spc[current(r)] # "off"

\* Done is what the handler may wait for: there is a sync behind it, and a group is
\* at work only as long as it is open, so it neither stays open for ever for want of
\* a sync nor closes on one that goes on (streamUserAssertions, SyncUserEventsAsync).
DoneMeansOver ==
    /\ \A r \in Requests : pc[r] = "select" => spc[current(r)] # "off"
    /\ \A x \in Syncs, g \in Groups :
          gpc[x][g] \in {"fetch", "save", "count"} => spc[x] = "run"

\* A sync that was started is never off again.
LEMMA StaysStarted ==
  ASSUME TypeOK, [Next]_vars
  PROVE  \A x \in Syncs : spc[x] # "off" => spc'[x] # "off"
<1>0. spc \in [Syncs -> {"off", "begin", "run", "closed"}]
  BY DEF TypeOK
<1>1. ASSUME NEW y \in Syncs, NEW p \in {"begin", "run", "closed"},
             spc' = [spc EXCEPT ![y] = p]
      PROVE  \A x \in Syncs : spc[x] # "off" => spc'[x] # "off"
  BY <1>0, <1>1
<1>2. ASSUME NEW r \in Requests, HandlerStep(r) \/ Begin(r) \/ Cancel(r)
      PROVE  spc' = spc \/ spc' = [spc EXCEPT ![current(r)] = "begin"]
  BY <1>2 DEF HandlerStep, Begin, Compute, Send, StartSync, Wait, Finish, SkipInvalid,
              SelectGone, SelectDone, SelectTick, Cancel, sync
<1>3. ASSUME NEW y \in Syncs, SyncBegin(y) \/ CloseDone(y)
      PROVE  \E p \in {"begin", "run", "closed"} : spc' = [spc EXCEPT ![y] = p]
  BY <1>3 DEF SyncBegin, CloseDone
<1>4. ASSUME NEW y \in Syncs, NEW g \in Groups, Receive(y, g) \/ GroupStep(y, g) \/ EndFetch(y, g)
      PROVE  spc' = spc
  BY <1>4 DEF GroupStep, Receive, Save, Count, EndFetch
<1>5. \A r \in Requests : current(r) \in Syncs
  BY CurrentType
<1>6. CASE UNCHANGED vars
  BY <1>6 DEF vars, sync
<1>7. CASE \E r \in Requests : Begin(r) \/ HandlerStep(r) \/ Cancel(r)
  BY <1>1, <1>2, <1>5, <1>7
<1>8. CASE \E y \in Syncs : SyncBegin(y) \/ CloseDone(y)
  BY <1>1, <1>3, <1>8
<1>9. ASSUME NEW r \in Requests, Malformed(r)
      PROVE  \A x \in Syncs : spc[x] # "off" => spc'[x] # "off"
  BY <1>9, MalformedStops
<1>. QED BY <1>4, <1>6, <1>7, <1>8, <1>9 DEF Next

\* Every step keeps it: only StartSync turns to the wait after the first wave, and
\* whoever turns to another subject begins with a first wave.
LEMMA StartedStep == TypeOK /\ Started /\ [Next]_vars => Started'
<1>. SUFFICES ASSUME TypeOK, Started, [Next]_vars PROVE Started'
  OBVIOUS
<1>0. /\ pc \in [Requests -> {"idle", "compute", "send", "select", "done", "panic"}]
      /\ wave \in [Requests -> {"initial", "update", "final"}]
      /\ subject \in [Requests -> Subjects]
      /\ spc \in [Syncs -> {"off", "begin", "run", "closed"}]
      /\ \A r \in Requests : current(r) \in Syncs
  BY CurrentType DEF TypeOK
<1>1. \A x \in Syncs : spc[x] # "off" => spc'[x] # "off"
  BY StaysStarted
<1>2. ASSUME NEW r \in Requests,
             \/ Needs(r) /\ subject'[r] = subject[r]
             \/ spc'[current(r)] # "off" /\ subject'[r] = subject[r]
             \/ ~Needs(r)'
      PROVE  Needs(r)' => spc'[current(r)'] # "off"
  <2>1. CASE ~Needs(r)'
    BY <2>1
  <2>2. CASE Needs(r) /\ subject'[r] = subject[r]
    <3>1. spc[current(r)] # "off" /\ current(r)' = current(r)
      BY <2>2 DEF Started, current
    <3>. QED BY <1>0, <1>1, <3>1
  <2>3. CASE spc'[current(r)] # "off" /\ subject'[r] = subject[r]
    BY <2>3 DEF current
  <2>. QED BY <1>2, <2>1, <2>2, <2>3
<1>3. ASSUME NEW r \in Requests, pc'[r] = pc[r], wave'[r] = wave[r], subject'[r] = subject[r]
      PROVE  Needs(r)' => spc'[current(r)'] # "off"
  <2>1. Needs(r)' <=> Needs(r)
    BY <1>3 DEF Needs
  <2>. QED BY <1>2, <1>3, <2>1
<1>4. ASSUME NEW r \in Requests, NEW q \in Requests, q # r,
             Begin(r) \/ HandlerStep(r) \/ Cancel(r)
      PROVE  pc'[q] = pc[q] /\ wave'[q] = wave[q] /\ subject'[q] = subject[q]
  BY <1>0, <1>4 DEF HandlerStep, Begin, Compute, Send, StartSync, Wait, Finish, SkipInvalid,
                    SelectGone, SelectDone, SelectTick, Cancel, NextSubject, handler
<1>5. ASSUME NEW r \in Requests, NextSubject(r) PROVE ~Needs(r)'
  BY <1>0, <1>5 DEF NextSubject, Needs
<1>6. ASSUME NEW r \in Requests, StartSync(r)
      PROVE  spc'[current(r)] # "off" /\ subject'[r] = subject[r]
  BY <1>0, <1>6 DEF StartSync
<1>7. ASSUME NEW r \in Requests, Begin(r) \/ Compute(r) \/ Send(r) \/ Wait(r)
      PROVE  \/ Needs(r) /\ subject'[r] = subject[r]
             \/ ~Needs(r)'
  <2>1. CASE Begin(r)
    BY <1>0, <2>1 DEF Begin, Needs
  <2>2. CASE Compute(r)
    BY <1>0, <2>2 DEF Compute, Needs
  <2>3. CASE Send(r)
    BY <1>0, <2>3 DEF Send, Needs
  <2>4. CASE Wait(r)
    BY <1>0, <2>4 DEF Wait, Needs
  <2>. QED BY <1>7, <2>1, <2>2, <2>3, <2>4
<1>8. ASSUME NEW r \in Requests, SelectDone(r) \/ SelectTick(r)
      PROVE  Needs(r) /\ subject'[r] = subject[r]
  BY <1>0, <1>8 DEF SelectDone, SelectTick, Needs
<1>9. ASSUME NEW r \in Requests, Cancel(r)
      PROVE  pc'[r] = pc[r] /\ wave'[r] = wave[r] /\ subject'[r] = subject[r]
  BY <1>9 DEF Cancel, handler
<1>10. ASSUME NEW r \in Requests, Begin(r) \/ HandlerStep(r) \/ Cancel(r) PROVE Started'
  <2>1. Needs(r)' => spc'[current(r)'] # "off"
    <3>1. CASE Finish(r) \/ SkipInvalid(r) \/ SelectGone(r)
      BY <1>2, <1>5, <3>1 DEF Finish, SkipInvalid, SelectGone
    <3>2. CASE Begin(r) \/ Compute(r) \/ Send(r) \/ Wait(r)
      BY <1>2, <1>7, <3>2
    <3>3. CASE StartSync(r)
      BY <1>2, <1>6, <3>3
    <3>4. CASE SelectDone(r) \/ SelectTick(r)
      BY <1>2, <1>8, <3>4
    <3>5. CASE Cancel(r)
      BY <1>3, <1>9, <3>5
    <3>. QED BY <1>10, <3>1, <3>2, <3>3, <3>4, <3>5 DEF HandlerStep
  <2>2. \A q \in Requests : q # r => (Needs(q)' => spc'[current(q)'] # "off")
    BY <1>3, <1>4, <1>10
  <2>. QED BY <2>1, <2>2 DEF Started
<1>11. ASSUME NEW x \in Syncs,
              \/ SyncBegin(x) \/ CloseDone(x)
              \/ \E g \in Groups : Receive(x, g) \/ GroupStep(x, g) \/ EndFetch(x, g)
       PROVE  UNCHANGED handler
  BY <1>11 DEF SyncBegin, CloseDone, GroupStep, Receive, Save, Count, EndFetch
<1>12. CASE UNCHANGED handler
  BY <1>3, <1>12 DEF Started, handler
<1>13. ASSUME NEW r \in Requests, Malformed(r) PROVE Started'
  <2>1. /\ UNCHANGED <<subject, wave>> /\ pc'[r] = "panic"
        /\ \A q \in Requests : q # r => pc'[q] = pc[q]
    BY <1>13, MalformedStops
  <2>2. ~Needs(r)'
    BY <2>1 DEF Needs
  <2>. QED BY <1>2, <1>3, <2>1, <2>2 DEF Started
<1>. QED BY <1>10, <1>11, <1>12, <1>13 DEF Next, vars

\* Any number of requests, subjects, groups and faults: the handler never waits for
\* a sync that was not started, and nothing is at work once Done is closed
\* (streamUserAssertions, SyncUserEventsAsync).
THEOREM DoneIsMeant == Spec => []DoneMeansOver
<1>1. Init => Started
  BY DEF Init, Started, Needs
<1>2. Started /\ GroupsRun => DoneMeansOver
  BY DEF Started, Needs, GroupsRun, DoneMeansOver
<1>. QED BY <1>1, <1>2, StartedStep, TypeCorrect, PublishInvHolds, PTL DEF Spec, PublishInv

-----------------------------------------------------------------------------
(* The promise of a wave of progress. *)

\* Whatever is counted, or about to be, is in the database or failed to get
\* there, and so is what made a handler send a wave of progress.
ProgressInv ==
    /\ \A x \in Syncs : counted[x] \subseteq db \cup failed
    /\ \A x \in Syncs, g \in Groups : gpc[x][g] = "count" => held[x][g] \subseteq db \cup failed
    /\ \A r \in Requests : promised[r] \subseteq db \cup failed
    /\ UpdateShowsProgress

LEMMA ProgressStep == TypeOK /\ ProgressInv /\ [Next]_vars => ProgressInv'
<1>. SUFFICES ASSUME TypeOK, ProgressInv, [Next]_vars PROVE ProgressInv'
  OBVIOUS
<1>0. /\ gpc \in [Syncs -> [Groups -> GroupPlaces]]
      /\ held \in [Syncs -> [Groups -> SUBSET Event]]
      /\ counted \in [Syncs -> SUBSET Event]
      /\ promised \in [Requests -> SUBSET Event] /\ shot \in [Requests -> SUBSET Event]
      /\ pc \in [Requests -> {"idle", "compute", "send", "select", "done", "panic"}]
      /\ wave \in [Requests -> {"initial", "update", "final"}]
      /\ \A r \in Requests : current(r) \in Syncs
  BY CurrentType DEF TypeOK, GroupPlaces
<1>1. CASE UNCHANGED <<db, failed, counted, gpc, held, promised, wave, pc, shot>>
  BY <1>1 DEF ProgressInv, UpdateShowsProgress
<1>2. ASSUME NEW r \in Requests, Compute(r) PROVE ProgressInv'
  <2>1. /\ UNCHANGED <<db, failed, counted, gpc, held, promised, wave>>
        /\ pc' = [pc EXCEPT ![r] = "send"] /\ shot' = [shot EXCEPT ![r] = db]
    BY <1>2 DEF Compute, sync
  <2>2. UpdateShowsProgress'
    BY <1>0, <2>1 DEF ProgressInv, UpdateShowsProgress
  <2>. QED BY <2>1, <2>2 DEF ProgressInv
<1>3. ASSUME NEW r \in Requests, SelectTick(r) PROVE ProgressInv'
  <2>1. /\ UNCHANGED <<db, failed, counted, gpc, held, shot>>
        /\ promised' = [promised EXCEPT ![r] = counted[current(r)]]
        /\ wave' = [wave EXCEPT ![r] = "update"] /\ pc' = [pc EXCEPT ![r] = "compute"]
    BY <1>3 DEF SelectTick, sync
  <2>2. UpdateShowsProgress'
    BY <1>0, <2>1 DEF ProgressInv, UpdateShowsProgress
  <2>. QED BY <1>0, <2>1, <2>2 DEF ProgressInv
<1>4. ASSUME NEW r \in Requests,
             \/ Begin(r) \/ Send(r) \/ StartSync(r) \/ Wait(r) \/ Finish(r)
             \/ SkipInvalid(r) \/ SelectGone(r) \/ SelectDone(r) \/ Cancel(r)
      PROVE  ProgressInv'
  <2>1. /\ UNCHANGED <<db, failed, counted, gpc, held, promised, shot>>
        /\ \A q \in Requests :
              wave'[q] = "update" /\ pc'[q] = "send" => wave[q] = "update" /\ pc[q] = "send"
    <3>1. CASE Begin(r)
      BY <1>0, <3>1 DEF Begin, sync
    <3>2. CASE Send(r)
      <4>1. pc' = pc \/ pc' = [pc EXCEPT ![r] = "panic"]
        BY <3>2 DEF Send
      <4>2. UNCHANGED <<db, failed, counted, gpc, held, promised, shot, wave>>
        BY <3>2 DEF Send, sync
      <4>. QED BY <1>0, <4>1, <4>2
    <3>3. CASE StartSync(r)
      BY <1>0, <3>3 DEF StartSync
    <3>4. CASE Wait(r)
      BY <1>0, <3>4 DEF Wait, sync
    <3>5. CASE Finish(r) \/ SkipInvalid(r) \/ SelectGone(r)
      <4>1. NextSubject(r) /\ UNCHANGED <<db, failed, counted, gpc, held, promised, shot>>
        BY <3>5 DEF Finish, SkipInvalid, SelectGone, sync
      <4>2. \/ pc' = [pc EXCEPT ![r] = "compute"] /\ wave' = [wave EXCEPT ![r] = "initial"]
            \/ pc' = [pc EXCEPT ![r] = "done"] /\ wave' = wave
        BY <4>1 DEF NextSubject
      <4>. QED BY <1>0, <4>1, <4>2
    <3>6. CASE SelectDone(r)
      BY <1>0, <3>6 DEF SelectDone, sync
    <3>7. CASE Cancel(r)
      BY <3>7 DEF Cancel, handler, sync
    <3>. QED BY <1>4, <3>1, <3>2, <3>3, <3>4, <3>5, <3>6, <3>7
  <2>. QED BY <2>1 DEF ProgressInv, UpdateShowsProgress
<1>5. ASSUME NEW x \in Syncs, SyncBegin(x) \/ CloseDone(x) PROVE ProgressInv'
  <2>1. /\ UNCHANGED <<db, failed, counted, held, promised, wave, pc, shot>>
        /\ \/ gpc' = gpc
           \/ \E start \in [Groups -> {"fetch", "end"}] : gpc' = [gpc EXCEPT ![x] = start]
    BY <1>5 DEF SyncBegin, CloseDone, handler
  <2>2. \A y \in Syncs, h \in Groups : gpc'[y][h] = "count" => gpc[y][h] = "count"
    BY <1>0, <2>1
  <2>. QED BY <2>1, <2>2 DEF ProgressInv, UpdateShowsProgress
<1>6. ASSUME NEW x \in Syncs, NEW g \in Groups, Receive(x, g) PROVE ProgressInv'
  <2>1. UNCHANGED <<db, failed, counted, promised, wave, pc, shot>>
    BY <1>6 DEF Receive, handler
  <2>2. \/ UNCHANGED <<gpc, held>>
        \/ /\ gpc' = [gpc EXCEPT ![x][g] = "save"]
           /\ \E e \in Event : held' = [held EXCEPT ![x][g] = {e}]
    BY <1>6 DEF Receive
  <2>3. \A y \in Syncs, h \in Groups :
           gpc'[y][h] = "count" => gpc[y][h] = "count" /\ held'[y][h] = held[y][h]
    <3>1. CASE UNCHANGED <<gpc, held>>
      BY <3>1
    <3>2. ASSUME gpc' = [gpc EXCEPT ![x][g] = "save"],
                 NEW e \in Event, held' = [held EXCEPT ![x][g] = {e}]
          PROVE  \A y \in Syncs, h \in Groups :
                    gpc'[y][h] = "count" => gpc[y][h] = "count" /\ held'[y][h] = held[y][h]
      BY <1>0, <3>2
    <3>. QED BY <2>2, <3>1, <3>2
  <2>. QED BY <2>1, <2>3 DEF ProgressInv, UpdateShowsProgress
<1>7. ASSUME NEW x \in Syncs, NEW g \in Groups, Save(x, g) PROVE ProgressInv'
  <2>1. /\ UNCHANGED <<counted, held, promised, wave, pc, shot>>
        /\ gpc' = [gpc EXCEPT ![x][g] = "count"]
    BY <1>7 DEF Save, handler
  <2>2. /\ db \cup failed \subseteq db' \cup failed' /\ held[x][g] \subseteq db' \cup failed'
        /\ failed \subseteq failed'
    BY <1>7 DEF Save
  <2>3. \A y \in Syncs, h \in Groups :
           gpc'[y][h] = "count" => gpc[y][h] = "count" \/ (y = x /\ h = g)
    BY <1>0, <2>1
  <2>4. UpdateShowsProgress'
    BY <2>1, <2>2 DEF ProgressInv, UpdateShowsProgress
  <2>5. /\ \A y \in Syncs : counted'[y] \subseteq db' \cup failed'
        /\ \A r \in Requests : promised'[r] \subseteq db' \cup failed'
    BY <2>1, <2>2 DEF ProgressInv
  <2>6. \A y \in Syncs, h \in Groups :
           gpc'[y][h] = "count" => held'[y][h] \subseteq db' \cup failed'
    BY <2>1, <2>2, <2>3 DEF ProgressInv
  <2>. QED BY <2>4, <2>5, <2>6 DEF ProgressInv
<1>8. ASSUME NEW x \in Syncs, NEW g \in Groups, Count(x, g) PROVE ProgressInv'
  <2>1. /\ UNCHANGED <<db, failed, promised, wave, pc, shot>> /\ gpc[x][g] = "count"
        /\ gpc' = [gpc EXCEPT ![x][g] = "fetch"]
        /\ held' = [held EXCEPT ![x][g] = {}]
        /\ counted' = [counted EXCEPT ![x] = counted[x] \cup held[x][g]]
    BY <1>8 DEF Count, handler
  <2>2. \A y \in Syncs : counted'[y] \subseteq db \cup failed
    BY <1>0, <2>1 DEF ProgressInv
  <2>3. \A y \in Syncs, h \in Groups :
           gpc'[y][h] = "count" => gpc[y][h] = "count" /\ held'[y][h] = held[y][h]
    BY <1>0, <2>1
  <2>. QED BY <2>1, <2>2, <2>3 DEF ProgressInv, UpdateShowsProgress
<1>9. ASSUME NEW x \in Syncs, NEW g \in Groups, EndFetch(x, g) PROVE ProgressInv'
  <2>1. /\ UNCHANGED <<db, failed, counted, held, promised, wave, pc, shot>>
        /\ gpc' = [gpc EXCEPT ![x][g] = "end"]
    BY <1>9 DEF EndFetch, handler
  <2>2. \A y \in Syncs, h \in Groups : gpc'[y][h] = "count" => gpc[y][h] = "count"
    BY <1>0, <2>1
  <2>. QED BY <2>1, <2>2 DEF ProgressInv, UpdateShowsProgress
<1>10. ASSUME NEW r \in Requests, Malformed(r) PROVE ProgressInv'
  BY <1>10, MalformedStops DEF ProgressInv, UpdateShowsProgress
<1>. QED
  BY <1>1, <1>2, <1>3, <1>4, <1>5, <1>6, <1>7, <1>8, <1>9, <1>10
     DEF Next, HandlerStep, GroupStep, vars, handler, sync

\* A wave of progress counts the events whose number made the tick send it,
\* except those that could not be stored (onEvent, sendUserMetrics).
THEOREM UpdatesShowProgress == Spec => []UpdateShowsProgress
<1>1. Init => ProgressInv
  BY DEF Init, ProgressInv, UpdateShowsProgress
<1>2. ProgressInv => UpdateShowsProgress
  BY DEF ProgressInv
<1>. QED BY <1>1, <1>2, TypeCorrect, ProgressStep, PTL DEF Spec

-----------------------------------------------------------------------------
(* What a client has been shown. *)

\* The sync of a subject that was left for any other reason than the client's
\* departure never began or has ended.
LeftIsOver ==
    \A x \in Syncs : IsLeft(x) /\ ~ctxDone[x[1]] => spc[x] \in {"off", "closed"}

\* A sync that has not begun has stored nothing.
OffIsEmpty == \A x \in Syncs : spc[x] = "off" => stored[x] = {}

\* The first assertion of a wave shows what the wave counts.
ShotIsShown ==
    \A r \in Requests :
        pc[r] = "send" /\ left[r] < NumMetrics /\ ~stopped[r] => shot[r] \subseteq shown[r]

ShownInv == LeftIsOver /\ OffIsEmpty /\ ShotIsShown /\ NothingUnshown

\* Neither a sync that has not begun nor one that has ended moves or stores in a
\* step of a sync that leaves "off" to the handler.
LEMMA OverStays ==
  ASSUME TypeOK, GroupsRun, NEW x \in Syncs,
         \/ SyncBegin(x) \/ CloseDone(x)
         \/ \E g \in Groups : Receive(x, g) \/ Save(x, g) \/ Count(x, g) \/ EndFetch(x, g)
  PROVE  \A y \in Syncs :
            /\ spc[y] \in {"off", "closed"} => spc'[y] = spc[y] /\ stored'[y] = stored[y]
            /\ spc'[y] = "off" => spc[y] = "off"
<1>0. /\ spc \in [Syncs -> {"off", "begin", "run", "closed"}]
      /\ stored \in [Syncs -> SUBSET Event]
  BY DEF TypeOK
<1>1. CASE SyncBegin(x) \/ CloseDone(x)
  <2>1. /\ stored' = stored /\ spc[x] \in {"begin", "run"}
        /\ spc' = [spc EXCEPT ![x] = "closed"] \/ spc' = [spc EXCEPT ![x] = "run"]
    BY <1>1 DEF SyncBegin, CloseDone
  <2>. QED BY <1>0, <2>1
<1>2. CASE \E g \in Groups : Receive(x, g) \/ Count(x, g) \/ EndFetch(x, g)
  BY <1>2 DEF Receive, Count, EndFetch
<1>3. ASSUME NEW g \in Groups, Save(x, g)
      PROVE  \A y \in Syncs :
                /\ spc[y] \in {"off", "closed"} => spc'[y] = spc[y] /\ stored'[y] = stored[y]
                /\ spc'[y] = "off" => spc[y] = "off"
  <2>1. /\ spc' = spc /\ spc[x] = "run"
        /\ stored' = stored \/ stored' = [stored EXCEPT ![x] = stored[x] \cup held[x][g]]
    BY <1>3 DEF GroupsRun, Save
  <2>. QED BY <1>0, <2>1
<1>. QED BY <1>1, <1>2, <1>3

\* Leaving a subject: of the syncs of the request only that of the current subject
\* is left by it.
LEMMA LeavesCurrent ==
  ASSUME TypeOK, NEW r \in Requests, NextSubject(r), pc[r] # "done"
  PROVE  /\ \A x \in Syncs : IsLeft(x)' => IsLeft(x) \/ x = current(r)
         /\ \A q \in Requests : pc'[q] = "send" => pc[q] = "send" /\ q # r
<1>0. /\ subject \in [Requests -> Subjects] /\ Subjects \subseteq Int
      /\ pc \in [Requests -> {"idle", "compute", "send", "select", "done", "panic"}]
  BY DEF TypeOK, Subjects
<1>1. CASE subject[r] < NumSubjects
  <2>1. /\ subject' = [subject EXCEPT ![r] = subject[r] + 1]
        /\ pc' = [pc EXCEPT ![r] = "compute"]
    BY <1>1 DEF NextSubject
  <2>2. ASSUME NEW x \in Syncs, IsLeft(x)' PROVE IsLeft(x) \/ x = current(r)
    <3>1. x[1] \in Requests /\ x[2] \in Int /\ x = <<x[1], x[2]>>
      BY <1>0, SyncType
    <3>2. CASE x[1] = r
      BY <1>0, <2>1, <2>2, <3>1, <3>2 DEF IsLeft, current
    <3>3. CASE x[1] # r
      BY <1>0, <2>1, <2>2, <3>1, <3>3 DEF IsLeft
    <3>. QED BY <3>2, <3>3
  <2>. QED BY <1>0, <2>1, <2>2
<1>2. CASE ~(subject[r] < NumSubjects)
  <2>1. pc' = [pc EXCEPT ![r] = "done"] /\ subject' = subject
    BY <1>2 DEF NextSubject
  <2>2. ASSUME NEW x \in Syncs, IsLeft(x)' PROVE IsLeft(x) \/ x = current(r)
    <3>1. /\ x[1] \in Requests /\ x[2] \in Int /\ x[2] <= NumSubjects
          /\ x = <<x[1], x[2]>> /\ subject[r] \in Int /\ NumSubjects \in Int
      BY <1>0, SyncType, StreamAssumption DEF Subjects
    <3>2. CASE x[1] = r
      BY <1>2, <3>1, <3>2 DEF IsLeft, current
    <3>3. CASE x[1] # r
      BY <1>0, <2>1, <2>2, <3>1, <3>3 DEF IsLeft
    <3>. QED BY <3>2, <3>3
  <2>. QED BY <1>0, <2>1, <2>2
<1>. QED BY <1>1, <1>2

LEMMA ShownStep == TypeOK /\ PublishInv /\ ShownInv /\ [Next]_vars => ShownInv'
<1>. SUFFICES ASSUME TypeOK, PublishInv, ShownInv, [Next]_vars PROVE ShownInv'
  OBVIOUS
<1>. USE DEF handler, sync
<1>0. /\ spc \in [Syncs -> {"off", "begin", "run", "closed"}]
      /\ pc \in [Requests -> {"idle", "compute", "send", "select", "done", "panic"}]
      /\ ctxDone \in [Requests -> BOOLEAN] /\ stopped \in [Requests -> BOOLEAN]
      /\ shot \in [Requests -> SUBSET Event] /\ shown \in [Requests -> SUBSET Event]
      /\ left \in [Requests -> 0 .. NumMetrics] /\ NumMetrics \in Nat
      /\ \A x \in Syncs : x[1] \in Requests
      /\ \A r \in Requests : current(r) \in Syncs
  BY CurrentType, SyncType, StreamAssumption DEF TypeOK
<1>a. /\ LeftIsOver /\ OffIsEmpty /\ ShotIsShown /\ NothingUnshown
      /\ GroupsRun /\ NotYet /\ FinalClosed
  BY DEF ShownInv, PublishInv
\* Steps of a handler that stays with its subject.
<1>1. ASSUME UNCHANGED <<ctxDone, stopped, subject, shown, spc, stored>>,
             \A r \in Requests : /\ pc'[r] = "done" => pc[r] = "done"
                                 /\ pc'[r] = "send" =>
                                       \/ left'[r] = NumMetrics
                                       \/ /\ pc[r] = "send" /\ left'[r] = left[r]
                                          /\ shot'[r] = shot[r]
      PROVE  ShownInv'
  <2>1. \A x \in Syncs : IsLeft(x)' => IsLeft(x)
    BY <1>0, <1>1 DEF IsLeft
  <2>2. LeftIsOver' /\ OffIsEmpty' /\ NothingUnshown'
    BY <1>a, <1>1, <2>1 DEF LeftIsOver, OffIsEmpty, NothingUnshown
  <2>3. ShotIsShown'
    BY <1>0, <1>a, <1>1 DEF ShotIsShown
  <2>. QED BY <2>2, <2>3 DEF ShownInv
<1>2. ASSUME NEW r \in Requests,
             \/ Begin(r) \/ Compute(r) \/ Wait(r) \/ SelectDone(r) \/ SelectTick(r)
      PROVE  ShownInv'
  <2>1. /\ UNCHANGED <<ctxDone, stopped, subject, shown, spc, stored>>
        /\ \/ /\ \E p \in {"compute", "select"} : pc' = [pc EXCEPT ![r] = p]
              /\ UNCHANGED <<left, shot>>
           \/ /\ pc' = [pc EXCEPT ![r] = "send"]
              /\ left' = [left EXCEPT ![r] = NumMetrics]
              /\ shot' = [shot EXCEPT ![r] = db]
    BY <1>2 DEF Begin, Compute, Wait, SelectDone, SelectTick
  <2>. QED BY <1>0, <1>1, <2>1
<1>3. ASSUME NEW r \in Requests, Send(r) PROVE ShownInv'
  <2>1. /\ UNCHANGED <<ctxDone, subject, shot, spc, stored>> /\ pc[r] = "send"
        /\ \/ /\ pc' = [pc EXCEPT ![r] = "panic"] /\ UNCHANGED <<stopped, left, shown>>
           \/ /\ shown' = [shown EXCEPT ![r] = shown[r] \cup shot[r]]
              /\ left' = [left EXCEPT ![r] = left[r] - 1]
              /\ UNCHANGED <<pc, stopped>>
           \/ /\ stopped' = [stopped EXCEPT ![r] = TRUE]
              /\ left' = [left EXCEPT ![r] = 0]
              /\ UNCHANGED <<pc, shown>>
    BY <1>3 DEF Send
  <2>2. \A x \in Syncs : IsLeft(x)' => IsLeft(x)
    BY <1>0, <2>1 DEF IsLeft
  <2>3. \A q \in Requests : shown[q] \subseteq shown'[q] /\ (stopped[q] => stopped'[q])
    BY <1>0, <2>1
  <2>4. LeftIsOver' /\ OffIsEmpty' /\ NothingUnshown'
    BY <1>0, <1>a, <2>1, <2>2, <2>3 DEF LeftIsOver, OffIsEmpty, NothingUnshown
  <2>5. ShotIsShown'
    BY <1>0, <1>a, <2>1 DEF ShotIsShown
  <2>. QED BY <2>4, <2>5 DEF ShownInv
<1>4. ASSUME NEW r \in Requests, StartSync(r) PROVE ShownInv'
  <2>1. /\ UNCHANGED <<ctxDone, stopped, subject, shown, left, shot, stored>> /\ pc[r] = "send"
        /\ pc' = [pc EXCEPT ![r] = "select"]
        /\ spc' = [spc EXCEPT ![current(r)] = "begin"]
    BY <1>4 DEF StartSync
  <2>2. ~IsLeft(current(r))
    BY <2>1 DEF IsLeft, current, TypeOK, Subjects
  <2>3. \A x \in Syncs : IsLeft(x)' => IsLeft(x)
    BY <1>0, <2>1 DEF IsLeft
  <2>4. LeftIsOver' /\ OffIsEmpty' /\ NothingUnshown'
    BY <1>0, <1>a, <2>1, <2>2, <2>3 DEF LeftIsOver, OffIsEmpty, NothingUnshown
  <2>5. ShotIsShown'
    BY <1>0, <1>a, <2>1 DEF ShotIsShown
  <2>. QED BY <2>4, <2>5 DEF ShownInv
<1>5. ASSUME NEW r \in Requests, Finish(r) \/ SkipInvalid(r) \/ SelectGone(r) PROVE ShownInv'
  <2>1. /\ NextSubject(r) /\ pc[r] # "done"
        /\ UNCHANGED <<ctxDone, stopped, shown, left, shot, spc, stored>>
    BY <1>5 DEF Finish, SkipInvalid, SelectGone
  <2>2. /\ \A x \in Syncs : IsLeft(x)' => IsLeft(x) \/ x = current(r)
        /\ \A q \in Requests : pc'[q] = "send" => pc[q] = "send" /\ q # r
    BY <2>1, LeavesCurrent
  <2>3. /\ ~ctxDone[r] => spc[current(r)] \in {"off", "closed"}
        /\ ~ctxDone[r] /\ ~stopped[r] /\ NumMetrics > 0 =>
              stored[current(r)] \subseteq shown[r]
    <3>1. CASE Finish(r)
      BY <1>0, <1>a, <3>1 DEF Finish, FinalClosed, ShotIsShown
    <3>2. CASE SkipInvalid(r)
      <4>1. spc[current(r)] = "off"
        BY <1>a, <3>2 DEF SkipInvalid, NotYet, current, TypeOK
      <4>. QED BY <1>0, <1>a, <4>1 DEF OffIsEmpty
    <3>3. CASE SelectGone(r)
      BY <3>3 DEF SelectGone
    <3>. QED BY <1>5, <3>1, <3>2, <3>3
  <2>4. current(r)[1] = r
    BY DEF current
  <2>5. LeftIsOver' /\ OffIsEmpty' /\ NothingUnshown'
    BY <1>a, <2>1, <2>2, <2>3, <2>4 DEF LeftIsOver, OffIsEmpty, NothingUnshown
  <2>6. ShotIsShown'
    BY <1>a, <2>1, <2>2 DEF ShotIsShown
  <2>. QED BY <2>5, <2>6 DEF ShownInv
<1>6. ASSUME NEW x \in Syncs,
             \/ SyncBegin(x) \/ CloseDone(x)
             \/ \E g \in Groups : Receive(x, g) \/ Save(x, g) \/ Count(x, g) \/ EndFetch(x, g)
      PROVE  ShownInv'
  <2>1. UNCHANGED <<ctxDone, pc, subject, stopped, shown, left, shot>>
    BY <1>6 DEF SyncBegin, CloseDone, Receive, Save, Count, EndFetch
  <2>2. \A y \in Syncs :
           /\ spc[y] \in {"off", "closed"} => spc'[y] = spc[y] /\ stored'[y] = stored[y]
           /\ spc'[y] = "off" => spc[y] = "off"
    BY <1>6, <1>a, OverStays
  <2>3. \A y \in Syncs : IsLeft(y)' <=> IsLeft(y)
    BY <2>1 DEF IsLeft
  <2>4. LeftIsOver' /\ OffIsEmpty' /\ NothingUnshown'
    BY <1>a, <2>1, <2>2, <2>3 DEF LeftIsOver, OffIsEmpty, NothingUnshown
  <2>5. ShotIsShown'
    BY <1>a, <2>1 DEF ShotIsShown
  <2>. QED BY <2>4, <2>5 DEF ShownInv
<1>7. ASSUME NEW r \in Requests, Cancel(r) PROVE ShownInv'
  <2>1. /\ UNCHANGED <<pc, subject, stopped, shown, left, shot, spc, stored>>
        /\ \A q \in Requests : ctxDone[q] => ctxDone'[q]
    BY <1>0, <1>7 DEF Cancel
  <2>2. \A y \in Syncs : IsLeft(y)' <=> IsLeft(y)
    BY <2>1 DEF IsLeft
  <2>. QED BY <1>0, <1>a, <2>1, <2>2
       DEF ShownInv, LeftIsOver, OffIsEmpty, ShotIsShown, NothingUnshown
<1>8. CASE UNCHANGED vars
  BY <1>1, <1>8 DEF vars
<1>9. ASSUME NEW r \in Requests, Malformed(r) PROVE ShownInv'
  <2>1. /\ UNCHANGED <<ctxDone, stopped, subject, shown, left, shot, stored>>
        /\ pc[r] # "done" /\ pc'[r] = "panic"
        /\ \A q \in Requests : q # r => pc'[q] = pc[q]
        /\ \A y \in Syncs : /\ spc[y] \in {"off", "closed"} => spc'[y] = spc[y]
                            /\ spc'[y] = "off" => spc[y] = "off"
    BY <1>0, <1>9, MalformedStops
  <2>2. \A y \in Syncs : IsLeft(y)' <=> IsLeft(y)
    BY <1>0, <2>1 DEF IsLeft
  <2>3. LeftIsOver' /\ OffIsEmpty' /\ NothingUnshown'
    BY <1>a, <2>1, <2>2 DEF LeftIsOver, OffIsEmpty, NothingUnshown
  <2>4. ShotIsShown'
    BY <1>a, <2>1 DEF ShotIsShown
  <2>. QED BY <2>3, <2>4 DEF ShownInv
<1>. QED
  BY <1>2, <1>3, <1>4, <1>5, <1>6, <1>7, <1>8, <1>9 DEF Next, HandlerStep, GroupStep

LEMMA ShownInvHolds == Spec => []ShownInv
<1>1. Init => ShownInv
  <2>1. Init => \A x \in Syncs : stored[x] = {} /\ spc[x] = "off"
    BY DEF Init
  <2>. QED BY <2>1
       DEF Init, ShownInv, LeftIsOver, OffIsEmpty, ShotIsShown, NothingUnshown
<1>. QED BY <1>1, ShownStep, TypeCorrect, PublishInvHolds, PTL DEF Spec

\* When the handler leaves a subject, a client that stays and listens has been
\* shown all that its sync stored (streamUserAssertions).
THEOREM LeavesNothingUnshown == Spec => []NothingUnshown
  BY ShownInvHolds, PTL DEF ShownInv

-----------------------------------------------------------------------------
(* The handler with its syncs implements StreamService. *)

\* What a wave counts is in the database.
ShotInDb == \A r \in Requests : pc[r] = "send" => shot[r] \subseteq db

\* Nothing but the final wave of a subject is published.
OneFinal ==
    \A r \in Requests : pc[r] \in {"idle", "compute", "select", "send"} =>
        published[current(r)] \subseteq
            IF wave[r] = "final" /\ pc[r] = "send" THEN {shot[r]} ELSE {}

WaveInv == ShotInDb /\ OneFinal

LEMMA WaveStep == TypeOK /\ PublishInv /\ WaveInv /\ [Next]_vars => WaveInv'
<1>. SUFFICES ASSUME TypeOK, PublishInv, WaveInv, [Next]_vars PROVE WaveInv'
  OBVIOUS
<1>. USE DEF handler, sync
<1>0. /\ subject \in [Requests -> Subjects]
      /\ pc \in [Requests -> {"idle", "compute", "send", "select", "done", "panic"}]
      /\ wave \in [Requests -> {"initial", "update", "final"}]
      /\ shot \in [Requests -> SUBSET Event] /\ published \in [Syncs -> SUBSET SUBSET Event]
      /\ \A r \in Requests : current(r) \in Syncs
  BY CurrentType DEF TypeOK
<1>a. ShotInDb /\ OneFinal /\ NotYet /\ PublishedClosed
  BY DEF WaveInv, PublishInv
\* Steps that publish nothing, of a handler that stays with its subject.
<1>1. ASSUME UNCHANGED <<subject, published>>, db \subseteq db',
             \A r \in Requests :
                \/ pc'[r] = pc[r] /\ wave'[r] = wave[r] /\ shot'[r] = shot[r]
                \/ pc[r] # "panic" /\ pc[r] # "done" /\ ~(wave[r] = "final" /\ pc[r] = "send")
                   /\ (pc'[r] = "send" => shot'[r] = db)
      PROVE  WaveInv'
  <2>1. ShotInDb'
    BY <1>0, <1>1, <1>a DEF ShotInDb
  <2>2. \A r \in Requests : current(r)' = current(r) /\ published'[current(r)] = published[current(r)]
    BY <1>1 DEF current
  <2>3. OneFinal'
    BY <1>0, <1>1, <1>a, <2>2 DEF OneFinal
  <2>. QED BY <2>1, <2>3 DEF WaveInv
<1>2. ASSUME NEW r \in Requests,
             Begin(r) \/ Compute(r) \/ Wait(r) \/ StartSync(r) \/ SelectDone(r) \/ SelectTick(r)
      PROVE  WaveInv'
  <2>1. /\ UNCHANGED <<subject, published, db>>
        /\ \A q \in Requests : q # r => pc'[q] = pc[q] /\ wave'[q] = wave[q] /\ shot'[q] = shot[q]
        /\ pc[r] # "panic" /\ pc[r] # "done" /\ ~(wave[r] = "final" /\ pc[r] = "send")
        /\ pc'[r] = "send" => shot'[r] = db
    BY <1>0, <1>2 DEF Begin, Compute, Wait, StartSync, SelectDone, SelectTick
  <2>. QED BY <1>1, <2>1
<1>3. ASSUME NEW r \in Requests, Send(r) PROVE WaveInv'
  <2>1. /\ UNCHANGED <<subject, wave, shot, db>> /\ pc[r] = "send"
        /\ pc' = pc \/ pc' = [pc EXCEPT ![r] = "panic"]
        /\ \/ /\ wave[r] = "final"
              /\ published' = [published EXCEPT
                                 ![current(r)] = published[current(r)] \cup {shot[r]}]
           \/ published' = published
    BY <1>3 DEF Send, Publish
  <2>2. ShotInDb'
    BY <1>0, <1>a, <2>1 DEF ShotInDb
  <2>3. \A q \in Requests : /\ current(q)' = current(q)
                            /\ q # r => current(q) # current(r)
    BY <2>1 DEF current
  <2>4. OneFinal'
    BY <1>0, <1>a, <2>1, <2>3 DEF OneFinal
  <2>. QED BY <2>2, <2>4 DEF WaveInv
<1>4. ASSUME NEW r \in Requests, Finish(r) \/ SkipInvalid(r) \/ SelectGone(r) PROVE WaveInv'
  <2>1. NextSubject(r) /\ UNCHANGED <<db, shot, published>>
    BY <1>4 DEF Finish, SkipInvalid, SelectGone
  <2>2. CASE pc' = [pc EXCEPT ![r] = "done"] /\ UNCHANGED <<subject, wave>>
    <3>1. ShotInDb'
      BY <1>0, <1>a, <2>1, <2>2 DEF ShotInDb
    <3>2. \A q \in Requests : current(q)' = current(q)
      BY <2>2 DEF current
    <3>3. OneFinal'
      BY <1>0, <1>a, <2>1, <2>2, <3>2 DEF OneFinal
    <3>. QED BY <3>1, <3>3 DEF WaveInv
  <2>3. CASE /\ subject[r] < NumSubjects
             /\ subject' = [subject EXCEPT ![r] = subject[r] + 1]
             /\ wave' = [wave EXCEPT ![r] = "initial"]
             /\ pc' = [pc EXCEPT ![r] = "compute"]
    <3>1. ShotInDb'
      BY <1>0, <1>a, <2>1, <2>3 DEF ShotInDb
    <3>2. published[<<r, subject[r] + 1>>] = {}
      <4>1. subject[r] + 1 \in Subjects /\ subject[r] + 1 > subject[r]
        BY <1>0, <2>3, StreamAssumption DEF Subjects
      <4>2. <<r, subject[r] + 1>> \in Syncs
        BY <4>1 DEF Syncs
      <4>. QED BY <1>a, <4>1, <4>2 DEF NotYet, PublishedClosed
    <3>3. /\ current(r)' = <<r, subject[r] + 1>>
          /\ \A q \in Requests : q # r => current(q)' = current(q)
      BY <1>0, <2>3 DEF current
    <3>4. OneFinal'
      BY <1>0, <1>a, <2>1, <2>3, <3>2, <3>3 DEF OneFinal
    <3>. QED BY <3>1, <3>4 DEF WaveInv
  <2>. QED BY <2>1, <2>2, <2>3 DEF NextSubject
<1>5. ASSUME NEW x \in Syncs,
             \/ SyncBegin(x) \/ CloseDone(x)
             \/ \E g \in Groups : Receive(x, g) \/ Save(x, g) \/ Count(x, g) \/ EndFetch(x, g)
      PROVE  WaveInv'
  <2>1. UNCHANGED <<subject, published, pc, wave, shot>> /\ db \subseteq db'
    BY <1>5 DEF SyncBegin, CloseDone, Receive, Save, Count, EndFetch
  <2>. QED BY <1>1, <2>1
<1>6. ASSUME NEW r \in Requests, Cancel(r) PROVE WaveInv'
  BY <1>1, <1>6 DEF Cancel
<1>7. CASE UNCHANGED vars
  BY <1>1, <1>7 DEF vars
<1>8. ASSUME NEW r \in Requests, Malformed(r) PROVE WaveInv'
  <2>1. /\ UNCHANGED <<db, subject, wave, shot, published>> /\ pc'[r] = "panic"
        /\ \A q \in Requests : q # r => pc'[q] = pc[q]
    BY <1>8, MalformedStops
  <2>2. ShotInDb'
    BY <1>a, <2>1 DEF ShotInDb
  <2>3. OneFinal'
    BY <1>a, <2>1 DEF OneFinal, current
  <2>. QED BY <2>2, <2>3 DEF WaveInv
<1>. QED BY <1>2, <1>3, <1>4, <1>5, <1>6, <1>7, <1>8 DEF Next, HandlerStep, GroupStep

\* What the refinement rests on.
ServiceInv == TypeOK /\ PublishInv /\ ShownInv /\ WaveInv

LEMMA ServiceInvHolds == Spec => []ServiceInv
<1>1. ASSUME Init PROVE WaveInv
  <2>1. pc = [r \in Requests |-> "idle"] /\ subject = [r \in Requests |-> 1]
        /\ published = [x \in Syncs |-> {}]
    BY <1>1 DEF Init
  <2>2. \A r \in Requests : current(r) = <<r, 1>> /\ current(r) \in Syncs
    BY <2>1, StreamAssumption DEF current, Syncs, Subjects
  <2>3. OneFinal
    BY <2>1, <2>2 DEF OneFinal
  <2>4. ShotInDb
    BY <2>1 DEF ShotInDb
  <2>. QED BY <2>3, <2>4 DEF WaveInv
<1>. QED BY <1>1, WaveStep, TypeCorrect, PublishInvHolds, ShownInvHolds, PTL DEF Spec, ServiceInv

\* Where StreamService sees a request that is not done.
LEMMA PlaceOf ==
  ASSUME TypeOK, NEW r \in Requests, pc[r] # "done"
  PROVE  /\ Place[r] = subject[r] /\ Place[r] <= NumSubjects
         /\ <<r, Place[r]>> = current(r) /\ current(r) \in Syncs
<1>1. subject[r] \in 1 .. NumSubjects /\ NumSubjects \in Nat
  BY StreamAssumption DEF TypeOK, Subjects
<1>. QED BY <1>1, CurrentType DEF Place, current

\* Where it sees a sync.
LEMMA PhaseOf ==
  ASSUME TypeOK, NEW x \in Syncs
  PROVE  /\ spc[x] = "off" <=> Phase[x] = "off"
         /\ spc[x] \in {"begin", "run"} <=> Phase[x] = "on"
         /\ spc[x] = "closed" <=> Phase[x] = "over"
<1>1. spc[x] \in {"off", "begin", "run", "closed"}
  BY DEF TypeOK
<1>2. Phase[x] = IF spc[x] \in {"begin", "run"} THEN "on"
                 ELSE IF spc[x] = "closed" THEN "over" ELSE "off"
  BY DEF Phase
<1>. QED BY <1>1, <1>2

\* A step of one sync moves its phase only.
LEMMA PhaseMoves ==
  ASSUME TypeOK, NEW x \in Syncs, NEW s, spc' = [spc EXCEPT ![x] = s]
  PROVE  Phase' = [Phase EXCEPT ![x] = IF s \in {"begin", "run"} THEN "on"
                                       ELSE IF s = "closed" THEN "over" ELSE "off"]
<1>1. \A y \in Syncs : spc'[y] = IF y = x THEN s ELSE spc[y]
  BY DEF TypeOK
<1>. QED BY <1>1 DEF Phase

\* A step that keeps the subjects and ends no request keeps its place.
LEMMA PlaceStays ==
  ASSUME subject' = subject, \A r \in Requests : pc'[r] = "done" <=> pc[r] = "done"
  PROVE  Place' = Place
  BY DEF Place

LEMMA ServiceInit == Init => Service!Init
<1>1. Service!Syncs = Syncs
  BY DEF Service!Syncs, Syncs, Subjects
<1>2. Init => Place = [r \in Requests |-> 1] /\ Phase = [x \in Syncs |-> "off"]
  BY DEF Init, Place, Phase
<1>. QED BY <1>1, <1>2 DEF Init, Service!Init

\* An assertion that is sent: the final ones are published.
LEMMA SendAsserts ==
  ASSUME ServiceInv, NEW r \in Requests, Send(r)
  PROVE  Service!Assert(r)
<1>0. TypeOK /\ FinalClosed /\ ShotInDb /\ OneFinal
  BY DEF ServiceInv, PublishInv, WaveInv
<1>1. /\ pc[r] = "send" /\ UNCHANGED <<db, ctxDone, subject, spc, stored>>
      /\ pc' = pc \/ pc' = [pc EXCEPT ![r] = "panic"]
  BY DEF Send, sync
<1>2. /\ Place[r] <= NumSubjects /\ <<r, Place[r]>> = current(r) /\ current(r) \in Syncs
  BY <1>0, <1>1, PlaceOf
<1>3. shot[r] \in SUBSET db
  BY <1>0, <1>1 DEF ShotInDb
<1>4. Service!Publish(<<r, Place[r]>>, shot[r]) \/ UNCHANGED published
  <2>1. CASE wave[r] = "final"
    <3>1. published' = [published EXCEPT ![current(r)] = published[current(r)] \cup {shot[r]}]
      BY <2>1 DEF Send, Publish
    <3>2. published[current(r)] \subseteq {shot[r]}
      BY <1>0, <1>1, <2>1 DEF OneFinal
    <3>3. published[current(r)] \cup {shot[r]} = {shot[r]}
      BY <3>2
    <3>4. Phase[current(r)] = "over" /\ stored[current(r)] \subseteq shot[r]
      BY <1>0, <1>1, <1>2, <2>1, PhaseOf DEF FinalClosed
    <3>. QED BY <1>2, <3>1, <3>2, <3>3, <3>4 DEF Service!Publish
  <2>2. CASE wave[r] # "final"
    BY <2>2 DEF Send, Publish
  <2>. QED BY <2>1, <2>2
<1>5. Service!Show(r, shot[r])
  <2>1. stopped \in [Requests -> BOOLEAN]
    BY <1>0 DEF TypeOK
  <2>. QED BY <2>1 DEF Send, Service!Show
<1>6. Place' = Place
  BY <1>0, <1>1, PlaceStays DEF TypeOK
<1>7. Phase' = Phase
  BY <1>1 DEF Phase
<1>. QED BY <1>1, <1>2, <1>3, <1>4, <1>5, <1>6, <1>7 DEF Service!Assert

\* The sync of a subject starts in its turn.
LEMMA StartsSync ==
  ASSUME ServiceInv, NEW r \in Requests, StartSync(r)
  PROVE  Service!StartSync(r)
<1>0. TypeOK /\ NotYet
  BY DEF ServiceInv, PublishInv
<1>1. /\ UNCHANGED <<db, ctxDone, stopped, subject, stored, shown, published>>
      /\ pc[r] = "send" /\ wave[r] = "initial" /\ pc' = [pc EXCEPT ![r] = "select"]
      /\ spc' = [spc EXCEPT ![current(r)] = "begin"]
  BY DEF StartSync
<1>2. /\ Place[r] <= NumSubjects /\ <<r, Place[r]>> = current(r) /\ current(r) \in Syncs
  BY <1>0, <1>1, PlaceOf
<1>3. Phase[current(r)] = "off"
  BY <1>0, <1>1, <1>2, PhaseOf DEF NotYet, current, TypeOK
<1>4. Phase' = [Phase EXCEPT ![current(r)] = "on"]
  <2>1. PICK x \in Syncs : x = current(r)
    BY <1>2
  <2>. QED BY <1>0, <1>1, <2>1, PhaseMoves
<1>5. Place' = Place
  BY <1>0, <1>1, PlaceStays DEF TypeOK
<1>. QED BY <1>1, <1>2, <1>3, <1>4, <1>5 DEF Service!StartSync

\* A request goes on when nothing is left to wait for or to show.
LEMMA GoesOn ==
  ASSUME ServiceInv, ServiceInv', NEW r \in Requests, Finish(r) \/ SkipInvalid(r) \/ SelectGone(r)
  PROVE  Service!GoOn(r)
<1>0. TypeOK /\ LeftIsOver' /\ NothingUnshown'
  BY DEF ServiceInv, ShownInv
<1>1. /\ NextSubject(r) /\ pc[r] # "done"
      /\ UNCHANGED <<db, ctxDone, stopped, spc, stored, shown, published>>
  BY DEF Finish, SkipInvalid, SelectGone, sync
<1>2. /\ Place[r] = subject[r] /\ Place[r] <= NumSubjects /\ <<r, Place[r]>> = current(r)
      /\ current(r) \in Syncs /\ current(r)[1] = r /\ current(r)[2] = subject[r]
  BY <1>0, <1>1, PlaceOf DEF current
<1>3. /\ \A q \in Requests : subject[q] \in Nat
      /\ NumSubjects \in Nat /\ subject[r] <= NumSubjects
  BY <1>0, <1>2, StreamAssumption DEF TypeOK, Subjects
<1>4. /\ subject'[r] > subject[r] \/ pc'[r] = "done"
      /\ Place' = [Place EXCEPT ![r] = Place[r] + 1]
  <2>1. CASE /\ subject' = [subject EXCEPT ![r] = subject[r] + 1]
             /\ pc' = [pc EXCEPT ![r] = "compute"]
    <3>1. subject'[r] = subject[r] + 1
      BY <1>0, <2>1 DEF TypeOK
    <3>2. subject'[r] > subject[r]
      BY <1>3, <3>1
    <3>3. \A q \in Requests : /\ pc'[q] = "done" <=> pc[q] = "done"
                              /\ q # r => subject'[q] = subject[q]
      BY <1>0, <1>1, <2>1 DEF TypeOK
    <3>4. Place' = [Place EXCEPT ![r] = Place[r] + 1]
      BY <1>1, <1>2, <3>1, <3>3 DEF Place
    <3>. QED BY <3>2, <3>4
  <2>2. CASE pc' = [pc EXCEPT ![r] = "done"] /\ UNCHANGED subject /\ ~(subject[r] < NumSubjects)
    <3>1. pc'[r] = "done" /\ \A q \in Requests : q # r => pc'[q] = pc[q]
      BY <1>0, <2>2 DEF TypeOK
    <3>2. subject[r] = NumSubjects
      BY <1>3, <2>2
    <3>3. Place' = [Place EXCEPT ![r] = Place[r] + 1]
      BY <1>2, <2>2, <3>1, <3>2 DEF Place
    <3>. QED BY <3>1, <3>3
  <2>. QED BY <1>1, <2>1, <2>2 DEF NextSubject
<1>5. \/ ctxDone[r]
      \/ /\ Phase[current(r)] # "on"
         /\ stopped[r] \/ NumMetrics = 0 \/ stored[current(r)] \subseteq shown[r]
  <2>1. ~ctxDone[r] => spc[current(r)] \in {"off", "closed"}
    BY <1>0, <1>1, <1>2, <1>4 DEF LeftIsOver, IsLeft
  <2>2. ~ctxDone[r] /\ ~stopped[r] /\ NumMetrics > 0 => stored[current(r)] \subseteq shown[r]
    BY <1>0, <1>1, <1>2, <1>4 DEF NothingUnshown, IsLeft
  <2>3. NumMetrics = 0 \/ NumMetrics > 0
    BY StreamAssumption
  <2>. QED BY <1>0, <1>2, <2>1, <2>2, <2>3, PhaseOf
<1>6. Phase' = Phase
  BY <1>1 DEF Phase
<1>. QED BY <1>1, <1>2, <1>4, <1>5, <1>6 DEF Service!GoOn

\* A sync stores while it is on, and ends.
LEMMA SyncServes ==
  ASSUME ServiceInv, NEW x \in Syncs,
         \/ SyncBegin(x) \/ CloseDone(x)
         \/ \E g \in Groups : Receive(x, g) \/ Save(x, g) \/ Count(x, g) \/ EndFetch(x, g)
  PROVE  Service!Store(x) \/ Service!EndSync(x) \/ UNCHANGED Service!serviceVars
<1>0. TypeOK /\ GroupsRun
  BY DEF ServiceInv, PublishInv
<1>. USE DEF handler
<1>1. UNCHANGED <<ctxDone, stopped, shown, published>> /\ Place' = Place
  BY DEF SyncBegin, CloseDone, Receive, Save, Count, EndFetch, Place
<1>2. CASE \E g \in Groups : Receive(x, g) \/ Count(x, g) \/ EndFetch(x, g)
  <2>1. UNCHANGED <<db, stored, spc>>
    BY <1>2 DEF Receive, Count, EndFetch
  <2>2. Phase' = Phase
    BY <2>1 DEF Phase
  <2>. QED BY <1>1, <2>1, <2>2 DEF Service!serviceVars
<1>3. ASSUME NEW g \in Groups, Save(x, g)
      PROVE  Service!Store(x) \/ UNCHANGED Service!serviceVars
  <2>1. Phase' = Phase /\ Phase[x] = "on"
    BY <1>0, <1>3, PhaseOf DEF Save, GroupsRun, Phase
  <2>2. held[x][g] \in SUBSET Event
    BY <1>0 DEF TypeOK
  <2>3. CASE db' = db \cup held[x][g] /\ stored' = [stored EXCEPT ![x] = stored[x] \cup held[x][g]]
    BY <1>1, <2>1, <2>2, <2>3 DEF Service!Store
  <2>4. CASE UNCHANGED <<db, stored>>
    BY <1>1, <2>1, <2>4 DEF Service!serviceVars
  <2>. QED BY <1>3, <2>3, <2>4 DEF Save
<1>4. CASE SyncBegin(x) \/ CloseDone(x)
  <2>1. /\ UNCHANGED <<db, stored>> /\ spc[x] \in {"begin", "run"}
        /\ spc' = [spc EXCEPT ![x] = "closed"] \/ spc' = [spc EXCEPT ![x] = "run"]
    BY <1>4 DEF SyncBegin, CloseDone
  <2>2. Phase[x] = "on"
    BY <1>0, <2>1, PhaseOf
  <2>3. CASE spc' = [spc EXCEPT ![x] = "closed"]
    <3>1. Phase' = [Phase EXCEPT ![x] = "over"]
      BY <1>0, <2>3, PhaseMoves
    <3>. QED BY <1>1, <2>1, <2>2, <3>1 DEF Service!EndSync
  <2>4. CASE spc' = [spc EXCEPT ![x] = "run"]
    <3>1. Phase' = [Phase EXCEPT ![x] = "on"]
      BY <1>0, <2>4, PhaseMoves
    <3>2. Phase' = Phase
      BY <2>2, <3>1 DEF Phase
    <3>. QED BY <1>1, <2>1, <3>2 DEF Service!serviceVars
  <2>. QED BY <2>1, <2>3, <2>4
<1>. QED BY <1>2, <1>3, <1>4

\* A subject that is not hex ends a sync that has just begun, or changes nothing that
\* the service sees.
LEMMA MalformedServes ==
  ASSUME ServiceInv, NEW r \in Requests, Malformed(r)
  PROVE  \/ current(r) \in Syncs /\ Service!EndSync(current(r))
         \/ UNCHANGED Service!serviceVars
<1>0. TypeOK
  BY DEF ServiceInv
<1>1. /\ UNCHANGED <<db, ctxDone, stopped, subject, shown, published, stored>>
      /\ pc[r] # "done" /\ pc'[r] = "panic" /\ \A q \in Requests : q # r => pc'[q] = pc[q]
  BY <1>0, MalformedStops
<1>2. Place' = Place
  BY <1>1, PlaceStays
<1>3. CASE spc' = spc
  <2>1. Phase' = Phase
    BY <1>3 DEF Phase
  <2>. QED BY <1>1, <1>2, <2>1 DEF Service!serviceVars
<1>4. ASSUME NEW x \in Syncs, x = current(r), spc[x] = "begin", spc' = [spc EXCEPT ![x] = "closed"]
      PROVE  Service!EndSync(x)
  <2>1. Phase[x] = "on" /\ Phase' = [Phase EXCEPT ![x] = "over"]
    BY <1>0, <1>4, PhaseOf, PhaseMoves
  <2>. QED BY <1>1, <1>2, <2>1 DEF Service!EndSync
<1>5. current(r) \in Syncs
  BY <1>0, CurrentType
<1>. QED BY <1>0, <1>3, <1>4, <1>5, MalformedStops

LEMMA ServiceStep ==
  ServiceInv /\ ServiceInv' /\ [Next]_vars => [Service!Next]_(Service!serviceVars)
<1>. SUFFICES ASSUME ServiceInv, ServiceInv', [Next]_vars
              PROVE  Service!Next \/ UNCHANGED Service!serviceVars
  OBVIOUS
<1>. USE DEF handler, sync
<1>0. Service!Syncs = Syncs
  BY DEF Service!Syncs, Syncs, Subjects
<1>1. ASSUME NEW r \in Requests,
             Begin(r) \/ Compute(r) \/ Wait(r) \/ SelectDone(r) \/ SelectTick(r)
      PROVE  UNCHANGED Service!serviceVars
  <2>1. /\ UNCHANGED <<db, ctxDone, stopped, subject, spc, stored, shown, published>>
        /\ pc[r] # "done" /\ \E p \in {"compute", "send", "select"} : pc' = [pc EXCEPT ![r] = p]
    BY <1>1 DEF Begin, Compute, Wait, SelectDone, SelectTick
  <2>2. Place' = Place
    BY <2>1, PlaceStays DEF ServiceInv, TypeOK
  <2>. QED BY <2>1, <2>2 DEF Phase, Service!serviceVars
<1>2. ASSUME NEW r \in Requests, Cancel(r) PROVE Service!Leave(r)
  BY <1>2 DEF Cancel, Service!Leave, Place, Phase
<1>3. CASE UNCHANGED vars
  BY <1>3 DEF vars, Place, Phase, Service!serviceVars
<1>4. ASSUME NEW r \in Requests, Send(r) \/ StartSync(r) \/ Finish(r) \/ SkipInvalid(r) \/ SelectGone(r)
      PROVE  Service!Assert(r) \/ Service!StartSync(r) \/ Service!GoOn(r)
  BY <1>4, SendAsserts, StartsSync, GoesOn
<1>5. ASSUME NEW x \in Syncs,
             \/ SyncBegin(x) \/ CloseDone(x)
             \/ \E g \in Groups : Receive(x, g) \/ Save(x, g) \/ Count(x, g) \/ EndFetch(x, g)
      PROVE  Service!Store(x) \/ Service!EndSync(x) \/ UNCHANGED Service!serviceVars
  BY <1>5, SyncServes
<1>6. ASSUME NEW r \in Requests, Malformed(r)
      PROVE  (\E x \in Syncs : Service!EndSync(x)) \/ UNCHANGED Service!serviceVars
  BY <1>6, MalformedServes
<1>. QED
  BY <1>0, <1>1, <1>2, <1>3, <1>4, <1>5, <1>6 DEF Next, HandlerStep, GroupStep, Service!Next

\* The handler with its syncs keeps the promise of StreamService: in each subject's
\* turn one sync, one complete publication after it, and nothing unshown when the
\* request goes on (HandleNIP85QueryQueryStored and what it calls).
THEOREM StreamImplementsService == Spec => ImplementsService
<1>1. Init /\ [][Next]_vars /\ []ServiceInv => Service!Spec
  BY ServiceInit, ServiceStep, PTL DEF Service!Spec
<1>. QED BY <1>1, ServiceInvHolds DEF Spec, ImplementsService
=============================================================================
