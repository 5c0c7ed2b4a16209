---------------------------- MODULE StreamService ----------------------------
(***************************************************************************)
(* What a request for assertions promises its client and its storage       *)
(* relays.  It works on its subjects one after the other.  Each may get    *)
(* one sync.  An assertion counts events that the database has; one that   *)
(* is published is made after the sync, counts all that the sync stored,   *)
(* and agrees with the others of its subject.  A client that stays and     *)
(* listens is shown all that a sync stored before the request goes on, and *)
(* no sync of a subject it went on from is at work.                        *)
(***************************************************************************)
EXTENDS Naturals

CONSTANTS Requests,     \* the requests
          NumSubjects,  \* how many subjects each of them asks about
          Event,        \* source events
          Silent        \* the filter leaves no assertion to send

VARIABLES db,        \* source events in the event database
          gone,      \* the client of a request has left
          deaf,      \* it does not listen any more
          at,        \* the subject a request works on, NumSubjects + 1 at its end
          phase,     \* the sync of a subject is off, on or over
          stored,    \* what each sync put into the database
          shown,     \* what is counted in what a client was sent
          published  \* what is counted in the published assertions of a subject

serviceVars == <<db, gone, deaf, at, phase, stored, shown, published>>

Syncs == Requests \X (1 .. NumSubjects)

Init ==
    /\ db \in SUBSET Event
    /\ gone = [r \in Requests |-> FALSE] /\ deaf = [r \in Requests |-> FALSE]
    /\ at = [r \in Requests |-> 1]
    /\ phase = [x \in Syncs |-> "off"]
    /\ stored = [x \in Syncs |-> {}]
    /\ shown = [r \in Requests |-> {}]
    /\ published = [x \in Syncs |-> {}]

Leave(r) ==
    /\ gone' = [gone EXCEPT ![r] = TRUE]
    /\ UNCHANGED <<db, deaf, at, phase, stored, shown, published>>

\* An assertion about x that counts S is published.
Publish(x, S) ==
    /\ phase[x] = "over" /\ stored[x] \subseteq S /\ published[x] \subseteq {S}
    /\ published' = [published EXCEPT ![x] = {S}]

\* It is sent to the client, or the client does not listen.
Show(r, S) ==
    \/ /\ ~deaf[r]
       /\ shown' = [shown EXCEPT ![r] = @ \cup S]
       /\ UNCHANGED deaf
    \/ /\ deaf' = [deaf EXCEPT ![r] = TRUE]
       /\ UNCHANGED shown

Assert(r) ==
    /\ at[r] <= NumSubjects
    /\ \E S \in SUBSET db :
          /\ Publish(<<r, at[r]>>, S) \/ UNCHANGED published
          /\ Show(r, S)
    /\ UNCHANGED <<db, gone, at, phase, stored>>

StartSync(r) ==
    /\ at[r] <= NumSubjects /\ phase[<<r, at[r]>>] = "off"
    /\ phase' = [phase EXCEPT ![<<r, at[r]>>] = "on"]
    /\ UNCHANGED <<db, gone, deaf, at, stored, shown, published>>

Store(x) ==
    /\ phase[x] = "on"
    /\ \E E \in SUBSET Event :
          /\ db' = db \cup E
          /\ stored' = [stored EXCEPT ![x] = @ \cup E]
    /\ UNCHANGED <<gone, deaf, at, phase, shown, published>>

EndSync(x) ==
    /\ phase[x] = "on"
    /\ phase' = [phase EXCEPT ![x] = "over"]
    /\ UNCHANGED <<db, gone, deaf, at, stored, shown, published>>

GoOn(r) ==
    /\ at[r] <= NumSubjects
    /\ \/ gone[r]
       \/ /\ phase[<<r, at[r]>>] # "on"
          /\ deaf[r] \/ Silent \/ stored[<<r, at[r]>>] \subseteq shown[r]
    /\ at' = [at EXCEPT ![r] = @ + 1]
    /\ UNCHANGED <<db, gone, deaf, phase, stored, shown, published>>

Next ==
    \/ \E r \in Requests : Leave(r) \/ Assert(r) \/ StartSync(r) \/ GoOn(r)
    \/ \E x \in Syncs : Store(x) \/ EndSync(x)

Spec == Init /\ [][Next]_serviceVars
=============================================================================
