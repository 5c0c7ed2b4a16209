---------------------------- MODULE FetchService ----------------------------
(***************************************************************************)
(* What fetching from one relay with a cursor promises.  Sessions share    *)
(* one claim: events that a session which starts from it does not ask the  *)
(* relay for.  What it puts in the place of the claim later holds all it   *)
(* started from and nothing but events that were handed over or left out.  *)
(* It may put it in the place of a newer one.  What is not yet published   *)
(* is in nobody's claim.  Not asking for more than the claim is no breach: *)
(* the newest second that was fetched and what follows it are outside.     *)
(*                                                                         *)
(* An answer of the relay is a page of at most Limit events.  Unless       *)
(* answers are cut, an event is left out only if a whole page of others    *)
(* created in its second has been handed over.                             *)
(***************************************************************************)
EXTENDS Naturals, FiniteSets

CONSTANTS Sessions,  \* those who fetch
          Event,     \* events
          Second,    \* when each of them was created
          Limit,     \* the size of a page
          Cut        \* answers may end early

VARIABLES relay,    \* the events the relay holds
          stored,   \* events that were handed over and stored
          dropped,  \* events that were handed over in vain
          skipped,  \* events that were left out
          claimed,  \* the claim
          from      \* the claim each session started from; empty while it does nothing

serviceVars == <<relay, stored, dropped, skipped, claimed, from>>

handedOver == stored \cup dropped

Init ==
    /\ relay \in SUBSET Event
    /\ stored = {} /\ dropped = {} /\ skipped = {} /\ claimed = {}
    /\ from = [s \in Sessions |-> {}]

Publish(e) ==
    /\ e \notin claimed /\ \A s \in Sessions : e \notin from[s]
    /\ relay' = relay \cup {e}
    /\ UNCHANGED <<stored, dropped, skipped, claimed, from>>

HandOver(e) ==
    /\ e \in relay
    /\ \/ stored' = stored \cup {e} /\ UNCHANGED dropped
       \/ dropped' = dropped \cup {e} /\ UNCHANGED stored
    /\ UNCHANGED <<relay, skipped, claimed, from>>

\* A page of events created in second t has been handed over.
PageOf(t) ==
    \E P \in SUBSET handedOver : Cardinality(P) = Limit /\ \A f \in P : Second[f] = t

LeaveOut(E) ==
    /\ E \subseteq relay \ handedOver
    /\ Cut \/ \A e \in E : PageOf(Second[e])
    /\ skipped' = skipped \cup E
    /\ UNCHANGED <<relay, stored, dropped, claimed, from>>

Begin(s) ==
    /\ from' = [from EXCEPT ![s] = claimed]
    /\ UNCHANGED <<relay, stored, dropped, skipped, claimed>>

Claim(s) ==
    /\ from[s] \subseteq claimed'
    /\ claimed' \cap relay \subseteq handedOver \cup skipped
    /\ from' = [from EXCEPT ![s] = {}]
    /\ UNCHANGED <<relay, stored, dropped, skipped>>

\* Sessions end without a claim.
GiveUp(S) ==
    /\ from' = [s \in Sessions |-> IF s \in S THEN {} ELSE from[s]]
    /\ UNCHANGED <<relay, stored, dropped, skipped, claimed>>

Next ==
    \/ \E e \in Event : Publish(e) \/ HandOver(e)
    \/ \E E \in SUBSET Event : LeaveOut(E)
    \/ \E s \in Sessions : Begin(s) \/ Claim(s)
    \/ \E S \in SUBSET Sessions : GiveUp(S)

Spec == Init /\ [][Next]_serviceVars
=============================================================================
