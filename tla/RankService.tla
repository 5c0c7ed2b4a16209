----------------------------- MODULE RankService -----------------------------
(***************************************************************************)
(* What the graph rank engine promises its callers.  The follow graph goes *)
(* through versions.  A rank asked for is computed from a version between  *)
(* the last one acknowledged when the question was asked and the current   *)
(* one, or it is refused and the caller falls back to its own heuristic.   *)
(***************************************************************************)
EXTENDS Naturals

CONSTANTS Readers,  \* the calls of GetUserRank
          None      \* no question, or an answer without a rank

VARIABLES version,  \* the version of the follow graph
          acked,    \* the newest version persistEvent is done with
          asked,    \* acked when each reader asked, or None
          answer    \* the version each reader's last rank was computed from

serviceVars == <<version, acked, asked, answer>>

Init ==
    /\ version = 0 /\ acked = 0
    /\ asked = [r \in Readers |-> None]
    /\ answer = [r \in Readers |-> None]

Update ==
    /\ version' = version + 1
    /\ UNCHANGED <<acked, asked, answer>>

Acknowledge ==
    /\ acked' \in acked .. version
    /\ UNCHANGED <<version, asked, answer>>

Ask(r) ==
    /\ asked[r] = None
    /\ asked' = [asked EXCEPT ![r] = acked]
    /\ answer' = [answer EXCEPT ![r] = None]
    /\ UNCHANGED <<version, acked>>

Answer(r) ==
    /\ asked[r] # None
    /\ \E v \in asked[r] .. version : answer' = [answer EXCEPT ![r] = v]
    /\ asked' = [asked EXCEPT ![r] = None]
    /\ UNCHANGED <<version, acked>>

\* The questions of a set of readers are refused: a query of theirs failed, or
\* the process went down.
Refuse(R) ==
    /\ R # {} /\ \A r \in R : asked[r] # None
    /\ asked' = [r \in Readers |-> IF r \in R THEN None ELSE asked[r]]
    /\ UNCHANGED <<version, acked, answer>>

Next ==
    \/ Update \/ Acknowledge
    \/ \E r \in Readers : Ask(r) \/ Answer(r)
    \/ \E R \in SUBSET Readers : Refuse(R)

Spec == Init /\ [][Next]_serviceVars
=============================================================================
