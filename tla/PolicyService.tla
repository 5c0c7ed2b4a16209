---------------------------- MODULE PolicyService ----------------------------
(***************************************************************************)
(* What the request policy promises its callers.  Requests get a verdict   *)
(* one after the other, each once and for good.  A verdict is what the     *)
(* policy script said of that very request, in a version that was in place *)
(* after the request's turn came if the script is watched, or else it is   *)
(* the verdict of the failure mode.                                        *)
(***************************************************************************)
EXTENDS Naturals

CONSTANTS Calls,           \* the requests
          Nobody,          \* nobody's turn
          Verdicts,        \* what the policy may say
          FailureVerdict,  \* the verdict when it does not say anything
          Watched          \* a changed script replaces the one in use

VARIABLES script,   \* the version of the script
          said,     \* what the policy said of which request
          turn,     \* the request whose turn it is, or Nobody
          since,    \* the version of the script when the turn of a request came
          verdict,  \* the verdict on each request, "none" before it
          judge     \* the version of the script it comes from, 0 for none

serviceVars == <<script, said, turn, since, verdict, judge>>

Init ==
    /\ script = 1 /\ said = {} /\ turn = Nobody
    /\ since = [c \in Calls |-> 0]
    /\ verdict = [c \in Calls |-> "none"]
    /\ judge = [c \in Calls |-> 0]

ChangeScript ==
    /\ script' = script + 1
    /\ UNCHANGED <<said, turn, since, verdict, judge>>

Say(c, v) ==
    /\ said' = said \cup {<<c, v>>}
    /\ UNCHANGED <<script, turn, since, verdict, judge>>

Begin(c) ==
    /\ turn = Nobody /\ verdict[c] = "none"
    /\ turn' = c
    /\ since' = [since EXCEPT ![c] = script]
    /\ UNCHANGED <<script, said, verdict, judge>>

\* The verdict on c is v, by version b of the script.
Give(c, v, b) ==
    /\ turn = c
    /\ turn' = Nobody
    /\ verdict' = [verdict EXCEPT ![c] = v]
    /\ judge' = [judge EXCEPT ![c] = b]
    /\ UNCHANGED <<script, said, since>>

Judge(c) ==
    \E v \in Verdicts, b \in 1 .. script :
        /\ <<c, v>> \in said
        /\ Watched => since[c] <= b
        /\ Give(c, v, b)

Fail(c) == Give(c, FailureVerdict, 0)

Next ==
    \/ ChangeScript
    \/ \E c \in Calls : Begin(c) \/ Judge(c) \/ Fail(c)
    \/ \E c \in Calls, v \in Verdicts : Say(c, v)

Spec == Init /\ [][Next]_serviceVars
=============================================================================
