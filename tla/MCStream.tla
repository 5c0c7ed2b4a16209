------------------------------- MODULE MCStream -------------------------------
(* Instances of Stream for TLC. *)
EXTENDS Stream

CONSTANTS q1, user, reports, e1, e2

OneRequest  == {q1}
TwoGroups   == {user, reports}
OneGroup    == {user}
OneEvent    == {e1}
TwoEvents   == {e1, e2}

CancelOnly == {"cancel"}
=============================================================================
