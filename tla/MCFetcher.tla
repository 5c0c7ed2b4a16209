------------------------------ MODULE MCFetcher ------------------------------
(* Instances of Fetcher for TLC: an event was created in the second that the  *)
(* first digit of its id says.                                               *)
EXTENDS Fetcher, TLC

CONSTANTS s1, s2  \* sessions

OneSession  == {s1}
TwoSessions == {s1, s2}
Symmetry    == Permutations(TwoSessions)

\* A tie in second 3, and 4 is published while running.
EventsTie  == {20, 30, 31, 40}
\* A tie in second 3, into which events are published while sessions run.
EventsNow  == {20, 30, 31}
\* More events in the oldest second than a page holds, and one of second 3.
EventsFull == {20, 21, 22, 30}

CreatedAtOf(E) == [e \in E |-> e \div 10]
CreatedAtNow   == CreatedAtOf(EventsNow)
CreatedAtTie   == CreatedAtOf(EventsTie)
CreatedAtFull  == CreatedAtOf(EventsFull)

Backward == {"backward"}
Both     == {"backward", "forward"}

NoFaults   == {}
\* Answers are whole.
RaceFaults == {"savefail", "crash"}
CancelOnly == {"cancel"}
=============================================================================
