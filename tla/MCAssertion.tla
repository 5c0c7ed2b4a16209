----------------------------- MODULE MCAssertion -----------------------------
(* Instances of Assertion for TLC. *)
EXTENDS Assertion

StartAt  == 12 * Day
At(d, h) == d * Day + h * Hour

Source(k, by, at, tags, topics, amount) ==
    [kind |-> k, author |-> by, at |-> at, tags |-> tags, topics |-> topics, amount |-> amount]
Note(by, at, tags) == Source(1, by, at, tags, <<>>, 0)

P(u) == <<"p", u>>
E(u) == <<"e", u>>
Q(u) == <<"q", u>>
A(u) == <<"a", u>>

\* What alice wrote and received, the interactions with her note root, and those
\* with her article addr.  old1 to old4 fall in one hour before midnight.
SourceData ==
    [old1 |-> Note("alice", At(1, 23), {}),
     old2 |-> Note("alice", At(2, 23) + 1, {}),
     old3 |-> Note("alice", At(3, 23) + 2, {E("x")}),
     old4 |-> Note("alice", At(4, 23) + 3, {}),
     post |-> Source(1, "alice", At(5, 0), {}, <<{"go"}, {"go"}, {"nostr", "zap"}>>, 0),
     repl |-> Source(1, "alice", At(6, 1), {E("x")}, <<{"nostr", "zap"}, {"tea"}>>, 0),
     like |-> Source(7, "alice", At(6, 2), {E("x")}, <<>>, 0),
     foll |-> Source(3, "bob", At(6, 3), {P("alice")}, <<>>, 0),
     fol2 |-> Source(3, "eve", At(6, 4), {P("alice"), P("bob")}, <<>>, 0),
     zapr |-> Source(9735, "wallet", At(3, 5), {P("alice"), <<"P", "bob">>}, <<>>, 21500),
     zaps |-> Source(9735, "wallet", At(7, 5), {P("bob"), <<"P", "alice">>}, <<>>, 9999),
     nutr |-> Source(9321, "bob", At(8, 5), {P("alice")}, <<>>, 7),
     self |-> Source(9321, "alice", At(9, 5), {P("alice")}, <<>>, 30),
     repr |-> Source(1984, "bob", At(6, 6), {P("alice")}, <<>>, 0),
     reps |-> Source(1984, "alice", At(6, 7), {P("bob")}, <<>>, 0),
     root |-> Note("carol", At(4, 8), {}),
     comm |-> Note("bob", At(5, 8), {E("root")}),
     both |-> Note("bob", At(5, 9), {E("root"), Q("root")}),
     quot |-> Note("eve", At(5, 10), {Q("root"), E("x")}),
     rpst |-> Source(6, "bob", At(5, 11), {E("root")}, <<>>, 0),
     hear |-> Source(7, "bob", At(5, 12), {E("root")}, <<>>, 0),
     ezap |-> Source(9735, "wallet", At(5, 13), {E("root"), P("carol")}, <<>>, 1000),
     enut |-> Source(9321, "bob", At(5, 14), {E("root"), P("carol")}, <<>>, 2),
     acom |-> Note("bob", At(5, 15), {A("addr")}),
     arep |-> Source(16, "bob", At(5, 16), {A("addr")}, <<>>, 0),
     alik |-> Source(7, "bob", At(5, 17), {A("addr")}, <<>>, 0),
     azap |-> Source(9735, "wallet", At(5, 18), {A("addr")}, <<>>, 3000),
     anut |-> Source(9321, "eve", At(5, 19), {A("addr")}, <<>>, 4)]

Written      == {"old1", "old2", "old3", "old4", "post", "repl"}
OfUser       == {"post", "like", "foll", "zapr", "zaps", "self", "repr", "reps"}
OfEvent      == {"comm", "both", "quot", "rpst", "hear", "ezap", "enut"}
OfAddress    == {"acom", "arep", "alik", "azap", "anut"}
Interactions == OfEvent \cup OfAddress

Subjects == [user |-> "alice", event |-> "root", address |-> "addr"]

\* Relay home is in the lists of users, pop in the list of popular relays.
RelayHolds ==
    [home |-> (Written \cup OfUser \cup Interactions \cup {"nutr"}) \ {"repr"},
     pop  |-> {"root", "repr", "reps", "comm", "acom"},
     near |-> {"foll", "both", "arep"},
     far  |-> {"post", "quot"}]

BuiltInPopular == <<"near">>
BuiltInUser    == <<"near", "far">>

\* What a storage relay does to a lookup.
Has(list) == [up |-> TRUE,  connect |-> 1,  answer |-> 1,  list |-> list]
Quiet     == [up |-> TRUE,  connect |-> 1,  answer |-> 3,  list |-> <<>>]
Late      == [up |-> TRUE,  connect |-> 2,  answer |-> 12, list |-> <<>>]
Down      == [up |-> FALSE, connect |-> 2,  answer |-> 0,  list |-> <<>>]
Hangs     == [up |-> FALSE, connect |-> 20, answer |-> 0,  list |-> <<>>]

PopularOk == <<Has(<<"pop", "home", "far">>)>>
UserOk    == <<Has(<<"home", "home">>)>>

-----------------------------------------------------------------------------
(* Scenes *)

Scene(k, authors, local, remote) ==
    [kind |-> k, authors |-> authors, requests |-> {1}, local |-> local, remote |-> remote,
     popular |-> PopularOk, nip65 |-> UserOk, authorKnown |-> TRUE,
     outlets |-> {}, lossy |-> FALSE, maxTime |-> StartAt, maxUpdates |-> 1]

UserKey(metric) == <<"user", metric>>

\* One metric of a user, and two of different needs.
OneMetric ==
    {Scene("user", {UserKey(metric)}, {"old1"}, OfUser) :
        metric \in UserMetrics \ {"rank"}}
    \cup {Scene("user", {UserKey("followers"), UserKey("zap_cnt_sent")}, {"zapr"}, OfUser),
          Scene("user", {UserKey("reports_cnt_sent"), UserKey("reactions_cnt")}, {}, OfUser)}

\* The rank, every metric, and a key that is not of this kind: all events are asked for.
EveryMetric ==
    {Scene("user", {UserKey("rank")}, {"old1"}, {"foll", "post", "nutr", "zapr"}),
     Scene("user", {}, {"zaps", "like"}, {"repr", "self", "repl", "reps"}),
     Scene("user", {<<"event", "rank">>}, {}, {"foll", "like"})}

\* More notes than a query returns.
Busy == {Scene("user", {UserKey("active_hours_start"), UserKey("post_cnt"), UserKey("t")},
               {"old1", "old2", "old3", "old4"}, {"post", "repl"})}

OfOthers ==
    {Scene("event", {}, {}, {"root", "comm", "both", "quot", "ezap"}),
     Scene("event", {<<"event", "rank">>, <<"event", "comment_cnt">>}, {"root", "comm"},
           {"both", "hear", "rpst", "enut"}),
     Scene("event", {UserKey("rank")}, {}, {"both", "quot"}),
     Scene("address", {}, {"acom"}, {"arep", "alik", "anut", "azap"}),
     [Scene("address", {}, {}, {"acom", "arep"}) EXCEPT !.authorKnown = FALSE]}

Storage == UNION {[1 .. n -> {Has(<<"home", "near">>), Has(<<"pop">>), Quiet, Late, Down, Hangs}] :
                     n \in 0 .. 3}
Lookups ==
    {[Scene("user", {UserKey("reports_cnt_recd")}, {}, {"repr"})
        EXCEPT !.popular = storage, !.nip65 = storage] : storage \in Storage}

\* Two requests for one subject, with storage relays that take publications.
Publishing ==
    {[s EXCEPT !.requests = {1, 2}, !.outlets = {"s1", "s2"}, !.lossy = lossy,
               !.maxTime = StartAt + 1, !.maxUpdates = 0] :
        s \in {Scene("event", {<<"event", "quote_cnt">>}, {}, {"quot"}),
               Scene("address", {<<"address", "rank">>}, {}, {"arep"})},
        lossy \in BOOLEAN}
    \cup {[Scene("event", {}, {"quot"}, {}) EXCEPT !.outlets = {"s1"}]}

AllScenes == OneMetric \cup EveryMetric \cup Busy \cup OfOthers \cup Lookups \cup Publishing
TwoRequests == {1, 2}
=============================================================================
