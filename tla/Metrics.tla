------------------------------- MODULE Metrics -------------------------------
(***************************************************************************)
(* The queries for a subject's source events, and the metrics computed     *)
(* from their answers (internal/metrics/metrics.go).                       *)
(*                                                                         *)
(* An event is a name, and Data gives its record: its kind, author and     *)
(* created_at, its tags as pairs of a letter and a value, its topics, and  *)
(* the amount it carries, msats in a zap and sats in a nutzap, 0 when the  *)
(* JSON in which the amount stands cannot be read.                         *)
(***************************************************************************)
EXTENDS FiniteSetsExt

CONSTANTS
    Data,        \* the record of each source event
    QueryLimit,  \* maxQueryLimit
    TopicLimit   \* how many topics getTopTopics returns

Event == DOMAIN Data

MetricsAssumption ==
    /\ QueryLimit \in Nat \ {0} /\ TopicLimit \in Nat \ {0}
    /\ IsFiniteSet(Event) /\ \A e \in Event : Data[e].at \in Int

Day  == 86400
Hour == 3600

-----------------------------------------------------------------------------
(* Queries *)

\* A filter wants kinds and one more thing: an author, or a tag's letter.
Authored(kind)         == [kinds |-> {kind}, author |-> TRUE, tag |-> ""]
Tagging(kinds, letter) == [kinds |-> kinds, author |-> FALSE, tag |-> letter]

Matches(filter, e, subject) ==
    /\ Data[e].kind \in filter.kinds
    /\ filter.author => Data[e].author = subject
    /\ filter.tag # "" => <<filter.tag, subject>> \in Data[e].tags

\* The event database returns the newest events that match, up to the limit.
Answers(S) ==
    IF Cardinality(S) <= QueryLimit THEN {S}
    ELSE {T \in kSubset(QueryLimit, S) :
             \A e \in T, f \in S \ T : Data[f].at <= Data[e].at}

\* The queries behind the metrics of a user, an event and an address.
UserQueries ==
    [followers   |-> Tagging({3}, "p"),    posts       |-> Authored(1),
     reactions   |-> Authored(7),
     zapsRecd    |-> Tagging({9735}, "p"), nutzapsRecd |-> Tagging({9321}, "p"),
     zapsSent    |-> Tagging({9735}, "P"), nutzapsSent |-> Authored(9321),
     reportsRecd |-> Tagging({1984}, "p"), reportsSent |-> Authored(1984)]

EventQueries ==
    [comments  |-> Tagging({1}, "e"),    quotes  |-> Tagging({1}, "q"),
     reposts   |-> Tagging({6}, "e"),    reactions |-> Tagging({7}, "e"),
     zaps      |-> Tagging({9735}, "e"), nutzaps |-> Tagging({9321}, "e")]

AddressQueries ==
    [comments  |-> Tagging({1}, "a"),    reposts |-> Tagging({6, 16}, "a"),
     reactions |-> Tagging({7}, "a"),
     zaps      |-> Tagging({9735}, "a"), nutzaps |-> Tagging({9321}, "a")]

\* The order in which each function asks them.
UserOrder == <<"followers", "posts", "reactions", "zapsRecd", "nutzapsRecd",
               "zapsSent", "nutzapsSent", "reportsRecd", "reportsSent">>
EventOrder   == <<"comments", "quotes", "reposts", "reactions", "zaps", "nutzaps">>
AddressOrder == <<"comments", "reposts", "reactions", "zaps", "nutzaps">>

Queries(kind) ==
    CASE kind = "user" -> UserQueries
      [] kind = "event" -> EventQueries
      [] kind = "address" -> AddressQueries
Order(kind) ==
    CASE kind = "user" -> UserOrder
      [] kind = "event" -> EventOrder
      [] kind = "address" -> AddressOrder

-----------------------------------------------------------------------------
(* Amounts and averages *)

\* extractAmountFromZapRequest, in msats, and extractAmountFromNutzap, in sats.
Sats(e)    == IF Data[e].kind = 9735 THEN Data[e].amount \div 1000 ELSE Data[e].amount
Amount(S)  == MapThenSumSet(Sats, S)
Stamps(S)  == {Data[e].at : e \in S}

\* Per day between the oldest and the newest of the zaps S, where oldest starts
\* out as the time now and newest as 0; nothing when all are of one time.
PerDay(S, now) ==
    LET oldest == Min({now} \cup Stamps(S))
        newest == Max({0} \cup Stamps(S))
    IN  IF newest > oldest
        THEN Amount(S) \div Max({1, (newest - oldest) \div Day})
        ELSE 0

-----------------------------------------------------------------------------
(* Topics and active hours *)

\* A topic is the set of the names that its commas separate, {} the empty topic;
\* one made of commas alone is left out.
TopicsOf(S)      == UNION {Range(Data[e].topics) : e \in S}
TopicCount(S, t) ==
    MapThenSumSet(LAMBDA e : Cardinality({i \in DOMAIN Data[e].topics :
                                             Data[e].topics[i] = t}), S)

\* The most frequent topics; ties fall as the map's order has it.  They are
\* joined with commas for the handler, which splits them again.
TopTopics(S) ==
    LET size == Min({TopicLimit, Cardinality(TopicsOf(S))})
    IN  {UNION top : top \in {T \in kSubset(size, TopicsOf(S)) :
                                  \A t \in T, u \in TopicsOf(S) \ T :
                                      TopicCount(S, u) <= TopicCount(S, t)}}

HourOf(e)     == (Data[e].at \div Hour) % 24
HourCounts(S) == [h \in 0 .. 23 |-> Cardinality({e \in S : HourOf(e) = h})]

Peak(counts)      == Max(Range(counts))
PeakHour(counts)  == LET peak == Peak(counts) IN Min({h \in 0 .. 23 : counts[h] = peak})
Threshold(counts) == Peak(counts) \div 4

\* How far the range goes from hour in one direction, +1 or -1.
Reach(counts, hour, threshold, direction) ==
    Max({k \in 0 .. 11 : \A i \in 1 .. k :
            counts[(hour + direction * i + 24) % 24] >= threshold})

\* Wrong variant of ActiveHours: the range ends at midnight.
ActiveHoursUnwrapped(counts) ==
    LET hour      == PeakHour(counts)
        threshold == Threshold(counts)
    IN  IF counts[hour] = 0 THEN <<0, 24>>
        ELSE <<Max({0, hour - Reach(counts, hour, threshold, -1)}),
               Min({23, hour + Reach(counts, hour, threshold, 1)})>>

\* findActiveHoursRange: the first active hour and the one after the last.
ActiveHours(counts) ==
    LET hour      == PeakHour(counts)
        threshold == Threshold(counts)
    IN  IF counts[hour] = 0 THEN <<0, 24>>
        ELSE <<(hour - Reach(counts, hour, threshold, -1) + 24) % 24,
               (hour + Reach(counts, hour, threshold, 1) + 1) % 24>>

\* The hour h is one from first to the one before last, around midnight if need be.
IsActive(h, first, last) ==
    IF first < last THEN first <= h /\ h < last ELSE first <= h \/ h < last

-----------------------------------------------------------------------------
(* The metrics, got being the answers to the queries.  The rank engine's rank *)
(* is no more than its name, and any other rank the score it grows with.     *)

IsReply(e) == \E tag \in Data[e].tags : tag[1] = "e"

UserScore(followers, posts, sats, zaps) ==
    1000 * followers + 500 * posts + sats + 2000 * zaps

ComputeUserMetrics(got, now, graphAnswers) ==
    LET posts    == {e \in got.posts : ~IsReply(e)}
        zapsRecd == got.zapsRecd \cup got.nutzapsRecd
        zapsSent == got.zapsSent \cup got.nutzapsSent
        hours    == ActiveHours(HourCounts(got.posts))
        score    == UserScore(Cardinality(got.followers), Cardinality(posts),
                              Amount(zapsRecd), Cardinality(zapsRecd))
    IN  [followers            |-> Cardinality(got.followers),
         rank                 |-> IF graphAnswers THEN <<"graph">> ELSE <<"heuristic", score>>,
         first_created_at     |-> Min({now} \cup Stamps(got.posts)),
         post_cnt             |-> Cardinality(posts),
         reply_cnt            |-> Cardinality(got.posts \ posts),
         reactions_cnt        |-> Cardinality(got.reactions),
         zap_amt_recd         |-> Amount(zapsRecd),
         zap_amt_sent         |-> Amount(zapsSent),
         zap_cnt_recd         |-> Cardinality(zapsRecd),
         zap_cnt_sent         |-> Cardinality(zapsSent),
         zap_avg_amt_day_recd |-> PerDay(zapsRecd, now),
         zap_avg_amt_day_sent |-> PerDay(zapsSent, now),
         reports_cnt_recd     |-> Cardinality(got.reportsRecd),
         reports_cnt_sent     |-> Cardinality(got.reportsSent),
         active_hours_start   |-> hours[1],
         active_hours_end     |-> hours[2]]

\* Wrong variant of IsQuote: every quote is also a comment.
IsNoQuote(e, subject) == FALSE

IsQuote(e, subject) == <<"q", subject>> \in Data[e].tags

\* CalculateEventRank, in hundredths.
EventScore(comments, quotes, reposts, reactions, zaps, sats) ==
    300 * comments + 500 * quotes + 200 * reposts + 100 * reactions + 400 * zaps + sats

InteractionMetrics(comments, quotes, got) ==
    LET zaps == got.zaps \cup got.nutzaps
        sats == Amount(zaps)
    IN  [comment_cnt  |-> Cardinality(comments),
         quote_cnt    |-> Cardinality(quotes),
         repost_cnt   |-> Cardinality(got.reposts),
         reaction_cnt |-> Cardinality(got.reactions),
         zap_cnt      |-> Cardinality(zaps),
         zap_amount   |-> sats,
         rank         |-> <<"heuristic",
                            EventScore(Cardinality(comments), Cardinality(quotes),
                                       Cardinality(got.reposts), Cardinality(got.reactions),
                                       Cardinality(zaps), sats)>>]

CommentsOf(got, subject) == {e \in got.comments : ~IsQuote(e, subject)}

ComputeEventMetrics(got, subject) ==
    InteractionMetrics(CommentsOf(got, subject), got.quotes, got)

\* Nothing looks for quotes of an address.
ComputeAddressMetrics(got) == InteractionMetrics(got.comments, {}, got)
=============================================================================
