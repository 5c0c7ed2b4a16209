----------------------------- MODULE MetricKeys -----------------------------
(***************************************************************************)
(* The metrics, their keys and the source events they need                 *)
(* (internal/keys/keys.go), and what an author filter asks for             *)
(* (getRequestedMetrics in internal/handler/handler.go).                   *)
(***************************************************************************)
EXTENDS FiniteSets

\* The kinds of assertions: 30382, 30383 and 30384.
Kinds == {"user", "event", "address"}

UserMetrics ==
    {"followers", "rank", "first_created_at", "post_cnt", "reply_cnt", "reactions_cnt",
     "zap_amt_recd", "zap_amt_sent", "zap_cnt_recd", "zap_cnt_sent",
     "zap_avg_amt_day_recd", "zap_avg_amt_day_sent", "reports_cnt_recd", "reports_cnt_sent",
     "active_hours_start", "active_hours_end", "t"}

EventMetrics ==
    {"comment_cnt", "quote_cnt", "repost_cnt", "reaction_cnt", "zap_cnt", "zap_amount", "rank"}

MetricsOf(kind) == IF kind = "user" THEN UserMetrics ELSE EventMetrics

-----------------------------------------------------------------------------
(* Keys.  SHA-256 of the master key, the kind and the metric is taken to be  *)
(* injective, so a key stands for the kind and the metric it is made from.   *)

MetricKeySet == UNION {{kind} \X MetricsOf(kind) : kind \in Kinds}

NoKey == <<>>

\* Wrong variant of GetPubKey: the metrics of users are taken for all there are.
GetPubKeyOfUsers(kind, metric) == IF metric \in UserMetrics THEN <<kind, metric>> ELSE NoKey

GetPubKey(kind, metric) ==
    IF <<kind, metric>> \in MetricKeySet THEN <<kind, metric>> ELSE NoKey

-----------------------------------------------------------------------------
(* The author filter of a request. *)

shouldGenerateMetric(kind, metric, authors) ==
    authors = {} \/ GetPubKey(kind, metric) \in authors

\* nil, which stands for all metrics, when there is no author filter; the same
\* empty list when the filter names none of the keys.
getRequestedMetrics(kind, authors) ==
    IF authors = {} THEN {}
    ELSE {metric \in MetricsOf(kind) : shouldGenerateMetric(kind, metric, authors)}

-----------------------------------------------------------------------------
(* Source events by what they are needed for. *)

FilterAll == {"posts", "reactions", "followers", "zapsRecd", "zapsSent",
              "reportsRecd", "reportsSent"}

MetricFilters ==
    [metric \in UserMetrics |->
        CASE metric \in {"post_cnt", "reply_cnt", "first_created_at", "active_hours_start",
                         "active_hours_end", "t"}             -> {"posts"}
          [] metric = "reactions_cnt"                         -> {"reactions"}
          [] metric = "followers"                             -> {"followers"}
          [] metric \in {"zap_amt_recd", "zap_cnt_recd"}      -> {"zapsRecd"}
          [] metric = "zap_avg_amt_day_recd"                  -> {"zapsRecd", "posts"}
          [] metric \in {"zap_amt_sent", "zap_cnt_sent"}      -> {"zapsSent"}
          [] metric = "zap_avg_amt_day_sent"                  -> {"zapsSent", "posts"}
          [] metric = "reports_cnt_recd"                      -> {"reportsRecd"}
          [] metric = "reports_cnt_sent"                      -> {"reportsSent"}
          [] metric = "rank"                                  -> FilterAll]

\* Wrong variant of GetRequiredFilters: the last metric decides instead of all.
GetRequiredFiltersOfOne(metrics) ==
    IF metrics \cap UserMetrics = {} THEN FilterAll
    ELSE MetricFilters[CHOOSE metric \in metrics \cap UserMetrics : TRUE]

\* Everything, when no metric or no known one is asked for.
GetRequiredFilters(metrics) ==
    LET required == UNION {MetricFilters[metric] : metric \in metrics \cap UserMetrics}
    IN  IF required = {} THEN FilterAll ELSE required
=============================================================================
