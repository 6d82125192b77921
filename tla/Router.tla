------------------------------- MODULE Router -------------------------------
(***************************************************************************)
(* libs/router/router_base.py: what the router remembers of one tenant.    *)
(* NoveltyDetector keeps the features of the last requests in a list of    *)
(* Redis, HistoricalTracker counts requests per tier and altogether, and   *)
(* update_metrics keeps distributions in memory.  Requests overlap at      *)
(* every await.                                                            *)
(*                                                                         *)
(* The features of a text are one value; two texts are similar when it is  *)
(* the same.  Scores are numbers in tenths.  Redis is external: any        *)
(* command may fail.  That the counts expire after a day is left out.      *)
(***************************************************************************)
EXTENDS Integers, Sequences, SequencesExt, FiniteSets, Functions

CONSTANTS
  Analyses,       \* calls of analyze_novelty
  Features,       \* what texts may look like
  HistoryWindow,  \* history_window
  Trackings,      \* calls of track_request
  RouterTiers,    \* the tiers, not "all"
  MaxRoutes       \* bound: calls of update_metrics

ASSUME RouterAssumptions ==
  /\ HistoryWindow \in Nat \ {0} /\ MaxRoutes \in Nat /\ "all" \notin RouterTiers
  /\ IsFiniteSet(Analyses) /\ IsFiniteSet(Trackings)

VARIABLES
  patterns,       \* novelty_history:tenant, newest first
  analysis,       \* of a call: stage, features, what it read, whether it read at all
  noveltyOf,      \* its novelty score: 0 or 10, or -1
  finishedBefore  \* history: features whose pattern was stored before the call began

noveltyVars == <<patterns, analysis, noveltyOf, finishedBefore>>

NoAnalysis == [stage |-> "new", feature |-> "none"]

NoveltyInit ==
  /\ patterns = <<>>
  /\ analysis = [a \in Analyses |-> NoAnalysis]
  /\ noveltyOf = [a \in Analyses |-> -1]
  /\ finishedBefore = [a \in Analyses |-> <<>>]

\* _calculate_novelty_score: ten less the greatest similarity
NoveltyScore(f, history) == IF f \in ToSet(history) THEN 0 ELSE 10

(* analyze_novelty up to the scores; a failing lrange is an empty history *)
ReadPatterns(a, f, fails) ==
  /\ analysis[a].stage = "new"
  /\ analysis' = [analysis EXCEPT ![a] = [stage |-> IF fails THEN "blind" ELSE "scored",
                                          feature |-> f]]
  /\ noveltyOf' = [noveltyOf EXCEPT ![a] = NoveltyScore(f, IF fails THEN <<>> ELSE patterns)]
  /\ finishedBefore' = [finishedBefore EXCEPT ![a] = patterns]
  /\ UNCHANGED patterns

(* _store_request_pattern: lpush, ... *)
PushPattern(a) ==
  /\ analysis[a].stage \in {"scored", "blind"}
  /\ patterns' = <<analysis[a].feature>> \o patterns
  /\ analysis' = [analysis EXCEPT ![a].stage = "pushed"]
  /\ UNCHANGED <<noveltyOf, finishedBefore>>

\* Seeded fault: ltrim counts its end as exclusive.
Trimmed_Short(ps) == SubSeq(ps, 1, HistoryWindow - 1)

\* ... ltrim 0 .. history_window - 1, both ends included
Trimmed(ps) == SubSeq(ps, 1, IF Len(ps) < HistoryWindow THEN Len(ps) ELSE HistoryWindow)

TrimPatterns(a) ==
  /\ analysis[a].stage = "pushed"
  /\ patterns' = Trimmed(patterns)
  /\ analysis' = [analysis EXCEPT ![a].stage = "stored"]
  /\ UNCHANGED <<noveltyOf, finishedBefore>>

(* either command fails: a warning *)
StoreFails(a) ==
  /\ analysis[a].stage \in {"scored", "blind", "pushed"}
  /\ analysis' = [analysis EXCEPT ![a].stage = "lost"]
  /\ UNCHANGED <<patterns, noveltyOf, finishedBefore>>

NoveltyNext ==
  \E a \in Analyses :
    \/ \E f \in Features, fails \in BOOLEAN : ReadPatterns(a, f, fails)
    \/ PushPattern(a) \/ TrimPatterns(a) \/ StoreFails(a)

(* The history is longer than its window only while a request is between lpush and
   ltrim, or failed there, and the last window's worth of stored requests is never
   trimmed away: as long as fewer requests than the window have been pushed, every one
   of them is there. *)
HistoryIsRecent ==
  LET pushed == {a \in Analyses : analysis[a].stage \in {"pushed", "stored"}}
      may == {a \in Analyses : analysis[a].stage \in {"pushed", "lost"}}
  IN  /\ Len(patterns) <= HistoryWindow + Cardinality(may)
      /\ \/ Cardinality(pushed) > HistoryWindow
         \/ Len(patterns) >= Cardinality(pushed)
      /\ \A a \in Analyses :
           noveltyOf[a] = 0 => analysis[a].feature \in ToSet(finishedBefore[a])

-----------------------------------------------------------------------------
(* track_request: the aggregates of the tier and of all.  The average divides what
   hget returns for total_response_time, which is a string once the key exists: every
   update after the first raises TypeError before it executes its pipeline. *)
VARIABLES
  aggregate,      \* metrics:tenant:tier and :all: total, successful
  tracking,       \* of a call: stage, tier, success
  overlappers     \* history: calls that found a key missing

trackVars == <<aggregate, tracking, overlappers>>

AggregateKeys == RouterTiers \cup {"all"}

TrackInit ==
  /\ aggregate = [k \in AggregateKeys |-> [total |-> 0, successful |-> 0]]
  /\ tracking = [t \in Trackings |-> [stage |-> "new", tier |-> "none", success |-> FALSE]]
  /\ overlappers = [k \in AggregateKeys |-> {}]

\* hset and expire of the request itself
TrackRequest(t, tier, ok) ==
  /\ tracking[t].stage = "new"
  /\ tracking' = [tracking EXCEPT ![t] = [stage |-> "tier", tier |-> tier, success |-> ok]]
  /\ UNCHANGED <<aggregate, overlappers>>

KeyOf(t) == IF tracking[t].stage \in {"tier", "tierQueued"} THEN tracking[t].tier ELSE "all"

\* the two reads of _update_aggregated_metrics
ReadAggregate(t) ==
  /\ tracking[t].stage \in {"tier", "all"}
  /\ IF aggregate[KeyOf(t)].total > 0
     THEN tracking' = [tracking EXCEPT ![t].stage = "raised"] /\ UNCHANGED overlappers
     ELSE /\ tracking' = [tracking EXCEPT ![t].stage =
                            IF @ = "tier" THEN "tierQueued" ELSE "allQueued"]
          /\ overlappers' = [overlappers EXCEPT ![KeyOf(t)] = @ \cup {t}]
  /\ UNCHANGED aggregate

\* Seeded fault: the counters are set from the values read.
Counts_Set(k, ok) == [total |-> 1, successful |-> IF ok THEN 1 ELSE 0]

\* the hincrby of the pipeline
Counts(k, ok) ==
  [total |-> aggregate[k].total + 1,
   successful |-> aggregate[k].successful + IF ok THEN 1 ELSE 0]

ExecutePipeline(t) ==
  /\ tracking[t].stage \in {"tierQueued", "allQueued"}
  /\ aggregate' = [aggregate EXCEPT ![KeyOf(t)] = Counts(KeyOf(t), tracking[t].success)]
  /\ tracking' = [tracking EXCEPT ![t].stage = IF @ = "tierQueued" THEN "all" ELSE "tracked"]
  /\ UNCHANGED overlappers

TrackFails(t) ==
  /\ tracking[t].stage \notin {"new", "tracked", "raised"}
  /\ tracking' = [tracking EXCEPT ![t].stage = "raised"]
  /\ UNCHANGED <<aggregate, overlappers>>

TrackNext ==
  \E t \in Trackings :
    \/ \E tier \in RouterTiers, ok \in BOOLEAN : TrackRequest(t, tier, ok)
    \/ ReadAggregate(t) \/ ExecutePipeline(t) \/ TrackFails(t)

(* An aggregate counts exactly the requests that found it missing and executed their
   pipeline, none twice and none lost; every request counted altogether was counted
   for its tier before; and the failure rate is a rate. *)
CountsAreExact ==
  /\ \A k \in AggregateKeys :
       /\ aggregate[k].successful <= aggregate[k].total
       /\ aggregate[k].total <= Cardinality(overlappers[k])
  /\ aggregate["all"].total = Cardinality({t \in Trackings : tracking[t].stage = "tracked"})
  /\ \A k \in RouterTiers :
       Cardinality({t \in Trackings : tracking[t].stage = "tracked" /\ tracking[t].tier = k})
         <= aggregate[k].total

-----------------------------------------------------------------------------
(* update_metrics *)
VARIABLES
  tierCount,      \* tier_distribution
  routed,         \* expected_vs_actual[expected][actual]
  misroute        \* router_misroute_rate, as <<wrong, all>>

routeVars == <<tierCount, routed, misroute>>

RouteInit ==
  /\ tierCount = [k \in RouterTiers |-> 0]
  /\ routed = [e \in RouterTiers |-> [k \in RouterTiers |-> 0]]
  /\ misroute = <<0, 1>>

\* Seeded fault: the rate is computed from the row before this request.
RateOf_Before(row, old, e) == <<SumFunction(old) - old[e], SumFunction(old)>>

\* one less the share of the requests that went where they were expected
RateOf(row, old, e) == <<SumFunction(row) - row[e], SumFunction(row)>>

\* expected is a tier or "none"; the rate is only computed when they differ
UpdateMetrics(tier, expected) ==
  /\ SumFunction(tierCount) < MaxRoutes
  /\ tierCount' = [tierCount EXCEPT ![tier] = @ + 1]
  /\ IF expected = "none" THEN UNCHANGED <<routed, misroute>>
     ELSE /\ routed' = [routed EXCEPT ![expected][tier] = @ + 1]
          /\ misroute' = IF expected = tier THEN misroute
                         ELSE RateOf(routed'[expected], routed[expected], expected)

RouteNext ==
  \E tier \in RouterTiers, expected \in RouterTiers \cup {"none"} :
    UpdateMetrics(tier, expected)

(* The misroute rate is a rate, positive exactly when some request ever went elsewhere;
   requests with an expected tier are counted in both distributions. *)
MisrouteIsTold ==
  /\ misroute[1] > 0 <=> \E e, k \in RouterTiers : e # k /\ routed[e][k] > 0
  /\ misroute[1] <= misroute[2]
  /\ \A k \in RouterTiers :
       SumFunction([e \in RouterTiers |-> routed[e][k]]) <= tierCount[k]

-----------------------------------------------------------------------------
(* Pure parts: the strictness of a schema of which some fields are required, and the
   model for a number of thousands of tokens and a complexity in tenths. *)
Strictness(required, total, errors) ==
  LET n == IF total = 0 THEN 1 ELSE total
  IN  IF 10 * required > 8 * n /\ errors = 0 THEN 3
      ELSE IF 10 * required > 5 * n THEN 2
      ELSE IF 10 * required > 2 * n THEN 1 ELSE 0

ModelFor(tokens, complexity) ==
  IF tokens > 32 \/ complexity > 8 THEN 3
  ELSE IF tokens > 8 \/ complexity > 6 THEN 2
  ELSE IF tokens > 4 \/ complexity > 4 THEN 1 ELSE 0

(* More required fields never make a schema looser, and an error only takes the highest
   level away; longer and more complex requests never get a smaller model. *)
ScoresAreMonotone ==
  /\ \A n \in 0 .. 10 : \A r \in 0 .. n - 1 :
       /\ Strictness(r, n, 0) <= Strictness(r + 1, n, 0)
       /\ Strictness(r, n, 1) = IF Strictness(r, n, 0) = 3 THEN 2 ELSE Strictness(r, n, 0)
  /\ \A t \in {4, 5, 8, 9, 32, 33}, c \in 0 .. 9 :
       ModelFor(t, c) <= ModelFor(t + 1, c) /\ ModelFor(t, c) <= ModelFor(t, c + 1)
=============================================================================
