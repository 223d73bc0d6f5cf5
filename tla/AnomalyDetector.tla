--------------------------- MODULE AnomalyDetector ---------------------------
(***************************************************************************)
(* The scoring of gbrain/anomaly_detector.py and the expected range that   *)
(* gbrain/knowledge_graph.py shows next to it, on whole amounts.  Mean and *)
(* deviation are kept as numerators: with n amounts, Total / n is the mean *)
(* and Spread / n^2 the population variance, so every comparison of the    *)
(* code is one of integers.  Rounding of floats is left out.               *)
(***************************************************************************)
EXTENDS Sequences, Functions, StableSort

\* score_invoice's z_threshold and MIN_PCT_CHANGE.
ZThreshold == 2
MinPctChange == 8

Total(h) == SumFunction(h)

Squares(h) == Total([i \in DOMAIN h |-> h[i] * h[i]])

Spread(h) == Len(h) * Squares(h) - Total(h) * Total(h)

\* n times the distance of an amount from the mean.
Distance(a, h) == LET d == Len(h) * a - Total(h) IN IF d < 0 THEN -d ELSE d

\* Mutant of Outlies: the threshold is left out.
OutliesByOne(a, h) == Distance(a, h) * Distance(a, h) > Spread(h)

\* abs(z_score) > z_threshold; z_score is 0 when the deviation is.
Outlies(a, h) ==
  /\ Spread(h) > 0
  /\ Distance(a, h) * Distance(a, h) > ZThreshold * ZThreshold * Spread(h)

\* abs(pct_change) >= MIN_PCT_CHANGE; pct_change is 0 when the mean is.
Material(a, h) ==
  Total(h) # 0 /\ 100 * Distance(a, h) >= MinPctChange * Total(h)

\* Mutant of IsAnomaly: two payments are not yet a history.
IsAnomalyFromThree(a, h) == Len(h) > 2 /\ Outlies(a, h) /\ Material(a, h)

\* score_invoice(...).is_anomaly
IsAnomaly(a, h) == Len(h) >= 2 /\ Outlies(a, h) /\ Material(a, h)

\* Mutant of Prior: the amount enters the history before it is scored.
PriorAndItself(s, i) == [j \in 1..i |-> s[j].amount]

\* scan: the amounts the i-th entry of a vendor is scored against.
Prior(s, i) == [j \in 1..i-1 |-> s[j].amount]

\* scan on the entries of one vendor, in the order of their dates: the
\* positions of the anomalies.
Flagged(s) == {i \in DOMAIN s : IsAnomaly(s[i].amount, Prior(s, i))}

\* list.sort on the date.
ByDate(s) ==
  LET order == SortedPlaces([i \in DOMAIN s |-> s[i].date], DOMAIN s)
  IN  [k \in DOMAIN s |-> s[order[k]]]

\* expected_range: the mean and twice the sample deviation on both sides.
InExpectedRange(a, h) ==
  (Len(h) - 1) * Distance(a, h) * Distance(a, h) <= 4 * Len(h) * Spread(h)
===========================================================================
