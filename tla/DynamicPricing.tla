--------------------------- MODULE DynamicPricing ---------------------------
(***************************************************************************)
(* The rate skills/dynamic_pricing_skill.py recommends, and a host who     *)
(* publishes it and asks again in an unchanged market.  Rates are in       *)
(* cents, factors in hundredths.  The code multiplies floats and rounds    *)
(* once; here the product of the factors is cut to ten-thousandths and the *)
(* signal to cents, so that the numbers fit TLC's integers.  RatesSettle   *)
(* allows for what that loses.                                             *)
(***************************************************************************)
EXTENDS Integers, Sequences, FiniteSetsExt, StableSort

CONSTANTS
  Markets,    \* markets: season, occupancy (%), events, weekend and comps
  FirstRates, \* rates to start from
  MaxRate     \* bound on the rate that is repriced

SeasonFactor == [peak |-> 125, shoulder |-> 105, off |-> 85, other |-> 100]

ASSUME MarketsAssumption ==
  /\ \A m \in Markets : /\ m.season \in DOMAIN SeasonFactor /\ m.occupancy \in 0..100
                        /\ m.comps \in Seq(Nat \ {0})
  /\ FirstRates \subseteq Nat /\ MaxRate \in Nat

VARIABLES
  market, \* the market, unchanged throughout
  first,  \* the rate the host started from
  rate    \* the published rate

\* _occupancy_multiplier, over _OCCUPANCY_BANDS.
OccupancyFactor(occupancy) ==
  IF occupancy >= 85 THEN 120 ELSE IF occupancy >= 70 THEN 108
  ELSE IF occupancy >= 50 THEN 100 ELSE IF occupancy >= 30 THEN 90 ELSE 80

\* LOCAL_EVENTS; the names the table does not know have no uplift.
Uplift == [comicCon |-> 145, market |-> 110, holiday |-> 130]

\* _event_multiplier.
EventFactor(events) ==
  Max({100} \cup {Uplift[e] : e \in events \cap DOMAIN Uplift})

\* _comp_anchor: the median of the rates.
Anchor(comps) ==
  LET order == SortedPlaces(comps, DOMAIN comps)
      mid == Len(comps) \div 2
  IN  IF comps = <<>> THEN 0
      ELSE IF Len(comps) % 2 = 0
      THEN (comps[order[mid]] + comps[order[mid + 1]]) \div 2
      ELSE comps[order[mid + 1]]

\* recommend_price falls back to the current rates of OCEANSIDE_COMPS.
DefaultComps == <<19500, 23000, 26500>>
Comps(m) == IF m.comps = <<>> THEN DefaultComps ELSE m.comps

Multiplier(m) ==
  (SeasonFactor[m.season] * OccupancyFactor(m.occupancy)
     * EventFactor(m.events) * (IF m.weekend THEN 112 ELSE 100)) \div 10000

Signal(m, r) == (r * Multiplier(m)) \div 10000

\* Mutant of Blend: the weight of the signal is left out.
BlendOnTop(signal, anchor) ==
  IF anchor > 0 THEN (10 * signal + 4 * anchor + 5) \div 10 ELSE signal

\* _blend_rate.
Blend(signal, anchor) ==
  IF anchor > 0 THEN (6 * signal + 4 * anchor + 5) \div 10 ELSE signal

Recommended(m, r) == Blend(Signal(m, r), Anchor(Comps(m)))

\* _confidence, of the comps that were used.
Confidence(m) ==
  LET n == Len(Comps(m))
      score == (IF n >= 2 THEN 2 ELSE n) + (IF m.occupancy > 0 THEN 1 ELSE 0)
               + (IF m.events # {} THEN 1 ELSE 0)
  IN  IF score >= 4 THEN "high" ELSE IF score >= 2 THEN "medium" ELSE "low"

\* _build_reasoning, as recommend_price calls it: the comps of the request and
\* the recommended rate in the place of the signal rate.
Trace(m, r) ==
  [signal |-> Recommended(m, r), compNote |-> Len(m.comps),
   rate |-> Recommended(m, r)]

PricingInit ==
  /\ market \in Markets
  /\ first \in FirstRates
  /\ rate = first

\* The host publishes the recommended rate.
Reprice ==
  /\ rate <= MaxRate
  /\ rate' = Recommended(market, rate)
  /\ UNCHANGED <<market, first>>

PricingNext == Reprice

PricingSpec == PricingInit /\ [][PricingNext]_<<market, first, rate>>

---------------------------------------------------------------------------
\* The signal's weight times the multiplier is below one.
Calm(m) == 6 * Multiplier(m) < 100000

\* In a calm market a rate that is repriced again and again never passes both
\* the rate it started from and the balance of signal and comps
\* (dynamic_pricing_skill.py:168-176, 319-324).
RatesSettle ==
  Calm(market) =>
    \/ rate <= first
    \/ (rate \div 100) * (100000 - 6 * Multiplier(market))
         <= 400 * Anchor(Comps(market)) + 100000

\* The blend keeps the rate within reach of the comps in every market
\* (dynamic_pricing_skill.py:173).
RatesNearComps == rate <= 2 * Max({first, Anchor(Comps(market))})

\* When the trace says that the price follows the signal alone, no comps were
\* blended in, and the signal rate it names is the one computed
\* (dynamic_pricing_skill.py:204-208, 218).
TraceIsTrue ==
  LET t == Trace(market, rate)
  IN  /\ t.compNote = 0 => t.rate = Signal(market, rate)
      /\ t.signal = Signal(market, rate)

\* Some request is answered with low confidence
\* (dynamic_pricing_skill.py:113): when no comps are given.
LowWhenNoComps ==
  market.comps = <<>> /\ market.events = {} => Confidence(market) = "low"
===========================================================================
