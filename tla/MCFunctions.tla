---------------------------- MODULE MCFunctions ----------------------------
\* Four parts of the system that share no state, for TLC: each behaviour
\* exercises one of them.
EXTENDS KnowledgeGraph, ListingAudit, DynamicPricing, TenantReport

VARIABLE part \* the part this behaviour exercises

MCAmounts == {100, 110, 150}

MCMarkets ==
  [season : {"peak", "off"}, occupancy : {20, 49, 50, 90},
   events : {{}, {"market"}, {"comicCon", "other"}}, weekend : BOOLEAN,
   comps : {<<>>, <<18000>>, <<30000, 15000>>}]
MCFirstRates == {12000, 25000}

MCConfigs ==
  {[sensitivity |-> "restricted", llm_routing |-> ""],
   [sensitivity |-> "confidential", llm_routing |-> "frontier"],
   [sensitivity |-> "", llm_routing |-> "frontier"],
   [sensitivity |-> "public", llm_routing |-> "cloud"]}

listingVars == <<listing, edits>>
pricingVars == <<market, first, rate>>

MCInit ==
  /\ part \in {"graph", "listing", "pricing", "report"}
  /\ GraphInit /\ ListingInit /\ PricingInit /\ ReportInit
  /\ part # "listing" => listing = Bare
  /\ part # "pricing" =>
       market = (CHOOSE m \in Markets : TRUE) /\ first = Min(FirstRates)
  /\ part # "report" => config = (CHOOSE c \in Configs : TRUE)

VendorNext ==
  part = "graph" /\ GraphNext /\ UNCHANGED <<listingVars, pricingVars, reportVars>>
HostNext ==
  part = "listing" /\ ListingNext /\ UNCHANGED <<graphVars, pricingVars, reportVars>>
RateNext ==
  part = "pricing" /\ PricingNext /\ UNCHANGED <<graphVars, listingVars, reportVars>>
TenantNext ==
  part = "report" /\ ReportNext /\ UNCHANGED <<graphVars, listingVars, pricingVars>>

MCNext ==
  (VendorNext \/ HostNext \/ RateNext \/ TenantNext) /\ UNCHANGED part

MCSpec == MCInit /\ [][MCNext]_<<graphVars, listingVars, pricingVars, reportVars, part>>
============================================================================
