--------------------------- MODULE MCOrchestrator ---------------------------
EXTENDS Orchestrator

CONSTANTS dear, cheap

Ask(skill, spend, form) == [skill |-> skill, spend |-> spend, form |-> form]

MCCalls ==
  {Ask("look", cheap, "seed"), Ask("look", cheap, "bare"),
   Ask("pay", dear, "number"), Ask("pay", dear, "text"),
   Ask("renew", dear, "bare"), Ask("renew", dear, "raised"),
   Ask("ingest", cheap, "seed"),
   Ask("decide", dear, "bare"), Ask("stray", cheap, "bare")}

MCScript == <<Ask("look", cheap, "seed"), Ask("ingest", cheap, "seed")>>
===========================================================================
