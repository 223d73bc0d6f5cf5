--------------------------- MODULE Orchestrator ---------------------------
(***************************************************************************)
(* The agent loop of agent/hermes_orchestrator.py with the skills it runs  *)
(* through the harness.  A planner, the Hermes model or the script that    *)
(* stands in for it, is asked at most MaxSteps times what to do next; a    *)
(* skill it names passes guardrail and spend gate, runs and is audited.    *)
(* A human decides the pending requests meanwhile, and an exception may    *)
(* leave the loop anywhere.                                                *)
(*                                                                         *)
(* A call is a skill, the spend it is about and the form in which its      *)
(* amount, its threshold or its invoices are given.  Two thresholds are at *)
(* work: the one orchestrate was given holds a call whose arguments have   *)
(* an amount; a 402 event is held against the one among its own arguments, *)
(* which the model chooses, or else against the default of handle_402.     *)
(* The gate is RequireApproval seen                                        *)
(* from one caller within a day: a request per spend, read and written in  *)
(* one step.                                                               *)
(***************************************************************************)
EXTENDS Naturals, Sequences

CONSTANTS
  Spends,    \* vendor, amount and invoice of what can be paid
  Dear,      \* the spends over the threshold of orchestrate
  DearEvents,\* the spends over the default threshold of handle_402
  Calls,     \* the calls the model may ask for
  Script,    \* the calls of the scripted planner, in order
  Planners,  \* who answers: "model", or "script" when no API key is set
  MaxSteps,  \* max_steps of orchestrate
  MaxRuns    \* bound on the number of runs

\* look, ingest: skills that touch neither money nor requests.
\* renew: handle_402_skill, about an event with an amount of its own.
\* stray: a name that is not registered, or arguments on the denylist.
Skills == {"look", "ingest", "pay", "renew", "decide", "stray"}

\* number, text: the amount is a JSON number or a string.
\* seed, bare: the invoices are the __SEED__ sentinel, or left out.
\* raised: a 402 event comes with a threshold above its amount.
Forms == {"number", "text", "seed", "bare", "raised"}

AllCalls == [skill : Skills, spend : Spends, form : Forms]

ASSUME SpendsAssumption == Spends # {} /\ Dear \subseteq Spends /\ DearEvents \subseteq Spends
ASSUME CallsAssumption ==
  /\ Calls \subseteq {c \in AllCalls : c.skill = "pay" => c.form \in {"number", "text"}}
  /\ Script \in Seq(Calls)
ASSUME PlannersAssumption == Planners \subseteq {"model", "script"}
ASSUME StepsAssumption == MaxSteps \in Nat /\ MaxRuns \in Nat

VARIABLES
  planner,   \* who answers in this run
  pc,        \* "idle", or what the loop does next
  turn,      \* i of the loop
  tools,     \* tool turns among the messages
  last,      \* _last_skill_key
  repeats,   \* _consecutive_count
  call,      \* the call being executed
  outcome,   \* what the harness makes of it
  steps,     \* the steps recorded in this run
  result,    \* what the last run returned
  requests,  \* spend -> status of its approval request
  approvals, \* <<spend, who>>: who ever approved a request
  charges,   \* the calls that charged their spend
  runs       \* runs started

loop == <<planner, turn, tools, last, repeats, call, outcome, steps, runs>>
money == <<requests, approvals, charges>>
vars == <<pc, result, loop, money>>

NoCall ==
  [skill |-> "none", spend |-> CHOOSE s \in Spends : TRUE, form |-> "bare"]

Statuses == {"none", "pending", "approved", "denied"}
Outcomes == {"executed", "blocked", "escalated"}
Endings == {"summary", "escalated", "unknown", "unparseable"}
Finals == Endings \cup {"none", "approval", "repeated", "exhausted", "raised"}

Steps == [call : Calls, outcome : Outcomes]
Results == [final : Finals, escalated : BOOLEAN, request : SUBSET Spends]

NoResult == [final |-> "none", escalated |-> FALSE, request |-> {}]

\* skill_key: arguments given as __SEED__ are left out of it.
Key(c) == [c EXCEPT !.form = IF @ = "seed" THEN "bare" ELSE @]

Init ==
  /\ planner \in Planners
  /\ pc = "idle"
  /\ turn = 0
  /\ tools = 0
  /\ last = NoCall
  /\ repeats = 0
  /\ call = NoCall
  /\ outcome = "executed"
  /\ steps = <<>>
  /\ result = NoResult
  /\ requests = [s \in Spends |-> "none"]
  /\ approvals = {}
  /\ charges = {}
  /\ runs = 0

Start ==
  /\ pc = "idle"
  /\ runs < MaxRuns
  /\ runs' = runs + 1
  /\ planner' \in Planners
  /\ pc' = "ask"
  /\ turn' = 0
  /\ tools' = 0
  /\ last' = NoCall
  /\ repeats' = 0
  /\ steps' = <<>>
  /\ result' = NoResult
  /\ UNCHANGED <<call, outcome, money>>

Return(final, escalated, request) ==
  /\ pc' = "idle"
  /\ result' = [final |-> final, escalated |-> escalated, request |-> request]

---------------------------------------------------------------------------
\* The planner's reply.

Asked == pc = "ask" /\ turn < MaxSteps

\* Mutant of ScriptLeft: the last call of the script is never reached.
ScriptLeftEarly == tools + 1 < Len(Script)

\* _scripted_mock: one call per tool turn so far, then the final action.
ScriptLeft == tools < Len(Script)

\* What the planner may ask for; the model may ask for anything.
Suggested ==
  IF planner = "model" THEN Calls
  ELSE IF ScriptLeft THEN {Script[tools + 1]} ELSE {}

\* What the planner may end with.  A model that cannot be reached within
\* its timeout answers with an error text, which does not parse.
Concluded ==
  IF planner = "model" THEN Endings
  ELSE IF ScriptLeft THEN {} ELSE {"summary"}

Conclude ==
  /\ Asked
  /\ \E how \in Concluded : Return(how, how = "escalated", {})
  /\ UNCHANGED <<loop, money>>

\* The loop runs out of turns.
Exhaust ==
  /\ pc = "ask"
  /\ turn = MaxSteps
  /\ Return("exhausted", FALSE, {})
  /\ UNCHANGED <<loop, money>>

Repeats(c) == IF Key(c) = last THEN repeats + 1 ELSE 1

\* A call that differs from the one before is run.
Dispatch ==
  /\ Asked
  /\ \E c \in Suggested :
       /\ Repeats(c) = 1
       /\ call' = c
       /\ last' = Key(c)
  /\ repeats' = 1
  /\ pc' = "gate"
  /\ UNCHANGED <<planner, turn, tools, outcome, steps, runs, result, money>>

\* Mutant of Remind: the loop does not skip the execution.
RemindAndRun ==
  /\ Asked
  /\ \E c \in Suggested : Repeats(c) = 2 /\ call' = c
  /\ repeats' = 2
  /\ pc' = "gate"
  /\ UNCHANGED <<planner, turn, tools, last, outcome, steps, runs, result, money>>

\* The same call again: a reminder, and no run.
Remind ==
  /\ Asked
  /\ \E c \in Suggested : Repeats(c) = 2
  /\ repeats' = 2
  /\ tools' = tools + 1
  /\ turn' = turn + 1
  /\ UNCHANGED <<planner, last, call, outcome, steps, runs, pc, result, money>>

\* And a third time: a summary put together from the steps.
ForceFinal ==
  /\ Asked
  /\ \E c \in Suggested : Repeats(c) >= 3
  /\ Return("repeated", FALSE, {})
  /\ UNCHANGED <<loop, money>>

---------------------------------------------------------------------------
\* nemoclaw_harness.execute for the call.

To(point, how) ==
  /\ pc' = point
  /\ outcome' = how
  /\ UNCHANGED <<planner, turn, tools, last, repeats, call, steps, runs, result>>

\* The harness gates a call whose amount is a number.
Gated(c) == c.form = "number"

Clears(s) == s \notin Dear \/ requests[s] = "approved"

\* The gate of handle_402, under the threshold that reaches it.
EventClears(c) ==
  c.form = "raised" \/ c.spend \notin DearEvents \/ requests[c.spend] = "approved"

\* create_request: whatever was on file, the request is now pending.
Requested(s) == [requests EXCEPT ![s] = "pending"]

Block ==
  /\ pc = "gate"
  /\ call.skill = "stray"
  /\ To("audit", "blocked")
  /\ UNCHANGED money

\* Mutant of Hold: the request is made and the run goes on.
HoldAndRun ==
  /\ pc = "gate"
  /\ call.skill # "stray"
  /\ Gated(call) /\ ~Clears(call.spend)
  /\ requests' = Requested(call.spend)
  /\ To("run", "executed")
  /\ UNCHANGED <<approvals, charges>>

\* Mutant of Hold: the gate waits for the verdict.
HoldAndWait ==
  /\ pc = "gate"
  /\ call.skill # "stray"
  /\ Gated(call) /\ ~Clears(call.spend)
  /\ requests[call.spend] # "pending"
  /\ requests' = Requested(call.spend)
  /\ UNCHANGED <<pc, result, loop, approvals, charges>>

Hold ==
  /\ pc = "gate"
  /\ call.skill # "stray"
  /\ Gated(call) /\ ~Clears(call.spend)
  /\ requests' = Requested(call.spend)
  /\ To("audit", "escalated")
  /\ UNCHANGED <<approvals, charges>>

Pass ==
  /\ pc = "gate"
  /\ call.skill # "stray"
  /\ Gated(call) => Clears(call.spend)
  /\ To("run", outcome)
  /\ UNCHANGED money

Look ==
  /\ pc = "run"
  /\ call.skill \in {"look", "ingest"}
  /\ To("audit", "executed")
  /\ UNCHANGED money

\* pay_invoice_skill takes an amount in either form.
Pay ==
  /\ pc = "run"
  /\ call.skill = "pay"
  /\ charges' = charges \cup {call}
  /\ To("audit", "executed")
  /\ UNCHANGED <<requests, approvals>>

\* handle_402_skill: the invoice is clean and passes the gate of its own.
RenewPaid ==
  /\ pc = "run"
  /\ call.skill = "renew"
  /\ EventClears(call)
  /\ charges' = charges \cup {call}
  /\ To("audit", "executed")
  /\ UNCHANGED <<requests, approvals>>

\* The policy, the score or the inner gate escalates: the skill has run.
RenewHeld ==
  /\ pc = "run"
  /\ call.skill = "renew"
  /\ requests' = Requested(call.spend)
  /\ To("audit", "executed")
  /\ UNCHANGED <<approvals, charges>>

\* decide: a request that is pending gets its verdict, any other stays.
Verdict(s, who) ==
  \/ /\ requests[s] = "pending"
     /\ requests' = [requests EXCEPT ![s] = "approved"]
     /\ approvals' = approvals \cup {<<s, who>>}
  \/ /\ requests[s] = "pending"
     /\ requests' = [requests EXCEPT ![s] = "denied"]
     /\ UNCHANGED approvals

\* approval_gate_skill for a request on file.
DecideSkill ==
  /\ pc = "run"
  /\ call.skill = "decide"
  /\ \/ Verdict(call.spend, "model")
     \/ requests[call.spend] \in {"approved", "denied"}
        /\ UNCHANGED <<requests, approvals>>
  /\ To("audit", "executed")
  /\ UNCHANGED charges

\* And for a request that is not: the KeyError leaves the loop.
DecideMissing ==
  /\ pc = "run"
  /\ call.skill = "decide"
  /\ requests[call.spend] = "none"
  /\ Return("raised", FALSE, {})
  /\ UNCHANGED <<loop, money>>

\* Mutant of Record: an escalated step is recorded like any other.
RecordAndGoOn ==
  /\ pc = "audit"
  /\ steps' = Append(steps, [call |-> call, outcome |-> outcome])
  /\ tools' = tools + 1
  /\ turn' = turn + 1
  /\ pc' = "ask"
  /\ UNCHANGED <<planner, last, repeats, call, outcome, runs, result, money>>

\* The audit entry is written and the step joins the record and the messages.
Record ==
  /\ pc = "audit"
  /\ steps' = Append(steps, [call |-> call, outcome |-> outcome])
  /\ tools' = tools + 1
  /\ turn' = turn + 1
  /\ IF outcome = "escalated"
       THEN Return("approval", TRUE, {call.spend})
       ELSE pc' = "ask" /\ UNCHANGED result
  /\ UNCHANGED <<planner, last, repeats, call, outcome, runs, money>>

\* Arguments that are no mapping, a skill that raises, a request or an audit
\* file that cannot be read or written, a crash: nothing in the loop catches
\* it, and what the call did stays done.
Raise ==
  /\ pc # "idle"
  /\ Return("raised", FALSE, {})
  /\ UNCHANGED <<loop, money>>

\* A human answers a request, from the API or the command line.
HumanDecide ==
  /\ \E s \in Spends : Verdict(s, "human")
  /\ UNCHANGED <<pc, result, loop, charges>>

Advance ==
  \/ Conclude \/ Exhaust \/ Dispatch \/ Remind \/ ForceFinal
  \/ Block \/ Hold \/ Pass
  \/ Look \/ Pay \/ RenewPaid \/ RenewHeld \/ DecideSkill \/ DecideMissing
  \/ Record

Next == Start \/ Advance \/ Raise \/ HumanDecide

Spec == Init /\ [][Next]_vars

\* Every step of the loop ends: a skill returns or raises, and the call to
\* the model has a timeout (hermes_client.py:92).
FairSpec == Spec /\ WF_vars(Advance)

---------------------------------------------------------------------------
TypeOK ==
  /\ planner \in Planners
  /\ pc \in {"idle", "ask", "gate", "run", "audit"}
  /\ turn \in 0..MaxSteps
  /\ tools = turn
  /\ pc \in {"gate", "run", "audit"} => turn < MaxSteps /\ call \in Calls
  /\ last \in {Key(c) : c \in Calls} \cup {NoCall}
  /\ repeats \in 0..2
  /\ call \in Calls \cup {NoCall}
  /\ outcome \in Outcomes
  /\ steps \in Seq(Steps)
  /\ result \in Results
  /\ requests \in [Spends -> Statuses]
  /\ approvals \subseteq Spends \X {"human", "model"}
  /\ charges \subseteq Calls
  /\ runs \in 0..MaxRuns

\* "if the model selects the same skill+args consecutively, an observation
\* is injected" (hermes_orchestrator.py:187): however the model mixes calls
\* and ignores reminders, no two steps in a row ran the same call.
NeverTwiceInARow ==
  \A i \in 1..(Len(steps) - 1) : Key(steps[i].call) # Key(steps[i + 1].call)

\* The call meets a gate, and is over the threshold of that gate: its amount is
\* a number, or it is a 402 event and the model passes no higher threshold.
HeldByGate(c) ==
  \/ Gated(c) /\ c.spend \in Dear
  \/ c.skill = "renew" /\ c.form # "raised" /\ c.spend \in DearEvents

\* What a gate holds is charged only after somebody approved it, in whichever
\* run the approval came (nemoclaw_harness.py:111-116,
\* payment_402_handler.py:138-151).  SpendIsApproved says which charges meet
\* no gate.
PaidBehindGate ==
  \A c \in charges :
    HeldByGate(c) =>
      \E who \in {"human", "model"} : <<c.spend, who>> \in approvals

\* "REQUIRE_APPROVAL must fire on any spend action above $100 (configurable
\* threshold)" (BRIEF.md:306).  A payment whose amount the model writes as a
\* string meets no gate (hermes_orchestrator.py:132), a 402 event meets one
\* with the threshold the model passes (handle_402_skill.py:39-42).
SpendIsApproved ==
  \A c \in charges :
    c.spend \in Dear \cap DearEvents =>
      \E who \in {"human", "model"} : <<c.spend, who>> \in approvals

\* A step the gate escalated is the last of its run, and the run returns the
\* id of a request that exists (hermes_orchestrator.py:274-278).
StopsAtEscalation ==
  /\ \A i \in 1..Len(steps) :
       steps[i].outcome = "escalated" =>
         /\ i = Len(steps)
         /\ pc = "idle"
         /\ result.escalated
         /\ result.request = {steps[i].call.spend}
  /\ \A s \in result.request : requests[s] # "none"

\* "so the orchestrator iterates offline" (hermes_client.py:70): with enough
\* turns the script is run to its end, each call once.
ScriptCompletes ==
  (/\ pc = "idle" /\ runs > 0 /\ planner = "script"
   /\ MaxSteps > Len(Script) /\ result.final # "raised")
    => /\ result.final = "summary"
       /\ Len(steps) = Len(Script)
       /\ \A i \in 1..Len(steps) : steps[i].call = Script[i]

\* A run returns, whatever the model answers (hermes_orchestrator.py:210).
Returns == pc # "idle" ~> pc = "idle"

\* "was already executed with the same args" (hermes_orchestrator.py:249):
\* the call a reminder is about is the call of the last step.
ReminderTrue ==
  \A c \in Suggested : Asked /\ Repeats(c) = 2 => steps[Len(steps)].call = c

\* "Returns ... escalation state" (hermes_orchestrator.py:191): a first run
\* that leaves a request pending says so.
EscalationSurfaces ==
  pc = "idle" /\ runs = 1 /\ result.final = "summary" =>
    \A s \in Spends : requests[s] # "pending"

\* "Record a human decision on a pending request" (require_approval.py:118).
DecidedByHuman == \A a \in approvals : a[2] = "human"
===========================================================================
