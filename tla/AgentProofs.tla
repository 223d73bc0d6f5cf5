---------------------------- MODULE AgentProofs ----------------------------
(***************************************************************************)
(* Theorems about the agent loop and four parts of the system next to it:  *)
(* the listing audit, the recommended rates, the vendor graph and a        *)
(* tenant's analysis.  They hold for every value of the constants.         *)
(***************************************************************************)
EXTENDS Orchestrator, ListingAudit, DynamicPricing, TenantReport, KnowledgeGraph,
        DataTheorems

\* The agent loop.
LEMMA CallTypes ==
  ASSUME NEW c \in Calls
  PROVE  /\ c \in AllCalls
         /\ c.skill \in Skills /\ c.spend \in Spends /\ c.form \in Forms
         /\ c.skill = "pay" => c.form \in {"number", "text"}
BY CallsAssumption DEF AllCalls

\* The step between runs differs from a call in its skill.
LEMMA NoCallDiffers == \A c \in Calls : Key(c) # NoCall
<1>1. \A c \in AllCalls : [c EXCEPT !.form = IF @ = "seed" THEN "bare" ELSE @].skill = c.skill
  BY DEF AllCalls
<1>2. NoCall.skill = "none" /\ "none" \notin Skills
  BY DEF NoCall, Skills
<1>3. QED
  BY <1>1, <1>2, CallTypes DEF Key

\* What the planner asks for is a call.
LEMMA ProposedCalls ==
  ASSUME TypeOK
  PROVE  Suggested \subseteq Calls
<1>1. Script \in Seq(Calls)
  BY CallsAssumption
<1>2. CASE planner = "model"
  BY <1>2 DEF Suggested
<1>3. CASE planner # "model" /\ ~ScriptLeft
  BY <1>3 DEF Suggested
<1>4. CASE planner # "model" /\ ScriptLeft
  <2>1. tools \in Nat
    BY StepsAssumption DEF TypeOK
  <2>2. Script[tools + 1] \in Calls
    BY <1>1, <1>4, <2>1 DEF ScriptLeft
  <2>3. QED
    BY <1>4, <2>2 DEF Suggested
<1>5. QED
  BY <1>2, <1>3, <1>4

LEMMA VerdictTypes ==
  ASSUME TypeOK, NEW s \in Spends, NEW who \in {"human", "model"}, Verdict(s, who)
  PROVE  /\ requests' \in [Spends -> Statuses]
         /\ approvals' \subseteq Spends \X {"human", "model"}
BY DEF Verdict, TypeOK, Statuses

LEMMA ReturnTypes ==
  ASSUME NEW final \in Finals, NEW escalated \in BOOLEAN, NEW request \in SUBSET Spends,
         Return(final, escalated, request)
  PROVE  pc' = "idle" /\ result' \in Results
BY DEF Return, Results

\* The trace, the approvals and the charges of a run keep their types, for any
\* calls the model names (hermes_orchestrator.py:190-290).
THEOREM TypeCorrect == Spec => []TypeOK
<1>1. Init => TypeOK
  BY StepsAssumption DEF Init, TypeOK, Statuses, Outcomes, NoResult, Results, Finals
<1>2. TypeOK /\ [Next]_vars => TypeOK'
  <2> SUFFICES ASSUME TypeOK, [Next]_vars PROVE TypeOK'
    OBVIOUS
  <2> USE StepsAssumption
  <2>1. CASE Start
    BY <2>1 DEF Start, TypeOK, money, NoResult, Results, Finals
  <2>2. CASE Conclude
    <3>1. PICK how \in Concluded : Return(how, how = "escalated", {})
      BY <2>2 DEF Conclude
    <3>2. how \in Finals
      BY DEF Concluded, Finals, Endings
    <3>3. pc' = "idle" /\ result' \in Results
      BY <3>1, <3>2, ReturnTypes
    <3>4. QED
      BY <2>2, <3>3 DEF Conclude, TypeOK, loop, money
  <2>3. CASE Exhaust \/ Raise \/ DecideMissing
    <3>1. pc' = "idle" /\ result' \in Results /\ UNCHANGED <<loop, money>>
      <4>1. /\ \E final \in Finals : Return(final, FALSE, {})
            /\ UNCHANGED <<loop, money>>
        BY <2>3 DEF Exhaust, Raise, DecideMissing, Finals
      <4>2. QED
        BY <4>1, ReturnTypes
    <3>2. QED
      BY <3>1 DEF TypeOK, loop, money
  <2>4. CASE Dispatch
    <3>1. PICK c \in Suggested : call' = c /\ last' = Key(c)
      BY <2>4 DEF Dispatch
    <3>2. c \in Calls
      BY <3>1, ProposedCalls
    <3>3. QED
      BY <2>4, <3>1, <3>2 DEF Dispatch, Asked, TypeOK, money
  <2>5. CASE Remind
    BY <2>5 DEF Remind, Asked, TypeOK, money
  <2>6. CASE ForceFinal
    BY <2>6 DEF ForceFinal, Asked, Return, TypeOK, loop, money, Results, Finals
  <2>7. CASE Block \/ Pass \/ Look
    BY <2>7 DEF Block, Pass, Look, To, TypeOK, money, Outcomes
  <2>8. CASE Hold
    <3>1. call.spend \in Spends
      BY <2>8, CallTypes DEF Hold, TypeOK
    <3>2. QED
      BY <2>8, <3>1 DEF Hold, To, Requested, TypeOK, Outcomes, Statuses
  <2>9. CASE Pay \/ RenewPaid
    BY <2>9 DEF Pay, RenewPaid, To, TypeOK, Outcomes
  <2>10. CASE RenewHeld
    <3>1. call.spend \in Spends
      BY <2>10, CallTypes DEF RenewHeld, TypeOK
    <3>2. QED
      BY <2>10, <3>1 DEF RenewHeld, To, Requested, TypeOK, Outcomes, Statuses
  <2>11. CASE DecideSkill
    <3>1. call.spend \in Spends
      BY <2>11, CallTypes DEF DecideSkill, TypeOK
    <3>2. /\ requests' \in [Spends -> Statuses]
          /\ approvals' \subseteq Spends \X {"human", "model"}
      <4>1. CASE Verdict(call.spend, "model")
        BY <3>1, <4>1, VerdictTypes
      <4>2. CASE UNCHANGED <<requests, approvals>>
        BY <4>2 DEF TypeOK
      <4>3. QED
        BY <2>11, <4>1, <4>2 DEF DecideSkill
    <3>3. QED
      BY <2>11, <3>2 DEF DecideSkill, To, TypeOK, Outcomes
  <2>12. CASE Record
    <3>1. /\ call \in Calls /\ call.spend \in Spends /\ turn < MaxSteps
          /\ outcome \in Outcomes
      BY <2>12, CallTypes DEF Record, TypeOK
    <3>2. Append(steps, [call |-> call, outcome |-> outcome]) \in Seq(Steps)
      BY <3>1 DEF TypeOK, Steps
    <3>3. result' \in Results /\ pc' \in {"idle", "ask"}
      <4>1. CASE outcome = "escalated"
        <5>1. Return("approval", TRUE, {call.spend})
          BY <2>12, <4>1 DEF Record
        <5>2. "approval" \in Finals /\ {call.spend} \in SUBSET Spends
          BY <3>1 DEF Finals
        <5>3. QED
          BY <5>1, <5>2, ReturnTypes
      <4>2. CASE outcome # "escalated"
        BY <2>12, <4>2 DEF Record, TypeOK
      <4>3. QED
        BY <4>1, <4>2
    <3>4. turn' \in 0..MaxSteps /\ tools' = turn'
      BY <2>12, <3>1 DEF Record, TypeOK
    <3>5. /\ steps' \in Seq(Steps)
          /\ UNCHANGED <<planner, last, repeats, call, outcome, runs, money>>
      BY <2>12, <3>2 DEF Record
    <3>6. /\ planner' = planner /\ last' = last /\ repeats' = repeats
          /\ call' = call /\ outcome' = outcome /\ runs' = runs
          /\ requests' = requests /\ approvals' = approvals /\ charges' = charges
      BY <3>5 DEF money
    <3>7. turn' \in 0..MaxSteps /\ tools' = turn' /\ pc' \in {"idle", "ask"}
      BY <3>3, <3>4
    <3>8. QED
      BY <3>3, <3>5, <3>6, <3>7 DEF TypeOK
  <2>13. CASE HumanDecide
    <3>1. /\ requests' \in [Spends -> Statuses]
          /\ approvals' \subseteq Spends \X {"human", "model"}
      BY <2>13, VerdictTypes DEF HumanDecide
    <3>2. QED
      BY <2>13, <3>1 DEF HumanDecide, TypeOK, loop
  <2>14. CASE UNCHANGED vars
    BY <2>14 DEF vars, loop, money, TypeOK
  <2>15. QED
    BY <2>1, <2>2, <2>3, <2>4, <2>5, <2>6, <2>7, <2>8, <2>9, <2>10, <2>11, <2>12,
       <2>13, <2>14 DEF Next, Advance
<1>3. QED
  BY <1>1, <1>2, PTL DEF Spec

---------------------------------------------------------------------------
\* The inductive invariant of NeverTwiceInARow: what the loop remembers as the
\* last call is the last step's, or the one about to become a step; before the
\* first step it may remember anything.
RepeatInv ==
  /\ NeverTwiceInARow
  /\ repeats = 0 => steps = <<>> /\ pc \in {"idle", "ask"}
  /\ pc = "ask" /\ steps # <<>> => last = Key(steps[Len(steps)].call)
  /\ pc \in {"gate", "run", "audit"} =>
       /\ last = Key(call)
       /\ steps # <<>> => Key(steps[Len(steps)].call) # Key(call)

\* No two steps in a row ran the same call, for any mix of answers.
THEOREM NoRepeats == Spec => []NeverTwiceInARow
<1>1. Init => RepeatInv
  BY DEF Init, RepeatInv, NeverTwiceInARow
<1>2. TypeOK /\ RepeatInv /\ [Next]_vars => RepeatInv'
  <2> SUFFICES ASSUME TypeOK, RepeatInv, [Next]_vars PROVE RepeatInv'
    OBVIOUS
  <2>1. CASE Start
    BY <2>1 DEF Start, RepeatInv, NeverTwiceInARow
  <2>2. CASE Dispatch
    <3>1. PICK c \in Suggested : Repeats(c) = 1 /\ call' = c /\ last' = Key(c)
      BY <2>2 DEF Dispatch
    <3>2. steps # <<>> => Key(c) # last
      BY <3>1 DEF Repeats, RepeatInv, TypeOK
    <3>3. QED
      BY <2>2, <3>1, <3>2 DEF Dispatch, Asked, RepeatInv, NeverTwiceInARow
  <2>3. CASE Remind
    BY <2>3 DEF Remind, Asked, RepeatInv, NeverTwiceInARow
  <2>4. CASE Record
    <3> DEFINE s == [call |-> call, outcome |-> outcome]
    <3>1. /\ steps' = Append(steps, s) /\ pc' \in {"idle", "ask"}
          /\ last' = Key(call) /\ repeats' = repeats /\ repeats # 0
      BY <2>4 DEF Record, Return, RepeatInv
    <3>2. /\ steps \in Seq(Steps) /\ Len(steps') = Len(steps) + 1
          /\ \A i \in 1..Len(steps) : steps'[i] = steps[i]
          /\ steps'[Len(steps')] = s /\ steps' # <<>> /\ Len(steps) \in Nat
      <4>1. s \in Steps /\ steps \in Seq(Steps)
        BY <2>4 DEF Record, TypeOK, Steps
      <4> HIDE DEF s
      <4>2. QED
        BY <3>1, <4>1
    <3>3. s.call = call
      OBVIOUS
    <3>4. steps # <<>> => Key(steps[Len(steps)].call) # Key(call)
      BY <2>4 DEF Record, RepeatInv
    <3>5. NeverTwiceInARow'
      <4> SUFFICES ASSUME NEW i \in 1..(Len(steps') - 1)
                   PROVE  Key(steps'[i].call) # Key(steps'[i + 1].call)
        BY DEF NeverTwiceInARow, Key
      <4>1. CASE i = Len(steps)
        <5>1. steps # <<>>
          BY <3>2, <4>1
        <5> HIDE DEF s
        <5>2. steps'[i] = steps[Len(steps)] /\ steps'[i + 1] = s
          BY <3>2, <4>1
        <5>3. QED
          BY <3>3, <3>4, <5>1, <5>2
      <4>2. CASE i # Len(steps)
        <5>1. i \in 1..(Len(steps) - 1) /\ i \in 1..Len(steps) /\ i + 1 \in 1..Len(steps)
          BY <3>2, <4>2
        <5>2. QED
          BY <3>2, <5>1 DEF RepeatInv, NeverTwiceInARow
      <4>3. QED
        BY <4>1, <4>2
    <3>6. QED
      BY <3>1, <3>2, <3>3, <3>5 DEF RepeatInv
  <2>5. CASE \/ Conclude \/ Exhaust \/ ForceFinal \/ DecideMissing \/ Raise
    BY <2>5 DEF Conclude, Exhaust, ForceFinal, DecideMissing, Raise, Return, loop,
                RepeatInv, NeverTwiceInARow
  <2>6. CASE \/ Block \/ Hold \/ Pass \/ Look \/ Pay \/ RenewPaid \/ RenewHeld
             \/ DecideSkill
    <3>1. /\ pc' \in {"run", "audit"} /\ pc \in {"gate", "run"}
          /\ UNCHANGED <<last, repeats, call, steps>>
      BY <2>6 DEF Block, Hold, Pass, Look, Pay, RenewPaid, RenewHeld, DecideSkill, To
    <3>2. QED
      BY <3>1 DEF RepeatInv, NeverTwiceInARow
  <2>7. CASE HumanDecide \/ UNCHANGED vars
    BY <2>7 DEF HumanDecide, vars, loop, RepeatInv, NeverTwiceInARow
  <2>8. QED
    BY <2>1, <2>2, <2>3, <2>4, <2>5, <2>6, <2>7 DEF Next, Advance
<1>3. RepeatInv => NeverTwiceInARow
  BY DEF RepeatInv
<1>4. QED
  BY <1>1, <1>2, <1>3, TypeCorrect, PTL DEF Spec

---------------------------------------------------------------------------
\* Somebody approved the request of a spend.
Approved(s) == \E who \in {"human", "model"} : <<s, who>> \in approvals

\* The inductive invariant of PaidBehindGate: an approved record has an
\* approval, and a call with an amount to read runs only past the gate.
PaidInv ==
  /\ PaidBehindGate
  /\ \A s \in Spends : requests[s] = "approved" => Approved(s)
  /\ pc = "run" /\ Gated(call) => Clears(call.spend)

LEMMA ChargedCalls ==
  ASSUME PaidInv, NEW c \in Calls, charges' = charges \cup {c}, approvals' = approvals,
         HeldByGate(c) => Approved(c.spend)
  PROVE  PaidBehindGate'
BY DEF PaidInv, PaidBehindGate, Approved

\* Approvals are never taken back.
LEMMA ApprovalsStay ==
  ASSUME PaidInv, approvals \subseteq approvals', charges' = charges
  PROVE  PaidBehindGate'
BY DEF PaidInv, PaidBehindGate

\* PaidBehindGate for any calls and thresholds: what a gate holds is charged
\* only after an approval.
THEOREM ChargesAreApproved == Spec => []PaidBehindGate
<1>1. Init => PaidInv
  BY DEF Init, PaidInv, PaidBehindGate
<1>2. TypeOK /\ PaidInv /\ [Next]_vars => PaidInv'
  <2> SUFFICES ASSUME TypeOK, PaidInv, [Next]_vars PROVE PaidInv'
    OBVIOUS
  <2>1. CASE \/ Start \/ Conclude \/ Exhaust \/ Dispatch \/ Remind \/ ForceFinal
             \/ Block \/ Look \/ DecideMissing \/ Record \/ Raise
             \/ UNCHANGED vars
    <3>1. UNCHANGED money /\ (pc' = "run" => pc = "run" /\ call' = call)
      BY <2>1 DEF Start, Conclude, Exhaust, Dispatch, Remind, ForceFinal, Block, Look,
                  DecideMissing, Record, Raise, Return, To, vars, loop, money
    <3>2. QED
      BY <3>1 DEF money, PaidInv, PaidBehindGate, Approved, Gated, Clears
  <2>2. CASE Hold \/ RenewHeld
    <3>1. /\ approvals' = approvals /\ charges' = charges /\ pc' = "audit"
          /\ requests' = Requested(call.spend)
      BY <2>2 DEF Hold, RenewHeld, To
    <3>2. \A s \in Spends : requests'[s] = "approved" => requests[s] = "approved"
      BY <3>1 DEF Requested, TypeOK
    <3>3. QED
      BY <3>1, <3>2 DEF PaidInv, PaidBehindGate, Approved
  <2>3. CASE Pass
    <3>1. UNCHANGED money /\ call' = call /\ (Gated(call) => Clears(call.spend))
      BY <2>3 DEF Pass, To
    <3>2. QED
      BY <3>1 DEF money, PaidInv, PaidBehindGate, Approved, Gated, Clears
  <2>4. CASE Pay \/ RenewPaid
    <3>1. /\ charges' = charges \cup {call} /\ pc' = "audit" /\ call \in Calls
          /\ UNCHANGED <<requests, approvals>>
          /\ call.spend \in Spends
      BY <2>4, CallTypes DEF Pay, RenewPaid, To, TypeOK
    <3>2. Gated(call) /\ call.spend \in Dear => Approved(call.spend)
      BY <2>4, <3>1 DEF Pay, RenewPaid, PaidInv, Clears
    <3>3. HeldByGate(call) => Approved(call.spend)
      <4>1. CASE Pay
        BY <3>2, <4>1 DEF HeldByGate, Pay
      <4>2. CASE RenewPaid
        BY <3>1, <3>2, <4>2 DEF HeldByGate, RenewPaid, EventClears, PaidInv
      <4>3. QED
        BY <2>4, <4>1, <4>2
    <3>4. PaidBehindGate'
      BY <3>1, <3>3, ChargedCalls
    <3>5. QED
      BY <3>1, <3>4 DEF PaidInv, Approved
  <2>5. ASSUME NEW s \in Spends, NEW who \in {"human", "model"}, Verdict(s, who)
        PROVE  /\ approvals \subseteq approvals'
               /\ \A x \in Spends : requests'[x] = "approved" => Approved(x)'
               /\ \A x \in Spends : requests[x] = "approved" => requests'[x] = "approved"
    <3>1. CASE requests' = [requests EXCEPT ![s] = "approved"]
               /\ approvals' = approvals \cup {<<s, who>>}
      BY <3>1 DEF PaidInv, Approved, TypeOK
    <3>2. CASE requests[s] = "pending"
               /\ requests' = [requests EXCEPT ![s] = "denied"]
               /\ UNCHANGED approvals
      BY <3>2 DEF PaidInv, Approved, TypeOK
    <3>3. QED
      BY <2>5, <3>1, <3>2 DEF Verdict
  <2>6. CASE DecideSkill
    <3>1. call.spend \in Spends /\ charges' = charges /\ pc' = "audit"
      BY <2>6, CallTypes DEF DecideSkill, To, TypeOK
    <3>2. CASE Verdict(call.spend, "model")
      BY <2>5, <3>1, <3>2, ApprovalsStay DEF PaidInv
    <3>3. CASE UNCHANGED <<requests, approvals>>
      BY <3>1, <3>3 DEF PaidInv, PaidBehindGate, Approved
    <3>4. QED
      BY <2>6, <3>2, <3>3 DEF DecideSkill
  <2>7. CASE HumanDecide
    <3>1. PICK s \in Spends : Verdict(s, "human")
      BY <2>7 DEF HumanDecide
    <3>2. charges' = charges /\ pc' = pc /\ call' = call
      BY <2>7 DEF HumanDecide, loop
    <3>3. pc = "run" => call.spend \in Spends
      BY CallTypes DEF TypeOK
    <3>4. QED
      BY <2>5, <3>1, <3>2, <3>3, ApprovalsStay DEF PaidInv, Gated, Clears
  <2>8. QED
    BY <2>1, <2>2, <2>3, <2>4, <2>6, <2>7 DEF Next, Advance
<1>3. PaidInv => PaidBehindGate
  BY DEF PaidInv
<1>4. QED
  BY <1>1, <1>2, <1>3, TypeCorrect, PTL DEF Spec

---------------------------------------------------------------------------
\* The inductive invariant of StopsAtEscalation: a call on its way to the
\* record as escalated has its request on file.
StopInv ==
  /\ StopsAtEscalation
  /\ pc = "audit" /\ outcome = "escalated" => requests[call.spend] # "none"

\* StopsAtEscalation for any calls and decisions: an escalated step ends its
\* run, and the run names a request that is on file for good.
THEOREM EscalationsEnd == Spec => []StopsAtEscalation
<1>1. Init => StopInv
  BY DEF Init, StopInv, StopsAtEscalation, NoResult
<1>2. TypeOK /\ StopInv /\ [Next]_vars => StopInv'
  <2> SUFFICES ASSUME TypeOK, StopInv, [Next]_vars PROVE StopInv'
    OBVIOUS
  <2> DEFINE Escalated(i) == steps[i].outcome = "escalated"
  <2>1. pc # "idle" => \A i \in 1..Len(steps) : ~Escalated(i)
    BY DEF StopInv, StopsAtEscalation
  <2>2. \A s \in Spends : requests[s] # "none" => requests'[s] # "none"
    <3>1. ASSUME NEW s \in Spends, requests' = Requested(s)
          PROVE  \A x \in Spends : requests[x] # "none" => requests'[x] # "none"
      BY <3>1 DEF Requested, TypeOK
    <3>2. ASSUME NEW s \in Spends, NEW who, Verdict(s, who)
          PROVE  \A x \in Spends : requests[x] # "none" => requests'[x] # "none"
      BY <3>2 DEF Verdict, TypeOK
    <3>3. pc \in {"gate", "run"} => call.spend \in Spends
      BY CallTypes DEF TypeOK
    <3>4. CASE Hold \/ RenewHeld
      BY <3>1, <3>3, <3>4 DEF Hold, RenewHeld
    <3>5. CASE DecideSkill \/ HumanDecide
      BY <3>2, <3>3, <3>5 DEF DecideSkill, HumanDecide
    <3>6. CASE ~(Hold \/ RenewHeld \/ DecideSkill \/ HumanDecide)
      <4>1. requests' = requests
        BY <3>6 DEF Next, Advance, Start, Conclude, Exhaust, Dispatch, Remind,
           ForceFinal, Block, Pass, Look, Pay, RenewPaid, DecideMissing, Record, Raise,
           To, money, vars
      <4>2. QED
        BY <4>1
    <3>7. QED
      BY <3>4, <3>5, <3>6
  <2>3. \A s \in result.request : s \in Spends /\ requests[s] # "none"
    BY DEF StopInv, StopsAtEscalation, TypeOK, Results
  <2>4. CASE Start
    BY <2>4 DEF Start, StopInv, StopsAtEscalation, NoResult
  <2>5. CASE \/ Conclude \/ Exhaust \/ ForceFinal \/ DecideMissing \/ Raise
    <3>1. /\ steps' = steps /\ pc # "idle" /\ pc' = "idle"
          /\ result'.request = {}
      BY <2>5 DEF Conclude, Exhaust, ForceFinal, DecideMissing, Raise, Asked, Return, loop
    <3>2. QED
      BY <2>1, <3>1 DEF StopInv, StopsAtEscalation
  <2>6. CASE \/ Dispatch \/ Remind \/ Block \/ Pass \/ Look \/ Pay \/ RenewPaid
             \/ RenewHeld \/ DecideSkill
    <3>1. /\ steps' = steps /\ result' = result /\ pc # "idle"
          /\ pc' = "audit" => outcome' # "escalated"
      BY <2>6 DEF Dispatch, Remind, Block, Pass, Look, Pay, RenewPaid, RenewHeld,
                  DecideSkill, Asked, To
    <3>2. QED
      BY <2>1, <2>2, <2>3, <3>1 DEF StopInv, StopsAtEscalation
  <2>7. CASE Hold
    <3>1. /\ steps' = steps /\ result' = result /\ pc # "idle" /\ call' = call
          /\ call.spend \in Spends /\ requests' = Requested(call.spend)
      BY <2>7, CallTypes DEF Hold, To, TypeOK
    <3>2. requests'[call.spend] # "none"
      BY <3>1 DEF Requested, TypeOK
    <3>3. QED
      BY <2>1, <2>2, <2>3, <3>1, <3>2 DEF StopInv, StopsAtEscalation
  <2>8. CASE Record
    <3> DEFINE s == [call |-> call, outcome |-> outcome]
    <3>1. /\ steps' = Append(steps, s) /\ s.outcome = outcome /\ s.call = call
          /\ requests' = requests /\ s \in Steps /\ steps \in Seq(Steps)
      BY <2>8 DEF Record, money, TypeOK, Steps
    <3> HIDE DEF s
    <3>2. /\ Len(steps') = Len(steps) + 1 /\ Len(steps) \in Nat
          /\ \A i \in 1..Len(steps) : steps'[i] = steps[i]
          /\ steps'[Len(steps')] = s
      BY <3>1
    <3>3. \A i \in 1..Len(steps') : steps'[i].outcome = "escalated" =>
            i = Len(steps') /\ outcome = "escalated"
      <4>1. \A i \in 1..Len(steps) : ~Escalated(i)
        BY <2>1, <2>8 DEF Record
      <4>2. \A i \in 1..Len(steps') : i = Len(steps') \/ i \in 1..Len(steps)
        BY <3>2
      <4>3. QED
        BY <3>1, <3>2, <4>1, <4>2
    <3>4. CASE outcome = "escalated"
      <4>1. /\ pc' = "idle" /\ result'.escalated /\ result'.request = {call.spend}
        BY <2>8, <3>4 DEF Record, Return
      <4>2. requests[call.spend] # "none"
        BY <2>8, <3>4 DEF Record, StopInv
      <4>3. steps'[Len(steps')].call = call
        BY <3>1, <3>2
      <4>4. QED
        BY <3>1, <3>3, <4>1, <4>2, <4>3 DEF StopInv, StopsAtEscalation
    <3>5. CASE outcome # "escalated"
      <4>1. pc' = "ask" /\ result' = result
        BY <2>8, <3>5 DEF Record
      <4>2. QED
        BY <2>3, <3>1, <3>3, <3>5, <4>1 DEF StopInv, StopsAtEscalation
    <3>6. QED
      BY <3>4, <3>5
  <2>9. CASE HumanDecide \/ UNCHANGED vars
    <3>1. /\ steps' = steps /\ result' = result /\ pc' = pc /\ call' = call
          /\ outcome' = outcome
      BY <2>9 DEF HumanDecide, vars, loop
    <3>2. pc = "audit" => call.spend \in Spends
      BY CallTypes DEF TypeOK
    <3>3. QED
      BY <2>2, <2>3, <3>1, <3>2 DEF StopInv, StopsAtEscalation
  <2>10. QED
    BY <2>4, <2>5, <2>6, <2>7, <2>8, <2>9 DEF Next, Advance
<1>3. StopInv => StopsAtEscalation
  BY DEF StopInv
<1>4. QED
  BY <1>1, <1>2, <1>3, TypeCorrect, PTL DEF Spec
---------------------------------------------------------------------------
\* A script the loop can run: no call twice in a row and none the gate holds.
RunnableScript ==
  /\ \A i \in 1..(Len(Script) - 1) : Key(Script[i]) # Key(Script[i + 1])
  /\ \A i \in 1..Len(Script) : Gated(Script[i]) => Script[i].spend \notin Dear

\* The first steps of the script have been recorded, each once.
Followed(n) ==
  /\ Len(steps) = n
  /\ \A i \in 1..Len(steps) : steps[i].call = Script[i]

\* The inductive invariant of ScriptCompletes: a run in progress has recorded
\* as many calls of the script as it has had tool turns.
ScriptInv ==
  /\ ScriptCompletes
  /\ pc # "idle" /\ planner = "script" =>
       /\ tools <= Len(Script) /\ Followed(tools)
       /\ pc = "ask" =>
            last = (IF tools = 0 THEN NoCall ELSE Key(Script[tools]))
       /\ pc # "ask" =>
            tools < Len(Script) /\ call = Script[tools + 1] /\ last = Key(call)
       /\ pc = "audit" => outcome # "escalated"

\* With a turn to spare, a script the gate does not hold is run to its end,
\* each call once and in order, unless something raises
\* (hermes_client.py:60-80, hermes_orchestrator.py:210-290).
THEOREM ScriptsEnd ==
  ASSUME RunnableScript
  PROVE  Spec => []ScriptCompletes
<1> USE StepsAssumption
<1>1. Init => ScriptInv
  BY DEF Init, ScriptInv, ScriptCompletes
<1>2. TypeOK /\ ScriptInv /\ [Next]_vars => ScriptInv'
  <2> SUFFICES ASSUME TypeOK, ScriptInv, [Next]_vars PROVE ScriptInv'
    OBVIOUS
  <2>1. Len(Script) \in Nat /\ tools \in Nat /\ turn = tools /\ turn \in 0..MaxSteps
    BY CallsAssumption DEF TypeOK
  <2>2. CASE Start
    BY <2>1, <2>2 DEF Start, ScriptInv, ScriptCompletes, Followed
  <2>3. CASE Conclude
    <3>1. PICK how \in Concluded : Return(how, how = "escalated", {})
      BY <2>3 DEF Conclude
    <3>2. /\ pc = "ask" /\ pc' = "idle" /\ result'.final = how
          /\ UNCHANGED <<steps, planner>>
      BY <2>3, <3>1 DEF Conclude, Asked, Return, loop
    <3>3. planner = "script" => how = "summary" /\ tools >= Len(Script)
      BY <2>1 DEF Concluded, ScriptLeft
    <3>4. planner = "script" => Followed(Len(Script))
      BY <2>1, <3>2, <3>3 DEF ScriptInv
    <3>5. QED
      BY <3>2, <3>3, <3>4 DEF ScriptInv, ScriptCompletes, Followed
  <2>4. CASE Exhaust
    <3>1. planner = "script" => ~(MaxSteps > Len(Script))
      BY <2>1, <2>4 DEF Exhaust, ScriptInv
    <3>2. pc' = "idle" /\ planner' = planner
      BY <2>4 DEF Exhaust, Return, loop
    <3>3. QED
      BY <3>1, <3>2 DEF ScriptInv, ScriptCompletes
  <2>5. CASE Dispatch
    <3>1. PICK c \in Suggested : Repeats(c) = 1 /\ call' = c /\ last' = Key(c)
      BY <2>5 DEF Dispatch
    <3>2. planner = "script" => tools < Len(Script) /\ c = Script[tools + 1]
      BY <2>1, <3>1 DEF Suggested, ScriptLeft
    <3>3. /\ pc = "ask" /\ pc' = "gate"
          /\ UNCHANGED <<planner, tools, steps, outcome>>
      BY <2>5 DEF Dispatch, Asked
    <3>4. QED
      BY <3>1, <3>2, <3>3 DEF ScriptInv, ScriptCompletes, Followed
  <2>6. CASE Remind \/ ForceFinal
    <3>1. PICK c \in Suggested : pc = "ask" /\ Repeats(c) # 1
      <4>1. \A c \in Suggested : Repeats(c) \in Nat
        BY DEF Repeats, TypeOK
      <4>2. pc = "ask" /\ \E c \in Suggested : Repeats(c) = 2 \/ Repeats(c) >= 3
        BY <2>6 DEF Remind, ForceFinal, Asked
      <4>3. PICK c \in Suggested : Repeats(c) = 2 \/ Repeats(c) >= 3
        BY <4>2
      <4>4. Repeats(c) # 1
        BY <4>1, <4>3
      <4>5. QED
        BY <4>2, <4>4
    <3>2. Key(c) = last
      BY <3>1 DEF Repeats
    <3>3. ASSUME planner = "script" PROVE FALSE
      <4>1. tools < Len(Script) /\ c = Script[tools + 1]
        BY <2>1, <3>1, <3>3 DEF Suggested, ScriptLeft
      <4>2. CASE tools = 0
        <5>1. last = NoCall
          BY <3>1, <3>3, <4>2 DEF ScriptInv
        <5>2. c \in Calls
          BY <3>1, ProposedCalls
        <5>3. QED
          BY <3>2, <5>1, <5>2, NoCallDiffers
      <4>3. CASE tools # 0
        <5>1. last = Key(Script[tools])
          BY <3>1, <3>3, <4>3 DEF ScriptInv
        <5>2. Key(Script[tools]) # Key(Script[tools + 1])
          BY <2>1, <4>1, <4>3 DEF RunnableScript
        <5>3. QED
          BY <3>2, <4>1, <5>1, <5>2
      <4>4. QED
        BY <4>2, <4>3
    <3>4. planner' = planner
      BY <2>6 DEF Remind, ForceFinal, loop
    <3>5. QED
      BY <3>3, <3>4 DEF ScriptInv, ScriptCompletes
  <2>7. CASE Hold
    <3>1. pc = "gate" /\ pc' # "idle" /\ planner' = planner
      BY <2>7 DEF Hold, To
    <3>2. ASSUME planner = "script" PROVE FALSE
      <4>1. tools + 1 \in 1..Len(Script) /\ call = Script[tools + 1]
        BY <2>1, <3>1, <3>2 DEF ScriptInv
      <4>2. Gated(call) /\ call.spend \in Dear
        BY <2>7 DEF Hold, Clears
      <4>3. QED
        BY <4>1, <4>2 DEF RunnableScript
    <3>3. QED
      BY <3>1, <3>2 DEF ScriptInv, ScriptCompletes
  <2>8. CASE \/ Block \/ Pass \/ Look \/ Pay \/ RenewPaid \/ RenewHeld \/ DecideSkill
    <3>1. /\ pc \in {"gate", "run"} /\ pc' \in {"run", "audit"}
          /\ UNCHANGED <<planner, tools, call, last, steps>>
          /\ pc' = "audit" => outcome' # "escalated"
      BY <2>8 DEF Block, Pass, Look, Pay, RenewPaid, RenewHeld, DecideSkill, To
    <3>2. QED
      BY <3>1 DEF ScriptInv, ScriptCompletes, Followed
  <2>9. CASE DecideMissing \/ Raise
    BY <2>9 DEF DecideMissing, Raise, Return, ScriptInv, ScriptCompletes
  <2>10. CASE Record
    <3> DEFINE s == [call |-> call, outcome |-> outcome]
    <3>1. /\ pc = "audit" /\ tools' = tools + 1 /\ steps' = Append(steps, s)
          /\ UNCHANGED <<planner, last, call>> /\ s.call = call
          /\ s \in Steps /\ steps \in Seq(Steps)
      BY <2>10 DEF Record, TypeOK, Steps
    <3> HIDE DEF s
    <3>2. /\ Len(steps') = Len(steps) + 1 /\ Len(steps) \in Nat
          /\ \A i \in 1..Len(steps) : steps'[i] = steps[i]
          /\ steps'[Len(steps')] = s
      BY <3>1
    <3>3. CASE planner = "script"
      <4>1. /\ outcome # "escalated" /\ Followed(tools)
            /\ tools < Len(Script) /\ call = Script[tools + 1]
        BY <3>1, <3>3 DEF ScriptInv
      <4>2. pc' = "ask"
        BY <2>10, <4>1 DEF Record
      <4>3. Followed(tools)'
        BY <2>1, <3>1, <3>2, <4>1 DEF Followed
      <4>4. last = Key(call)
        BY <3>1, <3>3 DEF ScriptInv
      <4>5. QED
        BY <2>1, <3>1, <4>1, <4>2, <4>3, <4>4 DEF ScriptInv, ScriptCompletes
    <3>4. CASE planner # "script"
      BY <3>1, <3>4 DEF ScriptInv, ScriptCompletes
    <3>5. QED
      BY <3>3, <3>4
  <2>11. CASE HumanDecide \/ UNCHANGED vars
    BY <2>11 DEF HumanDecide, vars, loop, ScriptInv, ScriptCompletes, Followed
  <2>12. QED
    BY <2>2, <2>3, <2>4, <2>5, <2>6, <2>7, <2>8, <2>9, <2>10, <2>11 DEF Next, Advance
<1>3. ScriptInv => ScriptCompletes
  BY DEF ScriptInv
<1>4. QED
  BY <1>1, <1>2, <1>3, TypeCorrect, PTL DEF Spec

---------------------------------------------------------------------------
\* The listing audit.
LEMMA LeastOf ==
  ASSUME NEW a \in Int, NEW b \in Int
  PROVE  Min({a, b}) \in {a, b} /\ Min({a, b}) <= a /\ Min({a, b}) <= b
BY DEF Min

LEMMA AtLeastZero ==
  ASSUME NEW x \in Int
  PROVE  Max({0, x}) = IF x <= 0 THEN 0 ELSE x
<1>1. ASSUME NEW z \in Int
      PROVE  Max({z, x}) = IF x <= z THEN z ELSE x
  <2>1. Max({z, x}) \in {z, x} /\ Max({z, x}) >= z /\ Max({z, x}) >= x
    BY DEF Max
  <2>2. QED
    BY <2>1
<1>2. QED
  BY <1>1

LEMMA FieldFacts ==
  /\ Fields = {"checkin", "checkout", "maxOccupancy", "occupancy", "species", "fee", "tier",
               "parking", "parkingType", "quietHours", "permit", "minStay", "lowReviews",
               "rooms", "refundDays"}
  /\ IsFiniteSet(Fields)
  /\ \A f \in Fields : FieldPoints[f] \in Nat
  /\ FieldPoints["rooms"] = 0 /\ FieldPoints["lowReviews"] = 0
<1>1. Fields = {"checkin", "checkout", "maxOccupancy", "occupancy", "species", "fee", "tier",
                "parking", "parkingType", "quietHours", "permit", "minStay", "lowReviews",
                "rooms", "refundDays"}
  BY DEF Fields, FieldPoints
<1>2. IsFiniteSet(Fields)
  <2>1. \A A, x : IsFiniteSet(A) => IsFiniteSet(A \cup {x})
    BY FS_AddElement
  <2>2. ASSUME NEW a, NEW b, NEW c, NEW d, NEW e PROVE IsFiniteSet({a, b, c, d, e})
    <3>1. IsFiniteSet({a}) /\ IsFiniteSet({a} \cup {b})
      BY <2>1, FS_Singleton
    <3>2. IsFiniteSet(({a} \cup {b}) \cup {c})
      BY <2>1, <3>1
    <3>3. IsFiniteSet((({a} \cup {b}) \cup {c}) \cup {d})
      BY <2>1, <3>2
    <3>4. IsFiniteSet(((({a} \cup {b}) \cup {c}) \cup {d}) \cup {e})
      BY <2>1, <3>3
    <3>5. ((({a} \cup {b}) \cup {c}) \cup {d}) \cup {e} = {a, b, c, d, e}
      OBVIOUS
    <3>6. QED
      BY <3>4, <3>5
  <2>3. PICK A, B, C : /\ A = {"checkin", "checkout", "maxOccupancy", "occupancy", "species"}
                       /\ B = {"fee", "tier", "parking", "parkingType", "quietHours"}
                       /\ C = {"permit", "minStay", "lowReviews", "rooms", "refundDays"}
    OBVIOUS
  <2>4. IsFiniteSet(A) /\ IsFiniteSet(B) /\ IsFiniteSet(C)
    BY <2>2, <2>3
  <2>5. Fields = (A \cup B) \cup C
    BY <1>1, <2>3
  <2>6. IsFiniteSet(A \cup B)
    BY <2>4, FS_Union
  <2>7. QED
    BY <2>4, <2>5, <2>6, FS_Union
<1>3. \A f \in Fields : FieldPoints[f] \in Nat
  BY <1>1 DEF FieldPoints
<1>4. FieldPoints["rooms"] = 0 /\ FieldPoints["lowReviews"] = 0
  BY DEF FieldPoints
<1>5. QED
  BY <1>1, <1>2, <1>3, <1>4

LEMMA Small ==
  /\ IsFiniteSet(Questions) /\ Cardinality(Questions) = 7
  /\ IsFiniteSet({"wifi", "outdoor"}) /\ Cardinality({"wifi", "outdoor"}) = 2
<1>1. \A A, x : IsFiniteSet(A) /\ x \notin A =>
        IsFiniteSet(A \cup {x}) /\ Cardinality(A \cup {x}) = Cardinality(A) + 1
  BY FS_AddElement
<1>2. IsFiniteSet({"species"}) /\ Cardinality({"species"}) = 1
  BY FS_Singleton
<1> DEFINE A2 == {"species"} \cup {"checkin"}
           A3 == A2 \cup {"checkout"}
           A4 == A3 \cup {"parking"}
           A5 == A4 \cup {"tier"}
           A6 == A5 \cup {"minStay"}
           A7 == A6 \cup {"maxOccupancy"}
<1>3. IsFiniteSet(A2) /\ Cardinality(A2) = 2
  BY <1>1, <1>2
<1>4. IsFiniteSet(A3) /\ Cardinality(A3) = 3
  BY <1>1, <1>3
<1>5. IsFiniteSet(A4) /\ Cardinality(A4) = 4
  BY <1>1, <1>4
<1>6. IsFiniteSet(A5) /\ Cardinality(A5) = 5
  BY <1>1, <1>5
<1>7. IsFiniteSet(A6) /\ Cardinality(A6) = 6
  BY <1>1, <1>6
<1>8. IsFiniteSet(A7) /\ Cardinality(A7) = 7
  BY <1>1, <1>7
<1>9. A7 = Questions
  BY DEF Questions
<1>10. IsFiniteSet({"wifi"}) /\ Cardinality({"wifi"}) = 1
  BY FS_Singleton
<1>11. {"wifi", "outdoor"} = {"wifi"} \cup {"outdoor"} /\ "outdoor" \notin {"wifi"}
  OBVIOUS
<1>12. IsFiniteSet({"wifi", "outdoor"}) /\ Cardinality({"wifi", "outdoor"}) = 2
  BY <1>1, <1>10, <1>11
<1> HIDE DEF A7
<1>13. QED
  BY <1>8, <1>9, <1>12

\* Every score is a number of at most 25.
LEMMA ListingFields ==
  ASSUME NEW l \in Listings
  PROVE  /\ l.has \subseteq Fields /\ l.says \subseteq Phrases
         /\ l.offers \subseteq {"wifi", "outdoor"}
         /\ l.allowed \in Answers /\ l.pets \in Answers /\ l.smoking \in Answers
         /\ l.canon \in BOOLEAN
<1>1. l.canon \in BOOLEAN
  BY Zenon DEF Listings
<1>2. l.has \in SUBSET Fields /\ l.says \in SUBSET Phrases
  BY DEF Listings
<1>3. l.offers \in SUBSET {"wifi", "outdoor"}
  BY DEF Listings
<1>4. l.allowed \in Answers /\ l.pets \in Answers /\ l.smoking \in Answers
  BY DEF Listings
<1>5. QED
  BY <1>1, <1>2, <1>3, <1>4

LEMMA AnsweredType ==
  ASSUME NEW l \in Listings
  PROVE  /\ Answered(l) \in 0..10
         /\ Answered(l) = 10 => Questions \subseteq l.has
<1>1. PICK q, o, n : q = l.has \cap Questions /\ o = l.offers
                     /\ n = Points(l.smoking # "unsaid", 1)
  OBVIOUS
<1>2. n \in 0..1
  BY <1>1 DEF Points
<1>3. q \subseteq Questions /\ o \subseteq {"wifi", "outdoor"}
  BY <1>1, ListingFields
<1>4. /\ IsFiniteSet(q) /\ Cardinality(q) <= 7 /\ (Cardinality(q) = 7 => q = Questions)
      /\ IsFiniteSet(o) /\ Cardinality(o) <= 2
  <2>1. IsFiniteSet(q) /\ Cardinality(q) <= 7 /\ (Cardinality(q) = 7 => q = Questions)
    <3>1. q \in SUBSET Questions
      BY <1>3
    <3>2. QED
      BY <3>1, Small, FS_Subset
  <2>2. IsFiniteSet(o) /\ Cardinality(o) <= 2
    <3>1. o \in SUBSET {"wifi", "outdoor"}
      BY <1>3
    <3>2. QED
      BY <3>1, Small, FS_Subset
  <2>3. QED
    BY <2>1, <2>2
<1>5. Cardinality(q) \in Nat /\ Cardinality(o) \in Nat
  BY <1>4, FS_CardinalityType
<1>6. Answered(l) = Cardinality(q) + Cardinality(o) + n
  BY <1>1 DEF Answered
<1>7. Answered(l) \in 0..10 /\ (Answered(l) = 10 => Cardinality(q) = 7)
  BY <1>2, <1>4, <1>5, <1>6
<1>8. QED
  BY <1>1, <1>4, <1>7

LEMMA CountedType ==
  ASSUME NEW l \in Listings
  PROVE  /\ Counted(l) \subseteq Fields /\ IsFiniteSet(Counted(l))
         /\ \A f \in Counted(l) : FieldPoints[f] \in Nat
         /\ SumFunctionOnSet(FieldPoints, Counted(l)) \in Nat
<1>1. Counted(l) \subseteq Fields
  BY ListingFields, FieldFacts DEF Counted
<1>2. IsFiniteSet(Counted(l)) /\ \A f \in Counted(l) : FieldPoints[f] \in Nat
  BY <1>1, FieldFacts, FS_Subset
<1>3. SumFunctionOnSet(FieldPoints, Counted(l)) \in Nat
  BY <1>2, SumMonotonic
<1>4. QED
  BY <1>1, <1>2, <1>3

LEMMA PointsType ==
  ASSUME NEW condition \in BOOLEAN, NEW n \in Nat
  PROVE  Points(condition, n) \in Nat /\ (condition => Points(condition, n) = n)
         /\ (~condition => Points(condition, n) = 0)
BY DEF Points

LEMMA ScoreTypes ==
  ASSUME NEW l \in Listings
  PROVE  /\ Structure(l) \in Int /\ Structure(l) <= 25
         /\ Parseability(l) \in Int /\ Parseability(l) <= 25
         /\ (Parseability(l) = 25 => Answered(l) = 10)
         /\ Description(l) \in Int /\ Description(l) <= 25
         /\ ConflictFree(l) \in 0..25
<1>1. Structure(l) \in Int /\ Structure(l) <= 25
  <2>1. PICK a \in Nat, b \in Nat, c \in Nat :
          /\ a = SumFunctionOnSet(FieldPoints, Counted(l))
          /\ b = Points(l.allowed # "unsaid", 1) /\ c = Points(l.smoking # "unsaid", 2)
    BY CountedType DEF Points
  <2>2. Structure(l) = Min({25, a + b + c}) /\ a + b + c \in Int
    BY <2>1 DEF Structure
  <2>3. QED
    BY <2>2, LeastOf
<1>2. /\ Parseability(l) \in Int /\ Parseability(l) <= 25
      /\ (Parseability(l) = 25 => Answered(l) = 10)
  <2>1. PICK a \in 0..10 : a = Answered(l)
    BY AnsweredType
  <2>2. (5 * a) \div 2 \in Int /\ ((5 * a) \div 2 >= 25 => a = 10)
    BY <2>1
  <2>3. Parseability(l) = Min({25, (5 * a) \div 2})
    BY <2>1 DEF Parseability
  <2>4. QED
    BY <2>1, <2>2, <2>3, LeastOf
<1>3. Description(l) \in Int /\ Description(l) <= 25
  <2> DEFINE a == Points("guests" \notin l.says, 5)
             b == Points("superlative" \in l.says, 5)
             c == Points("greeting" \in l.says, 4)
             d == Points("cancellation" \notin l.says, 5)
             e == Points(l.allowed = "yes" /\ "no pets" \in l.says, 10)
             f == Points(l.allowed = "no" /\ SaysPet(l) /\ "no pets" \notin l.says, 5)
             x == 25 - a - b - c - d - e - f
  <2>1. a \in Nat /\ b \in Nat /\ c \in Nat
    BY DEF Points
  <2>2. d \in Nat /\ e \in Nat /\ f \in Nat
    BY DEF Points
  <2>3. Description(l) = Max({0, x})
    BY DEF Description
  <2> HIDE DEF a, b, c, d, e, f
  <2>4. x \in Int /\ x <= 25
    BY <2>1, <2>2
  <2> HIDE DEF x
  <2>5. QED
    BY <2>3, <2>4, AtLeastZero
<1>4. ConflictFree(l) \in 0..25
  <2> DEFINE a == Points(PetsConflict(l), 25)
             b == Points(SpeciesHidden(l), 12)
             c == Points(SmokingConflict(l), 25)
             d == Points("5 star" \in l.says /\ "lowReviews" \in l.has, 10)
             e == Points("pet fee, pet fee" \in l.says, 5)
             x == 25 - a - b - c - d - e
  <2>1. a \in Nat /\ b \in Nat /\ c \in Nat
    BY DEF Points
  <2>2. d \in Nat /\ e \in Nat
    BY DEF Points
  <2>3. ConflictFree(l) = Max({0, x})
    BY DEF ConflictFree
  <2> HIDE DEF a, b, c, d, e
  <2>4. x \in Int /\ x <= 25
    BY <2>1, <2>2
  <2> HIDE DEF x
  <2>5. QED
    BY <2>3, <2>4, AtLeastZero
<1>5. QED
  BY <1>1, <1>2, <1>3, <1>4

LEMMA DegradedListing ==
  ASSUME NEW l \in Listings
  PROVE  /\ Degraded(l) \in Listings /\ Canonical(l) \in Listings
         /\ Answered(Degraded(l)) = 5 \/ Answered(Degraded(l)) < 10
<1>1. Degraded(l) \in Listings /\ Canonical(l) \in Listings
  BY FieldFacts DEF Degraded, Canonical, Listings, Answers
<1>2. "species" \notin Degraded(l).has
  BY DEF Degraded, Listings
<1>3. Answered(Degraded(l)) # 10
  BY <1>1, <1>2, AnsweredType DEF Questions
<1>4. QED
  BY <1>1, <1>3, AnsweredType

\* A listing that scores 100 has no flag.
LEMMA CleanWhenPerfect ==
  ASSUME NEW l \in Listings, Overall(l) = 100
  PROVE  Flags(l) = {}
<1>1. PICK s \in Listings : s = Scored(l)
  BY DegradedListing DEF Scored
<1>2. /\ Structure(s) = 25 /\ Parseability(s) = 25 /\ Description(s) = 25
      /\ ConflictFree(s) = 25
  BY <1>1, ScoreTypes DEF Overall
<1>3. Answered(s) = 10
  BY <1>2, ScoreTypes
<1>4. ~l.canon /\ s = l
  BY <1>1, <1>3, DegradedListing, ListingFields DEF Scored
<1>5. Questions \subseteq l.has
  BY <1>3, <1>4, AnsweredType
<1>6. QED
  BY <1>2, <1>4, <1>5 DEF Flags, Questions

---------------------------------------------------------------------------
\* What the block leaves as it was, where there is nothing for it to answer.
LEMMA ProposedFields ==
  ASSUME NEW l \in Listings, ~l.canon
  PROVE  /\ Proposed(l) \in Listings
         /\ Proposed(l).has = l.has \ {"occupancy", "quietHours", "minStay", "rooms",
                                       "lowReviews"}
         /\ Proposed(l).allowed = l.allowed /\ Proposed(l).says = l.says
         /\ Proposed(l).offers = l.offers /\ Proposed(l).canon = l.canon
         /\ Proposed(l).pets = OrNo(l.pets) /\ Proposed(l).smoking = OrNo(l.smoking)
         /\ OrNo(l.pets) \in Answers /\ OrNo(l.smoking) \in Answers
<1>1. OrNo(l.pets) \in Answers /\ OrNo(l.smoking) \in Answers
  BY ListingFields DEF OrNo, Answers
<1>2. PICK h \in SUBSET Fields :
        h = l.has \ {"occupancy", "quietHours", "minStay", "rooms", "lowReviews"}
  BY ListingFields
<1>3. Proposed(l) = [l EXCEPT !.pets = OrNo(l.pets), !.smoking = OrNo(l.smoking), !.has = h]
  BY <1>2 DEF Proposed
<1>4. QED
  BY <1>1, <1>2, <1>3 DEF Listings

\* The opening under the block says nothing that the block contradicts.
LEMMA AdoptedFree ==
  ASSUME NEW l \in Listings, Coherent(l)
  PROVE  Adopted(l) \in Listings /\ ConflictFree(Adopted(l)) = 25
<1>1. PICK q \in Listings : q = Proposed(l)
  BY ProposedFields, DegradedListing DEF Proposed
<1>2. Opening(l) \in SUBSET Phrases
  <2>1. CASE l.canon
    BY <2>1 DEF Opening, Phrases, PetPhrases
  <2>2. CASE ~l.canon
    BY <2>2 DEF Opening, Phrases, PetPhrases
  <2>3. QED
    BY <2>1, <2>2
<1>3. PICK p \in Listings : p = Adopted(l) /\ p = [q EXCEPT !.says = Opening(l)]
  BY <1>1, <1>2 DEF Adopted, Listings
<1>4. /\ p.says = Opening(l) /\ p.has = q.has /\ p.allowed = q.allowed
      /\ p.pets = q.pets /\ p.smoking = q.smoking
  BY <1>3 DEF Listings
<1>5. /\ ~PetsConflict(p) /\ ~SpeciesHidden(p) /\ ~SmokingConflict(p)
      /\ "5 star" \notin p.says /\ "pet fee, pet fee" \notin p.says
  <2>1. CASE l.canon
    <3>1. p.says = {"guests", "pet-friendly", "dogs only", "no smoking", "cancellation",
                    "permit"}
      BY <1>4, <2>1 DEF Opening
    <3>2. p.allowed = "yes" /\ p.pets = "yes" /\ p.smoking = "no" /\ "species" \in p.has
      BY <1>1, <1>4, <2>1, FieldFacts DEF Proposed, Canonical, Listings
    <3>3. QED
      BY <3>1, <3>2 DEF PetsConflict, SpeciesHidden, SmokingConflict
  <2>2. CASE ~l.canon
    <3>1. /\ p.says \subseteq {"guests", "no pets", "pets: some", "no smoking",
                               "cancellation", "permit"}
          /\ "no pets" \in p.says <=> l.allowed = "no"
          /\ "pets: some" \in p.says <=> l.allowed # "no" /\ "species" \in l.has
          /\ "no smoking" \in p.says => l.smoking = "no"
      <4>1. p.says \subseteq {"guests", "no pets", "pets: some", "no smoking",
                             "cancellation", "permit"}
        BY <1>4, <2>2 DEF Opening
      <4>2. {"no pets", "pets: some", "no smoking"} \subseteq Phrases
        BY DEF Phrases, PetPhrases
      <4>3. QED
        <5>1. \A x \in Phrases : x \in p.says <=>
                \/ x = "guests" /\ {"rooms", "maxOccupancy"} \subseteq l.has
                \/ x = "no pets" /\ l.allowed = "no"
                \/ x = "pets: some" /\ l.allowed # "no" /\ "species" \in l.has
                \/ x = "no smoking" /\ l.smoking = "no"
                \/ x = "cancellation" /\ "refundDays" \in l.has
                \/ x = "permit" /\ "permit" \in l.has
          BY <1>4, <2>2 DEF Opening
        <5>2. "no pets" \in p.says <=> l.allowed = "no"
          BY <4>2, <5>1
        <5>3. "pets: some" \in p.says <=> l.allowed # "no" /\ "species" \in l.has
          BY <4>2, <5>1
        <5>4. "no smoking" \in p.says => l.smoking = "no"
          BY <4>2, <5>1
        <5>5. QED
          BY <4>1, <5>2, <5>3, <5>4
    <3>2. /\ p.allowed = l.allowed /\ p.pets = OrNo(l.pets) /\ p.smoking = OrNo(l.smoking)
          /\ "species" \in l.has => "species" \in p.has
      BY <1>1, <1>4, <2>2, ProposedFields
    <3>3. ~PetsConflict(p)
      BY <3>1, <3>2 DEF PetsConflict, SaysPet, PetPhrases, Coherent, OrNo
    <3>4. QED
      BY <3>1, <3>2, <3>3 DEF SpeciesHidden, SmokingConflict, OrNo
  <2>3. QED
    BY <2>1, <2>2
<1>6. ConflictFree(p) = Max({0, 25})
  <2>1. /\ Points(PetsConflict(p), 25) = 0 /\ Points(SpeciesHidden(p), 12) = 0
        /\ Points(SmokingConflict(p), 25) = 0
    BY <1>5 DEF Points
  <2>2. /\ Points("5 star" \in p.says /\ "lowReviews" \in p.has, 10) = 0
        /\ Points("pet fee, pet fee" \in p.says, 5) = 0
    BY <1>5 DEF Points
  <2>3. ConflictFree(p) = Max({0, 25 - 0 - 0 - 0 - 0 - 0})
    BY <2>1, <2>2 DEF ConflictFree
  <2>4. 25 - 0 - 0 - 0 - 0 - 0 = 25
    OBVIOUS
  <2>5. QED
    BY <2>3, <2>4
<1>7. QED
  BY <1>3, <1>6, AtLeastZero

\* The host's edits and the proposals stay within what a listing may be.
ListingOK == listing \in Listings

LEMMA ListingInvariance == ListingSpec => []ListingOK
<1>1. ListingInit => ListingOK
  <2>1. Bare \in Listings
    BY DEF Bare, Listings, Answers
  <2>2. Full \in Listings
    BY <2>1 DEF Full, Listings, Answers, Phrases
  <2>3. Clementine \in Listings
    BY <2>1 DEF Clementine, Listings, Phrases, PetPhrases
  <2>4. QED
    BY <2>1, <2>2, <2>3 DEF ListingInit, ListingOK
<1>2. ListingOK /\ [ListingNext]_<<listing, edits>> => ListingOK'
  <2> SUFFICES ASSUME ListingOK, [ListingNext]_<<listing, edits>> PROVE ListingOK'
    OBVIOUS
  <2> USE DEF ListingOK
  <2>1. CASE Edit
    <3>1. ASSUME NEW f \in Fields, listing' = [listing EXCEPT !.has = Toggled(@, f)]
          PROVE  ListingOK'
      BY <3>1 DEF Listings, Toggled
    <3>2. ASSUME NEW p \in Phrases, listing' = [listing EXCEPT !.says = Toggled(@, p)]
          PROVE  ListingOK'
      BY <3>2 DEF Listings, Toggled
    <3>3. ASSUME NEW a \in Answers,
                 listing' \in {[listing EXCEPT !.allowed = a], [listing EXCEPT !.pets = a],
                               [listing EXCEPT !.smoking = a]}
          PROVE  ListingOK'
      BY <3>3 DEF Listings
    <3>4. QED
      BY <2>1, <3>1, <3>2, <3>3 DEF Edit
  <2>2. CASE Adopt
    <3>1. Proposed(listing) \in Listings
      BY ProposedFields, DegradedListing DEF Proposed
    <3>2. Opening(listing) \in SUBSET Phrases
      BY DEF Opening, Phrases, PetPhrases
    <3>3. Adopted(listing) \in Listings
      BY <3>1, <3>2 DEF Adopted, Listings
    <3>4. QED
      BY <2>2, <3>1, <3>3 DEF Adopt
  <2>3. CASE UNCHANGED <<listing, edits>>
    BY <2>3
  <2>4. QED
    BY <2>1, <2>2, <2>3 DEF ListingNext
<1>3. QED
  BY <1>1, <1>2, PTL DEF ListingSpec

\* Of every listing a host can come to publish: a score of 100 leaves no flag
\* (aeo_skill.py:471-519 against the four scores).
THEOREM PerfectListingsAreClean == ListingSpec => []PerfectIsClean
<1>1. ListingOK => PerfectIsClean
  BY CleanWhenPerfect DEF ListingOK, PerfectIsClean
<1>2. QED
  BY <1>1, ListingInvariance, PTL

\* Where petsAllowed agrees with the pet policy, the proposed opening under
\* the proposed block passes the check for conflicts
\* (aeo_skill.py:539, 571-575 against 442-450).
THEOREM AdoptionsAreConsistent == ListingSpec => []AdoptedIsConsistent
<1>1. ListingOK => AdoptedIsConsistent
  BY AdoptedFree DEF ListingOK, AdoptedIsConsistent
<1>2. QED
  BY <1>1, ListingInvariance, PTL

---------------------------------------------------------------------------
\* Pricing.  The median of charges is one itself.
LEMMA AnchorType ==
  ASSUME NEW comps \in Seq(Nat \ {0}), comps # <<>>
  PROVE  Anchor(comps) \in Nat \ {0}
<1>1. PICK n \in Nat \ {0} : n = Len(comps) /\ DOMAIN comps = 1..n
  <2>1. Len(comps) \in Nat /\ DOMAIN comps = 1..Len(comps) /\ Len(comps) # 0
    OBVIOUS
  <2>2. QED
    BY <2>1
<1>2. \A i \in 1..n : comps[i] \in Nat \ {0}
  BY <1>1
<1>3. 1..n \in SUBSET Nat /\ IsFiniteSet(1..n) /\ Cardinality(1..n) = n
  <2>1. PICK a \in Int, b \in Int : a = 1 /\ b = n
    OBVIOUS
  <2>2. IsFiniteSet(a..b) /\ Cardinality(a..b) = IF a > b THEN 0 ELSE b - a + 1
    BY FS_Interval
  <2>3. QED
    BY <2>1, <2>2
<1>4. PICK order : order = SortedPlaces(comps, DOMAIN comps)
  OBVIOUS
<1>5. \A k \in 1..n : order[k] \in 1..n
  BY <1>1, <1>2, <1>3, <1>4, SortedPlace
<1>6. PICK mid \in Nat : mid = n \div 2
  OBVIOUS
<1>7. mid + 1 \in 1..n /\ (n % 2 = 0 => mid \in 1..n)
  BY <1>6
<1>8. Anchor(comps) = IF n % 2 = 0 THEN (comps[order[mid]] + comps[order[mid + 1]]) \div 2
                      ELSE comps[order[mid + 1]]
  BY <1>1, <1>4, <1>6 DEF Anchor
<1>9. PICK b \in Nat \ {0} : b = comps[order[mid + 1]]
  BY <1>2, <1>5, <1>7
<1>10. CASE n % 2 = 0
  <2>1. PICK a \in Nat \ {0} : a = comps[order[mid]]
    BY <1>2, <1>5, <1>7, <1>10
  <2>2. (a + b) \div 2 \in Nat \ {0}
    OBVIOUS
  <2>3. QED
    BY <1>8, <1>9, <1>10, <2>1, <2>2
<1>11. CASE n % 2 # 0
  BY <1>8, <1>9, <1>11
<1>12. QED
  BY <1>10, <1>11

LEMMA MultiplierType ==
  ASSUME NEW m \in Markets
  PROVE  Multiplier(m) \in Nat /\ Anchor(Comps(m)) \in Nat \ {0}
<1>1. /\ m.season \in DOMAIN SeasonFactor /\ m.comps \in Seq(Nat \ {0})
      /\ m.occupancy \in 0..100
  BY MarketsAssumption
<1>2. SeasonFactor[m.season] \in Nat
  BY <1>1 DEF SeasonFactor
<1>3. OccupancyFactor(m.occupancy) \in Nat
  BY DEF OccupancyFactor
<1>4. EventFactor(m.events) \in Nat
  <2>1. PICK U : U = {100} \cup {Uplift[e] : e \in m.events \cap DOMAIN Uplift}
    OBVIOUS
  <2>2. U \subseteq {100, 110, 130, 145} /\ 100 \in U
    BY <2>1 DEF Uplift
  <2>3. \E x \in U : \A y \in U : x >= y
    <3>1. CASE 145 \in U
      BY <2>2, <3>1
    <3>2. CASE 145 \notin U /\ 130 \in U
      BY <2>2, <3>2
    <3>3. CASE 145 \notin U /\ 130 \notin U /\ 110 \in U
      BY <2>2, <3>3
    <3>4. CASE 145 \notin U /\ 130 \notin U /\ 110 \notin U
      BY <2>2, <3>4
    <3>5. QED
      BY <3>1, <3>2, <3>3, <3>4
  <2>4. Max(U) \in U
    BY <2>3 DEF Max
  <2>5. QED
    BY <2>1, <2>2, <2>4 DEF EventFactor
<1>5. Multiplier(m) \in Nat
  <2>1. PICK a \in Nat, b \in Nat, c \in Nat, d \in Nat :
          /\ a = SeasonFactor[m.season] /\ b = OccupancyFactor(m.occupancy)
          /\ c = EventFactor(m.events) /\ d = IF m.weekend THEN 112 ELSE 100
    BY <1>2, <1>3, <1>4
  <2>2. PICK p \in Nat : p = a * b * c * d
    <3>1. a * b \in Nat
      OBVIOUS
    <3>2. (a * b) * c \in Nat
      BY <3>1
    <3>3. QED
      BY <3>2
  <2>3. Multiplier(m) = p \div 10000
    BY <2>1, <2>2 DEF Multiplier
  <2>4. QED
    BY <2>3
<1>6. Anchor(Comps(m)) \in Nat \ {0}
  <2>1. CASE m.comps = <<>>
    <3>1. DefaultComps \in Seq(Nat \ {0}) /\ DefaultComps # <<>>
      BY DEF DefaultComps
    <3>2. QED
      BY <2>1, <3>1, AnchorType DEF Comps
  <2>2. CASE m.comps # <<>>
    BY <1>1, <2>2, AnchorType DEF Comps
  <2>3. QED
    BY <2>1, <2>2
<1>7. QED
  BY <1>5, <1>6

\* One step of repricing, scaled to the units of the factors.
LEMMA RepricedAtMost ==
  ASSUME NEW m \in Markets, NEW r \in Nat
  PROVE  /\ Recommended(m, r) \in Nat
         /\ 100000 * Recommended(m, r)
              <= 6 * (r * Multiplier(m)) + 40000 * Anchor(Comps(m)) + 50000
<1>1. PICK M \in Nat, A \in Nat \ {0} : M = Multiplier(m) /\ A = Anchor(Comps(m))
  BY MultiplierType
<1>2. PICK p \in Nat : p = r * M
  OBVIOUS
<1>3. PICK s \in Nat : s = p \div 10000
  OBVIOUS
<1>4. 10000 * s <= p
  BY <1>3
<1>5. Recommended(m, r) = (6 * s + 4 * A + 5) \div 10
  BY <1>1, <1>2, <1>3 DEF Recommended, Signal, Blend
<1>6. PICK t \in Nat : t = (6 * s + 4 * A + 5) \div 10
  OBVIOUS
<1>7. 10 * t <= 6 * s + 4 * A + 5
  BY <1>6
<1>8. 100000 * t <= 6 * p + 40000 * A + 50000
  BY <1>4, <1>7
<1>9. QED
  BY <1>1, <1>2, <1>5, <1>6, <1>8

PricingInv ==
  /\ market \in Markets /\ first \in Nat /\ rate \in Nat
  /\ RatesSettle

\* In a calm market no number of repricings carries the rate above both the
\* rate it started from and the balance of signal and comps, for all markets
\* and all rates (dynamic_pricing_skill.py:168-176).
THEOREM RatesKeepSettling == PricingSpec => []RatesSettle
<1>1. PricingInit => PricingInv
  BY MarketsAssumption DEF PricingInit, PricingInv, RatesSettle
<1>2. PricingInv /\ [PricingNext]_<<market, first, rate>> => PricingInv'
  <2> SUFFICES ASSUME PricingInv, [PricingNext]_<<market, first, rate>>
               PROVE  PricingInv'
    OBVIOUS
  <2>1. CASE PricingNext
    <3>1. /\ market' = market /\ first' = first /\ rate' = Recommended(market, rate)
          /\ market \in Markets /\ first \in Nat /\ rate \in Nat /\ RatesSettle
      BY <2>1 DEF PricingNext, Reprice, PricingInv
    <3>2. PICK M \in Nat, A \in Nat : M = Multiplier(market) /\ A = Anchor(Comps(market))
      BY <3>1, MultiplierType
    <3>3. PICK r \in Nat, p \in Nat : /\ r = rate' /\ p = rate * M
                                      /\ 100000 * r <= 6 * p + 40000 * A + 50000
      BY <3>1, <3>2, RepricedAtMost
    <3>4. Calm(market)' = Calm(market) /\ Multiplier(market)' = M
          /\ Anchor(Comps(market))' = A
      BY <3>1, <3>2
    <3>5. ASSUME Calm(market)
          PROVE  r <= first \/ (r \div 100) * (100000 - 6 * M) <= 400 * A + 100000
      <4>1. PICK c \in Nat : c = 100000 - 6 * M
        BY <3>2, <3>5 DEF Calm
      <4>2. PICK h \in Nat, k \in Nat : h = rate \div 100 /\ k = r \div 100
        BY <3>1
      <4>3. CASE r <= rate
        <5>1. k <= h
          BY <3>1, <4>2, <4>3
        <5>2. k * c <= h * c /\ k * c \in Nat /\ h * c \in Nat
          BY <5>1, MulMonotone
        <5>3. rate <= first \/ h * c <= 400 * A + 100000
          BY <3>1, <3>2, <3>5, <4>1, <4>2 DEF RatesSettle
        <5>4. QED
          BY <3>1, <4>1, <4>2, <4>3, <5>2, <5>3
      <4>4. CASE r > rate
        <5>1. PICK q \in Nat : q = r * M
          OBVIOUS
        <5>2. PICK z \in Nat : z = r * c
          OBVIOUS
        <5>3. p <= q
          BY <3>1, <3>3, <4>4, <5>1, MulMonotone
        <5>4. z <= 40000 * A + 50000
          <6>1. z = 100000 * r - 6 * q
            BY <4>1, <5>1, <5>2
          <6>2. 100000 * r <= 6 * p + 40000 * A + 50000
            BY <3>3
          <6>3. QED
            BY <5>3, <6>1, <6>2
        <5>5. 100 * k <= r /\ 100 * k \in Nat
          BY <4>2
        <5>6. (100 * k) * c <= z
          BY <5>2, <5>5, MulMonotone
        <5>7. PICK y \in Nat : y = k * c
          OBVIOUS
        <5>8. (100 * k) * c = 100 * y
          BY <5>7
        <5>9. y <= 400 * A + 100000
          BY <5>4, <5>6, <5>8
        <5>10. QED
          BY <4>1, <4>2, <5>7, <5>9
      <4>5. QED
        BY <3>1, <4>3, <4>4
    <3>6. RatesSettle'
      BY <3>1, <3>3, <3>4, <3>5 DEF RatesSettle
    <3>7. QED
      BY <3>1, <3>3, <3>6 DEF PricingInv
  <2>2. CASE UNCHANGED <<market, first, rate>>
    BY <2>2 DEF PricingInv, RatesSettle
  <2>3. QED
    BY <2>1, <2>2
<1>3. PricingInv => RatesSettle
  BY DEF PricingInv
<1>4. QED
  BY <1>1, <1>2, <1>3, PTL DEF PricingSpec

---------------------------------------------------------------------------
\* Scoring.  No amount of a history is far from the mean of all.
LEMMA SpreadFacts ==
  ASSUME NEW h \in Seq(Nat)
  PROVE  /\ Len(h) \in Nat /\ Total(h) \in Int /\ Squares(h) \in Int /\ Spread(h) \in Int
         /\ \A i \in DOMAIN h :
              Distance(h[i], h) * Distance(h[i], h) <= (Len(h) - 1) * Spread(h)
<1>1. PICK n \in Nat : n = Len(h) /\ DOMAIN h = 1..n
  <2>1. Len(h) \in Nat /\ DOMAIN h = 1..Len(h)
    OBVIOUS
  <2>2. QED
    BY <2>1
<1>2. PICK T, g : T = 1..n /\ g = [i \in T |-> h[i] * h[i]]
  OBVIOUS
<1>3. IsFiniteSet(T) /\ Cardinality(T) = n
  <2>1. PICK a \in Int, b \in Int : a = 1 /\ b = n
    OBVIOUS
  <2>2. IsFiniteSet(a..b) /\ Cardinality(a..b) = IF a > b THEN 0 ELSE b - a + 1
    BY FS_Interval
  <2>3. QED
    BY <1>2, <2>1, <2>2
<1>4. \A x \in T : h[x] \in Int /\ g[x] = h[x] * h[x]
  BY <1>1, <1>2
<1>5. \A x \in T : g[x] \in Int
  <2>1. ASSUME NEW x \in T PROVE g[x] \in Int
    <3>1. PICK y \in Int : y = h[x] /\ g[x] = y * y
      BY <1>4
    <3>2. QED
      BY <3>1
  <2>2. QED
    BY <2>1
<1>6. /\ Total(h) = SumFunctionOnSet(h, T) /\ Squares(h) = SumFunctionOnSet(g, T)
  BY <1>1, <1>2 DEF Total, Squares, SumFunction
<1>7. PICK R \in Int, P \in Int : R = Total(h) /\ P = Squares(h)
  BY <1>3, <1>4, <1>6, SquareOfSum
<1>8. PICK S \in Int : S = Spread(h) /\ S = n * P - R * R
  BY <1>1, <1>7 DEF Spread
<1>9. ASSUME NEW i \in DOMAIN h
      PROVE  Distance(h[i], h) * Distance(h[i], h) <= (Len(h) - 1) * Spread(h)
  <2>1. PICK x \in Int : x = h[i] /\ g[i] = x * x /\ i \in T
    BY <1>1, <1>2, <1>4
  <2>2. PICK V : V = T \ {i}
    OBVIOUS
  <2>3. IsFiniteSet(V) /\ Cardinality(V) = n - 1 /\ V \subseteq T
    BY <1>3, <2>1, <2>2, FS_RemoveElement, FS_Subset
  <2>4. PICK m \in Nat, Q \in Int, W \in Int :
          /\ m = n - 1 /\ Q = SumFunctionOnSet(h, V) /\ W = SumFunctionOnSet(g, V)
          /\ Q * Q <= m * W
    <3>1. \A y \in V : h[y] \in Int /\ g[y] = h[y] * h[y]
      BY <1>4, <2>3
    <3>2. /\ SumFunctionOnSet(h, V) \in Int /\ SumFunctionOnSet(g, V) \in Int
          /\ Cardinality(V) \in Nat
          /\ SumFunctionOnSet(h, V) * SumFunctionOnSet(h, V)
               <= Cardinality(V) * SumFunctionOnSet(g, V)
      BY <2>3, <3>1, SquareOfSum
    <3>3. QED
      BY <2>3, <3>2
  <2>5. SumFunctionOnSet(h, T) = h[i] + SumFunctionOnSet(h, T \ {i})
    BY <1>3, <1>4, <2>1, SumRemove
  <2>6. SumFunctionOnSet(g, T) = g[i] + SumFunctionOnSet(g, T \ {i})
    BY <1>3, <1>5, <2>1, SumRemove
  <2>7. R = x + Q /\ P = x * x + W
    BY <1>6, <1>7, <2>1, <2>2, <2>4, <2>5, <2>6
  <2>8. PICK d \in Int : d = n * x - R
    OBVIOUS
  <2>9. Distance(h[i], h) * Distance(h[i], h) = d * d
    <3>1. Distance(h[i], h) = IF d < 0 THEN -d ELSE d
      BY <1>1, <1>7, <2>1, <2>8 DEF Distance
    <3>2. (-d) * (-d) = d * d
      OBVIOUS
    <3>3. QED
      BY <3>1, <3>2
  <2>10. n = m + 1
    BY <2>4
  <2>11. d = m * x - Q
    BY <2>7, <2>8, <2>10
  <2>12. m * S - d * d = (m + 1) * (m * W - Q * Q)
    BY <1>8, <2>7, <2>10, <2>11
  <2>13. (m + 1) * (m * W - Q * Q) >= 0
    <3>1. PICK z \in Nat : z = m * W - Q * Q
      BY <2>4
    <3>2. (m + 1) * z >= 0
      OBVIOUS
    <3>3. QED
      BY <3>1, <3>2
  <2>14. d * d <= m * S
    BY <2>12, <2>13
  <2>15. QED
    BY <1>1, <1>8, <2>4, <2>9, <2>14
<1>10. QED
  BY <1>1, <1>7, <1>8, <1>9

\* Between two amounts, no distance is larger than at both.
LEMMA DistanceBetween ==
  ASSUME NEW h \in Seq(Nat), NEW x \in Nat, NEW y \in Nat, NEW a \in Nat, a \in x..y
  PROVE  /\ Distance(a, h) \in Nat
         /\ Distance(a, h) <= Distance(x, h) \/ Distance(a, h) <= Distance(y, h)
         /\ Distance(x, h) \in Nat /\ Distance(y, h) \in Nat
<1>1. PICK n \in Nat, R \in Int : n = Len(h) /\ R = Total(h)
  BY SpreadFacts
<1>2. PICK p \in Nat, q \in Nat, r \in Nat : p = x * n /\ q = a * n /\ r = y * n
  OBVIOUS
<1>3. p <= q /\ q <= r
  BY <1>2, MulMonotone
<1>4. n * x = p /\ n * a = q /\ n * y = r
  BY <1>2
<1>5. /\ Distance(x, h) = IF p - R < 0 THEN -(p - R) ELSE p - R
      /\ Distance(a, h) = IF q - R < 0 THEN -(q - R) ELSE q - R
      /\ Distance(y, h) = IF r - R < 0 THEN -(r - R) ELSE r - R
  BY <1>1, <1>4 DEF Distance
<1>6. QED
  BY <1>3, <1>5

\* No amount between two of at most five recorded ones is flagged.
LEMMA BetweenIsUsual ==
  ASSUME NEW h \in Seq(Nat), Len(h) <= 5, NEW a \in Nat,
         NEW i \in DOMAIN h, NEW j \in DOMAIN h, a \in h[i]..h[j]
  PROVE  ~IsAnomaly(a, h)
<1> SUFFICES ASSUME Spread(h) > 0
             PROVE  Distance(a, h) * Distance(a, h) <= 4 * Spread(h)
  <2>1. PICK S \in Int, d \in Nat : S = Spread(h) /\ d = Distance(a, h)
    <3>1. h[i] \in Nat /\ h[j] \in Nat
      OBVIOUS
    <3>2. QED
      BY <3>1, SpreadFacts, DistanceBetween
  <2>2. d * d \in Nat
    OBVIOUS
  <2>3. IsAnomaly(a, h) => S > 0 /\ d * d > 2 * 2 * S
    BY <2>1 DEF IsAnomaly, Outlies, ZThreshold
  <2>4. QED
    BY <2>1, <2>2, <2>3
<1>1. PICK x \in Nat, y \in Nat : x = h[i] /\ y = h[j]
  OBVIOUS
<1>2. PICK d \in Nat, p \in Nat, q \in Nat :
        /\ d = Distance(a, h) /\ p = Distance(x, h) /\ q = Distance(y, h)
        /\ d <= p \/ d <= q
  BY <1>1, DistanceBetween
<1>3. PICK S \in Nat : S = Spread(h)
  BY SpreadFacts
<1>4. PICK m \in Nat : m = Len(h) - 1 /\ m <= 4
  <2>1. PICK n \in Nat : n = Len(h) /\ DOMAIN h = 1..n
    OBVIOUS
  <2>2. n >= 1 /\ n <= 5
    BY <2>1
  <2>3. n - 1 \in Nat /\ n - 1 <= 4
    BY <2>2
  <2>4. QED
    BY <2>1, <2>3
<1>5. p * p <= m * S /\ q * q <= m * S
  BY <1>1, <1>2, <1>3, <1>4, SpreadFacts
<1>6. m * S <= 4 * S
  BY <1>4, MulMonotone
<1>7. d * d <= p * p \/ d * d <= q * q
  BY <1>2, SquaresGrow
<1>8. PICK u \in Nat, v \in Nat, w \in Nat, k \in Nat :
        u = d * d /\ v = p * p /\ w = q * q /\ k = m * S
  OBVIOUS
<1>9. u <= 4 * S
  BY <1>5, <1>6, <1>7, <1>8
<1>10. QED
  BY <1>2, <1>3, <1>8, <1>9

\* A material amount outside the expected range is flagged.
LEMMA OutsideIsUnusual ==
  ASSUME NEW h \in Seq(Nat), Len(h) >= 2, Spread(h) > 0, NEW a \in Nat,
         Material(a, h), ~InExpectedRange(a, h)
  PROVE  IsAnomaly(a, h)
<1>1. PICK n \in Nat, S \in Nat, d \in Nat : n = Len(h) /\ S = Spread(h) /\ d = Distance(a, h)
  <2>1. a \in a..a
    OBVIOUS
  <2>2. Distance(a, h) \in Nat
    BY <2>1, DistanceBetween
  <2>3. QED
    BY <2>2, SpreadFacts
<1>2. (n - 1) * d * d > 4 * n * S
  BY <1>1 DEF InExpectedRange
<1>3. PICK m \in Nat : n = m + 1
  <2>1. n - 1 \in Nat /\ n = (n - 1) + 1
    BY <1>1
  <2>2. QED
    BY <2>1
<1>4. d * d > 4 * S
  <2>1. SUFFICES ASSUME d * d <= 4 * S PROVE FALSE
    <3>1. d * d \in Nat
      OBVIOUS
    <3>2. QED
      BY <3>1
  <2>2. PICK x \in Nat, y \in Nat : x = d * d /\ y = 4 * S /\ x <= y
    BY <2>1
  <2>3. x * m <= y * m
    BY <2>2, MulMonotone
  <2>4. (n - 1) * d * d = x * m /\ 4 * n * S = y * m + y
    BY <1>3, <2>2
  <2>5. PICK z \in Nat, w \in Nat : z = x * m /\ w = y * m
    OBVIOUS
  <2>6. QED
    BY <1>2, <2>2, <2>3, <2>4, <2>5
<1>5. QED
  BY <1>1, <1>4 DEF IsAnomaly, Outlies, ZThreshold

---------------------------------------------------------------------------
\* Sorting by date.
Dates(s) == [i \in DOMAIN s |-> s[i].date]
Places(s, v) == {i \in DOMAIN s : s[i].vendor = v}
InDateOrder(s) == \A i, j \in DOMAIN s : i <= j => s[i].date <= s[j].date

LEMMA SeqFacts ==
  ASSUME NEW s \in Seq(Invoices)
  PROVE  /\ Len(s) \in Nat /\ DOMAIN s = 1..Len(s)
         /\ DOMAIN s \in SUBSET Nat /\ IsFiniteSet(DOMAIN s) /\ Cardinality(DOMAIN s) = Len(s)
         /\ \A i \in DOMAIN s : /\ s[i] \in Invoices /\ s[i].date \in Int
                                /\ Dates(s)[i] = s[i].date
<1>1. PICK n \in Nat : n = Len(s) /\ DOMAIN s = 1..n
  <2>1. Len(s) \in Nat /\ DOMAIN s = 1..Len(s)
    OBVIOUS
  <2>2. QED
    BY <2>1
<1>2. IsFiniteSet(1..n) /\ Cardinality(1..n) = n
  <2>1. PICK a \in Int, b \in Int : a = 1 /\ b = n
    OBVIOUS
  <2>2. IsFiniteSet(a..b) /\ Cardinality(a..b) = IF a > b THEN 0 ELSE b - a + 1
    BY FS_Interval
  <2>3. QED
    BY <2>1, <2>2
<1>3. \A i \in DOMAIN s : s[i] \in Invoices
  OBVIOUS
<1>4. \A x \in Invoices : x.date \in Int
  BY DEF Invoices
<1>5. \A i \in DOMAIN s : Dates(s)[i] = s[i].date
  BY DEF Dates
<1>6. DOMAIN s \in SUBSET Nat
  BY <1>1
<1>7. QED
  BY <1>1, <1>2, <1>3, <1>4, <1>5, <1>6

\* Sorting keeps the entries.
LEMMA ByDateType ==
  ASSUME NEW s \in Seq(Invoices)
  PROVE  ByDate(s) \in Seq(Invoices) /\ Len(ByDate(s)) = Len(s)
<1>1. PICK n \in Nat : n = Len(s) /\ DOMAIN s = 1..n
  BY SeqFacts
<1>2. PICK order : order = SortedPlaces(Dates(s), DOMAIN s)
  OBVIOUS
<1>3. order \in [1..n -> 1..n]
  BY <1>1, <1>2, SeqFacts, SortedPlace
<1>4. ByDate(s) = [k \in 1..n |-> s[order[k]]]
  BY <1>1, <1>2 DEF ByDate, Dates
<1>5. ByDate(s) \in [1..n -> Invoices]
  <2>1. \A k \in 1..n : s[order[k]] \in Invoices
    BY <1>1, <1>3, SeqFacts
  <2>2. QED
    BY <1>4, <2>1
<1>6. QED
  BY <1>1, <1>5

\* Sorting what is in order changes nothing.
LEMMA ByDateSorted ==
  ASSUME NEW s \in Seq(Invoices), InDateOrder(s)
  PROVE  ByDate(s) = s
<1>1. PICK n \in Nat : n = Len(s) /\ DOMAIN s = 1..n
  BY SeqFacts
<1>2. PICK key : key = Dates(s)
  OBVIOUS
<1>3. ASSUME NEW k \in 1..n PROVE SortedPlaces(key, DOMAIN s)[k] = k
  <2>1. Before(key, DOMAIN s, k) = 1..k-1
    <3>1. ASSUME NEW j \in 1..n PROVE j \in Before(key, DOMAIN s, k) <=> j < k
      <4>1. /\ key[j] \in Int /\ key[k] \in Int /\ j \in Nat /\ k \in Nat
            /\ j <= k => key[j] <= key[k]
            /\ k <= j => key[k] <= key[j]
        BY <1>1, <1>2, SeqFacts DEF InDateOrder
      <4>2. QED
        BY <1>1, <4>1 DEF Before
    <3>2. Before(key, DOMAIN s, k) \subseteq 1..n
      BY <1>1 DEF Before
    <3>3. 1..k-1 \subseteq 1..n /\ \A j \in 1..n : j < k <=> j \in 1..k-1
      OBVIOUS
    <3>4. QED
      BY <3>1, <3>2, <3>3
  <2>2. Cardinality(1..k-1) = k - 1
    <3>1. PICK a \in Int, b \in Int : a = 1 /\ b = k - 1
      OBVIOUS
    <3>2. IsFiniteSet(a..b) /\ Cardinality(a..b) = IF a > b THEN 0 ELSE b - a + 1
      BY FS_Interval
    <3>3. QED
      BY <3>1, <3>2
  <2>3. /\ DOMAIN s \in SUBSET Nat /\ IsFiniteSet(DOMAIN s) /\ Cardinality(DOMAIN s) = n
        /\ \A i \in DOMAIN s : key[i] \in Int
    BY <1>1, <1>2, SeqFacts
  <2>4. k \in 1..Cardinality(DOMAIN s) /\ k \in DOMAIN s
    BY <1>1, <2>3
  <2>5. QED
    BY <2>1, <2>2, <2>3, <2>4, SortedPlace
<1>4. ByDate(s) = [k \in 1..n |-> s[SortedPlaces(key, DOMAIN s)[k]]]
  BY <1>1, <1>2 DEF ByDate, Dates
<1>5. ByDate(s) = [k \in 1..n |-> s[k]]
  BY <1>3, <1>4
<1>6. QED
  BY <1>1, <1>5

VendorOf(s, v) ==
  LET order == SortedPlaces(Dates(s), Places(s, v))
  IN  [k \in DOMAIN order |-> s[order[k]]]

LEMMA AppendFacts ==
  ASSUME NEW s \in Seq(Invoices), NEW e \in Invoices
  PROVE  /\ Append(s, e) \in Seq(Invoices) /\ Len(Append(s, e)) = Len(s) + 1
         /\ DOMAIN Append(s, e) = DOMAIN s \cup {Len(s) + 1}
         /\ Append(s, e)[Len(s) + 1] = e
         /\ \A i \in DOMAIN s : /\ Append(s, e)[i] = s[i] /\ i \in Nat
                                /\ i < Len(s) + 1
OBVIOUS

\* A vendor's invoices are invoices that arrived, sorted.
LEMMA VendorOfType ==
  ASSUME NEW s \in Seq(Invoices), NEW v
  PROVE  /\ VendorOf(s, v) \in Seq(Invoices) /\ InDateOrder(VendorOf(s, v))
         /\ \A k \in DOMAIN VendorOf(s, v) : \E i \in DOMAIN s : VendorOf(s, v)[k] = s[i]
<1>1. PICK I, key, order : /\ I = Places(s, v) /\ key = Dates(s)
                           /\ order = SortedPlaces(key, I)
  OBVIOUS
<1>2. /\ I \in SUBSET Nat /\ IsFiniteSet(I) /\ I \subseteq DOMAIN s
      /\ \A i \in I : key[i] = s[i].date /\ key[i] \in Int
  <2>1. I \subseteq DOMAIN s
    BY <1>1 DEF Places
  <2>2. QED
    BY <1>1, <2>1, SeqFacts, FS_Subset
<1>3. PICK c \in Nat :
        /\ c = Cardinality(I) /\ order \in [1..c -> I]
        /\ \A k \in 1..c : Cardinality(Before(key, I, order[k])) = k - 1
  <2>1. \A i \in I : key[i] \in Int
    BY <1>2
  <2>2. /\ Cardinality(I) \in Nat /\ SortedPlaces(key, I) \in [1..Cardinality(I) -> I]
        /\ \A k \in 1..Cardinality(I) :
             Cardinality(Before(key, I, SortedPlaces(key, I)[k])) = k - 1
    BY <1>2, <2>1, SortedPlace
  <2>3. QED
    BY <1>1, <2>2
<1>4. VendorOf(s, v) = [k \in 1..c |-> s[order[k]]]
  BY <1>1, <1>3 DEF VendorOf
<1>5. \A k \in 1..c : order[k] \in I /\ order[k] \in DOMAIN s /\ s[order[k]] \in Invoices
  BY <1>2, <1>3, SeqFacts
<1>6. VendorOf(s, v) \in Seq(Invoices) /\ DOMAIN VendorOf(s, v) = 1..c
  BY <1>4, <1>5
<1>7. ASSUME NEW k \in 1..c, NEW l \in 1..c, k <= l
      PROVE  s[order[k]].date <= s[order[l]].date
  <2>1. PICK i \in I, j \in I : i = order[k] /\ j = order[l]
    BY <1>5
  <2>2. ~(j \in Before(key, I, i))
    <3>1. SUFFICES ASSUME j \in Before(key, I, i) PROVE FALSE
      OBVIOUS
    <3>2. Cardinality(Before(key, I, j)) < Cardinality(Before(key, I, i))
      BY <1>2, <3>1, BeforeFacts
    <3>3. l - 1 < k - 1
      BY <1>3, <2>1, <3>2
    <3>4. QED
      BY <1>7, <3>3
  <2>3. key[i] \in Int /\ key[j] \in Int /\ ~(key[j] < key[i])
    BY <1>2, <2>2 DEF Before
  <2>4. QED
    BY <1>2, <2>1, <2>3
<1>8. InDateOrder(VendorOf(s, v))
  <2>1. \A k \in 1..c : VendorOf(s, v)[k] = s[order[k]]
    BY <1>4
  <2>2. ASSUME NEW k \in 1..c, NEW l \in 1..c, k <= l
        PROVE  VendorOf(s, v)[k].date <= VendorOf(s, v)[l].date
    BY <1>7, <2>1, <2>2
  <2>3. QED
    BY <1>6, <2>2 DEF InDateOrder
<1>9. QED
  BY <1>4, <1>5, <1>6, <1>8

\* An invoice that arrives with the latest date comes last among its vendor's.
LEMMA VendorOfAppend ==
  ASSUME NEW s \in Seq(Invoices), NEW e \in Invoices, NEW v,
         \A i \in DOMAIN s : s[i].date <= e.date
  PROVE  VendorOf(Append(s, e), v) =
           IF e.vendor = v THEN Append(VendorOf(s, v), e) ELSE VendorOf(s, v)
<1> PICK n \in Nat : n = Len(s) + 1
  <2>1. Len(s) \in Nat
    BY SeqFacts
  <2>2. Len(s) + 1 \in Nat
    BY <2>1
  <2>3. QED
    BY <2>2
<1>1. PICK t : t = Append(s, e)
  OBVIOUS
<1>2. /\ t \in Seq(Invoices) /\ DOMAIN t = DOMAIN s \cup {n} /\ t[n] = e
      /\ \A i \in DOMAIN s : t[i] = s[i] /\ i \in Nat /\ i < n
  BY <1>1, AppendFacts
<1>3. PICK I, key, other : I = Places(s, v) /\ key = Dates(s) /\ other = Dates(t)
  OBVIOUS
<1>4. I \subseteq DOMAIN s /\ I \in SUBSET Nat /\ IsFiniteSet(I) /\ n \notin DOMAIN s
  <2>1. I \subseteq DOMAIN s
    BY <1>3 DEF Places
  <2>2. n \notin DOMAIN s
    BY <1>1, SeqFacts
  <2>3. QED
    BY <2>1, <2>2, SeqFacts, FS_Subset
<1>5. /\ \A i \in I : /\ key[i] \in Int /\ other[i] = key[i] /\ i < n
                      /\ key[i] <= other[n]
      /\ other[n] \in Int
  <2>1. other[n] = e.date /\ other[n] \in Int
    BY <1>2, <1>3, SeqFacts
  <2>2. ASSUME NEW i \in I
        PROVE  key[i] \in Int /\ other[i] = key[i] /\ i < n /\ key[i] <= other[n]
    <3>1. i \in DOMAIN s /\ i \in DOMAIN t
      BY <1>2, <1>4
    <3>2. key[i] = s[i].date /\ key[i] \in Int /\ other[i] = t[i].date
      BY <1>2, <1>3, <3>1, SeqFacts
    <3>3. QED
      BY <1>2, <2>1, <3>1, <3>2
  <2>3. QED
    BY <2>1, <2>2
<1>6. PICK order : order = SortedPlaces(key, I)
  OBVIOUS
<1>7. PICK c \in Nat : c = Cardinality(I) /\ order \in [1..c -> I]
  BY <1>4, <1>5, <1>6, SortedPlace
<1>8. VendorOf(s, v) = [k \in 1..c |-> s[order[k]]]
  BY <1>3, <1>6, <1>7 DEF VendorOf
<1>9. CASE e.vendor = v
  <2>1. Places(t, v) = I \cup {n}
    BY <1>2, <1>3, <1>4, <1>9 DEF Places
  <2>2. PICK longer : longer = SortedPlaces(other, I \cup {n})
    OBVIOUS
  <2>3. DOMAIN longer = 1..c + 1 /\ longer[c + 1] = n /\ \A k \in 1..c : longer[k] = order[k]
    <3>1. /\ DOMAIN SortedPlaces(other, I \cup {n}) = 1..Cardinality(I) + 1
          /\ \A k \in 1..Cardinality(I) :
               SortedPlaces(other, I \cup {n})[k] = SortedPlaces(key, I)[k]
          /\ SortedPlaces(other, I \cup {n})[Cardinality(I) + 1] = n
      <4>1. /\ I \in SUBSET Nat /\ IsFiniteSet(I) /\ n \in Nat /\ other[n] \in Int
            /\ \A i \in I : key[i] \in Int /\ other[i] = key[i] /\ i < n /\ key[i] <= other[n]
        BY <1>1, <1>4, <1>5
      <4>2. ComesLast(I, n, key, other)
        BY SortLast
      <4>3. QED
        BY <4>1, <4>2 DEF ComesLast
    <3>2. QED
      BY <1>6, <1>7, <2>2, <3>1
  <2>4. VendorOf(t, v) = [k \in 1..c + 1 |-> t[longer[k]]]
    BY <1>3, <2>1, <2>2, <2>3 DEF VendorOf
  <2>5. /\ t[longer[c + 1]] = e
        /\ \A k \in 1..c : t[longer[k]] = s[order[k]]
    BY <1>2, <1>4, <1>7, <2>3
  <2>6. VendorOf(s, v) \in Seq(Invoices) /\ Len(VendorOf(s, v)) = c
    <3>1. VendorOf(s, v) \in Seq(Invoices)
      BY VendorOfType
    <3>2. QED
      BY <1>8, <3>1
  <2>7. Append(VendorOf(s, v), e) =
          [k \in 1..c + 1 |-> IF k = c + 1 THEN e ELSE VendorOf(s, v)[k]]
    <3>1. PICK h : h = VendorOf(s, v)
      OBVIOUS
    <3>2. h \in Seq(Invoices) /\ Len(h) = c
      BY <2>6, <3>1
    <3>3. /\ Append(h, e) \in Seq(Invoices) /\ Len(Append(h, e)) = c + 1
          /\ Append(h, e)[c + 1] = e /\ DOMAIN h = 1..c
          /\ \A k \in DOMAIN h : Append(h, e)[k] = h[k]
          /\ DOMAIN Append(h, e) = 1..Len(Append(h, e))
      BY <3>2, AppendFacts, SeqFacts
    <3>5. Append(h, e) = [k \in 1..c + 1 |-> Append(h, e)[k]]
      <4>1. PICK g : g = Append(h, e)
        OBVIOUS
      <4>2. g \in Seq(Invoices) /\ Len(g) = c + 1
        BY <3>3, <4>1
      <4>3. g = [k \in 1..c + 1 |-> g[k]]
        BY <4>2
      <4>4. QED
        BY <4>1, <4>3
    <3>6. \A k \in 1..c + 1 : Append(h, e)[k] = IF k = c + 1 THEN e ELSE h[k]
      BY <3>3
    <3>4. QED
      BY <3>1, <3>5, <3>6
  <2>8. \A k \in 1..c + 1 : t[longer[k]] = IF k = c + 1 THEN e ELSE VendorOf(s, v)[k]
    <3>1. ASSUME NEW k \in 1..c + 1, k # c + 1 PROVE t[longer[k]] = VendorOf(s, v)[k]
      <4>1. k \in 1..c
        BY <3>1
      <4>2. QED
        BY <1>8, <2>5, <4>1
    <3>2. QED
      BY <2>5, <3>1
  <2>9. QED
    BY <1>1, <1>9, <2>4, <2>7, <2>8
<1>10. CASE e.vendor # v
  <2>1. Places(t, v) = I
    BY <1>2, <1>3, <1>4, <1>10 DEF Places
  <2>2. SortedPlaces(other, I) = order
    BY <1>4, <1>5, <1>6, OrderSame
  <2>3. VendorOf(t, v) = [k \in 1..c |-> t[order[k]]]
    BY <1>3, <1>7, <2>1, <2>2 DEF VendorOf
  <2>4. \A k \in 1..c : t[order[k]] = s[order[k]]
    BY <1>2, <1>4, <1>7
  <2>5. QED
    BY <1>1, <1>8, <1>10, <2>3, <2>4
<1>11. QED
  BY <1>9, <1>10

\* The batch scan takes the entries of a vendor one by one.
LEMMA FlaggedAppend ==
  ASSUME NEW s \in Seq(Invoices), NEW e \in Invoices
  PROVE  Flagged(Append(s, e)) =
           Flagged(s) \cup (IF IsAnomaly(e.amount, AmountsOf(s)) THEN {Len(s) + 1} ELSE {})
<1>1. PICK t : t = Append(s, e)
  OBVIOUS
<1> PICK n \in Nat : n = Len(s) /\ DOMAIN s = 1..n
  <2>1. Len(s) \in Nat /\ DOMAIN s = 1..Len(s)
    BY SeqFacts
  <2>2. QED
    BY <2>1
<1>2. /\ DOMAIN t = DOMAIN s \cup {n + 1} /\ t[n + 1] = e /\ n + 1 \notin DOMAIN s
      /\ \A i \in DOMAIN s : t[i] = s[i] /\ i \in Nat
  BY <1>1, AppendFacts
<1>3. ASSUME NEW i \in 1..n PROVE Prior(t, i) = Prior(s, i) /\ t[i] = s[i]
  <2>1. \A j \in 1..i-1 : j \in 1..n
    OBVIOUS
  <2>2. QED
    BY <1>1, <1>2, <2>1 DEF Prior
<1>4. Prior(t, n + 1) = AmountsOf(s)
  <2>1. n + 1 - 1 = n
    OBVIOUS
  <2>2. QED
    BY <1>1, <1>2, <2>1 DEF Prior, AmountsOf
<1>5. \A i \in DOMAIN s : i \in Flagged(t) <=> i \in Flagged(s)
  BY <1>1, <1>2, <1>3 DEF Flagged
<1>6. n + 1 \in Flagged(t) <=> IsAnomaly(e.amount, AmountsOf(s))
  BY <1>2, <1>4 DEF Flagged
<1>7. Flagged(t) \subseteq DOMAIN t /\ Flagged(s) \subseteq DOMAIN s
  BY DEF Flagged
<1>8. QED
  BY <1>1, <1>2, <1>5, <1>6, <1>7

---------------------------------------------------------------------------
\* The vendor graph.
GraphTypeOK ==
  /\ arrived \in Seq(Invoices)
  /\ payments \in [Vendors -> Seq(Invoices)]

LEMMA ReceiveTypes ==
  ASSUME GraphTypeOK, NEW v \in Vendors, NEW a \in Amounts, NEW d \in 1..MaxDate,
         NEW clears \in BOOLEAN, Receive(v, a, d, clears)
  PROVE  \E e \in Invoices :
           /\ e = [vendor |-> v, amount |-> a, date |-> d, number |-> Len(arrived) + 1]
           /\ arrived' = Append(arrived, e)
           /\ flagged' = IF IsAnomaly(a, vendor_history(v))
                         THEN flagged \cup {e.number} ELSE flagged
           /\ \/ /\ payments' = [payments EXCEPT ![v] = Recorded(payments[v], e)]
                 /\ paid' = paid \cup {e.number}
              \/ UNCHANGED <<payments, paid>>
           /\ GraphTypeOK'
<1>1. Len(arrived) \in Nat
  BY DEF GraphTypeOK
<1>2. PICK e : e = [vendor |-> v, amount |-> a, date |-> d, number |-> Len(arrived) + 1]
  OBVIOUS
<1>3. e \in Invoices
  <2>1. Len(arrived) + 1 \in Nat
    BY <1>1
  <2>2. QED
    BY <1>2, <2>1, AmountsAssumption DEF Invoices
<1>4. /\ arrived' = Append(arrived, e)
      /\ flagged' = IF IsAnomaly(a, vendor_history(v))
                    THEN flagged \cup {e.number} ELSE flagged
      /\ \/ /\ payments' = [payments EXCEPT ![v] = Recorded(payments[v], e)]
            /\ paid' = paid \cup {e.number}
         \/ UNCHANGED <<payments, paid>>
  BY <1>2 DEF Receive
<1>5. arrived' \in Seq(Invoices)
  BY <1>3, <1>4, AppendFacts DEF GraphTypeOK
<1>6. payments' \in [Vendors -> Seq(Invoices)]
  <2>1. PICK s \in Seq(Invoices) : s = payments[v]
    BY DEF GraphTypeOK
  <2>2. Append(s, e) \in Seq(Invoices)
    BY <1>3, AppendFacts
  <2>3. Recorded(s, e) \in Seq(Invoices)
    BY <2>2, ByDateType DEF Recorded
  <2>4. QED
    BY <1>4, <2>1, <2>3 DEF GraphTypeOK
<1>7. QED
  BY <1>2, <1>3, <1>4, <1>5, <1>6 DEF GraphTypeOK

LEMMA AmountsType ==
  ASSUME NEW s \in Seq(Invoices) PROVE AmountsOf(s) \in Seq(Nat) /\ Len(AmountsOf(s)) = Len(s)
<1>1. PICK n \in Nat : n = Len(s) /\ DOMAIN s = 1..n
  BY SeqFacts
<1>2. \A x \in Invoices : x.amount \in Nat
  BY AmountsAssumption DEF Invoices
<1>3. \A i \in 1..n : s[i].amount \in Nat
  BY <1>1, <1>2, SeqFacts
<1>4. AmountsOf(s) = [i \in 1..n |-> s[i].amount]
  BY <1>1 DEF AmountsOf
<1>5. AmountsOf(s) \in [1..n -> Nat]
  BY <1>3, <1>4
<1>6. QED
  BY <1>1, <1>5

LEMMA GraphTypesKept == GraphSpec => []GraphTypeOK
<1>1. GraphInit => GraphTypeOK
  BY DEF GraphInit, GraphTypeOK
<1>2. GraphTypeOK /\ [GraphNext]_graphVars => GraphTypeOK'
  <2> SUFFICES ASSUME GraphTypeOK, [GraphNext]_graphVars PROVE GraphTypeOK'
    OBVIOUS
  <2>1. ASSUME NEW v \in Vendors, NEW a \in Amounts, NEW d \in 1..MaxDate,
               NEW clears \in BOOLEAN, Receive(v, a, d, clears)
        PROVE  GraphTypeOK'
    BY <2>1, ReceiveTypes
  <2>2. CASE UNCHANGED graphVars
    BY <2>2 DEF graphVars, GraphTypeOK
  <2>3. QED
    BY <2>1, <2>2 DEF GraphNext
<1>3. QED
  BY <1>1, <1>2, PTL DEF GraphSpec

LEMMA HistoryType ==
  ASSUME GraphTypeOK, NEW v \in Vendors PROVE vendor_history(v) \in Seq(Nat)
<1>1. payments[v] \in Seq(Invoices)
  BY DEF GraphTypeOK
<1>2. QED
  BY <1>1, AmountsType DEF vendor_history

\* Whatever invoices arrive, a material amount outside the range a human is
\* shown is flagged (knowledge_graph.py:160-167, anomaly_detector.py:57-62).
THEOREM OutsideStaysFlagged == GraphSpec => []OutsideIsFlagged
<1>1. GraphTypeOK => OutsideIsFlagged
  <2> SUFFICES ASSUME GraphTypeOK, NEW v \in Vendors, NEW a \in Amounts,
                      NEW h, h = vendor_history(v), Len(h) >= 2, Spread(h) > 0,
                      Material(a, h), ~InExpectedRange(a, h)
               PROVE  IsAnomaly(a, h)
    BY DEF OutsideIsFlagged
  <2>1. h \in Seq(Nat) /\ a \in Nat
    BY HistoryType, AmountsAssumption
  <2>2. QED
    BY <2>1, OutsideIsUnusual
<1>2. QED
  BY <1>1, GraphTypesKept, PTL

\* With at most five payments on record an amount between two recorded ones is
\* not flagged, whatever they are (anomaly_detector.py:57-62).
THEOREM RepeatsStayUsual == GraphSpec => []RepeatsAreUsual
<1>1. GraphTypeOK => RepeatsAreUsual
  <2> SUFFICES ASSUME GraphTypeOK, NEW v \in Vendors, NEW a \in Amounts,
                      NEW h, h = vendor_history(v),
                      NEW i \in DOMAIN h, NEW j \in DOMAIN h,
                      Len(h) <= 5, a \in h[i]..h[j]
               PROVE  ~IsAnomaly(a, h)
    BY DEF RepeatsAreUsual
  <2>1. h \in Seq(Nat) /\ a \in Nat
    BY HistoryType, AmountsAssumption
  <2>2. QED
    BY <2>1, BetweenIsUsual
<1>2. QED
  BY <1>1, GraphTypesKept, PTL

---------------------------------------------------------------------------
\* The arrival numbers the scan of s flags for v.
FlaggedOf(s, v) == {VendorOf(s, v)[i].number : i \in Flagged(VendorOf(s, v))}

AllFlagged(s) == UNION {FlaggedOf(s, v) : v \in Vendors}

LEMMA ScanByVendor == scan = AllFlagged(arrived)
<1>1. ASSUME NEW v PROVE by_vendor(v) = VendorOf(arrived, v)
  BY DEF by_vendor, VendorOf, Dates, Places
<1>2. QED
  BY <1>1 DEF scan, FlaggedOf, AllFlagged

\* Every invoice of v that arrived was paid.
AllPaid(s, p, v) == \A j \in DOMAIN s : s[j].vendor = v => j \in p

\* Every invoice of the vendor before the i-th was paid.
PaidBefore(s, p, i) ==
  \A j \in DOMAIN s : j < i /\ s[j].vendor = s[i].vendor => j \in p

Numbered(s) == \A i \in DOMAIN s : s[i].number = i

\* The scan names only invoices that arrived.
LEMMA FlaggedArrived ==
  ASSUME NEW s \in Seq(Invoices), Numbered(s)
  PROVE  AllFlagged(s) \subseteq DOMAIN s
<1>1. ASSUME NEW v, NEW i \in Flagged(VendorOf(s, v))
      PROVE  VendorOf(s, v)[i].number \in DOMAIN s
  <2>1. PICK h : h = VendorOf(s, v)
    OBVIOUS
  <2>2. \A k \in DOMAIN h : \E j \in DOMAIN s : h[k] = s[j]
    BY <2>1, VendorOfType
  <2>3. i \in DOMAIN h
    BY <1>1, <2>1 DEF Flagged
  <2>4. PICK j \in DOMAIN s : h[i] = s[j]
    BY <2>2, <2>3
  <2>5. QED
    BY <2>1, <2>4 DEF Numbered
<1>2. QED
  BY <1>1 DEF AllFlagged, FlaggedOf

\* An invoice that comes last in the order of dates adds itself to what the
\* scan flags, when it is unusual among all the earlier ones of its vendor.
LEMMA ScanGrows ==
  ASSUME NEW s \in Seq(Invoices), NEW e \in Invoices, e.vendor \in Vendors,
         InDateOrder(s), \A i \in DOMAIN s : s[i].date <= e.date
  PROVE  AllFlagged(Append(s, e)) =
           AllFlagged(s) \cup
             (IF IsAnomaly(e.amount, AmountsOf(VendorOf(s, e.vendor)))
              THEN {e.number} ELSE {})
<1>1. PICK t : t = Append(s, e)
  OBVIOUS
<1>2. \A w : VendorOf(t, w) =
               IF w = e.vendor THEN Append(VendorOf(s, w), e) ELSE VendorOf(s, w)
  BY <1>1, VendorOfAppend
<1>3. PICK v \in Vendors : v = e.vendor
  OBVIOUS
<1>4. PICK p \in Seq(Invoices) : p = VendorOf(s, v)
  BY VendorOfType
<1>5. PICK new : new = IF IsAnomaly(e.amount, AmountsOf(p)) THEN {e.number} ELSE {}
  OBVIOUS
<1>6. \A w \in Vendors : w # v => FlaggedOf(t, w) = FlaggedOf(s, w)
  BY <1>2, <1>3 DEF FlaggedOf
<1>7. FlaggedOf(t, v) = FlaggedOf(s, v) \cup new
  <2>1. PICK q : q = Append(p, e) /\ q = VendorOf(t, v)
    BY <1>2, <1>3, <1>4
  <2>2. PICK m \in Nat : m = Len(p) + 1 /\ m \notin DOMAIN p
    <3>1. Len(p) \in Nat /\ DOMAIN p = 1..Len(p)
      BY SeqFacts
    <3>2. Len(p) + 1 \in Nat /\ Len(p) + 1 \notin DOMAIN p
      BY <3>1
    <3>3. QED
      BY <3>2
  <2>3. Flagged(q) = Flagged(p) \cup (IF IsAnomaly(e.amount, AmountsOf(p)) THEN {m} ELSE {})
    BY <2>1, <2>2, FlaggedAppend
  <2>4. q[m] = e /\ \A i \in Flagged(p) : q[i] = p[i]
    <3>1. q[m] = e /\ \A i \in DOMAIN p : q[i] = p[i]
      <4>1. /\ Append(p, e)[Len(p) + 1] = e
            /\ \A i \in DOMAIN p : Append(p, e)[i] = p[i]
        BY AppendFacts
      <4>2. QED
        BY <2>1, <2>2, <4>1
    <3>2. Flagged(p) \subseteq DOMAIN p
      BY DEF Flagged
    <3>3. QED
      BY <3>1, <3>2
  <2>5. FlaggedOf(t, v) = {q[i].number : i \in Flagged(q)}
    BY <2>1 DEF FlaggedOf
  <2>6. FlaggedOf(s, v) = {p[i].number : i \in Flagged(p)}
    BY <1>4 DEF FlaggedOf
  <2>7. CASE IsAnomaly(e.amount, AmountsOf(p))
    BY <1>5, <2>3, <2>4, <2>5, <2>6, <2>7
  <2>8. CASE ~IsAnomaly(e.amount, AmountsOf(p))
    BY <1>5, <2>3, <2>4, <2>5, <2>6, <2>8
  <2>9. QED
    BY <2>7, <2>8
<1>8. ASSUME NEW x PROVE x \in AllFlagged(t) <=> x \in AllFlagged(s) \/ x \in new
  <2>1. /\ x \in AllFlagged(t) <=> \E w \in Vendors : x \in FlaggedOf(t, w)
        /\ x \in AllFlagged(s) <=> \E w \in Vendors : x \in FlaggedOf(s, w)
    BY DEF AllFlagged
  <2>2. QED
    BY <1>6, <1>7, <2>1
<1>9. AllFlagged(t) = AllFlagged(s) \cup new
  BY <1>8
<1>10. QED
  BY <1>1, <1>3, <1>4, <1>5, <1>9

\* While invoices come by date, the graph holds all of a vendor's invoices as
\* long as all were paid, and until then it judges as the scan does.
Alike(s, pay, fl, p) ==
  InDateOrder(s) =>
    /\ \A v \in Vendors : AllPaid(s, p, v) => pay[v] = VendorOf(s, v)
    /\ \A i \in DOMAIN s :
         PaidBefore(s, p, i) => (i \in AllFlagged(s) <=> i \in fl)

\* The inductive invariant.
ScanInv ==
  /\ GraphTypeOK
  /\ Numbered(arrived)
  /\ paid \subseteq DOMAIN arrived
  /\ flagged \subseteq DOMAIN arrived
  /\ Alike(arrived, payments, flagged, paid)

LEMMA ScanInvAgrees == ScanInv => ScanAgrees
<1> SUFFICES ASSUME ScanInv, CameByDate, NEW i \in DOMAIN arrived, EarlierPaid(i)
             PROVE  i \in scan <=> i \in flagged
  BY DEF ScanAgrees
<1>1. InDateOrder(arrived) /\ PaidBefore(arrived, paid, i)
  BY DEF CameByDate, InDateOrder, EarlierPaid, PaidBefore
<1>2. QED
  BY <1>1, ScanByVendor DEF ScanInv, Alike

\* While invoices come by date, arrival and batch scan judge an invoice alike
\* up to and including the vendor's first one that is not paid
\* (payment_402_handler.py:97-103, 157-162, knowledge_graph.py:86-87,
\* anomaly_detector.py:97-107).
THEOREM ScansKeepAgreeing == GraphSpec => []ScanAgrees
<1>1. GraphInit => ScanInv
  <2> SUFFICES ASSUME GraphInit PROVE ScanInv
    OBVIOUS
  <2>1. GraphTypeOK /\ arrived = <<>> /\ flagged = {} /\ paid = {}
        /\ payments = [v \in Vendors |-> <<>>]
    BY DEF GraphInit, GraphTypeOK
  <2>2. PICK s \in Seq(Invoices) : s = arrived /\ DOMAIN s = {}
    <3>1. arrived \in Seq(Invoices)
      BY <2>1 DEF GraphTypeOK
    <3>2. DOMAIN arrived = {}
      BY <2>1
    <3>3. QED
      BY <3>1, <3>2
  <2>3. ASSUME NEW v PROVE VendorOf(s, v) = <<>>
    <3>1. PICK h : h = VendorOf(s, v)
      OBVIOUS
    <3>3. h \in Seq(Invoices) /\ \A k \in DOMAIN h : \E i \in DOMAIN s : h[k] = s[i]
      BY <3>1, VendorOfType
    <3>4. DOMAIN h = {}
      BY <2>2, <3>3
    <3>5. QED
      BY <3>1, <3>3, <3>4
  <2>4. Alike(s, payments, flagged, paid)
    BY <2>1, <2>2, <2>3 DEF Alike
  <2>6. QED
    BY <2>1, <2>2, <2>4 DEF ScanInv, Numbered
<1>2. ScanInv /\ [GraphNext]_graphVars => ScanInv'
  <2> SUFFICES ASSUME ScanInv, [GraphNext]_graphVars PROVE ScanInv'
    OBVIOUS
  <2>1. ASSUME NEW v \in Vendors, NEW a \in Amounts, NEW d \in 1..MaxDate,
               NEW clears \in BOOLEAN, Receive(v, a, d, clears)
        PROVE  ScanInv'
    <3>1. PICK e \in Invoices :
            /\ e = [vendor |-> v, amount |-> a, date |-> d, number |-> Len(arrived) + 1]
            /\ arrived' = Append(arrived, e)
            /\ flagged' = IF IsAnomaly(a, vendor_history(v))
                          THEN flagged \cup {e.number} ELSE flagged
            /\ \/ /\ payments' = [payments EXCEPT ![v] = Recorded(payments[v], e)]
                  /\ paid' = paid \cup {e.number}
               \/ UNCHANGED <<payments, paid>>
            /\ GraphTypeOK'
      BY <2>1, ReceiveTypes DEF ScanInv
    <3>2. PICK s \in Seq(Invoices), t \in Seq(Invoices) :
            s = arrived /\ t = arrived' /\ t = Append(s, e)
      BY <3>1 DEF ScanInv, GraphTypeOK
    <3>3. PICK n \in Nat : /\ n = Len(s) + 1 /\ DOMAIN t = DOMAIN s \cup {n} /\ t[n] = e
                           /\ DOMAIN s = 1..n-1
                           /\ \A k \in DOMAIN s : t[k] = s[k]
      <4>1. PICK n : n = Len(s) + 1
        OBVIOUS
      <4>2. /\ n \in Nat /\ DOMAIN t = DOMAIN s \cup {n} /\ t[n] = e
            /\ DOMAIN s = 1..n-1
            /\ \A k \in DOMAIN s : t[k] = s[k]
        BY <3>2, <4>1, AppendFacts, SeqFacts
      <4>3. QED
        BY <4>1, <4>2
    <3>4. e.number = n /\ e.vendor = v /\ e.amount = a
      BY <3>1, <3>2, <3>3
    <3>5. n \notin DOMAIN s /\ \A k \in DOMAIN s : k < n
      BY <3>3
    <3>6. /\ Numbered(s) /\ paid \subseteq DOMAIN s /\ flagged \subseteq DOMAIN s
          /\ Alike(s, payments, flagged, paid)
      BY <3>2 DEF ScanInv
    <3>7. Numbered(t)
      BY <3>3, <3>4, <3>6 DEF Numbered
    <3>8. paid' \subseteq DOMAIN t /\ flagged' \subseteq DOMAIN t
      BY <3>1, <3>3, <3>4, <3>6
    <3>9. ASSUME InDateOrder(t)
          PROVE  /\ \A w \in Vendors : AllPaid(t, paid', w) => payments'[w] = VendorOf(t, w)
                 /\ \A i \in DOMAIN t :
                      PaidBefore(t, paid', i) => (i \in AllFlagged(t) <=> i \in flagged')
      <4>1. InDateOrder(s) /\ \A i \in DOMAIN s : s[i].date <= e.date
        BY <3>3, <3>5, <3>9 DEF InDateOrder
      <4>2. /\ \A w \in Vendors : AllPaid(s, paid, w) => payments[w] = VendorOf(s, w)
            /\ \A i \in DOMAIN s :
                 PaidBefore(s, paid, i) => (i \in AllFlagged(s) <=> i \in flagged)
        BY <3>6, <4>1 DEF Alike
      <4>3. \A w : VendorOf(t, w) =
                     IF w = v THEN Append(VendorOf(s, w), e) ELSE VendorOf(s, w)
        BY <3>2, <3>4, <4>1, VendorOfAppend
      <4>4. AllFlagged(t) = AllFlagged(s) \cup
              (IF IsAnomaly(a, AmountsOf(VendorOf(s, v))) THEN {n} ELSE {})
        BY <3>2, <3>4, <4>1, ScanGrows
      <4>5. AllFlagged(s) \subseteq DOMAIN s
        BY <3>6, FlaggedArrived
      <4>6. \A w : AllPaid(t, paid', w) => AllPaid(s, paid, w)
        BY <3>1, <3>3, <3>4, <3>5 DEF AllPaid
      <4>7. \A i \in DOMAIN s : PaidBefore(t, paid', i) => PaidBefore(s, paid, i)
        BY <3>1, <3>3, <3>4, <3>5 DEF PaidBefore
      <4>8. PaidBefore(t, paid', n) => AllPaid(s, paid, v)
        BY <3>1, <3>3, <3>4, <3>5 DEF PaidBefore, AllPaid
      <4>9. ASSUME NEW w \in Vendors, AllPaid(t, paid', w)
            PROVE  payments'[w] = VendorOf(t, w)
        <5>1. payments[w] = VendorOf(s, w)
          BY <4>2, <4>6, <4>9
        <5>2. CASE w = v
          <6>1. n \in paid'
            BY <3>3, <3>4, <4>9, <5>2 DEF AllPaid
          <6>2. payments' = [payments EXCEPT ![v] = Recorded(payments[v], e)]
            BY <3>1, <3>5, <3>6, <6>1
          <6>3. PICK p \in Seq(Invoices) : p = payments[v] /\ p = VendorOf(s, v)
            BY <5>1, <5>2 DEF ScanInv, GraphTypeOK
          <6>4. Append(p, e) \in Seq(Invoices) /\ InDateOrder(Append(p, e))
            BY <3>2, <3>9, <4>3, <6>3, VendorOfType
          <6>5. Recorded(p, e) = Append(p, e)
            BY <6>4, ByDateSorted DEF Recorded
          <6>6. payments'[v] = Append(p, e)
            BY <6>2, <6>3, <6>5 DEF ScanInv, GraphTypeOK
          <6>7. QED
            BY <4>3, <5>2, <6>3, <6>6
        <5>3. CASE w # v
          <6>1. payments'[w] = payments[w]
            BY <3>1, <5>3 DEF ScanInv, GraphTypeOK
          <6>2. QED
            BY <4>3, <5>1, <5>3, <6>1
        <5>4. QED
          BY <5>2, <5>3
      <4>10. ASSUME NEW i \in DOMAIN t, PaidBefore(t, paid', i)
             PROVE  i \in AllFlagged(t) <=> i \in flagged'
        <5>1. CASE i \in DOMAIN s
          <6>1. i \in AllFlagged(s) <=> i \in flagged
            BY <4>2, <4>7, <4>10, <5>1
          <6>2. i # n
            BY <3>5, <5>1
          <6>3. QED
            BY <3>1, <3>4, <4>4, <6>1, <6>2
        <5>2. CASE i = n
          <6>1. payments[v] = VendorOf(s, v)
            BY <4>2, <4>8, <4>10, <5>2
          <6>2. n \notin AllFlagged(s) /\ n \notin flagged
            BY <3>5, <3>6, <4>5
          <6>3. vendor_history(v) = AmountsOf(VendorOf(s, v))
            BY <6>1 DEF vendor_history
          <6>4. QED
            BY <3>1, <3>4, <4>4, <5>2, <6>2, <6>3
        <5>3. QED
          BY <3>3, <5>1, <5>2
      <4>11. QED
        BY <4>9, <4>10
    <3>10. Alike(t, payments', flagged', paid')
      BY <3>9 DEF Alike
    <3>11. QED
      BY <3>1, <3>2, <3>7, <3>8, <3>10 DEF ScanInv
  <2>2. CASE UNCHANGED graphVars
    BY <2>2 DEF graphVars, ScanInv, GraphTypeOK
  <2>3. QED
    BY <2>1, <2>2 DEF GraphNext
<1>3. QED
  BY <1>1, <1>2, ScanInvAgrees, PTL DEF GraphSpec

---------------------------------------------------------------------------
\* A tenant's analysis.
LEMMA FilledType ==
  ASSUME NEW file \in Seq(Runs), NEW r \in Runs, run[r].length \in Nat
  PROVE  Filled(file, r) \in Seq(Runs)
<1> DEFINE n == IF run[r].length > Len(file) THEN run[r].length ELSE Len(file)
<1>1. n \in Nat /\ Len(file) \in Nat
  OBVIOUS
<1>2. \A i \in 1..n : (IF i <= run[r].length THEN r ELSE file[i]) \in Runs
  BY <1>1
<1>3. Filled(file, r) \in [1..n -> Runs]
  BY <1>2 DEF Filled
<1>4. QED
  BY <1>1, <1>3

\* A file that is empty holds what one run fills into it, and nothing else.
LEMMA FilledWhole ==
  ASSUME NEW r \in Runs, run[r].length \in Nat
  PROVE  Filled(<<>>, r) = Text(r)
BY DEF Filled, Text

LEMMA RunTypes ==
  ASSUME NEW r \in Runs, RunOK(r)
  PROVE  /\ run[r].at \in ReportSteps /\ run[r].length \in 0..MaxText
         /\ run[r].length \in Nat
         /\ run[r].narrative \in {"none", "real", "mock"}
         /\ Active(r) => run[r].tenant.sensitivity \in Sensitivities
<1>1. run[r] \in RunRecords /\ (Active(r) => Valid(run[r].tenant))
  BY DEF RunOK
<1>2. /\ run[r].at \in ReportSteps /\ run[r].length \in 0..MaxText
      /\ run[r].narrative \in {"none", "real", "mock"}
  BY <1>1 DEF RunRecords
<1>3. run[r].length \in Nat
  BY <1>2, ReportBoundsAssumption
<1>4. QED
  BY <1>1, <1>2, <1>3 DEF Valid

LEMMA NewRun ==
  ASSUME NEW t \in [sensitivity : Sensitivities \cup {""},
                    llm_routing : Routings \cup {""}],
         NEW d \in Nat, NEW n \in 0..MaxText
  PROVE  [at |-> "ask", tenant |-> t, data |-> d, narrative |-> "none",
          length |-> n] \in RunRecords
BY DEF RunRecords, ReportSteps

LEMMA Moved ==
  ASSUME NEW x \in RunRecords, NEW a \in ReportSteps
  PROVE  /\ [x EXCEPT !.at = a] \in RunRecords
         /\ [x EXCEPT !.at = a].at = a
         /\ [x EXCEPT !.at = a].tenant = x.tenant
         /\ [x EXCEPT !.at = a].length = x.length
BY DEF RunRecords

\* A step of one run changes no other; what it writes has its type.
LEMMA OneRunMoves ==
  ASSUME ReportTypeOK, NEW r \in Runs, NEW new,
         run' = [run EXCEPT ![r] = new],
         report' = report \/ report' \in Seq(Runs),
         json' = json \/ json' \in Seq(Runs),
         RunOK(r)'
  PROVE  /\ DOMAIN run' = Runs /\ run' = [q \in Runs |-> run'[q]]
         /\ \A q \in Runs : RunOK(q)'
<1>1. DOMAIN run' = Runs /\ run' = [q \in Runs |-> run'[q]]
  BY DEF ReportTypeOK
<1>2. ASSUME NEW q \in Runs, q # r PROVE RunOK(q)'
  <2>1. run'[q] = run[q]
    BY <1>2 DEF ReportTypeOK
  <2>2. RunOK(q)
    BY DEF ReportTypeOK
  <2>3. QED
    BY <2>1, <2>2 DEF RunOK, Active
<1>3. QED
  BY <1>1, <1>2

\* A run past load_tenant has a valid tenant and a text to write, and a file
\* holds blocks of the runs (tenancy.py:106-132, report.py:146-151,
\* export.py:206-214).
THEOREM ReportTypeCorrect == ReportSpec => []ReportTypeOK
<1>1. ReportInit => ReportTypeOK
  <2> SUFFICES ASSUME ReportInit PROVE ReportTypeOK
    OBVIOUS
  <2>1. Waiting \in RunRecords
    BY ReportBoundsAssumption DEF Waiting, Nobody, RunRecords, ReportSteps
  <2>2. ASSUME NEW r \in Runs PROVE RunOK(r)
    BY <2>1 DEF ReportInit, RunOK, Active, Waiting
  <2>3. QED
    BY <2>2 DEF ReportInit, ReportTypeOK
<1>2. ReportTypeOK /\ [ReportNext]_reportVars => ReportTypeOK'
  <2> SUFFICES ASSUME ReportTypeOK, [ReportNext]_reportVars
               PROVE  ReportTypeOK'
    OBVIOUS
  <2>1. CASE EditConfig \/ Deliver \/ UNCHANGED reportVars
    <3>1. /\ run' = run /\ report' = report /\ json' = json
          /\ sent' = sent /\ mishap' = mishap
          /\ config' \in Configs /\ data' \in Nat /\ edited' \in Nat
      BY <2>1 DEF EditConfig, Deliver, reportVars, ReportTypeOK
    <3>2. ASSUME NEW r \in Runs PROVE RunOK(r)'
      BY <3>1 DEF RunOK, ReportTypeOK, Active
    <3>3. QED
      BY <3>1, <3>2 DEF ReportTypeOK
  <2>2. ASSUME NEW r \in Runs, Load(r) PROVE ReportTypeOK'
    <3> DEFINE c == Resolved(config)
    <3>1. PICK n \in 1..MaxText : run' = [run EXCEPT ![r] =
             IF Valid(c)
             THEN [at |-> "ask", tenant |-> c, data |-> data,
                   narrative |-> "none", length |-> n]
             ELSE [Waiting EXCEPT !.at = "done"]]
      BY <2>2 DEF Load
    <3>2. /\ mishap' \subseteq {"failed", "overlap"}
          /\ UNCHANGED <<config, data, report, json, sent, edited>>
      BY <2>2 DEF Load, ReportTypeOK
    <3>3. n \in 0..MaxText /\ n >= 1 /\ 0 \in 0..MaxText
      BY ReportBoundsAssumption
    <3>4. RunOK(r)'
      <4>1. CASE Valid(c)
        <5>1. run'[r] = [at |-> "ask", tenant |-> c, data |-> data,
                         narrative |-> "none", length |-> n]
          BY <3>1, <4>1 DEF ReportTypeOK
        <5>2. c \in [sensitivity : Sensitivities \cup {""},
                     llm_routing : Routings \cup {""}]
          BY <4>1 DEF Valid, Resolved
        <5>a. data \in Nat
          BY DEF ReportTypeOK
        <5>b. [at |-> "ask", tenant |-> c, data |-> data, narrative |-> "none",
               length |-> n] \in RunRecords
          <6> HIDE DEF c
          <6> QED
            BY <3>3, <5>2, <5>a, NewRun
        <5>3. run'[r] \in RunRecords
          BY <5>1, <5>b
        <5>4. QED
          BY <3>3, <4>1, <5>1, <5>3 DEF RunOK, Active, Valid
      <4>2. CASE ~Valid(c)
        <5>1. run'[r] = [Waiting EXCEPT !.at = "done"]
          BY <3>1, <4>2 DEF ReportTypeOK
        <5>2. [Waiting EXCEPT !.at = "done"] \in RunRecords
          BY <3>3 DEF Waiting, Nobody, RunRecords, ReportSteps
        <5>3. [Waiting EXCEPT !.at = "done"].at = "done"
          BY DEF Waiting
        <5>4. QED
          BY <5>1, <5>2, <5>3 DEF RunOK, Active
      <4>3. QED
        BY <4>1, <4>2
    <3>5. /\ DOMAIN run' = Runs /\ run' = [q \in Runs |-> run'[q]]
          /\ \A q \in Runs : RunOK(q)'
      BY <3>1, <3>2, <3>4, OneRunMoves
    <3>6. QED
      BY <3>2, <3>5 DEF ReportTypeOK
  <2>3. ASSUME NEW r \in Runs, Ask(r) PROVE ReportTypeOK'
    <3> DEFINE t == run[r].tenant
    <3>1. PICK answer \in {"real", "mock"}, reached \in BOOLEAN :
            /\ sent' = IF reached
                       THEN sent \cup {[sensitivity |-> t.sensitivity,
                                        provider |-> Provider(t)]}
                       ELSE sent
            /\ run' = [run EXCEPT ![r].at = "open report",
                         ![r].narrative = Kept(Provider(t), answer)]
      BY <2>3 DEF Ask
    <3>2. Kept(Provider(t), answer) \in {"none", "real", "mock"}
      BY DEF Kept
    <3>3. Active(r) /\ RunOK(r) /\ UNCHANGED <<config, data, report, json, mishap, edited>>
      BY <2>3 DEF Ask, Active, ReportTypeOK
    <3>4. t.sensitivity \in Sensitivities /\ Provider(t) \in {"local", "frontier"}
      BY <3>3, RunTypes DEF Provider
    <3>5. sent' \subseteq [sensitivity : Sensitivities, provider : {"local", "frontier"}]
      <4> DEFINE prompt == [sensitivity |-> t.sensitivity, provider |-> Provider(t)]
      <4>1. prompt \in [sensitivity : Sensitivities, provider : {"local", "frontier"}]
        BY <3>4
      <4> HIDE DEF prompt
      <4>2. sent' = sent \cup {prompt} \/ sent' = sent
        BY <3>1 DEF prompt
      <4>3. QED
        BY <4>1, <4>2 DEF ReportTypeOK
    <3>6. run' = [run EXCEPT ![r] = [run[r] EXCEPT !.at = "open report",
                                       !.narrative = Kept(Provider(t), answer)]]
      BY <3>1 DEF ReportTypeOK
    <3> DEFINE new == [run[r] EXCEPT !.at = "open report",
                                     !.narrative = Kept(Provider(t), answer)]
    <3>a. run'[r] = new
      BY <3>6 DEF ReportTypeOK
    <3>b. new \in RunRecords /\ new.at = "open report"
          /\ new.tenant = run[r].tenant /\ new.length = run[r].length
      <4>1. run[r] \in RunRecords /\ "open report" \in ReportSteps
        BY <3>3 DEF RunOK, ReportSteps
      <4> DEFINE x == run[r]
                 k == Kept(Provider(t), answer)
      <4>2. x \in RunRecords /\ k \in {"none", "real", "mock"}
        BY <3>2, <4>1
      <4> HIDE DEF x, k
      <4>3. /\ [x EXCEPT !.at = "open report", !.narrative = k] \in RunRecords
            /\ [x EXCEPT !.at = "open report", !.narrative = k].at = "open report"
            /\ [x EXCEPT !.at = "open report", !.narrative = k].tenant = x.tenant
            /\ [x EXCEPT !.at = "open report", !.narrative = k].length = x.length
        <5>1. [x EXCEPT !.at = "open report", !.narrative = k] \in RunRecords
          BY <4>1, <4>2 DEF RunRecords
        <5>2. QED
          BY <4>2, <5>1 DEF RunRecords
      <4>4. QED
        BY <4>3 DEF x, k
    <3>7. RunOK(r)'
      <4> HIDE DEF new
      <4> QED
        BY <3>3, <3>a, <3>b DEF RunOK, Active
    <3>8. /\ DOMAIN run' = Runs /\ run' = [q \in Runs |-> run'[q]]
          /\ \A q \in Runs : RunOK(q)'
      BY <3>3, <3>6, <3>7, OneRunMoves
    <3>9. QED
      BY <3>3, <3>5, <3>8 DEF ReportTypeOK
  <2>4. ASSUME NEW r \in Runs,
               \/ OpenReport(r) \/ FillReport(r) \/ ReportFails(r)
               \/ OpenJson(r) \/ FillJson(r) \/ JsonFails(r) \/ Killed(r)
        PROVE  ReportTypeOK'
    <3>1. RunOK(r) /\ run[r].length \in Nat /\ <<>> \in Seq(Runs)
      BY RunTypes DEF ReportTypeOK
    <3>2. /\ report' = report \/ report' \in Seq(Runs)
          /\ json' = json \/ json' \in Seq(Runs)
      BY <2>4, <3>1, FilledType
         DEF OpenReport, FillReport, ReportFails, OpenJson, FillJson, JsonFails, Killed, RunOK
    <3> DEFINE Onto(at) ==
          /\ run' = [run EXCEPT ![r] = [run[r] EXCEPT !.at = at]]
          /\ at = "fill report" => report' = <<>>
          /\ at = "fill json" => json' = <<>>
    <3>a. OpenReport(r) => Onto("fill report")
      BY DEF OpenReport
    <3>b. FillReport(r) \/ ReportFails(r) => Onto("open json")
      BY DEF FillReport, ReportFails
    <3>c. OpenJson(r) => Onto("fill json")
      BY DEF OpenJson
    <3>d. FillJson(r) \/ JsonFails(r) \/ Killed(r) => Onto("done")
      BY DEF FillJson, JsonFails, Killed
    <3>3. PICK at \in ReportSteps : Onto(at)
      <4> HIDE DEF Onto
      <4> QED
        BY <2>4, <3>a, <3>b, <3>c, <3>d DEF ReportSteps
    <3>e. /\ at = "fill report" => report' = <<>>
          /\ at = "fill json" => json' = <<>>
      BY <3>3
    <3>4. /\ UNCHANGED <<config, data, sent, edited>>
          /\ mishap' \subseteq {"failed", "overlap"}
          /\ Active(r)
      BY <2>4 DEF OpenReport, FillReport, ReportFails, OpenJson, FillJson, JsonFails, Killed,
                  Active, ReportTypeOK
    <3> DEFINE new == [run[r] EXCEPT !.at = at]
    <3>5. run'[r] = new
      BY <3>3 DEF ReportTypeOK
    <3>6. /\ new \in RunRecords /\ new.at = at
          /\ new.tenant = run[r].tenant /\ new.length = run[r].length
      BY <3>1, Moved DEF RunOK
    <3>7. RunOK(r)'
      <4> HIDE DEF new
      <4> QED
        BY <3>1, <3>4, <3>5, <3>6, <3>e DEF RunOK
    <3>8. /\ DOMAIN run' = Runs /\ run' = [q \in Runs |-> run'[q]]
          /\ \A q \in Runs : RunOK(q)'
      BY <3>2, <3>3, <3>7, OneRunMoves
    <3>9. QED
      BY <3>2, <3>4, <3>8 DEF ReportTypeOK
  <2>5. QED
    BY <2>1, <2>2, <2>3, <2>4 DEF ReportNext
<1>3. QED
  BY <1>1, <1>2, PTL DEF ReportSpec

\* FinanceStaysLocal for every configuration and every edit of it: a run asks
\* with the tenant it loaded, and load_tenant lets no tenant of a finance tier
\* through that is not routed to the local model.
THEOREM PromptsStayLocal == ReportSpec => []FinanceStaysLocal
<1>1. ReportInit => FinanceStaysLocal
  BY DEF ReportInit, FinanceStaysLocal
<1>2. ReportTypeOK /\ FinanceStaysLocal /\ [ReportNext]_reportVars
        => FinanceStaysLocal'
  <2> SUFFICES ASSUME ReportTypeOK, FinanceStaysLocal, [ReportNext]_reportVars
               PROVE  FinanceStaysLocal'
    OBVIOUS
  <2>1. ASSUME NEW r \in Runs, Ask(r) PROVE FinanceStaysLocal'
    <3> DEFINE t == run[r].tenant
               prompt == [sensitivity |-> t.sensitivity, provider |-> Provider(t)]
    <3>1. sent' = sent \cup {prompt} \/ sent' = sent
      BY <2>1 DEF Ask
    <3>2. Valid(t)
      BY <2>1 DEF Ask, Active, ReportTypeOK, RunOK
    <3>3. prompt.sensitivity \in Finance => prompt.provider = "local"
      BY <3>2 DEF Valid, Provider
    <3> HIDE DEF prompt
    <3>4. QED
      BY <3>1, <3>3 DEF FinanceStaysLocal
  <2>2. ASSUME sent' = sent PROVE FinanceStaysLocal'
    BY <2>2 DEF FinanceStaysLocal
  <2>3. QED
    BY <2>1, <2>2 DEF ReportNext, EditConfig, Deliver, Load, OpenReport, FillReport,
                      ReportFails, OpenJson, FillJson, JsonFails, Killed, reportVars
<1>3. QED
  BY <1>1, <1>2, ReportTypeCorrect, PTL DEF ReportSpec

---------------------------------------------------------------------------
\* A step of a run changes neither the other runs nor the length of its text.
LEMMA RunSteps ==
  ASSUME ReportTypeOK, NEW r \in Runs,
         \/ Ask(r) \/ OpenReport(r) \/ FillReport(r) \/ OpenJson(r) \/ FillJson(r)
  PROVE  /\ \A q \in Runs : q # r => run'[q] = run[q]
         /\ run'[r].length = run[r].length
         /\ Ask(r) => run'[r].at = "open report"
         /\ OpenReport(r) => run'[r].at = "fill report"
         /\ FillReport(r) => run'[r].at = "open json"
         /\ OpenJson(r) => run'[r].at = "fill json"
         /\ FillJson(r) => run'[r].at = "done"
<1>1. run[r] \in RunRecords /\ DOMAIN run = Runs
  BY DEF ReportTypeOK, RunOK
<1> DEFINE Onto(at) == run' = [run EXCEPT ![r] = [run[r] EXCEPT !.at = at]]
<1>2. ASSUME NEW at, Onto(at)
      PROVE  /\ \A q \in Runs : q # r => run'[q] = run[q]
             /\ run'[r].length = run[r].length /\ run'[r].at = at
  <2> DEFINE x == run[r]
  <2>1. x \in RunRecords
    BY <1>1
  <2> HIDE DEF x
  <2>2. [x EXCEPT !.at = at].at = at /\ [x EXCEPT !.at = at].length = x.length
    BY <2>1 DEF RunRecords
  <2>3. run'[r] = [x EXCEPT !.at = at] /\ \A q \in Runs : q # r => run'[q] = run[q]
    BY <1>1, <1>2 DEF x
  <2>4. QED
    BY <2>2, <2>3 DEF x
<1>3. /\ OpenReport(r) => Onto("fill report")
      /\ FillReport(r) => Onto("open json")
      /\ OpenJson(r) => Onto("fill json")
      /\ FillJson(r) => Onto("done")
  BY DEF OpenReport, FillReport, OpenJson, FillJson
<1>4. ASSUME Ask(r)
      PROVE  /\ \A q \in Runs : q # r => run'[q] = run[q]
             /\ run'[r].length = run[r].length /\ run'[r].at = "open report"
  <2>1. PICK k : run' = [run EXCEPT ![r].at = "open report", ![r].narrative = k]
    BY <1>4 DEF Ask
  <2> DEFINE x == run[r]
  <2>2. x \in RunRecords
    BY <1>1
  <2>3. run'[r] = [x EXCEPT !.at = "open report", !.narrative = k]
        /\ \A q \in Runs : q # r => run'[q] = run[q]
    BY <1>1, <2>1
  <2> HIDE DEF x
  <2>4. /\ [x EXCEPT !.at = "open report", !.narrative = k].at = "open report"
        /\ [x EXCEPT !.at = "open report", !.narrative = k].length = x.length
    BY <2>2 DEF RunRecords
  <2>5. QED
    BY <2>3, <2>4 DEF x
<1>5. /\ OpenReport(r) => run[r].at = "open report"
      /\ FillReport(r) => run[r].at = "fill report"
      /\ OpenJson(r) => run[r].at = "open json"
      /\ FillJson(r) => run[r].at = "fill json"
      /\ Ask(r) => run[r].at = "ask"
  BY DEF Ask, OpenReport, FillReport, OpenJson, FillJson
<1>6. QED
  <2> HIDE DEF Onto
  <2> QED
    BY <1>2, <1>3, <1>4, <1>5

\* Both files come from one run, and nobody is about to change them.
BothWhole == Whole(report) /\ json = report

\* How far the run under way has come with the two files.
Progress(r) ==
  /\ run[r].at = "fill report" => report = <<>>
  /\ run[r].at \in {"open json", "fill json"} => report = Text(r)
  /\ run[r].at = "fill json" => json = <<>>

\* The inductive invariant: while nothing went wrong since a run last began
\* alone, at most one run is active, and it alone accounts for what it has done
\* to the files, whatever they held before.
FilesInv ==
  /\ \A r \in Runs : run[r].at = "start" => run[r].length = 0
  /\ mishap = {} =>
       /\ \A p, q \in Runs : Active(p) /\ Active(q) => p = q
       /\ (\A r \in Runs : ~Active(r)) => BothWhole
       /\ \A r \in Runs : Progress(r)

LEMMA LoadSteps ==
  ASSUME ReportTypeOK, NEW r \in Runs, Load(r)
  PROVE  /\ run[r].at = "start" /\ report' = report /\ json' = json
         /\ \A q \in Runs : q # r => run'[q] = run[q]
         /\ \/ run'[r].at = "ask" /\ (mishap' = {} => \A q \in Runs : ~Active(q))
            \/ run'[r].at = "done" /\ mishap' = mishap
<1> DEFINE t == Resolved(config)
<1>1. PICK n \in 1..MaxText : run' = [run EXCEPT ![r] =
        IF Valid(t)
        THEN [at |-> "ask", tenant |-> t, data |-> data,
              narrative |-> "none", length |-> n]
        ELSE [Waiting EXCEPT !.at = "done"]]
  BY DEF Load
<1>2. /\ run[r].at = "start" /\ report' = report /\ json' = json
      /\ mishap' = IF ~Valid(t) THEN mishap
                   ELSE IF \E q \in Runs : Active(q) THEN mishap \cup {"overlap"}
                   ELSE {}
  BY DEF Load
<1> HIDE DEF t
<1>3. CASE Valid(t)
  <2>1. run'[r].at = "ask" /\ \A q \in Runs : q # r => run'[q] = run[q]
    BY <1>1, <1>3 DEF ReportTypeOK
  <2>2. QED
    BY <1>2, <1>3, <2>1
<1>4. CASE ~Valid(t)
  <2>1. [Waiting EXCEPT !.at = "done"].at = "done"
    BY DEF Waiting
  <2>2. run'[r].at = "done" /\ \A q \in Runs : q # r => run'[q] = run[q]
    BY <1>1, <1>4, <2>1 DEF ReportTypeOK
  <2>3. QED
    BY <1>2, <1>4, <2>2
<1>5. QED
  BY <1>3, <1>4

\* A run is never back at its start, nor is its text of another length.
LEMMA Stops ==
  ASSUME ReportTypeOK, NEW r \in Runs, ReportFails(r) \/ JsonFails(r) \/ Killed(r)
  PROVE  /\ \A q \in Runs : q # r => run'[q] = run[q]
         /\ run'[r].at # "start" /\ mishap' # {}
<1>1. PICK at \in {"open json", "done"} : run' = [run EXCEPT ![r].at = at]
  BY DEF ReportFails, JsonFails, Killed
<1>2. run[r] \in RunRecords /\ DOMAIN run = Runs
  BY DEF ReportTypeOK, RunOK
<1>3. run'[r] = [run[r] EXCEPT !.at = at] /\ \A q \in Runs : q # r => run'[q] = run[q]
  BY <1>1, <1>2
<1>4. [run[r] EXCEPT !.at = at].at = at
  BY <1>2 DEF RunRecords
<1>5. mishap' # {}
  BY DEF ReportFails, JsonFails, Killed
<1>6. QED
  BY <1>3, <1>4, <1>5

\* FilesAgree for any number of runs, failures and overlaps: a run that is alone
\* and undisturbed leaves a report and a JSON that are whole and its own.
THEOREM SameRun == ReportSpec => []FilesAgree
<1>1. ReportInit => FilesInv
  <2> SUFFICES ASSUME ReportInit PROVE FilesInv
    OBVIOUS
  <2>1. \A r \in Runs : run[r].at = "start" /\ run[r].length = 0
    BY DEF ReportInit, Waiting
  <2>2. BothWhole
    BY DEF ReportInit, BothWhole, Whole
  <2>3. QED
    BY <2>1, <2>2 DEF FilesInv, Progress, Active
<1>2. ReportTypeOK /\ ReportTypeOK' /\ FilesInv /\ [ReportNext]_reportVars => FilesInv'
  <2> SUFFICES ASSUME ReportTypeOK, ReportTypeOK', FilesInv, [ReportNext]_reportVars
               PROVE  FilesInv'
    OBVIOUS
  <2>2. /\ \A r \in Runs : run[r].at = "start" => run[r].length = 0
        /\ mishap = {} =>
             /\ \A p, q \in Runs : Active(p) /\ Active(q) => p = q
             /\ (\A r \in Runs : ~Active(r)) => BothWhole
             /\ \A r \in Runs : Progress(r)
    BY DEF FilesInv
  <2>3. CASE EditConfig \/ Deliver \/ UNCHANGED reportVars
    <3>1. run' = run /\ report' = report /\ json' = json /\ mishap' = mishap
      BY <2>3 DEF EditConfig, Deliver, reportVars
    <3>2. QED
      BY <2>2, <3>1 DEF FilesInv, Progress, BothWhole, Whole, Text, Active
  <2>4. ASSUME NEW r \in Runs, Load(r) PROVE FilesInv'
    <3>1. /\ run[r].at = "start" /\ report' = report /\ json' = json
          /\ \A q \in Runs : q # r => run'[q] = run[q]
          /\ \/ run'[r].at = "ask" /\ (mishap' = {} => \A q \in Runs : ~Active(q))
             \/ run'[r].at = "done" /\ mishap' = mishap
      BY <2>4, LoadSteps
    <3>2. run[r].length = 0
      BY <2>2, <3>1
    <3>3. \A q \in Runs : run'[q].at = "start" => run'[q].length = 0
      BY <2>2, <3>1
    <3>4. CASE run'[r].at = "ask" /\ (mishap' = {} => \A q \in Runs : ~Active(q))
      <4>1. ASSUME mishap' = {}
            PROVE  /\ \A p, q \in Runs : Active(p)' /\ Active(q)' => p = q
                   /\ Active(r)'
                   /\ \A q \in Runs : Progress(q)'
        BY <3>1, <3>4, <4>1 DEF Active, Progress
      <4>2. QED
        BY <3>3, <4>1 DEF FilesInv
    <3>5. CASE run'[r].at = "done" /\ mishap' = mishap
      <4>1. ASSUME NEW q \in Runs, run[q].length > 0 PROVE run'[q] = run[q]
        BY <3>1, <3>2, <4>1
      <4>2. BothWhole => BothWhole'
        BY <3>1, <4>1 DEF BothWhole, Whole, Text
      <4>3. \A q \in Runs : Active(q)' <=> Active(q)
        BY <3>1, <3>5 DEF Active
      <4>4. \A q \in Runs : Progress(q) => Progress(q)'
        BY <3>1, <3>5 DEF Progress, Text
      <4>5. QED
        BY <2>2, <3>3, <3>5, <4>2, <4>3, <4>4 DEF FilesInv
    <3>6. QED
      BY <3>1, <3>4, <3>5
  <2>5. ASSUME NEW r \in Runs,
               \/ Ask(r) \/ OpenReport(r) \/ FillReport(r)
               \/ OpenJson(r) \/ FillJson(r)
        PROVE  FilesInv'
    <3>1. Active(r) /\ RunOK(r) /\ run[r].length \in Nat /\ run[r].length > 0
      <4>1. Active(r) /\ RunOK(r)
        BY <2>5 DEF Ask, OpenReport, FillReport, OpenJson, FillJson, Active,
                    ReportTypeOK
      <4>2. run[r].length \in Nat
        BY <4>1, RunTypes
      <4>3. run[r].length >= 1
        BY <4>1 DEF RunOK
      <4>4. QED
        BY <4>1, <4>2, <4>3
    <3>a. /\ mishap' = mishap
          /\ \A q \in Runs : q # r => run'[q] = run[q]
          /\ run'[r].at # "start"
      <4>1. mishap' = mishap
        BY <2>5 DEF Ask, OpenReport, FillReport, OpenJson, FillJson
      <4>2. QED
        BY <2>5, <4>1, RunSteps
    <3>b. \A q \in Runs : run'[q].at = "start" => run'[q].length = 0
      BY <2>2, <3>a
    <3>c. SUFFICES ASSUME mishap = {}
                   PROVE  /\ \A p, q \in Runs : Active(p)' /\ Active(q)' => p = q
                          /\ (\A q \in Runs : ~Active(q)') => BothWhole'
                          /\ \A q \in Runs : Progress(q)'
      BY <3>a, <3>b DEF FilesInv
    <3>2. \A q \in Runs : q # r => run'[q] = run[q] /\ ~Active(q)
      BY <2>2, <3>1, <3>a, <3>c
    <3>3. run'[r].length = run[r].length
      BY <2>5, RunSteps
    <3>4. /\ \A q \in Runs : run'[q].length = run[q].length /\ Text(q)' = Text(q)
          /\ \A p, q \in Runs : Active(p)' /\ Active(q)' => p = q
      BY <3>2, <3>3 DEF Text, Active
    <3>5. Filled(<<>>, r) = Text(r)
      BY <3>1, FilledWhole
    <3>6. Progress(r)
      BY <2>2, <3>c
    <3>7. /\ Ask(r) => run'[r].at = "open report"
          /\ OpenReport(r) => run'[r].at = "fill report"
          /\ FillReport(r) => run'[r].at = "open json"
          /\ OpenJson(r) => run'[r].at = "fill json"
          /\ FillJson(r) => run'[r].at = "done"
      BY RunSteps
    <3>8. Progress(r)' /\ (~Active(r)' => BothWhole')
      <4>1. CASE Ask(r)
        BY <3>4, <3>6, <3>7, <4>1 DEF Ask, Progress, BothWhole, Whole, Active
      <4>2. CASE OpenReport(r)
        BY <3>7, <4>2 DEF OpenReport, Progress, Active
      <4>3. CASE FillReport(r)
        BY <3>4, <3>5, <3>6, <3>7, <4>3 DEF FillReport, Progress, Active
      <4>4. CASE OpenJson(r)
        BY <3>4, <3>6, <3>7, <4>4 DEF OpenJson, Progress, Active
      <4>5. CASE FillJson(r)
        BY <3>1, <3>3, <3>4, <3>5, <3>6, <3>7, <4>5
           DEF FillJson, Progress, Active, BothWhole, Whole
      <4>6. QED
        BY <2>5, <4>1, <4>2, <4>3, <4>4, <4>5
    <3>9. ASSUME NEW q \in Runs, q # r PROVE Progress(q)'
      BY <2>2, <3>2, <3>9, <3>c DEF Progress, Active
    <3>10. QED
      BY <3>4, <3>8, <3>9
  <2>6. ASSUME NEW r \in Runs, ReportFails(r) \/ JsonFails(r) \/ Killed(r)
        PROVE  FilesInv'
    <3>1. /\ \A q \in Runs : q # r => run'[q] = run[q]
          /\ run'[r].at # "start" /\ mishap' # {}
      BY <2>6, Stops
    <3>2. QED
      BY <2>2, <3>1 DEF FilesInv
  <2>7. QED
    BY <2>3, <2>4, <2>5, <2>6 DEF ReportNext
<1>3. FilesInv => FilesAgree
  BY DEF FilesInv, FilesAgree, BothWhole
<1>4. QED
  BY <1>1, <1>2, <1>3, ReportTypeCorrect, PTL DEF ReportSpec
============================================================================
