--------------------------- MODULE StrActsProofs ---------------------------
(***************************************************************************)
(* Theorems about the acts for any threads, requests, properties, faults   *)
(* and bounds.                                                             *)
(***************************************************************************)
EXTENDS StrActs, DataTheorems

\* A thread is only at steps that its route has.
OnRoute(t) ==
  /\ pc[t] = "authorize" => call[t].route \in Services \cup {"checkout"}
  /\ pc[t] \in {"earn", "count"} => call[t].route \in Services
  /\ pc[t] \in {"gate", "ask", "approve", "regate", "reask"} =>
       call[t].route = "act1" /\ call[t].of \in Overcharged
  /\ pc[t] \in {"connect", "provision", "account"} => call[t].route = "payouts"
  /\ pc[t] \in {"sign", "move", "record"} => call[t].route \notin Services

RouteInv == \A t \in Threads : OnRoute(t)

\* The approval of a call past the gate stood during it, if it needs one.
Clear(t) ==
  pc[t] \in {"sign", "move"} /\ call[t].route = "act1" =>
    /\ call[t].of \in Overcharged
    /\ Fee[call[t].of] > Threshold => t \in stood

\* Every call notices the approval that stands.
Noticed ==
  \A t \in Threads :
    call[t].of \in Overcharged /\ requests[call[t].of] = "approved" /\ pc[t] # "idle"
      => t \in stood

GateInv == Noticed /\ \A t \in Threads : Clear(t)

IInv == TypeOK /\ RouteInv /\ GateInv

---------------------------------------------------------------------------
\* What a request holds.
LEMMA RequestFields ==
  ASSUME NEW c \in Calls
  PROVE  /\ c.door \in Doors /\ c.of \in Properties \cup Bodies
         /\ c.route \in {"act1", "payouts", "checkout", "assign"} \cup Services
         /\ c.route \notin Services => c.of \in Properties
         /\ Key(c) \in Keys
BY StrAssumption DEF Requests, Plausible, Keys

\* What GoTo and Conclude do to the threads' variables.
LEMMA MovesType ==
  ASSUME TypeOK, NEW t \in Threads,
         \/ \E at \in Points : GoTo(t, at)
         \/ \E at \in Points, how \in Outcomes : Conclude(t, at, how)
  PROVE  /\ pc' \in [Threads -> Points] /\ call' \in [Threads -> Calls]
         /\ member' \in [Threads -> 1..CrewSize] /\ owner' \in [Threads -> Owners]
         /\ answer' \in [Threads -> Answers] /\ calls' \in 0..MaxCalls
<1>1. CASE \E at \in Points : GoTo(t, at)
  BY <1>1 DEF TypeOK, GoTo
<1>2. CASE \E at \in Points, how \in Outcomes : Conclude(t, at, how)
  <2>1. PICK at \in Points, how \in Outcomes : Conclude(t, at, how)
    BY <1>2
  <2>2. call[t].of \in Properties \cup Bodies
    BY RequestFields DEF TypeOK
  <2>3. <<call[t].of, how>> \in Answers
    BY <2>2 DEF Answers
  <2>4. QED
    BY <2>1, <2>3 DEF TypeOK, Conclude
<1>3. QED
  BY <1>1, <1>2

LEMMA ArrivalType ==
  ASSUME TypeOK, NEW t \in Threads, NEW c \in Calls, Arrives(t, c)
  PROVE  /\ call' \in [Threads -> Calls] /\ member' \in [Threads -> 1..CrewSize]
         /\ calls' \in 0..MaxCalls /\ stood' \subseteq Threads /\ owner' = owner
BY StrAssumption DEF TypeOK, Arrives

LEMMA InitType == Init => TypeOK
<1>1. SUFFICES ASSUME Init PROVE TypeOK
  OBVIOUS
<1>2. (CHOOSE c \in Calls : TRUE) \in Calls
  BY StrAssumption
<1>3. call \in [Threads -> Calls]
  BY <1>1, <1>2 DEF Init
<1>4. \A t \in Threads : <<call[t].of, "none">> \in Answers
  BY <1>3, RequestFields DEF Answers, Outcomes
<1>5. answer \in [Threads -> Answers]
  BY <1>1, <1>4 DEF Init
<1>6. DOMAIN cache = {}
  BY <1>1 DEF Init
<1>7. /\ signed \in [Jobs -> Nat] /\ moved \in [Jobs -> Nat] /\ done \in [Jobs -> Nat]
      /\ accounts \subseteq Owners /\ opened \subseteq Owners
      /\ requests \in [Overcharged -> {"none", "pending", "approved", "denied"}]
      /\ earned \in [Doors -> [Services -> Nat]] /\ carried \in [Services -> Nat]
      /\ metrics \in [calls_served : Nat, revenue_earned_cents : Nat]
  BY <1>1 DEF Init, NoEvents
<1>8. /\ pc \in [Threads -> Points] /\ member \in [Threads -> 1..CrewSize]
      /\ calls \in 0..MaxCalls /\ mishaps \in 0..MaxMishaps /\ stood \subseteq Threads
      /\ owner \in [Threads -> Owners]
  BY <1>1, StrAssumption DEF Init, Points
<1>9. QED
  BY <1>3, <1>5, <1>6, <1>7, <1>8 DEF TypeOK

LEMMA MishapType ==
  ASSUME TypeOK, NEW fault, Mishap(fault)
  PROVE  mishaps' \in 0..MaxMishaps
BY StrAssumption DEF TypeOK, Mishap

LEMMA BookType ==
  ASSUME TypeOK, NEW t \in Threads
  PROVE  /\ [signed EXCEPT ![Job(t)] = @ + 1] \in [Jobs -> Nat]
         /\ Sent(t) \in [Jobs -> Nat] /\ Entered(t) \in [Jobs -> Nat]
<1>1. ASSUME NEW f \in [Jobs -> Nat], NEW j PROVE [f EXCEPT ![j] = @ + 1] \in [Jobs -> Nat]
  <2>1. CASE j \in Jobs
    BY <2>1
  <2>2. CASE j \notin Jobs
    <3>1. [f EXCEPT ![j] = @ + 1] = [k \in Jobs |-> f[k]]
      BY <2>2
    <3>2. QED
      BY <3>1
  <2>3. QED
    BY <2>1, <2>2
<1>2. QED
  BY <1>1 DEF TypeOK, Sent, Entered

---------------------------------------------------------------------------
\* The books, the requests and the till keep their types in every step of a
\* thread; the threads' own variables, by the lemmas above.
LEMMA StepType ==
  ASSUME TypeOK, RouteInv, NEW t \in Threads, Step(t)
  PROVE  TypeOK'
<1> USE DEF TypeOK
<1>0. /\ call[t] \in Calls /\ OnRoute(t)
      /\ Key(call[t]) \in Keys
  BY RequestFields DEF RouteInv
<1>1. CASE Allowed(t)
  BY <1>1, MovesType DEF Allowed, GoTo, money, gate, till, Points
<1>2. CASE Denied(t)
  BY <1>2, MovesType DEF Denied, Conclude, money, gate, till, Points, Outcomes
<1>3. CASE GateOpens(t)
  BY <1>3, MovesType DEF GateOpens, GoTo, money, gate, till, Points
<1>4. CASE GateCloses(t)
  BY <1>4, MovesType DEF GateCloses, GoTo, money, gate, till, Points
<1>4a. CASE GateAsks(t)
  <2>1. requests' \in [Overcharged -> {"none", "pending", "approved", "denied"}]
    BY <1>4a DEF GateAsks
  <2>2. \/ \E at \in Points : GoTo(t, at)
        \/ \E at \in Points, how \in Outcomes : Conclude(t, at, how)
    BY <1>4a DEF GateAsks, Points, Outcomes
  <2>3. QED
    BY <1>4a, <2>1, <2>2, MovesType DEF GateAsks, money, gate, till
<1>5. CASE Approve(t)
  <2>1. /\ requests' \in [Overcharged -> {"none", "pending", "approved", "denied"}]
        /\ stood' \subseteq Threads
    BY <1>5 DEF Approve, Decided
  <2>2. QED
    BY <1>5, <2>1, MovesType DEF Approve, GoTo, money, gate, till, Points
<1>6. CASE Uncached(t)
  BY <1>6 DEF Uncached, money, gate, till, Points
<1>7. CASE CacheAccount(t) \/ OpenAccount(t)
  <2>1. owner[t] \in Owners
    OBVIOUS
  <2>2. accounts' \subseteq Owners /\ opened' \subseteq Owners
    BY <1>7, <2>1 DEF CacheAccount, OpenAccount
  <2>3. QED
    BY <1>7, <2>2, MovesType DEF CacheAccount, OpenAccount, GoTo, gate, till, Points
<1>8. CASE Connected(t)
  BY <1>8, MovesType DEF Connected, GoTo, money, gate, till, Points
<1>9. CASE Sign(t)
  <2>1. signed' \in [Jobs -> Nat]
    BY <1>9, BookType DEF Sign
  <2>2. QED
    BY <1>9, <2>1, MovesType DEF Sign, GoTo, gate, till, Points
<1>10. CASE Move(t)
  <2>1. moved' \in [Jobs -> Nat]
    BY <1>10, BookType DEF Move
  <2>2. QED
    BY <1>10, <2>1, MovesType DEF Move, GoTo, gate, till, Points
<1>11. CASE MoveFails(t)
  <2>1. moved' \in [Jobs -> Nat] /\ mishaps' \in 0..MaxMishaps
    BY <1>11, BookType, MishapType DEF MoveFails
  <2>2. QED
    BY <1>11, <2>1, MovesType DEF MoveFails, GoTo, gate, till, Points
<1>12. CASE Record(t)
  <2>1. done' \in [Jobs -> Nat]
    BY <1>12, BookType DEF Record
  <2>2. CASE NextMember(t)
    BY <1>12, <2>1, <2>2, StrAssumption DEF Record, NextMember, MembersLeft, gate, till, Points
  <2>3. CASE Conclude(t, "reply", "paid")
    BY <1>12, <2>1, <2>3, MovesType DEF Record, gate, till, Points, Outcomes
  <2>4. QED
    BY <1>12, <2>2, <2>3 DEF Record
<1>13. CASE AuditFails(t)
  <2>1. mishaps' \in 0..MaxMishaps
    BY <1>13, MishapType DEF AuditFails
  <2>2. QED
    BY <1>13, <2>1, MovesType DEF AuditFails, Unlogged, money, gate, till, Points, Outcomes
<1>14. CASE Earn(t) \/ EarnMounted(t)
  <2>1. /\ call[t].door \in Doors /\ call[t].route \in Services
    BY <1>14, <1>0, RequestFields DEF Earn, EarnMounted, Earned, OnRoute
  <2>2. earned' \in [Doors -> [Services -> Nat]]
    <3>1. [earned[call[t].door] EXCEPT ![call[t].route] = @ + 1] \in [Services -> Nat]
      BY <2>1
    <3>2. QED
      BY <1>14, <3>1 DEF Earn, EarnMounted, Earned
  <2>3. \/ \E at \in Points : GoTo(t, at)
        \/ \E at \in Points, how \in Outcomes : Conclude(t, at, how)
    BY <1>14 DEF Earn, EarnMounted, Earned, Points, Outcomes
  <2>4. QED
    BY <1>14, <2>2, <2>3, MovesType DEF Earn, EarnMounted, Earned, money, gate
<1>15. CASE Count(t)
  <2>1. Price[call[t].route] \in Nat
    BY <1>15, <1>0, StrAssumption DEF Count, OnRoute
  <2>2. metrics' \in [calls_served : Nat, revenue_earned_cents : Nat]
    BY <1>15, <2>1 DEF Count
  <2>3. QED
    BY <1>15, <2>2, MovesType DEF Count, money, gate, Points, Outcomes
<1>16. CASE Reply(t)
  <2>1. DOMAIN cache' \subseteq Keys /\ \A k \in DOMAIN cache' : cache'[k] \in Answers
    BY <1>16, <1>0 DEF Reply
  <2>2. QED
    BY <1>16, <2>1, MovesType DEF Reply, money, gate, till, Points
<1>17. QED
  BY <1>1, <1>2, <1>3, <1>4, <1>4a, <1>5, <1>6, <1>7, <1>8, <1>9, <1>10, <1>11, <1>12, <1>13,
     <1>14, <1>15, <1>16 DEF Step

LEMMA ArrivesType ==
  ASSUME TypeOK, NEW t \in Threads, NEW c \in Calls,
         Refuse402(t, c) \/ ServeCached(t, c) \/ Accept(t, c)
  PROVE  TypeOK'
<1>1. Arrives(t, c)
  BY DEF Refuse402, ServeCached, Accept
<1>2. c.of \in Properties \cup Bodies
  BY RequestFields
<1>3. answer' \in [Threads -> Answers]
  <2>1. CASE Refuse402(t, c)
    BY <2>1, <1>2 DEF Refuse402, TypeOK, Answers, Outcomes
  <2>2. CASE ServeCached(t, c)
    BY <2>2 DEF ServeCached, Cached, TypeOK
  <2>3. CASE Accept(t, c)
    BY <2>3, <1>2 DEF Accept, TypeOK, Answers, Outcomes
  <2>4. QED
    BY <2>1, <2>2, <2>3
<1>4. pc' \in [Threads -> Points]
  BY DEF Refuse402, ServeCached, Accept, First, TypeOK, Points
<1>5. QED
  BY <1>1, <1>3, <1>4, ArrivalType DEF Arrives, TypeOK, money, till

LEMMA NextType == TypeOK /\ RouteInv /\ [Next]_vars => TypeOK'
<1>1. SUFFICES ASSUME TypeOK, RouteInv, [Next]_vars PROVE TypeOK'
  OBVIOUS
<1>2. CASE \E t \in Threads : Step(t)
  BY <1>1, <1>2, StepType
<1>3. CASE \E t \in Threads, c \in Calls : Refuse402(t, c) \/ ServeCached(t, c) \/ Accept(t, c)
  BY <1>1, <1>3, ArrivesType
<1>4. CASE \E p \in Overcharged, verdict \in {"approved", "denied"} : Decide(p, verdict)
  <2>1. /\ requests' \in [Overcharged -> {"none", "pending", "approved", "denied"}]
        /\ stood' \subseteq Threads
    BY <1>1, <1>4 DEF Decide, Decided, TypeOK
  <2>2. QED
    BY <1>1, <1>4, <2>1 DEF Decide, TypeOK, money, till, threads
<1>5. CASE Restart
  <2>1. mishaps' \in 0..MaxMishaps
    BY <1>1, <1>5, MishapType DEF Restart
  <2>2. answer' \in [Threads -> Answers]
    BY <1>1, <1>5, RequestFields DEF Restart, TypeOK, Answers, Outcomes
  <2>3. DOMAIN cache' = {}
    BY <1>5 DEF Restart
  <2>4. carried' \in [Services -> Nat]
    BY <1>1, <1>5 DEF Restart, TypeOK, Doors
  <2>5. QED
    BY <1>1, <1>5, <2>1, <2>2, <2>3, <2>4 DEF Restart, gate, TypeOK, Points
<1>6. CASE UNCHANGED vars
  BY <1>1, <1>6 DEF vars, money, gate, till, threads, TypeOK
<1>7. QED
  BY <1>1, <1>2, <1>3, <1>4, <1>5, <1>6 DEF Next

---------------------------------------------------------------------------
\* Only the thread that steps moves, and its call stays the same.
LEMMA StepMoves ==
  ASSUME TypeOK, NEW t \in Threads, Step(t)
  PROVE  /\ call' = call
         /\ \A u \in Threads \ {t} : pc'[u] = pc[u] /\ member'[u] = member[u]
BY DEF TypeOK, Step, Allowed, Denied, GateOpens, GateCloses, GateAsks, Approve, Uncached, CacheAccount,
   OpenAccount, Connected, Sign, Move, MoveFails, Record, NextMember, AuditFails, Unlogged,
   Earn, EarnMounted, Earned, Count, Reply, GoTo, Conclude, threads

\* A step keeps to the route of the call.
LEMMA StepOnRoute ==
  ASSUME TypeOK, RouteInv, NEW t \in Threads, Step(t)
  PROVE  RouteInv'
<1>1. call' = call /\ \A u \in Threads \ {t} : pc'[u] = pc[u]
  BY StepMoves
<1>2. OnRoute(t) /\ call[t] \in Calls
  BY DEF RouteInv, TypeOK
<1>3. Services \cap {"act1", "payouts", "checkout", "assign"} = {}
  BY StrAssumption
<1>4. OnRoute(t)'
  <2>1. CASE Allowed(t) \/ Denied(t)
    BY <2>1, <1>1, <1>2, <1>3 DEF Allowed, Denied, GoTo, Conclude, OnRoute, TypeOK
  <2>2. CASE GateOpens(t) \/ GateCloses(t) \/ GateAsks(t) \/ Approve(t)
    BY <2>2, <1>1, <1>2, <1>3
    DEF GateOpens, GateCloses, GateAsks, Approve, GoTo, Conclude, OnRoute, TypeOK
  <2>3. CASE Uncached(t) \/ CacheAccount(t) \/ OpenAccount(t) \/ Connected(t)
    BY <2>3, <1>1, <1>2, <1>3
    DEF Uncached, CacheAccount, OpenAccount, Connected, GoTo, Conclude, OnRoute, TypeOK, threads
  <2>4. CASE Sign(t) \/ Move(t) \/ MoveFails(t)
    BY <2>4, <1>1, <1>2 DEF Sign, Move, MoveFails, GoTo, OnRoute, TypeOK
  <2>5. CASE Record(t)
    BY <2>5, <1>1, <1>2, <1>3 DEF Record, NextMember, Conclude, OnRoute, TypeOK
  <2>6. CASE AuditFails(t) \/ Earn(t) \/ EarnMounted(t) \/ Count(t) \/ Reply(t)
    BY <2>6, <1>1, <1>2
    DEF AuditFails, Unlogged, Earn, EarnMounted, Earned, Count, Reply, GoTo, Conclude, OnRoute, TypeOK
  <2>7. QED
    BY <2>1, <2>2, <2>3, <2>4, <2>5, <2>6 DEF Step
<1>5. \A u \in Threads \ {t} : OnRoute(u)'
  BY <1>1 DEF OnRoute, RouteInv
<1>6. QED
  BY <1>4, <1>5 DEF RouteInv

\* The first step of a request is one of its route.
LEMMA FirstOnRoute ==
  ASSUME NEW c \in Calls
  PROVE  /\ First(c) = "authorize" => c.route \in Services \cup {"checkout"}
         /\ First(c) = "gate" => c.route = "act1" /\ c.of \in Overcharged
         /\ First(c) = "connect" => c.route = "payouts"
         /\ First(c) = "sign" => c.route = "assign"
         /\ First(c) \in {"gate", "reply", "connect", "sign", "authorize"}
<1>1. c.route \in {"act1", "payouts", "checkout", "assign"} \cup Services
  BY RequestFields
<1>2. CASE c.route = "act1"
  BY <1>2 DEF First
<1>3. CASE c.route = "payouts"
  BY <1>3 DEF First
<1>4. CASE c.route = "assign"
  BY <1>4 DEF First
<1>5. CASE c.route \notin {"act1", "payouts", "assign"}
  <2>1. First(c) = "authorize"
    BY <1>5 DEF First
  <2>2. QED
    BY <2>1, <1>1, <1>5
<1>6. QED
  BY <1>2, <1>3, <1>4, <1>5

LEMMA ArrivesOnRoute ==
  ASSUME TypeOK, RouteInv, NEW t \in Threads, NEW c \in Calls,
         Refuse402(t, c) \/ ServeCached(t, c) \/ Accept(t, c)
  PROVE  RouteInv'
<1>1. /\ pc[t] = "idle" /\ call' = [call EXCEPT ![t] = c]
      /\ pc' = pc \/ pc' = [pc EXCEPT ![t] = First(c)]
  BY DEF Refuse402, ServeCached, Accept, Arrives
<1>2. Services \cap {"act1", "payouts", "checkout", "assign"} = {}
  BY StrAssumption
<1>3. OnRoute(t)'
  <2>1. call'[t] = c /\ (pc'[t] = "idle" \/ pc'[t] = First(c))
    BY <1>1 DEF TypeOK
  <2>2. QED
    BY <2>1, <1>2, FirstOnRoute DEF OnRoute
<1>4. \A u \in Threads \ {t} : OnRoute(u)'
  BY <1>1 DEF OnRoute, RouteInv, TypeOK
<1>5. QED
  BY <1>3, <1>4 DEF RouteInv

LEMMA NextOnRoute == TypeOK /\ RouteInv /\ [Next]_vars => RouteInv'
<1>1. SUFFICES ASSUME TypeOK, RouteInv, [Next]_vars PROVE RouteInv'
  OBVIOUS
<1>2. CASE \E t \in Threads : Step(t)
  BY <1>1, <1>2, StepOnRoute
<1>3. CASE \E t \in Threads, c \in Calls : Refuse402(t, c) \/ ServeCached(t, c) \/ Accept(t, c)
  BY <1>1, <1>3, ArrivesOnRoute
<1>4. CASE \E p \in Overcharged, verdict \in {"approved", "denied"} : Decide(p, verdict)
  BY <1>1, <1>4 DEF Decide, threads, RouteInv, OnRoute
<1>5. CASE Restart
  BY <1>1, <1>5 DEF Restart, RouteInv, OnRoute
<1>6. CASE UNCHANGED vars
  BY <1>1, <1>6 DEF vars, threads, RouteInv, OnRoute
<1>7. QED
  BY <1>1, <1>2, <1>3, <1>4, <1>5, <1>6 DEF Next

LEMMA InitOnRoute == Init => RouteInv
BY DEF Init, RouteInv, OnRoute

\* Every variable keeps its type.
THEOREM TypeCorrect == Spec => []TypeOK
<1>1. TypeOK /\ RouteInv /\ [Next]_vars => (TypeOK /\ RouteInv)'
  BY NextType, NextOnRoute
<1>2. Init => TypeOK /\ RouteInv
  BY InitType, InitOnRoute
<1>3. QED
  BY <1>1, <1>2, PTL DEF Spec

---------------------------------------------------------------------------
\* What a decision does to the calls that notice it.
LEMMA DecisionNoticed ==
  ASSUME TypeOK, Noticed, NEW p \in Overcharged, NEW verdict \in {"approved", "denied"},
         Decided(p, verdict), call' = call, \A t \in Threads : pc[t] = "idle" => pc'[t] = "idle"
  PROVE  Noticed' /\ stood \subseteq stood'
<1>1. stood \subseteq stood'
  BY DEF Decided
<1>2. ASSUME NEW t \in Threads, call[t].of \in Overcharged,
             requests'[call[t].of] = "approved", pc[t] # "idle"
      PROVE  t \in stood'
  <2>1. CASE call[t].of = p
    BY <1>2, <2>1 DEF Decided
  <2>2. CASE call[t].of # p
    <3>1. requests'[call[t].of] = requests[call[t].of]
      BY <1>2, <2>2 DEF Decided, TypeOK
    <3>2. QED
      BY <1>1, <1>2, <3>1 DEF Noticed
  <2>3. QED
    BY <2>1, <2>2
<1>3. QED
  BY <1>1, <1>2 DEF Noticed

\* Only the gate lets a call of act1 through to the payment.
LEMMA StepClear ==
  ASSUME TypeOK, RouteInv, Noticed, NEW t \in Threads, Step(t), Clear(t),
         pc'[t] \in {"sign", "move"}, call[t].route = "act1"
  PROVE  /\ call[t].of \in Overcharged
         /\ Fee[call[t].of] > Threshold => t \in stood
<1>1. OnRoute(t) /\ Services \cap {"act1", "payouts", "checkout", "assign"} = {}
  BY StrAssumption DEF RouteInv
<1>2. CASE GateOpens(t)
  BY <1>1, <1>2 DEF GateOpens, OnRoute, requires_approval, Noticed
<1>3. CASE Sign(t)
  BY <1>3 DEF Sign, Clear
<1>4. CASE Allowed(t) \/ Denied(t) \/ Connected(t)
  BY <1>1, <1>4 DEF Allowed, Denied, Connected, OnRoute, GoTo, Conclude, TypeOK
<1>5. CASE GateCloses(t) \/ GateAsks(t) \/ Approve(t)
  BY <1>5 DEF GateCloses, GateAsks, Approve, GoTo, Conclude, TypeOK
<1>6. CASE Uncached(t) \/ CacheAccount(t) \/ OpenAccount(t)
  BY <1>6 DEF Uncached, CacheAccount, OpenAccount, GoTo, TypeOK
<1>7. CASE Move(t) \/ MoveFails(t) \/ Record(t)
  BY <1>7 DEF Move, MoveFails, Record, NextMember, MembersLeft, GoTo, Conclude, TypeOK
<1>8. CASE AuditFails(t) \/ Earn(t) \/ EarnMounted(t) \/ Count(t) \/ Reply(t)
  BY <1>8 DEF AuditFails, Unlogged, Earn, EarnMounted, Earned, Count, Reply, GoTo, Conclude, TypeOK
<1>9. QED
  BY <1>2, <1>3, <1>4, <1>5, <1>6, <1>7, <1>8 DEF Step

\* A step of a thread keeps what the calls noticed, and takes nothing back.
LEMMA StepNoticed ==
  ASSUME TypeOK, RouteInv, Noticed, NEW t \in Threads, Step(t)
  PROVE  Noticed' /\ stood \subseteq stood'
<1>1. call' = call /\ \A u \in Threads \ {t} : pc'[u] = pc[u]
  BY StepMoves
<1>2. pc[t] # "idle"
  BY DEF Step, Allowed, Denied, GateOpens, GateCloses, GateAsks, Approve, Uncached,
     CacheAccount, OpenAccount, Connected, Sign, Move, MoveFails, Record, AuditFails,
     Earn, EarnMounted, Earned,
     Count, Reply
<1>3. \A u \in Threads : pc[u] = "idle" => pc'[u] = "idle"
  BY <1>1, <1>2
<1>4. CASE GateAsks(t)
  BY <1>1, <1>3, <1>4 DEF GateAsks, Noticed, TypeOK
<1>5. CASE Approve(t)
  <2>1. call[t].of \in Overcharged
    BY <1>5 DEF Approve, RouteInv, OnRoute
  <2>2. Decided(call[t].of, "approved")
    BY <1>5 DEF Approve
  <2>3. QED
    BY <1>1, <1>3, <2>1, <2>2, DecisionNoticed
<1>6. CASE ~GateAsks(t) /\ ~Approve(t)
  <2>1. UNCHANGED gate
    BY <1>6 DEF Step, Allowed, Denied, GateOpens, GateCloses, Uncached, CacheAccount,
       OpenAccount, Connected, Sign, Move, MoveFails, Record, AuditFails,
       Earn, EarnMounted, Earned, Count, Reply
  <2>2. QED
    BY <1>1, <1>3, <2>1 DEF gate, Noticed
<1>7. QED
  BY <1>4, <1>5, <1>6

LEMMA NextClear == TypeOK /\ RouteInv /\ GateInv /\ [Next]_vars => GateInv'
<1>1. SUFFICES ASSUME TypeOK, RouteInv, GateInv, [Next]_vars PROVE GateInv'
  OBVIOUS
<1>2. Noticed /\ \A u \in Threads : Clear(u)
  BY <1>1 DEF GateInv
<1>3. CASE \E t \in Threads : Step(t)
  <2>1. PICK t \in Threads : Step(t)
    BY <1>3
  <2>2. call' = call /\ \A u \in Threads \ {t} : pc'[u] = pc[u]
    BY <1>1, <2>1, StepMoves
  <2>3. Noticed' /\ stood \subseteq stood'
    BY <1>1, <1>2, <2>1, StepNoticed
  <2>4. Clear(t)'
    <3>1. SUFFICES ASSUME pc'[t] \in {"sign", "move"}, call[t].route = "act1"
          PROVE  /\ call[t].of \in Overcharged
                 /\ Fee[call[t].of] > Threshold => t \in stood'
      BY <2>2 DEF Clear
    <3>2. QED
      BY <1>1, <1>2, <2>1, <2>3, <3>1, StepClear
  <2>5. \A u \in Threads \ {t} : Clear(u)'
    BY <1>2, <2>2, <2>3 DEF Clear
  <2>6. QED
    BY <2>3, <2>4, <2>5 DEF GateInv
<1>4. CASE \E t \in Threads, c \in Calls : Refuse402(t, c) \/ ServeCached(t, c) \/ Accept(t, c)
  <2>1. PICK t \in Threads, c \in Calls :
          Refuse402(t, c) \/ ServeCached(t, c) \/ Accept(t, c)
    BY <1>4
  <2>2. /\ call' = [call EXCEPT ![t] = c] /\ requests' = requests /\ pc[t] = "idle"
        /\ pc' = pc \/ pc' = [pc EXCEPT ![t] = First(c)]
        /\ stood' = IF c.of \in Overcharged /\ requests[c.of] = "approved"
                    THEN stood \cup {t} ELSE stood \ {t}
    BY <2>1 DEF Refuse402, ServeCached, Accept, Arrives
  <2>3. /\ call'[t] = c
        /\ pc'[t] \notin {"sign", "move"} \/ c.route # "act1"
        /\ \A u \in Threads \ {t} : /\ pc'[u] = pc[u] /\ call'[u] = call[u]
                                     /\ (u \in stood <=> u \in stood')
    BY <1>1, <2>2, FirstOnRoute DEF TypeOK
  <2>4. Clear(t)'
    BY <1>1, <2>2, <2>3 DEF Clear, TypeOK
  <2>5. \A u \in Threads \ {t} : Clear(u)'
    BY <1>2, <2>3 DEF Clear
  <2>6. Noticed'
    <3>1. call'[t] = c
      BY <1>1, <2>2 DEF TypeOK
    <3>2. QED
      BY <1>2, <2>2, <2>3, <3>1 DEF Noticed
  <2>7. QED
    BY <2>4, <2>5, <2>6 DEF GateInv
<1>5. CASE \E p \in Overcharged, verdict \in {"approved", "denied"} : Decide(p, verdict)
  <2>1. PICK p \in Overcharged, verdict \in {"approved", "denied"} : Decide(p, verdict)
    BY <1>5
  <2>2. Decided(p, verdict) /\ call' = call /\ pc' = pc
    BY <2>1 DEF Decide, threads
  <2>3. Noticed' /\ stood \subseteq stood'
    BY <1>1, <1>2, <2>2, DecisionNoticed
  <2>4. QED
    BY <1>2, <2>2, <2>3 DEF GateInv, Clear
<1>6. CASE Restart
  BY <1>1, <1>6 DEF Restart, GateInv, Clear, Noticed
<1>7. CASE UNCHANGED vars
  BY <1>1, <1>7 DEF vars, gate, threads, GateInv, Clear, Noticed
<1>8. QED
  BY <1>1, <1>3, <1>4, <1>5, <1>6, <1>7 DEF Next

LEMMA Invariance == Spec => []IInv
<1>1. Init => IInv
  BY InitType, InitOnRoute DEF Init, IInv, GateInv, Clear, Noticed
<1>2. IInv /\ [Next]_vars => IInv'
  BY NextType, NextOnRoute, NextClear DEF IInv
<1>3. QED
  BY <1>1, <1>2, PTL DEF Spec

\* The kinds of job are told apart.
LEMMA JobOfRoute ==
  ASSUME TypeOK, NEW t \in Threads
  PROVE  /\ call[t].route = "act1" => Job(t) = <<"fee", call[t].of>>
         /\ call[t].route = "payouts" => Job(t) = <<"crew", member[t]>>
         /\ call[t].route = "checkout" => Job(t) = <<"card", call[t].of>>
         /\ call[t].route \notin {"act1", "payouts", "checkout"} =>
              Job(t) = <<"reassign", call[t].of>>
<1>1. CASE call[t].route = "act1"
  BY <1>1 DEF Job
<1>2. CASE call[t].route = "payouts"
  BY <1>2 DEF Job
<1>3. CASE call[t].route = "checkout"
  BY <1>3 DEF Job
<1>4. CASE call[t].route \notin {"act1", "payouts", "checkout"}
  BY <1>4 DEF Job
<1>5. QED
  BY <1>1, <1>2, <1>3, <1>4

\* Only Move and MoveFails send money.
LEMMA Sends ==
  ASSUME TypeOK, [Next]_vars, NEW j \in Jobs, moved'[j] # moved[j]
  PROVE  \E t \in Threads : pc[t] = "move" /\ Job(t) = j
<1>1. \A t \in Threads, c \in Calls :
        ~Refuse402(t, c) /\ ~ServeCached(t, c) /\ ~Accept(t, c)
  BY DEF Refuse402, ServeCached, Accept, Arrives, money
<1>2. ~Restart /\ ~UNCHANGED vars
  BY DEF Restart, vars, money
<1>3. \A p \in Overcharged, verdict \in {"approved", "denied"} : ~Decide(p, verdict)
  BY DEF Decide, money
<1>4. PICK t \in Threads : Step(t)
  BY <1>1, <1>2, <1>3 DEF Next
<1>5. Move(t) \/ MoveFails(t)
  BY <1>4 DEF Step, Allowed, Denied, GateOpens, GateCloses, GateAsks, Approve, Uncached, CacheAccount,
     OpenAccount, Connected, Sign, Record, AuditFails, Earn, EarnMounted, Earned, Count, Reply, money
<1>6. pc[t] = "move" /\ moved'[j] = Sent(t)[j]
  BY <1>5 DEF Move, MoveFails
<1>7. Job(t) = j
  BY <1>6 DEF Sent, TypeOK
<1>8. QED
  BY <1>6, <1>7

\* A fee over the threshold is paid only by a call during which the approval of
\* its request stood, whatever people decide and other calls overwrite between
\* this call's read of the gate, its new request and its payment
\* (str_owner_agent.py:279-289, require_approval.py:97-113, 215-220).
THEOREM FeesAreApproved == Spec => PaidOnApproval
<1>1. ASSUME IInv, [Next]_vars, NEW p \in Overcharged,
             moved'[<<"fee", p>>] > moved[<<"fee", p>>], Fee[p] > Threshold
      PROVE  \E t \in stood : pc[t] = "move" /\ Job(t) = <<"fee", p>>
  <2>1. <<"fee", p>> \in Jobs
    BY StrAssumption DEF Jobs
  <2>2. moved'[<<"fee", p>>] # moved[<<"fee", p>>]
    <3>1. moved[<<"fee", p>>] \in Nat
      BY <1>1, <2>1 DEF IInv, TypeOK
    <3>2. QED
      BY <1>1, <3>1
  <2>3. PICK t \in Threads : pc[t] = "move" /\ Job(t) = <<"fee", p>>
    BY <1>1, <2>1, <2>2, Sends DEF IInv
  <2>4. call[t].route = "act1" /\ call[t].of = p
    BY <1>1, <2>3, JobOfRoute DEF IInv
  <2>5. t \in stood
    BY <1>1, <2>3, <2>4 DEF IInv, GateInv, Clear
  <2>6. QED
    BY <2>3, <2>5
<1>2. IInv /\ [Next]_vars =>
        [\A p \in Overcharged :
           moved'[<<"fee", p>>] > moved[<<"fee", p>>] /\ Fee[p] > Threshold
             => \E t \in stood : pc[t] = "move" /\ Job(t) = <<"fee", p>>]_vars
  BY <1>1
<1>3. QED
  BY <1>2, Invariance, PTL DEF Spec, PaidOnApproval

---------------------------------------------------------------------------
\* What Cardinality does to the sets of busy threads.
LEMMA FewerThreads ==
  ASSUME NEW A \in SUBSET Threads, NEW B \in SUBSET A
  PROVE  Cardinality(A) \in Nat /\ Cardinality(B) \in Nat /\ Cardinality(B) <= Cardinality(A)
<1>1. IsFiniteSet(A)
  BY FS_Subset, StrAssumption
<1>2. QED
  BY <1>1, FS_Subset, FS_CardinalityType

LEMMA OneThread ==
  ASSUME NEW A \in SUBSET Threads, NEW t \in Threads
  PROVE  /\ t \notin A => Cardinality(A \cup {t}) = Cardinality(A) + 1
         /\ t \in A => Cardinality(A \ {t}) = Cardinality(A) - 1
<1>1. IsFiniteSet(A)
  BY FS_Subset, StrAssumption
<1>2. QED
  BY <1>1, FS_AddElement, FS_RemoveElement

LEMMA JobStays ==
  ASSUME NEW u \in Threads, call'[u] = call[u], member'[u] = member[u]
  PROVE  Job(u)' = Job(u)
BY DEF Job

LEMMA BusyType ==
  ASSUME NEW j, NEW points
  PROVE  Busy(j, points) \in SUBSET Threads /\ Busy(j, points)' \in SUBSET Threads
BY DEF Busy, At

\* The envelopes of a job cover what moved, with what is about to, and what
\* is recorded, with what may yet be.
Covered(j) ==
  /\ moved[j] + Cardinality(Busy(j, {"move"})) <= signed[j]
  /\ done[j] + Cardinality(Busy(j, {"move", "record"})) <= signed[j]

\* A step that sends and records nothing, and lets no thread in.
LEMMA CoveredOnLeaving ==
  ASSUME TypeOK, NEW j \in Jobs, Covered(j),
         signed' = signed, moved' = moved, done' = done,
         \A u \in Threads : pc'[u] \in {"move", "record"} =>
           pc'[u] = pc[u] /\ Job(u)' = Job(u)
  PROVE  Covered(j)'
<1>1. Busy(j, {"move"})' \subseteq Busy(j, {"move"})
  BY DEF Busy, At
<1>2. Busy(j, {"move", "record"})' \subseteq Busy(j, {"move", "record"})
  BY DEF Busy, At
<1>3. signed[j] \in Nat /\ moved[j] \in Nat /\ done[j] \in Nat
  BY DEF TypeOK
<1>4. QED
  BY <1>1, <1>2, <1>3, FewerThreads, BusyType DEF Covered

LEMMA CoveredBySign ==
  ASSUME TypeOK, NEW t \in Threads, Sign(t), NEW j \in Jobs, Covered(j)
  PROVE  Covered(j)'
<1>1. \A u \in Threads : Job(u)' = Job(u)
  BY JobStays DEF Sign, GoTo
<1>2. pc[t] = "sign" /\ pc' = [pc EXCEPT ![t] = "move"] /\ moved' = moved /\ done' = done
  BY DEF Sign, GoTo
<1>3. signed[j] \in Nat /\ moved[j] \in Nat /\ done[j] \in Nat
  BY DEF TypeOK
<1>4. /\ Cardinality(Busy(j, {"move"})) \in Nat
      /\ Cardinality(Busy(j, {"move", "record"})) \in Nat
  BY BusyType, FewerThreads
<1>5. CASE j = Job(t)
  <2>1. signed'[j] = signed[j] + 1
    BY <1>5 DEF Sign, TypeOK
  <2>2. /\ Busy(j, {"move"})' = Busy(j, {"move"}) \cup {t}
        /\ Busy(j, {"move", "record"})' = Busy(j, {"move", "record"}) \cup {t}
        /\ t \notin Busy(j, {"move"}) /\ t \notin Busy(j, {"move", "record"})
    BY <1>1, <1>2, <1>5 DEF Busy, At, TypeOK
  <2>3. QED
    BY <1>2, <1>3, <1>4, <2>1, <2>2, OneThread, BusyType DEF Covered
<1>6. CASE j # Job(t)
  <2>1. signed'[j] = signed[j]
    BY <1>6 DEF Sign, TypeOK
  <2>2. /\ Busy(j, {"move"})' = Busy(j, {"move"})
        /\ Busy(j, {"move", "record"})' = Busy(j, {"move", "record"})
    BY <1>1, <1>2, <1>6 DEF Busy, At, TypeOK
  <2>3. QED
    BY <1>2, <2>1, <2>2 DEF Covered
<1>7. QED
  BY <1>5, <1>6

LEMMA CoveredByMove ==
  ASSUME TypeOK, NEW t \in Threads, Move(t) \/ MoveFails(t), NEW j \in Jobs, Covered(j)
  PROVE  Covered(j)'
<1>1. \A u \in Threads : Job(u)' = Job(u)
  BY JobStays DEF Move, MoveFails, GoTo
<1>2. /\ pc[t] = "move" /\ pc' = [pc EXCEPT ![t] = "record"]
      /\ signed' = signed /\ done' = done /\ moved' \in {moved, Sent(t)}
  BY DEF Move, MoveFails, GoTo
<1>3. signed[j] \in Nat /\ moved[j] \in Nat /\ done[j] \in Nat
  BY DEF TypeOK
<1>4. Cardinality(Busy(j, {"move"})) \in Nat
  BY BusyType, FewerThreads
<1>5. Busy(j, {"move", "record"})' = Busy(j, {"move", "record"})
  BY <1>1, <1>2 DEF Busy, At, TypeOK
<1>6. CASE j = Job(t)
  <2>1. moved'[j] <= moved[j] + 1 /\ moved'[j] \in Nat
    BY <1>2, <1>3, <1>6 DEF Sent, TypeOK
  <2>2. Busy(j, {"move"})' = Busy(j, {"move"}) \ {t} /\ t \in Busy(j, {"move"})
    BY <1>1, <1>2, <1>6 DEF Busy, At, TypeOK
  <2>3. QED
    BY <1>2, <1>3, <1>4, <1>5, <2>1, <2>2, OneThread, BusyType DEF Covered
<1>7. CASE j # Job(t)
  <2>1. moved'[j] = moved[j]
    BY <1>2, <1>7 DEF Sent, TypeOK
  <2>2. Busy(j, {"move"})' = Busy(j, {"move"})
    BY <1>1, <1>2, <1>7 DEF Busy, At, TypeOK
  <2>3. QED
    BY <1>2, <1>5, <2>1, <2>2 DEF Covered
<1>8. QED
  BY <1>6, <1>7

LEMMA CoveredByRecord ==
  ASSUME TypeOK, NEW t \in Threads, Record(t), NEW j \in Jobs, Covered(j)
  PROVE  Covered(j)'
<1>1. \A u \in Threads \ {t} : Job(u)' = Job(u) /\ pc'[u] = pc[u]
  BY JobStays, StepMoves DEF Step
<1>2. /\ pc[t] = "record" /\ pc'[t] \in {"sign", "reply"}
      /\ signed' = signed /\ moved' = moved /\ done' = Entered(t)
  BY DEF Record, NextMember, Conclude, TypeOK
<1>3. signed[j] \in Nat /\ moved[j] \in Nat /\ done[j] \in Nat
  BY DEF TypeOK
<1>4. Cardinality(Busy(j, {"move", "record"})) \in Nat
  BY BusyType, FewerThreads
<1>5. Busy(j, {"move"})' = Busy(j, {"move"})
  BY <1>1, <1>2 DEF Busy, At
<1>6. CASE j = Job(t)
  <2>1. done'[j] = done[j] + 1
    BY <1>2, <1>6 DEF Entered, TypeOK
  <2>2. /\ Busy(j, {"move", "record"})' = Busy(j, {"move", "record"}) \ {t}
        /\ t \in Busy(j, {"move", "record"})
    BY <1>1, <1>2, <1>6 DEF Busy, At
  <2>3. QED
    BY <1>2, <1>3, <1>4, <1>5, <2>1, <2>2, OneThread, BusyType DEF Covered
<1>7. CASE j # Job(t)
  <2>1. done'[j] = done[j]
    BY <1>2, <1>7 DEF Entered, TypeOK
  <2>2. Busy(j, {"move", "record"})' = Busy(j, {"move", "record"})
    BY <1>1, <1>2, <1>7 DEF Busy, At
  <2>3. QED
    BY <1>2, <1>5, <2>1, <2>2 DEF Covered
<1>8. QED
  BY <1>6, <1>7

LEMMA NextCovered ==
  ASSUME TypeOK, [Next]_vars, NEW j \in Jobs, Covered(j)
  PROVE  Covered(j)'
<1>1. CASE \E t \in Threads : Step(t)
  <2>1. PICK t \in Threads : Step(t)
    BY <1>1
  <2>2. CASE Sign(t)
    BY <2>2, CoveredBySign
  <2>3. CASE Move(t) \/ MoveFails(t)
    BY <2>3, CoveredByMove
  <2>4. CASE Record(t)
    BY <2>4, CoveredByRecord
  <2>5. CASE ~Sign(t) /\ ~Move(t) /\ ~MoveFails(t) /\ ~Record(t)
    <3>1. signed' = signed /\ moved' = moved /\ done' = done
      BY <2>1, <2>5 DEF Step, Allowed, Denied, GateOpens, GateCloses, GateAsks, Approve, Uncached, CacheAccount,
         OpenAccount, Connected, AuditFails, Earn, EarnMounted, Earned, Count, Reply, money
    <3>2. pc'[t] \notin {"move", "record"} \/ pc'[t] = pc[t]
      BY <2>1, <2>5 DEF Step, Allowed, Denied, GateOpens, GateCloses, GateAsks, Approve, Uncached, CacheAccount,
         OpenAccount, Connected, AuditFails, Unlogged,
         Earn, EarnMounted, Earned, Count, Reply, GoTo, Conclude,
         threads, TypeOK
    <3>3. /\ call' = call
          /\ \A u \in Threads \ {t} : pc'[u] = pc[u] /\ member'[u] = member[u]
      BY <2>1, StepMoves
    <3>4. member' = member
      BY <2>1, <2>5 DEF Step, Allowed, Denied, GateOpens, GateCloses, GateAsks, Approve, Uncached, CacheAccount,
         OpenAccount, Connected, AuditFails, Unlogged,
         Earn, EarnMounted, Earned, Count, Reply, GoTo, Conclude,
         threads
    <3>5. \A u \in Threads : Job(u)' = Job(u)
      BY <3>3, <3>4, JobStays
    <3>6. QED
      BY <3>1, <3>2, <3>3, <3>5, CoveredOnLeaving
  <2>6. QED
    BY <2>2, <2>3, <2>4, <2>5
<1>2. CASE \E t \in Threads, c \in Calls : Refuse402(t, c) \/ ServeCached(t, c) \/ Accept(t, c)
  <2>1. PICK t \in Threads, c \in Calls :
          Refuse402(t, c) \/ ServeCached(t, c) \/ Accept(t, c)
    BY <1>2
  <2>2. /\ pc[t] = "idle" /\ (pc' = pc \/ pc' = [pc EXCEPT ![t] = First(c)])
        /\ call' = [call EXCEPT ![t] = c] /\ member' = [member EXCEPT ![t] = 1]
        /\ signed' = signed /\ moved' = moved /\ done' = done
    BY <2>1 DEF Refuse402, ServeCached, Accept, Arrives, money
  <2>3. pc'[t] \notin {"move", "record"}
    BY <2>2, FirstOnRoute DEF TypeOK
  <2>4. \A u \in Threads \ {t} : pc'[u] = pc[u] /\ Job(u)' = Job(u)
    BY <2>2, JobStays DEF TypeOK
  <2>5. QED
    BY <2>2, <2>3, <2>4, CoveredOnLeaving
<1>3. CASE \E p \in Overcharged, verdict \in {"approved", "denied"} : Decide(p, verdict)
  <2>1. UNCHANGED <<money, threads>>
    BY <1>3 DEF Decide
  <2>2. \A u \in Threads : Job(u)' = Job(u)
    BY <2>1, JobStays DEF threads
  <2>3. QED
    BY <2>1, <2>2, CoveredOnLeaving DEF money, threads
<1>4. CASE Restart
  <2>1. /\ signed' = signed /\ moved' = moved /\ done' = done
        /\ \A u \in Threads : pc'[u] = "idle"
    BY <1>4 DEF Restart
  <2>2. QED
    BY <2>1, CoveredOnLeaving
<1>5. CASE UNCHANGED vars
  <2>1. UNCHANGED <<money, threads>>
    BY <1>5 DEF vars
  <2>2. \A u \in Threads : Job(u)' = Job(u)
    BY <2>1, JobStays DEF threads
  <2>3. QED
    BY <2>1, <2>2, CoveredOnLeaving DEF money, threads
<1>6. QED
  BY <1>1, <1>2, <1>3, <1>4, <1>5 DEF Next

\* Whatever moved had an envelope of its own on record before.
THEOREM EnvelopesFirst == Spec => []EnvelopeFirst
<1>1. Init => EnvelopeFirst
  <2>1. SUFFICES ASSUME Init, NEW j \in Jobs
        PROVE  /\ moved[j] + Cardinality(Busy(j, {"move"})) <= signed[j]
               /\ done[j] + Cardinality(Busy(j, {"move", "record"})) <= signed[j]
    BY DEF EnvelopeFirst
  <2>2. Busy(j, {"move"}) = {} /\ Busy(j, {"move", "record"}) = {}
    BY <2>1 DEF Init, Busy, At
  <2>3. signed[j] = 0 /\ moved[j] = 0 /\ done[j] = 0
    BY <2>1 DEF Init
  <2>4. QED
    BY <2>2, <2>3, FS_EmptySet
<1>2. TypeOK /\ EnvelopeFirst /\ [Next]_vars => EnvelopeFirst'
  <2>1. SUFFICES ASSUME TypeOK, EnvelopeFirst, [Next]_vars PROVE \A j \in Jobs : Covered(j)'
    BY DEF EnvelopeFirst, Covered
  <2>2. QED
    BY <2>1, NextCovered DEF EnvelopeFirst, Covered
<1>3. QED
  BY <1>1, <1>2, TypeCorrect, PTL DEF Spec
---------------------------------------------------------------------------
\* The batches that have paid member m and not yet member n.
Between(m, n) ==
  {t \in Threads : /\ pc[t] \in {"connect", "provision", "account", "sign", "move", "record"}
                   /\ call[t].route = "payouts"
                   /\ m < member[t] /\ member[t] <= n}

PaidTo(m) == done[<<"crew", m>>]

\* Member m is ahead of a later member n by the batches between the two.
Ahead(m, n) == PaidTo(n) + Cardinality(Between(m, n)) <= PaidTo(m)

LEMMA BetweenType ==
  ASSUME NEW m, NEW n
  PROVE  Between(m, n) \in SUBSET Threads /\ Between(m, n)' \in SUBSET Threads
BY DEF Between

LEMMA CrewType ==
  ASSUME TypeOK, NEW m \in 1..CrewSize
  PROVE  <<"crew", m>> \in Jobs /\ PaidTo(m) \in Nat
BY DEF TypeOK, Jobs, PaidTo

\* A step that records nothing, and lets no batch in between.
LEMMA AheadOnLeaving ==
  ASSUME TypeOK, NEW m \in 1..CrewSize, NEW n \in 1..CrewSize, Ahead(m, n),
         done' = done, Between(m, n)' \subseteq Between(m, n)
  PROVE  Ahead(m, n)'
<1>1. PaidTo(m)' = PaidTo(m) /\ PaidTo(n)' = PaidTo(n)
  BY DEF PaidTo
<1>2. Cardinality(Between(m, n)') <= Cardinality(Between(m, n))
  BY BetweenType, FewerThreads
<1>3. /\ Cardinality(Between(m, n)) \in Nat /\ Cardinality(Between(m, n)') \in Nat
      /\ PaidTo(m) \in Nat /\ PaidTo(n) \in Nat
  BY BetweenType, FewerThreads, CrewType
<1>4. QED
  BY <1>1, <1>2, <1>3 DEF Ahead

\* The entry of a member: the batch is now past it.
LEMMA AheadByRecord ==
  ASSUME TypeOK, NEW t \in Threads, Record(t),
         NEW m \in 1..CrewSize, NEW n \in 1..CrewSize, m < n, Ahead(m, n)
  PROVE  Ahead(m, n)'
<1> DEFINE k == member[t]
<1>1. /\ call' = call /\ pc[t] = "record" /\ done' = Entered(t)
      /\ \A u \in Threads \ {t} : pc'[u] = pc[u] /\ member'[u] = member[u]
  BY StepMoves DEF Step, Record
<1>2. /\ k \in 1..CrewSize /\ m \in Nat /\ n \in Nat /\ CrewSize \in Nat
      /\ PaidTo(m) \in Nat /\ PaidTo(n) \in Nat
  <2>1. k \in 1..CrewSize /\ CrewSize \in Nat
    BY StrAssumption DEF TypeOK
  <2>2. PaidTo(m) \in Nat /\ PaidTo(n) \in Nat
    BY CrewType
  <2>3. QED
    BY <2>1, <2>2
<1>3. Cardinality(Between(m, n)) \in Nat
  BY BetweenType, FewerThreads
<1>4. CASE call[t].route # "payouts"
  <2>1. Job(t) # <<"crew", m>> /\ Job(t) # <<"crew", n>>
    BY <1>4, JobOfRoute
  <2>2. PaidTo(m)' = PaidTo(m) /\ PaidTo(n)' = PaidTo(n)
    BY <1>1, <2>1, CrewType DEF Entered, PaidTo, TypeOK
  <2>3. Between(m, n)' = Between(m, n)
    BY <1>1, <1>4 DEF Between
  <2>4. QED
    BY <2>2, <2>3 DEF Ahead
<1>5. CASE call[t].route = "payouts"
  <2>1. \A i \in 1..CrewSize : PaidTo(i)' = IF i = k THEN PaidTo(i) + 1 ELSE PaidTo(i)
    <3>1. Job(t) = <<"crew", k>>
      BY <1>5, JobOfRoute
    <3>2. done' = [done EXCEPT ![<<"crew", k>>] = @ + 1] /\ done \in [Jobs -> Nat]
      BY <1>1, <3>1 DEF Entered, TypeOK
    <3>3. ASSUME NEW i \in 1..CrewSize
          PROVE  PaidTo(i)' = IF i = k THEN PaidTo(i) + 1 ELSE PaidTo(i)
      <4>1. <<"crew", i>> \in Jobs
        BY CrewType
      <4>2. <<"crew", i>> = <<"crew", k>> <=> i = k
        OBVIOUS
      <4>3. QED
        BY <3>2, <4>1, <4>2 DEF PaidTo
    <3>4. QED
      BY <3>3
  <2>2. \/ pc'[t] = "sign" /\ member'[t] = k + 1
        \/ pc'[t] = "reply" /\ k = CrewSize /\ member'[t] = k
    <3>1. CASE NextMember(t)
      BY <3>1 DEF NextMember, TypeOK
    <3>2. CASE ~MembersLeft(t) /\ Conclude(t, "reply", "paid")
      <4>1. ~(k < CrewSize)
        BY <1>5, <3>2 DEF MembersLeft
      <4>2. k = CrewSize
        BY <1>2, <4>1
      <4>3. QED
        BY <3>2, <4>2 DEF Conclude, TypeOK
    <3>3. QED
      BY <3>1, <3>2 DEF Record
  <2>3. t \in Between(m, n) <=> m < k /\ k <= n
    BY <1>1, <1>5 DEF Between
  <2>4. t \in Between(m, n)' <=> m <= k /\ k < n
    BY <1>1, <1>2, <1>5, <2>2 DEF Between
  <2>5. \A u \in Threads \ {t} : u \in Between(m, n)' <=> u \in Between(m, n)
    BY <1>1 DEF Between
  <2>6. CASE k = m
    <3>1. t \notin Between(m, n) /\ Between(m, n)' = Between(m, n) \cup {t}
      BY <1>2, <2>3, <2>4, <2>5, <2>6, BetweenType
    <3>2. Cardinality(Between(m, n)') = Cardinality(Between(m, n)) + 1
      BY <3>1, OneThread, BetweenType
    <3>3. PaidTo(m)' = PaidTo(m) + 1 /\ PaidTo(n)' = PaidTo(n)
      BY <1>2, <2>1, <2>6
    <3>4. QED
      BY <1>2, <1>3, <3>2, <3>3 DEF Ahead
  <2>7. CASE k = n
    <3>1. t \in Between(m, n) /\ Between(m, n)' = Between(m, n) \ {t}
      BY <1>2, <2>3, <2>4, <2>5, <2>7, BetweenType
    <3>2. Cardinality(Between(m, n)') = Cardinality(Between(m, n)) - 1
      BY <3>1, OneThread, BetweenType
    <3>3. PaidTo(m)' = PaidTo(m) /\ PaidTo(n)' = PaidTo(n) + 1
      BY <1>2, <2>1, <2>7
    <3>4. QED
      BY <1>2, <1>3, <3>2, <3>3 DEF Ahead
  <2>8. CASE k # m /\ k # n
    <3>1. Between(m, n)' = Between(m, n)
      BY <1>2, <2>3, <2>4, <2>5, <2>8, BetweenType
    <3>2. PaidTo(m)' = PaidTo(m) /\ PaidTo(n)' = PaidTo(n)
      BY <2>1, <2>8
    <3>3. QED
      BY <3>1, <3>2 DEF Ahead
  <2>9. QED
    BY <2>6, <2>7, <2>8
<1>6. QED
  BY <1>4, <1>5

LEMMA NextAhead ==
  ASSUME TypeOK, RouteInv, [Next]_vars, NEW m \in 1..CrewSize, NEW n \in 1..CrewSize,
         m < n, Ahead(m, n)
  PROVE  Ahead(m, n)'
<1>1. CASE \E t \in Threads : Record(t)
  BY <1>1, AheadByRecord
<1>2. ASSUME NEW t \in Threads, Step(t), ~Record(t)
      PROVE  Ahead(m, n)'
  <2>1. done' = done
    BY <1>2 DEF Step, Allowed, Denied, GateOpens, GateCloses, GateAsks, Approve, Uncached, CacheAccount,
       OpenAccount, Connected, Sign, Move, MoveFails, AuditFails,
       Earn, EarnMounted, Earned, Count, Reply,
       money
  <2>2. call' = call /\ \A u \in Threads \ {t} : pc'[u] = pc[u] /\ member'[u] = member[u]
    BY <1>2, StepMoves
  <2>3. member' = member
    BY <1>2 DEF Step, Allowed, Denied, GateOpens, GateCloses, GateAsks, Approve, Uncached, CacheAccount,
       OpenAccount, Connected, Sign, Move, MoveFails, AuditFails, Unlogged,
       Earn, EarnMounted, Earned, Count,
       Reply, GoTo, Conclude, threads
  <2>4. call[t].route = "payouts" /\ pc'[t] \in {"connect", "provision", "account", "sign", "move", "record"} =>
          pc[t] \in {"connect", "provision", "account", "sign", "move", "record"}
    <3>1. OnRoute(t) /\ "payouts" \notin Services
      BY StrAssumption DEF RouteInv
    <3>2. CASE Allowed(t) \/ GateOpens(t) \/ GateCloses(t) \/ GateAsks(t) \/ Approve(t)
      BY <3>1, <3>2 DEF Allowed, GateOpens, GateCloses, GateAsks, Approve, OnRoute
    <3>3. CASE Denied(t) \/ AuditFails(t) \/ Earn(t) \/ EarnMounted(t) \/ Count(t)
               \/ Reply(t)
      BY <3>3 DEF Denied, AuditFails, Unlogged, Earn, EarnMounted, Earned, Count, Reply, GoTo,
         Conclude, TypeOK
    <3>4. CASE \/ Uncached(t) \/ CacheAccount(t) \/ OpenAccount(t) \/ Connected(t)
               \/ Sign(t) \/ Move(t) \/ MoveFails(t)
      BY <3>4 DEF Uncached, CacheAccount, OpenAccount, Connected, Sign, Move, MoveFails
    <3>5. QED
      BY <1>2, <3>2, <3>3, <3>4 DEF Step
  <2>5. Between(m, n)' \subseteq Between(m, n)
    BY <2>2, <2>3, <2>4 DEF Between
  <2>6. QED
    BY <2>1, <2>5, AheadOnLeaving
<1>3. ASSUME NEW t \in Threads, NEW c \in Calls,
             Refuse402(t, c) \/ ServeCached(t, c) \/ Accept(t, c)
      PROVE  Ahead(m, n)'
  <2>1. /\ pc[t] = "idle" /\ done' = done /\ member' = [member EXCEPT ![t] = 1]
        /\ call' = [call EXCEPT ![t] = c]
        /\ \A u \in Threads \ {t} : pc'[u] = pc[u]
    BY <1>3 DEF Refuse402, ServeCached, Accept, Arrives, money, TypeOK
  <2>2. t \notin Between(m, n)'
    <3>1. member'[t] = 1
      BY <2>1 DEF TypeOK
    <3>2. QED
      BY <3>1, StrAssumption DEF Between
  <2>3. \A u \in Threads \ {t} : member'[u] = member[u] /\ call'[u] = call[u]
    BY <2>1 DEF TypeOK
  <2>4. Between(m, n)' \subseteq Between(m, n)
    BY <2>1, <2>2, <2>3 DEF Between
  <2>5. QED
    BY <2>1, <2>4, AheadOnLeaving
<1>4. CASE \E p \in Overcharged, verdict \in {"approved", "denied"} : Decide(p, verdict)
  <2>1. done' = done /\ Between(m, n)' = Between(m, n)
    BY <1>4 DEF Decide, money, threads, Between
  <2>2. QED
    BY <2>1, AheadOnLeaving
<1>5. CASE Restart
  <2>1. done' = done /\ Between(m, n)' = {}
    BY <1>5 DEF Restart, Between
  <2>2. QED
    BY <2>1, AheadOnLeaving
<1>6. CASE UNCHANGED vars
  <2>1. done' = done /\ Between(m, n)' = Between(m, n)
    BY <1>6 DEF vars, money, threads, Between
  <2>2. QED
    BY <2>1, AheadOnLeaving
<1>7. QED
  BY <1>1, <1>2, <1>3, <1>4, <1>5, <1>6 DEF Next

\* Cut short, repeated or run at once with another, no batch of payouts gets
\* ahead on a later member of the crew (payouts.py:120-124).
THEOREM BatchesInOrder == Spec => []BatchInOrder
<1> DEFINE Inv == \A m, n \in 1..CrewSize : m < n => Ahead(m, n)
<1>1. Init => Inv
  <2>1. SUFFICES ASSUME Init, NEW m \in 1..CrewSize, NEW n \in 1..CrewSize
                 PROVE  Ahead(m, n)
    OBVIOUS
  <2>2. Between(m, n) = {}
    BY <2>1 DEF Init, Between
  <2>3. PaidTo(m) = 0 /\ PaidTo(n) = 0
    BY <2>1, InitType, CrewType DEF Init, PaidTo
  <2>4. QED
    BY <2>2, <2>3, FS_EmptySet DEF Ahead
<1>2. IInv /\ Inv /\ [Next]_vars => Inv'
  BY NextAhead DEF IInv
<1>3. IInv /\ Inv => BatchInOrder
  <2> USE DEF IInv
  <2>1. SUFFICES ASSUME IInv, Inv, NEW m \in 1..CrewSize, NEW n \in 1..CrewSize, m < n
                 PROVE  done[<<"crew", n>>] <= done[<<"crew", m>>]
    BY DEF BatchInOrder
  <2>2. Ahead(m, n) /\ PaidTo(m) \in Nat /\ PaidTo(n) \in Nat
    BY <2>1, CrewType
  <2>3. Cardinality(Between(m, n)) \in Nat
    BY BetweenType, FewerThreads
  <2>4. QED
    BY <2>2, <2>3 DEF Ahead, PaidTo
<1>4. QED
  BY <1>1, <1>2, <1>3, Invariance, PTL DEF Spec
---------------------------------------------------------------------------
\* A job's books are out by no more than its mishaps allow.
Gap(j) == moved[j] - done[j] - Cardinality(Busy(j, {"record"}))
GapBounded(j) == Gap(j) \in -mishaps..(mishaps * Cardinality(Threads))

\* A mishap widens the bounds by one below and by the threads above.
LEMMA Widen ==
  ASSUME NEW m \in Nat, NEW n \in Nat, NEW g \in Int, NEW h \in Int, g \in -m..(m * n)
  PROVE  h \in (g - 1)..(g + n) => h \in -(m + 1)..((m + 1) * n)
<1>1. (m + 1) * n = m * n + n /\ m * n \in Nat
  OBVIOUS
<1>2. PICK k \in Nat : k = m * n
  BY <1>1
<1>3. QED
  BY <1>1, <1>2

LEMMA ThreadsCount == Cardinality(Threads) \in Nat
BY StrAssumption, FS_CardinalityType

LEMMA GapType ==
  ASSUME TypeOK, NEW j \in Jobs
  PROVE  /\ moved[j] \in Nat /\ done[j] \in Nat /\ mishaps \in Nat
         /\ Cardinality(Busy(j, {"record"})) \in Nat
         /\ Cardinality(Busy(j, {"record"})) <= Cardinality(Threads)
         /\ Gap(j) \in Int
<1>1. moved[j] \in Nat /\ done[j] \in Nat /\ mishaps \in Nat
  BY StrAssumption DEF TypeOK
<1>2. /\ Cardinality(Busy(j, {"record"})) \in Nat
      /\ Cardinality(Busy(j, {"record"})) <= Cardinality(Threads)
  BY BusyType, FewerThreads
<1>3. QED
  BY <1>1, <1>2 DEF Gap

\* Steps that move and record nothing: a thread drops out by a mishap only.
LEMMA GapKept ==
  ASSUME TypeOK, TypeOK', NEW j \in Jobs, GapBounded(j), moved' = moved, done' = done,
         \/ Busy(j, {"record"})' = Busy(j, {"record"}) /\ mishaps' \in {mishaps, mishaps + 1}
         \/ Busy(j, {"record"})' \subseteq Busy(j, {"record"}) /\ mishaps' = mishaps + 1
  PROVE  GapBounded(j)'
<1>1. PICK b, c : b = Busy(j, {"record"}) /\ c = Busy(j, {"record"})'
  OBVIOUS
<1>2. PICK g \in Int : g = Gap(j)
  BY GapType
<1>3. PICK h : h = Gap(j)'
  OBVIOUS
<1>4. /\ Cardinality(b) \in Nat /\ Cardinality(c) \in Nat
      /\ Cardinality(b) <= Cardinality(Threads) /\ Cardinality(c) <= Cardinality(b)
      /\ Cardinality(Threads) \in Nat
  <2>1. b \in SUBSET Threads /\ c \in SUBSET b
    BY <1>1, BusyType
  <2>2. QED
    BY <2>1, FewerThreads, ThreadsCount
<1>5. moved[j] \in Nat /\ done[j] \in Nat /\ mishaps \in Nat
  BY GapType
<1>6. g = moved[j] - done[j] - Cardinality(b) /\ h = moved[j] - done[j] - Cardinality(c)
  BY <1>1, <1>2, <1>3 DEF Gap
<1>7. h \in Int /\ h \in g..(g + Cardinality(Threads)) /\ (b = c => h = g)
  BY <1>4, <1>5, <1>6
<1>8. g \in -mishaps..(mishaps * Cardinality(Threads))
  BY <1>2 DEF GapBounded
<1>9. CASE mishaps' = mishaps + 1
  <2>1. h \in (g - 1)..(g + Cardinality(Threads))
    BY <1>4, <1>7
  <2>2. h \in -(mishaps + 1)..((mishaps + 1) * Cardinality(Threads))
    BY <1>4, <1>5, <1>7, <1>8, <2>1, Widen
  <2>3. QED
    BY <1>3, <1>9, <2>2 DEF GapBounded
<1>10. CASE mishaps' = mishaps /\ b = c
  BY <1>3, <1>7, <1>8, <1>10 DEF GapBounded
<1>11. QED
  BY <1>1, <1>9, <1>10

\* A transfer, made or cut off, and its entry.
LEMMA GapByMove ==
  ASSUME TypeOK, TypeOK', NEW t \in Threads, Move(t) \/ MoveFails(t), NEW j \in Jobs,
         GapBounded(j)
  PROVE  GapBounded(j)'
<1>1. \A u \in Threads : Job(u)' = Job(u)
  BY JobStays DEF Move, MoveFails, GoTo
<1>2. /\ pc[t] = "move" /\ pc' = [pc EXCEPT ![t] = "record"]
      /\ done' = done
      /\ \/ moved' = Sent(t) /\ mishaps' \in {mishaps, mishaps + 1}
         \/ moved' = moved /\ mishaps' = mishaps + 1
  BY DEF Move, MoveFails, GoTo, Mishap
<1>3. CASE j = Job(t)
  <2>1. Busy(j, {"record"})' = Busy(j, {"record"}) \cup {t} /\ t \notin Busy(j, {"record"})
    BY <1>1, <1>2, <1>3 DEF Busy, At, TypeOK
  <2>2. PICK n \in Nat, m \in Nat : n = Cardinality(Busy(j, {"record"})) /\ m = mishaps
    BY GapType
  <2>3. Cardinality(Busy(j, {"record"}))' = n + 1
    BY <2>1, <2>2, OneThread, BusyType
  <2>4. PICK p \in Nat, d \in Nat : p = moved[j] /\ d = done[j]
    BY GapType
  <2>5. /\ Gap(j) = p - d - n
        /\ Gap(j)' = moved'[j] - d - (n + 1)
    BY <1>2, <2>2, <2>3, <2>4 DEF Gap
  <2>6. p - d - n \in -m..(m * Cardinality(Threads))
    BY <2>2, <2>5 DEF GapBounded
  <2>7. CASE moved'[j] = p + 1 /\ mishaps' = mishaps
    <3>1. Gap(j)' = p - d - n
      BY <2>5, <2>7
    <3>2. QED
      BY <2>2, <2>6, <2>7, <3>1 DEF GapBounded
  <2>8. CASE moved'[j] \in {p, p + 1} /\ mishaps' = mishaps + 1
    <3>1. PICK h \in Int : h = Gap(j)'
      BY <2>5, <2>8
    <3>2. h \in (p - d - n - 1)..(p - d - n + Cardinality(Threads))
      BY <2>5, <2>8, <3>1, ThreadsCount
    <3>3. h \in -(m + 1)..((m + 1) * Cardinality(Threads))
      BY <2>6, <3>2, ThreadsCount, Widen
    <3>4. QED
      BY <2>2, <2>8, <3>1, <3>3 DEF GapBounded
  <2>9. Sent(t)[j] = p + 1
    BY <1>3, <2>4 DEF Sent, TypeOK
  <2>10. QED
    BY <1>2, <2>4, <2>7, <2>8, <2>9
<1>4. CASE j # Job(t)
  <2>1. moved'[j] = moved[j]
    BY <1>2, <1>4 DEF Sent, TypeOK
  <2>2. Busy(j, {"record"})' = Busy(j, {"record"})
    BY <1>1, <1>2, <1>4 DEF Busy, At, TypeOK
  <2>3. Gap(j)' = Gap(j)
    BY <1>2, <2>1, <2>2 DEF Gap
  <2>4. PICK g \in Int, m \in Nat : g = Gap(j) /\ m = mishaps
    BY GapType
  <2>5. g \in -m..(m * Cardinality(Threads))
    BY <2>4 DEF GapBounded
  <2>6. g \in (g - 1)..(g + Cardinality(Threads))
    BY ThreadsCount
  <2>7. g \in -(m + 1)..((m + 1) * Cardinality(Threads))
    BY <2>5, <2>6, ThreadsCount, Widen
  <2>8. QED
    BY <1>2, <2>3, <2>4, <2>5, <2>7 DEF GapBounded
<1>5. QED
  BY <1>3, <1>4

LEMMA GapByRecord ==
  ASSUME TypeOK, NEW t \in Threads, Record(t), NEW j \in Jobs, GapBounded(j)
  PROVE  GapBounded(j)'
<1>1. \A u \in Threads \ {t} : Job(u)' = Job(u) /\ pc'[u] = pc[u]
  BY JobStays, StepMoves DEF Step
<1>2. /\ pc[t] = "record" /\ pc'[t] \in {"sign", "reply"}
      /\ moved' = moved /\ done' = Entered(t) /\ mishaps' = mishaps
  BY DEF Record, NextMember, Conclude, TypeOK
<1>3. Gap(j)' = Gap(j)
  <2>1. PICK n \in Nat, p \in Nat, d \in Nat :
          n = Cardinality(Busy(j, {"record"})) /\ p = moved[j] /\ d = done[j]
    BY GapType
  <2>2. CASE j = Job(t)
    <3>1. Busy(j, {"record"})' = Busy(j, {"record"}) \ {t} /\ t \in Busy(j, {"record"})
      BY <1>1, <1>2, <2>2 DEF Busy, At
    <3>2. Cardinality(Busy(j, {"record"}))' = n - 1
      BY <2>1, <3>1, OneThread, BusyType
    <3>3. done'[j] = d + 1
      BY <1>2, <2>1, <2>2 DEF Entered, TypeOK
    <3>4. QED
      BY <1>2, <2>1, <3>2, <3>3 DEF Gap
  <2>3. CASE j # Job(t)
    <3>1. done'[j] = done[j]
      BY <1>2, <2>3 DEF Entered, TypeOK
    <3>2. Busy(j, {"record"})' = Busy(j, {"record"})
      BY <1>1, <1>2, <2>3 DEF Busy, At
    <3>3. QED
      BY <1>2, <3>1, <3>2 DEF Gap
  <2>4. QED
    BY <2>2, <2>3
<1>4. QED
  BY <1>2, <1>3 DEF GapBounded

LEMMA NextGap ==
  ASSUME TypeOK, TypeOK', [Next]_vars, NEW j \in Jobs, GapBounded(j)
  PROVE  GapBounded(j)'
<1>1. ASSUME NEW t \in Threads, Step(t) PROVE GapBounded(j)'
  <2>1. CASE Move(t) \/ MoveFails(t)
    BY <2>1, GapByMove
  <2>2. CASE Record(t)
    BY <2>2, GapByRecord
  <2>3. CASE ~Move(t) /\ ~MoveFails(t) /\ ~Record(t)
    <3>1. /\ moved' = moved /\ done' = done
          /\ pc'[t] # "record" /\ (pc[t] = "record" => AuditFails(t))
          /\ mishaps' \in {mishaps, mishaps + 1}
          /\ AuditFails(t) => mishaps' = mishaps + 1
      BY <1>1, <2>3 DEF Step, Allowed, Denied, GateOpens, GateCloses, GateAsks, Approve, Uncached, CacheAccount,
         OpenAccount, Connected, Sign, AuditFails, Unlogged,
         Earn, EarnMounted, Earned, Count, Reply, GoTo,
         Conclude, Mishap, money, threads, TypeOK
    <3>2. /\ call' = call /\ \A u \in Threads \ {t} : pc'[u] = pc[u] /\ member'[u] = member[u]
      BY <1>1, StepMoves
    <3>3. \A u \in Threads \ {t} : Job(u)' = Job(u)
      BY <3>2, JobStays
    <3>4. /\ Busy(j, {"record"})' \subseteq Busy(j, {"record"})
          /\ pc[t] # "record" => Busy(j, {"record"})' = Busy(j, {"record"})
      BY <3>1, <3>2, <3>3 DEF Busy, At
    <3>5. QED
      BY <3>1, <3>4, GapKept
  <2>4. QED
    BY <2>1, <2>2, <2>3
<1>2. ASSUME NEW t \in Threads, NEW c \in Calls,
             Refuse402(t, c) \/ ServeCached(t, c) \/ Accept(t, c)
      PROVE  GapBounded(j)'
  <2>1. /\ pc[t] = "idle" /\ (pc' = pc \/ pc' = [pc EXCEPT ![t] = First(c)])
        /\ call' = [call EXCEPT ![t] = c] /\ member' = [member EXCEPT ![t] = 1]
        /\ moved' = moved /\ done' = done /\ mishaps' = mishaps
    BY <1>2 DEF Refuse402, ServeCached, Accept, Arrives, money
  <2>2. pc'[t] # "record"
    BY <2>1, FirstOnRoute DEF TypeOK
  <2>3. \A u \in Threads \ {t} : pc'[u] = pc[u] /\ Job(u)' = Job(u)
    BY <2>1, JobStays DEF TypeOK
  <2>4. Busy(j, {"record"})' = Busy(j, {"record"})
    BY <2>1, <2>2, <2>3 DEF Busy, At
  <2>5. QED
    BY <2>1, <2>4, GapKept
<1>3. CASE \/ \E p \in Overcharged, verdict \in {"approved", "denied"} : Decide(p, verdict)
           \/ UNCHANGED vars
  <2>1. UNCHANGED <<money, threads, mishaps>>
    BY <1>3 DEF Decide, vars
  <2>2. \A u \in Threads : Job(u)' = Job(u)
    BY <2>1, JobStays DEF threads
  <2>3. Busy(j, {"record"})' = Busy(j, {"record"})
    BY <2>1, <2>2 DEF Busy, At, threads
  <2>4. QED
    BY <2>1, <2>3, GapKept DEF money
<1>4. CASE Restart
  <2>1. /\ moved' = moved /\ done' = done /\ mishaps' = mishaps + 1
        /\ \A u \in Threads : pc'[u] = "idle"
    BY <1>4 DEF Restart, Mishap
  <2>2. Busy(j, {"record"})' \subseteq Busy(j, {"record"})
    BY <2>1 DEF Busy, At
  <2>3. QED
    BY <2>1, <2>2, GapKept
<1>5. QED
  BY <1>1, <1>2, <1>3, <1>4 DEF Next

\* An account is cached and not on record for every mishap at most.
Opening == {owner[t] : t \in At({"account"})}
Missing == accounts \ (opened \cup Opening)
AccountsInv == IsFiniteSet(accounts) /\ Cardinality(Missing) <= mishaps

LEMMA NextAccounts ==
  ASSUME TypeOK, [Next]_vars, AccountsInv
  PROVE  AccountsInv'
<1>1. mishaps \in Nat
  BY StrAssumption DEF TypeOK
<1>2. PICK a, p : a = Missing /\ p = Missing'
  OBVIOUS
<1>3. IsFiniteSet(a) /\ Cardinality(a) \in Nat /\ Cardinality(a) <= mishaps
  <2>1. a \subseteq accounts
    BY <1>2 DEF Missing
  <2>2. QED
    BY <1>2, <2>1, FS_Subset, FS_CardinalityType DEF AccountsInv
<1>4. ASSUME p \subseteq a, IsFiniteSet(accounts'), mishaps' \in {mishaps, mishaps + 1}
      PROVE  AccountsInv'
  <2>1. Cardinality(p) <= Cardinality(a) /\ IsFiniteSet(p)
    BY <1>3, <1>4, FS_Subset
  <2>2. Cardinality(p) \in Nat
    BY <2>1, FS_CardinalityType
  <2>3. QED
    BY <1>1, <1>2, <1>3, <1>4, <2>1, <2>2 DEF AccountsInv
<1>5. ASSUME NEW o, p \subseteq a \cup {o}, IsFiniteSet(accounts'), mishaps' = mishaps + 1
      PROVE  AccountsInv'
  <2>1. PICK q : q = a \cup {o}
    OBVIOUS
  <2>2. IsFiniteSet(q) /\ Cardinality(q) <= Cardinality(a) + 1
    <3>1. /\ IsFiniteSet(q)
          /\ Cardinality(q) = IF o \in a THEN Cardinality(a) ELSE Cardinality(a) + 1
      BY <1>3, <2>1, FS_AddElement
    <3>2. QED
      BY <1>3, <3>1
  <2>3. Cardinality(p) <= Cardinality(q) /\ IsFiniteSet(p)
    BY <1>5, <2>1, <2>2, FS_Subset
  <2>4. Cardinality(p) \in Nat /\ Cardinality(q) \in Nat
    BY <2>2, <2>3, FS_CardinalityType
  <2>5. Cardinality(p) <= mishaps + 1
    BY <1>1, <1>3, <2>2, <2>3, <2>4
  <2>6. QED
    BY <1>2, <1>5, <2>5 DEF AccountsInv
<1>6. ASSUME UNCHANGED <<accounts, opened>>, Opening \subseteq Opening',
             mishaps' \in {mishaps, mishaps + 1}
      PROVE  AccountsInv'
  <2>1. p \subseteq a
    BY <1>2, <1>6 DEF Missing
  <2>2. QED
    BY <1>4, <1>6, <2>1 DEF AccountsInv
<1>7. CASE Restart
  <2>1. accounts' = {} /\ mishaps' = mishaps + 1
    BY <1>7 DEF Restart, Mishap
  <2>2. p \subseteq a
    BY <1>2, <2>1 DEF Missing
  <2>3. IsFiniteSet(accounts')
    BY <2>1, FS_EmptySet
  <2>4. QED
    BY <1>4, <2>1, <2>2, <2>3
<1>8. ASSUME NEW t \in Threads, Step(t) PROVE AccountsInv'
  <2>1. \A u \in Threads \ {t} : pc'[u] = pc[u] /\ owner'[u] = owner[u]
    BY <1>8 DEF TypeOK, Step, Allowed, Denied, GateOpens, GateCloses, GateAsks, Approve,
       Uncached, CacheAccount, OpenAccount, Connected, Sign, Move, MoveFails, Record,
       NextMember, AuditFails, Unlogged, Earn, EarnMounted, Earned, Count, Reply, GoTo, Conclude
  <2>2. CASE CacheAccount(t)
    <3>1. /\ accounts' = accounts \cup {owner[t]} /\ opened' = opened /\ mishaps' = mishaps
          /\ pc[t] = "provision" /\ pc'[t] = "account" /\ owner' = owner
      BY <2>2 DEF CacheAccount, GoTo, TypeOK
    <3>2. Opening \cup {owner[t]} \subseteq Opening'
      BY <2>1, <3>1 DEF Opening, At
    <3>3. p \subseteq a
      BY <1>2, <3>1, <3>2 DEF Missing
    <3>4. IsFiniteSet(accounts')
      BY <3>1, FS_AddElement DEF AccountsInv
    <3>5. QED
      BY <1>4, <3>1, <3>3, <3>4
  <2>3. CASE OpenAccount(t)
    <3>1. /\ accounts' = accounts /\ opened' = opened \cup {owner[t]} /\ mishaps' = mishaps
          /\ owner' = owner
      BY <2>3 DEF OpenAccount, GoTo
    <3>2. Opening \subseteq Opening' \cup {owner[t]}
      BY <2>1, <3>1 DEF Opening, At
    <3>3. p \subseteq a
      BY <1>2, <3>1, <3>2 DEF Missing
    <3>4. QED
      BY <1>4, <3>1, <3>3 DEF AccountsInv
  <2>4. CASE AuditFails(t)
    <3>1. /\ accounts' = accounts /\ opened' = opened /\ mishaps' = mishaps + 1
          /\ owner' = owner
      BY <2>4 DEF AuditFails, Unlogged, Conclude, Mishap, money
    <3>2. Opening \subseteq Opening' \cup {owner[t]}
      BY <2>1, <3>1 DEF Opening, At
    <3>3. p \subseteq a \cup {owner[t]}
      BY <1>2, <3>1, <3>2 DEF Missing
    <3>4. QED
      BY <1>5, <3>1, <3>3 DEF AccountsInv
  <2>5. CASE ~CacheAccount(t) /\ ~OpenAccount(t) /\ ~AuditFails(t)
    <3>1. /\ UNCHANGED <<accounts, opened>> /\ mishaps' \in {mishaps, mishaps + 1}
          /\ pc[t] # "account"
      BY <1>8, <2>5 DEF Step, Allowed, Denied, GateOpens, GateCloses, GateAsks, Approve,
         Uncached, Connected, Sign, Move, MoveFails, Record,
         Earn, EarnMounted, Earned, Count, Reply, Mishap, money
    <3>2. Opening \subseteq Opening'
      BY <2>1, <3>1 DEF Opening, At
    <3>3. QED
      BY <1>6, <3>1, <3>2
  <2>6. QED
    BY <2>2, <2>3, <2>4, <2>5
<1>9. ASSUME NEW t \in Threads, NEW c \in Calls,
             Refuse402(t, c) \/ ServeCached(t, c) \/ Accept(t, c)
      PROVE  AccountsInv'
  <2>1. /\ UNCHANGED <<accounts, opened, owner, mishaps>> /\ pc[t] = "idle"
        /\ \A u \in Threads \ {t} : pc'[u] = pc[u]
    BY <1>9 DEF Refuse402, ServeCached, Accept, Arrives, money, TypeOK
  <2>2. Opening \subseteq Opening'
    BY <2>1 DEF Opening, At
  <2>3. QED
    BY <1>6, <2>1, <2>2
<1>10. CASE \/ \E p1 \in Overcharged, verdict \in {"approved", "denied"} : Decide(p1, verdict)
            \/ UNCHANGED vars
  <2>1. UNCHANGED <<accounts, opened, owner, pc, mishaps>>
    BY <1>10 DEF Decide, vars, money, threads
  <2>2. Opening' = Opening
    BY <2>1 DEF Opening, At
  <2>3. QED
    BY <1>6, <2>1, <2>2
<1>11. QED
  BY <1>7, <1>8, <1>9, <1>10 DEF Next

\* What was sent and what is on record as sent, and the accounts that are
\* cached and those that are or are about to be on record, differ by no more
\* than the faults account for, with any threads between a write to the cache
\* and the append
\* (str_owner_agent.py:242-257, payouts.py:60-92, connect.py:53-75).
THEOREM BooksKeepMatching == Spec => []BooksMatch
<1> DEFINE Inv == (\A j \in Jobs : GapBounded(j)) /\ AccountsInv
<1>1. Init => Inv
  <2> SUFFICES ASSUME Init PROVE Inv
    OBVIOUS
  <2>1. mishaps = 0 /\ accounts = {} /\ Missing = {}
    BY DEF Init, Missing
  <2>2. AccountsInv
    BY <2>1, FS_EmptySet DEF AccountsInv
  <2>3. ASSUME NEW j \in Jobs PROVE GapBounded(j)
    <3>1. moved[j] = 0 /\ done[j] = 0 /\ Busy(j, {"record"}) = {}
      BY DEF Init, Busy, At
    <3>2. Gap(j) = 0
      BY <3>1, FS_EmptySet DEF Gap
    <3>3. QED
      BY <2>1, <3>2, ThreadsCount DEF GapBounded
  <2>4. QED
    BY <2>2, <2>3
<1>2. TypeOK /\ TypeOK' /\ Inv /\ [Next]_vars => Inv'
  <2> SUFFICES ASSUME TypeOK, TypeOK', Inv, [Next]_vars PROVE Inv'
    OBVIOUS
  <2>1. ASSUME NEW j \in Jobs PROVE GapBounded(j)'
    BY NextGap
  <2>2. QED
    BY <2>1, NextAccounts DEF Jobs
<1>3. Inv => BooksMatch
  BY DEF GapBounded, Gap, AccountsInv, Missing, Opening, BooksMatch
<1>4. QED
  BY <1>1, <1>2, <1>3, TypeCorrect, PTL DEF Spec

---------------------------------------------------------------------------
\* The earn events of this process for a service.
New(s) == earned["str"][s] - carried[s]

\* Answers of a service that the cache can serve again, and threads that are
\* about to put one there.
Sellable(s) == {k \in DOMAIN cache : k[1] = s /\ cache[k][2] = "served"}
Selling(t) ==
  \/ pc[t] = "count"
  \/ pc[t] = "reply" /\ call[t].live /\ answer[t][2] = "served"
Serving(s) == {t \in Threads : call[t].route = s /\ Selling(t)}

Backed(s) == Cardinality(Sellable(s)) + Cardinality(Serving(s)) <= New(s)

CacheInv == IsFiniteSet(DOMAIN cache) /\ \A s \in Services : Backed(s)

LEMMA NewType ==
  ASSUME TypeOK
  PROVE  \A s \in Services : New(s) \in Int
BY DEF TypeOK, New, Doors

\* No more answers, and no fewer earn events.
LEMMA BackedOnLeaving ==
  ASSUME TypeOK, IsFiniteSet(DOMAIN cache), NEW s \in Services, Backed(s),
         Sellable(s)' \subseteq Sellable(s), Serving(s)' \subseteq Serving(s),
         New(s)' = New(s)
  PROVE  Backed(s)'
<1>1. PICK a, b, v, w : /\ a = Sellable(s) /\ b = Sellable(s)'
                        /\ v = Serving(s) /\ w = Serving(s)'
  OBVIOUS
<1>2. b \subseteq a /\ w \subseteq v /\ a \subseteq DOMAIN cache /\ v \subseteq Threads
  BY <1>1 DEF Sellable, Serving
<1>3. IsFiniteSet(a)
  BY <1>2, FS_Subset
<1>4. /\ Cardinality(a) \in Nat /\ Cardinality(b) \in Nat
      /\ Cardinality(b) <= Cardinality(a)
  BY <1>2, <1>3, FS_Subset, FS_CardinalityType
<1>5. /\ Cardinality(v) \in Nat /\ Cardinality(w) \in Nat
      /\ Cardinality(w) <= Cardinality(v)
  BY <1>2, FewerThreads
<1>6. PICK n \in Int : n = New(s) /\ n = New(s)'
  BY NewType
<1>7. Cardinality(a) + Cardinality(v) <= n
  BY <1>1, <1>6 DEF Backed
<1>8. Cardinality(b) + Cardinality(w) <= n
  BY <1>4, <1>5, <1>6, <1>7
<1>9. QED
  BY <1>1, <1>6, <1>8 DEF Backed

\* Only the thread that steps changes its answer.
LEMMA StepAnswers ==
  ASSUME TypeOK, NEW t \in Threads, Step(t)
  PROVE  \A u \in Threads \ {t} : answer'[u] = answer[u]
BY DEF TypeOK, Step, Allowed, Denied, GateOpens, GateCloses, GateAsks, Approve, Uncached, CacheAccount,
   OpenAccount, Connected, Sign, Move, MoveFails, Record, NextMember, AuditFails, Unlogged,
   Earn, EarnMounted, Earned, Count, Reply, GoTo, Conclude, threads

LEMMA BackedByEarn ==
  ASSUME TypeOK, RouteInv, NEW t \in Threads, Earn(t) \/ EarnMounted(t), IsFiniteSet(DOMAIN cache),
         NEW s \in Services, Backed(s)
  PROVE  Backed(s)'
<1>1. /\ pc[t] = "earn" /\ call[t].route \in Services /\ call[t].door \in Doors
      /\ call[t].live => call[t].door = "str"
  <2>1. pc[t] = "earn" /\ call[t] \in Calls
    BY DEF Earn, EarnMounted, Earned, TypeOK
  <2>2. QED
    BY <2>1, RequestFields, StrAssumption DEF RouteInv, OnRoute, Plausible
<1>2. /\ call' = call /\ cache' = cache /\ carried' = carried
      /\ earned' = [earned EXCEPT ![call[t].door][call[t].route] = @ + 1]
      /\ \A u \in Threads \ {t} : pc'[u] = pc[u] /\ answer'[u] = answer[u]
  BY StepMoves, StepAnswers DEF Step, Earn, EarnMounted, Earned, GoTo, Conclude
<1>3. /\ pc'[t] = IF call[t].door = "str" THEN "count" ELSE "reply"
      /\ t \notin Serving(s)
  BY <1>1 DEF Earn, EarnMounted, Earned, GoTo, Conclude, TypeOK, Serving, Selling
<1>4. Sellable(s)' = Sellable(s)
  BY <1>2 DEF Sellable
<1>5. CASE call[t].door = "str" /\ call[t].route = s
  <2>1. New(s)' = New(s) + 1
    BY <1>1, <1>2, <1>5 DEF New, TypeOK
  <2>2. Serving(s)' = Serving(s) \cup {t}
    BY <1>2, <1>3, <1>5 DEF Serving, Selling
  <2>3. PICK a, v : a = Sellable(s) /\ v = Serving(s)
    OBVIOUS
  <2>4. Cardinality(a) \in Nat
    BY <2>3, FS_Subset, FS_CardinalityType DEF Sellable
  <2>5. v \in SUBSET Threads /\ t \notin v
    BY <1>3, <2>3 DEF Serving
  <2>6. Cardinality(v) \in Nat /\ Cardinality(v \cup {t}) = Cardinality(v) + 1
    BY <2>5, FewerThreads, OneThread
  <2>7. PICK n \in Int : n = New(s)
    BY NewType
  <2>8. Cardinality(a) + Cardinality(v) <= n
    BY <2>3, <2>7 DEF Backed
  <2>9. Cardinality(a) + Cardinality(v \cup {t}) <= n + 1
    BY <2>4, <2>6, <2>7, <2>8
  <2>10. QED
    BY <1>4, <2>1, <2>2, <2>3, <2>7, <2>9 DEF Backed
<1>6. CASE call[t].door # "str" \/ call[t].route # s
  <2>1. New(s)' = New(s)
    BY <1>1, <1>2, <1>6 DEF New, TypeOK, Doors
  <2>2. t \notin Serving(s)'
    BY <1>1, <1>2, <1>3, <1>6 DEF Serving, Selling
  <2>3. Serving(s)' \subseteq Serving(s)
    BY <1>2, <2>2 DEF Serving, Selling
  <2>4. QED
    BY <1>4, <2>1, <2>3, BackedOnLeaving
<1>7. QED
  BY <1>5, <1>6

LEMMA BackedByReply ==
  ASSUME TypeOK, NEW t \in Threads, Reply(t), IsFiniteSet(DOMAIN cache),
         NEW s \in Services, Backed(s)
  PROVE  Backed(s)'
<1>1. /\ pc[t] = "reply" /\ pc'[t] = "idle" /\ call' = call
      /\ \A u \in Threads \ {t} : pc'[u] = pc[u] /\ answer'[u] = answer[u]
      /\ New(s)' = New(s)
  <2>1. \A u \in Threads \ {t} : pc'[u] = pc[u] /\ answer'[u] = answer[u]
    BY StepMoves, StepAnswers DEF Step
  <2>2. QED
    BY <2>1 DEF Reply, GoTo, New, till, TypeOK
<1>2. Serving(s)' \subseteq Serving(s) /\ t \notin Serving(s)'
  BY <1>1 DEF Serving, Selling
<1>3. PICK k : k = Key(call[t])
  OBVIOUS
<1>4. CASE ~(call[t].live /\ call[t].route = s /\ answer[t][2] = "served")
  <2>1. Sellable(s)' \subseteq Sellable(s)
    <3>1. CASE ~call[t].live
      BY <3>1 DEF Reply, Sellable
    <3>2. CASE call[t].live
      <4>1. k[1] = call[t].route
        BY <1>3 DEF Key
      <4>2. cache' = [x \in DOMAIN cache \cup {k} |-> IF x = k THEN answer[t] ELSE cache[x]]
        BY <1>3, <3>2 DEF Reply
      <4>3. QED
        BY <1>4, <3>2, <4>1, <4>2 DEF Sellable
    <3>3. QED
      BY <3>1, <3>2
  <2>2. QED
    BY <1>1, <1>2, <2>1, BackedOnLeaving
<1>5. CASE call[t].live /\ call[t].route = s /\ answer[t][2] = "served"
  <2>1. cache' = [x \in DOMAIN cache \cup {k} |-> IF x = k THEN answer[t] ELSE cache[x]]
    BY <1>3, <1>5 DEF Reply
  <2>2. PICK a, b, v, w : /\ a = Sellable(s) /\ b = Sellable(s)'
                          /\ v = Serving(s) /\ w = Serving(s)'
    OBVIOUS
  <2>3. b \subseteq a \cup {k}
    BY <2>1, <2>2 DEF Sellable
  <2>4. IsFiniteSet(a)
    BY <2>2, FS_Subset DEF Sellable
  <2>5. PICK c : c = a \cup {k}
    OBVIOUS
  <2>6. /\ IsFiniteSet(c)
        /\ Cardinality(c) = IF k \in a THEN Cardinality(a) ELSE Cardinality(a) + 1
    BY <2>4, <2>5, FS_AddElement
  <2>7. /\ Cardinality(a) \in Nat /\ Cardinality(b) \in Nat /\ Cardinality(c) \in Nat
        /\ Cardinality(b) <= Cardinality(c)
    BY <2>3, <2>4, <2>5, <2>6, FS_Subset, FS_CardinalityType
  <2>8. t \in v /\ w \subseteq v \ {t} /\ v \in SUBSET Threads
    BY <1>1, <1>2, <1>5, <2>2 DEF Serving, Selling
  <2>9. /\ Cardinality(v \ {t}) = Cardinality(v) - 1
        /\ Cardinality(v) \in Nat /\ Cardinality(w) \in Nat
        /\ Cardinality(w) <= Cardinality(v \ {t})
    <3>1. v \ {t} \in SUBSET Threads /\ w \in SUBSET (v \ {t})
      BY <2>8
    <3>2. QED
      BY <2>8, <3>1, FewerThreads, OneThread
  <2>10. PICK n \in Int : n = New(s) /\ n = New(s)'
    BY <1>1, NewType
  <2>11. Cardinality(a) + Cardinality(v) <= n
    BY <2>2, <2>10 DEF Backed
  <2>12. Cardinality(b) + Cardinality(w) <= n
    BY <2>6, <2>7, <2>9, <2>10, <2>11
  <2>13. QED
    BY <2>2, <2>10, <2>12 DEF Backed
<1>6. QED
  BY <1>4, <1>5

LEMMA NextBacked ==
  ASSUME TypeOK, RouteInv, [Next]_vars, IsFiniteSet(DOMAIN cache),
         NEW s \in Services, Backed(s)
  PROVE  Backed(s)'
<1>1. ASSUME NEW t \in Threads, Step(t) PROVE Backed(s)'
  <2>1. CASE Earn(t) \/ EarnMounted(t)
    BY <2>1, BackedByEarn
  <2>2. CASE Reply(t)
    BY <2>2, BackedByReply
  <2>3. CASE ~Earn(t) /\ ~EarnMounted(t) /\ ~Reply(t)
    <3>1. /\ cache' = cache /\ earned' = earned /\ carried' = carried
          /\ pc'[t] # "count"
          /\ pc'[t] = "reply" /\ answer'[t][2] = "served" => pc[t] = "count"
      <4>1. CASE Allowed(t) \/ Denied(t) \/ GateOpens(t) \/ GateCloses(t) \/ GateAsks(t) \/ Approve(t)
        <5>1. /\ UNCHANGED <<till, cache>>
              /\ \/ \E at \in Points \ {"count", "reply"} : GoTo(t, at)
                 \/ \E at \in {"idle", "reply"}, how \in {"denied", "held", "error"} :
                      Conclude(t, at, how)
          <6>1. CASE Allowed(t) \/ GateOpens(t) \/ Approve(t)
            BY <6>1 DEF Allowed, GateOpens, Approve, Points
          <6>2. CASE Denied(t)
            BY <6>2 DEF Denied
          <6>3. CASE GateCloses(t) \/ GateAsks(t)
            BY <6>3 DEF GateCloses, GateAsks, Points
          <6>4. QED
            BY <4>1, <6>1, <6>2, <6>3
        <5>2. QED
          BY <5>1 DEF GoTo, Conclude, till, TypeOK
      <4>2. CASE \/ Uncached(t) \/ CacheAccount(t) \/ OpenAccount(t) \/ Connected(t)
                 \/ Sign(t) \/ Move(t) \/ MoveFails(t)
        BY <4>2 DEF Uncached, CacheAccount, OpenAccount, Connected, Sign, Move, MoveFails, GoTo,
           Conclude, till, threads, TypeOK
      <4>3. CASE Record(t) \/ AuditFails(t)
        BY <4>3 DEF Record, NextMember, AuditFails, Unlogged, Conclude, till, TypeOK
      <4>4. CASE Count(t)
        BY <4>4 DEF Count, Conclude, till, TypeOK
      <4>5. QED
        BY <1>1, <2>3, <4>1, <4>2, <4>3, <4>4 DEF Step
    <3>2. /\ call' = call
          /\ \A u \in Threads \ {t} : pc'[u] = pc[u] /\ answer'[u] = answer[u]
      BY <1>1, StepMoves, StepAnswers
    <3>3. Serving(s)' \subseteq Serving(s)
      BY <3>1, <3>2 DEF Serving, Selling
    <3>4. Sellable(s)' = Sellable(s) /\ New(s)' = New(s)
      BY <3>1 DEF Sellable, New
    <3>5. QED
      BY <3>3, <3>4, BackedOnLeaving
  <2>4. QED
    BY <2>1, <2>2, <2>3
<1>2. ASSUME NEW t \in Threads, NEW c \in Calls,
             Refuse402(t, c) \/ ServeCached(t, c) \/ Accept(t, c)
      PROVE  Backed(s)'
  <2>1. /\ pc[t] = "idle" /\ call' = [call EXCEPT ![t] = c]
        /\ UNCHANGED <<till, cache>>
        /\ \A u \in Threads \ {t} : pc'[u] = pc[u] /\ answer'[u] = answer[u]
    BY <1>2 DEF Refuse402, ServeCached, Accept, Arrives, TypeOK
  <2>2. /\ pc'[t] # "count"
        /\ pc'[t] = "reply" => answer'[t][2] # "served"
    <3>1. CASE pc' = pc
      BY <2>1, <3>1
    <3>2. CASE Accept(t, c)
      BY <3>2, FirstOnRoute DEF Accept, TypeOK
    <3>3. QED
      BY <1>2, <3>1, <3>2 DEF Refuse402, ServeCached
  <2>3. Serving(s)' \subseteq Serving(s)
    BY <2>1, <2>2 DEF Serving, Selling, TypeOK
  <2>4. Sellable(s)' = Sellable(s) /\ New(s)' = New(s)
    BY <2>1 DEF Sellable, New, till
  <2>5. QED
    BY <2>3, <2>4, BackedOnLeaving
<1>3. CASE \/ \E p \in Overcharged, verdict \in {"approved", "denied"} : Decide(p, verdict)
           \/ UNCHANGED vars
  <2>1. UNCHANGED <<till, cache, threads>>
    BY <1>3 DEF Decide, vars
  <2>2. /\ Sellable(s)' = Sellable(s) /\ New(s)' = New(s)
        /\ Serving(s)' = Serving(s)
    BY <2>1 DEF Sellable, New, Serving, Selling, till, threads
  <2>3. QED
    BY <2>2, BackedOnLeaving
<1>4. CASE Restart
  <2>1. /\ cache' = <<>> /\ carried' = earned["str"] /\ earned' = earned
        /\ \A u \in Threads : pc'[u] = "idle"
    BY <1>4 DEF Restart
  <2>2. Sellable(s)' = {} /\ Serving(s)' = {}
    BY <2>1 DEF Sellable, Serving, Selling
  <2>3. New(s)' = 0
    BY <2>1 DEF New, TypeOK, Doors
  <2>4. QED
    BY <2>2, <2>3, FS_EmptySet DEF Backed
<1>5. QED
  BY <1>1, <1>2, <1>3, <1>4 DEF Next

\* The cache holds finitely many answers.
LEMMA NextCacheFinite ==
  ASSUME [Next]_vars, IsFiniteSet(DOMAIN cache)
  PROVE  IsFiniteSet(DOMAIN cache')
<1>1. CASE cache' = cache
  BY <1>1
<1>2. ASSUME NEW t \in Threads, Reply(t), cache' # cache
      PROVE  IsFiniteSet(DOMAIN cache')
  <2>1. PICK d, k : d = DOMAIN cache /\ k = Key(call[t])
    OBVIOUS
  <2>2. DOMAIN cache' = d \cup {k}
    BY <1>2, <2>1 DEF Reply
  <2>3. QED
    BY <2>1, <2>2, FS_AddElement
<1>3. CASE Restart
  <2>1. DOMAIN cache' = {}
    BY <1>3 DEF Restart
  <2>2. QED
    BY <2>1, FS_EmptySet
<1>4. cache' = cache \/ Restart \/ \E t \in Threads : Reply(t)
  <2>1. ASSUME NEW t \in Threads, Step(t), ~Reply(t) PROVE cache' = cache
    BY <2>1 DEF Step, Allowed, Denied, GateOpens, GateCloses, GateAsks, Approve, Uncached,
       CacheAccount, OpenAccount, Connected, Sign, Move, MoveFails, Record, AuditFails,
       Earn, EarnMounted, Earned,
       Count
  <2>2. ASSUME NEW t \in Threads, NEW c \in Calls,
               Refuse402(t, c) \/ ServeCached(t, c) \/ Accept(t, c)
        PROVE  cache' = cache
    BY <2>2 DEF Refuse402, ServeCached, Accept, Arrives
  <2>3. ASSUME NEW p \in Overcharged, NEW verdict \in {"approved", "denied"},
               Decide(p, verdict)
        PROVE  cache' = cache
    BY <2>3 DEF Decide
  <2>4. QED
    BY <2>1, <2>2, <2>3 DEF Next, vars
<1>5. QED
  BY <1>1, <1>2, <1>3, <1>4

\* Of every service, the live cache can serve again no more answers than this
\* process has earn events for (str_acts.py:75-81, platform_agent.py:185-193).
THEOREM CachedAnswersWereSold == Spec => []CachedWasSold
<1>1. Init => CacheInv
  <2> SUFFICES ASSUME Init PROVE CacheInv
    OBVIOUS
  <2>1. DOMAIN cache = {} /\ \A t \in Threads : pc[t] = "idle"
    BY DEF Init
  <2>2. ASSUME NEW s \in Services PROVE Backed(s)
    <3>1. Sellable(s) = {} /\ Serving(s) = {} /\ New(s) = 0
      BY <2>1 DEF Init, NoEvents, Doors, Sellable, Serving, Selling, New
    <3>2. QED
      BY <3>1, FS_EmptySet DEF Backed
  <2>3. QED
    BY <2>1, <2>2, FS_EmptySet DEF CacheInv
<1>2. TypeOK /\ RouteInv /\ CacheInv /\ [Next]_vars => CacheInv'
  <2> SUFFICES ASSUME TypeOK, RouteInv, CacheInv, [Next]_vars PROVE CacheInv'
    OBVIOUS
  <2>1. ASSUME NEW s \in Services PROVE Backed(s)'
    BY NextBacked DEF CacheInv
  <2>2. QED
    BY <2>1, NextCacheFinite DEF CacheInv, Services
<1>3. TypeOK /\ CacheInv => CachedWasSold
  <2> SUFFICES ASSUME TypeOK, CacheInv, NEW s \in Services
               PROVE  Cardinality(Sellable(s)) <= New(s)
    BY DEF CachedWasSold, Sellable, New
  <2>1. PICK a, v : a = Sellable(s) /\ v = Serving(s)
    OBVIOUS
  <2>2. Cardinality(a) \in Nat
    BY <2>1, FS_Subset, FS_CardinalityType DEF Sellable, CacheInv
  <2>3. Cardinality(v) \in Nat
    BY <2>1, FewerThreads DEF Serving
  <2>4. Cardinality(a) + Cardinality(v) <= New(s) /\ New(s) \in Int
    BY <2>1, NewType DEF CacheInv, Backed
  <2>5. QED
    BY <2>1, <2>2, <2>3, <2>4
<1>4. Spec => [](TypeOK /\ RouteInv)
  BY Invariance, PTL DEF IInv
<1>5. QED
  BY <1>1, <1>2, <1>3, <1>4, PTL DEF Spec

---------------------------------------------------------------------------
\* What MetricsMatchEvents compares: the calls that await their count, the
\* events of this process with their worth, and what is still to be counted.
Late == At({"count"})
Events == [s \in Services |-> New(s)]
Worth == [s \in Services |-> Price[s] * Events[s]]
Owed == [t \in Late |-> Price[call[t].route]]

MetricsInv ==
  /\ metrics.calls_served + Cardinality(Late) = SumFunctionOnSet(Events, Services)
  /\ metrics.revenue_earned_cents + SumFunctionOnSet(Owed, Late)
       = SumFunctionOnSet(Worth, Services)

LEMMA MetricsTypes ==
  ASSUME TypeOK, RouteInv
  PROVE  /\ IsFiniteSet(Services) /\ IsFiniteSet(Late) /\ Late \in SUBSET Threads
         /\ Cardinality(Late) \in Nat
         /\ metrics.calls_served \in Nat /\ metrics.revenue_earned_cents \in Nat
         /\ \A t \in Late : Owed[t] \in Nat /\ Owed[t] = Price[call[t].route]
         /\ \A s \in Services : /\ Price[s] \in Nat /\ Events[s] \in Int /\ Worth[s] \in Int
                                /\ Events[s] = New(s) /\ Worth[s] = Price[s] * New(s)
         /\ SumFunctionOnSet(Events, Services) \in Int
         /\ SumFunctionOnSet(Worth, Services) \in Int
         /\ SumFunctionOnSet(Owed, Late) \in Int
<1>1. Late \in SUBSET Threads /\ IsFiniteSet(Services) /\ Price \in [Services -> Nat]
  BY StrAssumption DEF Late, At
<1>2. IsFiniteSet(Late) /\ Cardinality(Late) \in Nat
  BY <1>1, FewerThreads, StrAssumption, FS_Subset
<1>3. \A t \in Late : Owed[t] \in Nat /\ Owed[t] = Price[call[t].route]
  <2>1. \A t \in Late : call[t].route \in Services
    BY DEF Late, At, RouteInv, OnRoute
  <2>2. QED
    BY <1>1, <2>1 DEF Owed
<1>4. \A s \in Services : /\ Price[s] \in Nat /\ Events[s] \in Int /\ Worth[s] \in Int
                          /\ Events[s] = New(s) /\ Worth[s] = Price[s] * New(s)
  <2>1. ASSUME NEW s \in Services
        PROVE  Price[s] \in Nat /\ Events[s] \in Int /\ Events[s] = New(s)
    BY <1>1, NewType DEF Events
  <2>2. ASSUME NEW s \in Services
        PROVE  Worth[s] \in Int /\ Worth[s] = Price[s] * New(s)
    <3>1. PICK p \in Int, n \in Int : p = Price[s] /\ n = Events[s]
      BY <2>1
    <3>2. Worth[s] = p * n
      BY <3>1 DEF Worth
    <3>3. p * n \in Int
      OBVIOUS
    <3>4. QED
      BY <2>1, <3>1, <3>2, <3>3
  <2>3. QED
    BY <2>1, <2>2
<1>5. metrics.calls_served \in Nat /\ metrics.revenue_earned_cents \in Nat
  BY DEF TypeOK
<1>6. /\ SumFunctionOnSet(Events, Services) \in Int
      /\ SumFunctionOnSet(Worth, Services) \in Int
      /\ SumFunctionOnSet(Owed, Late) \in Int
  <2>1. \A f, S : IsFiniteSet(S) /\ (\A x \in S : f[x] \in Int)
                    => SumFunctionOnSet(f, S) \in Int
    BY SumRemove
  <2>2. \A x \in Late : Owed[x] \in Int
    BY <1>3
  <2>3. QED
    BY <1>1, <1>2, <1>4, <2>1, <2>2
<1>7. QED
  BY <1>1, <1>2, <1>3, <1>4, <1>5, <1>6

\* The metrics, the events and the calls that await their count all stay.
LEMMA MetricsKept ==
  ASSUME MetricsInv, UNCHANGED till, Late' = Late,
         \A t \in Late : call'[t] = call[t]
  PROVE  MetricsInv'
<1>1. Events' = Events /\ Worth' = Worth
  BY DEF Events, Worth, New, till
<1>2. Owed' = Owed
  BY DEF Owed
<1>3. QED
  BY <1>1, <1>2 DEF MetricsInv, till, Services

\* A thread that comes to await its count, or leaves off.
LEMMA OneMoreOwed ==
  ASSUME NEW A \in SUBSET Threads, NEW t \in Threads, t \notin A, NEW f, NEW g,
         \A u \in A \cup {t} : g[u] \in Int,
         \A u \in A : f[u] = g[u]
  PROVE  SumFunctionOnSet(g, A \cup {t}) = SumFunctionOnSet(f, A) + g[t]
<1>1. IsFiniteSet(A)
  BY StrAssumption, FS_Subset
<1>2. SumFunctionOnSet(g, A \cup {t}) = SumFunctionOnSet(g, A) + g[t]
  BY <1>1, SumAdd
<1>3. SumFunctionOnSet(f, A) = SumFunctionOnSet(g, A)
  BY <1>1, SumSame
<1>4. QED
  BY <1>2, <1>3

LEMMA MetricsByEarn ==
  ASSUME TypeOK, RouteInv, TypeOK', RouteInv', MetricsInv, NEW t \in Threads, Earn(t) \/ EarnMounted(t)
  PROVE  MetricsInv'
<1>1. /\ pc[t] = "earn" /\ call[t].route \in Services /\ call[t].door \in Doors
      /\ pc'[t] = IF call[t].door = "str" THEN "count" ELSE "reply"
      /\ call' = call /\ \A u \in Threads \ {t} : pc'[u] = pc[u]
      /\ metrics' = metrics /\ carried' = carried
      /\ earned' = [earned EXCEPT ![call[t].door][call[t].route] = @ + 1]
  <2>1. call[t].route \in Services /\ call[t].door \in Doors
    BY RequestFields DEF Earn, EarnMounted, Earned, RouteInv, OnRoute, TypeOK
  <2>2. QED
    BY <2>1, StepMoves DEF Step, Earn, EarnMounted, Earned, GoTo, Conclude, TypeOK
<1>2. t \notin Late
  BY <1>1 DEF Late, At
<1>3. CASE call[t].door # "str"
  <2>1. Late' = Late
    BY <1>1, <1>3 DEF Late, At
  <2>2. earned'["str"] = earned["str"]
    BY <1>1, <1>3 DEF TypeOK, Doors
  <2>3. Events' = Events
    BY <1>1, <2>2 DEF Events, New
  <2>4. Worth' = Worth /\ Owed' = Owed
    BY <1>1, <2>1, <2>3 DEF Worth, Owed
  <2>5. QED
    BY <1>1, <2>1, <2>3, <2>4 DEF MetricsInv, Services
<1>4. CASE call[t].door = "str"
  <2>1. PICK s \in Services : s = call[t].route
    BY <1>1
  <2>2. Late' = Late \cup {t}
    BY <1>1, <1>4 DEF Late, At
  <2>3. /\ New(s)' = New(s) + 1
        /\ \A r \in Services \ {s} : New(r)' = New(r)
    <3>1. earned["str"] \in [Services -> Nat] /\ carried \in [Services -> Nat]
      BY DEF TypeOK, Doors
    <3>2. earned'["str"] = [earned["str"] EXCEPT ![s] = @ + 1] /\ carried' = carried
      BY <1>1, <1>4, <2>1 DEF TypeOK, Doors
    <3>3. QED
      BY <3>1, <3>2 DEF New
  <2>4. PICK A, e, f, w, x, o, q :
          /\ A = Late /\ e = Events /\ f = Events' /\ w = Worth /\ x = Worth'
          /\ o = Owed /\ q = Owed'
    OBVIOUS
  <2>5. /\ \A r \in Services : /\ e[r] \in Int /\ w[r] \in Int /\ Price[r] \in Int
                               /\ e[r] = New(r) /\ w[r] = Price[r] * New(r)
        /\ IsFiniteSet(Services) /\ A \in SUBSET Threads
    BY <2>4, MetricsTypes
  <2>6. /\ \A r \in Services : /\ f[r] \in Int /\ x[r] \in Int
                               /\ f[r] = New(r)' /\ x[r] = Price[r] * New(r)'
        /\ \A u \in A \cup {t} : q[u] \in Int /\ q[u] = Price[call[u].route]
    <3>1. \A r \in Services : New(r)' \in Int
      BY <2>3, NewType
    <3>2. f = [r \in Services |-> New(r)'] /\ x = [r \in Services |-> Price[r] * f[r]]
      BY <2>4 DEF Events, Worth, Services
    <3>3. ASSUME NEW r \in Services
          PROVE  /\ f[r] \in Int /\ x[r] \in Int
                 /\ f[r] = New(r)' /\ x[r] = Price[r] * New(r)'
      <4>1. f[r] = New(r)' /\ x[r] = Price[r] * f[r]
        BY <3>2
      <4>2. PICK p \in Int, n \in Int : p = Price[r] /\ n = New(r)'
        BY <2>5, <3>1
      <4>3. p * n \in Int
        OBVIOUS
      <4>4. QED
        BY <4>1, <4>2, <4>3
    <3>4. q = [u \in A \cup {t} |-> Price[call[u].route]]
      BY <1>1, <2>2, <2>4 DEF Owed
    <3>5. ASSUME NEW u \in A \cup {t} PROVE q[u] \in Int /\ q[u] = Price[call[u].route]
      <4>1. call[u].route \in Services
        BY <1>1, <2>4 DEF Late, At, RouteInv, OnRoute
      <4>2. QED
        BY <2>5, <3>4, <4>1
    <3>6. QED
      BY <3>3, <3>5
  <2>7. /\ \A u \in A : o[u] = Price[call[u].route]
        /\ Cardinality(A) \in Nat
        /\ SumFunctionOnSet(e, Services) \in Int /\ SumFunctionOnSet(w, Services) \in Int
        /\ SumFunctionOnSet(o, A) \in Int
    BY <2>4, MetricsTypes
  <2>8. SumFunctionOnSet(q, A \cup {t}) = SumFunctionOnSet(o, A) + q[t] /\ q[t] = Price[s]
    <3>1. \A u \in A : o[u] = q[u]
      BY <2>6, <2>7
    <3>2. t \notin A
      BY <1>2, <2>4
    <3>3. QED
      BY <2>1, <2>5, <2>6, <3>1, <3>2, OneMoreOwed
  <2>9. /\ \A r \in Services : r # s => e[r] = f[r] /\ w[r] = x[r]
        /\ f[s] - e[s] = 1 /\ x[s] - w[s] = Price[s]
    <3>1. \A r \in Services : r # s => e[r] = f[r] /\ w[r] = x[r]
      BY <2>3, <2>5, <2>6
    <3>2. PICK n \in Int, p \in Int : n = New(s) /\ p = Price[s]
      BY <2>5
    <3>3. f[s] = n + 1 /\ e[s] = n /\ x[s] = p * (n + 1) /\ w[s] = p * n
      BY <2>3, <2>5, <2>6, <3>2
    <3>4. p * (n + 1) - p * n = p
      OBVIOUS
    <3>5. QED
      BY <3>1, <3>2, <3>3, <3>4
  <2>10. SumFunctionOnSet(f, Services) = SumFunctionOnSet(e, Services) + 1
    <3>1. /\ \A r \in Services : e[r] \in Int /\ f[r] \in Int
          /\ \A r \in Services : r # s => e[r] = f[r]
          /\ IsFiniteSet(Services)
      BY <2>5, <2>6, <2>9
    <3>2. SumFunctionOnSet(f, Services) = SumFunctionOnSet(e, Services) + (f[s] - e[s])
      BY <3>1, SumChange
    <3>3. QED
      BY <2>9, <3>2
  <2>11. SumFunctionOnSet(x, Services) = SumFunctionOnSet(w, Services) + Price[s]
    <3>1. /\ \A r \in Services : w[r] \in Int /\ x[r] \in Int
          /\ \A r \in Services : r # s => w[r] = x[r]
          /\ IsFiniteSet(Services)
      BY <2>5, <2>6, <2>9
    <3>2. SumFunctionOnSet(x, Services) = SumFunctionOnSet(w, Services) + (x[s] - w[s])
      BY <3>1, SumChange
    <3>3. QED
      BY <2>9, <3>2
  <2>12. Cardinality(A \cup {t}) = Cardinality(A) + 1
    BY <1>2, <2>4, <2>5, OneThread
  <2>13. /\ metrics.calls_served + Cardinality(A) = SumFunctionOnSet(e, Services)
         /\ metrics.revenue_earned_cents + SumFunctionOnSet(o, A)
              = SumFunctionOnSet(w, Services)
         /\ metrics.calls_served \in Nat /\ metrics.revenue_earned_cents \in Nat
    BY <2>4, MetricsTypes DEF MetricsInv
  <2>14. /\ metrics.calls_served + Cardinality(A \cup {t}) = SumFunctionOnSet(f, Services)
         /\ metrics.revenue_earned_cents + SumFunctionOnSet(q, A \cup {t})
              = SumFunctionOnSet(x, Services)
    <3>1. PICK a \in Nat, m \in Nat, n \in Nat, i \in Int, j \in Int, k \in Int :
            /\ a = Cardinality(A) /\ m = metrics.calls_served
            /\ n = metrics.revenue_earned_cents
            /\ i = SumFunctionOnSet(e, Services) /\ j = SumFunctionOnSet(w, Services)
            /\ k = SumFunctionOnSet(o, A)
      BY <2>7, <2>13
    <3>2. m + a = i /\ n + k = j /\ Price[s] \in Int
      BY <2>5, <2>13, <3>1
    <3>3. m + (a + 1) = i + 1 /\ n + (k + Price[s]) = j + Price[s]
      BY <3>1, <3>2
    <3>4. QED
      BY <2>8, <2>10, <2>11, <2>12, <3>1, <3>3
  <2>15. QED
    BY <1>1, <2>2, <2>4, <2>14 DEF MetricsInv, Services
<1>5. QED
  BY <1>3, <1>4

LEMMA MetricsByCount ==
  ASSUME TypeOK, RouteInv, MetricsInv, NEW t \in Threads, Count(t)
  PROVE  MetricsInv'
<1>1. /\ pc[t] = "count" /\ pc'[t] = "reply" /\ call' = call
      /\ \A u \in Threads \ {t} : pc'[u] = pc[u]
      /\ earned' = earned /\ carried' = carried
      /\ metrics' = [calls_served |-> metrics.calls_served + 1,
                     revenue_earned_cents |-> metrics.revenue_earned_cents
                                                + Price[call[t].route]]
  BY StepMoves DEF Step, Count, Conclude, TypeOK
<1>2. Late' = Late \ {t} /\ t \in Late
  BY <1>1 DEF Late, At
<1>3. Events' = Events /\ Worth' = Worth
  BY <1>1 DEF Events, New, Worth
<1>4. PICK A, B, o, q, n, m : /\ A = Late /\ B = Late' /\ o = Owed /\ q = Owed'
                              /\ n = metrics.calls_served
                              /\ m = metrics.revenue_earned_cents
  OBVIOUS
<1>5. /\ \A u \in A : o[u] \in Int /\ o[u] = Price[call[u].route]
      /\ A \in SUBSET Threads /\ Cardinality(A) \in Nat /\ n \in Nat /\ m \in Nat
      /\ SumFunctionOnSet(o, A) \in Int
      /\ SumFunctionOnSet(Events, Services) \in Int
      /\ SumFunctionOnSet(Worth, Services) \in Int
  BY <1>4, MetricsTypes
<1>6. B \in SUBSET Threads /\ t \notin B /\ B \cup {t} = A /\ B = A \ {t}
  BY <1>2, <1>4, <1>5
<1>7. \A u \in B : q[u] = o[u]
  <2>1. \A u \in B : q[u] = Price[call[u].route]
    BY <1>1, <1>4 DEF Owed
  <2>2. QED
    BY <1>5, <1>6, <2>1
<1>8. SumFunctionOnSet(o, A) = SumFunctionOnSet(q, B) + o[t]
  <2>1. (\A u \in B \cup {t} : o[u] \in Int) /\ \A u \in B : q[u] = o[u]
    BY <1>5, <1>6, <1>7
  <2>2. SumFunctionOnSet(o, B \cup {t}) = SumFunctionOnSet(q, B) + o[t]
    BY <1>6, <2>1, OneMoreOwed
  <2>3. QED
    BY <1>6, <2>2
<1>9. SumFunctionOnSet(q, B) \in Int
  <2>1. IsFiniteSet(B) /\ \A u \in B : q[u] \in Int
    BY <1>5, <1>6, <1>7, StrAssumption, FS_Subset
  <2>2. QED
    BY <2>1, SumRemove
<1>10. Cardinality(B) = Cardinality(A) - 1
  BY <1>2, <1>4, <1>5, <1>6, OneThread
<1>11. /\ n + Cardinality(A) = SumFunctionOnSet(Events, Services)
       /\ m + SumFunctionOnSet(o, A) = SumFunctionOnSet(Worth, Services)
  BY <1>4 DEF MetricsInv
<1>12. o[t] \in Int /\ o[t] = Price[call[t].route]
  BY <1>2, <1>4, <1>5
<1>13. /\ (n + 1) + Cardinality(B) = SumFunctionOnSet(Events, Services)
       /\ (m + Price[call[t].route]) + SumFunctionOnSet(q, B)
            = SumFunctionOnSet(Worth, Services)
  BY <1>5, <1>8, <1>9, <1>10, <1>11, <1>12
<1>14. metrics'.calls_served = n + 1 /\ metrics'.revenue_earned_cents = m + Price[call[t].route]
  BY <1>1, <1>4
<1>15. QED
  BY <1>3, <1>4, <1>13, <1>14 DEF MetricsInv, Services

\* A process that has sold nothing.
Fresh ==
  /\ metrics = [calls_served |-> 0, revenue_earned_cents |-> 0]
  /\ \A t \in Threads : pc[t] # "count"
  /\ \A s \in Services : New(s) = 0

LEMMA MetricsOfNothing == Fresh => MetricsInv
<1> SUFFICES ASSUME Fresh PROVE MetricsInv
  OBVIOUS
<1>1. Late = {}
  BY DEF Late, At, Fresh
<1>2. IsFiniteSet(Services) /\ \A s \in Services : Price[s] \in Nat
  BY StrAssumption
<1>3. \A s \in Services : Events[s] = 0 /\ Worth[s] = 0
  BY <1>2 DEF Events, Worth, Fresh
<1>4. /\ SumFunctionOnSet(Events, Services) = 0
      /\ SumFunctionOnSet(Worth, Services) = 0
  BY <1>2, <1>3, SumZero
<1>5. Cardinality(Late) = 0 /\ SumFunctionOnSet(Owed, Late) = 0
  BY <1>1, FS_EmptySet, SumEmpty
<1>6. QED
  BY <1>4, <1>5 DEF MetricsInv, Fresh

LEMMA NextMetrics ==
  ASSUME TypeOK, RouteInv, TypeOK', RouteInv', MetricsInv, [Next]_vars
  PROVE  MetricsInv'
<1>1. ASSUME NEW t \in Threads, Step(t) PROVE MetricsInv'
  <2>1. CASE Earn(t) \/ EarnMounted(t)
    BY <2>1, MetricsByEarn
  <2>2. CASE Count(t)
    BY <2>2, MetricsByCount
  <2>3. CASE ~Earn(t) /\ ~EarnMounted(t) /\ ~Count(t)
    <3>1. UNCHANGED till /\ pc[t] # "count" /\ pc'[t] # "count"
      <4>1. CASE \/ Allowed(t) \/ Denied(t) \/ GateOpens(t) \/ GateCloses(t) \/ GateAsks(t) \/ Approve(t)
                 \/ Uncached(t) \/ CacheAccount(t) \/ OpenAccount(t) \/ Connected(t)
        BY <4>1 DEF Allowed, Denied, GateOpens, GateCloses, GateAsks, Approve, Uncached, CacheAccount,
           OpenAccount, Connected, GoTo, Conclude, threads, TypeOK
      <4>2. CASE Sign(t) \/ Move(t) \/ MoveFails(t) \/ Record(t) \/ AuditFails(t) \/ Reply(t)
        BY <4>2 DEF Sign, Move, MoveFails, Record, NextMember, AuditFails, Unlogged, Reply,
           GoTo, Conclude, TypeOK
      <4>3. QED
        BY <1>1, <2>3, <4>1, <4>2 DEF Step
    <3>2. call' = call /\ \A u \in Threads \ {t} : pc'[u] = pc[u]
      BY <1>1, StepMoves
    <3>3. Late' = Late
      BY <3>1, <3>2 DEF Late, At
    <3>4. QED
      BY <3>1, <3>2, <3>3, MetricsKept
  <2>4. QED
    BY <2>1, <2>2, <2>3
<1>2. ASSUME NEW t \in Threads, NEW c \in Calls,
             Refuse402(t, c) \/ ServeCached(t, c) \/ Accept(t, c)
      PROVE  MetricsInv'
  <2>1. /\ pc[t] = "idle" /\ (pc' = pc \/ pc' = [pc EXCEPT ![t] = First(c)])
        /\ call' = [call EXCEPT ![t] = c] /\ UNCHANGED till
    BY <1>2 DEF Refuse402, ServeCached, Accept, Arrives
  <2>2. pc'[t] # "count" /\ \A u \in Threads \ {t} : pc'[u] = pc[u] /\ call'[u] = call[u]
    BY <2>1, FirstOnRoute DEF TypeOK
  <2>3. Late' = Late /\ t \notin Late
    BY <2>1, <2>2 DEF Late, At
  <2>4. \A u \in Late : call'[u] = call[u]
    BY <2>2, <2>3 DEF Late, At
  <2>5. QED
    BY <2>1, <2>3, <2>4, MetricsKept
<1>3. CASE \/ \E p \in Overcharged, verdict \in {"approved", "denied"} : Decide(p, verdict)
           \/ UNCHANGED vars
  <2>1. UNCHANGED till /\ UNCHANGED threads
    BY <1>3 DEF Decide, vars
  <2>2. Late' = Late /\ call' = call
    BY <2>1 DEF threads, Late, At
  <2>3. QED
    BY <2>1, <2>2, MetricsKept
<1>4. CASE Restart
  <2>1. Fresh'
    BY <1>4 DEF Fresh, Restart, New, TypeOK, Doors, Services
  <2>2. QED
    BY <2>1, MetricsOfNothing, PTL
<1>5. QED
  BY <1>1, <1>2, <1>3, <1>4 DEF Next

\* The metrics of this process, with what the threads still have to count,
\* agree with its earn events on record, in calls and in cents, through
\* failures and restarts (platform_agent.py:125-134, 185-193, 242-268).
THEOREM MetricsKeepMatching == Spec => []MetricsMatchEvents
<1>1. Init => MetricsInv
  <2> SUFFICES ASSUME Init PROVE MetricsInv
    OBVIOUS
  <2>1. Fresh
    BY DEF Fresh, Init, NoEvents, Doors, New
  <2>2. QED
    BY <2>1, MetricsOfNothing
<1>2. /\ TypeOK /\ RouteInv /\ TypeOK' /\ RouteInv' /\ MetricsInv /\ [Next]_vars
        => MetricsInv'
  BY NextMetrics
<1>3. MetricsInv => MetricsMatchEvents
  BY DEF MetricsInv, MetricsMatchEvents, Events, Worth, Owed, Late, New, SumFunction
<1>4. Spec => [](TypeOK /\ RouteInv)
  BY Invariance, PTL DEF IInv
<1>5. QED
  BY <1>1, <1>2, <1>3, <1>4, PTL DEF Spec
=============================================================================
