------------------------------ MODULE StrActs ------------------------------
(***************************************************************************)
(* The three acts for short-term rentals behind api/routes/str_acts.py,    *)
(* and the paid endpoints of payments/mpp_server.py mounted beside them:   *)
(* fee reconciliation, cleaner cards, month-end payouts, and the services  *)
(* sold per call.  A request runs on a worker thread; the mounted          *)
(* endpoints run on the event loop, one at a time.  All share the live     *)
(* cache, the metrics and the account cache in memory, and the logs, the   *)
(* approval records and what Stripe holds outside the process.             *)
(*                                                                         *)
(* A call of the approval gate or of the audit log is one step here; the   *)
(* file accesses inside them are those of RequireApproval and AuditChain.  *)
(* The calls all fall on one day and concern one month.                    *)
(***************************************************************************)
EXTENDS Integers, FiniteSets, Functions

CONSTANTS
  Threads,
  Properties,
  Fee,         \* overcharged property -> the fee it owes by contract
  Threshold,   \* fees above it need approval
  Owners,
  CrewSize,    \* crew members of a payout batch
  Bodies,      \* inputs of a service sold per call
  KeyOf,       \* body -> the part of it that the live cache is keyed by
  Price,       \* service sold -> cents
  Calls,       \* the requests that may come in
  DemoModes,   \* values of DEMO_MODE
  Faults,      \* what may fail: "audit", "stripe", "crash"
  MaxCalls,    \* bound on the requests
  MaxMishaps   \* bound on the faults

Services == DOMAIN Price
Overcharged == DOMAIN Fee
Doors == {"str", "mpp"}
Jobs == {"fee", "card", "reassign"} \X Properties \cup {"crew"} \X (1..CrewSize)

Requests == [door : Doors, route : {"act1", "payouts", "checkout", "assign"} \cup Services,
             of : Properties \cup Bodies, token : BOOLEAN, live : BOOLEAN, fresh : BOOLEAN]

\* The parameters that a route has.
Plausible(c) ==
  /\ c.route \in Services <=> c.of \in Bodies
  /\ c.route \notin Services => c.door = "str"
  /\ c.live => c.door = "str" /\ c.route \in {"act1"} \cup Services
  /\ c.fresh => c.live

ASSUME StrAssumption ==
  /\ IsFiniteSet(Threads) /\ Owners # {}
  /\ CrewSize \in Nat \ {0}
  /\ Threshold \in Nat /\ Fee \in [Overcharged -> Nat] /\ Overcharged \subseteq Properties
  /\ IsFiniteSet(Services) /\ Price \in [Services -> Nat]
  /\ Services \cap {"act1", "payouts", "checkout", "assign"} = {}
  /\ Properties \cap Bodies = {}
  /\ Calls \subseteq {c \in Requests : Plausible(c)} /\ Calls # {}
  /\ DemoModes \subseteq BOOLEAN /\ DemoModes # {}
  /\ Faults \subseteq {"audit", "stripe", "crash"}
  /\ MaxCalls \in Nat /\ MaxMishaps \in Nat

VARIABLES
  signed,    \* job -> envelopes on record for it
  moved,     \* job -> times its money was sent or its card issued
  done,      \* job -> entries that say so
  accounts,  \* owners in _account_cache
  opened,    \* owners whose account is on record
  requests,  \* overcharged property -> status of its approval record
  stood,     \* threads during whose call the fee's approval stood at some time
  earned,    \* door -> service -> earn events
  carried,   \* service -> earn events of earlier processes
  metrics,   \* _metrics
  cache,     \* _LIVE_CACHE: a function on the keys it holds
  pc,        \* thread -> its next step
  call,      \* thread -> the request it handles
  member,    \* thread -> the crew member its batch is at
  owner,     \* thread -> the owner it opens an account for
  answer,    \* thread -> what it answers: the input it was computed for, the outcome
  calls,     \* requests so far
  mishaps    \* faults so far

money == <<signed, moved, done, accounts, opened>>
gate == <<requests, stood>>
till == <<earned, carried, metrics>>
threads == <<pc, call, member, owner, answer>>
vars == <<money, gate, till, cache, threads, calls, mishaps>>

Points == {"idle", "connect", "provision", "account", "authorize", "gate", "ask", "approve",
           "regate", "reask", "sign", "move", "record", "earn", "count", "reply"}
Outcomes == {"none", "payment required", "clean", "held", "paid", "served", "denied", "error"}
Answers == (Properties \cup Bodies) \X Outcomes

\* The key of a live result: the property, or a part of the body.
Key(c) == <<c.route, IF c.route \in Services THEN KeyOf[c.of] ELSE c.of>>
Keys == {Key(c) : c \in Calls}

\* What the thread's call pays for.
Job(t) ==
  LET c == call[t] IN
  CASE c.route = "act1" -> <<"fee", c.of>>
    [] c.route = "payouts" -> <<"crew", member[t]>>
    [] c.route = "checkout" -> <<"card", c.of>>
    [] OTHER -> <<"reassign", c.of>>

NoEvents == [s \in Services |-> 0]

Init ==
  /\ signed = [j \in Jobs |-> 0] /\ moved = signed /\ done = signed
  /\ accounts = {} /\ opened = {}
  /\ requests = [p \in Overcharged |-> "none"] /\ stood = {}
  /\ earned = [d \in Doors |-> NoEvents] /\ carried = NoEvents
  /\ metrics = [calls_served |-> 0, revenue_earned_cents |-> 0]
  /\ cache = <<>>
  /\ pc = [t \in Threads |-> "idle"]
  /\ call \in [Threads -> {CHOOSE c \in Calls : TRUE}]
  /\ member = [t \in Threads |-> 1]
  /\ owner \in [Threads -> {CHOOSE o \in Owners : TRUE}]
  /\ answer = [t \in Threads |-> <<call[t].of, "none">>]
  /\ calls = 0 /\ mishaps = 0

---------------------------------------------------------------------------
GoTo(t, at) ==
  pc' = [pc EXCEPT ![t] = at] /\ UNCHANGED <<call, member, owner, answer, calls>>

\* The call goes on to step at with its outcome decided.
Conclude(t, at, how) ==
  /\ pc' = [pc EXCEPT ![t] = at]
  /\ answer' = [answer EXCEPT ![t] = <<call[t].of, how>>]
  /\ UNCHANGED <<call, member, owner, calls>>

Mishap(fault) ==
  /\ fault \in Faults
  /\ mishaps < MaxMishaps
  /\ mishaps' = mishaps + 1

---------------------------------------------------------------------------
\* A request comes in: what the route does before its first slow step.
Arrives(t, c) ==
  /\ pc[t] = "idle"
  /\ calls < MaxCalls
  /\ calls' = calls + 1
  /\ call' = [call EXCEPT ![t] = c]
  /\ member' = [member EXCEPT ![t] = 1]
  /\ stood' = IF c.of \in Overcharged /\ requests[c.of] = "approved"
              THEN stood \cup {t} ELSE stood \ {t}
  /\ UNCHANGED <<money, requests, till, cache, owner, mishaps>>

\* Only POST /str/act3/price serves a call without a token.
Paid(c) ==
  c.token \/ c.route \notin Services \/ (c.route = "price" /\ c.door = "str")

Refuse402(t, c) ==
  /\ ~Paid(c)
  /\ Arrives(t, c)
  /\ answer' = [answer EXCEPT ![t] = <<c.of, "payment required">>]
  /\ UNCHANGED pc

\* _cached_live
Cached(c) == c.live /\ ~c.fresh /\ Key(c) \in DOMAIN cache

ServeCached(t, c) ==
  /\ Paid(c) /\ Cached(c)
  /\ Arrives(t, c)
  /\ answer' = [answer EXCEPT ![t] = cache[Key(c)]]
  /\ UNCHANGED pc

\* The handler's first step that others can see.  The endpoints of
\* mpp_server hold the event loop from here to their answer.
First(c) ==
  CASE c.route = "act1" -> IF c.of \in Overcharged THEN "gate" ELSE "reply"
    [] c.route = "payouts" -> "connect"
    [] c.route = "assign" -> "sign"
    [] OTHER -> "authorize"

Accept(t, c) ==
  /\ Paid(c) /\ ~Cached(c)
  /\ c.door = "mpp" => \A u \in Threads : pc[u] # "idle" => call[u].door # "mpp"
  /\ Arrives(t, c)
  /\ pc' = [pc EXCEPT ![t] = First(c)]
  /\ answer' = [answer EXCEPT ![t] = <<c.of, IF First(c) = "reply" THEN "clean" ELSE "none">>]

---------------------------------------------------------------------------
\* c1_governance.authorize for the call's identity, from the grants on file
\* or, failing those, from the local policy.  Both may change between calls,
\* so either answer is possible.
Allowed(t) ==
  /\ pc[t] = "authorize"
  /\ GoTo(t, IF call[t].route \in Services THEN "earn" ELSE "sign")
  /\ UNCHANGED <<money, gate, till, cache, mishaps>>

\* The acts answer with an error body, which a live call caches as it does
\* any other; mpp_server answers 403, a checkout raises PermissionError.
Denied(t) ==
  /\ pc[t] = "authorize"
  /\ Conclude(t, IF call[t].route \in Services THEN "reply" ELSE "idle", "denied")
  /\ UNCHANGED <<money, gate, till, cache, mishaps>>

---------------------------------------------------------------------------
requires_approval(p) == Fee[p] > Threshold

\* enforce_spend lets the fee through.
GateOpens(t) ==
  LET p == call[t].of IN
  /\ pc[t] \in {"gate", "regate"}
  /\ requires_approval(p) => requests[p] = "approved"
  /\ GoTo(t, "sign")
  /\ UNCHANGED <<money, gate, till, cache, mishaps>>

\* enforce_spend finds no approval; until create_request writes, a person may
\* decide and another thread pass.
GateCloses(t) ==
  LET p == call[t].of IN
  /\ pc[t] \in {"gate", "regate"}
  /\ requires_approval(p) /\ requests[p] # "approved"
  /\ GoTo(t, IF pc[t] = "gate" THEN "ask" ELSE "reask")
  /\ UNCHANGED <<money, gate, till, cache, mishaps>>

\* create_request overwrites whatever is not pending, and enforce_spend
\* raises: the demo approves it at once, a live system answers that the
\* payment is held.  The second time the exception leaves the route.
GateAsks(t) ==
  /\ pc[t] \in {"ask", "reask"}
  /\ requests' = [requests EXCEPT ![call[t].of] = "pending"]
  /\ \/ pc[t] = "ask" /\ TRUE \in DemoModes /\ GoTo(t, "approve")
     \/ pc[t] = "ask" /\ FALSE \in DemoModes /\ Conclude(t, "reply", "held")
     \/ pc[t] = "reask" /\ Conclude(t, "idle", "error")
  /\ UNCHANGED <<money, stood, till, cache, mishaps>>

\* decide leaves a record that is not pending as it is.
Decided(p, verdict) ==
  /\ requests' = IF requests[p] = "pending" THEN [requests EXCEPT ![p] = verdict]
                 ELSE requests
  /\ stood' = IF requests'[p] = "approved" THEN stood \cup {t \in Threads : call[t].of = p}
              ELSE stood

\* Mutant of Approve: the fee is paid on the decision, whatever it says.
ApproveAndPay(t) ==
  /\ pc[t] = "approve"
  /\ Decided(call[t].of, "approved")
  /\ GoTo(t, "sign")
  /\ UNCHANGED <<money, till, cache, mishaps>>

\* reconcile_month decides its own request in the demo.
Approve(t) ==
  /\ pc[t] = "approve"
  /\ Decided(call[t].of, "approved")
  /\ GoTo(t, "regate")
  /\ UNCHANGED <<money, till, cache, mishaps>>

\* POST /approvals/{id}/decide
Decide(p, verdict) ==
  /\ requests[p] = "pending"
  /\ Decided(p, verdict)
  /\ UNCHANGED <<money, till, cache, threads, calls, mishaps>>

---------------------------------------------------------------------------
\* ensure_owner_accounts misses an owner in the cache.
Uncached(t) ==
  /\ pc[t] = "connect"
  /\ \E o \in Owners \ accounts : owner' = [owner EXCEPT ![t] = o]
  /\ pc' = [pc EXCEPT ![t] = "provision"]
  /\ UNCHANGED <<money, gate, till, cache, call, member, answer, calls, mishaps>>

\* _provision caches the account, and appends its entry afterwards.
CacheAccount(t) ==
  /\ pc[t] = "provision"
  /\ accounts' = accounts \cup {owner[t]}
  /\ GoTo(t, "account")
  /\ UNCHANGED <<signed, moved, done, opened, gate, till, cache, mishaps>>

OpenAccount(t) ==
  /\ pc[t] = "account"
  /\ opened' = opened \cup {owner[t]}
  /\ GoTo(t, "connect")
  /\ UNCHANGED <<signed, moved, done, accounts, gate, till, cache, mishaps>>

Connected(t) ==
  /\ pc[t] = "connect"
  /\ Owners \subseteq accounts
  /\ GoTo(t, "sign")
  /\ UNCHANGED <<money, gate, till, cache, mishaps>>

\* sign_stripe_envelope: the envelope is on record before it is used.
Sign(t) ==
  /\ pc[t] = "sign"
  /\ signed' = [signed EXCEPT ![Job(t)] = @ + 1]
  /\ GoTo(t, "move")
  /\ UNCHANGED <<moved, done, accounts, opened, gate, till, cache, mishaps>>

\* pay with the fresh envelope's signature as idempotency key, which Stripe
\* has never seen; or the mocked transfer or card.
Sent(t) == [moved EXCEPT ![Job(t)] = @ + 1]

Move(t) ==
  /\ pc[t] = "move"
  /\ moved' = Sent(t)
  /\ GoTo(t, "record")
  /\ UNCHANGED <<signed, done, accounts, opened, gate, till, cache, mishaps>>

\* The SDK fails before Stripe acted or after; pay answers with a mock.
MoveFails(t) ==
  /\ pc[t] = "move"
  /\ call[t].route = "act1"
  /\ Mishap("stripe")
  /\ moved' \in {moved, Sent(t)}
  /\ GoTo(t, "record")
  /\ UNCHANGED <<signed, done, accounts, opened, gate, till, cache>>

\* Mutant of Entered: a transfer id already on record is not logged again.
EnteredOnce(t) == [done EXCEPT ![Job(t)] = 1]

\* The entry that the money was sent.
Entered(t) == [done EXCEPT ![Job(t)] = @ + 1]

MembersLeft(t) == call[t].route = "payouts" /\ member[t] < CrewSize

NextMember(t) ==
  /\ MembersLeft(t)
  /\ member' = [member EXCEPT ![t] = @ + 1]
  /\ pc' = [pc EXCEPT ![t] = "sign"]
  /\ UNCHANGED <<call, owner, answer, calls>>

Record(t) ==
  /\ pc[t] = "record"
  /\ done' = Entered(t)
  /\ \/ NextMember(t)
     \/ ~MembersLeft(t) /\ Conclude(t, "reply", "paid")
  /\ UNCHANGED <<signed, moved, accounts, opened, gate, till, cache, mishaps>>

\* Mutant of Unlogged: a batch leaves out the member whose entry failed.
UnloggedSkips(t) ==
  \/ NextMember(t)
  \/ ~MembersLeft(t) /\ Conclude(t, "idle", "error")

\* Mutant of Unlogged: the failed append is swallowed.
UnloggedGoesOn(t) ==
  CASE pc[t] = "sign" -> GoTo(t, "move")
    [] pc[t] = "record" -> Conclude(t, "reply", "paid")
    [] pc[t] = "account" -> GoTo(t, "connect")
    [] OTHER -> GoTo(t, "count")

\* The exception of a failed append leaves the route.  An account stays
\* cached, so no later batch logs it.
Unlogged(t) == Conclude(t, "idle", "error")

AuditFails(t) ==
  /\ pc[t] \in {"sign", "record", "earn", "account"}
  /\ Mishap("audit")
  /\ Unlogged(t)
  /\ UNCHANGED <<money, gate, till, cache>>

---------------------------------------------------------------------------
\* _write_earn_event, once the skill has its answer.
Earned(t) == [earned EXCEPT ![call[t].door][call[t].route] = @ + 1]

\* A serve function of platform_agent has the call on record and counts it next.
Earn(t) ==
  /\ pc[t] = "earn" /\ call[t].door = "str"
  /\ earned' = Earned(t)
  /\ GoTo(t, "count")
  /\ UNCHANGED <<money, carried, metrics, gate, cache, mishaps>>

\* An endpoint of mpp_server has it on record and answers, counting nothing.
EarnMounted(t) ==
  /\ pc[t] = "earn" /\ call[t].door = "mpp"
  /\ earned' = Earned(t)
  /\ Conclude(t, "reply", "served")
  /\ UNCHANGED <<money, carried, metrics, gate, cache, mishaps>>

\* platform_agent counts the call it served: two increments without a call
\* between them, where the interpreter (3.10 on) does not switch threads.
Count(t) ==
  /\ pc[t] = "count"
  /\ metrics' = [calls_served |-> metrics.calls_served + 1,
                 revenue_earned_cents |-> metrics.revenue_earned_cents + Price[call[t].route]]
  /\ Conclude(t, "reply", "served")
  /\ UNCHANGED <<money, earned, carried, gate, cache, mishaps>>

\* A live answer is cached under its key; the call returns.
Reply(t) ==
  LET k == Key(call[t]) IN
  /\ pc[t] = "reply"
  /\ cache' = IF call[t].live
              THEN [x \in DOMAIN cache \cup {k} |-> IF x = k THEN answer[t] ELSE cache[x]]
              ELSE cache
  /\ GoTo(t, "idle")
  /\ UNCHANGED <<money, gate, till, mishaps>>

---------------------------------------------------------------------------
\* The process dies and starts again with what memory held lost.
Restart ==
  /\ Mishap("crash")
  /\ accounts' = {} /\ cache' = <<>>
  /\ metrics' = [calls_served |-> 0, revenue_earned_cents |-> 0]
  /\ carried' = earned["str"]
  /\ pc' = [t \in Threads |-> "idle"]
  /\ answer' = [t \in Threads |-> <<call[t].of, "none">>]
  /\ UNCHANGED <<signed, moved, done, opened, gate, earned, call, member, owner, calls>>

Step(t) ==
  \/ Allowed(t) \/ Denied(t) \/ GateOpens(t) \/ GateCloses(t) \/ GateAsks(t)
  \/ Approve(t) \/ Uncached(t) \/ CacheAccount(t) \/ OpenAccount(t) \/ Connected(t)
  \/ Sign(t) \/ Move(t) \/ MoveFails(t) \/ Record(t) \/ AuditFails(t)
  \/ Earn(t) \/ EarnMounted(t) \/ Count(t) \/ Reply(t)

Next ==
  \/ \E t \in Threads :
       Step(t) \/ \E c \in Calls : Refuse402(t, c) \/ ServeCached(t, c) \/ Accept(t, c)
  \/ \E p \in Overcharged, verdict \in {"approved", "denied"} : Decide(p, verdict)
  \/ Restart

Spec == Init /\ [][Next]_vars

---------------------------------------------------------------------------
TypeOK ==
  /\ signed \in [Jobs -> Nat] /\ moved \in [Jobs -> Nat] /\ done \in [Jobs -> Nat]
  /\ accounts \subseteq Owners /\ opened \subseteq Owners
  /\ requests \in [Overcharged -> {"none", "pending", "approved", "denied"}]
  /\ stood \subseteq Threads
  /\ earned \in [Doors -> [Services -> Nat]] /\ carried \in [Services -> Nat]
  /\ metrics \in [calls_served : Nat, revenue_earned_cents : Nat]
  /\ DOMAIN cache \subseteq Keys /\ \A k \in DOMAIN cache : cache[k] \in Answers
  /\ pc \in [Threads -> Points] /\ call \in [Threads -> Calls]
  /\ member \in [Threads -> 1..CrewSize] /\ owner \in [Threads -> Owners] /\ answer \in [Threads -> Answers]
  /\ calls \in 0..MaxCalls /\ mishaps \in 0..MaxMishaps

At(points) == {t \in Threads : pc[t] \in points}
Busy(j, points) == {t \in At(points) : Job(t) = j}

\* "The signed envelope must be written to the audit log BEFORE the Stripe
\* write" (envelopes.py:21): what moved, or is said to have, had an envelope
\* of its own on record, through concurrent calls, failures and restarts.
EnvelopeFirst ==
  \A j \in Jobs :
    /\ moved[j] + Cardinality(Busy(j, {"move"})) <= signed[j]
    /\ done[j] + Cardinality(Busy(j, {"move", "record"})) <= signed[j]

\* What was sent and what is on record as sent differ by no more than the
\* faults account for, each of which may cut off every thread; and each
\* cached account is on record, is about to be, or cost a fault
\* (str_owner_agent.py:242-257, payouts.py:60-92, connect.py:45-72).
BooksMatch ==
  /\ \A j \in Jobs :
       LET gap == moved[j] - done[j] - Cardinality(Busy(j, {"record"}))
       IN  gap \in -mishaps..(mishaps * Cardinality(Threads))
  /\ LET due == {owner[t] : t \in At({"account"})}
     IN  Cardinality(accounts \ (opened \cup due)) <= mishaps

\* A fee over the threshold is paid only by a call during which the approval
\* of its request stood: one taken back before the call came in pays nothing,
\* whatever people decide and other calls overwrite meanwhile
\* (str_owner_agent.py:279-289, require_approval.py:215-220).
PaidOnApproval ==
  [][\A p \in Overcharged :
       moved'[<<"fee", p>>] > moved[<<"fee", p>>] /\ Fee[p] > Threshold
         => \E t \in stood : pc[t] = "move" /\ Job(t) = <<"fee", p>>]_vars

\* "holds for approval, and pays back once approved" (str_owner_agent.py:5-6):
\* the approval stands as the fee is paid.  No: a call that read the gate
\* earlier overwrites it with a new request.
PaidWhileApproved ==
  [][\A p \in Overcharged :
       moved'[<<"fee", p>>] > moved[<<"fee", p>>] /\ Fee[p] > Threshold
         => requests[p] = "approved"]_vars

\* A batch cut short, repeated or run twice at once never gets ahead on a
\* later member of the crew (payouts.py:120-124).
BatchInOrder ==
  \A m, n \in 1..CrewSize : m < n => done[<<"crew", n>>] <= done[<<"crew", m>>]

\* The metrics agree with the earn events of this process on the log that
\* /str/audit shows (platform_agent.py:125-134, 185-193, 242-268).
MetricsMatchEvents ==
  LET new == [s \in Services |-> earned["str"][s] - carried[s]]
      late == At({"count"})
  IN  /\ metrics.calls_served + Cardinality(late) = SumFunction(new)
      /\ metrics.revenue_earned_cents + SumFunction([t \in late |-> Price[call[t].route]])
           = SumFunction([s \in Services |-> Price[s] * new[s]])

\* Every answer the live cache can serve again was sold once and logged
\* (str_acts.py:75-81): no more of them than earn events.
CachedWasSold ==
  \A s \in Services :
    Cardinality({k \in DOMAIN cache : k[1] = s /\ cache[k][2] = "served"})
      <= earned["str"][s] - carried[s]

\* "the first call per input is computed live and cached" (str_acts.py:75-76):
\* an answer was computed for the input it answers.
AnswerFitsRequest == \A t \in Threads : answer[t][1] = call[t].of

\* "holds for approval, and pays back once approved" (str_owner_agent.py:5-6):
\* one approval, one payment of the month's fee.
FeePaidOnce == \A p \in Overcharged : moved[<<"fee", p>>] <= 1

\* "no card can be issued without a live authorization decision"
\* (README.md:27-28)
CardsAuthorized == \A p \in Properties : moved[<<"reassign", p>>] = 0

\* "Every agent action ... lands in a hash-chained audit log" (README.md:5-6)
AccountsOnRecord ==
  accounts \subseteq opened \cup {owner[t] : t \in At({"account"})}
============================================================================
