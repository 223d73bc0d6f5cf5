-------------------------- MODULE InvoicePipeline --------------------------
(***************************************************************************)
(* A vendor's HTTP-402 invoice from delivery to payment or escalation:     *)
(* payments/payment_402_handler.py through agent/nemoclaw_harness.py and   *)
(* payments/stripe_client.py, on the shared graph of api/state.py.  Each   *)
(* delivery runs on a worker thread of POST /webhooks/402; the vendor may  *)
(* deliver an invoice again, and a human decides the approval requests.    *)
(*                                                                         *)
(* A call of the approval gate or of the audit log is one step here; the   *)
(* file accesses inside them are those of RequireApproval and AuditChain.  *)
(* The calls all fall on one day, so a request id is a (vendor, amount).   *)
(***************************************************************************)
EXTENDS AnomalyDetector

CONSTANTS
  Workers,    \* the threads that handle deliveries
  Invoices,
  Vendor,     \* invoice -> vendor
  Amount,     \* invoice -> amount
  Limit,      \* vendor -> the policy limit that applies to it; a limit below
              \* every amount for a blocked vendor (policy_check.py:49-51)
  Threshold,  \* amounts above it need approval
  Unsafe,     \* invoices that hold a pattern of the guardrail's denylist
  Seed,       \* vendor -> the payments the graph starts with
  Backends,   \* live Stripe backends configured: "mcp", "sdk"
  Faults,     \* what may fail: "mcp", "sdk", "audit", "sandbox", "crash"
  MaxCalls    \* bound on the deliveries

ASSUME BackendsAssumption == Backends \subseteq {"mcp", "sdk"}
ASSUME FaultsAssumption == Faults \subseteq {"mcp", "sdk", "audit", "sandbox", "crash"}
ASSUME MaxCallsAssumption == MaxCalls \in Nat
ASSUME FinitenessAssumption == IsFiniteSet(Workers) /\ IsFiniteSet(Invoices)
ASSUME ThresholdAssumption == Threshold \in Nat
ASSUME InvoicesAssumption ==
  /\ Invoices # {}
  /\ Amount \in [Invoices -> Nat]
  /\ Seed \in [{Vendor[i] : i \in Invoices} -> Seq(Nat)]

VARIABLES
  graph,     \* vendor -> amounts on record
  requests,  \* spend key -> status of its approval record
  stripe,    \* invoice -> payment intents Stripe holds for it, per backend
  audit,     \* invoice -> entries of the audit log, per kind
  ledger,    \* invoice -> ledger entries
  pc,        \* worker -> its next step
  job,       \* worker -> the invoice it handles
  outcome,   \* worker -> how its last delivery ended
  calls,     \* deliveries so far
  approved   \* spend keys a human approved

vars == <<graph, requests, stripe, audit, ledger, pc, job, outcome, calls, approved>>

Vendors == {Vendor[i] : i \in Invoices}
Key(i) == <<Vendor[i], Amount[i]>>
Keys == {Key(i) : i \in Invoices}

Kinds == {"payment", "escalation", "blocked"}
Points == {"idle", "score", "guard", "gate", "mcp", "sdk", "audit payment", "reconcile",
           "record", "ask", "audit gate", "request", "audit escalation"}
Outcomes == {"none", "paid", "escalated", "error"}

Init ==
  /\ graph = Seed
  /\ requests = [k \in Keys |-> "none"]
  /\ stripe = [i \in Invoices |-> [mcp |-> 0, sdk |-> 0]]
  /\ audit = [i \in Invoices |-> [kind \in Kinds |-> 0]]
  /\ ledger = [i \in Invoices |-> 0]
  /\ pc = [w \in Workers |-> "idle"]
  /\ job = [w \in Workers |-> CHOOSE i \in Invoices : TRUE]
  /\ outcome = [w \in Workers |-> "none"]
  /\ calls = 0
  /\ approved = {}

---------------------------------------------------------------------------
GoTo(w, at) == pc' = [pc EXCEPT ![w] = at] /\ UNCHANGED <<job, outcome, calls>>

End(w, how) ==
  /\ pc' = [pc EXCEPT ![w] = "idle"]
  /\ outcome' = [outcome EXCEPT ![w] = how]
  /\ UNCHANGED <<job, calls>>

\* check_policy: at most the vendor's limit.
Admitted(i) == Amount[i] <= Limit[Vendor[i]]

\* Mutant of requires_approval: a default of 500 where the caller's is 100.
requires_approval_default(i) == Amount[i] > 5 * Threshold

\* require_approval.requires_approval
requires_approval(i) == Amount[i] > Threshold

\* POST /webhooks/402: a first or a repeated delivery.
Deliver(w, i) ==
  /\ pc[w] = "idle"
  /\ calls < MaxCalls
  /\ calls' = calls + 1
  /\ pc' = [pc EXCEPT ![w] = "score"]
  /\ job' = [job EXCEPT ![w] = i]
  /\ outcome' = [outcome EXCEPT ![w] = "none"]
  /\ UNCHANGED <<graph, requests, stripe, audit, ledger, approved>>

\* policy.allowed and not anomaly.is_anomaly, on the graph as it stands.
Clean(i) == Admitted(i) /\ ~IsAnomaly(Amount[i], graph[Vendor[i]])

Score(w) ==
  /\ pc[w] = "score"
  /\ GoTo(w, IF Clean(job[w]) THEN "guard" ELSE "request")
  /\ UNCHANGED <<graph, requests, stripe, audit, ledger, approved>>

Log(i, kind) == audit' = [audit EXCEPT ![i][kind] = @ + 1]

\* append_action raises, and nothing up to the route catches it.
AuditFails(w) ==
  /\ "audit" \in Faults
  /\ \/ pc[w] \in {"audit payment", "audit gate", "audit escalation"}
     \/ pc[w] = "guard" /\ job[w] \in Unsafe
  /\ End(w, "error")
  /\ UNCHANGED <<graph, requests, stripe, audit, ledger, approved>>

GuardAdmits(w) ==
  /\ pc[w] = "guard"
  /\ job[w] \notin Unsafe
  /\ GoTo(w, "gate")
  /\ UNCHANGED <<graph, requests, stripe, audit, ledger, approved>>

\* The harness audits the block and returns no result; _try_pay takes any
\* outcome but "escalated" for a payment and fails on it.
GuardBlocks(w) ==
  /\ pc[w] = "guard"
  /\ job[w] \in Unsafe
  /\ Log(job[w], "blocked")
  /\ End(w, "error")
  /\ UNCHANGED <<graph, requests, stripe, ledger, approved>>

\* The first backend that is configured; "audit payment" after the mock.
FirstBackend ==
  IF "mcp" \in Backends THEN "mcp"
  ELSE IF "sdk" \in Backends THEN "sdk"
  ELSE "audit payment"

AfterMcp == IF "sdk" \in Backends THEN "sdk" ELSE "audit payment"

\* create_request keeps a pending record and opens a new one otherwise.
Requested(i) == [requests EXCEPT ![Key(i)] = "pending"]

\* enforce_spend lets the payment through.
GateOpens(w) ==
  /\ pc[w] = "gate"
  /\ requires_approval(job[w]) => requests[Key(job[w])] = "approved"
  /\ GoTo(w, FirstBackend)
  /\ UNCHANGED <<graph, requests, stripe, audit, ledger, approved>>

\* enforce_spend finds no approval; the record it read may change before
\* create_request reads and writes it again.
GateCloses(w) ==
  /\ pc[w] = "gate"
  /\ requires_approval(job[w])
  /\ requests[Key(job[w])] # "approved"
  /\ GoTo(w, "ask")
  /\ UNCHANGED <<graph, requests, stripe, audit, ledger, approved>>

\* create_request, and enforce_spend raises ApprovalRequired.
GateAsks(w) ==
  /\ pc[w] = "ask"
  /\ requests' = Requested(job[w])
  /\ GoTo(w, "audit gate")
  /\ UNCHANGED <<graph, stripe, audit, ledger, approved>>

\* The harness logs the escalation, and _do_escalation logs it again.
AuditGate(w) ==
  /\ pc[w] = "audit gate"
  /\ Log(job[w], "escalation")
  /\ GoTo(w, "audit escalation")
  /\ UNCHANGED <<graph, requests, stripe, ledger, approved>>

\* _do_escalation of an invoice that policy or score turned away.
Request(w) ==
  /\ pc[w] = "request"
  /\ requests' = Requested(job[w])
  /\ GoTo(w, "audit escalation")
  /\ UNCHANGED <<graph, stripe, audit, ledger, approved>>

\* Mutant of AuditEscalation: the answer goes out without an entry.
AuditEscalationLater(w) ==
  /\ pc[w] = "audit escalation"
  /\ End(w, "escalated")
  /\ UNCHANGED <<graph, requests, stripe, audit, ledger, approved>>

AuditEscalation(w) ==
  /\ pc[w] = "audit escalation"
  /\ Log(job[w], "escalation")
  /\ End(w, "escalated")
  /\ UNCHANGED <<graph, requests, stripe, ledger, approved>>

---------------------------------------------------------------------------
\* create_payment_intent over MCP: the key travels as metadata only, so
\* every call makes a payment intent of its own.
ChargedByMcp(i) == [stripe EXCEPT ![i].mcp = @ + 1]

\* PaymentIntent.create with the invoice id as idempotency key: Stripe
\* answers a key it has seen with the payment intent it made then.
ChargedBySdk(i) == [stripe EXCEPT ![i].sdk = 1]

PayByMcp(w) ==
  /\ pc[w] = "mcp"
  /\ stripe' = ChargedByMcp(job[w])
  /\ GoTo(w, "audit payment")
  /\ UNCHANGED <<graph, requests, audit, ledger, approved>>

\* StripeMcpError, before Stripe acted or after: pay goes on to the SDK.
McpFails(w) ==
  /\ "mcp" \in Faults
  /\ pc[w] = "mcp"
  /\ stripe' \in {stripe, ChargedByMcp(job[w])}
  /\ GoTo(w, AfterMcp)
  /\ UNCHANGED <<graph, requests, audit, ledger, approved>>

PayBySdk(w) ==
  /\ pc[w] = "sdk"
  /\ stripe' = ChargedBySdk(job[w])
  /\ GoTo(w, "audit payment")
  /\ UNCHANGED <<graph, requests, audit, ledger, approved>>

\* Any exception of the SDK: pay answers with a mock that "succeeded".
SdkFails(w) ==
  /\ "sdk" \in Faults
  /\ pc[w] = "sdk"
  /\ stripe' \in {stripe, ChargedBySdk(job[w])}
  /\ GoTo(w, "audit payment")
  /\ UNCHANGED <<graph, requests, audit, ledger, approved>>

\* The sandboxed child is killed at its timeout or its output is not JSON,
\* before or after the charge; the exception leaves execute and handle_402.
SandboxFails(w) ==
  /\ "sandbox" \in Faults
  /\ pc[w] \in {"mcp", "sdk", "audit payment"}
  /\ End(w, "error")
  /\ UNCHANGED <<graph, requests, stripe, audit, ledger, approved>>

AuditPayment(w) ==
  /\ pc[w] = "audit payment"
  /\ Log(job[w], "payment")
  /\ GoTo(w, "reconcile")
  /\ UNCHANGED <<graph, requests, stripe, ledger, approved>>

\* Mutant of Posted: an invoice already in the ledger is not posted again.
PostedOnce(i) == [ledger EXCEPT ![i] = 1]

\* intuit_reconciler.reconcile appends an entry.
Posted(i) == [ledger EXCEPT ![i] = @ + 1]

Reconcile(w) ==
  /\ pc[w] = "reconcile"
  /\ ledger' = Posted(job[w])
  /\ GoTo(w, "record")
  /\ UNCHANGED <<graph, requests, stripe, audit, approved>>

\* graph.record_payment; the call returns "paid".
RecordPayment(w) ==
  LET i == job[w] IN
  /\ pc[w] = "record"
  /\ graph' = [graph EXCEPT ![Vendor[i]] = Append(@, Amount[i])]
  /\ End(w, "paid")
  /\ UNCHANGED <<requests, stripe, audit, ledger, approved>>

---------------------------------------------------------------------------
\* POST /approvals/{id}/decide on a pending request.
Decide(k, verdict) ==
  /\ requests[k] = "pending"
  /\ requests' = [requests EXCEPT ![k] = verdict]
  /\ approved' = IF verdict = "approved" THEN approved \cup {k} ELSE approved
  /\ UNCHANGED <<graph, stripe, audit, ledger, pc, job, outcome, calls>>

\* The process dies and starts again: graph and ledger live in memory, the
\* approval records and the audit log on disk.
Restart ==
  /\ "crash" \in Faults
  /\ graph' = Seed
  /\ ledger' = [i \in Invoices |-> 0]
  /\ pc' = [w \in Workers |-> "idle"]
  /\ outcome' = [w \in Workers |-> "none"]
  /\ UNCHANGED <<requests, stripe, audit, job, calls, approved>>

Step(w) ==
  \/ Score(w) \/ GuardAdmits(w) \/ GuardBlocks(w) \/ GateOpens(w) \/ GateCloses(w)
  \/ GateAsks(w)
  \/ PayByMcp(w) \/ McpFails(w) \/ PayBySdk(w) \/ SdkFails(w) \/ SandboxFails(w)
  \/ AuditPayment(w) \/ Reconcile(w) \/ RecordPayment(w) \/ AuditGate(w)
  \/ Request(w) \/ AuditEscalation(w) \/ AuditFails(w)

Next ==
  \/ \E w \in Workers : Step(w) \/ \E i \in Invoices : Deliver(w, i)
  \/ \E k \in Keys, verdict \in {"approved", "denied"} : Decide(k, verdict)
  \/ Restart

Spec == Init /\ [][Next]_vars

---------------------------------------------------------------------------
TypeOK ==
  /\ graph \in [Vendors -> Seq(Nat)]
  /\ requests \in [Keys -> {"none", "pending", "approved", "denied"}]
  /\ stripe \in [Invoices -> [mcp : Nat, sdk : {0, 1}]]
  /\ audit \in [Invoices -> [Kinds -> Nat]]
  /\ ledger \in [Invoices -> Nat]
  /\ pc \in [Workers -> Points]
  /\ job \in [Workers -> Invoices]
  /\ outcome \in [Workers -> Outcomes]
  /\ calls \in 0..MaxCalls
  /\ approved \subseteq Keys

Charges(i) == stripe[i].mcp + stripe[i].sdk
Working(i, at) == {w \in Workers : pc[w] = at /\ job[w] = i}

\* Redelivered, interleaved, retried or cut short, an invoice is charged only
\* within policy, past the guardrail and, over the threshold, on an approval of
\* its key; through the SDK, where the invoice id is the idempotency key, at
\* most once (stripe_client.py:110-145).  ChargedOnce is what MCP breaks.
Gated == INSTANCE GatedSpend WITH
  KeyOf <- [i \in Invoices |-> Key(i)],
  Free <- {i \in Invoices : Amount[i] <= Threshold},
  Eligible <- {i \in Invoices : Admitted(i) /\ i \notin Unsafe},
  keyed <- [i \in Invoices |-> stripe[i].sdk],
  unkeyed <- [i \in Invoices |-> stripe[i].mcp],
  allowed <- approved

ImplementsGatedSpend == Gated!Spec

\* A caller that was told "paid" or "escalated" finds the entry it was told
\* about: "Returns a structured outcome dict with an audit-chain entry hash"
\* (payment_402_handler.py:5-6).
AnswerOnRecord ==
  \A w \in Workers :
    LET i == job[w]
    IN  /\ outcome[w] = "paid" => audit[i]["payment"] > 0
        /\ outcome[w] = "escalated" =>
             audit[i]["escalation"] > 0 /\ requests[Key(i)] # "none"

\* Ledger and graph agree but for the payments some thread has posted and
\* not yet recorded, and each entry is audited: a restart empties both, and
\* whatever fails leaves neither ahead of the audit log
\* (nemoclaw_harness.py:125-133, payment_402_handler.py:158-162).
BooksBalance ==
  /\ \A i \in Invoices :
       ledger[i] + Cardinality(Working(i, "reconcile")) <= audit[i]["payment"]
  /\ \A v \in Vendors :
       Len(graph[v]) - Len(Seed[v])
           + Cardinality({w \in Workers : pc[w] = "record" /\ Vendor[job[w]] = v})
         = SumFunctionOnSet(ledger, {i \in Invoices : Vendor[i] = v})

\* A charge fits the history of its moment, not only that of its score
\* (payment_402_handler.py:87-96): no, a payment recorded in between moves it.
ScoreStillHolds ==
  [][\A i \in Invoices :
       Charges(i)' > Charges(i) => ~IsAnomaly(Amount[i], graph[Vendor[i]])]_vars

\* "Post a stripe pay() result as a QuickBooks-style ledger entry"
\* (intuit_reconciler.py:65): a payment intent is posted once.  No, every
\* repeated delivery posts its answer again.
PostedPerCharge == \A i \in Invoices : ledger[i] <= Charges(i)

\* "Idempotency key / invoice identifier." (pay_invoice_skill.py:21): one
\* invoice, one charge.
ChargedOnce == \A i \in Invoices : Charges(i) <= 1

\* "Every agent action ... lands in a hash-chained audit log" (README.md:5-6):
\* so does every charge no call is still busy with.
ChargesAudited ==
  \A i \in Invoices :
    Charges(i) > 0 /\ (\A w \in Workers : pc[w] # "idle" => job[w] # i)
      => audit[i]["payment"] > 0

\* "an audit-chain entry hash on every call" (payment_402_handler.py:6): a
\* call answers unless something failed around it.
EveryCallAnswers == \A w \in Workers : outcome[w] # "error"

\* "approved: ${amount} within ${limit} monthly limit" (policy_check.py:59):
\* what a vendor is paid, here on one day, stays within its limit.
WithinMonthlyLimit ==
  \A v \in Vendors :
    SumFunctionOnSet([i \in Invoices |-> Charges(i) * Amount[i]],
                     {i \in Invoices : Vendor[i] = v})
      <= Limit[v]

\* "Executes approved payments via Stripe API" (BRIEF.md:87): an approval is
\* not taken back before a payment it allowed.
ApprovalKept ==
  [][\A k \in Keys :
       requests[k] = "approved" /\ requests'[k] = "pending"
         => \E i \in Invoices : Key(i) = k /\ Charges(i) > 0]_vars
===========================================================================
