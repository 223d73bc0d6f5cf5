# Specification of NemoClaw

TLA+ models of the money-moving and record-keeping core of this repository, the
TLC configurations that check them on small instances, and theorems about them
that TLAPS proves for every instance. Paths are relative to the repository root
(`src/` in `PROJECT.json`). `PROJECT.json` maps every definition to the lines
it stands for.

    tlc -workers 4 -config MCLoop.cfg MCAnalysisLoop.tla
    tlapm AnalysisLoopProofs.tla

## 1. The system

NemoClaw is a Python backend for a small business: an API (FastAPI, one worker
thread per synchronous request), an agent harness that runs skills behind a
guardrail and an approval gate, payment clients, a vendor graph with an anomaly
score, a weekly/monthly analysis job, a bounded loop around a language model,
and "acts" that compose these for short-term rentals. It has no database. State
is in files that are read and rewritten without locks, in module-level objects,
and at Stripe.

| component | code | state | operations | what makes it correct |
|---|---|---|---|---|
| audit chain | `agent/audit_log.py` | one JSONL file, hash-chained | `append_action` (tail read, then append), `verify_chain` | acknowledged entries stay readable; tampering, cuts and forks are seen and stay seen |
| interactions log | `agent/interactions_log.py` | a second such file | `append_interaction`, `read_interactions` | what the process takes for logged is on it; a cut line is noticed, not passed over |
| approval gate | `agent/require_approval.py` | one YAML file per request | `enforce_spend`, `create_request`, `decide`, `check`, `is_approved`, `list_pending` | no spend over the threshold without a human's approval of that request; one verdict per request unless two were given at once |
| harness | `agent/nemoclaw_harness.py` | none of its own | guardrail, permission, skill (in process or sandboxed), audit | nothing runs past a closed gate; what ran is on record |
| 402 pipeline | `payments/payment_402_handler.py` | shared graph and ledger | `handle_402`, one call per delivery | an invoice is charged once, within policy, and every answer is on record |
| Stripe clients | `payments/stripe_client.py`, `stripe_mcp.py` | at Stripe | `pay`: MCP, then SDK, then mock | one idempotency key, one charge |
| ledger | `payments/intuit_reconciler.py` | module-level list | `reconcile` | agrees with the charges |
| policy check | `control_plane/policy_check.py` | YAML | `check_policy` | a vendor stays within its limit |
| vendor graph, score | `gbrain/knowledge_graph.py`, `anomaly_detector.py` | payments per vendor by date, in memory | `record_payment`, `expected_range`, `score_invoice`, `scan` | the online score agrees with the batch scan as far as both know the same payments; what lies outside the range shown is flagged |
| loader, findings | `ingestion/loader.py`, `analysis/findings.py`, `gbrain/invoice_ingestion.py` | none | `load_transactions`, `find`, `detect_recurring` | stable findings, none swallowed before they are looked for |
| analysis loop | `analysis/loop.py`, `scripts/tenant_loop.py`, `connectors/` | `connector.json`, `findings.json`, `escalations.jsonl` | `run_cycle`: fetch, save cursor, analyse, escalate, save map | each finding escalated, and once unless something explains the second time; the cursor passes only what was fetched |
| earn endpoints | `payments/mpp_server.py` | earn events, a third JSONL file | token check, authorisation, skill, earn event | paid work is delivered and counted once |
| governance | `control_plane/c1_client.py`, `c1_governance.py`, `baton_client.py` | at ConductorOne | authorise, grant, revoke | a failed call never counts as a grant |
| act agents | `acts/`, `api/routes/str_acts.py` | counters, caches, dedupe sets in memory | act runs, month end, live cache | counters and caches survive concurrent requests; month end pays once |
| coordination | `api/routes/str_acts.py`, `acts/property_mgmt_agent.py`, `skills/coordination_skill.py` and its kin | the sets of what was logged | polls of stalls, scheduling, performance; nudge and reassign buttons | each handoff surfaces without flooding the feed; a card reported is a card issued |
| payouts, cards, envelopes | `payments/payouts.py`, `connect.py`, `issuing.py`, `envelopes.py` | mocked transfers, audit entries | `run_payouts`, `issue_cleaner_card`, sign and verify | a batch that fails half way can be repeated |
| orchestrator | `agent/hermes_orchestrator.py`, `hermes_client.py` | a conversation | ask, run a skill, remind, conclude | always ends; never repeats a call at once; money only behind the gate |
| tenancy, model routing | `agent/tenancy.py`, `claw_router.py`, `local_client.py` | `config.yaml` | `load_tenant`, `route_llm` | finance data never reaches a frontier model |
| reports | `analysis/report.py`, `export.py`, `api/routes/tenant.py` | `report.md`, `analysis.json` | `build_report`, `write_analysis_json`, the dashboard's read | both files whole and from the same run |
| listing audit | `skills/aeo_skill.py` | none | `audit_listing`: scores, flags, proposed block and opening | scores and flags agree; proposals do not hurt |
| dynamic pricing | `skills/dynamic_pricing_skill.py` | none | `recommend_price` | repeated use settles; the trace says what was done |
| procurement | `procurement/` | none | `switch_vendor` | never without a vendor |
| the rest | parsers, profit and loss, demo, billing, guest messages, `ui/` | fixtures, views | read, convert, render | data conversion, not modelled |

How they interact: `POST /webhooks/402` calls `handle_402`, which reads the
shared graph, checks policy, scores the amount, and calls the harness; the
harness calls the approval gate, the skill `pay_invoice_skill` (and through it
`stripe_client.pay`) and the audit chain; `handle_402` then posts to the ledger
and to the graph. `POST /approvals/{id}/decide` writes the gate's files from
another thread. The analysis loop is a separate process started by a scheduler;
it shares the finding and scoring functions with the API, and `analysis.json`,
which the dashboard reads while a run may be writing it. The orchestrator calls
the same harness with the calls a model names. The pages poll the coordination
routes every few seconds, from as many threads as there are requests.

What is hard here: threads interleave between a file's read and its write;
writes can be cut; vendors deliver invoices again; a backend may act and then
fail to answer; the process restarts with an empty memory beside files and
charges that persist; decisions taken from a state are acted on after it
changed. `PROJECT.json` lists each such hazard at its line with the properties
that cover it.

## 2. Modules

| module | models | checked by | proofs |
|---|---|---|---|
| `AuditChain` | `audit_log.py`, each append as its two file accesses | `MCAuditChain` | `AuditChainProofs` |
| `TamperEvidentLog` | what the chain promises an auditor (abstract) | refinement in `AuditChain` | `LogIsTamperEvident` |
| `RequireApproval` | `require_approval.py`, each call as its file accesses | `MCRequireApproval` | `RequireApprovalProofs` |
| `StableSort` | the order `sorted` and `list.sort` give, and filtering comprehensions (pure) | `MCFunctions`, `MCAnalysisLoop` | `DataTheorems` |
| `AnomalyDetector` | `score_invoice`, `scan`, `expected_range` (pure) | `MCFunctions`, `MCInvoicePipeline` | `AgentProofs` |
| `KnowledgeGraph` | `record_payment` fed by the invoices that were clean and paid, and the scan over all | `MCFunctions` | `AgentProofs` |
| `InvoicePipeline` | `handle_402`, harness, Stripe client, on the shared graph | `MCInvoicePipeline` | `InvoicePipelineProofs` |
| `GatedSpend` | what the pipeline promises about money (abstract) | refinement in `InvoicePipeline` | `SpendIsGated` |
| `TransactionFindings` | `load_transactions` and `find` (pure) | `MCAnalysisLoop` | `AnalysisLoopProofs` |
| `AnalysisLoop` | `run_cycle` and the connectors | `MCAnalysisLoop` | `AnalysisLoopProofs` |
| `StrActs` | the routes of the acts, `mpp_server.py`, payouts, cards, envelopes, `authorize` | `MCStrActs` | `StrActsProofs` |
| `Orchestrator` | `hermes_orchestrator.py` with the scripted planner, the harness and the skills it runs | `MCOrchestrator` | `AgentProofs` |
| `Turnover` | `detect_stalls`, `clean_stalls` (pure) | `MCTurnoverFeed` | |
| `TurnoverFeed` | the polled routes and buttons of `str_acts.py`, `append_interaction` | `MCTurnoverFeed` | `TurnoverFeedProofs` |
| `ListingAudit` | `aeo_skill.py`, and a host who adopts what it proposes | `MCFunctions` | `AgentProofs` |
| `DynamicPricing` | `dynamic_pricing_skill.py`, and a host who adopts its rates | `MCFunctions` | `AgentProofs` |
| `TenantReport` | `tenancy.py`, `route_llm`, `report.py`, `export.py`, the dashboard's read | `MCFunctions` | `AgentProofs` |

`InvoicePipeline`, `StrActs` and `Orchestrator` compose the others by contract:
a call of the gate or of the audit log is one step there; the file accesses
inside that step, and what concurrent calls do to each other in them, are the
subject of `RequireApproval` and `AuditChain`. `InvoicePipeline` and
`KnowledgeGraph` use `AnomalyDetector` directly, `AnalysisLoop` uses
`TransactionFindings`, and `TurnoverFeed` uses `Turnover`. `DataTheorems` holds
the facts about sums, sorting and squares that the proofs share. `MCFunctions`
checks four parts in one run that share no state: each of its behaviours picks
one of them and leaves the others at their initial states.

Operators named `...Once`, `...Later`, `...By...` and so on with a comment
"Mutant of" are deliberately wrong variants of the definition below them; no
specification uses them. `PROJECT.json` says which property each one breaks.

### State and actions

*AuditChain.* `log` is the file's lines, `closed` whether it ends with a
newline, `head[w]` the `(prev_hash, seq)` a writer holds between `_read_head`
and the write. SHA-256 is taken to be collision free, so a hash is the number
of the entry it was computed for. `ReadHead`, `Refuse` (unreadable tail),
`ReadFault` (the swallowed `OSError`), `WriteEntry`, `WriteTorn` and
`WriteUnterminated` (a cut write with or without the whole text), `Abandon`.

*RequireApproval.* `files` maps a request id, a spend and a day, to an absent,
blank or full record. Time runs in half days because a record lives 24 hours
while its id holds a date. A call is at a point `pc[p]` between two file
accesses; `Truncate` and `Write` are the two halves of `write_text`. `raced`
marks the requests on which two `decide` calls have overlapped.

*InvoicePipeline.* One worker per webhook thread, `pc` naming the step of
`handle_402`, the harness or `pay` it takes next. `stripe[i]` counts the payment
intents Stripe holds for an invoice per backend: through the SDK the invoice id
is the idempotency key, through MCP it is metadata only. `audit`, `ledger` and
`graph` count what was recorded. The gate's answer and the request it makes
(`GateCloses`, `GateAsks`) are two steps, and so are the entry in the ledger and
the payment in the graph (`Reconcile`, `RecordPayment`): the code does each pair
without a lock, and other threads and people come between. The calls fall on one
day, so a spend key is vendor and amount.

*AnalysisLoop.* `rows` are the statements on disk, `known` the keys in
`findings.json`, `escalated` the findings with a line in `escalations.jsonl`,
`cursor` the contents of `connector.json`. `fetched` is what a fetch returned:
the code counts it and drops it, so it never joins `rows`. `ran` are the kinds of
cycles that have run. A cycle runs fetch, save cursor, analyse, escalate, save; a
fault at any I/O call, or the death of the process between any two of them, is a
`Mishap`. `OnFile` says which statements the folder holds at the start.

*StrActs.* A request (`call[t]`) is a route at one of two doors: the acts under
`/str`, on worker threads, or the mounted `/mpp` server, whose `async` handlers
never await and so run one at a time. `pc[t]` is its next step that others can
see: authorize, gate, ask, decide (the demo approves its own request), sign,
move, record, earn, count, reply, and for an account connect, provision,
account. What the code does without a lock is apart: `gate` reads the approval
and `ask` overwrites it with a new request; `provision` caches the account of
`owner[t]` and `account` appends its entry. `stood` are the threads during whose
call the approval they need stood at some time. `signed`, `moved` and `done`
count, per job (a property's fee, card or reassignment card, a crew member's
payout), the envelopes on record, what was really sent, and the entries saying
so; `opened`, `earned` and `requests` are on disk, `accounts`, `cache` and
`metrics` in memory, where `Restart` loses them. Three choices carry the
environment: `authorize` may answer either way on each call, since the grants on
file and the local policy both change under it; `DEMO_MODE` is any member of
`DemoModes`; a person decides a pending request at any time. A payment's
idempotency key is the signature of an envelope made for it with a new key pair
or a new time stamp, so Stripe never recognises one; the MCP backend, whose
fallback pays twice, is the subject of `InvoicePipeline` and off here. The calls
fall on one day, so no request expires.

*KnowledgeGraph.* `payments` is the graph, `paid` and `flagged` what became of
each invoice that `arrived`: a flagged one is escalated and never recorded, a
clean one is recorded if policy and spend gate let it be paid.

*Orchestrator.* `pc` is where the loop is: asking the planner, at the gate,
running a skill, auditing. `steps` is the trace, `last` and `repeats` are
`_last_skill_key` and `_consecutive_count`, and `requests`, `approvals` and
`charges` are what the harness leaves behind. The planner is the model, which
may propose any call of `Calls` or end the run in any way, or the script of
`_scripted_mock`. A call keeps the form its amount is given in, since the gate
reads numbers only; for a 402 event whether the model passes a threshold above
its amount, since that event is gated inside its skill against the model's own
threshold, or the default one (`DearEvents`); and whether its invoices are the
`__SEED__` sentinel, which the repeat key leaves out. `Raise` is any exception:
nothing in `orchestrate` catches one. `HumanDecide` may come at any time.

*TurnoverFeed.* `feed` is the lines of the interactions file, `closed` whether
it ends with a newline, `marked` the three dedupe sets, `cards` the cards issued.
A request is `pc[c]` and its locals `work[c]`: what its loop has yet to go
through, the item it logs, where the draft came from, what follows the append.
`BeginPoll`, `LogItem`, `Mark` and `EndPoll` are a poll; `Nudge`, `Assign` and
`Issue` the buttons; `ReadHead`, `RefuseTail`, `Write` and `FailWrite` an append,
which raises into the request when it fails, except inside `issue_cleaner_card`.
`IssueFails` is a card whose signing or audit entry raises: the request ends there.
The feed is hash-chained with the code of the audit log; forks are `AuditChain`'s
subject and not modelled again.

*TenantReport.* A run loads the configuration and the data, asks a model, and
empties and fills two files in turn. A file is its blocks, each with the run it
came from: a write that starts over while another is under way leaves blocks of
both. `EditConfig` and `Deliver` change what later runs load. `ReportFails` and
`JsonFails` are writes that raise, `Killed` ends a run at any point. `sent`
collects the prompts; `mishap` notes what went wrong since a run last began
alone: a write failed, a run was killed, or two runs overlapped.

*ListingAudit.* A listing is the structured fields that hold a value, the three
answers whose wording matters, the phrases of its text and its amenities; the
scores, flags, block and opening are operators on it. `Edit` changes one thing,
`Adopt` publishes the proposed block, alone or with the opening. *DynamicPricing*
computes in cents and cuts intermediate products so that the numbers fit TLC's
integers, where the code rounds once; `RatesSettle` leaves room for that.
`Reprice` makes the recommendation the next base rate in an unchanged market.

*AnomalyDetector* works on whole amounts and keeps mean and variance as
numerators, so that each comparison of the code is one of integers. A
transaction of *TransactionFindings* is an expense outside the categories tied
to revenue, and a month has 31 days.

## 3. What the runs check

Passing runs:

| run | properties | shows |
|---|---|---|
| `audit` | `EntriesRooted`, `BrokenIffForked`, `AckedReadable`, `ImplementsTamperEvidentLog` | two threads without a lock and failing reads and writes: where every line parses, verification fails exactly on a fork; the history only grows and stays rejected once it is |
| `approval_threads` | `GrantNeedsApproval`, `NoSplitDecision`, `PoisonedForever` | three concurrent callers, failed writes, expiry, a change of day: no grant without a person's approval of that request, no two verdicts on it unless its `decide` calls overlapped, a poisoned request stays closed |
| `functions` | `ScanAgrees` | up to the first invoice of a vendor that is not paid, arrival and batch scan judge alike |
| | `OutsideIsFlagged`, `RepeatsAreUsual` | what the range leaves out is flagged, what lies between two earlier amounts is not (the range is wider than the score near its ends, see `InsideIsUsual` below) |
| | `PerfectIsClean`, `AdoptedIsConsistent` | a host edits and adopts: a perfect score has no flag, the proposals agree with each other |
| | `RatesSettle` | repricing in a calm market comes to rest between its start and the comps |
| | `FinanceStaysLocal`, `FilesAgree` | a configuration edited under way sends no finance prompt out; however runs failed, died or overlapped, a run that then begins alone leaves both files whole and its own |
| `pipeline` | `AnswerOnRecord`, `BooksBalance`, `ImplementsGatedSpend` | MCP, SDK, audit and sandbox failures, restarts, approvals given between the gate and its request: spending stays gated through either backend and happens once through the SDK, answers are on record, ledger and graph differ by exactly the payments a thread has yet to record |
| `loop` | `KnownWereEscalated`, `RepeatsHaveCause`, `CursorCovered`, `SpikesEscalated` | weekly and monthly cycles in which every load, save, fetch and escalation may fail and the process may die: a key on file has its line, a spike is repeated for a cause, and is escalated in the end while a cycle still finds it; the cursor passes only what was fetched |
| `acts` | `EnvelopeFirst`, `BooksMatch`, `BatchInOrder`, `MetricsMatchEvents`, `CachedWasSold`, `PaidOnApproval` | concurrent requests, failed appends, a failing SDK, restarts, decisions at any time: money moves only behind an envelope and for a call during which the approval stood, and counters, books and caches agree with the log |
| `orchestrator` | `NeverTwiceInARow`, `PaidBehindGate`, `StopsAtEscalation`, `ScriptCompletes`, `Returns` | any model, or the script, with decisions and exceptions anywhere: no call twice in a row, what meets a gate under its threshold is charged only after an approval, an escalation ends its run, every run returns |
| `feed` | `MarkedOnFeed`, `FloodBounded`, `PreauthBacked`, `Surfaced` | overlapping polls, buttons, failing appends and cards, cut lines, a restart: nothing is taken for logged that is not, no flood, a card on the feed was issued, every handoff surfaces unless a line was cut |

Type invariants are in no run: each module's `TypeOK` (of `TenantReport`,
`ReportTypeOK`) is a theorem where the module has proofs, and those proofs hold
for every instance.

Runs that end in a violation; each states what the repository says and the code
does not do:

| run | what happens |
|---|---|
| `audit_fork` | two interleaved appends share a head and the chain no longer verifies |
| `pipeline_double` | a lost MCP answer followed by the SDK charges twice |
| `loop_stranded` | a cycle fetches what the bank posted, moves the cursor past it, and analyses an empty statement |
| `spend_bypass` | a model that writes an amount as a string, or gives a 402 event a high threshold, is charged with no approval |

### Further configurations

These are not in `PROJECT.json`'s list of runs and are started by hand
(`tlc -config <name>.cfg <MC module>.tla`). Each checks one property that the
repository's text claims, or that one might expect, and ends with a
counterexample:

| configuration | property | what happens |
|---|---|---|
| `MCAuditReadFault` | `NeverReanchored` | a failed tail read re-anchors the chain on genesis |
| `MCAuditLongTail` | `RefusedOnlyCorrupt` | an intact entry longer than 4096 bytes stops the log |
| `MCApprovalLost` | `RequiredOnlyIfNotGranted` | `create_request` overwrites an approval given in between |
| `MCApprovalSplit` | `NeverSplit` | two concurrent decisions on one request return opposite verdicts |
| `MCApprovalList` | `ListAnswers` | a blank record makes `list_pending` raise |
| `MCLoopRefire` | `NeverRefires` | weekly and monthly cycles overwrite each other's map |
| `MCLoopTie` | `NeverRefires` | a tie of categories changes a finding's key with the hash seed |
| `MCLoopMasked` | `NewFindingsEscalated` | a second spike of a vendor is taken for the first |
| `MCLoopDuplicate` | `DuplicatesFound` | the loader merges exact duplicates before they are looked for |
| `MCLoopLost` | `KnownAlwaysEscalated` | a failed escalation write still counts as escalated |
| `MCLoopWeekly` | `EverySpikeEscalated` | a weekly cycle dies before it writes, a row of the next month comes, and the spike is in no weekly period again |

For the next ones, take the named configuration with the constants given and
the property in place of its own (`SPECIFICATION Spec` where it names
`FairSpec`, no `SYMMETRY` for an action property, `Backends={"sdk"}` for the
pipeline):

| from | with | property | what happens |
|---|---|---|---|
| `MCAudit` | | `AckedAlwaysReadable` | an append that runs into a cut line is acknowledged and cannot be read back |
| `MCPipeline` | `Workers={w1}`, `Faults={"audit"}`, `Invoices={new}`, `MaxCalls=1` | `ChargesAudited` | a failed append leaves a charge without an entry |
| `MCPipeline` | `Workers={w1}`, `Faults={}`, `Invoices={bad}`, `MaxCalls=1` | `EveryCallAnswers` | a blocked skill result is handled as a payment and fails |
| `MCPipeline` | `Workers={w1}`, `Faults={}`, `Invoices={odd}`, `MaxCalls=2` | `ApprovalKept` (action) | an approval of a flagged invoice is reset, never used |
| `MCPipeline` | `Workers={w1}`, `Faults={}`, `Invoices={new}`, `MaxCalls=2` | `PostedPerCharge` | a delivery repeated is charged once and posted twice |
| `MCPipeline` | `Faults={}`, `Invoices={twin1, bad}`, `Unsafe={}`, `Threshold=200`, `MaxCalls=2` | `ScoreStillHolds` (action) | a payment recorded between score and charge makes the charge an outlier |
| `MCPipeline` | `Workers={w1}`, `Faults={}`, `Invoices={twin1, twin2}` | `WithinMonthlyLimit` | a monthly limit is compared with one invoice at a time |
| `MCStrActs` | `DemoModes={FALSE}`, `Faults={}` | `AnswerFitsRequest` | the live cache serves one rate's answer for another |
| | | `PaidWhileApproved` (action) | a call that had read the gate earlier overwrites the approval, and another pays on it |
| | | `FeePaidOnce` | loading an approved reconciliation again pays it again |
| | | `CardsAuthorized` | a reassignment issues a card without asking for authorization |
| `MCStrActs` | `DemoModes={FALSE}`, `Faults={"audit"}` | `AccountsOnRecord` | an account whose entry failed stays cached, and is never logged |
| `MCOrchestrator` | `MaxRuns=1` | `ReminderTrue` | a reminder calls a call executed whose invoices were the sentinel in one form and absent in the other |
| | | `DecidedByHuman` | the model decides a request itself, recorded as decided by a human |
| | | `EscalationSurfaces` | a renewal that escalated inside its skill counts as executed, and the run does not say that someone must decide |
| `MCTurnoverFeed` | | `SurfacedOnce` | two polls at a time log a handoff twice |
| | | `PollsAnswer` (action) | a failed append, or a cut line before it, ends a poll with an error |
| | `Replies={"error"}` | `LiveWasAnswered` | a model call that failed is logged as live reasoning |
| `MCFunctions` | | `ScanAlwaysAgrees` | an invoice that was not paid is in the scan's history and not in the graph's |
| `MCFunctions` | `Amounts = {100, 110, 118}` | `InsideIsUsual` | 118 after 100 and 110 lies in the range, which uses `stdev`, and is flagged, by `pstdev` |
| `MCFunctions` | | `BlockNeverHurts` | the proposed block has no place for the minimum stay, and loses its point |
| | | `AdoptedNeverConflicts` | the block answers for pets with a default that the text contradicts |
| | | `AnsweredFlagsClear` | flags that the block answers come back for Sweet Clementine, whose flags are fixed |
| | | `RatesNearComps` | in a hot market each round raises the rate further from the comps |
| | | `TraceIsTrue` | without comps of the request the trace says the signal alone was followed, though default comps were blended in |
| | | `LowWhenNoComps` | the default comps lend their confidence to a request without any |
| | | `DashboardReads` | two runs leave a file that does not parse |
| | | `NeverGoesBack` (action) | a run that loaded older data finishes last and replaces newer results |
| | | `SummaryIsReal` | the frontier client's mock text is kept as the summary |

### Bounds

Every bound is a constant that a guard names.

- `audit`: two writers and four entries, with both kinds of line: a fork needs
  two writers, a fork on a fork three entries, and the fourth runs into a cut
  line of the others. Any number of writers is the theorems' business.
- `approval_threads`: three callers at once with four calls; one spend over and
  one under the threshold; time to one day past the request's own. The shortest
  split or lost decision takes three calls.
- `pipeline`: two threads, four deliveries and four invoices of two vendors:
  twins with one spend key, a denied text whose amount no longer fits its vendor's
  history once a twin is paid, one over the limit.
- `functions`: four invoices over two dates, paid or not, with amounts that are
  immaterial, borderline and far off; three edits from a bare, a full and a fixed
  listing, each followed by any number of adoptions; markets on both sides of
  calm, repriced until the rate passes 600.00; two runs of a tenant, two data
  sets, one edit of the configuration, texts of one and two blocks, any write
  failing and any run killed.
- `loop`: two rows on file for a baseline and two more to come, over two months,
  enough for a spike and for the month that hides it; both modes; one bank
  transaction; one fault, anywhere.
- `acts`: two threads, three requests out of twelve kinds, a fee that needs
  approval and a property charged right, a crew of two, three bodies with two
  cache keys, two faults.
- `orchestrator`: three turns, as many as the equal calls that end a run; two
  runs, so that the second meets the approvals of the first; a spend over and one
  under the thresholds; a call of each skill, the payment with a number and a
  text, the 402 event with and without a raised threshold, the look in two forms.
- `feed`: two threads, two properties with a handoff each, one button, one
  mishap, which may be a card that cannot be signed or recorded. The polls
  themselves are not bounded. One route is polled: the routes differ in what is
  due, not in how it is logged.

Deadlock is checked except where the environment may stop asking: nobody has to
call the gate, deliver an invoice, decide a request, load a page or send another
statement, and the bounds on edits and runs end the behaviours of `functions`.

### Fairness

`AnalysisLoop!FairSpec` is strong fairness of the start of each scheduled mode
(the cron lines of `connectors/README.md`), and weak fairness of a running cycle
going on, by a step that succeeds or one that fails; `run_cycle` is sequential
code without waits, so this is no more than the process being scheduled.
`Orchestrator!FairSpec` is weak fairness of the loop's own steps: a skill
returns or raises, and the call to the model has a timeout
(`hermes_client.py:92`). It says nothing of a human, who need never decide.
`TurnoverFeed!FairSpec` is weak fairness of the steps of a request that runs,
and strong fairness of each route's polls, since the pages poll on a timer
(`ui/src/hooks/usePoll.ts:28`) and a request waits for a free thread, no longer.
Buttons, decisions and faults are never fair; faults are bounded by
`MaxMishaps`, and the properties are about what happens once they stop. The
other modules are request driven and owe nobody a next request, so no liveness
is stated for them.

## 4. What is proved

TLAPS checks these for every value of the constants, with no other assumption
than the named `ASSUME`s of the modules (bounds are naturals, fault sets hold
known faults, amounts, prices and rates are naturals, the sets of threads,
invoices and services are finite) and what the theorem itself states.

Two kinds of data are not counted step by step but summed, sorted or squared.
`DataTheorems` proves what is needed of `SumFunctionOnSet` (any element may be
taken out of a sum, a sum moves with the one summand that changes), of
`SortedPlaces` (every rank is taken once; a place with the largest key and index
comes last), of `Picked` (a filtered list holds what the condition lets through,
and grows with the list) and of sums of squares. The library's induction rules
take an operator as a parameter, which the provers cannot instantiate. Induction
over a finite set is done with the well-foundedness of strict inclusion on its
subsets instead: a counterexample would have a minimal one (`MinimalSubset`); so
is counting up to a bound (`CountUp`), which unfolds the recursive function in
`Picked`. The facts about walking a chain are in `AuditChainProofs`.

| theorem | statement | inductive invariant |
|---|---|---|
| `AuditChainProofs!TypeCorrect` | `[]TypeOK` | itself |
| `BrokenStaysBroken` | `BrokenForever` | none: the first bad line stays where it is, as files only grow |
| `Rooted` | no write faults: `[]EntriesRooted` | `RootedInv`: every head in flight is genesis or one past an entry on file |
| `ForksAreDetected` | no faults: `[]BrokenIffForked` | `ForkInv`: also, hashes on file are distinct |
| `AcknowledgedIsReadable` | `[]AckedReadable` | itself, with the types: a file that parses parsed before the last write, and lines only grow |
| `LogIsTamperEvident` | the chain implements `TamperEvidentLog` | `AuditInv`: each line is read back as written, and a walk of `verify_chain` over a file is a walk over what a write makes of it, one entry longer or broken |
| `RequireApprovalProofs!TypeCorrect` | `[]TypeOK` | itself |
| `GrantsAreApproved` | `[]GrantNeedsApproval` | `ApprovalInv`: an approved record, and every call about to grant, names an approved id; without it a call between its two reads could forget why it may grant |
| `PoisonedStays` | `PoisonedForever` | `TypeOK` |
| `OneDecision` | `[]NoSplitDecision` | `VerdictInv`: a pending record has no verdict yet; a `decide` call on its way found the request so, unless it is marked; overlapping `decide` calls are marked |
| `InvoicePipelineProofs!TypeCorrect` | `[]TypeOK` | itself |
| `SpendIsGated` | the pipeline implements `GatedSpend`, which counts charges under the invoice's key (the SDK, once) and without (MCP, gated but as often as it is asked) | `SpendInv`: a worker past the guardrail has an admitted invoice, one past the gate a free or approved one, and an approved record a human's approval |
| `AnswersAreOnRecord` | `[]AnswerOnRecord` | `Backed(w)`: a worker past its audit entry, or past its request, has it on file |
| `BooksStayBalanced` | `[]BooksBalance` | with the types: `Audited(i)`, every ledger entry and every worker about to post one has a payment entry, and `Matched(v)`, the vendor's new graph edges with the threads between ledger and graph (`Held`) are the sum of its ledger entries |
| `AnalysisLoopProofs!TypeCorrect` | `[]TypeOK` | itself |
| `KnownFindingsAreLogged` | no failed escalation write: `[]KnownWereEscalated` | `EscalatedFirst`: a cycle's findings are known or new until logged, and logged before the map is saved |
| `CursorFollows` | `[]CursorCovered` | `CursorInv`: so is the cursor that a cycle is about to save |
| `SpikesFireOnce` | `[]RepeatsHaveCause` | `RepeatInv`: as long as none of the causes is there (`Calm`), every logged spike whose entry is in the period is a spike of the period still (`SpikesStand`) and has its key in the map or in the findings about to be saved, and what a cycle takes for new is not in the log. Rests on `PeriodAppend` and `SpikesStay`: a row that comes last in time is added behind the period, or opens one of its own, and unmakes no spike |
| `StrActsProofs!TypeCorrect` | `[]TypeOK` | with `RouteInv`: a thread is only at steps its route has; without it the job it pays for would have no type |
| `FeesAreApproved` | `PaidOnApproval` | `GateInv`: every call under way has noticed an approval that stands (`Noticed`), and one past the gate with a fee over the threshold has noticed one (`Clear`). That the approval still stands is not part of it: a call that read the gate earlier may overwrite it |
| `EnvelopesFirst` | `[]EnvelopeFirst` | `Covered(j)`: envelopes of a job cover what moved, what is entered, and the threads between signing and entry, by counting the threads at those steps |
| `BatchesInOrder` | `[]BatchInOrder` | `Ahead(m, n)`: the payments of a later member, with the batches that are between the two, are at most those of the earlier one |
| `BooksKeepMatching` | `[]BooksMatch` | `GapBounded(j)`: what moved less what is entered, less the threads between the two, changes only by a fault, which cuts off at most every thread once; `AccountsInv`: the cached accounts that are off record, but for those whose entry is due, are at most the mishaps |
| `CachedAnswersWereSold` | `[]CachedWasSold` | `CacheInv`: the answers a service can serve from the cache, with those threads between earn and reply are about to cache, are at most its earn events |
| `MetricsKeepMatching` | `[]MetricsMatchEvents` | `MetricsInv`, the property on the sums themselves; an earn event adds one summand on both sides, the count moves it from one to the other |
| `AgentProofs!TypeCorrect` | `[]TypeOK` | itself; it bounds `repeats` and ties the tool turns to the turn |
| `NoRepeats` | `[]NeverTwiceInARow` | `RepeatInv`: the last key is that of the last step, or of the call under way, which differs from it |
| `ChargesAreApproved` | `[]PaidBehindGate` | `PaidInv`: an approved request has an approval on record, and a call with a numeric amount runs only when that clears the gate |
| `EscalationsEnd` | `[]StopsAtEscalation` | `StopInv`: an escalated outcome under way has its request on file, and a recorded one is last |
| `ScriptsEnd` | `RunnableScript`: `[]ScriptCompletes` | `ScriptInv`: the tool turns so far are the script's first ones, and the call under way is the next |
| `TurnoverFeedProofs!TypeCorrect` | `[]TypeOK` | itself; it knows that a request about to mark an item marks one that is due |
| `NothingMarkedUnlogged` | `[]MarkedOnFeed` | `FeedInv`: so is the item a request is about to mark. Entries are never lost but to a line that garbles the feed for good |
| `CardsBeforeTheirLog` | `[]PreauthBacked` | `CardInv`: a request on its way to a pre-authorization has a blocked cleaning and a free cleaner, and past the issue a card |
| `PollsDoNotFlood` | `[]FloodBounded` | `FloodInv`: the lines of an item this process logged, with the callers that may still log it, are at most the callers. A caller that logged an item is not a logger again until the item is marked, and then nobody is |
| `PerfectListingsAreClean` | `[]PerfectIsClean` | `ListingOK`, the types of a listing; a full score then needs every field, and each flag contradicts one |
| `AdoptionsAreConsistent` | `[]AdoptedIsConsistent` | `ListingOK` |
| `RatesKeepSettling` | `[]RatesSettle` | the property with the types: a step that raises the rate lands within the balance, a step that lowers it keeps either bound |
| `ScansKeepAgreeing` | `[]ScanAgrees` | `ScanInv` with `Alike`: as long as the invoices came by date, the graph holds all of a vendor whose invoices were all paid, and up to the first unpaid one scan and arrival have judged alike. Then the next invoice comes last in both, and meets the same history |
| `OutsideStaysFlagged` | `[]OutsideIsFlagged` | `GraphTypeOK`; the rest is arithmetic of any history: the range is two sample deviations wide, which is at least the two population deviations of the score |
| `RepeatsStayUsual` | `[]RepeatsAreUsual` | `GraphTypeOK`; no amount of at most five is farther from their mean than two deviations, from the square of a sum (`SquareOfSum`) |
| `ReportTypeCorrect` | `[]ReportTypeOK` | itself; a run past the load has a valid tenant, which is what routes its prompt |
| `PromptsStayLocal` | `[]FinanceStaysLocal` | with the types: the run's own tenant, not the file, is asked for the routing |
| `SameRun` | `[]FilesAgree` | `FilesInv`: while nothing went wrong since a run last began alone, at most one run is under way, and the files are as far as it is, whatever they held before |

Only model-checked: liveness (`SpikesEscalated`, `Returns`, `Surfaced`), which
rests on fairness and `ENABLED`. Of what `find` computes, only the spikes are
reasoned about; recurrence, jumps, duplicates and top vendors are any findings
to the proofs.

## 5. What is left out

- Text: wording, formats, paths, digests. A digest is its input.
- Floats: amounts are whole, comparisons exact.
- `POST /webhooks/stripe`, the Stripe operations other than `pay`, and the
  ConductorOne path of `check_policy`, which falls back to the local one.
- The optional LLM guardrail, which can only answer as the built-in one does:
  the guardrail is a set of unsafe invoices.
- Categories tied to revenue and vendors beyond the top three in the findings.
- The mirror to GBrain, which nothing in the modelled parts reads back.
- Overlapping cycles of one tenant in `AnalysisLoop` (`TenantReport` has them
  for the report and the JSON), and what is in the transactions that a Plaid
  fetch returns: `run_cycle` counts them and drops them, which `loop_stranded`
  shows.
- In the acts: the turnover and portfolio views, `verify_envelope` and
  `revoke_card`, and the MCP backend of `pay`. Tokens are valid or not; transfers,
  cards and accounts are mocks in the code itself.
- What a language model says, beyond which call it names and whether its answer
  is its own. HTTP to the models.
- In the listing audit: the wording of flags and opening. In
  pricing: the live prompt, whose answer does not change the rate.
- Not modelled at all: procurement (payments and entries in a row), parsers and
  profit and loss (conversion and sums over floats), guest messages and billing
  (fixtures without state), the demo and the reality report (scripts that print),
  the user interface.

## 6. Plan

Done, in this order: the audit chain and the approval gate, on which everything
else rests; the pipeline over them, with its abstract promise; the graph and
its score; the analysis loop; the acts and the paid endpoints; the agent loop;
the coordination feed; listing audit, pricing and tenant reports.

Next:

1. Proofs: that several categories do no harm as long as a vendor has one of its
   own; what `ByDate` and `_dedup` give for rows in any order.
2. An abstract till for the earn endpoints, which counts each paid call once,
   refined by `StrActs`.
3. Overlapping cycles of the analysis loop, with `findings.json.tmp` shared.
4. `VendorSwitch`: cancel, subscribe and audit with partial failures; envelopes
   verified later, and cards revoked.
