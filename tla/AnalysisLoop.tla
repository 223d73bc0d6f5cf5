---------------------------- MODULE AnalysisLoop ----------------------------
(***************************************************************************)
(* analysis/loop.py run_cycle: the weekly and monthly cycles a scheduler   *)
(* starts for a tenant, one process at a time, with the connector it       *)
(* fetches from and the two state files it keeps.  A process may die, or   *)
(* an I/O call fail, at every point where the code meets it.               *)
(***************************************************************************)
EXTENDS TransactionFindings

CONSTANTS
  Vendors, Amounts, Dates, Categories,
  Modes,       \* the cycles that are scheduled: "weekly", "monthly"
  Connector,   \* "manual_folder" or "plaid"
  Faults,      \* what may fail: "connector", "escalate", "load", "save", "crash"
  OnFile,      \* what may be in the data folder when the schedule begins
  MaxRows,     \* bound on the rows in the data folder
  MaxBank,     \* bound on the transactions the bank posts
  MaxPages,    \* pages of one transaction a fetch reads at most
  MaxMishaps   \* bound on the faults

ASSUME LoopAssumption ==
  /\ Amounts \subseteq Nat \ {0}
  /\ Dates \subseteq Nat \ {0}
  /\ Modes # {} /\ Modes \subseteq {"weekly", "monthly"}
  /\ Connector \in {"manual_folder", "plaid"}
  /\ Faults \subseteq {"connector", "escalate", "load", "save", "crash"}
  /\ MaxRows \in Nat /\ MaxBank \in Nat /\ MaxPages \in Nat /\ MaxMishaps \in Nat

VARIABLES
  rows,      \* transactions in the files of data_root
  bank,      \* number of transactions the bank has posted
  cursor,    \* connector.json: the bank's transactions read so far
  known,     \* findings.json: finding keys
  escalated, \* escalations.jsonl: findings in it
  repeated,  \* findings in it more than once
  unlogged,  \* keys of findings whose line could not be written
  pc, mode,  \* the running cycle
  ran,       \* the kinds of cycles that have been started
  newCursor, \* the cursor it fetched up to
  current,   \* the findings it made
  fresh,     \* those it takes for new
  fetched,   \* bank transactions fetch has returned to some cycle
  mishaps    \* faults so far

files == <<rows, known, escalated, repeated, unlogged>>
feed == <<bank, cursor, fetched>>
cycle == <<pc, mode, ran, newCursor, current, fresh>>
vars == <<files, feed, cycle, mishaps>>

Points == {"idle", "fetch", "save cursor", "analyse", "escalate", "save"}
Rows == [vendor : Vendors, amount : Amounts, date : Dates, category : Categories,
         number : 1..MaxRows]

ASSUME OnFileAssumption ==
  \A s \in OnFile : s \in Seq(Rows) /\ \A i \in DOMAIN s : s[i].number = i

\* _finding_key
Key(f) == <<f.title, f.category>>
Keys(findings) == {Key(f) : f \in findings}

\* A finding in the log, whatever category it was filed under.
Matter(f) == <<f.title, f.at>>

Init ==
  /\ rows \in OnFile /\ bank = 0 /\ cursor = 0
  /\ known = {} /\ escalated = {} /\ repeated = {} /\ unlogged = {}
  /\ pc = "idle" /\ mode \in Modes /\ ran = {} /\ newCursor = 0
  /\ current = {} /\ fresh = {} /\ fetched = {} /\ mishaps = 0

---------------------------------------------------------------------------
\* The tenant drops a statement with one more row.
Drop(v, a, d, c) ==
  /\ Len(rows) < MaxRows
  /\ rows' = Append(rows, [vendor |-> v, amount |-> a, date |-> d, category |-> c,
                           number |-> Len(rows) + 1])
  /\ UNCHANGED <<known, escalated, repeated, unlogged, feed, cycle, mishaps>>

\* The bank posts a transaction that Plaid will hand out.
Post ==
  /\ Connector = "plaid"
  /\ bank < MaxBank
  /\ bank' = bank + 1
  /\ UNCHANGED <<files, cursor, fetched, cycle, mishaps>>

Mishap(fault) ==
  /\ fault \in Faults
  /\ mishaps < MaxMishaps
  /\ mishaps' = mishaps + 1

\* The scheduler starts scripts/tenant_loop.py.
Start(m) ==
  /\ pc = "idle"
  /\ pc' = "fetch"
  /\ mode' = m
  /\ ran' = ran \cup {m}
  /\ UNCHANGED <<files, feed, newCursor, current, fresh, mishaps>>

\* connector.fetch: plaid pages on from a cursor until the bank has no more
\* or MaxPages are read; manual_folder has no cursor.
Pages(from) ==
  /\ pc = "fetch"
  /\ \E last \in from..bank :
       /\ last = bank \/ last = from + MaxPages
       /\ last <= from + MaxPages
       /\ newCursor' = last
       /\ fetched' = fetched \cup (from + 1)..last
  /\ pc' = "save cursor"
  /\ UNCHANGED <<files, bank, cursor, mode, ran, current, fresh>>

Fetch == Pages(cursor) /\ UNCHANGED mishaps

\* connector.json cannot be read: the state is empty, the fetch starts over.
FetchUnread == Connector = "plaid" /\ Mishap("load") /\ Pages(0)

\* Mutant of FetchFails: the pages before the failing one move the cursor.
FetchFailsHalfway ==
  /\ pc = "fetch"
  /\ Connector = "plaid"
  /\ Mishap("connector")
  /\ cursor' \in cursor..bank
  /\ pc' = "analyse"
  /\ UNCHANGED <<files, bank, fetched, mode, ran, newCursor, current, fresh>>

\* ConnectorError, for missing credentials or on any page: pages and cursor
\* are dropped, the cycle goes on with the data on disk.
FetchFails ==
  /\ pc = "fetch"
  /\ Connector = "plaid"
  /\ Mishap("connector")
  /\ pc' = "analyse"
  /\ UNCHANGED <<files, feed, mode, ran, newCursor, current, fresh>>

SaveCursor ==
  /\ pc = "save cursor"
  /\ cursor' = newCursor
  /\ pc' = "analyse"
  /\ UNCHANGED <<files, bank, fetched, mode, ran, newCursor, current, fresh, mishaps>>

\* save_connector_state and save_last_findings swallow an OSError.
SaveFails ==
  /\ pc \in {"save cursor", "save"}
  /\ Mishap("save")
  /\ pc' = IF pc = "save" THEN "idle" ELSE "analyse"
  /\ UNCHANGED <<files, feed, mode, ran, newCursor, current, fresh>>

---------------------------------------------------------------------------
\* Mutant of _diff_findings: nothing is compared.
_all_findings(findings, last) == findings

\* Mutant of _diff_findings: a vendor with any known finding is not new.
_diff_vendors(findings, last) ==
  {f \in findings : \A key \in last : key[1][2] # f.title[2]}

_diff_findings(findings, last) == {f \in findings : Key(f) \notin last}

\* The transactions a cycle looks at.
Period(m) ==
  IF m = "weekly" THEN Newest(load_transactions(rows)) ELSE load_transactions(rows)

\* load_transactions, and find in _run_weekly or _run_monthly.
Found(findings) ==
  \E txns \in {Period(mode)} :
    \E category \in Categorizations(txns) : findings = find(txns, category)

\* Mutant of Analyse: the map is saved before the findings are escalated.
AnalyseAndSave ==
  /\ pc = "analyse"
  /\ Found(current')
  /\ fresh' = _diff_findings(current', known)
  /\ known' = Keys(current')
  /\ pc' = "escalate"
  /\ UNCHANGED <<rows, escalated, repeated, unlogged, feed, mode, ran, newCursor, mishaps>>

\* The findings of the cycle and, against those of the last one, the new ones.
Compared(last) ==
  /\ pc = "analyse"
  /\ Found(current')
  /\ fresh' = _diff_findings(current', last)
  /\ pc' = "escalate"
  /\ UNCHANGED <<files, feed, mode, ran, newCursor>>

Analyse == Compared(known) /\ UNCHANGED mishaps

\* load_last_findings cannot read findings.json: no finding is known.
AnalyseUnread == Mishap("load") /\ Compared({})

\* The lines for the findings fs are appended to escalations.jsonl.
Written(fs) ==
  LET matters == {Matter(f) : f \in escalated}
  IN  /\ escalated' = escalated \cup fs
      /\ repeated' = repeated \cup {f \in fs : Matter(f) \in matters}

\* _escalate
Escalate ==
  /\ pc = "escalate"
  /\ Written(fresh)
  /\ pc' = "save"
  /\ UNCHANGED <<rows, known, unlogged, feed, mode, ran, newCursor, current, fresh,
                 mishaps>>

\* An OSError after some of the lines; it is logged and the cycle goes on.
EscalateFails ==
  /\ pc = "escalate"
  /\ fresh # {}
  /\ Mishap("escalate")
  /\ \E fs \in SUBSET fresh :
       Written(fs) /\ unlogged' = unlogged \cup Keys(fresh \ fs)
  /\ pc' = "save"
  /\ UNCHANGED <<rows, known, feed, mode, ran, newCursor, current, fresh>>

\* save_last_findings replaces the file: the map holds this cycle's findings.
Save ==
  /\ pc = "save"
  /\ known' = Keys(current)
  /\ pc' = "idle"
  /\ UNCHANGED <<rows, escalated, repeated, unlogged, feed, mode, ran, newCursor,
                 current, fresh, mishaps>>

\* The process dies; both state files are replaced as a whole, the log may
\* have got some of the lines.
Crash ==
  /\ pc # "idle"
  /\ Mishap("crash")
  /\ IF pc = "escalate" THEN \E fs \in SUBSET fresh : Written(fs)
     ELSE UNCHANGED <<escalated, repeated>>
  /\ pc' = "idle"
  /\ current' = {} /\ fresh' = {}
  /\ UNCHANGED <<rows, known, unlogged, feed, mode, ran, newCursor>>

Run == Fetch \/ SaveCursor \/ Analyse \/ Escalate \/ Save

Next ==
  \/ \E v \in Vendors, a \in Amounts, d \in Dates, c \in Categories : Drop(v, a, d, c)
  \/ Post
  \/ \E m \in Modes : Start(m)
  \/ Run
  \/ FetchUnread \/ FetchFails \/ AnalyseUnread \/ SaveFails \/ EscalateFails \/ Crash

Spec == Init /\ [][Next]_vars

\* A cycle that is running goes on, by a step that succeeds or one that fails.
GoesOn == pc # "idle" /\ pc' \in Points \ {pc}

\* The scheduler starts every mode again and again, whatever ran in between.
Fairness == WF_pc(GoesOn) /\ \A m \in Modes : SF_vars(Start(m))

FairSpec == Spec /\ Fairness

---------------------------------------------------------------------------
TypeOK ==
  /\ rows \in Seq(Rows)
  /\ bank \in 0..MaxBank /\ cursor \in 0..bank /\ newCursor \in 0..bank
  /\ pc \in Points /\ mode \in Modes /\ ran \subseteq Modes
  /\ fresh \subseteq current
  /\ Keys(repeated) \subseteq Keys(escalated)
  /\ fetched \subseteq 1..bank /\ mishaps \in 0..MaxMishaps

\* "their presence means the finding was already escalated in a prior cycle"
\* (loop.py:118-119): a key in findings.json has a line in escalations.jsonl,
\* but for findings whose own write failed.
KnownWereEscalated == known \subseteq Keys(escalated) \cup unlogged

\* The same sentence without the exception: a write that fails is swallowed,
\* and the finding's key is saved all the same (loop.py:146-147, 276-277).
KnownAlwaysEscalated == known \subseteq Keys(escalated)

\* The rows came by date, and those of a vendor have one category.
InDateOrder == \A i, j \in DOMAIN rows : i <= j => rows[i].date <= rows[j].date

OneCategoryEach ==
  \A i, j \in DOMAIN rows :
    rows[i].vendor = rows[j].vendor => rows[i].category = rows[j].category

\* A spike is escalated twice only after a fault (loop.py:276-277: at least
\* once), or when weekly and monthly cycles have shared the map (190, 215), or a
\* row came after a row of a later date, or a vendor's rows tie (findings.py:244).
RepeatsHaveCause ==
  (\E f \in repeated : f.title[1] = "spike") =>
    mishaps > 0 \/ ~(ran \subseteq {mode}) \/ ~InDateOrder \/ ~OneCategoryEach

\* Some scheduled cycle would find a spike of the vendor now.
StillFound(v) ==
  \E m \in Modes : Spikes(OfVendor(Period(m), v)) # {}

\* A spike that a cycle found gets a line for its vendor in the end, though the
\* cycle that found it may die before it writes one or saves: it is lost only
\* by a write that fails, or because the rows have changed until no cycle finds
\* it any more, as when a weekly cycle's month is over (loop.py:146, 170-187,
\* 276-277).
SpikesEscalated ==
  \A v \in Vendors :
    (\E f \in current : f.title = <<"spike", v>>)
      ~> \/ \E f \in escalated : f.title = <<"spike", v>>
         \/ \E key \in unlogged : key[1] = <<"spike", v>>
         \/ ~StillFound(v)

\* The same without the last case, which a weekly cycle that dies breaks.
EverySpikeEscalated ==
  \A v \in Vendors :
    (\E f \in current : f.title = <<"spike", v>>)
      ~> \/ \E f \in escalated : f.title = <<"spike", v>>
         \/ \E key \in unlogged : key[1] = <<"spike", v>>

\* The saved cursor never passes a transaction that no fetch has returned
\* (plaid_conn.py:193-202).  What a fetch returned is only counted: see the next.
CursorCovered == 1..cursor \subseteq fetched

\* "Load full transaction set" and "update the KnowledgeGraph with new expense
\* transactions" (loop.py:9-10): once transactions were fetched and the cursor
\* moved past them, a cycle has some to analyse.
FetchedReachAnalysis ==
  [][pc = "analyse" /\ pc' = "escalate" /\ cursor > 0
       => load_transactions(rows) # <<>>]_vars

\* "already escalated in a prior cycle and must not re-fire" (loop.py:119).
NeverRefires == repeated = {}

\* "A genuinely new finding after state is persisted gets escalated."
\* (tests/test_connectors.py:379): so have been all of a completed cycle.
NewFindingsEscalated ==
  pc = "idle" => {Matter(f) : f \in current} \subseteq {Matter(f) : f \in escalated}

\* "Flag vendors with multiple same-day charges of similar amount (likely
\* duplicate)." (findings.py:171): so does a full analysis of such rows.
DuplicatesFound ==
  [][pc = "analyse" /\ pc' = "escalate" /\ mode = "monthly" =>
       \A v \in Vendors : Duplicates(OfVendor(rows, v)) # {} =>
         \E f \in current' : f.title = <<"duplicate", v>>]_vars
===========================================================================
