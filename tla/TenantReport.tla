---------------------------- MODULE TenantReport ----------------------------
(***************************************************************************)
(* The analysis of one tenant, run from the command line and by the        *)
(* monthly cycle: agent/tenancy.py loads the configuration, analysis/      *)
(* report.py asks a model for a summary and writes report.md, analysis/    *)
(* export.py writes analysis.json and api/routes/tenant.py shows it.       *)
(*                                                                         *)
(* Neither file is written to a temporary one first: a write empties the   *)
(* file and then fills it from the start, so two runs at a time can leave  *)
(* the beginning of one text and the end of another.                       *)
(***************************************************************************)
EXTENDS Integers, Sequences

CONSTANTS
  Configs, \* configurations the operator may write: sensitivity and
           \* llm_routing, "" where the entry is absent
  Runs,    \* the runs that may be made, each once
  MaxData, \* bound on the number of data sets that arrive
  MaxText, \* length of the longest text, in blocks
  MaxReconfigs \* bound on the edits of the configuration

ASSUME ReportBoundsAssumption == {MaxData, MaxText, MaxReconfigs} \subseteq Nat

VARIABLES
  config, \* config.yaml
  data,   \* number of the data set under data_root
  run,    \* run -> where it is, and the tenant and data it loaded
  report, \* blocks of report.md, each the run it comes from, or Absent
  json,   \* blocks of analysis.json
  sent,   \* prompts sent: the tenant's sensitivity and the provider
  mishap, \* what went wrong since a run last began alone: "failed" for a
          \* write that failed or a run that was killed, "overlap"
  edited  \* edits so far (the bound's own count)

reportVars == <<config, data, run, report, json, sent, mishap, edited>>

Finance == {"confidential", "restricted"}
Sensitivities == {"public", "internal"} \cup Finance
Routings == {"local", "frontier"}

\* load_tenant: what an absent entry stands for.
Resolved(c) ==
  [sensitivity |-> IF c.sensitivity = "" THEN "internal" ELSE c.sensitivity,
   llm_routing |-> IF c.llm_routing = "" THEN "local" ELSE c.llm_routing]

\* Mutant of Valid: only the restricted tier is held to local routing.
ValidRestricted(t) ==
  /\ t.sensitivity \in Sensitivities
  /\ t.llm_routing \in Routings
  /\ t.sensitivity = "restricted" => t.llm_routing = "local"

\* _validate.
Valid(t) ==
  /\ t.sensitivity \in Sensitivities
  /\ t.llm_routing \in Routings
  /\ t.sensitivity \in Finance => t.llm_routing = "local"

Absent == <<"absent">>
Nobody == [sensitivity |-> "", llm_routing |-> ""]
Waiting == [at |-> "start", tenant |-> Nobody, data |-> 0, narrative |-> "none",
            length |-> 0]
Active(r) == run[r].at \notin {"start", "done"}

ReportInit ==
  /\ config \in Configs
  /\ data = 1
  /\ run = [r \in Runs |-> Waiting]
  /\ report = Absent /\ json = Absent
  /\ sent = {}
  /\ mishap = {}
  /\ edited = 0

\* The operator edits the configuration.
EditConfig ==
  /\ edited < MaxReconfigs
  /\ edited' = edited + 1
  /\ config' \in Configs
  /\ UNCHANGED <<data, run, report, json, sent, mishap>>

\* New files arrive under data_root.
Deliver ==
  /\ data < MaxData
  /\ data' = data + 1
  /\ UNCHANGED <<config, run, report, json, sent, mishap, edited>>

\* load_tenant and load_transactions; ConfigError ends the run.
Load(r) ==
  LET t == Resolved(config)
  IN  /\ run[r].at = "start"
      /\ \E n \in 1..MaxText :
           run' = [run EXCEPT ![r] =
             IF Valid(t)
             THEN [at |-> "ask", tenant |-> t, data |-> data,
                   narrative |-> "none", length |-> n]
             ELSE [Waiting EXCEPT !.at = "done"]]
      /\ mishap' = IF ~Valid(t) THEN mishap
                   ELSE IF \E q \in Runs : Active(q) THEN mishap \cup {"overlap"}
                   ELSE {}
      /\ UNCHANGED <<config, data, report, json, sent, edited>>

\* route_llm.
Provider(t) == IF t.llm_routing = "local" THEN "local" ELSE "frontier"

\* _try_narrative keeps any answer without the mark of the local mock; the
\* remote client marks its own failures with another.
Kept(provider, answer) ==
  IF answer = "mock" /\ provider = "local" THEN "none" ELSE answer

\* The model answers, or its client makes up an answer: before it sends
\* anything when there is no key or no server, or after an error.
Ask(r) ==
  LET t == run[r].tenant
  IN  /\ run[r].at = "ask"
      /\ \E answer \in {"real", "mock"}, reached \in BOOLEAN :
           /\ answer = "real" => reached
           /\ sent' = IF reached
                      THEN sent \cup {[sensitivity |-> t.sensitivity,
                                       provider |-> Provider(t)]}
                      ELSE sent
           /\ run' = [run EXCEPT ![r].at = "open report",
                        ![r].narrative = Kept(Provider(t), answer)]
      /\ UNCHANGED <<config, data, report, json, mishap, edited>>

\* The blocks of a file that run r fills from the start.
Filled(file, r) ==
  [i \in 1..(IF run[r].length > Len(file) THEN run[r].length ELSE Len(file)) |->
     IF i <= run[r].length THEN r ELSE file[i]]

\* build_report: the file is emptied, then filled; an OSError is logged.
OpenReport(r) ==
  /\ run[r].at = "open report"
  /\ report' = <<>>
  /\ run' = [run EXCEPT ![r].at = "fill report"]
  /\ UNCHANGED <<config, data, json, sent, mishap, edited>>

\* Mutant of FillReport: a run without a summary ends with the report.
FillReportOnly(r) ==
  /\ run[r].at = "fill report"
  /\ report' = Filled(report, r)
  /\ run' = [run EXCEPT ![r].at =
              IF run[r].narrative = "none" THEN "done" ELSE "open json"]
  /\ UNCHANGED <<config, data, json, sent, mishap, edited>>

FillReport(r) ==
  /\ run[r].at = "fill report"
  /\ report' = Filled(report, r)
  /\ run' = [run EXCEPT ![r].at = "open json"]
  /\ UNCHANGED <<config, data, json, sent, mishap, edited>>

ReportFails(r) ==
  /\ run[r].at \in {"open report", "fill report"}
  /\ run' = [run EXCEPT ![r].at = "open json"]
  /\ mishap' = mishap \cup {"failed"}
  /\ UNCHANGED <<config, data, report, json, sent, edited>>

\* Mutant of OpenJson: the file is filled without being emptied first.
OpenJsonInPlace(r) ==
  /\ run[r].at = "open json"
  /\ json' = IF json = Absent THEN <<>> ELSE json
  /\ run' = [run EXCEPT ![r].at = "fill json"]
  /\ UNCHANGED <<config, data, report, sent, mishap, edited>>

\* write_analysis_json.
OpenJson(r) ==
  /\ run[r].at = "open json"
  /\ json' = <<>>
  /\ run' = [run EXCEPT ![r].at = "fill json"]
  /\ UNCHANGED <<config, data, report, sent, mishap, edited>>

FillJson(r) ==
  /\ run[r].at = "fill json"
  /\ json' = Filled(json, r)
  /\ run' = [run EXCEPT ![r].at = "done"]
  /\ UNCHANGED <<config, data, report, sent, mishap, edited>>

JsonFails(r) ==
  /\ run[r].at \in {"open json", "fill json"}
  /\ run' = [run EXCEPT ![r].at = "done"]
  /\ mishap' = mishap \cup {"failed"}
  /\ UNCHANGED <<config, data, report, json, sent, edited>>

\* The process of a run is killed.
Killed(r) ==
  /\ Active(r)
  /\ run' = [run EXCEPT ![r].at = "done"]
  /\ mishap' = mishap \cup {"failed"}
  /\ UNCHANGED <<config, data, report, json, sent, edited>>

ReportNext ==
  \/ EditConfig \/ Deliver
  \/ \E r \in Runs : \/ Load(r) \/ Ask(r)
                     \/ OpenReport(r) \/ FillReport(r) \/ ReportFails(r)
                     \/ OpenJson(r) \/ FillJson(r) \/ JsonFails(r)
                     \/ Killed(r)

ReportSpec == ReportInit /\ [][ReportNext]_reportVars

---------------------------------------------------------------------------
ReportSteps ==
  {"start", "ask", "open report", "fill report", "open json", "fill json", "done"}
RunRecords ==
  [at : ReportSteps,
   tenant : [sensitivity : Sensitivities \cup {""}, llm_routing : Routings \cup {""}],
   data : Nat, narrative : {"none", "real", "mock"}, length : 0..MaxText]

\* A run past load_tenant has a valid tenant and a text to write.
RunOK(r) ==
  /\ run[r] \in RunRecords
  /\ Active(r) => Valid(run[r].tenant) /\ run[r].length >= 1
  /\ run[r].at = "fill report" => report \in Seq(Runs)
  /\ run[r].at = "fill json" => json \in Seq(Runs)

\* The type invariant.
ReportTypeOK ==
  /\ config \in Configs /\ data \in Nat /\ edited \in Nat
  /\ DOMAIN run = Runs /\ run = [r \in Runs |-> run[r]]
  /\ \A r \in Runs : RunOK(r)
  /\ report \in Seq(Runs) \cup {Absent}
  /\ json \in Seq(Runs) \cup {Absent}
  /\ sent \subseteq [sensitivity : Sensitivities, provider : {"local", "frontier"}]
  /\ mishap \subseteq {"failed", "overlap"}

\* What run r writes, from end to end.
Text(r) == [i \in 1..run[r].length |-> r]

\* A file that one run wrote from end to end, or that none has written.
Whole(file) ==
  \/ file = Absent
  \/ \E r \in Runs : run[r].length > 0 /\ file = Text(r)

\* get_tenant_analysis: what the dashboard shows.
Shown ==
  IF ~Valid(Resolved(config)) THEN "no tenant"
  ELSE IF json = Absent THEN "not found"
  ELSE IF Whole(json) THEN "shown" ELSE "unreadable"

\* No prompt about a tenant of a finance tier went to a frontier model,
\* however the configuration is edited while runs are under way
\* (tenancy.py:82-103, claw_router.py:197-217, report.py:83-84).
FinanceStaysLocal ==
  \A s \in sent : s.sensitivity \in Finance => s.provider = "local"

\* One undisturbed run mends the files: whatever failed writes, killed runs and
\* overlaps went before, after a run that was alone and ran to its end both
\* files are whole and come from that run (report.py:146-151,
\* export.py:206-214).
FilesAgree ==
  mishap = {} /\ (\A r \in Runs : ~Active(r)) =>
    Whole(report) /\ json = report

\* While no run is under way and no write failed since a run last began alone,
\* the dashboard can read what was written (tenant.py:36-39).
DashboardReads ==
  "failed" \notin mishap /\ (\A r \in Runs : ~Active(r)) =>
    Shown # "unreadable"

\* The data the dashboard shows is never replaced by an older data set
\* (tenant.py:22: "the latest analysis.json").
NeverGoesBack ==
  [][\A p, q \in Runs : json # <<>> /\ json' # <<>> /\ json[1] = p /\ json'[1] = q
       => run[q].data >= run[p].data]_reportVars

\* A model that fails leaves the report without a summary (report.py:7-8).
SummaryIsReal == \A r \in Runs : run[r].narrative # "mock"
===========================================================================
