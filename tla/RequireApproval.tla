-------------------------- MODULE RequireApproval --------------------------
(***************************************************************************)
(* The spend-approval gate of agent/require_approval.py: one YAML file per *)
(* request, named by a digest of action, vendor, amount and local date.    *)
(* Calls come from the worker threads of the API and from the agent loop;  *)
(* each reads the file, decides, and rewrites it, truncating it first.     *)
(* Nothing locks the file.                                                 *)
(*                                                                         *)
(* A spend stands for (action, vendor, amount); its request id on day d is *)
(* <<spend, d>>.  Time is counted in half days, so that a request outlives *)
(* the date in its id, as the 24 h time to live does.                      *)
(***************************************************************************)
EXTENDS Integers

CONSTANTS
  Callers,     \* the threads that call the gate
  Spends,      \* spend keys whose amount exceeds the threshold
  Small,       \* spend keys under the threshold
  DiskFaults,  \* TRUE when a write may fail after the file was truncated
  Escalations, \* TRUE when create_request is also called on its own
  MaxTime,     \* bound on the clock, in half days
  MaxCalls     \* bound on the number of calls

ASSUME BoundsAssumption == MaxTime \in Nat /\ MaxCalls \in Nat
ASSUME SpendsAssumption == Spends # {} /\ Spends \cap Small = {}
ASSUME FlagsAssumption == {DiskFaults, Escalations} \subseteq BOOLEAN

VARIABLES
  now,       \* the clock
  files,     \* request id -> the file of the request
  pc,        \* caller -> the access it makes next, or "idle"
  work,      \* caller -> the locals of its call
  result,    \* caller -> how its last call ended
  calls,     \* number of calls so far
  approved,  \* ids some decide call returned as approved
  verdicts,  \* id -> the verdicts returned for the request now on file
  raced      \* ids on which two decide calls have overlapped

vars == <<now, files, pc, work, result, calls, approved, verdicts, raced>>

TTL == 2
Day(t) == t \div 2
Days == 0..Day(MaxTime)
Ids == Spends \X Days

Statuses == {"pending", "approved", "denied", "expired"}
Files == [kind : {"absent", "blank", "record"}, status : Statuses, expires : Nat]

Absent == [kind |-> "absent", status |-> "pending", expires |-> 0]
Blank == [kind |-> "blank", status |-> "pending", expires |-> 0]
Pending(t) == [kind |-> "record", status |-> "pending", expires |-> t + TTL]

Points == {"idle", "check", "recheck", "create", "decide", "truncate", "write"}
Results == {"none", "auto", "granted", "required", "requested", "decided",
            "unchanged", "checked", "missing", "listed", "unlisted", "error"}

\* known: the request had been approved when the call began.
\* then: what follows the write of draft, a result or another access.
Work == [spend : Spends, id : Ids, verdict : {"approved", "denied"},
         known : BOOLEAN, enforce : BOOLEAN, draft : Files,
         then : Results \cup {"create"}]

NoWork ==
  LET s == CHOOSE s \in Spends : TRUE
  IN  [spend |-> s, id |-> <<s, 0>>, verdict |-> "denied", known |-> FALSE,
       enforce |-> FALSE, draft |-> Absent, then |-> "none"]

\* datetime.now().strftime in _request_id: the id on the day of the call.
RequestId(s) == <<s, Day(now)>>

\* Mutant of IsPending: a request can be decided again while it is approved.
IsOpen(f) == f.kind = "record" /\ f.status \in {"pending", "approved"}

IsPending(f) == f.kind = "record" /\ f.status = "pending"

\* Mutant of Grants: whatever was decided counts as approved.
GrantsDecided(f) == f.kind = "record" /\ f.status \in {"approved", "denied"}

\* is_approved: the status on file is "approved".
Grants(f) == f.kind = "record" /\ f.status = "approved"

\* Mutant of Replaceable: a file without a record is replaced.
ReplaceableBlank(f) == ~IsPending(f)

\* create_request keeps a pending record and replaces any other it can read.
Replaceable(f) == f.kind # "blank" /\ ~IsPending(f)

Expired(f) == IsPending(f) /\ now > f.expires

Init ==
  /\ now = 0
  /\ files = [id \in Ids |-> Absent]
  /\ pc = [p \in Callers |-> "idle"]
  /\ work = [p \in Callers |-> NoWork]
  /\ result = [p \in Callers |-> "none"]
  /\ calls = 0
  /\ approved = {}
  /\ verdicts = [id \in Ids |-> {}]
  /\ raced = {}

Tick ==
  /\ now < MaxTime
  /\ now' = now + 1
  /\ UNCHANGED <<files, pc, work, result, calls, approved, verdicts, raced>>

---------------------------------------------------------------------------
NewCall(p) ==
  /\ pc[p] = "idle"
  /\ calls < MaxCalls
  /\ calls' = calls + 1

\* A call whose first file access is at.
Begin(p, at, s, id, v, enforce) ==
  /\ NewCall(p)
  /\ pc' = [pc EXCEPT ![p] = at]
  /\ result' = [result EXCEPT ![p] = "none"]
  /\ work' = [work EXCEPT ![p] =
       [spend |-> s, id |-> id, verdict |-> v, known |-> id \in approved,
        enforce |-> enforce, draft |-> Absent, then |-> "none"]]
  /\ UNCHANGED <<now, files, approved, verdicts>>

EnforceSpend(p, s) ==
  /\ Begin(p, "check", s, RequestId(s), "denied", TRUE)
  /\ UNCHANGED raced

CreateRequest(p, s) ==
  /\ Escalations
  /\ Begin(p, "create", s, RequestId(s), "denied", FALSE)
  /\ UNCHANGED raced

\* q is in a decide call on id that may still record its verdict.
Deciding(q, id) ==
  /\ work[q].id = id
  /\ \/ pc[q] = "decide"
     \/ pc[q] \in {"truncate", "write"} /\ work[q].then = "decided"

Decide(p, id, v) ==
  /\ Begin(p, "decide", id[1], id, v, FALSE)
  /\ raced' = raced \cup {i \in {id} : \E q \in Callers : Deciding(q, i)}

Check(p, id) ==
  /\ Begin(p, "check", id[1], id, "denied", FALSE)
  /\ UNCHANGED raced

\* A call that ends without touching a file.
Answer(p, r) ==
  /\ NewCall(p)
  /\ result' = [result EXCEPT ![p] = r]
  /\ UNCHANGED <<now, files, pc, work, approved, verdicts, raced>>

\* Amounts up to the threshold need no approval record.
EnforceUnderThreshold(p) == Small # {} /\ Answer(p, "auto")

\* yaml.safe_load of a blank file is None, and None.get raises.
ListPending(p) ==
  Answer(p, IF \E id \in Ids : files[id].kind = "blank" THEN "unlisted" ELSE "listed")

---------------------------------------------------------------------------
Return(p, r) ==
  /\ pc' = [pc EXCEPT ![p] = "idle"]
  /\ result' = [result EXCEPT ![p] = r]
  /\ UNCHANGED <<now, files, work, calls, approved, verdicts, raced>>

GoTo(p, at) ==
  /\ pc' = [pc EXCEPT ![p] = at]
  /\ UNCHANGED <<now, files, work, result, calls, approved, verdicts, raced>>

\* path.write_text(draft), then go on with then.
Save(p, id, draft, then) ==
  /\ pc' = [pc EXCEPT ![p] = "truncate"]
  /\ work' = [work EXCEPT ![p] =
       [@ EXCEPT !.id = id, !.draft = draft, !.then = then]]
  /\ UNCHANGED <<now, files, result, calls, approved, verdicts, raced>>

WithStatus(f, s) == [f EXCEPT !.status = s]

\* check, called by is_approved or on its own: reads the record, and expires
\* it when it is pending past its time.
CheckStep(p) ==
  LET id == work[p].id
      f == files[id]
      onward == IF work[p].enforce THEN "create" ELSE "checked"
  IN  /\ pc[p] = "check"
      /\ \/ f.kind = "absent" /\ work[p].enforce /\ GoTo(p, "create")
         \/ f.kind = "absent" /\ ~work[p].enforce /\ Return(p, "missing")
         \/ f.kind = "blank" /\ Return(p, "error")
         \/ Expired(f) /\ Save(p, id, WithStatus(f, "expired"), onward)
         \/ /\ f.kind = "record" /\ ~Expired(f)
            /\ \/ ~work[p].enforce /\ Return(p, "checked")
               \/ work[p].enforce /\ Grants(f) /\ GoTo(p, "recheck")
               \/ work[p].enforce /\ ~Grants(f) /\ GoTo(p, "create")

\* enforce_spend returns check(rid): the record is read again, and returned
\* whatever it now says.
RecheckStep(p) ==
  LET id == work[p].id
      f == files[id]
  IN  /\ pc[p] = "recheck"
      /\ \/ f.kind = "blank" /\ Return(p, "error")
         \/ Expired(f) /\ Save(p, id, WithStatus(f, "expired"), "granted")
         \/ f.kind = "record" /\ ~Expired(f) /\ Return(p, "granted")

\* create_request, on today's id.
CreateStep(p) ==
  LET id == RequestId(work[p].spend)
      f == files[id]
      done == IF work[p].enforce THEN "required" ELSE "requested"
  IN  /\ pc[p] = "create"
      /\ \/ f.kind = "blank" /\ Return(p, "error")
         \/ IsPending(f) /\ Return(p, done)
         \/ Replaceable(f) /\ Save(p, id, Pending(now), done)

\* decide records the verdict on a pending record that has not expired.
DecideStep(p) ==
  LET id == work[p].id
      f == files[id]
  IN  /\ pc[p] = "decide"
      /\ \/ f.kind = "absent" /\ Return(p, "missing")
         \/ f.kind = "blank" /\ Return(p, "error")
         \/ f.kind = "record" /\ ~IsPending(f) /\ Return(p, "unchanged")
         \/ Expired(f) /\ Save(p, id, WithStatus(f, "expired"), "unchanged")
         \/ /\ IsPending(f) /\ ~Expired(f)
            /\ Save(p, id, WithStatus(f, work[p].verdict), "decided")

\* write_text opens the file with mode "w", which empties it.
Truncate(p) ==
  /\ pc[p] = "truncate"
  /\ files' = [files EXCEPT ![work[p].id] = Blank]
  /\ pc' = [pc EXCEPT ![p] = "write"]
  /\ UNCHANGED <<now, work, result, calls, approved, verdicts, raced>>

Write(p) ==
  LET w == work[p] IN
  /\ pc[p] = "write"
  /\ files' = [files EXCEPT ![w.id] = w.draft]
  /\ pc' = [pc EXCEPT ![p] = IF w.then = "create" THEN "create" ELSE "idle"]
  /\ result' = IF w.then = "create" THEN result
               ELSE [result EXCEPT ![p] = w.then]
  /\ approved' = IF w.draft.status = "approved" THEN approved \cup {w.id} ELSE approved
  /\ verdicts' = [verdicts EXCEPT ![w.id] =
       IF w.then = "decided" THEN @ \cup {w.verdict}
       ELSE IF w.draft.status = "pending" THEN {} ELSE @]
  /\ UNCHANGED <<now, work, calls, raced>>

\* The process dies or the disk is full after the file was emptied.
WriteFails(p) ==
  /\ DiskFaults
  /\ pc[p] = "write"
  /\ Return(p, "error")

Next ==
  \/ Tick
  \/ \E p \in Callers :
       \/ \E s \in Spends : EnforceSpend(p, s) \/ CreateRequest(p, s)
       \/ \E id \in Ids, v \in {"approved", "denied"} : Decide(p, id, v)
       \/ \E id \in Ids : Check(p, id)
       \/ EnforceUnderThreshold(p) \/ ListPending(p)
       \/ CheckStep(p) \/ RecheckStep(p) \/ CreateStep(p) \/ DecideStep(p)
       \/ Truncate(p) \/ Write(p) \/ WriteFails(p)

Spec == Init /\ [][Next]_vars

---------------------------------------------------------------------------
TypeOK ==
  /\ now \in 0..MaxTime
  /\ files \in [Ids -> Files]
  /\ pc \in [Callers -> Points]
  /\ work \in [Callers -> Work]
  /\ result \in [Callers -> Results]
  /\ calls \in 0..MaxCalls
  /\ approved \subseteq Ids
  /\ verdicts \in [Ids -> SUBSET {"approved", "denied"}]
  /\ raced \subseteq Ids

\* However calls interleave and writes fail, enforce_spend lets a spend over
\* the threshold through only when a human approved that very request.
GrantNeedsApproval ==
  \A p \in Callers : result[p] = "granted" => work[p].id \in approved

\* A failed write leaves a blank file that nobody is writing.
Poisoned(id) ==
  /\ files[id].kind = "blank"
  /\ \A p \in Callers : pc[p] \in {"truncate", "write"} => work[p].id # id

\* A request poisoned by a failed write stays so: no later call grants it,
\* decides it or opens it again (require_approval.py:113-152).
PoisonedForever == [][\A id \in Ids : Poisoned(id) => Poisoned(id)']_vars

\* "Record a human decision on a pending request" (require_approval.py:118): a
\* request is not answered to one caller as approved and to another as denied,
\* whatever gate calls, expiries, new days and failed writes come between, as
\* long as no two decide calls on it have overlapped.  Two that overlap both
\* find it pending (require_approval.py:136-150).
NoSplitDecision ==
  \A id \in Ids \ raced : verdicts[id] # {"approved", "denied"}

\* The same without the exception, which overlapping decide calls break.
NeverSplit == \A id \in Ids : verdicts[id] # {"approved", "denied"}

\* "Raises ApprovalRequired when needed and not yet granted"
\* (require_approval.py:197): not for a request approved before the call.
RequiredOnlyIfNotGranted ==
  \A p \in Callers : result[p] = "required" => ~work[p].known

\* "Return all pending (non-expired) approval records"
\* (require_approval.py:165): the call answers.
ListAnswers == \A p \in Callers : result[p] # "unlisted"
===========================================================================
