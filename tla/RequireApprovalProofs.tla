----------------------- MODULE RequireApprovalProofs -----------------------
(***************************************************************************)
(* Theorems about the approval gate, for every set of callers and spends,  *)
(* and with or without failing writes and direct escalations.              *)
(***************************************************************************)
EXTENDS RequireApproval, TLAPS

LEMMA RecordTypes ==
  /\ Absent \in Files /\ Blank \in Files
  /\ \A t \in Nat : Pending(t) \in Files
  /\ \A f \in Files, s \in Statuses : WithStatus(f, s) \in Files
BY DEF Absent, Blank, Pending, TTL, Files, Statuses, WithStatus

LEMMA RequestIdType ==
  ASSUME TypeOK, NEW s \in Spends
  PROVE  RequestId(s) \in Ids
<1>1. now \in Nat /\ MaxTime \in Nat /\ now <= MaxTime
  BY BoundsAssumption DEF TypeOK
<1>2. now \div 2 \in 0..(MaxTime \div 2)
  BY <1>1, SMT
<1>3. QED
  BY <1>2 DEF RequestId, Ids, Days, Day

LEMMA NoWorkType == NoWork \in Work
<1>1. PICK s0 \in Spends : s0 = CHOOSE s \in Spends : TRUE
  BY SpendsAssumption
<1>2. 0 \in Days
  BY BoundsAssumption, SMT DEF Days, Day
<1>3. QED
  BY <1>1, <1>2, RecordTypes DEF NoWork, Work, Ids, Results

\* The steps of a call, by what they may change.
Replies(p) == \E r \in Results : Return(p, r)
Moves(p) == pc[p] \in {"check"} /\ \E at \in {"create", "recheck"} : GoTo(p, at)
Saves(p) == \E id \in Ids, f \in Files, then \in Results \cup {"create"} :
              Save(p, id, f, then)

LEMMA CallSteps ==
  ASSUME TypeOK, NEW p \in Callers,
         \/ CheckStep(p) \/ RecheckStep(p) \/ CreateStep(p)
         \/ DecideStep(p) \/ WriteFails(p)
  PROVE  Replies(p) \/ Moves(p) \/ Saves(p)
<1> DEFINE id == work[p].id
           f == files[id]
<1>1. /\ id \in Ids /\ f \in Files
      /\ work[p].spend \in Spends /\ work[p].verdict \in Statuses
      /\ work[p].enforce \in BOOLEAN
  BY DEF TypeOK, Work, Statuses
<1>2. WithStatus(f, "expired") \in Files /\ WithStatus(f, work[p].verdict) \in Files
  BY <1>1, RecordTypes DEF Statuses
<1>3. CASE CheckStep(p)
  BY <1>1, <1>2, <1>3 DEF CheckStep, Grants, Replies, Moves, Saves, Results
<1>4. CASE RecheckStep(p)
  BY <1>1, <1>2, <1>4 DEF RecheckStep, Replies, Saves, Results
<1>5. CASE CreateStep(p)
  <2>1. RequestId(work[p].spend) \in Ids /\ Pending(now) \in Files
    BY <1>1, RequestIdType, RecordTypes DEF TypeOK
  <2>2. QED
    BY <1>1, <1>5, <2>1 DEF CreateStep, Replaceable, Replies, Saves, Results
<1>6. CASE DecideStep(p)
  BY <1>1, <1>2, <1>6 DEF DecideStep, Replies, Saves, Results
<1>7. CASE WriteFails(p)
  BY <1>7 DEF WriteFails, Replies, Results
<1>8. QED
  BY <1>3, <1>4, <1>5, <1>6, <1>7

\* The start of a call on id; a decide call that finds another marks id.
Starts(p, at, s, id, v, e) ==
  /\ Begin(p, at, s, id, v, e)
  /\ raced \subseteq raced' /\ raced' \subseteq raced \cup {id}
  /\ at = "decide" => \A q \in Callers : Deciding(q, id) => id \in raced'

\* Every call of the gate's interface starts a call or answers at once.
LEMMA StartSteps ==
  ASSUME TypeOK, NEW p \in Callers,
         \/ \E s \in Spends : EnforceSpend(p, s) \/ CreateRequest(p, s)
         \/ \E id \in Ids, v \in {"approved", "denied"} : Decide(p, id, v)
         \/ \E id \in Ids : Check(p, id)
         \/ EnforceUnderThreshold(p) \/ ListPending(p)
  PROVE  \/ \E at \in {"check", "create", "decide"}, s \in Spends, id \in Ids,
               v \in {"approved", "denied"}, e \in BOOLEAN : Starts(p, at, s, id, v, e)
         \/ \E r \in {"auto", "listed", "unlisted"} : Answer(p, r)
<1>1. \A id \in Ids : id[1] \in Spends
  BY DEF Ids
<1>2. \A s \in Spends : RequestId(s) \in Ids
  BY RequestIdType
<1>3. QED
  BY <1>1, <1>2 DEF EnforceSpend, CreateRequest, Decide, Check, Starts,
                    EnforceUnderThreshold, ListPending

\* Every variable keeps its type.
THEOREM TypeCorrect == Spec => []TypeOK
<1>1. Init => TypeOK
  BY NoWorkType, RecordTypes, BoundsAssumption
     DEF Init, TypeOK, Points, Results
<1>2. TypeOK /\ [Next]_vars => TypeOK'
  <2> SUFFICES ASSUME TypeOK, [Next]_vars
               PROVE  TypeOK'
    OBVIOUS
  <2>1. CASE Tick
    BY <2>1, BoundsAssumption DEF Tick, TypeOK
  <2>2. ASSUME NEW p \in Callers, NEW at \in {"check", "create", "decide"},
               NEW s \in Spends, NEW id \in Ids,
               NEW v \in {"approved", "denied"}, NEW e \in BOOLEAN,
               Starts(p, at, s, id, v, e)
        PROVE  TypeOK'
    <3>1. work' \in [Callers -> Work]
      BY <2>2, RecordTypes DEF Starts, Begin, NewCall, TypeOK, Work, Results
    <3>2. pc' \in [Callers -> Points] /\ result' \in [Callers -> Results]
      BY <2>2 DEF Starts, Begin, NewCall, TypeOK, Points, Results
    <3>3. QED
      BY <2>2, <3>1, <3>2, BoundsAssumption DEF Starts, Begin, NewCall, TypeOK
  <2>3. ASSUME NEW p \in Callers, NEW r \in {"auto", "listed", "unlisted"},
               Answer(p, r)
        PROVE  TypeOK'
    BY <2>3, BoundsAssumption DEF Answer, NewCall, TypeOK, Results
  <2>4. ASSUME NEW p \in Callers, Replies(p) \/ Moves(p)
        PROVE  TypeOK'
    BY <2>4 DEF Replies, Moves, Return, GoTo, TypeOK, Points
  <2>5. ASSUME NEW p \in Callers, Saves(p)
        PROVE  TypeOK'
    <3>1. PICK id \in Ids, f \in Files, then \in Results \cup {"create"} :
            Save(p, id, f, then)
      BY <2>5 DEF Saves
    <3>2. [work[p] EXCEPT !.id = id, !.draft = f, !.then = then] \in Work
      BY DEF TypeOK, Work
    <3>3. work' \in [Callers -> Work]
      BY <3>1, <3>2 DEF Save, TypeOK
    <3>4. QED
      BY <3>1, <3>3 DEF Save, TypeOK, Points
  <2>6. ASSUME NEW p \in Callers, Truncate(p)
        PROVE  TypeOK'
    BY <2>6, RecordTypes DEF Truncate, TypeOK, Points, Work
  <2>7. ASSUME NEW p \in Callers, Write(p)
        PROVE  TypeOK'
    <3>1. /\ work[p].id \in Ids /\ work[p].draft \in Files
          /\ work[p].then \in Results \cup {"create"}
          /\ work[p].verdict \in {"approved", "denied"}
      BY DEF TypeOK, Work
    <3>2. verdicts' \in [Ids -> SUBSET {"approved", "denied"}]
      BY <2>7, <3>1 DEF Write, TypeOK
    <3>3. QED
      BY <2>7, <3>1, <3>2 DEF Write, TypeOK, Points
  <2>8. CASE UNCHANGED vars
    BY <2>8 DEF vars, TypeOK
  <2>9. QED
    BY <2>1, <2>2, <2>3, <2>4, <2>5, <2>6, <2>7, <2>8, CallSteps, StartSteps
       DEF Next
<1>3. QED
  BY <1>1, <1>2, PTL DEF Spec

---------------------------------------------------------------------------
\* Why a grant has a human behind it: only decide writes an approved record,
\* and it adds the request to approved in the same step; a caller reaches the
\* second read, or a write that will be answered "granted", only after it
\* read an approved record; and no answer stands while a call is running.
ApprovedOnFile == \A id \in Ids : files[id].status = "approved" => id \in approved

GrantInProgress ==
  \A p \in Callers :
    /\ pc[p] = "recheck" => work[p].id \in approved
    /\ pc[p] \in {"truncate", "write"} /\ work[p].then = "granted"
         => work[p].id \in approved
    /\ pc[p] # "idle" => result[p] = "none"

ApprovalInv == TypeOK /\ ApprovedOnFile /\ GrantInProgress /\ GrantNeedsApproval

\* The steps that leave every file alone, and those that may answer "granted".
LEMMA CallStepsKeepInv ==
  ASSUME ApprovalInv, NEW p \in Callers,
         \/ CheckStep(p) \/ RecheckStep(p) \/ CreateStep(p)
         \/ DecideStep(p) \/ WriteFails(p)
  PROVE  ApprovedOnFile' /\ GrantInProgress' /\ GrantNeedsApproval'
<1> USE DEF ApprovalInv
<1> DEFINE id == work[p].id
           f == files[id]
<1>1. id \in Ids
  BY DEF TypeOK, Work
<1>2. ASSUME NEW r, Return(p, r), r = "granted" => id \in approved
      PROVE  ApprovedOnFile' /\ GrantInProgress' /\ GrantNeedsApproval'
  <2>1. UNCHANGED <<files, work, approved>>
    BY <1>2 DEF Return
  <2>2. \A q \in Callers :
          /\ pc'[q] = IF q = p THEN "idle" ELSE pc[q]
          /\ result'[q] = IF q = p THEN r ELSE result[q]
    BY <1>2 DEF Return, TypeOK
  <2>3. ApprovedOnFile'
    BY <2>1 DEF ApprovedOnFile
  <2>4. GrantInProgress'
    BY <2>1, <2>2 DEF GrantInProgress
  <2>5. GrantNeedsApproval'
    BY <1>2, <2>1, <2>2 DEF GrantNeedsApproval
  <2>6. QED
    BY <2>3, <2>4, <2>5
<1>3. ASSUME NEW at, GoTo(p, at), pc[p] = "check",
             at = "create" \/ (at = "recheck" /\ id \in approved)
      PROVE  ApprovedOnFile' /\ GrantInProgress' /\ GrantNeedsApproval'
  <2>1. UNCHANGED <<files, work, approved, result>>
    BY <1>3 DEF GoTo
  <2>2. \A q \in Callers : pc'[q] = IF q = p THEN at ELSE pc[q]
    BY <1>3 DEF GoTo, TypeOK
  <2>3. GrantInProgress'
    BY <1>3, <2>1, <2>2 DEF GrantInProgress
  <2>4. QED
    BY <2>1, <2>3 DEF ApprovedOnFile, GrantNeedsApproval
<1>4. ASSUME NEW i, NEW d, NEW then, Save(p, i, d, then), pc[p] # "idle",
             then = "granted" => i \in approved
      PROVE  ApprovedOnFile' /\ GrantInProgress' /\ GrantNeedsApproval'
  <2>1. UNCHANGED <<files, approved, result>>
    BY <1>4 DEF Save
  <2>2. \A q \in Callers : q # p => pc'[q] = pc[q] /\ work'[q] = work[q]
    BY <1>4 DEF Save, TypeOK
  <2>3. pc'[p] = "truncate" /\ work'[p].id = i /\ work'[p].then = then
    BY <1>4 DEF Save, TypeOK, Work
  <2>4. result[p] = "none"
    BY <1>4 DEF GrantInProgress
  <2>5. GrantInProgress'
    BY <1>4, <2>1, <2>2, <2>3, <2>4 DEF GrantInProgress
  <2>6. GrantNeedsApproval'
    BY <2>1, <2>2, <2>4 DEF GrantNeedsApproval
  <2>7. QED
    BY <2>1, <2>5, <2>6 DEF ApprovedOnFile
<1>5. CASE CheckStep(p)
  <2>1. f.status = "approved" => id \in approved
    BY <1>1 DEF ApprovedOnFile
  <2>2. QED
    BY <1>2, <1>3, <1>4, <1>5, <2>1 DEF CheckStep, Grants
<1>6. CASE RecheckStep(p)
  <2>1. id \in approved
    BY <1>6 DEF RecheckStep, GrantInProgress
  <2>2. QED
    BY <1>2, <1>4, <1>6, <2>1 DEF RecheckStep
<1>7. CASE CreateStep(p)
  BY <1>2, <1>4, <1>7 DEF CreateStep
<1>8. CASE DecideStep(p)
  BY <1>2, <1>4, <1>8 DEF DecideStep
<1>9. CASE WriteFails(p)
  BY <1>2, <1>9 DEF WriteFails
<1>10. QED
  BY <1>5, <1>6, <1>7, <1>8, <1>9

\* No interleaving of calls, expiry, change of day or failed write lets
\* enforce_spend grant a spend that no human approved.
THEOREM GrantsAreApproved == Spec => []GrantNeedsApproval
<1>1. Init => ApprovalInv
  <2>1. Init => TypeOK
    BY NoWorkType, RecordTypes, BoundsAssumption
       DEF Init, TypeOK, Points, Results
  <2>2. QED
    BY <2>1 DEF Init, ApprovalInv, ApprovedOnFile, GrantInProgress,
                GrantNeedsApproval, Absent
<1>2. ApprovalInv /\ TypeOK' /\ [Next]_vars => ApprovalInv'
  <2> SUFFICES ASSUME ApprovalInv, TypeOK', [Next]_vars
               PROVE  ApprovedOnFile' /\ GrantInProgress' /\ GrantNeedsApproval'
    BY DEF ApprovalInv
  <2> USE DEF ApprovalInv
  <2>1. CASE Tick \/ UNCHANGED vars
    BY <2>1 DEF Tick, vars, ApprovedOnFile, GrantInProgress, GrantNeedsApproval
  <2>2. ASSUME NEW p \in Callers, NEW at \in {"check", "create", "decide"},
               NEW s \in Spends, NEW id \in Ids,
               NEW v \in {"approved", "denied"}, NEW e \in BOOLEAN,
               Starts(p, at, s, id, v, e)
        PROVE  ApprovedOnFile' /\ GrantInProgress' /\ GrantNeedsApproval'
    <3>1. UNCHANGED <<files, approved>>
      BY <2>2 DEF Starts, Begin
    <3>2. /\ pc'[p] = at /\ result'[p] = "none"
          /\ \A q \in Callers : q # p => /\ pc'[q] = pc[q]
                                       /\ work'[q] = work[q]
                                       /\ result'[q] = result[q]
      BY <2>2 DEF Starts, Begin, NewCall, TypeOK
    <3>3. GrantInProgress'
      BY <3>1, <3>2 DEF GrantInProgress
    <3>4. GrantNeedsApproval'
      BY <3>1, <3>2 DEF GrantNeedsApproval
    <3>5. QED
      BY <3>1, <3>3, <3>4 DEF ApprovedOnFile
  <2>3. ASSUME NEW p \in Callers, NEW r \in {"auto", "listed", "unlisted"},
               Answer(p, r)
        PROVE  ApprovedOnFile' /\ GrantInProgress' /\ GrantNeedsApproval'
    <3>1. /\ UNCHANGED <<files, approved, pc, work>> /\ pc[p] = "idle"
          /\ \A q \in Callers : result'[q] = IF q = p THEN r ELSE result[q]
      BY <2>3 DEF Answer, NewCall, TypeOK
    <3>2. GrantInProgress' /\ GrantNeedsApproval'
      BY <3>1 DEF GrantInProgress, GrantNeedsApproval
    <3>3. QED
      BY <3>1, <3>2 DEF ApprovedOnFile
  <2>4. ASSUME NEW p \in Callers, Truncate(p)
        PROVE  ApprovedOnFile' /\ GrantInProgress' /\ GrantNeedsApproval'
    <3>1. /\ UNCHANGED <<work, result, approved>> /\ pc[p] = "truncate"
          /\ \A id \in Ids : files'[id] = files[id] \/ files'[id] = Blank
          /\ \A q \in Callers : pc'[q] = IF q = p THEN "write" ELSE pc[q]
      BY <2>4 DEF Truncate, TypeOK
    <3>2. GrantInProgress' /\ GrantNeedsApproval'
      BY <3>1 DEF GrantInProgress, GrantNeedsApproval
    <3>3. QED
      BY <3>1, <3>2 DEF ApprovedOnFile, Blank
  <2>5. ASSUME NEW p \in Callers, Write(p)
        PROVE  ApprovedOnFile' /\ GrantInProgress' /\ GrantNeedsApproval'
    <3>1. /\ work' = work /\ approved \subseteq approved'
          /\ work[p].draft.status = "approved" => work[p].id \in approved'
      BY <2>5 DEF Write
    <3>2. \A id \in Ids :
            files'[id] = IF id = work[p].id THEN work[p].draft ELSE files[id]
      BY <2>5 DEF Write, TypeOK
    <3>3. ApprovedOnFile'
      BY <3>1, <3>2 DEF ApprovedOnFile
    <3>4. /\ pc[p] = "write"
          /\ \A q \in Callers : q # p => pc'[q] = pc[q] /\ result'[q] = result[q]
          /\ \/ pc'[p] = "create" /\ result'[p] = result[p]
             \/ pc'[p] = "idle" /\ result'[p] = work[p].then
      BY <2>5 DEF Write, TypeOK
    <3>5. GrantInProgress' /\ GrantNeedsApproval'
      BY <3>1, <3>4 DEF GrantInProgress, GrantNeedsApproval
    <3>6. QED
      BY <3>3, <3>5
  <2>6. QED
    BY <2>1, <2>2, <2>3, <2>4, <2>5, CallStepsKeepInv, StartSteps DEF Next
<1>3. QED
  BY <1>1, <1>2, TypeCorrect, PTL DEF Spec, ApprovalInv

\* A step of a call never picks a blank file to rewrite.
LEMMA SavesOnlyRecords ==
  ASSUME NEW p \in Callers, NEW id \in Ids, files[id].kind = "blank", TypeOK,
         \/ CheckStep(p) \/ RecheckStep(p) \/ CreateStep(p) \/ DecideStep(p)
  PROVE  /\ files' = files
         /\ \A q \in Callers : q # p => pc'[q] = pc[q] /\ work'[q] = work[q]
         /\ pc'[p] \in {"truncate", "write"} => work'[p].id # id
<1> DEFINE Elsewhere ==
      /\ files' = files
      /\ \A q \in Callers : q # p => pc'[q] = pc[q] /\ work'[q] = work[q]
      /\ pc'[p] \in {"truncate", "write"} => work'[p].id # id
<1>1. ASSUME NEW i \in Ids, NEW f, NEW then, Save(p, i, f, then), i # id
      PROVE  Elsewhere
  <2>1. work[p] \in Work
    BY DEF TypeOK
  <2>2. work'[p] = [work[p] EXCEPT !.id = i, !.draft = f, !.then = then]
    BY <1>1 DEF Save, TypeOK
  <2>3. work'[p].id = i
    BY <2>1, <2>2 DEF Work
  <2>4. QED
    BY <1>1, <2>3 DEF Save, TypeOK
<1>2. ASSUME NEW r, Return(p, r)
      PROVE  Elsewhere
  BY <1>2 DEF Return, TypeOK
<1>3. ASSUME NEW at \in {"create", "recheck"}, GoTo(p, at)
      PROVE  Elsewhere
  BY <1>3 DEF GoTo, TypeOK
<1>4. work[p].id \in Ids /\ RequestId(work[p].spend) \in Ids
  BY RequestIdType DEF TypeOK, Work
<1>5. CASE CheckStep(p)
  BY <1>1, <1>2, <1>3, <1>4, <1>5 DEF CheckStep, Expired, IsPending
<1>6. CASE RecheckStep(p)
  BY <1>1, <1>2, <1>4, <1>6 DEF RecheckStep, Expired, IsPending
<1>7. CASE CreateStep(p)
  BY <1>1, <1>2, <1>4, <1>7 DEF CreateStep, Replaceable
<1>8. CASE DecideStep(p)
  BY <1>1, <1>2, <1>4, <1>8 DEF DecideStep, Expired, IsPending
<1>9. QED
  BY <1>5, <1>6, <1>7, <1>8

\* A request that a failed write left blank is lost for good: no later call
\* of any caller grants it, decides it or opens it again.
THEOREM PoisonedStays == Spec => PoisonedForever
<1>1. ASSUME TypeOK, [Next]_vars, NEW id \in Ids, Poisoned(id)
      PROVE  Poisoned(id)'
  <2>1. CASE Tick \/ UNCHANGED vars
    BY <1>1, <2>1 DEF Tick, vars, Poisoned
  <2>2. ASSUME NEW p \in Callers, NEW at \in {"check", "create", "decide"},
               NEW s \in Spends, NEW i \in Ids,
               NEW v \in {"approved", "denied"}, NEW e \in BOOLEAN,
               Starts(p, at, s, i, v, e)
        PROVE  Poisoned(id)'
    BY <1>1, <2>2 DEF Starts, Begin, NewCall, TypeOK, Poisoned
  <2>3. ASSUME NEW p \in Callers, NEW r, Answer(p, r) \/ Return(p, r)
        PROVE  Poisoned(id)'
    BY <1>1, <2>3 DEF Answer, NewCall, Return, TypeOK, Poisoned
  <2>4. ASSUME NEW p \in Callers,
               \/ CheckStep(p) \/ RecheckStep(p) \/ CreateStep(p)
               \/ DecideStep(p)
        PROVE  Poisoned(id)'
    BY <1>1, <2>4, SavesOnlyRecords DEF Poisoned
  <2>5. ASSUME NEW p \in Callers, Truncate(p)
        PROVE  Poisoned(id)'
    BY <1>1, <2>5 DEF Truncate, TypeOK, Poisoned
  <2>6. ASSUME NEW p \in Callers, Write(p)
        PROVE  Poisoned(id)'
    BY <1>1, <2>6 DEF Write, TypeOK, Poisoned
  <2>7. ASSUME NEW p \in Callers, WriteFails(p)
        PROVE  Poisoned(id)'
    BY <2>3, <2>7 DEF WriteFails
  <2>8. QED
    BY <1>1, <2>1, <2>2, <2>3, <2>4, <2>5, <2>6, <2>7, StartSteps DEF Next
<1>2. TypeOK /\ [Next]_vars => [\A id \in Ids : Poisoned(id) => Poisoned(id)']_vars
  BY <1>1
<1>3. QED
  BY <1>2, TypeCorrect, PTL DEF Spec, PoisonedForever
---------------------------------------------------------------------------
\* Why two verdicts need two overlapping decide calls.  A pending record has no
\* verdict yet; a decide call on its way to the file found it so, and only
\* another decide call, which then marked the request, has recorded one since.
PendingUndecided ==
  \A id \in Ids : IsPending(files[id]) => verdicts[id] = {}

\* The draft of a decide call says its verdict.
DraftsDecide ==
  \A p \in Callers :
    pc[p] \in {"truncate", "write"} /\ work[p].then = "decided" =>
      /\ work[p].draft.status = work[p].verdict
      /\ work[p].id \notin raced => verdicts[work[p].id] = {}

OverlapsMarked ==
  \A id \in Ids : \A p, q \in Callers :
    p # q /\ Deciding(p, id) /\ Deciding(q, id) => id \in raced

VerdictInv == PendingUndecided /\ DraftsDecide /\ OverlapsMarked /\ NoSplitDecision

\* What a step of a running call that leaves the files alone may be.
Drafts(p) == \E id \in Ids, d \in Files, then \in Results \cup {"create"} :
  /\ Save(p, id, d, then)
  /\ then = "decided" => /\ pc[p] = "decide" /\ id = work[p].id
                        /\ IsPending(files[id]) /\ d.status = work[p].verdict

LEMMA VerdictSteps ==
  ASSUME TypeOK, NEW p \in Callers,
         \/ CheckStep(p) \/ RecheckStep(p) \/ CreateStep(p)
         \/ DecideStep(p) \/ WriteFails(p)
  PROVE  Replies(p) \/ Moves(p) \/ Drafts(p)
<1> DEFINE id == work[p].id
           f == files[id]
<1>1. /\ id \in Ids /\ f \in Files
      /\ work[p].spend \in Spends /\ work[p].verdict \in Statuses
      /\ work[p].enforce \in BOOLEAN
  BY DEF TypeOK, Work, Statuses
<1>2. \A s \in Statuses : WithStatus(f, s) \in Files /\ WithStatus(f, s).status = s
  BY <1>1 DEF WithStatus, Files
<1>3. WithStatus(f, "expired") \in Files
  BY <1>2 DEF Statuses
<1>4. CASE CheckStep(p)
  BY <1>1, <1>3, <1>4 DEF CheckStep, Grants, Replies, Moves, Drafts, Results
<1>5. CASE RecheckStep(p)
  BY <1>1, <1>3, <1>5 DEF RecheckStep, Replies, Drafts, Results
<1>6. CASE CreateStep(p)
  <2>1. RequestId(work[p].spend) \in Ids /\ Pending(now) \in Files
    BY <1>1, RequestIdType, RecordTypes DEF TypeOK
  <2>2. QED
    BY <1>1, <1>6, <2>1 DEF CreateStep, Replaceable, Replies, Drafts, Results
<1>7. CASE DecideStep(p)
  BY <1>1, <1>2, <1>3, <1>7 DEF DecideStep, Replies, Drafts, Results
<1>8. CASE WriteFails(p)
  BY <1>8 DEF WriteFails, Replies, Results
<1>9. QED
  BY <1>4, <1>5, <1>6, <1>7, <1>8

\* A step after which nobody is deciding who was not, and no decided draft is
\* new, keeps the marks and the drafts.
LEMMA NoNewDecision ==
  ASSUME VerdictInv, NEW p \in Callers,
         UNCHANGED <<files, verdicts, raced>>,
         \A q \in Callers : q # p => pc'[q] = pc[q] /\ work'[q] = work[q],
         pc'[p] # "decide",
         pc'[p] \in {"truncate", "write"} => work'[p].then # "decided"
  PROVE  VerdictInv'
<1>1. \A id \in Ids : \A q \in Callers : Deciding(q, id)' => Deciding(q, id)
  BY DEF Deciding
<1>2. OverlapsMarked'
  BY <1>1 DEF VerdictInv, OverlapsMarked
<1>3. DraftsDecide'
  BY DEF VerdictInv, DraftsDecide
<1>4. QED
  BY <1>2, <1>3 DEF VerdictInv, PendingUndecided, NoSplitDecision, IsPending

\* The write that ends an access: the file and its verdicts.
LEMMA WriteKeepsVerdicts ==
  ASSUME TypeOK, VerdictInv, NEW p \in Callers, Write(p)
  PROVE  VerdictInv'
<1> DEFINE id == work[p].id
           d == work[p].draft
           then == work[p].then
<1>1. /\ id \in Ids /\ d \in Files /\ pc[p] = "write"
      /\ work[p].verdict \in {"approved", "denied"}
  BY DEF TypeOK, Work, Write
<1>2. /\ work' = work /\ raced' = raced
      /\ \A i \in Ids : files'[i] = IF i = id THEN d ELSE files[i]
      /\ \A i \in Ids : i # id => verdicts'[i] = verdicts[i]
      /\ verdicts'[id] = IF then = "decided" THEN verdicts[id] \cup {work[p].verdict}
                         ELSE IF d.status = "pending" THEN {} ELSE verdicts[id]
      /\ \A q \in Callers : q # p => pc'[q] = pc[q]
      /\ pc'[p] \in {"create", "idle"}
  BY <1>1 DEF Write, TypeOK
<1>3. then = "decided" =>
        d.status = work[p].verdict /\ (id \notin raced => verdicts[id] = {})
  BY <1>1 DEF VerdictInv, DraftsDecide
<1>4. then = "decided" /\ id \notin raced =>
        \A q \in Callers : q # p => ~Deciding(q, id)
  BY <1>1 DEF VerdictInv, OverlapsMarked, Deciding
<1>5. PendingUndecided'
  BY <1>1, <1>2, <1>3 DEF VerdictInv, PendingUndecided, IsPending
<1>6. DraftsDecide'
  BY <1>1, <1>2, <1>4 DEF VerdictInv, DraftsDecide, Deciding, TypeOK, Work
<1>7. OverlapsMarked'
  BY <1>2 DEF VerdictInv, OverlapsMarked, Deciding
<1>8. NoSplitDecision'
  BY <1>1, <1>2, <1>3 DEF VerdictInv, NoSplitDecision
<1>9. QED
  BY <1>5, <1>6, <1>7, <1>8 DEF VerdictInv

LEMMA VerdictStep ==
  ASSUME TypeOK, VerdictInv, [Next]_vars
  PROVE  VerdictInv'
<1>1. CASE Tick \/ UNCHANGED vars
  BY <1>1 DEF Tick, vars, VerdictInv, PendingUndecided, DraftsDecide, OverlapsMarked,
              NoSplitDecision, IsPending, Deciding
<1>2. ASSUME NEW p \in Callers, NEW at \in {"check", "create", "decide"},
             NEW s \in Spends, NEW id \in Ids,
             NEW v \in {"approved", "denied"}, NEW e \in BOOLEAN,
             Starts(p, at, s, id, v, e)
      PROVE  VerdictInv'
  <2>1. /\ UNCHANGED <<files, verdicts>> /\ pc'[p] = at /\ work'[p].id = id
        /\ pc[p] = "idle"
        /\ \A q \in Callers : q # p => pc'[q] = pc[q] /\ work'[q] = work[q]
        /\ raced \subseteq raced'
        /\ at = "decide" => \A q \in Callers : Deciding(q, id) => id \in raced'
    BY <1>2 DEF Starts, Begin, NewCall, TypeOK
  <2>2. \A i \in Ids : \A q \in Callers :
          Deciding(q, i)' => Deciding(q, i) \/ (q = p /\ i = id /\ at = "decide")
    BY <2>1 DEF Deciding
  <2>3. OverlapsMarked'
    BY <2>1, <2>2 DEF VerdictInv, OverlapsMarked
  <2>4. DraftsDecide'
    BY <2>1 DEF VerdictInv, DraftsDecide
  <2>5. QED
    BY <2>1, <2>3, <2>4 DEF VerdictInv, PendingUndecided, NoSplitDecision, IsPending
<1>3. ASSUME NEW p \in Callers, NEW r, Answer(p, r)
      PROVE  VerdictInv'
  BY <1>3 DEF Answer, VerdictInv, PendingUndecided, DraftsDecide, OverlapsMarked,
              NoSplitDecision, IsPending, Deciding
<1>4. ASSUME NEW p \in Callers, Replies(p) \/ Moves(p)
      PROVE  VerdictInv'
  <2>1. /\ UNCHANGED <<files, verdicts, raced, work>>
        /\ \A q \in Callers : q # p => pc'[q] = pc[q]
        /\ pc'[p] \in {"idle", "create", "recheck"}
    BY <1>4 DEF Replies, Moves, Return, GoTo, TypeOK
  <2>2. QED
    BY <2>1, NoNewDecision
<1>5. ASSUME NEW p \in Callers, Drafts(p)
      PROVE  VerdictInv'
  <2>1. PICK id \in Ids, d \in Files, then \in Results \cup {"create"} :
          /\ Save(p, id, d, then)
          /\ then = "decided" => /\ pc[p] = "decide" /\ id = work[p].id
                                /\ IsPending(files[id]) /\ d.status = work[p].verdict
    BY <1>5 DEF Drafts
  <2>2. /\ UNCHANGED <<files, verdicts, raced>> /\ pc'[p] = "truncate"
        /\ \A q \in Callers : q # p => pc'[q] = pc[q] /\ work'[q] = work[q]
    BY <2>1 DEF Save, TypeOK
  <2>3. /\ work'[p].id = id /\ work'[p].draft = d /\ work'[p].then = then
        /\ work'[p].verdict = work[p].verdict
    <3>1. work[p] \in Work
      BY DEF TypeOK
    <3>2. work'[p] = [work[p] EXCEPT !.id = id, !.draft = d, !.then = then]
      BY <2>1 DEF Save, TypeOK
    <3>3. QED
      BY <3>1, <3>2 DEF Work
  <2>4. CASE then # "decided"
    BY <2>2, <2>3, <2>4, NoNewDecision
  <2>5. CASE then = "decided"
    <3>1. \A i \in Ids : \A q \in Callers : Deciding(q, i)' => Deciding(q, i)
      BY <2>1, <2>2, <2>3, <2>5 DEF Deciding
    <3>2. OverlapsMarked'
      BY <2>2, <3>1 DEF VerdictInv, OverlapsMarked
    <3>3. DraftsDecide'
      BY <2>1, <2>2, <2>3, <2>5 DEF VerdictInv, DraftsDecide, PendingUndecided
    <3>4. QED
      BY <2>2, <3>2, <3>3 DEF VerdictInv, PendingUndecided, NoSplitDecision, IsPending
  <2>6. QED
    BY <2>4, <2>5
<1>6. ASSUME NEW p \in Callers, Truncate(p)
      PROVE  VerdictInv'
  <2>1. /\ UNCHANGED <<work, verdicts, raced>> /\ pc[p] = "truncate"
        /\ \A id \in Ids : files'[id] = files[id] \/ files'[id] = Blank
        /\ pc'[p] = "write" /\ \A q \in Callers : q # p => pc'[q] = pc[q]
    BY <1>6 DEF Truncate, TypeOK
  <2>2. PendingUndecided'
    BY <2>1 DEF VerdictInv, PendingUndecided, IsPending, Blank
  <2>3. DraftsDecide'
    BY <2>1 DEF VerdictInv, DraftsDecide
  <2>4. OverlapsMarked'
    BY <2>1 DEF VerdictInv, OverlapsMarked, Deciding
  <2>5. QED
    BY <2>1, <2>2, <2>3, <2>4 DEF VerdictInv, NoSplitDecision
<1>7. ASSUME NEW p \in Callers, WriteFails(p)
      PROVE  VerdictInv'
  BY <1>4, <1>5, <1>7, VerdictSteps
<1>8. QED
  BY <1>1, <1>2, <1>3, <1>4, <1>5, <1>6, <1>7, WriteKeepsVerdicts, VerdictSteps,
     StartSteps DEF Next

\* A request answered as approved to one caller and as denied to another is one
\* on which two decide calls have overlapped: no other interleaving of the
\* gate's calls, no expiry, new day or failed write splits a decision.
THEOREM OneDecision == Spec => []NoSplitDecision
<1>1. Init => VerdictInv
  BY DEF Init, VerdictInv, PendingUndecided, DraftsDecide, OverlapsMarked,
         NoSplitDecision, IsPending, Absent, Deciding
<1>2. TypeOK /\ VerdictInv /\ [Next]_vars => VerdictInv'
  BY VerdictStep
<1>3. VerdictInv => NoSplitDecision
  BY DEF VerdictInv
<1>4. QED
  BY <1>1, <1>2, <1>3, TypeCorrect, PTL DEF Spec
===========================================================================
