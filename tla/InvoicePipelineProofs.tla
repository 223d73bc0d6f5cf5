----------------------- MODULE InvoicePipelineProofs -----------------------
(***************************************************************************)
(* Theorems about the invoice pipeline for any invoices, workers, faults   *)
(* and bound on the deliveries.                                            *)
(***************************************************************************)
EXTENDS InvoicePipeline, DataTheorems

LEMMA InitType == Init => TypeOK
<1>1. SUFFICES ASSUME Init PROVE TypeOK
  OBVIOUS
<1>2. (CHOOSE i \in Invoices : TRUE) \in Invoices
  BY InvoicesAssumption
<1>3. stripe \in [Invoices -> [mcp : Nat, sdk : {0, 1}]]
  BY <1>1 DEF Init
<1>4. audit \in [Invoices -> [Kinds -> Nat]] /\ ledger \in [Invoices -> Nat]
  BY <1>1 DEF Init
<1>5. /\ pc \in [Workers -> Points] /\ job \in [Workers -> Invoices]
      /\ outcome \in [Workers -> Outcomes]
  BY <1>1, <1>2 DEF Init, Points, Outcomes
<1>6. graph \in [Vendors -> Seq(Nat)]
  BY <1>1, InvoicesAssumption DEF Init, Vendors
<1>7. requests \in [Keys -> {"none", "pending", "approved", "denied"}]
  BY <1>1 DEF Init
<1>8. calls \in 0..MaxCalls /\ approved \subseteq Keys
  BY <1>1, MaxCallsAssumption DEF Init
<1>9. QED
  BY <1>3, <1>4, <1>5, <1>6, <1>7, <1>8 DEF TypeOK

\* What GoTo and End do to the workers' variables.
LEMMA MovesType ==
  ASSUME TypeOK, NEW w \in Workers,
         \/ \E at \in Points : GoTo(w, at)
         \/ \E how \in Outcomes : End(w, how)
  PROVE  /\ pc' \in [Workers -> Points] /\ job' \in [Workers -> Invoices]
         /\ outcome' \in [Workers -> Outcomes] /\ calls' \in 0..MaxCalls
BY DEF TypeOK, GoTo, End, Points

LEMMA LogType ==
  ASSUME TypeOK, NEW i \in Invoices, NEW kind \in Kinds, Log(i, kind)
  PROVE  audit' \in [Invoices -> [Kinds -> Nat]]
<1>1. audit[i] \in [Kinds -> Nat]
  BY DEF TypeOK
<1>2. [audit[i] EXCEPT ![kind] = @ + 1] \in [Kinds -> Nat]
  BY <1>1
<1>3. QED
  BY <1>2 DEF TypeOK, Log

LEMMA ChargeType ==
  ASSUME TypeOK, NEW i \in Invoices
  PROVE  /\ ChargedByMcp(i) \in [Invoices -> [mcp : Nat, sdk : {0, 1}]]
         /\ ChargedBySdk(i) \in [Invoices -> [mcp : Nat, sdk : {0, 1}]]
<1>1. stripe[i] \in [mcp : Nat, sdk : {0, 1}]
  BY DEF TypeOK
<1>2. /\ [stripe[i] EXCEPT !.mcp = @ + 1] \in [mcp : Nat, sdk : {0, 1}]
      /\ [stripe[i] EXCEPT !.sdk = 1] \in [mcp : Nat, sdk : {0, 1}]
  BY <1>1
<1>3. QED
  BY <1>2 DEF TypeOK, ChargedByMcp, ChargedBySdk

\* Every variable keeps its type.
THEOREM TypeCorrect == Spec => []TypeOK
<1>1. Init => TypeOK
  BY InitType
<1>2. TypeOK /\ [Next]_vars => TypeOK'
  <2> SUFFICES ASSUME TypeOK, [Next]_vars
               PROVE  TypeOK'
    OBVIOUS
  <2>1. CASE UNCHANGED vars
    BY <2>1 DEF vars, TypeOK
  <2>2. ASSUME NEW w \in Workers, NEW i \in Invoices, Deliver(w, i)
        PROVE  TypeOK'
    <3>1. calls' \in 0..MaxCalls
      BY <2>2, MaxCallsAssumption DEF Deliver, TypeOK
    <3>2. /\ pc' \in [Workers -> Points] /\ job' \in [Workers -> Invoices]
          /\ outcome' \in [Workers -> Outcomes]
      BY <2>2 DEF Deliver, TypeOK, Points, Outcomes
    <3>3. QED
      BY <2>2, <3>1, <3>2 DEF Deliver, TypeOK
  <2>3. ASSUME NEW w \in Workers,
               \/ Score(w) \/ GuardAdmits(w) \/ GateOpens(w) \/ GateCloses(w)
               \/ SandboxFails(w) \/ AuditFails(w)
        PROVE  TypeOK'
    <3>1. /\ \/ \E at \in Points : GoTo(w, at)
             \/ \E how \in Outcomes : End(w, how)
          /\ UNCHANGED <<graph, requests, stripe, audit, ledger, approved>>
      BY <2>3 DEF Score, GuardAdmits, GateOpens, GateCloses, SandboxFails,
                  AuditFails, FirstBackend, Points, Outcomes
    <3>2. QED
      BY <3>1, MovesType DEF TypeOK
  <2>4. ASSUME NEW w \in Workers,
               \/ GuardBlocks(w) \/ AuditGate(w) \/ AuditEscalation(w)
               \/ AuditPayment(w)
        PROVE  TypeOK'
    <3>1. /\ \/ \E at \in Points : GoTo(w, at)
             \/ \E how \in Outcomes : End(w, how)
          /\ \E kind \in Kinds : Log(job[w], kind)
          /\ UNCHANGED <<graph, requests, stripe, ledger, approved>>
      BY <2>4 DEF GuardBlocks, AuditGate, AuditEscalation, AuditPayment,
                  Points, Outcomes, Kinds
    <3>2. job[w] \in Invoices
      BY DEF TypeOK
    <3>3. QED
      BY <3>1, <3>2, MovesType, LogType DEF TypeOK
  <2>5. ASSUME NEW w \in Workers, GateAsks(w) \/ Request(w)
        PROVE  TypeOK'
    <3>1. /\ \E at \in Points : GoTo(w, at)
          /\ requests' = Requested(job[w])
          /\ UNCHANGED <<graph, stripe, audit, ledger, approved>>
      BY <2>5 DEF GateAsks, Request, Points
    <3>2. Requested(job[w]) \in [Keys -> {"none", "pending", "approved", "denied"}]
      BY DEF TypeOK, Requested
    <3>3. QED
      BY <3>1, <3>2, MovesType DEF TypeOK
  <2>6. ASSUME NEW w \in Workers,
               PayByMcp(w) \/ McpFails(w) \/ PayBySdk(w) \/ SdkFails(w)
        PROVE  TypeOK'
    <3>1. /\ \E at \in Points : GoTo(w, at)
          /\ stripe' \in {stripe, ChargedByMcp(job[w]), ChargedBySdk(job[w])}
          /\ UNCHANGED <<graph, requests, audit, ledger, approved>>
      BY <2>6 DEF PayByMcp, McpFails, PayBySdk, SdkFails, AfterMcp, Points
    <3>2. job[w] \in Invoices
      BY DEF TypeOK
    <3>3. stripe' \in [Invoices -> [mcp : Nat, sdk : {0, 1}]]
      BY <3>1, <3>2, ChargeType DEF TypeOK
    <3>4. QED
      BY <3>1, <3>3, MovesType DEF TypeOK
  <2>7. ASSUME NEW w \in Workers, Reconcile(w)
        PROVE  TypeOK'
    <3>1. job[w] \in Invoices /\ Vendor[job[w]] \in Vendors /\ Amount[job[w]] \in Nat
      BY InvoicesAssumption DEF TypeOK, Vendors
    <3>2. ledger' \in [Invoices -> Nat]
      BY <2>7, <3>1 DEF Reconcile, Posted, TypeOK
    <3>3. QED
      BY <2>7, <3>2, MovesType DEF Reconcile, TypeOK, Points
  <2>7a. ASSUME NEW w \in Workers, RecordPayment(w)
         PROVE  TypeOK'
    <3>1. job[w] \in Invoices /\ Vendor[job[w]] \in Vendors /\ Amount[job[w]] \in Nat
      BY InvoicesAssumption DEF TypeOK, Vendors
    <3>2. Append(graph[Vendor[job[w]]], Amount[job[w]]) \in Seq(Nat)
      BY <3>1 DEF TypeOK
    <3>3. graph' \in [Vendors -> Seq(Nat)]
      BY <2>7a, <3>2 DEF RecordPayment, TypeOK
    <3>4. QED
      BY <2>7a, <3>3, MovesType DEF RecordPayment, TypeOK, Outcomes
  <2>8. ASSUME NEW k \in Keys, NEW verdict \in {"approved", "denied"},
               Decide(k, verdict)
        PROVE  TypeOK'
    BY <2>8 DEF Decide, TypeOK
  <2>9. CASE Restart
    BY <2>9, InvoicesAssumption DEF Restart, TypeOK, Vendors, Points, Outcomes
  <2>10. QED
    BY <2>1, <2>2, <2>3, <2>4, <2>5, <2>6, <2>7, <2>7a, <2>8, <2>9 DEF Next, Step
<1>3. QED
  BY <1>1, <1>2, PTL DEF Spec

---------------------------------------------------------------------------
\* The invariant behind the refinement: past the guardrail an invoice is
\* admitted, past the gate it may be spent, and a record that says "approved"
\* was approved by a human.
PastGuard(w) ==
  pc[w] \in {"guard", "gate", "mcp", "sdk"} =>
    /\ Admitted(job[w])
    /\ pc[w] # "guard" => job[w] \notin Unsafe

PastGate(w) ==
  pc[w] \in {"mcp", "sdk"} =>
    Amount[job[w]] <= Threshold \/ Key(job[w]) \in approved

ApprovedByHuman == \A k \in Keys : requests[k] = "approved" => k \in approved

SpendInv ==
  /\ TypeOK
  /\ \A w \in Workers : PastGuard(w) /\ PastGate(w)
  /\ ApprovedByHuman

LEMMA KeyType == \A i \in Invoices : Key(i) \in Keys
BY DEF Keys

\* What a step that is no charge leaves of the workers' invariant.
LEMMA WorkersKept ==
  ASSUME SpendInv, NEW w \in Workers, approved' = approved,
         \A q \in Workers : job'[q] = job[q] /\ (q # w => pc'[q] = pc[q]),
         PastGuard(w)', PastGate(w)'
  PROVE  (\A q \in Workers : PastGuard(q) /\ PastGate(q))'
BY DEF SpendInv, PastGuard, PastGate, Admitted, Key

\* The steps that may charge.
Pays(w) == PayByMcp(w) \/ McpFails(w) \/ PayBySdk(w) \/ SdkFails(w)

\* The steps of a worker that leave Stripe alone.
LEMMA QuietSteps ==
  ASSUME SpendInv, NEW w \in Workers, Step(w), ~Pays(w)
  PROVE  /\ stripe' = stripe /\ approved' = approved
         /\ (\A q \in Workers : PastGuard(q) /\ PastGate(q))'
         /\ ApprovedByHuman'
<1> DEFINE Kept ==
      /\ \A q \in Workers : job'[q] = job[q] /\ (q # w => pc'[q] = pc[q])
      /\ stripe' = stripe /\ approved' = approved
<1>1. TypeOK /\ PastGuard(w) /\ PastGate(w) /\ ApprovedByHuman
  BY DEF SpendInv
<1>2. job[w] \in Invoices /\ Key(job[w]) \in Keys
  BY <1>1, KeyType DEF TypeOK
<1>3. CASE Score(w)
  <2>1. Kept /\ requests' = requests
        /\ pc'[w] = (IF Clean(job[w]) THEN "guard" ELSE "request")
    BY <1>1, <1>3 DEF Score, GoTo, TypeOK
  <2>2. PastGuard(w)' /\ PastGate(w)'
    BY <2>1 DEF PastGuard, PastGate, Clean, Admitted
  <2>3. QED
    BY <1>1, <2>1, <2>2, WorkersKept DEF ApprovedByHuman
<1>4. CASE GuardAdmits(w)
  <2>1. Kept /\ requests' = requests /\ pc[w] = "guard" /\ pc'[w] = "gate"
        /\ job[w] \notin Unsafe
    BY <1>1, <1>4 DEF GuardAdmits, GoTo, TypeOK
  <2>2. PastGuard(w)' /\ PastGate(w)'
    BY <1>1, <2>1 DEF PastGuard, PastGate, Admitted
  <2>3. QED
    BY <1>1, <2>1, <2>2, WorkersKept DEF ApprovedByHuman
<1>5. CASE GateOpens(w)
  <2>1. /\ Kept /\ requests' = requests /\ pc[w] = "gate"
        /\ pc'[w] \in {"mcp", "sdk", "audit payment"}
        /\ requires_approval(job[w]) => Key(job[w]) \in approved
    BY <1>1, <1>2, <1>5 DEF GateOpens, GoTo, TypeOK, FirstBackend, ApprovedByHuman
  <2>2. PastGuard(w)'
    BY <1>1, <2>1 DEF PastGuard, Admitted
  <2>3. Amount[job[w]] <= Threshold \/ Key(job[w]) \in approved
    <3>1. Amount[job[w]] \in Nat
      BY <1>2, InvoicesAssumption
    <3>2. ~(Amount[job[w]] > Threshold) => Amount[job[w]] <= Threshold
      BY <3>1, ThresholdAssumption
    <3>3. Amount[job[w]] > Threshold => Key(job[w]) \in approved
      BY <2>1 DEF requires_approval
    <3>4. QED
      BY <3>2, <3>3
  <2>4. PastGate(w)'
    BY <2>1, <2>3 DEF PastGate, Key
  <2>5. QED
    BY <1>1, <2>1, <2>2, <2>4, WorkersKept DEF ApprovedByHuman
<1>6. CASE GateAsks(w) \/ Request(w)
  <2>1. /\ Kept /\ requests' = Requested(job[w])
        /\ pc'[w] \in {"audit gate", "audit escalation"}
    BY <1>1, <1>6 DEF GateAsks, Request, GoTo, TypeOK
  <2>2. PastGuard(w)' /\ PastGate(w)'
    BY <2>1 DEF PastGuard, PastGate
  <2>3. ApprovedByHuman'
    BY <1>1, <2>1 DEF Requested, ApprovedByHuman, TypeOK
  <2>4. QED
    BY <1>1, <2>1, <2>2, <2>3, WorkersKept
<1>7. CASE \/ GuardBlocks(w) \/ GateCloses(w) \/ SandboxFails(w) \/ AuditPayment(w)
           \/ Reconcile(w) \/ RecordPayment(w) \/ AuditGate(w) \/ AuditEscalation(w) \/ AuditFails(w)
  <2>1. /\ Kept /\ requests' = requests
        /\ pc'[w] \in {"idle", "ask", "reconcile", "record", "audit escalation"}
    BY <1>1, <1>7 DEF GuardBlocks, GateCloses, SandboxFails, AuditPayment,
                      Reconcile, RecordPayment, AuditGate, AuditEscalation, AuditFails, GoTo, End, TypeOK
  <2>2. PastGuard(w)' /\ PastGate(w)'
    BY <2>1 DEF PastGuard, PastGate
  <2>3. QED
    BY <1>1, <2>1, <2>2, WorkersKept DEF ApprovedByHuman
<1>8. QED
  BY <1>3, <1>4, <1>5, <1>6, <1>7 DEF Step, Pays

\* The steps that may charge: not at all, or a spendable invoice.
LEMMA PaySteps ==
  ASSUME SpendInv, NEW w \in Workers, Pays(w)
  PROVE  /\ stripe' \in {stripe, ChargedByMcp(job[w]), ChargedBySdk(job[w])}
         /\ approved' = approved
         /\ (\A q \in Workers : PastGuard(q) /\ PastGate(q))'
         /\ ApprovedByHuman'
         /\ pc[w] \in {"mcp", "sdk"}
<1>1. TypeOK /\ ApprovedByHuman /\ PastGuard(w) /\ PastGate(w)
  BY DEF SpendInv
<1>2. /\ stripe' \in {stripe, ChargedByMcp(job[w]), ChargedBySdk(job[w])}
      /\ approved' = approved /\ requests' = requests
      /\ \A q \in Workers : job'[q] = job[q] /\ (q # w => pc'[q] = pc[q])
      /\ pc[w] \in {"mcp", "sdk"} /\ pc'[w] \in {"sdk", "audit payment"}
  BY <1>1 DEF Pays, PayByMcp, McpFails, PayBySdk, SdkFails, AfterMcp, GoTo, TypeOK
<1>3. PastGuard(w)' /\ PastGate(w)'
  BY <1>1, <1>2 DEF PastGuard, PastGate, Admitted, Key
<1>4. QED
  BY <1>1, <1>2, <1>3, WorkersKept DEF ApprovedByHuman

\* What Stripe holds after a charge without a key, and after one with it.
LEMMA McpCharge ==
  ASSUME TypeOK, NEW i \in Invoices, stripe' = ChargedByMcp(i)
  PROVE  /\ stripe'[i].mcp = stripe[i].mcp + 1
         /\ \A j \in Invoices : stripe'[j].sdk = stripe[j].sdk
         /\ \A j \in Invoices : j # i => stripe'[j].mcp = stripe[j].mcp
<1>1. stripe[i] \in [mcp : Nat, sdk : {0, 1}]
  BY DEF TypeOK
<1>2. stripe'[i] = [stripe[i] EXCEPT !.mcp = stripe[i].mcp + 1]
  BY DEF TypeOK, ChargedByMcp
<1>3. stripe'[i].mcp = stripe[i].mcp + 1 /\ stripe'[i].sdk = stripe[i].sdk
  BY <1>1, <1>2
<1>4. \A j \in Invoices : j # i => stripe'[j] = stripe[j]
  BY DEF TypeOK, ChargedByMcp
<1>5. QED
  BY <1>3, <1>4

LEMMA SdkCharge ==
  ASSUME TypeOK, NEW i \in Invoices, stripe' = ChargedBySdk(i)
  PROVE  /\ stripe[i].sdk \in {0, 1} /\ stripe'[i].sdk = 1
         /\ \A j \in Invoices : stripe'[j].mcp = stripe[j].mcp
         /\ \A j \in Invoices : j # i => stripe'[j].sdk = stripe[j].sdk
<1>1. stripe[i] \in [mcp : Nat, sdk : {0, 1}]
  BY DEF TypeOK
<1>2. stripe'[i] = [stripe[i] EXCEPT !.sdk = 1]
  BY DEF TypeOK, ChargedBySdk
<1>3. stripe'[i].sdk = 1 /\ stripe'[i].mcp = stripe[i].mcp
  BY <1>1, <1>2
<1>4. \A j \in Invoices : j # i => stripe'[j] = stripe[j]
  BY DEF TypeOK, ChargedBySdk
<1>5. QED
  BY <1>1, <1>3, <1>4

\* A worker that reached a backend has a spendable invoice.
LEMMA Spendable ==
  ASSUME SpendInv, NEW w \in Workers, pc[w] \in {"mcp", "sdk"}
  PROVE  Gated!Spendable(job[w])
<1>1. job[w] \in Invoices /\ PastGuard(w) /\ PastGate(w)
  BY DEF SpendInv, TypeOK
<1>2. /\ job[w] \in {j \in Invoices : Admitted(j) /\ j \notin Unsafe}
      /\ \/ job[w] \in {j \in Invoices : Amount[j] <= Threshold}
         \/ [j \in Invoices |-> Key(j)][job[w]] \in approved
  BY <1>1 DEF PastGuard, PastGate
<1>3. QED
  BY <1>2 DEF Gated!Spendable

\* A charge is one of GatedSpend, or a stutter when Stripe knew the key.
LEMMA ChargesAreGated ==
  ASSUME TypeOK, NEW i \in Invoices, Gated!Spendable(i), approved' = approved,
         stripe' \in {ChargedByMcp(i), ChargedBySdk(i)}
  PROVE  [Gated!Next]_(Gated!vars)
<1> DEFINE Keyed == [j \in Invoices |-> stripe[j].sdk]
           Unkeyed == [j \in Invoices |-> stripe[j].mcp]
<1>1. CASE stripe' = ChargedByMcp(i)
  <2>1. Keyed' = Keyed /\ Unkeyed' = [Unkeyed EXCEPT ![i] = Unkeyed[i] + 1]
    BY <1>1, McpCharge
  <2>2. Gated!ChargeUnkeyed(i)
    BY <2>1 DEF Gated!ChargeUnkeyed
  <2>3. QED
    BY <2>2 DEF Gated!Next
<1>2. CASE stripe' = ChargedBySdk(i)
  <2>1. stripe[i].sdk \in {0, 1} /\ Unkeyed' = Unkeyed
        /\ Keyed' = [Keyed EXCEPT ![i] = 1]
    BY <1>2, SdkCharge
  <2>2. CASE stripe[i].sdk = 1
    <3>1. Keyed' = Keyed
      BY <2>1, <2>2
    <3>2. QED
      BY <2>1, <3>1 DEF Gated!vars
  <2>3. CASE stripe[i].sdk = 0
    <3>1. Gated!Charge(i)
      BY <2>1, <2>3 DEF Gated!Charge
    <3>2. QED
      BY <3>1 DEF Gated!Next
  <2>4. QED
    BY <2>1, <2>2, <2>3
<1>3. QED
  BY <1>1, <1>2

\* Every step keeps the invariant, and is a step of GatedSpend or a stutter.
LEMMA EveryStep ==
  ASSUME SpendInv, TypeOK', [Next]_vars
  PROVE  SpendInv' /\ [Gated!Next]_(Gated!vars)
<1>1. /\ TypeOK /\ ApprovedByHuman
      /\ \A q \in Workers : PastGuard(q) /\ PastGate(q)
  BY DEF SpendInv
<1>2. ASSUME stripe' = stripe, approved' = approved
      PROVE  UNCHANGED (Gated!vars)
  BY <1>2 DEF Gated!vars
<1>3. CASE UNCHANGED vars
  <2>1. (\A q \in Workers : PastGuard(q) /\ PastGate(q))' /\ ApprovedByHuman'
    BY <1>1, <1>3 DEF vars, PastGuard, PastGate, ApprovedByHuman, Admitted, Key
  <2>2. UNCHANGED (Gated!vars)
    BY <1>2, <1>3 DEF vars
  <2>3. QED
    BY <2>1, <2>2 DEF SpendInv
<1>4. ASSUME NEW w \in Workers, NEW i \in Invoices, Deliver(w, i)
      PROVE  SpendInv' /\ [Gated!Next]_(Gated!vars)
  <2>1. /\ stripe' = stripe /\ approved' = approved /\ requests' = requests
        /\ pc'[w] = "score"
        /\ \A q \in Workers : q # w => pc'[q] = pc[q] /\ job'[q] = job[q]
    BY <1>1, <1>4 DEF Deliver, TypeOK
  <2>2. (\A q \in Workers : PastGuard(q) /\ PastGate(q))'
    BY <1>1, <2>1 DEF PastGuard, PastGate, Admitted, Key
  <2>3. ApprovedByHuman'
    BY <1>1, <2>1 DEF ApprovedByHuman
  <2>4. QED
    BY <1>2, <2>1, <2>2, <2>3 DEF SpendInv
<1>5. ASSUME NEW w \in Workers, Step(w), ~Pays(w)
      PROVE  SpendInv' /\ [Gated!Next]_(Gated!vars)
  BY <1>2, <1>5, QuietSteps DEF SpendInv
<1>6. ASSUME NEW w \in Workers, Pays(w)
      PROVE  SpendInv' /\ [Gated!Next]_(Gated!vars)
  <2>1. /\ stripe' \in {stripe, ChargedByMcp(job[w]), ChargedBySdk(job[w])}
        /\ approved' = approved /\ pc[w] \in {"mcp", "sdk"} /\ SpendInv'
    BY <1>6, PaySteps DEF SpendInv
  <2>2. CASE stripe' = stripe
    BY <1>2, <2>1, <2>2
  <2>3. CASE stripe' \in {ChargedByMcp(job[w]), ChargedBySdk(job[w])}
    <3>1. job[w] \in Invoices /\ Gated!Spendable(job[w])
      BY <1>1, <2>1, Spendable DEF TypeOK
    <3>2. QED
      BY <1>1, <2>1, <2>3, <3>1, ChargesAreGated
  <2>4. QED
    BY <2>1, <2>2, <2>3
<1>7. ASSUME NEW k \in Keys, NEW verdict \in {"approved", "denied"}, Decide(k, verdict)
      PROVE  SpendInv' /\ [Gated!Next]_(Gated!vars)
  <2>1. stripe' = stripe /\ pc' = pc /\ job' = job /\ approved \subseteq approved'
    BY <1>7 DEF Decide
  <2>2. ApprovedByHuman'
    BY <1>1, <1>7 DEF Decide, ApprovedByHuman, TypeOK
  <2>3. (\A q \in Workers : PastGuard(q) /\ PastGate(q))'
    BY <1>1, <2>1 DEF PastGuard, PastGate, Admitted, Key
  <2>4. CASE approved' = approved
    BY <1>2, <2>1, <2>2, <2>3, <2>4 DEF SpendInv
  <2>5. CASE approved' = approved \cup {k}
    <3>1. PICK i \in Invoices : k = Key(i)
      BY DEF Keys
    <3>2. /\ [j \in Invoices |-> stripe[j].sdk]' = [j \in Invoices |-> stripe[j].sdk]
          /\ [j \in Invoices |-> stripe[j].mcp]' = [j \in Invoices |-> stripe[j].mcp]
      BY <2>1
    <3>3. Gated!Allow(i)
      BY <2>5, <3>1, <3>2 DEF Gated!Allow
    <3>4. QED
      BY <2>2, <2>3, <3>3 DEF SpendInv, Gated!Next
  <2>6. QED
    BY <1>7, <2>4, <2>5 DEF Decide
<1>8. CASE Restart
  <2>1. /\ stripe' = stripe /\ approved' = approved /\ requests' = requests
        /\ \A q \in Workers : pc'[q] = "idle"
    BY <1>8 DEF Restart
  <2>2. (\A q \in Workers : PastGuard(q) /\ PastGate(q))' /\ ApprovedByHuman'
    BY <1>1, <2>1 DEF PastGuard, PastGate, ApprovedByHuman
  <2>3. QED
    BY <1>2, <2>1, <2>2 DEF SpendInv
<1>9. QED
  BY <1>3, <1>4, <1>5, <1>6, <1>7, <1>8 DEF Next

\* Through whichever backends, and whatever fails, the pipeline implements
\* GatedSpend: no invoice is charged outside policy or guardrail, none over the
\* threshold without a human approval of its spend key, and none twice through
\* the SDK (payment_402_handler.py:87-162, stripe_client.py:98-153).
THEOREM SpendIsGated == Spec => ImplementsGatedSpend
<1>1. Init => SpendInv /\ Gated!Init
  <2> SUFFICES ASSUME Init PROVE SpendInv /\ Gated!Init
    OBVIOUS
  <2>1. TypeOK
    BY InitType
  <2>2. \A q \in Workers : PastGuard(q) /\ PastGate(q)
    BY DEF Init, PastGuard, PastGate
  <2>3. ApprovedByHuman
    BY DEF Init, ApprovedByHuman
  <2>4. Gated!Init
    BY DEF Init, Gated!Init
  <2>5. QED
    BY <2>1, <2>2, <2>3, <2>4 DEF SpendInv
<1>2. SpendInv /\ TypeOK' /\ [Next]_vars => SpendInv' /\ [Gated!Next]_(Gated!vars)
  BY EveryStep
<1>3. QED
  BY <1>1, <1>2, TypeCorrect, PTL DEF Spec, ImplementsGatedSpend, Gated!Spec, SpendInv
---------------------------------------------------------------------------
\* What a worker knows to be on file: the entry of a payment it reconciles or
\* has answered, the request and the entry of an escalation.
Backed(w) ==
  /\ pc[w] \in {"reconcile", "record"} \/ outcome[w] = "paid" => audit[job[w]]["payment"] > 0
  /\ outcome[w] = "escalated" => audit[job[w]]["escalation"] > 0
  /\ pc[w] \in {"audit gate", "audit escalation"} \/ outcome[w] = "escalated" =>
       requests[Key(job[w])] # "none"

\* The records a worker's answer is about.
OnRecord(i, kind) == audit[i][kind] > 0
OnFile(k) == requests[k] # "none"

LEMMA LogKeeps ==
  ASSUME TypeOK, NEW i \in Invoices, NEW kind \in Kinds, Log(i, kind)
  PROVE  /\ \A j \in Invoices, x \in Kinds : OnRecord(j, x) => OnRecord(j, x)'
         /\ OnRecord(i, kind)'
<1>1. audit \in [Invoices -> [Kinds -> Nat]] /\ audit[i] \in [Kinds -> Nat]
  BY DEF TypeOK
<1>2. /\ audit'[i] = [audit[i] EXCEPT ![kind] = @ + 1]
      /\ \A j \in Invoices : j # i => audit'[j] = audit[j]
  BY <1>1 DEF Log
<1>3. audit'[i][kind] = audit[i][kind] + 1
      /\ \A x \in Kinds : x # kind => audit'[i][x] = audit[i][x]
  BY <1>1, <1>2
<1>4. audit[i][kind] \in Nat
  BY <1>1
<1>5. OnRecord(i, kind)'
  <2>1. audit'[i][kind] > 0
    BY <1>3, <1>4
  <2>2. QED
    BY <2>1 DEF OnRecord
<1>6. ASSUME NEW j \in Invoices, NEW x \in Kinds, OnRecord(j, x)
      PROVE  OnRecord(j, x)'
  <2>1. CASE j = i /\ x = kind
    BY <1>5, <2>1
  <2>2. CASE ~(j = i /\ x = kind)
    <3>1. audit'[j][x] = audit[j][x]
      BY <1>2, <1>3, <2>2
    <3>2. QED
      BY <1>6, <3>1 DEF OnRecord
  <2>3. QED
    BY <2>1, <2>2
<1>7. QED
  BY <1>5, <1>6

LEMMA RequestKeeps ==
  ASSUME TypeOK, NEW i \in Invoices, requests' = Requested(i)
  PROVE  (\A k \in Keys : OnFile(k) => OnFile(k)') /\ OnFile(Key(i))'
<1>1. Key(i) \in Keys /\ requests'[Key(i)] = "pending"
  BY KeyType DEF Requested, TypeOK
<1>2. QED
  BY <1>1 DEF OnFile, Requested, TypeOK

\* A worker none of whose own variables change keeps what it has on file.
LEMMA BackedKept ==
  ASSUME TypeOK, NEW q \in Workers, Backed(q),
         job'[q] = job[q], pc'[q] = pc[q], outcome'[q] = outcome[q],
         \A j \in Invoices, x \in Kinds : OnRecord(j, x) => OnRecord(j, x)',
         \A k \in Keys : OnFile(k) => OnFile(k)'
  PROVE  Backed(q)'
<1>1. /\ job[q] \in Invoices /\ Key(job[q]) \in Keys
      /\ "payment" \in Kinds /\ "escalation" \in Kinds
  BY KeyType DEF TypeOK, Kinds
<1>2. Key(job[q])' = Key(job[q])
  BY DEF Key
<1>3. /\ OnRecord(job[q], "payment") => audit'[job[q]]["payment"] > 0
      /\ OnRecord(job[q], "escalation") => audit'[job[q]]["escalation"] > 0
      /\ OnFile(Key(job[q])) => requests'[Key(job[q])] # "none"
  BY <1>1 DEF OnRecord, OnFile
<1>4. QED
  BY <1>2, <1>3 DEF Backed, OnRecord, OnFile

\* A step of a worker keeps the records, and its own answer has them.
LEMMA BackedStep ==
  ASSUME TypeOK, NEW w \in Workers, Backed(w), Step(w)
  PROVE  /\ \A q \in Workers : q # w =>
              job'[q] = job[q] /\ pc'[q] = pc[q] /\ outcome'[q] = outcome[q]
         /\ \A j \in Invoices, x \in Kinds : OnRecord(j, x) => OnRecord(j, x)'
         /\ \A k \in Keys : OnFile(k) => OnFile(k)'
         /\ Backed(w)'
<1> DEFINE Still == \A q \in Workers : q # w =>
              job'[q] = job[q] /\ pc'[q] = pc[q] /\ outcome'[q] = outcome[q]
           i == job[w]
<1>1. i \in Invoices /\ "payment" \in Kinds /\ "escalation" \in Kinds
      /\ "blocked" \in Kinds
  BY DEF TypeOK, Kinds
<1>2. CASE \/ Score(w) \/ GuardAdmits(w) \/ GateOpens(w) \/ GateCloses(w)
           \/ PayByMcp(w) \/ McpFails(w) \/ PayBySdk(w) \/ SdkFails(w)
  <2>1. /\ Still /\ audit' = audit /\ requests' = requests
        /\ job'[w] = job[w] /\ outcome'[w] = outcome[w]
        /\ pc'[w] \notin {"reconcile", "record", "audit gate", "audit escalation"}
    BY <1>2 DEF Score, GuardAdmits, GateOpens, GateCloses, PayByMcp, McpFails, PayBySdk, SdkFails,
                GoTo, FirstBackend, AfterMcp, TypeOK
  <2>2. QED
    BY <2>1 DEF Backed, OnRecord, OnFile, Key
<1>3. CASE SandboxFails(w) \/ AuditFails(w)
  <2>1. /\ Still /\ audit' = audit /\ requests' = requests
        /\ pc'[w] = "idle" /\ outcome'[w] = "error"
    BY <1>3 DEF SandboxFails, AuditFails, End, TypeOK
  <2>2. QED
    BY <2>1 DEF Backed, OnRecord, OnFile
<1>4. CASE GuardBlocks(w)
  <2>1. /\ Still /\ Log(i, "blocked") /\ requests' = requests
        /\ pc'[w] = "idle" /\ outcome'[w] = "error"
    BY <1>4 DEF GuardBlocks, End, TypeOK
  <2>2. QED
    BY <1>1, <2>1, LogKeeps DEF Backed, OnFile
<1>5. CASE GateAsks(w) \/ Request(w)
  <2>1. /\ Still /\ audit' = audit /\ requests' = Requested(i)
        /\ job'[w] = i /\ outcome'[w] = outcome[w]
        /\ pc'[w] \in {"audit gate", "audit escalation"}
    BY <1>5 DEF GateAsks, Request, GoTo, TypeOK
  <2>2. (\A k \in Keys : OnFile(k) => OnFile(k)') /\ requests'[Key(i)] # "none"
    BY <1>1, <2>1, RequestKeeps DEF OnFile, Key
  <2>3. QED
    BY <2>1, <2>2 DEF Backed, OnRecord, Key
<1>6. CASE AuditGate(w)
  <2>1. /\ Still /\ Log(i, "escalation") /\ requests' = requests
        /\ job'[w] = i /\ outcome'[w] = outcome[w]
        /\ pc[w] = "audit gate" /\ pc'[w] = "audit escalation"
    BY <1>6 DEF AuditGate, GoTo, TypeOK
  <2>2. \A j \in Invoices, x \in Kinds : OnRecord(j, x) => OnRecord(j, x)'
    BY <1>1, <2>1, LogKeeps
  <2>3. \A x \in Kinds : audit[i][x] > 0 => audit'[i][x] > 0
    BY <1>1, <2>2 DEF OnRecord
  <2>4. QED
    BY <1>1, <2>1, <2>2, <2>3 DEF Backed, OnFile, Key
<1>7. CASE AuditEscalation(w)
  <2>1. /\ Still /\ Log(i, "escalation") /\ requests' = requests
        /\ job'[w] = i /\ outcome'[w] = "escalated"
        /\ pc[w] = "audit escalation" /\ pc'[w] = "idle"
    BY <1>7 DEF AuditEscalation, End, TypeOK
  <2>2. /\ \A j \in Invoices, x \in Kinds : OnRecord(j, x) => OnRecord(j, x)'
        /\ audit'[i]["escalation"] > 0
    BY <1>1, <2>1, LogKeeps DEF OnRecord
  <2>3. QED
    BY <2>1, <2>2 DEF Backed, OnFile, Key
<1>8. CASE AuditPayment(w)
  <2>1. /\ Still /\ Log(i, "payment") /\ requests' = requests
        /\ job'[w] = i /\ outcome'[w] = outcome[w] /\ pc'[w] = "reconcile"
    BY <1>8 DEF AuditPayment, GoTo, TypeOK
  <2>2. /\ \A j \in Invoices, x \in Kinds : OnRecord(j, x) => OnRecord(j, x)'
        /\ audit'[i]["payment"] > 0
    BY <1>1, <2>1, LogKeeps DEF OnRecord
  <2>3. audit[i]["escalation"] > 0 => audit'[i]["escalation"] > 0
    BY <1>1, <2>2 DEF OnRecord
  <2>4. QED
    BY <2>1, <2>2, <2>3 DEF Backed, OnFile, Key
<1>9. CASE Reconcile(w) \/ RecordPayment(w)
  <2>1. /\ Still /\ audit' = audit /\ requests' = requests /\ job'[w] = job[w]
        /\ outcome'[w] = outcome[w] \/ outcome'[w] = "paid"
        /\ pc[w] \in {"reconcile", "record"} /\ pc'[w] \in {"record", "idle"}
    BY <1>9 DEF Reconcile, RecordPayment, GoTo, End, TypeOK
  <2>2. QED
    BY <2>1 DEF Backed, OnRecord, OnFile
<1>10. QED
  BY <1>2, <1>3, <1>4, <1>5, <1>6, <1>7, <1>8, <1>9 DEF Step

\* Whatever the deliveries, decisions, failures and restarts, a caller that
\* was told "paid" or "escalated" finds the audit entry, and the request, it
\* was told about (payment_402_handler.py:85-162).
THEOREM AnswersAreOnRecord == Spec => []AnswerOnRecord
<1> DEFINE Inv == \A w \in Workers : Backed(w)
<1>1. Init => Inv
  BY DEF Init, Backed
<1>2. TypeOK /\ Inv /\ [Next]_vars => Inv'
  <2> SUFFICES ASSUME TypeOK, Inv, [Next]_vars, NEW q \in Workers PROVE Backed(q)'
    BY DEF Key
  <2>1. ASSUME NEW w \in Workers, Step(w)
        PROVE  Backed(q)'
    BY <2>1, BackedStep, BackedKept
  <2>2. ASSUME NEW w \in Workers, NEW i \in Invoices, Deliver(w, i)
        PROVE  Backed(q)'
    <3>1. audit' = audit /\ requests' = requests
      BY <2>2 DEF Deliver
    <3>2. CASE q = w
      <4>1. pc'[q] = "score" /\ outcome'[q] = "none"
        BY <2>2, <3>2 DEF Deliver, TypeOK
      <4>2. QED
        BY <4>1 DEF Backed
    <3>3. CASE q # w
      <4>1. job'[q] = job[q] /\ pc'[q] = pc[q] /\ outcome'[q] = outcome[q]
        BY <2>2, <3>3 DEF Deliver, TypeOK
      <4>2. QED
        BY <3>1, <4>1, BackedKept DEF OnRecord, OnFile
    <3>4. QED
      BY <3>2, <3>3
  <2>3. ASSUME NEW k \in Keys, NEW verdict \in {"approved", "denied"},
               Decide(k, verdict)
        PROVE  Backed(q)'
    <3>1. /\ audit' = audit /\ job' = job /\ pc' = pc /\ outcome' = outcome
          /\ \A x \in Keys : OnFile(x) => OnFile(x)'
      BY <2>3 DEF Decide, OnFile, TypeOK
    <3>2. QED
      BY <3>1, BackedKept DEF OnRecord
  <2>4. CASE Restart
    BY <2>4 DEF Restart, Backed
  <2>5. CASE UNCHANGED vars
    BY <2>5, BackedKept DEF vars, OnRecord, OnFile
  <2>6. QED
    BY <2>1, <2>2, <2>3, <2>4, <2>5 DEF Next
<1>3. Inv => AnswerOnRecord
  BY DEF Backed, AnswerOnRecord
<1>4. QED
  BY <1>1, <1>2, <1>3, TypeCorrect, PTL DEF Spec
---------------------------------------------------------------------------
\* The calls that have audited the payment of an invoice and not reconciled it.
Due(i) == Working(i, "reconcile")

LEMMA DueFinite == \A i : IsFiniteSet(Due(i)) /\ IsFiniteSet(Due(i)')
<1>1. \A i : Due(i) \subseteq Workers /\ Due(i)' \subseteq Workers
  BY DEF Due, Working
<1>2. QED
  BY <1>1, FinitenessAssumption, FS_Subset

\* A worker's log entry adds one to one counter.
LEMMA LogCounts ==
  ASSUME TypeOK, NEW i \in Invoices, NEW kind \in Kinds, Log(i, kind),
         NEW j \in Invoices
  PROVE  /\ audit[j]["payment"] \in Nat
         /\ audit'[j]["payment"] =
              IF j = i /\ kind = "payment" THEN audit[j]["payment"] + 1
              ELSE audit[j]["payment"]
<1>1. audit \in [Invoices -> [Kinds -> Nat]] /\ audit[i] \in [Kinds -> Nat]
      /\ audit[j] \in [Kinds -> Nat] /\ "payment" \in Kinds
  BY DEF TypeOK, Kinds
<1>2. audit'[j] = IF j = i THEN [audit[i] EXCEPT ![kind] = @ + 1] ELSE audit[j]
  BY <1>1 DEF Log
<1>3. audit[j]["payment"] \in Nat
  BY <1>1
<1>4. QED
  BY <1>1, <1>2, <1>3

\* An invoice's account over a step of a worker: the payment is audited and
\* falls due, or is reconciled, or a due one is dropped at most.
LEMMA AccountStep ==
  ASSUME TypeOK, NEW w \in Workers, Step(w), NEW j \in Invoices
  PROVE  \/ /\ w \notin Due(j) /\ Due(j)' = Due(j) \cup {w}
            /\ ledger'[j] = ledger[j]
            /\ audit'[j]["payment"] = audit[j]["payment"] + 1
         \/ /\ w \in Due(j) /\ Due(j)' = Due(j) \ {w}
            /\ ledger'[j] = ledger[j] + 1
            /\ audit'[j]["payment"] = audit[j]["payment"]
         \/ /\ Due(j)' \subseteq Due(j)
            /\ ledger'[j] = ledger[j]
            /\ audit'[j]["payment"] = audit[j]["payment"]
<1> DEFINE i == job[w]
           Others == /\ job' = job
                     /\ \A q \in Workers : q # w => pc'[q] = pc[q]
<1>1. i \in Invoices /\ Kinds = {"payment", "escalation", "blocked"}
  BY DEF TypeOK, Kinds
<1>2. CASE \/ Score(w) \/ GuardAdmits(w) \/ GateOpens(w) \/ GateCloses(w)
           \/ PayByMcp(w) \/ McpFails(w) \/ PayBySdk(w) \/ SdkFails(w)
           \/ GateAsks(w) \/ SandboxFails(w) \/ Request(w) \/ AuditFails(w)
           \/ RecordPayment(w)
  <2>1. Others /\ ledger' = ledger /\ audit' = audit /\ pc'[w] # "reconcile"
    BY <1>2 DEF Score, GuardAdmits, GateOpens, GateCloses, PayByMcp, McpFails,
         PayBySdk, SdkFails, SandboxFails, Request, AuditFails, RecordPayment,
         GateAsks, GoTo, End, FirstBackend, AfterMcp, TypeOK
  <2>2. Due(j)' \subseteq Due(j)
    BY <2>1 DEF Due, Working
  <2>3. QED
    BY <2>1, <2>2
<1>3. CASE GuardBlocks(w) \/ AuditGate(w) \/ AuditEscalation(w)
  <2>1. /\ Others /\ ledger' = ledger /\ pc'[w] # "reconcile"
        /\ Log(i, "blocked") \/ Log(i, "escalation")
    BY <1>3 DEF GuardBlocks, AuditGate, AuditEscalation, GoTo, End, TypeOK
  <2>2. audit'[j]["payment"] = audit[j]["payment"]
    BY <1>1, <2>1, LogCounts
  <2>3. Due(j)' \subseteq Due(j)
    BY <2>1 DEF Due, Working
  <2>4. QED
    BY <2>1, <2>2, <2>3
<1>4. CASE AuditPayment(w)
  <2>1. /\ Others /\ ledger' = ledger /\ pc[w] = "audit payment"
        /\ pc'[w] = "reconcile" /\ Log(i, "payment")
    BY <1>4 DEF AuditPayment, GoTo, TypeOK
  <2>2. audit'[j]["payment"] = IF j = i THEN audit[j]["payment"] + 1
                                        ELSE audit[j]["payment"]
    BY <1>1, <2>1, LogCounts
  <2>3. CASE j = i
    <3>1. w \notin Due(j) /\ Due(j)' = Due(j) \cup {w}
      BY <2>1, <2>3 DEF Due, Working
    <3>2. QED
      BY <2>1, <2>2, <2>3, <3>1
  <2>4. CASE j # i
    <3>1. Due(j)' \subseteq Due(j)
      BY <2>1, <2>4 DEF Due, Working
    <3>2. QED
      BY <2>1, <2>2, <2>4, <3>1
  <2>5. QED
    BY <2>3, <2>4
<1>5. CASE Reconcile(w)
  <2>1. /\ Others /\ audit' = audit /\ pc[w] = "reconcile" /\ pc'[w] = "record"
        /\ ledger' = [ledger EXCEPT ![i] = @ + 1]
    BY <1>5 DEF Reconcile, Posted, GoTo, TypeOK
  <2>2. ledger'[j] = IF j = i THEN ledger[j] + 1 ELSE ledger[j]
    BY <1>1, <2>1 DEF TypeOK
  <2>3. CASE j = i
    <3>1. w \in Due(j) /\ Due(j)' = Due(j) \ {w}
      BY <2>1, <2>3 DEF Due, Working
    <3>2. QED
      BY <2>1, <2>2, <2>3, <3>1
  <2>4. CASE j # i
    <3>1. Due(j)' \subseteq Due(j)
      BY <2>1, <2>4 DEF Due, Working
    <3>2. QED
      BY <2>1, <2>2, <2>4, <3>1
  <2>5. QED
    BY <2>3, <2>4
<1>6. QED
  BY <1>2, <1>3, <1>4, <1>5 DEF Step

\* No more payments of an invoice are booked or due than were audited.
Audited(i) == ledger[i] + Cardinality(Due(i)) <= audit[i]["payment"]

LEMMA AuditedKept ==
  ASSUME TypeOK, TypeOK', NEW j \in Invoices, Audited(j),
         \/ \E w \in Workers : Step(w)
         \/ \E w \in Workers, i \in Invoices : Deliver(w, i)
         \/ \E k \in Keys, verdict \in {"approved", "denied"} : Decide(k, verdict)
         \/ Restart
         \/ UNCHANGED vars
  PROVE  Audited(j)'
<1>1. PICK d, e : d = Due(j) /\ e = Due(j)'
  OBVIOUS
<1>2. IsFiniteSet(d) /\ IsFiniteSet(e)
  BY <1>1, DueFinite
<1>3. Cardinality(d) \in Nat /\ Cardinality(e) \in Nat
  BY <1>2, FS_CardinalityType
<1>4. /\ ledger[j] \in Nat /\ ledger'[j] \in Nat
      /\ audit[j]["payment"] \in Nat /\ audit'[j]["payment"] \in Nat
  <2>1. audit[j] \in [Kinds -> Nat] /\ audit'[j] \in [Kinds -> Nat]
        /\ "payment" \in Kinds
    BY DEF TypeOK, Kinds
  <2>2. QED
    BY <2>1 DEF TypeOK
<1>5. ledger[j] + Cardinality(d) <= audit[j]["payment"]
  BY <1>1 DEF Audited
<1>6. ledger'[j] + Cardinality(e) <= audit'[j]["payment"]
  <2>1. CASE e \subseteq d /\ ledger'[j] = ledger[j]
             /\ audit'[j]["payment"] = audit[j]["payment"]
    <3>1. Cardinality(e) <= Cardinality(d)
      BY <1>2, <2>1, FS_Subset
    <3>2. QED
      BY <1>3, <1>4, <1>5, <2>1, <3>1
  <2>2. ASSUME NEW w \in Workers, Step(w)
        PROVE  ledger'[j] + Cardinality(e) <= audit'[j]["payment"]
    <3>1. CASE /\ w \notin d /\ e = d \cup {w} /\ ledger'[j] = ledger[j]
               /\ audit'[j]["payment"] = audit[j]["payment"] + 1
      <4>1. Cardinality(e) = Cardinality(d) + 1
        BY <1>2, <3>1, FS_AddElement
      <4>2. QED
        BY <1>3, <1>4, <1>5, <3>1, <4>1
    <3>2. CASE /\ w \in d /\ e = d \ {w} /\ ledger'[j] = ledger[j] + 1
               /\ audit'[j]["payment"] = audit[j]["payment"]
      <4>1. Cardinality(e) = Cardinality(d) - 1
        BY <1>2, <3>2, FS_RemoveElement
      <4>2. QED
        BY <1>3, <1>4, <1>5, <3>2, <4>1
    <3>3. QED
      BY <1>1, <2>1, <2>2, <3>1, <3>2, AccountStep
  <2>3. ASSUME NEW w \in Workers, NEW i \in Invoices, Deliver(w, i)
        PROVE  ledger'[j] + Cardinality(e) <= audit'[j]["payment"]
    <3>1. /\ ledger' = ledger /\ audit' = audit /\ pc'[w] = "score"
          /\ \A q \in Workers : q # w => pc'[q] = pc[q] /\ job'[q] = job[q]
      BY <2>3 DEF Deliver, TypeOK
    <3>2. e \subseteq d
      BY <1>1, <3>1 DEF Due, Working
    <3>3. QED
      BY <2>1, <3>1, <3>2
  <2>4. CASE Restart
    <3>1. e = {} /\ ledger'[j] = 0
      BY <1>1, <2>4 DEF Restart, Due, Working
    <3>2. Cardinality(e) = 0
      BY <3>1, FS_EmptySet
    <3>3. QED
      BY <1>4, <3>1, <3>2
  <2>5. CASE UNCHANGED <<ledger, audit, pc, job>>
    <3>1. d = e
      BY <1>1, <2>5 DEF Due, Working
    <3>2. QED
      BY <2>1, <2>5, <3>1
  <2>6. QED
    BY <2>2, <2>3, <2>4, <2>5 DEF Decide, vars
<1>7. QED
  BY <1>1, <1>6 DEF Audited

Of(v) == {i \in Invoices : Vendor[i] = v}

\* The calls that have posted a payment of the vendor and not recorded it.
Held(v) == {w \in Workers : pc[w] = "record" /\ Vendor[job[w]] = v}

\* With those, the graph has as many new payments as the ledger has entries.
Matched(v) ==
  Len(graph[v]) - Len(Seed[v]) + Cardinality(Held(v)) = SumFunctionOnSet(ledger, Of(v))

LEMMA OfFinite == \A v : IsFiniteSet(Of(v)) /\ Of(v) \subseteq Invoices
BY FinitenessAssumption, FS_Subset DEF Of

LEMMA HeldFinite == \A v : IsFiniteSet(Held(v)) /\ IsFiniteSet(Held(v)')
<1>1. \A v : Held(v) \subseteq Workers /\ Held(v)' \subseteq Workers
  BY DEF Held
<1>2. QED
  BY <1>1, FinitenessAssumption, FS_Subset

\* The numbers of Matched, before and after a step.
LEMMA CountsType ==
  ASSUME TypeOK, TypeOK', NEW v \in Vendors
  PROVE  /\ Len(graph[v]) \in Nat /\ Len(graph'[v]) \in Nat /\ Len(Seed[v]) \in Nat
         /\ Cardinality(Held(v)) \in Nat /\ Cardinality(Held(v)') \in Nat
<1>1. Seed[v] \in Seq(Nat) /\ graph[v] \in Seq(Nat) /\ graph'[v] \in Seq(Nat)
  BY InvoicesAssumption DEF Vendors, TypeOK
<1>2. PICK d, e : d = Held(v) /\ e = Held(v)'
  OBVIOUS
<1>3. Cardinality(d) \in Nat /\ Cardinality(e) \in Nat
  BY <1>2, HeldFinite, FS_CardinalityType
<1>4. QED
  BY <1>1, <1>2, <1>3

\* A post adds one to the ledger and one call to those that have to record.
LEMMA MatchedByReconcile ==
  ASSUME TypeOK, TypeOK', NEW w \in Workers, Reconcile(w), NEW v \in Vendors,
         Matched(v)
  PROVE  Matched(v)'
<1>1. PICK i \in Invoices : i = job[w]
  BY DEF TypeOK
<1>2. /\ ledger' = [ledger EXCEPT ![i] = @ + 1] /\ graph' = graph /\ job' = job
      /\ pc[w] = "reconcile" /\ pc' = [pc EXCEPT ![w] = "record"]
  BY <1>1 DEF Reconcile, Posted, GoTo
<1>3. ledger \in [Invoices -> Nat] /\ ledger' \in [Invoices -> Nat]
      /\ pc \in [Workers -> Points]
  BY DEF TypeOK
<1>4. CASE i \in Of(v)
  <2>1. PICK d, e : d = Held(v) /\ e = Held(v)'
    OBVIOUS
  <2>2. w \notin d /\ e = d \cup {w}
    BY <1>1, <1>2, <1>3, <1>4, <2>1 DEF Held, Of
  <2>3. Cardinality(e) = Cardinality(d) + 1
    BY <2>1, <2>2, HeldFinite, FS_AddElement
  <2>4. SumFunctionOnSet(ledger', Of(v))
          = SumFunctionOnSet(ledger, Of(v)) + (ledger'[i] - ledger[i])
    <3>1. \A x \in Of(v) : ledger[x] \in Int /\ ledger'[x] \in Int
      BY <1>3 DEF Of
    <3>2. \A x \in Of(v) : x # i => ledger[x] = ledger'[x]
      BY <1>2, <1>3 DEF Of
    <3>3. QED
      BY <1>4, <3>1, <3>2, OfFinite, SumChange
  <2>5. ledger'[i] - ledger[i] = 1
    BY <1>2, <1>3
  <2>6. PICK g, h, n \in Nat :
          /\ g = Len(graph[v]) /\ h = Cardinality(d) /\ n = Len(Seed[v])
    BY <2>1, CountsType
  <2>7. SumFunctionOnSet(ledger, Of(v)) = g - n + h
    BY <2>1, <2>6 DEF Matched
  <2>8. SumFunctionOnSet(ledger', Of(v)) = (g - n + h) + 1
    BY <2>4, <2>5, <2>7
  <2>9. Len(graph'[v]) - Len(Seed[v]) + Cardinality(e)
          = SumFunctionOnSet(ledger', Of(v))
    <3>1. Len(graph'[v]) = g /\ Len(Seed[v]) = n /\ Cardinality(e) = h + 1
      BY <1>2, <2>3, <2>6
    <3>2. Len(graph'[v]) - Len(Seed[v]) + Cardinality(e) = g - n + (h + 1)
      BY <3>1, Zenon
    <3>3. g - n + (h + 1) = (g - n + h) + 1
      OBVIOUS
    <3>4. QED
      BY <2>8, <3>2, <3>3, Zenon
  <2>10. QED
    BY <2>1, <2>9 DEF Matched, Of
<1>5. CASE i \notin Of(v)
  <2>1. Held(v)' = Held(v)
    BY <1>1, <1>2, <1>3, <1>5 DEF Held, Of
  <2>2. SumFunctionOnSet(ledger, Of(v)) = SumFunctionOnSet(ledger', Of(v))
    <3>1. \A x \in Of(v) : ledger[x] = ledger'[x]
      BY <1>2, <1>3, <1>5 DEF Of
    <3>2. QED
      BY <3>1, OfFinite, SumSame
  <2>3. QED
    BY <1>2, <2>1, <2>2 DEF Matched, Of
<1>6. QED
  BY <1>4, <1>5

\* The record that follows moves one call's payment into the graph.
LEMMA MatchedByRecord ==
  ASSUME TypeOK, TypeOK', NEW w \in Workers, RecordPayment(w), NEW v \in Vendors,
         Matched(v)
  PROVE  Matched(v)'
<1>1. PICK i \in Invoices : i = job[w]
  BY DEF TypeOK
<1>2. /\ ledger' = ledger /\ job' = job
      /\ graph' = [graph EXCEPT ![Vendor[i]] = Append(@, Amount[i])]
      /\ pc[w] = "record" /\ pc' = [pc EXCEPT ![w] = "idle"]
  BY <1>1 DEF RecordPayment, End
<1>3. /\ pc \in [Workers -> Points] /\ graph \in [Vendors -> Seq(Nat)]
      /\ graph[v] \in Seq(Nat)
  BY DEF TypeOK
<1>4. CASE Vendor[i] = v
  <2>1. PICK d, e : d = Held(v) /\ e = Held(v)'
    OBVIOUS
  <2>2. w \in d /\ e = d \ {w}
    BY <1>1, <1>2, <1>3, <1>4, <2>1 DEF Held
  <2>3. Cardinality(e) = Cardinality(d) - 1
    BY <2>1, <2>2, HeldFinite, FS_RemoveElement
  <2>4. graph'[v] = Append(graph[v], Amount[i])
    BY <1>2, <1>3, <1>4
  <2>5. Len(graph'[v]) = Len(graph[v]) + 1
    BY <1>3, <2>4, InvoicesAssumption
  <2>6. PICK g, h, n \in Nat :
          /\ g = Len(graph[v]) /\ h = Cardinality(d) /\ n = Len(Seed[v])
    BY <2>1, CountsType
  <2>7. SumFunctionOnSet(ledger, Of(v)) = g - n + h
    BY <2>1, <2>6 DEF Matched
  <2>8. Len(graph'[v]) - Len(Seed[v]) + Cardinality(e) = g - n + h
    <3>1. Len(graph'[v]) = g + 1 /\ Len(Seed[v]) = n /\ Cardinality(e) = h - 1
      BY <2>3, <2>5, <2>6
    <3>2. Len(graph'[v]) - Len(Seed[v]) + Cardinality(e) = (g + 1) - n + (h - 1)
      BY <3>1, Zenon
    <3>3. (g + 1) - n + (h - 1) = g - n + h
      OBVIOUS
    <3>4. QED
      BY <3>2, <3>3, Zenon
  <2>9. QED
    BY <1>2, <2>1, <2>7, <2>8 DEF Matched, Of
<1>5. CASE Vendor[i] # v
  <2>1. Held(v)' = Held(v)
    BY <1>1, <1>2, <1>3, <1>5 DEF Held
  <2>2. graph'[v] = graph[v]
    BY <1>2, <1>3, <1>5
  <2>3. QED
    BY <1>2, <2>1, <2>2 DEF Matched, Of
<1>6. QED
  BY <1>4, <1>5

\* Every other step of a worker leaves the calls that have to record.
LEMMA HeldKept ==
  ASSUME TypeOK, NEW w \in Workers, Step(w), ~Reconcile(w), ~RecordPayment(w),
         NEW v
  PROVE  ledger' = ledger /\ graph' = graph /\ Held(v)' = Held(v)
<1>1. /\ ledger' = ledger /\ graph' = graph /\ job' = job
      /\ pc[w] # "record" /\ pc'[w] # "record"
      /\ \A q \in Workers : q # w => pc'[q] = pc[q]
  BY DEF Step, Score, GuardAdmits, GuardBlocks, GateOpens, GateCloses, GateAsks,
         PayByMcp, McpFails, PayBySdk, SdkFails, SandboxFails, AuditPayment,
         AuditGate, Request, AuditEscalation, AuditFails, GoTo, End,
         FirstBackend, AfterMcp, TypeOK
<1>2. QED
  BY <1>1 DEF Held

\* Whatever fails and whenever the process restarts, ledger and graph hold the
\* same payments but for those a thread is between posting and recording, and
\* each of them is audited (nemoclaw_harness.py:125-133,
\* payment_402_handler.py:158-162).
THEOREM BooksStayBalanced == Spec => []BooksBalance
<1> DEFINE Inv == /\ \A i \in Invoices : Audited(i)
                  /\ \A v \in Vendors : Matched(v)
<1>1. \A v \in Vendors : Len(Seed[v]) \in Nat
  BY InvoicesAssumption DEF Vendors
<1>2. Init => Inv
  <2> SUFFICES ASSUME Init PROVE Inv
    OBVIOUS
  <2>1. ASSUME NEW i \in Invoices PROVE Audited(i)
    <3>1. ledger[i] = 0 /\ audit[i]["payment"] = 0 /\ Due(i) = {}
      BY DEF Init, Due, Working, Kinds
    <3>2. QED
      BY <3>1, FS_EmptySet DEF Audited
  <2>2. ASSUME NEW v \in Vendors PROVE Matched(v)
    <3>1. /\ \A x \in Of(v) : ledger[x] = 0
          /\ Held(v) = {} /\ graph[v] = Seed[v]
      BY DEF Init, Of, Held
    <3>2. SumFunctionOnSet(ledger, Of(v)) = 0
      BY <3>1, OfFinite, SumZero
    <3>3. Cardinality(Held(v)) = 0
      BY <3>1, FS_EmptySet
    <3>4. QED
      BY <1>1, <3>1, <3>2, <3>3 DEF Matched
  <2>3. QED
    BY <2>1, <2>2
<1>3. TypeOK /\ TypeOK' /\ Inv /\ [Next]_vars => Inv'
  <2> SUFFICES ASSUME TypeOK, TypeOK', Inv, [Next]_vars PROVE Inv'
    OBVIOUS
  <2>1. ASSUME NEW i \in Invoices PROVE Audited(i)'
    BY AuditedKept DEF Next
  <2>2. ASSUME NEW v \in Vendors PROVE Matched(v)'
    <3>1. ASSUME NEW w \in Workers, Step(w) PROVE Matched(v)'
      <4>1. CASE Reconcile(w)
        BY <4>1, MatchedByReconcile
      <4>2. CASE RecordPayment(w)
        BY <4>2, MatchedByRecord
      <4>3. CASE ~Reconcile(w) /\ ~RecordPayment(w)
        BY <3>1, <4>3, HeldKept DEF Matched, Of
      <4>4. QED
        BY <4>1, <4>2, <4>3
    <3>2. ASSUME NEW w \in Workers, NEW i \in Invoices, Deliver(w, i)
          PROVE  Matched(v)'
      <4>1. Held(v)' = Held(v)
        BY <3>2 DEF Deliver, Held, TypeOK
      <4>2. QED
        BY <3>2, <4>1 DEF Deliver, Matched, Of
    <3>3. CASE UNCHANGED <<ledger, graph, pc, job>>
      BY <3>3 DEF Matched, Of, Held
    <3>4. CASE Restart
      <4>1. /\ graph'[v] = Seed[v] /\ \A x \in Of(v) : ledger'[x] = 0
            /\ Held(v)' = {}
        BY <3>4 DEF Restart, Of, Held
      <4>2. SumFunctionOnSet(ledger', Of(v)) = 0
        BY <4>1, OfFinite, SumZero
      <4>3. Cardinality(Held(v)') = 0
        BY <4>1, FS_EmptySet
      <4>4. QED
        BY <1>1, <4>1, <4>2, <4>3 DEF Matched, Of
    <3>5. QED
      BY <3>1, <3>2, <3>3, <3>4 DEF Next, vars, Decide
  <2>3. QED
    BY <2>1, <2>2 DEF Vendors
<1>4. Inv => BooksBalance
  BY DEF Audited, Due, Matched, Of, Held, BooksBalance
<1>5. QED
  BY <1>2, <1>3, <1>4, TypeCorrect, PTL DEF Spec

===========================================================================
