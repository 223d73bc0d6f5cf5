------------------------- MODULE AuditChainProofs -------------------------
(***************************************************************************)
(* Theorems about AuditChain, for any number of writers, any bound on the  *)
(* entries, and the fault classes each statement names.                    *)
(***************************************************************************)
EXTENDS AuditChain, SequenceTheorems, TLAPS

\* What writing one line does to the file, whether or not its last line was
\* terminated.
LEMMA AppendedLines ==
  ASSUME TypeOK, NEW line \in Lines
  PROVE  /\ Appended(line) \in Seq(Lines)
         /\ Len(log) \in Nat
         /\ Len(Appended(line)) = IF closed THEN Len(log) + 1 ELSE Len(log)
         /\ Len(Appended(line)) >= 1
         /\ Appended(line)[Len(Appended(line))] =
              IF closed THEN line ELSE GarbledLine
         /\ \A i \in 1..(Len(Appended(line)) - 1) :
              i <= Len(log) /\ Appended(line)[i] = log[i]
<1> USE DEF TypeOK
<1>1. GarbledLine \in Lines
  BY DEF GarbledLine, Lines, Genesis
<1>2. CASE closed
  BY <1>2 DEF Appended
<1>3. CASE ~closed
  <2>1. log # <<>> /\ Len(log) \in 1..Len(log)
    BY <1>3
  <2>2. QED
    BY <1>1, <1>3, <2>1 DEF Appended
<1>4. QED
  BY <1>2, <1>3

LEMMA NewEntryType ==
  ASSUME TypeOK, NEW w \in Writers, NEW big \in Lengths
  PROVE  NewEntry(w, big) \in Lines
BY LengthsAssumption, MaxEntriesAssumption DEF TypeOK, NewEntry, Lines, Heads

LEMMA HeadOfLogType ==
  ASSUME TypeOK
  PROVE  HeadOfLog \in Heads /\ GenesisHead \in Heads
<1> USE DEF TypeOK, Heads, GenesisHead, Genesis
<1>1. CASE log = <<>>
  BY <1>1 DEF HeadOfLog
<1>2. CASE log # <<>>
  <2>1. log[Len(log)] \in Lines
    BY <1>2
  <2>2. QED
    BY <1>2, <2>1 DEF HeadOfLog, Lines
<1>3. QED
  BY <1>1, <1>2

\* Every variable keeps its type, whatever the writers and the faults do.
THEOREM TypeCorrect == Spec => []TypeOK
<1>1. Init => TypeOK
  BY MaxEntriesAssumption
     DEF Init, TypeOK, Heads, GenesisHead, Genesis
<1>2. TypeOK /\ [Next]_vars => TypeOK'
  <2> SUFFICES ASSUME TypeOK, [Next]_vars
               PROVE  TypeOK'
    OBVIOUS
  <2>1. ASSUME NEW w \in Writers, ReadHead(w) \/ ReadFault(w)
        PROVE  TypeOK'
    BY <2>1, HeadOfLogType DEF ReadHead, ReadFault, GotHead, TypeOK
  <2>2. ASSUME NEW w \in Writers, Refuse(w)
        PROVE  TypeOK'
    BY <2>2 DEF Refuse, TypeOK
  <2>3. ASSUME NEW w \in Writers, WriteEntry(w)
        PROVE  TypeOK'
    <3>1. PICK big \in Lengths : log' = Appended(NewEntry(w, big))
      BY <2>3 DEF WriteEntry
    <3>2. log' \in Seq(Lines) /\ closed'
      BY <2>3, <3>1, NewEntryType, AppendedLines DEF WriteEntry
    <3>3. minted' = minted + 1 /\ minted' \in 0..MaxEntries
      BY <2>3, MaxEntriesAssumption DEF WriteEntry, Building, TypeOK
    <3>4. acked' \subseteq 1..minted'
      BY <2>3, <3>3 DEF WriteEntry, TypeOK
    <3>5. QED
      BY <2>3, <3>2, <3>3, <3>4 DEF WriteEntry, Finish, TypeOK
  <2>4. ASSUME NEW w \in Writers, WriteTorn(w) \/ WriteUnterminated(w)
        PROVE  TypeOK'
    <3>1. PICK line \in Lines : log' = Appended(line)
      BY <2>4, NewEntryType
         DEF WriteTorn, WriteUnterminated, GarbledLine, Lines, Genesis
    <3>2. log' \in Seq(Lines) /\ log' # <<>>
      BY <3>1, AppendedLines
    <3>3. minted' = minted + 1 /\ minted' \in 0..MaxEntries
      BY <2>4, MaxEntriesAssumption
         DEF WriteTorn, WriteUnterminated, Building, TypeOK
    <3>4. acked' = acked
      BY <2>4 DEF WriteTorn, WriteUnterminated
    <3>5. acked' \subseteq 1..minted'
      BY <3>3, <3>4, MaxEntriesAssumption DEF TypeOK
    <3>6. QED
      BY <2>4, <3>2, <3>3, <3>5
         DEF WriteTorn, WriteUnterminated, Finish, TypeOK
  <2>5. ASSUME NEW w \in Writers, Abandon(w)
        PROVE  TypeOK'
    BY <2>5 DEF Abandon, Finish, TypeOK
  <2>6. CASE UNCHANGED vars
    BY <2>6 DEF vars, TypeOK
  <2>7. QED
    BY <2>1, <2>2, <2>3, <2>4, <2>5, <2>6 DEF Next
<1>3. QED
  BY <1>1, <1>2, PTL DEF Spec

---------------------------------------------------------------------------
\* What any step does to the file: it leaves it, or writes one line.
LEMMA StepOfLog ==
  ASSUME TypeOK, [Next]_vars
  PROVE  \/ log' = log /\ closed' = closed
         \/ \E line \in Lines : log' = Appended(line)
<1>1. CASE UNCHANGED vars
  BY <1>1 DEF vars
<1>2. CASE Next
  <2>1. PICK w \in Writers :
          \/ ReadHead(w) \/ Refuse(w) \/ ReadFault(w) \/ WriteEntry(w)
          \/ WriteTorn(w) \/ WriteUnterminated(w) \/ Abandon(w)
    BY <1>2 DEF Next
  <2>2. CASE ReadHead(w) \/ Refuse(w) \/ ReadFault(w) \/ Abandon(w)
    BY <2>2 DEF ReadHead, Refuse, ReadFault, Abandon, GotHead
  <2>3. CASE WriteEntry(w) \/ WriteTorn(w) \/ WriteUnterminated(w)
    BY <2>3, NewEntryType
       DEF WriteEntry, WriteTorn, WriteUnterminated, GarbledLine, Lines, Genesis
  <2>4. QED
    BY <2>1, <2>2, <2>3
<1>3. QED
  BY <1>1, <1>2

\* A line that verify_chain rejects is still rejected after any write.
LEMMA RejectedLineStays ==
  ASSUME TypeOK, NEW line \in Lines, log' = Appended(line), ~ChainVerifies
  PROVE  ~ChainVerifies'
<1>1. PICK i \in 1..Len(log) : ~Linked(i)
  BY DEF ChainVerifies
<1>2. /\ Len(log) \in Nat
      /\ Len(log') = IF closed THEN Len(log) + 1 ELSE Len(log)
      /\ log'[Len(log')] = IF closed THEN line ELSE GarbledLine
      /\ \A j \in 1..(Len(log') - 1) : log'[j] = log[j]
  BY AppendedLines
<1>3. CASE closed \/ i < Len(log)
  <2>1. log'[i] = log[i] /\ (i > 1 => log'[i-1] = log[i-1]) /\ i \in 1..Len(log')
    BY <1>2, <1>3
  <2>2. ~Linked(i)'
    BY <1>1, <2>1 DEF Linked
  <2>3. QED
    BY <2>1, <2>2 DEF ChainVerifies
<1>4. CASE ~closed /\ i = Len(log)
  <2>1. ~log'[i].entry /\ i \in 1..Len(log')
    BY <1>2, <1>4 DEF GarbledLine
  <2>2. QED
    BY <2>1 DEF ChainVerifies, Linked
<1>5. QED
  BY <1>3, <1>4, <1>2

\* Once verify_chain rejects the file it always will: for every set of
\* writers, interleaving and fault of the model.
THEOREM BrokenStaysBroken == Spec => BrokenForever
<1>1. TypeOK /\ [Next]_vars => [~ChainVerifies => ~ChainVerifies']_vars
  <2> SUFFICES ASSUME TypeOK, [Next]_vars, ~ChainVerifies
               PROVE  ~ChainVerifies'
    OBVIOUS
  <2>1. CASE log' = log
    BY <2>1 DEF ChainVerifies, Linked
  <2>2. CASE \E line \in Lines : log' = Appended(line)
    BY <2>2, RejectedLineStays
  <2>3. QED
    BY <2>1, <2>2, StepOfLog
<1>2. QED
  BY <1>1, TypeCorrect, PTL DEF Spec, BrokenForever

---------------------------------------------------------------------------
\* Appends that overlap, without cut writes.  Every head a writer holds is
\* genesis or the head after some line of the file, maybe no longer the last.
HeadsFromLog ==
  \A w \in Writers :
    pc[w] = "head" =>
      \/ head[w] = GenesisHead
      \/ \E j \in 1..Len(log) :
           head[w] = [hash |-> log[j].hash, seq |-> log[j].seq + 1]

RootedInv == TypeOK /\ closed /\ HeadsFromLog

\* A line written from such a head.
LEMMA WriteFromLog ==
  ASSUME RootedInv, NEW w \in Writers, WriteEntry(w)
  PROVE  \E e \in Lines :
           /\ log' = Append(log, e)
           /\ e.entry /\ e.hash = minted + 1
           /\ \/ e.prev = Genesis /\ e.seq = 0
              \/ \E j \in 1..Len(log) :
                   e.prev = log[j].hash /\ e.seq = log[j].seq + 1
<1>1. PICK big \in Lengths : log' = Append(log, NewEntry(w, big))
  BY DEF WriteEntry, Appended, RootedInv
<1>2. NewEntry(w, big) \in Lines
  BY NewEntryType DEF RootedInv
<1>3. \/ head[w] = GenesisHead
      \/ \E j \in 1..Len(log) :
           head[w] = [hash |-> log[j].hash, seq |-> log[j].seq + 1]
  BY DEF WriteEntry, Building, RootedInv, HeadsFromLog
<1>4. /\ NewEntry(w, big).entry /\ NewEntry(w, big).hash = minted + 1
      /\ NewEntry(w, big).prev = head[w].hash
      /\ NewEntry(w, big).seq = head[w].seq
  BY DEF NewEntry
<1>5. \/ NewEntry(w, big).prev = Genesis /\ NewEntry(w, big).seq = 0
      \/ \E j \in 1..Len(log) :
           /\ NewEntry(w, big).prev = log[j].hash
           /\ NewEntry(w, big).seq = log[j].seq + 1
  <2>1. CASE head[w] = GenesisHead
    BY <1>4, <2>1 DEF GenesisHead
  <2>2. ASSUME NEW j \in 1..Len(log),
               head[w] = [hash |-> log[j].hash, seq |-> log[j].seq + 1]
        PROVE  /\ NewEntry(w, big).prev = log[j].hash
               /\ NewEntry(w, big).seq = log[j].seq + 1
    <3>1. head[w].hash = log[j].hash /\ head[w].seq = log[j].seq + 1
      BY <2>2
    <3>2. QED
      BY <1>4, <3>1
  <2>3. QED
    BY <1>3, <2>1, <2>2
<1>6. QED
  BY <1>1, <1>2, <1>4, <1>5

LEMMA RootedInvStep ==
  ASSUME RootedInv, TypeOK', [Next]_vars, "write" \notin Faults
  PROVE  /\ RootedInv'
         /\ \/ log' = log /\ minted' = minted
            \/ \E w \in Writers : WriteEntry(w)
<1> USE DEF RootedInv
<1>1. ASSUME NEW w \in Writers, ReadHead(w) \/ ReadFault(w)
      PROVE  HeadsFromLog' /\ UNCHANGED <<log, minted, closed>>
  <2>1. UNCHANGED <<log, minted, closed>>
    BY <1>1 DEF ReadHead, ReadFault, GotHead
  <2>2. \/ head'[w] = GenesisHead
        \/ \E j \in 1..Len(log) :
             head'[w] = [hash |-> log[j].hash, seq |-> log[j].seq + 1]
    <3>1. CASE log = <<>> \/ ReadFault(w)
      BY <1>1, <3>1 DEF ReadHead, ReadFault, GotHead, HeadOfLog, TypeOK
    <3>2. CASE log # <<>> /\ ReadHead(w)
      <4>1. Len(log) \in 1..Len(log)
        BY <3>2 DEF TypeOK
      <4>2. head'[w] = [hash |-> log[Len(log)].hash, seq |-> log[Len(log)].seq + 1]
        BY <3>2 DEF ReadHead, GotHead, HeadOfLog, TypeOK
      <4>3. QED
        BY <4>1, <4>2
    <3>3. QED
      BY <1>1, <3>1, <3>2
  <2>3. \A v \in Writers : v # w => pc'[v] = pc[v] /\ head'[v] = head[v]
    BY <1>1 DEF ReadHead, ReadFault, GotHead, TypeOK
  <2>4. QED
    BY <2>1, <2>2, <2>3 DEF HeadsFromLog
<1>2. ASSUME NEW w \in Writers, Refuse(w) \/ Abandon(w)
      PROVE  HeadsFromLog' /\ UNCHANGED <<log, minted, closed>>
  <2>1. /\ UNCHANGED <<log, minted, closed, head>>
        /\ \A v \in Writers : pc'[v] = "head" => pc[v] = "head"
    BY <1>2 DEF Refuse, Abandon, Finish, TypeOK
  <2>2. QED
    BY <2>1 DEF HeadsFromLog
<1>3. ASSUME NEW w \in Writers, WriteEntry(w)
      PROVE  HeadsFromLog' /\ closed'
  <2>1. PICK e \in Lines : log' = Append(log, e)
    BY <1>3, WriteFromLog
  <2>2. /\ closed' /\ head' = head
        /\ \A v \in Writers : pc'[v] = "head" => pc[v] = "head"
    BY <1>3 DEF WriteEntry, Finish, TypeOK
  <2>3. \A j \in 1..Len(log) : j \in 1..Len(log') /\ log'[j] = log[j]
    BY <2>1 DEF TypeOK
  <2>4. QED
    BY <2>2, <2>3 DEF HeadsFromLog
<1>4. CASE UNCHANGED vars
  BY <1>4 DEF vars, HeadsFromLog
<1>5. QED
  BY <1>1, <1>2, <1>3, <1>4 DEF Next, WriteTorn, WriteUnterminated

AllRooted == \A i \in 1..Len(log) : RootedAt(i)

\* Without cut writes no entry is built on anything but genesis or an
\* earlier entry of the file, however the appends interleave and even when
\* reads of the head fail.
THEOREM Rooted ==
  ASSUME "write" \notin Faults
  PROVE  Spec => []EntriesRooted
<1>1. Init => RootedInv /\ AllRooted
  BY MaxEntriesAssumption
     DEF Init, RootedInv, AllRooted, RootedAt, TypeOK, HeadsFromLog, Heads,
         GenesisHead, Genesis
<1>2. RootedInv /\ AllRooted /\ TypeOK' /\ [Next]_vars
        => (RootedInv /\ AllRooted)'
  <2> SUFFICES ASSUME RootedInv, AllRooted, TypeOK', [Next]_vars
               PROVE  RootedInv' /\ AllRooted'
    OBVIOUS
  <2>1. RootedInv'
    BY RootedInvStep
  <2>2. CASE log' = log
    BY <2>1, <2>2 DEF AllRooted, RootedAt
  <2>3. ASSUME NEW w \in Writers, WriteEntry(w)
        PROVE  AllRooted'
    <3>1. PICK e \in Lines :
            /\ log' = Append(log, e)
            /\ \/ e.prev = Genesis /\ e.seq = 0
               \/ \E j \in 1..Len(log) :
                    e.prev = log[j].hash /\ e.seq = log[j].seq + 1
      BY <2>3, WriteFromLog
    <3>2. /\ Len(log) \in Nat /\ Len(log') = Len(log) + 1
          /\ log'[Len(log) + 1] = e
          /\ \A j \in 1..Len(log) : log'[j] = log[j]
      BY <3>1 DEF RootedInv, TypeOK
    <3>3. ASSUME NEW i \in 1..Len(log')
          PROVE  \/ log'[i].prev = Genesis /\ log'[i].seq = 0
                 \/ \E j \in 1..(i-1) :
                      log'[i].prev = log'[j].hash /\ log'[i].seq = log'[j].seq + 1
      <4>1. CASE i = Len(log) + 1
        BY <3>1, <3>2, <4>1
      <4>2. CASE i \in 1..Len(log)
        <5>1. \A j \in 1..(i-1) : log'[j] = log[j]
          BY <3>2, <4>2
        <5>2. QED
          BY <3>2, <4>2, <5>1 DEF AllRooted, RootedAt
      <4>3. QED
        BY <3>2, <4>1, <4>2
    <3>4. QED
      BY <3>3 DEF AllRooted, RootedAt
  <2>4. QED
    BY <2>1, <2>2, <2>3, RootedInvStep
<1>3. AllRooted => EntriesRooted
  BY DEF AllRooted, EntriesRooted
<1>4. QED
  BY <1>1, <1>2, <1>3, TypeCorrect, PTL DEF Spec

---------------------------------------------------------------------------
\* No two entries have the same hash, and none has the hash genesis.
DistinctHashes ==
  \A i \in 1..Len(log) :
    /\ log[i].hash \in 1..minted
    /\ \A j \in 1..Len(log) : log[i].hash = log[j].hash => i = j

\* A chain that verifies has no fork.
LEMMA VerifiedIsLinear ==
  ASSUME TypeOK, DistinctHashes, ChainVerifies
  PROVE  ~Forked
<1> SUFFICES ASSUME NEW i \in 1..Len(log), NEW j \in 1..Len(log), i < j,
                    log[i].prev = log[j].prev
             PROVE  FALSE
  BY DEF Forked
<1>1. Len(log) \in Nat
  BY DEF TypeOK
<1>2. log[j].prev = log[j-1].hash /\ j - 1 \in 1..Len(log)
  BY <1>1 DEF ChainVerifies, Linked
<1>3. CASE i = 1
  BY <1>1, <1>2, <1>3 DEF ChainVerifies, Linked, DistinctHashes, Genesis, TypeOK
<1>4. CASE i # 1
  <2>1. log[i].prev = log[i-1].hash /\ i - 1 \in 1..Len(log)
    BY <1>1, <1>4 DEF ChainVerifies, Linked
  <2>2. QED
    BY <1>1, <1>2, <2>1 DEF DistinctHashes
<1>5. QED
  BY <1>3, <1>4

\* The entry written on a chain that verifies either extends it or forks it.
LEMMA ExtendsOrForks ==
  ASSUME RootedInv, ChainVerifies, DistinctHashes, NEW e \in Lines, e.entry,
         log' = Append(log, e),
         \/ e.prev = Genesis /\ e.seq = 0
         \/ \E j \in 1..Len(log) :
              e.prev = log[j].hash /\ e.seq = log[j].seq + 1
  PROVE  (ChainVerifies \/ Forked)'
<1>1. /\ Len(log) \in Nat /\ Len(log') = Len(log) + 1
      /\ log'[Len(log) + 1] = e
      /\ \A j \in 1..Len(log) : log'[j] = log[j]
  BY DEF RootedInv, TypeOK
<1>2. \A i \in 1..Len(log) : Linked(i)'
  BY <1>1 DEF ChainVerifies, Linked
<1>3. ASSUME NEW i \in 1..Len(log), e.prev = log[i].prev
      PROVE  Forked'
  <2>1. i \in 1..Len(log') /\ Len(log) + 1 \in 1..Len(log') /\ i < Len(log) + 1
    BY <1>1
  <2>2. log'[i].prev = log'[Len(log) + 1].prev
    BY <1>1, <1>3
  <2>3. QED
    BY <2>1, <2>2 DEF Forked
<1>4. ASSUME NEW k, k = Len(log) + 1,
             e.prev = (IF k = 1 THEN Genesis ELSE log[k-1].hash), e.seq = k - 1
      PROVE  ChainVerifies'
  <2>1. Linked(k)'
    BY <1>1, <1>4 DEF Linked
  <2>2. QED
    BY <1>1, <1>2, <1>4, <2>1 DEF ChainVerifies
<1>5. CASE e.prev = Genesis /\ e.seq = 0
  <2>1. CASE log = <<>>
    BY <1>1, <1>4, <1>5, <2>1
  <2>2. CASE log # <<>>
    <3>1. 1 \in 1..Len(log) /\ log[1].prev = Genesis
      BY <2>2, <1>1 DEF ChainVerifies, Linked, RootedInv, TypeOK
    <3>2. QED
      BY <1>3, <1>5, <3>1
  <2>3. QED
    BY <2>1, <2>2
<1>6. ASSUME NEW j \in 1..Len(log),
             e.prev = log[j].hash, e.seq = log[j].seq + 1
      PROVE  ChainVerifies' \/ Forked'
  <2>1. log[j].seq = j - 1
    BY DEF ChainVerifies, Linked
  <2>2. CASE j = Len(log)
    BY <1>1, <1>4, <1>6, <2>1, <2>2
  <2>3. CASE j < Len(log)
    <3>1. j + 1 \in 1..Len(log) /\ log[j+1].prev = log[j].hash
      <4>1. j + 1 \in 1..Len(log) /\ j + 1 # 1 /\ (j + 1) - 1 = j
        BY <1>1, <2>3
      <4>2. Linked(j + 1)
        BY <4>1 DEF ChainVerifies
      <4>3. QED
        BY <4>1, <4>2 DEF Linked
    <3>2. QED
      BY <1>3, <1>6, <3>1
  <2>4. QED
    BY <1>1, <2>2, <2>3
<1>7. QED
  BY <1>5, <1>6

ForkInv == RootedInv /\ DistinctHashes /\ (ChainVerifies \/ Forked)

\* Without cut writes verify_chain rejects the file exactly when two appends
\* were built on the same head.
THEOREM ForksAreDetected ==
  ASSUME "write" \notin Faults
  PROVE  Spec => []BrokenIffForked
<1>1. Init => ForkInv
  BY MaxEntriesAssumption
     DEF Init, ForkInv, RootedInv, TypeOK, HeadsFromLog, Heads, GenesisHead,
         Genesis, DistinctHashes, ChainVerifies
<1>2. ForkInv /\ TypeOK' /\ [Next]_vars => ForkInv'
  <2> SUFFICES ASSUME ForkInv, TypeOK', [Next]_vars
               PROVE  ForkInv'
    OBVIOUS
  <2> USE DEF ForkInv
  <2>1. RootedInv'
    BY RootedInvStep
  <2>2. CASE log' = log /\ minted' = minted
    BY <2>1, <2>2 DEF DistinctHashes, ChainVerifies, Linked, Forked
  <2>3. ASSUME NEW w \in Writers, WriteEntry(w)
        PROVE  DistinctHashes' /\ (ChainVerifies \/ Forked)'
    <3>1. PICK e \in Lines :
            /\ log' = Append(log, e)
            /\ e.entry /\ e.hash = minted + 1
            /\ \/ e.prev = Genesis /\ e.seq = 0
               \/ \E j \in 1..Len(log) :
                    e.prev = log[j].hash /\ e.seq = log[j].seq + 1
      BY <2>3, WriteFromLog
    <3>2. /\ Len(log) \in Nat /\ Len(log') = Len(log) + 1
          /\ log'[Len(log) + 1] = e
          /\ \A j \in 1..Len(log) : log'[j] = log[j]
      BY <3>1 DEF RootedInv, TypeOK
    <3>3. minted \in Nat /\ minted' = minted + 1
      BY <2>3, MaxEntriesAssumption DEF WriteEntry, Building, RootedInv, TypeOK
    <3>4. DistinctHashes'
      BY <3>1, <3>2, <3>3 DEF DistinctHashes
    <3>5. CASE ChainVerifies
      BY <3>1, <3>4, <3>5, ExtendsOrForks
    <3>6. CASE Forked
      <4>1. PICK i, j \in 1..Len(log) : i < j /\ log[i].prev = log[j].prev
        BY <3>6 DEF Forked
      <4>2. i \in 1..Len(log') /\ j \in 1..Len(log') /\ log'[i].prev = log'[j].prev
        BY <3>2, <4>1
      <4>3. QED
        BY <3>4, <4>1, <4>2 DEF Forked
    <3>7. QED
      BY <3>5, <3>6
  <2>4. QED
    BY <2>1, <2>2, <2>3, RootedInvStep
<1>3. ForkInv => BrokenIffForked
  BY VerifiedIsLinear DEF ForkInv, RootedInv, BrokenIffForked
<1>4. QED
  BY <1>1, <1>2, <1>3, TypeCorrect, PTL DEF Spec
---------------------------------------------------------------------------
\* A write after which every line parses found every line parsing, and added
\* one: a cut line cannot be appended to unseen.
LEMMA ParsesAfterWrite ==
  ASSUME TypeOK, NEW line \in Lines, log' = Appended(line), Parses'
  PROVE  Parses /\ log' = Append(log, line)
<1>1. /\ Len(log) \in Nat
      /\ Len(log') = IF closed THEN Len(log) + 1 ELSE Len(log)
      /\ Len(log') >= 1
      /\ log'[Len(log')] = IF closed THEN line ELSE GarbledLine
      /\ \A i \in 1..(Len(log') - 1) : i <= Len(log) /\ log'[i] = log[i]
  BY AppendedLines
<1>2. closed
  <2>1. log'[Len(log')].entry
    BY <1>1 DEF Parses
  <2>2. QED
    BY <1>1, <2>1 DEF GarbledLine
<1>3. Parses
  BY <1>1, <1>2 DEF Parses
<1>4. QED
  BY <1>2, <1>3 DEF Appended

\* The lines on file before such a write are on file after it.
LEMMA AckedStayReadable ==
  ASSUME TypeOK, AckedReadable, NEW line \in Lines,
         log' = Appended(line), Parses'
  PROVE  /\ \A h \in acked : \E i \in 1..Len(log') : log'[i].hash = h
         /\ \E i \in 1..Len(log') : log'[i] = line
<1>1. Parses /\ log' = Append(log, line)
  BY ParsesAfterWrite
<1>2. /\ log \in Seq(Lines) /\ Len(log) \in Nat /\ Len(log') = Len(log) + 1
      /\ log'[Len(log) + 1] = line
      /\ \A i \in 1..Len(log) : log'[i] = log[i]
  BY <1>1 DEF TypeOK
<1>3. ASSUME NEW h \in acked
      PROVE  \E i \in 1..Len(log') : log'[i].hash = h
  <2>1. PICK i \in 1..Len(log) : log[i].hash = h
    BY <1>1 DEF AckedReadable
  <2>2. QED
    BY <1>2, <2>1
<1>4. QED
  BY <1>2, <1>3

\* While every line parses, an entry whose append returned is on file: for
\* every set of writers, interleaving and fault of the model.
THEOREM AcknowledgedIsReadable == Spec => []AckedReadable
<1>1. Init => AckedReadable
  BY DEF Init, AckedReadable
<1>2. TypeOK /\ AckedReadable /\ [Next]_vars => AckedReadable'
  <2> SUFFICES ASSUME TypeOK, AckedReadable, [Next]_vars, Parses'
               PROVE  \A h \in acked' : \E i \in 1..Len(log') : log'[i].hash = h
    BY DEF AckedReadable
  <2>1. ASSUME NEW w \in Writers,
               ReadHead(w) \/ Refuse(w) \/ ReadFault(w) \/ Abandon(w)
        PROVE  log' = log /\ acked' = acked
    BY <2>1 DEF ReadHead, Refuse, ReadFault, Abandon, GotHead
  <2>2. ASSUME NEW w \in Writers, WriteEntry(w)
        PROVE  \A h \in acked' : \E i \in 1..Len(log') : log'[i].hash = h
    <3>1. PICK big \in Lengths : log' = Appended(NewEntry(w, big))
      BY <2>2 DEF WriteEntry
    <3>2. /\ \A h \in acked : \E i \in 1..Len(log') : log'[i].hash = h
          /\ \E i \in 1..Len(log') : log'[i] = NewEntry(w, big)
      BY <3>1, NewEntryType, AckedStayReadable
    <3>3. \E i \in 1..Len(log') : log'[i].hash = minted + 1
      BY <3>2 DEF NewEntry
    <3>4. QED
      BY <2>2, <3>2, <3>3 DEF WriteEntry
  <2>3. ASSUME NEW w \in Writers, WriteTorn(w) \/ WriteUnterminated(w)
        PROVE  \A h \in acked' : \E i \in 1..Len(log') : log'[i].hash = h
    <3>1. PICK line \in Lines : log' = Appended(line)
      BY <2>3, NewEntryType
         DEF WriteTorn, WriteUnterminated, GarbledLine, Lines, Genesis
    <3>2. acked' = acked
      BY <2>3 DEF WriteTorn, WriteUnterminated
    <3>3. QED
      BY <3>1, <3>2, AckedStayReadable
  <2>4. CASE log' = log /\ acked' = acked
    BY <2>4 DEF AckedReadable, Parses
  <2>5. QED
    BY <2>1, <2>2, <2>3, <2>4 DEF Next, vars
<1>3. QED
  BY <1>1, <1>2, TypeCorrect, PTL DEF Spec

---------------------------------------------------------------------------
\* What an auditor reads from the lines s: verify_chain accepts line i, ...
LinkedIn(s, i) ==
  /\ s[i].entry
  /\ s[i].prev = (IF i = 1 THEN Genesis ELSE s[i-1].hash)
  /\ s[i].seq = i - 1

\* ... its walk accepts the first n lines and stops, ...
WalksTo(s, n) ==
  /\ n \in 0..Len(s)
  /\ \A i \in 1..n : LinkedIn(s, i)
  /\ n < Len(s) => ~LinkedIn(s, n + 1)

WalkOf(s) == CHOOSE n \in 0..Len(s) :
  /\ \A i \in 1..n : LinkedIn(s, i)
  /\ n < Len(s) => ~LinkedIn(s, n + 1)

\* ... and the first n lines carry these hashes.
HashesOf(s, n) == [i \in 1..n |-> s[i].hash]

\* The walk stops at one place only.
LEMMA WalkIs ==
  ASSUME NEW s, Len(s) \in Nat, NEW n, WalksTo(s, n)
  PROVE  WalkOf(s) = n
<1>1. ASSUME NEW m, WalksTo(s, m)
      PROVE  m = n
  <2>1. m \in Nat /\ n \in Nat
    BY <1>1 DEF WalksTo
  <2>2. ~ m < n
    <3>1. m < n => m + 1 \in 1..n /\ m < Len(s)
      BY <2>1 DEF WalksTo
    <3>2. QED
      BY <1>1, <3>1 DEF WalksTo
  <2>3. ~ n < m
    <3>1. n < m => n + 1 \in 1..m /\ n < Len(s)
      BY <1>1, <2>1 DEF WalksTo
    <3>2. QED
      BY <1>1, <3>1 DEF WalksTo
  <2>4. QED
    BY <2>1, <2>2, <2>3
<1>2. WalksTo(s, WalkOf(s))
  BY DEF WalksTo, WalkOf
<1>3. QED
  BY <1>1, <1>2

LEMMA HashesAreSequence ==
  ASSUME NEW s \in Seq(Lines), NEW n \in 0..Len(s)
  PROVE  /\ HashesOf(s, n) \in Seq(Nat)
         /\ Len(HashesOf(s, n)) = n
         /\ \A i \in 1..n : HashesOf(s, n)[i] = s[i].hash
<1>1. n \in Nat /\ Len(s) \in Nat
  OBVIOUS
<1>2. ASSUME NEW i \in 1..n
      PROVE  s[i].hash \in Nat
  <2>1. s[i] \in Lines
    BY <1>1
  <2>2. QED
    BY <2>1 DEF Lines
<1>3. HashesOf(s, n) \in [1..n -> Nat]
  BY <1>2 DEF HashesOf
<1>4. QED
  BY <1>1, <1>3 DEF HashesOf

\* What the auditor's reading becomes when a line is written: nothing moves,
\* or one more line verifies, or the walk now stops short of the end, at the
\* line written or at the unterminated line the write ran into.
LEMMA WalkAfterWrite ==
  ASSUME TypeOK, NEW n, WalksTo(log, n), NEW line \in Lines,
         log' = Appended(line)
  PROVE  \/ /\ n < Len(log) /\ n < Len(log')
            /\ WalksTo(log', n) /\ HashesOf(log', n) = HashesOf(log, n)
         \/ /\ n = Len(log) /\ Len(log') = n + 1
            /\ HashesOf(log', n) = HashesOf(log, n)
            /\ log'[n + 1] = line
            /\ \/ WalksTo(log', n + 1) /\ line.entry
               \/ WalksTo(log', n)
         \/ /\ n = Len(log) /\ n >= 1 /\ Len(log') = n
            /\ WalksTo(log', n - 1)
            /\ HashesOf(log', n - 1) = HashesOf(log, n - 1)
<1>1. /\ Len(log) \in Nat /\ Len(log') \in Nat
      /\ Len(log') = IF closed THEN Len(log) + 1 ELSE Len(log)
      /\ Len(log') >= 1
      /\ log'[Len(log')] = IF closed THEN line ELSE GarbledLine
      /\ \A i \in 1..(Len(log') - 1) : i <= Len(log) /\ log'[i] = log[i]
  <2>1. /\ Appended(line) \in Seq(Lines) /\ Len(log) \in Nat
        /\ Len(Appended(line)) = IF closed THEN Len(log) + 1 ELSE Len(log)
        /\ Len(Appended(line)) >= 1
        /\ Appended(line)[Len(Appended(line))] =
             IF closed THEN line ELSE GarbledLine
        /\ \A i \in 1..(Len(Appended(line)) - 1) :
             i <= Len(log) /\ Appended(line)[i] = log[i]
    BY AppendedLines
  <2>2. QED
    BY <2>1
<1>2. n \in Nat /\ n <= Len(log)
  BY <1>1 DEF WalksTo
<1>3. ASSUME NEW i \in 1..(Len(log') - 1)
      PROVE  LinkedIn(log', i) <=> LinkedIn(log, i)
  <2>1. log'[i] = log[i] /\ (i # 1 => log'[i-1] = log[i-1])
    BY <1>1
  <2>2. QED
    BY <2>1 DEF LinkedIn
<1>4. ASSUME NEW k \in Nat, k <= Len(log') - 1
      PROVE  HashesOf(log', k) = HashesOf(log, k)
  <2>1. \A i \in 1..k : log'[i].hash = log[i].hash
    BY <1>1, <1>4
  <2>2. QED
    BY <2>1 DEF HashesOf
<1>5. ~closed => ~LinkedIn(log', Len(log'))
  BY <1>1 DEF LinkedIn, GarbledLine
<1>6. CASE n < Len(log)
  <2>1. n < Len(log') /\ n <= Len(log') - 1
    BY <1>1, <1>2, <1>6
  <2>2. \A i \in 1..n : LinkedIn(log', i)
    BY <1>1, <1>2, <1>3, <2>1 DEF WalksTo
  <2>3. ~LinkedIn(log', n + 1)
    <3>1. ~LinkedIn(log, n + 1)
      BY <1>6 DEF WalksTo
    <3>2. CASE n + 1 <= Len(log') - 1
      BY <1>1, <1>2, <1>3, <3>1, <3>2
    <3>3. CASE n + 1 = Len(log')
      <4>1. ~closed
        BY <1>1, <1>2, <1>6, <3>3
      <4>2. QED
        BY <1>5, <3>3, <4>1
    <3>4. QED
      BY <1>1, <1>2, <2>1, <3>2, <3>3
  <2>4. WalksTo(log', n)
    BY <1>1, <1>2, <2>1, <2>2, <2>3 DEF WalksTo
  <2>5. QED
    BY <1>2, <1>4, <1>6, <2>1, <2>4
<1>7. CASE n = Len(log) /\ closed
  <2>1. Len(log') = n + 1 /\ log'[n + 1] = line
    BY <1>1, <1>2, <1>7
  <2>2. \A i \in 1..n : LinkedIn(log', i)
    BY <1>1, <1>2, <1>3, <2>1 DEF WalksTo
  <2>3. HashesOf(log', n) = HashesOf(log, n)
    BY <1>1, <1>2, <1>4, <2>1
  <2>4. CASE LinkedIn(log', n + 1)
    <3>1. \A i \in 1..(n + 1) : LinkedIn(log', i)
      BY <1>2, <2>2, <2>4
    <3>2. WalksTo(log', n + 1)
      BY <1>2, <2>1, <3>1 DEF WalksTo
    <3>3. line.entry
      BY <2>1, <2>4 DEF LinkedIn
    <3>4. QED
      BY <1>7, <2>1, <2>3, <3>2, <3>3
  <2>5. CASE ~LinkedIn(log', n + 1)
    <3>1. WalksTo(log', n)
      BY <1>2, <2>1, <2>2, <2>5 DEF WalksTo
    <3>2. QED
      BY <1>7, <2>1, <2>3, <3>1
  <2>6. QED
    BY <2>4, <2>5
<1>8. CASE n = Len(log) /\ ~closed
  <2>1. Len(log') = n /\ n >= 1 /\ n - 1 \in Nat
    BY <1>1, <1>2, <1>8
  <2>2. \A i \in 1..(n - 1) : LinkedIn(log', i)
    BY <1>1, <1>2, <1>3, <2>1 DEF WalksTo
  <2>3. (n - 1) + 1 = n /\ ~LinkedIn(log', n)
    BY <1>2, <1>5, <1>8, <2>1
  <2>4. WalksTo(log', n - 1)
    BY <1>2, <2>1, <2>2, <2>3 DEF WalksTo
  <2>5. HashesOf(log', n - 1) = HashesOf(log, n - 1)
    BY <1>4, <2>1
  <2>6. QED
    BY <1>8, <2>1, <2>4, <2>5
<1>9. QED
  BY <1>1, <1>2, <1>6, <1>7, <1>8

\* No line carries a hash that has not been computed yet.
HashesMinted == \A i \in 1..Len(log) : log[i].hash <= minted

AuditInv == TypeOK /\ HashesMinted /\ WalksTo(log, Verified)

\* The line a step writes is an entry with the next hash, or garbled.
LEMMA StepWrites ==
  ASSUME TypeOK, [Next]_vars
  PROVE  \/ log' = log /\ closed' = closed /\ minted' = minted
         \/ /\ minted' = minted + 1 /\ minted + 1 \in 1..MaxEntries
            /\ \E line \in Lines :
                 /\ log' = Appended(line)
                 /\ line.hash <= minted + 1
                 /\ line.entry => line.hash = minted + 1
<1>1. CASE UNCHANGED vars
  BY <1>1 DEF vars
<1>2. CASE Next
  <2>1. PICK w \in Writers :
          \/ ReadHead(w) \/ Refuse(w) \/ ReadFault(w) \/ WriteEntry(w)
          \/ WriteTorn(w) \/ WriteUnterminated(w) \/ Abandon(w)
    BY <1>2 DEF Next
  <2>2. CASE ReadHead(w) \/ Refuse(w) \/ ReadFault(w) \/ Abandon(w)
    BY <2>2 DEF ReadHead, Refuse, ReadFault, Abandon, GotHead
  <2>3. CASE WriteEntry(w) \/ WriteTorn(w) \/ WriteUnterminated(w)
    <3>1. minted \in Nat
      BY MaxEntriesAssumption DEF TypeOK
    <3>2. minted' = minted + 1 /\ minted + 1 \in 1..MaxEntries
      BY <2>3, <3>1, MaxEntriesAssumption
         DEF WriteEntry, WriteTorn, WriteUnterminated, Building
    <3>3. CASE WriteTorn(w)
      <4>1. log' = Appended(GarbledLine)
        BY <3>3 DEF WriteTorn
      <4>2. /\ GarbledLine \in Lines /\ GarbledLine.hash = 0
            /\ ~GarbledLine.entry
        BY DEF GarbledLine, Lines, Genesis
      <4>3. 0 <= minted + 1
        BY <3>1
      <4>4. QED
        BY <3>2, <4>1, <4>2, <4>3
    <3>4. CASE WriteEntry(w) \/ WriteUnterminated(w)
      <4>1. PICK big \in Lengths : log' = Appended(NewEntry(w, big))
        BY <3>4 DEF WriteEntry, WriteUnterminated
      <4>2. NewEntry(w, big) \in Lines /\ NewEntry(w, big).hash = minted + 1
        BY NewEntryType DEF NewEntry
      <4>3. minted + 1 <= minted + 1
        BY <3>1
      <4>4. QED
        BY <3>2, <4>1, <4>2, <4>3
    <3>5. QED
      BY <2>3, <3>3, <3>4
  <2>4. QED
    BY <2>1, <2>2, <2>3
<1>3. QED
  BY <1>1, <1>2

\* One more verified line, with a hash no verified line has, is an Extend.
LEMMA OneMoreVerified ==
  ASSUME NEW s \in Seq(Lines), NEW t \in Seq(Lines), NEW n \in 0..Len(s),
         Len(t) = n + 1, HashesOf(t, n) = HashesOf(s, n)
  PROVE  HashesOf(t, n + 1) = Append(HashesOf(s, n), t[n + 1].hash)
<1>1. n \in Nat /\ n + 1 \in 0..Len(t) /\ n \in 0..Len(t)
  OBVIOUS
<1>2. /\ HashesOf(t, n + 1) \in Seq(Nat) /\ Len(HashesOf(t, n + 1)) = n + 1
      /\ \A i \in 1..(n + 1) : HashesOf(t, n + 1)[i] = t[i].hash
  BY <1>1, HashesAreSequence
<1>3. /\ HashesOf(t, n) \in Seq(Nat) /\ Len(HashesOf(t, n)) = n
      /\ \A i \in 1..n : HashesOf(t, n)[i] = t[i].hash
  BY <1>1, HashesAreSequence
<1>4. t[n + 1].hash \in Nat
  <2>1. t[n + 1] \in Lines
    BY <1>1
  <2>2. QED
    BY <2>1 DEF Lines
<1>5. PICK a : a = Append(HashesOf(t, n), t[n + 1].hash)
  OBVIOUS
<1>6. /\ a \in Seq(Nat) /\ Len(a) = n + 1
      /\ \A i \in 1..n : a[i] = HashesOf(t, n)[i]
      /\ a[n + 1] = t[n + 1].hash
  BY <1>3, <1>4, <1>5, AppendProperties
<1>7. PICK b : b = HashesOf(t, n + 1)
  OBVIOUS
<1>8. b \in Seq(Nat) /\ Len(a) = Len(b) /\ \A i \in 1..Len(a) : a[i] = b[i]
  BY <1>1, <1>2, <1>3, <1>6, <1>7
<1>9. a = b
  BY <1>6, <1>8, SeqEqual
<1>10. QED
  BY <1>5, <1>7, <1>9

\* The newest verified line lost is the history without its last hash.
LEMMA OneLessVerified ==
  ASSUME NEW s \in Seq(Lines), NEW n \in 1..Len(s)
  PROVE  HashesOf(s, n - 1) = SubSeq(HashesOf(s, n), 1, n - 1)
<1>1. n \in Nat /\ n - 1 \in Nat /\ n \in 0..Len(s) /\ n - 1 \in 0..Len(s)
  OBVIOUS
<1>2. /\ HashesOf(s, n) \in Seq(Nat)
      /\ \A i \in 1..n : HashesOf(s, n)[i] = s[i].hash
      /\ Len(HashesOf(s, n)) = n
  BY <1>1, HashesAreSequence
<1>3. /\ HashesOf(s, n - 1) \in Seq(Nat)
      /\ Len(HashesOf(s, n - 1)) = n - 1
      /\ \A i \in 1..(n - 1) : HashesOf(s, n - 1)[i] = s[i].hash
  BY <1>1, HashesAreSequence
<1>4. PICK h, a, m :
        h = HashesOf(s, n) /\ m = n - 1 /\ a = 1 /\ a \in Int /\ m \in Int
  BY <1>1
<1>5. \A i \in a..m : h[i] \in Nat
  BY <1>1, <1>2, <1>4
<1>6. PICK b : b = SubSeq(h, a, m)
  OBVIOUS
<1>7. /\ b \in Seq(Nat)
      /\ Len(b) = IF a <= m THEN m - a + 1 ELSE 0
      /\ \A i \in 1..(m - a + 1) : b[i] = h[a + i - 1]
  BY <1>4, <1>5, <1>6, SubSeqProperties
<1>8. Len(b) = n - 1 /\ \A i \in 1..(n - 1) : b[i] = s[i].hash
  BY <1>1, <1>2, <1>4, <1>7
<1>9. b = HashesOf(s, n - 1)
  BY <1>3, <1>7, <1>8, SeqEqual
<1>10. QED
  BY <1>4, <1>6, <1>9

\* The walk the refinement is defined by is the walk over the lines of the
\* file, before and after a step.
LEMMA VerifiedIsWalk ==
  /\ Verified = WalkOf(log) /\ Verified' = WalkOf(log')
  /\ [i \in 1..Verified |-> log[i].hash] = HashesOf(log, Verified)
  /\ [i \in 1..Verified' |-> log'[i].hash] = HashesOf(log', Verified')
<1>1. Verified = WalkOf(log) /\ Verified' = WalkOf(log')
  BY DEF Verified, WalkOf, Linked, LinkedIn
<1>2. QED
  BY <1>1 DEF HashesOf

\* The auditor's reading of a file that has been written to is a step of the
\* abstract log.
LEMMA WriteIsIdeal ==
  ASSUME AuditInv, TypeOK', NEW n, n = Verified, NEW line \in Lines,
         log' = Appended(line), minted + 1 \in 1..MaxEntries,
         line.entry => line.hash = minted + 1
  PROVE  /\ WalksTo(log', Verified')
         /\ [Ideal!Next]_<<[i \in 1..Verified |-> log[i].hash],
                           Verified < Len(log)>>
<1> DEFINE hist == [i \in 1..Verified |-> log[i].hash]
           short == Verified < Len(log)
<1>1. /\ log \in Seq(Lines) /\ log' \in Seq(Lines)
      /\ Len(log) \in Nat /\ Len(log') \in Nat
  BY DEF AuditInv, TypeOK
<1>2. WalksTo(log, n) /\ n \in Nat /\ n \in 0..Len(log)
  BY <1>1 DEF AuditInv, WalksTo
<1>3. hist = HashesOf(log, n) /\ hist' = HashesOf(log', Verified')
  BY VerifiedIsWalk
<1>4. Len(HashesOf(log, n)) = n /\ \A i \in 1..n : HashesOf(log, n)[i] = log[i].hash
  BY <1>1, <1>2, HashesAreSequence
<1>5. ASSUME NEW m, WalksTo(log', m)
      PROVE  Verified' = m
  <2>1. WalkOf(log') = m
    BY <1>1, <1>5, WalkIs
  <2>2. QED
    BY <2>1, VerifiedIsWalk
<1>6. CASE /\ n < Len(log) /\ n < Len(log')
           /\ WalksTo(log', n) /\ HashesOf(log', n) = HashesOf(log, n)
  <2>1. Verified' = n
    BY <1>5, <1>6
  <2>2. hist' = hist /\ short' = short
    BY <1>3, <1>6, <2>1
  <2>3. QED
    BY <1>6, <2>1, <2>2
<1>7. CASE /\ n = Len(log) /\ Len(log') = n + 1
           /\ HashesOf(log', n) = HashesOf(log, n)
           /\ log'[n + 1] = line
           /\ WalksTo(log', n + 1) /\ line.entry
  <2>1. Verified' = n + 1
    BY <1>5, <1>7
  <2>2. short = FALSE /\ short' = FALSE
    BY <1>2, <1>7, <2>1
  <2>3. hist' = Append(hist, minted + 1)
    <3>1. HashesOf(log', n + 1) = Append(HashesOf(log, n), log'[n + 1].hash)
      BY <1>1, <1>2, <1>7, OneMoreVerified
    <3>2. log'[n + 1].hash = minted + 1
      BY <1>7
    <3>3. QED
      BY <1>3, <2>1, <3>1, <3>2
  <2>4. \A i \in 1..Len(hist) : hist[i] # minted + 1
    <3>1. \A i \in 1..n : log[i].hash <= minted /\ minted \in Nat
      BY <1>2, <1>7, MaxEntriesAssumption DEF AuditInv, HashesMinted, TypeOK
    <3>2. \A i \in 1..n : log[i].hash # minted + 1
      <4>1. ASSUME NEW i \in 1..n
            PROVE  log[i].hash \in Nat
        <5>1. log[i] \in Lines
          BY <1>1, <1>2
        <5>2. QED
          BY <5>1 DEF Lines
      <4>2. QED
        BY <3>1, <4>1
    <3>3. QED
      BY <1>3, <1>4, <3>2
  <2>5. PICK h \in 1..MaxEntries : h = minted + 1
    OBVIOUS
  <2>6. Ideal!Next
    <3>1. Ideal!Extend(h)
      BY <2>2, <2>3, <2>4, <2>5 DEF Ideal!Extend
    <3>2. QED
      BY <3>1 DEF Ideal!Next
  <2>7. QED
    BY <1>7, <2>1, <2>6
<1>8. CASE /\ n = Len(log) /\ Len(log') = n + 1
           /\ HashesOf(log', n) = HashesOf(log, n)
           /\ WalksTo(log', n)
  <2>1. Verified' = n
    BY <1>5, <1>8
  <2>2. short = FALSE /\ short' = TRUE /\ hist' = hist
    BY <1>2, <1>3, <1>8, <2>1
  <2>3. Ideal!Break
    BY <2>2 DEF Ideal!Break
  <2>4. Ideal!Next
    BY <2>3 DEF Ideal!Next
  <2>5. QED
    BY <1>8, <2>1, <2>4
<1>9. CASE /\ n = Len(log) /\ n >= 1 /\ Len(log') = n
           /\ WalksTo(log', n - 1)
           /\ HashesOf(log', n - 1) = HashesOf(log, n - 1)
  <2>1. Verified' = n - 1
    BY <1>5, <1>9
  <2>2. short = FALSE /\ short' = TRUE
    BY <1>2, <1>9, <2>1
  <2>3. hist' = SubSeq(hist, 1, Len(hist) - 1)
    <3>1. HashesOf(log, n - 1) = SubSeq(HashesOf(log, n), 1, n - 1)
      <4>1. n \in 1..Len(log)
        BY <1>2, <1>9
      <4>2. QED
        BY <1>1, <4>1, OneLessVerified
    <3>2. Len(hist) = n
      BY <1>3, <1>4
    <3>3. hist' = HashesOf(log, n - 1)
      BY <1>3, <1>9, <2>1
    <3>4. QED
      BY <1>3, <3>1, <3>2, <3>3
  <2>4. hist # <<>>
    BY <1>3, <1>4, <1>9
  <2>5. Ideal!Break
    BY <2>2, <2>3, <2>4 DEF Ideal!Break
  <2>6. Ideal!Next
    BY <2>5 DEF Ideal!Next
  <2>7. QED
    BY <1>9, <2>1, <2>6
<1>10. TypeOK
  BY DEF AuditInv
<1>11. QED
  BY <1>2, <1>6, <1>7, <1>8, <1>9, <1>10, WalkAfterWrite

\* Whatever the interleaving and the faults, what verify_chain accepts is a
\* history that only grows, and that never changes again once the file is
\* broken (audit_log.py:126-169): the chain implements TamperEvidentLog.
THEOREM LogIsTamperEvident == Spec => ImplementsTamperEvidentLog
<1>1. Init => AuditInv /\ Ideal!Init
  <2> SUFFICES ASSUME Init
               PROVE  AuditInv /\ Ideal!Init
    OBVIOUS
  <2>1. log = <<>> /\ Len(log) = 0
    BY DEF Init
  <2>2. TypeOK /\ HashesMinted
    BY MaxEntriesAssumption
       DEF Init, TypeOK, HashesMinted, Heads, GenesisHead, Genesis
  <2>3. WalksTo(log, 0)
    BY <2>1 DEF WalksTo
  <2>4. Verified = 0
    <3>1. Len(log) \in Nat
      BY <2>1
    <3>2. WalkOf(log) = 0
      BY <2>3, <3>1, WalkIs
    <3>3. QED
      BY <3>2, VerifiedIsWalk
  <2>5. [i \in 1..Verified |-> log[i].hash] = <<>> /\ ~ Verified < Len(log)
    BY <2>1, <2>4
  <2>6. QED
    BY <2>2, <2>3, <2>4, <2>5 DEF AuditInv, Ideal!Init
<1>2. AuditInv /\ TypeOK' /\ [Next]_vars
        => /\ AuditInv'
           /\ [Ideal!Next]_<<[i \in 1..Verified |-> log[i].hash],
                             Verified < Len(log)>>
  <2> SUFFICES ASSUME AuditInv, TypeOK', [Next]_vars
               PROVE  /\ HashesMinted' /\ WalksTo(log', Verified')
                      /\ [Ideal!Next]_<<[i \in 1..Verified |-> log[i].hash],
                                        Verified < Len(log)>>
    BY DEF AuditInv
  <2>1. TypeOK /\ minted \in Nat
    BY MaxEntriesAssumption DEF AuditInv, TypeOK
  <2>2. CASE log' = log /\ minted' = minted
    <3>1. Verified' = Verified
      BY <2>2, VerifiedIsWalk
    <3>2. QED
      BY <2>2, <3>1 DEF AuditInv, HashesMinted
  <2>3. ASSUME minted' = minted + 1, minted + 1 \in 1..MaxEntries,
               NEW line \in Lines, log' = Appended(line),
               line.hash <= minted + 1, line.entry => line.hash = minted + 1
        PROVE  /\ HashesMinted' /\ WalksTo(log', Verified')
               /\ [Ideal!Next]_<<[i \in 1..Verified |-> log[i].hash],
                                 Verified < Len(log)>>
    <3>1. HashesMinted'
      <4>1. /\ Len(log) \in Nat
            /\ Len(log') = IF closed THEN Len(log) + 1 ELSE Len(log)
            /\ log'[Len(log')] = IF closed THEN line ELSE GarbledLine
            /\ \A i \in 1..(Len(log') - 1) : i <= Len(log) /\ log'[i] = log[i]
        BY <2>1, <2>3, AppendedLines
      <4>2. log'[Len(log')].hash <= minted'
        BY <2>1, <2>3, <4>1 DEF GarbledLine, Genesis
      <4>3. ASSUME NEW i \in 1..(Len(log') - 1)
            PROVE  log'[i].hash <= minted'
        <5>1. i \in 1..Len(log) /\ log'[i] = log[i]
          BY <4>1
        <5>2. log[i] \in Lines /\ log[i].hash <= minted
          BY <2>1, <5>1 DEF AuditInv, HashesMinted, TypeOK
        <5>3. log[i].hash \in Nat
          BY <5>2 DEF Lines
        <5>4. QED
          BY <2>1, <2>3, <5>1, <5>2, <5>3
      <4>4. QED
        BY <4>1, <4>2, <4>3 DEF HashesMinted
    <3>2. QED
      BY <2>3, <3>1, WriteIsIdeal
  <2>4. QED
    BY <2>1, <2>2, <2>3, StepWrites
<1>3. QED
  BY <1>1, <1>2, TypeCorrect, PTL
     DEF Spec, ImplementsTamperEvidentLog, Ideal!Spec
===========================================================================
