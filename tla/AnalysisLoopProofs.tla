------------------------- MODULE AnalysisLoopProofs -------------------------
(***************************************************************************)
(* Theorems about the analysis cycles for any data, findings, schedule and *)
(* faults.                                                                 *)
(***************************************************************************)
EXTENDS AnalysisLoop, DataTheorems

\* What is in the log twice is in it once.
LEMMA FilesType ==
  ASSUME TypeOK, NEW fs \in SUBSET fresh, Written(fs)
  PROVE  (Keys(repeated) \subseteq Keys(escalated))'
<1>1. escalated' = escalated \cup fs /\ repeated' \subseteq repeated \cup fs
  BY DEF Written
<1>2. QED
  BY <1>1 DEF TypeOK, Keys

LEMMA MishapsType ==
  ASSUME TypeOK, NEW fault, Mishap(fault)
  PROVE  mishaps' \in 0..MaxMishaps
<1>1. mishaps \in 0..MaxMishaps /\ MaxMishaps \in Nat
  BY LoopAssumption DEF TypeOK
<1>2. mishaps < MaxMishaps /\ mishaps' = mishaps + 1
  BY DEF Mishap
<1>3. QED
  BY <1>1, <1>2

\* Every variable keeps its type.
THEOREM TypeCorrect == Spec => []TypeOK
<1>1. Init => TypeOK
  BY LoopAssumption, OnFileAssumption DEF Init, TypeOK, Points, Keys
<1>2. TypeOK /\ [Next]_vars => TypeOK'
  <2> SUFFICES ASSUME TypeOK, [Next]_vars PROVE TypeOK'
    OBVIOUS
  <2> USE LoopAssumption
  <2>1. CASE UNCHANGED vars
    BY <2>1 DEF vars, files, feed, cycle, TypeOK, Keys
  <2>2. ASSUME NEW v \in Vendors, NEW a \in Amounts, NEW d \in Dates,
               NEW c \in Categories, Drop(v, a, d, c)
        PROVE  TypeOK'
    <3>1. Len(rows) + 1 \in 1..MaxRows
      BY <2>2 DEF Drop, TypeOK
    <3>2. [vendor |-> v, amount |-> a, date |-> d, category |-> c,
           number |-> Len(rows) + 1] \in Rows
      BY <3>1 DEF Rows
    <3>3. rows' \in Seq(Rows)
      BY <2>2, <3>2 DEF Drop, TypeOK
    <3>4. QED
      BY <2>2, <3>3 DEF Drop, feed, cycle, TypeOK, Keys
  <2>3. CASE Post
    <3>1. bank \in Nat /\ bank' = bank + 1 /\ bank' \in 0..MaxBank
      BY <2>3 DEF Post, TypeOK
    <3>2. 0..bank \subseteq 0..bank' /\ 1..bank \subseteq 1..bank'
      BY <3>1
    <3>3. cursor' \in 0..bank' /\ newCursor' \in 0..bank' /\ fetched' \subseteq 1..bank'
      BY <2>3, <3>2 DEF Post, cycle, TypeOK
    <3>4. QED
      BY <2>3, <3>1, <3>3 DEF Post, files, cycle, TypeOK, Keys
  <2>4. ASSUME NEW m \in Modes, Start(m)
        PROVE  TypeOK'
    BY <2>4 DEF Start, files, feed, TypeOK, Points, Keys
  <2>5. CASE Fetch \/ FetchUnread
    <3>1. PICK from \in {0, cursor} : Pages(from)
      BY <2>5 DEF Fetch, FetchUnread
    <3>2. PICK last \in from..bank :
            newCursor' = last /\ fetched' = fetched \cup (from + 1)..last
      BY <3>1 DEF Pages
    <3>3. from \in Nat /\ bank \in Nat /\ last \in 0..bank
      BY <3>2 DEF TypeOK
    <3>4. (from + 1)..last \subseteq 1..bank
      BY <3>3
    <3>5. newCursor' \in 0..bank' /\ fetched' \subseteq 1..bank'
      BY <3>1, <3>2, <3>3, <3>4 DEF Pages, TypeOK
    <3>6. mishaps' \in 0..MaxMishaps
      BY <2>5, MishapsType DEF Fetch, FetchUnread, TypeOK
    <3>7. QED
      BY <3>1, <3>5, <3>6 DEF Pages, files, TypeOK, Points, Keys
  <2>6. CASE SaveCursor
    BY <2>6 DEF SaveCursor, files, TypeOK, Points, Keys
  <2>7. CASE Analyse \/ AnalyseUnread
    <3>1. PICK last : Compared(last)
      BY <2>7 DEF Analyse, AnalyseUnread
    <3>2. mishaps' \in 0..MaxMishaps
      BY <2>7, MishapsType DEF Analyse, AnalyseUnread, TypeOK
    <3>3. QED
      BY <3>1, <3>2 DEF Compared, _diff_findings, files, feed, TypeOK, Points, Keys
  <2>8. CASE Escalate \/ EscalateFails
    <3>1. \E fs \in SUBSET fresh : Written(fs)
      BY <2>8 DEF Escalate, EscalateFails
    <3>2. (Keys(repeated) \subseteq Keys(escalated))'
      BY <3>1, FilesType
    <3>3. mishaps' \in 0..MaxMishaps
      BY <2>8, MishapsType DEF Escalate, EscalateFails, TypeOK
    <3>4. QED
      BY <2>8, <3>2, <3>3 DEF Escalate, EscalateFails, feed, TypeOK, Points
  <2>9. CASE Save
    BY <2>9 DEF Save, feed, TypeOK, Points, Keys
  <2>10. CASE FetchFails \/ SaveFails
    <3>1. mishaps' \in 0..MaxMishaps /\ pc' \in Points
      BY <2>10, MishapsType DEF FetchFails, SaveFails, Points
    <3>2. QED
      BY <2>10, <3>1 DEF FetchFails, SaveFails, files, feed, TypeOK, Keys
  <2>11. CASE Crash
    <3>1. (Keys(repeated) \subseteq Keys(escalated))'
      <4>1. CASE \E fs \in SUBSET fresh : Written(fs)
        BY <4>1, FilesType
      <4>2. CASE UNCHANGED <<escalated, repeated>>
        BY <4>2 DEF TypeOK, Keys
      <4>3. QED
        BY <2>11, <4>1, <4>2 DEF Crash
    <3>2. mishaps' \in 0..MaxMishaps
      BY <2>11, MishapsType DEF Crash
    <3>3. QED
      BY <2>11, <3>1, <3>2 DEF Crash, feed, TypeOK, Points
  <2>12. QED
    BY <2>1, <2>2, <2>3, <2>4, <2>5, <2>6, <2>7, <2>8, <2>9, <2>10, <2>11
       DEF Next, Run
<1>3. QED
  BY <1>1, <1>2, PTL DEF Spec

---------------------------------------------------------------------------
\* The findings of the running cycle are known or new until they are in the
\* log, and in the log before the map is saved.
EscalatedFirst ==
  /\ known \subseteq Keys(escalated) \cup unlogged
  /\ pc = "escalate" => Keys(current) \subseteq known \cup Keys(fresh)
  /\ pc = "save" => Keys(current) \subseteq Keys(escalated) \cup unlogged

\* Whatever process dies at whatever point and whatever fails to be saved, each
\* key in findings.json has a line in escalations.jsonl, or its line is one that
\* could not be written.
THEOREM KnownFindingsAreLogged == Spec => []KnownWereEscalated
<1>1. Init => EscalatedFirst
  BY DEF Init, EscalatedFirst
<1>2. EscalatedFirst /\ [Next]_vars => EscalatedFirst'
  <2> SUFFICES ASSUME EscalatedFirst, [Next]_vars PROVE EscalatedFirst'
    OBVIOUS
  <2>1. CASE UNCHANGED vars
    BY <2>1 DEF vars, files, cycle, EscalatedFirst, Keys
  <2>2. ASSUME NEW v \in Vendors, NEW a \in Amounts, NEW d \in Dates,
               NEW c \in Categories, Drop(v, a, d, c)
        PROVE  EscalatedFirst'
    BY <2>2 DEF Drop, cycle, EscalatedFirst, Keys
  <2>3. CASE Post
    BY <2>3 DEF Post, files, cycle, EscalatedFirst, Keys
  <2>4. CASE (\E m \in Modes : Start(m)) \/ Fetch \/ FetchUnread \/ SaveCursor \/ FetchFails
    BY <2>4 DEF Start, Fetch, FetchUnread, Pages, SaveCursor, FetchFails, files,
       EscalatedFirst, Keys
  <2>5. CASE SaveFails
    BY <2>5 DEF SaveFails, files, EscalatedFirst, Keys
  <2>6. CASE Analyse \/ AnalyseUnread
    <3>1. PICK last \in {known, {}} : Compared(last)
      BY <2>6 DEF Analyse, AnalyseUnread
    <3>2. Keys(current') \subseteq known \cup Keys(fresh')
      BY <3>1 DEF Compared, _diff_findings, Keys
    <3>3. QED
      BY <3>1, <3>2 DEF Compared, files, EscalatedFirst, Keys
  <2>7. CASE Escalate
    <3>1. Keys(escalated') = Keys(escalated) \cup Keys(fresh)
      BY <2>7 DEF Escalate, Written, Keys
    <3>2. QED
      BY <2>7, <3>1 DEF Escalate, EscalatedFirst, Keys
  <2>8. CASE EscalateFails
    <3>1. PICK fs \in SUBSET fresh :
            Written(fs) /\ unlogged' = unlogged \cup Keys(fresh \ fs)
      BY <2>8 DEF EscalateFails
    <3>2. Keys(escalated') \cup unlogged'
            = Keys(escalated) \cup unlogged \cup Keys(fresh)
      BY <3>1 DEF Written, Keys
    <3>3. QED
      BY <2>8, <3>2 DEF EscalateFails, EscalatedFirst, Keys
  <2>9. CASE Save
    BY <2>9 DEF Save, EscalatedFirst, Keys
  <2>10. CASE Crash
    <3>1. Keys(escalated) \subseteq Keys(escalated')
      BY <2>10 DEF Crash, Written, Keys
    <3>2. QED
      BY <2>10, <3>1 DEF Crash, EscalatedFirst
  <2>11. QED
    BY <2>1, <2>2, <2>3, <2>4, <2>5, <2>6, <2>7, <2>8, <2>9, <2>10 DEF Next, Run
<1>3. EscalatedFirst => KnownWereEscalated
  BY DEF EscalatedFirst, KnownWereEscalated
<1>4. QED
  BY <1>1, <1>2, <1>3, PTL DEF Spec

---------------------------------------------------------------------------
\* The cursor on disk, and the one a cycle is about to save, end at bank
\* transactions that a fetch returned.
CursorInv ==
  /\ CursorCovered
  /\ pc = "save cursor" => 1..newCursor \subseteq fetched

\* A cursor never passes a transaction that no cycle was fetched, whatever
\* page fails or process dies.
THEOREM CursorFollows == Spec => []CursorCovered
<1>1. Init => CursorInv
  BY DEF Init, CursorInv, CursorCovered
<1>2. CursorInv /\ TypeOK /\ [Next]_vars => CursorInv'
  <2> SUFFICES ASSUME CursorInv, TypeOK, [Next]_vars PROVE CursorInv'
    OBVIOUS
  <2>1. CASE Fetch \/ FetchUnread
    <3>1. PICK from \in {0, cursor} : Pages(from)
      BY <2>1 DEF Fetch, FetchUnread
    <3>2. PICK last \in from..bank :
            newCursor' = last /\ fetched' = fetched \cup (from + 1)..last
      BY <3>1 DEF Pages
    <3>3. from \in Nat /\ bank \in Nat /\ last \in Nat
      <4>1. from \in Nat /\ bank \in Nat
        BY DEF TypeOK
      <4>2. QED
        BY <3>2, <4>1
    <3>4. 1..last \subseteq (1..from) \cup (from + 1)..last
      BY <3>3
    <3>5. 1..from \subseteq fetched
      <4>1. CASE from = 0
        <5>1. 1..from = {}
          BY <4>1
        <5>2. QED
          BY <5>1
      <4>2. CASE from = cursor
        BY <4>2 DEF CursorInv, CursorCovered
      <4>3. QED
        BY <4>1, <4>2
    <3>6. QED
      BY <3>1, <3>2, <3>4, <3>5 DEF Pages, CursorInv, CursorCovered
  <2>2. CASE SaveCursor
    BY <2>2 DEF SaveCursor, CursorInv, CursorCovered
  <2>3. CASE UNCHANGED <<cursor, fetched, newCursor>> /\ (pc' = "save cursor" => pc' = pc)
    BY <2>3 DEF CursorInv, CursorCovered
  <2>4. QED
    BY <2>1, <2>2, <2>3 DEF Next, Run, vars, feed, cycle, Drop, Post, Start, FetchFails,
       SaveFails, Analyse, AnalyseUnread, Compared, Escalate, EscalateFails, Save, Crash
<1>3. CursorInv => CursorCovered
  BY DEF CursorInv
<1>4. QED
  BY <1>1, <1>2, <1>3, TypeCorrect, PTL DEF Spec

---------------------------------------------------------------------------
\* What the findings say of spikes.  A cycle looks at the entries of one
\* period; a row that comes last in time is added behind them or opens a
\* period of its own.
Entries(s) == {s[i] : i \in DOMAIN s}

LEMMA AppendedEntry ==
  ASSUME NEW S, NEW s \in Seq(S), NEW e \in S
  PROVE  /\ Append(s, e) \in Seq(S) /\ Len(s) \in Nat
         /\ DOMAIN s = 1..Len(s) /\ DOMAIN Append(s, e) = 1..(Len(s) + 1)
         /\ Append(s, e)[Len(s) + 1] = e
         /\ \A i \in DOMAIN s : Append(s, e)[i] = s[i] /\ s[i] \in S
OBVIOUS

LEMMA EntriesType ==
  ASSUME NEW S, NEW s \in Seq(S)
  PROVE  s \in Seq(Entries(s)) /\ Entries(s) \subseteq S
<1>1. PICK n \in Nat : n = Len(s) /\ DOMAIN s = 1..n
  OBVIOUS
<1>2. \A i \in 1..n : s[i] \in S /\ s[i] \in Entries(s)
  BY <1>1 DEF Entries
<1>3. QED
  BY <1>1, <1>2 DEF Entries

LEMMA DedupType ==
  ASSUME NEW S, NEW s \in Seq(S)
  PROVE  _dedup(s) \in Seq(Entries(s))
<1> DEFINE I == {i \in DOMAIN s : \A j \in 1..i-1 : ~SameTransaction(s[i], s[j])}
<1>1. _dedup(s) = Picked(s, I)
  BY DEF _dedup
<1>2. \A i \in DOMAIN s : i \in I => s[i] \in Entries(s)
  BY DEF Entries
<1> HIDE DEF I
<1>3. QED
  BY <1>1, <1>2, PickedType

LEMMA DedupAppend ==
  ASSUME NEW S, NEW s \in Seq(S), NEW e \in S
  PROVE  _dedup(Append(s, e)) \in {_dedup(s), Append(_dedup(s), e)}
<1> DEFINE First(q) == {i \in DOMAIN q : \A j \in 1..i-1 : ~SameTransaction(q[i], q[j])}
<1>1. PICK t : t = Append(s, e)
  OBVIOUS
<1>2. PICK n \in Nat : n = Len(s) /\ DOMAIN s = 1..n /\ DOMAIN t = 1..(n + 1)
  BY <1>1, AppendedEntry
<1>3. \A i \in DOMAIN s : t[i] = s[i]
  BY <1>1, AppendedEntry
<1>4. ASSUME NEW i \in DOMAIN s PROVE i \in First(s) <=> i \in First(t)
  <2>1. i \in DOMAIN t /\ \A j \in 1..i-1 : j \in DOMAIN s
    BY <1>2
  <2>2. \A j \in 1..i-1 : t[i] = s[i] /\ t[j] = s[j]
    BY <1>3, <2>1
  <2>3. QED
    BY <2>1, <2>2
<1>5. _dedup(s) = Picked(s, First(s)) /\ _dedup(t) = Picked(t, First(t))
  BY DEF _dedup
<1> HIDE DEF First
<1>6. Picked(t, First(t)) = IF Len(s) + 1 \in First(t) THEN Append(Picked(s, First(s)), e)
                            ELSE Picked(s, First(s))
  BY <1>1, <1>4, PickedAppend
<1>7. QED
  BY <1>1, <1>5, <1>6

DatesOf(s) == [i \in DOMAIN s |-> s[i].date]

LEMMA ByDateType ==
  ASSUME NEW S, NEW s \in Seq(S), \A x \in S : x.date \in Int
  PROVE  ByDate(s) \in Seq(S) /\ Len(ByDate(s)) = Len(s)
<1>1. PICK n \in Nat : n = Len(s) /\ DOMAIN s = 1..n
  OBVIOUS
<1>2. PICK key, I, order : key = DatesOf(s) /\ I = DOMAIN s /\ order = SortedPlaces(key, I)
  OBVIOUS
<1>3. I \in SUBSET Nat /\ IsFiniteSet(I) /\ Cardinality(I) = n
  <2>1. PICK a \in Int, b \in Int : a = 1 /\ b = n
    OBVIOUS
  <2>2. IsFiniteSet(a..b) /\ Cardinality(a..b) = IF a > b THEN 0 ELSE b - a + 1
    BY FS_Interval
  <2>3. QED
    BY <1>1, <1>2, <2>1, <2>2
<1>4. \A i \in I : key[i] \in Int
  BY <1>1, <1>2 DEF DatesOf
<1>5. order \in [1..n -> I]
  BY <1>2, <1>3, <1>4, SortedPlace
<1>6. ByDate(s) = [k \in 1..n |-> s[order[k]]]
  BY <1>1, <1>2 DEF ByDate, DatesOf
<1>7. \A k \in 1..n : s[order[k]] \in S
  BY <1>1, <1>2, <1>5
<1>8. ByDate(s) \in [1..n -> S]
  BY <1>6, <1>7
<1>9. QED
  BY <1>1, <1>8

LEMMA ByDateAppend ==
  ASSUME NEW S, NEW s \in Seq(S), NEW e \in S, \A x \in S : x.date \in Int,
         \A i \in DOMAIN s : s[i].date <= e.date
  PROVE  ByDate(Append(s, e)) = Append(ByDate(s), e)
<1>1. PICK t : t = Append(s, e)
  OBVIOUS
<1>2. PICK n \in Nat : n = Len(s) /\ DOMAIN s = 1..n
  OBVIOUS
<1>3. /\ t \in Seq(S) /\ Len(t) = n + 1 /\ DOMAIN t = 1..(n + 1) /\ t[n + 1] = e
      /\ \A i \in 1..n : t[i] = s[i]
  BY <1>1, <1>2
<1>4. PICK I, m, key, other : /\ I = 1..n /\ m = n + 1
                              /\ key = DatesOf(s) /\ other = DatesOf(t)
  OBVIOUS
<1>5. I \in SUBSET Nat /\ IsFiniteSet(I) /\ Cardinality(I) = n /\ m \in Nat
  <2>1. PICK a \in Int, b \in Int : a = 1 /\ b = n
    OBVIOUS
  <2>2. IsFiniteSet(a..b) /\ Cardinality(a..b) = IF a > b THEN 0 ELSE b - a + 1
    BY FS_Interval
  <2>3. QED
    BY <1>4, <2>1, <2>2
<1>6. /\ other[m] \in Int /\ other[m] = e.date
      /\ \A i \in I : key[i] \in Int /\ other[i] = key[i] /\ i < m /\ key[i] <= other[m]
  <2>1. m \in DOMAIN t /\ t[m] = e
    BY <1>3, <1>4
  <2>2. other[m] = e.date /\ e.date \in Int
    BY <1>4, <2>1 DEF DatesOf
  <2>3. ASSUME NEW i \in I
        PROVE  key[i] \in Int /\ other[i] = key[i] /\ i < m /\ key[i] <= other[m]
    <3>1. i \in DOMAIN s /\ i \in DOMAIN t /\ t[i] = s[i] /\ s[i] \in S /\ i < m
      BY <1>2, <1>3, <1>4
    <3>2. key[i] = s[i].date /\ other[i] = s[i].date
      BY <1>4, <3>1 DEF DatesOf
    <3>3. QED
      BY <2>2, <3>1, <3>2
  <2>4. QED
    BY <2>2, <2>3
<1>7. ComesLast(I, m, key, other)
  BY SortLast
<1>8. /\ \A k \in 1..n : SortedPlaces(other, I \cup {m})[k] = SortedPlaces(key, I)[k]
      /\ SortedPlaces(other, I \cup {m})[n + 1] = m
  BY <1>5, <1>6, <1>7 DEF ComesLast
<1>9. I \cup {m} = DOMAIN t /\ I = DOMAIN s
  BY <1>2, <1>3, <1>4
<1>10. PICK p, q : p = SortedPlaces(key, DOMAIN s) /\ q = SortedPlaces(other, DOMAIN t)
  OBVIOUS
<1>11. ByDate(s) = [k \in 1..n |-> s[p[k]]] /\ ByDate(t) = [k \in 1..(n + 1) |-> t[q[k]]]
  BY <1>2, <1>3, <1>4, <1>10 DEF ByDate, DatesOf
<1>12. \A k \in 1..n : p[k] \in 1..n
  <2>1. SortedPlaces(key, I) \in [1..n -> I]
    BY <1>5, <1>6, SortedPlace
  <2>2. QED
    BY <1>4, <1>9, <1>10, <2>1
<1>13. \A k \in 1..n : ByDate(t)[k] = ByDate(s)[k]
  <2>1. ASSUME NEW k \in 1..n PROVE ByDate(t)[k] = ByDate(s)[k]
    <3>1. k \in 1..(n + 1) /\ q[k] = p[k] /\ p[k] \in 1..n
      BY <1>8, <1>9, <1>10, <1>12
    <3>2. t[q[k]] = s[p[k]]
      BY <1>3, <3>1
    <3>3. QED
      BY <1>11, <3>1, <3>2
  <2>2. QED
    BY <2>1
<1>14. ByDate(t)[n + 1] = e
  <2>1. n + 1 \in 1..(n + 1) /\ q[n + 1] = n + 1
    BY <1>4, <1>8, <1>9, <1>10
  <2>2. QED
    BY <1>3, <1>11, <2>1
<1>15. PICK a, b, c : a = ByDate(t) /\ b = ByDate(s) /\ c = Append(b, e)
  OBVIOUS
<1>16. a \in Seq(S) /\ Len(a) = n + 1 /\ b \in Seq(S) /\ Len(b) = n
  BY <1>2, <1>3, <1>15, ByDateType
<1>17. c \in Seq(S) /\ Len(c) = n + 1 /\ c[n + 1] = e /\ \A k \in 1..n : c[k] = b[k]
  BY <1>15, <1>16
<1>18. \A k \in 1..(n + 1) : a[k] = c[k]
  BY <1>13, <1>14, <1>15, <1>17
<1>19. a = c
  BY <1>16, <1>17, <1>18
<1>20. QED
  BY <1>1, <1>15, <1>19

\* What a cycle analyses of the rows rs.
PeriodOf(m, rs) ==
  IF m = "weekly" THEN Newest(load_transactions(rs)) ELSE load_transactions(rs)

LEMMA LoadAppend ==
  ASSUME NEW S, NEW s \in Seq(S), NEW e \in S, \A x \in S : x.date \in Int,
         \A i \in DOMAIN s : s[i].date <= e.date
  PROVE  /\ load_transactions(s) \in Seq(Entries(s))
         /\ \/ load_transactions(Append(s, e)) = load_transactions(s)
            \/ load_transactions(Append(s, e)) = Append(load_transactions(s), e)
<1>1. PICK R : R = Entries(s)
  OBVIOUS
<1>2. R \subseteq S /\ \A x \in R : x.date \in Int /\ x.date <= e.date
  BY <1>1, EntriesType DEF Entries
<1>3. PICK d : d = _dedup(s)
  OBVIOUS
<1>4. d \in Seq(R) /\ _dedup(Append(s, e)) \in {d, Append(d, e)}
  BY <1>1, <1>3, DedupType, DedupAppend
<1>5. ByDate(d) \in Seq(R)
  BY <1>2, <1>4, ByDateType
<1>6. ByDate(Append(d, e)) = Append(ByDate(d), e)
  <2>1. \A i \in DOMAIN d : d[i] \in R
    BY <1>4
  <2>2. \A i \in DOMAIN d : d[i].date <= e.date
    BY <1>2, <2>1
  <2>3. d \in Seq(S)
    BY <1>2, <1>4
  <2>4. QED
    BY <2>2, <2>3, ByDateAppend
<1>7. QED
  BY <1>1, <1>3, <1>4, <1>5, <1>6 DEF load_transactions

LEMMA MonthsGrow == \A d, e \in Int : d <= e => Month(d) <= Month(e) /\ Month(d) \in Int
BY DEF Month

LEMMA NewestType ==
  ASSUME NEW S, NEW s \in Seq(S)
  PROVE  Newest(s) \in Seq(S)
<1> DEFINE Latest == {i \in DOMAIN s : \A j \in DOMAIN s : Month(s[j].date) <= Month(s[i].date)}
<1>1. Newest(s) = Picked(s, Latest)
  BY DEF Newest
<1>2. \A i \in DOMAIN s : i \in Latest => s[i] \in S
  OBVIOUS
<1> HIDE DEF Latest
<1>3. QED
  BY <1>1, <1>2, PickedType

LEMMA NewestAppend ==
  ASSUME NEW S, NEW s \in Seq(S), NEW e \in S, \A x \in S : x.date \in Int,
         \A i \in DOMAIN s : s[i].date <= e.date
  PROVE  Newest(Append(s, e)) \in {Append(Newest(s), e), <<e>>}
<1> DEFINE Latest(q) == {i \in DOMAIN q :
                         \A j \in DOMAIN q : Month(q[j].date) <= Month(q[i].date)}
<1>1. PICK t : t = Append(s, e)
  OBVIOUS
<1>2. PICK n \in Nat : n = Len(s) /\ DOMAIN s = 1..n /\ DOMAIN t = 1..(n + 1)
  BY <1>1, AppendedEntry
<1>3. t[n + 1] = e /\ \A i \in DOMAIN s : t[i] = s[i] /\ s[i] \in S
  BY <1>1, <1>2, AppendedEntry
<1>4. PICK top \in Int : top = Month(e.date)
  BY MonthsGrow
<1>5. \A i \in DOMAIN s : Month(s[i].date) <= top /\ Month(s[i].date) \in Int
  BY <1>3, <1>4, MonthsGrow
<1>6. ASSUME NEW i \in DOMAIN t
      PROVE  i \in Latest(t) <=> Month(t[i].date) = top
  <2>1. \A j \in DOMAIN t : Month(t[j].date) <= top /\ Month(t[j].date) \in Int
    BY <1>2, <1>3, <1>4, <1>5
  <2>2. n + 1 \in DOMAIN t /\ Month(t[n + 1].date) = top
    BY <1>2, <1>3, <1>4
  <2>3. QED
    BY <2>1, <2>2
<1>7. n + 1 \in Latest(t)
  BY <1>2, <1>3, <1>4, <1>6
<1>8. Newest(s) = Picked(s, Latest(s)) /\ Newest(t) = Picked(t, Latest(t))
  BY DEF Newest
<1>9. CASE \E i \in DOMAIN s : Month(s[i].date) = top
  <2>1. \A i \in DOMAIN s : i \in Latest(s) <=> Month(s[i].date) = top
    BY <1>5, <1>9
  <2>2. \A i \in DOMAIN s : i \in Latest(s) <=> i \in Latest(t)
    <3>1. ASSUME NEW i \in DOMAIN s PROVE i \in Latest(s) <=> i \in Latest(t)
      <4>1. i \in DOMAIN t /\ t[i] = s[i]
        BY <1>2, <1>3
      <4>2. QED
        BY <1>6, <2>1, <4>1
    <3>2. QED
      BY <3>1
  <2> HIDE DEF Latest
  <2>3. Picked(t, Latest(t)) = Append(Picked(s, Latest(s)), e)
    BY <1>1, <1>2, <1>7, <2>2, PickedAppend
  <2>4. QED
    BY <1>1, <1>8, <2>3
<1>10. CASE \A i \in DOMAIN s : Month(s[i].date) # top
  <2>1. \A i \in DOMAIN s : i \notin Latest(t)
    <3>1. ASSUME NEW i \in DOMAIN s PROVE i \notin Latest(t)
      <4>1. i \in DOMAIN t /\ t[i] = s[i]
        BY <1>2, <1>3
      <4>2. QED
        BY <1>6, <1>10, <4>1
    <3>2. QED
      BY <3>1
  <2> HIDE DEF Latest
  <2>2. \A i \in DOMAIN s : i \in {} <=> i \in Latest(t)
    BY <2>1
  <2>3. Picked(t, Latest(t)) = Append(Picked(s, {}), e)
    BY <1>1, <1>2, <1>7, <2>2, PickedAppend
  <2>4. Picked(s, {}) = <<>>
    BY PickedNone
  <2>5. Append(<<>>, e) = <<e>>
    OBVIOUS
  <2>6. QED
    BY <1>1, <1>8, <2>3, <2>4, <2>5
<1>11. QED
  BY <1>9, <1>10

LEMMA PeriodAppend ==
  ASSUME NEW S, NEW s \in Seq(S), NEW e \in S, \A x \in S : x.date \in Int,
         \A i \in DOMAIN s : s[i].date <= e.date, NEW m
  PROVE  /\ PeriodOf(m, s) \in Seq(Entries(s))
         /\ PeriodOf(m, Append(s, e)) \in {PeriodOf(m, s), Append(PeriodOf(m, s), e), <<e>>}
<1>1. PICK R : R = Entries(s)
  OBVIOUS
<1>2. R \subseteq S /\ \A x \in R : x.date \in Int /\ x.date <= e.date
  BY <1>1, EntriesType DEF Entries
<1>3. PICK d : d = load_transactions(s)
  OBVIOUS
<1>4. d \in Seq(R) /\ load_transactions(Append(s, e)) \in {d, Append(d, e)}
  BY <1>1, <1>3, LoadAppend
<1>5. Newest(d) \in Seq(R)
  BY <1>4, NewestType
<1>6. Newest(Append(d, e)) \in {Append(Newest(d), e), <<e>>}
  <2>1. \A i \in DOMAIN d : d[i] \in R
    BY <1>4
  <2>2. \A i \in DOMAIN d : d[i].date <= e.date
    BY <1>2, <2>1
  <2>3. d \in Seq(S)
    BY <1>2, <1>4
  <2>4. QED
    BY <2>2, <2>3, NewestAppend
<1>7. QED
  BY <1>1, <1>3, <1>4, <1>5, <1>6 DEF PeriodOf

LEMMA PeriodType ==
  ASSUME NEW S, NEW s \in Seq(S), \A x \in S : x.date \in Int, NEW m
  PROVE  PeriodOf(m, s) \in Seq(Entries(s))
<1>1. PICK R, d : R = Entries(s) /\ d = _dedup(s)
  OBVIOUS
<1>2. d \in Seq(R) /\ \A x \in R : x.date \in Int
  BY <1>1, DedupType, EntriesType
<1>3. ByDate(d) \in Seq(R)
  BY <1>2, ByDateType
<1>4. Newest(ByDate(d)) \in Seq(R)
  BY <1>3, NewestType
<1>5. QED
  BY <1>1, <1>3, <1>4 DEF PeriodOf, load_transactions

\* The entries of a vendor grow with the entries.
LEMMA OfVendorType ==
  ASSUME NEW S, NEW s \in Seq(S), NEW v
  PROVE  OfVendor(s, v) \in Seq({x \in Entries(s) : x.vendor = v})
<1> DEFINE I == {i \in DOMAIN s : s[i].vendor = v}
           R == {x \in Entries(s) : x.vendor = v}
<1>1. OfVendor(s, v) = Picked(s, I)
  BY DEF OfVendor
<1>2. \A i \in DOMAIN s : i \in I => s[i] \in R
  BY DEF Entries
<1> HIDE DEF I, R
<1>3. Picked(s, I) \in Seq(R)
  BY <1>2, PickedType
<1> USE DEF R
<1>4. QED
  BY <1>1, <1>3

LEMMA OfVendorAppend ==
  ASSUME NEW S, NEW s \in Seq(S), NEW e \in S, NEW v
  PROVE  OfVendor(Append(s, e), v) \in {OfVendor(s, v), Append(OfVendor(s, v), e)}
<1> DEFINE Of(q) == {i \in DOMAIN q : q[i].vendor = v}
<1>1. PICK t : t = Append(s, e)
  OBVIOUS
<1>2. PICK n \in Nat : n = Len(s) /\ DOMAIN s = 1..n /\ DOMAIN t = 1..(n + 1)
  BY <1>1, AppendedEntry
<1>3. \A i \in DOMAIN s : t[i] = s[i]
  BY <1>1, AppendedEntry
<1>4. \A i \in DOMAIN s : i \in Of(s) <=> i \in Of(t)
  BY <1>2, <1>3
<1>5. OfVendor(s, v) = Picked(s, Of(s)) /\ OfVendor(t, v) = Picked(t, Of(t))
  BY DEF OfVendor
<1> HIDE DEF Of
<1>6. Picked(t, Of(t)) = IF Len(s) + 1 \in Of(t) THEN Append(Picked(s, Of(s)), e)
                         ELSE Picked(s, Of(s))
  BY <1>1, <1>4, PickedAppend
<1>7. QED
  BY <1>1, <1>5, <1>6

\* The numbers of the vendor's entries that are flagged.
SpikePlaces(txns, v) ==
  {OfVendor(txns, v)[i].number : i \in Flagged(OfVendor(txns, v))}

\* An entry is flagged against those before it: later ones change nothing.
Begins(s, t) ==
  \E n \in Nat : DOMAIN s = 1..n /\ 1..n \subseteq DOMAIN t /\ \A j \in 1..n : t[j] = s[j]

SameFlags(s, t) == \A i \in Flagged(s) : i \in Flagged(t) /\ t[i] = s[i]

LEMMA FlaggedStays == \A s, t : Begins(s, t) => SameFlags(s, t)
<1> SUFFICES ASSUME NEW s, NEW t, Begins(s, t), NEW i \in Flagged(s)
             PROVE  i \in Flagged(t) /\ t[i] = s[i]
  BY DEF SameFlags
<1>1. PICK n \in Nat : DOMAIN s = 1..n /\ 1..n \subseteq DOMAIN t /\ \A j \in 1..n : t[j] = s[j]
  BY DEF Begins
<1>2. i \in 1..n /\ i \in DOMAIN t /\ IsAnomaly(s[i].amount, Prior(s, i))
  BY <1>1 DEF Flagged
<1>3. \A j \in 1..i-1 : t[j] = s[j]
  BY <1>1, <1>2
<1>4. t[i] = s[i]
  BY <1>1, <1>2
<1>5. Prior(t, i) = Prior(s, i)
  BY <1>3 DEF Prior
<1>6. QED
  BY <1>2, <1>4, <1>5 DEF Flagged

LEMMA SpikesStay ==
  ASSUME NEW S, NEW s \in Seq(S), NEW e \in S, NEW v
  PROVE  SpikePlaces(s, v) \subseteq SpikePlaces(Append(s, e), v)
<1>1. PICK a, b : a = OfVendor(s, v) /\ b = OfVendor(Append(s, e), v)
  OBVIOUS
<1>2. a \in Seq(S)
  <2>1. {x \in Entries(s) : x.vendor = v} \subseteq S
    BY EntriesType
  <2>2. a \in Seq({x \in Entries(s) : x.vendor = v})
    BY <1>1, OfVendorType
  <2>3. QED
    BY <2>1, <2>2
<1>3. b \in {a, Append(a, e)}
  BY <1>1, OfVendorAppend
<1>4. SameFlags(a, b)
  <2>1. PICK n \in Nat : n = Len(a) /\ DOMAIN a = 1..n /\ DOMAIN Append(a, e) = 1..(n + 1)
    BY <1>2, AppendedEntry
  <2>2. \A i \in 1..n : Append(a, e)[i] = a[i]
    BY <1>2, <2>1, AppendedEntry
  <2>3. 1..n \subseteq DOMAIN b /\ \A i \in 1..n : b[i] = a[i]
    BY <1>3, <2>1, <2>2
  <2>4. Begins(a, b)
    BY <2>1, <2>3 DEF Begins
  <2>5. QED
    BY <2>4, FlaggedStays
<1>5. QED
  BY <1>1, <1>4 DEF SpikePlaces, SameFlags

\* A spike is about an entry of the analysed period, of its vendor.
LEMMA SpikePlacesType ==
  ASSUME NEW S, NEW s \in Seq(S), NEW v, NEW n \in SpikePlaces(s, v)
  PROVE  \E x \in Entries(s) : x.vendor = v /\ x.number = n
<1>1. PICK a : a = OfVendor(s, v)
  OBVIOUS
<1>2. a \in Seq({x \in Entries(s) : x.vendor = v})
  BY <1>1, OfVendorType
<1>3. PICK i \in DOMAIN a : a[i].number = n
  BY <1>1 DEF SpikePlaces, Flagged
<1>4. a[i] \in {x \in Entries(s) : x.vendor = v}
  BY <1>2, <1>3
<1>5. QED
  BY <1>3, <1>4

Spiky(f) == f.title[1] = "spike"

VendorsOf(s) == {x.vendor : x \in ToSet(s)}

LEMMA EntriesAreSet == \A s : ToSet(s) = Entries(s)
BY DEF ToSet, Entries

LEMMA FindingFields ==
  ASSUME NEW k, NEW v, NEW c, NEW n
  PROVE  /\ Finding(k, v, c, n).title = <<k, v>> /\ Finding(k, v, c, n).category = c
         /\ Finding(k, v, c, n).at = n
         /\ Finding(k, v, c, n).title[1] = k /\ Finding(k, v, c, n).title[2] = v
BY DEF Finding

\* The spikes among the findings.
LEMMA SpikeFound ==
  ASSUME NEW S, NEW s \in Seq(S), NEW c, NEW f \in find(s, c), Spiky(f)
  PROVE  \E v \in VendorsOf(s) : \E n \in SpikePlaces(s, v) : f = Finding("spike", v, c[v], n)
<1>1. PICK a \in ByVendor(s) :
        f \in {Finding(g[1], a[1].vendor, c[a[1].vendor], g[2]) : g \in VendorFindings(a)}
  BY DEF find
<1>2. PICK v \in VendorsOf(s) : a = OfVendor(s, v)
  BY DEF ByVendor, VendorsOf
<1>3. PICK g \in VendorFindings(a) :
        f = Finding(g[1], a[1].vendor, c[a[1].vendor], g[2])
  BY <1>1
<1>4. g[1] = "spike"
  BY <1>3, FindingFields DEF Spiky
<1>5. g \in Spikes(a)
  <2>1. \A h \in Jumps(a) : h[1] = "jump"
    BY DEF Jumps
  <2>2. \A h \in Duplicates(a) : h[1] = "duplicate"
    BY DEF Duplicates
  <2>3. \A h \in Tops(a) : h[1] = "top"
    BY DEF Tops
  <2>4. QED
    BY <1>3, <1>4, <2>1, <2>2, <2>3 DEF VendorFindings
<1>6. PICK i \in Flagged(a) : g = <<"spike", a[i].number>>
  BY <1>5 DEF Spikes
<1>7. a[1].vendor = v
  <2>1. a \in Seq({x \in Entries(s) : x.vendor = v})
    BY <1>2, OfVendorType
  <2>2. i \in DOMAIN a
    BY <1>6 DEF Flagged
  <2>3. a[1] \in {x \in Entries(s) : x.vendor = v}
    BY <2>1, <2>2
  <2>4. QED
    BY <2>3
<1>8. g[2] \in SpikePlaces(s, v)
  BY <1>2, <1>6 DEF SpikePlaces
<1>9. f = Finding("spike", v, c[v], g[2])
  BY <1>3, <1>4, <1>7
<1>10. QED
  BY <1>8, <1>9

LEMMA SpikeFinds ==
  ASSUME NEW S, NEW s \in Seq(S), NEW c, NEW v, NEW n \in SpikePlaces(s, v)
  PROVE  v \in VendorsOf(s) /\ Finding("spike", v, c[v], n) \in find(s, c)
<1>1. v \in VendorsOf(s)
  BY SpikePlacesType, EntriesAreSet DEF VendorsOf
<1>2. PICK a : a = OfVendor(s, v)
  OBVIOUS
<1>3. a \in ByVendor(s)
  BY <1>1, <1>2 DEF ByVendor, VendorsOf
<1>4. PICK i \in Flagged(a) : n = a[i].number
  BY <1>2 DEF SpikePlaces
<1>5. PICK g : g = <<"spike", n>>
  OBVIOUS
<1>6. g \in VendorFindings(a) /\ g[1] = "spike" /\ g[2] = n
  BY <1>4, <1>5 DEF VendorFindings, Spikes
<1>7. a[1].vendor = v
  <2>1. a \in Seq({x \in Entries(s) : x.vendor = v})
    BY <1>2, OfVendorType
  <2>2. i \in DOMAIN a
    BY <1>4 DEF Flagged
  <2>3. a[1] \in {x \in Entries(s) : x.vendor = v}
    BY <2>1, <2>2
  <2>4. QED
    BY <2>3
<1>8. Finding("spike", v, c[v], n)
        \in {Finding(h[1], a[1].vendor, c[a[1].vendor], h[2]) : h \in VendorFindings(a)}
  BY <1>6, <1>7
<1>9. QED
  BY <1>1, <1>3, <1>8 DEF find

---------------------------------------------------------------------------
\* The entries a cycle looks at, by number.
Live(p) == {x.number : x \in ToSet(p)}

\* A finding of a spike among the entries p, or of one that p has no more.
Stands(f, p, n) ==
  /\ f.title = <<"spike", f.title[2]>>
  /\ f.at \in 1..n
  /\ f.at \in Live(p) => f.at \in SpikePlaces(p, f.title[2])

\* One more row brings no earlier entry back and unmakes no spike.
LEMMA StandsAfterDrop ==
  ASSUME NEW S, NEW s \in Seq(S), NEW e \in S, \A x \in S : x.date \in Int,
         \A i \in DOMAIN s : s[i].date <= e.date, NEW m,
         \A i \in DOMAIN s : s[i].number = i, e.number = Len(s) + 1,
         NEW f, Stands(f, PeriodOf(m, s), Len(s))
  PROVE  /\ Stands(f, PeriodOf(m, Append(s, e)), Len(s) + 1)
         /\ f.at \in Live(PeriodOf(m, Append(s, e))) => f.at \in Live(PeriodOf(m, s))
<1>1. PICK p, q : p = PeriodOf(m, s) /\ q = PeriodOf(m, Append(s, e))
  OBVIOUS
<1>2. p \in Seq(Entries(s)) /\ q \in {p, Append(p, e), <<e>>}
  BY <1>1, PeriodAppend
<1>3. p \in Seq(S)
  BY <1>2, EntriesType
<1>4. PICK n \in Nat : n = Len(s)
  OBVIOUS
<1>5. f.at \in 1..n /\ e.number = n + 1 /\ f.at # e.number
  BY <1>4 DEF Stands
<1>6. ToSet(Append(p, e)) \subseteq ToSet(p) \cup {e} /\ ToSet(<<e>>) = {e}
  <2>1. \A i \in DOMAIN Append(p, e) : Append(p, e)[i] \in Entries(p) \cup {e}
    BY <1>3, AppendedEntry DEF Entries
  <2>2. DOMAIN <<e>> = {1} /\ <<e>>[1] = e
    OBVIOUS
  <2>3. QED
    BY <2>1, <2>2 DEF ToSet, Entries
<1>7. f.at \in Live(q) => f.at \in Live(p) /\ q \in {p, Append(p, e)}
  BY <1>2, <1>5, <1>6 DEF Live
<1>8. \A v : SpikePlaces(p, v) \subseteq SpikePlaces(Append(p, e), v)
  BY <1>3, SpikesStay
<1>9. f.at \in Live(q) => f.at \in SpikePlaces(q, f.title[2])
  BY <1>1, <1>7, <1>8 DEF Stands
<1>10. f.at \in 1..(n + 1)
  BY <1>5
<1>11. QED
  BY <1>1, <1>4, <1>7, <1>9, <1>10 DEF Stands

RowsNumbered == \A i \in DOMAIN rows : rows[i].number = i

\* Nothing has happened that may bring a spike back.
Calm == mishaps = 0 /\ ran \subseteq {mode} /\ InDateOrder /\ OneCategoryEach

\* A finding is filed under a category some row of its vendor has.
Filed(f) ==
  \E i \in DOMAIN rows : rows[i].vendor = f.title[2] /\ rows[i].category = f.category

\* What the files and the running cycle say of spikes as long as nothing fails:
\* each is a spike of the period, if its entry is in it; the map holds the
\* escalated ones the period has, or the cycle has found them and will save
\* them; what the cycle takes for new is not in the log.
SpikesStand ==
  \A f \in escalated \cup current :
    Spiky(f) => Stands(f, Period(mode), Len(rows)) /\ Filed(f)

LiveSpike(f) == Spiky(f) /\ f.at \in Live(Period(mode))

EscalatedAreKnown ==
  pc \notin {"escalate", "save"} => \A f \in escalated : LiveSpike(f) => Key(f) \in known

EscalatedAreFound ==
  pc \in {"escalate", "save"} => \A f \in escalated : LiveSpike(f) => Key(f) \in Keys(current)

FreshAreNew ==
  pc = "escalate" => \A f \in fresh, g \in escalated : Spiky(f) => Matter(f) # Matter(g)

CleanRun ==
  /\ SpikesStand /\ EscalatedAreKnown /\ EscalatedAreFound /\ FreshAreNew
  /\ \A f \in repeated : ~Spiky(f)

\* Before the first cycle there is nothing to stand by.
Untried ==
  /\ pc = "idle" /\ escalated = {} /\ current = {} /\ fresh = {} /\ repeated = {}

RepeatInv ==
  /\ RowsNumbered
  /\ ran = {} => Untried
  /\ ran # {} => mode \in ran
  /\ Calm => CleanRun

LEMMA PeriodIs == \A m : Period(m) = PeriodOf(m, rows)
BY DEF Period, PeriodOf

LEMMA RowFields ==
  \A x \in Rows : x.date \in Int /\ x.category \in Categories /\ x.number \in 1..MaxRows
<1>1. \A x \in Rows : x.date \in Dates /\ x.category \in Categories /\ x.number \in 1..MaxRows
  BY DEF Rows
<1>2. Dates \subseteq Int
  BY LoopAssumption
<1>3. QED
  BY <1>1, <1>2

LEMMA DropOrder ==
  ASSUME InDateOrder', TypeOK, RowsNumbered,
         NEW v \in Vendors, NEW a \in Amounts, NEW d \in Dates, NEW c \in Categories,
         Drop(v, a, d, c)
  PROVE  \E e \in Rows : /\ rows' = Append(rows, e) /\ e.number = Len(rows) + 1
                         /\ \A i \in DOMAIN rows : rows[i].date <= e.date
<1>1. PICK e : e = [vendor |-> v, amount |-> a, date |-> d, category |-> c,
                    number |-> Len(rows) + 1]
  OBVIOUS
<1>2. PICK n \in Nat : n = Len(rows) /\ n < MaxRows /\ DOMAIN rows = 1..n
  BY LoopAssumption DEF TypeOK, Drop
<1>3. e.date = d /\ e.number = n + 1 /\ n + 1 \in 1..MaxRows
  BY <1>1, <1>2, LoopAssumption
<1>4. e \in Rows
  BY <1>1, <1>2, <1>3 DEF Rows
<1>5. rows' = Append(rows, e)
  BY <1>1 DEF Drop
<1>6. /\ DOMAIN rows' = 1..(n + 1) /\ rows'[n + 1] = e
      /\ \A i \in 1..n : rows'[i] = rows[i]
  BY <1>2, <1>4, <1>5, AppendedEntry DEF TypeOK
<1>7. ASSUME NEW i \in DOMAIN rows PROVE rows[i].date <= e.date
  <2>1. i \in 1..(n + 1) /\ n + 1 \in 1..(n + 1) /\ i <= n + 1
    BY <1>2
  <2>2. rows'[i].date <= rows'[n + 1].date
    BY <1>6, <2>1 DEF InDateOrder
  <2>3. QED
    BY <1>2, <1>6, <2>2
<1>8. QED
  BY <1>2, <1>3, <1>4, <1>5, <1>7

\* A row comes last, with the next number: the rows before stay as they are.
LEMMA DropAppends ==
  ASSUME TypeOK, RowsNumbered,
         NEW v \in Vendors, NEW a \in Amounts, NEW d \in Dates, NEW c \in Categories,
         Drop(v, a, d, c)
  PROVE  /\ RowsNumbered'
         /\ DOMAIN rows \subseteq DOMAIN rows' /\ \A i \in DOMAIN rows : rows'[i] = rows[i]
<1>1. PICK e : e = [vendor |-> v, amount |-> a, date |-> d, category |-> c,
                    number |-> Len(rows) + 1]
  OBVIOUS
<1>2. PICK n \in Nat : n = Len(rows) /\ n < MaxRows /\ DOMAIN rows = 1..n
  BY LoopAssumption DEF TypeOK, Drop
<1>3. e.number = n + 1 /\ n + 1 \in 1..MaxRows
  BY <1>1, <1>2, LoopAssumption
<1>4. e \in Rows
  BY <1>1, <1>2, <1>3 DEF Rows
<1>5. rows' = Append(rows, e)
  BY <1>1 DEF Drop
<1>6. /\ DOMAIN rows' = 1..(n + 1) /\ rows'[n + 1] = e
      /\ \A i \in 1..n : rows'[i] = rows[i]
  BY <1>2, <1>4, <1>5, AppendedEntry DEF TypeOK
<1>7. ASSUME NEW i \in 1..(n + 1) PROVE rows'[i].number = i
  <2>1. CASE i = n + 1
    BY <1>3, <1>6, <2>1
  <2>2. CASE i \in 1..n
    BY <1>2, <1>6, <2>2 DEF RowsNumbered
  <2>3. QED
    BY <1>2, <2>1, <2>2
<1>8. 1..n \subseteq 1..(n + 1)
  BY <1>2
<1>9. QED
  BY <1>2, <1>6, <1>7, <1>8 DEF RowsNumbered

\* What makes a run uncalm stays.
LEMMA CalmBefore ==
  ASSUME TypeOK, RepeatInv, [Next]_vars, Calm', ran # {}
  PROVE  Calm
<1>1. mishaps \in Nat
  BY LoopAssumption DEF TypeOK
<1>2. mishaps = 0
  <2>1. CASE mishaps' = mishaps
    BY <2>1 DEF Calm
  <2>2. CASE \E fault : Mishap(fault)
    BY <1>1, <2>2 DEF Calm, Mishap
  <2>3. QED
    BY <2>1, <2>2 DEF Next, Run, Drop, Post, Start, Fetch, FetchUnread, FetchFails, SaveCursor,
       SaveFails, Analyse, AnalyseUnread, Escalate, EscalateFails, Save, Crash,
       Compared, files, vars
<1>3. ran \subseteq {mode}
  <2>1. CASE \E m \in Modes : Start(m)
    <3>1. PICK m \in Modes : mode' = m /\ ran' = ran \cup {m}
      BY <2>1 DEF Start
    <3>2. ran \subseteq {m} /\ mode \in ran
      BY <3>1 DEF Calm, RepeatInv
    <3>3. QED
      BY <3>2
  <2>2. CASE UNCHANGED <<ran, mode>>
    BY <2>2 DEF Calm
  <2>3. QED
    BY <2>1, <2>2 DEF Next, Run, Drop, Post, Fetch, FetchUnread, FetchFails, SaveCursor,
       SaveFails, Analyse, AnalyseUnread, Escalate, EscalateFails, Save, Crash,
       Pages, Compared, cycle, vars
<1>4. DOMAIN rows \subseteq DOMAIN rows' /\ \A i \in DOMAIN rows : rows'[i] = rows[i]
  <2>1. CASE \E v \in Vendors, a \in Amounts, d \in Dates, c \in Categories : Drop(v, a, d, c)
    BY <2>1, DropAppends DEF RepeatInv
  <2>2. CASE rows' = rows
    BY <2>2
  <2>3. QED
    BY <2>1, <2>2 DEF Next, Run, Post, Start, Fetch, FetchUnread, FetchFails, SaveCursor,
       SaveFails, Analyse, AnalyseUnread, Escalate, EscalateFails, Save, Crash,
       Pages, Compared, files, vars
<1>5. InDateOrder /\ OneCategoryEach
  BY <1>4 DEF Calm, InDateOrder, OneCategoryEach
<1>6. QED
  BY <1>2, <1>3, <1>5 DEF Calm

LEMMA CleanStill ==
  ASSUME CleanRun, UNCHANGED <<rows, known, escalated, repeated, mode, current, fresh>>,
         pc' = pc \/ (pc \notin {"escalate", "save"} /\ pc' \notin {"escalate", "save"})
  PROVE  CleanRun'
<1>1. Period(mode)' = Period(mode)
  BY DEF Period
<1>2. \A f : LiveSpike(f)' <=> LiveSpike(f)
  BY <1>1 DEF LiveSpike
<1>3. SpikesStand'
  BY <1>1 DEF CleanRun, SpikesStand, Filed
<1>4. EscalatedAreKnown' /\ EscalatedAreFound' /\ FreshAreNew'
  BY <1>2 DEF CleanRun, EscalatedAreKnown, EscalatedAreFound, FreshAreNew
<1>5. QED
  BY <1>3, <1>4 DEF CleanRun

\* A row dropped between any two steps of a cycle.
LEMMA CleanDrop ==
  ASSUME InDateOrder', TypeOK, RowsNumbered, CleanRun,
         NEW v \in Vendors, NEW a \in Amounts, NEW d \in Dates, NEW c \in Categories,
         Drop(v, a, d, c)
  PROVE  CleanRun'
<1>1. PICK e \in Rows : /\ rows' = Append(rows, e) /\ e.number = Len(rows) + 1
                        /\ \A i \in DOMAIN rows : rows[i].date <= e.date
  BY DropOrder
<1>2. /\ UNCHANGED <<known, escalated, repeated, mode, current, fresh, pc>>
      /\ rows \in Seq(Rows) /\ Len(rows') = Len(rows) + 1
  BY <1>1 DEF Drop, cycle, TypeOK
<1>3. Period(mode) = PeriodOf(mode, rows) /\ Period(mode)' = PeriodOf(mode, Append(rows, e))
  BY <1>1, <1>2 DEF Period, PeriodOf
<1>4. ASSUME NEW f \in escalated \cup current, Spiky(f)
      PROVE  Stands(f, Period(mode), Len(rows))' /\ (LiveSpike(f)' => LiveSpike(f))
  <2>1. Stands(f, PeriodOf(mode, rows), Len(rows))
    BY <1>3, <1>4 DEF CleanRun, SpikesStand
  <2>2. \A x \in Rows : x.date \in Int
    BY RowFields
  <2>3. \A i \in DOMAIN rows : rows[i].number = i
    BY DEF RowsNumbered
  <2>4. /\ Stands(f, PeriodOf(mode, Append(rows, e)), Len(rows) + 1)
        /\ f.at \in Live(PeriodOf(mode, Append(rows, e))) => f.at \in Live(PeriodOf(mode, rows))
    BY <1>1, <1>2, <2>1, <2>2, <2>3, StandsAfterDrop
  <2>5. QED
    BY <1>2, <1>3, <1>4, <2>4 DEF LiveSpike
<1>5. SpikesStand'
  <2>1. \A f : Filed(f) => Filed(f)'
    BY DropAppends DEF Filed
  <2>2. QED
    BY <1>2, <1>4, <2>1 DEF CleanRun, SpikesStand
<1>6. \A f \in escalated : LiveSpike(f)' => LiveSpike(f)
  BY <1>4 DEF LiveSpike
<1>7. EscalatedAreKnown' /\ EscalatedAreFound' /\ FreshAreNew'
  BY <1>2, <1>6 DEF CleanRun, EscalatedAreKnown, EscalatedAreFound, FreshAreNew
<1>8. QED
  BY <1>2, <1>5, <1>7 DEF CleanRun

\* A vendor with a spike gets a category that one of its entries has.
LEMMA CategoryOfVendor ==
  ASSUME NEW S, NEW s \in Seq(S), NEW c \in Categorizations(s), NEW v,
         NEW n \in SpikePlaces(s, v)
  PROVE  \E x \in Entries(s) : x.vendor = v /\ x.category = c[v]
<1>1. PICK a : a = OfVendor(s, v)
  OBVIOUS
<1>2. a \in Seq({x \in Entries(s) : x.vendor = v})
  BY <1>1, OfVendorType
<1>3. a \in ByVendor(s)
  BY <1>1, SpikeFinds DEF ByVendor, VendorsOf
<1>4. a[1].vendor = v
  <2>1. PICK i : i \in DOMAIN a
    BY <1>1 DEF SpikePlaces, Flagged
  <2>2. a[1] \in {x \in Entries(s) : x.vendor = v}
    BY <1>2, <2>1
  <2>3. QED
    BY <2>2
<1>5. c[v] \in MostCommon(a)
  BY <1>3, <1>4 DEF Categorizations
<1>6. PICK x \in ToSet(a) : c[v] = x.category
  BY <1>5 DEF MostCommon
<1>7. x \in {y \in Entries(s) : y.vendor = v}
  BY <1>2, <1>6 DEF ToSet
<1>8. QED
  BY <1>6, <1>7

\* A spike among the findings stands for an entry of the period; every spike
\* of the period is found.
LEMMA FoundStand ==
  ASSUME TypeOK, RowsNumbered, NEW fs, Found(fs)
  PROVE  \A f \in fs : Spiky(f) => /\ Stands(f, Period(mode), Len(rows)) /\ Filed(f)
                                   /\ f.at \in Live(Period(mode))
<1>1. PICK p : p = Period(mode)
  OBVIOUS
<1>2. PICK c \in Categorizations(p) : fs = find(p, c)
  BY <1>1 DEF Found
<1>3. p \in Seq(Entries(rows))
  <2>1. rows \in Seq(Rows) /\ \A x \in Rows : x.date \in Int
    BY RowFields DEF TypeOK
  <2>2. QED
    BY <1>1, <2>1, PeriodIs, PeriodType
<1>4. ASSUME NEW x \in Entries(p)
      PROVE  /\ x.number \in 1..Len(rows)
             /\ \E i \in DOMAIN rows : x = rows[i]
  <2>1. x \in Entries(rows)
    BY <1>3 DEF Entries
  <2>2. PICK i \in DOMAIN rows : x = rows[i]
    BY <2>1 DEF Entries
  <2>3. x.number = i /\ i \in 1..Len(rows)
    BY <2>2 DEF TypeOK, RowsNumbered
  <2>4. QED
    BY <2>2, <2>3
<1>5. ASSUME NEW f \in fs, Spiky(f)
      PROVE  Stands(f, p, Len(rows)) /\ Filed(f) /\ f.at \in Live(p)
  <2>1. PICK v \in VendorsOf(p) : \E n \in SpikePlaces(p, v) : f = Finding("spike", v, c[v], n)
    BY <1>2, <1>3, <1>5, SpikeFound
  <2>2. PICK n \in SpikePlaces(p, v) : f = Finding("spike", v, c[v], n)
    BY <2>1
  <2>3. f.title = <<"spike", v>> /\ f.title[2] = v /\ f.category = c[v] /\ f.at = n
    BY <2>2, FindingFields
  <2>4. n \in Live(p) /\ n \in 1..Len(rows)
    BY <1>3, <1>4, SpikePlacesType, EntriesAreSet DEF Live
  <2>5. PICK x \in Entries(p) : x.vendor = v /\ x.category = c[v]
    BY <1>3, <2>2, CategoryOfVendor
  <2>6. Filed(f)
    BY <1>4, <2>3, <2>5 DEF Filed
  <2>7. QED
    BY <2>2, <2>3, <2>4, <2>6 DEF Stands
<1>6. QED
  BY <1>1, <1>5

LEMMA KeysAlike ==
  ASSUME OneCategoryEach, NEW f, NEW g, Filed(f), Filed(g), Matter(f) = Matter(g)
  PROVE  Key(f) = Key(g)
<1>1. f.title = g.title
  BY DEF Matter
<1>2. f.category = g.category
  BY <1>1 DEF OneCategoryEach, Filed
<1>3. QED
  BY <1>1, <1>2 DEF Key

LEMMA CleanAnalyse ==
  ASSUME OneCategoryEach, TypeOK, RowsNumbered, CleanRun, Analyse
  PROVE  CleanRun'
<1>1. /\ UNCHANGED <<rows, known, escalated, repeated, mode>>
      /\ pc = "analyse" /\ pc' = "escalate" /\ Found(current')
      /\ fresh' = {f \in current' : Key(f) \notin known}
  BY DEF Analyse, Compared, files, _diff_findings
<1>2. Period(mode)' = Period(mode) /\ Len(rows') = Len(rows) /\ \A f : LiveSpike(f)' <=> LiveSpike(f)
  BY <1>1 DEF Period, LiveSpike
<1>3. \A f \in current' : Spiky(f) => /\ Stands(f, Period(mode), Len(rows)) /\ Filed(f)
                                      /\ f.at \in Live(Period(mode))
  BY <1>1, FoundStand
<1>4. SpikesStand'
  BY <1>1, <1>2, <1>3 DEF CleanRun, SpikesStand, Filed
<1>5. ASSUME NEW f \in escalated, LiveSpike(f)
      PROVE  Key(f) \in known /\ \E g \in current' : Matter(g) = Matter(f)
  <2>1. Key(f) \in known
    BY <1>1, <1>5 DEF CleanRun, EscalatedAreKnown
  <2>2. PICK p : p = Period(mode)
    OBVIOUS
  <2>3. PICK v : v = f.title[2]
    OBVIOUS
  <2>4. Stands(f, p, Len(rows)) /\ f.at \in SpikePlaces(p, v) /\ f.title = <<"spike", v>>
    BY <1>5, <2>2, <2>3 DEF CleanRun, SpikesStand, LiveSpike, Stands
  <2>5. PICK c : current' = find(p, c)
    BY <1>1, <2>2 DEF Found
  <2>6. p \in Seq(Entries(rows))
    <3>1. rows \in Seq(Rows) /\ \A x \in Rows : x.date \in Int
      BY RowFields DEF TypeOK
    <3>2. QED
      BY <2>2, <3>1, PeriodIs, PeriodType
  <2>7. PICK g : g = Finding("spike", v, c[v], f.at)
    OBVIOUS
  <2>8. g \in current' /\ g.title = f.title /\ g.at = f.at
    BY <2>4, <2>5, <2>6, <2>7, SpikeFinds, FindingFields
  <2>9. QED
    BY <2>1, <2>8 DEF Matter
<1>6. ASSUME NEW f \in escalated, LiveSpike(f)
      PROVE  Key(f) \in Keys(current')
  <2>1. PICK g \in current' : Matter(g) = Matter(f)
    BY <1>5, <1>6
  <2>2. Spiky(f) /\ Spiky(g)
    BY <1>6, <2>1 DEF LiveSpike, Spiky, Matter
  <2>3. Filed(f) /\ Filed(g)
    BY <1>3, <2>2 DEF CleanRun, SpikesStand
  <2>4. Key(g) = Key(f)
    BY <2>1, <2>3, KeysAlike
  <2>5. QED
    BY <2>4 DEF Keys
<1>7. ASSUME NEW f \in fresh', NEW g \in escalated, Spiky(f)
      PROVE  Matter(f) # Matter(g)
  <2> SUFFICES ASSUME Matter(f) = Matter(g) PROVE FALSE
    OBVIOUS
  <2>1. f \in current' /\ Key(f) \notin known
    BY <1>1
  <2>2. Filed(f) /\ f.at \in Live(Period(mode))
    BY <1>3, <1>7, <2>1
  <2>3. LiveSpike(g)
    BY <1>7, <2>2 DEF LiveSpike, Spiky, Matter
  <2>4. Filed(g) /\ Key(g) \in known
    BY <1>5, <2>3 DEF CleanRun, SpikesStand, LiveSpike
  <2>5. QED
    BY <2>1, <2>2, <2>4, KeysAlike
<1>8. EscalatedAreKnown' /\ EscalatedAreFound' /\ FreshAreNew'
  BY <1>1, <1>2, <1>6, <1>7 DEF EscalatedAreKnown, EscalatedAreFound, FreshAreNew
<1>9. QED
  BY <1>1, <1>4, <1>8 DEF CleanRun

LEMMA CleanEscalate ==
  ASSUME TypeOK, CleanRun, Escalate
  PROVE  CleanRun'
<1>1. /\ UNCHANGED <<rows, known, mode, current, fresh>> /\ pc = "escalate" /\ pc' = "save"
      /\ escalated' = escalated \cup fresh /\ fresh \subseteq current
      /\ \A f \in repeated' : f \in repeated
                              \/ (f \in fresh /\ \E g \in escalated : Matter(f) = Matter(g))
  BY DEF Escalate, Written, TypeOK
<1>2. Period(mode)' = Period(mode) /\ Len(rows') = Len(rows) /\ \A f : LiveSpike(f)' <=> LiveSpike(f)
  BY <1>1 DEF Period, LiveSpike
<1>3. SpikesStand'
  BY <1>1, <1>2 DEF CleanRun, SpikesStand, Filed
<1>4. EscalatedAreKnown' /\ FreshAreNew'
  BY <1>1 DEF EscalatedAreKnown, FreshAreNew
<1>5. EscalatedAreFound'
  BY <1>1, <1>2 DEF CleanRun, EscalatedAreFound, Keys
<1>6. \A f \in repeated' : ~Spiky(f)
  BY <1>1 DEF CleanRun, FreshAreNew
<1>7. QED
  BY <1>3, <1>4, <1>5, <1>6 DEF CleanRun

LEMMA CleanSave ==
  ASSUME CleanRun, Save
  PROVE  CleanRun'
<1>1. /\ UNCHANGED <<rows, escalated, repeated, mode, current, fresh>>
      /\ pc = "save" /\ pc' = "idle" /\ known' = Keys(current)
  BY DEF Save
<1>2. Period(mode)' = Period(mode) /\ Len(rows') = Len(rows) /\ \A f : LiveSpike(f)' <=> LiveSpike(f)
  BY <1>1 DEF Period, LiveSpike
<1>3. SpikesStand'
  BY <1>1, <1>2 DEF CleanRun, SpikesStand, Filed
<1>4. EscalatedAreKnown'
  BY <1>1, <1>2 DEF CleanRun, EscalatedAreFound, EscalatedAreKnown
<1>5. EscalatedAreFound' /\ FreshAreNew'
  BY <1>1 DEF EscalatedAreFound, FreshAreNew
<1>6. QED
  BY <1>1, <1>3, <1>4, <1>5 DEF CleanRun

\* A spike is escalated a second time only after a fault, or after cycles of
\* both kinds, or once a row came late or a vendor's rows differ in category:
\* without any of these an escalated spike keeps its key, stays a spike, and
\* stays in the map of findings while its entry is in the period (loop.py:109,
\* 190, 276-277).
THEOREM SpikesFireOnce == Spec => []RepeatsHaveCause
<1>1. Init => RepeatInv
  <2> SUFFICES ASSUME Init PROVE RepeatInv
    OBVIOUS
  <2>1. /\ escalated = {} /\ repeated = {} /\ current = {} /\ fresh = {} /\ pc = "idle"
        /\ ran = {}
    BY DEF Init
  <2>2. RowsNumbered
    BY OnFileAssumption DEF Init, RowsNumbered
  <2>3. CleanRun
    BY <2>1 DEF CleanRun, SpikesStand, EscalatedAreKnown, EscalatedAreFound, FreshAreNew
  <2>4. QED
    BY <2>1, <2>2, <2>3 DEF RepeatInv, Untried
<1>2. TypeOK /\ RepeatInv /\ [Next]_vars => RepeatInv'
  <2> SUFFICES ASSUME TypeOK, RepeatInv, [Next]_vars PROVE RepeatInv'
    OBVIOUS
  <2>1. mishaps \in Nat /\ RowsNumbered
    BY LoopAssumption DEF RepeatInv, TypeOK
  <2>2. RowsNumbered'
    <3>1. CASE \E v \in Vendors, a \in Amounts, d \in Dates, c \in Categories : Drop(v, a, d, c)
      BY <2>1, <3>1, DropAppends
    <3>2. CASE rows' = rows
      BY <2>1, <3>2 DEF RowsNumbered
    <3>3. QED
      BY <3>1, <3>2 DEF Next, Run, Post, Start, Fetch, FetchUnread, FetchFails, SaveCursor,
         SaveFails, Analyse, AnalyseUnread, Escalate, EscalateFails, Save, Crash,
         Pages, Compared, files, vars
  <2> DEFINE Tried == ran' # {} => mode' \in ran'
  <2>3. Tried /\ (ran # {} => ran' # {})
    <3>1. CASE \E m \in Modes : Start(m)
      BY <3>1 DEF Start
    <3>2. CASE UNCHANGED <<ran, mode>>
      BY <3>2 DEF RepeatInv
    <3>3. QED
      BY <3>1, <3>2 DEF Next, Run, Drop, Post, Fetch, FetchUnread, FetchFails, SaveCursor,
         SaveFails, Analyse, AnalyseUnread, Escalate, EscalateFails, Save, Crash,
         Pages, Compared, cycle, vars
  <2>4. CASE ran = {}
    <3>1. Untried
      BY <2>4 DEF RepeatInv
    <3>2. Untried' \/ (ran' # {} /\ UNCHANGED <<escalated, current, fresh, repeated>> /\ pc' = "fetch")
      BY <3>1 DEF Untried, Next, Run, Drop, Post, Start, Fetch, FetchUnread, FetchFails,
         SaveCursor, SaveFails, Analyse, AnalyseUnread, Escalate, EscalateFails, Save,
         Crash, Pages, Compared, files, cycle, vars
    <3>3. CleanRun'
      BY <3>1, <3>2 DEF Untried, CleanRun, SpikesStand, EscalatedAreKnown, EscalatedAreFound,
                        FreshAreNew
    <3>4. QED
      BY <2>2, <2>3, <3>2, <3>3 DEF RepeatInv
  <2> SUFFICES ASSUME ran # {}, Calm' PROVE CleanRun'
    BY <2>2, <2>4, <2>3 DEF RepeatInv
  <2>5. Calm /\ CleanRun /\ OneCategoryEach /\ InDateOrder'
    BY CalmBefore DEF RepeatInv, Calm
  <2>6. CASE \E v \in Vendors, a \in Amounts, d \in Dates, c \in Categories : Drop(v, a, d, c)
    BY <2>1, <2>5, <2>6, CleanDrop
  <2>7. ASSUME UNCHANGED <<rows, known, escalated, repeated, mode, current, fresh>>,
               pc' = pc \/ (pc \notin {"escalate", "save"} /\ pc' \notin {"escalate", "save"})
        PROVE  CleanRun'
    BY <2>5, <2>7, CleanStill
  <2>8. CASE Post \/ UNCHANGED vars
    BY <2>7, <2>8 DEF Post, vars, files, cycle
  <2>9. ASSUME NEW m \in Modes, Start(m) PROVE CleanRun'
    <3>1. ran' = ran \cup {m} /\ mode' = m /\ ran' \subseteq {mode'}
      BY <2>9 DEF Start, Calm
    <3>2. mode' = mode
      BY <2>5, <3>1 DEF Calm
    <3>3. QED
      BY <2>7, <2>9, <3>2 DEF Start, files
  <2>10. CASE Fetch \/ SaveCursor
    BY <2>7, <2>10 DEF Fetch, Pages, SaveCursor, files
  <2>11. CASE Analyse
    BY <2>1, <2>5, <2>11, CleanAnalyse
  <2>12. CASE Escalate
    BY <2>5, <2>12, CleanEscalate
  <2>13. CASE Save
    BY <2>5, <2>13, CleanSave
  <2>14. CASE FetchUnread \/ FetchFails \/ AnalyseUnread \/ SaveFails \/ EscalateFails \/ Crash
    <3>1. \E fault : Mishap(fault)
      BY <2>14 DEF FetchUnread, FetchFails, AnalyseUnread, SaveFails, EscalateFails, Crash
    <3>2. mishaps' # 0
      BY <2>1, <3>1 DEF Mishap
    <3>3. QED
      BY <3>2 DEF Calm
  <2>15. QED
    BY <2>6, <2>8, <2>9, <2>10, <2>11, <2>12, <2>13, <2>14 DEF Next, Run
<1>3. TypeOK /\ RepeatInv => RepeatsHaveCause
  BY LoopAssumption DEF RepeatInv, CleanRun, Spiky, RepeatsHaveCause, Calm, TypeOK
<1>4. QED
  BY <1>1, <1>2, <1>3, TypeCorrect, PTL DEF Spec
===========================================================================
