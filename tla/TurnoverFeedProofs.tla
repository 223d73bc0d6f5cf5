------------------------ MODULE TurnoverFeedProofs ------------------------
(***************************************************************************)
(* Theorems about the coordination feed, for any board, crew and threads,  *)
(* any failures and any number of polls.                                   *)
(***************************************************************************)
EXTENDS TurnoverFeed, FiniteSetTheorems, TLAPS

LEMMA DueTypes ==
  /\ AllDue \subseteq Items
  /\ \A r \in Routes : Due(r) \subseteq AllDue
  /\ \A x \in AllDue : x[1] \in {"stalls", "scheduling", "performance"}
<1>1. \A r \in Routes : Due(r) \subseteq {r} \X Props \X (0..4)
  <2> SUFFICES ASSUME NEW r \in Routes PROVE Due(r) \subseteq {r} \X Props \X (0..4)
    OBVIOUS
  <2>1. \A h \in Stalls(Board) : h.prop \in Props /\ h.stage \in 0..4
    BY BoardAssumption DEF Stalls, Boards, TurnoverStages
  <2>2. QED
    BY <2>1 DEF Due
<1>2. Routes \subseteq Kinds
  BY RoutesAssumption DEF Kinds
<1>3. \A r \in Routes : Due(r) \subseteq AllDue
  BY DEF AllDue
<1>4. ASSUME NEW x \in AllDue
      PROVE  x \in Items /\ x[1] \in {"stalls", "scheduling", "performance"}
  <2>1. PICK r \in Routes : x \in Due(r)
    BY DEF AllDue
  <2>2. x \in {r} \X Props \X (0..4)
    BY <1>1, <2>1
  <2>3. r \in Kinds /\ r \in {"stalls", "scheduling", "performance"}
    BY <1>2, RoutesAssumption
  <2>4. QED
    BY <2>2, <2>3 DEF Items
<1>5. QED
  BY <1>3, <1>4

\* The handoffs a button is pressed for.
LEMMA HandoffTypes == Due("stalls") \cup Due("scheduling") \subseteq Items
<1>1. \A h \in Stalls(Board) : h.prop \in Props /\ h.stage \in 0..4
  BY BoardAssumption DEF Stalls, Boards, TurnoverStages
<1>2. QED
  BY <1>1 DEF Due, Items, Kinds

LEMMA NoTypes == NoItem \in Items /\ NoWork \in Work
<1>1. \E x \in Items : TRUE
  <2>1. PICK p \in Props : TRUE
    BY BoardAssumption
  <2>2. <<"stalls", p, 0>> \in Items
    BY <2>1 DEF Items, Kinds
  <2>3. QED
    BY <2>2
<1>2. NoItem \in Items
  BY <1>1 DEF NoItem
<1>3. NoReply \in Replies
  BY RepliesAssumption DEF NoReply
<1>4. NoWork \in Work
  <2> DEFINE s == {}
             x == NoItem
             r == NoReply
  <2>1. s \subseteq AllDue /\ x \in Items /\ r \in Replies
    BY <1>2, <1>3
  <2>2. NoWork = [todo |-> s, item |-> x, reply |-> r, then |-> "answer"]
    BY DEF NoWork
  <2> HIDE DEF s, x, r
  <2>3. QED
    BY <2>1, <2>2 DEF Work
<1>5. QED
  BY <1>2, <1>4

LEMMA GarbledType == GarbledLine \in Lines /\ ~GarbledLine.entry
BY NoTypes DEF GarbledLine, Lines, Modes

LEMMA EntryType ==
  ASSUME TypeOK, NEW c \in Callers
  PROVE  Entry(c) \in Lines /\ Entry(c).entry /\ Entry(c).item = work[c].item
<1>1. /\ work[c].item \in Items /\ work[c].reply \in Replies
      /\ (work[c].then = "mark") \in BOOLEAN /\ boots \in Nat
  BY DEF TypeOK, Work
<1>2. /\ Draft(work[c].reply).mode \in Modes
      /\ Draft(work[c].reply).answered \in BOOLEAN
  BY DEF Draft, Modes
<1>3. QED
  BY <1>1, <1>2 DEF Entry, Lines

\* An append adds its line, or spoils the line it runs into.
LEMMA Grows ==
  ASSUME TypeOK, NEW line \in Lines, feed' = Appended(line)
  PROVE  /\ feed' \in Seq(Lines) /\ feed' # <<>>
         /\ Garbled => Garbled'
         /\ \A x : OnFeed(x) => OnFeed(x)' \/ Garbled'
         /\ line.entry => OnFeed(line.item)' \/ Garbled'
         /\ \A i \in 1..Len(feed') : feed'[i].entry =>
              feed'[i] = line \/ (i \in 1..Len(feed) /\ feed'[i] = feed[i])
<1>1. feed \in Seq(Lines) /\ Len(feed) \in Nat /\ (~closed => feed # <<>>)
  BY DEF TypeOK
<1>2. CASE closed
  <2>1. feed' = Append(feed, line)
    BY <1>2 DEF Appended
  <2>2. /\ feed' \in Seq(Lines) /\ feed' # <<>> /\ Len(feed') = Len(feed) + 1
        /\ \A i \in 1..Len(feed) : feed'[i] = feed[i]
        /\ feed'[Len(feed')] = line
    BY <1>1, <2>1
  <2>3. \A i \in 1..Len(feed) : i \in 1..Len(feed')
    BY <1>1, <2>2
  <2>4. \A i \in 1..Len(feed') : i = Len(feed') \/ i \in 1..Len(feed)
    BY <1>1, <2>2
  <2>5. Len(feed') \in 1..Len(feed')
    BY <1>1, <2>2
  <2>6. QED
    BY <2>2, <2>3, <2>4, <2>5 DEF Garbled, OnFeed
<1>3. CASE ~closed
  <2>1. feed' = [feed EXCEPT ![Len(feed)] = GarbledLine]
    BY <1>3 DEF Appended
  <2>2. Len(feed) \in 1..Len(feed)
    BY <1>1, <1>3
  <2>3. /\ feed' \in Seq(Lines) /\ Len(feed') = Len(feed) /\ feed' # <<>>
        /\ feed'[Len(feed)] = GarbledLine
        /\ \A i \in 1..Len(feed) : i # Len(feed) => feed'[i] = feed[i]
    BY <1>1, <1>3, <2>1, <2>2, GarbledType
  <2>4. Garbled'
    BY <2>2, <2>3, GarbledType DEF Garbled
  <2>5. QED
    BY <2>3, <2>4, GarbledType
<1>4. QED
  BY <1>2, <1>3 DEF TypeOK

\* What one caller's request does to it.
LEMMA CallerTypes ==
  ASSUME TypeOK, NEW c \in Callers, NEW w \in Work,
         NEW at \in {"idle", "next", "head", "write", "mark", "issue"},
         at = "mark" => w.then = "mark",
         w.then = "mark" => w.item \in AllDue,
         work' = [work EXCEPT ![c] = w], pc' = [pc EXCEPT ![c] = at]
  PROVE  /\ work' \in [Callers -> Work]
         /\ pc' \in [Callers -> {"idle", "next", "head", "write", "mark", "issue"}]
         /\ \A d \in Callers :
              /\ pc'[d] = "mark" => work'[d].then = "mark"
              /\ work'[d].then = "mark" => work'[d].item \in AllDue
BY DEF TypeOK

\* What a request may become: idle, at its loop, or about to append.
Becomes(c) ==
  \E w \in Work, at \in {"idle", "next", "head", "write", "mark", "issue"} :
    /\ at = "mark" => w.then = "mark"
    /\ w.then = "mark" => w.item \in AllDue
    /\ work' = [work EXCEPT ![c] = w]
    /\ pc' = [pc EXCEPT ![c] = at]

LEMMA WorkTypes ==
  ASSUME TypeOK, NEW c \in Callers
  PROVE  /\ work[c] \in Work /\ work[c].todo \subseteq AllDue
         /\ work[c].item \in Items /\ work[c].reply \in Replies
         /\ work[c].then \in {"mark", "answer", "issue", "preauth"}
         /\ work[c].then = "mark" => work[c].item \in AllDue
         /\ pc[c] = "mark" => work[c].then = "mark"
         /\ work = [work EXCEPT ![c] = work[c]]
BY DEF TypeOK, Work

LEMMA KindTypes ==
  \A x \in Items, k \in {"issue", "preauth"} : <<k, x[2], x[3]>> \in Items
BY DEF Items, Kinds

LEMMA PollBecomes ==
  ASSUME TypeOK, NEW c \in Callers,
         \/ \E r \in Routes : BeginPoll(c, r)
         \/ LogItem(c) \/ Mark(c) \/ EndPoll(c)
  PROVE  Becomes(c)
<1>1. ASSUME NEW r \in Routes, BeginPoll(c, r) PROVE Becomes(c)
  <2> DEFINE w == [work[c] EXCEPT !.todo = Due(r)]
  <2>1. /\ work' = [work EXCEPT ![c] = w] /\ pc' = [pc EXCEPT ![c] = "next"]
    BY <1>1 DEF BeginPoll, Go
  <2>2. w \in Work /\ w.then = work[c].then /\ w.item = work[c].item
    <3> DEFINE v == work[c]
               s == Due(r)
    <3>1. v \in Work /\ s \subseteq AllDue
      BY WorkTypes, DueTypes
    <3> HIDE DEF v, s
    <3>2. [v EXCEPT !.todo = s] \in Work
      BY <3>1 DEF Work
    <3>3. /\ [v EXCEPT !.todo = s].then = v.then
          /\ [v EXCEPT !.todo = s].item = v.item
      BY <3>1 DEF Work
    <3>4. QED
      BY <3>2, <3>3 DEF v, s
  <2> HIDE DEF w
  <2>3. QED
    BY <2>1, <2>2, WorkTypes DEF Becomes
<1>2. ASSUME LogItem(c) PROVE Becomes(c)
  <2>1. PICK x \in work[c].todo, r \in Replies : Logging(c, x, r)
    BY <1>2 DEF LogItem
  <2> DEFINE s == {y \in work[c].todo : y # x /\ Before(x, y)}
             w == [todo |-> s, item |-> x, reply |-> r, then |-> "mark"]
  <2>2. /\ work' = [work EXCEPT ![c] = w] /\ pc' = [pc EXCEPT ![c] = "head"]
    BY <2>1 DEF Logging, Go
  <2>3. x \in AllDue /\ x \in Items /\ s \subseteq AllDue
    BY WorkTypes, DueTypes
  <2>4. w \in Work /\ w.then = "mark" /\ w.item = x
    <3> HIDE DEF s
    <3>1. QED
      BY <2>3 DEF Work
  <2> HIDE DEF w
  <2>5. QED
    BY <2>2, <2>3, <2>4 DEF Becomes
<1>3. ASSUME Mark(c) PROVE Becomes(c)
  <2> DEFINE s == work[c].todo
             w == [NoWork EXCEPT !.todo = s]
  <2>1. /\ work' = [work EXCEPT ![c] = w] /\ pc' = [pc EXCEPT ![c] = "next"]
    BY <1>3 DEF Mark, Go
  <2>2. s \subseteq AllDue
    BY WorkTypes
  <2>3. w \in Work /\ w.then = "answer"
    <3> HIDE DEF s
    <3>1. NoWork \in Work /\ NoWork.then = "answer"
      BY NoTypes DEF NoWork
    <3>2. QED
      BY <2>2, <3>1 DEF Work
  <2> HIDE DEF w
  <2>4. QED
    BY <2>1, <2>3 DEF Becomes
<1>4. ASSUME EndPoll(c) PROVE Becomes(c)
  <2>1. work' = [work EXCEPT ![c] = NoWork] /\ pc' = [pc EXCEPT ![c] = "idle"]
    BY <1>4 DEF EndPoll, Answer, Go
  <2>2. NoWork \in Work /\ NoWork.then = "answer"
    BY NoTypes DEF NoWork
  <2>3. QED
    BY <2>1, <2>2 DEF Becomes
<1>5. QED
  BY <1>1, <1>2, <1>3, <1>4

\* Then and Raised lead to a request of the right type.
LEMMA ThenBecomes ==
  ASSUME TypeOK, NEW c \in Callers, Then(c) \/ Answer(c)
  PROVE  Becomes(c)
<1>1. CASE Answer(c)
  <2>1. work' = [work EXCEPT ![c] = NoWork] /\ pc' = [pc EXCEPT ![c] = "idle"]
    BY <1>1 DEF Answer, Go
  <2>2. NoWork \in Work /\ NoWork.then = "answer"
    BY NoTypes DEF NoWork
  <2>3. QED
    BY <2>1, <2>2 DEF Becomes
<1>2. CASE /\ work[c].then \in {"mark", "issue"} /\ Go(c, work[c].then)
           /\ UNCHANGED work
  <2>1. /\ work' = [work EXCEPT ![c] = work[c]]
        /\ pc' = [pc EXCEPT ![c] = work[c].then]
    BY <1>2, WorkTypes DEF Go
  <2>2. QED
    BY <1>2, <2>1, WorkTypes DEF Becomes
<1>3. CASE /\ work[c].then = "preauth" /\ Go(c, "head")
           /\ work' = [work EXCEPT ![c].item = <<"preauth", @[2], @[3]>>,
                                   ![c].then = "answer"]
  <2> DEFINE x == <<"preauth", work[c].item[2], work[c].item[3]>>
             w == [work[c] EXCEPT !.item = x, !.then = "answer"]
  <2>1. work' = [work EXCEPT ![c] = w] /\ pc' = [pc EXCEPT ![c] = "head"]
    BY <1>3 DEF Go, TypeOK
  <2>2. x \in Items
    BY WorkTypes, KindTypes
  <2>3. w \in Work /\ w.then = "answer"
    <3> DEFINE v == work[c]
    <3>1. v \in Work
      BY WorkTypes
    <3> HIDE DEF x, v
    <3>2. [v EXCEPT !.item = x, !.then = "answer"] \in Work
      BY <2>2, <3>1 DEF Work
    <3>3. [v EXCEPT !.item = x, !.then = "answer"].then = "answer"
      BY <3>1 DEF Work
    <3>4. QED
      BY <3>2, <3>3 DEF v
  <2> HIDE DEF w
  <2>4. QED
    BY <2>1, <2>3 DEF Becomes
<1>4. QED
  BY <1>1, <1>2, <1>3 DEF Then

LEMMA PressBecomes ==
  ASSUME TypeOK, NEW c \in Callers, NEW x \in Items,
         NEW then \in {"answer", "issue"}, Press(c, x, then)
  PROVE  Becomes(c)
<1>1. PICK r \in Replies :
        work' = [work EXCEPT ![c].item = x, ![c].reply = r, ![c].then = then]
  BY DEF Press
<1> DEFINE v == work[c]
           w == [v EXCEPT !.item = x, !.reply = r, !.then = then]
<1>2. work' = [work EXCEPT ![c] = w] /\ pc' = [pc EXCEPT ![c] = "head"]
  BY <1>1 DEF Press, Go, TypeOK
<1>3. v \in Work
  BY WorkTypes
<1>4. w \in Work /\ w.then = then
  <2> HIDE DEF v
  <2>1. w \in Work
    BY <1>3 DEF Work
  <2>2. w.then = then
    BY <1>3 DEF Work
  <2>3. QED
    BY <2>1, <2>2
<1> HIDE DEF w
<1>5. QED
  BY <1>2, <1>4 DEF Becomes

LEMMA IssueBecomes ==
  ASSUME TypeOK, NEW c \in Callers, Issue(c)
  PROVE  Becomes(c) /\ cards' \subseteq Props \X Free
<1> DEFINE v == work[c]
           x == <<"issue", work[c].item[2], work[c].item[3]>>
           w == [v EXCEPT !.item = x, !.then = "preauth"]
<1>1. work' = [work EXCEPT ![c] = w] /\ pc' = [pc EXCEPT ![c] = "head"]
  BY DEF Issue, Go, TypeOK
<1>2. v \in Work /\ x \in Items /\ v.item[2] \in Props
  BY WorkTypes, KindTypes DEF Items
<1>3. w \in Work /\ w.then = "preauth"
  <2> HIDE DEF v, x
  <2>1. w \in Work
    BY <1>2 DEF Work
  <2>2. w.then = "preauth"
    BY <1>2 DEF Work
  <2>3. QED
    BY <2>1, <2>2
<1>4. Becomes(c)
  <2> HIDE DEF w
  <2>1. QED
    BY <1>1, <1>3 DEF Becomes
<1>5. cards' \subseteq Props \X Free
  <2>1. Suggested(Assigned[v.item[2]], Free) \subseteq Free
    BY DEF Suggested
  <2>2. QED
    BY <1>2, <2>1 DEF Issue, Card, TypeOK
<1>6. QED
  BY <1>4, <1>5

\* A card that fails ends its request, with the card issued or not.
LEMMA IssueFailsBecomes ==
  ASSUME TypeOK, NEW c \in Callers, IssueFails(c)
  PROVE  /\ Becomes(c) /\ pc[c] = "issue" /\ pc'[c] = "idle"
         /\ cards \subseteq cards' /\ cards' \subseteq Props \X Free
         /\ UNCHANGED <<file, marked, boots, buttons>>
         /\ mishaps' \in mishaps..MaxMishaps
<1>1. Becomes(c)
  BY ThenBecomes DEF IssueFails
<1>2. pc[c] = "issue" /\ pc'[c] = "idle"
  BY DEF IssueFails, Answer, Go, TypeOK
<1>3. work[c].item[2] \in Props
  BY WorkTypes, KindTypes DEF Items
<1>4. Suggested(Assigned[work[c].item[2]], Free) \subseteq Free
  BY DEF Suggested
<1>5. Card(c) \subseteq Props \X Free
  BY <1>3, <1>4 DEF Card
<1>6. cards' = cards \/ cards' = cards \cup Card(c)
  BY DEF IssueFails
<1>7. cards \subseteq cards' /\ cards' \subseteq Props \X Free
  BY <1>5, <1>6 DEF TypeOK
<1>8. /\ UNCHANGED <<file, marked, boots, buttons>>
      /\ mishaps < MaxMishaps /\ mishaps' = mishaps + 1
  BY DEF IssueFails
<1>9. mishaps' \in mishaps..MaxMishaps
  BY <1>8, BoundsAssumption DEF TypeOK
<1>10. QED
  BY <1>1, <1>2, <1>7, <1>8, <1>9

LEMMA LaterBounds ==
  ASSUME NEW b, NEW m, NEW n, NEW top \in Nat,
         b \in 1..(m + 1), m \in 0..top, n \in m..top
  PROVE  b \in 1..(n + 1) /\ n \in 0..top
OBVIOUS

\* A step of one request keeps the types.
LEMMA RequestTypes ==
  ASSUME TypeOK, NEW c \in Callers, Becomes(c),
         feed' \in Seq(Lines), closed' \in BOOLEAN, feed' = <<>> => closed',
         marked' \subseteq AllDue, cards' \subseteq Props \X Free,
         boots' = boots, buttons' \in 0..MaxButtons,
         mishaps' \in mishaps..MaxMishaps
  PROVE  TypeOK'
<1>1. PICK w \in Work, at \in {"idle", "next", "head", "write", "mark", "issue"} :
        /\ at = "mark" => w.then = "mark"
        /\ w.then = "mark" => w.item \in AllDue
        /\ work' = [work EXCEPT ![c] = w]
        /\ pc' = [pc EXCEPT ![c] = at]
  BY DEF Becomes
<1>2. /\ work' \in [Callers -> Work]
      /\ pc' \in [Callers -> {"idle", "next", "head", "write", "mark", "issue"}]
      /\ \A d \in Callers :
           /\ pc'[d] = "mark" => work'[d].then = "mark"
           /\ work'[d].then = "mark" => work'[d].item \in AllDue
  BY <1>1, CallerTypes
<1>3. boots' \in 1..(mishaps' + 1) /\ mishaps' \in 0..MaxMishaps
  <2>1. /\ boots' = boots /\ boots \in 1..(mishaps + 1)
        /\ mishaps \in 0..MaxMishaps /\ mishaps' \in mishaps..MaxMishaps
        /\ MaxMishaps \in Nat
    BY BoundsAssumption DEF TypeOK
  <2>2. QED
    BY <2>1, LaterBounds
<1>4. QED
  BY <1>2, <1>3 DEF TypeOK

\* Every kind of step keeps the types: polls, buttons, appends, restarts.
LEMMA TypeStep == TypeOK /\ [Next]_vars => TypeOK'
<1> SUFFICES ASSUME TypeOK, [Next]_vars PROVE TypeOK'
  OBVIOUS
<1> USE BoundsAssumption
<1>1. ASSUME UNCHANGED vars PROVE TypeOK'
  BY <1>1 DEF vars, file, bounds, TypeOK
<1>2. ASSUME NEW c \in Callers,
             \/ \E r \in Routes : BeginPoll(c, r)
             \/ LogItem(c) \/ Mark(c) \/ EndPoll(c)
      PROVE  TypeOK'
  <2>1. Becomes(c)
    BY <1>2, PollBecomes
  <2>2. /\ UNCHANGED <<file, cards, bounds>>
        /\ UNCHANGED marked \/ (Mark(c) /\ marked' = marked \cup {work[c].item})
    BY <1>2 DEF BeginPoll, LogItem, Mark, EndPoll
  <2>3. marked' \subseteq AllDue
    BY <2>2, WorkTypes DEF Mark, TypeOK
  <2>4. QED
    BY <2>1, <2>2, <2>3, RequestTypes DEF file, bounds, TypeOK
<1>3. ASSUME NEW c \in Callers, Nudge(c) \/ Assign(c) PROVE TypeOK'
  <2>1. PICK x \in Due("stalls") \cup Due("scheduling"),
             then \in {"answer", "issue"} : Press(c, x, then)
    BY <1>3 DEF Nudge, Assign
  <2>2. x \in Items
    BY <2>1, HandoffTypes
  <2>3. Becomes(c)
    BY <2>1, <2>2, PressBecomes
  <2>4. /\ UNCHANGED <<file, marked, cards, boots, mishaps>>
        /\ buttons < MaxButtons /\ buttons' = buttons + 1
    BY <2>1 DEF Press
  <2>5. QED
    BY <2>3, <2>4, RequestTypes DEF file, TypeOK
<1>4. ASSUME NEW c \in Callers, Issue(c) PROVE TypeOK'
  <2>1. Becomes(c) /\ cards' \subseteq Props \X Free
    BY <1>4, IssueBecomes
  <2>2. UNCHANGED <<file, marked, bounds>>
    BY <1>4 DEF Issue
  <2>3. QED
    BY <2>1, <2>2, RequestTypes DEF file, bounds, TypeOK
<1>5. ASSUME NEW c \in Callers, ReadHead(c) PROVE TypeOK'
  <2>1. pc' = [pc EXCEPT ![c] = "write"] /\ UNCHANGED <<file, marked, cards, work, bounds>>
    BY <1>5 DEF ReadHead, Go
  <2>2. Becomes(c)
    BY <2>1, WorkTypes DEF Becomes
  <2>3. QED
    BY <2>1, <2>2, RequestTypes DEF file, bounds, TypeOK
<1>6. ASSUME NEW c \in Callers, RefuseTail(c) PROVE TypeOK'
  <2>1. Becomes(c)
    BY <1>6, ThenBecomes DEF RefuseTail, Raised
  <2>2. UNCHANGED <<file, marked, cards, bounds>>
    BY <1>6 DEF RefuseTail
  <2>3. QED
    BY <2>1, <2>2, RequestTypes DEF file, bounds, TypeOK
<1>7. ASSUME NEW c \in Callers, Write(c) PROVE TypeOK'
  <2>1. Becomes(c)
    BY <1>7, ThenBecomes DEF Write
  <2>2. feed' \in Seq(Lines) /\ feed' # <<>>
    <3>1. PICK line : line = Entry(c)
      OBVIOUS
    <3>2. line \in Lines /\ feed' = Appended(line)
      BY <1>7, <3>1, EntryType DEF Write
    <3>3. QED
      BY <3>2, Grows
  <2>3. closed' = TRUE /\ UNCHANGED <<marked, cards, bounds>>
    BY <1>7 DEF Write
  <2>4. QED
    BY <2>1, <2>2, <2>3, RequestTypes DEF bounds, TypeOK
<1>8. ASSUME NEW c \in Callers, FailWrite(c) PROVE TypeOK'
  <2>1. Becomes(c)
    BY <1>8, ThenBecomes DEF FailWrite, Raised
  <2>2. /\ feed' \in Seq(Lines) /\ closed' \in BOOLEAN
        /\ feed' = <<>> => closed'
    <3>1. CASE UNCHANGED file
      BY <3>1 DEF file, TypeOK
    <3>2. ASSUME NEW line \in Lines, feed' = Appended(line), closed' = FALSE
          PROVE  feed' \in Seq(Lines) /\ feed' # <<>>
      BY <3>2, Grows
    <3>3. GarbledLine \in Lines /\ Entry(c) \in Lines
      BY GarbledType, EntryType
    <3>4. \/ UNCHANGED file
          \/ closed' = FALSE /\ \E line \in Lines : feed' = Appended(line)
      BY <1>8, <3>3 DEF FailWrite
    <3>5. QED
      BY <3>1, <3>2, <3>4
  <2>3. /\ UNCHANGED <<marked, cards, boots, buttons>>
        /\ mishaps < MaxMishaps /\ mishaps' = mishaps + 1
    BY <1>8 DEF FailWrite
  <2>4. mishaps' \in mishaps..MaxMishaps
    BY <2>3 DEF TypeOK
  <2>5. QED
    BY <2>1, <2>2, <2>3, <2>4, RequestTypes DEF TypeOK
<1>9. ASSUME Restart PROVE TypeOK'
  <2>1. /\ pc' = [d \in Callers |-> "idle"] /\ work' = [d \in Callers |-> NoWork]
        /\ NoWork \in Work /\ NoWork.then = "answer"
    BY <1>9, NoTypes DEF Restart, NoWork
  <2>2. boots' \in 1..(mishaps' + 1) /\ mishaps' \in 0..MaxMishaps
    BY <1>9 DEF Restart, TypeOK
  <2>3. marked' = {} /\ UNCHANGED <<file, cards, buttons>>
    BY <1>9 DEF Restart
  <2>4. /\ work' \in [Callers -> Work]
        /\ pc' \in [Callers -> {"idle", "next", "head", "write", "mark", "issue"}]
        /\ \A d \in Callers : pc'[d] # "mark" /\ work'[d].then # "mark"
    <3> HIDE DEF NoWork
    <3>1. QED
      BY <2>1
  <2>5. QED
    BY <2>2, <2>3, <2>4 DEF file, TypeOK
<1>10. ASSUME NEW c \in Callers, IssueFails(c) PROVE TypeOK'
  BY <1>10, IssueFailsBecomes, RequestTypes DEF file, TypeOK
<1>11. QED
  BY <1>1, <1>2, <1>3, <1>4, <1>5, <1>6, <1>7, <1>8, <1>9, <1>10 DEF Next, Step

LEMMA TypeInit == Init => TypeOK
<1> SUFFICES ASSUME Init PROVE TypeOK
  OBVIOUS
<1>1. NoWork \in Work /\ NoWork.then = "answer"
  BY NoTypes DEF NoWork
<1>2. /\ work \in [Callers -> Work]
      /\ pc \in [Callers -> {"idle", "next", "head", "write", "mark", "issue"}]
      /\ \A d \in Callers : pc[d] # "mark" /\ work[d].then # "mark"
  <2>1. pc = [d \in Callers |-> "idle"] /\ work = [d \in Callers |-> NoWork]
    BY DEF Init
  <2>2. QED
    BY <1>1, <2>1
<1>3. feed \in Seq(Lines) /\ closed = TRUE /\ marked = {} /\ cards = {}
  BY DEF Init
<1>4. boots \in 1..(mishaps + 1) /\ buttons \in 0..MaxButtons
      /\ mishaps \in 0..MaxMishaps
  BY BoundsAssumption DEF Init
<1>5. QED
  BY <1>2, <1>3, <1>4 DEF TypeOK

\* Requests, the feed and the sets keep their types, whatever fails
\* (str_acts.py:404-462, interactions_log.py:52-101).
THEOREM TypeCorrect == Spec => []TypeOK
<1>1. Init => TypeOK
  BY TypeInit
<1>2. TypeOK /\ [Next]_vars => TypeOK'
  BY TypeStep
<1>3. QED
  BY <1>1, <1>2, PTL DEF Spec

---------------------------------------------------------------------------
\* An item is marked after its entry was written.
FeedInv ==
  /\ MarkedOnFeed
  /\ \A c \in Callers : pc[c] = "mark" => Garbled \/ OnFeed(work[c].item)

\* A cleaning that is blocked while another cleaner is free, and one a free
\* cleaner got a card for.
Reassigned(x) ==
  Board[x[2]][Clean] = "blocked" /\ Suggested(Assigned[x[2]], Free) # {}

Carded(x) ==
  /\ Board[x[2]][Clean] = "blocked"
  /\ \E k \in Free \ {Assigned[x[2]]} : <<x[2], k>> \in cards

\* What the requests that lead to a pre-authorization have done so far.
Backed(w, at) ==
  /\ at \in {"head", "write"} =>
       /\ w.then = "issue" => Reassigned(w.item)
       /\ w.then = "preauth" => Carded(w.item)
       /\ w.item[1] = "preauth" => Carded(w.item)
  /\ at = "issue" => Reassigned(w.item)

CardInv ==
  /\ PreauthBacked
  /\ \A c \in Callers : Backed(work[c], pc[c])

\* A request's step leaves the other requests alone.
LEMMA Alone ==
  ASSUME TypeOK, NEW c \in Callers, Becomes(c)
  PROVE  \A d \in Callers : d # c => work'[d] = work[d] /\ pc'[d] = pc[d]
BY DEF Becomes, TypeOK

\* What FeedInv needs of a step: no entry is lost unless the feed is
\* garbled, and what gets marked, or is about to be, is on it.
LEMMA FeedKept ==
  ASSUME TypeOK, FeedInv, NEW c \in Callers, Becomes(c),
         Garbled => Garbled', \A x : OnFeed(x) => OnFeed(x)' \/ Garbled',
         \A x \in marked' : x \in marked \/ (pc[c] = "mark" /\ x = work[c].item),
         pc'[c] = "mark" => \E x : x = work'[c].item /\ (OnFeed(x)' \/ Garbled')
  PROVE  FeedInv'
<1>1. ASSUME NEW x \in marked' PROVE Garbled' \/ OnFeed(x)'
  <2>1. CASE x \in marked
    BY <2>1 DEF FeedInv, MarkedOnFeed
  <2>2. CASE pc[c] = "mark" /\ x = work[c].item
    BY <2>2 DEF FeedInv
  <2>3. QED
    BY <2>1, <2>2
<1>2. ASSUME NEW d \in Callers, pc'[d] = "mark"
      PROVE  \E x : x = work'[d].item /\ (OnFeed(x)' \/ Garbled')
  <2>1. CASE d = c
    BY <1>2, <2>1
  <2>2. CASE d # c
    <3>1. work'[d] = work[d] /\ pc[d] = "mark"
      BY <1>2, <2>2, Alone
    <3>2. PICK x : x = work[d].item
      OBVIOUS
    <3>3. OnFeed(x) \/ Garbled
      BY <3>1, <3>2 DEF FeedInv
    <3>4. QED
      BY <3>1, <3>2, <3>3
  <2>3. QED
    BY <2>1, <2>2
<1>3. (\A d \in Callers : pc[d] = "mark" => Garbled \/ OnFeed(work[d].item))'
  BY <1>2
<1>4. MarkedOnFeed'
  BY <1>1 DEF MarkedOnFeed
<1>5. QED
  BY <1>3, <1>4 DEF FeedInv

LEMMA FeedSame ==
  ASSUME UNCHANGED file
  PROVE  /\ Garbled' <=> Garbled
         /\ \A x : OnFeed(x)' <=> OnFeed(x)
         /\ \A i \in 1..Len(feed') : i \in 1..Len(feed) /\ feed'[i] = feed[i]
BY DEF file, Garbled, OnFeed

\* A failed append leaves the caller away from Mark.
LEMMA RaisedNotMarks ==
  ASSUME TypeOK, NEW c \in Callers, Raised(c)
  PROVE  pc'[c] # "mark"
<1>1. CASE Answer(c)
  BY <1>1 DEF Answer, Go, TypeOK
<1>2. CASE work[c].then = "preauth" /\ Then(c)
  BY <1>2 DEF Then, Answer, Go, TypeOK
<1>3. QED
  BY <1>1, <1>2 DEF Raised

LEMMA FeedStep == TypeOK /\ FeedInv /\ [Next]_vars => FeedInv'
<1> SUFFICES ASSUME TypeOK, FeedInv, [Next]_vars PROVE FeedInv'
  OBVIOUS
<1>1. ASSUME UNCHANGED vars PROVE FeedInv'
  BY <1>1 DEF vars, file, FeedInv, MarkedOnFeed, Garbled, OnFeed
<1>2. ASSUME NEW c \in Callers,
             \/ \E r \in Routes : BeginPoll(c, r)
             \/ LogItem(c) \/ Mark(c) \/ EndPoll(c)
      PROVE  FeedInv'
  <2>1. Becomes(c)
    BY <1>2, PollBecomes
  <2>2. /\ UNCHANGED file
        /\ UNCHANGED marked
             \/ (pc[c] = "mark" /\ marked' = marked \cup {work[c].item})
    BY <1>2 DEF BeginPoll, LogItem, Mark, EndPoll
  <2>3. pc'[c] # "mark"
    BY <1>2 DEF BeginPoll, LogItem, Logging, Mark, EndPoll, Answer, Go, TypeOK
  <2>4. QED
    BY <2>1, <2>2, <2>3, FeedSame, FeedKept
<1>3. ASSUME NEW c \in Callers, Nudge(c) \/ Assign(c) \/ Issue(c) \/ ReadHead(c)
      PROVE  FeedInv'
  <2>1. UNCHANGED <<file, marked>>
    BY <1>3 DEF Nudge, Assign, Press, Issue, ReadHead
  <2>2. Becomes(c) /\ pc'[c] # "mark"
    <3>1. CASE Nudge(c) \/ Assign(c)
      <4>1. PICK x \in Due("stalls") \cup Due("scheduling"),
                 then \in {"answer", "issue"} : Press(c, x, then)
        BY <3>1 DEF Nudge, Assign
      <4>2. pc'[c] # "mark"
        BY <4>1 DEF Press, Go, TypeOK
      <4>3. QED
        BY <4>1, <4>2, HandoffTypes, PressBecomes
    <3>2. CASE Issue(c)
      <4>1. pc'[c] # "mark"
        BY <3>2 DEF Issue, Go, TypeOK
      <4>2. QED
        BY <3>2, <4>1, IssueBecomes
    <3>3. CASE ReadHead(c)
      <4>1. pc' = [pc EXCEPT ![c] = "write"] /\ UNCHANGED work
        BY <3>3 DEF ReadHead, Go
      <4>2. QED
        BY <4>1, WorkTypes DEF Becomes, TypeOK
    <3>4. QED
      BY <1>3, <3>1, <3>2, <3>3
  <2>3. QED
    BY <2>1, <2>2, FeedSame, FeedKept
<1>4. ASSUME NEW c \in Callers, RefuseTail(c) PROVE FeedInv'
  <2>1. Becomes(c) /\ pc'[c] # "mark"
    BY <1>4, ThenBecomes, RaisedNotMarks DEF RefuseTail, Raised
  <2>2. UNCHANGED <<file, marked>>
    BY <1>4 DEF RefuseTail
  <2>3. QED
    BY <2>1, <2>2, FeedSame, FeedKept
<1>5. ASSUME NEW c \in Callers, Write(c) PROVE FeedInv'
  <2>1. Becomes(c) /\ UNCHANGED marked
    BY <1>5, ThenBecomes DEF Write
  <2>2. PICK line : line = Entry(c)
    OBVIOUS
  <2>3. /\ line \in Lines /\ line.entry /\ line.item = work[c].item
        /\ feed' = Appended(line)
    BY <1>5, <2>2, EntryType DEF Write
  <2>4. /\ Garbled => Garbled'
        /\ \A x : OnFeed(x) => OnFeed(x)' \/ Garbled'
        /\ OnFeed(line.item)' \/ Garbled'
    BY <2>3, Grows
  <2>5. pc'[c] = "mark" => work'[c] = work[c]
    BY <1>5 DEF Write, Then, Answer, Go, TypeOK
  <2>6. pc'[c] = "mark" => \E x : x = work'[c].item /\ (OnFeed(x)' \/ Garbled')
    BY <2>3, <2>4, <2>5
  <2>7. QED
    BY <2>1, <2>4, <2>6, FeedKept
<1>6. ASSUME NEW c \in Callers, FailWrite(c) PROVE FeedInv'
  <2>1. Becomes(c) /\ UNCHANGED marked /\ pc'[c] # "mark"
    BY <1>6, ThenBecomes, RaisedNotMarks DEF FailWrite, Raised
  <2>2. /\ Garbled => Garbled'
        /\ \A x : OnFeed(x) => OnFeed(x)' \/ Garbled'
    <3>1. CASE UNCHANGED file
      BY <3>1, FeedSame
    <3>2. ASSUME NEW line \in Lines, feed' = Appended(line)
          PROVE  /\ Garbled => Garbled'
                 /\ \A x : OnFeed(x) => OnFeed(x)' \/ Garbled'
      BY <3>2, Grows
    <3>3. GarbledLine \in Lines /\ Entry(c) \in Lines
      BY GarbledType, EntryType
    <3>4. UNCHANGED file \/ \E line \in Lines : feed' = Appended(line)
      BY <1>6, <3>3 DEF FailWrite
    <3>5. QED
      BY <3>1, <3>2, <3>4
  <2>3. QED
    BY <2>1, <2>2, FeedKept
<1>7. ASSUME Restart PROVE FeedInv'
  <2>1. marked' = {} /\ pc' = [d \in Callers |-> "idle"]
    BY <1>7 DEF Restart
  <2>2. QED
    BY <2>1 DEF FeedInv, MarkedOnFeed
<1>8. ASSUME NEW c \in Callers, IssueFails(c) PROVE FeedInv'
  <2>1. Becomes(c) /\ pc'[c] # "mark" /\ UNCHANGED <<file, marked>>
    BY <1>8, IssueFailsBecomes
  <2>2. QED
    BY <2>1, FeedSame, FeedKept
<1>9. QED
  BY <1>1, <1>2, <1>3, <1>4, <1>5, <1>6, <1>7, <1>8 DEF Next, Step

\* What the process takes for logged was written to the feed: a poll marks an
\* item after its append, and an append that failed leaves it to the next
\* poll (str_acts.py:449-451).
THEOREM NothingMarkedUnlogged == Spec => []MarkedOnFeed
<1>1. Init => FeedInv
  BY DEF Init, FeedInv, MarkedOnFeed
<1>2. TypeOK /\ FeedInv /\ [Next]_vars => FeedInv'
  BY FeedStep
<1>3. FeedInv => MarkedOnFeed
  BY DEF FeedInv
<1>4. QED
  BY <1>1, <1>2, <1>3, TypeCorrect, PTL DEF Spec

---------------------------------------------------------------------------
LEMMA CardedStays ==
  ASSUME cards \subseteq cards', NEW x, Carded(x)
  PROVE  Carded(x)'
BY DEF Carded

\* What CardInv needs of a step: cards stay, what is new on the feed is
\* backed, and so is what the request is about to write.
LEMMA CardKept ==
  ASSUME TypeOK, CardInv, NEW c \in Callers, Becomes(c), cards \subseteq cards',
         \A i \in 1..Len(feed') : feed'[i].entry =>
           \/ i \in 1..Len(feed) /\ feed'[i] = feed[i]
           \/ \E x : x = feed'[i].item /\ (x[1] = "preauth" => Carded(x)),
         \E w, at : w = work'[c] /\ at = pc'[c] /\ Backed(w, at)'
  PROVE  CardInv'
<1>1. ASSUME NEW i \in 1..Len(feed'), feed'[i].entry
      PROVE  \E x : x = feed'[i].item /\ (x[1] = "preauth" => Carded(x)')
  <2>1. PICK x : x = feed'[i].item
    OBVIOUS
  <2>2. x[1] = "preauth" => Carded(x)
    <3>1. CASE i \in 1..Len(feed) /\ feed'[i] = feed[i]
      BY <1>1, <2>1, <3>1 DEF CardInv, PreauthBacked, Carded
    <3>2. QED
      BY <1>1, <2>1, <3>1
  <2>3. QED
    BY <2>1, <2>2, CardedStays
<1>2. PreauthBacked'
  BY <1>1 DEF PreauthBacked, Carded
<1>3. ASSUME NEW d \in Callers
      PROVE  \E w, at : w = work'[d] /\ at = pc'[d] /\ Backed(w, at)'
  <2>1. CASE d = c
    BY <2>1
  <2>2. CASE d # c
    <3>1. PICK w, at : w = work[d] /\ at = pc[d]
      OBVIOUS
    <3>2. work'[d] = w /\ pc'[d] = at
      BY <2>2, <3>1, Alone
    <3>3. Backed(w, at)
      BY <3>1 DEF CardInv
    <3>4. Backed(w, at)'
      BY <3>3, CardedStays DEF Backed, Reassigned
    <3>5. QED
      BY <3>2, <3>4
  <2>3. QED
    BY <2>1, <2>2
<1>4. (\A d \in Callers : Backed(work[d], pc[d]))'
  BY <1>3
<1>5. QED
  BY <1>2, <1>4 DEF CardInv

\* After an append, or in place of one, a request is still backed.
LEMMA ThenBacked ==
  ASSUME TypeOK, CardInv, NEW c \in Callers, pc[c] \in {"head", "write"},
         Then(c) \/ Answer(c), UNCHANGED cards
  PROVE  \E w, at : w = work'[c] /\ at = pc'[c] /\ Backed(w, at)'
<1>1. PICK v : v = work[c]
  OBVIOUS
<1>2. /\ v \in Work
      /\ v.then = "issue" => Reassigned(v.item)
      /\ v.then = "preauth" => Carded(v.item)
  BY <1>1, WorkTypes DEF CardInv, Backed
<1>3. CASE Answer(c)
  <2>1. pc'[c] = "idle"
    BY <1>3 DEF Answer, Go, TypeOK
  <2>2. PICK w, at : w = work'[c] /\ at = pc'[c]
    OBVIOUS
  <2>3. QED
    BY <2>1, <2>2 DEF Backed
<1>4. CASE /\ work[c].then \in {"mark", "issue"} /\ Go(c, work[c].then)
           /\ UNCHANGED work
  <2>1. work'[c] = v /\ pc'[c] = v.then
    BY <1>1, <1>4 DEF Go, TypeOK
  <2>2. Backed(v, v.then)'
    BY <1>1, <1>2, <1>4 DEF Backed, Reassigned
  <2>3. QED
    BY <2>1, <2>2
<1>5. CASE /\ work[c].then = "preauth" /\ Go(c, "head")
           /\ work' = [work EXCEPT ![c].item = <<"preauth", @[2], @[3]>>,
                                   ![c].then = "answer"]
  <2>1. PICK x : x = <<"preauth", v.item[2], v.item[3]>>
    OBVIOUS
  <2>2. PICK w : w = [v EXCEPT !.item = x, !.then = "answer"]
    OBVIOUS
  <2>3. work'[c] = w /\ pc'[c] = "head"
    BY <1>1, <1>5, <2>1, <2>2 DEF Go, TypeOK
  <2>4. w.item = x /\ w.then = "answer"
    BY <1>2, <2>2 DEF Work
  <2>5. Carded(v.item) /\ x[2] = v.item[2]
    BY <1>1, <1>2, <1>5, <2>1
  <2>6. Carded(x)'
    BY <2>5 DEF Carded
  <2>7. Backed(w, "head")'
    BY <2>4, <2>6 DEF Backed
  <2>8. QED
    BY <2>3, <2>7
<1>6. QED
  BY <1>3, <1>4, <1>5 DEF Then

\* The handoffs polls log, and those a reassignment is pressed for.
LEMMA DueBacked ==
  ASSUME NEW x
  PROVE  /\ x \in AllDue \cup Due("stalls") \cup Due("scheduling") => x[1] # "preauth"
         /\ x \in Due("scheduling") => Board[x[2]][Clean] = "blocked"
<1>1. Due("stalls") \subseteq {"stalls"} \X Props \X (0..4)
  <2>1. \A h \in Stalls(Board) : h.prop \in Props /\ h.stage \in 0..4
    BY BoardAssumption DEF Stalls, Boards, TurnoverStages
  <2>2. QED
    BY <2>1 DEF Due
<1>2. x \in Due("scheduling") => x[1] = "scheduling" /\ Board[x[2]][Clean] = "blocked"
  <2>1. \A h \in Stalls(Board) : Board[h.prop][h.stage] = "blocked"
    BY BoardAssumption DEF Stalls, Boards, TurnoverStages
  <2>2. x \in Due("scheduling") =>
          \E h \in Stalls(Board) : h.stage = Clean /\ x = <<"scheduling", h.prop, h.stage>>
    BY DEF Due
  <2>3. QED
    BY <2>1, <2>2
<1>3. QED
  BY <1>1, <1>2, DueTypes

LEMMA PressBacked ==
  ASSUME TypeOK, NEW c \in Callers, NEW x \in Items,
         NEW then \in {"answer", "issue"}, Press(c, x, then),
         x[1] # "preauth", then = "issue" => Reassigned(x)
  PROVE  \E w, at : w = work'[c] /\ at = pc'[c] /\ Backed(w, at)'
<1>1. PICK r \in Replies :
        work' = [work EXCEPT ![c].item = x, ![c].reply = r, ![c].then = then]
  BY DEF Press
<1>2. PICK v : v = work[c]
  OBVIOUS
<1>3. PICK w : w = [v EXCEPT !.item = x, !.reply = r, !.then = then]
  OBVIOUS
<1>4. work'[c] = w /\ pc'[c] = "head"
  BY <1>1, <1>2, <1>3 DEF Press, Go, TypeOK
<1>5. v \in Work
  BY <1>2, WorkTypes
<1>6. w.item = x /\ w.then = then
  BY <1>3, <1>5 DEF Work
<1>7. Backed(w, "head")'
  BY <1>6 DEF Backed, Reassigned
<1>8. QED
  BY <1>4, <1>7

LEMMA IssueBacked ==
  ASSUME TypeOK, CardInv, NEW c \in Callers, Issue(c)
  PROVE  /\ cards \subseteq cards'
         /\ \E w, at : w = work'[c] /\ at = pc'[c] /\ Backed(w, at)'
<1>1. PICK v : v = work[c]
  OBVIOUS
<1>2. v \in Work /\ v.item \in Items /\ Reassigned(v.item)
  BY <1>1, WorkTypes DEF CardInv, Backed, Issue
<1>3. PICK x : x = <<"issue", v.item[2], v.item[3]>>
  OBVIOUS
<1>4. PICK w : w = [v EXCEPT !.item = x, !.then = "preauth"]
  OBVIOUS
<1>5. work'[c] = w /\ pc'[c] = "head"
  BY <1>1, <1>3, <1>4 DEF Issue, Go, TypeOK
<1>6. w.item = x /\ w.then = "preauth"
  BY <1>2, <1>4 DEF Work
<1>7. PICK p, ks : p = v.item[2] /\ ks = Suggested(Assigned[p], Free)
  OBVIOUS
<1>8. PICK k \in ks : k \in Free \ {Assigned[p]}
  BY <1>2, <1>7 DEF Reassigned, Suggested
<1>9. cards' = cards \cup {<<p, j>> : j \in ks}
  BY <1>1, <1>7 DEF Issue, Card
<1>10. <<p, k>> \in cards' /\ cards \subseteq cards'
  BY <1>8, <1>9
<1>11. x[2] = p /\ Board[p][Clean] = "blocked"
  BY <1>2, <1>3, <1>7 DEF Reassigned
<1>12. Carded(x)'
  BY <1>8, <1>10, <1>11 DEF Carded
<1>13. Backed(w, "head")'
  BY <1>3, <1>6, <1>12 DEF Backed
<1>14. QED
  BY <1>5, <1>10, <1>13

\* A line that an append adds is backed when its entry is.
LEMMA AppendBacked ==
  ASSUME TypeOK, CardInv, NEW c \in Callers, pc[c] = "write",
         NEW line \in Lines, feed' = Appended(line),
         line = GarbledLine \/ line = Entry(c)
  PROVE  \A i \in 1..Len(feed') : feed'[i].entry =>
           \/ i \in 1..Len(feed) /\ feed'[i] = feed[i]
           \/ \E x : x = feed'[i].item /\ (x[1] = "preauth" => Carded(x))
<1>1. line.entry => \E x : x = line.item /\ (x[1] = "preauth" => Carded(x))
  BY GarbledType, EntryType DEF CardInv, Backed
<1>2. \A i \in 1..Len(feed') : feed'[i].entry =>
        feed'[i] = line \/ (i \in 1..Len(feed) /\ feed'[i] = feed[i])
  BY Grows
<1>3. QED
  BY <1>1, <1>2

LEMMA CardStep == TypeOK /\ CardInv /\ [Next]_vars => CardInv'
<1> SUFFICES ASSUME TypeOK, CardInv, [Next]_vars PROVE CardInv'
  OBVIOUS
<1>1. ASSUME UNCHANGED vars PROVE CardInv'
  BY <1>1 DEF vars, file, CardInv, PreauthBacked, Backed, Reassigned, Carded
<1>2. ASSUME NEW c \in Callers,
             \/ \E r \in Routes : BeginPoll(c, r)
             \/ LogItem(c) \/ Mark(c) \/ EndPoll(c)
      PROVE  CardInv'
  <2>1. Becomes(c) /\ UNCHANGED file /\ UNCHANGED cards
    BY <1>2, PollBecomes DEF BeginPoll, LogItem, Mark, EndPoll
  <2>2. \E w, at : w = work'[c] /\ at = pc'[c] /\ Backed(w, at)'
    <3>1. CASE LogItem(c)
      <4>1. PICK x \in work[c].todo, r \in Replies : Logging(c, x, r)
        BY <3>1 DEF LogItem
      <4>2. PICK w : w = [todo |-> {y \in work[c].todo : y # x /\ Before(x, y)},
                          item |-> x, reply |-> r, then |-> "mark"]
        OBVIOUS
      <4>3. work'[c] = w /\ pc'[c] = "head" /\ w.item = x /\ w.then = "mark"
        BY <4>1, <4>2 DEF Logging, Go, TypeOK
      <4>4. x[1] # "preauth"
        BY WorkTypes, DueBacked
      <4>5. Backed(w, "head")'
        BY <4>3, <4>4 DEF Backed
      <4>6. QED
        BY <4>3, <4>5
    <3>2. CASE ~LogItem(c)
      <4>1. pc'[c] \in {"next", "idle"}
        BY <1>2, <3>2 DEF BeginPoll, Mark, EndPoll, Answer, Go, TypeOK
      <4>2. PICK w, at : w = work'[c] /\ at = pc'[c]
        OBVIOUS
      <4>3. QED
        BY <4>1, <4>2 DEF Backed
    <3>3. QED
      BY <3>1, <3>2
  <2>3. QED
    BY <2>1, <2>2, FeedSame, CardKept
<1>3. ASSUME NEW c \in Callers, Nudge(c) \/ Assign(c) PROVE CardInv'
  <2>1. PICK x \in Due("stalls") \cup Due("scheduling"),
             then \in {"answer", "issue"} :
               /\ Press(c, x, then)
               /\ then = "issue" =>
                    x \in Due("scheduling") /\ Suggested(Assigned[x[2]], Free) # {}
    BY <1>3 DEF Nudge, Assign
  <2>2. x \in Items /\ x[1] # "preauth" /\ (then = "issue" => Reassigned(x))
    BY <2>1, HandoffTypes, DueBacked DEF Reassigned
  <2>3. UNCHANGED <<file, cards>>
    BY <2>1 DEF Press
  <2>4. QED
    BY <2>1, <2>2, <2>3, PressBecomes, PressBacked, FeedSame, CardKept
<1>4. ASSUME NEW c \in Callers, Issue(c) PROVE CardInv'
  <2>1. UNCHANGED file
    BY <1>4 DEF Issue
  <2>2. QED
    BY <1>4, <2>1, IssueBecomes, IssueBacked, FeedSame, CardKept
<1>5. ASSUME NEW c \in Callers, ReadHead(c) PROVE CardInv'
  <2>1. /\ pc[c] = "head" /\ pc' = [pc EXCEPT ![c] = "write"]
        /\ UNCHANGED work /\ UNCHANGED file /\ UNCHANGED cards
    BY <1>5 DEF ReadHead, Go
  <2>2. Becomes(c) /\ pc'[c] = "write"
    BY <2>1, WorkTypes DEF Becomes, TypeOK
  <2>3. PICK w : w = work[c]
    OBVIOUS
  <2>4. Backed(w, "write")'
    BY <2>1, <2>3 DEF CardInv, Backed, Reassigned, Carded
  <2>5. QED
    BY <2>1, <2>2, <2>3, <2>4, FeedSame, CardKept
<1>6. ASSUME NEW c \in Callers, RefuseTail(c) PROVE CardInv'
  <2>1. /\ pc[c] = "head" /\ UNCHANGED file /\ UNCHANGED cards
        /\ Then(c) \/ Answer(c)
    BY <1>6 DEF RefuseTail, Raised
  <2>2. QED
    BY <2>1, ThenBecomes, ThenBacked, FeedSame, CardKept
<1>7. ASSUME NEW c \in Callers, Write(c) \/ FailWrite(c) PROVE CardInv'
  <2>1. pc[c] = "write" /\ UNCHANGED cards /\ (Then(c) \/ Answer(c))
    BY <1>7 DEF Write, FailWrite, Raised
  <2>2. \A i \in 1..Len(feed') : feed'[i].entry =>
          \/ i \in 1..Len(feed) /\ feed'[i] = feed[i]
          \/ \E x : x = feed'[i].item /\ (x[1] = "preauth" => Carded(x))
    <3>1. UNCHANGED file \/ feed' = Appended(GarbledLine) \/ feed' = Appended(Entry(c))
      BY <1>7 DEF Write, FailWrite
    <3>2. ASSUME feed' = Appended(GarbledLine) \/ feed' = Appended(Entry(c))
          PROVE  \E line \in Lines :
                   /\ feed' = Appended(line)
                   /\ line = GarbledLine \/ line = Entry(c)
      BY <3>2, GarbledType, EntryType
    <3>3. CASE UNCHANGED file
      BY <3>3, FeedSame
    <3>4. QED
      BY <2>1, <3>1, <3>2, <3>3, AppendBacked
  <2>3. QED
    BY <2>1, <2>2, ThenBecomes, ThenBacked, CardKept
<1>8. ASSUME Restart PROVE CardInv'
  <2>1. /\ pc' = [d \in Callers |-> "idle"] /\ UNCHANGED feed /\ UNCHANGED cards
    BY <1>8 DEF Restart, file
  <2>2. PreauthBacked'
    BY <2>1 DEF CardInv, PreauthBacked
  <2>3. (\A d \in Callers : Backed(work[d], pc[d]))'
    BY <2>1 DEF Backed
  <2>4. QED
    BY <2>2, <2>3 DEF CardInv
<1>9. ASSUME NEW c \in Callers, IssueFails(c) PROVE CardInv'
  <2>1. Becomes(c) /\ pc'[c] = "idle" /\ cards \subseteq cards' /\ UNCHANGED file
    BY <1>9, IssueFailsBecomes
  <2>2. PICK w : w = work'[c]
    OBVIOUS
  <2>3. Backed(w, "idle")'
    BY DEF Backed
  <2>4. QED
    BY <2>1, <2>2, <2>3, FeedSame, CardKept
<1>10. QED
  BY <1>1, <1>2, <1>3, <1>4, <1>5, <1>6, <1>7, <1>8, <1>9 DEF Next, Step

\* A pre-authorization is logged after its card, for a cleaning that is
\* blocked and a free cleaner other than the one assigned to it
\* (str_acts.py:537-558, payments/issuing.py:128-153).
THEOREM CardsBeforeTheirLog == Spec => []PreauthBacked
<1>1. Init => CardInv
  BY DEF Init, CardInv, PreauthBacked, Backed
<1>2. TypeOK /\ CardInv /\ [Next]_vars => CardInv'
  BY CardStep
<1>3. CardInv => PreauthBacked
  BY DEF CardInv
<1>4. QED
  BY <1>1, <1>2, <1>3, TypeCorrect, PTL DEF Spec
---------------------------------------------------------------------------
\* The lines a process that polled wrote about an item.
PollLines(f, x, b) ==
  {i \in 1..Len(f) : f[i].entry /\ f[i].poll /\ f[i].item = x /\ f[i].boot = b}

\* Those that no later append can spoil: a line without its newline will be.
Lasting(x) ==
  IF closed THEN PollLines(feed, x, boots)
  ELSE PollLines(feed, x, boots) \ {Len(feed)}

\* The requests that may still log an item in this process: once it is marked,
\* those about to append it; before, all but those about to mark it.
MayLog(c, x) ==
  IF x \in marked
  THEN pc[c] \in {"head", "write"} /\ work[c].then = "mark" /\ work[c].item = x
  ELSE ~(pc[c] = "mark" /\ work[c].item = x)

Loggers(x) == {c \in Callers : MayLog(c, x)}

\* Every line an item has costs one of the requests that may log it.
FloodInv ==
  /\ \A i \in 1..Len(feed) : feed[i].entry => feed[i].boot <= boots
  /\ \A x \in AllDue :
       Cardinality(Lasting(x)) + Cardinality(Loggers(x)) <= Cardinality(Callers)
  /\ \A x \in AllDue, b \in 1..boots :
       Cardinality(PollLines(feed, x, b)) <= Cardinality(Callers)

LEMMA FiniteHere ==
  /\ \A f, x, b : Len(f) \in Nat => IsFiniteSet(PollLines(f, x, b))
  /\ \A x : IsFiniteSet(Loggers(x)) /\ IsFiniteSet(Loggers(x)')
<1>1. ASSUME NEW f, NEW x, NEW b, Len(f) \in Nat
      PROVE  IsFiniteSet(PollLines(f, x, b))
  <2>1. IsFiniteSet(1..Len(f))
    BY <1>1, FS_Interval
  <2>2. PollLines(f, x, b) \subseteq 1..Len(f)
    BY DEF PollLines
  <2>3. QED
    BY <2>1, <2>2, FS_Subset
<1>2. ASSUME NEW x PROVE IsFiniteSet(Loggers(x)) /\ IsFiniteSet(Loggers(x)')
  <2>1. Loggers(x) \subseteq Callers /\ Loggers(x)' \subseteq Callers
    BY DEF Loggers
  <2>2. QED
    BY <2>1, CallersAssumption, FS_Subset
<1>3. QED
  BY <1>1, <1>2

\* What an append does to the lines of an item.
LEMMA AppendCounts ==
  ASSUME TypeOK, NEW line \in Lines, feed' = Appended(line), NEW x, NEW b
  PROVE  /\ closed =>
              /\ Len(feed') = Len(feed) + 1
              /\ PollLines(feed', x, b) \subseteq
                   PollLines(feed, x, b) \cup {Len(feed) + 1}
              /\ ~(line.entry /\ line.poll /\ line.item = x /\ line.boot = b) =>
                   PollLines(feed', x, b) \subseteq PollLines(feed, x, b)
         /\ ~closed =>
              /\ Len(feed') = Len(feed)
              /\ PollLines(feed', x, b) \subseteq PollLines(feed, x, b) \ {Len(feed)}
<1>1. feed \in Seq(Lines) /\ Len(feed) \in Nat /\ (~closed => feed # <<>>)
  BY DEF TypeOK
<1>2. CASE closed
  <2>1. feed' = Append(feed, line)
    BY <1>2 DEF Appended
  <2>2. /\ Len(feed') = Len(feed) + 1
        /\ \A i \in 1..Len(feed) : feed'[i] = feed[i]
        /\ feed'[Len(feed) + 1] = line
    BY <1>1, <2>1
  <2>3. \A i \in 1..Len(feed') : i = Len(feed) + 1 \/ i \in 1..Len(feed)
    BY <1>1, <2>2
  <2>4. QED
    BY <1>2, <2>2, <2>3 DEF PollLines
<1>3. CASE ~closed
  <2>1. feed' = [feed EXCEPT ![Len(feed)] = GarbledLine]
    BY <1>3 DEF Appended
  <2>2. Len(feed) \in 1..Len(feed)
    BY <1>1, <1>3
  <2>3. /\ Len(feed') = Len(feed) /\ feed'[Len(feed)] = GarbledLine
        /\ \A i \in 1..Len(feed) : i # Len(feed) => feed'[i] = feed[i]
    BY <1>1, <1>3, <2>1, <2>2, GarbledType
  <2>4. QED
    BY <1>3, <2>3, GarbledType DEF PollLines
<1>4. QED
  BY <1>2, <1>3

\* One more line for one caller less.
LEMMA CountKept ==
  ASSUME NEW P, NEW Q, NEW R, NEW S, NEW N \in Nat, NEW n, NEW c,
         IsFiniteSet(P), IsFiniteSet(Q), IsFiniteSet(R), IsFiniteSet(S),
         Cardinality(P) + Cardinality(R) <= N, S \subseteq R,
         Q \subseteq P \/ (Q \subseteq P \cup {n} /\ c \in R)
  PROVE  /\ Q \subseteq P \/ c \notin S => Cardinality(Q) + Cardinality(S) <= N
         /\ Cardinality(Q) <= N
<1>1. /\ Cardinality(P) \in Nat /\ Cardinality(Q) \in Nat
      /\ Cardinality(R) \in Nat /\ Cardinality(S) \in Nat
  BY FS_CardinalityType
<1>2. Cardinality(S) <= Cardinality(R)
  BY FS_Subset
<1>3. CASE Q \subseteq P
  <2>1. Cardinality(Q) <= Cardinality(P)
    BY <1>3, FS_Subset
  <2>2. QED
    BY <1>1, <1>2, <2>1
<1>4. CASE Q \subseteq P \cup {n} /\ c \in R
  <2>1. PICK T : T = P \cup {n}
    OBVIOUS
  <2>2. IsFiniteSet(T) /\ Cardinality(T) <= Cardinality(P) + 1
    <3>1. /\ IsFiniteSet(T)
          /\ Cardinality(T) = IF n \in P THEN Cardinality(P) ELSE Cardinality(P) + 1
      BY <2>1, FS_AddElement
    <3>2. QED
      BY <1>1, <3>1
  <2>3. Cardinality(Q) <= Cardinality(T) /\ Cardinality(T) \in Nat
    BY <1>4, <2>1, <2>2, FS_Subset, FS_CardinalityType
  <2>4. PICK U : U = R \ {c}
    OBVIOUS
  <2>5. IsFiniteSet(U) /\ Cardinality(U) = Cardinality(R) - 1
    BY <1>4, <2>4, FS_RemoveElement
  <2>6. Cardinality(U) \in Nat
    BY <2>5, FS_CardinalityType
  <2>7. c \notin S => Cardinality(S) <= Cardinality(U)
    BY <2>4, <2>5, FS_Subset
  <2>8. Cardinality(Q) <= N
    BY <1>1, <2>2, <2>3, <2>5, <2>6
  <2>9. c \notin S => Cardinality(Q) + Cardinality(S) <= N
    BY <1>1, <2>2, <2>3, <2>5, <2>6, <2>7
  <2>10. QED
    BY <1>3, <2>8, <2>9
<1>5. QED
  BY <1>3, <1>4

\* What an append keeps of FloodInv: a poll that logs an item was allowed to,
\* and is not any more when its line stays.
LEMMA FloodByAppend ==
  ASSUME TypeOK, TypeOK', FloodInv, boots' = boots,
         \A x \in AllDue : Loggers(x)' \subseteq Loggers(x),
         NEW c \in Callers, NEW line \in Lines, feed' = Appended(line),
         line.entry => line.boot = boots,
         \A x \in AllDue : line.entry /\ line.poll /\ line.item = x =>
           c \in Loggers(x) /\ (closed' => c \notin Loggers(x)')
  PROVE  FloodInv'
<1>1. /\ Len(feed) \in Nat /\ Len(feed') \in Nat /\ boots \in Nat
      /\ Cardinality(Callers) \in Nat
  BY CallersAssumption, FS_CardinalityType DEF TypeOK
<1>2. (\A i \in 1..Len(feed) : feed[i].entry => feed[i].boot <= boots)'
  <2>1. \A i \in 1..Len(feed') : feed'[i].entry =>
          feed'[i] = line \/ (i \in 1..Len(feed) /\ feed'[i] = feed[i])
    BY Grows
  <2>2. ASSUME NEW i \in 1..Len(feed'), feed'[i].entry
        PROVE  feed'[i].boot <= boots
    <3>1. CASE feed'[i] = line
      BY <1>1, <2>2, <3>1
    <3>2. CASE i \in 1..Len(feed) /\ feed'[i] = feed[i]
      BY <2>2, <3>2 DEF FloodInv
    <3>3. QED
      BY <2>1, <2>2, <3>1, <3>2
  <2>3. QED
    BY <2>2
<1>3. ASSUME NEW x \in AllDue
      PROVE  /\ Cardinality(Lasting(x)') + Cardinality(Loggers(x)')
                  <= Cardinality(Callers)
             /\ Cardinality(PollLines(feed', x, boots)) <= Cardinality(Callers)
  <2>1. PICK P, Q, R, S : /\ P = PollLines(feed, x, boots)
                          /\ Q = PollLines(feed', x, boots)
                          /\ R = Loggers(x) /\ S = Loggers(x)'
    OBVIOUS
  <2>2. /\ IsFiniteSet(P) /\ IsFiniteSet(Q) /\ IsFiniteSet(R) /\ IsFiniteSet(S)
        /\ S \subseteq R
    BY <1>1, <2>1, FiniteHere
  <2>3. CASE closed
    <3>1. Cardinality(P) + Cardinality(R) <= Cardinality(Callers)
      BY <2>1, <2>3 DEF FloodInv, Lasting
    <3>2. PICK n : n = Len(feed) + 1
      OBVIOUS
    <3>3. /\ n = Len(feed') /\ Q \subseteq P \cup {n}
          /\ Q \subseteq P \/ (c \in R /\ (closed' => c \notin S))
      BY <2>1, <2>3, <3>2, AppendCounts
    <3>4. /\ Q \subseteq P \/ c \notin S =>
               Cardinality(Q) + Cardinality(S) <= Cardinality(Callers)
          /\ Cardinality(Q) <= Cardinality(Callers)
      <4>1. Q \subseteq P \/ (Q \subseteq P \cup {n} /\ c \in R)
        BY <3>3
      <4>2. PICK N \in Nat : N = Cardinality(Callers)
        BY <1>1
      <4>3. Cardinality(P) + Cardinality(R) <= N
        BY <3>1, <4>2
      <4>4. (Q \subseteq P \/ c \notin S => Cardinality(Q) + Cardinality(S) <= N)
            /\ Cardinality(Q) <= N
        BY <2>2, <4>1, <4>3, CountKept
      <4>5. QED
        BY <4>2, <4>4
    <3>5. CASE closed'
      BY <2>1, <3>3, <3>4, <3>5 DEF Lasting
    <3>6. CASE ~closed'
      <4>1. PICK V : V = Q \ {n}
        OBVIOUS
      <4>2. V \subseteq P /\ IsFiniteSet(V)
        BY <2>2, <3>3, <4>1, FS_Subset
      <4>3. Cardinality(V) + Cardinality(S) <= Cardinality(Callers)
        BY <1>1, <2>2, <3>1, <4>2, CountKept
      <4>4. Lasting(x)' = V
        BY <2>1, <3>3, <3>6, <4>1 DEF Lasting
      <4>5. QED
        BY <2>1, <3>4, <4>3, <4>4
    <3>7. QED
      BY <3>5, <3>6
  <2>4. CASE ~closed
    <3>1. PICK V, W : V = Lasting(x) /\ W = Lasting(x)'
      OBVIOUS
    <3>2. Q \subseteq P \ {Len(feed)} /\ V = P \ {Len(feed)} /\ W \subseteq Q
      BY <2>1, <2>4, <3>1, AppendCounts DEF Lasting
    <3>3. IsFiniteSet(V) /\ IsFiniteSet(W) /\ W \subseteq V
      BY <2>2, <3>2, FS_Subset
    <3>4. Cardinality(V) + Cardinality(R) <= Cardinality(Callers)
      BY <2>1, <3>1 DEF FloodInv
    <3>5. Cardinality(W) + Cardinality(S) <= Cardinality(Callers)
      BY <1>1, <2>2, <3>3, <3>4, CountKept
    <3>6. Cardinality(Q) <= Cardinality(Callers)
      <4>1. Q \subseteq V
        BY <3>2
      <4>2. Cardinality(Q) <= Cardinality(V)
        BY <3>3, <4>1, FS_Subset
      <4>3. Cardinality(Q) \in Nat /\ Cardinality(V) \in Nat /\ Cardinality(R) \in Nat
        BY <2>2, <3>3, FS_CardinalityType
      <4>4. QED
        BY <1>1, <3>4, <4>2, <4>3
    <3>7. QED
      BY <2>1, <3>1, <3>5, <3>6
  <2>5. QED
    BY <2>3, <2>4
<1>4. ASSUME NEW x \in AllDue, NEW b \in 1..boots, b # boots
      PROVE  Cardinality(PollLines(feed', x, b)) <= Cardinality(Callers)
  <2>1. PICK P, Q : P = PollLines(feed, x, b) /\ Q = PollLines(feed', x, b)
    OBVIOUS
  <2>2. IsFiniteSet(P) /\ IsFiniteSet(Q)
    BY <1>1, <2>1, FiniteHere
  <2>3. Q \subseteq P
    BY <1>4, <2>1, AppendCounts
  <2>4. Cardinality(Q) <= Cardinality(P) /\ Cardinality(P) <= Cardinality(Callers)
    BY <2>1, <2>2, <2>3, FS_Subset DEF FloodInv
  <2>5. Cardinality(P) \in Nat /\ Cardinality(Q) \in Nat
    BY <2>2, FS_CardinalityType
  <2>6. QED
    BY <1>1, <2>1, <2>4, <2>5
<1>5. ASSUME NEW x \in AllDue, NEW b \in 1..boots'
      PROVE  Cardinality(PollLines(feed', x, b)) <= Cardinality(Callers)
  BY <1>3, <1>4
<1>6. QED
  BY <1>2, <1>3, <1>5 DEF FloodInv

\* A step that leaves the file alone.
LEMMA FloodByStep ==
  ASSUME TypeOK, FloodInv, UNCHANGED file, boots' = boots,
         \A x \in AllDue : Loggers(x)' \subseteq Loggers(x)
  PROVE  FloodInv'
<1>1. Cardinality(Callers) \in Nat /\ Len(feed) \in Nat
  BY CallersAssumption, FS_CardinalityType DEF TypeOK
<1>2. ASSUME NEW x \in AllDue
      PROVE  Cardinality(Lasting(x)') + Cardinality(Loggers(x)') <= Cardinality(Callers)
  <2>1. PICK P, R, S : P = Lasting(x) /\ R = Loggers(x) /\ S = Loggers(x)'
    OBVIOUS
  <2>2. IsFiniteSet(R) /\ IsFiniteSet(S) /\ S \subseteq R
    BY <2>1, FiniteHere
  <2>3. IsFiniteSet(P)
    <3>1. P \subseteq PollLines(feed, x, boots)
      BY <2>1 DEF Lasting
    <3>2. QED
      BY <1>1, <3>1, FiniteHere, FS_Subset
  <2>4. Lasting(x)' = P
    BY <2>1 DEF Lasting, file
  <2>5. Cardinality(P) + Cardinality(R) <= Cardinality(Callers)
    BY <2>1 DEF FloodInv
  <2>6. QED
    BY <1>1, <2>1, <2>2, <2>3, <2>4, <2>5, CountKept
<1>3. QED
  BY <1>2 DEF FloodInv, file

\* A request comes to log an item only past its check of the marks, and leaves
\* the mark only with the item marked.
LEMMA LoggersShrink ==
  ASSUME TypeOK, NEW c \in Callers, Becomes(c), marked \subseteq marked',
         pc[c] = "mark" => work[c].item \in marked' /\ pc'[c] = "next",
         pc'[c] \in {"head", "write"} /\ work'[c].then = "mark" =>
           \/ pc[c] \in {"head", "write"} /\ work'[c] = work[c]
           \/ work'[c].item \notin marked'
  PROVE  \A x : Loggers(x)' \subseteq Loggers(x)
<1> SUFFICES ASSUME NEW x, NEW d \in Callers, MayLog(d, x)' PROVE MayLog(d, x)
  BY DEF Loggers
<1>1. CASE d # c
  <2>1. work'[d] = work[d] /\ pc'[d] = pc[d]
    BY <1>1, Alone
  <2>2. QED
    BY <2>1 DEF MayLog
<1>2. CASE d = c
  BY <1>2 DEF MayLog
<1>3. QED
  BY <1>1, <1>2

\* The steps after which a request is not in a poll's append.
LEMMA ButtonWork ==
  ASSUME TypeOK, NEW c \in Callers,
         \/ \E x \in Items, then \in {"answer", "issue"} : Press(c, x, then)
         \/ Issue(c)
         \/ Then(c) \/ Answer(c)
  PROVE  pc'[c] \in {"head", "write"} => work'[c].then # "mark"
<1>1. PICK v : v = work[c] /\ v \in Work
  BY WorkTypes
<1>2. ASSUME NEW x \in Items, NEW then \in {"answer", "issue"}, Press(c, x, then)
      PROVE  work'[c].then # "mark"
  <2>1. PICK r \in Replies :
          work' = [work EXCEPT ![c].item = x, ![c].reply = r, ![c].then = then]
    BY <1>2 DEF Press
  <2>2. work'[c] = [v EXCEPT !.item = x, !.reply = r, !.then = then]
    BY <1>1, <2>1 DEF TypeOK
  <2>3. work'[c].then = then
    BY <1>1, <2>2 DEF Work
  <2>4. QED
    BY <2>3
<1>3. ASSUME Issue(c) PROVE work'[c].then # "mark"
  <2>1. PICK x : x = <<"issue", v.item[2], v.item[3]>>
    OBVIOUS
  <2>2. work'[c] = [v EXCEPT !.item = x, !.then = "preauth"]
    BY <1>1, <1>3, <2>1 DEF Issue, TypeOK
  <2>3. work'[c].then = "preauth"
    BY <1>1, <2>2 DEF Work
  <2>4. QED
    BY <2>3
<1>4. ASSUME Then(c), v.then = "preauth" PROVE work'[c].then # "mark"
  <2>1. PICK x : x = <<"preauth", v.item[2], v.item[3]>>
    OBVIOUS
  <2>2. work'[c] = [v EXCEPT !.item = x, !.then = "answer"]
    BY <1>1, <1>4, <2>1 DEF Then, TypeOK
  <2>3. work'[c].then = "answer"
    BY <1>1, <2>2 DEF Work
  <2>4. QED
    BY <2>3
<1>5. ASSUME Answer(c) \/ (Then(c) /\ v.then # "preauth")
      PROVE  pc'[c] \notin {"head", "write"}
  BY <1>1, <1>5 DEF Then, Answer, Go, TypeOK
<1>6. QED
  BY <1>1, <1>2, <1>3, <1>4, <1>5

LEMMA FloodStep == TypeOK /\ TypeOK' /\ FloodInv /\ [Next]_vars => FloodInv'
<1> SUFFICES ASSUME TypeOK, TypeOK', FloodInv, [Next]_vars PROVE FloodInv'
  OBVIOUS
<1>1. CASE UNCHANGED vars
  <2>1. \A x : Loggers(x)' = Loggers(x)
    BY <1>1 DEF vars, Loggers, MayLog
  <2>2. QED
    BY <1>1, <2>1, FloodByStep DEF vars, bounds
<1>2. ASSUME NEW c \in Callers,
             \/ \E r \in Routes : BeginPoll(c, r)
             \/ LogItem(c) \/ Mark(c) \/ EndPoll(c)
      PROVE  FloodInv'
  <2>1. Becomes(c) /\ UNCHANGED file /\ boots' = boots /\ marked \subseteq marked'
    BY <1>2, PollBecomes DEF BeginPoll, LogItem, Mark, EndPoll, bounds
  <2>2. \A x : Loggers(x)' \subseteq Loggers(x)
    <3>1. CASE \E r \in Routes : BeginPoll(c, r)
      <4>1. pc[c] # "mark" /\ pc'[c] = "next"
        BY <3>1 DEF BeginPoll, Go, TypeOK
      <4>2. QED
        BY <2>1, <4>1, LoggersShrink
    <3>2. CASE LogItem(c)
      <4>1. PICK x \in work[c].todo, r \in Replies : Logging(c, x, r) /\ marked' = marked
        BY <3>2 DEF LogItem
      <4>2. /\ x \notin marked' /\ pc[c] # "mark" /\ work'[c].item = x
        BY <4>1 DEF Logging, AtItem, Go, TypeOK
      <4>3. QED
        BY <2>1, <4>2, LoggersShrink
    <3>3. CASE Mark(c)
      <4>1. work[c].item \in marked' /\ pc'[c] = "next"
        BY <3>3 DEF Mark, Go, TypeOK
      <4>2. QED
        BY <2>1, <4>1, LoggersShrink
    <3>4. CASE EndPoll(c)
      <4>1. pc[c] # "mark" /\ pc'[c] = "idle"
        BY <3>4 DEF EndPoll, Answer, Go, TypeOK
      <4>2. QED
        BY <2>1, <4>1, LoggersShrink
    <3>5. QED
      BY <1>2, <3>1, <3>2, <3>3, <3>4
  <2>3. QED
    BY <2>1, <2>2, FloodByStep
<1>3. ASSUME NEW c \in Callers, Nudge(c) \/ Assign(c) \/ Issue(c)
      PROVE  FloodInv'
  <2>1. (\E x \in Items, then \in {"answer", "issue"} : Press(c, x, then)) \/ Issue(c)
    BY <1>3, HandoffTypes DEF Nudge, Assign
  <2>2. Becomes(c)
    BY <2>1, PressBecomes, IssueBecomes
  <2>3. /\ UNCHANGED file /\ boots' = boots /\ marked' = marked /\ pc[c] # "mark"
        /\ pc'[c] = "head"
    BY <2>1 DEF Press, Issue, Go, bounds, TypeOK
  <2>4. work'[c].then # "mark"
    BY <2>1, <2>3, ButtonWork
  <2>5. \A x : Loggers(x)' \subseteq Loggers(x)
    BY <2>2, <2>3, <2>4, LoggersShrink
  <2>6. QED
    BY <2>3, <2>5, FloodByStep
<1>4. ASSUME NEW c \in Callers, ReadHead(c) PROVE FloodInv'
  <2>1. /\ pc[c] = "head" /\ pc' = [pc EXCEPT ![c] = "write"] /\ UNCHANGED work
        /\ UNCHANGED file /\ boots' = boots /\ marked' = marked
    BY <1>4 DEF ReadHead, Go, bounds
  <2>2. Becomes(c)
    BY <2>1, WorkTypes DEF Becomes
  <2>3. \A x : Loggers(x)' \subseteq Loggers(x)
    BY <2>1, <2>2, LoggersShrink
  <2>4. QED
    BY <2>1, <2>3, FloodByStep
<1>5. ASSUME NEW c \in Callers, RefuseTail(c) PROVE FloodInv'
  <2>1. /\ pc[c] = "head" /\ (Then(c) \/ Answer(c))
        /\ UNCHANGED file /\ boots' = boots /\ marked' = marked
    BY <1>5 DEF RefuseTail, Raised, bounds
  <2>2. \A x : Loggers(x)' \subseteq Loggers(x)
    BY <2>1, ThenBecomes, ButtonWork, LoggersShrink
  <2>3. QED
    BY <2>1, <2>2, FloodByStep
<1>6. ASSUME NEW c \in Callers, Write(c) \/ FailWrite(c) PROVE FloodInv'
  <2>1. /\ pc[c] = "write" /\ (Then(c) \/ Answer(c))
        /\ boots' = boots /\ marked' = marked
    BY <1>6 DEF Write, FailWrite, Raised, bounds
  <2>2. \A x : Loggers(x)' \subseteq Loggers(x)
    BY <2>1, ThenBecomes, ButtonWork, LoggersShrink
  <2>3. CASE UNCHANGED file
    BY <2>1, <2>2, <2>3, FloodByStep
  <2>4. CASE feed' = Appended(GarbledLine)
    BY <2>1, <2>2, <2>4, GarbledType, FloodByAppend
  <2>5. CASE feed' = Appended(Entry(c)) /\ (Write(c) \/ ~closed')
    <3>1. PICK line : line = Entry(c)
      OBVIOUS
    <3>2. /\ line \in Lines /\ line.boot = boots /\ line.item = work[c].item
          /\ line.poll <=> work[c].then = "mark"
      BY <3>1, EntryType DEF Entry
    <3>3. ASSUME NEW x \in AllDue, line.poll, line.item = x
          PROVE  c \in Loggers(x) /\ (closed' => c \notin Loggers(x)')
      <4>1. work[c].then = "mark" /\ work[c].item = x
        BY <3>2, <3>3
      <4>2. c \in Loggers(x)
        BY <2>1, <4>1 DEF Loggers, MayLog
      <4>3. closed' => c \notin Loggers(x)'
        <5>1. SUFFICES ASSUME Write(c) PROVE c \notin Loggers(x)'
          BY <2>5
        <5>2. pc'[c] = "mark" /\ work' = work
          BY <4>1, <5>1 DEF Write, Then, Answer, Go, TypeOK
        <5>3. QED
          BY <4>1, <5>2 DEF Loggers, MayLog
      <4>4. QED
        BY <4>2, <4>3
    <3>4. QED
      BY <2>1, <2>2, <2>5, <3>1, <3>2, <3>3, FloodByAppend
  <2>6. QED
    BY <1>6, <2>3, <2>4, <2>5 DEF Write, FailWrite
<1>7. CASE Restart
  <2>1. /\ marked' = {} /\ pc' = [d \in Callers |-> "idle"] /\ boots' = boots + 1
        /\ UNCHANGED file
    BY <1>7 DEF Restart
  <2>2. boots \in Nat /\ Cardinality(Callers) \in Nat
    BY CallersAssumption, FS_CardinalityType DEF TypeOK
  <2>3. \A i \in 1..Len(feed) : feed[i].entry => feed[i].boot <= boots /\ feed[i].boot \in Nat
    <3>1. \A i \in 1..Len(feed) : feed[i] \in Lines
      BY DEF TypeOK
    <3>2. \A line \in Lines : line.boot \in Nat
      BY DEF Lines
    <3>3. QED
      BY <3>1, <3>2 DEF FloodInv
  <2>4. \A x : PollLines(feed, x, boots + 1) = {}
    BY <2>2, <2>3 DEF PollLines
  <2>5. (\A i \in 1..Len(feed) : feed[i].entry => feed[i].boot <= boots)'
    BY <2>1, <2>2, <2>3 DEF file
  <2>6. ASSUME NEW x \in AllDue
        PROVE  Cardinality(Lasting(x)') + Cardinality(Loggers(x)') <= Cardinality(Callers)
    <3>1. Lasting(x)' = {} /\ Loggers(x)' = Callers
      BY <2>1, <2>4 DEF Lasting, Loggers, MayLog, file
    <3>2. QED
      BY <2>2, <3>1, FS_EmptySet
  <2>7. ASSUME NEW x \in AllDue, NEW b \in 1..boots'
        PROVE  Cardinality(PollLines(feed', x, b)) <= Cardinality(Callers)
    <3>1. CASE b = boots + 1
      <4>1. Cardinality(PollLines(feed', x, b)) = 0
        BY <2>1, <2>4, <3>1, FS_EmptySet DEF file
      <4>2. QED
        BY <2>2, <4>1
    <3>2. CASE b \in 1..boots
      BY <2>1, <3>2 DEF FloodInv, file
    <3>3. QED
      BY <2>1, <2>2, <3>1, <3>2
  <2>8. QED
    BY <2>5, <2>6, <2>7 DEF FloodInv
<1>8. ASSUME NEW c \in Callers, IssueFails(c) PROVE FloodInv'
  <2>1. /\ Becomes(c) /\ pc[c] = "issue" /\ pc'[c] = "idle"
        /\ UNCHANGED file /\ boots' = boots /\ marked' = marked
    BY <1>8, IssueFailsBecomes
  <2>2. \A x : Loggers(x)' \subseteq Loggers(x)
    BY <2>1, LoggersShrink
  <2>3. QED
    BY <2>1, <2>2, FloodByStep
<1>9. QED
  BY <1>1, <1>2, <1>3, <1>4, <1>5, <1>6, <1>7, <1>8 DEF Next, Step

\* However many polls overlap, and whatever fails, a process logs an item at
\* most once per thread (str_acts.py:404-462).
THEOREM PollsDoNotFlood == Spec => []FloodBounded
<1>1. Init => FloodInv
  <2> SUFFICES ASSUME Init PROVE FloodInv
    OBVIOUS
  <2>1. Cardinality(Callers) \in Nat
    BY CallersAssumption, FS_CardinalityType
  <2>2. \A x, b : PollLines(feed, x, b) = {}
    BY DEF Init, PollLines
  <2>3. \A x \in AllDue : Lasting(x) = {} /\ Loggers(x) = Callers
    BY <2>2 DEF Init, Lasting, Loggers, MayLog
  <2>4. \A i \in 1..Len(feed) : feed[i].entry => feed[i].boot <= boots
    BY DEF Init
  <2>5. Cardinality({}) = 0
    BY FS_EmptySet
  <2>6. \A x \in AllDue :
          Cardinality(Lasting(x)) + Cardinality(Loggers(x)) <= Cardinality(Callers)
    BY <2>1, <2>3, <2>5
  <2>7. \A x \in AllDue, b \in 1..boots :
          Cardinality(PollLines(feed, x, b)) <= Cardinality(Callers)
    BY <2>1, <2>2, <2>5
  <2>8. QED
    BY <2>4, <2>6, <2>7 DEF FloodInv
<1>2. TypeOK /\ TypeOK' /\ FloodInv /\ [Next]_vars => FloodInv'
  BY FloodStep
<1>3. FloodInv => FloodBounded
  BY DEF FloodInv, FloodBounded, PollLines
<1>4. QED
  BY <1>1, <1>2, <1>3, TypeCorrect, PTL DEF Spec
============================================================================
