--------------------------- MODULE TurnoverFeed ---------------------------
(***************************************************************************)
(* The coordination routes of api/routes/str_acts.py and the interactions  *)
(* feed of agent/interactions_log.py they write.  The pages poll /stalls,  *)
(* /scheduling and /performance every few seconds; a poll logs each item   *)
(* the process has not logged yet and remembers it in a set.  Buttons      *)
(* log a nudge, or reassign a cleaning and issue a card.  Requests run in  *)
(* parallel threads, and nothing locks the set or the file.                *)
(*                                                                         *)
(* An append reads the last line of the file and writes a line of its own. *)
(* The lines are chained by the code of the audit log; what overlapping    *)
(* appends do to a chain is AuditChain's subject and left out here.        *)
(***************************************************************************)
EXTENDS Integers, Sequences, FiniteSets, Turnover

CONSTANTS
  Callers,    \* the threads that serve requests
  Routes,     \* the routes the pages poll
  Props,      \* the properties
  Board,      \* the turnover board
  Assigned,   \* property -> the cleaner on its cleaning
  Free,       \* the cleaners who are free
  Faults,     \* of "refuse", "torn", "unterminated", "issue" and "restart"
  Replies,    \* what the drafts come from: "demo", "hermes", "error"
  MaxButtons, \* bound on the buttons pressed
  MaxMishaps  \* bound on the failing appends and cards and the restarts

ASSUME RoutesAssumption == Routes \subseteq {"stalls", "scheduling", "performance"}
ASSUME BoardAssumption ==
  Props \subseteq Nat /\ Props # {} /\ Board \in Boards(Props)
ASSUME CallersAssumption == IsFiniteSet(Callers)
ASSUME CrewAssumption == Free \subseteq Nat /\ Assigned \in [Props -> Nat]
ASSUME RepliesAssumption ==
  Replies \subseteq {"demo", "hermes", "error"} /\ Replies # {}
ASSUME BoundsAssumption == {MaxButtons, MaxMishaps} \subseteq Nat

VARIABLES
  feed,    \* the lines of the interactions file
  closed,  \* the file is empty or ends with a newline
  marked,  \* _NUDGE_LOGGED, _PERF_LOGGED and _SCHED_LOGGED
  cards,   \* <<property, cleaner>> of the cards issued
  pc,      \* caller -> what its request does next, or "idle"
  work,    \* caller -> the locals of its request
  boots,   \* starts of the process
  buttons, \* buttons pressed
  mishaps  \* appends and cards that failed and restarts

file == <<feed, closed>>
bounds == <<boots, buttons, mishaps>>
vars == <<file, marked, cards, pc, work, bounds>>

Kinds == {"stalls", "scheduling", "performance", "issue", "preauth"}

\* An item is a kind of interaction about a property and a stage, 0 for none.
Items == Kinds \X Props \X (0..4)

Modes == {"demo", "live"}

Lines ==
  [entry : BOOLEAN, item : Items, poll : BOOLEAN, mode : Modes,
   answered : BOOLEAN, boot : Nat]

\* The items a poll of the route goes through.
Due(route) ==
  IF route = "performance" THEN {<<route, p, 0>> : p \in Props}
  ELSE {<<route, h.prop, h.stage>> :
          h \in {h \in Stalls(Board) : route = "scheduling" => h.stage = Clean}}

AllDue == UNION {Due(r) : r \in Routes}

\* then: what follows the append the request is about to make.
Work ==
  [todo : SUBSET AllDue, item : Items, reply : Replies,
   then : {"mark", "answer", "issue", "preauth"}]

\* Items come by property, then by stage.
Before(x, y) == x[2] < y[2] \/ (x[2] = y[2] /\ x[3] <= y[3])

NoItem == CHOOSE x \in Items : TRUE
NoReply == CHOOSE r \in Replies : TRUE

GarbledLine ==
  [entry |-> FALSE, item |-> NoItem, poll |-> FALSE, mode |-> "demo",
   answered |-> FALSE, boot |-> 0]

Garbled == \E i \in 1..Len(feed) : ~feed[i].entry

OnFeed(x) == \E i \in 1..Len(feed) : feed[i].entry /\ feed[i].item = x

\* _read_head: an empty file, or a last line that parses.
TailReadable == feed # <<>> => feed[Len(feed)].entry

\* Text written in append mode joins an unterminated last line.
Appended(line) ==
  IF closed THEN Append(feed, line)
  ELSE [feed EXCEPT ![Len(feed)] = GarbledLine]

\* draft_coordination_nudge and its kin: with a key the draft is labelled
\* live, whether Hermes answered or the call failed and its error was parsed.
Draft(reply) ==
  [mode |-> IF reply = "demo" THEN "demo" ELSE "live",
   answered |-> reply = "hermes"]

Entry(c) ==
  LET w == work[c] IN
  [entry |-> TRUE, item |-> w.item, poll |-> w.then = "mark",
   mode |-> Draft(w.reply).mode, answered |-> Draft(w.reply).answered,
   boot |-> boots]

NoWork == [todo |-> {}, item |-> NoItem, reply |-> NoReply, then |-> "answer"]

Init ==
  /\ feed = <<>>
  /\ closed = TRUE
  /\ marked = {}
  /\ cards = {}
  /\ pc = [c \in Callers |-> "idle"]
  /\ work = [c \in Callers |-> NoWork]
  /\ boots = 1
  /\ buttons = 0
  /\ mishaps = 0

Go(c, point) == pc' = [pc EXCEPT ![c] = point]

Answer(c) ==
  /\ Go(c, "idle")
  /\ work' = [work EXCEPT ![c] = NoWork]

---------------------------------------------------------------------------
\* Polls.

BeginPoll(c, route) ==
  /\ pc[c] = "idle"
  /\ work' = [work EXCEPT ![c].todo = Due(route)]
  /\ Go(c, "next")
  /\ UNCHANGED <<file, marked, cards, bounds>>

\* The item the loop is at, past those that were logged before.
AtItem(c, x) ==
  /\ pc[c] = "next"
  /\ x \in work[c].todo \ marked
  /\ \A y \in work[c].todo \ marked : Before(x, y)

Logging(c, x, r) ==
  /\ AtItem(c, x)
  /\ work' = [work EXCEPT ![c] =
       [todo |-> {y \in work[c].todo : y # x /\ Before(x, y)},
        item |-> x, reply |-> r, then |-> "mark"]]
  /\ Go(c, "head")

\* Mutant of LogItem: the item is marked when its append starts.
MarkAndLog(c) ==
  /\ \E x \in work[c].todo, r \in Replies :
       Logging(c, x, r) /\ marked' = marked \cup {x}
  /\ UNCHANGED <<file, cards, bounds>>

\* The item is drafted and is not in the set: it is to be logged.
LogItem(c) ==
  /\ \E x \in work[c].todo, r \in Replies : Logging(c, x, r)
  /\ UNCHANGED <<file, marked, cards, bounds>>

\* Mutant of Mark: the set is keyed by the property, which no item is.
MarkNothing(c) ==
  /\ pc[c] = "mark"
  /\ work' = [work EXCEPT ![c] = [NoWork EXCEPT !.todo = work[c].todo]]
  /\ Go(c, "next")
  /\ UNCHANGED <<file, marked, cards, bounds>>

Mark(c) ==
  /\ pc[c] = "mark"
  /\ marked' = marked \cup {work[c].item}
  /\ work' = [work EXCEPT ![c] = [NoWork EXCEPT !.todo = work[c].todo]]
  /\ Go(c, "next")
  /\ UNCHANGED <<file, cards, bounds>>

\* Mutant of EndPoll: the loop ends at an item that was logged before.
EndAtLogged(c) ==
  /\ pc[c] = "next"
  /\ work[c].todo # {} => work[c].todo \cap marked # {}
  /\ Answer(c)
  /\ UNCHANGED <<file, marked, cards, bounds>>

EndPoll(c) ==
  /\ pc[c] = "next"
  /\ work[c].todo \subseteq marked
  /\ Answer(c)
  /\ UNCHANGED <<file, marked, cards, bounds>>

---------------------------------------------------------------------------
\* Buttons.

Press(c, x, then) ==
  /\ pc[c] = "idle"
  /\ buttons < MaxButtons
  /\ buttons' = buttons + 1
  /\ \E r \in Replies :
       work' = [work EXCEPT ![c].item = x, ![c].reply = r, ![c].then = then]
  /\ Go(c, "head")
  /\ UNCHANGED <<file, marked, cards, boots, mishaps>>

\* /stalls/nudge: logged whatever was logged before.
Nudge(c) == \E x \in Due("stalls") : Press(c, x, "answer")

\* /scheduling/assign, when a free cleaner is there to take over.
Assign(c) ==
  \E x \in Due("scheduling") :
    /\ Suggested(Assigned[x[2]], Free) # {}
    /\ Press(c, x, "issue")

\* The card of the job and the cleaner: the same one when it is issued again.
Card(c) == {work[c].item[2]} \X Suggested(Assigned[work[c].item[2]], Free)

\* issue_cleaner_card.
Issue(c) ==
  LET x == work[c].item IN
  /\ pc[c] = "issue"
  /\ cards' = cards \cup Card(c)
  /\ work' = [work EXCEPT ![c].item = <<"issue", x[2], x[3]>>,
                          ![c].then = "preauth"]
  /\ Go(c, "head")
  /\ UNCHANGED <<file, marked, bounds>>

\* Mutant of IssueFails: the failure is swallowed, and the card logged.
IssueFailsGoesOn(c) ==
  LET x == work[c].item IN
  /\ pc[c] = "issue"
  /\ "issue" \in Faults
  /\ mishaps < MaxMishaps
  /\ mishaps' = mishaps + 1
  /\ cards' \in {cards, cards \cup Card(c)}
  /\ work' = [work EXCEPT ![c].item = <<"issue", x[2], x[3]>>,
                          ![c].then = "preauth"]
  /\ Go(c, "head")
  /\ UNCHANGED <<file, marked, boots, buttons>>

\* The envelope cannot be signed, and no card is issued; or the card cannot be
\* put on the audit log.  Either ends the request before the feed is told.
IssueFails(c) ==
  /\ pc[c] = "issue"
  /\ "issue" \in Faults
  /\ mishaps < MaxMishaps
  /\ mishaps' = mishaps + 1
  /\ cards' \in {cards, cards \cup Card(c)}
  /\ Answer(c)
  /\ UNCHANGED <<file, marked, boots, buttons>>

---------------------------------------------------------------------------
\* append_interaction.

Then(c) ==
  \/ /\ work[c].then \in {"mark", "issue"}
     /\ Go(c, work[c].then)
     /\ UNCHANGED work
  \/ /\ work[c].then = "preauth"
     /\ work' = [work EXCEPT ![c].item = <<"preauth", @[2], @[3]>>,
                             ![c].then = "answer"]
     /\ Go(c, "head")
  \/ /\ work[c].then = "answer"
     /\ Answer(c)

\* An append that raises ends the request, except the one inside
\* issue_cleaner_card, which is swallowed.
Raised(c) == IF work[c].then = "preauth" THEN Then(c) ELSE Answer(c)

ReadHead(c) ==
  /\ pc[c] = "head"
  /\ TailReadable
  /\ Go(c, "write")
  /\ UNCHANGED <<file, marked, cards, work, bounds>>

\* "interactions chain tail ... is unreadable; refusing to append".
RefuseTail(c) ==
  /\ pc[c] = "head"
  /\ ~TailReadable
  /\ Raised(c)
  /\ UNCHANGED <<file, marked, cards, bounds>>

Write(c) ==
  /\ pc[c] = "write"
  /\ feed' = Appended(Entry(c))
  /\ closed' = TRUE
  /\ Then(c)
  /\ UNCHANGED <<marked, cards, bounds>>

\* The file cannot be opened or written, or the write is cut: inside the
\* entry, or between the entry and its newline.
FailWrite(c) ==
  /\ pc[c] = "write"
  /\ mishaps < MaxMishaps
  /\ mishaps' = mishaps + 1
  /\ \/ "refuse" \in Faults /\ UNCHANGED file
     \/ /\ "torn" \in Faults
        /\ feed' = Appended(GarbledLine)
        /\ closed' = FALSE
     \/ /\ "unterminated" \in Faults
        /\ feed' = Appended(Entry(c))
        /\ closed' = FALSE
  /\ Raised(c)
  /\ UNCHANGED <<marked, cards, boots, buttons>>

\* The process stops and starts again: only the file is left.
Restart ==
  /\ "restart" \in Faults
  /\ mishaps < MaxMishaps
  /\ mishaps' = mishaps + 1
  /\ boots' = boots + 1
  /\ marked' = {}
  /\ pc' = [c \in Callers |-> "idle"]
  /\ work' = [c \in Callers |-> NoWork]
  /\ UNCHANGED <<file, cards, buttons>>

Step(c) ==
  \/ LogItem(c) \/ Mark(c) \/ EndPoll(c)
  \/ Issue(c)
  \/ ReadHead(c) \/ RefuseTail(c) \/ Write(c)

Next ==
  \/ \E c \in Callers :
       \/ \E r \in Routes : BeginPoll(c, r)
       \/ Nudge(c) \/ Assign(c)
       \/ Step(c)
       \/ FailWrite(c) \/ IssueFails(c)
  \/ Restart

Spec == Init /\ [][Next]_vars

\* A request that runs goes on, and every page polls again and again
\* (ui/src/hooks/usePoll.ts:28): its request waits for a thread, no longer.
FairSpec ==
  /\ Spec
  /\ \A c \in Callers : WF_vars(Step(c))
  /\ \A r \in Routes : SF_vars(\E c \in Callers : BeginPoll(c, r))

---------------------------------------------------------------------------
TypeOK ==
  /\ feed \in Seq(Lines)
  /\ closed \in BOOLEAN /\ (feed = <<>> => closed)
  /\ marked \subseteq AllDue
  /\ cards \subseteq Props \X Free
  /\ pc \in [Callers -> {"idle", "next", "head", "write", "mark", "issue"}]
  /\ work \in [Callers -> Work]
  /\ \A c \in Callers :
       /\ pc[c] = "mark" => work[c].then = "mark"
       /\ work[c].then = "mark" => work[c].item \in AllDue
  /\ boots \in 1..(mishaps + 1)
  /\ buttons \in 0..MaxButtons
  /\ mishaps \in 0..MaxMishaps

\* What the process remembers as logged is on the feed, as long as no line is
\* garbled: a poll whose append failed leaves its items to the next poll
\* (str_acts.py:449-451).
MarkedOnFeed == Garbled \/ \A x \in marked : OnFeed(x)

\* "so polling /str/stalls surfaces the coordination agent once without
\* flooding the feed" (str_acts.py:405-406): polls that overlap log an item
\* at most once each, however long the pages go on polling.
FloodBounded ==
  \A x \in AllDue, b \in 1..boots :
    Cardinality({i \in 1..Len(feed) :
      feed[i].entry /\ feed[i].poll /\ feed[i].item = x /\ feed[i].boot = b})
    <= Cardinality(Callers)

\* A card the feed calls pre-authorized was issued, to a free cleaner other
\* than the one whose cleaning is blocked: also when signing the envelope or
\* recording the card fails (str_acts.py:537-558, issuing.py:97-117).
PreauthBacked ==
  \A i \in 1..Len(feed) :
    feed[i].entry /\ feed[i].item[1] = "preauth" =>
      LET p == feed[i].item[2] IN
      /\ Board[p][Clean] = "blocked"
      /\ \E k \in Free \ {Assigned[p]} : <<p, k>> \in cards

\* Every handoff and property gets to the feed, or a line of the feed is
\* garbled and appends may be refused for good.
Surfaced == <>(Garbled \/ \A x \in AllDue : OnFeed(x))

\* "surfaces the coordination agent once" taken at its word, for one process.
SurfacedOnce ==
  \A i, j \in 1..Len(feed) :
    feed[i].entry /\ feed[j].entry /\ feed[i].poll /\ feed[j].poll
      /\ feed[i].item = feed[j].item /\ feed[i].boot = feed[j].boot => i = j

\* "Never raises on a write fault" (interactions_log.py:83).
PollsAnswer ==
  [][\A c \in Callers :
       boots' = boots /\ work[c].then # "preauth" /\ pc[c] \in {"head", "write"}
         => pc'[c] # "idle" \/ (feed' # feed /\ closed')]_vars

\* "a real Hermes call fires per stall when a Nous key is present"
\* (str_acts.py:439-440): an entry in live mode had an answer.
LiveWasAnswered ==
  \A i \in 1..Len(feed) : feed[i].entry /\ feed[i].mode = "live" => feed[i].answered
===========================================================================
