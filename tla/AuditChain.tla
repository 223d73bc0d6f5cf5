---------------------------- MODULE AuditChain ----------------------------
(***************************************************************************)
(* The hash-chained JSONL log of agent/audit_log.py, appended to by the    *)
(* sync API routes (one worker thread per request) and by other processes  *)
(* that share the file.  An append reads the head of the chain from the    *)
(* last line of the file, builds an entry on it and writes the entry at    *)
(* the end; nothing locks the file between the two.  interactions_log.py   *)
(* keeps its own file with the same protocol.                              *)
(*                                                                         *)
(* SHA-256 is collision free and every payload carries its own timestamp,  *)
(* so a hash is the number of the entry it was computed for, and Genesis   *)
(* is the number no entry has.                                             *)
(***************************************************************************)
EXTENDS Integers, Sequences

CONSTANTS
  Writers,      \* the threads and processes that append
  MaxEntries,   \* bound on the number of entries built
  Faults,       \* the I/O faults that may happen: "read", "write"
  Lengths       \* FALSE: an entry fits in the 4096 bytes _read_head reads

ASSUME MaxEntriesAssumption == MaxEntries \in Nat
ASSUME FaultsAssumption == Faults \subseteq {"read", "write"}
ASSUME LengthsAssumption == Lengths \subseteq BOOLEAN

VARIABLES
  log,      \* the lines of the file
  closed,   \* the file is empty or ends with a newline
  pc,       \* writer -> "idle", or "head" once it has read the head
  head,     \* writer -> the (prev_hash, seq) it read
  minted,   \* number of entries built so far
  acked,    \* hashes whose append returned to its caller
  outcome   \* writer -> how its last append ended

vars == <<log, closed, pc, head, minted, acked, outcome>>

Genesis == 0

GenesisHead == [hash |-> Genesis, seq |-> 0]

Heads == [hash : Nat, seq : Nat]

\* A line parses as an entry, or it is garbled: json.loads rejects it.
Lines == [entry : BOOLEAN, hash : Nat, prev : Nat, seq : Nat, long : BOOLEAN]

GarbledLine ==
  [entry |-> FALSE, hash |-> Genesis, prev |-> Genesis, seq |-> 0, long |-> FALSE]

\* The last 4096 bytes of the file hold a last line that parses.
TailReadable ==
  log # <<>> => log[Len(log)].entry /\ ~log[Len(log)].long

\* Mutant of HeadOfLog: the number of the last entry is reused.
HeadSameSeq ==
  IF log = <<>>
  THEN GenesisHead
  ELSE [hash |-> log[Len(log)].hash, seq |-> log[Len(log)].seq]

\* What _read_head returns for the tail of the file.
HeadOfLog ==
  IF log = <<>>
  THEN GenesisHead
  ELSE [hash |-> log[Len(log)].hash, seq |-> log[Len(log)].seq + 1]

\* Mutant of Linked: prev_hash is compared only for a number in sequence.
LinkedInSequence(i) ==
  /\ log[i].entry
  /\ log[i].seq = i - 1 =>
       log[i].prev = (IF i = 1 THEN Genesis ELSE log[i-1].hash)

\* verify_chain accepts line i after the lines before it.
Linked(i) ==
  /\ log[i].entry
  /\ log[i].prev = (IF i = 1 THEN Genesis ELSE log[i-1].hash)
  /\ log[i].seq = i - 1

\* verify_chain: walk from genesis, every line parses and links.
ChainVerifies == \A i \in 1..Len(log) : Linked(i)

\* The payload of append_action on the head the writer read.
NewEntry(w, big) ==
  [entry |-> TRUE, hash |-> minted + 1, prev |-> head[w].hash,
   seq |-> head[w].seq, long |-> big]

\* Mutant of Appended: the file is opened for writing.
Rewritten(line) == <<line>>

\* Text written in append mode: a line of its own, or the rest of an
\* unterminated last line, which then no longer parses.
Appended(line) ==
  IF closed
  THEN Append(log, line)
  ELSE [log EXCEPT ![Len(log)] = GarbledLine]

Init ==
  /\ log = <<>>
  /\ closed = TRUE
  /\ pc = [w \in Writers |-> "idle"]
  /\ head = [w \in Writers |-> GenesisHead]
  /\ minted = 0
  /\ acked = {}
  /\ outcome = [w \in Writers |-> "none"]

GotHead(w, h) ==
  /\ pc' = [pc EXCEPT ![w] = "head"]
  /\ head' = [head EXCEPT ![w] = h]
  /\ UNCHANGED <<log, closed, minted, acked, outcome>>

\* _read_head finds an empty file or a last line it can parse.
ReadHead(w) ==
  /\ pc[w] = "idle"
  /\ TailReadable
  /\ GotHead(w, HeadOfLog)

\* _read_head cannot parse what it takes for the last line: RuntimeError.
Refuse(w) ==
  /\ pc[w] = "idle"
  /\ ~TailReadable
  /\ outcome' = [outcome EXCEPT ![w] = "refused"]
  /\ UNCHANGED <<log, closed, pc, head, minted, acked>>

\* seek, tell or read fails: _read_head answers as for an empty file.
ReadFault(w) ==
  /\ "read" \in Faults
  /\ pc[w] = "idle"
  /\ GotHead(w, GenesisHead)

Finish(w, how) ==
  /\ pc' = [pc EXCEPT ![w] = "idle"]
  /\ outcome' = [outcome EXCEPT ![w] = how]
  /\ UNCHANGED head

Building(w) ==
  /\ pc[w] = "head"
  /\ minted < MaxEntries
  /\ minted' = minted + 1

\* The entry and its newline are written; append_action returns.
WriteEntry(w) ==
  /\ Building(w)
  /\ \E big \in Lengths : log' = Appended(NewEntry(w, big))
  /\ closed' = TRUE
  /\ acked' = acked \cup {minted + 1}
  /\ Finish(w, "written")

\* A full disk or a crash cuts the write inside the entry.
WriteTorn(w) ==
  /\ "write" \in Faults
  /\ Building(w)
  /\ log' = Appended(GarbledLine)
  /\ closed' = FALSE
  /\ Finish(w, "failed")
  /\ UNCHANGED acked

\* The cut falls between the entry and its newline.
WriteUnterminated(w) ==
  /\ "write" \in Faults
  /\ Building(w)
  /\ \E big \in Lengths : log' = Appended(NewEntry(w, big))
  /\ closed' = FALSE
  /\ Finish(w, "failed")
  /\ UNCHANGED acked

\* The writer dies, or open or write fails, before any byte is written.
Abandon(w) ==
  /\ pc[w] = "head"
  /\ Finish(w, "failed")
  /\ UNCHANGED <<log, closed, minted, acked>>

Next ==
  \E w \in Writers :
    \/ ReadHead(w)
    \/ Refuse(w)
    \/ ReadFault(w)
    \/ WriteEntry(w)
    \/ WriteTorn(w)
    \/ WriteUnterminated(w)
    \/ Abandon(w)

Spec == Init /\ [][Next]_vars

---------------------------------------------------------------------------
TypeOK ==
  /\ log \in Seq(Lines)
  /\ closed \in BOOLEAN
  /\ log = <<>> => closed
  /\ pc \in [Writers -> {"idle", "head"}]
  /\ head \in [Writers -> Heads]
  /\ minted \in 0..MaxEntries
  /\ acked \subseteq 1..minted
  /\ outcome \in [Writers -> {"none", "written", "failed", "refused"}]

\* Every line parses: no cut write has garbled one.
Parses == \A i \in 1..Len(log) : log[i].entry

\* The entry is built on genesis or on an entry before it, one number up.
RootedAt(i) ==
  \/ log[i].prev = Genesis /\ log[i].seq = 0
  \/ \E j \in 1..(i-1) :
       log[i].prev = log[j].hash /\ log[i].seq = log[j].seq + 1

\* While every line parses, a stale head or a failed read of the head forks the
\* chain and never leaves an entry whose prev_hash is nowhere before it
\* (audit_log.py:105-121).
EntriesRooted == Parses => \A i \in 1..Len(log) : RootedAt(i)

\* Two entries built on the same head.
Forked ==
  \E i, j \in 1..Len(log) : i < j /\ log[i].prev = log[j].prev

\* While every line parses, verify_chain fails exactly when two entries were
\* built on the same head: a fork is never accepted, and nothing else is
\* rejected (audit_log.py:126-169).
BrokenIffForked == Parses => (~ChainVerifies <=> Forked)

\* While every line parses, what append_action returned to a caller can be read
\* back from the file (audit_log.py:98-123).
AckedReadable ==
  Parses => \A h \in acked : \E i \in 1..Len(log) : log[i].hash = h

\* The same after cut writes: an append that is acknowledged is on file.
AckedAlwaysReadable ==
  \A h \in acked : \E i \in 1..Len(log) : log[i].entry /\ log[i].hash = h

\* "Raises RuntimeError on a corrupt tail to avoid silently re-anchoring on
\* genesis" (audit_log.py:51-52): only the first line is built on genesis.
NeverReanchored == \A i \in 1..Len(log) : log[i].prev = Genesis => i = 1

\* The same sentence from the other side: an append is refused only when
\* verify_chain rejects the file.
RefusedOnlyCorrupt ==
  (\E w \in Writers : outcome[w] = "refused") => ~ChainVerifies

\* A file that verify_chain rejects is rejected forever: no later append
\* repairs or hides the first bad line (audit_log.py:126-169).
BrokenForever == [][~ChainVerifies => ~ChainVerifies']_vars

---------------------------------------------------------------------------
\* The lines verify_chain walks before it stops.
Verified == CHOOSE n \in 0..Len(log) :
  /\ \A i \in 1..n : Linked(i)
  /\ n < Len(log) => ~Linked(n + 1)

Ideal == INSTANCE TamperEvidentLog WITH
  Hashes <- 1..MaxEntries,
  history <- [i \in 1..Verified |-> log[i].hash],
  broken <- Verified < Len(log)

\* Whatever the interleaving and the faults, an auditor who reads the file
\* with verify_chain sees a history that only grows and, once it is broken,
\* never changes again.
ImplementsTamperEvidentLog == Ideal!Spec
===========================================================================
