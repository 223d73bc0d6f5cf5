--------------------------- MODULE KnowledgeGraph ---------------------------
(***************************************************************************)
(* The vendor graph of gbrain/knowledge_graph.py fed by the invoices that  *)
(* handle_402 scores as they arrive, next to the batch scan of             *)
(* anomaly_detector.py over the same invoices.  Only an invoice that is    *)
(* paid enters the graph; the scan reads every one.  An invoice carries    *)
(* its arrival number.                                                     *)
(***************************************************************************)
EXTENDS AnomalyDetector

CONSTANTS
  Vendors,     \* vendor names, spelled as the graph keeps them
  Amounts,     \* invoice amounts
  MaxDate,     \* bound on the dates
  MaxInvoices  \* bound on the invoices received

ASSUME AmountsAssumption == Amounts \subseteq Nat
ASSUME GraphBoundsAssumption ==
  MaxDate \in Nat /\ MaxInvoices \in Nat

VARIABLES
  payments, \* vendor -> its paid edges, by date
  arrived,  \* the invoices in the order of their arrival
  flagged,  \* arrival numbers that score_invoice flagged on arrival
  paid      \* arrival numbers that were paid and recorded

graphVars == <<payments, arrived, flagged, paid>>

Invoices == [vendor : Vendors, amount : Amounts, date : 1..MaxDate, number : Nat]

AmountsOf(edges) == [i \in DOMAIN edges |-> edges[i].amount]

\* record_payment: append, then sort by date.
Recorded(edges, e) == ByDate(Append(edges, e))

vendor_history(v) == AmountsOf(payments[v])

GraphInit ==
  /\ payments = [v \in Vendors |-> <<>>]
  /\ arrived = <<>>
  /\ flagged = {}
  /\ paid = {}

\* handle_402: an invoice is scored against the vendor's history.  A flagged
\* one is escalated; a clean one that clears the policy and the spend gate is
\* paid and recorded.
Receive(v, a, d, clears) ==
  LET e == [vendor |-> v, amount |-> a, date |-> d, number |-> Len(arrived) + 1]
      odd == IsAnomaly(a, vendor_history(v))
  IN  /\ Len(arrived) < MaxInvoices
      /\ arrived' = Append(arrived, e)
      /\ flagged' = IF odd THEN flagged \cup {e.number} ELSE flagged
      /\ IF clears /\ ~odd
         THEN /\ payments' = [payments EXCEPT ![v] = Recorded(@, e)]
              /\ paid' = paid \cup {e.number}
         ELSE UNCHANGED <<payments, paid>>

GraphNext ==
  \E v \in Vendors, a \in Amounts, d \in 1..MaxDate, clears \in BOOLEAN :
    Receive(v, a, d, clears)

GraphSpec == GraphInit /\ [][GraphNext]_graphVars

---------------------------------------------------------------------------
\* scan's by_vendor: the invoices of a vendor, sorted by date.
by_vendor(v) ==
  LET order == SortedPlaces([i \in DOMAIN arrived |-> arrived[i].date],
                            {i \in DOMAIN arrived : arrived[i].vendor = v})
  IN  [k \in DOMAIN order |-> arrived[order[k]]]

\* scan over all that arrived: the arrival numbers of the anomalies.
scan ==
  UNION {{by_vendor(v)[i].number : i \in Flagged(by_vendor(v))} : v \in Vendors}

\* All invoices came in the order of their dates.
CameByDate ==
  \A i, j \in DOMAIN arrived : i <= j => arrived[i].date <= arrived[j].date

\* Every invoice of the vendor that came before the i-th was paid.
EarlierPaid(i) ==
  \A j \in DOMAIN arrived :
    j < i /\ arrived[j].vendor = arrived[i].vendor => j \in paid

\* While invoices come by date, arrival and batch scan judge an invoice alike
\* up to and including the vendor's first one that is not paid: the first
\* flagged, denied or escalated invoice is in the scan's history and not in the
\* graph's, so from there on the two may part (payment_402_handler.py:97-103,
\* 157-162, knowledge_graph.py:86-87, anomaly_detector.py:97-107).
ScanAgrees ==
  CameByDate =>
    \A i \in DOMAIN arrived : EarlierPaid(i) => (i \in scan <=> i \in flagged)

\* Refuted: an invoice that was never paid is in the scan's history only.
ScanAlwaysAgrees == CameByDate => scan = flagged

\* A material amount outside the range that the lookup step shows is flagged.
\* The converse fails: the range takes the sample deviation, the score the
\* smaller one of the population (knowledge_graph.py:160-167,
\* anomaly_detector.py:57-62).
OutsideIsFlagged ==
  \A v \in Vendors, a \in Amounts :
    LET h == vendor_history(v)
    IN  Len(h) >= 2 /\ Spread(h) > 0 /\ Material(a, h) /\ ~InExpectedRange(a, h)
          => IsAnomaly(a, h)

\* Refuted: between twice the one deviation and twice the other an amount is
\* shown as expected and flagged.
InsideIsUsual ==
  \A v \in Vendors, a \in Amounts :
    LET h == vendor_history(v)
    IN  Len(h) >= 2 /\ InExpectedRange(a, h) => ~IsAnomaly(a, h)

\* With at most five payments on record an amount between two recorded ones is
\* never flagged, so no vendor is escalated for a bill of the size it is used
\* to; with six it may be (anomaly_detector.py:57-62).
RepeatsAreUsual ==
  \A v \in Vendors, a \in Amounts :
    LET h == vendor_history(v)
    IN  \A i, j \in DOMAIN h :
          Len(h) <= 5 /\ a \in h[i]..h[j] => ~IsAnomaly(a, h)
===========================================================================
