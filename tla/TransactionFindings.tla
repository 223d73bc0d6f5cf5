------------------------ MODULE TransactionFindings ------------------------
(***************************************************************************)
(* The advisory findings of analysis/findings.py over the transactions     *)
(* that ingestion/loader.py loads, on whole amounts and numbered days.  A  *)
(* transaction is a numbered expense of a category that is not tied to revenue; at *)
(* most three vendors recur, so all of them are among the top ones.        *)
(***************************************************************************)
EXTENDS AnomalyDetector, SequencesExt

\* alert_delta_pct and _AMOUNT_TOLERANCE, in percent; the interval windows.
AlertDelta == 20
AmountTolerance == 15
Windows == {<<20, 40>>, <<80, 100>>, <<340, 400>>}

\* Days are numbered in months of 31 days.
Month(d) == (d - 1) \div 31

\* _dedup's key.
SameTransaction(s, t) ==
  s.date = t.date /\ s.vendor = t.vendor /\ s.amount = t.amount

\* The first of equal transactions stays.
_dedup(rows) ==
  Picked(rows, {i \in DOMAIN rows : \A j \in 1..i-1 : ~SameTransaction(rows[i], rows[j])})

load_transactions(rows) == ByDate(_dedup(rows))

\* _newest_period_transactions: those of the latest month with any.
Newest(txns) ==
  Picked(txns, {i \in DOMAIN txns :
                  \A j \in DOMAIN txns : Month(txns[j].date) <= Month(txns[i].date)})

OfVendor(txns, v) == Picked(txns, {i \in DOMAIN txns : txns[i].vendor = v})

AmountSum(s) == Total([i \in DOMAIN s |-> s[i].amount])

---------------------------------------------------------------------------
\* _find_recurring_group: an amount joins the first group whose first amount
\* it is close to, or opens a group.
Close(a, key) == 100 * (IF a < key THEN key - a ELSE a - key) < AmountTolerance * key

GroupKeys(s) ==
  LET open(keys, t) ==
        IF \E key \in ToSet(keys) : Close(t.amount, key) THEN keys
        ELSE Append(keys, t.amount)
  IN  FoldLeft(open, <<>>, s)

Group(s, key) ==
  LET keys == GroupKeys(s)
      first(t) == CHOOSE i \in DOMAIN keys :
                    Close(t.amount, keys[i]) /\ \A j \in 1..i-1 : ~Close(t.amount, keys[j])
  IN  SelectSeq(s, LAMBDA t : keys[first(t)] = key)

\* The average interval of a group falls into a window.
Regular(g) ==
  LET n == Len(g) - 1
  IN  n >= 1 /\ \E win \in Windows :
        LET days == g[n + 1].date - g[1].date IN win[1] * n <= days /\ days <= win[2] * n

\* detect_recurring, for one vendor.
Recurs(s) == \E key \in ToSet(GroupKeys(s)) : Regular(Group(s, key))

---------------------------------------------------------------------------
\* _vendor_category: the most common category.  max over a set takes the
\* first maximum in the set's order, which follows the hash seed of the
\* process: any of them.
MostCommon(s) ==
  LET times(c) == Cardinality({i \in DOMAIN s : s[i].category = c})
      cats == {t.category : t \in ToSet(s)}
  IN  {c \in cats : \A d \in cats : times(d) <= times(c)}

\* A finding names its title, category and the entry, month or day it is
\* about.
Finding(kind, v, category, at) ==
  [title |-> <<kind, v>>, category |-> category, at |-> at]

\* The findings on the entries s of a vendor, each as its kind and place.
Spikes(s) == {<<"spike", s[i].number>> : i \in Flagged(s)}

\* The months whose charges rise over those of the month with charges before.
JumpMonths(s) ==
  LET months == {Month(t.date) : t \in ToSet(s)}
      total(m) == AmountSum(SelectSeq(s, LAMBDA t : Month(t.date) = m))
      rises(m, n) == \* m is the month with charges before n
        /\ m < n /\ \A k \in months : ~(m < k /\ k < n)
        /\ 100 * (total(n) - total(m)) > AlertDelta * total(m)
        /\ total(m) > 0
  IN  {n \in months : \E m \in months : rises(m, n)}

Jumps(s) == IF Recurs(s) THEN {<<"jump", n>> : n \in JumpMonths(s)} ELSE {}

\* The days with several charges of similar amounts.
DuplicateDays(s) ==
  LET on(d) == SelectSeq(s, LAMBDA t : t.date = d)
      alike(g) == Len(g) >= 2 /\ \A t \in ToSet(g) :
                    LET gap == Len(g) * t.amount - AmountSum(g)
                    IN  100 * (IF gap < 0 THEN -gap ELSE gap) < 5 * AmountSum(g)
  IN  {d \in {t.date : t \in ToSet(s)} : alike(on(d))}

Duplicates(s) == {<<"duplicate", d>> : d \in DuplicateDays(s)}

Tops(s) == IF Recurs(s) THEN {<<"top", 0>>} ELSE {}

VendorFindings(s) == Spikes(s) \cup Jumps(s) \cup Duplicates(s) \cup Tops(s)

\* The transactions by vendor.
ByVendor(txns) == {OfVendor(txns, v) : v \in {t.vendor : t \in ToSet(txns)}}

\* find, with category[v] the category a vendor got from _vendor_category.
find(txns, category) ==
  UNION {LET v == s[1].vendor
         IN  {Finding(f[1], v, category[v], f[2]) : f \in VendorFindings(s)}
         : s \in ByVendor(txns)}

Categorizations(txns) ==
  {c \in [{t.vendor : t \in ToSet(txns)} -> {t.category : t \in ToSet(txns)}] :
     \A s \in ByVendor(txns) : c[s[1].vendor] \in MostCommon(s)}
===========================================================================
