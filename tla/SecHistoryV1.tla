----------------------------- MODULE SecHistoryV1 -----------------------------
(***************************************************************************)
(* sec_history.py: the first engine of histories, its releases             *)
(* (build_sec_history_release.py) and the endpoint that serves them        *)
(* (sec_history_api.py).                                                   *)
(*                                                                         *)
(* It selects, compares and derives as sec_engine.py does, of which it is  *)
(* the ancestor, and the operators of SecHistory say how.  It differs in   *)
(* three things: what it distrusts is decided by the company, never by its *)
(* rows; long quarters are a property of one company; and contexts that    *)
(* end together are all kept.                                              *)
(*                                                                         *)
(* Of a release there is one company, and all of its rows are of 2013 or   *)
(* later.  Sizes, and the registry's digest, are left out.                 *)
(***************************************************************************)
EXTENDS SecHistory

CONSTANTS
  LongQuarters120,   \* the company is 0000909832, with quarters of up to 120 days
  LastUnit           \* the last unit of time in which a quarter can start

\* normalize_sources.  That a period ends after its filing is not looked at.
SourceRowsV1(rows) ==
  {[r EXCEPT !.available = AvailableFrom(r), !.metric = MetricOf(r.concept)] :
     r \in {q \in rows : /\ q.concept \in Mapped /\ q.unit /\ q.form \in Forms
                         /\ q.content \in {"number", "null"}}}

RejectedContextsV1(rows) ==
  {[r EXCEPT !.available = AvailableFrom(r), !.metric = MetricOf(r.concept)] :
     r \in {q \in rows : /\ q.concept \in Mapped /\ q.unit
                         /\ q.content = "nonfinite" \/ (q.content = "missing" /\ q.form \in Forms)}}

\* Any context of four units of time is a quarter of the company with long quarters, on any day.
LongContexts ==
  IF LongQuarters120 THEN {[start |-> s, end |-> s + 3, available |-> 0] : s \in 1..LastUnit}
  ELSE {}

NormalizeV1(rows) ==
  [observations |-> SourceRowsV1(rows), rejected |-> RejectedContextsV1(rows),
   quarantined |-> {}, long |-> LongContexts]

-----------------------------------------------------------------------------
(* history.  The latest version of a context, what blocks it and which of  *)
(* equal candidates counts are as in SecHistory.                           *)

SelectedV1(data, cutoff, to, cumulativeFirst) == Selected(data, cutoff, to, cumulativeFirst)

ValuesV1(data, selected, frequency, cutoff) ==
  PeriodValues(Candidates(data, selected, frequency, cutoff))

\* Debt that is not confirmed is a gap at every anchor: DebtAt has none.
PeriodicV1(data, frequency, cutoff, to, cumulativeFirst) ==
  LET selected == SelectedV1(data, cutoff, to, cumulativeFirst)
      values == ValuesV1(data, selected, frequency, cutoff)
  IN  values \cup UNION {CashAt(selected, a[2]) \cup DebtAt(selected, a[2])
                           \cup FreeCashFlow(values, a) :
                         a \in Anchors(data, selected, frequency, cutoff, to)}

\* The last four quarters in the order of their ends, the i-th of them At(i); of those that
\* end together, the one that was inserted first is the earlier.
TrailingYearV1(quarters, last, cumulativeFirst) ==
  LET Before(a, b) ==
        \/ a.end < b.end
        \/ a.end = b.end /\ a.turn < b.turn
        \/ a # b /\ a.end = b.end /\ a.turn = b.turn /\ (a.start < b.start) = cumulativeFirst
      earlier == {q \in quarters : q.metric = last.metric /\ (q = last \/ Before(q, last))}
      At(i) == {q \in earlier : Cardinality({r \in earlier : Before(q, r)}) = 4 - i}
  IN  {Calculate(y, "SUM", last.metric, y[1].start, last.end) :
         y \in {z \in At(1) \X At(2) \X At(3) \X At(4) :
                  /\ \A i \in 1..3 : z[i + 1].start = z[i].end + 1
                  /\ \A i \in 1..4 : z[i].concept = last.concept
                  /\ last.end - z[1].start + 1 \in 12..13}}

TrailingV1(rows, cumulativeFirst) ==
  LET flows == {q \in rows : q.metric \in Metrics /\ Registry[q.metric].kind = "flow"}
  IN  UNION {TrailingYearV1(flows, q, cumulativeFirst) : q \in flows}

HistoryV1(data, frequency, cutoff, to, cumulativeFirst) ==
  IF frequency = "ttm"
  THEN TrailingV1(PeriodicV1(data, "quarterly", cutoff, to, cumulativeFirst), cumulativeFirst)
  ELSE {r \in PeriodicV1(data, frequency, cutoff, to, cumulativeFirst) : r.metric \in Metrics}

-----------------------------------------------------------------------------
(* Releases *)

\* build_sec_history_release: a release knows the past of the oldest of its archives.
ReleaseV1(rows, snapshots) == [data |-> NormalizeV1(rows), maximumAsOf |-> Min(snapshots)]

\* execute: what is refused has no rows.  A row is served with all of its sources.
WithinV1(release, q, today) ==
  /\ q.to <= release.maximumAsOf
  /\ q.cutoff <= Min({release.maximumAsOf, today})
ServedV1(release, q, today, cumulativeFirst) ==
  LET rows == HistoryV1(release.data, q.frequency, q.cutoff, q.to, cumulativeFirst)
  IN  IF WithinV1(release, q, today)
      THEN {[row |-> r, records |-> r.ids \cap release.data.observations] : r \in rows}
      ELSE {}
=============================================================================
