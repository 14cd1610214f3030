------------------------------ MODULE SecHistory ------------------------------
(***************************************************************************)
(* sec_engine.py: the history of a company's metrics as of a cutoff, from  *)
(* the rows of its Company Facts member.                                   *)
(*                                                                         *)
(* The unit of time within a fiscal year is four weeks, so that a quarter  *)
(* of 75 to 105 days is 3, a long one of up to 120 days is 4, and a year   *)
(* of 330 to 380 days is 12 or 13.  A context is [start, end]; an instant  *)
(* has no start, 0.  Rows are named by the filing they are from: the       *)
(* source_observation_id is a digest of the whole row.  Which of two rows  *)
(* of one day has the smaller digest cannot be told, so cumulativeFirst    *)
(* decides it for rows of different lengths.                               *)
(*                                                                         *)
(* Coverage gaps, which list what is missing, are left out.                *)
(***************************************************************************)
EXTENDS Integers, Sequences, SequencesExt, FiniteSets, FiniteSetsExt, Functions

CONSTANTS
  DebtComponents,   \* DEBT of the company
  DebtConfirmed,    \* in DEBT and not in DEBT_QUARANTINED
  Pinned            \* REVENUE_CONCEPTS of the company, or << >>

ASSUME SecHistoryAssumption == IsFiniteSet(DebtComponents)

\* REGISTRY, with the concepts of a metric in their order.
Registry == [
  revenue |-> [kind |-> "flow", concepts |->
    IF Pinned # << >> THEN Pinned
    ELSE <<"RevenueFromContractWithCustomerExcludingAssessedTax", "SalesRevenueNet", "Revenues">>],
  operating_income |-> [kind |-> "flow", concepts |-> <<"OperatingIncomeLoss">>],
  net_income |-> [kind |-> "flow", concepts |-> <<"NetIncomeLoss">>],
  operating_cash_flow |-> [kind |-> "flow", concepts |-> <<"NetCashProvidedByUsedInOperatingActivities">>],
  capital_expenditures |-> [kind |-> "flow", concepts |-> <<"PaymentsToAcquirePropertyPlantAndEquipment">>],
  cash |-> [kind |-> "instant", concepts |-> <<"CashAndCashEquivalentsAtCarryingValue">>],
  total_debt |-> [kind |-> "instant", concepts |-> << >>],
  diluted_shares |-> [kind |-> "weighted", concepts |-> <<"WeightedAverageNumberOfDilutedSharesOutstanding">>],
  free_cash_flow |-> [kind |-> "flow", concepts |-> << >>]]

Metrics == DOMAIN Registry
Concepts(metric) == ToSet(Registry[metric].concepts)
Rank(concept, metric) ==
  CHOOSE i \in DOMAIN Registry[metric].concepts : Registry[metric].concepts[i] = concept

\* A component of the debt is a metric of its own, which is not in the registry.
MetricOf(concept) ==
  IF concept \in DebtComponents THEN concept
  ELSE CHOOSE m \in Metrics : concept \in Concepts(m)
Mapped == DebtComponents \cup UNION {Concepts(m) : m \in Metrics}

FinancialTags == {
  "InterestIncomeExpenseAfterProvisionForLoanLosses", "InterestAndDividendIncomeOperating",
  "PremiumsEarnedNet", "InsurancePremiumsNet", "PolicyholderBenefitsAndClaimsIncurredNet",
  "LoansAndLeasesReceivableNetReportedAmount"}

-----------------------------------------------------------------------------
(* Sources.  A row of the member: [concept, start, end, value, content,    *)
(* unit, form, filed, number], where content says whether the value is a   *)
(* "number", "null", "nonfinite" or "missing", and unit whether it is the  *)
(* unit of the metric.                                                     *)

Forms == {"10-K", "10-K/A", "10-Q", "10-Q/A"}
AnnualForms == {"10-K", "10-K/A"}

\* Mutant of AvailableFrom: on its day.
AvailableThatDay(row) == row.filed

\* A filing of a day is available the next day (DATE_ONLY_NEXT_DAY_ET_V1).
AvailableFrom(row) == row.filed + 1

SourceRows(rows) ==
  {[r EXCEPT !.available = AvailableFrom(r), !.metric = MetricOf(r.concept)] :
     r \in {q \in rows : /\ q.concept \in Mapped /\ q.unit /\ q.form \in Forms
                         /\ q.end <= q.filed /\ q.content \in {"number", "null"}}}

\* A value that is not finite is looked at last, and so whatever else is wrong.
RejectedContexts(rows) ==
  {[r EXCEPT !.available = AvailableFrom(r), !.metric = MetricOf(r.concept)] :
     r \in {q \in rows : /\ q.concept \in Mapped /\ q.unit
                         /\ \/ q.content = "nonfinite"
                            \/ q.content = "missing" /\ q.form \in Forms /\ q.end <= q.filed}}

Quarantined(rows) ==
  (IF DebtConfirmed THEN {} ELSE {"total_debt"})
    \cup (IF \E r \in rows : r.concept \in FinancialTags
          THEN {"revenue", "operating_income", "capital_expenditures", "free_cash_flow", "total_debt"}
          ELSE {})

Length(p) == p.end - p.start + 1
SameContext(a, b) ==
  a.metric = b.metric /\ a.concept = b.concept /\ a.start = b.start /\ a.end = b.end

\* infer_calendar: three cumulative contexts of a year divide it into four quarters.
Flows(observations) == {o \in observations : o.start # 0 /\ o.metric \in Metrics}
YearsOf(flows) == {o \in flows : o.form \in AnnualForms /\ Length(o) \in 12..13}
Since(flows, y) == {o \in flows : o.concept = y.concept /\ o.start = y.start}
InnerEnds(flows, y) == {o.end : o \in Since(flows, y)} \cap (y.start + 1)..(y.end - 1)

\* The day from which all the contexts are known: the first time each was stated, by any form.
FirstStated(flows, y, end) == Min({o.available : o \in {p \in Since(flows, y) : p.end = end}})
KnownFrom(flows, y, trio) == Max({FirstStated(flows, y, e) : e \in trio \cup {y.end}})

\* The long ones of the four, if none is too short or too long.
Boundaries(start, trio, end) == <<start - 1>> \o SetToSortSeq(trio, <) \o <<end>>
Divided(start, trio, end, available) ==
  LET ends == Boundaries(start, trio, end)
      Span(i) == ends[i + 1] - ends[i]
  IN  IF \A i \in 1..4 : Span(i) \in 3..4
      THEN {[start |-> ends[i] + 1, end |-> ends[i + 1], available |-> available] :
              i \in {j \in 1..4 : Span(j) = 4}}
      ELSE {}

LongQuarters(observations) ==
  LET flows == Flows(observations)
  IN  UNION {UNION {Divided(y.start, trio, y.end, KnownFrom(flows, y, trio)) :
                      trio \in kSubset(3, InnerEnds(flows, y))} : y \in YearsOf(flows)}

\* normalize_sources.
Normalize(rows) ==
  [observations |-> SourceRows(rows), rejected |-> RejectedContexts(rows),
   quarantined |-> Quarantined(rows), long |-> LongQuarters(SourceRows(rows))]

QuarterMax(data) == IF data.long = {} THEN 3 ELSE 4
QuarterOk(data, p, cutoff) ==
  \/ Length(p) = 3
  \/ \E q \in data.long : q.start = p.start /\ q.end = p.end /\ q.available <= cutoff

-----------------------------------------------------------------------------
(* Items: [metric, concept, start, end, value, null, available, form, ids, *)
(* terms, formula, parts, turn].  terms are pairs of a source and its      *)
(* coefficient; formula is "REPORTED", "SUM" or "SUBTRACT"; turn orders    *)
(* the insertions.                                                         *)

Visible(data, cutoff, to) ==
  {o \in data.observations : o.available <= cutoff /\ o.end <= to}

Versions(o, rows) ==
  LET group == {r \in rows : SameContext(r, o)}
  IN  {r \in group : \A q \in group : q.available <= r.available}

\* Mutant of Blocked: whenever it is filed.
BlockedEver(data, o, cutoff) ==
  \E r \in data.rejected : SameContext(r, o) /\ r.available >= o.available

\* A rejected row that is not older than the latest version blocks its context.
Blocked(data, o, cutoff) ==
  \E r \in data.rejected : SameContext(r, o) /\ r.available \in o.available..cutoff

Turn(o, rows, cumulativeFirst) ==
  LET seen == Min({r.available : r \in {q \in rows : SameContext(q, o)}})
      later == IF (Length(o) > 4) = cumulativeFirst THEN 0 ELSE 5
  IN  10 * seen + later
        + (IF o.metric \in Metrics THEN Rank(o.concept, o.metric) ELSE 0)

\* One item per context, of its latest version; if two of its rows disagree, none.
Selected(data, cutoff, to, cumulativeFirst) ==
  LET rows == Visible(data, cutoff, to)
      latest == {o \in rows : /\ o \in Versions(o, rows)
                              /\ ~Blocked(data, o, cutoff)
                              /\ \A r \in Versions(o, rows) :
                                   r.value = o.value /\ r.content = o.content}
      chosen == {o \in latest : \A r \in Versions(o, rows) : o.number <= r.number}
  IN  {[metric |-> o.metric, concept |-> o.concept, start |-> o.start, end |-> o.end,
        value |-> o.value, null |-> o.content = "null", available |-> o.available,
        form |-> o.form, ids |-> Versions(o, rows), terms |-> {<<o, 1>>},
        formula |-> "REPORTED", parts |-> << >>,
        turn |-> Turn(o, rows, cumulativeFirst)] : o \in chosen}

Sum(S, f(_)) == FoldSet(LAMBDA x, acc : f(x) + acc, 0, S)
Coefficient(terms, source) ==
  LET of == {t \in terms : t[1] = source} IN Sum(of, LAMBDA t : t[2])

\* calculate.  Terms that cancel are dropped, their sources are not.
Calculate(parts, formula, metric, start, end) ==
  LET Sign(i) == IF formula = "SUM" \/ i = 1 THEN 1 ELSE -1
      ids == UNION {parts[i].ids : i \in DOMAIN parts}
      Weight(source) == Sum(DOMAIN parts, LAMBDA i : Sign(i) * Coefficient(parts[i].terms, source))
  IN  [metric |-> metric,
       concept |-> IF \A i \in DOMAIN parts : parts[i].concept = parts[1].concept
                   THEN parts[1].concept ELSE "DERIVED_MULTIPLE_EXPLICIT_CONCEPTS",
       start |-> start, end |-> end,
       value |-> Sum(DOMAIN parts, LAMBDA i : Sign(i) * parts[i].value),
       null |-> FALSE, available |-> Max({parts[i].available : i \in DOMAIN parts}),
       form |-> "DERIVED", ids |-> ids,
       terms |-> {t \in {<<source, Weight(source)>> : source \in ids} : t[2] # 0},
       formula |-> formula, parts |-> parts, turn |-> parts[1].turn]

Nonnegative == {"capital_expenditures", "diluted_shares"}
Usable(item) == ~item.null /\ (item.metric \in Nonnegative => item.value >= 0)

\* The item a cumulative flow is reduced by to give a quarter: there must be one.
Priors(data, item, selected) ==
  {p \in selected : /\ p.metric = item.metric /\ p.concept = item.concept
                    /\ p.start = item.start /\ p.end < item.end
                    /\ item.end - p.end \in 3..QuarterMax(data)
                    /\ Usable(p)}

Quarter(item, prior) ==
  Calculate(<<item, prior>>, "SUBTRACT", item.metric, prior.end + 1, item.end)

DerivedQuarters(data, selected, cutoff) ==
  {q \in {Quarter(pair[1], pair[2]) :
            pair \in UNION {{i} \X Priors(data, i, selected) :
              i \in {j \in selected : /\ j.start # 0 /\ Usable(j) /\ j.metric \in Metrics
                                      /\ Registry[j.metric].kind = "flow" /\ Length(j) >= 6
                                      /\ Cardinality(Priors(data, j, selected)) = 1}}} :
     /\ Length(q.parts[2]) \in 3..10
     /\ q.metric = "capital_expenditures" => q.value >= 0
     /\ QuarterOk(data, q, cutoff)}

IsYear(item) == Length(item) \in 12..13 /\ item.form \in AnnualForms

\* Everything that wants to be the value of a period.
Candidates(data, selected, frequency, cutoff) ==
  LET flows == {i \in selected : i.start # 0 /\ Usable(i)}
  IN  IF frequency = "annual" THEN {i \in flows : IsYear(i)}
      ELSE {i \in flows : QuarterOk(data, i, cutoff)} \cup DerivedQuarters(data, selected, cutoff)

\* insert, in turn: candidates that differ leave the period without a value; of equal ones
\* a later one counts only if it is reported in a better concept.
Better(item, existing) ==
  /\ item.formula = "REPORTED" /\ item.metric \in Metrics
  /\ {item.concept, existing.concept} \subseteq Concepts(item.metric)
  /\ Rank(item.concept, item.metric) < Rank(existing.concept, item.metric)
Insert(existing, item) == IF Better(item, existing) THEN item ELSE existing

SamePeriod(a, b) == a.metric = b.metric /\ a.start = b.start /\ a.end = b.end
Rivals(c, candidates) == {d \in candidates : SamePeriod(c, d)}
Kept(rivals) ==
  LET Order(c, d) == c.turn < d.turn \/ (c.turn = d.turn /\ c.formula = "REPORTED"
                                                         /\ d.formula # "REPORTED")
      turns == SetToSortSeq(rivals, Order)
  IN  FoldLeft(Insert, turns[1], Tail(turns))
PeriodValues(candidates) ==
  {c \in candidates : /\ \A d \in Rivals(c, candidates) : d.value = c.value
                      /\ c = Kept(Rivals(c, candidates))}

\* Two contexts of a metric that end together are both dropped, at either frequency, and so
\* is what was derived from their sources.
Overlapping(values) ==
  {v \in values : \E w \in values : v.metric = w.metric /\ v.end = w.end /\ v.start # w.start}
AmbiguousSources(data, selected, cutoff) ==
  UNION {v.ids : v \in UNION {Overlapping(PeriodValues(Candidates(data, selected, f, cutoff))) :
                                f \in {"annual", "quarterly"}}}
Unambiguous(data, selected, frequency, cutoff) ==
  LET values == PeriodValues(Candidates(data, selected, frequency, cutoff))
      ambiguous == AmbiguousSources(data, selected, cutoff)
  IN  {v \in values \ Overlapping(values) :
         v.formula # "REPORTED" => v.ids \cap ambiguous = {}}

\* The periods at which balances are shown: reported or derived for any metric.
Anchors(data, selected, frequency, cutoff, to) ==
  LET rows == {o \in Visible(data, cutoff, to) : o.metric \in Metrics /\ o.start # 0}
  IN  IF frequency = "annual"
      THEN {<<o.start, o.end>> : o \in {r \in rows : IsYear(r)}}
      ELSE {<<o.start, o.end>> : o \in {r \in rows : QuarterOk(data, r, cutoff)}}
             \cup {<<q.start, q.end>> : q \in DerivedQuarters(data, selected, cutoff)}

Instants(selected, metric, end) ==
  {i \in selected : i.metric = metric /\ i.start = 0 /\ i.end = end}

CashAt(selected, end) ==
  LET found == Instants(selected, "cash", end)
  IN  IF Cardinality(found) = 1 THEN {i \in found : ~i.null} ELSE {}

\* Every component must be reported, once, and not below zero.
DebtAt(selected, end) ==
  LET Reported(tag) == {i \in Instants(selected, tag, end) : ~i.null}
      parts == [i \in 1..Cardinality(DebtComponents) |->
                  CHOOSE p \in Reported(SetToSeq(DebtComponents)[i]) : TRUE]
  IN  IF /\ DebtComponents # {} /\ DebtConfirmed
         /\ \A tag \in DebtComponents : \E p \in Reported(tag) : p.value >= 0
      THEN {Calculate(parts, "SUM", "total_debt", 0, end)} ELSE {}

FreeCashFlow(values, anchor) ==
  {Calculate(p, "SUBTRACT", "free_cash_flow", anchor[1], anchor[2]) :
     p \in {x \in values \X values :
       /\ x[1].metric = "operating_cash_flow" /\ x[2].metric = "capital_expenditures"
       /\ \A i \in 1..2 : x[i].start = anchor[1] /\ x[i].end = anchor[2]}}

Periodic(data, frequency, cutoff, to, cumulativeFirst) ==
  LET selected == Selected(data, cutoff, to, cumulativeFirst)
      values == Unambiguous(data, selected, frequency, cutoff)
  IN  values \cup UNION {CashAt(selected, a[2]) \cup DebtAt(selected, a[2])
                           \cup FreeCashFlow(values, a) :
                         a \in Anchors(data, selected, frequency, cutoff, to)}

\* Four quarters in a row, of one concept, that make a year.
TrailingYear(quarters, last) ==
  LET earlier == {q \in quarters : q.metric = last.metric /\ q.end <= last.end}
      four == SubSeq(SetToSortSeq(earlier, LAMBDA a, b : a.end > b.end), 1, 4)
      years == {Reverse(four)}
  IN  {Calculate(y, "SUM", last.metric, y[1].start, last.end) :
         y \in {z \in years : /\ \A i \in 1..3 : z[i + 1].start = z[i].end + 1
                              /\ \A i \in 1..4 : z[i].concept = last.concept
                              /\ last.end - z[1].start + 1 \in 12..13}}

Trailing(quarters) ==
  LET flows == {q \in quarters : q.metric \in Metrics /\ Registry[q.metric].kind = "flow"}
  IN  UNION {TrailingYear(flows, q) :
               q \in {p \in flows :
                        Cardinality({r \in flows : r.metric = p.metric /\ r.end <= p.end}) >= 4}}

Framed(frequency, rows) == IF frequency = "ttm" THEN Trailing(rows) ELSE rows

History(data, frequency, cutoff, to, cumulativeFirst) ==
  LET base == IF frequency = "ttm" THEN "quarterly" ELSE frequency
  IN  {r \in Framed(frequency, Periodic(data, base, cutoff, to, cumulativeFirst)) :
         r.metric \in Metrics \ data.quarantined}
=============================================================================
