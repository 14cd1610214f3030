---------------------------- MODULE Fundamentals ----------------------------
(***************************************************************************)
(* The annual fundamentals contract of the private registry: which reported *)
(* row stands for a contract field in a fiscal period as of a day, what     *)
(* the field's state is, which totals are derived, and how a second source  *)
(* confirms or contradicts it.                                              *)
(*                                                                         *)
(* A row is one reported fact.  Its filing day gives its availability: a    *)
(* date alone makes it available on the next day.  Rows carry what the      *)
(* contract looks at: the concept, the kind and length of the period, the   *)
(* unit, the value, the accession number and the filing day.                *)
(***************************************************************************)
EXTENDS Integers, Sequences, FiniteSets, SequencesExt

CONSTANTS
  Specs,      \* the reported fields: kind, unit, concepts by priority, and the
              \* concepts that change what the field measures
  Derived,    \* the derived fields: the parts, and the reported total or "none"
  PeriodLimit,\* the number of annual periods of a report
  Slack       \* the rounding slack of a reported total

ReportedFields == DOMAIN Specs
DerivedFields == DOMAIN Derived
\* The concepts of a field are a sequence.  A total has parts that are reported, two of them
\* at least, and may be reported itself.
ASSUME FundamentalsAssumption ==
  /\ \A f \in ReportedFields : DOMAIN Specs[f].concepts \subseteq Nat \ {0}
  /\ \A f \in DerivedFields :
       /\ Derived[f].parts \subseteq ReportedFields
       /\ \E a, b \in Derived[f].parts : a # b
       /\ Derived[f].reported \in ReportedFields \cup {"none"}
FieldIds == ReportedFields \cup DerivedFields

NoValue == -999
NoConcept == "none"
NoAccession == 0
Abs(x) == IF x < 0 THEN -x ELSE x

Row(field, concept, kind, annual, unit, value, period, accession, filed) ==
  [field |-> field, concept |-> concept, kind |-> kind, annual |-> annual, unit |-> unit,
   value |-> value, period |-> period, accession |-> accession, filed |-> filed]

\* A date-only filing is available at the midnight (Eastern) that ends its day, an
\* instant of the next day; the date of a report sorts before the instants of its day.
Available(row, asOf) == row.filed + 1 < asOf
Eligible(rows, asOf) == {r \in rows : Available(r, asOf)}

\* The rank of a concept, 0 when the contract does not name it.
Rank(field, concept) ==
  LET cs == Specs[field].concepts
  IN IF \E i \in DOMAIN cs : cs[i] = concept
     THEN CHOOSE i \in DOMAIN cs : cs[i] = concept ELSE 0

\* The newest annual periods that a duration row shows.
AnnualPeriods(rows) ==
  LET ends == {r.period : r \in {x \in rows : x.kind = "duration" /\ x.annual}}
  IN {p \in ends : Cardinality({q \in ends : q > p}) < PeriodLimit}

Latest(rows) ==
  CHOOSE r \in rows : \A s \in rows :
    s.filed < r.filed \/ (s.filed = r.filed /\ s.accession <= r.accession)

\* The first concept that any row has; within it, the latest filing.
Winner(field, rows) ==
  LET best == CHOOSE i \in {Rank(field, r.concept) : r \in rows} :
                \A r \in rows : i <= Rank(field, r.concept)
  IN Latest({r \in rows : Rank(field, r.concept) = best})

Absent(state, unit) ==
  [state |-> state, value |-> NoValue, concept |-> NoConcept, unit |-> unit,
   accession |-> NoAccession, filed |-> 0, confirmed |-> {}]
Result(state, row) ==
  [state |-> state, value |-> row.value, concept |-> row.concept, unit |-> row.unit,
   accession |-> row.accession, filed |-> row.filed, confirmed |-> {}]

\* Mutant of EvaluateField: what is filed later is eligible too.
EvaluateAhead(field, all, period, asOf) ==
  LET rows == {r \in all : r.field = field /\ r.period = period /\ r.unit = Specs[field].unit}
  IN IF rows = {} THEN Absent("MISSING_OBSERVATION", Specs[field].unit)
     ELSE Result("SOURCE_UNVALIDATED", Winner(field, rows))
\* evaluate_field: rows of the period; aligned with it; in the unit; available; and
\* then the winner, in conflict when a concept of lower priority has another value.
EvaluateField(field, all, period, asOf) ==
  LET spec == Specs[field]
      rows == {r \in all : r.field = field /\ r.period = period /\ Rank(field, r.concept) > 0}
      aligned == {r \in rows : r.kind = spec.kind /\ (spec.kind = "duration" => r.annual)}
      right == {r \in aligned : r.unit = spec.unit}
      eligible == Eligible(right, asOf)
      winner == Winner(field, eligible)
      others == {Latest({s \in eligible : s.concept = r.concept}) : r \in eligible}
  IN CASE rows = {} -> Absent("MISSING_OBSERVATION", spec.unit)
       [] rows # {} /\ aligned = {} -> Absent("PERIOD_MISMATCH", spec.unit)
       [] aligned # {} /\ right = {} -> Absent("UNIT_MISMATCH", spec.unit)
       [] right # {} /\ eligible = {} -> Absent("NOT_PIT_ELIGIBLE", spec.unit)
       [] OTHER ->
            Result(IF \E r \in others : r.value # winner.value THEN "CONFLICT"
                   ELSE "SOURCE_UNVALIDATED", winner)

UsableStates == {"PASS", "PASS_DERIVED", "SOURCE_VALIDATED", "SOURCE_UNVALIDATED"}
ValidatedStates == UsableStates \ {"SOURCE_UNVALIDATED"}

\* The parts of a derived field are two different reported fields.
SumOf(parts, results) == LET a == CHOOSE p \in parts : TRUE
                             b == CHOOSE p \in parts : p # a
                         IN results[a].value + results[b].value
\* _derive_sum: nothing without every part; a conflict when the total that is
\* reported differs by more than the rounding slack.  It carries no filing.
DeriveSum(field, results) ==
  LET d == Derived[field]
      total == SumOf(d.parts, results)
      settled == \A p \in d.parts : results[p].state \in UsableStates
      reported == IF d.reported = "none" THEN NoValue ELSE results[d.reported].value
  IN IF \E p \in d.parts : results[p].value = NoValue THEN Absent("MISSING_OBSERVATION", "USD")
     ELSE [Absent(CASE reported # NoValue /\ Abs(reported - total) > Slack -> "CONFLICT"
                    [] settled -> "PASS_DERIVED"
                    [] OTHER -> "SOURCE_UNVALIDATED", "USD")
             EXCEPT !.value = total, !.concept = "sum"]

\* The periods are those of the available rows, or of all when none is available.
PeriodsOf(all, asOf) ==
  LET now == AnnualPeriods(Eligible(all, asOf))
  IN IF now # {} THEN now ELSE AnnualPeriods(all)
EvaluatePeriod(all, period, asOf) ==
  LET reported == [f \in ReportedFields |-> EvaluateField(f, all, period, asOf)]
  IN [f \in FieldIds |-> IF f \in ReportedFields THEN reported[f] ELSE DeriveSum(f, reported)]
EvaluateCompany(all, asOf) ==
  [p \in PeriodsOf(all, asOf) |-> EvaluatePeriod(all, p, asOf)]

\* One entry of cross_validate.  Agreement promotes a reported value, but not one of
\* a concept that changes the measure; a derived value stays derived.
Confirm(field, target, entry) ==
  LET basis == field \in ReportedFields /\ target.concept \in Specs[field].basis
  IN CASE ~entry.comparable \/ target.value = NoValue -> target
       [] entry.comparable /\ target.value # NoValue /\ entry.unit # target.unit ->
            IF target.state \in {"SOURCE_UNVALIDATED", "SOURCE_VALIDATED"}
            THEN [target EXCEPT !.state = "SOURCE_UNVALIDATED"] ELSE target
       [] OTHER ->
            IF entry.value # target.value
            THEN [target EXCEPT !.state = "CONFLICT"]
            ELSE [target EXCEPT !.confirmed = @ \cup {entry.source},
                    !.state = IF @ = "SOURCE_UNVALIDATED" /\ ~basis
                              THEN "SOURCE_VALIDATED" ELSE @]
\* The entries of two sources, one source after the other; of a field and a period a
\* source has one entry at most.
Confirmed(field, period, target, entries) ==
  LET own == {e \in entries : e.field = field /\ e.period = period}
  IN IF own = {} THEN target ELSE Confirm(field, target, CHOOSE e \in own : TRUE)
CrossValidate(results, first, second) ==
  [p \in DOMAIN results |-> [f \in FieldIds |->
     Confirmed(f, p, Confirmed(f, p, results[p][f], first), second)]]

\* _contract_state_overall.  The states that count never hold MISSING_OBSERVATION,
\* which the test for a validated company asks for: no company is ever validated.
Overall(results) ==
  LET states == {results[p][f].state : p \in DOMAIN results, f \in FieldIds}
      counted == states \ {"MISSING_OBSERVATION", "PERIOD_MISMATCH"}
  IN CASE "CONFLICT" \in states -> "CONFLICT"
       [] "CONFLICT" \notin states /\ counted = {"SOURCE_VALIDATED", "MISSING_OBSERVATION"} ->
            "SOURCE_VALIDATED"
       [] OTHER ->
            IF "SOURCE_UNVALIDATED" \in states
            THEN IF "SOURCE_VALIDATED" \in states THEN "SOURCE_PARTIALLY_VALIDATED"
                 ELSE "SOURCE_UNVALIDATED"
            ELSE IF "MISSING_OBSERVATION" \in states THEN "MISSING_OBSERVATION"
                 ELSE "SOURCE_UNVALIDATED"
================================================================================
