----------------------------- MODULE Comparison -----------------------------
(***************************************************************************)
(* The regression comparison of two registry reports: every difference is a *)
(* finding with a severity, and the highest severity decides whether a      *)
(* candidate report may follow its baseline.                                *)
(*                                                                         *)
(* A report of one company: [asOf, object, cik, periods, fields, overall,   *)
(* issues, checks, families].  fields gives the result of every field of    *)
(* every period (module Fundamentals); object is the stored source object    *)
(* that was read; checks are the source identity checks; families says      *)
(* which source families resolve and have their sampled artifacts.          *)
(***************************************************************************)
EXTENDS Fundamentals

CONSTANTS
  DriftAbsolute,   \* VALUE_DRIFT_ABSOLUTE, in units of a value
  DriftParts,      \* 1 / VALUE_DRIFT_RELATIVE
  ScaleFactors,    \* SCALE_SHIFT_FACTORS
  SignFields       \* SIGN_CONVENTION_FIELDS

Severities == <<"PASS", "INFO", "WARNING", "FAIL">>
SeverityRank(s) == CHOOSE i \in 1..4 : Severities[i] = s
\* The severity of every finding.
Observed ==
  {"PERIOD_OBSERVED_ADDED", "UNIT_CORRECTED", "CONCEPT_CHANGED", "STATE_IMPROVED",
   "IMMATERIAL_VALUE_DRIFT", "RESTATEMENT_WITH_NEW_FILING", "STATE_CHANGED",
   "COMPANY_OVERALL_CHANGED", "SOURCE_IDENTITY_DIVERGENCE_OBSERVED",
   "BLOCKING_ISSUE_RESOLVED", "SOURCE_FAMILY_RECOVERED"}
Doubtful ==
  {"PERIOD_OBSERVED_LOST", "UNIT_CHANGED", "CONCEPT_PRIORITY_DEMOTED",
   "VALUE_CHANGED_WITH_SOURCE_REVISION", "SOURCE_IDENTITY_REGRESSION", "AS_OF_REGRESSION",
   "COMPANY_OVERALL_DOWNGRADE", "NON_INDEPENDENT_CORROBORATION_PREEXISTING",
   "OBSERVATION_LOST", "POINT_IN_TIME_ELIGIBILITY_LOST", "PERIOD_ALIGNMENT_LOST",
   "VALIDATION_DOWNGRADE", "STATE_REGRESSION"}
Failing ==
  {"ISSUER_IDENTITY_CHANGED", "ISSUER_IDENTITY_UNRESOLVED", "BLOCKING_ISSUE_ADDED",
   "SOURCE_FAMILY_UNRESOLVED", "MANIFEST_ARTIFACT_SAMPLE_INCOMPLETE",
   "CONTRACT_UNIT_VIOLATION", "PROHIBITED_BASIS_SUBSTITUTION",
   "BASIS_SUBSTITUTION_UNSUPPORTED", "SUSPECTED_UNCONVERTED_SCALE",
   "FILING_REGRESSION_EARLIER_ACCESSION", "VALUE_CHANGED_WITHOUT_SOURCE_REVISION",
   "SIGN_CONVENTION_VIOLATION", "VALUE_LOST_WITH_USABLE_STATE",
   "AVAILABILITY_CUTOFF_INCONSISTENT", "FILING_DATE_INCONSISTENT",
   "FUTURE_AVAILABILITY_UNSUPPORTED", "EVIDENCE_CONFLICT_INTRODUCED",
   "UNIT_MISMATCH_INTRODUCED", "COMPANY_OVERALL_COLLAPSE", "NON_INDEPENDENT_CORROBORATION"}
Severity == [c \in Observed \cup Doubtful \cup Failing |->
               IF c \in Failing THEN "FAIL" ELSE IF c \in Doubtful THEN "WARNING" ELSE "INFO"]

If(condition, code) == IF condition THEN {code} ELSE {}
Usable(r) == r.state \in UsableStates
Validated(r) == r.state \in ValidatedStates

States == UsableStates \cup {"NOT_PIT_ELIGIBLE", "PERIOD_MISMATCH", "MISSING_OBSERVATION",
                            "UNIT_MISMATCH", "CONFLICT"}
StateRank ==
  [s \in States |-> CASE s = "PASS" -> 5 [] s = "PASS_DERIVED" -> 4
                      [] s = "SOURCE_VALIDATED" -> 3 [] s = "SOURCE_UNVALIDATED" -> 2
                      [] s \in {"NOT_PIT_ELIGIBLE", "PERIOD_MISMATCH"} -> 1 [] OTHER -> 0]
RegressionCode ==
  [s \in States \ {"PASS", "PASS_DERIVED", "SOURCE_VALIDATED"} |->
     CASE s = "CONFLICT" -> "EVIDENCE_CONFLICT_INTRODUCED"
       [] s = "UNIT_MISMATCH" -> "UNIT_MISMATCH_INTRODUCED"
       [] s = "MISSING_OBSERVATION" -> "OBSERVATION_LOST"
       [] s = "NOT_PIT_ELIGIBLE" -> "POINT_IN_TIME_ELIGIBILITY_LOST"
       [] s = "PERIOD_MISMATCH" -> "PERIOD_ALIGNMENT_LOST"
       [] s = "SOURCE_UNVALIDATED" -> "VALIDATION_DOWNGRADE"]
OverallRank ==
  [s \in {"SOURCE_VALIDATED", "SOURCE_PARTIALLY_VALIDATED", "SOURCE_UNVALIDATED",
          "MISSING_OBSERVATION", "CONFLICT", "BLOCKED"} |->
     CASE s = "SOURCE_VALIDATED" -> 4 [] s = "SOURCE_PARTIALLY_VALIDATED" -> 3
       [] s = "SOURCE_UNVALIDATED" -> 2 [] s = "MISSING_OBSERVATION" -> 1 [] OTHER -> 0]

-----------------------------------------------------------------------------
\* A change beyond both bounds.
Material(b, c) == Abs(c - b) > DriftAbsolute /\ Abs(c - b) > Abs(b) \div DriftParts
\* A value a thousand (million, ...) times larger or smaller, within a part in 10^4.
ScaleShift(b, c) ==
  b # 0 /\ c # 0 /\ \E k \in ScaleFactors :
    \/ Abs(Abs(c) - k * Abs(b)) <= (k * Abs(b)) \div 10000
    \/ Abs(k * Abs(c) - Abs(b)) <= Abs(b) \div 10000

HasFiling(r) == r.accession # NoAccession
SameFiling(b, c) == HasFiling(b) /\ HasFiling(c) /\ b.accession = c.accession
\* Mutant of LaterFiling: the order of the filings is swapped.
EarlierFiling(b, c) == c.filed < b.filed
LaterFiling(b, c) == c.filed > b.filed

UnitFindings(field, b, c) ==
  LET contract == field \in ReportedFields
      unit == IF contract THEN Specs[field].unit ELSE "none"
      changed == ~(c.state = "MISSING_OBSERVATION" /\ c.concept = NoConcept) /\ c.unit # b.unit
  IN If(changed /\ contract /\ c.unit # unit, "CONTRACT_UNIT_VIOLATION")
     \cup If(changed /\ contract /\ c.unit = unit, "UNIT_CORRECTED")
     \cup If(changed /\ ~contract, "UNIT_CHANGED")

ConceptFindings(field, b, c) ==
  LET contract == field \in ReportedFields
      rank(r) == IF contract THEN Rank(field, r.concept) ELSE 0
      changed == ~(c.state = "MISSING_OBSERVATION" /\ c.concept = NoConcept)
                 /\ c.concept # b.concept
      basis == contract /\ c.concept \in Specs[field].basis
      foreign == rank(c) = 0 /\ Usable(c)
      demoted == rank(b) > 0 /\ rank(c) > rank(b)
  IN If(changed /\ basis, "PROHIBITED_BASIS_SUBSTITUTION")
     \cup If(changed /\ ~basis /\ foreign, "BASIS_SUBSTITUTION_UNSUPPORTED")
     \cup If(changed /\ ~basis /\ ~foreign /\ demoted, "CONCEPT_PRIORITY_DEMOTED")
     \cup If(changed /\ ~basis /\ ~foreign /\ ~demoted, "CONCEPT_CHANGED")

\* Why a value changed: a drift, a unit, a later filing, another source object.
Explanation(b, c, revised) ==
  CASE ~Material(b.value, c.value) -> "IMMATERIAL_VALUE_DRIFT"
    [] Material(b.value, c.value) /\ ScaleShift(b.value, c.value) /\ b.unit = c.unit ->
         "SUSPECTED_UNCONVERTED_SCALE"
    [] OTHER ->
         IF HasFiling(b) /\ HasFiling(c) /\ ~SameFiling(b, c)
         THEN IF LaterFiling(b, c) THEN "RESTATEMENT_WITH_NEW_FILING"
              ELSE "FILING_REGRESSION_EARLIER_ACCESSION"
         ELSE IF SameFiling(b, c) /\ revised THEN "VALUE_CHANGED_WITH_SOURCE_REVISION"
         ELSE "VALUE_CHANGED_WITHOUT_SOURCE_REVISION"
ValueFindings(field, b, c, revised) ==
  LET both == b.value # NoValue /\ c.value # NoValue
  IN If(both /\ b.value # c.value, Explanation(b, c, revised))
     \cup If(both /\ b.value > 0 /\ c.value < 0 /\ field \in SignFields,
             "SIGN_CONVENTION_VIOLATION")
     \cup If(b.value # NoValue /\ c.value = NoValue /\ Usable(c), "VALUE_LOST_WITH_USABLE_STATE")

\* Availability follows from the filing date.
AvailabilityFindings(b, c, asOf) ==
  If(SameFiling(b, c) /\ c.filed < b.filed, "AVAILABILITY_CUTOFF_INCONSISTENT")
  \cup If(SameFiling(b, c) /\ c.filed # b.filed, "FILING_DATE_INCONSISTENT")
  \cup If(HasFiling(c) /\ Usable(c) /\ ~Available(c, asOf), "FUTURE_AVAILABILITY_UNSUPPORTED")

StateFindings(b, c) ==
  IF b.state = c.state THEN {}
  ELSE If(StateRank[c.state] < StateRank[b.state],
          IF c.state \in DOMAIN RegressionCode THEN RegressionCode[c.state]
          ELSE "STATE_REGRESSION")
       \cup If(StateRank[c.state] > StateRank[b.state], "STATE_IMPROVED")
       \cup If(StateRank[c.state] = StateRank[b.state], "STATE_CHANGED")

\* Whether a confirmation rests on another stored object than the one read here.
Independent(r, checks) ==
  CASE r.confirmed = {} -> "no"
    [] r.confirmed # {} /\ "DIFFERENT_SOURCE_OBJECT" \in Range(checks) -> "yes"
    [] OTHER -> IF "MATCH" \in Range(checks) THEN "no" ELSE "unknown"
CorroborationFindings(b, c, checks) ==
  LET hollow == c.state \in {"SOURCE_VALIDATED", "PASS"} /\ Independent(c, checks) = "no"
  IN If(hollow /\ ~Validated(b), "NON_INDEPENDENT_CORROBORATION")
     \cup If(hollow /\ Validated(b), "NON_INDEPENDENT_CORROBORATION_PREEXISTING")

FieldFindings(field, b, c, baseline, candidate) ==
  LET revised == baseline.object # candidate.object
  IN UnitFindings(field, b, c) \cup ConceptFindings(field, b, c)
     \cup ValueFindings(field, b, c, revised)
     \cup AvailabilityFindings(b, c, candidate.asOf) \cup StateFindings(b, c)
     \cup CorroborationFindings(b, c, candidate.checks)

-----------------------------------------------------------------------------
IdentityFindings(b, c) ==
  If(b.cik # "none" /\ c.cik # "none" /\ b.cik # c.cik, "ISSUER_IDENTITY_CHANGED")
  \cup If(b.cik # "none" /\ c.cik = "none", "ISSUER_IDENTITY_UNRESOLVED")
  \cup UNION {If(k \in DOMAIN b.checks /\ b.checks[k] = "MATCH", "SOURCE_IDENTITY_REGRESSION")
              \cup If(k \notin DOMAIN b.checks, "SOURCE_IDENTITY_DIVERGENCE_OBSERVED") :
            k \in {x \in DOMAIN c.checks : c.checks[x] = "DIFFERENT_SOURCE_OBJECT"}}

Periods(report) == DOMAIN report.fields
CoverageFindings(b, c) ==
  LET before == b.overall  after == c.overall
      collapsed == after \in {"CONFLICT", "BLOCKED"}
  IN If(Periods(b) \ Periods(c) # {}, "PERIOD_OBSERVED_LOST")
     \cup If(Periods(c) \ Periods(b) # {}, "PERIOD_OBSERVED_ADDED")
     \cup If(before # after /\ collapsed, "COMPANY_OVERALL_COLLAPSE")
     \cup If(~collapsed /\ OverallRank[after] < OverallRank[before], "COMPANY_OVERALL_DOWNGRADE")
     \cup If(~collapsed /\ before # after /\ OverallRank[after] >= OverallRank[before],
             "COMPANY_OVERALL_CHANGED")

BlockerFindings(b, c) ==
  If(c.issues \ b.issues # {}, "BLOCKING_ISSUE_ADDED")
  \cup If(b.issues \ c.issues # {}, "BLOCKING_ISSUE_RESOLVED")

FamilyFindings(b, c) ==
  UNION {LET before == b.families[f]  after == c.families[f] IN
           If(before.resolved /\ ~after.resolved, "SOURCE_FAMILY_UNRESOLVED")
           \cup If(~before.resolved /\ after.resolved, "SOURCE_FAMILY_RECOVERED")
           \cup If(before.sampled /\ ~after.sampled, "MANIFEST_ARTIFACT_SAMPLE_INCOMPLETE") :
         f \in DOMAIN b.families \cap DOMAIN c.families}

\* Every report of a period has every field of the contract.
Findings(b, c) ==
  If(c.asOf < b.asOf, "AS_OF_REGRESSION")
  \cup FamilyFindings(b, c) \cup IdentityFindings(b, c)
  \cup CoverageFindings(b, c) \cup BlockerFindings(b, c)
  \cup UNION {FieldFindings(f, b.fields[p][f], c.fields[p][f], b, c) :
              f \in FieldIds, p \in Periods(b) \cap Periods(c)}

OverallSeverity(findings) ==
  LET ranks == {SeverityRank(Severity[f]) : f \in findings} \cup {1}
  IN Severities[CHOOSE i \in ranks : \A j \in ranks : j <= i]
================================================================================
