-------------------------- MODULE RegistryReports ---------------------------
(***************************************************************************)
(* The dataset canary for one company.  Filings reach the stored facts of   *)
(* the SEC; a valuation packet is approved and an SEC facts release is       *)
(* published from what the facts say at the time.  The operator builds a     *)
(* report, compares it with the approved baseline and may accept it as the   *)
(* next baseline.  Sources may be unreadable while a report is built, and    *)
(* the stored facts may be rewritten without a filing.                      *)
(***************************************************************************)
EXTENDS Comparison

CONSTANTS
  Menu,         \* what one filing may report: sets of [field, concept, period, value]
  FirstScreen, Days, MaxFilings, MaxRewrites   \* bounds

\* A filing states of a period one value of a concept.
ASSUME RegistryAssumption ==
  /\ DriftAbsolute \in Nat
  /\ \A rows \in Menu : \A r \in rows :
       /\ r.field \in ReportedFields /\ r.value \in Int \ {NoValue}
       /\ \A s \in rows : r.field = s.field /\ r.concept = s.concept /\ r.period = s.period => r = s

FiscalPeriods == {r.period : r \in UNION Menu}

VARIABLES
  facts,        \* the rows of the stored facts
  rewrites,     \* rewrites of the stored facts without a filing
  filings,      \* the number of filings
  day,
  packet,       \* the approved packet: the facts' identity and the values at approval
  publishedReport,    \* the published release, likewise, with its concepts
  baseline      \* the approved report, and the rewrites there were at the time

registryVars == <<facts, rewrites, filings, day, packet, publishedReport, baseline>>

Nothing == [object |-> <<0, 0>>, values |-> <<>>]
NoReport == [asOf |-> 0, object |-> <<0, 0>>, cik |-> "none", fields |-> <<>>,
             overall |-> "none", issues |-> {}, checks |-> <<>>, families |-> <<>>]
\* The stored object is another one after every filing and every rewrite.
Object == <<filings, rewrites>>

\* _secondary_values: the packet's values of the report's periods, all comparable, and
\* the published ones, comparable when the concept is the one the report selected.
Entry(source, f, p, v, comparable) ==
  [source |-> source, field |-> f, period |-> p, value |-> v, unit |-> "USD",
   comparable |-> comparable]
Secondary(source, read, results) ==
  {e \in {Entry(source, f, p, read.values[p][f].value,
                source = "packet" \/ results[p][f].concept = read.values[p][f].concept) :
            p \in DOMAIN results \cap DOMAIN read.values, f \in ReportedFields} :
     e.value # NoValue}

Check(read) == IF read.object = Object THEN "MATCH" ELSE "DIFFERENT_SOURCE_OBJECT"
Agreeing(results) == \E p \in DOMAIN results, f \in FieldIds : results[p][f].confirmed # {}

\* RegistryReport.company while the sources in lost cannot be read.
Report(lost) ==
  LET packetRead == IF "packet" \in lost THEN Nothing ELSE packet
      publishedRead == IF "published" \in lost THEN Nothing ELSE publishedReport
      identified == packetRead # Nothing \/ publishedRead # Nothing \/ "company" \notin lost
      results == EvaluateCompany(facts, day)
      checked == CrossValidate(results, Secondary("packet", packetRead, results),
                               Secondary("published", publishedRead, results))
      read == identified /\ "facts" \notin lost
      lostIssues == lost \cap {"packet", "published"}
      families == [f \in {"serving"} |-> [resolved |-> "serving" \notin lost,
                                           sampled |-> "serving" \notin lost]]
      empty == [NoReport EXCEPT !.asOf = day, !.families = families, !.overall = "BLOCKED"]
  IN IF ~read
     THEN [empty EXCEPT !.cik = IF identified THEN "cik" ELSE "none",
                        !.issues = lostIssues \cup {"BLOCKED"}]
     ELSE [asOf |-> day, object |-> Object, cik |-> "cik", fields |-> checked,
           overall |-> Overall(checked), families |-> families,
           issues |-> lostIssues \cup If(~Agreeing(checked), "NO_SECOND_SOURCE"),
           checks |-> [k \in If(publishedRead # Nothing, "published")
                             \cup If(packetRead # Nothing, "packet") |->
                         Check(IF k = "packet" THEN packetRead ELSE publishedRead)]]

Compared == baseline.report # NoReport
Verdict(report) == OverallSeverity(Findings(baseline.report, report))

RegistryInit ==
  /\ facts = {} /\ rewrites = 0 /\ filings = 0 /\ day = 1
  /\ packet = Nothing /\ publishedReport = Nothing
  /\ baseline = [report |-> NoReport, rewrites |-> 0]

-----------------------------------------------------------------------------
\* A filing reports values of a fiscal period: the year's own, or an earlier one restated.
File(rows) ==
  /\ filings < MaxFilings
  /\ filings' = filings + 1
  /\ facts' = facts \cup {Row(r.field, r.concept, Specs[r.field].kind,
                              Specs[r.field].kind = "duration", "USD", r.value, r.period,
                              filings + 1, day) : r \in rows}
  /\ UNCHANGED <<rewrites, day, packet, publishedReport, baseline>>

\* The stored facts change without a filing: a row has another value.
Rewrite(row, value) ==
  /\ rewrites < MaxRewrites /\ row.value # value
  /\ rewrites' = rewrites + 1
  /\ facts' = (facts \ {row}) \cup {[row EXCEPT !.value = value]}
  /\ UNCHANGED <<filings, day, packet, publishedReport, baseline>>

NextDay ==
  /\ day < Days
  /\ day' = day + 1
  /\ UNCHANGED <<facts, rewrites, filings, packet, publishedReport, baseline>>

\* External: a packet is approved, a release published, from the facts of the day
\* (bound: one of them, once).
Snapshot == [object |-> Object, values |-> EvaluateCompany(facts, day)]
Unconfirmed ==
  /\ packet = Nothing /\ publishedReport = Nothing
  /\ \E p \in DOMAIN Snapshot.values, f \in ReportedFields :
       Snapshot.values[p][f].value # NoValue
ApprovePacket ==
  /\ Unconfirmed /\ packet' = Snapshot
  /\ UNCHANGED <<facts, rewrites, filings, day, publishedReport, baseline>>
Publish ==
  /\ Unconfirmed /\ publishedReport' = Snapshot
  /\ UNCHANGED <<facts, rewrites, filings, day, packet, baseline>>

\* Mutant of Accepts: a WARNING is accepted as well.
AcceptsWarning(report) == Compared => Verdict(report) # "FAIL"
\* Without a baseline there is nothing to compare with; else the exit status is 0.
Accepts(report) == Compared => Verdict(report) \in {"PASS", "INFO"}

\* The canary with --accept-baseline; without it nothing changes.
Screen(lost) ==
  LET report == Report(lost) IN
  /\ day >= FirstScreen /\ Accepts(report)
  /\ baseline' = [report |-> report, rewrites |-> rewrites]
  /\ UNCHANGED <<facts, rewrites, filings, day, packet, publishedReport>>

Sources == {"packet", "company", "facts", "serving"}
RegistryNext ==
  \/ \E rows \in Menu : File(rows)
  \/ \E row \in facts, r \in UNION Menu : row.concept = r.concept /\ Rewrite(row, r.value)
  \/ NextDay \/ ApprovePacket \/ Publish
  \/ \E lost \in SUBSET Sources : Cardinality(lost) <= 1 /\ Screen(lost)

RegistrySpec == RegistryInit /\ [][RegistryNext]_registryVars

-----------------------------------------------------------------------------
\* A point-in-time answer does not change when later filings arrive: what a report as
\* of a past day says of a usable field is the same before and after a filing
\* (evaluate_field, "Absent values are never manufactured").
PastStays ==
  [][filings' # filings =>
       \A d \in 1..day, p \in FiscalPeriods, f \in FieldIds :
         LET before == EvaluatePeriod(facts, p, d)[f]
             after == EvaluatePeriod(facts', p, d)[f]
         IN Usable(before) \/ Usable(after) => before = after]_registryVars

\* What an accepted report takes over from its baseline: no usable field is lost or
\* demoted, no value moves without a later filing, and a state that is validated anew
\* rests on another stored object than the one that was read.
Inherits(b, c) ==
  /\ Periods(b) \subseteq Periods(c) /\ b.cik = c.cik
  /\ \A p \in Periods(b), f \in FieldIds :
       LET old == b.fields[p][f]  new == c.fields[p][f] IN
       /\ Usable(old) => Usable(new)
       /\ Validated(old) => Validated(new)
       /\ Usable(old) /\ f \in ReportedFields =>
            /\ Rank(f, new.concept) <= Rank(f, old.concept)
            /\ new.filed >= old.filed
            /\ Material(old.value, new.value) => new.filed > old.filed
       /\ new.state = "SOURCE_VALIDATED" => "DIFFERENT_SOURCE_OBJECT" \in Range(c.checks)
\* The baseline only ever advances to a report that inherits from it
\* (RegistryComparison.compare, dataset_canary.main).
AcceptedHidesNothing ==
  [][baseline' # baseline /\ baseline.report.fields # <<>> =>
       Inherits(baseline.report, baseline'.report)]_registryVars

\* When nothing but filings changed since the baseline, no change of a reported field
\* is called unexplained, early or inconsistent.
Accusations == {"VALUE_CHANGED_WITHOUT_SOURCE_REVISION", "VALUE_CHANGED_WITH_SOURCE_REVISION",
                "FILING_REGRESSION_EARLIER_ACCESSION", "AVAILABILITY_CUTOFF_INCONSISTENT",
                "FILING_DATE_INCONSISTENT", "FUTURE_AVAILABILITY_UNSUPPORTED"}
AccusedOf(fields) ==
  LET c == Report({}) IN
  \E p \in Periods(baseline.report) \cap Periods(c), f \in fields :
    FieldFindings(f, baseline.report.fields[p][f], c.fields[p][f], baseline.report, c)
      \cap Accusations # {}
FilingsExplainValues ==
  Compared /\ baseline.rewrites = rewrites => ~AccusedOf(ReportedFields)

\* "A change in the value is explained only by a new accession/filing": a total that is
\* derived from restated parts is explained as well.  The code does not keep it, and no
\* run checks it: a derived result carries no accession of its own.
FilingsExplainTotals ==
  Compared /\ baseline.rewrites = rewrites => ~AccusedOf(DerivedFields)
================================================================================
