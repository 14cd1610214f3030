------------------------------- MODULE Histories -------------------------------
(***************************************************************************)
(* A company files reports, and a history of it is asked for and certified *)
(* as of any day.                                                          *)
(***************************************************************************)
EXTENDS Certification, SecHistoryV1

CONSTANTS
  FirstDay, LastDay,   \* days of the model
  Reports,             \* what the company may file: [form, rows]
  MaxReports,          \* reports
  Ranges               \* last days of the ranges asked for

ASSUME HistoriesAssumption == {FirstDay, LastDay} \subseteq Nat

VARIABLES
  day,
  rows,             \* the rows of the member so far
  cumulativeFirst   \* which digests are smaller

historyVars == <<day, rows, cumulativeFirst>>

HistoryInit == day = FirstDay /\ rows = {} /\ cumulativeFirst \in BOOLEAN

ReportsFiled == {r.number : r \in rows}

\* A row as the member has it, of a report filed today.
Reported(r, form, number) ==
  [concept |-> r.concept, start |-> r.start, end |-> r.end, value |-> r.value,
   content |-> r.content, unit |-> r.unit, metric |-> r.metric, available |-> r.available,
   form |-> form, filed |-> day, number |-> number]

FileReport ==
  /\ Cardinality(ReportsFiled) < MaxReports
  /\ \E report \in Reports :
       rows' = rows \cup {Reported(r, report.form, Cardinality(ReportsFiled) + 1) : r \in report.rows}
  /\ UNCHANGED <<day, cumulativeFirst>>

NextReportDay ==
  /\ day < LastDay
  /\ day' = day + 1
  /\ UNCHANGED <<rows, cumulativeFirst>>

HistoryNext == FileReport \/ NextReportDay

HistorySpec == HistoryInit /\ [][HistoryNext]_historyVars

-----------------------------------------------------------------------------
Asked == [frequency : {"annual", "quarterly", "ttm"}, cutoff : FirstDay..LastDay, to : Ranges]
Answer(sources, q) == History(sources, q.frequency, q.cutoff, q.to, cumulativeFirst)

\* What was known on a day stays what is answered for it: a report of today, which is
\* available tomorrow, changes no history as of today or before.  (The engine takes the policy
\* of a member from all of its rows, whatever their dates: the property is about reports that
\* leave the policy as it is.)
SamePolicy(a, b) ==
  Quarantined(a) = Quarantined(b)
    /\ QuarterMax(Normalize(a)) = QuarterMax(Normalize(b))
FinalV2(before, after) ==
  \A q \in Asked : q.cutoff <= day => Answer(after, q) = Answer(before, q)
AsOfIsFinal ==
  [][rows' # rows /\ SamePolicy(rows, rows')
       => FinalV2(Normalize(rows), Normalize(rows'))]_historyVars

\* So does what a release of the first engine answers, built again of today's member: nothing
\* of a report of today is served as of today.
FinalV1(before, after) ==
  \A q \in Asked : ServedV1(ReleaseV1(after, {day}), q, day, cumulativeFirst)
                   = ServedV1(ReleaseV1(before, {day}), q, day, cumulativeFirst)
ReleasesAreFinal == [][rows' # rows => FinalV1(rows, rows')]_historyVars

\* The certifier, which computes the history again from its sources, accepts every annual
\* and quarterly row that the engine answers, unless two filings of one day state the same
\* figure of it.
Repeated(row) == \E k, l \in row.ids : k # l /\ SameContext(k, l)
AnswersCertify ==
  LET sources == Normalize(rows)
  IN \A q \in Asked : \A row \in Answer(sources, q) :
       q.frequency # "ttm" /\ ~Repeated(row) => SourcesValid(sources, row, q.cutoff)

\* A companion proves nothing for another day that a companion of that day would not:
\* neither of a row that has been restated since, nor of one before its proof was filed.
Accounted(sources, companion, cutoff) ==
  {pair[1] : pair \in {p \in Certified(sources, companion, "annual", cutoff, cutoff, cumulativeFirst) :
                         p[2] = "ACCOUNTING_CERTIFIED"}}
Proofs(sources, companion, built) ==
  {[built |-> built, asked |-> d, proven |-> Accounted(sources, companion, d)] :
     d \in FirstDay..LastDay}
AllProofs(sources) ==
  UNION {Proofs(sources, Companion(sources, rows, d, cumulativeFirst), d) : d \in FirstDay..LastDay}
OwnDayProvesMost(proofs) ==
  \A p, own \in proofs :
    own.built = own.asked /\ p.asked = own.asked => p.proven \subseteq own.proven
ProofsAreOfTheirDay == OwnDayProvesMost(AllProofs(Normalize(rows)))

\* What the engine answers certifies, and nothing certifies that should not: the certifier
\* accepts its rows, and a companion says no more of another day than one of that day.
CertificationHolds == AnswersCertify /\ ProofsAreOfTheirDay
=============================================================================
