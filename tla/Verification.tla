----------------------------- MODULE Verification -----------------------------
(***************************************************************************)
(* pipeline/filing_pipeline.py, pipeline/verification.py and verification/:*)
(* a filing becomes markdown, the markdown is cut into sections, and the   *)
(* figures of its tables are reconciled with the company facts of the SEC. *)
(*                                                                         *)
(* A month is a number, twelve times the year and the month from zero; a   *)
(* filing date is a month and no two filings of a company share one.       *)
(* Company facts are a sequence of entries in the order of the SEC's file: *)
(* each carries the fiscal year and period of the FILING that reported it, *)
(* so that a comparative figure bears the label of the later period.       *)
(* Markdown is its tables, their rows one after another, and the scale its *)
(* text declares.                                                          *)
(***************************************************************************)
EXTENDS Integers, FiniteSets, SequencesExt

CONSTANTS
  Filings,     \* [form, fy, fp, own, filed, dated, facts, doc]: the period it is of and the
               \* month in which that ends, when it was filed and whether verify is told so,
               \* the company facts at the time, and its markdown
  Concepts,    \* the core concepts
  LabelsOf,    \* the labels a concept is looked for under, in order
  Thousand,    \* the factor between two scales
  XbrlUrls     \* what Arelle makes of the filing: "none" without an address

VARIABLES
  stage,       \* "html", "converted", "segmented", "done", "failed"
  filing,      \* the filing that is processed
  sections,    \* what it was cut into: a sequence of [item, from, to]
  verified     \* the verification: {} or {[status, depth, missing, target]}

verificationVars == <<stage, filing, sections, verified>>

NoYear == 0
Year(m) == m \div 12
Month(m) == (m % 12) + 1
Magnitude(x) == IF x < 0 THEN -x ELSE x
Larger(x, y) == IF x > y THEN x ELSE y

-----------------------------------------------------------------------------
(* The figures of the markdown.                                            *)

\* A cell is {} when it holds no number, and {n} when it holds n.
NumberOf(row) == SelectInSeq(row.cells, LAMBDA cell : cell # {})
ExtractValues(doc) ==
  LET rows == SelectSeq(doc.rows, LAMBDA row : NumberOf(row) > 0) IN
  [i \in DOMAIN rows |->
     [label |-> rows[i].label,
      value |-> (CHOOSE n \in rows[i].cells[NumberOf(rows[i])] : TRUE) * doc.scale]]

-----------------------------------------------------------------------------
(* FilingSegmenter: the sections of the markdown.                          *)

\* A cluster of items near the top is a table of contents when it is dense and items follow it.
FilterTocEntries(found, lines) ==
  LET cutoff == Larger(lines \div 5, 50)
      Early(m) == m.line < cutoff
      early == SelectSeq(found, Early)
      late == SelectSeq(found, LAMBDA m : ~ Early(m))
      span == early[Len(early)].line - early[1].line
  IN IF /\ Len(found) > 3 /\ lines >= 200 /\ Len(early) >= 3 /\ late # << >>
        /\ span < 30 /\ span < 5 * (Len(early) - 1)
     THEN late ELSE found

\* Headings with a mark win over plain lines; a document without any is one section.
Segmented(doc) ==
  LET marked == SelectSeq(doc.headings, LAMBDA h : h.marked)
      found == FilterTocEntries(IF marked = << >> THEN doc.headings ELSE marked, doc.lines)
  IN IF found = << >> THEN <<[item |-> "full", from |-> 0, to |-> doc.lines]>>
     ELSE [i \in DOMAIN found |->
             [item |-> found[i].item, from |-> found[i].line,
              to |-> IF i < Len(found) THEN found[i + 1].line ELSE doc.lines]]

ExpectedItems(form) ==
  CASE form = "10-K" -> {"1", "7", "8"} [] form = "10-Q" -> {"1", "2"} [] OTHER -> {}
MissingItems(form, cut) == ExpectedItems(form) \ {cut[i].item : i \in DOMAIN cut}

-----------------------------------------------------------------------------
(* Reconciler: one fact against the row that bears one of its labels.      *)

\* The delta is more than two hundredths of the larger value.
Differ(x, y, larger) == 100 * Magnitude(x - y) > 2 * Larger(larger, 1)
Near(x, y, larger) == 100 * Magnitude(x - y) < 2 * Larger(larger, 1)

Compare(xbrl, markdown) ==
  LET larger == Larger(Magnitude(xbrl), Magnitude(markdown))
      differ == Differ(xbrl, markdown, larger)
  IN CASE differ /\ \/ Near(xbrl, markdown * Thousand, Magnitude(xbrl))
                    \/ Near(xbrl * Thousand, markdown, Magnitude(markdown)) -> "scale_mismatch"
       [] /\ xbrl # 0 /\ markdown # 0 /\ (xbrl > 0) # (markdown > 0)
          /\ Near(Magnitude(xbrl), Magnitude(markdown), larger) -> "sign_mismatch"
       [] OTHER -> IF differ THEN "label_mismatch" ELSE "matched"

\* md_by_label keeps the last row of a label.
FindMatch(fact, rows) ==
  LET labels == LabelsOf[fact.concept]
      first == SelectInSeq(labels, LAMBDA l : \E i \in DOMAIN rows : rows[i].label = l)
  IN IF first = 0 THEN "missing"
     ELSE Compare(fact.val, rows[SelectLastInSeq(rows, LAMBDA r : r.label = labels[first])].value)

MatchedFacts(facts, rows) == Cardinality({e \in facts : FindMatch(e, rows) = "matched"})

-----------------------------------------------------------------------------
(* The period of the filing, as the filing date and the facts suggest it.  *)

\* {} or the month most annual entries end in; the first one met wins a tie.
FiscalYearEnd(facts) ==
  LET annual == SelectSeq(facts, LAMBDA e : e.fp = "FY")
      Count(m) == Cardinality({i \in DOMAIN annual : Month(annual[i].end) = m})
      months == {Month(annual[i].end) : i \in DOMAIN annual}
      most == {m \in months : \A n \in months : Count(m) >= Count(n)}
      first == SelectInSeq(annual, LAMBDA e : Month(e.end) \in most)
  IN {Month(annual[i].end) : i \in {first} \ {0}}

\* One rule for annual reports and one for quarterly ones, which differ in a report that is
\* filed in the month in which the fiscal year ends.
Candidate(filed, fye, form) ==
  LET after == IF fye = {} THEN Month(filed) > 6
               ELSE \E m \in fye : \/ Month(filed) > m
                                   \/ form = "10-K" /\ Month(filed) = m
  IN IF after THEN Year(filed) ELSE Year(filed) - 1

Quarters == {"Q1", "Q2", "Q3"}
LikelyQuarter(month) ==
  CASE month \in 1..4 -> "Q1" [] month \in 5..7 -> "Q2" [] month \in 8..10 -> "Q3" [] OTHER -> "Q4"

Target(fy, fp, mode) == [fy |-> fy, fp |-> fp, mode |-> mode]

AnnualTarget(f, fy) ==
  Target(fy, {"FY"}, IF \E e \in Range(f.facts) : e.fy = fy /\ e.fp = "FY"
                     THEN "exact_period" ELSE "heuristic")

QuarterTarget(f, fy) ==
  LET ofYear == SelectSeq(f.facts, LAMBDA e : e.fy = fy /\ e.fp \in Quarters)
      today == SelectInSeq(ofYear, LAMBDA e : e.filed = f.filed)
      Count(q) == Cardinality({i \in DOMAIN ofYear : ofYear[i].fp = q})
      likely == LikelyQuarter(Month(f.filed))
      most == SelectInSeq(ofYear, LAMBDA e : \A q \in Quarters : Count(e.fp) >= Count(q))
  IN CASE today > 0 -> Target(fy, {ofYear[today].fp}, "exact_period")
       [] ofYear = << >> -> Target(fy, {}, "year_only")
       [] OTHER -> Target(fy, {IF Count(likely) > 0 THEN likely ELSE ofYear[most].fp}, "heuristic")

DeriveFiscalPeriod(f) ==
  CASE ~ f.dated -> Target(NoYear, {}, "no_filing_date")
    [] f.form = "10-K" -> AnnualTarget(f, Candidate(f.filed, FiscalYearEnd(f.facts), "10-K"))
    [] f.form = "10-Q" -> QuarterTarget(f, Candidate(f.filed, FiscalYearEnd(f.facts), "10-Q"))
    [] OTHER -> Target(Candidate(f.filed, {}, f.form), {}, "year_only")

\* Of each concept the last entry that bears the label of the target, or the last one at all
\* when there is no target.
CanonicalFacts(facts, target) ==
  LET OfTarget(e) == \/ target.fy = NoYear
                     \/ e.fy = target.fy /\ (target.fp = {} \/ e.fp \in target.fp)
      last == {SelectLastInSeq(facts, LAMBDA e : e.concept = c /\ OfTarget(e)) : c \in Concepts}
  IN {facts[i] : i \in last \ {0}}

-----------------------------------------------------------------------------
(* The verdict.                                                            *)

\* Mutant of Reconciliation: a good match rate is a pass whatever the period was inferred from.
ReconciliationOfAnyPeriod(matched, compared, mode) ==
  CASE 10 * matched >= 8 * compared -> "reconciled_pass"
    [] 10 * matched >= 5 * compared -> "reconciled_partial"
    [] OTHER -> "reconciled_fail"

Reconciliation(matched, compared, mode) ==
  CASE 10 * matched >= 8 * compared /\ mode = "exact_period" -> "reconciled_pass"
    [] 10 * matched >= 5 * compared -> "reconciled_partial"
    [] OTHER -> "reconciled_fail"

ReconciliationOf(f, target, facts, rows) ==
  CASE f.facts = << >> -> "no_company_facts"
    [] facts = {} -> "no_xbrl_facts"
    [] rows = << >> -> "no_markdown_facts"
    [] OTHER -> Reconciliation(MatchedFacts(facts, rows), Cardinality(facts), target.mode)
CheckReconciliation(f, target) ==
  ReconciliationOf(f, target, CanonicalFacts(f.facts, target), ExtractValues(f.doc))

\* The structural checks only fail on markdown that is too short to be a filing.
Structural(f) == IF f.doc.short THEN "failed" ELSE "passed"

CheckXbrl(url) ==
  CASE url = "none" -> "no_xbrl_url" [] url = "not installed" -> "unavailable"
    [] url = "valid" -> "passed" [] url = "invalid" -> "failed" [] OTHER -> "error"

Verdict(status, depth) == [status |-> status, depth |-> depth]
Overall(structural, reconciliation, xbrl, cross) ==
  LET deeper == IF xbrl = "failed" THEN "partial" ELSE "passed" IN
  CASE structural = "failed" -> Verdict("failed", "structural_only")
    [] reconciliation \in {"reconciled_pass", "reconciled_partial", "reconciled_fail"}
         -> Verdict(reconciliation, "reconciled")
    [] xbrl \in {"passed", "failed"} -> Verdict(deeper, IF cross THEN "full" ELSE "xbrl")
    [] cross -> Verdict("passed", "cross_source")
    [] OTHER -> Verdict("structural_only", "structural_only")

Verify(f, cut, target, reconciliation, url, yahoo) ==
  LET v == Overall(Structural(f), reconciliation, CheckXbrl(url), yahoo) IN
  [status |-> v.status, depth |-> v.depth, missing |-> MissingItems(f.form, cut), target |-> target]

-----------------------------------------------------------------------------
(* FilingPipeline.process, stage by stage.                                 *)

VerificationInit ==
  /\ stage = "html" /\ filing \in Filings /\ sections = << >> /\ verified = {}

Convert ==
  /\ stage = "html"
  /\ stage' \in {"converted", "failed"}
  /\ UNCHANGED <<filing, sections, verified>>

Segment ==
  /\ stage = "converted"
  /\ stage' = "segmented"
  /\ sections' = Segmented(filing.doc)
  /\ UNCHANGED <<filing, verified>>

VerifyFiling ==
  /\ stage = "segmented"
  /\ \E target \in {DeriveFiscalPeriod(filing)} :
       \E reconciliation \in {CheckReconciliation(filing, target)} :
         \E url \in XbrlUrls, yahoo \in BOOLEAN :
           verified' = {Verify(filing, sections, target, reconciliation, url, yahoo)}
  /\ stage' = "done"
  /\ UNCHANGED <<filing, sections>>

VerificationNext == Convert \/ Segment \/ VerifyFiling

-----------------------------------------------------------------------------
(* Properties.                                                             *)

\* The facts that the filing itself reports for its own period: those of its date and label that
\* end last, among the facts of the SEC.
OwnFacts(f) == {e \in Range(f.facts) : e.filed = f.filed /\ e.end = f.own}

\* Eight tenths of some facts stand in the markdown of the filing, under a label of theirs and
\* in the scale that the markdown declares.
Stand(facts, f) == 10 * MatchedFacts(facts, ExtractValues(f.doc)) >= 8 * Cardinality(facts)

\* The fiscal year bears the number of the calendar year in which it ends, and its report comes
\* before the next year has ended.
YearIsCalendar(f) == f.fy = Year(f.own) /\ f.filed - f.own < 12

\* "reconciled_pass" is of the filing: what the filing itself reported to the SEC for its own
\* period stands in its markdown.  The facts that verify compares are chosen by a year and a
\* quarter that it infers from the filing date, from the months in which fiscal years end and
\* from labels that comparatives share: a pass must not come from the figures of another period,
\* although figures of one company often repeat.  An annual report of a year with another number,
\* as years that end in January have, or a report that is a year late, can pass on the figures of
\* the year after it, which company facts that are newer confirm as exact_period; it is the only
\* case, and the report of the year after is what is then compared.
PassIsOfTheFiling ==
  \A v \in verified : v.status = "reconciled_pass" =>
    \/ Stand(OwnFacts(filing), filing)
    \/ /\ filing.form = "10-K" /\ ~ YearIsCalendar(filing)
       /\ v.target = Target(filing.fy + 1, {"FY"}, "exact_period")

\* "exact_period: Both FY and FP confirmed from XBRL metadata", the "only mode that allows
\* reconciled_pass" (docs/context/period_resolution_logic.md).  The code does not keep it, and no
\* run checks it: a year that ends in January and bears the number of the year before is looked
\* for under the next number.
PassIsNeverOfAnother ==
  \A v \in verified : v.status = "reconciled_pass" => Stand(OwnFacts(filing), filing)

\* _check_reconciliation: "only compares facts from the same fiscal period as the filing being
\* verified".  When the SEC has the facts of the filing, those that are compared are of it.
ComparedIsOfItsPeriod ==
  \A v \in verified : v.depth = "reconciled" /\ OwnFacts(filing) # {} =>
    \A e \in CanonicalFacts(filing.facts, v.target) : e.fy = filing.fy /\ e.fp = filing.fp
===============================================================================
