------------------------------ MODULE Readiness ------------------------------
(***************************************************************************)
(* sec_universe_readiness.py, sec_readiness_index.py and                   *)
(* sec_readiness_api.py: which valuation methods the filings of an issuer  *)
(* support, how that verdict is indexed, and how the index is screened.    *)
(*                                                                         *)
(* Every issuer is classified on its own, from its member of the archive   *)
(* and from what the engine recorded of its history; the records are       *)
(* published, an index of them is built, and questions are put to the      *)
(* index.  The workers of a classification and its files are in            *)
(* ReadinessRun, the pages of an answer in ReadApis.                       *)
(***************************************************************************)
EXTENDS Integers, FiniteSetsExt, Functions

CONSTANTS
  Issuers,     \* CIKs
  Members,     \* what a member may be: {} unreadable, or {[own, concepts, equity, claims]}
  Recorded,    \* what the engine may have recorded: {} or {[usable, family, annual]}
  Questions,   \* [method, flags, missing, status, sectors, ciks], sets
  Shards       \* CIK remainders: 100

VARIABLES
  sources,     \* member and recorded history of each issuer
  records,     \* << >> or the records of the release
  index,       \* {} or the index of it
  screened     \* the last answer

readinessVars == <<sources, records, index, screened>>

Bridge == {"debt", "finance_leases", "preferred_equity", "noncontrolling_interests", "cash",
           "nonoperating_assets"}
BridgeCode == [debt |-> "MISSING_BRIDGE_CLAIM_DEBT",
               finance_leases |-> "MISSING_BRIDGE_CLAIM_FINANCE_LEASES",
               preferred_equity |-> "MISSING_BRIDGE_CLAIM_PREFERRED_EQUITY",
               noncontrolling_interests |-> "MISSING_BRIDGE_CLAIM_NONCONTROLLING_INTERESTS",
               cash |-> "MISSING_BRIDGE_CLAIM_CASH",
               nonoperating_assets |-> "MISSING_BRIDGE_CLAIM_NONOPERATING_ASSETS"]
Methods == {"operating_dcf", "fcfe", "apv", "bank_excess_return", "residual_income", "ddm",
            "comparables"}
NotIndustrial == "INDUSTRIAL_DCF_NOT_APPLICABLE_TO_FINANCIAL_FILER"
NotFinancial == "NOT_A_FINANCIAL_STATEMENT_FAMILY_FILER"
NotApplicable == {NotIndustrial, NotFinancial}
CertifiedStates == {"REPORTED", "DERIVED_VERIFIED", "REVIEWED_ABSENT"}
DividendConcepts == {"PaymentsOfDividends", "DividendsCommonStockCash"}

-----------------------------------------------------------------------------
(* The evidence of an issuer.                                              *)

Presence(member, concepts) == member.concepts \cap concepts

\* claim_summary: one state per claim; the bridge is whole when no claim of it is open.
ClaimSummary(member) ==
  [claims |-> {n \in Bridge : member.claims[n] \in CertifiedStates},
   mapped |-> \A n \in Bridge : member.claims[n] # "UNAVAILABLE",
   refused |-> {n \in Bridge : member.claims[n] = "CONFLICTING"},
   absent |-> {n \in Bridge : member.claims[n] = "REVIEWED_ABSENT"},
   shares |-> member.claims["common_shares"] \in CertifiedStates]

\* financial_history: a quarantined history may still name a family and metrics.
FinancialHistory(recorded) ==
  IF recorded = {} THEN [status |-> "NOT_ATTEMPTED", available |-> {}, financial |-> FALSE]
  ELSE LET r == CHOOSE x \in recorded : TRUE IN
       [status |-> IF r.usable THEN "USABLE_HISTORY" ELSE "QUARANTINED",
        available |-> {m \in DOMAIN r.annual : r.annual[m] > 0},
        financial |-> r.family = "financial_statement_evidence"]

-----------------------------------------------------------------------------
(* method_eligibility: what each method misses.                            *)

Unless(met, code) == IF met THEN {} ELSE {code}

Operating(h) == {"revenue", "operating_income"} \subseteq h.available
CashFlow(h) == {"operating_cash_flow", "capital_expenditures"} \subseteq h.available
StatementGaps(h) ==
  Unless(Operating(h), "MISSING_OPERATING_INCOME_OR_REVENUE")
    \cup Unless(CashFlow(h), "MISSING_CASH_FLOW_OR_CAPEX")
IncomeGap(h) == Unless("net_income" \in h.available, "MISSING_NET_INCOME")
BookGap(member) == Unless(member.equity, "MISSING_BOOK_EQUITY_TOTAL")
ShareGap(c) == Unless(c.shares, "MISSING_DATED_OUTSTANDING_SHARES")
BridgeGaps(c, names) == {BridgeCode[n] : n \in names \ c.claims}

\* The industrial lanes give a financial filer one reason and no other.
Rule(h, gaps) == IF h.financial THEN {NotIndustrial} ELSE gaps

OperatingDcf(h, c) == Rule(h, StatementGaps(h) \cup BridgeGaps(c, Bridge) \cup ShareGap(c))
Fcfe(h, c) == Rule(h, StatementGaps(h) \cup IncomeGap(h) \cup ShareGap(c))
Apv(h, c) ==
  Rule(h, Unless(Operating(h) /\ CashFlow(h), "MISSING_UNLEVERED_FREE_CASH_FLOW_INPUTS")
            \cup BridgeGaps(c, {"debt"}) \cup ShareGap(c))
BankExcessReturn(h, c, member) ==
  Unless(h.financial, NotFinancial) \cup IncomeGap(h) \cup BookGap(member)
    \cup BridgeGaps(c, {"preferred_equity"}) \cup ShareGap(c)
ResidualIncome(h, c, member) ==
  IncomeGap(h) \cup BookGap(member) \cup ShareGap(c)
    \cup Unless({"preferred_equity", "noncontrolling_interests"} \subseteq c.claims,
                "PREFERRED_OR_NCI_CLAIM_NOT_RESOLVED")
Ddm(c, member) ==
  Unless(Presence(member, DividendConcepts) # {}, "MISSING_DIVIDEND_EVIDENCE") \cup ShareGap(c)
Comparables(h, c) ==
  Unless(h.available \cap {"revenue", "net_income"} # {}, "MISSING_REVENUE_AND_NET_INCOME")
    \cup ShareGap(c)

\* method -> what it misses.
MethodEligibility(h, c, member) ==
  [operating_dcf |-> OperatingDcf(h, c), fcfe |-> Fcfe(h, c), apv |-> Apv(h, c),
   bank_excess_return |-> BankExcessReturn(h, c, member),
   residual_income |-> ResidualIncome(h, c, member),
   ddm |-> Ddm(c, member), comparables |-> Comparables(h, c)]

EligibleOf(methods) == {m \in Methods : methods[m] = {}}

\* readiness_for and classify_range: one record per issuer, whatever is wrong with it.
ReadinessFor(source) ==
  IF source.member = {} THEN [status |-> "ARCHIVE_READ_FAILURE"]
  ELSE LET member == CHOOSE x \in source.member : TRUE
           h == FinancialHistory(source.recorded)
           c == ClaimSummary(member)
           methods == MethodEligibility(h, c, member)
       IN IF ~member.own THEN [status |-> "SOURCE_IDENTITY_MISMATCH"]
          ELSE [status |-> "CLASSIFIED", claims |-> c, methods |-> methods,
                missing |-> (UNION {methods[m] : m \in Methods}) \ NotApplicable,
                readiness |->
                  [financial_history_available |-> h.status = "USABLE_HISTORY",
                   equity_claims_mapped |-> c.mapped,
                   complete_equity_bridge |-> Bridge \subseteq c.claims,
                   dated_share_basis_verified |-> c.shares,
                   any_implemented_method_eligible |-> EligibleOf(methods) \ {"comparables"} # {},
                   operating_dcf_eligible |-> methods.operating_dcf = {},
                   specialized_method_required |-> h.financial]]

-----------------------------------------------------------------------------
(* The summary of a release.                                               *)

ClassifiedIn(release) == {i \in DOMAIN release : release[i].status = "CLASSIFIED"}

\* code -> issuers that miss it.
TopMissing(release) ==
  LET classified == ClassifiedIn(release)
  IN [code \in UNION {release[i].missing : i \in classified} |->
        Cardinality({i \in classified : code \in release[i].missing})]

\* Method and code -> issuers whom the method refuses for that reason alone.
RankWork(release) ==
  LET single == {p \in ClassifiedIn(release) \X Methods :
                   Cardinality(release[p[1]].methods[p[2]]) = 1}
      reason(p) == <<p[2], CHOOSE code \in release[p[1]].methods[p[2]] : TRUE>>
  IN [work \in {reason(p) : p \in single} |-> Cardinality({p \in single : reason(p) = work})]

\* What the summary counts: flags and eligible methods of the classified, and the others.
SummaryOf(release) ==
  LET classified == ClassifiedIn(release)
  IN [classified |-> Cardinality(classified),
      unclassified |-> Cardinality(DOMAIN release \ classified),
      eligible |-> [m \in Methods |-> Cardinality({i \in classified :
                                                     release[i].methods[m] = {}})],
      top |-> TopMissing(release), work |-> RankWork(release)]

-----------------------------------------------------------------------------
(* The index.                                                              *)

Flags == {"financial_history_available", "complete_equity_bridge", "dated_share_basis_verified",
          "any_implemented_method_eligible", "operating_dcf_eligible",
          "specialized_method_required"}

\* The methods and flags of a question are of the lists; its missing inputs may be anything.
ASSUME ReadinessAssumption ==
  \A q \in Questions : q.method \subseteq Methods /\ q.flags \subseteq Flags

Row(i, record) ==
  IF record.status # "CLASSIFIED"
  THEN [cik |-> i, status |-> record.status, methods |-> {}, missing |-> {}, flags |-> {},
        refused |-> {}, absent |-> 0]
  ELSE [cik |-> i, status |-> record.status, methods |-> EligibleOf(record.methods),
        missing |-> record.missing, flags |-> {f \in Flags : record.readiness[f]},
        refused |-> record.claims.refused, absent |-> Cardinality(record.claims.absent)]

FilterNames(row) ==
  {<<"status", row.status>>} \cup {<<"method", m>> : m \in row.methods}
    \cup {<<"flag", f>> : f \in row.flags} \cup {<<"missing", code>> : code \in row.missing}

IndexOf(release) ==
  LET rows == {Row(i, release[i]) : i \in DOMAIN release}
      names == UNION {FilterNames(row) : row \in rows}
  IN [buckets |-> [name \in names |-> {row \in rows : name \in FilterNames(row)}],
      shards |-> [s \in {i % Shards : i \in DOMAIN release} |->
                    {row \in rows : row.cik % Shards = s}],
      issuers |-> Cardinality(rows)]

ReadinessInit ==
  /\ sources \in [Issuers -> [member : Members, recorded : Recorded]]
  /\ records = << >> /\ index = {} /\ screened = [kind |-> "none"]

\* The records and their summary.
ClassifyAll ==
  /\ records = << >>
  /\ records' = [i \in Issuers |-> ReadinessFor(sources[i])]
  /\ screened' = [kind |-> "summary", counts |-> SummaryOf(records')]
  /\ UNCHANGED <<sources, index>>

BuildIndex ==
  /\ records # << >> /\ index = {}
  /\ index' = {IndexOf(records)}
  /\ UNCHANGED <<sources, records, screened>>

-----------------------------------------------------------------------------
(* A question to the index.                                                *)

Refused(code) == [kind |-> "refused", code |-> code]

Filtered(q) == q.method \cup q.flags \cup q.missing \cup q.status \cup q.sectors # {}

\* The buckets of each filter: any of them within a filter of alternatives, each of the
\* others on its own.  No row has a sector, and no bucket is published for one.
Groups(q) ==
  ({{<<"method", m>> : m \in q.method}, {<<"status", s>> : s \in q.status},
   {<<"sector", s>> : s \in q.sectors}} \ {{}})
    \cup {{<<"missing", code>>} : code \in q.missing} \cup {{<<"flag", f>>} : f \in q.flags}

Candidates(x, q) == {names \in Groups(q) : names \subseteq DOMAIN x.buckets}
IssuersOf(x, names) == MapThenSumSet(LAMBDA name : Cardinality(x.buckets[name]), names)

\* Mutant of Smallest: one of the alternatives is enough.
SmallestBucket(x, q) ==
  LET single == {{name} : name \in UNION Candidates(x, q)}
  IN {names \in single : \A other \in single : IssuersOf(x, names) <= IssuersOf(x, other)}

\* narrowest: a smallest of the published groups.
Smallest(x, q) ==
  LET published == Candidates(x, q)
  IN {names \in published : \A other \in published : IssuersOf(x, names) <= IssuersOf(x, other)}

Matches(row, q) ==
  /\ q.method # {} => q.method \cap row.methods # {}
  /\ q.missing \subseteq row.missing
  /\ q.flags \subseteq row.flags
  /\ q.sectors = {}
  /\ q.status # {} => row.status \in q.status

\* Without a filter, the shards of the issuers named.
ShardRows(x, q) == UNION {x.shards[s] : s \in {i % Shards : i \in q.ciks} \cap DOMAIN x.shards}

\* execute, once the candidate rows are read.
Screen(q, seen) ==
  IF q.ciks \ {row.cik : row \in seen} # {} THEN Refused("SCREEN_CIK_NOT_MATERIALIZED")
  ELSE [kind |-> "screen", question |-> q,
        matches |-> {row \in seen : (q.ciks # {} => row.cik \in q.ciks) /\ Matches(row, q)}]

\* Answers do not depend on one another: one question is enough.
AskIndex ==
  /\ screened.kind \in {"none", "summary"}
  /\ \E x \in index, q \in Questions :
       \/ /\ Filtered(q) /\ Candidates(x, q) = {}
          /\ screened' = Refused("SCREEN_FILTER_NOT_PUBLISHED")
       \/ /\ Filtered(q)
          /\ \E names \in Smallest(x, q) :
               screened' = Screen(q, UNION {x.buckets[name] : name \in names})
       \/ /\ ~Filtered(q) /\ q.ciks # {}
          /\ screened' = Screen(q, ShardRows(x, q))
  /\ UNCHANGED <<sources, records, index>>

ReadinessNext == ClassifyAll \/ BuildIndex \/ AskIndex

ReadinessSpec == ReadinessInit /\ [][ReadinessNext]_readinessVars

-----------------------------------------------------------------------------
(* Properties.                                                             *)

\* sec_readiness_query.py, matching: the same question put to the records themselves.
Matching(i, record, q) ==
  /\ q.ciks # {} => i \in q.ciks
  /\ IF record.status # "CLASSIFIED"
     THEN q.ciks # {} /\ q.method \cup q.missing \cup q.flags = {}
     ELSE /\ q.method # {} => \E m \in q.method : record.methods[m] = {}
          /\ q.missing \subseteq record.missing
          /\ \A f \in q.flags : record.readiness[f]

\* An answered screen is whole: it has the row of every issuer whose record matches, and of no
\* other, whichever bucket it was read from and whatever it was combined with.
ScreenIsWhole ==
  screened.kind = "screen" /\ screened.question.status \cup screened.question.sectors = {}
    => {row.cik : row \in screened.matches}
         = {i \in Issuers : Matching(i, records[i], screened.question)}

\* rank_work ranks work: resolving the one reason makes the method eligible, so it is evidence
\* that is missing and not a statement about the filer.  The code does not keep it, and no
\* run checks it: the rank counts such statements too.
RankIsOfWork ==
  screened.kind = "summary" =>
    \A work \in DOMAIN screened.counts.work : work[2] \notin NotApplicable
=============================================================================
