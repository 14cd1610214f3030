------------------------------ MODULE MCFilings ------------------------------
(***************************************************************************)
(* What is made of the filings of a company: the claims on its equity, and *)
(* the histories of its metrics.  They share no state; a behaviour is one  *)
(* of one of them.  The fiscal year of the histories is 2 to 13.           *)
(***************************************************************************)
EXTENDS ClaimsService, Histories

VARIABLE side

allVars == <<side, claimVars, historyVars>>

Fact(c, e, v) == [concept |-> c, end |-> e, value |-> v, context |-> "instant"]
In(context, f) == [f EXCEPT !.context = context]

MCClaimsMenu ==
  {{Fact("DebtCurrent", 1, 5), Fact("CashAndCashEquivalentsAtCarryingValue", 1, 2),
    Fact("ShortTermInvestments", 1, 1), Fact("MarketableSecuritiesCurrent", 1, 1)},
   {Fact("DebtCurrent", 2, 6), Fact("CommercialPaper", 2, 3),
    Fact("CashAndCashEquivalentsAtCarryingValue", 2, 3)},
   {Fact("DebtCurrent", 1, 4), Fact("CashAndCashEquivalentsAtCarryingValue", 1, 2)},
   {Fact("CommercialPaper", 2, 9), Fact("LongTermDebt", 2, 7),
    In("member", Fact("DebtCurrent", 2, 1))},
   {Fact("MinorityInterest", 1, 1), Fact("NoncontrollingInterestInVariableInterestEntity", 2, 2),
    Fact("EntityCommonStockSharesOutstanding", 1, 10),
    Fact("RedeemableNoncontrollingInterestCarryingAmount", 1, 3),
    Fact("PreferredStockValue", 1, 2), Fact("FinanceLeaseLiabilityCurrent", 1, 1),
    In("period", Fact("PreferredStockDividendRate", 1, 1))}}

NoPin == << >>

OCF == "NetCashProvidedByUsedInOperatingActivities"
CAPEX == "PaymentsToAcquirePropertyPlantAndEquipment"
CASH == "CashAndCashEquivalentsAtCarryingValue"

Row(concept, start, end, value) ==
  [concept |-> concept, start |-> start, end |-> end, value |-> value, content |-> "number",
   unit |-> TRUE, metric |-> concept, available |-> 0]
NotFinite(row) == [row EXCEPT !.content = "nonfinite", !.value = 0]

MCReports == {
  [form |-> "10-Q", rows |-> {Row(OCF, 2, 4, 2), Row(OCF, 2, 7, 5), Row(OCF, 2, 10, 7),
                              Row(CAPEX, 2, 4, 1), Row(CAPEX, 2, 7, 2), Row(CASH, 0, 7, 6)}],
  [form |-> "10-K", rows |-> {Row(OCF, 2, 13, 10), Row(CAPEX, 2, 13, 4), Row(CASH, 0, 13, 3),
                              Row("Revenues", 2, 13, 9), Row("CostOfRevenue", 2, 13, 4),
                              Row("GrossProfit", 2, 13, 5)}],
  [form |-> "10-K/A", rows |-> {Row("Revenues", 2, 13, 8), Row("CostOfRevenue", 2, 13, 3),
                                Row(OCF, 2, 13, 11)}],
  [form |-> "10-K", rows |-> {NotFinite(Row(OCF, 2, 7, 5)), Row(OCF, 5, 7, 3), Row(OCF, 8, 10, 3),
                              Row(OCF, 1, 13, 10), Row("CostOfRevenue", 2, 13, 5),
                              Row("SalesRevenueNet", 2, 13, 9), Row(CASH, 0, 10, 5),
                              Row("PremiumsEarnedNet", 2, 10, 1)}]}

Claiming(A) == side = "claims" /\ A /\ UNCHANGED <<side, historyVars>>
Reporting(A) == side = "histories" /\ A /\ UNCHANGED <<side, claimVars>>

HistoriesAtRest == HistoryInit /\ cumulativeFirst = FALSE

MCInit ==
  \/ side = "claims" /\ ClaimsInit /\ HistoriesAtRest
  \/ side = "histories" /\ HistoryInit /\ ClaimsInit

MCNext == Claiming(ClaimsNext) \/ Reporting(HistoryNext)

MCSpec == MCInit /\ [][MCNext]_allVars
=============================================================================
