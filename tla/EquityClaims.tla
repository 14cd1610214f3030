----------------------------- MODULE EquityClaims -----------------------------
(***************************************************************************)
(* equity_claims.py: the claims that stand between the value of an         *)
(* enterprise and that of its common shares, read from the facts a company *)
(* has filed.  No state: the module defines what a set of facts says as of *)
(* a day, and ClaimsService asks it.                                       *)
(*                                                                         *)
(* A fact has a concept, the day its period ends, the day and the number   *)
(* of its filing, a value and a context: an instant, a period, or a member *)
(* of a dimension.  The concept stands for taxonomy and unit as well.      *)
(* Notes, digests and the wording of a claim are left out; a claim keeps   *)
(* its evidence state, the facts that are added up and those it cites.     *)
(* Nobody but the tests passes offering terms for preferred stock, and     *)
(* they are left out.                                                      *)
(***************************************************************************)
EXTENDS Integers, FiniteSetsExt, SequencesExt

CONSTANTS
  MaxAge,            \* MAX_AGE_DAYS, in days of the model
  ObservationLimit   \* observations of a share count that are listed

-----------------------------------------------------------------------------
(* The candidate concepts of each claim, in the order a choice is made.    *)

DebtCurrentTotal == <<"DebtCurrent">>
DebtCurrentParts == <<"LongTermDebtCurrent">>
CurrentBorrowings == <<"CommercialPaper", "OtherShortTermBorrowings", "ShortTermBorrowings">>
DebtNoncurrent == <<"LongTermDebtNoncurrent">>
DebtCombinedTotal == <<"LongTermDebt">>
FinanceLeaseTotal == <<"CapitalLeaseObligations", "FinanceLeaseLiability">>
FinanceLeaseParts == <<"CapitalLeaseObligationsCurrent", "CapitalLeaseObligationsNoncurrent",
                       "FinanceLeaseLiabilityCurrent", "FinanceLeaseLiabilityNoncurrent">>
OperatingLeaseTotal == <<"OperatingLeaseLiability">>
OperatingLeaseParts == <<"OperatingLeaseLiabilityCurrent", "OperatingLeaseLiabilityNoncurrent">>
Cash == <<"CashAndCashEquivalentsAtCarryingValue">>
ShortInvestments == <<"MarketableSecuritiesCurrent", "ShortTermInvestments">>
NoncurrentSecurities == <<"MarketableSecuritiesNoncurrent">>
PreferredCarrying == <<"ConvertiblePreferredStock", "PreferredStockValue",
                       "PreferredStockValueOutstanding">>
PreferredInstants == <<"PreferredStockSharesOutstanding", "PreferredStockSharesIssued",
                       "PreferredStockLiquidationPreference",
                       "PreferredStockLiquidationPreferenceValue">>
PreferredPeriods == <<"PreferredStockDividendRate", "DividendsPreferredStockCash",
                      "IncrementalCommonSharesAttributableToConversion">>
NoncontrollingTotal == <<"MinorityInterest">>
NoncontrollingVie == <<"NoncontrollingInterestInVariableInterestEntity">>
NoncontrollingRedeemable == <<"RedeemableNoncontrollingInterestCarryingAmount",
                              "RedeemableNoncontrollingInterestFairValue">>
CoverShares == <<"EntityCommonStockSharesOutstanding">>
BalanceShares == <<"CommonStockSharesOutstanding">>

CertifiedStates == {"REPORTED", "DERIVED_VERIFIED", "REVIEWED_ABSENT"}
Deducted == {"debt", "finance_leases", "preferred_equity", "noncontrolling_interests"}
Added == {"cash", "nonoperating_assets"}
Bridge == Deducted \cup Added

-----------------------------------------------------------------------------
(* A filing dated D is available once day D has ended: an instant inside D *)
(* excludes it, and a cutoff that names the whole day includes it.         *)

AvailableAt(fact, cutoff) ==
  fact.filed < cutoff.day \/ (fact.filed = cutoff.day /\ cutoff.whole)

RestrictToAvailable(facts, cutoff) == {f \in facts : AvailableAt(f, cutoff)}

Current(f, day) == f.filed <= day /\ day - MaxAge <= f.end /\ f.end <= day

Eligible(facts, concept, day) ==
  {f \in facts : f.concept = concept /\ f.context = "instant" /\ Current(f, day)}

\* A rate or an amount is declared for a period; both kinds of context count.
PeriodEligible(facts, concept, day) ==
  {f \in facts : f.concept = concept /\ f.context # "member" /\ Current(f, day)}

Older(f, g) ==
  \/ f.end < g.end
  \/ f.end = g.end /\ f.filed < g.filed
  \/ f.end = g.end /\ f.filed = g.filed /\ f.number < g.number

\* The latest period end, then the latest filing.
Newest(facts) == CHOOSE f \in facts : \A g \in facts : ~Older(f, g)

Group(facts, concepts, day) ==
  [c \in {c \in ToSet(concepts) : Eligible(facts, c, day) # {}}
     |-> Newest(Eligible(facts, c, day))]

PeriodGroup(facts, concepts, day) ==
  [c \in {c \in ToSet(concepts) : PeriodEligible(facts, c, day) # {}}
     |-> Newest(PeriodEligible(facts, c, day))]

Facts(found) == Range(found)

\* The facts of the first concept found, if any is.
First(order, found) ==
  LET present == SelectSeq(order, LAMBDA c : c \in DOMAIN found)
  IN  IF present = <<>> THEN {} ELSE {found[present[1]]}

Values(facts) == {f.value : f \in facts}
Amount(facts) == MapThenSumSet(LAMBDA f : f.value, facts)

-----------------------------------------------------------------------------
(* The claims.                                                             *)

Claim(state, counted, cited) == [state |-> state, counted |-> counted, cited |-> cited]
AbsentClaim == Claim("REVIEWED_ABSENT", {}, {})
ClaimOf(counted) == IF counted = {} THEN AbsentClaim ELSE Claim("REPORTED", counted, counted)

\* The total when it is reported, and otherwise the parts.
TotalOrParts(facts, total, parts, day) ==
  LET found == First(total, Group(facts, total, day))
  IN  IF found # {} THEN found ELSE Facts(Group(facts, parts, day))

\* The stated current total is taken alone: a component of the same period may be
\* inside it, and one that exceeds it contradicts it.  Without a noncurrent portion
\* the combined total stands for it.
DebtClaim(facts, day) ==
  LET total == First(DebtCurrentTotal, Group(facts, DebtCurrentTotal, day))
      parts == Facts(Group(facts, DebtCurrentParts \o CurrentBorrowings, day))
      noncurrent == Facts(Group(facts, DebtNoncurrent, day))
      combined == Facts(Group(facts, DebtCombinedTotal, day))
      current == IF total # {} THEN total ELSE parts
      long == IF noncurrent # {} THEN noncurrent ELSE combined
      inside == {p \in parts : \E t \in total : p.end = t.end /\ p.value # t.value}
      exceeding == {p \in inside : \E t \in total : p.value > t.value}
  IN  IF exceeding # {}
      THEN Claim("CONFLICTING", {}, current \cup long \cup inside)
      ELSE ClaimOf(current \cup long)

FinanceLeaseClaim(facts, day) ==
  ClaimOf(TotalOrParts(facts, FinanceLeaseTotal, FinanceLeaseParts, day))

OperatingLeaseClaim(facts, day) ==
  ClaimOf(TotalOrParts(facts, OperatingLeaseTotal, OperatingLeaseParts, day))

CashClaim(facts, day) == ClaimOf(First(Cash, Group(facts, Cash, day)))

\* One of the two concepts of short-term investments, never both; cash comes with
\* them.
NonoperatingAssetClaim(facts, day) ==
  ClaimOf(Facts(Group(facts, Cash, day))
          \cup First(ShortInvestments, Group(facts, ShortInvestments, day))
          \cup Facts(Group(facts, NoncurrentSecurities, day)))

\* Only a carrying amount makes a claim; the other measures are cited.
PreferredClaim(facts, day) ==
  LET carrying == Group(facts, PreferredCarrying, day)
      cited == Facts(carrying) \cup Facts(Group(facts, PreferredInstants, day))
               \cup Facts(PeriodGroup(facts, PreferredPeriods, day))
      value == First(PreferredCarrying, carrying)
  IN  Claim(IF value = {} THEN "REVIEWED_ABSENT" ELSE "REPORTED", value, cited)

\* The total, or else the measure of variable interest entities; they may not
\* disagree.  A redeemable interest is reported beside the claim.
NoncontrollingClaim(facts, day) ==
  LET total == Facts(Group(facts, NoncontrollingTotal, day))
      vie == Facts(Group(facts, NoncontrollingVie, day))
      redeemable == First(NoncontrollingRedeemable,
                          Group(facts, NoncontrollingRedeemable, day))
  IN  Claim(IF total \cup vie = {} THEN "REVIEWED_ABSENT"
            ELSE IF total # {} /\ vie # {} /\ Values(total) # Values(vie) THEN "CONFLICTING"
            ELSE "REPORTED",
            IF total # {} THEN total ELSE vie,
            total \cup vie \cup redeemable)

\* The newest observations of a share count, as many as are listed.
Observations(facts, concept, day) ==
  LET seen == Eligible(facts, concept, day)
  IN  {f \in seen : Cardinality({g \in seen : Older(f, g)}) < ObservationLimit}

CommonSharesClaim(facts, day) ==
  LET cover == Facts(Group(facts, CoverShares, day))
      balance == Facts(Group(facts, BalanceShares, day))
      concept == IF cover # {} THEN CoverShares[1] ELSE BalanceShares[1]
      chosen == IF cover # {} THEN cover ELSE balance
  IN  IF chosen = {} THEN Claim("UNAVAILABLE", {}, {})
      ELSE Claim("REPORTED", chosen, Observations(facts, concept, day))

Claims(facts, day) ==
  [debt |-> DebtClaim(facts, day),
   finance_leases |-> FinanceLeaseClaim(facts, day),
   operating_leases |-> OperatingLeaseClaim(facts, day),
   cash |-> CashClaim(facts, day),
   nonoperating_assets |-> NonoperatingAssetClaim(facts, day),
   preferred_equity |-> PreferredClaim(facts, day),
   noncontrolling_interests |-> NoncontrollingClaim(facts, day),
   common_shares |-> CommonSharesClaim(facts, day)]

Unresolved(claims) == {n \in DOMAIN claims : claims[n].state \notin CertifiedStates}

\* The bridge is there when every claim of it is known; one that is reviewed and
\* absent counts as nothing.
BuildClaims(facts, day) ==
  LET claims == Claims(facts, day)
      available == Bridge \cap Unresolved(claims) = {}
      Total(names) == IF available
                      THEN FoldSet(LAMBDA n, sum : sum + Amount(claims[n].counted), 0, names)
                      ELSE 0
  IN  [claims |-> claims, unresolved |-> Unresolved(claims), available |-> available,
       deduct |-> Total(Deducted), add |-> Total(Added)]
=============================================================================
