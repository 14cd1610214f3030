----------------------------- MODULE Certification -----------------------------
(***************************************************************************)
(* financial_certification.py: what may be said of a row that a history    *)
(* answers, from the sources the row names.                                *)
(*                                                                         *)
(* The certifier computes everything again from the sources and takes      *)
(* nothing from the engine but its claims.  A row it cannot justify is     *)
(* UNAVAILABLE; the reasons are left out, and so are identifiers of the    *)
(* company and the member, which all rows of a model share.                *)
(***************************************************************************)
EXTENDS SecHistory

Scope(r) == <<r.start, r.end>>

ValueOf(terms) == Sum(terms, LAMBDA t : t[2] * t[1].value)

\* Leaves one after the other, from one date to another.
Chain(leaves, start, end) ==
  LET ordered == SetToSortSeq(leaves, LAMBDA a, b : a.end < b.end)
  IN  /\ ordered[1].start = start /\ ordered[Len(ordered)].end = end
      /\ \A i \in 1..(Len(ordered) - 1) : ordered[i + 1].start = ordered[i].end + 1

Difference(latest, prior, period) ==
  /\ latest.start = prior.start /\ latest.end = period.end /\ prior.end + 1 = period.start

\* component_terms: the terms that a component may have, as a set of none or one set.  The
\* components of a history row have no components of their own.
ComponentTerms(component) ==
  LET leaves == component.ids
      ofMetric == \A l \in leaves : l.metric = component.metric
      pairs == {p \in leaves \X leaves : p[1].end > p[2].end /\ Difference(p[1], p[2], component)}
      terms ==
        IF Cardinality(leaves) = 1
        THEN {{<<l, 1>> : l \in leaves} :
                c \in {x \in {component} : \A l \in leaves : Scope(l) = Scope(x)}}
        ELSE IF component.formula = "SUBTRACT" /\ Cardinality(leaves) = 2
        THEN {{<<p[1], 1>>, <<p[2], -1>>} : p \in pairs}
        ELSE IF component.formula = "SUM" /\ Chain(leaves, component.start, component.end)
        THEN {{<<l, 1>> : l \in leaves}}
        ELSE {}
  IN  {t \in terms : ofMetric /\ leaves # {} /\ ValueOf(t) = component.value}

\* The terms a derived row should have: those of its components, with their signs.
Bound(row) == \A i \in DOMAIN row.parts : ComponentTerms(row.parts[i]) # {}
ExpectedTerms(row) ==
  LET Of(i) == CHOOSE t \in ComponentTerms(row.parts[i]) : TRUE
      Sign(i) == IF row.formula = "SUM" \/ i = 1 THEN 1 ELSE -1
      Weight(l) == Sum(DOMAIN row.parts, LAMBDA i : Sign(i) * Coefficient(Of(i), l))
      sources == UNION {row.parts[i].ids : i \in DOMAIN row.parts}
  IN  {t \in {<<l, Weight(l)>> : l \in sources} : t[2] # 0}

\* validate_derivation_definition, by metric.
FreeCashFlowDefined(row) ==
  LET roles == {"operating_cash_flow", "capital_expenditures"}
      Part(role) == CHOOSE p \in Range(row.parts) : p.metric = role
  IN  /\ {l.metric : l \in row.ids} = roles
      /\ row.formula = "SUBTRACT" /\ Len(row.parts) = 2
      /\ {p.metric : p \in Range(row.parts)} = roles
      /\ \A p \in Range(row.parts) : Scope(p) = Scope(row)
      /\ Part("capital_expenditures").value >= 0
      /\ Part("operating_cash_flow").value - Part("capital_expenditures").value = row.value

DebtDefined(row) ==
  /\ row.formula = "SUM"
  /\ \A l \in row.ids : Scope(l) = Scope(row) /\ l.metric \in DebtComponents

\* Mutant of PeriodDefined: a gap of one unit between the parts is asked for.
PeriodDefinedApart(row) ==
  /\ row.parts # << >> /\ \A p \in Range(row.parts) : p.metric = row.metric
  /\ row.formula = "SUBTRACT" =>
       Len(row.parts) = 2 /\ Difference(row.parts[1], row.parts[2], [row EXCEPT !.start = @ - 1])

PeriodDefined(row) ==
  /\ row.parts # << >> /\ \A p \in Range(row.parts) : p.metric = row.metric
  /\ row.formula = "SUM" => Chain(Range(row.parts), row.start, row.end)
  /\ row.formula = "SUBTRACT" =>
       Len(row.parts) = 2 /\ Difference(row.parts[1], row.parts[2], row)

Defined(row) ==
  /\ row.parts # << >> => Bound(row) /\ ExpectedTerms(row) = row.terms
  /\ CASE row.metric = "free_cash_flow" -> FreeCashFlowDefined(row)
       [] row.metric = "total_debt" -> DebtDefined(row)
       [] OTHER -> PeriodDefined(row)

\* validate_sources.  A source must be the latest of its context, undisputed, and not
\* followed by a row that was rejected.
Peers(data, source, cutoff) ==
  {o \in data.observations : /\ o.concept = source.concept /\ Scope(o) = Scope(source)
                             /\ o.available <= cutoff}
CurrentVintage(data, source, cutoff) ==
  LET peers == Peers(data, source, cutoff)
      latest == Max({o.available : o \in peers})
  IN  /\ source.available = latest
      /\ \A o \in peers : o.available = latest => o.value = source.value
      /\ ~\E r \in data.rejected : SameContext(r, source) /\ r.available \in latest..cutoff

SourceUsable(data, source, cutoff) ==
  /\ source \in data.observations /\ source.form \in Forms /\ source.available <= cutoff
  /\ source.content = "number"
  /\ source.metric \in Metrics => source.concept \in Concepts(source.metric)
  /\ CurrentVintage(data, source, cutoff)

DerivationVerified(row) ==
  /\ row.terms # {} /\ {t[1] : t \in row.terms} = row.ids
  /\ ValueOf(row.terms) = row.value
  /\ Defined(row)
  /\ \A l \in row.ids : l.end <= row.end

ReportedVerified(row) ==
  \E l \in row.ids : /\ row.ids = {l}
                      /\ l.metric = row.metric /\ Scope(l) = Scope(row) /\ l.value = row.value

SourcesValid(data, row, cutoff) ==
  /\ row.metric \in Metrics \ data.quarantined
  /\ row.start <= row.end
  /\ Registry[row.metric].kind \in {"flow", "weighted"} => row.start # 0
  /\ row.ids # {}
  /\ \A l \in row.ids : SourceUsable(data, l, cutoff)
  /\ IF row.formula = "REPORTED" THEN ReportedVerified(row) ELSE DerivationVerified(row)

-----------------------------------------------------------------------------
(* Accounting identities.  An input: [identity, metric, start, end, roles, *)
(* confirmed], where roles is a function from roles to sources, and        *)
(* confirmed the evidence that some identities ask for.                    *)

LinearIdentities == [
  REVENUE_MINUS_COST_EQUALS_GROSS_PROFIT |->
    [target |-> "revenue", signs |-> [revenue |-> 1, cost_of_revenue |-> -1, gross_profit |-> -1]],
  GROSS_PROFIT_MINUS_OPEX_EQUALS_OPERATING_INCOME |->
    [target |-> "operating_income",
     signs |-> [gross_profit |-> 1, operating_expenses |-> -1, operating_income |-> -1]],
  PRETAX_MINUS_TAX_EQUALS_NET_INCOME |->
    [target |-> "net_income", signs |-> [pretax_income |-> 1, tax_expense |-> -1, net_income |-> -1]]]

CashFlows == {"operating_cash_flow", "investing_cash_flow", "financing_cash_flow", "fx_cash_effect"}

LinearHolds(row, item) ==
  LET identity == LinearIdentities[item.identity]
  IN  /\ identity.target = row.metric /\ DOMAIN item.roles = DOMAIN identity.signs
      /\ \A role \in DOMAIN item.roles : item.roles[role].metric = role
      /\ item.identity = "PRETAX_MINUS_TAX_EQUALS_NET_INCOME" => item.confirmed
      /\ Sum(DOMAIN item.roles, LAMBDA role : identity.signs[role] * item.roles[role].value) = 0

CashMoves(row, item) ==
  /\ DOMAIN item.roles = CashFlows \cup {"cash_begin", "cash_end"}
  /\ row.metric \in {"cash", "operating_cash_flow"} /\ item.start # 0
  /\ \A role \in CashFlows : item.roles[role].metric = role
                             /\ Scope(item.roles[role]) = <<item.start, item.end>>
  /\ \A role \in {"cash_begin", "cash_end"} : item.roles[role].metric = "cash"
  /\ Scope(item.roles["cash_begin"]) = <<0, item.start - 1>>
  /\ Scope(item.roles["cash_end"]) = <<0, item.end>>
  /\ item.roles["cash_end"].value - item.roles["cash_begin"].value
       = Sum(CashFlows, LAMBDA role : item.roles[role].value)

DebtAdds(row, item) ==
  /\ row.metric = "total_debt" /\ item.confirmed /\ DebtComponents # {}
  /\ {l.concept : l \in Range(item.roles)} = DebtComponents
  /\ \A l \in Range(item.roles) : l.metric \in DebtComponents
  /\ Sum(Range(item.roles), LAMBDA l : l.value) = row.value

\* Mutant of OneFiling: the filing of the row is not compared.
OneFilingOfAny(data, row, item, cutoff) ==
  LET leaves == Range(item.roles)
      Filing(l) == <<l.number, l.form, l.available>>
  IN  /\ leaves # {} /\ leaves \subseteq data.observations
      /\ \A k, l \in leaves : Filing(k) = Filing(l)
      /\ \A l \in leaves : l.available <= cutoff /\ l.content = "number"

\* Everything an identity relates is of one filing, which is the filing of the row.
OneFiling(data, row, item, cutoff) ==
  LET leaves == Range(item.roles)
      Filing(l) == <<l.number, l.form, l.available>>
  IN  /\ leaves # {} /\ leaves \subseteq data.observations /\ IsInjective(item.roles)
      /\ \A k, l \in leaves : Filing(k) = Filing(l)
      /\ \A l \in leaves : l.available <= cutoff /\ l.content = "number"
      /\ row.ids \subseteq leaves
      /\ \A l \in leaves, o \in data.observations :
           o.metric = l.metric /\ Scope(o) = Scope(l) /\ Filing(o) = Filing(l)
             => o.value = l.value

\* accounting_identity; the rounding of earnings per share is left out.
AccountingHolds(data, row, item, cutoff) ==
  /\ item.metric = row.metric /\ item.end = row.end
  /\ (item.identity = "CASH_MOVEMENT" /\ row.metric = "cash") \/ item.start = row.start
  /\ OneFiling(data, row, item, cutoff)
  /\ item.identity # "CASH_MOVEMENT" =>
       \A l \in Range(item.roles) : Scope(l) = <<item.start, item.end>>
  /\ \/ item.identity \in DOMAIN LinearIdentities /\ LinearHolds(row, item)
     \/ item.identity = "CASH_MOVEMENT" /\ CashMoves(row, item)
     \/ item.identity = "DEBT_COMPONENT_SUM" /\ DebtAdds(row, item)

\* certify_history: the highest rank of each row.  Independent reconciliations, which a
\* script records beside the release, are left out.
Status(data, row, inputs, cutoff) ==
  IF ~SourcesValid(data, row, cutoff) THEN "UNAVAILABLE"
  ELSE IF \E item \in inputs : AccountingHolds(data, row, item, cutoff)
  THEN "ACCOUNTING_CERTIFIED"
  ELSE IF row.formula # "REPORTED" THEN "DERIVATION_VERIFIED" ELSE "SOURCE_OBSERVED"

-----------------------------------------------------------------------------
(* The companion of build_sec_metric_certification.py: the concepts that   *)
(* identities need and the engine does not keep, and what they may prove   *)
(* of the annual rows of one cutoff.  A request adds them to the release.  *)

Extra == [
  CostOfRevenue |-> "cost_of_revenue", CostOfGoodsAndServicesSold |-> "cost_of_revenue",
  GrossProfit |-> "gross_profit", OperatingExpenses |-> "operating_expenses"]

\* No pinned concept of revenue is one of them.
ASSUME CertificationAssumption == ToSet(Pinned) \cap DOMAIN Extra = {}

ExtraSources(rows) ==
  {[r EXCEPT !.available = AvailableFrom(r), !.metric = Extra[r.concept]] :
     r \in {q \in rows : /\ q.concept \in DOMAIN Extra /\ q.unit /\ q.form \in Forms
                         /\ q.start # 0 /\ q.end <= q.filed /\ q.content = "number"}}

With(data, more) == [data EXCEPT !.observations = @ \cup more]

\* Everything a filing says of a role over the period of a source.
SameFiling(data, source, role) ==
  {o \in data.observations : /\ o.metric = role /\ Scope(o) = Scope(source)
                            /\ o.number = source.number /\ o.form = source.form
                            /\ o.available = source.available}

\* The identity of revenue or of operating income, if the filing of the only source of the
\* row states each of its roles, without contradiction.
Identities == DOMAIN LinearIdentities
Complete(data, source, name) ==
  \A role \in DOMAIN LinearIdentities[name].signs :
    LET stated == SameFiling(data, source, role)
    IN  stated # {} /\ \A o, q \in stated : o.value = q.value

InputsFor(data, row) ==
  {[identity |-> p[1], metric |-> row.metric, start |-> row.start, end |-> row.end,
    confirmed |-> FALSE,
    roles |-> [role \in DOMAIN LinearIdentities[p[1]].signs |->
                 CHOOSE o \in SameFiling(data, p[2], role) : TRUE]] :
     p \in {q \in Identities \X row.ids :
             /\ row.metric \in {"revenue", "operating_income"} /\ row.ids = {q[2]}
             /\ LinearIdentities[q[1]].target = row.metric
             /\ Complete(data, q[2], q[1])}}

\* build_companion, from the whole member.
CompanionOf(sources, inputs) ==
  [inputs |-> inputs,
   observations |-> (UNION {Range(i.roles) : i \in inputs}) \ sources.observations]
InputsOf(whole, cutoff, cumulativeFirst) ==
  UNION {InputsFor(whole, row) : row \in History(whole, "annual", cutoff, cutoff, cumulativeFirst)}
Companion(sources, rows, cutoff, cumulativeFirst) ==
  CompanionOf(sources, InputsOf(With(sources, ExtraSources(rows)), cutoff, cumulativeFirst))

\* financial, of unified_research_api.py: the rows of a request and their ranks.
Ranked(data, inputs, rows, cutoff) == {<<row, Status(data, row, inputs, cutoff)>> : row \in rows}
Certified(sources, companion, frequency, cutoff, to, cumulativeFirst) ==
  LET data == With(sources, companion.observations)
  IN  Ranked(data, companion.inputs, History(data, frequency, cutoff, to, cumulativeFirst), cutoff)
=============================================================================
