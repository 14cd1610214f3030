---------------------------- MODULE Filings_proofs ----------------------------
(*****************************************************************************)
(*  What is made of the filings of a company, proved for any archives,       *)
(*  facts, reports and days: the claims on its equity as of a cutoff know    *)
(*  nothing filed later, a history as of a day stays what it was, in         *)
(*  either engine, and a companion proves nothing of another day that one    *)
(*  of that day would not.                                                   *)
(*****************************************************************************)
EXTENDS ClaimsService, Histories, FiniteSetTheorems, WellFoundedInduction, TLAPS

-----------------------------------------------------------------------------
(* The claims on the equity. *)

\* An archive has every fact filed before its day: what is missing from it was filed later that
\* day or after it.
HasAllBefore(archive) ==
  /\ archive.day \in Int /\ archive.day <= today /\ archive.facts \subseteq facts
  /\ \A f \in facts \ archive.facts : archive.day <= f.filed

\* An answer is made from one archive that reaches to its cutoff.
IsMadeFromArchive(a) ==
  /\ a.archive \in archives
  /\ a.cutoff \in Cutoffs /\ a.cutoff.day <= a.archive.day
  /\ a.claims = BuildClaims(RestrictToAvailable(a.archive.facts, a.cutoff), a.cutoff.day)

ClaimsInv ==
  /\ today \in Int
  /\ \A f \in facts : f.filed \in Int /\ f.filed <= today
  /\ \A archive \in archives : HasAllBefore(archive)
  /\ \A c \in companion : c.archive \in archives
  /\ \A a \in answer : IsMadeFromArchive(a)

LEMMA ClaimsInit_Inv == ClaimsInit => ClaimsInv
BY DEF ClaimsInit, ClaimsInv

LEMMA FileFacts_Inv == ClaimsInv /\ FileFacts => ClaimsInv'
<1> SUFFICES ASSUME ClaimsInv, FileFacts PROVE ClaimsInv'
  OBVIOUS
<1> DEFINE New(filing) == {[concept |-> f.concept, end |-> f.end, value |-> f.value,
                            context |-> f.context, filed |-> today,
                            number |-> Cardinality(Filed) + 1] : f \in filing}
<1>1. PICK filing \in ClaimsMenu : facts' = facts \cup New(filing)
  BY DEF FileFacts
<1>2. \A f \in New(filing) : f.filed = today
  OBVIOUS
<1> HIDE DEF New
<1>3. /\ today' = today /\ archives' = archives /\ companion' = companion /\ answer' = answer
      /\ today \in Int
  BY DEF FileFacts, ClaimsInv
<1>4. \A f \in facts' : f.filed \in Int /\ f.filed <= today
  BY <1>1, <1>2, <1>3 DEF ClaimsInv
<1>5. ASSUME NEW archive \in archives PROVE HasAllBefore(archive)'
  <2>1. HasAllBefore(archive)
    BY DEF ClaimsInv
  <2>2. ASSUME NEW f \in facts' \ archive.facts PROVE archive.day <= f.filed
    BY <2>1, <1>1, <1>2 DEF HasAllBefore
  <2> QED BY <2>1, <2>2, <1>1, <1>3 DEF HasAllBefore
<1>6. \A a \in answer : IsMadeFromArchive(a)'
  BY <1>3 DEF ClaimsInv, IsMadeFromArchive
<1> QED BY <1>3, <1>4, <1>5, <1>6 DEF ClaimsInv

LEMMA NextDay_Inv == ClaimsInv /\ NextDayOfClaims => ClaimsInv'
<1> SUFFICES ASSUME ClaimsInv, NextDayOfClaims PROVE ClaimsInv'
  OBVIOUS
<1>1. /\ today \in Int /\ today' = today + 1 /\ facts' = facts /\ archives' = archives
      /\ companion' = companion /\ answer' = answer
  BY DEF NextDayOfClaims, ClaimsInv
<1>2. \A f \in facts : f.filed \in Int /\ f.filed <= today'
  BY <1>1 DEF ClaimsInv
<1>3. \A archive \in archives : HasAllBefore(archive)'
  BY <1>1 DEF ClaimsInv, HasAllBefore
<1>4. \A a \in answer : IsMadeFromArchive(a)'
  BY <1>1 DEF ClaimsInv, IsMadeFromArchive
<1> QED BY <1>1, <1>2, <1>3, <1>4 DEF ClaimsInv

LEMMA WriteArchive_Inv == ClaimsInv /\ WriteArchive => ClaimsInv'
<1> SUFFICES ASSUME ClaimsInv, WriteArchive PROVE ClaimsInv'
  OBVIOUS
<1> DEFINE new == [day |-> today, facts |-> facts]
<1>1. /\ archives' = archives \cup {new} /\ today' = today /\ facts' = facts
      /\ companion' = companion /\ answer' = answer /\ today \in Int
  BY DEF WriteArchive, ClaimsInv
<1>2. \A archive \in archives' : HasAllBefore(archive)'
  BY <1>1 DEF ClaimsInv, HasAllBefore
<1>3. \A a \in answer : IsMadeFromArchive(a)'
  BY <1>1 DEF ClaimsInv, IsMadeFromArchive
<1> QED BY <1>1, <1>2, <1>3 DEF ClaimsInv

LEMMA Release_Inv == ClaimsInv /\ (ReleaseEngine \/ ReleaseCompanion) => ClaimsInv'
<1> SUFFICES ASSUME ClaimsInv, ReleaseEngine \/ ReleaseCompanion PROVE ClaimsInv'
  OBVIOUS
<1>1. /\ today' = today /\ facts' = facts /\ archives' = archives /\ answer' = answer
      /\ \A c \in companion' : c.archive \in archives
  BY DEF ReleaseEngine, ReleaseCompanion, ClaimsInv
<1>2. /\ \A archive \in archives : HasAllBefore(archive)'
      /\ \A a \in answer : IsMadeFromArchive(a)'
  BY <1>1 DEF ClaimsInv, HasAllBefore, IsMadeFromArchive
<1> QED BY <1>1, <1>2 DEF ClaimsInv

\* Only the companion's facts make the answer, and it reaches to the cutoff.
LEMMA AskClaims_Inv == ClaimsInv /\ AskClaims => ClaimsInv'
<1> SUFFICES ASSUME ClaimsInv, AskClaims PROVE ClaimsInv'
  OBVIOUS
<1>1. /\ today' = today /\ facts' = facts /\ archives' = archives /\ companion' = companion
  BY DEF AskClaims
<1>2. PICK cutoff \in Cutoffs, c \in companion :
        /\ cutoff.day <= c.archive.day
        /\ answer' = {[cutoff |-> cutoff, archive |-> c.archive,
                       claims |-> BuildClaims(RestrictToAvailable(c.archive.facts, cutoff),
                                              cutoff.day)]}
  BY DEF AskClaims, Within
<1>3. \A a \in answer' : IsMadeFromArchive(a)'
  BY <1>1, <1>2 DEF ClaimsInv, IsMadeFromArchive, Cutoffs
<1>4. \A archive \in archives : HasAllBefore(archive)'
  BY <1>1 DEF ClaimsInv, HasAllBefore
<1> QED BY <1>1, <1>3, <1>4 DEF ClaimsInv

\* The facts of the archive that are available at the cutoff are all there are.
LEMMA ArchiveHasWhatIsAvailable ==
  ASSUME ClaimsInv, NEW a \in answer, BeforeItsDayEnds(a.cutoff, a.archive)
  PROVE  RestrictToAvailable(a.archive.facts, a.cutoff) = RestrictToAvailable(facts, a.cutoff)
<1>1. HasAllBefore(a.archive) /\ IsMadeFromArchive(a)
  BY DEF ClaimsInv, IsMadeFromArchive
<1>2. a.cutoff.day \in Int /\ a.cutoff.whole \in BOOLEAN
  BY <1>1 DEF IsMadeFromArchive, Cutoffs
<1>3. ASSUME NEW f \in facts, AvailableAt(f, a.cutoff) PROVE f.filed < a.archive.day
  <2>1. f.filed \in Int /\ a.archive.day \in Int /\ a.cutoff.day <= a.archive.day
    BY <1>1 DEF ClaimsInv, HasAllBefore, IsMadeFromArchive
  <2>2. CASE f.filed < a.cutoff.day
    BY <2>1, <2>2, <1>2
  <2>3. CASE f.filed = a.cutoff.day /\ a.cutoff.whole
    BY <2>1, <2>3, <1>2 DEF BeforeItsDayEnds
  <2> QED BY <1>3, <2>2, <2>3 DEF AvailableAt
<1>4. ASSUME NEW f \in facts, AvailableAt(f, a.cutoff) PROVE f \in a.archive.facts
  <2>1. f.filed \in Int /\ a.archive.day \in Int
    BY <1>1 DEF ClaimsInv, HasAllBefore
  <2> QED BY <2>1, <1>1, <1>3, <1>4 DEF HasAllBefore
<1> QED BY <1>1, <1>4 DEF RestrictToAvailable, HasAllBefore

\* Whichever releases answer, and whatever is filed, archived and released before and after, the
\* claims are those that all the facts available at the cutoff make: for any days, filings and
\* number of archives.
THEOREM ClaimsKeepTheirCutoff == ClaimsSpec => []ClaimsAreOfTheirCutoff
<1>1. ClaimsInv /\ [ClaimsNext]_claimVars => ClaimsInv'
  <2> SUFFICES ASSUME ClaimsInv, [ClaimsNext]_claimVars PROVE ClaimsInv'
    OBVIOUS
  <2>1. CASE UNCHANGED claimVars
    BY <2>1 DEF claimVars, ClaimsInv, HasAllBefore, IsMadeFromArchive
  <2>2. CASE ClaimsNext
    BY <2>2, FileFacts_Inv, NextDay_Inv, WriteArchive_Inv, Release_Inv, AskClaims_Inv
       DEF ClaimsNext
  <2> QED BY <2>1, <2>2
<1>2. ClaimsInv => ClaimsAreOfTheirCutoff
  <2> SUFFICES ASSUME ClaimsInv, NEW a \in answer, BeforeItsDayEnds(a.cutoff, a.archive)
               PROVE  a.claims = Truth(a.cutoff)
    BY DEF ClaimsAreOfTheirCutoff
  <2>1. a.claims = BuildClaims(RestrictToAvailable(a.archive.facts, a.cutoff), a.cutoff.day)
    BY DEF ClaimsInv, IsMadeFromArchive
  <2> QED BY <2>1, ArchiveHasWhatIsAvailable DEF Truth
<1> QED BY <1>1, <1>2, ClaimsInit_Inv, PTL DEF ClaimsSpec

-----------------------------------------------------------------------------
(* Histories.  All that a history takes from the member is of what was available by its cutoff. *)

\* Two members that say the same of a cutoff: a history looks at nothing else of them.
AlikeAt(a, b, cutoff, to) ==
  /\ Visible(a, cutoff, to) = Visible(b, cutoff, to)
  /\ \A o \in Visible(a, cutoff, to) : Blocked(a, o, cutoff) <=> Blocked(b, o, cutoff)
  /\ \A p : QuarterOk(a, p, cutoff) <=> QuarterOk(b, p, cutoff)
  /\ QuarterMax(a) = QuarterMax(b)
  /\ a.quarantined = b.quarantined

LEMMA SelectedAlike ==
  ASSUME NEW a, NEW b, NEW cutoff, NEW to, NEW cf, AlikeAt(a, b, cutoff, to)
  PROVE  Selected(a, cutoff, to, cf) = Selected(b, cutoff, to, cf)
<1> DEFINE seen == Visible(a, cutoff, to)
           Agreed(o) == \A r \in Versions(o, seen) : r.value = o.value /\ r.content = o.content
           Latest(d) == {o \in seen : o \in Versions(o, seen) /\ ~Blocked(d, o, cutoff) /\ Agreed(o)}
           Chosen(d) == {o \in Latest(d) : \A r \in Versions(o, seen) : o.number <= r.number}
           Item(o) == [metric |-> o.metric, concept |-> o.concept, start |-> o.start, end |-> o.end,
                       value |-> o.value, null |-> o.content = "null", available |-> o.available,
                       form |-> o.form, ids |-> Versions(o, seen), terms |-> {<<o, 1>>},
                       formula |-> "REPORTED", parts |-> << >>, turn |-> Turn(o, seen, cf)]
           Items(d) == {Item(o) : o \in Chosen(d)}
<1>1. Selected(a, cutoff, to, cf) = Items(a)
  BY DEF Selected
<1>2. Visible(b, cutoff, to) = seen
  BY DEF AlikeAt
<1>b. \A o \in seen : Blocked(a, o, cutoff) <=> Blocked(b, o, cutoff)
  BY DEF AlikeAt
<1> HIDE DEF seen
<1>3. Selected(b, cutoff, to, cf) = Items(b)
  BY <1>2 DEF Selected
<1>4. Latest(a) = Latest(b)
  <2> HIDE DEF Agreed
  <2> QED BY <1>b, Zenon
<1> QED BY <1>1, <1>3, <1>4

LEMMA PriorsAlike ==
  ASSUME NEW a, NEW b, NEW item, NEW selected, QuarterMax(a) = QuarterMax(b)
  PROVE  Priors(a, item, selected) = Priors(b, item, selected)
BY DEF Priors

LEMMA DerivedAlike ==
  ASSUME NEW a, NEW b, NEW cutoff, NEW to, NEW selected, AlikeAt(a, b, cutoff, to)
  PROVE  DerivedQuarters(a, selected, cutoff) = DerivedQuarters(b, selected, cutoff)
<1> DEFINE Flow(j) == /\ j.start # 0 /\ Usable(j) /\ j.metric \in Metrics
                      /\ Registry[j.metric].kind = "flow" /\ Length(j) >= 6
           Reduced(d) == {j \in selected : Flow(j) /\ Cardinality(Priors(d, j, selected)) = 1}
           Pairs(d) == UNION {{i} \X Priors(d, i, selected) : i \in Reduced(d)}
           Sound(q) == Length(q.parts[2]) \in 3..10 /\ (q.metric = "capital_expenditures" => q.value >= 0)
           Made(pairs) == {Quarter(pair[1], pair[2]) : pair \in pairs}
           Derived(d) == {q \in Made(Pairs(d)) : Sound(q) /\ QuarterOk(d, q, cutoff)}
<1>1. ASSUME NEW d PROVE DerivedQuarters(d, selected, cutoff) = Derived(d)
  BY DEF DerivedQuarters
<1> HIDE DEF Flow, Sound
<1>2. \A i : Priors(a, i, selected) = Priors(b, i, selected)
  BY PriorsAlike DEF AlikeAt
<1>3. Reduced(a) = Reduced(b)
  BY <1>2
<1> HIDE DEF Reduced
<1>4. Pairs(a) = Pairs(b)
  BY <1>2, <1>3, Zenon
<1> HIDE DEF Pairs
<1>5. Derived(a) = Derived(b)
  <2> HIDE DEF Made
  <2>1. \A q : QuarterOk(a, q, cutoff) <=> QuarterOk(b, q, cutoff)
    BY DEF AlikeAt
  <2> QED BY <1>4, <2>1, Zenon
<1> HIDE DEF Derived
<1> QED BY <1>1, <1>5

LEMMA CandidatesAlike ==
  ASSUME NEW a, NEW b, NEW cutoff, NEW to, NEW selected, NEW frequency, AlikeAt(a, b, cutoff, to)
  PROVE  Candidates(a, selected, frequency, cutoff) = Candidates(b, selected, frequency, cutoff)
<1>1. DerivedQuarters(a, selected, cutoff) = DerivedQuarters(b, selected, cutoff)
  BY DerivedAlike
<1>2. \A q : QuarterOk(a, q, cutoff) <=> QuarterOk(b, q, cutoff)
  BY DEF AlikeAt
<1> DEFINE flows == {i \in selected : i.start # 0 /\ Usable(i)}
           Quarters(d) == {i \in flows : QuarterOk(d, i, cutoff)}
<1> HIDE DEF flows
<1>3. Quarters(a) = Quarters(b)
  BY <1>2, Zenon
<1>4. ASSUME NEW d
      PROVE  Candidates(d, selected, frequency, cutoff)
               = IF frequency = "annual" THEN {i \in flows : IsYear(i)}
                 ELSE Quarters(d) \cup DerivedQuarters(d, selected, cutoff)
  BY DEF Candidates, flows
<1> HIDE DEF Quarters
<1> QED BY <1>1, <1>3, <1>4

LEMMA UnambiguousAlike ==
  ASSUME NEW a, NEW b, NEW cutoff, NEW to, NEW selected, NEW frequency, AlikeAt(a, b, cutoff, to)
  PROVE  Unambiguous(a, selected, frequency, cutoff) = Unambiguous(b, selected, frequency, cutoff)
<1>1. \A f : Candidates(a, selected, f, cutoff) = Candidates(b, selected, f, cutoff)
  BY CandidatesAlike
<1> DEFINE Overlaps(d) == {Overlapping(PeriodValues(Candidates(d, selected, f, cutoff))) :
                             f \in {"annual", "quarterly"}}
<1>2. Overlaps(a) = Overlaps(b)
  BY <1>1, Zenon
<1>3. \A d : AmbiguousSources(d, selected, cutoff) = UNION {v.ids : v \in UNION Overlaps(d)}
  BY DEF AmbiguousSources
<1> HIDE DEF Overlaps
<1>4. AmbiguousSources(a, selected, cutoff) = AmbiguousSources(b, selected, cutoff)
  BY <1>2, <1>3
<1> QED BY <1>1, <1>4 DEF Unambiguous

LEMMA AnchorsAlike ==
  ASSUME NEW a, NEW b, NEW cutoff, NEW to, NEW selected, NEW frequency, AlikeAt(a, b, cutoff, to)
  PROVE  Anchors(a, selected, frequency, cutoff, to) = Anchors(b, selected, frequency, cutoff, to)
<1>1. DerivedQuarters(a, selected, cutoff) = DerivedQuarters(b, selected, cutoff)
  BY DerivedAlike
<1>2. /\ \A q : QuarterOk(a, q, cutoff) <=> QuarterOk(b, q, cutoff)
      /\ Visible(a, cutoff, to) = Visible(b, cutoff, to)
  BY DEF AlikeAt
<1> DEFINE Rows(d) == {o \in Visible(d, cutoff, to) : o.metric \in Metrics /\ o.start # 0}
           Quarters(d) == {r \in Rows(d) : QuarterOk(d, r, cutoff)}
           Of(some) == {<<o.start, o.end>> : o \in some}
<1>3. Rows(a) = Rows(b)
  BY <1>2
<1>4. Quarters(a) = Quarters(b)
  BY <1>2, <1>3, Zenon
<1>5. ASSUME NEW d
      PROVE  Anchors(d, selected, frequency, cutoff, to)
               = IF frequency = "annual" THEN Of({r \in Rows(d) : IsYear(r)})
                 ELSE Of(Quarters(d)) \cup Of(DerivedQuarters(d, selected, cutoff))
  BY DEF Anchors
<1> HIDE DEF Rows, Quarters, Of
<1> QED BY <1>1, <1>3, <1>4, <1>5

\* Members that are alike at a cutoff have the same history as of it.
LEMMA HistoriesAlike ==
  ASSUME NEW a, NEW b, NEW cutoff, NEW to, NEW frequency, NEW cf, AlikeAt(a, b, cutoff, to)
  PROVE  History(a, frequency, cutoff, to, cf) = History(b, frequency, cutoff, to, cf)
<1>1. ASSUME NEW f PROVE Periodic(a, f, cutoff, to, cf) = Periodic(b, f, cutoff, to, cf)
  <2> DEFINE selected == Selected(a, cutoff, to, cf)
  <2>1. Selected(b, cutoff, to, cf) = selected
    BY SelectedAlike
  <2> DEFINE values == Unambiguous(a, selected, f, cutoff)
             anchors == Anchors(a, selected, f, cutoff, to)
  <2>2. /\ Unambiguous(b, selected, f, cutoff) = values
        /\ Anchors(b, selected, f, cutoff, to) = anchors
    BY UnambiguousAlike, AnchorsAlike
  <2>3. Periodic(a, f, cutoff, to, cf)
          = values \cup UNION {CashAt(selected, x[2]) \cup DebtAt(selected, x[2])
                                 \cup FreeCashFlow(values, x) : x \in anchors}
    BY Zenon DEF Periodic
  <2> HIDE DEF selected, values, anchors
  <2>4. Periodic(b, f, cutoff, to, cf)
          = values \cup UNION {CashAt(selected, x[2]) \cup DebtAt(selected, x[2])
                                 \cup FreeCashFlow(values, x) : x \in anchors}
    BY <2>1, <2>2, Zenon DEF Periodic
  <2> QED BY <2>3, <2>4
<1>2. a.quarantined = b.quarantined
  BY DEF AlikeAt
<1> DEFINE base == IF frequency = "ttm" THEN "quarterly" ELSE frequency
<1>3. Periodic(a, base, cutoff, to, cf) = Periodic(b, base, cutoff, to, cf)
  BY <1>1
<1> HIDE DEF base
<1> QED BY <1>2, <1>3, Zenon DEF History, base

-----------------------------------------------------------------------------
(* Least and greatest elements.                                            *)

LEMMA LeastIs ==
  ASSUME NEW S \in SUBSET Nat, S # {}
  PROVE  Min(S) \in S /\ \A y \in S : Min(S) <= y
<1>1. \E x \in S : \A y \in S : <<y, x>> \notin OpToRel(<, Nat)
  BY NatLessThanWellFounded, WFMin
<1>2. PICK x \in S : \A y \in S : ~(y < x)
  BY <1>1 DEF OpToRel
<1>3. x \in S /\ \A y \in S : x <= y
  BY <1>2
<1> QED BY <1>3 DEF Min

LEMMA GreatestIs ==
  ASSUME NEW S \in SUBSET Nat, S # {}, NEW n \in Nat, \A y \in S : y <= n
  PROVE  Max(S) \in S /\ \A y \in S : y <= Max(S)
<1> DEFINE bounds == {b \in Nat : \A y \in S : y <= b}
           least == Min(bounds)
<1>1. least \in bounds /\ \A b \in bounds : least <= b
  BY LeastIs
<1> HIDE DEF least
<1>2. least \in Nat /\ \A y \in S : y <= least
  BY <1>1
<1>3. least \in S
  <2> SUFFICES ASSUME least \notin S PROVE FALSE
    OBVIOUS
  <2>1. ASSUME NEW y \in S PROVE y \in Nat /\ y < least
    <3>1. y # least /\ y \in Nat /\ y <= least
      BY <1>2
    <3> QED BY <3>1, <1>2
  <2>2. least - 1 \in Nat
    <3>1. PICK y \in S : TRUE
      OBVIOUS
    <3> QED BY <3>1, <2>1, <1>2
  <2>4. \A y \in S : y <= least - 1
    BY <1>2, <2>1
  <2>3. least - 1 \in bounds
    BY <2>2, <2>4
  <2> QED BY <1>1, <1>2, <2>3
<1> HIDE DEF bounds
<1>4. \E x \in S : \A y \in S : x >= y
  BY <1>2, <1>3
<1> QED BY <1>4 DEF Max

-----------------------------------------------------------------------------
(* What is stated tomorrow.  b has what a has, and what is available from  *)
(* tomorrow on.                                                            *)

AddsTomorrow(a, b) ==
  /\ a \subseteq b
  /\ \A o \in b : o.available \in Nat /\ o.available <= day + 1
  /\ \A o \in b \ a : o.available = day + 1

Stated(flows, y, end) == {p \in Since(flows, y) : p.end = end}

LEMMA StatedTimes ==
  ASSUME day \in Nat, NEW a, NEW b, AddsTomorrow(a, b), NEW y, NEW end
  PROVE  /\ Stated(a, y, end) # {} => FirstStated(b, y, end) = FirstStated(a, y, end)
         /\ Stated(b, y, end) # {} =>
              /\ FirstStated(b, y, end) \in Nat /\ FirstStated(b, y, end) <= day + 1
              /\ FirstStated(b, y, end) <= day => Stated(a, y, end) # {}
<1> DEFINE A == {o.available : o \in Stated(a, y, end)}
           B == {o.available : o \in Stated(b, y, end)}
<1>1. FirstStated(a, y, end) = Min(A) /\ FirstStated(b, y, end) = Min(B)
  BY DEF FirstStated, Stated
<1>2. /\ A \subseteq B /\ B \subseteq Nat /\ \A n \in B : n <= day + 1
      /\ \A n \in B \ A : n = day + 1
  BY DEF AddsTomorrow, Stated, Since
<1>3. (A = {} <=> Stated(a, y, end) = {}) /\ (B = {} <=> Stated(b, y, end) = {})
  OBVIOUS
<1> HIDE DEF A, B
<1>4. ASSUME B # {} PROVE Min(B) \in B /\ \A n \in B : Min(B) <= n
  BY <1>2, <1>4, LeastIs
<1>5. ASSUME A # {} PROVE Min(B) = Min(A)
  <2>1. Min(A) \in A /\ \A n \in A : Min(A) <= n
    BY <1>2, <1>5, LeastIs
  <2>2. \A n \in B : Min(A) <= n
    <3>1. Min(A) \in Nat /\ Min(A) <= day + 1
      BY <1>2, <2>1
    <3> QED BY <1>2, <2>1, <3>1
  <2>3. B # {}
    BY <1>2, <1>5
  <2>4. Min(B) \in B /\ Min(B) <= Min(A) /\ Min(A) <= Min(B) /\ Min(A) \in B
    BY <1>2, <1>4, <2>1, <2>2, <2>3
  <2>5. Min(A) \in Nat /\ Min(B) \in Nat
    BY <1>2, <2>4
  <2> QED BY <2>4, <2>5
<1>6. ASSUME B # {} PROVE Min(B) \in Nat /\ Min(B) <= day + 1 /\ (Min(B) <= day => A # {})
  <2>1. Min(B) \in B
    BY <1>4, <1>6
  <2>2. Min(B) \in Nat /\ Min(B) <= day + 1
    BY <1>2, <2>1
  <2>3. Min(B) <= day => Min(B) # day + 1
    BY <2>2
  <2> QED BY <1>2, <2>1, <2>2, <2>3
<1> QED BY <1>1, <1>3, <1>5, <1>6

\* The contexts that divide a year are all stated.
Divides(flows, y, trio) ==
  trio \in kSubset(3, InnerEnds(flows, y)) /\ Stated(flows, y, y.end) # {}

LEMMA DividesIs ==
  ASSUME NEW flows, NEW y, NEW trio
  PROVE  /\ Divides(flows, y, trio) =>
              /\ Cardinality(trio) = 3 /\ trio \subseteq (y.start + 1)..(y.end - 1)
              /\ \A e \in trio \cup {y.end} : Stated(flows, y, e) # {}
         /\ /\ Cardinality(trio) = 3 /\ trio \subseteq (y.start + 1)..(y.end - 1)
            /\ \A e \in trio \cup {y.end} : Stated(flows, y, e) # {}
            => Divides(flows, y, trio)
<1>1. \A e : e \in {o.end : o \in Since(flows, y)} <=> Stated(flows, y, e) # {}
  BY DEF Stated
<1>2. trio \in kSubset(3, InnerEnds(flows, y))
        <=> trio \subseteq InnerEnds(flows, y) /\ Cardinality(trio) = 3
  BY DEF kSubset
<1>3. \A e : e \in InnerEnds(flows, y)
               <=> Stated(flows, y, e) # {} /\ e \in (y.start + 1)..(y.end - 1)
  BY <1>1, Zenon DEF InnerEnds
<1> QED BY <1>2, <1>3, Zenon DEF Divides

LEMMA KnownFromStays ==
  ASSUME day \in Nat, NEW a, NEW b, AddsTomorrow(a, b), NEW y, NEW trio, Divides(a, y, trio)
  PROVE  KnownFrom(b, y, trio) = KnownFrom(a, y, trio)
<1>1. \A e \in trio \cup {y.end} : FirstStated(b, y, e) = FirstStated(a, y, e)
  BY DividesIs, StatedTimes
<1>2. {FirstStated(b, y, e) : e \in trio \cup {y.end}} = {FirstStated(a, y, e) : e \in trio \cup {y.end}}
  BY <1>1, Zenon
<1> QED BY <1>2 DEF KnownFrom

LEMMA KnownTodayIsStatedToday ==
  ASSUME day \in Nat, NEW a, NEW b, AddsTomorrow(a, b), NEW y, NEW trio, Divides(b, y, trio),
         NEW cutoff \in Int, cutoff <= day, KnownFrom(b, y, trio) <= cutoff
  PROVE  Divides(a, y, trio)
<1> DEFINE times == {FirstStated(b, y, e) : e \in trio \cup {y.end}}
<1>1. \A e \in trio \cup {y.end} :
        FirstStated(b, y, e) \in Nat /\ FirstStated(b, y, e) <= day + 1
  BY DividesIs, StatedTimes
<1>2. times \subseteq Nat /\ times # {} /\ \A n \in times : n <= day + 1
  BY <1>1
<1>3. KnownFrom(b, y, trio) = Max(times)
  BY DEF KnownFrom
<1>4. Max(times) \in Nat /\ \A n \in times : n <= Max(times)
  <2> HIDE DEF times
  <2>1. day + 1 \in Nat
    OBVIOUS
  <2>2. Max(times) \in times /\ \A n \in times : n <= Max(times)
    BY <1>2, <2>1, GreatestIs
  <2> QED BY <1>2, <2>2
<1>5. \A e \in trio \cup {y.end} : FirstStated(b, y, e) <= day
  <2>1. \A e \in trio \cup {y.end} : FirstStated(b, y, e) <= Max(times)
    BY <1>4
  <2> HIDE DEF times
  <2> QED BY <1>1, <1>3, <1>4, <2>1
<1>6. \A e \in trio \cup {y.end} : Stated(a, y, e) # {}
  BY <1>1, <1>5, DividesIs, StatedTimes
<1> QED BY <1>6, DividesIs, Zenon

LEMMA DividedIs ==
  ASSUME NEW start, NEW trio, NEW end, NEW available, NEW q \in Divided(start, trio, end, available)
  PROVE  q.available = available
BY DEF Divided

\* Contexts of a year are stated by annual reports.
YearIsAnnual(o) == o.start # 0 /\ Length(o) \in 12..13 => o.form \in AnnualForms

LEMMA LongQuarterIs ==
  ASSUME NEW observations, NEW q
  PROVE  q \in LongQuarters(observations)
           <=> \E y \in YearsOf(Flows(observations)) :
                 \E trio \in kSubset(3, InnerEnds(Flows(observations), y)) :
                   q \in Divided(y.start, trio, y.end, KnownFrom(Flows(observations), y, trio))
<1> DEFINE flows == Flows(observations)
           Of(y, trio) == Divided(y.start, trio, y.end, KnownFrom(flows, y, trio))
<1>1. LongQuarters(observations)
        = UNION {UNION {Of(y, trio) : trio \in kSubset(3, InnerEnds(flows, y))} : y \in YearsOf(flows)}
  BY DEF LongQuarters
<1> DEFINE ofYear(y) == UNION {Of(y, trio) : trio \in kSubset(3, InnerEnds(flows, y))}
           years == YearsOf(flows)
<1>2. ASSUME NEW y
      PROVE  q \in ofYear(y) <=> \E trio \in kSubset(3, InnerEnds(flows, y)) : q \in Of(y, trio)
  <2> DEFINE trios == kSubset(3, InnerEnds(flows, y))
  <2> HIDE DEF flows, Of, trios
  <2>1. q \in UNION {Of(y, trio) : trio \in trios} <=> \E trio \in trios : q \in Of(y, trio)
    OBVIOUS
  <2> QED BY <2>1 DEF trios
<1>3. q \in LongQuarters(observations) <=> \E y \in years : q \in ofYear(y)
  <2> HIDE DEF ofYear, years
  <2>1. LongQuarters(observations) = UNION {ofYear(y) : y \in years}
    BY <1>1 DEF ofYear, years
  <2> QED BY <2>1
<1> HIDE DEF flows, Of, ofYear
<1>4. q \in LongQuarters(observations)
        <=> \E y \in YearsOf(flows) : \E trio \in kSubset(3, InnerEnds(flows, y)) : q \in Of(y, trio)
  BY <1>2, <1>3
<1> QED BY <1>4 DEF flows, Of

LEMMA YearsAreStated ==
  ASSUME NEW flows, NEW y \in YearsOf(flows)
  PROVE  y \in flows /\ y \in Stated(flows, y, y.end)
BY DEF YearsOf, Stated, Since

\* What is stated tomorrow adds no long quarter that is known today.
LEMMA LongQuartersAlike ==
  ASSUME day \in Nat, NEW a, NEW b, AddsTomorrow(a, b), \A o \in b : YearIsAnnual(o),
         NEW cutoff \in Int, cutoff <= day, NEW q
  PROVE  q \in LongQuarters(a) /\ q.available <= cutoff
           <=> q \in LongQuarters(b) /\ q.available <= cutoff
<1> DEFINE A == Flows(a)
           B == Flows(b)
<1>1. AddsTomorrow(A, B) /\ \A o \in B : o \in b /\ o.start # 0
  BY DEF AddsTomorrow, Flows
<1>2. YearsOf(A) \subseteq YearsOf(B)
  BY <1>1 DEF AddsTomorrow, YearsOf
<1>3. ASSUME q \in LongQuarters(a) PROVE q \in LongQuarters(b)
  <2>y. PICK y \in YearsOf(A) : \E trio \in kSubset(3, InnerEnds(A, y)) :
          q \in Divided(y.start, trio, y.end, KnownFrom(A, y, trio))
    BY <1>3, LongQuarterIs
  <2>1. PICK trio \in kSubset(3, InnerEnds(A, y)) :
          q \in Divided(y.start, trio, y.end, KnownFrom(A, y, trio))
    BY <2>y
  <2> HIDE DEF A, B
  <2>2. Divides(A, y, trio)
    BY YearsAreStated DEF Divides
  <2>3. KnownFrom(B, y, trio) = KnownFrom(A, y, trio)
    BY <1>1, <2>2, KnownFromStays
  <2>4. \A e : Stated(A, y, e) \subseteq Stated(B, y, e)
    BY <1>1 DEF AddsTomorrow, Stated, Since
  <2>5. Divides(B, y, trio)
    <3>1. \A e \in trio \cup {y.end} : Stated(B, y, e) # {}
      BY <2>2, <2>4, DividesIs
    <3>2. Cardinality(trio) = 3 /\ trio \subseteq (y.start + 1)..(y.end - 1)
      BY <2>2, DividesIs, Zenon
    <3> QED BY <3>1, <3>2, DividesIs, Zenon
  <2>6. y \in YearsOf(B) /\ trio \in kSubset(3, InnerEnds(B, y))
    BY <1>2, <2>5 DEF Divides
  <2> QED BY <2>1, <2>3, <2>6, LongQuarterIs DEF B
<1>4. ASSUME q \in LongQuarters(b), q.available <= cutoff PROVE q \in LongQuarters(a)
  <2>y. PICK y \in YearsOf(B) : \E trio \in kSubset(3, InnerEnds(B, y)) :
          q \in Divided(y.start, trio, y.end, KnownFrom(B, y, trio))
    BY <1>4, LongQuarterIs
  <2>1. PICK trio \in kSubset(3, InnerEnds(B, y)) :
          q \in Divided(y.start, trio, y.end, KnownFrom(B, y, trio))
    BY <2>y
  <2> HIDE DEF A, B
  <2>2. Divides(B, y, trio)
    BY YearsAreStated DEF Divides
  <2>3. KnownFrom(B, y, trio) <= cutoff
    BY <1>4, <2>1, DividedIs
  <2>4. Divides(A, y, trio)
    BY <1>1, <2>2, <2>3, KnownTodayIsStatedToday
  <2>5. KnownFrom(B, y, trio) = KnownFrom(A, y, trio)
    BY <1>1, <2>4, KnownFromStays
  <2>6. PICK z : z \in Stated(A, y, y.end)
    BY <2>4 DEF Divides
  <2>7. z \in A /\ z.concept = y.concept /\ z.start = y.start /\ z.end = y.end
    BY <2>6 DEF Stated, Since
  <2>8. z \in YearsOf(A)
    <3>1. Length(z) = Length(y) /\ Length(y) \in 12..13
      BY <2>7 DEF Length, YearsOf
    <3>2. z \in B
      BY <1>1, <2>7 DEF AddsTomorrow
    <3>3. YearIsAnnual(z) /\ z.start # 0
      BY <1>1, <3>2
    <3> QED BY <2>7, <3>1, <3>3 DEF YearIsAnnual, YearsOf
  <2>9. InnerEnds(A, z) = InnerEnds(A, y) /\ KnownFrom(A, z, trio) = KnownFrom(A, y, trio)
    <3>1. Since(A, z) = Since(A, y)
      BY <2>7 DEF Since
    <3>2. \A e : FirstStated(A, z, e) = FirstStated(A, y, e)
      BY <3>1 DEF FirstStated
    <3> QED BY <2>7, <3>1, <3>2 DEF InnerEnds, KnownFrom
  <2>10. trio \in kSubset(3, InnerEnds(A, z))
    BY <2>4, <2>9 DEF Divides
  <2>11. q \in Divided(z.start, trio, z.end, KnownFrom(A, z, trio))
    BY <2>1, <2>5, <2>7, <2>9
  <2> QED BY <2>8, <2>10, <2>11, LongQuarterIs DEF A
<1> QED BY <1>3, <1>4

-----------------------------------------------------------------------------
(* The rows of a member, and what a report of today adds to them.          *)

RowShape(r) ==
  r = [concept |-> r.concept, start |-> r.start, end |-> r.end, value |-> r.value,
       content |-> r.content, unit |-> r.unit, metric |-> r.metric, available |-> r.available,
       form |-> r.form, filed |-> r.filed, number |-> r.number]
RowHolds(r) == RowShape(r) /\ r.filed \in Nat /\ r.filed <= day /\ YearIsAnnual(r)

HistoryRowsInv == day \in Nat /\ \A r \in rows : RowHolds(r)

Dated(r) == [r EXCEPT !.available = AvailableFrom(r), !.metric = MetricOf(r.concept)]
Observed(q) == /\ q.concept \in Mapped /\ q.unit /\ q.form \in Forms
               /\ q.end <= q.filed /\ q.content \in {"number", "null"}
Disputed(q) == /\ q.concept \in Mapped /\ q.unit
               /\ \/ q.content = "nonfinite"
                  \/ q.content = "missing" /\ q.form \in Forms /\ q.end <= q.filed

LEMMA DatedIs ==
  ASSUME NEW r, RowShape(r)
  PROVE  /\ Dated(r).available = r.filed + 1 /\ Dated(r).start = r.start /\ Dated(r).end = r.end
         /\ Dated(r).form = r.form
BY DEF RowShape, Dated, AvailableFrom

LEMMA SourcesAre ==
  ASSUME NEW some
  PROVE  /\ SourceRows(some) = {Dated(r) : r \in {q \in some : Observed(q)}}
         /\ RejectedContexts(some) = {Dated(r) : r \in {q \in some : Disputed(q)}}
BY DEF SourceRows, RejectedContexts, Dated, Observed, Disputed

LEMMA SourcesAdd ==
  ASSUME NEW some, NEW more
  PROVE  /\ SourceRows(some \cup more) = SourceRows(some) \cup SourceRows(more)
         /\ RejectedContexts(some \cup more) = RejectedContexts(some) \cup RejectedContexts(more)
<1>1. \A S : /\ SourceRows(S) = {Dated(r) : r \in {q \in S : Observed(q)}}
             /\ RejectedContexts(S) = {Dated(r) : r \in {q \in S : Disputed(q)}}
  BY SourcesAre
<1> QED BY <1>1

LEMMA SourcesAreDated ==
  ASSUME HistoryRowsInv, NEW some, \A r \in some : RowHolds(r),
         NEW o \in SourceRows(some) \cup RejectedContexts(some)
  PROVE  /\ o.available \in Nat /\ o.available <= day + 1 /\ YearIsAnnual(o)
         /\ (\A r \in some : r.filed = day) => o.available = day + 1
<1>1. PICK r \in some : o = Dated(r)
  BY SourcesAre
<1>2. RowHolds(r) /\ day \in Nat
  BY DEF HistoryRowsInv
<1>3. o.available = r.filed + 1 /\ o.start = r.start /\ o.end = r.end /\ o.form = r.form
  BY <1>1, <1>2, DatedIs DEF RowHolds
<1>4. YearIsAnnual(o)
  BY <1>2, <1>3 DEF RowHolds, YearIsAnnual, Length
<1> QED BY <1>2, <1>3, <1>4 DEF RowHolds

LEMMA ReportedHolds ==
  ASSUME day \in Nat, NEW r, NEW form, NEW number,
         r.start # 0 /\ Length(r) \in 12..13 => form \in AnnualForms
  PROVE  RowHolds(Reported(r, form, number)) /\ Reported(r, form, number).filed = day
BY DEF Reported, RowHolds, RowShape, YearIsAnnual, Length

\* A company states a context of a year in its annual reports alone.
YearsAreOfAnnualReports ==
  \A report \in Reports : \A r \in report.rows :
    r.start # 0 /\ Length(r) \in 12..13 => report.form \in AnnualForms

LEMMA FileReportAdds ==
  ASSUME YearsAreOfAnnualReports, HistoryRowsInv, FileReport
  PROVE  \E more : /\ rows' = rows \cup more
                   /\ \A r \in more : RowHolds(r) /\ r.filed = day
<1>1. PICK report \in Reports :
        rows' = rows \cup {Reported(r, report.form, Cardinality(ReportsFiled) + 1) : r \in report.rows}
  BY DEF FileReport
<1> DEFINE number == Cardinality(ReportsFiled) + 1
           more == {Reported(r, report.form, number) : r \in report.rows}
<1> HIDE DEF number
<1>2. \A r \in report.rows : /\ RowHolds(Reported(r, report.form, number))
                             /\ Reported(r, report.form, number).filed = day
  BY ReportedHolds DEF HistoryRowsInv, YearsAreOfAnnualReports
<1>3. \A r \in more : RowHolds(r) /\ r.filed = day
  BY <1>2
<1>4. rows' = rows \cup more
  BY <1>1 DEF number
<1> QED BY <1>3, <1>4

\* A report of today leaves everything that is known of today or before as it is.
LEMMA MembersAlike ==
  ASSUME HistoryRowsInv, NEW more, \A r \in more : RowHolds(r) /\ r.filed = day,
         SamePolicy(rows, rows \cup more), NEW cutoff \in Int, cutoff <= day, NEW to
  PROVE  AlikeAt(Normalize(rows), Normalize(rows \cup more), cutoff, to)
<1> DEFINE all == rows \cup more
           a == Normalize(rows)
           b == Normalize(all)
           added == SourceRows(more)
           refused == RejectedContexts(more)
<1>1. /\ a.observations = SourceRows(rows) /\ b.observations = SourceRows(all)
      /\ a.rejected = RejectedContexts(rows) /\ b.rejected = RejectedContexts(all)
      /\ a.quarantined = Quarantined(rows) /\ b.quarantined = Quarantined(all)
      /\ a.long = LongQuarters(SourceRows(rows)) /\ b.long = LongQuarters(SourceRows(all))
  BY DEF Normalize
<1>2. SourceRows(all) = SourceRows(rows) \cup added /\ RejectedContexts(all) = RejectedContexts(rows) \cup refused
  BY SourcesAdd
<1>3. \A o \in SourceRows(all) \cup RejectedContexts(all) :
        o.available \in Nat /\ o.available <= day + 1 /\ YearIsAnnual(o)
  BY SourcesAreDated DEF HistoryRowsInv
<1>4. \A o \in added \cup refused : o.available = day + 1
  BY SourcesAreDated
<1>5. day \in Nat
  BY DEF HistoryRowsInv
<1>6. AddsTomorrow(SourceRows(rows), SourceRows(all))
  BY <1>2, <1>3, <1>4 DEF AddsTomorrow
<1>7. QuarterMax(a) = QuarterMax(b) /\ a.quarantined = b.quarantined
  BY <1>1 DEF SamePolicy
<1> HIDE DEF a, b, added, refused
<1>8. Visible(a, cutoff, to) = Visible(b, cutoff, to)
  <2>1. \A o \in added : ~(o.available <= cutoff)
    BY <1>4, <1>5
  <2> QED BY <1>1, <1>2, <2>1 DEF Visible
<1>9. ASSUME NEW o \in Visible(a, cutoff, to) PROVE Blocked(a, o, cutoff) <=> Blocked(b, o, cutoff)
  <2>1. o.available \in Nat
    BY <1>1, <1>2, <1>3 DEF Visible
  <2>2. \A r \in refused : r.available \notin o.available..cutoff
    BY <1>4, <1>5, <2>1
  <2> QED BY <1>1, <1>2, <2>2 DEF Blocked
<1>10. ASSUME NEW p PROVE QuarterOk(a, p, cutoff) <=> QuarterOk(b, p, cutoff)
  <2>1. \A o \in SourceRows(all) : YearIsAnnual(o)
    BY <1>3
  <2>2. ASSUME NEW q
        PROVE  q \in LongQuarters(SourceRows(rows)) /\ q.available <= cutoff
                 <=> q \in LongQuarters(SourceRows(all)) /\ q.available <= cutoff
    BY <1>5, <1>6, <2>1, LongQuartersAlike
  <2>3. \A q : q \in a.long /\ q.available <= cutoff <=> q \in b.long /\ q.available <= cutoff
    BY <1>1, <2>2
  <2> QED BY <2>3, Zenon DEF QuarterOk
<1>11. AlikeAt(a, b, cutoff, to)
  BY <1>7, <1>8, <1>9, <1>10 DEF AlikeAt
<1> QED BY <1>11 DEF a, b

LEMMA HistoryRows_Inv ==
  ASSUME YearsAreOfAnnualReports, HistoryRowsInv, [HistoryNext]_historyVars
  PROVE  HistoryRowsInv'
<1>1. CASE UNCHANGED historyVars
  BY <1>1 DEF historyVars, HistoryRowsInv, RowHolds
<1>2. CASE FileReport
  <2>1. PICK more : rows' = rows \cup more /\ \A r \in more : RowHolds(r) /\ r.filed = day
    BY <1>2, FileReportAdds
  <2>2. day' = day
    BY <1>2 DEF FileReport
  <2> QED BY <2>1, <2>2 DEF HistoryRowsInv, RowHolds
<1>3. CASE NextReportDay
  <2>1. rows' = rows /\ day' = day + 1 /\ day \in Nat
    BY <1>3 DEF NextReportDay, HistoryRowsInv
  <2>2. ASSUME NEW r, RowHolds(r) PROVE RowHolds(r)'
    BY <2>1, <2>2 DEF RowHolds
  <2> QED BY <2>1, <2>2 DEF HistoryRowsInv
<1> QED BY <1>1, <1>2, <1>3 DEF HistoryNext

LEMMA HistoryInit_Inv == HistoryInit => HistoryRowsInv
BY HistoriesAssumption DEF HistoryInit, HistoryRowsInv

\* What was answered for a day stays what is answered for it: a report of today, which the
\* engine makes available tomorrow, changes no history as of today or before (sec_engine.py
\* history and infer_calendar), where it leaves the policy of the company as it is.  If a
\* quarterly report could state a context of twelve months, the first annual report to repeat
\* it would divide the year from the day the quarterly report was available, in the past.
THEOREM PastAnswersAreFinal ==
  ASSUME YearsAreOfAnnualReports
  PROVE  HistorySpec => AsOfIsFinal
<1>1. ASSUME HistoryRowsInv, [HistoryNext]_historyVars, rows' # rows, SamePolicy(rows, rows')
      PROVE  FinalV2(Normalize(rows), Normalize(rows'))
  <2>1. FileReport
    BY <1>1 DEF HistoryNext, historyVars, NextReportDay
  <2>2. PICK more : rows' = rows \cup more /\ \A r \in more : RowHolds(r) /\ r.filed = day
    BY <1>1, <2>1, FileReportAdds
  <2>3. ASSUME NEW q \in Asked, q.cutoff <= day
        PROVE  Answer(Normalize(rows'), q) = Answer(Normalize(rows), q)
    <3>1. q.cutoff \in Int
      BY HistoriesAssumption DEF Asked
    <3>2. AlikeAt(Normalize(rows), Normalize(rows'), q.cutoff, q.to)
      BY <1>1, <2>2, <2>3, <3>1, MembersAlike
    <3> QED BY <3>2, HistoriesAlike DEF Answer
  <2> QED BY <2>3 DEF FinalV2
<1>2. HistoryRowsInv /\ [HistoryNext]_historyVars
        => [rows' # rows /\ SamePolicy(rows, rows')
              => FinalV2(Normalize(rows), Normalize(rows'))]_historyVars
  BY <1>1
<1> QED BY <1>2, HistoryInit_Inv, HistoryRows_Inv, PTL DEF HistorySpec, AsOfIsFinal


-----------------------------------------------------------------------------
(* The first engine.  A history takes its sources from what is visible at  *)
(* its cutoff: everything that is calculated keeps the sources of its      *)
(* parts.                                                                  *)

LEMMA CalculatedIds ==
  ASSUME NEW parts, NEW formula, NEW metric, NEW start, NEW end
  PROVE  Calculate(parts, formula, metric, start, end).ids = UNION {parts[i].ids : i \in DOMAIN parts}
BY DEF Calculate

Knows(seen, item) == item.ids \subseteq seen

LEMMA CalculatedKnows ==
  ASSUME NEW seen, NEW parts, NEW formula, NEW metric, NEW start, NEW end,
         \A i \in DOMAIN parts : Knows(seen, parts[i])
  PROVE  Knows(seen, Calculate(parts, formula, metric, start, end))
<1>1. \A id \in UNION {parts[i].ids : i \in DOMAIN parts} : id \in seen
  BY DEF Knows
<1> QED BY <1>1, CalculatedIds DEF Knows

LEMMA SelectedKnows ==
  ASSUME NEW data, NEW cutoff, NEW to, NEW cf, NEW item \in Selected(data, cutoff, to, cf)
  PROVE  Knows(Visible(data, cutoff, to), item)
<1> DEFINE seen == Visible(data, cutoff, to)
<1>1. PICK o : item.ids = Versions(o, seen)
  BY DEF Selected
<1> QED BY <1>1 DEF Knows, Versions

LEMMA DerivedKnows ==
  ASSUME NEW seen, NEW data, NEW cutoff, NEW selected, \A i \in selected : Knows(seen, i),
         NEW item \in DerivedQuarters(data, selected, cutoff)
  PROVE  Knows(seen, item)
<1> DEFINE Flow(j) == /\ j.start # 0 /\ Usable(j) /\ j.metric \in Metrics
                      /\ Registry[j.metric].kind = "flow" /\ Length(j) >= 6
           reduced == {j \in selected : Flow(j) /\ Cardinality(Priors(data, j, selected)) = 1}
           pairs == UNION {{i} \X Priors(data, i, selected) : i \in reduced}
<1>a. item \in {Quarter(pair[1], pair[2]) : pair \in pairs}
  BY Zenon DEF DerivedQuarters
<1> HIDE DEF reduced
<1>b. PICK i \in reduced : \E p \in Priors(data, i, selected) : item = Quarter(i, p)
  <2> HIDE DEF pairs
  <2>1. PICK pair \in pairs : item = Quarter(pair[1], pair[2])
    BY <1>a
  <2>2. PICK i \in reduced : pair \in {i} \X Priors(data, i, selected)
    BY DEF pairs
  <2>3. pair[1] = i /\ pair[2] \in Priors(data, i, selected)
    BY <2>2
  <2> QED BY <2>1, <2>3
<1>1. PICK k \in selected, p \in selected : item = Quarter(k, p)
  BY <1>b DEF reduced, Priors
<1>2. \A n \in DOMAIN <<k, p>> : Knows(seen, <<k, p>>[n])
  OBVIOUS
<1> QED BY <1>1, <1>2, CalculatedKnows DEF Quarter

LEMMA CandidatesKnow ==
  ASSUME NEW seen, NEW data, NEW cutoff, NEW frequency, NEW selected, \A i \in selected : Knows(seen, i),
         NEW item \in PeriodValues(Candidates(data, selected, frequency, cutoff))
  PROVE  Knows(seen, item)
<1>1. item \in Candidates(data, selected, frequency, cutoff)
  BY DEF PeriodValues
<1>2. item \in selected \/ item \in DerivedQuarters(data, selected, cutoff)
  BY <1>1 DEF Candidates
<1> QED BY <1>2, DerivedKnows

LEMMA ComponentsAre ==
  ASSUME NEW i \in 1..Cardinality(DebtComponents)
  PROVE  SetToSeq(DebtComponents)[i] \in DebtComponents
<1> DEFINE n == Cardinality(DebtComponents)
<1>1. PICK f : f \in Bijection(1..n, DebtComponents)
  BY SecHistoryAssumption, FS_CardinalityType DEF ExistsBijection
<1>2. f \in [1..n -> DebtComponents] /\ IsInjective(f)
  BY <1>1 DEF Bijection, Injection, IsInjective
<1>3. SetToSeq(DebtComponents) \in [1..n -> DebtComponents]
  BY <1>2 DEF SetToSeq
<1> QED BY <1>3

LEMMA DebtKnows ==
  ASSUME NEW seen, NEW selected, \A i \in selected : Knows(seen, i), NEW end,
         NEW item \in DebtAt(selected, end)
  PROVE  Knows(seen, item)
<1> DEFINE Shown(tag) == {i \in Instants(selected, tag, end) : ~i.null}
           parts == [i \in 1..Cardinality(DebtComponents) |->
                       CHOOSE p \in Shown(SetToSeq(DebtComponents)[i]) : TRUE]
<1>1. /\ item = Calculate(parts, "SUM", "total_debt", 0, end)
      /\ \A tag \in DebtComponents : \E p \in Shown(tag) : p.value >= 0
  BY Zenon DEF DebtAt
<1>2. ASSUME NEW i \in DOMAIN parts PROVE Knows(seen, parts[i])
  <2> DEFINE tag == SetToSeq(DebtComponents)[i]
  <2>1. tag \in DebtComponents
    BY <1>2, ComponentsAre
  <2>2. parts[i] = CHOOSE p \in Shown(tag) : TRUE
    BY <1>2
  <2>3. \E p \in Shown(tag) : TRUE
    BY <1>1, <2>1
  <2> HIDE DEF parts, tag
  <2>4. parts[i] \in Shown(tag)
    BY <2>2, <2>3
  <2> QED BY <2>4 DEF Instants
<1> HIDE DEF parts
<1> QED BY <1>1, <1>2, CalculatedKnows

LEMMA FreeCashFlowKnows ==
  ASSUME NEW seen, NEW values, \A v \in values : Knows(seen, v), NEW anchor,
         NEW item \in FreeCashFlow(values, anchor)
  PROVE  Knows(seen, item)
<1>1. PICK p \in values \X values : item = Calculate(p, "SUBTRACT", "free_cash_flow", anchor[1], anchor[2])
  BY DEF FreeCashFlow
<1>2. DOMAIN p = 1..2 /\ Knows(seen, p[1]) /\ Knows(seen, p[2])
  OBVIOUS
<1>3. \A i \in DOMAIN p : Knows(seen, p[i])
  BY <1>2
<1> QED BY <1>1, <1>3, CalculatedKnows

LEMMA PeriodicKnows ==
  ASSUME NEW data, NEW cutoff, NEW to, NEW cf, NEW frequency,
         NEW item \in PeriodicV1(data, frequency, cutoff, to, cf)
  PROVE  Knows(Visible(data, cutoff, to), item)
<1> DEFINE seen == Visible(data, cutoff, to)
           selected == SelectedV1(data, cutoff, to, cf)
           values == ValuesV1(data, selected, frequency, cutoff)
<1>1. item \in values \/ \E a : item \in CashAt(selected, a[2]) \cup DebtAt(selected, a[2])
                                          \cup FreeCashFlow(values, a)
  BY Zenon DEF PeriodicV1
<1>2. \A i \in selected : Knows(seen, i)
  BY SelectedKnows DEF SelectedV1
<1> HIDE DEF seen, selected
<1>3. \A v \in values : Knows(seen, v)
  BY <1>2, CandidatesKnow DEF ValuesV1
<1> HIDE DEF values
<1>4. ASSUME NEW a, item \in CashAt(selected, a[2]) PROVE Knows(seen, item)
  BY <1>2, <1>4 DEF CashAt, Instants
<1>5. ASSUME NEW a, item \in DebtAt(selected, a[2]) PROVE Knows(seen, item)
  BY <1>2, <1>5, DebtKnows
<1>6. ASSUME NEW a, item \in FreeCashFlow(values, a) PROVE Knows(seen, item)
  BY <1>3, <1>6, FreeCashFlowKnows
<1>7. Knows(seen, item)
  BY <1>1, <1>3, <1>4, <1>5, <1>6
<1> QED BY <1>7 DEF seen

LEMMA TrailingYearKnows ==
  ASSUME NEW seen, NEW quarters, \A q \in quarters : Knows(seen, q), NEW last, NEW cf,
         NEW item \in TrailingYearV1(quarters, last, cf)
  PROVE  Knows(seen, item)
<1>1. PICK y \in quarters \X quarters \X quarters \X quarters :
        item = Calculate(y, "SUM", last.metric, y[1].start, last.end)
  BY DEF TrailingYearV1
<1>2. DOMAIN y = 1..4 /\ \A i \in 1..4 : y[i] \in quarters
  OBVIOUS
<1>3. \A i \in DOMAIN y : Knows(seen, y[i])
  BY <1>2
<1> QED BY <1>1, <1>3, CalculatedKnows

\* A history is of what was known by its cutoff.
LEMMA HistoryKnows ==
  ASSUME NEW data, NEW cutoff, NEW to, NEW cf, NEW frequency,
         NEW item \in HistoryV1(data, frequency, cutoff, to, cf)
  PROVE  Knows(Visible(data, cutoff, to), item)
<1> DEFINE seen == Visible(data, cutoff, to)
           quarters == PeriodicV1(data, "quarterly", cutoff, to, cf)
<1>1. CASE frequency # "ttm"
  BY <1>1, PeriodicKnows DEF HistoryV1
<1>2. CASE frequency = "ttm"
  <2>1. item \in TrailingV1(quarters, cf)
    BY <1>2 DEF HistoryV1
  <2>2. \A q \in quarters : Knows(seen, q)
    BY PeriodicKnows
  <2> HIDE DEF seen, quarters
  <2>3. PICK flows, q : flows \subseteq quarters /\ item \in TrailingYearV1(flows, q, cf)
    <3> DEFINE flows == {q \in quarters : q.metric \in Metrics /\ Registry[q.metric].kind = "flow"}
    <3>1. TrailingV1(quarters, cf) = UNION {TrailingYearV1(flows, q, cf) : q \in flows}
      BY Zenon DEF TrailingV1
    <3>2. flows \subseteq quarters
      OBVIOUS
    <3> HIDE DEF flows
    <3> QED BY <2>1, <3>1, <3>2
  <2>4. \A x \in flows : Knows(seen, x)
    BY <2>2, <2>3
  <2>5. Knows(seen, item)
    BY <2>3, <2>4, TrailingYearKnows
  <2> QED BY <2>5 DEF seen
<1> QED BY <1>1, <1>2

\* Members that are alike at a cutoff have the same history in the first engine, too.
LEMMA FirstHistoriesAlike ==
  ASSUME NEW a, NEW b, NEW cutoff, NEW to, NEW frequency, NEW cf, AlikeAt(a, b, cutoff, to)
  PROVE  HistoryV1(a, frequency, cutoff, to, cf) = HistoryV1(b, frequency, cutoff, to, cf)
<1>1. ASSUME NEW f PROVE PeriodicV1(a, f, cutoff, to, cf) = PeriodicV1(b, f, cutoff, to, cf)
  <2> DEFINE selected == SelectedV1(a, cutoff, to, cf)
  <2>1. SelectedV1(b, cutoff, to, cf) = selected
    BY SelectedAlike DEF SelectedV1
  <2> DEFINE values == ValuesV1(a, selected, f, cutoff)
             anchors == Anchors(a, selected, f, cutoff, to)
  <2>2. /\ ValuesV1(b, selected, f, cutoff) = values
        /\ Anchors(b, selected, f, cutoff, to) = anchors
    BY CandidatesAlike, AnchorsAlike DEF ValuesV1
  <2>3. PeriodicV1(a, f, cutoff, to, cf)
          = values \cup UNION {CashAt(selected, x[2]) \cup DebtAt(selected, x[2])
                                 \cup FreeCashFlow(values, x) : x \in anchors}
    BY Zenon DEF PeriodicV1
  <2> HIDE DEF selected, values, anchors
  <2>4. PeriodicV1(b, f, cutoff, to, cf)
          = values \cup UNION {CashAt(selected, x[2]) \cup DebtAt(selected, x[2])
                                 \cup FreeCashFlow(values, x) : x \in anchors}
    BY <2>1, <2>2, Zenon DEF PeriodicV1
  <2> QED BY <2>3, <2>4
<1>2. PeriodicV1(a, "quarterly", cutoff, to, cf) = PeriodicV1(b, "quarterly", cutoff, to, cf)
  BY <1>1
<1>3. PeriodicV1(a, frequency, cutoff, to, cf) = PeriodicV1(b, frequency, cutoff, to, cf)
  BY <1>1
<1> QED BY <1>2, <1>3, Zenon DEF HistoryV1

-----------------------------------------------------------------------------
(* A release of the first engine, built again after a report of today.     *)

RowIsDated(r) == RowShape(r) /\ r.filed \in Nat /\ r.filed <= day
DatedRowsInv == day \in Nat /\ \A r \in rows : RowIsDated(r)

ObservedV1(q) == /\ q.concept \in Mapped /\ q.unit /\ q.form \in Forms
                 /\ q.content \in {"number", "null"}
DisputedV1(q) == /\ q.concept \in Mapped /\ q.unit
                 /\ q.content = "nonfinite" \/ (q.content = "missing" /\ q.form \in Forms)

LEMMA SourcesAreV1 ==
  ASSUME NEW some
  PROVE  /\ SourceRowsV1(some) = {Dated(r) : r \in {q \in some : ObservedV1(q)}}
         /\ RejectedContextsV1(some) = {Dated(r) : r \in {q \in some : DisputedV1(q)}}
BY DEF SourceRowsV1, RejectedContextsV1, Dated, ObservedV1, DisputedV1

LEMMA SourcesAddV1 ==
  ASSUME NEW some, NEW more
  PROVE  /\ SourceRowsV1(some \cup more) = SourceRowsV1(some) \cup SourceRowsV1(more)
         /\ RejectedContextsV1(some \cup more) = RejectedContextsV1(some) \cup RejectedContextsV1(more)
<1>1. \A S : /\ SourceRowsV1(S) = {Dated(r) : r \in {q \in S : ObservedV1(q)}}
             /\ RejectedContextsV1(S) = {Dated(r) : r \in {q \in S : DisputedV1(q)}}
  BY SourcesAreV1
<1> QED BY <1>1

LEMMA SourcesAreDatedV1 ==
  ASSUME NEW some, \A r \in some : RowIsDated(r),
         NEW o \in SourceRowsV1(some) \cup RejectedContextsV1(some)
  PROVE  /\ o.available \in Nat
         /\ (\A r \in some : r.filed = day) => o.available = day + 1
<1>1. PICK r \in some : o = Dated(r)
  BY SourcesAreV1
<1>2. RowIsDated(r)
  OBVIOUS
<1>3. o.available = r.filed + 1
  BY <1>1, <1>2, DatedIs DEF RowIsDated
<1> QED BY <1>2, <1>3 DEF RowIsDated

LEMMA FileReportIsDated ==
  ASSUME DatedRowsInv, FileReport
  PROVE  \E more : /\ rows' = rows \cup more
                   /\ \A r \in more : RowIsDated(r) /\ r.filed = day
<1>1. PICK report \in Reports :
        rows' = rows \cup {Reported(r, report.form, Cardinality(ReportsFiled) + 1) : r \in report.rows}
  BY DEF FileReport
<1> DEFINE number == Cardinality(ReportsFiled) + 1
           more == {Reported(r, report.form, number) : r \in report.rows}
<1> HIDE DEF number
<1>2. \A r \in report.rows : /\ RowIsDated(Reported(r, report.form, number))
                             /\ Reported(r, report.form, number).filed = day
  BY DEF DatedRowsInv, Reported, RowIsDated, RowShape
<1>3. \A r \in more : RowIsDated(r) /\ r.filed = day
  BY <1>2
<1>4. rows' = rows \cup more
  BY <1>1 DEF number
<1> QED BY <1>3, <1>4

LEMMA DatedRows_Inv ==
  ASSUME DatedRowsInv, [HistoryNext]_historyVars
  PROVE  DatedRowsInv'
<1>1. CASE UNCHANGED historyVars
  BY <1>1 DEF historyVars, DatedRowsInv, RowIsDated
<1>2. CASE FileReport
  <2>1. PICK more : rows' = rows \cup more /\ \A r \in more : RowIsDated(r) /\ r.filed = day
    BY <1>2, FileReportIsDated
  <2>2. day' = day
    BY <1>2 DEF FileReport
  <2> QED BY <2>1, <2>2 DEF DatedRowsInv, RowIsDated
<1>3. CASE NextReportDay
  <2>1. rows' = rows /\ day' = day + 1 /\ day \in Nat
    BY <1>3 DEF NextReportDay, DatedRowsInv
  <2>2. ASSUME NEW r, RowIsDated(r) PROVE RowIsDated(r)'
    BY <2>1, <2>2 DEF RowIsDated
  <2> QED BY <2>1, <2>2 DEF DatedRowsInv
<1> QED BY <1>1, <1>2, <1>3 DEF HistoryNext

\* The rows of the first engine alone: its policy is the company's, and stays.
LEMMA ReleasesAlike ==
  ASSUME DatedRowsInv, NEW more, \A r \in more : RowIsDated(r) /\ r.filed = day,
         NEW cutoff \in Int, cutoff <= day, NEW to
  PROVE  /\ AlikeAt(NormalizeV1(rows), NormalizeV1(rows \cup more), cutoff, to)
         /\ \A ids : ids \subseteq Visible(NormalizeV1(rows), cutoff, to) =>
              ids \cap NormalizeV1(rows \cup more).observations = ids \cap NormalizeV1(rows).observations
<1> DEFINE all == rows \cup more
           a == NormalizeV1(rows)
           b == NormalizeV1(all)
           added == SourceRowsV1(more)
           refused == RejectedContextsV1(more)
<1>1. /\ a.observations = SourceRowsV1(rows) /\ b.observations = SourceRowsV1(all)
      /\ a.rejected = RejectedContextsV1(rows) /\ b.rejected = RejectedContextsV1(all)
      /\ a.quarantined = b.quarantined /\ a.long = b.long
  BY DEF NormalizeV1
<1>2. /\ SourceRowsV1(all) = SourceRowsV1(rows) \cup added
      /\ RejectedContextsV1(all) = RejectedContextsV1(rows) \cup refused
  BY SourcesAddV1
<1>3. \A o \in SourceRowsV1(rows) : o.available \in Nat
  BY SourcesAreDatedV1 DEF DatedRowsInv
<1>4. \A o \in added \cup refused : o.available = day + 1
  BY SourcesAreDatedV1
<1>5. day \in Nat
  BY DEF DatedRowsInv
<1>6. QuarterMax(a) = QuarterMax(b) /\ \A p : QuarterOk(a, p, cutoff) <=> QuarterOk(b, p, cutoff)
  BY <1>1, Zenon DEF QuarterMax, QuarterOk
<1> HIDE DEF a, b, added, refused, all
<1>7. Visible(a, cutoff, to) = Visible(b, cutoff, to)
  <2>1. \A o \in added : ~(o.available <= cutoff)
    BY <1>4, <1>5
  <2> QED BY <1>1, <1>2, <2>1 DEF Visible
<1>8. ASSUME NEW o \in Visible(a, cutoff, to) PROVE Blocked(a, o, cutoff) <=> Blocked(b, o, cutoff)
  <2>1. o.available \in Nat
    BY <1>1, <1>3 DEF Visible
  <2>2. \A r \in refused : r.available \notin o.available..cutoff
    BY <1>4, <1>5, <2>1
  <2> QED BY <1>1, <1>2, <2>2 DEF Blocked
<1>9. AlikeAt(a, b, cutoff, to)
  BY <1>1, <1>6, <1>7, <1>8 DEF AlikeAt
<1>10. \A ids : ids \subseteq Visible(a, cutoff, to) => ids \cap b.observations = ids \cap a.observations
  BY <1>1, <1>2 DEF Visible
<1> QED BY <1>9, <1>10 DEF a, b, all

LEMMA DatedInit_Inv == HistoryInit => DatedRowsInv
BY HistoriesAssumption DEF HistoryInit, DatedRowsInv

Served(row, data) == [row |-> row, records |-> row.ids \cap data.observations]

LEMMA ServedIs ==
  ASSUME day \in Nat, NEW some, NEW q
  PROVE  ServedV1(ReleaseV1(some, {day}), q, day, cumulativeFirst)
           = IF q.to <= day /\ q.cutoff <= day
             THEN {Served(r, NormalizeV1(some)) :
                     r \in HistoryV1(NormalizeV1(some), q.frequency, q.cutoff, q.to, cumulativeFirst)}
             ELSE {}
<1> DEFINE release == ReleaseV1(some, {day})
<1>1. Min({day}) = day
  BY LeastIs
<1>2. release.data = NormalizeV1(some) /\ release.maximumAsOf = day
  BY <1>1 DEF ReleaseV1
<1> HIDE DEF release
<1>3. WithinV1(release, q, day) <=> q.to <= day /\ q.cutoff <= day
  <2>1. Min({release.maximumAsOf, day}) = day
    BY <1>1, <1>2
  <2> QED BY <1>2, <2>1 DEF WithinV1
<1>4. ServedV1(release, q, day, cumulativeFirst)
        = IF WithinV1(release, q, day)
          THEN {Served(r, release.data) :
                  r \in HistoryV1(release.data, q.frequency, q.cutoff, q.to, cumulativeFirst)}
          ELSE {}
  BY DEF ServedV1, Served
<1> QED BY <1>2, <1>3, <1>4 DEF release

\* What a release of the first engine answers as of today or before stays what a release
\* built again of today's member answers (build_sec_history_release.py, sec_history_api.py
\* execute): nothing that is reported today is in a row that it serves, nor among the sources
\* that it serves with the row.  Its policy is the company's, so nothing is assumed of what
\* the reports change.
THEOREM ReleasesStayTrue == HistorySpec => ReleasesAreFinal
<1>1. ASSUME DatedRowsInv, [HistoryNext]_historyVars, rows' # rows
      PROVE  FinalV1(rows, rows')
  <2>1. FileReport
    BY <1>1 DEF HistoryNext, historyVars, NextReportDay
  <2>2. PICK more : rows' = rows \cup more /\ \A r \in more : RowIsDated(r) /\ r.filed = day
    BY <1>1, <2>1, FileReportIsDated
  <2> DEFINE before == NormalizeV1(rows)
             after == NormalizeV1(rows')
             Rows(data, q) == HistoryV1(data, q.frequency, q.cutoff, q.to, cumulativeFirst)
             All(data, q) == {Served(r, data) : r \in Rows(data, q)}
  <2>3. ASSUME NEW q \in Asked, q.cutoff <= day
        PROVE  All(after, q) = All(before, q)
    <3>1. q.cutoff \in Int
      BY HistoriesAssumption DEF Asked
    <3>2. /\ AlikeAt(before, after, q.cutoff, q.to)
          /\ \A ids : ids \subseteq Visible(before, q.cutoff, q.to) =>
               ids \cap after.observations = ids \cap before.observations
      <4> HIDE DEF before, after
      <4>1. /\ AlikeAt(NormalizeV1(rows), NormalizeV1(rows \cup more), q.cutoff, q.to)
            /\ \A ids : ids \subseteq Visible(NormalizeV1(rows), q.cutoff, q.to) =>
                 ids \cap NormalizeV1(rows \cup more).observations
                   = ids \cap NormalizeV1(rows).observations
        BY <1>1, <2>2, <2>3, <3>1, ReleasesAlike, Zenon
      <4>2. before = NormalizeV1(rows) /\ after = NormalizeV1(rows \cup more)
        BY <2>2 DEF before, after
      <4> QED BY <4>1, <4>2, Zenon
    <3> HIDE DEF before, after
    <3>3. Rows(after, q) = Rows(before, q)
      BY <3>2, FirstHistoriesAlike
    <3>4. ASSUME NEW r \in Rows(before, q) PROVE Served(r, after) = Served(r, before)
      <4>1. r.ids \subseteq Visible(before, q.cutoff, q.to)
        BY HistoryKnows DEF Knows
      <4> QED BY <3>2, <4>1 DEF Served
    <3> HIDE DEF Rows
    <3> QED BY <3>3, <3>4, Zenon
  <2>4. ASSUME NEW q \in Asked
        PROVE  ServedV1(ReleaseV1(rows', {day}), q, day, cumulativeFirst)
                 = ServedV1(ReleaseV1(rows, {day}), q, day, cumulativeFirst)
    <3>1. day \in Nat
      BY <1>1 DEF DatedRowsInv
    <3>2. CASE q.to <= day /\ q.cutoff <= day
      BY <2>3, <3>1, <3>2, ServedIs, Zenon
    <3>3. CASE ~(q.to <= day /\ q.cutoff <= day)
      BY <3>1, <3>3, ServedIs, Zenon
    <3> QED BY <3>2, <3>3
  <2> QED BY <2>4, Zenon DEF FinalV1
<1>2. DatedRowsInv /\ [HistoryNext]_historyVars
        => [rows' # rows => FinalV1(rows, rows')]_historyVars
  BY <1>1
<1> QED BY <1>2, DatedInit_Inv, DatedRows_Inv, PTL DEF HistorySpec, ReleasesAreFinal

-----------------------------------------------------------------------------
(* The certifier.  A companion adds rows of other metrics than the two     *)
(* that it may prove: of these, a history has the same annual rows with it *)
(* and without it.                                                         *)

Targets == {"revenue", "operating_income"}

\* Two members that say the same but for what one of them says of other metrics.
Extends(a, b) ==
  /\ a.observations \subseteq b.observations
  /\ \A o \in b.observations \ a.observations : o.metric \notin Targets
  /\ b.rejected = a.rejected /\ b.quarantined = a.quarantined

AnnualItems(data, cutoff, cf) ==
  Candidates(data, Selected(data, cutoff, cutoff, cf), "annual", cutoff)
AnnualValues(data, cutoff, cf) ==
  PeriodValues(AnnualItems(data, cutoff, cf)) \ Overlapping(PeriodValues(AnnualItems(data, cutoff, cf)))

\* The same of the two metrics.
SameOfTargets(S, T) == \A x : x.metric \in Targets => (x \in S <=> x \in T)

LEMMA VersionsOfTargets ==
  ASSUME NEW S, NEW T, SameOfTargets(S, T), NEW o, o.metric \in Targets, NEW cf
  PROVE  Versions(o, S) = Versions(o, T) /\ Turn(o, S, cf) = Turn(o, T, cf)
<1>1. {r \in S : SameContext(r, o)} = {r \in T : SameContext(r, o)}
  BY DEF SameOfTargets, SameContext
<1> QED BY <1>1, Zenon DEF Versions, Turn

LEMMA SelectedOfTargets ==
  ASSUME NEW a, NEW b, Extends(a, b), NEW cutoff, NEW cf
  PROVE  SameOfTargets(Selected(a, cutoff, cutoff, cf), Selected(b, cutoff, cutoff, cf))
<1> DEFINE Seen(d) == Visible(d, cutoff, cutoff)
           Agreed(d, o) == \A r \in Versions(o, Seen(d)) : r.value = o.value /\ r.content = o.content
           Latest(d) == {o \in Seen(d) : o \in Versions(o, Seen(d)) /\ ~Blocked(d, o, cutoff) /\ Agreed(d, o)}
           Chosen(d) == {o \in Latest(d) : \A r \in Versions(o, Seen(d)) : o.number <= r.number}
           Item(d, o) == [metric |-> o.metric, concept |-> o.concept, start |-> o.start, end |-> o.end,
                       value |-> o.value, null |-> o.content = "null", available |-> o.available,
                       form |-> o.form, ids |-> Versions(o, Seen(d)), terms |-> {<<o, 1>>},
                       formula |-> "REPORTED", parts |-> << >>, turn |-> Turn(o, Seen(d), cf)]
<1>1. ASSUME NEW d PROVE Selected(d, cutoff, cutoff, cf) = {Item(d, o) : o \in Chosen(d)}
  BY DEF Selected
<1>2. SameOfTargets(Seen(a), Seen(b))
  BY DEF Extends, SameOfTargets, Visible
<1> HIDE DEF Seen
<1>3. ASSUME NEW o, o.metric \in Targets
      PROVE  /\ Versions(o, Seen(a)) = Versions(o, Seen(b)) /\ Turn(o, Seen(a), cf) = Turn(o, Seen(b), cf)
             /\ Blocked(a, o, cutoff) <=> Blocked(b, o, cutoff)
             /\ o \in Seen(a) <=> o \in Seen(b)
  BY <1>2, <1>3, VersionsOfTargets DEF Extends, Blocked, SameOfTargets
<1>4. ASSUME NEW o, o.metric \in Targets
      PROVE  (o \in Chosen(a) <=> o \in Chosen(b)) /\ Item(a, o) = Item(b, o)
  BY <1>3, <1>4
<1>5. \A d, o : Item(d, o).metric = o.metric
  OBVIOUS
<1> HIDE DEF Item, Chosen
<1>6. ASSUME NEW x, x.metric \in Targets
      PROVE  x \in {Item(a, o) : o \in Chosen(a)} <=> x \in {Item(b, o) : o \in Chosen(b)}
  BY <1>4, <1>5, <1>6
<1> QED BY <1>1, <1>6 DEF SameOfTargets

LEMMA ValuesOfTargets ==
  ASSUME NEW a, NEW b, Extends(a, b), NEW cutoff, NEW cf
  PROVE  SameOfTargets(AnnualValues(a, cutoff, cf), AnnualValues(b, cutoff, cf))
<1> DEFINE A == AnnualItems(a, cutoff, cf)
           B == AnnualItems(b, cutoff, cf)
<1>1. SameOfTargets(A, B)
  <2>1. SameOfTargets(Selected(a, cutoff, cutoff, cf), Selected(b, cutoff, cutoff, cf))
    BY SelectedOfTargets
  <2> QED BY <2>1 DEF SameOfTargets, AnnualItems, Candidates
<1> HIDE DEF A, B
<1>2. ASSUME NEW c, c.metric \in Targets PROVE Rivals(c, A) = Rivals(c, B)
  BY <1>1, <1>2 DEF SameOfTargets, Rivals, SamePeriod
<1>3. SameOfTargets(PeriodValues(A), PeriodValues(B))
  BY <1>1, <1>2 DEF PeriodValues, SameOfTargets
<1>4. SameOfTargets(Overlapping(PeriodValues(A)), Overlapping(PeriodValues(B)))
  BY <1>3 DEF Overlapping, SameOfTargets
<1>5. SameOfTargets(PeriodValues(A) \ Overlapping(PeriodValues(A)),
                    PeriodValues(B) \ Overlapping(PeriodValues(B)))
  BY <1>3, <1>4 DEF SameOfTargets
<1> QED BY <1>5 DEF AnnualValues, A, B

LEMMA ItemsAreReported ==
  ASSUME NEW data, NEW cutoff, NEW cf, NEW item \in AnnualItems(data, cutoff, cf)
  PROVE  item.formula = "REPORTED"
<1>1. item \in Selected(data, cutoff, cutoff, cf)
  BY DEF AnnualItems, Candidates
<1> QED BY <1>1 DEF Selected

LEMMA CalculatedMetric ==
  ASSUME NEW parts, NEW formula, NEW metric, NEW start, NEW end
  PROVE  Calculate(parts, formula, metric, start, end).metric = metric
BY DEF Calculate

\* Of the two metrics a history has what is reported of a year, and no more.
LEMMA AnnualRowsOfTargets ==
  ASSUME NEW data, NEW cutoff, NEW cf, NEW row, row.metric \in Targets
  PROVE  row \in History(data, "annual", cutoff, cutoff, cf)
           <=> row \in AnnualValues(data, cutoff, cf) /\ row.metric \notin data.quarantined
<1> DEFINE selected == Selected(data, cutoff, cutoff, cf)
           values == Unambiguous(data, selected, "annual", cutoff)
           anchors == Anchors(data, selected, "annual", cutoff, cutoff)
           periodic == Periodic(data, "annual", cutoff, cutoff, cf)
<1>1. periodic = values \cup UNION {CashAt(selected, x[2]) \cup DebtAt(selected, x[2])
                                     \cup FreeCashFlow(values, x) : x \in anchors}
  BY Zenon DEF Periodic
<1>2. row \in values <=> row \in AnnualValues(data, cutoff, cf)
  <2> DEFINE items == AnnualItems(data, cutoff, cf)
             ambiguous == AmbiguousSources(data, selected, cutoff)
  <2>1. values = {v \in PeriodValues(items) \ Overlapping(PeriodValues(items)) :
                    v.formula # "REPORTED" => v.ids \cap ambiguous = {}}
    BY Zenon DEF Unambiguous, AnnualItems
  <2>2. \A v \in PeriodValues(items) : v.formula = "REPORTED"
    BY ItemsAreReported DEF PeriodValues
  <2> HIDE DEF items, ambiguous, values
  <2>3. values = PeriodValues(items) \ Overlapping(PeriodValues(items))
    BY <2>1, <2>2
  <2> QED BY <2>3 DEF AnnualValues, items
<1> HIDE DEF selected, values, anchors
<1>3. ASSUME NEW x PROVE row \notin CashAt(selected, x) /\ row \notin DebtAt(selected, x)
  <2>1. \A i \in CashAt(selected, x) : i.metric = "cash"
    BY DEF CashAt, Instants
  <2>2. \A i \in DebtAt(selected, x) : i.metric = "total_debt"
    <3> SUFFICES ASSUME NEW i \in DebtAt(selected, x) PROVE i.metric = "total_debt"
      OBVIOUS
    <3> DEFINE Shown(tag) == {k \in Instants(selected, tag, x) : ~k.null}
               parts == [n \in 1..Cardinality(DebtComponents) |->
                           CHOOSE k \in Shown(SetToSeq(DebtComponents)[n]) : TRUE]
    <3>1. i = Calculate(parts, "SUM", "total_debt", 0, x)
      BY Zenon DEF DebtAt
    <3> HIDE DEF parts
    <3> QED BY <3>1, CalculatedMetric
  <2> QED BY <2>1, <2>2 DEF Targets
<1>4. ASSUME NEW x PROVE row \notin FreeCashFlow(values, x)
  <2>1. \A i \in FreeCashFlow(values, x) : i.metric = "free_cash_flow"
    BY CalculatedMetric DEF FreeCashFlow
  <2> QED BY <2>1 DEF Targets
<1>5. row \in periodic <=> row \in values
  <2> HIDE DEF periodic
  <2> QED BY <1>1, <1>3, <1>4
<1>6. row.metric \in Metrics
  BY DEF Targets, Metrics, Registry
<1>7. History(data, "annual", cutoff, cutoff, cf) = {r \in periodic : r.metric \in Metrics \ data.quarantined}
  BY DEF History, Framed
<1> QED BY <1>2, <1>5, <1>6, <1>7

LEMMA HistoryOfTargets ==
  ASSUME NEW a, NEW b, Extends(a, b), NEW cutoff, NEW cf, NEW row, row.metric \in Targets
  PROVE  row \in History(a, "annual", cutoff, cutoff, cf) <=> row \in History(b, "annual", cutoff, cutoff, cf)
<1>1. row \in AnnualValues(a, cutoff, cf) <=> row \in AnnualValues(b, cutoff, cf)
  BY ValuesOfTargets DEF SameOfTargets
<1>2. a.quarantined = b.quarantined
  BY DEF Extends
<1> QED BY <1>1, <1>2, AnnualRowsOfTargets

LEMMA TargetRowIs ==
  ASSUME NEW data, NEW cutoff, NEW cf, NEW row \in History(data, "annual", cutoff, cutoff, cf),
         row.metric \in Targets
  PROVE  row.formula = "REPORTED" /\ row.ids \subseteq data.observations
<1>1. row \in AnnualItems(data, cutoff, cf)
  BY AnnualRowsOfTargets DEF AnnualValues, PeriodValues
<1>2. row \in Selected(data, cutoff, cutoff, cf)
  BY <1>1 DEF AnnualItems, Candidates
<1>3. row.ids \subseteq Visible(data, cutoff, cutoff)
  BY <1>2, SelectedKnows DEF Knows
<1> QED BY <1>1, <1>3, ItemsAreReported DEF Visible

-----------------------------------------------------------------------------
(* What a companion proves.                                                *)

Whole == With(Normalize(rows), ExtraSources(rows))
OfDay(d) == Companion(Normalize(rows), rows, d, cumulativeFirst)
DataOf(d) == With(Normalize(rows), OfDay(d).observations)

LEMMA ExtrasAre ==
  ASSUME DatedRowsInv, NEW o \in ExtraSources(rows)
  PROVE  o.metric \notin Targets /\ o.concept \in DOMAIN Extra
<1> DEFINE Extended(r) == [r EXCEPT !.available = AvailableFrom(r), !.metric = Extra[r.concept]]
<1>1. PICK r \in rows : r.concept \in DOMAIN Extra /\ o = Extended(r)
  BY DEF ExtraSources
<1>2. RowShape(r)
  BY DEF DatedRowsInv, RowIsDated
<1>3. Extended(r).metric = Extra[r.concept] /\ Extended(r).concept = r.concept
  BY <1>2 DEF RowShape
<1>4. Extra[r.concept] \notin Targets
  BY <1>1 DEF Extra, Targets
<1> QED BY <1>1, <1>3, <1>4

LEMMA WithIs ==
  ASSUME NEW some, NEW more
  PROVE  /\ With(Normalize(some), more).observations = Normalize(some).observations \cup more
         /\ With(Normalize(some), more).rejected = Normalize(some).rejected
         /\ With(Normalize(some), more).quarantined = Normalize(some).quarantined
BY DEF With, Normalize

Named(data, row, name, s) ==
  [identity |-> name, metric |-> row.metric, start |-> row.start, end |-> row.end,
   confirmed |-> FALSE,
   roles |-> [role \in DOMAIN LinearIdentities[name].signs |->
                CHOOSE o \in SameFiling(data, s, role) : TRUE]]
MayName(data, row, name, s) ==
  /\ name \in Identities /\ row.metric \in Targets /\ row.ids = {s}
  /\ LinearIdentities[name].target = row.metric /\ Complete(data, s, name)

LEMMA InputsAre ==
  ASSUME NEW data, NEW row, NEW item
  PROVE  item \in InputsFor(data, row)
           <=> \E name, s : MayName(data, row, name, s) /\ item = Named(data, row, name, s)
<1> DEFINE Right(q) == /\ row.metric \in {"revenue", "operating_income"} /\ row.ids = {q[2]}
                       /\ LinearIdentities[q[1]].target = row.metric
                       /\ Complete(data, q[2], q[1])
           pairs == {q \in Identities \X row.ids : Right(q)}
<1>1. InputsFor(data, row) = {Named(data, row, p[1], p[2]) : p \in pairs}
  BY Zenon DEF InputsFor, Named
<1>2. \A name, s : <<name, s>> \in pairs <=> MayName(data, row, name, s)
  BY DEF MayName, Targets
<1>3. \A p \in pairs : p = <<p[1], p[2]>>
  OBVIOUS
<1> HIDE DEF pairs
<1>4. ASSUME item \in InputsFor(data, row)
      PROVE  \E name, s : MayName(data, row, name, s) /\ item = Named(data, row, name, s)
  <2>1. PICK p \in pairs : item = Named(data, row, p[1], p[2])
    BY <1>1, <1>4
  <2>2. MayName(data, row, p[1], p[2])
    BY <1>2, <1>3
  <2> QED BY <2>1, <2>2, Zenon
<1>5. ASSUME NEW name, NEW s, MayName(data, row, name, s), item = Named(data, row, name, s)
      PROVE  item \in InputsFor(data, row)
  <2>1. <<name, s>> \in pairs
    BY <1>2, <1>5
  <2>2. item = Named(data, row, <<name, s>>[1], <<name, s>>[2])
    BY <1>5
  <2> QED BY <1>1, <2>1, <2>2
<1> QED BY <1>4, <1>5, Zenon

\* Everything that the inputs relate.
Related(inputs) == UNION {Range(i.roles) : i \in inputs}

LEMMA DayIs ==
  ASSUME NEW d
  PROVE  /\ OfDay(d).inputs = InputsOf(Whole, d, cumulativeFirst)
         /\ OfDay(d).observations = Related(OfDay(d).inputs) \ Normalize(rows).observations
<1> DEFINE sources == Normalize(rows)
           inputs == InputsOf(Whole, d, cumulativeFirst)
<1>1. OfDay(d) = CompanionOf(sources, inputs)
  BY Zenon DEF OfDay, Companion, Whole
<1> HIDE DEF sources, inputs
<1>2. /\ CompanionOf(sources, inputs).inputs = inputs
      /\ CompanionOf(sources, inputs).observations = Related(inputs) \ sources.observations
  BY DEF CompanionOf, Related
<1> QED BY <1>1, <1>2 DEF sources, inputs

LEMMA InputIs ==
  ASSUME NEW d, NEW item
  PROVE  item \in OfDay(d).inputs
           <=> \E row \in History(Whole, "annual", d, d, cumulativeFirst) : \E name, s :
                 MayName(Whole, row, name, s) /\ item = Named(Whole, row, name, s)
<1>1. item \in OfDay(d).inputs
        <=> \E row \in History(Whole, "annual", d, d, cumulativeFirst) : item \in InputsFor(Whole, row)
  <2>1. InputsOf(Whole, d, cumulativeFirst)
          = UNION {InputsFor(Whole, row) : row \in History(Whole, "annual", d, d, cumulativeFirst)}
    BY DEF InputsOf
  <2> QED BY <2>1, DayIs
<1>2. ASSUME NEW row
      PROVE  item \in InputsFor(Whole, row)
               <=> \E name, s : MayName(Whole, row, name, s) /\ item = Named(Whole, row, name, s)
  BY InputsAre
<1> QED BY <1>1, <1>2, Zenon

\* What plays a role is stated of it, by the filing of the source.
LEMMA RolesAre ==
  ASSUME NEW row, NEW name, NEW s, MayName(Whole, row, name, s),
         NEW role \in DOMAIN LinearIdentities[name].signs
  PROVE  /\ DOMAIN Named(Whole, row, name, s).roles = DOMAIN LinearIdentities[name].signs
         /\ Named(Whole, row, name, s).roles[role] \in SameFiling(Whole, s, role)
         /\ \A o, q \in SameFiling(Whole, s, role) : o.value = q.value
<1> DEFINE stated == SameFiling(Whole, s, role)
<1>1. stated # {} /\ \A o, q \in stated : o.value = q.value
  BY Zenon DEF MayName, Complete
<1>2. /\ DOMAIN Named(Whole, row, name, s).roles = DOMAIN LinearIdentities[name].signs
      /\ Named(Whole, row, name, s).roles[role] = CHOOSE o \in stated : TRUE
  BY DEF Named
<1> HIDE DEF stated
<1>3. (CHOOSE o \in stated : TRUE) \in stated
  BY <1>1
<1> QED BY <1>1, <1>2, <1>3 DEF stated

LEMMA RoleIsPlayed ==
  ASSUME NEW row, NEW name, NEW s, MayName(Whole, row, name, s),
         NEW l \in Range(Named(Whole, row, name, s).roles)
  PROVE  /\ l.metric \in DOMAIN LinearIdentities[name].signs
         /\ l \in SameFiling(Whole, s, l.metric)
<1>1. DOMAIN Named(Whole, row, name, s).roles = DOMAIN LinearIdentities[name].signs
  BY DEF Named
<1>2. PICK role \in DOMAIN LinearIdentities[name].signs : l = Named(Whole, row, name, s).roles[role]
  BY <1>1 DEF Range
<1>3. l \in SameFiling(Whole, s, role)
  BY <1>2, RolesAre
<1>4. l.metric = role
  BY <1>3 DEF SameFiling
<1> QED BY <1>2, <1>3, <1>4

LEMMA LeavesAreOfTheDay ==
  ASSUME NEW d, NEW item \in OfDay(d).inputs
  PROVE  Range(item.roles) \subseteq Whole.observations /\ Range(item.roles) \subseteq DataOf(d).observations
<1>1. PICK row, name, s : MayName(Whole, row, name, s) /\ item = Named(Whole, row, name, s)
  BY InputIs
<1>2. \A l \in Range(item.roles) : l \in Whole.observations
  BY <1>1, RoleIsPlayed DEF SameFiling
<1>3. DataOf(d).observations = Normalize(rows).observations \cup OfDay(d).observations
  BY WithIs DEF DataOf
<1>4. Range(item.roles) \subseteq DataOf(d).observations
  BY <1>3, DayIs DEF Related
<1> QED BY <1>2, <1>4

\* The data of a request is between the sources and the whole member.
LEMMA DataIs ==
  ASSUME DatedRowsInv, NEW d
  PROVE  /\ Extends(DataOf(d), Whole)
         /\ \A o \in DataOf(d).observations :
              o \in Normalize(rows).observations \/ (o.metric \notin Targets /\ o.concept \in DOMAIN Extra)
         /\ Normalize(rows).observations \subseteq DataOf(d).observations
         /\ DataOf(d).observations \subseteq Whole.observations
<1> DEFINE sources == Normalize(rows).observations
<1>1. /\ DataOf(d).observations = sources \cup OfDay(d).observations
      /\ DataOf(d).rejected = Whole.rejected /\ DataOf(d).quarantined = Whole.quarantined
  BY WithIs DEF DataOf, Whole
<1>2. Whole.observations = sources \cup ExtraSources(rows)
  BY WithIs DEF Whole
<1>3. \A o \in OfDay(d).observations : o \in ExtraSources(rows)
  <2>1. ASSUME NEW o \in OfDay(d).observations PROVE o \in Whole.observations /\ o \notin sources
    <3>1. o \in Related(OfDay(d).inputs) /\ o \notin sources
      BY DayIs
    <3>2. PICK item \in OfDay(d).inputs : o \in Range(item.roles)
      BY <3>1 DEF Related
    <3>3. Range(item.roles) \subseteq Whole.observations
      BY LeavesAreOfTheDay
    <3> QED BY <3>1, <3>2, <3>3
  <2> QED BY <1>2, <2>1
<1>4. \A o \in ExtraSources(rows) : o.metric \notin Targets /\ o.concept \in DOMAIN Extra
  BY ExtrasAre
<1> QED BY <1>1, <1>2, <1>3, <1>4 DEF Extends

LEMMA ConceptsAreNotExtra ==
  ASSUME NEW metric \in Targets, NEW concept \in Concepts(metric)
  PROVE  concept \notin DOMAIN Extra
<1>1. DOMAIN Extra = {"CostOfRevenue", "CostOfGoodsAndServicesSold", "GrossProfit", "OperatingExpenses"}
  BY DEF Extra
<1>2. CASE metric = "operating_income"
  <2>1. Concepts(metric) = {"OperatingIncomeLoss"}
    BY <1>2 DEF Concepts, Registry, ToSet
  <2> QED BY <1>1, <2>1
<1>3. CASE metric = "revenue" /\ Pinned # << >>
  <2>1. Concepts(metric) = ToSet(Pinned)
    BY <1>3 DEF Concepts, Registry
  <2> QED BY <2>1, CertificationAssumption
<1>4. CASE metric = "revenue" /\ Pinned = << >>
  <2>1. Concepts(metric) = ToSet(<<"RevenueFromContractWithCustomerExcludingAssessedTax", "SalesRevenueNet", "Revenues">>)
    BY <1>4 DEF Concepts, Registry
  <2>2. Concepts(metric) = {"RevenueFromContractWithCustomerExcludingAssessedTax", "SalesRevenueNet", "Revenues"}
    BY <2>1 DEF ToSet
  <2> QED BY <1>1, <2>2
<1> QED BY <1>2, <1>3, <1>4 DEF Targets

\* A source of one of the two metrics is as usable beside any companion.
LEMMA UsableBesideAny ==
  ASSUME DatedRowsInv, NEW b, NEW d, NEW l, l.metric \in Targets, NEW cutoff,
         SourceUsable(DataOf(b), l, cutoff)
  PROVE  SourceUsable(DataOf(d), l, cutoff)
<1>1. l.metric \in Metrics
  BY DEF Targets, Metrics, Registry
<1>2. l \in DataOf(b).observations /\ l.concept \in Concepts(l.metric)
  BY <1>1 DEF SourceUsable
<1>3. l.concept \notin DOMAIN Extra
  BY <1>2, ConceptsAreNotExtra
<1>4. l \in DataOf(d).observations
  BY <1>2, DataIs
<1>5. \A e : Peers(DataOf(e), l, cutoff) = Peers(Normalize(rows), l, cutoff)
  BY <1>3, DataIs DEF Peers
<1>6. DataOf(b).rejected = DataOf(d).rejected
  BY DataIs DEF Extends
<1>7. CurrentVintage(DataOf(b), l, cutoff) <=> CurrentVintage(DataOf(d), l, cutoff)
  BY <1>5, <1>6, Zenon DEF CurrentVintage
<1> QED BY <1>4, <1>7 DEF SourceUsable

LEMMA AccountedIs ==
  ASSUME NEW b, NEW d, NEW row
  PROVE  row \in Accounted(Normalize(rows), OfDay(b), d)
           <=> /\ row \in History(DataOf(b), "annual", d, d, cumulativeFirst)
               /\ SourcesValid(DataOf(b), row, d)
               /\ \E item \in OfDay(b).inputs : AccountingHolds(DataOf(b), row, item, d)
<1> DEFINE data == DataOf(b)
           inputs == OfDay(b).inputs
           all == History(data, "annual", d, d, cumulativeFirst)
           Given(r) == Status(data, r, inputs, d)
<1>1. Certified(Normalize(rows), OfDay(b), "annual", d, d, cumulativeFirst) = {<<r, Given(r)>> : r \in all}
  BY DEF Certified, Ranked, DataOf
<1> HIDE DEF Given, all
<1>2. Accounted(Normalize(rows), OfDay(b), d)
        = {p[1] : p \in {p \in {<<r, Given(r)>> : r \in all} : p[2] = "ACCOUNTING_CERTIFIED"}}
  BY <1>1, Zenon DEF Accounted
<1>3. row \in Accounted(Normalize(rows), OfDay(b), d) <=> row \in all /\ Given(row) = "ACCOUNTING_CERTIFIED"
  <2> DEFINE ranked == {<<r, Given(r)>> : r \in all}
             accounted == {p \in ranked : p[2] = "ACCOUNTING_CERTIFIED"}
  <2>1. ASSUME NEW p PROVE p \in accounted <=> \E r \in all : p = <<r, Given(r)>> /\ Given(r) = "ACCOUNTING_CERTIFIED"
    OBVIOUS
  <2> HIDE DEF accounted
  <2>2. row \in {p[1] : p \in accounted} <=> row \in all /\ Given(row) = "ACCOUNTING_CERTIFIED"
    <3>1. ASSUME NEW p \in accounted, row = p[1] PROVE row \in all /\ Given(row) = "ACCOUNTING_CERTIFIED"
      BY <2>1, <3>1
    <3>2. ASSUME row \in all, Given(row) = "ACCOUNTING_CERTIFIED" PROVE \E p \in accounted : row = p[1]
      <4>1. <<row, Given(row)>> \in accounted
        BY <2>1, <3>2
      <4> QED BY <4>1
    <3> QED BY <3>1, <3>2
  <2> QED BY <1>2, <2>2 DEF accounted
<1>4. Given(row) = "ACCOUNTING_CERTIFIED"
        <=> SourcesValid(data, row, d) /\ \E item \in inputs : AccountingHolds(data, row, item, d)
  BY DEF Given, Status
<1> QED BY <1>3, <1>4 DEF all

\* What a companion of some day proves of a day, the companion of that day proves.
LEMMA ProvenOnItsDay ==
  ASSUME DatedRowsInv, NEW b, NEW d, NEW row \in Accounted(Normalize(rows), OfDay(b), d)
  PROVE  row \in Accounted(Normalize(rows), OfDay(d), d)
<1>1. /\ row \in History(DataOf(b), "annual", d, d, cumulativeFirst)
      /\ SourcesValid(DataOf(b), row, d)
  BY AccountedIs
<1>2. PICK item \in OfDay(b).inputs : AccountingHolds(DataOf(b), row, item, d)
  BY AccountedIs
<1>3. PICK other, name, s : MayName(Whole, other, name, s) /\ item = Named(Whole, other, name, s)
  BY InputIs
<1>4. /\ item.metric = other.metric /\ item.identity = name /\ name \in Identities
      /\ item.start = other.start /\ item.end = other.end /\ item.confirmed = FALSE
      /\ other.metric \in Targets /\ LinearIdentities[name].target = other.metric
  BY <1>3 DEF Named, MayName
<1>5. name # "CASH_MOVEMENT"
  BY <1>4 DEF Identities, LinearIdentities
<1>6. /\ row.metric = other.metric /\ row.start = other.start /\ row.end = other.end
      /\ OneFiling(DataOf(b), row, item, d)
  BY <1>2, <1>4, <1>5 DEF AccountingHolds
<1>7. row.metric \in Targets
  BY <1>4, <1>6
<1>8. row.formula = "REPORTED"
  BY <1>1, <1>7, TargetRowIs
<1>9. ReportedVerified(row) /\ \A l \in row.ids : SourceUsable(DataOf(b), l, d)
  BY <1>1, <1>8 DEF SourcesValid
<1>10. PICK l \in row.ids : row.ids = {l} /\ l.metric = row.metric
  BY <1>9 DEF ReportedVerified
<1>11. l \in SameFiling(Whole, s, row.metric)
  <2>1. l \in Range(item.roles)
    BY <1>6, <1>10 DEF OneFiling
  <2> QED BY <1>3, <1>10, <2>1, RoleIsPlayed
<1>12. \A role : SameFiling(Whole, l, role) = SameFiling(Whole, s, role)
  BY <1>11 DEF SameFiling, Scope
<1>13. MayName(Whole, row, name, l) /\ item = Named(Whole, row, name, l)
  <2>1. Complete(Whole, l, name)
    BY <1>3, <1>12, Zenon DEF MayName, Complete
  <2>2. Named(Whole, row, name, l).roles = item.roles
    <3> DEFINE Chosen(stated) == CHOOSE o \in stated : TRUE
               Roles(k) == [role \in DOMAIN LinearIdentities[name].signs |-> Chosen(SameFiling(Whole, k, role))]
    <3>1. \A any, k : Named(Whole, any, name, k).roles = Roles(k)
      BY DEF Named
    <3> HIDE DEF Chosen
    <3>2. \A role : Chosen(SameFiling(Whole, l, role)) = Chosen(SameFiling(Whole, s, role))
      BY <1>12
    <3>3. Roles(l) = Roles(s)
      BY <3>2
    <3> HIDE DEF Roles
    <3> QED BY <1>3, <3>1, <3>3
  <2>3. Named(Whole, row, name, l) = Named(Whole, other, name, s)
    BY <1>3, <1>6, <2>2 DEF Named
  <2> QED BY <1>3, <1>4, <1>6, <1>10, <2>1, <2>3 DEF MayName
<1>14. row \in History(Whole, "annual", d, d, cumulativeFirst)
  BY <1>1, <1>7, DataIs, HistoryOfTargets
<1>15. item \in OfDay(d).inputs
  BY <1>13, <1>14, InputIs
<1>16. row \in History(DataOf(d), "annual", d, d, cumulativeFirst)
  BY <1>7, <1>14, DataIs, HistoryOfTargets
<1>17. SourcesValid(DataOf(d), row, d)
  <2>1. \A k \in row.ids : SourceUsable(DataOf(d), k, d)
    BY <1>7, <1>9, <1>10, UsableBesideAny
  <2>2. DataOf(b).quarantined = DataOf(d).quarantined
    BY DataIs DEF Extends
  <2> QED BY <1>1, <1>8, <1>9, <2>1, <2>2 DEF SourcesValid
<1>18. OneFiling(DataOf(d), row, item, d)
  <2> DEFINE leaves == Range(item.roles)
             Filing(k) == <<k.number, k.form, k.available>>
  <2>1. /\ leaves # {} /\ leaves \subseteq DataOf(b).observations /\ IsInjective(item.roles)
        /\ \A j, k \in leaves : Filing(j) = Filing(k)
        /\ \A k \in leaves : k.available <= d /\ k.content = "number"
        /\ row.ids \subseteq leaves
    BY <1>6 DEF OneFiling
  <2>2. leaves \subseteq DataOf(d).observations
    BY <1>15, LeavesAreOfTheDay
  <2>3. ASSUME NEW k \in leaves, NEW o \in DataOf(d).observations,
               o.metric = k.metric, Scope(o) = Scope(k), Filing(o) = Filing(k)
        PROVE  o.value = k.value
    <3>1. k \in SameFiling(Whole, l, k.metric) /\ k.metric \in DOMAIN LinearIdentities[name].signs
      BY <1>13, RoleIsPlayed
    <3>2. o \in Whole.observations
      BY DataIs
    <3>3. o \in SameFiling(Whole, l, k.metric)
      BY <2>3, <3>1, <3>2 DEF SameFiling
    <3> QED BY <1>13, <3>1, <3>3, RolesAre
  <2> QED BY <2>1, <2>2, <2>3 DEF OneFiling
<1>19. AccountingHolds(DataOf(d), row, item, d)
  BY <1>2, <1>18 DEF AccountingHolds
<1> QED BY <1>15, <1>16, <1>17, <1>19, AccountedIs

\* A companion proves nothing for another day that a companion of that day would not
\* (build_sec_metric_certification.py build_companion, financial_certification.py
\* accounting_identity): an identity that holds of a row of the day is of the filing of its
\* only source, and the companion of the day finds that filing, with the same roles.
THEOREM ProofsStayOnTheirDay == HistorySpec => []ProofsAreOfTheirDay
<1>1. ASSUME DatedRowsInv PROVE ProofsAreOfTheirDay
  <2> DEFINE Of(b) == {[built |-> b, asked |-> d, proven |-> Accounted(Normalize(rows), OfDay(b), d)] :
                         d \in FirstDay..LastDay}
  <2>1. AllProofs(Normalize(rows)) = UNION {Of(b) : b \in FirstDay..LastDay}
    BY Zenon DEF AllProofs, Proofs, OfDay
  <2>2. ASSUME NEW p \in AllProofs(Normalize(rows))
        PROVE  \E b, d : /\ p.built = b /\ p.asked = d
                         /\ p.proven = Accounted(Normalize(rows), OfDay(b), d)
    <3>1. PICK b \in FirstDay..LastDay : p \in Of(b)
      BY <2>1
    <3> QED BY <3>1
  <2>3. ASSUME NEW p \in AllProofs(Normalize(rows)), NEW own \in AllProofs(Normalize(rows)),
               own.built = own.asked, p.asked = own.asked
        PROVE  p.proven \subseteq own.proven
    <3>1. /\ p.proven = Accounted(Normalize(rows), OfDay(p.built), p.asked)
          /\ own.proven = Accounted(Normalize(rows), OfDay(own.built), own.asked)
      BY <2>2
    <3> QED BY <1>1, <2>3, <3>1, ProvenOnItsDay
  <2> QED BY <2>3, Zenon DEF ProofsAreOfTheirDay, OwnDayProvesMost
<1> QED BY <1>1, DatedInit_Inv, DatedRows_Inv, PTL DEF HistorySpec
=============================================================================
