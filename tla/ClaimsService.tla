---------------------------- MODULE ClaimsService ----------------------------
(***************************************************************************)
(* equity_claims_api.py over sec_companyfacts.py: the claims of one        *)
(* company as of a cutoff, from facts that an engine release and a         *)
(* companion release agree on.                                             *)
(*                                                                         *)
(* Around them, external: the company files; the SEC writes its archive    *)
(* once in a while, at any time of a day; an engine release is built from  *)
(* the archive, dated by the day the archive was written, and a companion  *)
(* release from the archive of an engine release.                          *)
(*                                                                         *)
(* A request reads one configuration and immutable objects, so it is one   *)
(* step.  One that names an earlier approved release is answered as it was *)
(* when that release was the current one.                                  *)
(***************************************************************************)
EXTENDS EquityClaims

CONSTANTS
  Days,         \* days of the model
  ClaimsMenu,   \* sets of reported facts, [concept, end, value, context], one of them a filing
  MaxFiled,     \* filings
  MaxArchives   \* archives

VARIABLES
  today,
  facts,        \* what the company has filed
  archives,     \* archives the SEC wrote: [day, facts]
  engine,       \* {} or the engine release, {[archive, pinned]}
  companion,    \* {} or the companion release, {[archive]}
  answer        \* {} or the last answer, {[cutoff, archive, claims]}

claimVars == <<today, facts, archives, engine, companion, answer>>

\* What a request may know: all the facts filed and available at the cutoff.
Truth(cutoff) == BuildClaims(RestrictToAvailable(facts, cutoff), cutoff.day)

ClaimsInit ==
  /\ today = 1 /\ facts = {} /\ archives = {} /\ engine = {} /\ companion = {}
  /\ answer = {}

Filed == {f.number : f \in facts}

FileFacts ==
  /\ Cardinality(Filed) < MaxFiled
  /\ \E filing \in ClaimsMenu :
       /\ \A f \in filing : f.end <= today
       /\ facts' = facts \cup {[concept |-> f.concept, end |-> f.end, value |-> f.value,
                                context |-> f.context, filed |-> today,
                                number |-> Cardinality(Filed) + 1] : f \in filing}
  /\ UNCHANGED <<today, archives, engine, companion, answer>>

NextDayOfClaims ==
  /\ today < Days
  /\ today' = today + 1
  /\ UNCHANGED <<facts, archives, engine, companion, answer>>

WriteArchive ==
  /\ Cardinality(archives) < MaxArchives
  /\ archives' = archives \cup {[day |-> today, facts |-> facts]}
  /\ UNCHANGED <<today, facts, engine, companion, answer>>

\* A company that is not materialized is in the catalog without the digest of its member.
ReleaseEngine ==
  /\ \E archive \in archives, pinned \in BOOLEAN :
       engine' = {[archive |-> archive, pinned |-> pinned]}
  /\ UNCHANGED <<today, facts, archives, companion, answer>>

\* Its members are those an engine release of the same archive has pinned.
ReleaseCompanion ==
  /\ \E archive \in archives : companion' = {[archive |-> archive]}
  /\ UNCHANGED <<today, facts, archives, engine, answer>>

-----------------------------------------------------------------------------

\* resolve_cutoff: a date stands for its last instant, a timestamp for itself.
Cutoffs == [day : 1..Days, whole : BOOLEAN]

\* The cutoff is not later than now.
Past(cutoff) == cutoff.day < today \/ (cutoff.day = today /\ ~cutoff.whole)

\* Mutant of Within: the marker of a release is not looked at.
WithinAny(cutoff, archive) == TRUE

\* source_ceiling: the day of a release reaches to its end.
Within(cutoff, archive) == cutoff.day <= archive.day

\* member, and the comparison with the pin of the engine.
SameMember(e, c) == e.pinned => e.archive.facts = c.archive.facts

AskClaims ==
  /\ \E cutoff \in Cutoffs, e \in engine, c \in companion :
       /\ Past(cutoff)
       /\ Within(cutoff, e.archive)
       /\ Within(cutoff, c.archive)
       /\ SameMember(e, c)
       /\ answer' = {[cutoff |-> cutoff, archive |-> c.archive,
                      claims |-> BuildClaims(RestrictToAvailable(c.archive.facts, cutoff),
                                             cutoff.day)]}
  /\ UNCHANGED <<today, facts, archives, engine, companion>>

ClaimsNext ==
  \/ FileFacts \/ NextDayOfClaims \/ WriteArchive
  \/ ReleaseEngine \/ ReleaseCompanion \/ AskClaims

ClaimsSpec == ClaimsInit /\ [][ClaimsNext]_claimVars

-----------------------------------------------------------------------------
(* Properties.                                                             *)

BeforeItsDayEnds(cutoff, archive) == cutoff.day < archive.day \/ ~cutoff.whole

\* Claims are of their cutoff: whichever releases answer, and whatever is filed and
\* released afterwards, they are the claims that all the facts available at the cutoff
\* make.  For the last instant of the day the archive was written, see
\* SnapshotDayIsInside.
ClaimsAreOfTheirCutoff ==
  \A a \in answer : BeforeItsDayEnds(a.cutoff, a.archive) => a.claims = Truth(a.cutoff)

\* The same for every cutoff the service accepts: source_ceiling says that the day of the
\* snapshot is inside the release, and resolve_cutoff that filings dated that day are
\* eligible.  The code does not keep it, and no run checks it: the archive may be written
\* before the day is over.
SnapshotDayIsInside ==
  \A a \in answer : a.claims = Truth(a.cutoff)

\* The bridge counts each reported fact once: what is added for cash is not added again
\* with the other nonoperating assets.
CashCountsOnce ==
  \A a \in answer :
    a.claims.available
      => a.claims.claims.cash.counted \cap a.claims.claims.nonoperating_assets.counted = {}
=============================================================================
