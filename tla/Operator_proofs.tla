--------------------------- MODULE Operator_proofs ----------------------------
(*****************************************************************************)
(*  What an operator runs by hand, proved for every number of polls, of      *)
(*  runs, objects, stages, workers, issuers and companies: the controlled    *)
(*  promotion, a script that publishes a release, the resumable readiness    *)
(*  run, and the builds in local directories.  Each part has the invariant   *)
(*  that its properties need; the parts share no state.                      *)
(*****************************************************************************)
EXTENDS Promotion, Publication, ReadinessRun, LocalBuilds, SequenceTheorems,
        FiniteSetTheorems, WellFoundedInduction, TLAPS

-----------------------------------------------------------------------------
(* The controlled promotion.  What a record of the evidence says depends on where in the sequence it
   is written: Progress ties the step of the controller to what the traffic and the evidence must
   be at that step. *)

Restored == deployed = Previous /\ edge = Previous
Promoted == deployed = Candidate /\ edge = Candidate /\ healthy /\ ~drill

Working == {"verifying", "wait_active", "wait_edge", "check", "pass"}

\* What holds at each step of the controller.
Before ==
  ctl.pc \in {"preflight", "preflight_failed", "activating"} =>
    /\ deployed # Candidate /\ ~ctl.verified
    /\ evidence.status = "NONE"
    /\ ctl.pc = "activating" => deployed = Previous
    /\ ctl.pc = "preflight_failed" => ctl.status = "PREFLIGHT_FAILED"

During ==
  /\ ctl.pc = "activate" => deployed = Previous /\ evidence.status = "ACTIVATING"
  /\ ctl.pc \in Working =>
       deployed = Candidate /\ evidence.status \in {"ACTIVATING", "VERIFYING"}
  /\ ctl.pc = "check" => edge = Candidate
  /\ ctl.pc = "pass" => Promoted
  /\ ctl.pc = "rolling_back" =>
       deployed \in {Previous, Candidate} /\ evidence.status \in {"ACTIVATING", "VERIFYING"}
  /\ ctl.pc \in {"rollback", "restore_active", "restore_edge", "restore_check",
                 "rolled_back", "unverified"} =>
       deployed \in {Previous, Candidate} /\ evidence.status = "ROLLING_BACK"
  /\ ctl.pc \in {"restore_active", "restore_edge"} => deployed = Previous
  /\ ctl.pc = "restore_check" => Restored
  /\ ctl.pc = "rolled_back" => ctl.verified
  /\ ctl.pc = "final" => evidence.status = ctl.status /\ ctl.status \in
       {"PASS", "ROLLED_BACK", "ROLLBACK_UNVERIFIED"}

\* What the report and its record claim.
Claims ==
  /\ ctl.verified => Restored /\ ctl.pc \in {"rolled_back", "unverified", "final"} \cup Ended
  /\ evidence.verified => ctl.verified
  /\ evidence.status = "ROLLED_BACK" => ctl.verified
  /\ evidence.status = "PASS" => Promoted /\ ctl.pc \in {"final"} \cup Ended
  /\ deployed = Candidate => evidence.status \in
       {"ACTIVATING", "VERIFYING", "PASS", "ROLLING_BACK", "ROLLBACK_UNVERIFIED"}

Progress == TypeOK /\ Before /\ During /\ Claims

-----------------------------------------------------------------------------
\* The names of the steps and of the statuses, listed.
LEMMA StepsAre ==
  Steps = {"preflight", "preflight_failed", "activating", "activate", "verifying",
           "wait_active", "wait_edge", "check", "pass", "rolling_back", "rollback",
           "restore_active", "restore_edge", "restore_check", "rolled_back",
           "unverified", "final", "returned", "raised", "killed"}
  BY DEF Steps, Stages, Stage, Ended

LEMMA StatusesAre ==
  Statuses = {"NONE", "PREFLIGHT", "PREFLIGHT_FAILED", "ACTIVATING", "VERIFYING", "PASS",
              "ROLLING_BACK", "ROLLED_BACK", "ROLLBACK_UNVERIFIED"}
  BY DEF Statuses, Stages, Stage

LEMMA Init_Progress == Init => Progress
  BY PromotionAssumption, StepsAre, StatusesAre
  DEF Init, Progress, TypeOK, Before, During, Claims, Versions, Ended, Working, Restored,
      Promoted

\* A step of the controller that only moves on keeps the type of its state.
LEMMA GoFacts ==
  ASSUME TypeOK, NEW from, NEW to \in Steps, Go(from, to)
  PROVE  /\ ctl.pc = from /\ ctl'.pc = to
         /\ ctl'.status = ctl.status /\ ctl'.verified = ctl.verified
         /\ ctl' \in [pc : Steps, status : Statuses, verified : BOOLEAN,
                      failed : BOOLEAN, restored : BOOLEAN, left : 1..MaxAttempts]
<1>1. MaxAttempts \in 1..MaxAttempts BY PromotionAssumption
<1> QED BY <1>1 DEF TypeOK, Go

LEMMA ThrowFacts ==
  ASSUME TypeOK, NEW from, NEW to \in Steps, Throw(from, to)
  PROVE  /\ ctl.pc = from /\ ctl'.pc = to
         /\ ctl'.status = ctl.status /\ ctl'.verified = ctl.verified
         /\ ctl' \in [pc : Steps, status : Statuses, verified : BOOLEAN,
                      failed : BOOLEAN, restored : BOOLEAN, left : 1..MaxAttempts]
  BY DEF TypeOK, Throw

LEMMA WriteFacts ==
  ASSUME TypeOK, NEW status \in Statuses, NEW then \in Steps, NEW else \in Steps,
         Write(status, then, else)
  PROVE  /\ ctl'.status = status /\ ctl'.verified = ctl.verified
         /\ ctl' \in [pc : Steps, status : Statuses, verified : BOOLEAN,
                      failed : BOOLEAN, restored : BOOLEAN, left : 1..MaxAttempts]
         /\ evidence' \in [status : Statuses, verified : BOOLEAN]
         /\ \/ /\ ctl'.pc = then
               /\ evidence'.status = status /\ evidence'.verified = ctl.verified
            \/ ctl'.pc = else /\ evidence' = evidence
<1>1. CASE /\ evidence' = [status |-> status, verified |-> ctl.verified]
           /\ ctl' = [ctl EXCEPT !.pc = then, !.status = status]
  BY <1>1 DEF TypeOK
<1>2. CASE /\ ctl' = [ctl EXCEPT !.pc = else, !.status = status,
                                 !.failed = @ \/ else = "rolling_back"]
           /\ UNCHANGED evidence
  BY <1>2 DEF TypeOK
<1> QED BY <1>1, <1>2 DEF Write

-----------------------------------------------------------------------------
LEMMA PreflightStep == Progress /\ Preflight => Progress'
<1> SUFFICES ASSUME Progress, Preflight PROVE Progress'
  OBVIOUS
<1>1. CASE deployed = Previous /\ Go("preflight", "activating")
  <2>1. "activating" \in Steps BY StepsAre
  <2> QED BY <1>1, <2>1, GoFacts, PromotionAssumption
          DEF Preflight, Progress, TypeOK, Before, During, Claims, Ended, Working,
              Restored, Promoted
<1>2. CASE /\ ctl.pc = "preflight"
           /\ ctl' = [ctl EXCEPT !.pc = "preflight_failed", !.status = "PREFLIGHT_FAILED"]
  BY <1>2, StepsAre, StatusesAre, PromotionAssumption
  DEF Preflight, Progress, TypeOK, Before, During, Claims, Ended, Working,
      Restored, Promoted
<1> QED BY <1>1, <1>2 DEF Preflight

LEMMA RecordStep == Progress /\ RecordStage => Progress'
<1> SUFFICES ASSUME Progress, RecordStage PROVE Progress'
  OBVIOUS
<1>1. PICK s \in Stages : ctl.pc = s.at /\ Write(s.status, s.then, s.else)
  BY DEF RecordStage
<1>2. s.status \in Statuses /\ s.then \in Steps /\ s.else \in Steps
  BY StepsAre, StatusesAre DEF Stages, Stage
<1>3. /\ ctl'.status = s.status /\ ctl'.verified = ctl.verified
      /\ TypeOK'
      /\ \/ /\ ctl'.pc = s.then
            /\ evidence'.status = s.status /\ evidence'.verified = ctl.verified
         \/ ctl'.pc = s.else /\ evidence' = evidence
  BY <1>1, <1>2, WriteFacts DEF Progress, TypeOK, RecordStage
<1>4. UNCHANGED <<deployed, edge, healthy, drill>>
  BY DEF RecordStage
<1> HIDE DEF RecordStage, Write
<1>5. CASE s = Stage("activating", "ACTIVATING", "activate", "raised")
  BY <1>1, <1>3, <1>4, <1>5, PromotionAssumption
  DEF Stage, Progress, Before, During, Claims, Ended, Working, Restored, Promoted
<1>6. CASE s = Stage("verifying", "VERIFYING", "wait_active", "rolling_back")
  BY <1>1, <1>3, <1>4, <1>6, PromotionAssumption
  DEF Stage, Progress, Before, During, Claims, Ended, Working, Restored, Promoted
<1>7. CASE s = Stage("pass", "PASS", "final", "rolling_back")
  BY <1>1, <1>3, <1>4, <1>7, PromotionAssumption
  DEF Stage, Progress, Before, During, Claims, Ended, Working, Restored, Promoted
<1>8. CASE s = Stage("rolling_back", "ROLLING_BACK", "rollback", "raised")
  BY <1>1, <1>3, <1>4, <1>8, PromotionAssumption
  DEF Stage, Progress, Before, During, Claims, Ended, Working, Restored, Promoted
<1>9. CASE s = Stage("rolled_back", "ROLLED_BACK", "final", "unverified")
  BY <1>1, <1>3, <1>4, <1>9, PromotionAssumption
  DEF Stage, Progress, Before, During, Claims, Ended, Working, Restored, Promoted
<1>10. CASE s = Stage("unverified", "ROLLBACK_UNVERIFIED", "final", "raised")
  BY <1>1, <1>3, <1>4, <1>10, PromotionAssumption
  DEF Stage, Progress, Before, During, Claims, Ended, Working, Restored, Promoted
<1> QED BY <1>5, <1>6, <1>7, <1>8, <1>9, <1>10 DEF Stages

LEMMA FinalStep == Progress /\ RecordFinal => Progress'
<1> SUFFICES ASSUME Progress, RecordFinal PROVE Progress'
  OBVIOUS
<1>1. ctl.status \in Statuses /\ "returned" \in Steps /\ "raised" \in Steps
  BY StepsAre DEF Progress, TypeOK
<1>2. /\ ctl'.status = ctl.status /\ ctl'.verified = ctl.verified
      /\ TypeOK' /\ ctl'.pc \in Ended
      /\ \/ evidence'.status = ctl.status /\ evidence'.verified = ctl.verified
         \/ evidence' = evidence
  BY <1>1, WriteFacts DEF RecordFinal, Progress, TypeOK, Ended
<1>3. /\ ctl.pc \in {"final", "preflight_failed"}
      /\ UNCHANGED <<deployed, edge, healthy, drill>>
  BY DEF RecordFinal
<1> QED BY <1>2, <1>3, PromotionAssumption
        DEF Progress, Before, During, Claims, Ended, Working, Restored, Promoted

LEMMA ActivateStep == Progress /\ Activate => Progress'
<1> SUFFICES ASSUME Progress, Activate PROVE Progress'
  OBVIOUS
<1>1. "verifying" \in Steps /\ "rolling_back" \in Steps
  BY StepsAre
<1>2. /\ ctl.pc = "activate"
      /\ \/ deployed' = Candidate /\ ctl'.pc = "verifying"
         \/ deployed' \in {deployed, Candidate} /\ ctl'.pc = "rolling_back"
      /\ ctl'.verified = ctl.verified /\ TypeOK'
  BY <1>1, GoFacts, ThrowFacts
  DEF Activate, VersionsDeploy, Progress, TypeOK, Versions
<1>3. UNCHANGED <<edge, healthy, drill, evidence>>
  BY DEF Activate, VersionsDeploy
<1> QED BY <1>2, <1>3, PromotionAssumption
        DEF Progress, Before, During, Claims, Ended, Working, Restored, Promoted

LEMMA RollbackStep == Progress /\ Rollback => Progress'
<1> SUFFICES ASSUME Progress, Rollback PROVE Progress'
  OBVIOUS
<1>0. MaxAttempts \in 1..MaxAttempts BY PromotionAssumption
<1>1. /\ ctl.pc = "rollback"
      /\ \/ deployed' = Previous /\ ctl'.pc = "restore_active"
         \/ deployed' \in {deployed, Previous} /\ ctl'.pc = "unverified"
      /\ ctl'.verified = ctl.verified /\ TypeOK'
  BY <1>0, StepsAre DEF Rollback, Progress, TypeOK, Versions
<1>2. UNCHANGED <<edge, healthy, drill, evidence>>
  BY DEF Rollback
<1> QED BY <1>1, <1>2, PromotionAssumption
        DEF Progress, Before, During, Claims, Ended, Working, Restored, Promoted

\* A wait ends where it should or in its handler, and changes nothing else.
LEMMA WaitFacts ==
  ASSUME TypeOK, NEW seen, NEW expected, NEW from, NEW then \in Steps,
         NEW handler \in Steps, WaitFor(seen, expected, from, then, handler)
  PROVE  /\ ctl.pc = from
         /\ \/ ctl'.pc \in {from, handler}
            \/ ctl'.pc = then /\ seen = expected
         /\ ctl'.status = ctl.status /\ ctl'.verified = ctl.verified /\ TypeOK'
         /\ UNCHANGED <<deployed, edge, healthy, drill, evidence>>
<1>1. UNCHANGED <<deployed, edge, healthy, drill, evidence>>
  BY DEF WaitFor
<1>2. CASE seen = expected /\ Go(from, then)
  BY <1>1, <1>2, GoFacts DEF TypeOK
<1>3. CASE /\ ctl.pc = from /\ ctl.left > 1 /\ seen # expected
           /\ ctl' = [ctl EXCEPT !.left = @ - 1]
  <2>1. ctl.left - 1 \in 1..MaxAttempts BY <1>3, PromotionAssumption DEF TypeOK
  <2>2. /\ ctl'.pc = from /\ ctl'.status = ctl.status /\ ctl'.verified = ctl.verified
        /\ ctl' \in [pc : Steps, status : Statuses, verified : BOOLEAN,
                      failed : BOOLEAN, restored : BOOLEAN, left : 1..MaxAttempts]
    BY <1>3, <2>1 DEF TypeOK
  <2>3. TypeOK' BY <1>1, <2>2 DEF TypeOK
  <2> QED BY <1>1, <1>3, <2>2, <2>3
<1>4. CASE Throw(from, handler)
  <2>1. /\ ctl.pc = from /\ ctl'.pc = handler
        /\ ctl'.status = ctl.status /\ ctl'.verified = ctl.verified
        /\ ctl' \in [pc : Steps, status : Statuses, verified : BOOLEAN,
                      failed : BOOLEAN, restored : BOOLEAN, left : 1..MaxAttempts]
    BY <1>4, ThrowFacts
  <2>2. TypeOK' BY <1>1, <2>1 DEF TypeOK
  <2> QED BY <1>1, <2>1, <2>2
<1> QED BY <1>2, <1>3, <1>4, <1>1 DEF WaitFor

LEMMA VerifyStep == Progress /\ Verify => Progress'
<1> SUFFICES ASSUME Progress, Verify PROVE Progress'
  OBVIOUS
<1>0. TypeOK /\ {"wait_edge", "check", "pass", "rolling_back"} \subseteq Steps
  BY StepsAre DEF Progress
<1>1. CASE WaitFor(deployed, Candidate, "wait_active", "wait_edge", "rolling_back")
  <2>1. /\ ctl.pc = "wait_active"
        /\ ctl'.pc \in {"wait_active", "wait_edge", "rolling_back"}
        /\ ctl'.verified = ctl.verified /\ TypeOK'
        /\ UNCHANGED <<deployed, edge, healthy, drill, evidence>>
    BY <1>0, <1>1, WaitFacts
  <2> QED BY <2>1, PromotionAssumption
          DEF Progress, Before, During, Claims, Ended, Working, Restored, Promoted
<1>2. CASE WaitFor(edge, Candidate, "wait_edge", "check", "rolling_back")
  <2>1. /\ ctl.pc = "wait_edge"
        /\ \/ ctl'.pc \in {"wait_edge", "rolling_back"}
           \/ ctl'.pc = "check" /\ edge = Candidate
        /\ ctl'.verified = ctl.verified /\ TypeOK'
        /\ UNCHANGED <<deployed, edge, healthy, drill, evidence>>
    BY <1>0, <1>2, WaitFacts
  <2> QED BY <2>1, PromotionAssumption
          DEF Progress, Before, During, Claims, Ended, Working, Restored, Promoted
<1>3. CASE /\ \/ edge = Candidate /\ healthy /\ ~drill /\ Go("check", "pass")
              \/ Throw("check", "rolling_back")
           /\ UNCHANGED <<deployed, edge, healthy, drill, evidence>>
  <2>1. /\ ctl.pc = "check"
        /\ \/ ctl'.pc = "rolling_back"
           \/ ctl'.pc = "pass" /\ healthy /\ ~drill
        /\ ctl'.verified = ctl.verified /\ TypeOK'
    <3>1. CASE edge = Candidate /\ healthy /\ ~drill /\ Go("check", "pass")
      BY <1>0, <1>3, <3>1, GoFacts DEF TypeOK
    <3>2. CASE Throw("check", "rolling_back")
      <4>1. /\ ctl.pc = "check" /\ ctl'.pc = "rolling_back"
            /\ ctl'.verified = ctl.verified
            /\ ctl' \in [pc : Steps, status : Statuses, verified : BOOLEAN,
                          failed : BOOLEAN, restored : BOOLEAN, left : 1..MaxAttempts]
        BY <1>0, <3>2, ThrowFacts
      <4>2. TypeOK' BY <1>0, <1>3, <4>1 DEF TypeOK
      <4> QED BY <4>1, <4>2
    <3> QED BY <1>3, <3>1, <3>2
  <2> QED BY <1>3, <2>1, PromotionAssumption
          DEF Progress, Before, During, Claims, Ended, Working, Restored, Promoted
<1> QED BY <1>1, <1>2, <1>3 DEF Verify

LEMMA VerifyPreviousStep == Progress /\ VerifyPrevious => Progress'
<1> SUFFICES ASSUME Progress, VerifyPrevious PROVE Progress'
  OBVIOUS
<1>0. TypeOK /\ {"restore_edge", "restore_check", "rolled_back", "unverified"} \subseteq Steps
  BY StepsAre DEF Progress
<1>1. CASE WaitFor(deployed, Previous, "restore_active", "restore_edge", "unverified")
  <2>1. /\ ctl.pc = "restore_active"
        /\ ctl'.pc \in {"restore_active", "restore_edge", "unverified"}
        /\ ctl'.verified = ctl.verified /\ TypeOK'
        /\ UNCHANGED <<deployed, edge, healthy, drill, evidence>>
    BY <1>0, <1>1, WaitFacts
  <2> QED BY <2>1, PromotionAssumption
          DEF Progress, Before, During, Claims, Ended, Working, Restored, Promoted
<1>2. CASE WaitFor(edge, Previous, "restore_edge", "restore_check", "unverified")
  <2>1. /\ ctl.pc = "restore_edge"
        /\ \/ ctl'.pc \in {"restore_edge", "unverified"}
           \/ ctl'.pc = "restore_check" /\ edge = Previous
        /\ ctl'.verified = ctl.verified /\ TypeOK'
        /\ UNCHANGED <<deployed, edge, healthy, drill, evidence>>
    BY <1>0, <1>2, WaitFacts
  <2> QED BY <2>1, PromotionAssumption
          DEF Progress, Before, During, Claims, Ended, Working, Restored, Promoted
<1>3. CASE /\ \/ /\ ctl.pc = "restore_check"
                 /\ ctl' = [ctl EXCEPT !.pc = "rolled_back", !.verified = TRUE]
              \/ Throw("restore_check", "unverified")
           /\ UNCHANGED <<deployed, edge, healthy, drill, evidence>>
  <2>1. /\ ctl.pc = "restore_check" /\ TypeOK'
        /\ \/ ctl'.pc = "rolled_back" /\ ctl'.verified
           \/ ctl'.pc = "unverified" /\ ctl'.verified = ctl.verified
    BY <1>0, <1>3, ThrowFacts DEF TypeOK
  <2> QED BY <1>3, <2>1, PromotionAssumption
          DEF Progress, Before, During, Claims, Ended, Working, Restored, Promoted
<1> QED BY <1>1, <1>2, <1>3 DEF VerifyPrevious

\* The environment: propagation, a kill, and nothing at all.
LEMMA EnvironmentStep == Progress /\ (Propagate \/ Kill \/ UNCHANGED vars) => Progress'
<1> SUFFICES ASSUME Progress, Propagate \/ Kill \/ UNCHANGED vars PROVE Progress'
  OBVIOUS
<1>1. CASE Propagate
  BY <1>1, PromotionAssumption
  DEF Propagate, Progress, TypeOK, Before, During, Claims, Ended, Working, Restored, Promoted
<1>2. CASE Kill
  <2>1. ctl'.pc = "killed" /\ ctl'.verified = ctl.verified /\ TypeOK'
    BY <1>2, PromotionAssumption, StepsAre DEF Kill, Progress, TypeOK, Versions
  <2> QED BY <1>2, <2>1, PromotionAssumption
          DEF Kill, Progress, Before, During, Claims, Ended, Working, Restored, Promoted
<1>3. CASE UNCHANGED vars
  BY <1>3 DEF vars, Progress, TypeOK, Before, During, Claims, Ended, Working, Restored, Promoted
<1> QED BY <1>1, <1>2, <1>3

THEOREM Invariance == Spec => []Progress
<1>1. Progress /\ [Next]_vars => Progress'
  BY PreflightStep, RecordStep, FinalStep, ActivateStep, RollbackStep, VerifyStep,
     VerifyPreviousStep, EnvironmentStep DEF Next, Controller, Timed, Untimed
<1> QED BY <1>1, Init_Progress, PTL DEF Spec

-----------------------------------------------------------------------------
\* Every variable keeps its type; a wait never has fewer than one poll left.
THEOREM TypeCorrect == Spec => []TypeOK
  BY Invariance, PTL DEF Progress

\* Evidence of success is true (run_controlled, record "PASS").
THEOREM PassIsProved == Spec => []PassIsTrue
<1>1. Progress => PassIsTrue BY DEF Progress, Claims, Promoted, PassIsTrue
<1> QED BY <1>1, Invariance, PTL

\* Evidence of a rollback is true (run_controlled, record "ROLLED_BACK").
THEOREM RestorationIsProved == Spec => []RestoredIsTrue
<1>1. Progress => RestoredIsTrue BY DEF Progress, Claims, Restored, RestoredIsTrue
<1> QED BY <1>1, Invariance, PTL

\* A candidate left active has evidence that says so.
THEOREM NoSilentCandidate == Spec => []StrayCandidateIsVisible
<1>1. Progress => StrayCandidateIsVisible BY DEF Progress, Claims, StrayCandidateIsVisible
<1> QED BY <1>1, Invariance, PTL

\* The evidence is written ahead of the traffic it announces.
THEOREM EvidenceLeads == Spec => TrafficFollowsEvidence
<1>1. Progress /\ [Next]_vars =>
        [deployed' # deployed =>
          \/ deployed = Previous /\ deployed' = Candidate /\ evidence.status = "ACTIVATING"
          \/ deployed = Candidate /\ deployed' = Previous /\ evidence.status = "ROLLING_BACK"]_vars
  BY DEF Progress, During, Next, Controller, Timed, Untimed, Preflight, RecordStage, RecordFinal,
         Activate, VersionsDeploy, Rollback, WaitFor, Verify, VerifyPrevious, Propagate, Kill, Go, Throw,
         vars
<1> QED BY <1>1, Invariance, PTL DEF Spec, TrafficFollowsEvidence

-----------------------------------------------------------------------------
(* The publication of a release: what a run at work, a written manifest and a pointer have behind
   them. *)

\* A run at work, and the stage it is in.
Going(r) == run[r].pc = "working"
InStage(r) == run[r].stage \in DOMAIN stages

\* An object is as it was published, or copied over by a run that was at work beside another.
Kept(i, o, e) == AsPublished(i, o, e) \/ CopiedOver(i, o)

\* The manifest of another release, which a later stage replaces.
Copied(k, o) == stages[k].how = "foreign" /\ o = "manifest"

\* What stage k of run r has left behind under a name.
Good(r, k, o) ==
  IF Copied(k, o) THEN Stored(r, o) # Absent ELSE Kept(run[r].input, o, run[r].env)

\* A run at work has left every stage behind it as it should be, and what it wrote or met
\* in its own; no manifest is there when it is about to copy that of another release, unless
\* a second run has been at work beside it.
RunOk(r) ==
  Going(r) =>
    /\ run[r].input \in Inputs /\ run[r].env \in Bodies \ {Absent}
    /\ \A k \in DOMAIN stages : k < run[r].stage => \A o \in stages[k].objects : Good(r, k, o)
    /\ InStage(r) =>
         /\ run[r].done \cup run[r].looked \subseteq StageOf(r).objects
         /\ ~run[r].refused => \A o \in run[r].done : Good(r, run[r].stage, o)
         /\ \A o \in run[r].looked \ run[r].done :
              Copied(run[r].stage, o) => Stored(r, o) = Absent \/ contested
RunsOk == \A r \in Runs : RunOk(r)

Alone == Copies /\ ~contested => \A q, r \in Runs : Going(q) /\ Going(r) => q = r

ManifestsOk ==
  ManifestLast => \A i \in Inputs : store[i]["manifest"] # Absent =>
    \A o \in program.release : store[i][o] # Absent

PointersOk ==
  Checked => \A n \in Pointers : pointer[n] # None =>
    /\ pointer[n].input \in Inputs /\ pointer[n].env # Absent
    /\ \A o \in program.release : Kept(pointer[n].input, o, pointer[n].env)

Published == PublicationTypeOK /\ RunsOk /\ Alone /\ ManifestsOk /\ PointersOk

-----------------------------------------------------------------------------
\* What the constants say of the program of a behaviour.
LEMMA StageFacts ==
  ASSUME PublicationTypeOK
  PROVE  /\ Len(stages) \in Nat /\ DOMAIN stages = 1..Len(stages)
         /\ \A k \in DOMAIN stages : stages[k].objects \subseteq Objects /\ stages[k].how \in Hows
         /\ program.release \subseteq Objects
         /\ program.pointers \in Seq(Pointers)
         /\ InOrder(program)
<1>1. program \in [release : SUBSET Objects, loose : SUBSET Objects,
                   stages : Seq([objects : SUBSET Objects, how : Hows]),
                   pointers : Seq(Pointers) \ {<<>>}]
  BY ProgramAssumption DEF PublicationTypeOK
<1>2. InOrder(program)
  BY OrderAssumption DEF PublicationTypeOK
<1>3. stages \in Seq([objects : SUBSET Objects, how : Hows])
  BY <1>1 DEF stages
<1>4. Len(stages) \in Nat /\ DOMAIN stages = 1..Len(stages)
  BY <1>3
<1>5. \A k \in DOMAIN stages : stages[k] \in [objects : SUBSET Objects, how : Hows]
  BY <1>3, <1>4, ElementOfSeq
<1> QED BY <1>1, <1>2, <1>4, <1>5

\* The three bodies that are no environment's are told apart from those.
LEMMA BodiesApart ==
  Absent # Fixed /\ Absent # Foreign /\ Fixed # Foreign /\ \A e \in Envs : e # Absent
  BY ProgramAssumption DEF Absent, Fixed, Foreign

LEMMA BytesArePresent ==
  ASSUME NEW o, NEW how, NEW e, e # Absent
  PROVE  Bytes(o, how, e) # Absent
  BY BodiesApart DEF Bytes

LEMMA BytesAreBodies ==
  ASSUME NEW o, NEW how, NEW e \in Bodies
  PROVE  Bytes(o, how, e) \in Bodies
  BY DEF Bytes, Bodies

\* What a stage writes is what it leaves behind.
LEMMA MineIsGood ==
  ASSUME PublicationTypeOK, NEW r \in Runs, InStage(r), NEW o \in StageOf(r).objects,
         ~Copied(run[r].stage, o)
  PROVE  Mine(r, o) = Bytes(o, "create", run[r].env)
<1>1. InOrder(program) BY StageFacts
<1>2. StageOf(r).how = "foreign" => o # "manifest" /\ ~Loose(o)
  BY <1>1 DEF InOrder, StageOf, InStage, stages, Copied, Loose
<1> QED BY <1>2 DEF Mine, Bytes

\* An object of a stage that writes over what it finds, or may do so, is the same in every run.
LEMMA OverwrittenIsFixed ==
  ASSUME PublicationTypeOK, NEW r \in Runs, InStage(r), NEW o \in StageOf(r).objects,
         StageOf(r).how \in {"immutable", "foreign", "replace"}, ~Copied(run[r].stage, o)
  PROVE  Mine(r, o) = Fixed /\ ~Loose(o)
<1>1. InOrder(program) BY StageFacts
<1>2. ~Loose(o)
  BY <1>1 DEF InOrder, StageOf, InStage, stages, Copied, Loose
<1> QED BY <1>2 DEF Mine, Bytes, Copied, StageOf

\* A step that does not concern a run leaves what is known of it.
LEMMA Untouched ==
  ASSUME NEW q \in Runs, RunOk(q), run'[q] = run[q], program' = program, store' = store,
         contested => contested'
  PROVE  RunOk(q)'
  BY DEF RunOk, Going, InStage, Good, Copied, Stored, StageOf, stages, Bytes, Loose,
     Kept, AsPublished, CopiedOver

\* A step that leaves the store and the pointers leaves what is known of them.
LEMMA StoreUntouched ==
  ASSUME ManifestsOk, PointersOk, program' = program, store' = store, pointer' = pointer,
         contested => contested'
  PROVE  ManifestsOk' /\ PointersOk'
  BY DEF ManifestsOk, PointersOk, ManifestLast, Checked, Written, stages, Bytes, Loose,
     Kept, AsPublished, CopiedOver

\* No run begins.
LEMMA StillAlone ==
  ASSUME Alone, program' = program, contested' = contested, \A q \in Runs : Going(q)' => Going(q)
  PROVE  Alone'
  BY DEF Alone, Copies, stages

LEMMA Init_Published == PublicationInit => Published
<1> SUFFICES ASSUME PublicationInit PROVE Published OBVIOUS
<1>1. PublicationTypeOK
  BY ProgramAssumption DEF PublicationInit, PublicationTypeOK, Bodies, None, Idle, RunState
<1>2. \A r \in Runs : run[r].pc = "idle"
  BY DEF PublicationInit, Idle
<1>3. ManifestsOk
  BY ProgramAssumption DEF PublicationInit, ManifestsOk
<1>4. PointersOk
  BY DEF PublicationInit, PointersOk
<1> QED BY <1>1, <1>2, <1>3, <1>4 DEF Published, RunsOk, RunOk, Alone, Going

-----------------------------------------------------------------------------
\* A run begins.
LEMMA Start_Published ==
  ASSUME Published, NEW r \in Runs, NEW i \in Inputs, NEW e \in Envs, Start(r, i, e)
  PROVE  Published'
<1> USE DEF Published
<1> DEFINE begun == [Idle EXCEPT !.pc = "working", !.input = i, !.env = e, !.stage = 1]
<1>0. /\ begun \in RunState
      /\ begun.pc = "working" /\ begun.input = i /\ begun.env = e /\ begun.stage = 1
      /\ begun.done = {} /\ begun.looked = {} /\ begun.refused = FALSE
  BY DEF Idle, RunState, Bodies
<1>1. /\ run' = [run EXCEPT ![r] = begun]
      /\ program' = program /\ store' = store /\ pointer' = pointer
      /\ ~Going(r) /\ contested' = (contested \/ (Copies /\ \E q \in Runs : Going(q)))
      /\ starts' = starts + 1 /\ crashes' = crashes
  <2> HIDE DEF Published
  <2>2. run' = [run EXCEPT ![r] = begun]
    BY Zenon DEF Start
  <2>3. ~Going(r) /\ contested' = (contested \/ (Copies /\ \E q \in Runs : Going(q)))
    BY Zenon DEF Start, Going
  <2>4. /\ program' = program /\ store' = store /\ pointer' = pointer
        /\ starts' = starts + 1 /\ crashes' = crashes
    BY DEF Start
  <2> QED BY <2>2, <2>3, <2>4
<1> HIDE DEF begun
<1>2. PublicationTypeOK'
  BY <1>0, <1>1 DEF PublicationTypeOK
<1>3. ASSUME NEW q \in Runs PROVE RunOk(q)'
  <2>1. CASE q # r
    BY <1>1, <2>1, Untouched DEF PublicationTypeOK, RunsOk
  <2>2. CASE q = r
    <3>1. run'[r] = begun
      BY <1>1 DEF PublicationTypeOK
    <3>2. e \in Bodies \ {Absent} BY BodiesApart DEF Bodies
    <3>3. \A k \in DOMAIN stages' : ~(k < 1)
      BY <1>1, StageFacts DEF stages
    <3> QED BY <1>0, <2>2, <3>1, <3>2, <3>3 DEF RunOk, StageOf
  <2> QED BY <2>1, <2>2
<1>4. Alone'
  <2>1. \A q \in Runs : Going(q)' => q = r \/ Going(q)
    BY <1>1 DEF Going, PublicationTypeOK
  <2>2. Copies' = Copies BY <1>1 DEF Copies, stages
  <2> QED BY <1>1, <2>1, <2>2 DEF Alone
<1>5. ManifestsOk' /\ PointersOk' BY <1>1, StoreUntouched
<1> QED BY <1>2, <1>3, <1>4, <1>5 DEF RunsOk

\* rclone finds nothing under the name.
LEMMA Look_Published ==
  ASSUME Published, NEW r \in Runs, NEW o \in Objects, Look(r, o)
  PROVE  Published'
<1> USE DEF Published
<1>1. /\ run' = [run EXCEPT ![r].looked = @ \cup {o}]
      /\ program' = program /\ store' = store /\ pointer' = pointer
      /\ Going(r) /\ Stored(r, o) = Absent /\ o \in StageOf(r).objects
      /\ contested' = contested /\ starts' = starts /\ crashes' = crashes
  BY DEF Look, Going, Left
<1>2. PublicationTypeOK'
  <2>1. run[r] \in RunState /\ [run[r] EXCEPT !.looked = @ \cup {o}] \in RunState
    BY DEF PublicationTypeOK, RunState
  <2> QED BY <1>1, <2>1 DEF PublicationTypeOK
<1>3. /\ run'[r] = [run[r] EXCEPT !.looked = @ \cup {o}]
      /\ run[r] \in RunState
      /\ \A q \in Runs : q # r => run'[q] = run[q]
  BY <1>1 DEF PublicationTypeOK
<1>4. RunOk(r)'
  <2>1. /\ run'[r].pc = run[r].pc /\ run'[r].input = run[r].input /\ run'[r].env = run[r].env
        /\ run'[r].stage = run[r].stage /\ run'[r].done = run[r].done
        /\ run'[r].refused = run[r].refused /\ run'[r].looked = run[r].looked \cup {o}
    BY <1>3 DEF RunState
  <2>2. RunOk(r) BY DEF RunsOk
  <2> QED BY <1>1, <2>1, <2>2
          DEF RunOk, Going, InStage, Good, Copied, Stored, StageOf, stages, Bytes, Loose,
             Kept, AsPublished, CopiedOver
<1>5. Alone'
  BY <1>1, <1>3, StillAlone DEF Going, RunState
<1>6. ManifestsOk' /\ PointersOk' BY <1>1, StoreUntouched
<1> QED BY <1>2, <1>3, <1>1, <1>4, <1>5, <1>6, Untouched DEF RunsOk

\* A step of run r that leaves its input and changes nothing for the others: what is left
\* is its own state.
LEMMA OnlyOf ==
  ASSUME PublicationTypeOK, RunsOk, NEW r \in Runs, NEW s,
         run' = [run EXCEPT ![r] = s], program' = program, store' = store,
         contested' = contested, RunOk(r)'
  PROVE  RunsOk'
<1>1. \A q \in Runs : q # r => run'[q] = run[q] BY DEF PublicationTypeOK
<1> QED BY <1>1, Untouched DEF RunsOk

\* An object is written.
LEMMA Put_Published ==
  ASSUME Published, NEW r \in Runs, NEW o \in Objects, Put(r, o)
  PROVE  Published'
<1> USE DEF Published
<1> DEFINE s == [run[r] EXCEPT !.done = @ \cup {o}]
           i == run[r].input
<1>1. /\ run' = [run EXCEPT ![r].done = @ \cup {o}]
      /\ store' = [store EXCEPT ![i][o] = Mine(r, o)]
      /\ program' = program /\ pointer' = pointer
      /\ Going(r) /\ InStage(r) /\ o \in StageOf(r).objects /\ o \notin run[r].done
      /\ contested' = contested /\ starts' = starts /\ crashes' = crashes
      /\ \/ Stored(r, o) = Absent
         \/ StageOf(r).how \in {"immutable", "foreign"} /\ o \in run[r].looked
         \/ StageOf(r).how = "replace"
  BY DEF Put, Going, InStage, Left
<1>2. /\ run[r] \in RunState /\ s \in RunState /\ run' = [run EXCEPT ![r] = s]
      /\ i \in Inputs /\ run[r].env \in Bodies \ {Absent}
  <2>1. run[r] \in RunState /\ s \in RunState BY DEF PublicationTypeOK, RunState
  <2> QED BY <1>1, <2>1 DEF RunsOk, RunOk
<1>3. Mine(r, o) \in Bodies \ {Absent}
  BY <1>2, BytesArePresent, BytesAreBodies DEF Mine
<1>4. \A j \in Inputs, x \in Objects :
        store'[j][x] = IF j = i /\ x = o THEN Mine(r, o) ELSE store[j][x]
  BY <1>1, <1>2 DEF PublicationTypeOK
<1>5. PublicationTypeOK'
  BY <1>1, <1>2, <1>3 DEF PublicationTypeOK
<1>6. Copied(run[r].stage, o) => Stored(r, o) = Absent \/ contested
  BY <1>1, <1>2 DEF Copied, StageOf, RunsOk, RunOk
<1>7. \A j \in Inputs, x \in Objects : store[j][x] # Absent => store'[j][x] # Absent
  BY <1>3, <1>4
<1>8. ASSUME NEW j \in Inputs, NEW x \in Objects, NEW e, e # Absent, Kept(j, x, e)
      PROVE  store[j][x] # Absent /\ Kept(j, x, e)'
  <2>0. store[j][x] # Absent
    BY <1>8, BytesArePresent, BodiesApart DEF Kept, AsPublished, CopiedOver
  <2>1. CASE ~(j = i /\ x = o)
    <3>1. store'[j][x] = store[j][x] BY <1>4, <2>1
    <3> QED BY <1>1, <1>8, <2>0, <3>1 DEF Kept, AsPublished, CopiedOver, Bytes, Loose
  <2>2. CASE j = i /\ x = o
    <3>1. Stored(r, o) # Absent BY <2>0, <2>2 DEF Stored
    <3>2. store'[j][x] = Mine(r, o) BY <1>4, <2>2
    <3>3. CASE Copied(run[r].stage, o)
      <4>1. contested BY <1>6, <3>1, <3>3
      <4>2. Mine(r, o) = Foreign /\ o = "manifest"
        BY <3>3 DEF Mine, Bytes, Copied, StageOf
      <4> QED BY <1>1, <2>0, <2>2, <3>2, <4>1, <4>2 DEF Kept, CopiedOver
    <3>4. CASE ~Copied(run[r].stage, o)
      <4>1. Mine(r, o) = Fixed /\ ~Loose(o)
        BY <1>1, <3>1, <3>4, OverwrittenIsFixed
      <4>2. Bytes(o, "create", e)' = Fixed BY <1>1, <4>1 DEF Bytes, Loose
      <4> QED BY <2>0, <2>2, <3>2, <4>1, <4>2 DEF Kept, AsPublished
    <3> QED BY <3>3, <3>4
  <2> QED BY <2>1, <2>2
<1>9. ASSUME NEW q \in Runs, Going(q), NEW k \in DOMAIN stages, NEW x \in stages[k].objects,
             Good(q, k, x)
      PROVE  \A j, e : j = run[q].input /\ e = run[q].env =>
               store'[j][x] # Absent /\ (~Copied(k, x) => Kept(j, x, e)')
  <2>1. run[q].input \in Inputs /\ run[q].env # Absent /\ x \in Objects
    BY <1>9, StageFacts DEF RunsOk, RunOk
  <2> QED BY <1>7, <1>8, <1>9, <2>1 DEF Good, Stored
<1>10. ASSUME NEW q \in Runs PROVE RunOk(q)'
  <2>1. CASE q # r
    <3>1. run'[q] = run[q] BY <1>1, <2>1 DEF PublicationTypeOK
    <3> SUFFICES ASSUME Going(q) PROVE RunOk(q)'
      BY <3>1 DEF RunOk, Going
    <3>2. ASSUME NEW k \in DOMAIN stages, NEW x \in stages[k].objects, Good(q, k, x)
          PROVE  Good(q, k, x)'
      BY <1>1, <1>9, <3>1, <3>2 DEF Good, Copied, Stored, stages, Bytes, Loose,
         Kept, AsPublished, CopiedOver
    <3>3. Copies => contested
      BY <1>1, <2>1 DEF Alone
    <3>4. InStage(q) => \A x \in StageOf(q).objects : Copied(run[q].stage, x) => contested'
      BY <1>1, <3>3 DEF Copies, Copied, StageOf, InStage
    <3>5. RunOk(q) BY DEF RunsOk
    <3> QED BY <1>1, <3>1, <3>2, <3>4, <3>5 DEF RunOk, Going, InStage, StageOf, stages, Copied
  <2>2. CASE q = r
    <3>1. /\ run'[r] = s /\ s.pc = run[r].pc /\ s.input = i /\ s.env = run[r].env
          /\ s.stage = run[r].stage /\ s.done = run[r].done \cup {o}
          /\ s.looked = run[r].looked /\ s.refused = run[r].refused
      BY <1>2 DEF PublicationTypeOK, RunState
    <3>2. ASSUME NEW k \in DOMAIN stages, NEW x \in stages[k].objects, Good(r, k, x)
          PROVE  Good(r, k, x)'
      BY <1>1, <1>9, <3>1, <3>2 DEF Good, Copied, Stored, stages, Bytes, Loose,
         Kept, AsPublished, CopiedOver
    <3>3. Good(r, run[r].stage, o)'
      <4>1. store'[i][o] = Mine(r, o) BY <1>2, <1>4
      <4> QED BY <1>1, <1>3, <3>1, <4>1, MineIsGood
              DEF Good, Copied, Stored, stages, Bytes, Loose, Kept, AsPublished, CopiedOver
    <3>4. ASSUME NEW x \in run[r].looked, x \notin run[r].done, x # o,
                 Copied(run[r].stage, x)
          PROVE  store'[i][x] = Absent \/ contested'
      <4>1. Stored(r, x) = Absent \/ contested BY <1>1, <3>4 DEF RunsOk, RunOk
      <4>2. x \in Objects BY <1>2, <3>4 DEF RunState
      <4> QED BY <1>1, <1>2, <1>4, <3>4, <4>1, <4>2 DEF Stored
    <3>5. RunOk(r) BY DEF RunsOk
    <3>6. /\ s.input \in Inputs /\ s.env \in Bodies \ {Absent} /\ Going(r)
      BY <1>1, <1>2, <3>1
    <3>7. \A k \in DOMAIN stages : k < s.stage => \A x \in stages[k].objects : Good(r, k, x)'
      BY <1>1, <3>1, <3>2, <3>5 DEF RunOk
    <3>8. /\ s.done \cup s.looked \subseteq StageOf(r).objects
          /\ ~s.refused => \A x \in s.done : Good(r, run[r].stage, x)'
      BY <1>1, <3>1, <3>2, <3>3, <3>5 DEF RunOk, InStage, StageOf
    <3>9. \A x \in s.looked \ s.done : Copied(run[r].stage, x) =>
            store'[i][x] = Absent \/ contested'
      BY <3>1, <3>4
    <3>10. /\ run'[r].input \in Inputs /\ run'[r].env \in Bodies \ {Absent}
           /\ \A k \in DOMAIN stages' :
                k < run'[r].stage => \A x \in stages'[k].objects : Good(r, k, x)'
      BY <1>1, <3>1, <3>6, <3>7 DEF stages
    <3>11. /\ run'[r].done \cup run'[r].looked \subseteq StageOf(r)'.objects
           /\ ~run'[r].refused => \A x \in run'[r].done : Good(r, run[r].stage, x)'
      BY <1>1, <3>1, <3>8 DEF StageOf, stages
    <3>12. \A x \in run'[r].looked \ run'[r].done :
             Copied(run[r].stage, x)' => Stored(r, x)' = Absent \/ contested'
      <4>1. ASSUME NEW x PROVE Copied(run[r].stage, x)' = Copied(run[r].stage, x)
        BY <1>1, <3>1 DEF Copied, stages
      <4>2. ASSUME NEW x PROVE Stored(r, x)' = store'[i][x]
        BY <3>1 DEF Stored
      <4> QED BY <3>1, <3>9, <4>1, <4>2
    <3> QED BY <2>2, <3>1, <3>10, <3>11, <3>12 DEF RunOk
  <2> QED BY <2>1, <2>2
<1>11. Alone'
  <2>1. \A q \in Runs : Going(q)' => Going(q)
    BY <1>1, <1>2 DEF Going, PublicationTypeOK, RunState
  <2> QED BY <1>1, <2>1, StillAlone
<1>12. ManifestsOk'
  <2> SUFFICES ASSUME ManifestLast, NEW j \in Inputs, store'[j]["manifest"] # Absent,
                      NEW x \in program.release
               PROVE  store'[j][x] # Absent
    BY <1>1 DEF ManifestsOk, ManifestLast, stages
  <2>1. x \in Objects /\ "manifest" \in Objects
    BY StageFacts, ProgramAssumption
  <2>2. CASE store[j]["manifest"] # Absent
    BY <1>7, <2>1, <2>2 DEF ManifestsOk
  <2>3. CASE store[j]["manifest"] = Absent
    <3>1. j = i /\ o = "manifest" BY <1>4, <2>1, <2>3
    <3>2. run[r].stage = Len(stages) /\ StageOf(r).objects = {"manifest"}
      BY <1>1, <3>1 DEF ManifestLast, InStage, StageOf
    <3>3. stages # <<>> BY <1>1 DEF InStage
    <3>4. PICK k \in DOMAIN stages : x \in stages[k].objects
      BY <3>3, StageFacts DEF InOrder, stages
    <3>5. CASE k = run[r].stage
      BY <1>2, <1>3, <1>4, <3>1, <3>2, <3>4, <3>5, ProgramAssumption DEF StageOf
    <3>6. CASE k # run[r].stage
      <4>1. k < run[r].stage BY <3>2, <3>6, StageFacts
      <4>2. Good(r, k, x) BY <1>1, <3>4, <4>1 DEF RunsOk, RunOk
      <4> QED BY <1>1, <1>9, <3>1, <3>4, <4>2
    <3> QED BY <3>5, <3>6
  <2> QED BY <2>2, <2>3
<1>13. PointersOk'
  <2> SUFFICES ASSUME Checked, NEW n \in Pointers, pointer[n] # None,
                      NEW x \in program.release
               PROVE  /\ pointer[n].input \in Inputs /\ pointer[n].env # Absent
                      /\ Kept(pointer[n].input, x, pointer[n].env)'
    BY <1>1 DEF PointersOk, Checked, Written, stages, Kept, AsPublished, CopiedOver, Bytes, Loose
  <2>1. x \in Objects BY StageFacts
  <2>2. PICK j, e : j = pointer[n].input /\ e = pointer[n].env OBVIOUS
  <2>3. j \in Inputs /\ e # Absent /\ Kept(j, x, e)
    BY <2>2 DEF PointersOk
  <2>4. Kept(j, x, e)' BY <1>8, <2>1, <2>3
  <2> QED BY <1>1, <2>2, <2>3, <2>4 DEF Kept, AsPublished, CopiedOver, Bytes, Loose
<1> QED BY <1>5, <1>10, <1>11, <1>12, <1>13 DEF RunsOk

\* An object is there already: it is compared, claimed in vain, or taken as it is.
LEMMA Meet_Published ==
  ASSUME Published, NEW r \in Runs, NEW o \in Objects, Meet(r, o)
  PROVE  Published'
<1> USE DEF Published
<1> DEFINE taken == StageOf(r).how = "adopt" /\ Loose(o)
           env == IF taken THEN Stored(r, o) ELSE run[r].env
           s == [run[r] EXCEPT !.done = @ \cup {o}, !.refused = @ \/ Conflicts(r, o),
                               !.env = IF StageOf(r).how = "adopt" /\ Loose(o)
                                       THEN Stored(r, o) ELSE @]
<1>1. /\ run' = [run EXCEPT ![r] = s]
      /\ program' = program /\ store' = store /\ pointer' = pointer
      /\ Going(r) /\ InStage(r) /\ o \in StageOf(r).objects
      /\ o \notin run[r].done /\ o \notin run[r].looked /\ Stored(r, o) # Absent
      /\ contested' = contested /\ starts' = starts /\ crashes' = crashes
  <2>1. run' = [run EXCEPT ![r] = s] BY Zenon DEF Meet
  <2>2. /\ program' = program /\ store' = store /\ pointer' = pointer
        /\ contested' = contested /\ starts' = starts /\ crashes' = crashes
    BY DEF Meet
  <2>3. /\ Going(r) /\ InStage(r) /\ o \in Left(r) /\ o \notin run[r].looked
        /\ Stored(r, o) # Absent
    BY DEF Meet, Going, InStage
  <2> QED BY <2>1, <2>2, <2>3 DEF Left
<1>2. /\ run[r] \in RunState /\ run[r].input \in Inputs /\ run[r].env \in Bodies \ {Absent}
      /\ Stored(r, o) \in Bodies \ {Absent}
  <2>1. run[r] \in RunState BY DEF PublicationTypeOK
  <2>2. run[r].input \in Inputs /\ run[r].env \in Bodies \ {Absent}
    BY <1>1 DEF RunsOk, RunOk
  <2> QED BY <1>1, <2>1, <2>2 DEF Stored, PublicationTypeOK
<1>3. /\ s \in RunState /\ env \in Bodies \ {Absent}
      /\ s.pc = run[r].pc /\ s.input = run[r].input /\ s.env = env
      /\ s.stage = run[r].stage /\ s.done = run[r].done \cup {o}
      /\ s.looked = run[r].looked
  BY <1>2 DEF RunState
<1>4. ~s.refused => ~run[r].refused /\ ~Conflicts(r, o)
  BY <1>2 DEF RunState
<1> HIDE DEF s
<1>5. PublicationTypeOK'
  BY <1>1, <1>3 DEF PublicationTypeOK
<1>6. run'[r] = s BY <1>1 DEF PublicationTypeOK
\* What is taken as it is comes first, alone in its stage.
<1>7. ASSUME taken
      PROVE  /\ StageOf(r).objects = {o}
             /\ \A k \in DOMAIN stages : k < run[r].stage =>
                  \A x \in stages[k].objects : ~Loose(x)
  <2>1. PICK x \in program.loose : StageOf(r).objects = {x}
    BY <1>1, <1>7, StageFacts DEF InOrder, StageOf, InStage, stages
  <2>2. \A k \in DOMAIN stages : k < run[r].stage =>
          stages[k].objects \cap program.loose = {}
    BY <1>1, <1>7, StageFacts DEF InOrder, StageOf, InStage, stages
  <2> QED BY <1>1, <2>1, <2>2 DEF Loose
<1>8. RunOk(r) BY DEF RunsOk
<1>9. ASSUME NEW k, NEW x, Good(r, k, x), ~taken \/ ~Loose(x)
      PROVE  Good(r, k, x)'
  BY <1>1, <1>3, <1>6, <1>9 DEF Good, Copied, Stored, stages, Bytes, Loose, Kept, AsPublished, CopiedOver
<1>10. \A k \in DOMAIN stages : k < run[r].stage => \A x \in stages[k].objects : Good(r, k, x)'
  BY <1>1, <1>7, <1>8, <1>9 DEF RunOk
<1>11. ASSUME ~s.refused PROVE \A x \in run[r].done : Good(r, run[r].stage, x)'
  <2>1. \A x \in run[r].done : Good(r, run[r].stage, x) /\ x \in StageOf(r).objects
    BY <1>1, <1>4, <1>8, <1>11 DEF RunOk
  <2>2. \A x \in run[r].done : ~taken
    BY <1>1, <1>7, <2>1
  <2> SUFFICES ASSUME NEW x \in run[r].done PROVE Good(r, run[r].stage, x)'
    OBVIOUS
  <2>3. Good(r, run[r].stage, x) /\ ~taken
    BY <2>1, <2>2
  <2>4. PICK k : k = run[r].stage OBVIOUS
  <2>5. Good(r, k, x)' BY <1>9, <2>3, <2>4
  <2> QED BY <1>3, <1>6, <2>4, <2>5
<1>12. ASSUME ~s.refused PROVE Good(r, run[r].stage, o)'
  <2>1. CASE taken
    <3>1. ~Copied(run[r].stage, o) BY <2>1 DEF Copied, StageOf
    <3>2. Loose(o) /\ s.env = Stored(r, o) BY <1>3, <2>1
    <3> QED BY <1>1, <1>3, <1>6, <3>1, <3>2 DEF Good, Copied, Stored, stages, Bytes, Loose,
       Kept, AsPublished, CopiedOver
  <2>2. CASE ~taken
    <3>1. StageOf(r).how # "adopt"
      <4>1. StageOf(r).how = "adopt" => Loose(o)
        BY <1>1, StageFacts DEF InOrder, StageOf, InStage, stages, Loose
      <4> QED BY <2>2, <4>1
    <3>2. Stored(r, o) = Mine(r, o)
      BY <1>4, <1>12, <3>1 DEF Conflicts
    <3>3. Good(r, run[r].stage, o)
      BY <1>1, <3>2, MineIsGood DEF Good, Kept, AsPublished, Stored
    <3>4. PICK k : k = run[r].stage OBVIOUS
    <3>5. Good(r, k, o)' BY <1>9, <2>2, <3>3, <3>4
    <3> QED BY <1>3, <1>6, <3>4, <3>5
  <2> QED BY <2>1, <2>2
<1>13. RunOk(r)'
  <2>1. /\ run'[r].input \in Inputs /\ run'[r].env \in Bodies \ {Absent}
        /\ \A k \in DOMAIN stages' :
             k < run'[r].stage => \A x \in stages'[k].objects : Good(r, k, x)'
    BY <1>1, <1>2, <1>3, <1>6, <1>10 DEF stages
  <2>2. StageOf(r)' = StageOf(r)
    BY <1>1, <1>3, <1>6 DEF StageOf, stages
  <2>3. /\ run'[r].done \cup run'[r].looked \subseteq StageOf(r)'.objects
        /\ ~run'[r].refused => \A x \in run'[r].done : Good(r, run[r].stage, x)'
    BY <1>1, <1>3, <1>6, <1>8, <1>11, <1>12, <2>2 DEF RunOk
  <2>4. \A x \in run'[r].looked \ run'[r].done :
          Copied(run[r].stage, x)' => Stored(r, x)' = Absent \/ contested'
    <3>1. ASSUME NEW x
          PROVE Copied(run[r].stage, x)' = Copied(run[r].stage, x) /\ Stored(r, x)' = Stored(r, x)
      BY <1>1, <1>3, <1>6 DEF Copied, Stored, stages
    <3> QED BY <1>1, <1>3, <1>6, <1>8, <3>1 DEF RunOk
  <2> QED BY <1>3, <1>6, <2>1, <2>3, <2>4 DEF RunOk
<1>14. RunsOk' BY <1>1, <1>13, OnlyOf
<1>15. Alone'
  <2>1. \A q \in Runs : Going(q)' => Going(q)
    BY <1>1 DEF Going, PublicationTypeOK
  <2> QED BY <1>1, <2>1, StillAlone
<1>16. ManifestsOk' /\ PointersOk' BY <1>1, StoreUntouched
<1> QED BY <1>5, <1>14, <1>15, <1>16

\* A run that stops, refused or crashed, leaves what is known of the others.
LEMMA Stop_Published ==
  ASSUME Published, NEW r \in Runs, Refuse(r) \/ Crash(r)
  PROVE  Published'
<1> USE DEF Published
<1>1. PICK pc \in {"refused", "crashed"} : run' = [run EXCEPT ![r].pc = pc]
  BY DEF Refuse, Crash
<1>2. /\ program' = program /\ store' = store /\ pointer' = pointer
      /\ contested' = contested /\ starts' = starts /\ crashes' \in Nat
  BY DEF Refuse, Crash, PublicationTypeOK
<1>3. /\ run' = [run EXCEPT ![r] = [run[r] EXCEPT !.pc = pc]]
      /\ [run[r] EXCEPT !.pc = pc] \in RunState /\ run'[r].pc = pc
  BY <1>1 DEF PublicationTypeOK, RunState
<1>4. PublicationTypeOK' BY <1>2, <1>3 DEF PublicationTypeOK
<1>5. RunOk(r)' BY <1>3 DEF RunOk, Going
<1>6. RunsOk' BY <1>2, <1>3, <1>5, OnlyOf
<1>7. Alone'
  <2>1. \A q \in Runs : Going(q)' => Going(q)
    BY <1>3 DEF Going, PublicationTypeOK
  <2> QED BY <1>2, <2>1, StillAlone
<1>8. ManifestsOk' /\ PointersOk' BY <1>2, StoreUntouched
<1> QED BY <1>4, <1>6, <1>7, <1>8

\* The stage is complete.
LEMMA Advance_Published ==
  ASSUME Published, NEW r \in Runs, Advance(r)
  PROVE  Published'
<1> USE DEF Published
<1> DEFINE s == [run[r] EXCEPT !.stage = @ + 1, !.done = {}, !.looked = {}]
<1>1. /\ run' = [run EXCEPT ![r] = s]
      /\ program' = program /\ store' = store /\ pointer' = pointer
      /\ Going(r) /\ InStage(r) /\ ~run[r].refused /\ StageOf(r).objects \subseteq run[r].done
      /\ contested' = contested /\ starts' = starts /\ crashes' = crashes
  <2>1. run' = [run EXCEPT ![r] = s] BY Zenon DEF Advance
  <2>2. /\ program' = program /\ store' = store /\ pointer' = pointer
        /\ contested' = contested /\ starts' = starts /\ crashes' = crashes
    BY DEF Advance
  <2>3. Going(r) /\ InStage(r) /\ ~run[r].refused /\ Left(r) = {}
    BY DEF Advance, Going, InStage
  <2> QED BY <2>1, <2>2, <2>3 DEF Left
<1>2. /\ s \in RunState /\ s.pc = run[r].pc /\ s.input = run[r].input /\ s.env = run[r].env
      /\ s.stage = run[r].stage + 1 /\ s.done = {} /\ s.looked = {}
      /\ run[r].stage \in Nat
  <2> DEFINE n == run[r].stage + 1
  <2>1. run[r] \in RunState BY DEF PublicationTypeOK
  <2>2. n \in Nat /\ run[r].stage \in Nat BY <2>1 DEF RunState
  <2>3. s = [run[r] EXCEPT !.stage = n, !.done = {}, !.looked = {}] OBVIOUS
  <2>4. n = run[r].stage + 1 OBVIOUS
  <2> HIDE DEF n, s
  <2> QED BY <2>1, <2>2, <2>3, <2>4 DEF RunState
<1> HIDE DEF s
<1>3. PublicationTypeOK' /\ run'[r] = s
  BY <1>1, <1>2 DEF PublicationTypeOK
<1>4. RunOk(r) BY DEF RunsOk
<1>5. ASSUME NEW k, NEW x, Good(r, k, x) PROVE Good(r, k, x)'
  BY <1>1, <1>2, <1>3, <1>5 DEF Good, Copied, Stored, stages, Bytes, Loose, Kept, AsPublished, CopiedOver
<1>6. ASSUME NEW k \in DOMAIN stages, k < s.stage, NEW x \in stages[k].objects
      PROVE  Good(r, k, x)
  <2>1. k < run[r].stage \/ k = run[r].stage
    BY <1>2, <1>6, StageFacts
  <2>2. CASE k < run[r].stage BY <1>1, <1>4, <1>6, <2>2 DEF RunOk
  <2>3. CASE k = run[r].stage BY <1>1, <1>4, <1>6, <2>3 DEF RunOk, StageOf
  <2> QED BY <2>1, <2>2, <2>3
<1>7. RunOk(r)'
  <2>1. /\ run'[r].input \in Inputs /\ run'[r].env \in Bodies \ {Absent}
        /\ \A k \in DOMAIN stages' :
             k < run'[r].stage => \A x \in stages'[k].objects : Good(r, k, x)'
    BY <1>1, <1>2, <1>3, <1>4, <1>5, <1>6 DEF stages, RunOk
  <2> QED BY <1>2, <1>3, <2>1 DEF RunOk
<1>8. RunsOk' BY <1>1, <1>7, OnlyOf
<1>9. Alone'
  <2>1. \A q \in Runs : Going(q)' => Going(q)
    BY <1>1, <1>2 DEF Going, PublicationTypeOK
  <2> QED BY <1>1, <2>1, StillAlone
<1>10. ManifestsOk' /\ PointersOk' BY <1>1, StoreUntouched
<1> QED BY <1>3, <1>8, <1>9, <1>10

\* Every stage is behind the run: what it names is whole.
LEMMA Behind ==
  ASSUME Published, NEW r \in Runs, Going(r), ~InStage(r), run[r].stage > Len(stages), Checked
  PROVE  \A o \in program.release : Kept(run[r].input, o, run[r].env)
<1> USE DEF Published
<1> SUFFICES ASSUME NEW o \in program.release
             PROVE  Kept(run[r].input, o, run[r].env)
  OBVIOUS
<1>1. \A k \in DOMAIN stages : \A x \in stages[k].objects : Good(r, k, x)
  BY StageFacts DEF RunsOk, RunOk, PublicationTypeOK, RunState
<1>2. PICK k \in DOMAIN stages : o \in stages[k].objects BY DEF Checked, Written
<1>3. \E j \in DOMAIN stages : o \in stages[j].objects /\ ~Copied(j, o)
  <2>1. CASE Copied(k, o)
    <3>1. \E j \in DOMAIN stages :
            stages[j].how = "replace" /\ "manifest" \in stages[j].objects
      BY <1>2, <2>1, StageFacts DEF InOrder, Copied, stages
    <3> QED BY <2>1, <3>1 DEF Copied
  <2> QED BY <1>2, <2>1
<1> QED BY <1>1, <1>3 DEF Good

\* A receipt, a configuration or CURRENT is written.
LEMMA Point_Published ==
  ASSUME Published, NEW r \in Runs, Point(r)
  PROVE  Published'
<1> USE DEF Published
<1> DEFINE k == run[r].stage - Len(stages)
           pc == IF k = Len(program.pointers) THEN "done" ELSE run[r].pc
           s == [run[r] EXCEPT !.stage = @ + 1,
                               !.pc = IF k = Len(program.pointers) THEN "done" ELSE @]
           name == [input |-> run[r].input, env |-> run[r].env]
<1>1. /\ run' = [run EXCEPT ![r] = s]
      /\ pointer' = [pointer EXCEPT ![program.pointers[k]] = name]
      /\ program' = program /\ store' = store
      /\ Going(r) /\ k \in DOMAIN program.pointers
      /\ contested' = contested /\ starts' = starts /\ crashes' = crashes
  <2>1. run' = [run EXCEPT ![r] = s] BY Zenon DEF Point
  <2>2. /\ program' = program /\ store' = store
        /\ contested' = contested /\ starts' = starts /\ crashes' = crashes
        /\ pointer' = [pointer EXCEPT ![program.pointers[k]] = name]
    BY DEF Point
  <2>3. Going(r) /\ k \in DOMAIN program.pointers
    BY DEF Point, Going
  <2> QED BY <2>1, <2>2, <2>3
<1>2. /\ s \in RunState /\ s.pc \in {run[r].pc, "done"} /\ s.input = run[r].input
      /\ s.env = run[r].env /\ s.stage = run[r].stage + 1 /\ run[r].stage \in Nat
      /\ run[r] \in RunState
  <2> DEFINE n == run[r].stage + 1
  <2>1. run[r] \in RunState BY DEF PublicationTypeOK
  <2>2. n \in Nat /\ run[r].stage \in Nat BY <2>1 DEF RunState
  <2>3. s = [run[r] EXCEPT !.stage = n, !.pc = pc] OBVIOUS
  <2>4. n = run[r].stage + 1 OBVIOUS
  <2>5. pc \in {run[r].pc, "done"} OBVIOUS
  <2> HIDE DEF n, s, pc
  <2> QED BY <2>1, <2>2, <2>3, <2>4, <2>5 DEF RunState
<1>3. program.pointers[k] \in Pointers /\ k \in Nat \ {0}
  BY <1>1, StageFacts, ElementOfSeq
<1>4. run[r].stage > Len(stages) /\ ~InStage(r)
  BY <1>2, <1>3, StageFacts DEF InStage
<1> HIDE DEF s, k
<1>5. run[r].input \in Inputs /\ run[r].env \in Bodies \ {Absent}
  BY <1>1 DEF RunsOk, RunOk
<1>6. PublicationTypeOK' /\ run'[r] = s
  BY <1>1, <1>2, <1>3, <1>5 DEF PublicationTypeOK
<1>7. RunOk(r)'
  <2>1. \A j \in DOMAIN stages : \A x \in stages[j].objects : Good(r, j, x)
    BY <1>1, <1>2, <1>4, StageFacts DEF RunsOk, RunOk
  <2>2. ASSUME NEW j, NEW x, Good(r, j, x) PROVE Good(r, j, x)'
    BY <1>1, <1>2, <1>6, <2>2 DEF Good, Copied, Stored, stages, Bytes, Loose,
       Kept, AsPublished, CopiedOver
  <2>3. ~InStage(r)'
    BY <1>1, <1>2, <1>4, <1>6, StageFacts DEF InStage, stages
  <2>4. /\ run'[r].input \in Inputs /\ run'[r].env \in Bodies \ {Absent}
        /\ \A j \in DOMAIN stages' : \A x \in stages'[j].objects : Good(r, j, x)'
    BY <1>1, <1>2, <1>5, <1>6, <2>1, <2>2 DEF stages
  <2> QED BY <2>3, <2>4 DEF RunOk
<1>8. RunsOk' BY <1>1, <1>7, OnlyOf
<1>9. Alone'
  <2>1. \A q \in Runs : Going(q)' => Going(q)
    BY <1>1, <1>2 DEF Going, PublicationTypeOK
  <2> QED BY <1>1, <2>1, StillAlone
<1>10. ManifestsOk'
  BY <1>1 DEF ManifestsOk, ManifestLast, stages
<1>11. PointersOk'
  <2> SUFFICES ASSUME Checked, NEW n \in Pointers, pointer'[n] # None
               PROVE  /\ pointer'[n].input \in Inputs /\ pointer'[n].env # Absent
                      /\ \A o \in program.release : Kept(pointer[n].input, o, pointer[n].env)'
    BY <1>1 DEF PointersOk, Checked, Written, stages, Kept, AsPublished, CopiedOver, Bytes, Loose
  <2>0. ASSUME NEW i, NEW o, NEW e, Kept(i, o, e) PROVE Kept(i, o, e)'
    BY <1>1, <2>0 DEF Kept, AsPublished, CopiedOver, Bytes, Loose
  <2>1. PICK i, e : i = pointer'[n].input /\ e = pointer'[n].env OBVIOUS
  <2>2. i \in Inputs /\ e # Absent /\ \A o \in program.release : Kept(i, o, e)
    <3>1. CASE n = program.pointers[k]
      <4>1. pointer'[n] = name BY <1>1, <3>1 DEF PublicationTypeOK
      <4> QED BY <1>1, <1>4, <1>5, <2>1, <4>1, Behind
    <3>2. CASE n # program.pointers[k]
      <4>1. pointer'[n] = pointer[n] BY <1>1, <3>2 DEF PublicationTypeOK
      <4> QED BY <2>1, <4>1 DEF PointersOk
    <3> QED BY <3>1, <3>2
  <2>3. \A o \in program.release : Kept(i, o, e)' BY <2>0, <2>2
  <2> QED BY <2>1, <2>2, <2>3 DEF Kept, AsPublished, CopiedOver, Bytes, Loose
<1> QED BY <1>6, <1>8, <1>9, <1>10, <1>11

LEMMA PublicationStutter ==
  ASSUME Published, UNCHANGED publicationVars
  PROVE  Published'
  BY Untouched, StoreUntouched, StillAlone
  DEF Published, publicationVars, PublicationTypeOK, RunsOk, Going

LEMMA Next_Published == Published /\ [PublicationNext]_publicationVars => Published'
<1> SUFFICES ASSUME Published, [PublicationNext]_publicationVars PROVE Published' OBVIOUS
<1>1. CASE UNCHANGED publicationVars BY <1>1, PublicationStutter
<1>2. CASE StartAny BY <1>2, Start_Published DEF StartAny, ApartEnvs
<1>3. ASSUME NEW r \in Runs, PublicationStep(r) \/ Crash(r) PROVE Published'
  BY <1>3, Look_Published, Put_Published, Meet_Published, Advance_Published, Stop_Published,
     Point_Published DEF PublicationStep
<1> QED BY <1>1, <1>2, <1>3 DEF PublicationNext

\* Every variable of a publication keeps its type, whatever the scripts, and however
\* many runs of them there are (the publishing scripts of src/scripts).
THEOREM PublicationTypeCorrect == PublicationSpec => []PublicationTypeOK
<1>1. Published => PublicationTypeOK BY DEF Published
<1> QED BY <1>1, Init_Published, Next_Published, PTL DEF PublicationSpec

\* A release that a receipt, a configuration or CURRENT names is whole, and one whose
\* manifest is there after a barrier has all its objects: for every script that keeps to
\* the order of OrderAssumption, every number of objects, runs, inputs and checkouts, every
\* crash, and runs beside one another.  Only the manifest of a script that copies one
\* (materialize_screen_release.py, which takes no lock) is left out, and only once two runs
\* of it have been at work at a time.
THEOREM ReleasesStayWhole == PublicationSpec => []ReleasesAreWhole
<1>1. Published => ReleasesAreWhole
  BY DEF Published, ManifestsOk, PointersOk, ReleasesAreWhole, ReceiptIsWhole, ManifestIsWhole,
      Kept
<1> QED BY <1>1, Init_Published, Next_Published, PTL DEF PublicationSpec

-----------------------------------------------------------------------------
(* The resumable readiness run: an issuer selected is recorded, buffered by the worker of its range,
   or still in its pool. *)

Rec == [cik : Members, status : RecordStatuses]
File == [lines : Seq(Rec \cup {Joined}), torn : BOOLEAN]
WorkerState == [pc : {"closed", "working", "raised"}, left : SUBSET Members, buffer : Seq(Rec)]
MainState == [pc : {"idle", "unreadable", "pool", "collected"}, selected : SUBSET Members]
OutputState == [files : Nat, generation : Nat, records : SUBSET Nat]
ReadinessTypeOK ==
  /\ work \in [Ranges -> File]
  /\ worker \in [Ranges -> WorkerState]
  /\ main \in MainState
  /\ output \in OutputState
  /\ launches \in Nat /\ kills \in Nat

\* The issuers whose record a worker holds and its file does not.
Items(s) == {s[k] : k \in DOMAIN s}
Buffered(w) == {line.cik : line \in Items(worker[w].buffer)}

\* No selected issuer is lost on its way through the pool, unless a line that two records
\* share is in the files already.
PoolCovers ==
  main.pc = "pool" /\ Readable(work) =>
    \A c \in main.selected : c \in Recorded(work)
                          \/ \E w \in Ranges : c \in worker[w].left \cup Buffered(w)
ClosedAreDone ==
  \A w \in Ranges : /\ worker[w].pc # "working" => worker[w].buffer = <<>>
                    /\ worker[w].pc = "closed" => worker[w].left = {}
CollectedHolds == main.pc = "collected" => main.selected \subseteq Recorded(work)
OutputHolds ==
  /\ output.generation <= output.files
  /\ output.generation = output.files => output.records \subseteq Recorded(work)

ReadinessInv ==
  ReadinessTypeOK /\ PoolCovers /\ ClosedAreDone /\ CollectedHolds /\ OutputHolds
-----------------------------------------------------------------------------
\* A set of issuers has a first one: numbers are well founded.
LEMMA SubsetHasLeast ==
  ASSUME NEW S, S \in SUBSET Nat, S # {}
  PROVE  \E c \in S : \A d \in S : c <= d
<1> DEFINE R == OpToRel(<, Nat)
<1>1. IsWellFoundedOn(R, Nat)
  BY NatLessThanWellFounded
<1>2. \A x, y \in Nat : x < y => <<x, y>> \in R
  BY DEF OpToRel
<1> HIDE DEF R
<1>3. PICK x \in S : \A y \in S : ~ (<<y, x>> \in R)
  BY <1>1, WFMin, Zenon
<1>4. ASSUME NEW y \in S PROVE x <= y
  <2>1. x \in Nat /\ y \in Nat
    OBVIOUS
  <2>2. ~ (y < x)
    BY <1>2, <1>3, <2>1, Zenon
  <2> QED
    BY <2>1, <2>2
<1> QED BY <1>4

\* The next member of a range is one of its members.
LEMMA FirstIsLeft ==
  ASSUME ReadinessTypeOK, NEW w \in Ranges, worker[w].left # {}
  PROVE  First(w) \in worker[w].left
<1>1. worker[w].left \in SUBSET Nat
  BY ReadinessRunAssumption DEF ReadinessTypeOK, File, WorkerState, MainState, OutputState
<1>2. \E c \in worker[w].left : \A d \in worker[w].left : c <= d
  BY <1>1, SubsetHasLeast, Zenon
<1> QED BY <1>2, Zenon DEF First

\* Lines that follow others.
LEMMA ItemsOfBoth ==
  ASSUME NEW S, NEW s \in Seq(S), NEW t \in Seq(S)
  PROVE  s \o t \in Seq(S) /\ Items(s \o t) = Items(s) \cup Items(t)
<1>0. /\ DOMAIN s = 1..Len(s) /\ DOMAIN t = 1..Len(t) /\ Len(s) \in Nat /\ Len(t) \in Nat
      /\ s \o t \in Seq(S) /\ Len(s \o t) = Len(s) + Len(t)
      /\ DOMAIN (s \o t) = 1..(Len(s) + Len(t))
  OBVIOUS
<1>1. \A k \in 1..Len(s) : (s \o t)[k] = s[k] /\ k \in 1..(Len(s) + Len(t))
  BY <1>0
<1>2. \A k \in 1..Len(t) : (s \o t)[Len(s) + k] = t[k] /\ Len(s) + k \in 1..(Len(s) + Len(t))
  BY <1>0
<1>3. ASSUME NEW k \in 1..(Len(s) + Len(t)), k \notin 1..Len(s)
      PROVE  (s \o t)[k] = t[k - Len(s)] /\ k - Len(s) \in 1..Len(t)
  BY <1>0, <1>3
<1>4. Items(s \o t) \subseteq Items(s) \cup Items(t)
  BY <1>0, <1>1, <1>3 DEF Items
<1>5. Items(s) \subseteq Items(s \o t)
  BY <1>0, <1>1 DEF Items
<1>6. Items(t) \subseteq Items(s \o t)
  BY <1>0, <1>2 DEF Items
<1> QED BY <1>0, <1>4, <1>5, <1>6

\* A file keeps its lines, and a line that is two records is all that can take the
\* place of a record in it.
LEMMA AppendedFacts ==
  ASSUME NEW S, Joined \in S, NEW file \in [lines : Seq(S), torn : BOOLEAN], NEW records \in Seq(S)
  PROVE  /\ Appended(file, records) \in [lines : Seq(S), torn : BOOLEAN]
         /\ LinesOf(file) \subseteq LinesOf(Appended(file, records))
         /\ \/ Joined \in LinesOf(Appended(file, records))
            \/ Items(records) \subseteq LinesOf(Appended(file, records))
<1>0. file.lines \in Seq(S) /\ file.torn \in BOOLEAN /\ \A f : LinesOf(f) = Items(f.lines)
  BY DEF LinesOf, Items
<1>1. CASE records = <<>>
  BY <1>0, <1>1 DEF Appended, Items
<1>2. CASE records # <<>> /\ file.torn
  <2> DEFINE more == <<Joined>> \o Tail(records)
  <2>2. more \in Seq(S) /\ 1 \in DOMAIN more /\ more[1] = Joined
    BY <1>2
  <2>3. Appended(file, records) = [lines |-> file.lines \o more, torn |-> FALSE]
    BY <1>2 DEF Appended
  <2> HIDE DEF more
  <2>4. Joined \in Items(more)
    BY <2>2 DEF Items
  <2>5. file.lines \o more \in Seq(S) /\ Items(file.lines \o more) = Items(file.lines) \cup Items(more)
    BY <1>0, <2>2, ItemsOfBoth
  <2>6. LinesOf(Appended(file, records)) = Items(file.lines \o more)
    BY <2>3 DEF LinesOf, Items
  <2>7. Appended(file, records) \in [lines : Seq(S), torn : BOOLEAN]
    BY <2>3, <2>5
  <2> QED BY <1>0, <2>4, <2>5, <2>6, <2>7, Zenon
<1>3. CASE records # <<>> /\ ~file.torn
  <2>3. Appended(file, records) = [lines |-> file.lines \o records, torn |-> FALSE]
    BY <1>3 DEF Appended
  <2>5. /\ file.lines \o records \in Seq(S)
        /\ Items(file.lines \o records) = Items(file.lines) \cup Items(records)
    BY <1>0, ItemsOfBoth
  <2>6. LinesOf(Appended(file, records)) = Items(file.lines \o records)
    BY <2>3 DEF LinesOf, Items
  <2>7. Appended(file, records) \in [lines : Seq(S), torn : BOOLEAN]
    BY <2>3, <2>5
  <2> QED BY <1>0, <2>5, <2>6, <2>7, Zenon
<1> QED BY <1>0, <1>1, <1>2, <1>3

\* What files hold when one of them is longer or all of them are.
LEMMA RecordedGrows ==
  ASSUME NEW f, NEW g, \A w \in Ranges : LinesOf(f[w]) \subseteq LinesOf(g[w])
  PROVE  /\ Recorded(f) \subseteq Recorded(g)
         /\ Readable(g) => Readable(f)
<1>1. Readable(g) => Readable(f)
  BY DEF Readable
<1>2. Recorded(f) \subseteq Recorded(g)
  BY Zenon DEF Recorded
<1> QED BY <1>1, <1>2

LEMMA RecordedIn ==
  ASSUME NEW f, NEW w \in Ranges, NEW line \in LinesOf(f[w])
  PROVE  line.cik \in Recorded(f)
BY Zenon DEF Recorded

LEMMA RecordedIsNat == ReadinessTypeOK => Recorded(work) \subseteq Nat
<1> SUFFICES ASSUME ReadinessTypeOK, NEW c \in Recorded(work) PROVE c \in Nat OBVIOUS
<1>1. PICK w \in Ranges : \E line \in LinesOf(work[w]) : c = line.cik
  BY Zenon DEF Recorded
<1>2. PICK k \in DOMAIN work[w].lines : c = work[w].lines[k].cik
  BY <1>1 DEF LinesOf
<1>3. work[w].lines \in Seq(Rec \cup {Joined})
  BY DEF ReadinessTypeOK, File, WorkerState, MainState, OutputState
<1>4. work[w].lines[k] \in Rec \cup {Joined}
  BY <1>2, <1>3, ElementOfSeq
<1>5. \A m \in Members : m \in Nat
  BY ReadinessRunAssumption
<1>6. CASE work[w].lines[k] \in Rec
  BY <1>2, <1>5, <1>6 DEF Rec
<1>7. CASE work[w].lines[k] = Joined
  BY <1>2, <1>7 DEF Joined
<1> QED BY <1>4, <1>6, <1>7

LEMMA Init_ReadinessInv == ReadinessRunInit => ReadinessInv
<1> SUFFICES ASSUME ReadinessRunInit PROVE ReadinessInv OBVIOUS
<1>1. ReadinessTypeOK
  BY DEF ReadinessRunInit, ReadinessTypeOK, File, WorkerState, MainState, OutputState, EmptyFile, NoWork
<1>2. PoolCovers /\ CollectedHolds
  BY DEF ReadinessRunInit, PoolCovers, CollectedHolds
<1>3. ClosedAreDone
  BY DEF ReadinessRunInit, ClosedAreDone, NoWork
<1>4. OutputHolds
  BY DEF ReadinessRunInit, OutputHolds
<1> QED BY <1>1, <1>2, <1>3, <1>4 DEF ReadinessInv

\* A file that is longer holds no less, and what was written stays covered.
LEMMA OutputStays ==
  ASSUME OutputHolds, output' = output, \A w \in Ranges : LinesOf(work[w]) \subseteq LinesOf(work'[w])
  PROVE  OutputHolds'
<1>1. Recorded(work) \subseteq Recorded(work')
  BY RecordedGrows
<1> QED BY <1>1 DEF OutputHolds

\* One worker moves: what it had is in its file now, or it has it still.
LEMMA OneMoves ==
  ASSUME PoolCovers, NEW w \in Ranges, main' = main,
         \A v \in Ranges : v # w => worker'[v] = worker[v],
         \A v \in Ranges : LinesOf(work[v]) \subseteq LinesOf(work'[v]),
         Joined \in LinesOf(work'[w])
           \/ \A c \in worker[w].left \cup Buffered(w) :
                c \in Recorded(work') \/ c \in worker'[w].left \cup Buffered(w)'
  PROVE  PoolCovers'
<1> SUFFICES ASSUME main.pc = "pool", Readable(work'), NEW c \in main.selected
             PROVE  c \in Recorded(work')
                      \/ \E v \in Ranges : c \in worker'[v].left \cup Buffered(v)'
  BY DEF PoolCovers
<1>1. Recorded(work) \subseteq Recorded(work') /\ Readable(work)
  BY RecordedGrows
<1>2. Joined \notin LinesOf(work'[w])
  BY DEF Readable
<1>3. CASE c \in Recorded(work)
  BY <1>1, <1>3
<1>4. ASSUME NEW v \in Ranges, c \in worker[v].left \cup Buffered(v), v # w
      PROVE  c \in worker'[v].left \cup Buffered(v)'
  BY <1>4 DEF Buffered
<1>5. CASE c \in worker[w].left \cup Buffered(w)
  BY <1>2, <1>5
<1> QED BY <1>1, <1>3, <1>4, <1>5 DEF PoolCovers

LEMMA Launch_ReadinessInv ==
  ASSUME ReadinessInv, NEW total \in Members, NEW fresh \in BOOLEAN, Launch(total, fresh)
  PROVE  ReadinessInv'
<1> USE DEF ReadinessInv
<1> DEFINE files == IF fresh THEN [w \in Ranges |-> EmptyFile] ELSE work
           selected == {c \in Members : c <= total}
<1>0. /\ work' = files
      /\ output' = [output EXCEPT !.files = IF fresh THEN @ + 1 ELSE @]
      /\ launches' = launches + 1 /\ kills' = kills
  BY DEF Launch
<1>1. files \in [Ranges -> File]
  BY DEF ReadinessTypeOK, File, WorkerState, MainState, OutputState, EmptyFile
<1>2. selected \subseteq Members
  OBVIOUS
<1>3. OutputHolds' /\ output' \in OutputState
  <2>1. CASE fresh
    <3>1. output' = [output EXCEPT !.files = output.files + 1]
      BY <1>0, <2>1
    <3> QED BY <3>1 DEF OutputHolds, ReadinessTypeOK, File, WorkerState, MainState, OutputState
  <2>2. CASE ~fresh
    <3>1. output' = output /\ work' = work
      BY <1>0, <2>2 DEF ReadinessTypeOK, File, WorkerState, MainState, OutputState
    <3> QED BY <3>1 DEF OutputHolds, ReadinessTypeOK, File, WorkerState, MainState, OutputState, Recorded
  <2> QED BY <2>1, <2>2
<1> HIDE DEF files, selected
<1>4. CASE ~Readable(files)
  <2>1. main' = [pc |-> "unreadable", selected |-> selected] /\ worker' = worker
    BY <1>4 DEF Launch, files, selected
  <2>2. ReadinessTypeOK'
    <3>1. main' \in MainState
      BY <1>2, <2>1 DEF MainState
    <3>2. launches + 1 \in Nat
      BY DEF ReadinessTypeOK
    <3> QED BY <1>0, <1>1, <1>3, <2>1, <3>1, <3>2 DEF ReadinessTypeOK
  <2>3. PoolCovers' /\ CollectedHolds' /\ ClosedAreDone'
    BY <2>1 DEF PoolCovers, CollectedHolds, ClosedAreDone
  <2> QED BY <1>3, <2>2, <2>3
<1>5. CASE Readable(files)
  <2>0. PICK plan \in RangePlans(selected \ Recorded(files)) :
          /\ worker' = [w \in Ranges |->
               [NoWork EXCEPT !.left = {c \in DOMAIN plan : plan[c] = w},
                              !.pc = IF \E c \in DOMAIN plan : plan[c] = w
                                     THEN "working" ELSE "closed"]]
          /\ main' = [pc |-> "pool", selected |-> selected]
    BY <1>5, Zenon DEF Launch, files, selected
  <2>1. plan \in [selected \ Recorded(files) -> Ranges] /\ DOMAIN plan = selected \ Recorded(files)
    BY DEF RangePlans
  <2> DEFINE Share(w) == {c \in DOMAIN plan : plan[c] = w}
             begun(w) == IF \E c \in DOMAIN plan : plan[c] = w THEN "working" ELSE "closed"
  <2>2. ASSUME NEW w \in Ranges
        PROVE  /\ worker'[w] \in WorkerState /\ worker'[w].buffer = <<>>
               /\ worker'[w].pc = "closed" => worker'[w].left = {}
               /\ \A c \in DOMAIN plan : plan[c] = w => c \in worker'[w].left
    <3>1. worker'[w] = [NoWork EXCEPT !.left = Share(w), !.pc = begun(w)]
      BY <2>0, <2>2
    <3>2. /\ begun(w) \in {"working", "closed"}
          /\ begun(w) = "closed" => Share(w) = {}
      OBVIOUS
    <3>3. Share(w) \subseteq Members
      BY <1>2, <2>1
    <3> HIDE DEF Share, begun
    <3>4. worker'[w] = [pc |-> begun(w), left |-> Share(w), buffer |-> <<>>]
      BY <3>1 DEF NoWork
    <3>5. <<>> \in Seq(Rec)
      OBVIOUS
    <3>6. worker'[w] \in WorkerState
      BY <3>2, <3>3, <3>4, <3>5 DEF WorkerState
    <3>7. /\ worker'[w].buffer = <<>> /\ worker'[w].pc = begun(w) /\ worker'[w].left = Share(w)
      BY <3>4
    <3>8. \A c \in DOMAIN plan : plan[c] = w => c \in Share(w)
      BY DEF Share
    <3> QED BY <3>2, <3>6, <3>7, <3>8
  <2> HIDE DEF Share, begun
  <2>4. ReadinessTypeOK'
    <3>1. worker' = [w \in Ranges |-> worker'[w]]
      BY <2>0
    <3>2. worker' \in [Ranges -> WorkerState]
      BY <2>2, <3>1
    <3>3. main' \in MainState
      BY <1>2, <2>0 DEF MainState
    <3>4. launches + 1 \in Nat
      BY DEF ReadinessTypeOK
    <3> QED BY <1>0, <1>1, <1>3, <3>2, <3>3, <3>4 DEF ReadinessTypeOK
  <2>5. ClosedAreDone'
    BY <2>2 DEF ClosedAreDone
  <2>6. PoolCovers'
    <3>1. \A c \in selected : c \in Recorded(files) \/ \E w \in Ranges : c \in worker'[w].left
      BY <2>1, <2>2
    <3> QED BY <1>0, <2>0, <3>1 DEF PoolCovers
  <2> QED BY <1>3, <2>0, <2>4, <2>5, <2>6 DEF CollectedHolds
<1> QED BY <1>4, <1>5

LEMMA Classify_ReadinessInv ==
  ASSUME ReadinessInv, NEW w \in Ranges, NEW status \in RecordStatuses, Classify(w, status)
  PROVE  ReadinessInv'
<1> USE DEF ReadinessInv
<1> DEFINE mine == [cik |-> First(w), status |-> status]
           buffer == Append(worker[w].buffer, mine)
           full == Len(buffer) = FlushEvery
<1>0. /\ main.pc = "pool" /\ worker[w].pc = "working" /\ worker[w].left # {}
      /\ work' = [work EXCEPT ![w] = IF full THEN Appended(@, buffer) ELSE @]
      /\ worker' = [worker EXCEPT ![w].left = @ \ {First(w)},
                                  ![w].buffer = IF full THEN <<>> ELSE buffer]
      /\ main' = main /\ output' = output /\ launches' = launches /\ kills' = kills
  BY DEF Classify
<1>1. First(w) \in worker[w].left
  BY <1>0, FirstIsLeft
<1>2. /\ worker[w].left \subseteq Members /\ worker[w].buffer \in Seq(Rec)
      /\ work[w] \in File
  BY DEF ReadinessTypeOK, File, WorkerState, MainState, OutputState
<1>3. mine \in Rec
  BY <1>1, <1>2 DEF Rec
<1>4. buffer \in Seq(Rec) /\ Items(buffer) = Items(worker[w].buffer) \cup {mine}
  <2>1. buffer \in Seq(Rec) /\ Len(buffer) = Len(worker[w].buffer) + 1
    BY <1>2, <1>3
  <2>2. /\ DOMAIN worker[w].buffer = 1..Len(worker[w].buffer) /\ Len(worker[w].buffer) \in Nat
        /\ DOMAIN buffer = 1..(Len(worker[w].buffer) + 1)
    BY <1>2, <2>1
  <2>3. /\ \A k \in 1..Len(worker[w].buffer) : buffer[k] = worker[w].buffer[k]
        /\ buffer[Len(worker[w].buffer) + 1] = mine
    BY <1>2, <1>3
  <2>4. Items(buffer) \subseteq Items(worker[w].buffer) \cup {mine}
    <3> SUFFICES ASSUME NEW k \in DOMAIN buffer
                 PROVE  buffer[k] \in Items(worker[w].buffer) \cup {mine}
      BY DEF Items
    <3>1. CASE k = Len(worker[w].buffer) + 1
      BY <2>3, <3>1
    <3>2. CASE k \in DOMAIN worker[w].buffer
      BY <2>2, <2>3, <3>2 DEF Items
    <3> QED BY <2>2, <3>1, <3>2
  <2>5. Items(worker[w].buffer) \subseteq Items(buffer)
    <3> SUFFICES ASSUME NEW k \in DOMAIN worker[w].buffer
                 PROVE  worker[w].buffer[k] \in Items(buffer)
      BY DEF Items
    <3>1. k \in DOMAIN buffer /\ buffer[k] = worker[w].buffer[k]
      BY <2>2, <2>3
    <3> QED BY <3>1 DEF Items
  <2>6. mine \in Items(buffer)
    <3>1. Len(worker[w].buffer) + 1 \in DOMAIN buffer
      BY <2>2
    <3> QED BY <2>3, <3>1 DEF Items
  <2> QED BY <2>1, <2>4, <2>5, <2>6
<1> HIDE DEF mine, buffer, full
<1>5. buffer \in Seq(Rec \cup {Joined})
  BY <1>4
<1>6. /\ Appended(work[w], buffer) \in File
      /\ LinesOf(work[w]) \subseteq LinesOf(Appended(work[w], buffer))
      /\ \/ Joined \in LinesOf(Appended(work[w], buffer))
         \/ Items(buffer) \subseteq LinesOf(Appended(work[w], buffer))
  BY <1>2, <1>5, AppendedFacts DEF File
<1>7. /\ work' \in [Ranges -> File]
      /\ work'[w] = IF full THEN Appended(work[w], buffer) ELSE work[w]
      /\ \A v \in Ranges : v # w => work'[v] = work[v]
  BY <1>0, <1>6 DEF ReadinessTypeOK, File, WorkerState, MainState, OutputState
<1>8. /\ worker'[w] = [pc |-> "working", left |-> worker[w].left \ {First(w)},
                       buffer |-> IF full THEN <<>> ELSE buffer]
      /\ \A v \in Ranges : v # w => worker'[v] = worker[v]
  BY <1>0 DEF ReadinessTypeOK, File, WorkerState, MainState, OutputState
<1>9. ReadinessTypeOK'
  <2>1. (IF full THEN <<>> ELSE buffer) \in Seq(Rec)
    BY <1>4
  <2>2. worker'[w] \in WorkerState
    BY <1>2, <1>8, <2>1 DEF WorkerState
  <2>3. worker' \in [Ranges -> WorkerState]
    BY <1>0, <1>8, <2>2 DEF ReadinessTypeOK
  <2> QED BY <1>0, <1>7, <2>3 DEF ReadinessTypeOK
<1>10. \A v \in Ranges : LinesOf(work[v]) \subseteq LinesOf(work'[v])
  BY <1>6, <1>7
<1>11. Joined \in LinesOf(work'[w])
         \/ \A c \in worker[w].left \cup Buffered(w) :
              c \in Recorded(work') \/ c \in worker'[w].left \cup Buffered(w)'
  <2> SUFFICES ASSUME Joined \notin LinesOf(work'[w]), NEW c \in worker[w].left \cup Buffered(w)
               PROVE  c \in Recorded(work') \/ c \in worker'[w].left \cup Buffered(w)'
    OBVIOUS
  <2>1. c \in worker[w].left \ {First(w)} \/ \E line \in Items(buffer) : c = line.cik
    <3>1. mine.cik = First(w)
      BY DEF mine
    <3> QED BY <1>4, <3>1 DEF Buffered
  <2>2. CASE c \in worker[w].left \ {First(w)}
    BY <1>8, <2>2
  <2>3. ASSUME NEW line \in Items(buffer), c = line.cik, full PROVE c \in Recorded(work')
    <3>1. line \in LinesOf(work'[w])
      BY <1>6, <1>7, <2>3
    <3> QED BY <2>3, <3>1, RecordedIn
  <2>4. ASSUME NEW line \in Items(buffer), c = line.cik, ~full PROVE c \in Buffered(w)'
    <3>1. worker'[w].buffer = buffer
      BY <1>8, <2>4
    <3> QED BY <2>4, <3>1 DEF Buffered
  <2> QED BY <2>1, <2>2, <2>3, <2>4
<1>12. PoolCovers'
  BY <1>0, <1>8, <1>10, <1>11, OneMoves
<1>13. ClosedAreDone'
  BY <1>8 DEF ClosedAreDone
<1>14. OutputHolds'
  BY <1>0, <1>10, OutputStays
<1> QED BY <1>0, <1>9, <1>12, <1>13, <1>14 DEF CollectedHolds

LEMMA Close_ReadinessInv ==
  ASSUME ReadinessInv, NEW w \in Ranges, CloseRange(w) \/ RaiseInRange(w)
  PROVE  ReadinessInv'
<1> USE DEF ReadinessInv
<1>0. PICK pc \in {"closed", "raised"} : Close(w, pc) /\ (pc = "closed" => worker[w].left = {})
  BY DEF CloseRange, RaiseInRange
<1>1. /\ main.pc = "pool" /\ worker[w].pc = "working"
      /\ work' = [work EXCEPT ![w] = Appended(@, worker[w].buffer)]
      /\ worker' = [worker EXCEPT ![w].pc = pc, ![w].buffer = <<>>]
      /\ main' = main /\ output' = output /\ launches' = launches /\ kills' = kills
  BY <1>0 DEF Close
<1>2. /\ worker[w].left \subseteq Members /\ worker[w].buffer \in Seq(Rec)
      /\ work[w] \in File
  BY DEF ReadinessTypeOK, File, WorkerState, MainState, OutputState
<1>3. worker[w].buffer \in Seq(Rec \cup {Joined})
  BY <1>2
<1> DEFINE longer == Appended(work[w], worker[w].buffer)
<1>4. /\ longer \in File
      /\ LinesOf(work[w]) \subseteq LinesOf(longer)
      /\ Joined \in LinesOf(longer) \/ Items(worker[w].buffer) \subseteq LinesOf(longer)
  BY <1>2, <1>3, AppendedFacts DEF File
<1>5. /\ work' = [work EXCEPT ![w] = longer]
  BY <1>1
<1> HIDE DEF longer
<1>6. /\ work' \in [Ranges -> File]
      /\ work'[w] = longer
      /\ \A v \in Ranges : v # w => work'[v] = work[v]
  BY <1>4, <1>5 DEF ReadinessTypeOK, File, WorkerState, MainState, OutputState
<1>7. /\ worker'[w] = [pc |-> pc, left |-> worker[w].left, buffer |-> <<>>]
      /\ \A v \in Ranges : v # w => worker'[v] = worker[v]
  BY <1>1 DEF ReadinessTypeOK, File, WorkerState, MainState, OutputState
<1>8. ReadinessTypeOK'
  <2>1. <<>> \in Seq(Rec)
    OBVIOUS
  <2>2. worker'[w] \in WorkerState
    BY <1>0, <1>2, <1>7, <2>1 DEF WorkerState
  <2>3. worker' \in [Ranges -> WorkerState]
    BY <1>1, <1>7, <2>2 DEF ReadinessTypeOK
  <2> QED BY <1>1, <1>6, <2>3 DEF ReadinessTypeOK
<1>9. \A v \in Ranges : LinesOf(work[v]) \subseteq LinesOf(work'[v])
  BY <1>4, <1>6
<1>10. Joined \in LinesOf(work'[w])
         \/ \A c \in worker[w].left \cup Buffered(w) :
              c \in Recorded(work') \/ c \in worker'[w].left \cup Buffered(w)'
  <2> SUFFICES ASSUME Joined \notin LinesOf(work'[w]), NEW c \in Buffered(w)
               PROVE  c \in Recorded(work')
    BY <1>7
  <2>1. PICK line \in Items(worker[w].buffer) : c = line.cik
    BY DEF Buffered
  <2>2. line \in LinesOf(work'[w])
    BY <1>4, <1>6, <2>1
  <2> QED BY <2>1, <2>2, RecordedIn
<1>11. PoolCovers'
  BY <1>1, <1>7, <1>9, <1>10, OneMoves
<1>12. ClosedAreDone'
  BY <1>0, <1>7 DEF ClosedAreDone
<1>13. OutputHolds'
  BY <1>1, <1>9, OutputStays
<1> QED BY <1>1, <1>8, <1>11, <1>12, <1>13 DEF CollectedHolds

LEMMA PoolEnds_ReadinessInv == ReadinessInv /\ PoolEnds => ReadinessInv'
<1> SUFFICES ASSUME ReadinessInv, PoolEnds PROVE ReadinessInv' OBVIOUS
<1> USE DEF ReadinessInv
<1>0. /\ main.pc = "pool" /\ \A w \in Ranges : worker[w].pc # "working"
      /\ work' = work /\ worker' = worker /\ output' = output
      /\ launches' = launches /\ kills' = kills
  BY DEF PoolEnds, PoolEnded
<1>1. \/ main' = [main EXCEPT !.pc = "idle"]
      \/ main' = [main EXCEPT !.pc = "unreadable"]
      \/ /\ main' = [main EXCEPT !.pc = "collected"]
         /\ Readable(work) /\ \A w \in Ranges : worker[w].pc # "raised"
  BY DEF PoolEnds, EndRun
<1>2. ReadinessTypeOK' /\ main'.pc # "pool" /\ main'.selected = main.selected
  BY <1>0, <1>1 DEF ReadinessTypeOK, File, WorkerState, MainState, OutputState
<1>3. CollectedHolds'
  <2> SUFFICES ASSUME main'.pc = "collected" PROVE main.selected \subseteq Recorded(work)
    BY <1>0, <1>2 DEF CollectedHolds, Recorded
  <2>1. Readable(work) /\ \A w \in Ranges : worker[w].pc # "raised"
    BY <1>1 DEF ReadinessTypeOK, File, WorkerState, MainState, OutputState
  <2>2. \A w \in Ranges : worker[w].pc \in {"closed", "working", "raised"}
    BY DEF ReadinessTypeOK, File, WorkerState, MainState, OutputState
  <2>3. \A w \in Ranges : worker[w].left = {} /\ worker[w].buffer = <<>>
    BY <1>0, <2>1, <2>2 DEF ClosedAreDone
  <2>4. \A w \in Ranges : Buffered(w) = {}
    BY <2>3 DEF Buffered, Items
  <2> QED BY <1>0, <2>1, <2>3, <2>4 DEF PoolCovers
<1>4. PoolCovers'
  BY <1>2 DEF PoolCovers
<1>5. ClosedAreDone' /\ OutputHolds'
  BY <1>0 DEF ClosedAreDone, OutputHolds, Recorded
<1> QED BY <1>2, <1>3, <1>4, <1>5

LEMMA WriteOutput_ReadinessInv ==
  ASSUME ReadinessInv, WriteOutput
  PROVE  ReadinessInv'
<1> USE DEF ReadinessInv
<1>0. /\ output' = [output EXCEPT !.records = Recorded(work), !.generation = output.files]
      /\ main' = [main EXCEPT !.pc = "idle"]
      /\ work' = work /\ worker' = worker /\ launches' = launches /\ kills' = kills
  BY DEF WriteOutput, EndRun
<1>1. Recorded(work) \subseteq Nat
  BY RecordedIsNat
<1>2. ReadinessTypeOK' /\ main'.pc = "idle"
  BY <1>0, <1>1 DEF ReadinessTypeOK, File, WorkerState, MainState, OutputState
<1>3. OutputHolds'
  BY <1>0 DEF OutputHolds, ReadinessTypeOK, File, WorkerState, MainState, OutputState, Recorded
<1>4. PoolCovers' /\ ClosedAreDone' /\ CollectedHolds'
  BY <1>0, <1>2 DEF PoolCovers, ClosedAreDone, CollectedHolds
<1> QED BY <1>2, <1>3, <1>4

\* A kill leaves a prefix of what a worker had handed to its file.
LEMMA KillRun_ReadinessInv ==
  ASSUME ReadinessInv, KillRun
  PROVE  ReadinessInv'
<1> USE DEF ReadinessInv
<1>0. /\ main' = [main EXCEPT !.pc = "idle"] /\ worker' = [w \in Ranges |-> NoWork]
      /\ kills' = kills + 1 /\ output' = output /\ launches' = launches
  BY DEF KillRun, EndRun
<1>1. PICK kept \in [Ranges -> 0..FlushEvery], piece \in [Ranges -> BOOLEAN] :
       /\ \A w \in Ranges : kept[w] <= Len(worker[w].buffer)
       /\ work' = [w \in Ranges |->
            LET file == Appended(work[w], SubSeq(worker[w].buffer, 1, kept[w]))
            IN  [file EXCEPT !.torn = @ \/ piece[w]]]
  BY Zenon DEF KillRun
<1>2. ASSUME NEW w \in Ranges
      PROVE  /\ work'[w] \in File
             /\ LinesOf(work[w]) \subseteq LinesOf(work'[w])
  <2> DEFINE records == SubSeq(worker[w].buffer, 1, kept[w])
             file == Appended(work[w], records)
  <2>1. /\ worker[w].buffer \in Seq(Rec \cup {Joined}) /\ kept[w] \in Nat
        /\ work[w] \in File
    BY <1>2, ReadinessRunAssumption DEF ReadinessTypeOK, File, WorkerState, MainState, OutputState
  <2>2. records \in Seq(Rec \cup {Joined})
    BY <1>1, <2>1
  <2> HIDE DEF records
  <2>3. /\ file \in File
        /\ LinesOf(work[w]) \subseteq LinesOf(file)
    BY <2>1, <2>2, AppendedFacts DEF File
  <2>4. work'[w] = [file EXCEPT !.torn = @ \/ piece[w]]
    BY <1>1, <1>2 DEF records
  <2> HIDE DEF file
  <2>5. piece[w] \in BOOLEAN /\ file.torn \in BOOLEAN /\ (file.torn \/ piece[w]) \in BOOLEAN
    BY <1>2, <2>3 DEF File
  <2>6. work'[w] = [file EXCEPT !.torn = file.torn \/ piece[w]]
    BY <2>4
  <2> DEFINE ends == file.torn \/ piece[w]
  <2>7. work'[w] = [file EXCEPT !.torn = ends] /\ ends \in BOOLEAN
    BY <2>5, <2>6, Zenon
  <2> HIDE DEF ends
  <2>8. work'[w] \in File /\ work'[w].lines = file.lines
    BY <2>3, <2>7 DEF File
  <2> QED BY <2>3, <2>8 DEF LinesOf
<1>3. ReadinessTypeOK'
  <2>1. work' = [w \in Ranges |-> work'[w]]
    BY <1>1
  <2>2. work' \in [Ranges -> File]
    BY <1>2, <2>1
  <2>3. NoWork \in WorkerState
    BY DEF NoWork, WorkerState
  <2>4. main' \in MainState /\ kills + 1 \in Nat
    BY <1>0 DEF ReadinessTypeOK, MainState
  <2> QED BY <1>0, <2>2, <2>3, <2>4 DEF ReadinessTypeOK
<1>4. PoolCovers' /\ CollectedHolds'
  BY <1>0 DEF PoolCovers, CollectedHolds, ReadinessTypeOK, File, WorkerState, MainState, OutputState
<1>5. ClosedAreDone'
  BY <1>0 DEF ClosedAreDone, NoWork
<1>6. OutputHolds'
  BY <1>0, <1>2, OutputStays
<1> QED BY <1>3, <1>4, <1>5, <1>6

LEMMA Next_ReadinessInv ==
  ReadinessInv /\ [ReadinessRunNext]_readinessVars => ReadinessInv'
<1> SUFFICES ASSUME ReadinessInv, [ReadinessRunNext]_readinessVars PROVE ReadinessInv' OBVIOUS
<1>1. CASE UNCHANGED readinessVars
  BY <1>1 DEF readinessVars, ReadinessInv, ReadinessTypeOK, PoolCovers, ClosedAreDone,
              CollectedHolds, OutputHolds, Recorded, Readable, Buffered
<1>2. CASE \E total \in Members, fresh \in BOOLEAN : Launch(total, fresh)
  BY <1>2, Launch_ReadinessInv, Zenon
<1>3. CASE \E w \in Ranges, status \in RecordStatuses : Classify(w, status)
  BY <1>3, Classify_ReadinessInv, Zenon
<1>4. CASE \E w \in Ranges : CloseRange(w) \/ RaiseInRange(w)
  BY <1>4, Close_ReadinessInv, Zenon
<1> QED BY <1>1, <1>2, <1>3, <1>4, PoolEnds_ReadinessInv, WriteOutput_ReadinessInv,
           KillRun_ReadinessInv, Zenon DEF ReadinessRunNext

\* A manifest that a run writes keeps its issuers and those of the one before it.
LEMMA Next_KeepsIssuers ==
  ReadinessInv /\ [ReadinessRunNext]_readinessVars
    => (main.pc = "collected" /\ main'.pc = "idle" /\ kills' = kills =>
          /\ main.selected \subseteq output'.records
          /\ output.generation = output'.generation => output.records \subseteq output'.records)
<1> SUFFICES ASSUME ReadinessInv, [ReadinessRunNext]_readinessVars,
                    main.pc = "collected", main'.pc = "idle", kills' = kills
             PROVE  /\ main.selected \subseteq output'.records
                    /\ output.generation = output'.generation => output.records \subseteq output'.records
  OBVIOUS
<1> USE DEF ReadinessInv
<1>1. ~UNCHANGED readinessVars
  BY DEF readinessVars
<1>2. ~KillRun
  BY DEF KillRun, ReadinessTypeOK, File, WorkerState, MainState, OutputState
<1>3. WriteOutput
  BY <1>1, <1>2 DEF ReadinessRunNext, Launch, Classify, CloseRange, RaiseInRange, Close, PoolEnds,
                    PoolEnded
<1>4. output'.records = Recorded(work) /\ output'.generation = output.files
  BY <1>3 DEF WriteOutput, ReadinessTypeOK, File, WorkerState, MainState, OutputState
<1> QED BY <1>4 DEF CollectedHolds, OutputHolds

\* A run that finds every selected issuer in the files writes a manifest of them all, and
\* of all that the manifest before it listed while the files were not discarded, whatever
\* was killed, torn or failed in between (main of sec_universe_readiness.py).
THEOREM ManifestsKeepIssuers == ReadinessRunSpec => ManifestKeepsIssuers
<1>1. ReadinessRunSpec => []ReadinessInv
  BY Init_ReadinessInv, Next_ReadinessInv, PTL DEF ReadinessRunSpec
<1> QED BY <1>1, Next_KeepsIssuers, PTL DEF ReadinessRunSpec, ManifestKeepsIssuers

-----------------------------------------------------------------------------
(* The builds in local directories: whatever they list is of their own archive and code. *)

\* The state of a build: what it has extracted, taken and written so far.
MadeRefs == UNION {[listed -> Int \X Nat] : listed \in SUBSET Companies}
BuildState ==
  [pc : {"idle", "building", "manifest", "raised"}, archive : Nat, code : Nat,
   extracting : SUBSET Companies, prepared : SUBSET Companies, taken : Nat,
   writing : BOOLEAN, refs : MadeRefs, quarantined : SUBSET Companies]

BuildsTypeOK ==
  /\ archive \in Nat \ {0} /\ directory \in Nat \ {0} /\ code \in Nat \ {0}
  /\ memberFile \in [Companies -> Int] /\ historyFile \in [Companies -> Int \X Nat]
  /\ build \in BuildState

\* What a build has listed is made of its own archive by its own code, and the member it
\* is writing the history of is still whole.
BuildIsOfItsArchive ==
  /\ build.pc # "idle" => build.archive # 0
  /\ build.extracting \cap build.prepared = {}
  /\ build.writing => NextTaken \in build.prepared /\ memberFile[NextTaken] = build.archive
  /\ 1..build.taken \subseteq Companies
  /\ DOMAIN build.refs = (1..build.taken) \ Unhistoried
  /\ build.quarantined = (1..build.taken) \cap Unhistoried
  /\ \A c \in DOMAIN build.refs : build.refs[c] = <<build.archive, build.code>>
  /\ build.pc = "manifest" => NextTaken \notin Companies

ManifestIsOfItsArchive ==
  \A m \in manifestFile :
    /\ DOMAIN m.refs = Companies \ Unhistoried /\ m.quarantined = Unhistoried
    /\ \A c \in DOMAIN m.refs : m.refs[c] = <<m.archive, m.code>>

BuildsInv ==
  BuildsTypeOK /\ BuildIsOfItsArchive /\ ManifestIsOfItsArchive /\ MaterializedIsOfItsRelease

-----------------------------------------------------------------------------
LEMMA CompaniesInOrder ==
  /\ Cardinality(Companies) \in Nat
  /\ \A c : c \in Companies <=> c \in 1..Cardinality(Companies)
  /\ Unhistoried \subseteq Companies
  BY MaterializationAssumption, FS_CardinalityType

\* A process that is not running has listed nothing.
LEMMA NoBuildIsEmpty ==
  /\ NoBuild \in BuildState /\ NoBuild.pc = "idle" /\ NoBuild.extracting = {}
  /\ NoBuild.prepared = {} /\ NoBuild.taken = 0 /\ NoBuild.writing = FALSE
  /\ DOMAIN NoBuild.refs = {} /\ NoBuild.quarantined = {}
<1>1. NoBuild.refs \in [{} -> Int \X Nat] BY DEF NoBuild
<1>2. NoBuild.refs \in MadeRefs BY <1>1 DEF MadeRefs
<1> QED BY <1>1, <1>2 DEF NoBuild, BuildState

LEMMA NoBuildIsOfItsArchive ==
  ASSUME build = NoBuild
  PROVE  build \in BuildState /\ BuildIsOfItsArchive
  BY NoBuildIsEmpty DEF BuildIsOfItsArchive

LEMMA Init_BuildsInv == MaterializationInit => BuildsInv
<1> SUFFICES ASSUME MaterializationInit PROVE BuildsInv OBVIOUS
<1>1. BuildsTypeOK
  BY NoBuildIsEmpty
  DEF MaterializationInit, BuildsTypeOK, TornHistory, TornMember, NoMember
<1>2. BuildIsOfItsArchive BY NoBuildIsOfItsArchive DEF MaterializationInit
<1> QED BY <1>1, <1>2 DEF MaterializationInit, BuildsInv, ManifestIsOfItsArchive,
                         MaterializedIsOfItsRelease

-----------------------------------------------------------------------------
LEMMA StartBuild_BuildsInv == BuildsInv /\ StartBuild => BuildsInv'
<1> SUFFICES ASSUME BuildsInv, StartBuild PROVE BuildsInv' OBVIOUS
<1> DEFINE s == [NoBuild EXCEPT !.pc = "building", !.archive = directory, !.code = code]
<1>1. /\ build' = s
      /\ UNCHANGED <<archive, directory, code, memberFile, historyFile, manifestFile,
                     enginePublished>>
  BY DEF StartBuild
<1>2. /\ s \in BuildState /\ s.pc = "building" /\ s.archive = directory
      /\ s.extracting = {} /\ s.taken = 0 /\ s.writing = FALSE
      /\ DOMAIN s.refs = {} /\ s.quarantined = {}
  BY NoBuildIsEmpty DEF BuildsInv, BuildsTypeOK, BuildState
<1> HIDE DEF s
<1>3. BuildsTypeOK' BY <1>1, <1>2 DEF BuildsInv, BuildsTypeOK
<1>4. BuildIsOfItsArchive'
  BY <1>1, <1>2 DEF BuildsInv, BuildsTypeOK, BuildIsOfItsArchive
<1> QED BY <1>1, <1>3, <1>4 DEF BuildsInv, ManifestIsOfItsArchive, MaterializedIsOfItsRelease

\* A file that has content of its own is not extracted again.
LEMMA Prepare_BuildsInv == \A c \in Companies : BuildsInv /\ Prepare(c) => BuildsInv'
<1> SUFFICES ASSUME NEW c \in Companies, BuildsInv, Prepare(c) PROVE BuildsInv' OBVIOUS
<1> DEFINE extract == memberFile[c] = NoMember /\ archive = build.archive
           s == [build EXCEPT !.extracting = IF extract THEN @ \cup {c} ELSE @,
                              !.prepared = IF extract THEN @ ELSE @ \cup {c}]
<1>1. /\ build' = s
      /\ memberFile' = [memberFile EXCEPT ![c] = IF extract THEN TornMember ELSE @]
      /\ c \notin build.prepared /\ c \notin build.extracting /\ build.pc # "idle"
      /\ UNCHANGED <<archive, directory, code, historyFile, manifestFile, enginePublished>>
  BY DEF Prepare
<1>2. /\ s \in BuildState /\ s.pc = build.pc /\ s.archive = build.archive /\ s.code = build.code
      /\ s.extracting \cap s.prepared = {} /\ build.prepared \subseteq s.prepared
      /\ s.taken = build.taken /\ s.writing = build.writing /\ s.refs = build.refs
      /\ s.quarantined = build.quarantined
  <2>1. build \in BuildState /\ build.extracting \cap build.prepared = {}
    BY DEF BuildsInv, BuildsTypeOK, BuildIsOfItsArchive
  <2>2. CASE extract
    <3>1. s = [build EXCEPT !.extracting = @ \cup {c}, !.prepared = build.prepared] BY <2>2
    <3> HIDE DEF s
    <3> QED BY <1>1, <2>1, <3>1 DEF BuildState
  <2>3. CASE ~extract
    <3>1. s = [build EXCEPT !.extracting = build.extracting, !.prepared = @ \cup {c}] BY <2>3
    <3> HIDE DEF s
    <3> QED BY <1>1, <2>1, <3>1 DEF BuildState
  <2> QED BY <2>2, <2>3
<1>3. BuildsTypeOK'
  BY <1>1, <1>2 DEF BuildsInv, BuildsTypeOK, TornMember
<1>4. build.writing => NextTaken # c
  BY <1>1 DEF BuildsInv, BuildIsOfItsArchive
<1>5. \A d \in Companies : d # c => memberFile'[d] = memberFile[d]
  BY <1>1 DEF BuildsInv, BuildsTypeOK
<1>6. build.writing => NextTaken \in Companies
  BY DEF BuildsInv, BuildsTypeOK, BuildState, BuildIsOfItsArchive
<1> HIDE DEF s, extract
<1>7. BuildIsOfItsArchive'
  BY <1>1, <1>2, <1>4, <1>5, <1>6 DEF BuildsInv, BuildIsOfItsArchive, NextTaken
<1> QED BY <1>1, <1>3, <1>7 DEF BuildsInv, ManifestIsOfItsArchive, MaterializedIsOfItsRelease

LEMMA Extracted_BuildsInv == \A c \in Companies : BuildsInv /\ Extracted(c) => BuildsInv'
<1> SUFFICES ASSUME NEW c \in Companies, BuildsInv, Extracted(c) PROVE BuildsInv' OBVIOUS
<1> DEFINE s == [build EXCEPT !.extracting = @ \ {c}, !.prepared = @ \cup {c}]
<1>1. /\ build' = s /\ memberFile' = [memberFile EXCEPT ![c] = build.archive]
      /\ UNCHANGED <<archive, directory, code, historyFile, manifestFile, enginePublished>>
  BY DEF Extracted
<1>2. /\ s \in BuildState /\ s.pc = build.pc /\ s.archive = build.archive /\ s.code = build.code
      /\ s.extracting \cap s.prepared = {} /\ build.prepared \subseteq s.prepared
      /\ s.taken = build.taken /\ s.writing = build.writing /\ s.refs = build.refs
      /\ s.quarantined = build.quarantined /\ build.archive \in Int
  <2>1. build \in BuildState /\ build.extracting \cap build.prepared = {}
    BY DEF BuildsInv, BuildsTypeOK, BuildIsOfItsArchive
  <2>2. /\ s \in BuildState /\ s.pc = build.pc /\ s.archive = build.archive
        /\ s.code = build.code /\ s.taken = build.taken /\ s.writing = build.writing
        /\ s.refs = build.refs /\ s.quarantined = build.quarantined
        /\ s.extracting = build.extracting \ {c} /\ s.prepared = build.prepared \cup {c}
    BY <2>1 DEF BuildState
  <2>3. build.archive \in Int BY <2>1 DEF BuildState
  <2> HIDE DEF s
  <2> QED BY <2>1, <2>2, <2>3
<1>3. BuildsTypeOK' BY <1>1, <1>2 DEF BuildsInv, BuildsTypeOK
<1>4. \A d \in Companies : memberFile'[d] \in {memberFile[d], build.archive}
  BY <1>1 DEF BuildsInv, BuildsTypeOK
<1>5. build.writing => NextTaken \in Companies
  BY DEF BuildsInv, BuildsTypeOK, BuildState, BuildIsOfItsArchive
<1> HIDE DEF s
<1>6. BuildIsOfItsArchive'
  BY <1>1, <1>2, <1>4, <1>5 DEF BuildsInv, BuildIsOfItsArchive, NextTaken
<1> QED BY <1>1, <1>3, <1>6 DEF BuildsInv, ManifestIsOfItsArchive, MaterializedIsOfItsRelease

LEMMA TakeMember_BuildsInv == BuildsInv /\ TakeMember => BuildsInv'
<1> SUFFICES ASSUME BuildsInv, TakeMember PROVE BuildsInv' OBVIOUS
<1>1. /\ build.pc = "building" /\ ~build.writing /\ NextTaken \in build.prepared
      /\ UNCHANGED <<archive, directory, code, memberFile, manifestFile, enginePublished>>
  BY DEF TakeMember
<1>2. NextTaken \in Companies /\ build \in BuildState
  BY <1>1 DEF BuildsInv, BuildsTypeOK, BuildState
<1>3. CASE Intact(NextTaken)
  <2> DEFINE s == [build EXCEPT !.writing = TRUE]
  <2>1. build' = s /\ historyFile' = [historyFile EXCEPT ![NextTaken] = TornHistory]
    BY <1>3 DEF TakeMember
  <2>2. /\ s \in BuildState /\ s.pc = build.pc /\ s.archive = build.archive
        /\ s.code = build.code /\ s.extracting = build.extracting /\ s.prepared = build.prepared
        /\ s.taken = build.taken /\ s.refs = build.refs /\ s.quarantined = build.quarantined
    BY <1>2 DEF BuildState
  <2> HIDE DEF s
  <2>3. BuildsTypeOK'
    <3>1. TornHistory \in Int \X Nat BY DEF TornHistory, TornMember
    <3> QED BY <1>1, <2>1, <2>2, <3>1 DEF BuildsInv, BuildsTypeOK
  <2>4. BuildIsOfItsArchive'
    BY <1>1, <1>3, <2>1, <2>2 DEF BuildsInv, BuildIsOfItsArchive, NextTaken, Intact
  <2> QED BY <1>1, <2>3, <2>4 DEF BuildsInv, ManifestIsOfItsArchive, MaterializedIsOfItsRelease
<1>4. CASE ~Intact(NextTaken)
  <2> DEFINE s == [build EXCEPT !.pc = "raised"]
  <2>1. build' = s /\ historyFile' = historyFile
    BY <1>4 DEF TakeMember
  <2>2. /\ s \in BuildState /\ s.pc = "raised" /\ s.archive = build.archive
        /\ s.code = build.code /\ s.extracting = build.extracting /\ s.prepared = build.prepared
        /\ s.taken = build.taken /\ s.refs = build.refs /\ s.quarantined = build.quarantined
        /\ s.writing = build.writing
    BY <1>2 DEF BuildState
  <2> HIDE DEF s
  <2>3. BuildsTypeOK'
    BY <1>1, <2>1, <2>2 DEF BuildsInv, BuildsTypeOK
  <2>4. BuildIsOfItsArchive'
    BY <1>1, <2>1, <2>2 DEF BuildsInv, BuildIsOfItsArchive, NextTaken
  <2> QED BY <1>1, <2>3, <2>4 DEF BuildsInv, ManifestIsOfItsArchive, MaterializedIsOfItsRelease
<1> QED BY <1>3, <1>4

\* The history of the next company is made of the member that was found whole.
LEMMA RecordHistory_BuildsInv == BuildsInv /\ RecordHistory => BuildsInv'
<1> SUFFICES ASSUME BuildsInv, RecordHistory PROVE BuildsInv' OBVIOUS
<1> DEFINE c == NextTaken
           made == <<memberFile[c], build.code>>
           refs == [d \in DOMAIN build.refs \cup {c} |-> IF d = c THEN made ELSE build.refs[d]]
           done == [build EXCEPT !.taken = c, !.writing = FALSE]
           s == IF c \in Unhistoried THEN [done EXCEPT !.quarantined = @ \cup {c}]
                ELSE [done EXCEPT !.refs = refs]
<1>1. /\ build.pc = "building" /\ build.writing
      /\ build' = s /\ historyFile' = [historyFile EXCEPT ![c] = made]
      /\ UNCHANGED <<archive, directory, code, memberFile, manifestFile, enginePublished>>
  BY DEF RecordHistory
<1>2. /\ build \in BuildState /\ c \in Companies /\ c = build.taken + 1 /\ build.taken \in Nat
      /\ made \in Int \X Nat /\ made = <<build.archive, build.code>>
  BY <1>1 DEF BuildsInv, BuildsTypeOK, BuildState, BuildIsOfItsArchive, NextTaken
<1>3. 1..c = 1..build.taken \cup {c}
  BY <1>2
<1>4. /\ DOMAIN build.refs = (1..build.taken) \ Unhistoried
      /\ build.quarantined = (1..build.taken) \cap Unhistoried
      /\ 1..build.taken \subseteq Companies
      /\ \A d \in DOMAIN build.refs : build.refs[d] = <<build.archive, build.code>>
      /\ build.extracting \cap build.prepared = {} /\ build.archive # 0
  BY <1>1 DEF BuildsInv, BuildIsOfItsArchive
<1>5. refs \in MadeRefs
  <2>1. DOMAIN build.refs \cup {c} \in SUBSET Companies BY <1>2, <1>4
  <2>2. \A d \in DOMAIN build.refs : build.refs[d] \in Int \X Nat
    BY <1>2, <1>4
  <2>3. refs \in [DOMAIN build.refs \cup {c} -> Int \X Nat]
    BY <1>2, <2>2
  <2> QED BY <2>1, <2>3 DEF MadeRefs
<1>6. DOMAIN refs = DOMAIN build.refs \cup {c} /\ \A d \in DOMAIN refs : refs[d] = made
  BY <1>2, <1>4
<1> HIDE DEF c, made, refs
<1>7. /\ done \in BuildState /\ done.pc = "building" /\ done.archive = build.archive
      /\ done.code = build.code /\ done.extracting = build.extracting
      /\ done.prepared = build.prepared /\ done.taken = c /\ done.writing = FALSE
      /\ done.refs = build.refs /\ done.quarantined = build.quarantined
  <2>1. c \in Nat BY <1>2
  <2> QED BY <1>1, <1>2, <2>1 DEF BuildState
<1> HIDE DEF done
<1>8. /\ s \in BuildState /\ s.pc = "building" /\ s.archive = build.archive
      /\ s.code = build.code /\ s.extracting = build.extracting
      /\ s.prepared = build.prepared /\ s.taken = c /\ s.writing = FALSE
      /\ s.refs = IF c \in Unhistoried THEN build.refs ELSE refs
      /\ s.quarantined = IF c \in Unhistoried THEN build.quarantined \cup {c}
                         ELSE build.quarantined
  BY <1>2, <1>5, <1>7 DEF BuildState
<1> HIDE DEF s
<1>9. BuildsTypeOK'
  BY <1>1, <1>2, <1>8 DEF BuildsInv, BuildsTypeOK
<1>10. /\ 1..c \subseteq Companies
       /\ DOMAIN s.refs = (1..c) \ Unhistoried
       /\ s.quarantined = (1..c) \cap Unhistoried
  BY <1>2, <1>3, <1>4, <1>6, <1>8
<1>11. \A d \in DOMAIN s.refs : s.refs[d] = <<build.archive, build.code>>
  BY <1>2, <1>4, <1>6, <1>8
<1>12. BuildIsOfItsArchive'
  BY <1>1, <1>4, <1>8, <1>10, <1>11 DEF BuildIsOfItsArchive
<1> QED BY <1>1, <1>9, <1>12 DEF BuildsInv, ManifestIsOfItsArchive, MaterializedIsOfItsRelease

LEMMA OpenManifest_BuildsInv == BuildsInv /\ OpenManifest => BuildsInv'
<1> SUFFICES ASSUME BuildsInv, OpenManifest PROVE BuildsInv' OBVIOUS
<1> DEFINE s == [build EXCEPT !.pc = "manifest"]
<1>1. /\ build' = s /\ NextTaken \notin Companies /\ manifestFile' = {}
      /\ build.pc = "building"
      /\ UNCHANGED <<archive, directory, code, memberFile, historyFile, enginePublished>>
  BY DEF OpenManifest
<1>2. /\ s \in BuildState /\ s.pc = "manifest" /\ s.archive = build.archive
      /\ s.code = build.code /\ s.extracting = build.extracting /\ s.prepared = build.prepared
      /\ s.taken = build.taken /\ s.refs = build.refs /\ s.quarantined = build.quarantined
      /\ s.writing = build.writing
  BY DEF BuildsInv, BuildsTypeOK, BuildState
<1> HIDE DEF s
<1>3. BuildsTypeOK' BY <1>1, <1>2 DEF BuildsInv, BuildsTypeOK
<1>4. BuildIsOfItsArchive'
  BY <1>1, <1>2 DEF BuildsInv, BuildIsOfItsArchive, NextTaken
<1> QED BY <1>1, <1>3, <1>4 DEF BuildsInv, ManifestIsOfItsArchive, MaterializedIsOfItsRelease

\* Every company was taken when the manifest is written.
LEMMA WriteManifest_BuildsInv == BuildsInv /\ WriteManifest => BuildsInv'
<1> SUFFICES ASSUME BuildsInv, WriteManifest PROVE BuildsInv' OBVIOUS
<1>1. /\ build.pc = "manifest" /\ build' = NoBuild
      /\ manifestFile' = {[archive |-> build.archive, code |-> build.code,
                           refs |-> build.refs, quarantined |-> build.quarantined]}
      /\ UNCHANGED <<archive, directory, code, memberFile, historyFile, enginePublished>>
  BY DEF WriteManifest
<1>2. 1..build.taken = Companies
  <2>1. 1..build.taken \subseteq Companies /\ build.taken + 1 \notin Companies
        /\ build.taken \in Nat
    BY <1>1 DEF BuildsInv, BuildIsOfItsArchive, BuildsTypeOK, BuildState, NextTaken
  <2> DEFINE n == Cardinality(Companies)
  <2>2. n \in Nat /\ \A c : c \in Companies <=> c \in 1..n
    BY CompaniesInOrder
  <2> HIDE DEF n
  <2>3. build.taken = 0 \/ build.taken \in 1..n
    BY <2>1, <2>2
  <2>4. build.taken = n
    BY <2>1, <2>2, <2>3
  <2> QED BY <2>2, <2>4
<1>3. BuildsTypeOK' /\ BuildIsOfItsArchive'
  BY <1>1, NoBuildIsEmpty DEF BuildsInv, BuildsTypeOK, BuildIsOfItsArchive
<1>4. ManifestIsOfItsArchive'
  <2>1. /\ DOMAIN build.refs = Companies \ Unhistoried
        /\ build.quarantined = Companies \cap Unhistoried
        /\ \A c \in DOMAIN build.refs : build.refs[c] = <<build.archive, build.code>>
    BY <1>2 DEF BuildsInv, BuildIsOfItsArchive
  <2>2. build.quarantined = Unhistoried BY <2>1, CompaniesInOrder
  <2>3. ASSUME NEW m \in manifestFile'
        PROVE  /\ m.archive = build.archive /\ m.code = build.code /\ m.refs = build.refs
               /\ m.quarantined = build.quarantined
    BY <1>1, <2>3
  <2> QED BY <2>1, <2>2, <2>3 DEF ManifestIsOfItsArchive
<1> QED BY <1>1, <1>3, <1>4 DEF BuildsInv, MaterializedIsOfItsRelease

LEMMA PublishEngine_BuildsInv == BuildsInv /\ PublishEngine => BuildsInv'
<1> SUFFICES ASSUME BuildsInv, PublishEngine PROVE BuildsInv' OBVIOUS
<1>1. UNCHANGED <<archive, directory, code, memberFile, historyFile, manifestFile, build>>
  BY DEF PublishEngine
<1>2. PICK m \in manifestFile :
        /\ \A c \in DOMAIN m.refs : historyFile[c] = m.refs[c]
        /\ enginePublished' = enginePublished \cup {[manifest |-> m,
             histories |-> [c \in DOMAIN m.refs |-> historyFile[c]]]}
  BY DEF PublishEngine
<1>3. BuildsTypeOK' /\ BuildIsOfItsArchive' /\ ManifestIsOfItsArchive'
  BY <1>1 DEF BuildsInv, BuildsTypeOK, BuildIsOfItsArchive, ManifestIsOfItsArchive, NextTaken
<1>4. MaterializedIsOfItsRelease'
  BY <1>2 DEF BuildsInv, ManifestIsOfItsArchive, MaterializedIsOfItsRelease
<1> QED BY <1>3, <1>4 DEF BuildsInv

LEMMA Next_BuildsInv == BuildsInv /\ [MaterializationNext]_materializationVars => BuildsInv'
<1> SUFFICES ASSUME BuildsInv, [MaterializationNext]_materializationVars PROVE BuildsInv'
  OBVIOUS
<1>1. CASE UNCHANGED materializationVars
  BY <1>1 DEF materializationVars, BuildsInv, BuildsTypeOK, BuildIsOfItsArchive, NextTaken,
              ManifestIsOfItsArchive, MaterializedIsOfItsRelease
<1>2. CASE ReplaceArchive \/ ListArchive \/ EditCode
  <2>1. UNCHANGED <<memberFile, historyFile, manifestFile, build, enginePublished>>
    BY <1>2 DEF ReplaceArchive, ListArchive, EditCode
  <2>2. {archive', directory', code'} \subseteq Nat \ {0}
    BY <1>2 DEF ReplaceArchive, ListArchive, EditCode, BuildsInv, BuildsTypeOK
  <2> QED BY <2>1, <2>2 DEF BuildsInv, BuildsTypeOK, BuildIsOfItsArchive, NextTaken,
              ManifestIsOfItsArchive, MaterializedIsOfItsRelease
<1>3. CASE EndRaised \/ KillBuild
  BY <1>3, NoBuildIsEmpty
  DEF EndRaised, KillBuild, BuildsInv, BuildsTypeOK, BuildIsOfItsArchive,
      ManifestIsOfItsArchive, MaterializedIsOfItsRelease
<1> QED BY <1>1, <1>2, <1>3, StartBuild_BuildsInv, Prepare_BuildsInv, Extracted_BuildsInv,
          TakeMember_BuildsInv, RecordHistory_BuildsInv, OpenManifest_BuildsInv,
          WriteManifest_BuildsInv, PublishEngine_BuildsInv DEF MaterializationNext

-----------------------------------------------------------------------------
\* What a task has got hold of was parsed before anything of it is kept.
TaskState == [at : {"todo", "fetched", "kept", "done", "failed"}, edition : 0..Editions]
AcquisitionTypeOK ==
  /\ edition \in [Tasks -> 1..Editions]
  /\ rawFiles \subseteq Tasks \X (1..Editions)
  /\ checkpoint \in [Tasks -> SUBSET (1..Editions)]
  /\ acquisition \in [on : BOOLEAN, refresh : BOOLEAN, publish : BOOLEAN,
                      task : [Tasks -> TaskState]]
TasksAreParsed ==
  \A t \in Tasks : acquisition.task[t].at \in {"fetched", "kept", "done"} =>
    acquisition.task[t].edition # 0 /\ <<t, acquisition.task[t].edition>> \notin Unparsed
AcquisitionInv == AcquisitionTypeOK /\ TasksAreParsed /\ AcquiredIsWhole

LEMMA NoAcquisitionFacts ==
  /\ NoAcquisition \in [on : BOOLEAN, refresh : BOOLEAN, publish : BOOLEAN,
                        task : [Tasks -> TaskState]]
  /\ \A t \in Tasks : NoAcquisition.task[t].at = "todo"
  BY AcquisitionAssumption DEF NoAcquisition, TaskState, Todo

LEMMA Init_AcquisitionInv == AcquisitionInit => AcquisitionInv
<1> SUFFICES ASSUME AcquisitionInit PROVE AcquisitionInv OBVIOUS
<1>1. AcquisitionTypeOK
  BY NoAcquisitionFacts, AcquisitionAssumption DEF AcquisitionInit, AcquisitionTypeOK
<1>2. TasksAreParsed
  BY NoAcquisitionFacts DEF AcquisitionInit, TasksAreParsed
<1> QED BY <1>1, <1>2 DEF AcquisitionInit, AcquisitionInv, AcquiredIsWhole

\* A step of one task leaves those of the others.
LEMMA Move_AcquisitionInv ==
  ASSUME AcquisitionInv, NEW t \in Tasks, NEW at \in {"todo", "fetched", "kept", "done", "failed"},
         NEW e \in 0..Editions, Move(t, at, e),
         at \in {"fetched", "kept", "done"} => e # 0 /\ <<t, e>> \notin Unparsed
  PROVE  /\ acquisition' \in [on : BOOLEAN, refresh : BOOLEAN, publish : BOOLEAN,
                              task : [Tasks -> TaskState]]
         /\ TasksAreParsed'
<1> DEFINE s == [at |-> at, edition |-> e]
<1>1. s \in TaskState BY DEF TaskState
<1>2. acquisition' = [acquisition EXCEPT !.task = [@ EXCEPT ![t] = s]]
  BY DEF Move, AcquisitionInv, AcquisitionTypeOK
<1>3. acquisition.task \in [Tasks -> TaskState]
  BY DEF AcquisitionInv, AcquisitionTypeOK
<1> HIDE DEF s
<1>4. /\ acquisition'.task = [acquisition.task EXCEPT ![t] = s]
      /\ acquisition' \in [on : BOOLEAN, refresh : BOOLEAN, publish : BOOLEAN,
                           task : [Tasks -> TaskState]]
  BY <1>1, <1>2, <1>3 DEF AcquisitionInv, AcquisitionTypeOK
<1>5. \A u \in Tasks : acquisition'.task[u] = IF u = t THEN s ELSE acquisition.task[u]
  BY <1>3, <1>4
<1>6. s.at = at /\ s.edition = e BY DEF s
<1> QED BY <1>4, <1>5, <1>6 DEF AcquisitionInv, TasksAreParsed

LEMMA LookOrFetch_AcquisitionInv ==
  \A t \in Tasks : AcquisitionInv /\ LookOrFetch(t) => AcquisitionInv'
<1> SUFFICES ASSUME NEW t \in Tasks, AcquisitionInv, LookOrFetch(t) PROVE AcquisitionInv'
  OBVIOUS
<1>1. UNCHANGED <<edition, rawFiles, checkpoint, seriesBuilt, seriesPublished>>
  BY DEF LookOrFetch
<1>2. edition[t] \in 1..Editions /\ Reusable(t) \subseteq 1..Editions /\ Editions \in Nat
  BY AcquisitionAssumption DEF AcquisitionInv, AcquisitionTypeOK, Reusable
<1>3. PICK at \in {"todo", "fetched", "kept", "done", "failed"}, e \in 0..Editions :
        /\ Move(t, at, e)
        /\ at \in {"fetched", "kept", "done"} => e # 0 /\ <<t, e>> \notin Unparsed
  <2>1. CASE Reusable(t) # {}
    <3>1. PICK e \in Reusable(t) : Move(t, IF <<t, e>> \notin Unparsed THEN "done" ELSE "failed", e)
      BY <2>1 DEF LookOrFetch
    <3> QED BY <1>2, <3>1
  <2>2. CASE Reusable(t) = {}
    <3>1. \/ Move(t, IF <<t, edition[t]>> \notin Unparsed THEN "fetched" ELSE "failed", edition[t])
          \/ Move(t, "failed", 0)
      BY <2>2 DEF LookOrFetch
    <3> QED BY <1>2, <3>1
  <2> QED BY <2>1, <2>2
<1>4. acquisition' \in [on : BOOLEAN, refresh : BOOLEAN, publish : BOOLEAN,
                       task : [Tasks -> TaskState]] /\ TasksAreParsed'
  BY <1>3, Move_AcquisitionInv
<1> QED BY <1>1, <1>4 DEF AcquisitionInv, AcquisitionTypeOK, AcquiredIsWhole

LEMMA Keep_AcquisitionInv ==
  \A t \in Tasks : AcquisitionInv /\ (KeepRaw(t) \/ KeepCheckpoint(t)) => AcquisitionInv'
<1> SUFFICES ASSUME NEW t \in Tasks, AcquisitionInv, KeepRaw(t) \/ KeepCheckpoint(t)
             PROVE  AcquisitionInv'
  OBVIOUS
<1> DEFINE e == acquisition.task[t].edition
<1>1. PICK at \in {"kept", "done"} : Move(t, at, e)
  BY DEF KeepRaw, KeepCheckpoint
<1>2. e \in 1..Editions /\ <<t, e>> \notin Unparsed
  <2>1. acquisition.task[t] \in TaskState /\ acquisition.task[t].at \in {"fetched", "kept"}
    BY DEF KeepRaw, KeepCheckpoint, AcquisitionInv, AcquisitionTypeOK
  <2>2. e # 0 /\ e \in 0..Editions /\ <<t, e>> \notin Unparsed
    BY <2>1 DEF AcquisitionInv, TasksAreParsed, TaskState
  <2> QED BY <2>2, AcquisitionAssumption
<1>3. /\ rawFiles' \in {rawFiles, rawFiles \cup {<<t, e>>}}
      /\ checkpoint' \in {checkpoint, [checkpoint EXCEPT ![t] = {e}]}
      /\ UNCHANGED <<edition, seriesPublished>>
  BY DEF KeepRaw, KeepCheckpoint
<1> HIDE DEF e
<1>4. acquisition' \in [on : BOOLEAN, refresh : BOOLEAN, publish : BOOLEAN,
                       task : [Tasks -> TaskState]] /\ TasksAreParsed'
  BY <1>1, <1>2, Move_AcquisitionInv, AcquisitionAssumption
<1>5. rawFiles' \subseteq Tasks \X (1..Editions) /\ checkpoint' \in [Tasks -> SUBSET (1..Editions)]
  BY <1>2, <1>3 DEF AcquisitionInv, AcquisitionTypeOK
<1> QED BY <1>3, <1>4, <1>5 DEF AcquisitionInv, AcquisitionTypeOK, AcquiredIsWhole

\* A run that ends, or is killed, leaves no task under way.
LEMMA NoTask_AcquisitionInv ==
  ASSUME AcquisitionInv, acquisition' = NoAcquisition, UNCHANGED <<edition, rawFiles, checkpoint>>
  PROVE  AcquisitionTypeOK' /\ TasksAreParsed'
  BY NoAcquisitionFacts DEF AcquisitionInv, AcquisitionTypeOK, TasksAreParsed

\* What is published has every task: none failed, and each was parsed.
LEMMA BuildSeries_AcquisitionInv == AcquisitionInv /\ BuildSeries => AcquisitionInv'
<1> SUFFICES ASSUME AcquisitionInv, BuildSeries PROVE AcquisitionInv' OBVIOUS
<1> DEFINE release == ReleaseOf(Succeeded)
           raws == {<<t, release[t]>> : t \in Succeeded} \cap rawFiles
<1>1. AcquisitionTypeOK' /\ TasksAreParsed'
  BY NoTask_AcquisitionInv DEF BuildSeries
<1>2. CASE MayPublish(release)
  <2>1. Succeeded = Tasks
    BY <1>2 DEF BuildSeries, MayPublish, Succeeded, Failures
  <2>2. DOMAIN release = Tasks /\ \A t \in Tasks : release[t] = acquisition.task[t].edition
    BY <2>1 DEF ReleaseOf
  <2>3. \A t \in Tasks : <<t, release[t]>> \in rawFiles
    BY <1>2, <2>2 DEF MayPublish
  <2>4. \A t \in Tasks : <<t, release[t]>> \notin Unparsed
    BY <2>1, <2>2 DEF AcquisitionInv, TasksAreParsed, Succeeded
  <2>5. \A t \in Tasks : <<t, release[t]>> \in raws \ Unparsed
    BY <2>1, <2>3, <2>4
  <2>6. \A p \in seriesPublished' :
          p \in seriesPublished \/ p = [release |-> release, raws |-> raws]
    BY DEF BuildSeries
  <2> HIDE DEF release, raws
  <2> QED BY <1>1, <2>2, <2>5, <2>6 DEF AcquisitionInv, AcquiredIsWhole
<1>3. CASE ~MayPublish(release)
  <2>1. seriesPublished' = seriesPublished BY <1>3 DEF BuildSeries
  <2> QED BY <1>1, <2>1 DEF AcquisitionInv, AcquiredIsWhole
<1> QED BY <1>2, <1>3

LEMMA Next_AcquisitionInv ==
  AcquisitionInv /\ [AcquisitionNext]_acquisitionVars => AcquisitionInv'
<1> SUFFICES ASSUME AcquisitionInv, [AcquisitionNext]_acquisitionVars PROVE AcquisitionInv'
  OBVIOUS
<1>1. CASE UNCHANGED acquisitionVars
  BY <1>1 DEF acquisitionVars, AcquisitionInv, AcquisitionTypeOK, TasksAreParsed, AcquiredIsWhole
<1>2. CASE StartAcquisition
  <2>1. PICK refresh, publish \in BOOLEAN :
          acquisition' = [NoAcquisition EXCEPT !.on = TRUE, !.refresh = refresh,
                                               !.publish = publish]
    BY <1>2 DEF StartAcquisition
  <2>2. UNCHANGED <<edition, rawFiles, checkpoint, seriesPublished>>
    BY <1>2 DEF StartAcquisition
  <2>3. /\ acquisition' \in [on : BOOLEAN, refresh : BOOLEAN, publish : BOOLEAN,
                             task : [Tasks -> TaskState]]
        /\ acquisition'.task = NoAcquisition.task
    BY <2>1, NoAcquisitionFacts
  <2> QED BY <2>2, <2>3, NoAcquisitionFacts
          DEF AcquisitionInv, AcquisitionTypeOK, TasksAreParsed, AcquiredIsWhole
<1>3. CASE KillAcquisition
  <2>1. AcquisitionTypeOK' /\ TasksAreParsed'
    BY <1>3, NoTask_AcquisitionInv DEF KillAcquisition
  <2> QED BY <1>3, <2>1 DEF KillAcquisition, AcquisitionInv, AcquiredIsWhole
<1>4. CASE ClearRaw
  BY <1>4 DEF ClearRaw, AcquisitionInv, AcquisitionTypeOK, TasksAreParsed, AcquiredIsWhole
<1>5. ASSUME NEW t \in Tasks, NewEdition(t) PROVE AcquisitionInv'
  <2>1. edition' \in [Tasks -> 1..Editions]
    BY <1>5, AcquisitionAssumption DEF NewEdition, AcquisitionInv, AcquisitionTypeOK
  <2>2. UNCHANGED <<rawFiles, checkpoint, acquisition, seriesPublished>>
    BY <1>5 DEF NewEdition
  <2> QED BY <2>1, <2>2
          DEF AcquisitionInv, AcquisitionTypeOK, TasksAreParsed, AcquiredIsWhole
<1> QED BY <1>1, <1>2, <1>3, <1>4, <1>5, BuildSeries_AcquisitionInv, LookOrFetch_AcquisitionInv,
          Keep_AcquisitionInv DEF AcquisitionNext

\* The histories of a published engine release are all made by the code and of the members
\* that its identity names, and no company is left out; a published series release has every
\* task, with the response that it was parsed from: for any number of companies, tasks and
\* editions, and whatever is killed, replaced, edited or cleared away in between
\* (materialize_sec_engine.py, history_store.py).
THEOREM LocalBuildsStayWhole == LocalBuildsSpec => []LocalBuildsAreWhole
<1>1. BuildsInv => MaterializedIsOfItsRelease BY DEF BuildsInv
<1>2. AcquisitionInv => AcquiredIsWhole BY DEF AcquisitionInv
<1>3. MaterializationSpec => []MaterializedIsOfItsRelease
  BY <1>1, Init_BuildsInv, Next_BuildsInv, PTL DEF MaterializationSpec
<1>4. AcquisitionSpec => []AcquiredIsWhole
  BY <1>2, Init_AcquisitionInv, Next_AcquisitionInv, PTL DEF AcquisitionSpec
<1> QED BY <1>3, <1>4, PTL DEF LocalBuildsSpec, LocalBuildsAreWhole
=============================================================================
