------------------------------ MODULE Promotion ------------------------------
(***************************************************************************)
(* The controlled staging promotion of an uploaded Worker version,         *)
(* scripts/controlled_research_promotion.py: preflight, activation,        *)
(* verification against the live edge, and on any failure a rollback that  *)
(* is verified in turn.  Every stage is recorded in an evidence file that  *)
(* is replaced atomically.                                                 *)
(*                                                                         *)
(* A Wrangler command may fail before or after it took effect, a read may  *)
(* fail, the evidence may not be writable, and the process may be killed.  *)
(* The edge serves the old version until the new one has propagated.       *)
(***************************************************************************)
EXTENDS Naturals

CONSTANTS
  Previous, Candidate, Other,   \* immutable Worker versions
  MaxAttempts                   \* polls of wait_for_version: 30

Versions == {Previous, Candidate, Other}

ASSUME PromotionAssumption ==
  /\ Previous # Candidate /\ Previous # Other /\ Candidate # Other
  /\ MaxAttempts \in Nat \ {0}

VARIABLES
  deployed,     \* the version with all the traffic, as Wrangler reports it
  edge,         \* the version that answers the operator's requests
  healthy,      \* the candidate answers as its release does and reproduces history
  drill,        \* --rollback-drill
  ctl,          \* the process: pc, in-memory report, polls left
  evidence      \* the report last written to --output

vars == <<deployed, edge, healthy, drill, ctl, evidence>>

-----------------------------------------------------------------------------
\* stage: the status, the step that follows it, and the step of its handler.
Stage(at, status, then, else) ==
  [at |-> at, status |-> status, then |-> then, else |-> else]

\* Mutant of Stages: a rollback that cannot be recorded is tried again.
StagesRetry == {
  Stage("activating",   "ACTIVATING",          "activate",    "raised"),
  Stage("verifying",    "VERIFYING",           "wait_active", "rolling_back"),
  Stage("pass",         "PASS",                "final",       "rolling_back"),
  Stage("rolling_back", "ROLLING_BACK",        "rollback",    "raised"),
  Stage("rolled_back",  "ROLLED_BACK",         "final",       "unverified"),
  Stage("unverified",   "ROLLBACK_UNVERIFIED", "final",       "rolling_back")}

Stages == {
  Stage("activating",   "ACTIVATING",          "activate",    "raised"),
  Stage("verifying",    "VERIFYING",           "wait_active", "rolling_back"),
  Stage("pass",         "PASS",                "final",       "rolling_back"),
  Stage("rolling_back", "ROLLING_BACK",        "rollback",    "raised"),
  Stage("rolled_back",  "ROLLED_BACK",         "final",       "unverified"),
  Stage("unverified",   "ROLLBACK_UNVERIFIED", "final",       "raised")}

Statuses == {"NONE", "PREFLIGHT", "PREFLIGHT_FAILED"} \cup {s.status : s \in Stages}

Ended == {"returned", "raised", "killed"}
Steps == {s.at : s \in Stages} \cup Ended \cup
  {"preflight", "preflight_failed", "activate", "wait_active", "wait_edge", "check",
   "rollback", "restore_active", "restore_edge", "restore_check", "final"}

Init ==
  /\ deployed \in {Previous, Other}
  /\ edge = deployed
  /\ healthy \in BOOLEAN
  /\ drill \in BOOLEAN
  /\ ctl = [pc |-> "preflight", status |-> "PREFLIGHT", verified |-> FALSE,
            failed |-> FALSE, restored |-> FALSE, left |-> MaxAttempts]
  /\ evidence = [status |-> "NONE", verified |-> FALSE]

Go(from, to) ==
  /\ ctl.pc = from
  /\ ctl' = [ctl EXCEPT !.pc = to, !.left = MaxAttempts]

\* An exception reaches the handler of the step; the report keeps the error.
Throw(from, handler) ==
  /\ ctl.pc = from
  /\ ctl' = [ctl EXCEPT !.pc = handler, !.failed = TRUE]

-----------------------------------------------------------------------------
\* Mutant of Preflight: the active version is not compared.
PreflightUnchecked ==
  /\ \/ Go("preflight", "activating")
     \/ /\ ctl.pc = "preflight"
        /\ ctl' = [ctl EXCEPT !.pc = "preflight_failed", !.status = "PREFLIGHT_FAILED"]
  /\ UNCHANGED <<deployed, edge, healthy, drill, evidence>>

\* preflight: configuration, pins and sources agree, and the previous version
\* has all the traffic.
Preflight ==
  /\ \/ deployed = Previous /\ Go("preflight", "activating")
     \/ /\ ctl.pc = "preflight"
        /\ ctl' = [ctl EXCEPT !.pc = "preflight_failed", !.status = "PREFLIGHT_FAILED"]
  /\ UNCHANGED <<deployed, edge, healthy, drill, evidence>>

\* record: the report replaces the evidence file, or the write raises.
Write(status, then, else) ==
  \/ /\ evidence' = [status |-> status, verified |-> ctl.verified]
     /\ ctl' = [ctl EXCEPT !.pc = then, !.status = status]
  \/ /\ ctl' = [ctl EXCEPT !.pc = else, !.status = status,
                           !.failed = @ \/ else = "rolling_back"]
     /\ UNCHANGED evidence

RecordStage ==
  /\ \E s \in Stages : ctl.pc = s.at /\ Write(s.status, s.then, s.else)
  /\ UNCHANGED <<deployed, edge, healthy, drill>>

\* The last record of run_controlled, and the one of a failed preflight.
RecordFinal ==
  /\ ctl.pc \in {"final", "preflight_failed"}
  /\ Write(ctl.status, "returned", "raised")
  /\ UNCHANGED <<deployed, edge, healthy, drill>>

\* wrangler versions deploy V@100: it may fail before or after it took effect.
VersionsDeploy(version, from, then, handler) ==
  /\ \/ deployed' = version /\ Go(from, then)
     \/ deployed' \in {deployed, version} /\ Throw(from, handler)
  /\ UNCHANGED <<edge, healthy, drill, evidence>>

Activate == VersionsDeploy(Candidate, "activate", "verifying", "rolling_back")

Rollback ==
  /\ \/ /\ deployed' = Previous
        /\ ctl.pc = "rollback"
        /\ ctl' = [ctl EXCEPT !.pc = "restore_active", !.left = MaxAttempts,
                              !.restored = TRUE]
     \/ /\ deployed' \in {deployed, Previous}
        /\ ctl.pc = "rollback"
        /\ ctl' = [ctl EXCEPT !.pc = "unverified", !.restored = TRUE]
  /\ UNCHANGED <<edge, healthy, drill, evidence>>

\* wait_for_version: the read matches, or it is polled again, or the polls are
\* used up or the read raises.
WaitFor(seen, expected, from, then, handler) ==
  /\ \/ seen = expected /\ Go(from, then)
     \/ /\ ctl.pc = from /\ ctl.left > 1 /\ seen # expected
        /\ ctl' = [ctl EXCEPT !.left = @ - 1]
     \/ Throw(from, handler)
  /\ UNCHANGED <<deployed, edge, healthy, drill, evidence>>

\* Mutant of Verify: the version of the edge is not waited for.
VerifyActiveOnly ==
  \/ WaitFor(deployed, Candidate, "wait_active", "check", "rolling_back")
  \/ /\ \/ healthy /\ ~drill /\ Go("check", "pass")
        \/ Throw("check", "rolling_back")
     /\ UNCHANGED <<deployed, edge, healthy, drill, evidence>>

\* verify: the version is active, then served; the routes answer with the
\* candidate's release and an earlier release is reproduced.  A drill always fails.
Verify ==
  \/ WaitFor(deployed, Candidate, "wait_active", "wait_edge", "rolling_back")
  \/ WaitFor(edge, Candidate, "wait_edge", "check", "rolling_back")
  \/ /\ \/ edge = Candidate /\ healthy /\ ~drill /\ Go("check", "pass")
        \/ Throw("check", "rolling_back")
     /\ UNCHANGED <<deployed, edge, healthy, drill, evidence>>

\* verify_previous: the version is active and served, and history is unchanged.
VerifyPrevious ==
  \/ WaitFor(deployed, Previous, "restore_active", "restore_edge", "unverified")
  \/ WaitFor(edge, Previous, "restore_edge", "restore_check", "unverified")
  \/ /\ \/ /\ ctl.pc = "restore_check"
           /\ ctl' = [ctl EXCEPT !.pc = "rolled_back", !.verified = TRUE]
        \/ Throw("restore_check", "unverified")
     /\ UNCHANGED <<deployed, edge, healthy, drill, evidence>>

\* The steps that wait for a time only: reads have a timeout of 40 or 45 seconds and
\* are polled a bounded number of times, the demonstration has one of ten minutes.
Timed == RecordStage \/ RecordFinal \/ Verify \/ VerifyPrevious
\* The steps that run git diff or versions deploy without a timeout: one may hang.
Untimed == Preflight \/ Activate \/ Rollback
Hanging == {"preflight", "activate", "rollback"}

Controller == Timed \/ Untimed

-----------------------------------------------------------------------------
\* The deployed version reaches the edge.
Propagate ==
  /\ edge # deployed
  /\ edge' = deployed
  /\ UNCHANGED <<deployed, healthy, drill, ctl, evidence>>

\* A kill leaves the Wrangler command that was running to its own fate.
Kill ==
  /\ ctl.pc \notin Ended
  /\ ctl' = [ctl EXCEPT !.pc = "killed"]
  /\ \/ deployed' = deployed
     \/ ctl.pc = "activate" /\ deployed' = Candidate
     \/ ctl.pc = "rollback" /\ deployed' = Previous
  /\ UNCHANGED <<edge, healthy, drill, evidence>>

Next == Controller \/ Propagate \/ Kill

Spec == Init /\ [][Next]_vars

\* The operator lets the command run; nothing makes Wrangler or git return.
FairSpec == Spec /\ WF_vars(Timed)

-----------------------------------------------------------------------------
TypeOK ==
  /\ deployed \in Versions /\ edge \in Versions
  /\ healthy \in BOOLEAN /\ drill \in BOOLEAN
  /\ ctl \in [pc : Steps, status : Statuses, verified : BOOLEAN, failed : BOOLEAN,
              restored : BOOLEAN, left : 1..MaxAttempts]
  /\ evidence \in [status : Statuses, verified : BOOLEAN]

\* Evidence of success is true for as long as it stands, unless the controller
\* itself goes on to roll back: the candidate has the traffic, reaches the edge,
\* is healthy and was not only a drill.
PassIsTrue ==
  evidence.status = "PASS" =>
    deployed = Candidate /\ edge = Candidate /\ healthy /\ ~drill

\* "A failed restoration is reported as ROLLBACK_UNVERIFIED, never as success":
\* evidence of a rollback means that the previous version is active and served.
RestoredIsTrue ==
  evidence.status = "ROLLED_BACK" \/ evidence.verified =>
    deployed = Previous /\ edge = Previous

\* A candidate that is active while no controller works on it has evidence of
\* success or evidence that something was left unfinished: never none, never a
\* completed rollback.
StrayCandidateIsVisible ==
  ctl.pc \in Ended /\ deployed = Candidate =>
    evidence.status \in {"ACTIVATING", "VERIFYING", "PASS", "ROLLING_BACK",
                         "ROLLBACK_UNVERIFIED"}

\* The evidence is written ahead of the traffic: the candidate replaces the
\* previous version, and no other, under ACTIVATING, and the previous version
\* comes back under ROLLING_BACK.
TrafficFollowsEvidence ==
  [][deployed' # deployed =>
       \/ deployed = Previous /\ deployed' = Candidate /\ evidence.status = "ACTIVATING"
       \/ deployed = Candidate /\ deployed' = Previous /\ evidence.status = "ROLLING_BACK"]_vars

\* The command ends, whatever the edge answers and whatever fails, evidence included,
\* unless one git or Wrangler command hangs: command() runs versions deploy without a
\* timeout.  It never goes round in circles, rolling back what it rolls back.
ControllerEnds == <>[](ctl.pc \in Ended \cup Hanging)

\* "Any activation or validation failure automatically restores the previous
\* immutable Worker version" (docs/unified-research-sprint/release-control.md):
\* a command that ran to its end after a failure has at least tried to.  The code does
\* not keep it, and no run checks it: it fails when ROLLING_BACK cannot be recorded.
FailureRestores ==
  ctl.failed /\ ctl.pc \in {"returned", "raised"} => ctl.restored
=============================================================================
