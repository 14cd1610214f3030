------------------------------ MODULE MCOperator ------------------------------
(***************************************************************************)
(* What an operator runs by hand, one of them at a time: the controlled    *)
(* promotion of a Worker version, a script that publishes a release, the   *)
(* resumable classification of the archive, and the resumable publication  *)
(* of the universe.  They share no state; a                                *)
(* behaviour is one of one of them.                                        *)
(***************************************************************************)
EXTENDS Promotion, PublicationScripts, ReadinessRun, UniversePipeline

VARIABLE side

allVars == <<side, vars, publicationVars, readinessVars, pipelineVars>>

Running(name) == side = name /\ UNCHANGED side
Promoting(A) == Running("promotion") /\ A /\ UNCHANGED <<publicationVars, readinessVars, pipelineVars>>
Publishing(A) == Running("publication") /\ A /\ UNCHANGED <<vars, readinessVars, pipelineVars>>
Classifying(A) == Running("readiness") /\ A /\ UNCHANGED <<vars, publicationVars, pipelineVars>>
Building(A) == Running("universe") /\ A /\ UNCHANGED <<vars, publicationVars, readinessVars>>

\* A promotion whose preflight failed, and a script that claims its objects.
PromotionAtRest ==
  /\ deployed = Previous /\ edge = Previous /\ healthy = TRUE /\ drill = FALSE
  /\ ctl = [pc |-> "returned", status |-> "PREFLIGHT_FAILED", verified |-> FALSE,
            failed |-> FALSE, restored |-> FALSE, left |-> MaxAttempts]
  /\ evidence = [status |-> "PREFLIGHT_FAILED", verified |-> FALSE]
PublicationAtRest == PublicationInit /\ program = ReadinessIndex

MCInit ==
  \/ /\ side = "promotion"
     /\ Init /\ PublicationAtRest /\ ReadinessRunInit /\ PipelineInit
  \/ /\ side = "publication"
     /\ PublicationInit /\ PromotionAtRest /\ ReadinessRunInit /\ PipelineInit
  \/ /\ side \in {"readiness", "universe"}
     /\ ReadinessRunInit /\ PromotionAtRest /\ PublicationAtRest /\ PipelineInit

MCNext ==
  \/ Promoting(Next) \/ Publishing(PublicationNext) \/ Classifying(ReadinessRunNext)
  \/ Building(PipelineNext)

\* The operator lets the promotion run, whose Wrangler commands may hang; a publication
\* goes on, and after a crash the operator runs the script again.  The threads of the
\* universe run make progress; starting another run is up to the operator.
MCSpec ==
  /\ MCInit /\ [][MCNext]_allVars
  /\ WF_allVars(Promoting(Timed))
  /\ WF_allVars(Publishing(StartAny))
  /\ \A r \in Runs : WF_allVars(Publishing(PublicationStep(r)))
  /\ WF_allVars(Building(Main)) /\ \A i \in Issuers : WF_allVars(Building(Pool(i)))
===============================================================================
