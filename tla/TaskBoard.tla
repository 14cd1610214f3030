------------------------------ MODULE TaskBoard ------------------------------
(***************************************************************************)
(* What the durable job service of the SEC engine promises its callers,    *)
(* with no queue, no retry and no storage call in sight.                   *)
(*                                                                         *)
(* A task is one company of one job, looked up with one credential.  It is *)
(* undecided until it gets an outcome, and the outcome never changes.  The *)
(* service may answer "QUEUED" at any time, but the answer that a job is   *)
(* finished is given only when every task of it is decided, says truly     *)
(* whether all of them succeeded, and is never taken back.                 *)
(***************************************************************************)
EXTENDS FiniteSets

CONSTANTS
  Jobs, Ciks, Credentials,
  Outcomes,          \* every value a decided task may have
  Success,           \* the outcome that means the history can be read
  Undecided          \* a value that is not an outcome

VARIABLES
  outcome,           \* outcome[s, j, c]: what credential s finds for company c of job j
  asked,             \* asked[j]: the credential and the companies of job j, or none yet
  answer             \* answer[j]: what the caller of job j was last told

boardVars == <<outcome, asked, answer>>

NotAsked == [credential |-> "none", ciks |-> {}]

BoardInit ==
  /\ outcome = [t \in Credentials \X Jobs \X Ciks |-> Undecided]
  /\ asked = [j \in Jobs |-> NotAsked]
  /\ answer = [j \in Jobs |-> "NONE"]

\* A caller asks for a set of companies under the credential of the moment.
Ask(j, s, C) ==
  /\ asked[j] = NotAsked
  /\ C # {}
  /\ asked' = [asked EXCEPT ![j] = [credential |-> s, ciks |-> C]]
  /\ UNCHANGED <<outcome, answer>>

\* One task gets its outcome, once.
Decide(t, o) ==
  /\ outcome[t] = Undecided
  /\ outcome' = [outcome EXCEPT ![t] = o]
  /\ UNCHANGED <<asked, answer>>

Verdict(j) ==
  LET found == {outcome[<<asked[j].credential, j, c>>] : c \in asked[j].ciks} IN
  IF Undecided \in found THEN "QUEUED"
  ELSE IF found \subseteq {Success} THEN "COMPLETE" ELSE "COMPLETE_WITH_FAILURES"

\* The caller is told either nothing new or the truth.
Tell(j) ==
  /\ asked[j] # NotAsked
  /\ \E a \in {"QUEUED", Verdict(j)} :
       /\ a = "QUEUED" => answer[j] \in {"NONE", "QUEUED"}
       /\ answer' = [answer EXCEPT ![j] = a]
  /\ UNCHANGED <<outcome, asked>>

BoardNext ==
  \/ \E j \in Jobs, s \in Credentials, C \in SUBSET Ciks : Ask(j, s, C)
  \/ \E t \in Credentials \X Jobs \X Ciks, o \in Outcomes : Decide(t, o)
  \/ \E j \in Jobs : Tell(j)

BoardSpec == BoardInit /\ [][BoardNext]_boardVars
=============================================================================
