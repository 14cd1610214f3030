------------------------------ MODULE MCTerminal ------------------------------
(***************************************************************************)
(* The ways to data that keep releases apart, one of them at a time: the   *)
(* requests of the terminal through the retrieval orchestrator, the        *)
(* dataset registry with its comparison and canary, and the bundles of the *)
(* Worker at the edge.  They share no state; a behaviour is one of one of  *)
(* them.                                                                   *)
(*                                                                         *)
(* Two processes and two filing years; one company with an income and a    *)
(* debt in two parts; one request at the edge.                             *)
(***************************************************************************)
EXTENDS RegistryReports, Retrieval, SnapshotBundle

VARIABLE side

MCSpecs ==
  ("income" :> [kind |-> "duration", unit |-> "USD", concepts |-> <<"common", "net">>,
                basis |-> {"net"}])
  @@ ("current" :> [kind |-> "instant", unit |-> "USD", concepts |-> <<"c">>, basis |-> {}])
  @@ ("noncurrent" :> [kind |-> "instant", unit |-> "USD", concepts |-> <<"n">>, basis |-> {}])
MCDerived == "debt" :> [parts |-> {"current", "noncurrent"}, reported |-> "none"]

Filed(f, c, p, v) == [field |-> f, concept |-> c, period |-> p, value |-> v]
MCMenu ==
  {{Filed("income", "common", 1, 40)}, {Filed("income", "common", 1, 44)},
   {Filed("income", "net", 1, 40)},
   {Filed("income", "common", 2, 40), Filed("current", "c", 1, 40),
    Filed("noncurrent", "n", 1, 80)},
   {Filed("current", "c", 1, 44)}}

RetrievalIdle == /\ RetrievalInit
                 /\ adapters = [c \in Clients |-> {"yahoo", "sec"}]

MCInit == \/ side = "registry" /\ RegistryInit /\ RetrievalIdle /\ Init
          \/ side = "retrieval" /\ RetrievalInit /\ RegistryInit /\ Init
          \/ side = "bundle" /\ Init /\ RegistryInit /\ RetrievalIdle

MCNext ==
  /\ UNCHANGED side
  /\ \/ side = "registry" /\ RegistryNext /\ UNCHANGED <<retrievalVars, vars>>
     \/ side = "retrieval" /\ RetrievalNext /\ UNCHANGED <<registryVars, vars>>
     \/ side = "bundle" /\ Next /\ UNCHANGED <<registryVars, retrievalVars>>

MCSpec == MCInit /\ [][MCNext]_<<side, vars, registryVars, retrievalVars>>
===============================================================================
