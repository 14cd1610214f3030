------------------------------- MODULE MCPaging -------------------------------
(***************************************************************************)
(* Histories: two companies and four releases, small enough that every way *)
(* to end occurs.  r1 needs three pages of a, one per halving of the item  *)
(* count; r2 exceeds the total and holds an item larger than a response;   *)
(* r3 needs more pages than allowed; r4 has an empty history and two       *)
(* cutoffs.                                                                *)
(*                                                                         *)
(* The other reads: two releases of the same sources and one of others;    *)
(* the first has a fragment longer than a request, and one without a row   *)
(* inside the dates that is longer than the requests of a page.            *)
(***************************************************************************)
EXTENDS Paging, ReadApis, TLC

CONSTANTS a, b, r1, r2, r3, r4

MCOrder == <<a, b>>

MCEnds == (r1 :> (a :> <<2, 4, 6, 7>> @@ b :> <<1>>)
        @@ r2 :> (a :> <<3, 6, 9>>    @@ b :> <<1, 6>>)
        @@ r3 :> (a :> <<1>>          @@ b :> <<2, 4, 6, 8>>)
        @@ r4 :> (a :> <<>>           @@ b :> <<2>>))

MCCutoff == [r \in {r1, r2, r3, r4} |-> [c \in {a, b} |-> IF r = r4 /\ c = b THEN 2 ELSE 1]]

MCApis == {"series", "latest", "stored", "screen", "readiness", "unified"}

Of(research, sources) == [research |-> research, sources |-> [of |-> sources]]

StoredRow(fragment, row) == [fragment |-> fragment, row |-> row]

MCLengths == (Of(1, 1) :> <<3, 5, 2>> @@ Of(2, 1) :> <<3, 1>> @@ Of(3, 2) :> <<1>>)
MCInside == (Of(1, 1) :> <<StoredRow(1, 1), StoredRow(1, 2), StoredRow(3, 1), StoredRow(3, 2)>>
          @@ Of(2, 1) :> <<StoredRow(1, 1), StoredRow(1, 3), StoredRow(2, 1)>>
          @@ Of(3, 2) :> <<>>)
MCPublished == DOMAIN MCLengths

\* Either side of the module at a time; the other has ended.
Idle == /\ serving = [release |-> Of(1, 1), replaced |-> FALSE, moves |-> 0]
        /\ asker = [pc |-> "idle", api |-> "series", stated |-> Nothing]
        /\ answering = Nothing
HistoryIdle == /\ deployed = r1 /\ computed = {} /\ queued = {}
               /\ client = [pc |-> "failed"]
               /\ got = [c \in Ciks |-> <<>>]

PagesInit == (Init /\ Idle) \/ (HistoryIdle /\ ReadInit)
PagesNext == \/ asker.pc = "idle" /\ Next /\ UNCHANGED readVars
             \/ asker.pc # "idle" /\ ReadNext /\ UNCHANGED vars
PagesVars == <<vars, readVars>>

\* The command runs, and an answer that can be given is.
PagesSpec == /\ PagesInit /\ [][PagesNext]_PagesVars
             /\ WF_PagesVars(asker.pc = "idle" /\ Client /\ UNCHANGED readVars)
             /\ WF_PagesVars(asker.pc # "idle" /\ Reading /\ UNCHANGED vars)
=============================================================================
