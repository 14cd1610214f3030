-------------------------------- MODULE Paging --------------------------------
(***************************************************************************)
(* Collecting histories page by page: collect_history and the compare      *)
(* action of private_research.py against financial_history and page_result *)
(* of the Worker.                                                          *)
(*                                                                         *)
(* A history is a sequence of items.  A page holds as many items as the    *)
(* limit and the response budget allow, and a signed cursor that binds the *)
(* query, the release and the offset of the next page.  Between two        *)
(* requests another release may be deployed, a company that was queued may *)
(* have been materialized, and any request may fail.                       *)
(***************************************************************************)
EXTENDS Integers, Sequences

CONSTANTS
  Ciks,           \* companies
  Order,          \* those compared, in the order they are collected
  Releases,
  Ends,           \* Ends[r][c][i]: bytes of the first i items of c in release r
  Cutoff,         \* Cutoff[r][c]: the availability cutoff its pages state
  Limit,          \* items per page
  MaxResponse,    \* bytes of one response
  MaxTotal,       \* bytes of all responses
  MaxPages,       \* pages of one company: 100
  None            \* no release, no cursor

ASSUME PagingAssumption ==
  /\ Order \in Seq(Ciks) /\ Len(Order) > 0
  /\ \A i, j \in 1..Len(Order) : Order[i] = Order[j] => i = j
  /\ Ends \in [Releases -> [Ciks -> Seq(Nat)]]
  /\ \A r \in Releases, c \in Ciks : \A i, j \in 1..Len(Ends[r][c]) :
       i <= j => Ends[r][c][i] <= Ends[r][c][j]
  /\ Limit \in Nat \ {0} /\ MaxResponse \in Nat /\ MaxTotal \in Nat
  /\ MaxPages \in Nat \ {0}
  /\ None \notin Releases
  /\ None \notin [query : Ciks, release : Releases, offset : Nat]

VARIABLES
  deployed,       \* the release of the Worker's manifest
  computed,       \* the <<release, company>> histories the Worker can serve
  client,         \* pc, company, pinned release, cursor, seen cursors, budgets
  got,            \* the items collected of each company
  queued          \* companies whose history was answered by a job

vars == <<deployed, computed, client, got, queued>>

-----------------------------------------------------------------------------
Size(r, c) == Len(Ends[r][c])

\* The items of release r of company c after position i, up to position j.
Items(r, c, i, j) == [k \in 1..(j - i) |-> <<r, c, i + k>>]

Whole(r, c) == Items(r, c, 0, Size(r, c))

Upto(r, c, i) == IF i = 0 THEN 0 ELSE Ends[r][c][i]

Bytes(r, c, i, j) == Upto(r, c, j) - Upto(r, c, i)

\* The item counts page_result tries: n, n // 2, ..., 1, or 0 for no items.
Tried(n) == {m \in 0..n : \E k \in 0..n : m = n \div 2^k /\ (m > 0 \/ n = 0)}

\* page_result: the ends of the pages at an offset that fit the response; the
\* page returned is the longest.
Fitting(r, c, offset) ==
  LET rest == Size(r, c) - offset
      most == IF Limit < rest THEN Limit ELSE rest
  IN  {offset + m : m \in {m \in Tried(most) :
                             Bytes(r, c, offset, offset + m) <= MaxResponse}}

\* Mutant of Cursor: the next page leaves an item out.
CursorSkips(r, c, from, end) ==
  IF end + 1 < Size(r, c) THEN [query |-> c, release |-> r, offset |-> end + 1] ELSE None

\* The cursor of a page that ends before the last item.
Cursor(r, c, from, end) ==
  IF end < Size(r, c) THEN [query |-> c, release |-> r, offset |-> end] ELSE None

-----------------------------------------------------------------------------
Init ==
  /\ deployed \in Releases
  /\ computed \in SUBSET (Releases \X Ciks)
  /\ \E expected \in Releases \cup {None} :
       client = [pc |-> "fetch", at |-> 1, release |-> expected, cursor |-> None,
                 seen |-> {}, pages |-> 0, bytes |-> 0, sum |-> 0, err |-> "NONE"]
  /\ got = [c \in Ciks |-> <<>>]
  /\ queued = {}

Cik == Order[client.at]
Offset == IF client.cursor = None THEN 0 ELSE client.cursor.offset
Served == <<deployed, Cik>> \in computed

\* validate and page_result: the expected release and the cursor's release are
\* the deployed one, and the cursor is of this query.
Accepted ==
  /\ client.release \in {None, deployed}
  /\ client.cursor # None =>
       client.cursor.query = Cik /\ client.cursor.release = deployed

Fail(code) ==
  /\ client' = [client EXCEPT !.pc = "failed", !.err = code]
  /\ UNCHANGED got

\* compare: the next company, or the combination of all of them.
NextCompany(sum) ==
  client' = [client EXCEPT
    !.pc = IF client.at = Len(Order) THEN "combine" ELSE "fetch",
    !.at = IF client.at = Len(Order) THEN @ ELSE @ + 1,
    !.release = deployed, !.cursor = None, !.seen = {}, !.pages = 0, !.bytes = 0,
    !.sum = sum]

NextPage(bytes, cursor) ==
  client' = [client EXCEPT !.release = deployed, !.cursor = cursor,
                           !.seen = @ \cup {cursor}, !.pages = @ + 1, !.bytes = bytes]

\* collect_history: what the client makes of a response of so many bytes.
Receive(size, items, cursor) ==
  LET bytes == client.bytes + size
  IN  \/ bytes > MaxTotal /\ Fail("TOTAL_BUDGET")
      \/ /\ bytes <= MaxTotal /\ client.release \notin {None, deployed}
         /\ Fail("RELEASE_CHANGED")
      \/ /\ bytes <= MaxTotal /\ client.release \in {None, deployed}
         /\ \/ /\ cursor = None /\ client.sum + bytes > MaxTotal
               /\ Fail("TOTAL_BUDGET")
            \/ /\ cursor = None /\ client.sum + bytes <= MaxTotal
               /\ NextCompany(client.sum + bytes)
               /\ got' = [got EXCEPT ![Cik] = @ \o items]
            \/ /\ cursor # None /\ cursor \in client.seen
               /\ Fail("CURSOR_REPEATED")
            \/ /\ cursor # None /\ cursor \notin client.seen
               /\ client.pages + 1 >= MaxPages
               /\ Fail("PAGE_BUDGET")
            \/ /\ cursor # None /\ cursor \notin client.seen
               /\ client.pages + 1 < MaxPages
               /\ NextPage(bytes, cursor)
               /\ got' = [got EXCEPT ![Cik] = @ \o items]

-----------------------------------------------------------------------------
\* The Worker answers with the longest page that fits.
FetchPage ==
  /\ client.pc = "fetch" /\ Accepted /\ Served
  /\ \E end \in Fitting(deployed, Cik, Offset) :
       /\ \A other \in Fitting(deployed, Cik, Offset) : other <= end
       /\ Receive(Bytes(deployed, Cik, Offset, end), Items(deployed, Cik, Offset, end),
                  Cursor(deployed, Cik, Offset, end))
  /\ UNCHANGED <<deployed, computed, queued>>

\* 202: the company is queued for materialization.  The body has a release and
\* no cursor; the client reads it as a last page without items.
FetchQueued ==
  /\ client.pc = "fetch" /\ Accepted /\ ~Served
  /\ Receive(0, <<>>, None)
  /\ queued' = queued \cup {Cik}
  /\ UNCHANGED <<deployed, computed>>

\* Mutant of FetchRefused: only a record that is too large is final.
FetchRefusedRetries ==
  /\ client.pc = "fetch" /\ Accepted /\ Served /\ Fitting(deployed, Cik, Offset) = {}
  /\ Fail("SINGLE_RECORD")
  /\ UNCHANGED <<deployed, computed, queued>>

\* An HTTP error or a transport failure ends the command.
FetchRefused ==
  /\ client.pc = "fetch"
  /\ \/ client.release \notin {None, deployed} /\ Fail("SOURCE_VERSION_CHANGED")
     \/ client.release \in {None, deployed} /\ ~Accepted /\ Fail("CURSOR_MISMATCH")
     \/ /\ Accepted /\ Served /\ Fitting(deployed, Cik, Offset) = {}
        /\ Fail("SINGLE_RECORD")
     \/ Fail("TRANSPORT")
  /\ UNCHANGED <<deployed, computed, queued>>

\* compare: the pages that state a cutoff state the same one.
Combine ==
  /\ client.pc = "combine"
  /\ LET asked == {Order[i] : i \in 1..Len(Order)} \ queued
         cutoffs == {Cutoff[client.release][c] : c \in asked}
     IN  \/ \E x, y \in cutoffs : x # y /\ Fail("COMMON_CUTOFF")
         \/ /\ \A x, y \in cutoffs : x = y
            /\ client' = [client EXCEPT !.pc = "done"]
            /\ UNCHANGED got
  /\ UNCHANGED <<deployed, computed, queued>>

Client == FetchPage \/ FetchQueued \/ FetchRefused \/ Combine

\* Another release is deployed, or the earlier one again.
Deploy ==
  /\ deployed' \in Releases
  /\ UNCHANGED <<computed, client, got, queued>>

\* The consumer of the queue stores a history of the deployed release.
Materialize ==
  /\ \E c \in queued : computed' = computed \cup {<<deployed, c>>}
  /\ UNCHANGED <<deployed, client, got, queued>>

Next == Client \/ Deploy \/ Materialize

Spec == Init /\ [][Next]_vars

\* The command runs: nobody but itself can stop it.
FairSpec == Spec /\ WF_vars(Client)

-----------------------------------------------------------------------------
Cursors == [query : Ciks, release : Releases, offset : Nat]
Errors == {"NONE", "TOTAL_BUDGET", "RELEASE_CHANGED", "CURSOR_REPEATED", "PAGE_BUDGET",
           "SOURCE_VERSION_CHANGED", "CURSOR_MISMATCH", "SINGLE_RECORD", "TRANSPORT",
           "COMMON_CUTOFF"}

TypeOK ==
  /\ deployed \in Releases
  /\ computed \subseteq Releases \X Ciks
  /\ client \in [pc : {"fetch", "combine", "done", "failed"}, at : 1..Len(Order),
                 release : Releases \cup {None}, cursor : Cursors \cup {None},
                 seen : SUBSET Cursors, pages : 0..(MaxPages - 1), bytes : 0..MaxTotal,
                 sum : 0..MaxTotal, err : Errors]
  /\ got \in [Ciks -> Seq(Releases \X Ciks \X (Nat \ {0}))]
  /\ queued \subseteq Ciks

\* "complete": every company that was answered with pages has exactly the items
\* of one release, in order and once each, whatever was deployed meanwhile, and
\* all of them have the same release.
CompleteIsWhole ==
  client.pc \in {"combine", "done"} =>
    \A i \in 1..Len(Order) : Order[i] \notin queued =>
      got[Order[i]] = Whole(client.release, Order[i])

\* Every page brings items: the offset of the next page is the number of items
\* collected, and no fewer than the pages.
PagesAdvance ==
  client.pc = "fetch" => Offset = Len(got[Cik]) /\ client.pages <= Offset

\* The Worker's own checks are enough: a changed release is refused by the
\* Worker before the client can mix pages, and no cursor it returns repeats or is
\* refused.
WorkerRefusesFirst ==
  client.err \notin {"RELEASE_CHANGED", "CURSOR_REPEATED", "CURSOR_MISMATCH"}

\* The collection ends, however often releases change.
CollectionEnds == <>(client.pc \in {"done", "failed"})

\* "Client all-pages ... fails without partial output"
\* (docs/sec-engine-scale/README.md): a complete collection holds a history of
\* every company, never a job in the place of one.  The code does not keep it, and no
\* run checks it: see FetchQueued.
CompleteHasHistories ==
  client.pc = "done" => queued = {}
=============================================================================
