----------------------------- MODULE Reads_proofs -----------------------------
(*****************************************************************************)
(*  What is read, proved for every set of companies, releases and rows,      *)
(*  and every size of pages, requests and budgets.  A collection of          *)
(*  histories, and a reading of any other API that pages, is whole when it   *)
(*  is complete, of one release, and a cursor is refused only for a reason;  *)
(*  what the dataset service gives is of one version; a screen of the        *)
(*  readiness index has every company that matches; and what is answered of  *)
(*  a company as of an instant is whole, newest for it, and stays.           *)
(*****************************************************************************)
EXTENDS Paging, ReadApis, DatasetService, Readiness, ReleaseQueries,
        FiniteSetTheorems, SequenceTheorems, WellFoundedInduction, TLAPS

-----------------------------------------------------------------------------
(* Histories.  What has been collected at the moment a request is about to be sent: a prefix of the
   company under way, everything of the companies before it, nothing of those after it, all from
   the pinned release. *)

Fetching == client.pc = "fetch"

\* The cursor continues the company under way in the pinned release.
CursorInv ==
  Fetching /\ client.cursor # None =>
    /\ client.release # None /\ client.cursor.release = client.release
    /\ client.cursor.query = Cik
    /\ client.cursor.offset \in 1..(Size(client.release, Cik) - 1)

\* The company under way has been collected up to the offset.
PrefixInv ==
  Fetching => got[Cik] = Items(client.release, Cik, 0, Offset)

\* The companies before it are whole, those after it untouched.
OthersInv ==
  Fetching =>
    /\ \A i \in 1..(client.at - 1) : Order[i] \notin queued =>
         got[Order[i]] = Whole(client.release, Order[i])
    /\ \A i \in client.at..Len(Order) : Order[i] \notin queued
    /\ \A i \in (client.at + 1)..Len(Order) : got[Order[i]] = <<>>
    /\ client.at > 1 => client.release # None

\* No cursor seen is ahead of the current one, and every page had items.
SeenInv ==
  Fetching =>
    /\ \A x \in client.seen : x.offset <= Offset
    /\ client.pages <= Offset

CollectedInv ==
  /\ TypeOK /\ CursorInv /\ PrefixInv /\ OthersInv /\ SeenInv
  /\ CompleteIsWhole /\ WorkerRefusesFirst

-----------------------------------------------------------------------------
LEMMA OrderFacts ==
  /\ Order \in Seq(Ciks) /\ Len(Order) \in Nat \ {0}
  /\ \A i \in 1..Len(Order) : Order[i] \in Ciks
  /\ \A i, j \in 1..Len(Order) : Order[i] = Order[j] => i = j
  BY PagingAssumption

LEMMA SizeType == \A r \in Releases, c \in Ciks : Size(r, c) \in Nat
  BY PagingAssumption DEF Size

LEMMA UptoType ==
  \A r \in Releases, c \in Ciks : \A i \in 0..Size(r, c) : Upto(r, c, i) \in Nat
<1> SUFFICES ASSUME NEW r \in Releases, NEW c \in Ciks, NEW i \in 0..Size(r, c)
             PROVE  Upto(r, c, i) \in Nat
  OBVIOUS
<1>1. Ends[r][c] \in Seq(Nat)
  BY PagingAssumption
<1>2. i # 0 => Ends[r][c][i] \in Nat
  BY <1>1 DEF Size
<1> QED BY <1>2 DEF Upto

\* Later items end later.
LEMMA BytesType ==
  ASSUME NEW r \in Releases, NEW c \in Ciks, NEW i \in 0..Size(r, c),
         NEW j \in 0..Size(r, c), i <= j
  PROVE  Bytes(r, c, i, j) \in Nat
<1>1. Upto(r, c, i) \in Nat /\ Upto(r, c, j) \in Nat
  BY UptoType
<1>2. Upto(r, c, i) <= Upto(r, c, j)
  <2>1. CASE i = 0
    BY <2>1, <1>1 DEF Upto
  <2>2. CASE i # 0
    <3>1. i \in 1..Len(Ends[r][c]) /\ j \in 1..Len(Ends[r][c])
      BY <2>2, SizeType DEF Size
    <3>2. Ends[r][c][i] <= Ends[r][c][j]
      BY <3>1, PagingAssumption
    <3> QED BY <2>2, <3>1, <3>2 DEF Upto
  <2> QED BY <2>1, <2>2
<1> QED BY <1>1, <1>2 DEF Bytes

\* A page ends within the history and, unless the history is at its end, after
\* its start.
LEMMA FittingRange ==
  ASSUME NEW r \in Releases, NEW c \in Ciks, NEW offset \in 0..Size(r, c),
         NEW end \in Fitting(r, c, offset)
  PROVE  end \in offset..Size(r, c) /\ (offset < Size(r, c) => end > offset)
<1> DEFINE rest == Size(r, c) - offset
           most == IF Limit < rest THEN Limit ELSE rest
<1>1. Size(r, c) \in Nat /\ Limit \in Nat \ {0}
  BY SizeType, PagingAssumption
<1>2. most \in 0..rest /\ (rest > 0 => most > 0)
  BY <1>1
<1>3. PICK m \in Tried(most) : end = offset + m
  BY DEF Fitting
<1>4. m \in 0..most /\ (m > 0 \/ most = 0)
  BY <1>3 DEF Tried
<1> HIDE DEF most
<1> QED BY <1>1, <1>2, <1>3, <1>4

\* Two adjacent runs of items are one run.
LEMMA ItemsJoin ==
  ASSUME NEW r, NEW c, NEW i \in Nat, NEW j \in Nat, i <= j
  PROVE  Items(r, c, 0, i) \o Items(r, c, i, j) = Items(r, c, 0, j)
<1> DEFINE A == Items(r, c, 0, i)
           B == Items(r, c, i, j)
<1>1. /\ A \in Seq({<<r, c, k>> : k \in Nat}) /\ Len(A) = i
      /\ \A k \in 1..i : A[k] = <<r, c, k>>
  BY DEF Items
<1>2. /\ B \in Seq({<<r, c, k>> : k \in Nat}) /\ Len(B) = j - i
      /\ \A k \in 1..(j - i) : B[k] = <<r, c, i + k>>
  BY DEF Items
<1> DEFINE C == Items(r, c, 0, j)
           S == {<<r, c, k>> : k \in Nat}
<1>3. /\ C \in Seq(S) /\ Len(C) = j
      /\ \A k \in 1..j : C[k] = <<r, c, k>>
  BY DEF Items
<1> HIDE DEF A, B, C, S
<1>4. A \in Seq(S) /\ B \in Seq(S)
  BY <1>1, <1>2 DEF S
<1>5. /\ A \o B \in Seq(S) /\ Len(A \o B) = j
      /\ \A k \in 1..j : (A \o B)[k] = IF k <= i THEN A[k] ELSE B[k - i]
  <2>1. /\ A \o B \in Seq(S) /\ Len(A \o B) = Len(A) + Len(B)
        /\ \A k \in 1..(Len(A) + Len(B)) :
             (A \o B)[k] = IF k <= Len(A) THEN A[k] ELSE B[k - Len(A)]
    BY <1>4, ConcatProperties
  <2>2. Len(A) = i /\ Len(B) = j - i /\ Len(A) + Len(B) = j
    BY <1>1, <1>2
  <2> QED BY <2>1, <2>2
<1>6. \A k \in 1..j : (A \o B)[k] = C[k]
  <2> SUFFICES ASSUME NEW k \in 1..j PROVE (A \o B)[k] = C[k]
    OBVIOUS
  <2>1. CASE k <= i
    <3>1. k \in 1..i
      BY <2>1
    <3> QED BY <2>1, <3>1, <1>1, <1>3, <1>5
  <2>2. CASE ~(k <= i)
    <3>1. k - i \in 1..(j - i) /\ i + (k - i) = k
      BY <2>2
    <3> QED BY <2>2, <3>1, <1>2, <1>3, <1>5
  <2> QED BY <2>1, <2>2
<1>7. A \o B = C
  BY <1>3, <1>5, <1>6, SeqEqual
<1> QED BY <1>7 DEF A, B, C

LEMMA ItemsType ==
  ASSUME NEW r \in Releases, NEW c \in Ciks, NEW i \in Nat, NEW j \in Nat, i <= j
  PROVE  /\ Items(r, c, i, j) \in Seq(Releases \X Ciks \X (Nat \ {0}))
         /\ Len(Items(r, c, i, j)) = j - i
<1>1. \A k \in 1..(j - i) : <<r, c, i + k>> \in Releases \X Ciks \X (Nat \ {0})
  OBVIOUS
<1> QED BY <1>1 DEF Items

LEMMA NoItems == \A r, c : Items(r, c, 0, 0) = <<>>
  BY DEF Items

-----------------------------------------------------------------------------
LEMMA Init_Collected == Init => CollectedInv
<1> SUFFICES ASSUME Init PROVE CollectedInv
  OBVIOUS
<1>1. PICK expected \in Releases \cup {None} :
       client = [pc |-> "fetch", at |-> 1, release |-> expected, cursor |-> None,
                 seen |-> {}, pages |-> 0, bytes |-> 0, sum |-> 0, err |-> "NONE"]
  BY DEF Init
<1>2. Cik \in Ciks /\ Offset = 0 /\ client.cursor = None
  BY <1>1, OrderFacts DEF Cik, Offset
<1>3. got = [c \in Ciks |-> <<>>] /\ queued = {} /\ deployed \in Releases
      /\ computed \subseteq Releases \X Ciks
  BY DEF Init
<1>4. TypeOK
  <2>1. <<>> \in Seq(Releases \X Ciks \X (Nat \ {0}))
    OBVIOUS
  <2>2. 1 \in 1..Len(Order) /\ 0 \in 0..(MaxPages - 1) /\ 0 \in 0..MaxTotal
    BY OrderFacts, PagingAssumption
  <2>3. client \in [pc : {"fetch", "combine", "done", "failed"}, at : 1..Len(Order),
                 release : Releases \cup {None}, cursor : Cursors \cup {None},
                 seen : SUBSET Cursors, pages : 0..(MaxPages - 1), bytes : 0..MaxTotal,
                 sum : 0..MaxTotal, err : Errors]
    BY <1>1, <2>2 DEF Errors
  <2> QED BY <1>3, <2>1, <2>3 DEF TypeOK
<1>5. PrefixInv
  BY <1>2, <1>3, NoItems DEF PrefixInv
<1>6. OthersInv
  BY <1>1, <1>3, OrderFacts DEF OthersInv
<1> QED BY <1>1, <1>2, <1>4, <1>5, <1>6
        DEF CollectedInv, CursorInv, SeenInv, CompleteIsWhole, WorkerRefusesFirst

Refusals == Errors \ {"RELEASE_CHANGED", "CURSOR_REPEATED", "CURSOR_MISMATCH"}

ClientType ==
  [pc : {"fetch", "combine", "done", "failed"}, at : 1..Len(Order),
   release : Releases \cup {None}, cursor : Cursors \cup {None},
   seen : SUBSET Cursors, pages : 0..(MaxPages - 1), bytes : 0..MaxTotal,
   sum : 0..MaxTotal, err : Errors]

\* A command that fails has collected nothing that counts.
LEMMA FailKeeps ==
  ASSUME CollectedInv, NEW code \in Refusals, Fail(code), UNCHANGED <<deployed, computed>>,
         queued' \subseteq Ciks
  PROVE  CollectedInv'
<1>1. client' \in ClientType /\ client'.pc = "failed" /\ client'.err = code
  BY DEF Fail, CollectedInv, TypeOK, ClientType, Refusals
<1>2. TypeOK'
  BY <1>1 DEF Fail, CollectedInv, TypeOK, ClientType
<1> QED BY <1>1, <1>2 DEF Refusals, CollectedInv, CursorInv, PrefixInv, OthersInv, SeenInv,
        CompleteIsWhole, WorkerRefusesFirst, Fetching

\* What a response can do: end the command, end the company, or continue it.
LEMMA ReceiveCases ==
  ASSUME TypeOK, WorkerRefusesFirst, Accepted, NEW size \in Nat, NEW items, NEW cursor,
         cursor \notin client.seen, Receive(size, items, cursor)
  PROVE  \/ \E code \in Refusals : Fail(code)
         \/ /\ cursor = None
            /\ client.sum + client.bytes + size \in 0..MaxTotal
            /\ NextCompany(client.sum + client.bytes + size)
            /\ got' = [got EXCEPT ![Cik] = @ \o items]
         \/ /\ cursor # None /\ client.pages + 1 < MaxPages
            /\ client.bytes + size \in 0..MaxTotal
            /\ NextPage(client.bytes + size, cursor)
            /\ got' = [got EXCEPT ![Cik] = @ \o items]
<1>1. /\ client.bytes \in Nat /\ client.sum \in Nat /\ MaxTotal \in Nat
      /\ client.release \in {None, deployed}
  BY PagingAssumption DEF TypeOK, Accepted
<1>2. /\ client.bytes + size \in Nat
      /\ client.sum + (client.bytes + size) = client.sum + client.bytes + size
      /\ client.sum + client.bytes + size \in Nat
  BY <1>1
<1>3. "TOTAL_BUDGET" \in Refusals /\ "PAGE_BUDGET" \in Refusals
  BY DEF Refusals, Errors
<1>4. \/ Fail("TOTAL_BUDGET") \/ Fail("PAGE_BUDGET")
      \/ /\ cursor = None /\ client.sum + (client.bytes + size) <= MaxTotal
         /\ NextCompany(client.sum + (client.bytes + size))
         /\ got' = [got EXCEPT ![Cik] = @ \o items]
      \/ /\ cursor # None /\ client.pages + 1 < MaxPages /\ client.bytes + size <= MaxTotal
         /\ NextPage(client.bytes + size, cursor)
         /\ got' = [got EXCEPT ![Cik] = @ \o items]
  BY <1>1, Zenon DEF Receive
<1> QED BY <1>1, <1>2, <1>3, <1>4

\* Where the company under way stands when a request of it is answered.
LEMMA Standing ==
  ASSUME CollectedInv, Fetching, Accepted
  PROVE  /\ Cik \in Ciks /\ client.at \in 1..Len(Order) /\ Cik = Order[client.at]
         /\ deployed \in Releases /\ Offset \in 0..Size(deployed, Cik)
         /\ client.cursor # None => Offset < Size(deployed, Cik) /\ client.release = deployed
         /\ got[Cik] = Items(deployed, Cik, 0, Offset)
<1>1. TypeOK /\ client.at \in 1..Len(Order) /\ Cik \in Ciks /\ deployed \in Releases
  BY OrderFacts DEF CollectedInv, TypeOK, Cik
<1>2. CASE client.cursor = None
  <2>1. Offset = 0 /\ Size(deployed, Cik) \in Nat
    BY <1>1, <1>2, SizeType DEF Offset
  <2>2. got[Cik] = Items(client.release, Cik, 0, 0)
    BY <2>1 DEF CollectedInv, PrefixInv
  <2> QED BY <1>1, <1>2, <2>1, <2>2, NoItems DEF Cik
<1>3. CASE client.cursor # None
  <2>1. /\ client.release # None /\ Offset = client.cursor.offset
        /\ Offset \in 1..(Size(client.release, Cik) - 1)
    BY <1>3 DEF CollectedInv, CursorInv, Offset
  <2>2. client.release = deployed
    BY <2>1 DEF Accepted
  <2>3. got[Cik] = Items(client.release, Cik, 0, Offset)
    BY DEF CollectedInv, PrefixInv
  <2>4. Size(deployed, Cik) \in Nat
    BY <1>1, SizeType
  <2> QED BY <1>1, <2>1, <2>2, <2>3, <2>4 DEF Cik
<1> QED BY <1>2, <1>3

\* Going on to the next company, or to the combination, once this one is whole
\* or queued.
LEMMA NextCompanyKeeps ==
  ASSUME CollectedInv, Fetching, Accepted, NEW sum \in 0..MaxTotal, NextCompany(sum),
         UNCHANGED <<deployed, computed>>,
         got' \in [Ciks -> Seq(Releases \X Ciks \X (Nat \ {0}))],
         \A c \in Ciks \ {Cik} : got'[c] = got[c],
         queued' \in {queued, queued \cup {Cik}},
         Cik \in queued' \/ got'[Cik] = Whole(deployed, Cik)
  PROVE  CollectedInv'
<1> USE DEF Fetching
<1>1. /\ Cik \in Ciks /\ Cik = Order[client.at] /\ client.at \in 1..Len(Order)
      /\ deployed \in Releases /\ client \in ClientType /\ queued \subseteq Ciks
  BY Standing DEF CollectedInv, TypeOK, ClientType
<1>2. /\ client'.release = deployed /\ client'.cursor = None /\ client'.seen = {}
      /\ client'.pages = 0 /\ client'.err = client.err
      /\ \/ client.at = Len(Order) /\ client'.pc = "combine" /\ client'.at = client.at
         \/ client.at < Len(Order) /\ client'.pc = "fetch" /\ client'.at = client.at + 1
  BY <1>1, OrderFacts DEF NextCompany, ClientType
<1>3. client' \in ClientType
  <2>1. client' = [client EXCEPT !.pc = client'.pc, !.at = client'.at, !.release = deployed,
                     !.cursor = None, !.seen = {}, !.pages = 0, !.bytes = 0, !.sum = sum]
    BY <1>1 DEF NextCompany, ClientType
  <2>2. /\ client'.pc \in {"fetch", "combine", "done", "failed"}
        /\ client'.at \in 1..Len(Order) /\ 0 \in 0..(MaxPages - 1) /\ 0 \in 0..MaxTotal
    <3>1. 0 \in 0..(MaxPages - 1) /\ 0 \in 0..MaxTotal
      BY PagingAssumption
    <3>2. client'.at \in 1..Len(Order)
      <4>1. client.at \in 1..Len(Order) /\ Len(Order) \in Nat
        BY <1>1, OrderFacts
      <4>2. \/ client'.at = client.at
            \/ client.at < Len(Order) /\ client'.at = client.at + 1
        BY <1>2
      <4> QED BY <4>1, <4>2
    <3> QED BY <1>2, <3>1, <3>2
  <2> QED BY <1>1, <2>1, <2>2 DEF ClientType
<1>4. TypeOK'
  BY <1>1, <1>3 DEF CollectedInv, TypeOK, ClientType
\* The companies up to this one.
<1>5. \A i \in 1..client.at : Order[i] \notin queued' =>
        got'[Order[i]] = Whole(deployed, Order[i])
  <2> SUFFICES ASSUME NEW i \in 1..client.at, Order[i] \notin queued'
               PROVE  got'[Order[i]] = Whole(deployed, Order[i])
    OBVIOUS
  <2>1. CASE i = client.at
    BY <2>1, <1>1
  <2>2. CASE i # client.at
    <3>1. i \in 1..(client.at - 1) /\ i \in 1..Len(Order) /\ client.at > 1
      <4>1. client.at \in 1..Len(Order) /\ Len(Order) \in Nat
        BY <1>1, OrderFacts
      <4> QED BY <4>1, <2>2
    <3>2. Order[i] \in Ciks \ {Cik}
      BY <3>1, <2>2, <1>1, OrderFacts
    <3>3. got[Order[i]] = Whole(client.release, Order[i]) /\ client.release # None
      BY <3>1 DEF CollectedInv, OthersInv
    <3>4. client.release = deployed
      BY <3>3 DEF Accepted
    <3> QED BY <3>2, <3>3, <3>4
  <2> QED BY <2>1, <2>2
\* The companies after it.
<1>6. \A i \in (client.at + 1)..Len(Order) : got'[Order[i]] = <<>> /\ Order[i] \notin queued'
  <2> SUFFICES ASSUME NEW i \in (client.at + 1)..Len(Order)
               PROVE  got'[Order[i]] = <<>> /\ Order[i] \notin queued'
    OBVIOUS
  <2>1. i \in 1..Len(Order) /\ i \in client.at..Len(Order) /\ i # client.at
    BY <1>1, OrderFacts
  <2>2. Order[i] \in Ciks \ {Cik}
    BY <2>1, <1>1, OrderFacts
  <2> QED BY <2>1, <2>2 DEF CollectedInv, OthersInv
<1>7. CASE client'.pc = "combine"
  <2>1. \A i \in 1..Len(Order) : Order[i] \notin queued' =>
          got'[Order[i]] = Whole(client'.release, Order[i])
    BY <1>2, <1>5, <1>7
  <2> QED BY <1>2, <1>4, <1>7, <2>1
          DEF CollectedInv, CursorInv, PrefixInv, OthersInv, SeenInv, CompleteIsWhole,
              WorkerRefusesFirst
<1>8. CASE client'.pc = "fetch"
  <2>1. /\ client'.at = client.at + 1 /\ client.at < Len(Order)
        /\ Cik' = Order[client.at + 1] /\ Offset' = 0
    BY <1>2, <1>8 DEF Cik, Offset
  <2>2. PrefixInv'
    <3>1. client.at + 1 \in (client.at + 1)..Len(Order)
      BY <2>1, <1>1, OrderFacts
    <3> QED BY <3>1, <2>1, <1>6, NoItems DEF PrefixInv
  <2>3. OthersInv'
    <3>1. \A i \in 1..(client'.at - 1) : i \in 1..client.at
      BY <2>1, <1>1
    <3>2. \A i \in client'.at..Len(Order) : i \in (client.at + 1)..Len(Order)
      BY <2>1, <1>1
    <3>3. \A i \in (client'.at + 1)..Len(Order) : i \in (client.at + 1)..Len(Order)
      BY <2>1, <1>1, OrderFacts
    <3>4. deployed # None
      BY <1>1, PagingAssumption
    <3> QED BY <3>1, <3>2, <3>3, <3>4, <1>2, <1>5, <1>6 DEF OthersInv
  <2> QED BY <1>2, <1>4, <1>8, <2>1, <2>2, <2>3
          DEF CollectedInv, CursorInv, SeenInv, CompleteIsWhole, WorkerRefusesFirst
<1> QED BY <1>2, <1>7, <1>8

\* Going on to the next page of the company.
LEMMA NextPageKeeps ==
  ASSUME CollectedInv, Fetching, Accepted, NEW bytes \in 0..MaxTotal, NEW cursor,
         NEW end \in 1..(Size(deployed, Cik) - 1), end > Offset,
         cursor = [query |-> Cik, release |-> deployed, offset |-> end],
         client.pages + 1 < MaxPages, NextPage(bytes, cursor),
         UNCHANGED <<deployed, computed, queued>>,
         got' \in [Ciks -> Seq(Releases \X Ciks \X (Nat \ {0}))],
         \A c \in Ciks \ {Cik} : got'[c] = got[c],
         got'[Cik] = Items(deployed, Cik, 0, end)
  PROVE  CollectedInv'
<1> USE DEF Fetching
<1>1. /\ Cik \in Ciks /\ Cik = Order[client.at] /\ client.at \in 1..Len(Order)
      /\ deployed \in Releases /\ client \in ClientType /\ Size(deployed, Cik) \in Nat
      /\ Offset \in Nat /\ deployed # None
  <2>1. /\ Cik \in Ciks /\ Cik = Order[client.at] /\ client.at \in 1..Len(Order)
        /\ deployed \in Releases /\ Offset \in 0..Size(deployed, Cik)
    BY Standing
  <2>2. Size(deployed, Cik) \in Nat /\ Offset \in Nat
    BY <2>1, SizeType
  <2>3. client \in ClientType
    BY DEF CollectedInv, TypeOK, ClientType
  <2> QED BY <2>1, <2>2, <2>3, PagingAssumption
<1>2. cursor \in Cursors /\ cursor # None /\ cursor.offset = end
      /\ cursor.release = deployed /\ cursor.query = Cik
  <2>1. end \in Nat
    BY <1>1
  <2>2. cursor \in Cursors
    BY <1>1, <2>1 DEF Cursors
  <2>3. None \notin Cursors
    BY PagingAssumption DEF Cursors
  <2> QED BY <2>2, <2>3
<1>3. /\ client'.pc = "fetch" /\ client'.at = client.at /\ client'.release = deployed
      /\ client'.cursor = cursor /\ client'.seen = client.seen \cup {cursor}
      /\ client'.pages = client.pages + 1 /\ client'.err = client.err
  BY <1>1 DEF NextPage, ClientType
<1>4. client' \in ClientType
  <2>1. client.pages + 1 \in 0..(MaxPages - 1)
    <3>1. client.pages \in 0..(MaxPages - 1) /\ MaxPages \in Nat
      BY <1>1, PagingAssumption DEF ClientType
    <3> QED BY <3>1
  <2> QED BY <1>1, <1>2, <2>1 DEF NextPage, ClientType
<1>5. TypeOK'
  BY <1>4, <1>1 DEF CollectedInv, TypeOK, ClientType
<1>6. Cik' = Cik /\ Offset' = end
  BY <1>2, <1>3 DEF Cik, Offset
<1>7. CursorInv'
  BY <1>1, <1>2, <1>3, <1>6 DEF CursorInv, Size
<1>8. PrefixInv'
  BY <1>3, <1>6 DEF PrefixInv
<1>9. OthersInv'
  <2>1. \A i \in 1..(client.at - 1) : Order[i] \notin queued =>
          got'[Order[i]] = Whole(deployed, Order[i])
    <3> SUFFICES ASSUME NEW i \in 1..(client.at - 1), Order[i] \notin queued
                 PROVE  got'[Order[i]] = Whole(deployed, Order[i])
      OBVIOUS
    <3>1. i \in 1..Len(Order) /\ i # client.at /\ client.at > 1
      <4>1. client.at \in 1..Len(Order) /\ Len(Order) \in Nat
        BY <1>1, OrderFacts
      <4> QED BY <4>1
    <3>2. Order[i] \in Ciks \ {Cik}
      BY <3>1, <1>1, OrderFacts
    <3>3. got[Order[i]] = Whole(client.release, Order[i]) /\ client.release # None
      BY <3>1 DEF CollectedInv, OthersInv
    <3> QED BY <3>2, <3>3 DEF Accepted
  <2>2. \A i \in (client.at + 1)..Len(Order) : got'[Order[i]] = <<>>
    <3> SUFFICES ASSUME NEW i \in (client.at + 1)..Len(Order) PROVE got'[Order[i]] = <<>>
      OBVIOUS
    <3>1. i \in 1..Len(Order) /\ i # client.at
      <4>1. client.at \in 1..Len(Order) /\ Len(Order) \in Nat
        BY <1>1, OrderFacts
      <4> QED BY <4>1
    <3>2. Order[i] \in Ciks \ {Cik}
      BY <3>1, <1>1, OrderFacts
    <3> QED BY <3>2 DEF CollectedInv, OthersInv
  <2> QED BY <1>1, <1>3, <2>1, <2>2 DEF CollectedInv, OthersInv
<1>10. SeenInv'
  <2>1. \A x \in client.seen : x \in Cursors /\ x.offset \in Nat /\ x.offset <= Offset
    BY <1>1 DEF CollectedInv, SeenInv, ClientType, Cursors
  <2>2. \A x \in client.seen \cup {cursor} : x.offset <= end
    BY <1>1, <1>2, <2>1
  <2>3. client.pages \in Nat /\ client.pages <= Offset
    BY <1>1, PagingAssumption DEF CollectedInv, SeenInv, ClientType
  <2> QED BY <1>1, <1>3, <1>6, <2>2, <2>3 DEF SeenInv
<1> QED BY <1>3, <1>5, <1>7, <1>8, <1>9, <1>10
        DEF CollectedInv, CompleteIsWhole, WorkerRefusesFirst

LEMMA FetchPageKeeps == CollectedInv /\ FetchPage => CollectedInv'
<1> SUFFICES ASSUME CollectedInv, FetchPage PROVE CollectedInv'
  OBVIOUS
<1>1. /\ Fetching /\ Accepted /\ UNCHANGED <<deployed, computed, queued>>
      /\ TypeOK /\ WorkerRefusesFirst
  BY DEF FetchPage, Fetching, CollectedInv
<1>2. PICK end \in Fitting(deployed, Cik, Offset) :
        Receive(Bytes(deployed, Cik, Offset, end), Items(deployed, Cik, Offset, end),
                Cursor(deployed, Cik, Offset, end))
  BY DEF FetchPage
<1> DEFINE size == Bytes(deployed, Cik, Offset, end)
           items == Items(deployed, Cik, Offset, end)
           cursor == Cursor(deployed, Cik, Offset, end)
<1>3. /\ Cik \in Ciks /\ deployed \in Releases /\ Offset \in 0..Size(deployed, Cik)
      /\ client.cursor # None => Offset < Size(deployed, Cik)
      /\ got[Cik] = Items(deployed, Cik, 0, Offset) /\ Size(deployed, Cik) \in Nat
  BY <1>1, Standing, SizeType
<1>4. /\ end \in Offset..Size(deployed, Cik)
      /\ Offset < Size(deployed, Cik) => end > Offset
  BY <1>2, <1>3, FittingRange
<1>5. size \in Nat
  BY <1>3, <1>4, BytesType
<1>6. /\ cursor = None => end = Size(deployed, Cik)
      /\ cursor # None => /\ end < Size(deployed, Cik) /\ end > Offset
                          /\ cursor = [query |-> Cik, release |-> deployed, offset |-> end]
  BY <1>3, <1>4, PagingAssumption DEF Cursor
<1>7. cursor \notin client.seen
  <2>1. \A x \in client.seen : x # None /\ x.offset \in Nat /\ x.offset <= Offset
    BY <1>1, PagingAssumption DEF CollectedInv, SeenInv, TypeOK, Cursors
  <2>2. cursor # None => cursor.offset = end
    BY <1>6
  <2> HIDE DEF cursor
  <2> QED BY <2>1, <2>2, <1>3, <1>6
<1>8. /\ got[Cik] \o items = Items(deployed, Cik, 0, end)
      /\ Items(deployed, Cik, 0, end) \in Seq(Releases \X Ciks \X (Nat \ {0}))
  <2>1. Offset \in Nat /\ end \in Nat /\ Offset <= end /\ 0 <= end
    BY <1>3, <1>4
  <2>2. Items(deployed, Cik, 0, Offset) \o Items(deployed, Cik, Offset, end)
          = Items(deployed, Cik, 0, end)
    BY <2>1, ItemsJoin
  <2>3. Items(deployed, Cik, 0, end) \in Seq(Releases \X Ciks \X (Nat \ {0}))
    BY <2>1, <1>3, ItemsType
  <2> QED BY <1>3, <2>2, <2>3
<1> HIDE DEF size, items, cursor
<1>9. ASSUME got' = [got EXCEPT ![Cik] = @ \o items]
      PROVE  /\ got' \in [Ciks -> Seq(Releases \X Ciks \X (Nat \ {0}))]
             /\ \A c \in Ciks \ {Cik} : got'[c] = got[c]
             /\ got'[Cik] = Items(deployed, Cik, 0, end)
  BY <1>1, <1>3, <1>8, <1>9 DEF TypeOK
<1>10. \/ \E code \in Refusals : Fail(code)
       \/ /\ cursor = None
          /\ client.sum + client.bytes + size \in 0..MaxTotal
          /\ NextCompany(client.sum + client.bytes + size)
          /\ got' = [got EXCEPT ![Cik] = @ \o items]
       \/ /\ cursor # None /\ client.pages + 1 < MaxPages
          /\ client.bytes + size \in 0..MaxTotal
          /\ NextPage(client.bytes + size, cursor)
          /\ got' = [got EXCEPT ![Cik] = @ \o items]
  <2>1. Receive(size, items, cursor)
    BY <1>2 DEF size, items, cursor
  <2> QED BY <1>1, <1>5, <1>7, <2>1, ReceiveCases
<1>11. CASE \E code \in Refusals : Fail(code)
  BY <1>1, <1>11, FailKeeps DEF TypeOK
<1>12. CASE /\ cursor = None
            /\ client.sum + client.bytes + size \in 0..MaxTotal
            /\ NextCompany(client.sum + client.bytes + size)
            /\ got' = [got EXCEPT ![Cik] = @ \o items]
  <2>1. got'[Cik] = Whole(deployed, Cik)
    BY <1>6, <1>9, <1>12 DEF Whole
  <2> QED BY <1>1, <1>9, <1>12, <2>1, NextCompanyKeeps
<1>13. CASE /\ cursor # None /\ client.pages + 1 < MaxPages
            /\ client.bytes + size \in 0..MaxTotal
            /\ NextPage(client.bytes + size, cursor)
            /\ got' = [got EXCEPT ![Cik] = @ \o items]
  <2>1. end \in 1..(Size(deployed, Cik) - 1) /\ end > Offset
    BY <1>3, <1>4, <1>6, <1>13
  <2> QED BY <1>1, <1>6, <1>9, <1>13, <2>1, NextPageKeeps
<1> QED BY <1>10, <1>11, <1>12, <1>13

LEMMA FetchQueuedKeeps == CollectedInv /\ FetchQueued => CollectedInv'
<1> SUFFICES ASSUME CollectedInv, FetchQueued PROVE CollectedInv'
  OBVIOUS
<1>1. /\ Fetching /\ Accepted /\ UNCHANGED <<deployed, computed>>
      /\ queued' = queued \cup {Cik} /\ Receive(0, <<>>, None)
      /\ TypeOK /\ WorkerRefusesFirst
  BY DEF FetchQueued, Fetching, CollectedInv
<1>2. Cik \in Ciks
  BY <1>1, Standing
<1>3. None \notin client.seen
  BY <1>1, PagingAssumption DEF TypeOK, Cursors
<1>4. \/ \E code \in Refusals : Fail(code)
      \/ /\ client.sum + client.bytes + 0 \in 0..MaxTotal
         /\ NextCompany(client.sum + client.bytes + 0)
         /\ got' = [got EXCEPT ![Cik] = @ \o <<>>]
  BY <1>1, <1>3, ReceiveCases
<1>5. CASE \E code \in Refusals : Fail(code)
  BY <1>1, <1>2, <1>5, FailKeeps DEF TypeOK
<1>6. CASE /\ client.sum + client.bytes + 0 \in 0..MaxTotal
           /\ NextCompany(client.sum + client.bytes + 0)
           /\ got' = [got EXCEPT ![Cik] = @ \o <<>>]
  <2>1. got[Cik] \in Seq(Releases \X Ciks \X (Nat \ {0}))
    BY <1>1, <1>2 DEF TypeOK
  <2>2. got[Cik] \o <<>> = got[Cik]
    BY <2>1, ConcatEmptySeq
  <2>3. /\ got' \in [Ciks -> Seq(Releases \X Ciks \X (Nat \ {0}))]
        /\ \A c \in Ciks \ {Cik} : got'[c] = got[c]
    BY <1>1, <1>2, <1>6, <2>1, <2>2 DEF TypeOK
  <2> QED BY <1>1, <1>6, <2>3, NextCompanyKeeps
<1> QED BY <1>4, <1>5, <1>6

LEMMA FetchRefusedKeeps == CollectedInv /\ FetchRefused => CollectedInv'
<1> SUFFICES ASSUME CollectedInv, FetchRefused PROVE CollectedInv'
  OBVIOUS
<1>1. Fetching /\ UNCHANGED <<deployed, computed, queued>> /\ queued \subseteq Ciks
  BY DEF FetchRefused, Fetching, CollectedInv, TypeOK
\* A cursor of another release comes with a release that is no longer deployed.
<1>2. client.release \in {None, deployed} => Accepted
  BY <1>1 DEF CollectedInv, CursorInv, Accepted
<1>3. /\ "SOURCE_VERSION_CHANGED" \in Refusals /\ "SINGLE_RECORD" \in Refusals
      /\ "TRANSPORT" \in Refusals
  BY DEF Refusals, Errors
<1>4. Fail("SOURCE_VERSION_CHANGED") \/ Fail("SINGLE_RECORD") \/ Fail("TRANSPORT")
  BY <1>2 DEF FetchRefused
<1> QED BY <1>1, <1>3, <1>4, FailKeeps

LEMMA OtherKeeps ==
  CollectedInv /\ (Combine \/ Deploy \/ Materialize \/ UNCHANGED vars) => CollectedInv'
<1> SUFFICES ASSUME CollectedInv, Combine \/ Deploy \/ Materialize \/ UNCHANGED vars
             PROVE  CollectedInv'
  OBVIOUS
<1>1. CASE Combine
  <2>1. UNCHANGED <<deployed, computed, queued>> /\ client.pc = "combine"
    BY <1>1 DEF Combine
  <2>2. Fail("COMMON_CUTOFF") \/ (client' = [client EXCEPT !.pc = "done"] /\ UNCHANGED got)
    BY <1>1 DEF Combine
  <2>3. CASE Fail("COMMON_CUTOFF")
    BY <2>1, <2>3, FailKeeps DEF Refusals, Errors, CollectedInv, TypeOK
  <2>4. CASE client' = [client EXCEPT !.pc = "done"] /\ UNCHANGED got
    <3>1. /\ client' \in ClientType /\ client'.pc = "done" /\ client'.err = client.err
          /\ client'.release = client.release
      BY <2>4 DEF CollectedInv, TypeOK, ClientType
    <3>2. TypeOK'
      BY <2>1, <2>4, <3>1 DEF CollectedInv, TypeOK, ClientType
    <3> QED BY <2>1, <2>4, <3>1, <3>2
            DEF CollectedInv, CursorInv, PrefixInv, OthersInv, SeenInv, CompleteIsWhole,
                WorkerRefusesFirst, Fetching
  <2> QED BY <2>2, <2>3, <2>4
<1>2. CASE Deploy \/ Materialize \/ UNCHANGED vars
  <2>1. UNCHANGED <<client, got, queued>>
    BY <1>2 DEF Deploy, Materialize, vars
  <2>2. deployed' \in Releases /\ computed' \subseteq Releases \X Ciks
    BY <1>2 DEF Deploy, Materialize, vars, CollectedInv, TypeOK
  <2> QED BY <2>1, <2>2
          DEF CollectedInv, TypeOK, CursorInv, PrefixInv, OthersInv, SeenInv, CompleteIsWhole,
              WorkerRefusesFirst, Fetching, Cik, Offset
<1> QED BY <1>1, <1>2

THEOREM Invariance == Spec => []CollectedInv
<1>1. CollectedInv /\ [Next]_vars => CollectedInv'
  BY FetchPageKeeps, FetchQueuedKeeps, FetchRefusedKeeps, OtherKeeps DEF Next, Client
<1> QED BY <1>1, Init_Collected, PTL DEF Spec

-----------------------------------------------------------------------------
\* Every variable keeps its type; no budget is ever exceeded.
THEOREM TypeCorrect == Spec => []TypeOK
  BY Invariance, PTL DEF CollectedInv

\* A complete collection has every item of one release, in order and once each
\* (collect_history and compare).
THEOREM CompleteCollectionsAreWhole == Spec => []CompleteIsWhole
  BY Invariance, PTL DEF CollectedInv

\* The Worker refuses a request before the client's own checks could fire.
THEOREM TheWorkerRefusesFirst == Spec => []WorkerRefusesFirst
  BY Invariance, PTL DEF CollectedInv

\* Every page brings items, and the next one starts where they end.
THEOREM EveryPageAdvances == Spec => []PagesAdvance
<1>1. CollectedInv => PagesAdvance
  <2> SUFFICES ASSUME CollectedInv, Fetching
               PROVE  Offset = Len(got[Cik]) /\ client.pages <= Offset
    BY DEF PagesAdvance, Fetching
  <2>1. Len(Items(client.release, Cik, 0, Offset)) = Offset
    <3>1. Offset \in Nat
      BY DEF CollectedInv, TypeOK, Cursors, Offset
    <3> QED BY <3>1 DEF Items
  <2> QED BY <2>1 DEF CollectedInv, PrefixInv, SeenInv
<1> QED BY <1>1, Invariance, PTL

-----------------------------------------------------------------------------
(* The other read APIs.  First what a cursor is bound to when it is sent back, then what the pages
   up to it hold. *)

\* The price histories bind the page size and want the release stated beside a cursor; the
\* others bind what was stated.
PriceHistories == {"series", "latest", "stored"}
AskerFields ==
  {"pc", "api", "loop", "limit", "stated", "cursor", "rows", "pages", "seen", "pinned",
   "resized", "since"}
AskerShape ==
  /\ asker = [f \in AskerFields |-> asker[f]]
  /\ asker.api \in Apis /\ asker.since \in Nat
  /\ asker.limit \in PageLimits /\ asker.stated \in Statable
  /\ {asker.loop, asker.pinned, asker.resized} \subseteq BOOLEAN
  /\ asker.loop => asker.api \in {"screen", "readiness", "unified"}
ServingShape == serving \in [release : Published, replaced : BOOLEAN, moves : Nat]

\* A page of a stored history is under way only while its caller waits.
AnsweringHolds ==
  answering # Nothing => asker.pc = "ask" /\ asker.api = "stored"

\* The first request states nothing but the release deployed when it was begun.
FirstHolds ==
  asker.pc = "ask" /\ asker.cursor = Nothing =>
    /\ asker.since = 0
    /\ serving.moves = 0 => AsStated(Request)

\* A cursor is of the release that was deployed with the first page, and of the query it is
\* sent back with.
CursorHolds ==
  asker.pc = "ask" /\ asker.cursor # Nothing =>
    /\ serving.moves = asker.since => asker.cursor.release = serving.release /\ AsStated(Request)
    /\ asker.api \in PriceHistories =>
         /\ asker.stated = asker.cursor.release
         /\ ~asker.resized => OfThisQuery(Request)
    /\ asker.api \notin PriceHistories /\ (asker.loop => asker.pinned) => OfThisQuery(Request)

\* A release stated from the first page on stays stated; the readiness of issuers has none.
StatedHolds ==
  asker.pc = "ask" =>
    /\ asker.loop /\ asker.pinned => asker.api # "readiness" /\ asker.stated # Nothing
    /\ asker.api = "readiness" /\ ~asker.loop => asker.stated = Nothing
    /\ asker.since <= serving.moves

ReadInv ==
  /\ AskerShape /\ ServingShape /\ AnsweringHolds /\ FirstHolds /\ CursorHolds /\ StatedHolds
  /\ FollowersAreServed

-----------------------------------------------------------------------------
\* What a request that is taken states and brings.
LEMMA AcceptedFacts ==
  ASSUME AskerShape, Accepts(Request)
  PROVE  /\ AsStated(Request)
         /\ asker.cursor # Nothing /\ asker.cursor.release \in Published =>
              asker.cursor.release = serving.release
<1>1. asker.api \in {"series", "latest", "stored", "screen", "readiness", "unified"}
  BY ReadAssumption DEF AskerShape
<1>2. Nothing \notin Published
  BY ReadAssumption
<1>3. asker.api = "latest" => Stated(serving.release) = serving.release
  BY DEF Stated
<1>4. Request.cursor = asker.cursor
  BY DEF Request
<1> QED
  BY <1>1, <1>2, <1>3, <1>4
  DEF Accepts, SeriesAccepts, LatestAccepts, ScreenAccepts, ReadinessAccepts, UnifiedAccepts, AsStated

\* Nobody is refused without a reason.
LEMMA RefusedFacts ==
  ASSUME ReadInv, asker.pc = "ask", ~Accepts(Request), serving.moves = asker.since
  PROVE  \/ asker.loop /\ ~asker.pinned
         \/ asker.resized /\ asker.api \in PriceHistories
<1> SUFFICES ASSUME asker.loop => asker.pinned,
                    ~(asker.resized /\ asker.api \in PriceHistories)
             PROVE  FALSE
  BY DEF ReadInv, AskerShape
<1>1. AsStated(Request)
  BY DEF ReadInv, FirstHolds, CursorHolds
<1>2. asker.api = "readiness" => Request.stated = Nothing
  BY DEF ReadInv, StatedHolds, AskerShape, Request
<1>3. Request.cursor # Nothing =>
        /\ OfThisQuery(Request) /\ Request.cursor.release = serving.release
        /\ asker.api \in PriceHistories => Request.stated = Request.cursor.release
  BY DEF ReadInv, CursorHolds, Request, AskerShape
<1>4. asker.api \in {"series", "latest", "stored", "screen", "readiness", "unified"}
  BY ReadAssumption DEF ReadInv, AskerShape
<1> QED
  BY <1>1, <1>2, <1>3, <1>4
  DEF Accepts, SeriesAccepts, LatestAccepts, ScreenAccepts, ReadinessAccepts, UnifiedAccepts,
      PriceHistories

LEMMA Init_ReadInv == ReadInit => ReadInv
<1> SUFFICES ASSUME ReadInit PROVE ReadInv OBVIOUS
<1>1. PICK r \in Published : serving = [release |-> r, replaced |-> FALSE, moves |-> 0]
  BY DEF ReadInit
<1>2. PICK api \in Apis, loop \in BOOLEAN, limit \in PageLimits, known \in {Nothing, serving.release} :
        /\ loop => api \in {"screen", "readiness", "unified"}
        /\ api = "readiness" => known = Nothing
        /\ LET stated == IF known = Nothing THEN Nothing
                         ELSE IF api = "unified" THEN known.sources ELSE known
           IN  asker = [pc |-> "ask", api |-> api, loop |-> loop, limit |-> limit,
                        stated |-> stated, cursor |-> Nothing, rows |-> <<>>, pages |-> 0,
                        seen |-> {}, pinned |-> stated # Nothing, resized |-> FALSE, since |-> 0]
  BY DEF ReadInit
<1> DEFINE stated == IF known = Nothing THEN Nothing
                     ELSE IF api = "unified" THEN known.sources ELSE known
           pinned == stated # Nothing
<1>3. asker = [pc |-> "ask", api |-> api, loop |-> loop, limit |-> limit,
               stated |-> stated, cursor |-> Nothing, rows |-> <<>>, pages |-> 0,
               seen |-> {}, pinned |-> pinned, resized |-> FALSE, since |-> 0]
  BY <1>2
<1>4. stated \in {Nothing, Stated(serving.release)}
  BY <1>2, <1>3 DEF Stated
<1>5. pinned \in BOOLEAN /\ (pinned => stated # Nothing) /\ (api = "readiness" => stated = Nothing)
  BY <1>2
<1> HIDE DEF stated, pinned
<1>6. AskerShape
  <2>1. asker = [f \in AskerFields |-> asker[f]]
    BY <1>3, Zenon DEF AskerFields
  <2>2. /\ asker.api = api /\ asker.loop = loop /\ asker.since = 0
        /\ asker.limit = limit /\ asker.stated = stated
        /\ asker.pinned = pinned /\ asker.resized = FALSE
    BY <1>3
  <2>3. stated \in Statable
    BY <1>1, <1>4 DEF Stated, Statable
  <2> QED BY <1>2, <1>5, <2>1, <2>2, <2>3 DEF AskerShape
<1>7. ServingShape
  BY <1>1 DEF ServingShape
<1>8. AnsweringHolds
  BY DEF ReadInit, AnsweringHolds
<1>9. FirstHolds
  BY <1>3, <1>4 DEF FirstHolds, AsStated, Request
<1>10. CursorHolds
  BY <1>3 DEF CursorHolds
<1>11. StatedHolds
  BY <1>1, <1>3, <1>5 DEF StatedHolds
<1>12. FollowersAreServed
  BY <1>3 DEF FollowersAreServed
<1> QED BY <1>6, <1>7, <1>8, <1>9, <1>10, <1>11, <1>12 DEF ReadInv

\* A caller that stops is at rest in what its release and its request were.
LEMMA End_ReadInv ==
  ASSUME ReadInv, NEW pc \in {"failed", "refused"}, End(pc), UNCHANGED serving, answering' = Nothing,
         pc = "refused" => FollowersAreServed'
  PROVE  ReadInv'
<1>1. /\ asker' = [f \in AskerFields |-> asker'[f]]
      /\ asker'.pc = pc /\ asker'.api = asker.api /\ asker'.since = asker.since
      /\ asker'.loop = asker.loop /\ asker'.pinned = asker.pinned /\ asker'.resized = asker.resized
      /\ asker'.limit = asker.limit /\ asker'.stated = asker.stated
  BY DEF ReadInv, AskerShape, AskerFields, End
<1>2. AskerShape'
  BY <1>1 DEF ReadInv, AskerShape
<1> QED
  BY <1>1, <1>2 DEF ReadInv, ServingShape, AnsweringHolds, FirstHolds, CursorHolds, StatedHolds,
     FollowersAreServed

\* A page taken leaves a cursor of the release deployed now, for the request that follows.
LEMMA Take_ReadInv ==
  ASSUME ReadInv, asker.pc = "ask", asker.api = "stored" \/ AsStated(Request),
         NEW rows, NEW cursor, NEW place, cursor \in {Nothing, CursorOf(Request, place)},
         Take(rows, cursor), UNCHANGED serving, answering' = Nothing
  PROVE  ReadInv'
<1> DEFINE page == Stated(serving.release)
           first == asker.cursor = Nothing
           all == asker.rows \o rows
           since == IF first THEN serving.moves ELSE asker.since
           next == [asker EXCEPT !.rows = all, !.cursor = cursor, !.since = since]
<1>s. ServingShape' /\ serving.moves \in Nat
  BY DEF ReadInv, ServingShape
<1>p. page \in Statable
  BY <1>s DEF ReadInv, ServingShape, Stated, Statable
<1>n. since \in Nat /\ since <= serving.moves /\ (asker.cursor # Nothing => since = asker.since)
  BY <1>s DEF ReadInv, AskerShape, StatedHolds
<1> HIDE DEF since, all
<1>a. /\ next = [f \in AskerFields |-> next[f]]
      /\ next.pc = "ask" /\ next.api = asker.api /\ next.loop = asker.loop /\ next.since = since
      /\ next.stated = asker.stated /\ next.cursor = cursor /\ next.pinned = asker.pinned
      /\ next.resized = asker.resized /\ next.limit = asker.limit
      /\ next.pages = asker.pages /\ next.seen = asker.seen
  BY DEF ReadInv, AskerShape, AskerFields
<1>1. CASE cursor = Nothing /\ asker' = [next EXCEPT !.pc = "complete"]
  <2> HIDE DEF next
  <2>1. /\ asker' = [f \in AskerFields |-> asker'[f]]
        /\ asker'.pc = "complete" /\ asker'.api = asker.api /\ asker'.since = since
        /\ asker'.limit = asker.limit /\ asker'.stated = asker.stated
        /\ asker'.loop = asker.loop /\ asker'.pinned = asker.pinned /\ asker'.resized = asker.resized
    BY <1>a, <1>1 DEF AskerFields
  <2>2. AskerShape'
    BY <2>1, <1>n DEF ReadInv, AskerShape
  <2> QED
    BY <2>1, <2>2, <1>s DEF ReadInv, AnsweringHolds, FirstHolds, CursorHolds, StatedHolds,
       FollowersAreServed
<1>2. CASE End("failed")
  BY <1>2, End_ReadInv
<1>3. ASSUME cursor # Nothing, asker.loop, first \/ asker.stated = page,
             asker' = [next EXCEPT !.stated = page, !.pages = asker.pages + 1,
                                   !.seen = asker.seen \cup {cursor}]
      PROVE  ReadInv'
  <2> DEFINE turns == asker.pages + 1
             seen == asker.seen \cup {cursor}
  <2> HIDE DEF next, turns, seen, page
  <2>1. asker' = [next EXCEPT !.stated = page, !.pages = turns, !.seen = seen]
    BY <1>3 DEF turns, seen
  <2>2. /\ asker' = [f \in AskerFields |-> asker'[f]]
        /\ asker'.pc = "ask" /\ asker'.api = asker.api /\ asker'.since = since
        /\ asker'.loop = asker.loop /\ asker'.pinned = asker.pinned /\ asker'.resized = asker.resized
        /\ asker'.stated = page /\ asker'.cursor = cursor /\ asker'.limit = asker.limit
    BY <1>a, <2>1 DEF AskerFields
  <2>3. AskerShape'
    BY <2>2, <1>n, <1>p DEF ReadInv, AskerShape
  <2>4. cursor.release = serving.release /\ cursor.query = Query(Request)
    BY <1>3 DEF CursorOf
  <2>5. asker.api \in {"screen", "readiness", "unified"} /\ asker.api # "stored"
    BY <1>3 DEF ReadInv, AskerShape
  <2>6. asker.pinned => asker.stated = page
    BY <1>3, <2>5 DEF ReadInv, StatedHolds, AsStated, Request, page
  <2>7. page = Stated(serving.release)' /\ asker'.stated = page
    BY <2>2 DEF page, Stated
  <2>8. asker.pinned => Query(Request)' = Query(Request)
    BY <2>2, <2>5, <2>6 DEF Query, Request
  <2>9. CursorHolds'
    BY <2>2, <2>4, <2>5, <2>7, <2>8, <1>3 DEF CursorHolds, AsStated, OfThisQuery, Request, PriceHistories
  <2>10. StatedHolds'
    BY <2>2, <2>5, <2>6, <1>n, <1>3 DEF ReadInv, StatedHolds
  <2> QED
    BY <2>2, <2>3, <2>9, <2>10, <1>s, <1>3 DEF ReadInv, AnsweringHolds, FirstHolds, FollowersAreServed
<1>4. ASSUME cursor # Nothing, ~asker.loop, NEW limit \in PageLimits,
             asker' = [next EXCEPT
                !.limit = limit, !.resized = asker.resized \/ limit # asker.limit,
                !.stated = IF asker.api \in {"series", "latest", "stored"} THEN page ELSE asker.stated]
      PROVE  ReadInv'
  <2> DEFINE resized == asker.resized \/ limit # asker.limit
             stated == IF asker.api \in {"series", "latest", "stored"} THEN page ELSE asker.stated
  <2>0. resized \in BOOLEAN /\ (~resized => ~asker.resized /\ limit = asker.limit)
    OBVIOUS
  <2>1. /\ asker.api \in PriceHistories => stated = page
        /\ asker.api \notin PriceHistories => stated = asker.stated
    BY DEF PriceHistories
  <2> HIDE DEF next, resized, stated, page
  <2>2. asker' = [next EXCEPT !.limit = limit, !.resized = resized, !.stated = stated]
    BY <1>4 DEF resized, stated
  <2>3. /\ asker' = [f \in AskerFields |-> asker'[f]]
        /\ asker'.pc = "ask" /\ asker'.api = asker.api /\ asker'.since = since
        /\ asker'.loop = asker.loop /\ asker'.pinned = asker.pinned /\ asker'.resized = resized
        /\ asker'.stated = stated /\ asker'.cursor = cursor /\ asker'.limit = limit
    BY <1>a, <2>2 DEF AskerFields
  <2>4. AskerShape'
    <3>1. stated \in Statable
      BY <1>p DEF stated, ReadInv, AskerShape
    <3> QED BY <2>3, <1>n, <2>0, <3>1, <1>4 DEF ReadInv, AskerShape
  <2>5. cursor.release = serving.release /\ cursor.query = Query(Request)
    BY <1>4 DEF CursorOf
  <2>6. page = Stated(serving.release)' /\ (asker.api \in PriceHistories => page = serving.release)
    BY <2>3 DEF page, Stated, PriceHistories
  <2>7. asker.api \notin PriceHistories => Query(Request)' = Query(Request)
    BY <2>3, <2>1 DEF Query, Request, PriceHistories
  <2>8. asker.api \in PriceHistories /\ ~resized => Query(Request)' = Query(Request)
    BY <2>3, <2>0 DEF Query, Request, PriceHistories
  <2>9. AsStated(Request)'
    <3>1. asker.api \notin PriceHistories => asker.stated \in {Nothing, page}
      BY DEF AsStated, Request, page, PriceHistories
    <3> QED BY <3>1, <2>1, <2>3, <2>6 DEF AsStated, Request
  <2>10. CursorHolds'
    BY <2>3, <2>1, <2>5, <2>6, <2>7, <2>8, <2>9, <1>4 DEF CursorHolds, OfThisQuery, Request
  <2>11. StatedHolds'
    BY <2>3, <2>1, <1>n, <1>4 DEF ReadInv, StatedHolds, PriceHistories
  <2> QED
    BY <2>3, <2>4, <2>10, <2>11, <1>s, <1>4 DEF ReadInv, AnsweringHolds, FirstHolds, FollowersAreServed
<1> USE DEF since, all
<1>5. \/ cursor = Nothing /\ asker' = [next EXCEPT !.pc = "complete"]
      \/ End("failed")
      \/ /\ cursor # Nothing /\ asker.loop /\ (first \/ asker.stated = page)
         /\ asker' = [next EXCEPT !.stated = page, !.pages = next.pages + 1,
                                  !.seen = next.seen \cup {cursor}]
      \/ /\ cursor # Nothing /\ ~asker.loop
         /\ \E limit \in PageLimits :
              asker' = [next EXCEPT
                !.limit = limit, !.resized = next.resized \/ limit # asker.limit,
                !.stated = IF asker.api \in {"series", "latest", "stored"} THEN page ELSE next.stated]
  BY Zenon DEF Take
<1> HIDE DEF next
<1> QED BY <1>1, <1>2, <1>3, <1>4, <1>5, <1>a, Zenon

LEMMA AskPage_ReadInv == ReadInv /\ AskPage => ReadInv'
<1> SUFFICES ASSUME ReadInv, AskPage PROVE ReadInv' OBVIOUS
<1> DEFINE all == Chosen(serving.release)
           from == IF Request.cursor = Nothing THEN 0 ELSE Request.cursor.at
           end == Least(from + Request.limit, Len(all))
           rows == SubSeq(all, from + 1, end)
           cursor == IF end < Len(all) THEN CursorOf(Request, end) ELSE Nothing
<1>1. asker.pc = "ask" /\ answering' = Nothing /\ AsStated(Request) /\ UNCHANGED serving
  BY AcceptedFacts DEF AskPage, ReadInv
<1>2. Take(rows, cursor)
  BY DEF AskPage, Page
<1>3. cursor \in {Nothing, CursorOf(Request, end)}
  OBVIOUS
<1> HIDE DEF cursor, rows, end
<1> QED BY <1>1, <1>2, <1>3, Take_ReadInv

LEMMA AskStored_ReadInv == ReadInv /\ AskStored => ReadInv'
<1> SUFFICES ASSUME ReadInv, AskStored PROVE ReadInv' OBVIOUS
<1>1. asker.pc = "ask" /\ asker.api = "stored" /\ UNCHANGED <<serving, asker>>
  BY DEF AskStored
<1> QED
  BY <1>1 DEF ReadInv, AskerShape, ServingShape, AnsweringHolds, FirstHolds, CursorHolds, StatedHolds,
     FollowersAreServed, AsStated, OfThisQuery, Query, Request, Stated

LEMMA Refuse_ReadInv == ReadInv /\ Refuse => ReadInv'
<1> SUFFICES ASSUME ReadInv, Refuse PROVE ReadInv' OBVIOUS
<1>1. asker.pc = "ask" /\ ~Accepts(Request) /\ End("refused") /\ UNCHANGED serving /\ answering' = Nothing
  BY DEF Refuse
<1>2. asker'.loop = asker.loop /\ asker'.pinned = asker.pinned /\ asker'.resized = asker.resized
      /\ asker'.api = asker.api /\ asker'.since = asker.since
  BY <1>1 DEF ReadInv, AskerShape, AskerFields, End
<1>3. FollowersAreServed'
  BY <1>1, <1>2, RefusedFacts DEF FollowersAreServed, PriceHistories
<1> QED BY <1>1, <1>3, End_ReadInv

LEMMA NativeRequest_ReadInv == ReadInv /\ NativeRequest => ReadInv'
<1> SUFFICES ASSUME ReadInv, NativeRequest PROVE ReadInv' OBVIOUS
<1>1. asker.api = "stored" /\ UNCHANGED serving /\ asker.pc = "ask"
  BY DEF NativeRequest, ReadInv, AnsweringHolds
<1>2. CASE serving.replaced /\ End("refused") /\ answering' = Nothing
  <2>1. asker'.api = "stored"
    BY <1>1, <1>2 DEF ReadInv, AskerShape, AskerFields, End
  <2>2. FollowersAreServed'
    BY <2>1, <1>1, <1>2 DEF FollowersAreServed
  <2> QED BY <1>1, <1>2, <2>2, End_ReadInv
<1>3. CASE UNCHANGED asker
  BY <1>1, <1>3 DEF ReadInv, AskerShape, ServingShape, AnsweringHolds, FirstHolds, CursorHolds, StatedHolds,
     FollowersAreServed, AsStated, OfThisQuery, Query, Request, Stated
<1> QED BY <1>2, <1>3 DEF NativeRequest

LEMMA AnswerStored_ReadInv == ReadInv /\ AnswerStored => ReadInv'
<1> SUFFICES ASSUME ReadInv, AnswerStored PROVE ReadInv' OBVIOUS
<1> DEFINE cursor == IF answering.place.fragment <= Len(Lengths[serving.release])
                     THEN CursorOf(Request, answering.place) ELSE Nothing
<1>1. asker.pc = "ask" /\ asker.api = "stored" /\ answering' = Nothing /\ UNCHANGED serving
  BY DEF AnswerStored, ReadInv, AnsweringHolds
<1>2. Take(answering.rows, cursor)
  BY DEF AnswerStored
<1>3. cursor \in {Nothing, CursorOf(Request, answering.place)}
  OBVIOUS
<1> HIDE DEF cursor
<1> QED BY <1>1, <1>2, <1>3, Take_ReadInv

\* After a deployment or a replacement nothing is claimed of the reading under way.
LEMMA Moved_ReadInv ==
  ASSUME ReadInv, asker.pc = "ask", Redeploy \/ ReplaceStored
  PROVE  ReadInv'
<1> DEFINE moves == serving.moves + 1
<1>1. moves \in Nat /\ moves # 0 /\ moves > asker.since
  BY DEF ReadInv, ServingShape, AskerShape, StatedHolds
<1> HIDE DEF moves
<1>2. ServingShape' /\ serving'.moves = moves
  <2>1. CASE Redeploy
    <3>1. PICK r \in Published : serving' = [serving EXCEPT !.release = r, !.moves = moves]
      BY <2>1 DEF Redeploy, moves
    <3> QED BY <3>1, <1>1 DEF ReadInv, ServingShape
  <2>2. CASE ReplaceStored
    <3>1. serving' = [serving EXCEPT !.replaced = TRUE, !.moves = moves]
      BY <2>2 DEF ReplaceStored, moves
    <3> QED BY <3>1, <1>1 DEF ReadInv, ServingShape
  <2> QED BY <2>1, <2>2
<1>3. UNCHANGED <<asker, answering>>
  BY DEF Redeploy, ReplaceStored
<1> QED
  BY <1>1, <1>2, <1>3 DEF ReadInv, AskerShape, AnsweringHolds, FirstHolds, CursorHolds, StatedHolds,
     FollowersAreServed, OfThisQuery, Query, Request

LEMMA Next_ReadInv == ReadInv /\ [ReadNext]_readVars => ReadInv'
<1> SUFFICES ASSUME ReadInv, [ReadNext]_readVars PROVE ReadInv' OBVIOUS
<1>1. CASE UNCHANGED readVars
  BY <1>1 DEF readVars, ReadInv, AskerShape, ServingShape, AnsweringHolds, FirstHolds, CursorHolds,
     StatedHolds, FollowersAreServed, AsStated, OfThisQuery, Query, Request, Stated
<1>2. CASE Reading
  BY <1>2, AskPage_ReadInv, AskStored_ReadInv, Refuse_ReadInv, NativeRequest_ReadInv,
     AnswerStored_ReadInv, Zenon DEF Reading
<1>3. CASE asker.pc = "ask" /\ (Redeploy \/ ReplaceStored)
  BY <1>3, Moved_ReadInv, Zenon
<1> QED BY <1>1, <1>2, <1>3, Zenon DEF ReadNext

\* Whatever is published and however the rows lie in it, a caller that follows its cursors is
\* refused only for a reason (the read APIs under deploy/cloudflare-query/src, and the loop of
\* private_research.py).
THEOREM CursorsAreGood == ReadSpec => []FollowersAreServed
<1>1. ReadInv => FollowersAreServed
  BY DEF ReadInv
<1> QED BY <1>1, Init_ReadInv, Next_ReadInv, PTL DEF ReadSpec

-----------------------------------------------------------------------------
\* A place that a reading of release r can be at.
PlacesOf(r) ==
  {p \in Places :
     /\ p.fragment \in 1..(Len(Lengths[r]) + 1)
     /\ p.fragment <= Len(Lengths[r]) => p.row < Lengths[r][p.fragment]
     /\ p.fragment > Len(Lengths[r]) => p.row = 0}
Rows == Published \X Places
FirstRows(r, n) == SubSeq(Chosen(r), 1, n)

\* The rows taken with the pages are those of the release of the cursor up to its place, and
\* with those of the page under way, up to where it is.
CursorIsSound ==
  asker.pc = "ask" /\ asker.cursor # Nothing =>
    /\ asker.cursor.release \in Published
    /\ asker.api # "stored" =>
         /\ asker.cursor.at \in 0..Len(Inside[asker.cursor.release])
         /\ asker.rows = FirstRows(asker.cursor.release, asker.cursor.at)
    /\ asker.api = "stored" =>
         /\ asker.cursor.at \in PlacesOf(asker.cursor.release)
         /\ asker.rows = FirstRows(asker.cursor.release, Reached(asker.cursor.release, asker.cursor.at))
FirstIsEmpty ==
  asker.pc = "ask" /\ asker.cursor = Nothing => asker.rows = <<>>
PageIsSound ==
  answering # Nothing =>
    /\ answering.place \in PlacesOf(serving.release)
    /\ answering.rows \in Seq(Rows)
    /\ asker.rows \o answering.rows = FirstRows(serving.release, Reached(serving.release, answering.place))

WholeInv ==
  /\ asker.rows \in Seq(Rows)
  /\ CursorIsSound /\ FirstIsEmpty /\ PageIsSound /\ ReadIsWhole

\* A set of numbers has a first one: numbers are well founded.
LEMMA LeastExists ==
  ASSUME NEW S, S \in SUBSET Nat, S # {}
  PROVE  \E c \in S : \A d \in S : c <= d
<1> DEFINE R == OpToRel(<, Nat)
<1>1. IsWellFoundedOn(R, Nat)
  BY NatLessThanWellFounded
<1>2. \A x, y \in Nat : x < y => <<x, y>> \in R
  BY DEF OpToRel
<1> HIDE DEF R
<1>3. PICK x \in S : \A y \in S : ~ (<<y, x>> \in R)
  BY <1>1, WFMin, Zenon
<1>4. ASSUME NEW y \in S PROVE x <= y
  <2>1. x \in Nat /\ y \in Nat
    OBVIOUS
  <2>2. ~ (y < x)
    BY <1>2, <1>3, <2>1, Zenon
  <2> QED
    BY <2>1, <2>2
<1> QED BY <1>4

LEMMA InsideIs ==
  ASSUME NEW r \in Published
  PROVE  /\ Inside[r] \in Seq(Places) /\ Len(Inside[r]) \in Nat /\ DOMAIN Inside[r] = 1..Len(Inside[r])
         /\ Lengths[r] \in Seq(Nat \ {0}) /\ Len(Lengths[r]) \in Nat
         /\ \A i \in 1..Len(Lengths[r]) : Lengths[r][i] \in Nat \ {0}
         /\ \A n \in 1..Len(Inside[r]) :
              /\ Inside[r][n] \in Places
              /\ Inside[r][n].fragment \in 1..Len(Lengths[r])
              /\ Inside[r][n].row \in 1..Lengths[r][Inside[r][n].fragment]
              /\ \A m \in 1..(n - 1) : ~ReadBefore(Inside[r][n], Inside[r][m])
<1>1. Inside[r] \in Seq(Places) /\ Lengths[r] \in Seq(Nat \ {0})
  BY ReadAssumption
<1>2. Len(Inside[r]) \in Nat /\ DOMAIN Inside[r] = 1..Len(Inside[r])
      /\ Len(Lengths[r]) \in Nat /\ DOMAIN Lengths[r] = 1..Len(Lengths[r])
      /\ \A i \in 1..Len(Lengths[r]) : Lengths[r][i] \in Nat \ {0}
      /\ \A n \in 1..Len(Inside[r]) : Inside[r][n] \in Places
  BY <1>1
<1>3. \A n \in 1..Len(Inside[r]) :
        /\ Inside[r][n].fragment \in 1..Len(Lengths[r])
        /\ Inside[r][n].row \in 1..Lengths[r][Inside[r][n].fragment]
        /\ \A m \in 1..(n - 1) : ~ReadBefore(Inside[r][n], Inside[r][m])
  BY ReadAssumption, <1>2, Zenon
<1> QED BY <1>1, <1>2, <1>3

\* How far a reading is: the rows before a place are the first of the selection.
LEMMA ReachedIs ==
  ASSUME NEW r \in Published, NEW place \in Places
  PROVE  /\ Reached(r, place) \in 0..Len(Inside[r])
         /\ \A m \in 1..Len(Inside[r]) : ReadBefore(Inside[r][m], place) <=> m <= Reached(r, place)
<1> DEFINE N == Len(Inside[r])
           After_(n) == ~ReadBefore(Inside[r][n], place)
           S == {n \in 1..N : After_(n)}
           Fits(n) == \A m \in DOMAIN Inside[r] : ReadBefore(Inside[r][m], place) <=> m <= n
<1>1. N \in Nat /\ DOMAIN Inside[r] = 1..N
  BY InsideIs
<1>2. \A m \in 1..N : Inside[r][m] \in Places
  BY InsideIs
<1>3. \A m, n \in 1..N : m < n => ~ReadBefore(Inside[r][n], Inside[r][m])
  BY <1>1, InsideIs
<1> HIDE DEF N
<1>4. \E n \in 0..N : Fits(n)
  <2>1. CASE S = {}
    <3>1. \A m \in 1..N : ReadBefore(Inside[r][m], place)
      BY <2>1
    <3>2. Fits(N)
      BY <3>1, <1>1
    <3> QED BY <3>2, <1>1
  <2>2. CASE S # {}
    <3>1. S \in SUBSET Nat
      BY <1>1
    <3>2. PICK k \in S : \A d \in S : k <= d
      <4> HIDE DEF S
      <4> QED BY <2>2, <3>1, LeastExists, Zenon
    <3>3. k \in 1..N /\ ~ReadBefore(Inside[r][k], place)
      OBVIOUS
    <3>4. \A m \in 1..N : m < k => ReadBefore(Inside[r][m], place)
      BY <3>2, <3>3, <1>1
    <3>5. ASSUME NEW m \in 1..N, m > k PROVE ~ReadBefore(Inside[r][m], place)
      <4>1. ~ReadBefore(Inside[r][m], Inside[r][k])
        BY <1>3, <3>3, <3>5
      <4>2. Inside[r][m] \in Places /\ Inside[r][k] \in Places
        BY <1>2, <3>3
      <4> QED BY <4>1, <4>2, <3>3 DEF ReadBefore, Places
    <3> DEFINE j == k - 1
    <3>6. j \in 0..N /\ (\A m \in 1..N : m <= j <=> m < k)
      BY <3>3, <1>1
    <3>7. Fits(j)
      <4> HIDE DEF j
      <4>1. \A m \in 1..N : m < k \/ m = k \/ m > k
        BY <3>3, <1>1
      <4>2. \A m \in 1..N : ReadBefore(Inside[r][m], place) <=> m < k
        BY <3>3, <3>4, <3>5, <4>1, <1>1
      <4> QED BY <3>6, <4>2, <1>1
    <3> HIDE DEF j, Fits
    <3> QED BY <3>6, <3>7
  <2> QED BY <2>1, <2>2
<1>5. Reached(r, place) = CHOOSE n \in 0..N : Fits(n)
  BY DEF Reached, N
<1> HIDE DEF Fits
<1>6. Reached(r, place) \in 0..N /\ Fits(Reached(r, place))
  BY <1>4, <1>5, Zenon
<1> QED BY <1>1, <1>6 DEF Fits, N

\* Places that the same rows are before are equally far, and a later one is not less far.
LEMMA SameReach ==
  ASSUME NEW r \in Published, NEW p \in Places, NEW q \in Places,
         \A m \in 1..Len(Inside[r]) : ReadBefore(Inside[r][m], p) <=> ReadBefore(Inside[r][m], q)
  PROVE  Reached(r, p) = Reached(r, q)
<1>1. Len(Inside[r]) \in Nat
  BY InsideIs
<1>2. Reached(r, p) \in 0..Len(Inside[r]) /\ Reached(r, q) \in 0..Len(Inside[r])
  BY ReachedIs
<1>3. \A m \in 1..Len(Inside[r]) : m <= Reached(r, p) <=> m <= Reached(r, q)
  BY ReachedIs, Zenon
<1> QED BY <1>1, <1>2, <1>3

LEMMA LaterReach ==
  ASSUME NEW r \in Published, NEW p \in Places, NEW q \in Places,
         \A m \in 1..Len(Inside[r]) : ReadBefore(Inside[r][m], p) => ReadBefore(Inside[r][m], q)
  PROVE  Reached(r, p) <= Reached(r, q)
<1>1. Len(Inside[r]) \in Nat
  BY InsideIs
<1>2. Reached(r, p) \in 0..Len(Inside[r]) /\ Reached(r, q) \in 0..Len(Inside[r])
  BY ReachedIs
<1>3. \A m \in 1..Len(Inside[r]) : m <= Reached(r, p) => m <= Reached(r, q)
  BY ReachedIs, Zenon
<1> QED BY <1>1, <1>2, <1>3

\* Nothing is read at the start, and everything where no fragment is left.
LEMMA ReachedEnds ==
  ASSUME NEW r \in Published
  PROVE  /\ Start \in PlacesOf(r) /\ Reached(r, Start) = 0
         /\ \A p \in PlacesOf(r) : p.fragment > Len(Lengths[r]) => Reached(r, p) = Len(Inside[r])
<1>1. Start \in PlacesOf(r) /\ Start \in Places /\ Start.fragment = 1 /\ Start.row = 0
  BY InsideIs DEF Start, PlacesOf, Places
<1>2. \A m \in 1..Len(Inside[r]) :
        Inside[r][m].fragment \in 1..Len(Lengths[r]) /\ Inside[r][m].fragment \in Nat
        /\ Inside[r][m].row \in Nat /\ Inside[r][m].row > 0
  BY InsideIs DEF Places
<1>3. Len(Inside[r]) \in Nat /\ Len(Lengths[r]) \in Nat
  BY InsideIs
<1>4. Reached(r, Start) = 0
  <2>1. \A m \in 1..Len(Inside[r]) : ~ReadBefore(Inside[r][m], Start)
    BY <1>1, <1>2 DEF ReadBefore
  <2>2. Reached(r, Start) \in 0..Len(Inside[r])
        /\ \A m \in 1..Len(Inside[r]) : ReadBefore(Inside[r][m], Start) <=> m <= Reached(r, Start)
    BY <1>1, ReachedIs
  <2> QED BY <2>1, <2>2, <1>3
<1>5. ASSUME NEW p \in PlacesOf(r), p.fragment > Len(Lengths[r])
      PROVE  Reached(r, p) = Len(Inside[r])
  <2>1. p \in Places /\ p.fragment \in Nat
    BY DEF PlacesOf, Places
  <2>2. \A m \in 1..Len(Inside[r]) : ReadBefore(Inside[r][m], p)
    BY <1>2, <1>3, <1>5, <2>1 DEF ReadBefore
  <2>3. Reached(r, p) \in 0..Len(Inside[r])
        /\ \A m \in 1..Len(Inside[r]) : ReadBefore(Inside[r][m], p) <=> m <= Reached(r, p)
    BY <2>1, ReachedIs
  <2> QED BY <2>2, <2>3, <1>3
<1> QED BY <1>1, <1>4, <1>5

LEMMA SplitView ==
  ASSUME NEW S, NEW s \in Seq(S), NEW k \in Nat, NEW m \in Nat, k <= m, m <= Len(s)
  PROVE  SubSeq(s, 1, k) \o SubSeq(s, k + 1, m) = SubSeq(s, 1, m)
<1> DEFINE a == SubSeq(s, 1, k)
           b == SubSeq(s, k + 1, m)
           c == SubSeq(s, 1, m)
           d == a \o b
<1>1. /\ a \in Seq(S) /\ Len(a) = k /\ \A i \in 1..k : a[i] = s[i]
  <2>1. \A i \in 1..k : s[i] \in S
    BY ElementOfSeq
  <2>2. /\ a \in Seq(S) /\ Len(a) = IF 1 <= k THEN k - 1 + 1 ELSE 0
        /\ \A i \in 1..(k - 1 + 1) : a[i] = s[1 + i - 1]
    BY <2>1, SubSeqProperties
  <2> QED
    BY <2>2
<1>2. /\ b \in Seq(S) /\ Len(b) = m - k /\ \A i \in 1..(m - k) : b[i] = s[k + i]
  <2>1. \A i \in (k + 1)..m : s[i] \in S
    BY ElementOfSeq
  <2>2. /\ b \in Seq(S) /\ Len(b) = IF k + 1 <= m THEN m - (k + 1) + 1 ELSE 0
        /\ \A i \in 1..(m - (k + 1) + 1) : b[i] = s[k + 1 + i - 1]
    BY <2>1, SubSeqProperties
  <2> HIDE DEF b
  <2> QED
    BY <2>2
<1>3. /\ c \in Seq(S) /\ Len(c) = m /\ \A i \in 1..m : c[i] = s[i]
  <2>1. \A i \in 1..m : s[i] \in S
    BY ElementOfSeq
  <2>2. /\ c \in Seq(S) /\ Len(c) = IF 1 <= m THEN m - 1 + 1 ELSE 0
        /\ \A i \in 1..(m - 1 + 1) : c[i] = s[1 + i - 1]
    BY <2>1, SubSeqProperties
  <2> QED
    BY <2>2
<1> HIDE DEF a, b, c
<1>4. /\ d \in Seq(S) /\ Len(d) = Len(a) + Len(b)
      /\ \A i \in 1..(Len(a) + Len(b)) : d[i] = IF i <= Len(a) THEN a[i] ELSE b[i - Len(a)]
  BY <1>1, <1>2, ConcatProperties, Zenon
<1> HIDE DEF d
<1>5. /\ d \in Seq(S) /\ Len(d) = k + (m - k)
      /\ \A i \in 1..(k + (m - k)) : d[i] = IF i <= k THEN a[i] ELSE b[i - k]
  <2>1. Len(a) = k /\ Len(b) = m - k
    BY <1>1, <1>2
  <2> QED
    BY <1>4, <2>1, Zenon
<1>6. ASSUME NEW i \in 1..m PROVE d[i] = c[i]
  <2>1. CASE i <= k
    <3>1. i \in 1..k /\ i \in 1..(k + (m - k))
      BY <2>1
    <3>2. d[i] = a[i]
      BY <1>5, <2>1, <3>1
    <3>3. a[i] = s[i] /\ c[i] = s[i]
      BY <1>1, <1>3, <3>1, Zenon
    <3> QED
      BY <3>2, <3>3, Zenon
  <2>2. CASE ~(i <= k)
    <3>1. d[i] = b[i - k] /\ i - k \in 1..(m - k)
      BY <1>5, <2>2
    <3>2. b[i - k] = s[k + (i - k)]
      BY <1>2, <3>1
    <3> QED
      BY <1>3, <3>1, <3>2
  <2> QED
    BY <2>1, <2>2
<1>7. d = c
  <2>1. Len(d) = m
    BY <1>5
  <2> QED
    BY <1>3, <1>5, <1>6, <2>1, SeqEqual
<1> QED
  BY <1>7 DEF a, b, c, d

\* The first rows of a selection, and the next ones.
LEMMA FirstRowsAre ==
  ASSUME NEW r \in Published
  PROVE  /\ Chosen(r) \in Seq(Rows) /\ Len(Chosen(r)) = Len(Inside[r])
         /\ FirstRows(r, 0) = <<>> /\ FirstRows(r, Len(Inside[r])) = Chosen(r)
         /\ \A n \in 0..Len(Inside[r]) : FirstRows(r, n) \in Seq(Rows) /\ Len(FirstRows(r, n)) = n
         /\ \A n \in 0..Len(Inside[r]) : \A k \in n..Len(Inside[r]) :
              /\ SubSeq(Chosen(r), n + 1, k) \in Seq(Rows)
              /\ FirstRows(r, n) \o SubSeq(Chosen(r), n + 1, k) = FirstRows(r, k)
<1> DEFINE N == Len(Inside[r])
           s == Chosen(r)
<1>1. N \in Nat /\ DOMAIN Inside[r] = 1..N /\ \A m \in 1..N : Inside[r][m] \in Places
  BY InsideIs
<1> HIDE DEF N
<1>2. s = [n \in 1..N |-> <<r, Inside[r][n]>>]
  BY <1>1 DEF Chosen
<1>3. s \in Seq(Rows) /\ Len(s) = N
  BY <1>1, <1>2 DEF Rows
<1> HIDE DEF s
<1>4. ASSUME NEW n \in 0..N PROVE SubSeq(s, 1, n) \in Seq(Rows) /\ Len(SubSeq(s, 1, n)) = n
  BY <1>1, <1>3, <1>4
<1>5. SubSeq(s, 1, 0) = <<>> /\ SubSeq(s, 1, N) = s
  BY <1>1, <1>3
<1>6. ASSUME NEW n \in 0..N, NEW k \in n..N
      PROVE  /\ SubSeq(s, n + 1, k) \in Seq(Rows)
             /\ SubSeq(s, 1, n) \o SubSeq(s, n + 1, k) = SubSeq(s, 1, k)
  <2>1. n \in Nat /\ k \in Nat /\ n <= k /\ k <= Len(s) /\ n + 1 \in Int
    BY <1>1, <1>3, <1>6
  <2>2. SubSeq(s, 1, n) \o SubSeq(s, n + 1, k) = SubSeq(s, 1, k)
    BY <1>3, <2>1, SplitView
  <2>3. \A i \in (n + 1)..k : s[i] \in Rows
    BY <1>3, <2>1, ElementOfSeq
  <2>4. SubSeq(s, n + 1, k) \in Seq(Rows)
    BY <2>1, <2>3, SubSeqProperties
  <2> QED
    BY <2>2, <2>4
<1> QED BY <1>3, <1>4, <1>5, <1>6 DEF FirstRows, N, s

LEMMA Init_WholeInv == ReadInit => WholeInv
<1> SUFFICES ASSUME ReadInit PROVE WholeInv OBVIOUS
<1>2. asker.pc = "ask" /\ asker.cursor = Nothing /\ asker.rows = <<>> /\ answering = Nothing
  BY DEF ReadInit
<1> QED BY <1>2 DEF WholeInv, CursorIsSound, FirstIsEmpty, PageIsSound, ReadIsWhole

\* A caller that stops short has what it had, and claims nothing.
LEMMA End_WholeInv ==
  ASSUME ReadInv, WholeInv, NEW pc \in {"failed", "refused"}, End(pc), answering' = Nothing
  PROVE  WholeInv'
<1>1. asker'.pc = pc /\ asker'.rows = asker.rows
  BY DEF ReadInv, AskerShape, AskerFields, End
<1> QED BY <1>1 DEF WholeInv, CursorIsSound, FirstIsEmpty, PageIsSound, ReadIsWhole

\* A page that continues what is taken up to row number n of the release deployed.
LEMMA Take_WholeInv ==
  ASSUME ReadInv, WholeInv, asker.pc = "ask", UNCHANGED serving, answering' = Nothing,
         NEW rows \in Seq(Rows), NEW cursor, NEW place, NEW n \in 0..Len(Inside[serving.release]),
         asker.rows \o rows = FirstRows(serving.release, n),
         cursor = Nothing => n = Len(Inside[serving.release]),
         cursor # Nothing => cursor = CursorOf(Request, place),
         asker.api # "stored" => place = n,
         asker.api = "stored" =>
           place \in PlacesOf(serving.release) /\ n = Reached(serving.release, place),
         Take(rows, cursor)
  PROVE  WholeInv'
<1> DEFINE page == Stated(serving.release)
           first == asker.cursor = Nothing
           all == asker.rows \o rows
           since == IF first THEN serving.moves ELSE asker.since
           next == [asker EXCEPT !.rows = all, !.cursor = cursor, !.since = since]
<1>s. serving.release \in Published
  BY DEF ReadInv, ServingShape
<1>u. all \in Seq(Rows) /\ all = FirstRows(serving.release, n)
  BY <1>s, FirstRowsAre
<1> HIDE DEF all, since
<1>a. /\ next = [f \in AskerFields |-> next[f]]
      /\ next.pc = "ask" /\ next.api = asker.api
      /\ next.cursor = cursor /\ next.rows = all
  BY DEF ReadInv, AskerShape, AskerFields
<1>1. ASSUME cursor = Nothing, asker' = [next EXCEPT !.pc = "complete"]
      PROVE  WholeInv'
  <2> HIDE DEF next
  <2>1. asker'.pc = "complete" /\ asker'.rows = all
    BY <1>a, <1>1 DEF AskerFields
  <2>2. all = Chosen(serving.release)
    BY <1>1, <1>u, <1>s, FirstRowsAre
  <2>3. ReadIsWhole'
    BY <2>1, <2>2, <1>s DEF ReadIsWhole, Chosen
  <2> QED BY <2>1, <2>3, <1>u DEF WholeInv, CursorIsSound, FirstIsEmpty, PageIsSound
<1>2. CASE End("failed")
  BY <1>2, End_WholeInv
<1>3. ASSUME cursor # Nothing, asker'.pc = "ask", asker'.api = asker.api, asker'.cursor = cursor,
             asker'.rows = all
      PROVE  WholeInv'
  <2>1. cursor.release = serving.release /\ cursor.at = place
    BY <1>3 DEF CursorOf
  <2>2. CursorIsSound'
    BY <2>1, <1>3, <1>s, <1>u DEF CursorIsSound, FirstRows, Chosen, Reached, PlacesOf
  <2> QED BY <2>2, <1>3, <1>u DEF WholeInv, FirstIsEmpty, PageIsSound, ReadIsWhole
<1>4. ASSUME cursor # Nothing,
             asker' = [next EXCEPT !.stated = page, !.pages = next.pages + 1,
                                   !.seen = next.seen \cup {cursor}]
      PROVE  WholeInv'
  <2> DEFINE turns == next.pages + 1
             seen == next.seen \cup {cursor}
  <2>1. asker' = [next EXCEPT !.stated = page, !.pages = turns, !.seen = seen]
    BY <1>4
  <2> HIDE DEF next, page, turns, seen
  <2>2. /\ asker'.pc = "ask" /\ asker'.api = asker.api /\ asker'.cursor = cursor
        /\ asker'.rows = all
    BY <1>a, <2>1 DEF AskerFields
  <2> QED BY <2>2, <1>3, <1>4
<1>5. ASSUME cursor # Nothing, NEW limit \in PageLimits,
             asker' = [next EXCEPT
                !.limit = limit, !.resized = next.resized \/ limit # asker.limit,
                !.stated = IF asker.api \in {"series", "latest", "stored"} THEN page ELSE next.stated]
      PROVE  WholeInv'
  <2> DEFINE resized == next.resized \/ limit # asker.limit
             stated == IF asker.api \in {"series", "latest", "stored"} THEN page ELSE next.stated
  <2>1. asker' = [next EXCEPT !.limit = limit, !.resized = resized, !.stated = stated]
    BY <1>5
  <2> HIDE DEF next, resized, stated
  <2>2. /\ asker'.pc = "ask" /\ asker'.api = asker.api /\ asker'.cursor = cursor
        /\ asker'.rows = all
    BY <1>a, <2>1 DEF AskerFields
  <2> QED BY <2>2, <1>3, <1>5
<1> USE DEF since, all
<1>6. \/ cursor = Nothing /\ asker' = [next EXCEPT !.pc = "complete"]
      \/ End("failed")
      \/ /\ cursor # Nothing
         /\ asker' = [next EXCEPT !.stated = page, !.pages = next.pages + 1,
                                  !.seen = next.seen \cup {cursor}]
      \/ /\ cursor # Nothing
         /\ \E limit \in PageLimits :
              asker' = [next EXCEPT
                !.limit = limit, !.resized = next.resized \/ limit # asker.limit,
                !.stated = IF asker.api \in {"series", "latest", "stored"} THEN page ELSE next.stated]
  BY Zenon DEF Take
<1> HIDE DEF next
<1> QED BY <1>1, <1>2, <1>4, <1>5, <1>6, Zenon

\* What is taken when a request is sent with a cursor that is accepted.
LEMMA TakenIs ==
  ASSUME ReadInv, WholeInv, asker.pc = "ask", Accepts(Request)
  PROVE  /\ serving.release \in Published
         /\ asker.api # "stored" =>
              LET from == IF asker.cursor = Nothing THEN 0 ELSE asker.cursor.at
              IN  from \in 0..Len(Inside[serving.release]) /\ asker.rows = FirstRows(serving.release, from)
         /\ asker.api = "stored" =>
              LET from == IF asker.cursor = Nothing THEN Start ELSE asker.cursor.at
              IN  /\ from \in PlacesOf(serving.release)
                  /\ asker.rows = FirstRows(serving.release, Reached(serving.release, from))
<1>1. serving.release \in Published
  BY DEF ReadInv, ServingShape
<1>2. CASE asker.cursor = Nothing
  <2>1. asker.rows = <<>>
    BY <1>2 DEF WholeInv, FirstIsEmpty
  <2>2. Len(Inside[serving.release]) \in Nat
    BY <1>1, InsideIs
  <2> QED BY <1>1, <1>2, <2>1, <2>2, FirstRowsAre, ReachedEnds
<1>3. CASE asker.cursor # Nothing
  <2>1. asker.cursor.release = serving.release
    BY <1>3, AcceptedFacts DEF ReadInv, WholeInv, CursorIsSound
  <2> QED BY <1>1, <1>3, <2>1 DEF WholeInv, CursorIsSound
<1> QED BY <1>2, <1>3

LEMMA CursorIsSomething ==
  ASSUME ReadInv, NEW place \in Nat \cup Places
  PROVE  CursorOf(Request, place) # Nothing
<1>1. asker.limit \in PageLimits /\ asker.stated \in Statable /\ serving.release \in Published
  BY DEF ReadInv, AskerShape, ServingShape
<1>2. Query(Request) \in [limit : PageLimits \cup {Nothing}, stated : Statable]
  BY <1>1 DEF Query, Request, Statable
<1>3. CursorOf(Request, place) \in PageCursors
  BY <1>1, <1>2 DEF CursorOf, PageCursors
<1>4. Nothing \notin PageCursors
  BY ReadAssumption
<1> QED BY <1>3, <1>4

LEMMA AskPage_WholeInv == ReadInv /\ WholeInv /\ AskPage => WholeInv'
<1> SUFFICES ASSUME ReadInv, WholeInv, AskPage PROVE WholeInv' OBVIOUS
<1> DEFINE R == serving.release
           all == Chosen(R)
           from == IF Request.cursor = Nothing THEN 0 ELSE Request.cursor.at
           end == Least(from + Request.limit, Len(all))
           rows == SubSeq(all, from + 1, end)
           cursor == IF end < Len(all) THEN CursorOf(Request, end) ELSE Nothing
<1>1. asker.pc = "ask" /\ asker.api # "stored" /\ answering' = Nothing /\ UNCHANGED serving
  BY DEF AskPage
<1>2. R \in Published /\ from \in 0..Len(Inside[R]) /\ asker.rows = FirstRows(R, from)
  BY <1>1, TakenIs DEF AskPage, Request
<1>3. Len(all) = Len(Inside[R]) /\ Len(Inside[R]) \in Nat
  BY <1>2, FirstRowsAre, InsideIs
<1>4. Request.limit \in Nat
  BY ReadAssumption DEF ReadInv, AskerShape, Request
<1>5. Take(rows, cursor)
  BY DEF AskPage, Page
<1> HIDE DEF all, from
<1>6. end \in from..Len(Inside[R]) /\ end \in 0..Len(Inside[R])
  BY <1>2, <1>3, <1>4 DEF Least
<1> HIDE DEF end
<1>7. rows \in Seq(Rows) /\ asker.rows \o rows = FirstRows(R, end)
  BY <1>2, <1>6, FirstRowsAre DEF all
<1>8. CursorOf(Request, end) # Nothing
  BY <1>6, <1>3, CursorIsSomething
<1>9. /\ cursor = Nothing => end = Len(Inside[R])
      /\ cursor # Nothing => cursor = CursorOf(Request, end)
  BY <1>3, <1>6, <1>8
<1> HIDE DEF cursor, rows
<1> QED BY <1>1, <1>5, <1>6, <1>7, <1>9, Take_WholeInv

LEMMA AskStored_WholeInv == ReadInv /\ WholeInv /\ AskStored => WholeInv'
<1> SUFFICES ASSUME ReadInv, WholeInv, AskStored PROVE WholeInv' OBVIOUS
<1> DEFINE place == IF asker.cursor = Nothing THEN Start ELSE asker.cursor.at
<1>1. /\ asker.pc = "ask" /\ asker.api = "stored" /\ Accepts(Request)
      /\ answering' = [place |-> place, rows |-> <<>>, reads |-> 0]
      /\ UNCHANGED <<serving, asker>>
  BY DEF AskStored
<1>2. place \in PlacesOf(serving.release)
      /\ asker.rows = FirstRows(serving.release, Reached(serving.release, place))
  BY <1>1, TakenIs
<1> HIDE DEF place
<1>3. answering'.place = place /\ answering'.rows = <<>> /\ asker.rows \o <<>> = asker.rows
  BY <1>1 DEF WholeInv
<1>4. PageIsSound'
  <2>1. answering'.rows \in Seq(Rows)
    BY <1>3
  <2>2. asker'.rows \o answering'.rows = FirstRows(serving.release, Reached(serving.release, place))
    BY <1>1, <1>2, <1>3
  <2>3. serving'.release = serving.release
    BY <1>1
  <2> QED BY <1>2, <1>3, <2>1, <2>2, <2>3 DEF PageIsSound, FirstRows, Chosen, Reached, PlacesOf
<1> QED
  BY <1>1, <1>4 DEF WholeInv, CursorIsSound, FirstIsEmpty, ReadIsWhole

\* A read that ends inside a fragment or at its end goes on where no row is between.
LEMMA AfterIs ==
  ASSUME NEW r \in Published, r = serving.release, NEW place \in PlacesOf(r), NEW count \in Nat,
         place.fragment <= Len(Lengths[r]), count <= Lengths[r][place.fragment] - place.row
  PROVE  LET read == [place EXCEPT !.row = place.row + count]
         IN  /\ read \in Places /\ After(place, count) \in PlacesOf(r)
             /\ Reached(r, place) <= Reached(r, read)
             /\ Reached(r, After(place, count)) = Reached(r, read)
<1> DEFINE length == Lengths[r][place.fragment]
           end == place.row + count
           read == [place EXCEPT !.row = end]
           beyond == [fragment |-> place.fragment + 1, row |-> 0]
<1>1. /\ place \in Places /\ place.fragment \in 1..Len(Lengths[r]) /\ place.row \in Nat
      /\ length \in Nat \ {0} /\ Len(Lengths[r]) \in Nat
  BY InsideIs DEF PlacesOf, Places
<1>2. end \in Nat /\ end <= length
  BY <1>1
<1>3. \A m \in 1..Len(Inside[r]) :
        /\ Inside[r][m].fragment \in Nat /\ Inside[r][m].row \in Nat \ {0}
        /\ Inside[r][m].fragment = place.fragment => Inside[r][m].row <= length
  <2> TAKE m \in 1..Len(Inside[r])
  <2>1. /\ Inside[r][m] \in Places /\ Inside[r][m].fragment \in 1..Len(Lengths[r])
        /\ Inside[r][m].row \in 1..Lengths[r][Inside[r][m].fragment]
    BY InsideIs, Zenon
  <2>2. Lengths[r][Inside[r][m].fragment] \in Nat
    BY <2>1, InsideIs
  <2> QED BY <2>1, <2>2 DEF Places
<1>4. end >= place.row
  BY <1>1
<1> HIDE DEF end
<1>5. read = [fragment |-> place.fragment, row |-> end] /\ read \in Places
  BY <1>1, <1>2 DEF Places
<1>6. Reached(r, place) <= Reached(r, read)
  <2>1. \A m \in 1..Len(Inside[r]) : ReadBefore(Inside[r][m], place) => ReadBefore(Inside[r][m], read)
    BY <1>1, <1>2, <1>3, <1>4, <1>5 DEF ReadBefore
  <2> HIDE DEF read
  <2> QED BY <2>1, <1>1, <1>5, LaterReach
<1>7. After(place, count) = IF end < length THEN read ELSE beyond
  BY DEF After, end
<1>8. CASE end < length
  <2>1. read \in PlacesOf(r)
    BY <1>1, <1>5, <1>8 DEF PlacesOf
  <2> QED BY <2>1, <1>5, <1>6, <1>7, <1>8 DEF end
<1>9. CASE ~(end < length)
  <2>1. end = length
    BY <1>1, <1>2, <1>9
  <2>2. beyond \in Places /\ beyond.fragment = place.fragment + 1 /\ beyond.row = 0
    BY <1>1 DEF Places
  <2>3. beyond \in PlacesOf(r)
    <3>1. beyond.fragment <= Len(Lengths[r]) => 0 < Lengths[r][beyond.fragment]
      BY <1>1, <2>2, InsideIs
    <3> QED BY <1>1, <2>2, <3>1 DEF PlacesOf
  <2>4. ASSUME NEW m \in 1..Len(Inside[r])
        PROVE  ReadBefore(Inside[r][m], beyond) <=> ReadBefore(Inside[r][m], read)
    <3> DEFINE fragment == Inside[r][m].fragment
               row == Inside[r][m].row
    <3>1. fragment \in Nat /\ row \in Nat \ {0} /\ (fragment = place.fragment => row <= length)
      BY <1>3
    <3>2. read.fragment = place.fragment /\ read.row = length /\ place.fragment \in Nat
      BY <1>1, <1>5, <2>1
    <3>3. ReadBefore(Inside[r][m], beyond) <=>
            fragment < beyond.fragment \/ (fragment = beyond.fragment /\ row <= beyond.row)
      BY DEF ReadBefore
    <3>4. ReadBefore(Inside[r][m], read) <=>
            fragment < read.fragment \/ (fragment = read.fragment /\ row <= read.row)
      BY DEF ReadBefore
    <3> HIDE DEF fragment, row, beyond, read, length
    <3> QED BY <1>1, <2>2, <3>1, <3>2, <3>3, <3>4
  <2>5. Reached(r, beyond) = Reached(r, read)
    <3> HIDE DEF beyond, read
    <3> QED BY <2>2, <2>4, <1>5, SameReach
  <2> QED BY <2>3, <2>5, <1>5, <1>6, <1>7, <1>9 DEF end
<1> QED BY <1>8, <1>9

LEMMA RowsAssociate ==
  ASSUME NEW s \in Seq(Rows), NEW t \in Seq(Rows), NEW u \in Seq(Rows)
  PROVE  (s \o t) \o u = s \o (t \o u)
BY ConcatAssociative

LEMMA NativeRequest_WholeInv == ReadInv /\ WholeInv /\ NativeRequest => WholeInv'
<1> SUFFICES ASSUME ReadInv, WholeInv, NativeRequest PROVE WholeInv' OBVIOUS
<1> DEFINE r == serving.release
           place == answering.place
           count == Least(RowsPerRead, Least(Lengths[r][place.fragment] - place.row,
                                             asker.limit - Len(answering.rows)))
           read == [place EXCEPT !.row = place.row + count]
           more == SubSeq(Chosen(r), Reached(r, place) + 1, Reached(r, read))
<1>1. /\ r \in Published /\ asker.pc = "ask" /\ asker.api = "stored" /\ UNCHANGED serving
      /\ answering # Nothing /\ MoreToRead
  BY DEF NativeRequest, ReadInv, ServingShape, AnsweringHolds
<1>2. CASE End("refused") /\ answering' = Nothing
  BY <1>2, End_WholeInv
<1>3. ASSUME answering' = [place |-> After(place, count), reads |-> answering.reads + 1,
                           rows |-> answering.rows \o more],
             UNCHANGED asker
      PROVE  WholeInv'
  <2>1. /\ place \in PlacesOf(r) /\ answering.rows \in Seq(Rows) /\ asker.rows \in Seq(Rows)
        /\ asker.rows \o answering.rows = FirstRows(r, Reached(r, place))
    BY <1>1 DEF WholeInv, PageIsSound
  <2>2. place \in Places /\ place.fragment \in 1..Len(Lengths[r]) /\ place.row \in Nat
        /\ place.row < Lengths[r][place.fragment] /\ Lengths[r][place.fragment] \in Nat
    BY <1>1, <2>1, InsideIs DEF PlacesOf, Places, MoreToRead
  <2>3. count \in Nat /\ count <= Lengths[r][place.fragment] - place.row
    <3>1. asker.limit \in Nat /\ RowsPerRead \in Nat /\ Len(answering.rows) \in Nat
      BY <2>1, ReadAssumption DEF ReadInv, AskerShape
    <3>2. Len(answering.rows) < asker.limit
      BY <1>1 DEF MoreToRead
    <3> QED BY <2>2, <3>1, <3>2 DEF Least
  <2> HIDE DEF count
  <2>4. /\ read \in Places /\ After(place, count) \in PlacesOf(r)
        /\ Reached(r, place) <= Reached(r, read)
        /\ Reached(r, After(place, count)) = Reached(r, read)
    <3>1. place.fragment <= Len(Lengths[r])
      BY <1>1 DEF MoreToRead
    <3> HIDE DEF place, r
    <3> QED BY <1>1, <2>1, <2>3, <3>1, AfterIs DEF r
  <2>5. Reached(r, place) \in 0..Len(Inside[r]) /\ Reached(r, read) \in Reached(r, place)..Len(Inside[r])
        /\ Reached(r, read) \in 0..Len(Inside[r])
    <3>1. Reached(r, place) \in 0..Len(Inside[r]) /\ Reached(r, read) \in 0..Len(Inside[r])
      <4> HIDE DEF read
      <4> QED BY <1>1, <2>2, <2>4, ReachedIs
    <3> QED BY <3>1, <2>4, <1>1, InsideIs
  <2>6. more \in Seq(Rows)
        /\ FirstRows(r, Reached(r, place)) \o more = FirstRows(r, Reached(r, read))
    <3> HIDE DEF read
    <3> QED BY <1>1, <2>5, FirstRowsAre
  <2> HIDE DEF more, read
  <2>7. /\ answering.rows \o more \in Seq(Rows)
        /\ asker.rows \o (answering.rows \o more) = FirstRows(r, Reached(r, After(place, count)))
    <3>1. (asker.rows \o answering.rows) \o more = asker.rows \o (answering.rows \o more)
      BY <2>1, <2>6, RowsAssociate
    <3>2. answering.rows \o more \in Seq(Rows)
      BY <2>1, <2>6
    <3>3. asker.rows \o (answering.rows \o more) = FirstRows(r, Reached(r, place)) \o more
      BY <2>1, <3>1, Zenon
    <3> QED BY <2>4, <2>6, <3>2, <3>3, Zenon
  <2>8. answering'.place = After(place, count) /\ answering'.rows = answering.rows \o more
    BY <1>3
  <2>9. PageIsSound'
    BY <1>1, <1>3, <2>4, <2>7, <2>8 DEF PageIsSound, FirstRows, Chosen, Reached, PlacesOf
  <2> QED
    BY <1>3, <2>9 DEF WholeInv, CursorIsSound, FirstIsEmpty, ReadIsWhole
<1>4. \/ End("refused") /\ answering' = Nothing
      \/ /\ answering' = [place |-> After(place, count), reads |-> answering.reads + 1,
                          rows |-> answering.rows \o more]
         /\ UNCHANGED asker
  BY Zenon DEF NativeRequest
<1> QED BY <1>2, <1>3, <1>4, Zenon

LEMMA AnswerStored_WholeInv == ReadInv /\ WholeInv /\ AnswerStored => WholeInv'
<1> SUFFICES ASSUME ReadInv, WholeInv, AnswerStored PROVE WholeInv' OBVIOUS
<1> DEFINE r == serving.release
           place == answering.place
           n == Reached(r, place)
           cursor == IF place.fragment <= Len(Lengths[r]) THEN CursorOf(Request, place) ELSE Nothing
<1>1. /\ r \in Published /\ asker.pc = "ask" /\ asker.api = "stored" /\ answering' = Nothing
      /\ UNCHANGED serving /\ answering # Nothing
  BY DEF AnswerStored, ReadInv, AnsweringHolds, ServingShape
<1>2. Take(answering.rows, cursor)
  BY DEF AnswerStored
<1>3. place \in PlacesOf(r) /\ answering.rows \in Seq(Rows)
      /\ asker.rows \o answering.rows = FirstRows(r, n)
  BY <1>1 DEF WholeInv, PageIsSound
<1>4. place \in Places /\ place.fragment \in Nat /\ Len(Lengths[r]) \in Nat
  BY <1>1, <1>3, InsideIs DEF PlacesOf, Places
<1>5. n \in 0..Len(Inside[r])
  BY <1>1, <1>4, ReachedIs
<1>6. CursorOf(Request, place) # Nothing
  BY <1>4, CursorIsSomething
<1>7. /\ cursor = Nothing => n = Len(Inside[r])
      /\ cursor # Nothing => cursor = CursorOf(Request, place)
  BY <1>1, <1>3, <1>4, <1>6, ReachedEnds
<1> HIDE DEF cursor
<1> QED BY <1>1, <1>2, <1>3, <1>5, <1>7, Take_WholeInv

LEMMA Next_WholeInv == ReadInv /\ WholeInv /\ [ReadNext]_readVars => WholeInv'
<1> SUFFICES ASSUME ReadInv, WholeInv, [ReadNext]_readVars PROVE WholeInv' OBVIOUS
<1>1. ASSUME UNCHANGED <<asker, answering>>, serving'.release = serving.release \/ answering = Nothing
      PROVE  WholeInv'
  BY <1>1 DEF WholeInv, CursorIsSound, FirstIsEmpty, PageIsSound, ReadIsWhole, FirstRows, Chosen, Reached,
     PlacesOf
<1>2. CASE UNCHANGED readVars
  BY <1>1, <1>2 DEF readVars
<1>3. CASE Refuse
  BY <1>3, End_WholeInv DEF Refuse
<1>4. CASE Redeploy
  BY <1>1, <1>4 DEF Redeploy
<1>5. CASE ReplaceStored
  <2>1. serving'.release = serving.release
    BY <1>5 DEF ReplaceStored, ReadInv, ServingShape
  <2> QED BY <1>1, <1>5, <2>1 DEF ReplaceStored
<1> QED
  BY <1>2, <1>3, <1>4, <1>5, AskPage_WholeInv, AskStored_WholeInv, NativeRequest_WholeInv,
     AnswerStored_WholeInv, Zenon DEF ReadNext, Reading

\* Whatever is deployed or replaced between the pages, however the rows lie in the fragments and
\* whatever the sizes of pages and requests, a reading that came to an end has the whole selection
\* of one release (the read APIs under deploy/cloudflare-query/src and the loop of
\* private_research.py).
THEOREM ReadingsAreWhole == ReadSpec => []ReadIsWhole
<1>1. WholeInv => ReadIsWhole
  BY DEF WholeInv
<1> QED
  BY <1>1, Init_ReadInv, Next_ReadInv, Init_WholeInv, Next_WholeInv, PTL DEF ReadSpec

-----------------------------------------------------------------------------
(* The dataset service.  What a request holds is of the version its entity tag names, and so is
   every page in the cache. *)

\* Rows of the table.
Cells == Versions \X Int

LEMMA TableRowsAre ==
  ASSUME NEW v \in Versions, NEW from \in Int, NEW to \in Int, from <= to
  PROVE  TableRows(v, from, to) \in Seq(Cells) /\ Len(TableRows(v, from, to)) = to - from
<1>1. to - from \in Nat
  OBVIOUS
<1>2. \A k \in 1..(to - from) : <<v, from + k>> \in Cells
  BY DEF Cells
<1> QED BY <1>1, <1>2 DEF TableRows

LEMMA TableRowsJoin ==
  ASSUME NEW v \in Versions, NEW from \in Int, NEW at \in Int, NEW to \in Int,
         from <= at, at <= to
  PROVE  TableRows(v, from, at) \o TableRows(v, at, to) = TableRows(v, from, to)
<1> DEFINE a == TableRows(v, from, at)
           b == TableRows(v, at, to)
           c == TableRows(v, from, to)
<1>1. /\ a \in Seq(Cells) /\ Len(a) = at - from /\ b \in Seq(Cells) /\ Len(b) = to - at
      /\ c \in Seq(Cells) /\ Len(c) = to - from
  BY TableRowsAre
<1>2. /\ \A k \in 1..(at - from) : a[k] = <<v, from + k>>
      /\ \A k \in 1..(to - at) : b[k] = <<v, at + k>>
      /\ \A k \in 1..(to - from) : c[k] = <<v, from + k>>
  BY DEF TableRows
<1> HIDE DEF a, b, c
<1>3. /\ a \o b \in Seq(Cells) /\ Len(a \o b) = to - from
      /\ \A k \in 1..(to - from) : (a \o b)[k] = IF k <= at - from THEN a[k] ELSE b[k - (at - from)]
  <2>1. Len(a) + Len(b) = to - from
    BY <1>1
  <2>2. /\ a \o b \in Seq(Cells) /\ Len(a \o b) = Len(a) + Len(b)
        /\ \A k \in 1..(Len(a) + Len(b)) :
             (a \o b)[k] = IF k <= Len(a) THEN a[k] ELSE b[k - Len(a)]
    BY <1>1, ConcatProperties, Zenon
  <2> QED BY <2>1, <2>2, <1>1
<1>4. ASSUME NEW k \in 1..(to - from) PROVE (a \o b)[k] = c[k]
  <2>1. CASE k <= at - from
    <3>1. k \in 1..(at - from)
      BY <2>1
    <3> QED BY <3>1, <2>1, <1>2, <1>3
  <2>2. CASE ~(k <= at - from)
    <3>1. k - (at - from) \in 1..(to - at)
      BY <2>2
    <3>2. b[k - (at - from)] = <<v, at + (k - (at - from))>>
      BY <3>1, <1>2
    <3>3. at + (k - (at - from)) = from + k
      OBVIOUS
    <3> QED BY <2>2, <3>2, <3>3, <1>2, <1>3
  <2> QED BY <2>1, <2>2
<1>5. a \o b = c
  BY <1>1, <1>3, <1>4, SeqEqual
<1> QED BY <1>5 DEF a, b, c

-----------------------------------------------------------------------------
(* The invariant.                                                          *)

\* The rows a native caller has are those before its cursor, of the version of the cursor.
HeadRequests == [pc : {"head"}, got : Seq(Cells), etag : Nat, from : Nat]
HeadHolds(r) ==
  \/ r.etag = 0 /\ r.from = 0 /\ r.got = <<>>
  \/ r.etag \in Versions /\ r.from <= RowCount[r.etag] /\ r.got = TableRows(r.etag, 0, r.from)

\* Those read for a page follow them.
PageRequests ==
  [pc : {"cache", "ranges", "put"}, got : Seq(Cells), etag : Versions, from : Nat,
   limit : NativeLimits, rows : Seq(Cells)]
PageHolds(r) ==
  /\ r.from <= RowCount[r.etag] /\ r.got = TableRows(r.etag, 0, r.from)
  /\ r.from + Len(r.rows) <= PageEnd(r.etag, r.from, r.limit)
  /\ r.rows = TableRows(r.etag, r.from, r.from + Len(r.rows))
  /\ r.pc = "put" => r.from + Len(r.rows) = PageEnd(r.etag, r.from, r.limit)

\* The transport has the rows of its part up to where it continues.
ReaderRequests ==
  [pc : {"meta", "chunks"}, kind : {"whole", "archive", "member"}, etag : Nat,
   part : Int \X Int, tries : Nat, got : Seq(Cells)]
ReaderHolds(r) ==
  r.pc = "chunks" =>
    /\ r.etag \in Versions /\ r.part[1] + Len(r.got) <= r.part[2]
    /\ r.got = TableRows(r.etag, r.part[1], r.part[1] + Len(r.got))

\* The engine has read versions that are registered or newer, and not newer than those of now;
\* those that were compared again are registered.
TemplateShape(r) ==
  r = [pc |-> r.pc, left |-> r.left, seen |-> r.seen, hit |-> r.hit, waiting |-> r.waiting]
Between(seen, some) ==
  seen \in [some -> Int] /\ \A t \in some : Expected[t] <= seen[t] /\ seen[t] <= tables[t]
TemplateHolds(r) ==
  /\ r.left \subseteq Tables
  /\ r.pc = "engine" => r.left # {} /\ Between(r.seen, Tables \ r.left)
  /\ r.pc = "after" => /\ Between(r.seen, Tables)
                       /\ \A t \in Tables \ r.left : r.seen[t] = Expected[t]

RequestHolds(r) ==
  /\ r.pc = "head" => r \in HeadRequests /\ HeadHolds(r)
  /\ r.pc \in {"cache", "ranges", "put"} => r \in PageRequests /\ PageHolds(r)
  /\ r.pc \in {"meta", "chunks"} => r \in ReaderRequests /\ ReaderHolds(r)
  /\ r.pc \in {"before", "engine", "after"} => TemplateShape(r) /\ TemplateHolds(r)
  /\ r.pc = "read" => r.got = TableRows(r.etag, r.part[1], r.part[2])
  /\ r.pc = "answered" => r.seen = Expected

CachedPageHolds(p) ==
  LET end == PageEnd(p.etag, p.from, p.limit) IN
  /\ p.etag \in Versions /\ p.from \in Nat /\ p.limit \in NativeLimits
  /\ p.from <= RowCount[p.etag]
  /\ p.rows = TableRows(p.etag, p.from, end)
  /\ p.next = IF end < RowCount[p.etag] THEN end ELSE 0

DatasetInv ==
  /\ object \in Versions
  /\ tables \in [Tables -> Int] /\ \A t \in Tables : Expected[t] <= tables[t]
  /\ \A p \in pages : CachedPageHolds(p)
  /\ \A seen \in results : seen = Expected
  /\ request = [c \in Callers |-> request[c]]
  /\ \A c \in Callers : RequestHolds(request[c])

-----------------------------------------------------------------------------

LEMMA VersionsAre == \A v \in Versions : v \in Nat /\ v # 0 /\ RowCount[v] \in Nat
BY DatasetAssumption DEF Versions

LEMMA DatasetInit_Inv == DatasetInit => DatasetInv
<1> SUFFICES ASSUME DatasetInit PROVE DatasetInv
  OBVIOUS
<1>1. request = [c \in Callers |-> request[c]] /\ \A c \in Callers : request[c].pc = "rest"
  BY DEF DatasetInit, Rest
<1>2. \A c \in Callers : RequestHolds(request[c])
  BY <1>1 DEF RequestHolds
<1> QED BY <1>1, <1>2, DatasetAssumption DEF DatasetInit, DatasetInv

\* A step of one caller leaves the others as they are.
LEMMA CallerSteps ==
  ASSUME DatasetInv, NEW c \in Callers, NEW r, Becomes(c, r), RequestHolds(r),
         object' = object, tables' = tables,
         \A p \in pages' : CachedPageHolds(p),
         \A seen \in results' : seen = Expected
  PROVE  DatasetInv'
<1>1. /\ request' = [d \in Callers |-> request'[d]]
      /\ \A d \in Callers : request'[d] = IF d = c THEN r ELSE request[d]
  BY DEF DatasetInv, Becomes
<1>2. \A d \in Callers : RequestHolds(request'[d])
  BY <1>1 DEF DatasetInv
<1>3. ASSUME NEW q, RequestHolds(q) PROVE RequestHolds(q)'
  BY <1>3 DEF RequestHolds, TemplateShape, TemplateHolds, Between
<1>4. \A d \in Callers : RequestHolds(request[d])'
  BY <1>2, <1>3
<1>5. \A p \in pages' : CachedPageHolds(p)'
  BY DEF CachedPageHolds
<1> QED BY <1>1, <1>4, <1>5 DEF DatasetInv

LEMMA CallerStepsAlone ==
  ASSUME DatasetInv, NEW c \in Callers, NEW r, Becomes(c, r), RequestHolds(r),
         UNCHANGED <<object, tables, pages, results, writes>>
  PROVE  DatasetInv'
BY CallerSteps DEF DatasetInv

\* A request that failed, or that was refused, holds nothing.
LEMMA Fails_Inv ==
  ASSUME DatasetInv, NEW c \in Callers, Fails(c),
         UNCHANGED <<object, tables, pages, results, writes>>
  PROVE  DatasetInv'
<1> DEFINE r == [pc |-> "failed", got |-> request[c].got, etag |-> request[c].etag]
<1>1. RequestHolds(r)
  BY DEF RequestHolds
<1> QED BY <1>1, CallerStepsAlone DEF Fails

LEMMA AskRows_Inv == ASSUME DatasetInv, NEW c \in Callers, AskRows(c) PROVE DatasetInv'
<1> DEFINE r == Native(<<>>, 0, 0)
<1>1. RequestHolds(r)
  BY DEF RequestHolds, HeadRequests, HeadHolds, Native
<1> QED BY <1>1, CallerStepsAlone DEF AskRows

LEMMA AskTemplate_Inv == ASSUME DatasetInv, NEW c \in Callers, AskTemplate(c) PROVE DatasetInv'
<1> DEFINE r == Template("before", Tables, <<>>, FALSE, TRUE)
<1>1. RequestHolds(r)
  BY DEF RequestHolds, TemplateShape, TemplateHolds, Template
<1> QED BY <1>1, CallerStepsAlone DEF AskTemplate

LEMMA AskObject_Inv ==
  ASSUME DatasetInv, NEW c \in Callers, NEW kind \in {"whole", "archive"}, AskObject(c, kind)
  PROVE  DatasetInv'
<1> DEFINE r == Reader("meta", kind, 0, <<0, 0>>, 0)
<1>1. RequestHolds(r)
  BY DEF RequestHolds, ReaderRequests, ReaderHolds, Reader
<1> QED BY <1>1, CallerStepsAlone DEF AskObject

-----------------------------------------------------------------------------
(* Pages of a table.                                                       *)

LEMMA PageEnds ==
  ASSUME NEW v \in Versions, NEW from \in Nat, NEW limit \in NativeLimits, from <= RowCount[v]
  PROVE  LET end == PageEnd(v, from, limit) IN
         end \in Nat /\ from <= end /\ end <= RowCount[v] /\ (end < RowCount[v] => end > 0)
BY VersionsAre, DatasetAssumption DEF PageEnd, Smaller

LEMMA ReadHead_Inv == ASSUME DatasetInv, NEW c \in Callers, ReadHead(c) PROVE DatasetInv'
<1> DEFINE q == request[c]
<1>1. q.pc = "head" /\ q \in HeadRequests /\ HeadHolds(q) /\ object \in Versions
  BY DEF ReadHead, DatasetInv, RequestHolds
<1>2. CASE SameVersion(q)
  <2>1. PICK limit \in NativeLimits :
          Becomes(c, [pc |-> "cache", got |-> q.got, etag |-> object, from |-> q.from,
                      limit |-> limit, rows |-> <<>>])
    BY <1>2 DEF ReadHead
  <2> DEFINE r == [pc |-> "cache", got |-> q.got, etag |-> object, from |-> q.from,
                   limit |-> limit, rows |-> <<>>]
  <2>2. q.from \in Nat /\ q.got \in Seq(Cells) /\ q.etag \in {0, object}
    BY <1>1, <1>2 DEF HeadRequests, SameVersion
  <2>3. TableRows(object, 0, 0) = <<>> /\ TableRows(object, q.from, q.from + 0) = <<>>
    BY <2>2 DEF TableRows
  <2>4. q.from <= RowCount[object] /\ q.got = TableRows(object, 0, q.from)
    <3>1. CASE q.etag = 0 /\ q.from = 0 /\ q.got = <<>>
      BY <3>1, <1>1, <2>3, VersionsAre
    <3>2. CASE q.etag \in Versions /\ q.from <= RowCount[q.etag] /\ q.got = TableRows(q.etag, 0, q.from)
      <4>1. q.etag = object
        BY <3>2, <2>2, VersionsAre
      <4> QED BY <3>2, <4>1
    <3> QED BY <3>1, <3>2, <1>1 DEF HeadHolds
  <2>5. PageHolds(r)
    BY <2>2, <2>3, <2>4, <1>1, PageEnds DEF PageHolds
  <2>6. r \in PageRequests
    BY <2>2, <1>1 DEF PageRequests
  <2>7. RequestHolds(r)
    BY <2>5, <2>6 DEF RequestHolds
  <2> QED BY <2>1, <2>7, CallerStepsAlone DEF ReadHead
<1>3. CASE ~SameVersion(q)
  BY <1>3, Fails_Inv DEF ReadHead
<1> QED BY <1>2, <1>3

\* A page that is whole continues the rows that the caller has.
LEMMA HasPageHolds ==
  ASSUME DatasetInv, NEW c \in Callers, request[c].pc \in {"cache", "put"},
         NEW rows, NEW next, HasPage(c, rows, next),
         LET q == request[c]
             end == PageEnd(q.etag, q.from, q.limit)
         IN  /\ rows = TableRows(q.etag, q.from, end)
             /\ next = IF end < RowCount[q.etag] THEN end ELSE 0
  PROVE  \E r : Becomes(c, r) /\ RequestHolds(r)
<1> DEFINE q == request[c]
           end == PageEnd(q.etag, q.from, q.limit)
           all == q.got \o rows
<1>1. /\ q.etag \in Versions /\ q.from \in Nat /\ q.limit \in NativeLimits /\ q.etag \in Nat
      /\ q.from <= RowCount[q.etag] /\ q.got = TableRows(q.etag, 0, q.from)
      /\ RowCount[q.etag] \in Nat
  BY VersionsAre DEF DatasetInv, RequestHolds, PageRequests, PageHolds
<1>2. end \in Nat /\ q.from <= end /\ end <= RowCount[q.etag] /\ (end < RowCount[q.etag] => end > 0)
  BY <1>1, PageEnds
<1> HIDE DEF end
<1>3. rows = TableRows(q.etag, q.from, end)
  BY DEF end
<1>4. all = TableRows(q.etag, 0, end)
  <2>1. 0 \in Int /\ q.from \in Int /\ end \in Int /\ 0 <= q.from /\ q.from <= end
    BY <1>1, <1>2
  <2>2. TableRows(q.etag, 0, q.from) \o TableRows(q.etag, q.from, end) = TableRows(q.etag, 0, end)
    BY <2>1, <1>1, TableRowsJoin, Zenon
  <2> QED BY <1>1, <1>3, <2>2
<1>5. all \in Seq(Cells)
  <2>1. 0 \in Int /\ end \in Int /\ 0 <= end
    BY <1>2
  <2> QED BY <2>1, <1>1, <1>4, TableRowsAre, Zenon
<1>6. CASE end < RowCount[q.etag]
  <2>1. next = end /\ next # 0
    BY <1>6, <1>2 DEF end
  <2> DEFINE r == Native(all, q.etag, end)
  <2>2. Becomes(c, r)
    BY <2>1 DEF HasPage
  <2>3. r \in HeadRequests /\ HeadHolds(r)
    BY <1>1, <1>2, <1>4, <1>5 DEF Native, HeadRequests, HeadHolds
  <2>4. RequestHolds(r)
    BY <2>3 DEF RequestHolds, Native
  <2> QED BY <2>2, <2>4
<1>7. CASE ~(end < RowCount[q.etag])
  <2>1. next = 0 /\ end = RowCount[q.etag]
    BY <1>7, <1>2, <1>1 DEF end
  <2> DEFINE r == [pc |-> "read", got |-> all, etag |-> q.etag, part |-> <<0, RowCount[q.etag]>>]
  <2>2. Becomes(c, r)
    BY <2>1 DEF HasPage
  <2>3. RequestHolds(r)
    BY <1>4, <2>1 DEF RequestHolds
  <2> QED BY <2>2, <2>3
<1> QED BY <1>6, <1>7

LEMMA PageCache_Inv == ASSUME DatasetInv, NEW c \in Callers, PageCache(c) PROVE DatasetInv'
<1> DEFINE q == request[c]
<1>1. /\ q.pc = "cache" /\ q \in PageRequests /\ PageHolds(q)
  BY DEF PageCache, DatasetInv, RequestHolds
<1>2. ASSUME NEW p \in CachedPage(q), HasPage(c, p.rows, p.next) PROVE DatasetInv'
  <2>1. CachedPageHolds(p) /\ p.etag = q.etag /\ p.from = q.from /\ p.limit = q.limit
    BY DEF CachedPage, PageKey, DatasetInv
  <2>2. \E r : Becomes(c, r) /\ RequestHolds(r)
    BY <1>1, <1>2, <2>1, HasPageHolds DEF CachedPageHolds
  <2> QED BY <2>2, CallerStepsAlone DEF PageCache
<1>3. ASSUME Becomes(c, [q EXCEPT !.pc = "ranges"]) PROVE DatasetInv'
  <2> DEFINE r == [q EXCEPT !.pc = "ranges"]
  <2>1. r \in PageRequests /\ r.pc = "ranges" /\ PageHolds(r)
    BY <1>1 DEF PageRequests, PageHolds
  <2>2. RequestHolds(r)
    BY <2>1 DEF RequestHolds
  <2> QED BY <1>3, <2>2, CallerStepsAlone DEF PageCache
<1>4. ASSUME Fails(c) PROVE DatasetInv'
  BY <1>4, Fails_Inv DEF PageCache
<1> QED BY <1>2, <1>3, <1>4 DEF PageCache

\* Ranges end where groups of rows do.
LEMMA NextBoundary ==
  ASSUME NEW at \in Nat, NEW group \in Nat \ {0}
  PROVE  (at \div group + 1) * group \in Nat /\ at <= (at \div group + 1) * group
<1>1. at \div group \in Nat
  OBVIOUS
<1>2. at < (at \div group + 1) * group
  OBVIOUS
<1>3. \A n, k \in Nat : (n + 1) * k \in Nat
  OBVIOUS
<1> QED BY <1>1, <1>2, <1>3

LEMMA ReadRange_Inv == ASSUME DatasetInv, NEW c \in Callers, ReadRange(c) PROVE DatasetInv'
<1> DEFINE q == request[c]
           end == PageEnd(q.etag, q.from, q.limit)
           at == q.from + Len(q.rows)
           to == Smaller(end, (at \div GroupRows + 1) * GroupRows)
<1>1. /\ q.pc = "ranges" /\ q \in PageRequests /\ PageHolds(q)
      /\ UNCHANGED <<object, tables, pages, results, writes>>
  BY DEF ReadRange, DatasetInv, RequestHolds
<1>2. /\ q.etag \in Versions /\ q.from \in Nat /\ q.limit \in NativeLimits
      /\ q.rows \in Seq(Cells) /\ Len(q.rows) \in Nat /\ at \in Nat
      /\ q.from <= RowCount[q.etag] /\ at <= end /\ q.rows = TableRows(q.etag, q.from, at)
  BY <1>1 DEF PageRequests, PageHolds
<1>3. end \in Nat
  BY <1>2, PageEnds
<1> HIDE DEF end
<1>4. CASE at >= end
  <2> DEFINE r == [q EXCEPT !.pc = "put"]
  <2>1. Becomes(c, r)
    BY <1>4 DEF ReadRange, end
  <2>2. r \in PageRequests /\ PageHolds(r)
    BY <1>1, <1>2, <1>3, <1>4 DEF PageRequests, PageHolds, end
  <2>3. RequestHolds(r)
    BY <2>2, <1>1 DEF RequestHolds, PageRequests
  <2> QED BY <1>1, <2>1, <2>3, CallerStepsAlone
<1>5. CASE at < end /\ object = q.etag
  <2>1. to \in Nat /\ at <= to /\ to <= end
    <3>1. GroupRows \in Nat \ {0}
      BY DatasetAssumption
    <3> DEFINE next == (at \div GroupRows + 1) * GroupRows
    <3>2. next \in Nat /\ at <= next
      BY <3>1, <1>2, NextBoundary, Zenon
    <3> HIDE DEF next
    <3> QED BY <3>2, <1>2, <1>3, <1>5 DEF Smaller, next
  <2> HIDE DEF to
  <2> DEFINE more == TableRows(object, at, to)
             r == [q EXCEPT !.rows = @ \o more]
  <2>2. Becomes(c, r)
    BY <1>2, <1>3, <1>5 DEF ReadRange, end, to
  <2>m. /\ q.from \in Int /\ at \in Int /\ to \in Int
        /\ q.from <= at /\ at <= to /\ q.from <= to
    BY <1>2, <2>1
  <2>3. q.rows \o more = TableRows(q.etag, q.from, to)
    <3>1. TableRows(q.etag, q.from, at) \o TableRows(q.etag, at, to) = TableRows(q.etag, q.from, to)
      BY <2>m, <1>2, TableRowsJoin, Zenon
    <3> QED BY <3>1, <1>2, <1>5
  <2>4. TableRows(q.etag, q.from, to) \in Seq(Cells) /\ Len(TableRows(q.etag, q.from, to)) = to - q.from
    BY <2>m, <1>2, TableRowsAre, Zenon
  <2>5. q.from + Len(q.rows \o more) = to
    <3>1. Len(q.rows \o more) = to - q.from
      BY <2>3, <2>4
    <3> HIDE DEF more
    <3> QED BY <3>1, <2>1, <1>2
  <2>6. r \in PageRequests /\ r.pc = "ranges"
    BY <1>1, <2>3, <2>4 DEF PageRequests
  <2>7. PageHolds(r)
    BY <1>1, <2>1, <2>3, <2>5 DEF PageRequests, PageHolds, end
  <2>8. RequestHolds(r)
    BY <2>6, <2>7 DEF RequestHolds
  <2> QED BY <1>1, <2>2, <2>8, CallerStepsAlone
<1>6. CASE at < end /\ object # q.etag
  <2>1. Fails(c)
    BY <1>2, <1>3, <1>6 DEF ReadRange, end
  <2> QED BY <1>1, <2>1, Fails_Inv
<1> QED BY <1>2, <1>3, <1>4, <1>5, <1>6

LEMMA PutPage_Inv == ASSUME DatasetInv, NEW c \in Callers, PutPage(c) PROVE DatasetInv'
<1> DEFINE q == request[c]
           end == PageEnd(q.etag, q.from, q.limit)
           next == IF end < RowCount[q.etag] THEN end ELSE 0
           p == [etag |-> q.etag, from |-> q.from, limit |-> q.limit, rows |-> q.rows, next |-> next]
<1>1. /\ q.pc = "put" /\ q \in PageRequests /\ PageHolds(q) /\ HasPage(c, q.rows, next)
      /\ pages' = pages \/ pages' = pages \cup {p}
      /\ object' = object /\ tables' = tables /\ results' = results
  BY DEF PutPage, DatasetInv, RequestHolds
<1>2. /\ q.etag \in Versions /\ q.from \in Nat /\ q.limit \in NativeLimits
      /\ q.from <= RowCount[q.etag] /\ q.rows = TableRows(q.etag, q.from, end)
  BY <1>1 DEF PageRequests, PageHolds
<1>3. CachedPageHolds(p)
  BY <1>2 DEF CachedPageHolds
<1>4. \A x \in pages' : CachedPageHolds(x)
  BY <1>1, <1>3 DEF DatasetInv
<1>5. \E r : Becomes(c, r) /\ RequestHolds(r)
  BY <1>1, <1>2, HasPageHolds
<1>6. \A seen \in results' : seen = Expected
  BY <1>1 DEF DatasetInv
<1> QED BY <1>1, <1>4, <1>5, <1>6, CallerSteps

-----------------------------------------------------------------------------
(* Templates.                                                              *)

LEMMA TemplateIs ==
  ASSUME DatasetInv, NEW c \in Callers, request[c].pc \in {"before", "engine", "after"}
  PROVE  TemplateShape(request[c]) /\ TemplateHolds(request[c])
BY DEF DatasetInv, RequestHolds

\* A version that is registered now was registered when the engine read it: versions only move
\* away from the registered ones.
LEMMA VersionCheck_Inv == ASSUME DatasetInv, NEW c \in Callers, VersionCheck(c) PROVE DatasetInv'
<1> DEFINE q == request[c]
           t == CHOOSE t \in q.left : TRUE
<1>1. /\ q.pc \in {"before", "after"} /\ q.left # {} /\ TemplateShape(q) /\ TemplateHolds(q)
      /\ UNCHANGED <<object, tables, pages, results, writes>>
  BY TemplateIs DEF VersionCheck
<1>2. t \in q.left /\ t \in Tables
  BY <1>1 DEF TemplateHolds
<1> HIDE DEF t
<1>3. CASE tables[t] = Expected[t]
  <2> DEFINE r == [q EXCEPT !.left = @ \ {t}]
  <2>1. Becomes(c, r)
    BY <1>3 DEF VersionCheck, t
  <2>2. /\ r.pc = q.pc /\ r.left = q.left \ {t} /\ r.seen = q.seen
        /\ TemplateShape(r)
    BY <1>1 DEF TemplateShape
  <2> HIDE DEF r
  <2>3. q.pc = "after" => q.seen[t] = Expected[t]
    BY <1>1, <1>2, <1>3, DatasetAssumption DEF TemplateHolds, Between, DatasetInv
  <2>4. TemplateHolds(r)
    BY <1>1, <1>2, <2>2, <2>3 DEF TemplateHolds
  <2>5. RequestHolds(r)
    BY <1>1, <2>2, <2>4 DEF RequestHolds
  <2> QED BY <1>1, <2>1, <2>5, CallerStepsAlone
<1>4. CASE tables[t] # Expected[t]
  <2> DEFINE r == [q EXCEPT !.pc = "refused"]
  <2>1. Becomes(c, r)
    BY <1>4 DEF VersionCheck, t
  <2>2. r.pc = "refused"
    BY <1>1 DEF TemplateShape
  <2> HIDE DEF r
  <2>3. RequestHolds(r)
    BY <2>2 DEF RequestHolds
  <2> QED BY <1>1, <2>1, <2>3, CallerStepsAlone
<1> QED BY <1>3, <1>4

LEMMA ResultCache_Inv == ASSUME DatasetInv, NEW c \in Callers, ResultCache(c) PROVE DatasetInv'
<1> DEFINE q == request[c]
<1>1. UNCHANGED <<object, tables, pages, results, writes>>
  BY DEF ResultCache
<1>2. ASSUME NEW x \in results, Becomes(c, Template("after", Tables, x, TRUE, q.waiting))
      PROVE  DatasetInv'
  <2> DEFINE r == Template("after", Tables, x, TRUE, q.waiting)
  <2>1. x = Expected
    BY DEF DatasetInv
  <2>2. r.pc = "after" /\ r.left = Tables /\ r.seen = Expected /\ TemplateShape(r)
    BY <2>1 DEF Template, TemplateShape
  <2> HIDE DEF r
  <2>3. TemplateHolds(r)
    BY <2>2, DatasetAssumption DEF TemplateHolds, Between, DatasetInv
  <2>4. RequestHolds(r)
    BY <2>2, <2>3 DEF RequestHolds
  <2> QED BY <1>1, <1>2, <2>4, CallerStepsAlone DEF r
<1>3. ASSUME Becomes(c, Template("engine", Tables, <<>>, FALSE, q.waiting)) PROVE DatasetInv'
  <2> DEFINE r == Template("engine", Tables, <<>>, FALSE, q.waiting)
  <2>2. r.pc = "engine" /\ r.left = Tables /\ r.seen = <<>> /\ TemplateShape(r)
    BY DEF Template, TemplateShape
  <2> HIDE DEF r
  <2>3. <<>> \in [{} -> Int] /\ Tables \ Tables = {}
    OBVIOUS
  <2>4. TemplateHolds(r)
    BY <2>2, <2>3, DatasetAssumption DEF TemplateHolds, Between
  <2>5. RequestHolds(r)
    BY <2>2, <2>4 DEF RequestHolds
  <2> QED BY <1>1, <1>3, <2>5, CallerStepsAlone DEF r
<1> QED BY <1>2, <1>3 DEF ResultCache

LEMMA EngineReads_Inv == ASSUME DatasetInv, NEW c \in Callers, EngineReads(c) PROVE DatasetInv'
<1> DEFINE q == request[c]
           t == CHOOSE t \in q.left : TRUE
           before == Tables \ q.left
           seen == [x \in DOMAIN q.seen \cup {t} |-> IF x = t THEN tables[t] ELSE q.seen[x]]
           r == IF q.left = {t} THEN Template("after", Tables, seen, FALSE, q.waiting)
                ELSE Template("engine", q.left \ {t}, seen, FALSE, q.waiting)
<1>1. /\ q.pc = "engine" /\ q.left # {} /\ q.left \subseteq Tables /\ Between(q.seen, before)
      /\ Becomes(c, r) /\ UNCHANGED <<object, tables, pages, results, writes>>
  BY TemplateIs DEF EngineReads, TemplateHolds
<1>2. t \in q.left /\ t \in Tables
  BY <1>1
<1> HIDE DEF t
<1>3. DOMAIN q.seen = before
  BY <1>1 DEF Between
<1>4. tables \in [Tables -> Int] /\ \A x \in Tables : Expected[x] <= tables[x] /\ tables[x] \in Int
  BY DEF DatasetInv
<1>5. Between(seen, before \cup {t})
  <2>1. \A x \in before : /\ q.seen[x] \in Int /\ Expected[x] <= q.seen[x] /\ q.seen[x] <= tables[x]
    BY <1>1 DEF Between
  <2>2. seen = [x \in before \cup {t} |-> IF x = t THEN tables[t] ELSE q.seen[x]]
    BY <1>3
  <2> HIDE DEF seen
  <2>3. seen \in [before \cup {t} -> Int]
    BY <1>2, <1>4, <2>1, <2>2
  <2>4. \A x \in before \cup {t} : Expected[x] <= seen[x] /\ seen[x] <= tables[x]
    BY <1>2, <1>4, <2>1, <2>2
  <2> QED BY <2>3, <2>4 DEF Between
<1> HIDE DEF seen
<1>6. CASE q.left = {t}
  <2>1. before \cup {t} = Tables
    BY <1>6, <1>2
  <2>2. r.pc = "after" /\ r.left = Tables /\ r.seen = seen /\ TemplateShape(r)
    BY <1>6 DEF Template, TemplateShape
  <2> HIDE DEF r
  <2>3. TemplateHolds(r)
    BY <1>5, <2>1, <2>2 DEF TemplateHolds
  <2>4. RequestHolds(r)
    BY <2>2, <2>3 DEF RequestHolds
  <2> QED BY <1>1, <2>4, CallerStepsAlone
<1>7. CASE q.left # {t}
  <2>1. before \cup {t} = Tables \ (q.left \ {t}) /\ q.left \ {t} # {}
    BY <1>7, <1>1, <1>2
  <2>2. r.pc = "engine" /\ r.left = q.left \ {t} /\ r.seen = seen /\ TemplateShape(r)
    BY <1>7 DEF Template, TemplateShape
  <2> HIDE DEF r
  <2>3. TemplateHolds(r)
    BY <1>1, <1>5, <2>1, <2>2 DEF TemplateHolds
  <2>4. RequestHolds(r)
    BY <2>2, <2>3 DEF RequestHolds
  <2> QED BY <1>1, <2>4, CallerStepsAlone
<1> QED BY <1>6, <1>7

\* When every table was compared again, what the engine read is registered.
LEMMA AnswerTemplate_Inv == ASSUME DatasetInv, NEW c \in Callers, AnswerTemplate(c) PROVE DatasetInv'
<1> DEFINE q == request[c]
           r == [q EXCEPT !.pc = IF q.waiting THEN "answered" ELSE "late"]
<1>1. /\ q.pc = "after" /\ q.left = {} /\ TemplateShape(q) /\ TemplateHolds(q)
      /\ Becomes(c, r) /\ object' = object /\ tables' = tables /\ pages' = pages
      /\ results' = results \/ results' = {q.seen}
  BY TemplateIs DEF AnswerTemplate
<1>2. q.seen \in [Tables -> Int] /\ \A t \in Tables : q.seen[t] = Expected[t]
  BY <1>1 DEF TemplateHolds, Between
<1>3. q.seen = Expected
  BY <1>2, DatasetAssumption
<1>4. r.pc \in {"answered", "late"} /\ r.seen = q.seen
  BY <1>1 DEF TemplateShape
<1> HIDE DEF r
<1>5. RequestHolds(r)
  BY <1>3, <1>4 DEF RequestHolds
<1>6. \A seen \in results' : seen = Expected
  BY <1>1, <1>3 DEF DatasetInv
<1>7. \A p \in pages' : CachedPageHolds(p)
  BY <1>1 DEF DatasetInv
<1> QED BY <1>1, <1>5, <1>6, <1>7, CallerSteps

LEMMA WaitingChanges ==
  ASSUME NEW q, TemplateShape(q), NEW waiting
  PROVE  LET r == [q EXCEPT !.waiting = waiting] IN
         r.pc = q.pc /\ r.left = q.left /\ r.seen = q.seen /\ TemplateShape(r)
BY DEF TemplateShape

LEMMA Timeout_Inv == ASSUME DatasetInv, NEW c \in Callers, Timeout(c) PROVE DatasetInv'
<1> DEFINE q == request[c]
<1>1. /\ q.pc \in {"before", "engine", "after"} /\ TemplateShape(q) /\ TemplateHolds(q)
      /\ UNCHANGED <<object, tables, pages, results, writes>>
  BY TemplateIs DEF Timeout
<1>2. ASSUME Becomes(c, [q EXCEPT !.waiting = FALSE]) PROVE DatasetInv'
  <2> DEFINE r == [q EXCEPT !.waiting = FALSE]
  <2>1. r.pc = q.pc /\ r.left = q.left /\ r.seen = q.seen /\ TemplateShape(r)
    BY <1>1, WaitingChanges
  <2> HIDE DEF r
  <2>2. TemplateHolds(r)
    BY <1>1, <2>1 DEF TemplateHolds
  <2>3. RequestHolds(r)
    BY <1>1, <2>1, <2>2 DEF RequestHolds
  <2> QED BY <1>1, <1>2, <2>3, CallerStepsAlone DEF r
<1>3. ASSUME Becomes(c, [q EXCEPT !.pc = "refused"]) PROVE DatasetInv'
  <2> DEFINE r == [q EXCEPT !.pc = "refused"]
  <2>1. r.pc = "refused"
    BY <1>1 DEF TemplateShape
  <2> HIDE DEF r
  <2>2. RequestHolds(r)
    BY <2>1 DEF RequestHolds
  <2> QED BY <1>1, <1>3, <2>2, CallerStepsAlone DEF r
<1> QED BY <1>2, <1>3 DEF Timeout

-----------------------------------------------------------------------------
(* Reads of the transport.                                                 *)

LEMMA ReaderIs ==
  ASSUME DatasetInv, NEW c \in Callers, request[c].pc \in {"meta", "chunks"}
  PROVE  request[c] \in ReaderRequests /\ ReaderHolds(request[c])
BY DEF DatasetInv, RequestHolds

LEMMA PartStarts ==
  ASSUME NEW kind \in {"whole", "archive", "member"}, NEW v \in Versions,
         NEW from \in Int, NEW to \in Int, from <= to
  PROVE  RequestHolds(Reader("chunks", kind, v, <<from, to>>, 0))
<1> DEFINE r == Reader("chunks", kind, v, <<from, to>>, 0)
<1>1. r.pc = "chunks" /\ r.etag = v /\ r.part = <<from, to>> /\ r.got = <<>>
  BY DEF Reader
<1>2. r \in ReaderRequests
  BY VersionsAre DEF Reader, ReaderRequests
<1>3. TableRows(v, from, from + 0) = <<>>
  BY DEF TableRows
<1> HIDE DEF r
<1>4. ReaderHolds(r)
  BY <1>1, <1>3 DEF ReaderHolds
<1>5. RequestHolds(r)
  BY <1>1, <1>2, <1>4 DEF RequestHolds
<1> QED BY <1>5 DEF r

LEMMA HeadMeta_Inv == ASSUME DatasetInv, NEW c \in Callers, HeadMeta(c) PROVE DatasetInv'
<1> DEFINE kind == request[c].kind
           part == IF kind = "whole" THEN <<0, RowCount[object]>> ELSE Directory(object)
<1>1. /\ kind \in {"whole", "archive", "member"} /\ object \in Versions
      /\ UNCHANGED <<object, tables, pages, results, writes>>
  BY ReaderIs DEF HeadMeta, ReaderRequests, DatasetInv
<1>2. CASE Fails(c)
  BY <1>1, <1>2, Fails_Inv
<1>3. CASE Becomes(c, Reader("chunks", kind, object, part, 0))
  <2>1. /\ part = <<part[1], part[2]>> /\ part[1] \in Int /\ part[2] \in Int
        /\ part[1] <= part[2]
    BY <1>1, VersionsAre DEF Directory
  <2> HIDE DEF part, kind
  <2>2. RequestHolds(Reader("chunks", kind, object, part, 0))
    BY <1>1, <2>1, PartStarts
  <2> QED BY <1>1, <1>3, <2>2, CallerStepsAlone
<1> QED BY <1>2, <1>3 DEF HeadMeta

LEMMA Transient_Inv == ASSUME DatasetInv, NEW c \in Callers, Transient(c) PROVE DatasetInv'
<1> DEFINE q == request[c]
           r == [q EXCEPT !.tries = @ + 1]
<1>1. /\ q \in ReaderRequests /\ ReaderHolds(q) /\ UNCHANGED <<object, tables, pages, results, writes>>
      /\ Becomes(c, r) \/ Fails(c)
  BY ReaderIs DEF Transient
<1>2. /\ r \in ReaderRequests /\ r.pc = q.pc /\ r.etag = q.etag /\ r.part = q.part
      /\ r.got = q.got /\ r.pc \in {"meta", "chunks"}
  BY <1>1 DEF ReaderRequests
<1> HIDE DEF r
<1>3. RequestHolds(r)
  BY <1>1, <1>2 DEF RequestHolds, ReaderHolds
<1> QED BY <1>1, <1>3, CallerStepsAlone, Fails_Inv

LEMMA ReadChunk_Inv == ASSUME DatasetInv, NEW c \in Callers, ReadChunk(c) PROVE DatasetInv'
<1> DEFINE q == request[c]
           at == Unreceived(q)[1]
           to == Smaller(q.part[2], at + ChunkRows)
<1>1. /\ q.pc = "chunks" /\ q \in ReaderRequests /\ ReaderHolds(q)
      /\ UNCHANGED <<object, tables, pages, results, writes>>
  BY ReaderIs DEF ReadChunk
<1>2. /\ q.etag \in Versions /\ q.part[1] \in Int /\ q.part[2] \in Int /\ q.got \in Seq(Cells)
      /\ at = q.part[1] + Len(q.got) /\ q.part[1] <= at
      /\ at \in Int /\ q.got = TableRows(q.etag, q.part[1], at)
  BY <1>1 DEF ReaderRequests, ReaderHolds, Unreceived
<1>3. CASE Fails(c)
  BY <1>1, <1>3, Fails_Inv
<1>4. ASSUME NEW end \in at..to, object = q.etag,
             Becomes(c, [q EXCEPT !.got = @ \o TableRows(object, at, end), !.tries = 0])
      PROVE  DatasetInv'
  <2> DEFINE more == TableRows(object, at, end)
             r == [q EXCEPT !.got = @ \o more, !.tries = 0]
  <2> HIDE DEF at
  <2>t. to \in Int /\ to <= q.part[2]
    <3>1. ChunkRows \in Nat
      BY DatasetAssumption
    <3> QED BY <1>2, <3>1 DEF Smaller
  <2> HIDE DEF to
  <2>1. end \in Int /\ at <= end /\ end <= q.part[2] /\ q.part[1] <= end
    BY <1>2, <2>t
  <2>a. q.part[1] \in Int /\ at \in Int /\ q.part[1] <= at
    BY <1>2
  <2>2. q.got \o more = TableRows(q.etag, q.part[1], end)
    <3>1. TableRows(q.etag, q.part[1], at) \o TableRows(q.etag, at, end) = TableRows(q.etag, q.part[1], end)
      BY <1>1, <2>1, <2>a, TableRowsJoin, Zenon DEF ReaderHolds
    <3> QED BY <3>1, <1>2, <1>4
  <2>3. /\ TableRows(q.etag, q.part[1], end) \in Seq(Cells)
        /\ Len(TableRows(q.etag, q.part[1], end)) = end - q.part[1]
    BY <1>2, <2>1, TableRowsAre, Zenon
  <2> HIDE DEF more
  <2>4. /\ r \in ReaderRequests /\ r.pc = "chunks" /\ r.etag = q.etag /\ r.part = q.part
        /\ r.got = TableRows(q.etag, q.part[1], end)
    BY <1>1, <2>2, <2>3 DEF ReaderRequests
  <2>5. Becomes(c, r)
    BY <1>4 DEF more
  <2> HIDE DEF r
  <2>6. r.part[1] + Len(r.got) = end
    BY <2>3, <2>4, <2>1, <1>2
  <2>7. RequestHolds(r)
    BY <1>2, <2>1, <2>4, <2>6 DEF RequestHolds, ReaderHolds
  <2> QED BY <1>1, <2>5, <2>7, CallerStepsAlone
<1> QED BY <1>3, <1>4 DEF ReadChunk

LEMMA EndPart_Inv == ASSUME DatasetInv, NEW c \in Callers, EndPart(c) PROVE DatasetInv'
<1> DEFINE q == request[c]
           v == q.etag
<1>1. /\ q.pc = "chunks" /\ q \in ReaderRequests /\ ReaderHolds(q) /\ v \in Versions
      /\ q.part[1] + Len(q.got) >= q.part[2]
      /\ UNCHANGED <<object, tables, pages, results, writes>>
  BY ReaderIs DEF EndPart, Unreceived, ReaderHolds
<1>2. CASE Becomes(c, Reader("chunks", "member", v, Member(v), 0))
  <2>1. RowCount[v] - 2 \in Int /\ RowCount[v] - 1 \in Int /\ RowCount[v] - 2 <= RowCount[v] - 1
    BY <1>1, VersionsAre
  <2>2. RequestHolds(Reader("chunks", "member", v, Member(v), 0))
    BY <1>1, <2>1, PartStarts DEF Member
  <2> QED BY <1>1, <1>2, <2>2, CallerStepsAlone
<1>3. CASE Becomes(c, [pc |-> "read", got |-> q.got, etag |-> q.etag, part |-> q.part])
  <2> DEFINE r == [pc |-> "read", got |-> q.got, etag |-> q.etag, part |-> q.part]
  <2>1. q.part[1] + Len(q.got) = q.part[2]
    BY <1>1 DEF ReaderRequests, ReaderHolds
  <2>2. q.got = TableRows(v, q.part[1], q.part[2])
    BY <1>1, <2>1 DEF ReaderHolds
  <2>3. RequestHolds(r)
    BY <2>2 DEF RequestHolds
  <2> QED BY <1>1, <1>3, <2>3, CallerStepsAlone
<1> QED BY <1>2, <1>3 DEF EndPart

-----------------------------------------------------------------------------
(* The object and the tables.                                              *)

LEMMA WriteObject_Inv == ASSUME DatasetInv, WriteObject PROVE DatasetInv'
<1>1. object' \in Versions /\ UNCHANGED <<tables, pages, results, request>>
  BY DEF WriteObject
<1>2. ASSUME NEW r, RequestHolds(r) PROVE RequestHolds(r)'
  BY <1>1, <1>2 DEF RequestHolds, TemplateShape, TemplateHolds, Between
<1>3. \A p \in pages : CachedPageHolds(p)'
  BY DEF DatasetInv, CachedPageHolds
<1> QED BY <1>1, <1>2, <1>3 DEF DatasetInv

LEMMA MoveTable_Inv == ASSUME DatasetInv, NEW t \in Tables, MoveTable(t) PROVE DatasetInv'
<1>1. /\ tables' = [tables EXCEPT ![t] = @ + 1] /\ UNCHANGED <<object, pages, results, request>>
      /\ tables \in [Tables -> Int]
  BY DEF MoveTable, DatasetInv
<1>2. tables' \in [Tables -> Int] /\ \A x \in Tables : tables[x] <= tables'[x]
  BY <1>1
<1>3. ASSUME NEW seen, NEW some \in SUBSET Tables, Between(seen, some) PROVE Between(seen, some)'
  <2>1. \A x \in some : seen[x] \in Int /\ tables[x] \in Int /\ tables'[x] \in Int
    BY <1>1, <1>2, <1>3 DEF Between
  <2> QED BY <1>2, <1>3, <2>1 DEF Between
<1>4. ASSUME NEW r, RequestHolds(r) PROVE RequestHolds(r)'
  BY <1>3, <1>4 DEF RequestHolds, TemplateShape, TemplateHolds
<1>5. \A x \in Tables : Expected[x] <= tables'[x]
  BY <1>1, <1>2, DatasetAssumption DEF DatasetInv
<1>6. \A p \in pages : CachedPageHolds(p)'
  BY DEF DatasetInv, CachedPageHolds
<1> QED BY <1>1, <1>2, <1>4, <1>5, <1>6 DEF DatasetInv

\* What was read to its end is of one version, whole and in order, and what a template query
\* answers was read from the registered versions of all its tables: for any table, any sizes of
\* pages, groups and chunks, any tables and any number of callers.
THEOREM ServingIsOfOneVersion == DatasetSpec => []ServedIsOfOneVersion
<1>1. DatasetInv /\ [DatasetNext]_datasetVars => DatasetInv'
  <2> SUFFICES ASSUME DatasetInv, [DatasetNext]_datasetVars PROVE DatasetInv'
    OBVIOUS
  <2>1. CASE UNCHANGED datasetVars
    <3>1. UNCHANGED <<object, tables, pages, results, request>>
      BY <2>1 DEF datasetVars
    <3>2. ASSUME NEW r, RequestHolds(r) PROVE RequestHolds(r)'
      BY <3>1, <3>2 DEF RequestHolds, TemplateShape, TemplateHolds, Between
    <3>3. \A p \in pages : CachedPageHolds(p)'
      BY DEF DatasetInv, CachedPageHolds
    <3> QED BY <3>1, <3>2, <3>3 DEF DatasetInv
  <2>2. ASSUME NEW c \in Callers, AskRows(c) \/ AskTemplate(c) \/ NativeStep(c) PROVE DatasetInv'
    BY <2>2, AskRows_Inv, AskTemplate_Inv, ReadHead_Inv, PageCache_Inv, ReadRange_Inv, PutPage_Inv
       DEF NativeStep
  <2>3. ASSUME NEW c \in Callers, TemplateStep(c) PROVE DatasetInv'
    BY <2>3, VersionCheck_Inv, ResultCache_Inv, EngineReads_Inv, AnswerTemplate_Inv, Timeout_Inv
       DEF TemplateStep
  <2>4. ASSUME NEW c \in Callers, ReaderStep(c) \/ \E kind \in {"whole", "archive"} : AskObject(c, kind)
        PROVE  DatasetInv'
    BY <2>4, HeadMeta_Inv, Transient_Inv, ReadChunk_Inv, EndPart_Inv, AskObject_Inv DEF ReaderStep
  <2> QED BY <2>1, <2>2, <2>3, <2>4, WriteObject_Inv, MoveTable_Inv DEF DatasetNext
<1>2. DatasetInv => ServedIsOfOneVersion
  BY DEF DatasetInv, RequestHolds, ServedIsOfOneVersion
<1> QED BY <1>1, <1>2, DatasetInit_Inv, PTL DEF DatasetSpec

-----------------------------------------------------------------------------
(* Screens of the readiness index.  What the pages so far hold are the matches below the cursor. *)

\* The rows of a release, and the parts of its index by what they hold.
RowsIn(release) == {Row(i, release[i]) : i \in DOMAIN release}

LEMMA RowIs ==
  ASSUME NEW i, NEW record
  PROVE  /\ Row(i, record).cik = i /\ Row(i, record).status = record.status
         /\ record.status = "CLASSIFIED" =>
              /\ Row(i, record).methods = EligibleOf(record.methods)
              /\ Row(i, record).missing = record.missing
              /\ Row(i, record).flags = {f \in Flags : record.readiness[f]}
         /\ record.status # "CLASSIFIED" =>
              Row(i, record).methods = {} /\ Row(i, record).missing = {} /\ Row(i, record).flags = {}
BY DEF Row

LEMMA IndexIs ==
  ASSUME NEW release
  PROVE  LET x == IndexOf(release)
             rows == RowsIn(release)
         IN  /\ \A name \in DOMAIN x.buckets :
                  x.buckets[name] = {row \in rows : name \in FilterNames(row)}
             /\ DOMAIN x.shards = {i % Shards : i \in DOMAIN release}
             /\ \A s \in DOMAIN x.shards : x.shards[s] = {row \in rows : row.cik % Shards = s}
BY DEF IndexOf, RowsIn

\* A row that answers a question has a name of every group of buckets the question may be read
\* from: it is in the candidates, whichever group they are.
LEMMA GroupsCoverMatches ==
  ASSUME NEW q, q.status = {}, q.sectors = {}, NEW row, Matches(row, q), NEW names \in Groups(q)
  PROVE  \E name \in names : name \in FilterNames(row)
<1>1. CASE names = {<<"method", m>> : m \in q.method} /\ names # {}
  <2>1. PICK m \in q.method : m \in row.methods
    BY <1>1 DEF Matches
  <2>2. <<"method", m>> \in names /\ <<"method", m>> \in FilterNames(row)
    BY <1>1, <2>1 DEF FilterNames
  <2> QED BY <2>2
<1>2. CASE \E code \in q.missing : names = {<<"missing", code>>}
  <2>1. PICK code \in q.missing : names = {<<"missing", code>>}
    BY <1>2
  <2>2. code \in row.missing
    BY DEF Matches
  <2>3. <<"missing", code>> \in names /\ <<"missing", code>> \in FilterNames(row)
    BY <2>1, <2>2 DEF FilterNames
  <2> QED BY <2>3
<1>3. CASE \E f \in q.flags : names = {<<"flag", f>>}
  <2>1. PICK f \in q.flags : names = {<<"flag", f>>}
    BY <1>3
  <2>2. f \in row.flags
    BY DEF Matches
  <2>3. <<"flag", f>> \in names /\ <<"flag", f>> \in FilterNames(row)
    BY <2>1, <2>2 DEF FilterNames
  <2> QED BY <2>3
<1>4. {<<"status", s>> : s \in q.status} = {} /\ {<<"sector", s>> : s \in q.sectors} = {}
  OBVIOUS
<1>5. \/ names = {<<"method", m>> : m \in q.method} /\ names # {}
      \/ \E code \in q.missing : names = {<<"missing", code>>}
      \/ \E f \in q.flags : names = {<<"flag", f>>}
  BY <1>4 DEF Groups
<1> QED BY <1>1, <1>2, <1>3, <1>5

\* The row of a record answers what the record answers.
LEMMA RowMatches ==
  ASSUME NEW q \in Questions, q.status = {}, q.sectors = {}, Filtered(q) \/ q.ciks # {},
         NEW i, NEW record
  PROVE  Matching(i, record, q)
           <=> (q.ciks # {} => i \in q.ciks) /\ Matches(Row(i, record), q)
<1> DEFINE row == Row(i, record)
<1>1. q.method \subseteq Methods /\ q.flags \subseteq Flags
  BY ReadinessAssumption
<1>2. CASE record.status = "CLASSIFIED"
  <2>1. /\ row.methods = EligibleOf(record.methods) /\ row.missing = record.missing
        /\ row.flags = {f \in Flags : record.readiness[f]}
    BY <1>2, RowIs
  <2> HIDE DEF row
  <2>2. q.method \cap row.methods # {} <=> \E m \in q.method : record.methods[m] = {}
    BY <1>1, <2>1 DEF EligibleOf
  <2>3. q.flags \subseteq row.flags <=> \A f \in q.flags : record.readiness[f]
    BY <1>1, <2>1, Zenon
  <2>4. Matches(row, q) <=> /\ q.method # {} => q.method \cap row.methods # {}
                            /\ q.missing \subseteq row.missing
                            /\ q.flags \subseteq row.flags
    BY DEF Matches
  <2>5. Matching(i, record, q) <=> /\ q.ciks # {} => i \in q.ciks
                                   /\ q.method # {} => \E m \in q.method : record.methods[m] = {}
                                   /\ q.missing \subseteq record.missing
                                   /\ \A f \in q.flags : record.readiness[f]
    BY <1>2, Zenon DEF Matching
  <2>6. Matching(i, record, q) <=> (q.ciks # {} => i \in q.ciks) /\ Matches(row, q)
    BY <2>1, <2>2, <2>3, <2>4, <2>5, Zenon
  <2> QED BY <2>6 DEF row
<1>3. CASE record.status # "CLASSIFIED"
  <2>1. row.methods = {} /\ row.missing = {} /\ row.flags = {}
    BY <1>3, RowIs
  <2> HIDE DEF row
  <2>2. Matches(row, q) <=> q.method = {} /\ q.missing = {} /\ q.flags = {}
    BY <2>1 DEF Matches
  <2>3. Filtered(q) <=> ~(q.method = {} /\ q.missing = {} /\ q.flags = {})
    BY DEF Filtered
  <2>4. Matching(i, record, q) <=> /\ q.ciks # {} => i \in q.ciks
                                   /\ q.ciks # {} /\ q.method = {} /\ q.missing = {} /\ q.flags = {}
    BY <1>3 DEF Matching
  <2>5. Matching(i, record, q) <=> (q.ciks # {} => i \in q.ciks) /\ Matches(row, q)
    BY <2>2, <2>3, <2>4
  <2> QED BY <2>5 DEF row
<1> QED BY <1>2, <1>3

\* An answer read from candidates that miss no row that answers is whole.
LEMMA ScreenOfCandidates ==
  ASSUME NEW q \in Questions, q.status = {}, q.sectors = {}, Filtered(q) \/ q.ciks # {},
         NEW release, NEW seen, seen \subseteq RowsIn(release),
         \A row \in RowsIn(release) :
           (q.ciks # {} => row.cik \in q.ciks) /\ Matches(row, q) => row \in seen,
         Screen(q, seen).kind = "screen"
  PROVE  /\ Screen(q, seen).question = q
         /\ {row.cik : row \in Screen(q, seen).matches}
              = {i \in DOMAIN release : Matching(i, release[i], q)}
<1> DEFINE matches == {row \in seen : (q.ciks # {} => row.cik \in q.ciks) /\ Matches(row, q)}
<1>1. Screen(q, seen).question = q /\ Screen(q, seen).matches = matches
  BY DEF Screen, Refused
<1>2. ASSUME NEW row \in matches
      PROVE  row.cik \in DOMAIN release /\ Matching(row.cik, release[row.cik], q)
  <2>1. PICK i \in DOMAIN release : row = Row(i, release[i])
    BY DEF RowsIn
  <2>2. row.cik = i
    BY <2>1, RowIs
  <2>3. (q.ciks # {} => row.cik \in q.ciks) /\ Matches(row, q)
    OBVIOUS
  <2>4. Matching(i, release[i], q)
    BY <2>1, <2>2, <2>3, RowMatches
  <2> QED BY <2>2, <2>4
<1>3. ASSUME NEW i \in DOMAIN release, Matching(i, release[i], q)
      PROVE  \E row \in matches : row.cik = i
  <2>1. Row(i, release[i]) \in RowsIn(release) /\ Row(i, release[i]).cik = i
    BY RowIs DEF RowsIn
  <2>2. (q.ciks # {} => i \in q.ciks) /\ Matches(Row(i, release[i]), q)
    BY <1>3, RowMatches
  <2> QED BY <2>1, <2>2
<1> HIDE DEF matches
<1>4. {row.cik : row \in matches} = {i \in DOMAIN release : Matching(i, release[i], q)}
  BY <1>2, <1>3, Zenon
<1> QED BY <1>1, <1>4

LEMMA BucketsCover ==
  ASSUME NEW q \in Questions, q.status = {}, q.sectors = {}, NEW release,
         NEW names \in Smallest(IndexOf(release), q)
  PROVE  LET x == IndexOf(release)
             seen == UNION {x.buckets[name] : name \in names}
         IN  /\ seen \subseteq RowsIn(release)
             /\ \A row \in RowsIn(release) : Matches(row, q) => row \in seen
<1> DEFINE x == IndexOf(release)
           seen == UNION {x.buckets[name] : name \in names}
<1>1. names \in Groups(q) /\ names \subseteq DOMAIN x.buckets
  BY DEF Smallest, Candidates
<1>2. \A name \in names : x.buckets[name] = {row \in RowsIn(release) : name \in FilterNames(row)}
  BY <1>1, IndexIs
<1> HIDE DEF x
<1>3. seen \subseteq RowsIn(release)
  BY <1>2
<1>4. ASSUME NEW row \in RowsIn(release), Matches(row, q) PROVE row \in seen
  <2>1. PICK name \in names : name \in FilterNames(row)
    BY <1>1, <1>4, GroupsCoverMatches
  <2> QED BY <1>2, <2>1
<1> QED BY <1>3, <1>4 DEF x

LEMMA ShardsCover ==
  ASSUME NEW q \in Questions, q.ciks # {}, NEW release
  PROVE  LET seen == ShardRows(IndexOf(release), q)
         IN  /\ seen \subseteq RowsIn(release)
             /\ \A row \in RowsIn(release) : row.cik \in q.ciks => row \in seen
<1> DEFINE x == IndexOf(release)
           some == {i % Shards : i \in q.ciks} \cap DOMAIN x.shards
           seen == UNION {x.shards[s] : s \in some}
<1>1. /\ DOMAIN x.shards = {i % Shards : i \in DOMAIN release}
      /\ \A s \in some : x.shards[s] = {row \in RowsIn(release) : row.cik % Shards = s}
  BY IndexIs
<1> HIDE DEF x
<1>2. seen \subseteq RowsIn(release)
  BY <1>1
<1>3. ASSUME NEW row \in RowsIn(release), row.cik \in q.ciks PROVE row \in seen
  <2>1. row.cik \in DOMAIN release
    BY RowIs DEF RowsIn
  <2>2. row.cik % Shards \in some
    BY <1>1, <1>3, <2>1
  <2>3. row \in x.shards[row.cik % Shards]
    BY <1>1, <2>2
  <2> QED BY <2>2, <2>3
<1> QED BY <1>2, <1>3 DEF ShardRows, x

-----------------------------------------------------------------------------

\* Records are of every issuer, and an index is of the records.
IndexInv ==
  /\ records = << >> \/ DOMAIN records = Issuers
  /\ index = {} \/ (index = {IndexOf(records)} /\ records # << >>)
  /\ screened.kind = "screen" => index # {}
  /\ ScreenIsWhole

LEMMA AskIndex_Inv == IndexInv /\ AskIndex => IndexInv'
<1> SUFFICES ASSUME IndexInv, AskIndex PROVE IndexInv'
  OBVIOUS
<1>1. /\ records' = records /\ index' = index
  BY DEF AskIndex
<1>x. PICK x \in index, q \in Questions :
        \/ screened' = Refused("SCREEN_FILTER_NOT_PUBLISHED")
        \/ /\ Filtered(q)
           /\ \E names \in Smallest(x, q) :
                screened' = Screen(q, UNION {x.buckets[name] : name \in names})
        \/ /\ ~Filtered(q) /\ q.ciks # {}
           /\ screened' = Screen(q, ShardRows(x, q))
  BY Zenon DEF AskIndex
<1>y. index = {IndexOf(records)} /\ x = IndexOf(records) /\ records # << >>
  BY DEF IndexInv
<1>2. /\ index = {IndexOf(records)}
      /\ \/ screened' = Refused("SCREEN_FILTER_NOT_PUBLISHED")
         \/ /\ Filtered(q)
            /\ \E names \in Smallest(IndexOf(records), q) :
                 screened' = Screen(q, UNION {IndexOf(records).buckets[name] : name \in names})
         \/ /\ ~Filtered(q) /\ q.ciks # {}
            /\ screened' = Screen(q, ShardRows(IndexOf(records), q))
  BY <1>x, <1>y, Zenon
<1>3. DOMAIN records = Issuers
  BY <1>2 DEF IndexInv
<1>4. ASSUME screened'.kind = "screen", screened'.question.status = {},
             screened'.question.sectors = {}
      PROVE  {row.cik : row \in screened'.matches}
               = {i \in Issuers : Matching(i, records[i], screened'.question)}
  <2>1. CASE /\ Filtered(q)
             /\ \E names \in Smallest(IndexOf(records), q) :
                  screened' = Screen(q, UNION {IndexOf(records).buckets[name] : name \in names})
    <3>1. PICK names \in Smallest(IndexOf(records), q) :
            screened' = Screen(q, UNION {IndexOf(records).buckets[name] : name \in names})
      BY <2>1
    <3> DEFINE seen == UNION {IndexOf(records).buckets[name] : name \in names}
    <3>2. q.status = {} /\ q.sectors = {}
      BY <1>4, <3>1 DEF Screen, Refused
    <3>3. /\ seen \subseteq RowsIn(records)
          /\ \A row \in RowsIn(records) : Matches(row, q) => row \in seen
      BY <3>2, BucketsCover
    <3>4. screened' = Screen(q, seen) /\ Screen(q, seen).kind = "screen"
      BY <1>4, <3>1
    <3> HIDE DEF seen
    <3>5. \A row \in RowsIn(records) :
            (q.ciks # {} => row.cik \in q.ciks) /\ Matches(row, q) => row \in seen
      BY <3>3
    <3>6. /\ Screen(q, seen).question = q
          /\ {row.cik : row \in Screen(q, seen).matches}
               = {i \in DOMAIN records : Matching(i, records[i], q)}
      BY <2>1, <3>2, <3>3, <3>4, <3>5, ScreenOfCandidates, Zenon
    <3> QED BY <1>3, <3>4, <3>6
  <2>2. CASE /\ ~Filtered(q) /\ q.ciks # {}
             /\ screened' = Screen(q, ShardRows(IndexOf(records), q))
    <3> DEFINE seen == ShardRows(IndexOf(records), q)
    <3>2. q.status = {} /\ q.sectors = {}
      BY <1>4, <2>2 DEF Screen, Refused
    <3>3. /\ seen \subseteq RowsIn(records)
          /\ \A row \in RowsIn(records) : row.cik \in q.ciks => row \in seen
      BY <2>2, ShardsCover
    <3>4. screened' = Screen(q, seen) /\ q.ciks # {} /\ Screen(q, seen).kind = "screen"
      BY <1>4, <2>2
    <3> HIDE DEF seen
    <3>5. \A row \in RowsIn(records) :
            (q.ciks # {} => row.cik \in q.ciks) /\ Matches(row, q) => row \in seen
      BY <3>3, <3>4
    <3>6. /\ Screen(q, seen).question = q
          /\ {row.cik : row \in Screen(q, seen).matches}
               = {i \in DOMAIN records : Matching(i, records[i], q)}
      <4>1. /\ Filtered(q) \/ q.ciks # {}
            /\ Screen(q, seen).kind = "screen" /\ seen \subseteq RowsIn(records)
        BY <3>3, <3>4
      <4> QED BY <3>2, <3>5, <4>1, ScreenOfCandidates
    <3> QED BY <1>3, <3>4, <3>6
  <2>3. CASE screened' = Refused("SCREEN_FILTER_NOT_PUBLISHED")
    BY <1>4, <2>3 DEF Refused
  <2> QED BY <1>2, <2>1, <2>2, <2>3
<1>5. ScreenIsWhole'
  BY <1>1, <1>4 DEF ScreenIsWhole
<1> QED BY <1>1, <1>2, <1>3, <1>5 DEF IndexInv

\* An answered screen has the row of every issuer whose record matches, and of no other, whichever
\* bucket or shards it was read from: for any issuers, records, questions and number of shards.
THEOREM ScreensAreWhole == ReadinessSpec => []ScreenIsWhole
<1>1. ReadinessInit => IndexInv
  BY DEF ReadinessInit, IndexInv, ScreenIsWhole
<1>2. IndexInv /\ [ReadinessNext]_readinessVars => IndexInv'
  <2> SUFFICES ASSUME IndexInv, [ReadinessNext]_readinessVars PROVE IndexInv'
    OBVIOUS
  <2>1. CASE UNCHANGED readinessVars
    BY <2>1 DEF readinessVars, IndexInv, ScreenIsWhole
  <2>2. CASE ClassifyAll
    <3>1. /\ records = << >> /\ DOMAIN records' = Issuers /\ index' = index
          /\ screened'.kind = "summary"
      BY <2>2 DEF ClassifyAll
    <3> QED BY <3>1 DEF IndexInv, ScreenIsWhole
  <2>3. CASE BuildIndex
    <3>1. /\ records # << >> /\ records' = records /\ index' = {IndexOf(records)} /\ index = {}
          /\ screened' = screened
      BY <2>3 DEF BuildIndex
    <3> QED BY <3>1 DEF IndexInv, ScreenIsWhole
  <2> QED BY <2>1, <2>2, <2>3, AskIndex_Inv DEF ReadinessNext
<1>3. IndexInv => ScreenIsWhole
  BY DEF IndexInv
<1> QED BY <1>1, <1>2, <1>3, PTL DEF ReadinessSpec

-----------------------------------------------------------------------------
(* Answers about a company.  First the orders in which rows are answered, and what is taken of
   their ends; then that an answer is a function of what was known at the instant. *)

\* A strict total order of the members of S.
Orders(order, S) ==
  /\ \A x \in S : <<x, x>> \notin order
  /\ \A x, y \in S : x # y => <<x, y>> \in order \/ <<y, x>> \in order
  /\ \A x, y, z \in S : <<x, y>> \in order /\ <<y, z>> \in order => <<x, z>> \in order

Preceding(S, order, x) == {y \in S : <<y, x>> \in order}
Rank(S, order, x) == Cardinality(Preceding(S, order, x))

LEMMA RankIs ==
  ASSUME NEW S, IsFiniteSet(S), NEW order, NEW x \in S
  PROVE  Rank(S, order, x) \in Nat /\ IsFiniteSet(Preceding(S, order, x))
  BY FS_Subset, FS_CardinalityType DEF Rank, Preceding

LEMMA RanksGrow ==
  ASSUME NEW S, IsFiniteSet(S), NEW order, Orders(order, S), NEW x \in S, NEW y \in S,
         <<x, y>> \in order
  PROVE  Rank(S, order, x) < Rank(S, order, y)
<1> DEFINE X == Preceding(S, order, x)
           Y == Preceding(S, order, y)
<1>1. X \subseteq Y /\ x \in Y /\ x \notin X
  BY DEF Orders, Preceding
<1>2. IsFiniteSet(Y) /\ Cardinality(X) \in Nat /\ Cardinality(Y) \in Nat
  BY RankIs DEF Rank
<1> HIDE DEF X, Y
<1>3. Cardinality(X) <= Cardinality(Y) /\ Cardinality(X) # Cardinality(Y)
  BY <1>1, <1>2, FS_Subset
<1> QED
  BY <1>2, <1>3 DEF Rank, X, Y

LEMMA RankBelow ==
  ASSUME NEW S, IsFiniteSet(S), NEW order, Orders(order, S), NEW x \in S
  PROVE  Rank(S, order, x) \in 0..(Cardinality(S) - 1)
<1> DEFINE X == Preceding(S, order, x)
<1>1. X \subseteq S \ {x}
  BY DEF Orders, Preceding
<1>2. IsFiniteSet(S \ {x}) /\ Cardinality(S \ {x}) = Cardinality(S) - 1
  BY FS_RemoveElement
<1>3. Cardinality(X) <= Cardinality(S \ {x}) /\ Cardinality(X) \in Nat /\ Cardinality(S) \in Nat
  BY <1>1, <1>2, FS_Subset, FS_CardinalityType
<1> QED
  BY <1>2, <1>3 DEF Rank

\* Every rank below the number of members is that of exactly one member.
LEMMA RanksAreAll ==
  ASSUME NEW S, IsFiniteSet(S), NEW order, Orders(order, S), NEW k \in 0..(Cardinality(S) - 1)
  PROVE  \E x \in S : Rank(S, order, x) = k /\ \A y \in S : Rank(S, order, y) = k => y = x
<1> DEFINE n == Cardinality(S)
           T == 0..(n - 1)
           f == [x \in S |-> Rank(S, order, x)]
<1>1. n \in Nat /\ IsFiniteSet(T) /\ Cardinality(T) = n
  <2>1. n \in Nat
    BY FS_CardinalityType
  <2> HIDE DEF n
  <2>2. 0 \in Int /\ n - 1 \in Int
    BY <2>1
  <2>3. IsFiniteSet(T) /\ Cardinality(T) = IF 0 > n - 1 THEN 0 ELSE n - 1 - 0 + 1
    BY <2>2, FS_Interval
  <2> QED
    BY <2>1, <2>3
<1>2. f \in [S -> T]
  BY RankBelow
<1>3. ASSUME NEW x \in S, NEW y \in S, f[x] = f[y] PROVE x = y
  <2>1. Rank(S, order, x) = Rank(S, order, y) /\ Rank(S, order, x) \in Nat
    BY <1>3, RankIs
  <2>2. ~(<<x, y>> \in order) /\ ~(<<y, x>> \in order)
    BY <2>1, RanksGrow
  <2> QED
    BY <2>2 DEF Orders
<1> HIDE DEF f
<1>4. f \in Injection(S, T)
  BY <1>2, <1>3 DEF Injection, IsInjective
<1>5. f \in Surjection(S, T)
  BY <1>1, <1>4, FS_Injection DEF n
<1>6. \E x \in S : f[x] = k
  BY <1>5 DEF Surjection
<1> QED
  BY <1>3, <1>6 DEF f

\* The rows in order: the one at i is the only one that i - 1 precede.
LEMMA InOrderIs ==
  ASSUME NEW S, IsFiniteSet(S), NEW order, Orders(order, S)
  PROVE  /\ Cardinality(S) \in Nat
         /\ InOrder(S, order) \in [1..Cardinality(S) -> S]
         /\ \A i \in 1..Cardinality(S) : Rank(S, order, InOrder(S, order)[i]) = i - 1
         /\ \A x \in S : /\ Rank(S, order, x) + 1 \in 1..Cardinality(S)
                         /\ InOrder(S, order)[Rank(S, order, x) + 1] = x
<1> DEFINE n == Cardinality(S)
           At(i) == CHOOSE x \in S : Rank(S, order, x) = i - 1
<1>1. n \in Nat
  BY FS_CardinalityType
<1>2. InOrder(S, order) = [i \in 1..n |-> At(i)]
  BY DEF InOrder, Rank, Preceding
<1>3. ASSUME NEW i \in 1..n
      PROVE  /\ At(i) \in S /\ Rank(S, order, At(i)) = i - 1
             /\ \A y \in S : Rank(S, order, y) = i - 1 => y = At(i)
  <2>1. i - 1 \in 0..(n - 1)
    BY <1>1
  <2>2. \E x \in S : Rank(S, order, x) = i - 1 /\ \A y \in S : Rank(S, order, y) = i - 1 => y = x
    BY <2>1, RanksAreAll
  <2>3. At(i) \in S /\ Rank(S, order, At(i)) = i - 1
    BY <2>2
  <2> HIDE DEF At
  <2> QED
    BY <2>2, <2>3
<1>4. ASSUME NEW x \in S
      PROVE  Rank(S, order, x) + 1 \in 1..n /\ At(Rank(S, order, x) + 1) = x
  <2> DEFINE i == Rank(S, order, x) + 1
  <2>1. i \in 1..n /\ Rank(S, order, x) = i - 1
    <3>1. Rank(S, order, x) \in 0..(n - 1)
      BY RankBelow
    <3> HIDE DEF n
    <3> QED
      BY <1>1, <3>1
  <2> HIDE DEF i, At
  <2>2. At(i) = x
    BY <1>3, <2>1
  <2> QED
    BY <2>1, <2>2 DEF i
<1> HIDE DEF At
<1> QED
  BY <1>1, <1>2, <1>3, <1>4

LEMMA RowsInOrder ==
  ASSUME NEW S, IsFiniteSet(S), NEW order, Orders(order, S)
  PROVE  /\ InOrder(S, order) \in Seq(S) /\ Len(InOrder(S, order)) = Cardinality(S)
         /\ \A x \in S : \E i \in 1..Cardinality(S) : InOrder(S, order)[i] = x
         /\ \A i, j \in 1..Cardinality(S) :
              i < j => <<InOrder(S, order)[i], InOrder(S, order)[j]>> \in order
<1> DEFINE n == Cardinality(S)
           s == InOrder(S, order)
<1>1. /\ n \in Nat /\ s \in [1..n -> S]
      /\ \A i \in 1..n : Rank(S, order, s[i]) = i - 1
      /\ \A x \in S : Rank(S, order, x) + 1 \in 1..n /\ s[Rank(S, order, x) + 1] = x
  BY InOrderIs
<1> HIDE DEF n, s
<1>2. s \in Seq(S) /\ Len(s) = n
  BY <1>1
<1>3. \A x \in S : \E i \in 1..n : s[i] = x
  BY <1>1
<1>4. ASSUME NEW i \in 1..n, NEW j \in 1..n, i < j PROVE <<s[i], s[j]>> \in order
  <2>1. s[i] \in S /\ s[j] \in S /\ Rank(S, order, s[i]) = i - 1 /\ Rank(S, order, s[j]) = j - 1
    BY <1>1
  <2>2. s[i] # s[j]
    BY <1>1, <1>4, <2>1
  <2>3. ~(<<s[j], s[i]>> \in order)
    <3>1. <<s[j], s[i]>> \in order => Rank(S, order, s[j]) < Rank(S, order, s[i])
      BY <2>1, RanksGrow
    <3> QED
      BY <1>1, <1>4, <2>1, <3>1
  <2> QED
    BY <2>1, <2>2, <2>3 DEF Orders
<1> QED
  BY <1>2, <1>3, <1>4 DEF n, s

\* Rows that all precede others, and the others: one after the other.
\* Two orders that agree on A; an order in which all of A precedes all of B.
Agree(order, other, A) == \A x, y \in A : <<x, y>> \in order <=> <<x, y>> \in other
Precedes(order, A, B) == \A x \in A, y \in B : <<x, y>> \in order
Apart(A, B) == A \cap B = {}

LEMMA OrdersJoin ==
  ASSUME NEW A, IsFiniteSet(A), NEW B, IsFiniteSet(B), NEW order, NEW orderA, NEW orderB,
         NEW C, \A x : x \in C <=> x \in A \cup B, Orders(order, C), Apart(A, B), Agree(orderA, order, A), Agree(orderB, order, B),
         Precedes(order, A, B)
  PROVE  InOrder(C, order) = InOrder(A, orderA) \o InOrder(B, orderB)
<1>a. C = A \cup B
  OBVIOUS
<1>b. SUFFICES InOrder(A \cup B, order) = InOrder(A, orderA) \o InOrder(B, orderB)
  BY <1>a
<1>c. Orders(order, A \cup B)
  BY <1>a
<1> DEFINE m == Cardinality(A)
           n == Cardinality(B)
           s == InOrder(A, orderA)
           t == InOrder(B, orderB)
           u == InOrder(A \cup B, order)
<1>0. /\ A \cap B = {}
      /\ \A x, y \in A : <<x, y>> \in orderA <=> <<x, y>> \in order
      /\ \A x, y \in B : <<x, y>> \in orderB <=> <<x, y>> \in order
      /\ \A x \in A, y \in B : <<x, y>> \in order
  BY DEF Apart, Agree, Precedes
<1>1. Orders(orderA, A) /\ Orders(orderB, B)
  BY <1>0, <1>c DEF Orders
<1>2. /\ IsFiniteSet(A \cup B) /\ Cardinality(A \cup B) = m + n /\ m \in Nat /\ n \in Nat
  <2>1. m \in Nat /\ n \in Nat
    BY FS_CardinalityType
  <2>2. IsFiniteSet(A \cup B) /\ Cardinality(A \cup B) = m + n - Cardinality(A \cap B)
    BY FS_Union
  <2>3. Cardinality(A \cap B) = 0
    BY <1>0, FS_EmptySet
  <2> HIDE DEF m, n
  <2> QED
    BY <2>1, <2>2, <2>3
<1>3. /\ s \in [1..m -> A] /\ \A i \in 1..m : Rank(A, orderA, s[i]) = i - 1
      /\ t \in [1..n -> B] /\ \A i \in 1..n : Rank(B, orderB, t[i]) = i - 1
  <2>1. s \in [1..m -> A] /\ \A i \in 1..m : Rank(A, orderA, s[i]) = i - 1
    BY <1>1, InOrderIs, Zenon
  <2>2. t \in [1..n -> B] /\ \A i \in 1..n : Rank(B, orderB, t[i]) = i - 1
    BY <1>1, InOrderIs, Zenon
  <2> QED
    BY <2>1, <2>2, Zenon
<1>4. /\ u \in [1..(m + n) -> A \cup B]
      /\ \A x \in A \cup B : u[Rank(A \cup B, order, x) + 1] = x
  <2>1. /\ u \in [1..Cardinality(A \cup B) -> A \cup B]
        /\ \A x \in A \cup B : u[Rank(A \cup B, order, x) + 1] = x
    BY <1>c, <1>2, InOrderIs, Zenon
  <2> HIDE DEF u
  <2> QED
    BY <1>2, <2>1
<1>5. ASSUME NEW x \in A PROVE Rank(A \cup B, order, x) = Rank(A, orderA, x)
  <2>1. Preceding(A \cup B, order, x) = Preceding(A, orderA, x)
    BY <1>0 DEF Preceding, Orders
  <2> QED
    BY <2>1 DEF Rank
<1>6. ASSUME NEW x \in B PROVE Rank(A \cup B, order, x) = m + Rank(B, orderB, x)
  <2> DEFINE P == Preceding(B, orderB, x)
  <2>1. Preceding(A \cup B, order, x) = A \cup P /\ A \cap P = {}
    BY <1>0 DEF Preceding, Orders
  <2>2. IsFiniteSet(P) /\ Cardinality(P) \in Nat
    BY RankIs DEF Rank
  <2> HIDE DEF P
  <2>3. Cardinality(A \cup P) = m + Cardinality(P) - Cardinality(A \cap P)
    BY <2>2, FS_Union
  <2>4. Cardinality(A \cap P) = 0
    BY <2>1, FS_EmptySet
  <2> HIDE DEF m
  <2>5. Cardinality(A \cup P) = m + Cardinality(P)
    BY <1>2, <2>2, <2>3, <2>4
  <2>6. Cardinality(Preceding(A \cup B, order, x)) = m + Cardinality(P)
    BY <2>1, <2>5
  <2> QED
    BY <2>6 DEF Rank, P
<1> HIDE DEF m, n, s, t, u
<1>7. s \in Seq(A) /\ Len(s) = m /\ t \in Seq(B) /\ Len(t) = n
  BY <1>2, <1>3
<1>8. /\ s \o t \in [1..(m + n) -> A \cup B]
      /\ \A i \in 1..(m + n) : (s \o t)[i] = IF i <= m THEN s[i] ELSE t[i - m]
  <2>1. s \in Seq(A \cup B) /\ t \in Seq(A \cup B)
    BY <1>7
  <2>2. /\ s \o t \in Seq(A \cup B) /\ Len(s \o t) = Len(s) + Len(t)
        /\ \A i \in 1..(Len(s) + Len(t)) : (s \o t)[i] = IF i <= Len(s) THEN s[i] ELSE t[i - Len(s)]
    BY <2>1, ConcatProperties, Zenon
  <2> DEFINE w == s \o t
  <2> HIDE DEF w
  <2>3. /\ w \in Seq(A \cup B) /\ Len(w) = m + n
        /\ \A i \in 1..(m + n) : w[i] = IF i <= m THEN s[i] ELSE t[i - m]
    BY <1>7, <2>2 DEF w
  <2>4. w \in [1..(m + n) -> A \cup B]
    BY <2>3
  <2> QED
    BY <2>3, <2>4 DEF w
<1>9. ASSUME NEW i \in 1..(m + n) PROVE u[i] = (s \o t)[i]
  <2>1. CASE i <= m
    <3>1. i \in 1..m /\ s[i] \in A /\ Rank(A, orderA, s[i]) = i - 1
      BY <1>2, <1>3, <2>1
    <3>2. u[Rank(A \cup B, order, s[i]) + 1] = s[i] /\ Rank(A \cup B, order, s[i]) = i - 1
      BY <1>4, <1>5, <3>1
    <3> QED
      BY <1>2, <1>8, <2>1, <3>1, <3>2
  <2>2. CASE i > m
    <3> DEFINE j == i - m
    <3>1. j \in 1..n /\ t[j] \in B /\ Rank(B, orderB, t[j]) = j - 1
      BY <1>2, <1>3, <2>2
    <3>2. u[Rank(A \cup B, order, t[j]) + 1] = t[j] /\ Rank(A \cup B, order, t[j]) = m + (j - 1)
      BY <1>4, <1>6, <3>1
    <3>3. m + (j - 1) + 1 = i
      BY <1>2
    <3> HIDE DEF j
    <3>4. u[i] = t[j]
      BY <3>2, <3>3
    <3> QED
      BY <1>2, <1>8, <2>2, <3>4 DEF j
  <2>3. i <= m \/ i > m
    BY <1>2
  <2> QED
    BY <2>1, <2>2, <2>3
<1>10. u = s \o t
  <2>1. u = [i \in 1..(m + n) |-> u[i]] /\ s \o t = [i \in 1..(m + n) |-> (s \o t)[i]]
    BY <1>4, <1>8
  <2> QED
    BY <1>9, <2>1
<1> QED
  BY <1>10 DEF s, t, u

-----------------------------------------------------------------------------
(* Closes.                                                                 *)
OneCloseEach(C) ==
  IsFiniteSet(C) /\ \A r, s \in C : r.session \in Nat /\ (r.session = s.session => r = s)

LEMMA InSession ==
  ASSUME NEW C, NEW x, NEW y
  PROVE  <<x, y>> \in BySession(C) <=> x \in C /\ y \in C /\ x.session < y.session
  BY DEF BySession

LEMMA SessionsOrdered == ASSUME NEW C, OneCloseEach(C) PROVE Orders(BySession(C), C)
<1>1. \A x, y \in C : x.session \in Nat /\ (x # y => x.session # y.session)
  BY DEF OneCloseEach
<1>2. \A x \in C : <<x, x>> \notin BySession(C)
  BY <1>1, InSession
<1>3. ASSUME NEW x \in C, NEW y \in C, x # y
      PROVE <<x, y>> \in BySession(C) \/ <<y, x>> \in BySession(C)
  <2>1. x.session < y.session \/ y.session < x.session
    BY <1>1, <1>3
  <2> QED
    BY <2>1, InSession
<1>4. ASSUME NEW x \in C, NEW y \in C, NEW z \in C,
             <<x, y>> \in BySession(C), <<y, z>> \in BySession(C)
      PROVE  <<x, z>> \in BySession(C)
  <2>1. x.session < y.session /\ y.session < z.session
    BY <1>4, InSession
  <2>2. x.session < z.session
    BY <1>1, <2>1
  <2> QED
    BY <2>2, InSession
<1> QED
  BY <1>2, <1>3, <1>4 DEF Orders

LEMMA ClosesWithin ==
  ASSUME NEW C, OneCloseEach(C), NEW D \in SUBSET C PROVE OneCloseEach(D)
  BY FS_Subset DEF OneCloseEach

LEMMA SessionsAre ==
  ASSUME NEW C, OneCloseEach(C)
  PROVE  /\ Sessions(C) \in Seq(C) /\ Len(Sessions(C)) = Cardinality(C) /\ Cardinality(C) \in Nat
         /\ \A x \in C : \E i \in 1..Cardinality(C) : Sessions(C)[i] = x
         /\ \A i, j \in 1..Cardinality(C) :
              i < j => Sessions(C)[i].session < Sessions(C)[j].session
<1> DEFINE s == InOrder(C, BySession(C))
           n == Cardinality(C)
<1>1. /\ s \in Seq(C) /\ Len(s) = n /\ \A x \in C : \E i \in 1..n : s[i] = x
      /\ \A i, j \in 1..n : i < j => <<s[i], s[j]>> \in BySession(C)
  <2>1. IsFiniteSet(C) /\ Orders(BySession(C), C)
    BY SessionsOrdered DEF OneCloseEach
  <2> QED
    BY <2>1, RowsInOrder
<1>2. \A i, j \in 1..n : i < j => s[i].session < s[j].session
  BY <1>1, InSession
<1>3. n \in Nat
  BY FS_CardinalityType DEF OneCloseEach
<1>4. s = Sessions(C)
  BY DEF Sessions
<1> HIDE DEF s, n
<1> QED
  BY <1>1, <1>2, <1>3, <1>4 DEF n

LEMMA SessionsJoin ==
  ASSUME NEW A, NEW B, OneCloseEach(A \cup B), \A a \in A, b \in B : a.session < b.session
  PROVE  Sessions(A \cup B) = Sessions(A) \o Sessions(B)
<1>1. OneCloseEach(A) /\ OneCloseEach(B)
  BY ClosesWithin
<1>2. IsFiniteSet(A) /\ IsFiniteSet(B)
  BY <1>1 DEF OneCloseEach
<1>3. A \cap B = {}
  <2>1. \A a \in A : a.session \in Nat
    BY DEF OneCloseEach
  <2> QED
    BY <2>1
<1>4. /\ \A x, y \in A : <<x, y>> \in BySession(A) <=> <<x, y>> \in BySession(A \cup B)
      /\ \A x, y \in B : <<x, y>> \in BySession(B) <=> <<x, y>> \in BySession(A \cup B)
      /\ \A x \in A, y \in B : <<x, y>> \in BySession(A \cup B)
  BY InSession
<1> QED
  <2> DEFINE C == A \cup B
             order == BySession(C)
             orderA == BySession(A)
             orderB == BySession(B)
  <2>1. Orders(order, C)
    BY SessionsOrdered
  <2>2. Sessions(A \cup B) = InOrder(C, order) /\ Sessions(A) = InOrder(A, orderA)
        /\ Sessions(B) = InOrder(B, orderB)
    BY DEF Sessions
  <2>4. Apart(A, B) /\ Agree(orderA, order, A) /\ Agree(orderB, order, B) /\ Precedes(order, A, B)
    BY <1>3, <1>4 DEF Apart, Agree, Precedes
  <2>5. \A x : x \in C <=> x \in A \cup B
    OBVIOUS
  <2> HIDE DEF C, order, orderA, orderB
  <2>3. InOrder(C, order) = InOrder(A, orderA) \o InOrder(B, orderB)
    BY <1>2, <2>1, <2>4, <2>5, OrdersJoin
  <2> QED
    BY <2>2, <2>3, Zenon

-----------------------------------------------------------------------------
(* The last rows.                                                          *)
LEMMA LastRowsAre ==
  ASSUME NEW S, NEW s \in Seq(S), NEW n \in Nat \ {0}
  PROVE  LET l == IF Len(s) > n THEN n ELSE Len(s) IN
         /\ LastRows(s, n) \in Seq(S) /\ Len(LastRows(s, n)) = l /\ l \in 0..Len(s) /\ l <= n
         /\ \A i \in 1..l : LastRows(s, n)[i] = s[Len(s) - l + i] /\ Len(s) - l + i \in 1..Len(s)
<1> DEFINE m == Len(s)
           f == IF m > n THEN m - n + 1 ELSE 1
           l == IF m > n THEN n ELSE m
<1>1. m \in Nat /\ \A i \in 1..m : s[i] \in S
  BY ElementOfSeq
<1> HIDE DEF m
<1>2. f \in 1..(m + 1) /\ l \in 0..m /\ l <= n /\ f = m - l + 1
  BY <1>1
<1> HIDE DEF f, l
<1>3. \A i \in f..m : s[i] \in S
  BY <1>1, <1>2
<1>4. /\ SubSeq(s, f, m) \in Seq(S)
      /\ Len(SubSeq(s, f, m)) = IF f <= m THEN m - f + 1 ELSE 0
      /\ \A i \in 1..(m - f + 1) : SubSeq(s, f, m)[i] = s[f + i - 1]
  BY <1>1, <1>2, <1>3, SubSeqProperties
<1>5. LastRows(s, n) = SubSeq(s, f, m)
  BY DEF LastRows, f, m
<1> DEFINE t == SubSeq(s, f, m)
<1> HIDE DEF t
<1>6. t \in Seq(S) /\ Len(t) = l
  BY <1>1, <1>2, <1>4 DEF t
<1>7. ASSUME NEW i \in 1..l PROVE t[i] = s[m - l + i] /\ m - l + i \in 1..m
  <2>1. i \in 1..(m - f + 1) /\ f + i - 1 = m - l + i /\ m - l + i \in 1..m
    BY <1>1, <1>2
  <2> QED
    BY <1>4, <2>1 DEF t
<1>8. /\ t \in Seq(S) /\ Len(t) = l /\ l \in 0..m /\ l <= n
      /\ \A i \in 1..l : t[i] = s[m - l + i] /\ m - l + i \in 1..m
  BY <1>2, <1>6, <1>7
<1> QED
  BY <1>5, <1>8 DEF m, l, t

LEMMA LastOfFew ==
  ASSUME NEW S, NEW s \in Seq(S), NEW n \in Nat \ {0}, Len(s) <= n
  PROVE  LastRows(s, n) = s
<1> DEFINE t == LastRows(s, n)
           m == Len(s)
<1>1. m \in Nat /\ ~(m > n)
  OBVIOUS
<1>2. t \in Seq(S) /\ Len(t) = m /\ \A i \in 1..m : t[i] = s[m - m + i]
  BY <1>1, LastRowsAre
<1> HIDE DEF t, m
<1>3. \A i \in 1..m : t[i] = s[i]
  <2>1. \A i \in 1..m : m - m + i = i
    BY <1>1
  <2> QED
    BY <1>2, <2>1
<1>4. t = s
  BY <1>2, <1>3, SeqEqual DEF m
<1> QED
  BY <1>4 DEF t

LEMMA LastOfJoin ==
  ASSUME NEW S, NEW s \in Seq(S), NEW t \in Seq(S), NEW n \in Nat \ {0}, n <= Len(t)
  PROVE  LastRows(s \o t, n) = LastRows(t, n)
<1> DEFINE u == s \o t
           a == LastRows(u, n)
           b == LastRows(t, n)
           k == Len(s)
           m == Len(t)
<1>1. k \in Nat /\ m \in Nat /\ n <= m
  OBVIOUS
<1>2. /\ u \in Seq(S) /\ Len(u) = k + m
      /\ \A i \in 1..(k + m) : u[i] = IF i <= k THEN s[i] ELSE t[i - k]
  BY ConcatProperties, Zenon
<1> HIDE DEF u, k, m
<1>3. /\ b \in Seq(S) /\ Len(b) = IF m > n THEN n ELSE m
      /\ \A i \in 1..(IF m > n THEN n ELSE m) : b[i] = t[m - (IF m > n THEN n ELSE m) + i]
  BY LastRowsAre DEF m
<1>4. /\ a \in Seq(S) /\ Len(a) = IF Len(u) > n THEN n ELSE Len(u)
      /\ \A i \in 1..(IF Len(u) > n THEN n ELSE Len(u)) :
           a[i] = u[Len(u) - (IF Len(u) > n THEN n ELSE Len(u)) + i]
  BY <1>2, LastRowsAre
<1> HIDE DEF a, b
<1>5. (IF m > n THEN n ELSE m) = n /\ (IF Len(u) > n THEN n ELSE Len(u)) = n
  BY <1>1, <1>2
<1>6. Len(a) = n /\ Len(b) = n /\ \A i \in 1..n : a[i] = u[k + m - n + i] /\ b[i] = t[m - n + i]
  <2>1. /\ Len(b) = n /\ \A i \in 1..n : b[i] = t[m - n + i]
        /\ Len(a) = n /\ \A i \in 1..n : a[i] = u[Len(u) - n + i]
    BY <1>3, <1>4, <1>5, Zenon
  <2>2. Len(u) = k + m
    BY <1>2
  <2>3. ASSUME NEW i \in 1..n PROVE a[i] = u[k + m - n + i] /\ b[i] = t[m - n + i]
    <3>1. a[i] = u[Len(u) - n + i] /\ b[i] = t[m - n + i]
      BY <2>1, Zenon
    <3>2. Len(u) - n + i = k + m - n + i
      BY <1>1, <2>2
    <3> QED
      BY <3>1, <3>2, Zenon
  <2> QED
    BY <2>1, <2>3, Zenon
<1>7. ASSUME NEW i \in 1..n PROVE a[i] = b[i]
  <2>2. u[k + m - n + i] = t[m - n + i]
    <3> DEFINE j == k + m - n + i
    <3>2. j \in 1..(k + m) /\ ~(j <= k) /\ j - k = m - n + i
      BY <1>1
    <3> HIDE DEF j
    <3>3. u[j] = IF j <= k THEN s[j] ELSE t[j - k]
      BY <1>2, <3>2, Zenon
    <3>4. u[j] = t[j - k]
      BY <3>2, <3>3, Zenon
    <3>5. u[j] = t[m - n + i]
      BY <3>2, <3>4, Zenon
    <3> QED
      BY <3>5, Zenon DEF j
  <2> QED
    BY <1>6, <2>2
<1>8. a = b
  BY <1>3, <1>4, <1>6, <1>7, SeqEqual
<1> QED
  BY <1>8 DEF a, b, u

-----------------------------------------------------------------------------
(* Annual rows.  The last of a finite set in an order; the least natural number of a set.          *)
LEMMA LastInOrder ==
  ASSUME NEW S, IsFiniteSet(S), S # {}, NEW order, Orders(order, S)
  PROVE  \E z \in S : \A y \in S : y # z => <<y, z>> \in order
<1> DEFINE n == Cardinality(S)
           s == InOrder(S, order)
<1>1. /\ s \in Seq(S) /\ Len(s) = n /\ n \in Nat
      /\ \A x \in S : \E i \in 1..n : s[i] = x
      /\ \A i, j \in 1..n : i < j => <<s[i], s[j]>> \in order
  BY RowsInOrder, FS_CardinalityType
<1> HIDE DEF s, n
<1>2. n \in 1..n /\ s[n] \in S
  <2>1. PICK x \in S : TRUE
    OBVIOUS
  <2>2. PICK i \in 1..n : s[i] = x
    BY <1>1, <2>1
  <2>3. n \in 1..n
    BY <1>1, <2>2
  <2> QED
    BY <1>1, <2>3, ElementOfSeq
<1>3. ASSUME NEW y \in S, y # s[n] PROVE <<y, s[n]>> \in order
  <2>1. PICK i \in 1..n : s[i] = y
    BY <1>1
  <2>2. i < n
    BY <1>1, <1>3, <2>1
  <2> QED
    BY <1>1, <1>2, <2>1, <2>2
<1> QED
  BY <1>2, <1>3

LEMMA LeastNumber ==
  ASSUME NEW S \in SUBSET Nat, S # {}
  PROVE  \E i \in S : \A j \in S : i <= j
<1>1. PICK i \in S : \A j \in S : ~(<<j, i>> \in OpToRel(<, Nat))
  BY NatLessThanWellFounded, WFMin
<1>2. \A j \in S : ~(j < i)
  BY <1>1 DEF OpToRel
<1>3. ASSUME NEW j \in S PROVE i <= j
  <2>1. i \in Nat /\ j \in Nat /\ ~(j < i)
    BY <1>1, <1>2
  <2> QED
    BY <2>1
<1> QED
  BY <1>3

\* Rows of one company: numbered, each with a period and at most one moment.
RowsOfOne(R) ==
  /\ IsFiniteSet(R)
  /\ \A r \in R : /\ r.id \in Nat /\ r.start \in Nat /\ r.end \in Nat
                  /\ r.public \subseteq Moments /\ \A m, n \in r.public : m = n
  /\ \A r, s \in R : r.id = s.id => r = s

LEMMA RowsWithin ==
  ASSUME NEW R, RowsOfOne(R), NEW D \in SUBSET R PROVE RowsOfOne(D)
  BY FS_Subset DEF RowsOfOne

LEMMA InPeriod ==
  ASSUME NEW R, NEW x, NEW y
  PROVE  <<x, y>> \in ByPeriod(R) <=>
           x \in R /\ y \in R /\ (x.end < y.end \/ (x.end = y.end /\ x.id < y.id))
  BY DEF ByPeriod

LEMMA PeriodsOrdered == ASSUME NEW R, RowsOfOne(R) PROVE Orders(ByPeriod(R), R)
<1>1. /\ \A x \in R : x.end \in Nat /\ x.id \in Nat
      /\ \A x, y \in R : x.id = y.id => x = y
  BY DEF RowsOfOne
<1>2. \A x \in R : <<x, x>> \notin ByPeriod(R)
  BY <1>1, InPeriod
<1>3. ASSUME NEW x \in R, NEW y \in R, x # y
      PROVE <<x, y>> \in ByPeriod(R) \/ <<y, x>> \in ByPeriod(R)
  <2>1. \/ x.end < y.end \/ (x.end = y.end /\ x.id < y.id)
        \/ y.end < x.end \/ (y.end = x.end /\ y.id < x.id)
    BY <1>1, <1>3
  <2> QED
    BY <2>1, InPeriod
<1>4. ASSUME NEW x \in R, NEW y \in R, NEW z \in R,
             <<x, y>> \in ByPeriod(R), <<y, z>> \in ByPeriod(R)
      PROVE  <<x, z>> \in ByPeriod(R)
  <2>1. /\ x.end < y.end \/ (x.end = y.end /\ x.id < y.id)
        /\ y.end < z.end \/ (y.end = z.end /\ y.id < z.id)
    BY <1>4, InPeriod
  <2>2. x.end < z.end \/ (x.end = z.end /\ x.id < z.id)
    BY <1>1, <2>1
  <2> QED
    BY <2>2, InPeriod
<1> QED
  BY <1>2, <1>3, <1>4 DEF Orders

\* A row of each period that is the last by some instant, then by its number.
LEMMA GreatestOfPeriod ==
  ASSUME NEW R, RowsOfOne(R), NEW x \in R, NEW key, NEW number,
         \A r \in R : key[r] \in Int /\ number[r] \in Int,
         \A r, s \in R : number[r] = number[s] => r = s
  PROVE  \E z \in R : /\ SamePeriod(z, x)
                      /\ \A y \in R : SamePeriod(z, y) =>
                           key[y] < key[z] \/ (key[y] = key[z] /\ number[y] <= number[z])
<1> DEFINE P == {y \in R : SamePeriod(y, x)}
           order == {p \in P \X P : \/ key[p[1]] < key[p[2]]
                                    \/ key[p[1]] = key[p[2]] /\ number[p[1]] < number[p[2]]}
<1>1. IsFiniteSet(P) /\ P # {}
  <2>1. IsFiniteSet(P)
    BY FS_Subset DEF RowsOfOne
  <2>2. x \in P
    BY DEF SamePeriod
  <2> QED
    BY <2>1, <2>2
<1>2. \A y, z \in P : <<y, z>> \in order <=>
        key[y] < key[z] \/ (key[y] = key[z] /\ number[y] < number[z])
  OBVIOUS
<1>3. \A y, z \in P : /\ key[y] \in Int /\ number[y] \in Int
                      /\ number[y] = number[z] => y = z
  OBVIOUS
<1> HIDE DEF order
<1>4. P \subseteq R /\ \A y \in P : SamePeriod(y, x)
  OBVIOUS
<1>5. \A z \in P, y \in R : SamePeriod(z, y) => y \in P
  BY DEF SamePeriod
<1> HIDE DEF P
<1>6. Orders(order, P)
  <2>1. \A y \in P : <<y, y>> \notin order
    BY <1>2, <1>3
  <2>2. \A y, z \in P : y # z => <<y, z>> \in order \/ <<z, y>> \in order
    BY <1>2, <1>3
  <2>3. \A w, y, z \in P : <<w, y>> \in order /\ <<y, z>> \in order => <<w, z>> \in order
    BY <1>2, <1>3
  <2> QED
    BY <2>1, <2>2, <2>3 DEF Orders
<1>7. PICK z \in P : \A y \in P : y # z => <<y, z>> \in order
  BY <1>1, <1>6, LastInOrder
<1>8. ASSUME NEW y \in P
      PROVE  key[y] < key[z] \/ (key[y] = key[z] /\ number[y] <= number[z])
  <2>1. CASE y = z
    <3>1. key[y] = key[z] /\ number[y] = number[z] /\ number[y] \in Int
      BY <1>3, <2>1
    <3> QED
      BY <3>1
  <2>2. CASE y # z
    <3>1. key[y] < key[z] \/ (key[y] = key[z] /\ number[y] < number[z])
      BY <1>2, <1>7, <2>2
    <3>2. number[y] \in Int /\ number[z] \in Int
      BY <1>3
    <3> QED
      BY <3>1, <3>2
  <2> QED
    BY <2>1, <2>2
<1> QED
  BY <1>4, <1>5, <1>7, <1>8

\* The instant of a row, that revisions are ordered by.
InstantOf(r) == IF r.public = {} THEN 0 ELSE NormalizeSourceInstant(CHOOSE m \in r.public : TRUE)

LEMMA InstantsAre ==
  ASSUME NEW R, RowsOfOne(R), NEW r \in R
  PROVE  /\ InstantOf(r) \in Nat /\ \A t \in Ordered(r) : t = InstantOf(r)
         /\ Ordered(r) = {} <=> r.public = {}
         /\ AvailableFrom(r) \in Int
         /\ \A m \in r.public : AvailabilityInstant(m) = AvailableFrom(r)
<1>1. /\ \A m \in r.public : m.at \in Nat /\ m.dated \in BOOLEAN
      /\ \A m, n \in r.public : m = n
  BY DEF RowsOfOne, Moments
<1>2. CASE r.public = {}
  BY <1>2 DEF InstantOf, Ordered, AvailableFrom
<1>3. CASE r.public # {}
  <2>1. PICK m \in r.public : TRUE
    BY <1>3
  <2>2. r.public = {m} /\ m.at \in Nat
    BY <1>1, <2>1
  <2>3. NormalizeSourceInstant(m) \in Nat /\ AvailabilityInstant(m) \in Nat
    BY <2>2 DEF NormalizeSourceInstant, AvailabilityInstant
  <2>4. (CHOOSE n \in r.public : TRUE) = m
    BY <2>2
  <2>5. InstantOf(r) = NormalizeSourceInstant(m)
    BY <1>3, <2>4 DEF InstantOf
  <2>6. Ordered(r) = {NormalizeSourceInstant(m)}
    BY <2>2 DEF Ordered
  <2>7. {AvailabilityInstant(n) : n \in r.public} = {AvailabilityInstant(m)}
    BY <2>2
  <2>8. AvailableFrom(r) = AvailabilityInstant(m)
    BY <1>3, <2>7 DEF AvailableFrom
  <2> QED
    BY <1>3, <2>2, <2>3, <2>5, <2>6, <2>8
<1> QED
  BY <1>2, <1>3

LEMMA LatestExists ==
  ASSUME NEW R, RowsOfOne(R), NEW x \in R
  PROVE  \E z \in Latest(R) : SamePeriod(z, x)
<1> DEFINE key == [r \in R |-> InstantOf(r)]
           number == [r \in R |-> 0 - r.id]
<1>1. \A r \in R : key[r] = InstantOf(r) /\ number[r] = 0 - r.id /\ r.id \in Nat /\ InstantOf(r) \in Nat
  BY InstantsAre DEF RowsOfOne
<1> HIDE DEF key, number
<1>2. \A r \in R : key[r] \in Int /\ number[r] \in Int
  BY <1>1
<1>3. \A r, s \in R : number[r] = number[s] => r = s
  <2>1. \A r, s \in R : number[r] = number[s] => r.id = s.id
    BY <1>1
  <2> QED
    BY <2>1 DEF RowsOfOne
<1>4. PICK z \in R : /\ SamePeriod(z, x)
                     /\ \A y \in R : SamePeriod(z, y) =>
                          key[y] < key[z] \/ (key[y] = key[z] /\ number[y] <= number[z])
  BY <1>2, <1>3, GreatestOfPeriod
<1>5. ASSUME NEW y \in R, SamePeriod(z, y), NEW t \in Ordered(z), NEW u \in Ordered(y)
      PROVE  u < t \/ (u = t /\ y.id >= z.id)
  <2>1. t = InstantOf(z) /\ u = InstantOf(y)
    BY <1>5, InstantsAre
  <2>2. key[y] < key[z] \/ (key[y] = key[z] /\ number[y] <= number[z])
    BY <1>4, <1>5
  <2> QED
    BY <1>1, <2>1, <2>2
<1>6. z \in Latest(R)
  BY <1>5 DEF Latest
<1> QED
  BY <1>4, <1>6

\* Unless rows are ambiguous, a period has one latest row.
LEMMA LatestIsOne ==
  ASSUME NEW R, RowsOfOne(R), ~Ambiguous(R), NEW r \in Latest(R), NEW s \in Latest(R),
         SamePeriod(r, s)
  PROVE  r = s
<1> SUFFICES ASSUME r # s PROVE FALSE
  OBVIOUS
<1>1. r \in R /\ s \in R /\ SamePeriod(s, r)
  BY DEF Latest, SamePeriod
<1>2. Ordered(r) # {} /\ Ordered(s) # {}
  BY <1>1 DEF Ambiguous
<1>3. PICK t \in Ordered(r), u \in Ordered(s) : TRUE
  BY <1>2
<1>4. t \in Nat /\ u \in Nat
  BY <1>1, InstantsAre
<1>5. u < t \/ (u = t /\ s.id >= r.id)
  BY <1>1, <1>3 DEF Latest
<1>6. t < u \/ (t = u /\ r.id >= s.id)
  BY <1>1, <1>3 DEF Latest
<1>7. r.id \in Nat /\ s.id \in Nat
  BY <1>1 DEF RowsOfOne
<1>8. r.id = s.id
  BY <1>4, <1>5, <1>6, <1>7
<1> QED
  BY <1>1, <1>8 DEF RowsOfOne

LEMMA FirstOfIs ==
  ASSUME NEW R, RowsOfOne(R), NEW r \in R
  PROVE  /\ FirstOf(R, r) \in Nat
         /\ \E s \in R : s.id = FirstOf(R, r) /\ SamePeriod(r, s)
<1> DEFINE D == {s.id : s \in {y \in R : SamePeriod(r, y)}}
           Good(i) == /\ \E s \in R : s.id = i /\ SamePeriod(r, s)
                      /\ \A s \in R : SamePeriod(r, s) => i <= s.id
<1>1. D \in SUBSET Nat /\ D # {}
  <2>1. r.id \in D
    BY DEF SamePeriod
  <2> QED
    BY <2>1 DEF RowsOfOne
<1>2. PICK i \in D : \A j \in D : i <= j
  <2> HIDE DEF D
  <2> QED
    BY <1>1, LeastNumber
<1>3. i \in {s.id : s \in R} /\ Good(i)
  BY <1>2
<1>4. FirstOf(R, r) = CHOOSE j \in {s.id : s \in R} : Good(j)
  BY DEF FirstOf
<1> HIDE DEF Good
<1>5. FirstOf(R, r) \in {s.id : s \in R} /\ Good(FirstOf(R, r))
  BY <1>3, <1>4
<1>6. FirstOf(R, r) \in Nat
  BY <1>5 DEF RowsOfOne
<1> QED
  BY <1>5, <1>6 DEF Good

LEMMA InBefore ==
  ASSUME NEW R, NEW x \in R, NEW y \in R
  PROVE  <<x, y>> \in Before(R) <=>
           x.end < y.end \/ (x.end = y.end /\ FirstOf(R, x) < FirstOf(R, y))
  BY DEF Before

LEMMA LatestOrdered ==
  ASSUME NEW R, RowsOfOne(R), ~Ambiguous(R)
  PROVE  Orders(Before(R), Latest(R)) /\ Latest(R) \subseteq R /\ IsFiniteSet(Latest(R))
<1> DEFINE L == Latest(R)
<1>1. L \subseteq R /\ IsFiniteSet(L)
  BY FS_Subset DEF Latest, RowsOfOne
<1>2. \A x \in L : x \in R /\ x.end \in Nat /\ FirstOf(R, x) \in Nat
  BY <1>1, FirstOfIs DEF RowsOfOne
<1>3. ASSUME NEW x \in L, NEW y \in L, FirstOf(R, x) = FirstOf(R, y) PROVE x = y
  <2>1. PICK s \in R : s.id = FirstOf(R, x) /\ SamePeriod(x, s)
    BY <1>1, FirstOfIs
  <2>2. PICK t \in R : t.id = FirstOf(R, y) /\ SamePeriod(y, t)
    BY <1>1, FirstOfIs
  <2>3. s = t
    BY <1>3, <2>1, <2>2 DEF RowsOfOne
  <2>4. SamePeriod(x, y)
    BY <2>1, <2>2, <2>3 DEF SamePeriod
  <2> QED
    BY <2>4, LatestIsOne
<1> HIDE DEF L
<1>4. \A x \in L : <<x, x>> \notin Before(R)
  BY <1>2, InBefore
<1>5. ASSUME NEW x \in L, NEW y \in L, x # y
      PROVE <<x, y>> \in Before(R) \/ <<y, x>> \in Before(R)
  <2>1. \/ x.end < y.end \/ (x.end = y.end /\ FirstOf(R, x) < FirstOf(R, y))
        \/ y.end < x.end \/ (y.end = x.end /\ FirstOf(R, y) < FirstOf(R, x))
    BY <1>2, <1>3, <1>5
  <2> QED
    BY <1>2, <2>1, InBefore
<1>6. ASSUME NEW x \in L, NEW y \in L, NEW z \in L,
             <<x, y>> \in Before(R), <<y, z>> \in Before(R)
      PROVE  <<x, z>> \in Before(R)
  <2>1. /\ x.end < y.end \/ (x.end = y.end /\ FirstOf(R, x) < FirstOf(R, y))
        /\ y.end < z.end \/ (y.end = z.end /\ FirstOf(R, y) < FirstOf(R, z))
    BY <1>2, <1>6, InBefore
  <2>2. x.end < z.end \/ (x.end = z.end /\ FirstOf(R, x) < FirstOf(R, z))
    BY <1>2, <2>1
  <2> QED
    BY <1>2, <2>2, InBefore
<1> QED
  BY <1>1, <1>4, <1>5, <1>6 DEF Orders, L

\* The revision that a view selects of each period: there is one, and only one.
LEMMA RevisionExists ==
  ASSUME NEW R, RowsOfOne(R), NEW x \in R
  PROVE  \E z \in SelectRevisions(R) : SamePeriod(z, x)
<1> DEFINE key == [r \in R |-> AvailableFrom(r)]
           number == [r \in R |-> r.id]
<1>1. \A r \in R : key[r] = AvailableFrom(r) /\ number[r] = r.id /\ r.id \in Nat /\ AvailableFrom(r) \in Int
  BY InstantsAre DEF RowsOfOne
<1> HIDE DEF key, number
<1>2. \A r \in R : key[r] \in Int /\ number[r] \in Int
  BY <1>1
<1>3. \A r, s \in R : number[r] = number[s] => r = s
  BY <1>1 DEF RowsOfOne
<1>4. PICK z \in R : /\ SamePeriod(z, x)
                     /\ \A y \in R : SamePeriod(z, y) =>
                          key[y] < key[z] \/ (key[y] = key[z] /\ number[y] <= number[z])
  BY <1>2, <1>3, GreatestOfPeriod
<1>5. z \in SelectRevisions(R)
  BY <1>1, <1>4 DEF SelectRevisions
<1> QED
  BY <1>4, <1>5

LEMMA RevisionIsOne ==
  ASSUME NEW R, RowsOfOne(R), NEW r \in SelectRevisions(R), NEW s \in SelectRevisions(R),
         SamePeriod(r, s)
  PROVE  r = s
<1>1. r \in R /\ s \in R /\ SamePeriod(s, r)
  BY DEF SelectRevisions, SamePeriod
<1>2. AvailableFrom(r) \in Int /\ AvailableFrom(s) \in Int /\ r.id \in Nat /\ s.id \in Nat
  BY <1>1, InstantsAre DEF RowsOfOne
<1>3. /\ AvailableFrom(s) < AvailableFrom(r) \/ (AvailableFrom(s) = AvailableFrom(r) /\ s.id <= r.id)
      /\ AvailableFrom(r) < AvailableFrom(s) \/ (AvailableFrom(r) = AvailableFrom(s) /\ r.id <= s.id)
  BY <1>1 DEF SelectRevisions
<1>4. r.id = s.id
  BY <1>2, <1>3
<1> QED
  BY <1>1, <1>4 DEF RowsOfOne

-----------------------------------------------------------------------------
(* What the last rows of an order leave out precedes all that they hold.                           *)
LEMMA DistinctRows ==
  ASSUME NEW S, NEW s \in Seq(S), \A i, j \in 1..Len(s) : s[i] = s[j] => i = j
  PROVE  ToSet(s) \subseteq S /\ Cardinality(ToSet(s)) = Len(s)
<1> DEFINE n == Len(s)
           T == ToSet(s)
<1>1. n \in Nat /\ DOMAIN s = 1..n /\ T = {s[i] : i \in 1..n} /\ s \in [1..n -> S]
  BY DEF ToSet
<1> HIDE DEF n, T
<1>2. s \in [1..n -> T]
  BY <1>1
<1>3. s \in Injection(1..n, T)
  BY <1>2 DEF Injection, IsInjective, n
<1>4. s \in Surjection(1..n, T)
  BY <1>1, <1>2 DEF Surjection
<1>5. IsFiniteSet(1..n) /\ Cardinality(1..n) = n
  <2>1. 1 \in Int /\ n \in Int
    BY <1>1
  <2>2. IsFiniteSet(1..n) /\ Cardinality(1..n) = IF 1 > n THEN 0 ELSE n - 1 + 1
    BY <2>1, FS_Interval
  <2> QED
    BY <1>1, <2>2
<1>6. ExistsBijection(1..n, T)
  BY <1>3, <1>4 DEF ExistsBijection, Bijection
<1>7. Cardinality(T) = n
  BY <1>5, <1>6, FS_Bijection
<1>8. T \subseteq S
  BY <1>1
<1> QED
  BY <1>7, <1>8 DEF n, T

LEMMA LastOfOrder ==
  ASSUME NEW S, IsFiniteSet(S), NEW order, Orders(order, S), NEW n \in Nat \ {0}, NEW o,
         o = LastRows(InOrder(S, order), n)
  PROVE  /\ o \in Seq(S) /\ Len(o) <= n
         /\ ToSet(o) \subseteq S /\ Cardinality(ToSet(o)) = Len(o)
         /\ \A i, j \in 1..Len(o) : i < j => <<o[i], o[j]>> \in order
         /\ \A x \in S \ ToSet(o) : Len(o) = n /\ \A r \in ToSet(o) : <<x, r>> \in order
<1> DEFINE m == Cardinality(S)
           s == InOrder(S, order)
           l == IF m > n THEN n ELSE m
<1>1. /\ s \in Seq(S) /\ Len(s) = m /\ m \in Nat
      /\ \A x \in S : \E i \in 1..m : s[i] = x
      /\ \A i, j \in 1..m : i < j => <<s[i], s[j]>> \in order
  BY RowsInOrder, FS_CardinalityType
<1>2. /\ o \in Seq(S) /\ Len(o) = l /\ l \in 0..m /\ l <= n
      /\ \A i \in 1..l : o[i] = s[m - l + i] /\ m - l + i \in 1..m
  <2> HIDE DEF s, m
  <2>1. o = LastRows(s, n)
    BY DEF s
  <2>2. /\ LastRows(s, n) \in Seq(S)
        /\ Len(LastRows(s, n)) = (IF Len(s) > n THEN n ELSE Len(s))
        /\ (IF Len(s) > n THEN n ELSE Len(s)) \in 0..Len(s) /\ (IF Len(s) > n THEN n ELSE Len(s)) <= n
        /\ \A i \in 1..(IF Len(s) > n THEN n ELSE Len(s)) :
             /\ LastRows(s, n)[i] = s[Len(s) - (IF Len(s) > n THEN n ELSE Len(s)) + i]
             /\ Len(s) - (IF Len(s) > n THEN n ELSE Len(s)) + i \in 1..Len(s)
    BY <1>1, LastRowsAre
  <2> QED
    BY <1>1, <2>1, <2>2
<1>3. l = n \/ l = m
  OBVIOUS
<1> HIDE DEF m, s, l
<1>4. ASSUME NEW i \in 1..l, NEW j \in 1..l, i < j PROVE <<o[i], o[j]>> \in order
  <2>1. m - l + i < m - l + j
    BY <1>1, <1>2, <1>4
  <2> QED
    BY <1>1, <1>2, <2>1
<1>5. ASSUME NEW i \in 1..l, NEW j \in 1..l, o[i] = o[j] PROVE i = j
  <2>1. o[i] \in S /\ o[j] \in S
    BY <1>2, ElementOfSeq
  <2>2. ~(i < j) /\ ~(j < i)
    BY <1>4, <1>5, <2>1 DEF Orders
  <2> QED
    BY <1>2, <2>2
<1>6. ToSet(o) \subseteq S /\ Cardinality(ToSet(o)) = Len(o)
  BY <1>2, <1>5, DistinctRows
<1>7. ToSet(o) = {o[i] : i \in 1..l}
  BY <1>2 DEF ToSet
<1>8. ASSUME NEW x \in S, x \notin ToSet(o) PROVE l = n /\ \A r \in ToSet(o) : <<x, r>> \in order
  <2>1. PICK k \in 1..m : s[k] = x
    BY <1>1
  <2>2. k <= m - l
    <3>1. SUFFICES ASSUME k > m - l PROVE FALSE
      BY <1>1, <1>2
    <3>2. k - (m - l) \in 1..l /\ m - l + (k - (m - l)) = k
      BY <1>1, <1>2, <3>1
    <3>3. o[k - (m - l)] = x
      BY <1>2, <2>1, <3>2
    <3> QED
      BY <1>7, <1>8, <3>2, <3>3
  <2>3. l = n
    BY <1>1, <1>2, <1>3, <2>2
  <2>4. ASSUME NEW i \in 1..l PROVE <<x, o[i]>> \in order
    <3>1. k < m - l + i /\ m - l + i \in 1..m /\ o[i] = s[m - l + i]
      BY <1>1, <1>2, <2>2
    <3> QED
      BY <1>1, <2>1, <3>1
  <2> QED
    BY <1>7, <2>3, <2>4
<1> QED
  BY <1>2, <1>4, <1>6, <1>8

\* The whole of an order.
LEMMA AllOfOrder ==
  ASSUME NEW S, IsFiniteSet(S), NEW order, Orders(order, S), NEW o, o = InOrder(S, order)
  PROVE  /\ o \in Seq(S) /\ ToSet(o) = S /\ Cardinality(ToSet(o)) = Len(o)
<1> DEFINE m == Cardinality(S)
<1>1. /\ o \in Seq(S) /\ Len(o) = m /\ m \in Nat
      /\ \A x \in S : \E i \in 1..m : o[i] = x
      /\ \A i, j \in 1..m : i < j => <<o[i], o[j]>> \in order
  BY RowsInOrder, FS_CardinalityType
<1> HIDE DEF m
<1>2. ASSUME NEW i \in 1..m, NEW j \in 1..m, o[i] = o[j] PROVE i = j
  <2>1. o[i] \in S /\ o[j] \in S
    BY <1>1, ElementOfSeq
  <2>2. ~(i < j) /\ ~(j < i)
    BY <1>1, <1>2, <2>1 DEF Orders
  <2> QED
    BY <1>1, <2>2
<1>3. ToSet(o) \subseteq S /\ Cardinality(ToSet(o)) = Len(o)
  BY <1>1, <1>2, DistinctRows
<1>4. S \subseteq ToSet(o)
  BY <1>1 DEF ToSet
<1> QED
  BY <1>1, <1>3, <1>4

\* The last of the latest rows: none of a period they left behind, and none that is older.
LEMMA LastOfLatest ==
  ASSUME NEW R, RowsOfOne(R), ~Ambiguous(R), NEW n \in Nat \ {0}, NEW o,
         o = LastRows(InOrder(Latest(R), Before(R)), n)
  PROVE  /\ o \in Seq(R) /\ Len(o) <= n
         /\ ToSet(o) \subseteq Latest(R) /\ Cardinality(ToSet(o)) = Len(o)
         /\ \A x \in R \ ToSet(o) :
              \/ \E r \in ToSet(o) : x.end <= r.end /\ SamePeriod(r, x)
              \/ Len(o) = n /\ \A r \in ToSet(o) : x.end <= r.end
<1>1. Orders(Before(R), Latest(R)) /\ Latest(R) \subseteq R /\ IsFiniteSet(Latest(R))
  BY LatestOrdered
<1>2. /\ o \in Seq(Latest(R)) /\ Len(o) <= n
      /\ ToSet(o) \subseteq Latest(R) /\ Cardinality(ToSet(o)) = Len(o)
      /\ \A x \in Latest(R) \ ToSet(o) : Len(o) = n /\ \A r \in ToSet(o) : <<x, r>> \in Before(R)
  BY <1>1, LastOfOrder
<1>3. o \in Seq(R)
  BY <1>1, <1>2
<1>4. ASSUME NEW x \in R, x \notin ToSet(o)
      PROVE  \/ \E r \in ToSet(o) : x.end <= r.end /\ SamePeriod(r, x)
             \/ Len(o) = n /\ \A r \in ToSet(o) : x.end <= r.end
  <2>1. PICK z \in Latest(R) : SamePeriod(z, x)
    BY LatestExists
  <2>2. z.end = x.end /\ x.end \in Nat /\ z \in R
    BY <1>1, <2>1 DEF SamePeriod, RowsOfOne
  <2>3. CASE z \in ToSet(o)
    <3>1. x.end <= z.end
      BY <2>2
    <3> QED
      BY <2>1, <2>3, <3>1
  <2>4. CASE z \notin ToSet(o)
    <3>1. ASSUME NEW r \in ToSet(o) PROVE x.end <= r.end
      <4>1. r \in R /\ <<z, r>> \in Before(R)
        BY <1>1, <1>2, <2>4
      <4>2. z.end < r.end \/ z.end = r.end
        BY <2>2, <4>1, InBefore
      <4>3. r.end \in Nat
        BY <4>1 DEF RowsOfOne
      <4> QED
        BY <2>2, <4>2, <4>3
    <3> QED
      BY <1>2, <2>4, <3>1
  <2> QED
    BY <2>3, <2>4
<1> QED
  BY <1>2, <1>3, <1>4

\* Nothing that is known is newer than a row that was selected.
LEMMA LatestIsNewest ==
  ASSUME NEW R, RowsOfOne(R), NEW r \in Latest(R), NEW s \in R, SamePeriod(r, s),
         NEW m \in r.public, NEW n \in s.public
  PROVE  ~(NormalizeSourceInstant(m) < NormalizeSourceInstant(n))
<1>1. NormalizeSourceInstant(m) \in Ordered(r) /\ NormalizeSourceInstant(n) \in Ordered(s)
  BY DEF Ordered
<1>2. NormalizeSourceInstant(m) \in Nat /\ NormalizeSourceInstant(n) \in Nat
  BY <1>1, InstantsAre DEF Latest
<1>3. \/ NormalizeSourceInstant(n) < NormalizeSourceInstant(m)
      \/ NormalizeSourceInstant(n) = NormalizeSourceInstant(m)
  BY <1>1 DEF Latest
<1> QED
  BY <1>2, <1>3

LEMMA RevisionIsNewest ==
  ASSUME NEW R, RowsOfOne(R), NEW r \in SelectRevisions(R), NEW s \in R, SamePeriod(r, s),
         NEW m \in r.public, NEW n \in s.public
  PROVE  ~(AvailabilityInstant(m) < AvailabilityInstant(n))
<1>1. /\ AvailabilityInstant(m) = AvailableFrom(r) /\ AvailabilityInstant(n) = AvailableFrom(s)
      /\ AvailableFrom(r) \in Int /\ AvailableFrom(s) \in Int
  BY InstantsAre DEF SelectRevisions
<1>2. AvailableFrom(s) < AvailableFrom(r) \/ AvailableFrom(s) = AvailableFrom(r)
  BY DEF SelectRevisions
<1> QED
  BY <1>1, <1>2

-----------------------------------------------------------------------------
(* What is known at an instant.  Every release of a later day holds the same of it.               *)
LEMMA KnownAreRows ==
  ASSUME NEW kept \in Books, NEW x
  PROVE  RowsOfOne(KnownRows(x, kept.annual)) /\ OneCloseEach(KnownRows(x, kept.closes))
<1> DEFINE A == KnownRows(x, kept.annual)
           C == KnownRows(x, kept.closes)
<1>1. /\ A \subseteq kept.annual /\ \A r \in A : r.company = x.company
      /\ C \subseteq kept.closes /\ \A r \in C : r.company = x.company
  BY DEF KnownRows, Held
<1> HIDE DEF A, C
<1>2. /\ IsFiniteSet(kept.annual) /\ IsFiniteSet(kept.closes)
      /\ \A r \in kept.annual : /\ {r.id, r.start, r.end} \subseteq Nat
                               /\ \A s \in kept.annual : r.company = s.company /\ r.id = s.id => r = s
      /\ \A r \in kept.closes :
           /\ r.session \in Nat
           /\ \A s \in kept.closes : r.company = s.company /\ r.session = s.session => r = s
      /\ \A r \in kept.annual \cup kept.closes : r.public \subseteq Moments /\ \A m, n \in r.public : m = n
  BY BooksAssumption
<1>3. IsFiniteSet(A) /\ IsFiniteSet(C)
  BY <1>1, <1>2, FS_Subset
<1>4. RowsOfOne(A)
  <2>1. ASSUME NEW r \in A
        PROVE  /\ r.id \in Nat /\ r.start \in Nat /\ r.end \in Nat
               /\ r.public \subseteq Moments /\ \A m, n \in r.public : m = n
    BY <1>1, <1>2
  <2>2. ASSUME NEW r \in A, NEW s \in A, r.id = s.id PROVE r = s
    BY <1>1, <1>2, <2>2
  <2> QED
    BY <1>3, <2>1, <2>2 DEF RowsOfOne
<1>5. OneCloseEach(C)
  <2>1. ASSUME NEW r \in C, NEW s \in C PROVE r.session \in Nat /\ (r.session = s.session => r = s)
    BY <1>1, <1>2
  <2> QED
    BY <1>3, <2>1 DEF OneCloseEach
<1> QED
  BY <1>4, <1>5 DEF A, C

\* A moment no later than an instant of a release's day is of that day or an earlier one.
LEMMA MomentsAreHeld ==
  ASSUME NEW m \in Moments, NEW t \in Nat, AvailabilityInstant(m) <= t, NEW release \in Nat,
         t <= 4 * release + 3
  PROVE  DayOf(m) <= release
<1>1. m.dated \in BOOLEAN /\ m.at \in Nat
  BY DEF Moments
<1>2. CASE m.dated
  BY <1>1, <1>2 DEF AvailabilityInstant, DayOf
<1>3. CASE ~m.dated
  <2>1. m.at <= 4 * release + 3
    BY <1>1, <1>3 DEF AvailabilityInstant
  <2>2. m.at \div 4 <= release
    BY <1>1, <2>1
  <2> QED
    BY <1>3, <2>2 DEF DayOf
<1> QED
  BY <1>2, <1>3

LEMMA KnownStays ==
  ASSUME NEW rows, \A r \in rows : r.public \subseteq Moments /\ \A m, n \in r.public : m = n,
         NEW x, NEW y, x.company = y.company, x.asOf = y.asOf, x.asOf \subseteq Nat, x.asOf # {},
         x.release \in Nat, y.release \in Nat,
         \A t \in x.asOf : t <= 4 * x.release + 3 /\ t <= 4 * y.release + 3
  PROVE  KnownRows(x, rows) = KnownRows(y, rows)
<1> DEFINE K == {r \in rows : r.company = x.company /\ Available(r, x.asOf)}
<1>1. ASSUME NEW r \in rows, Available(r, x.asOf), NEW release \in Nat,
             \A t \in x.asOf : t <= 4 * release + 3
      PROVE  \A m \in r.public : DayOf(m) <= release
  <2>1. PICK m \in r.public : \A t \in x.asOf : AvailabilityInstant(m) <= t
    BY <1>1 DEF Available
  <2>2. PICK t \in x.asOf : TRUE
    OBVIOUS
  <2>3. m \in Moments /\ t \in Nat /\ AvailabilityInstant(m) <= t /\ t <= 4 * release + 3
    BY <1>1, <2>1, <2>2
  <2>4. DayOf(m) <= release
    BY <2>3, MomentsAreHeld
  <2> QED
    BY <2>4
<1>2. KnownRows(x, rows) = K
  BY <1>1 DEF KnownRows, Held
<1>3. KnownRows(y, rows) = K
  BY <1>1 DEF KnownRows, Held
<1> QED
  BY <1>2, <1>3

-----------------------------------------------------------------------------
(* The answer of an operation to what is known.                                                   *)
ViewOf(op, annual, closes) ==
  IF op = "prices" THEN Sessions(closes)
  ELSE IF op = "revisions" THEN Periods(annual) ELSE Periods(SelectRevisions(annual))

IsAnswer(rows, op, count, company, annual, closes) ==
  /\ op = "identity" => rows = << >>
  /\ op = "financials" => rows \in Observations(annual, company, count)
  /\ op = "revenue_growth" =>
       \E o \in Observations({r \in annual : FullYear(r)}, company, 40) :
         rows \in AnnualRevenueGrowth(o, count)
  /\ op = "price" => rows = LastRows(Sessions(closes), 1)
  /\ op = "price_history" => rows = LastRows(Sessions(closes), count)
  /\ op \in RestViews => rows = ViewOf(op, annual, closes)

LEMMA ObservationsAre ==
  ASSUME NEW R, NEW company, NEW n, NEW o \in Observations(R, company, n)
  PROVE  o = LastRows(InOrder(Latest(R), Before(R)), n) /\ ~Ambiguous(R)
  BY DEF Observations

LEMMA AnswerIsOne ==
  ASSUME NEW op \in PrivateOperations \cup RestViews, NEW count, NEW company, NEW annual, NEW closes,
         NEW rows, NEW rows_, IsAnswer(rows, op, count, company, annual, closes),
         IsAnswer(rows_, op, count, company, annual, closes)
  PROVE  rows = rows_
<1>1. CASE op = "financials"
  BY <1>1, ObservationsAre DEF IsAnswer
<1>2. CASE op = "revenue_growth"
  <2>1. PICK o \in Observations({r \in annual : FullYear(r)}, company, 40) :
          rows \in AnnualRevenueGrowth(o, count)
    BY <1>2 DEF IsAnswer
  <2>2. PICK u \in Observations({r \in annual : FullYear(r)}, company, 40) :
          rows_ \in AnnualRevenueGrowth(u, count)
    BY <1>2 DEF IsAnswer
  <2>3. o = u
    BY ObservationsAre
  <2>4. rows = LastRows(o, count + 1) /\ rows_ = LastRows(u, count + 1)
    BY <2>1, <2>2 DEF AnnualRevenueGrowth
  <2> QED
    BY <2>3, <2>4
<1>3. CASE op \notin {"financials", "revenue_growth"}
  BY <1>3 DEF IsAnswer, PrivateOperations, RestViews
<1> QED
  BY <1>1, <1>2, <1>3

-----------------------------------------------------------------------------
(* An answer is whole.                                                                            *)
LEMMA LastOfLast ==
  ASSUME NEW S, NEW s \in Seq(S), NEW n \in Nat \ {0}, NEW k \in Nat \ {0}, k <= Len(LastRows(s, n))
  PROVE  LastRows(LastRows(s, n), k) = LastRows(s, k)
<1> DEFINE o == LastRows(s, n)
           a == LastRows(o, k)
           b == LastRows(s, k)
           l == Len(o)
           m == Len(s)
<1>1. /\ o \in Seq(S) /\ l = (IF m > n THEN n ELSE m) /\ l \in 0..m
      /\ \A i \in 1..l : o[i] = s[m - l + i]
  <2>1. /\ o \in Seq(S) /\ Len(o) = (IF Len(s) > n THEN n ELSE Len(s))
        /\ (IF Len(s) > n THEN n ELSE Len(s)) \in 0..Len(s)
        /\ \A i \in 1..(IF Len(s) > n THEN n ELSE Len(s)) :
             o[i] = s[Len(s) - (IF Len(s) > n THEN n ELSE Len(s)) + i]
    BY LastRowsAre
  <2> QED
    BY <2>1
<1>2. k <= l /\ m \in Nat
  OBVIOUS
<1>3. /\ a \in Seq(S) /\ Len(a) = k
      /\ \A i \in 1..k : a[i] = o[l - k + i]
  <2> HIDE DEF o
  <2>1. /\ a \in Seq(S) /\ Len(a) = (IF Len(o) > k THEN k ELSE Len(o))
        /\ \A i \in 1..(IF Len(o) > k THEN k ELSE Len(o)) :
             a[i] = o[Len(o) - (IF Len(o) > k THEN k ELSE Len(o)) + i]
    BY <1>1, LastRowsAre
  <2> HIDE DEF a
  <2>2. (IF Len(o) > k THEN k ELSE Len(o)) = k
    BY <1>1, <1>2
  <2> QED
    BY <2>1, <2>2
<1>4. /\ b \in Seq(S) /\ Len(b) = k
      /\ \A i \in 1..k : b[i] = s[m - k + i]
  <2>1. /\ b \in Seq(S) /\ Len(b) = (IF Len(s) > k THEN k ELSE Len(s))
        /\ \A i \in 1..(IF Len(s) > k THEN k ELSE Len(s)) :
             b[i] = s[Len(s) - (IF Len(s) > k THEN k ELSE Len(s)) + i]
    BY LastRowsAre
  <2> HIDE DEF b
  <2>2. (IF Len(s) > k THEN k ELSE Len(s)) = k
    BY <1>1, <1>2
  <2> QED
    BY <2>1, <2>2
<1> HIDE DEF o, a, b, l, m
<1>5. ASSUME NEW i \in 1..k PROVE a[i] = b[i]
  <2>1. l - k + i \in 1..l /\ m - l + (l - k + i) = m - k + i
    BY <1>1, <1>2
  <2>2. o[l - k + i] = s[m - l + (l - k + i)]
    BY <1>1, <2>1, Zenon
  <2>3. a[i] = o[l - k + i] /\ b[i] = s[m - k + i]
    BY <1>3, <1>4, Zenon
  <2> QED
    BY <2>1, <2>2, <2>3, Zenon
<1>6. a = b
  BY <1>3, <1>4, <1>5, SeqEqual
<1> QED
  BY <1>6 DEF a, b, o

LEMMA GrowthIs ==
  ASSUME NEW full, RowsOfOne(full), NEW company, NEW count \in Nat \ {0}, NEW rows, NEW o \in Observations(full, company, 40),
         rows \in AnnualRevenueGrowth(o, count)
  PROVE  /\ ~Ambiguous(full)
         /\ rows = LastRows(InOrder(Latest(full), Before(full)), count + 1)
         /\ \A i \in 2..Len(rows) : /\ rows[i].start = rows[i - 1].end + 1
                                    /\ rows[i].unit = rows[1].unit
<1> DEFINE all == InOrder(Latest(full), Before(full))
<1>2. ~Ambiguous(full) /\ o = LastRows(all, 40)
  BY ObservationsAre
<1>3. /\ rows = LastRows(o, count + 1) /\ Len(o) > count
      /\ \A i \in 2..Len(rows) : Comparable(rows[i - 1], rows[i]) /\ rows[i].start = rows[i - 1].end + 1
  BY DEF AnnualRevenueGrowth
<1>4. all \in Seq(Latest(full))
  <2>1. Orders(Before(full), Latest(full)) /\ IsFiniteSet(Latest(full))
    BY <1>2, LatestOrdered
  <2> QED
    BY <2>1, AllOfOrder
<1> HIDE DEF all
<1>5. o \in Seq(Latest(full))
  <2>1. 40 \in Nat \ {0}
    OBVIOUS
  <2>2. LastRows(all, 40) \in Seq(Latest(full))
    BY <1>4, <2>1, LastRowsAre
  <2> QED
    BY <1>2, <2>2
<1>6. rows \in Seq(Latest(full)) /\ Len(o) \in Nat
  <2>1. count + 1 \in Nat \ {0}
    OBVIOUS
  <2>2. LastRows(o, count + 1) \in Seq(Latest(full))
    BY <1>5, <2>1, LastRowsAre
  <2> QED
    BY <1>3, <1>5, <2>2
<1>7. rows = LastRows(all, count + 1)
  <2>1. count + 1 \in Nat \ {0} /\ count + 1 <= Len(o)
    BY <1>3, <1>6
  <2> QED
    BY <1>2, <1>3, <1>4, <2>1, LastOfLast
<1>8. ASSUME NEW i \in 2..Len(rows) PROVE rows[i].unit = rows[1].unit
  <2> DEFINE Others == {j \in 2..Len(rows) : rows[j].unit # rows[1].unit}
  <2>1. SUFFICES ASSUME Others # {} PROVE FALSE
    BY <1>8
  <2>2. Others \subseteq Nat
    BY <1>6
  <2>3. PICK j \in Others : \A h \in Others : j <= h
    BY <2>1, <2>2, LeastNumber
  <2>4. j \in 2..Len(rows) /\ rows[j].unit # rows[1].unit
    OBVIOUS
  <2>5. rows[j - 1].unit = rows[j].unit
    BY <1>3, <2>4 DEF Comparable
  <2>6. j - 1 \in 2..Len(rows) \/ j = 2
    BY <1>6, <2>4
  <2>7. CASE j = 2
    BY <2>4, <2>5, <2>7
  <2>8. CASE j - 1 \in 2..Len(rows)
    <3>1. j - 1 \in Others
      BY <2>4, <2>5, <2>8
    <3> HIDE DEF Others
    <3>2. j <= j - 1 /\ j \in Int
      BY <2>2, <2>3, <3>1
    <3> QED
      BY <3>2
  <2> QED
    BY <2>6, <2>7, <2>8
<1> QED
  BY <1>2, <1>3, <1>7, <1>8 DEF all

LEMMA LatestIsNotSuperseded ==
  ASSUME NEW R, RowsOfOne(R), NEW r \in Latest(R)
  PROVE  ~Superseded(r, R, NormalizeSourceInstant)
  BY LatestIsNewest DEF Superseded

LEMMA RevisionIsNotSuperseded ==
  ASSUME NEW R, RowsOfOne(R), NEW r \in SelectRevisions(R)
  PROVE  ~Superseded(r, R, AvailabilityInstant)
  BY RevisionIsNewest DEF Superseded

LEMMA FinancialsAreWhole ==
  ASSUME book \in Books, NEW one, one.op = "financials", one.count \in Nat \ {0},
         one.pin \subseteq {one.release},
         IsAnswer(one.rows, one.op, one.count, one.company,
                  KnownRows(one, book.annual), KnownRows(one, book.closes))
  PROVE  IsWhole(one)
<1> DEFINE R == KnownRows(one, book.annual)
           T == ToSet(one.rows)
<1>1. RowsOfOne(R)
  BY KnownAreRows
<1>2. one.rows \in Observations(R, one.company, one.count)
  BY DEF IsAnswer
<1>3. one.rows = LastRows(InOrder(Latest(R), Before(R)), one.count) /\ ~Ambiguous(R)
  BY <1>2, ObservationsAre
<1>4. /\ T \subseteq Latest(R) /\ Cardinality(T) = Len(one.rows)
      /\ \A x \in R \ T :
           \/ \E r \in T : x.end <= r.end /\ SamePeriod(r, x)
           \/ Len(one.rows) = one.count /\ \A r \in T : x.end <= r.end
  BY <1>1, <1>3, LastOfLatest
<1>5. T \subseteq R
  BY <1>4 DEF Latest
<1>6. \A r \in T : ~Superseded(r, R, NormalizeSourceInstant)
  BY <1>1, <1>4, LatestIsNotSuperseded
<1> QED
  BY <1>4, <1>5, <1>6 DEF IsWhole

LEMMA GrowthIsWhole ==
  ASSUME book \in Books, NEW one, one.op = "revenue_growth", one.count \in Nat \ {0},
         one.pin \subseteq {one.release},
         IsAnswer(one.rows, one.op, one.count, one.company,
                  KnownRows(one, book.annual), KnownRows(one, book.closes))
  PROVE  IsWhole(one)
<1> DEFINE R == KnownRows(one, book.annual)
           F == {r \in R : FullYear(r)}
           T == ToSet(one.rows)
           n == one.count + 1
<1>1. RowsOfOne(R)
  BY KnownAreRows
<1>2. PICK o \in Observations(F, one.company, 40) : one.rows \in AnnualRevenueGrowth(o, one.count)
  BY DEF IsAnswer
<1>3. /\ RowsOfOne(F) /\ ~Ambiguous(F)
      /\ one.rows = LastRows(InOrder(Latest(F), Before(F)), n)
      /\ \A i \in 2..Len(one.rows) : /\ one.rows[i].start = one.rows[i - 1].end + 1
                                     /\ one.rows[i].unit = one.rows[1].unit
  <2> DEFINE rows == one.rows
             company == one.company
             count == one.count
  <2>1. /\ o \in Observations(F, company, 40) /\ RowsOfOne(F)
        /\ rows \in AnnualRevenueGrowth(o, count) /\ count \in Nat \ {0}
    BY <1>1, <1>2, RowsWithin
  <2> HIDE DEF R, F, rows, company, count
  <2>2. /\ ~Ambiguous(F)
        /\ rows = LastRows(InOrder(Latest(F), Before(F)), count + 1)
        /\ \A i \in 2..Len(rows) : /\ rows[i].start = rows[i - 1].end + 1
                                   /\ rows[i].unit = rows[1].unit
    BY <2>1, GrowthIs
  <2> QED
    BY <2>1, <2>2 DEF rows, count
<1>4. /\ T \subseteq Latest(F) /\ Cardinality(T) = Len(one.rows)
      /\ \A x \in F \ T :
           \/ \E r \in T : x.end <= r.end /\ SamePeriod(r, x)
           \/ Len(one.rows) = n /\ \A r \in T : x.end <= r.end
  <2>1. n \in Nat \ {0}
    OBVIOUS
  <2> HIDE DEF n, F
  <2> QED
    BY <1>3, <2>1, LastOfLatest
<1>5. T \subseteq F
  BY <1>4 DEF Latest
<1>6. ASSUME NEW r \in T PROVE ~Superseded(r, R, NormalizeSourceInstant)
  <2>1. ~Superseded(r, F, NormalizeSourceInstant)
    BY <1>3, <1>4, LatestIsNotSuperseded
  <2>2. \A s \in R : SamePeriod(r, s) => s \in F
    BY <1>5 DEF SamePeriod, FullYear, Months
  <2> QED
    BY <2>1, <2>2 DEF Superseded
<1> QED
  BY <1>3, <1>4, <1>5, <1>6 DEF IsWhole

LEMMA PricesAreWhole ==
  ASSUME book \in Books, NEW one, one.op \in {"price", "price_history"}, one.count \in Nat \ {0},
         one.pin \subseteq {one.release},
         IsAnswer(one.rows, one.op, one.count, one.company,
                  KnownRows(one, book.annual), KnownRows(one, book.closes))
  PROVE  IsWhole(one)
<1> DEFINE C == KnownRows(one, book.closes)
           T == ToSet(one.rows)
           n == IF one.op = "price" THEN 1 ELSE one.count
<1>1. OneCloseEach(C)
  BY KnownAreRows
<1>2. one.rows = LastRows(Sessions(C), n) /\ n \in Nat \ {0}
  BY DEF IsAnswer
<1>3. IsFiniteSet(C) /\ Orders(BySession(C), C)
  BY <1>1, SessionsOrdered DEF OneCloseEach
<1>4. /\ T \subseteq C /\ Cardinality(T) = Len(one.rows)
      /\ \A x \in C \ T : Len(one.rows) = n /\ \A r \in T : <<x, r>> \in BySession(C)
  BY <1>2, <1>3, LastOfOrder DEF Sessions
<1>5. \A s \in C \ T : Len(one.rows) = n /\ \A r \in T : s.session < r.session
  BY <1>4, InSession
<1> QED
  BY <1>4, <1>5 DEF IsWhole

LEMMA ViewsAreWhole ==
  ASSUME book \in Books, NEW one, one.op \in RestViews, one.pin \subseteq {one.release},
         IsAnswer(one.rows, one.op, one.count, one.company,
                  KnownRows(one, book.annual), KnownRows(one, book.closes))
  PROVE  IsWhole(one)
<1> DEFINE R == KnownRows(one, book.annual)
           C == KnownRows(one, book.closes)
           T == ToSet(one.rows)
<1>1. RowsOfOne(R) /\ OneCloseEach(C)
  BY KnownAreRows
<1>2. one.rows = ViewOf(one.op, R, C)
  BY DEF IsAnswer
<1>3. CASE one.op = "prices"
  <2>1. one.rows = Sessions(C)
    BY <1>2, <1>3 DEF ViewOf
  <2>2. IsFiniteSet(C) /\ Orders(BySession(C), C)
    BY <1>1, SessionsOrdered DEF OneCloseEach
  <2>3. T = C /\ Cardinality(T) = Len(one.rows)
    BY <2>1, <2>2, AllOfOrder DEF Sessions
  <2> QED
    BY <1>3, <2>3 DEF IsWhole
<1>4. CASE one.op = "revisions"
  <2>1. one.rows = Periods(R)
    BY <1>2, <1>4 DEF ViewOf
  <2>2. IsFiniteSet(R) /\ Orders(ByPeriod(R), R)
    BY <1>1, PeriodsOrdered DEF RowsOfOne
  <2>3. T = R /\ Cardinality(T) = Len(one.rows)
    BY <2>1, <2>2, AllOfOrder DEF Periods
  <2> QED
    BY <1>4, <2>3 DEF IsWhole
<1>5. CASE one.op = "fundamentals"
  <2> DEFINE S == SelectRevisions(R)
  <2>1. one.rows = Periods(S)
    BY <1>2, <1>5 DEF ViewOf
  <2>2. S \subseteq R
    BY DEF SelectRevisions
  <2>3. RowsOfOne(S)
    BY <1>1, <2>2, RowsWithin
  <2>4. IsFiniteSet(S) /\ Orders(ByPeriod(S), S)
    BY <2>3, PeriodsOrdered DEF RowsOfOne
  <2>5. T = S /\ Cardinality(T) = Len(one.rows)
    BY <2>1, <2>4, AllOfOrder DEF Periods
  <2>6. \A s \in R : \E r \in T : SamePeriod(r, s)
    BY <1>1, <2>5, RevisionExists
  <2>7. \A r \in T : ~Superseded(r, R, AvailabilityInstant)
    BY <1>1, <2>5, RevisionIsNotSuperseded
  <2>8. \A r, s \in T : SamePeriod(r, s) => r = s
    BY <1>1, <2>5, RevisionIsOne
  <2> HIDE DEF S
  <2> QED
    BY <1>5, <2>2, <2>5, <2>6, <2>7, <2>8 DEF IsWhole
<1> QED
  BY <1>3, <1>4, <1>5 DEF RestViews

\* Whatever is asked, the answer to what is known is whole and newest.
LEMMA AnswerIsWhole ==
  ASSUME book \in Books, NEW one, one.op \in PrivateOperations \cup RestViews,
         one.count \in Nat \ {0}, one.pin \subseteq {one.release},
         IsAnswer(one.rows, one.op, one.count, one.company,
                  KnownRows(one, book.annual), KnownRows(one, book.closes))
  PROVE  IsWhole(one)
<1>1. CASE one.op = "identity"
  <2>1. one.rows = << >>
    BY <1>1 DEF IsAnswer
  <2>2. one.rows \in Seq(Nat) /\ Len(one.rows) = 0
    BY <2>1
  <2>3. Cardinality(ToSet(one.rows)) = Len(one.rows)
    <3>1. \A i, j \in 1..Len(one.rows) : one.rows[i] = one.rows[j] => i = j
      BY <2>2
    <3> QED
      BY <2>2, <3>1, DistinctRows
  <2> QED
    BY <1>1, <2>3 DEF IsWhole
<1>2. CASE one.op # "identity"
  <2>1. \/ one.op = "financials" \/ one.op = "revenue_growth" \/ one.op \in {"price", "price_history"}
        \/ one.op \in RestViews
    BY <1>2 DEF PrivateOperations
  <2> QED
    BY <2>1, FinancialsAreWhole, GrowthIsWhole, PricesAreWhole, ViewsAreWhole
<1> QED
  BY <1>1, <1>2

-----------------------------------------------------------------------------
(* The inductive invariant.  A request of the right kind; what a stage has made sure of.          *)
Shaped(q) ==
  q = [at |-> q.at, op |-> q.op, asOf |-> q.asOf, pin |-> q.pin, count |-> q.count,
       release |-> q.release, company |-> q.company, years |-> q.years, rows |-> q.rows,
       offset |-> q.offset]
Asked(x) ==
  /\ x.op \in PrivateOperations \cup RestViews /\ x.count \in Nat \ {0} /\ x.release \in Nat
  /\ x.asOf \subseteq Nat /\ \A t, u \in x.asOf : t = u
Certain(x) ==
  x.op \in PrivateOperations /\ x.asOf # {} => Indexed(x.release) /\ Covers(Entry(x.release), x.asOf)
Named(x) == x.company = Resolved(x.release, x.asOf)

OfStage(q) ==
  /\ q.at \in {"dated", "snapshot"} => q.op \in PrivateOperations
  /\ q.at = "annual" => q.op \in {"financials", "revenue_growth"}
  /\ q.at = "prices" => q.op \in {"price", "price_history"}
  /\ q.at = "view" => q.op \in RestViews
  /\ q.at \in {"dated", "resolve", "snapshot", "annual", "prices", "view"} => q.pin \subseteq {q.release}
  /\ q.at \in {"resolve", "snapshot", "annual", "prices", "view"} => Certain(q)
  /\ q.at \in {"snapshot", "annual", "prices", "view"} => Named(q)

\* The closes of the years read, which are later than those of the years to come.
LimitOf(q) == IF q.op = "price" THEN 1 ELSE q.count
ReadOf(kept, q) == {r \in KnownRows(q, kept.closes) : YearOf(r.session) \notin q.years}
YearsRead(kept, q) ==
  /\ q.at = "prices" =>
       /\ q.rows = Sessions(ReadOf(kept, q)) /\ Len(q.rows) < LimitOf(q)
       /\ q.years \subseteq {YearOf(r.session) : r \in kept.closes}
       /\ \A r \in ReadOf(kept, q), y \in q.years : y < YearOf(r.session)
  /\ q.at # "prices" /\ q.op \in PrivateOperations => q.rows = << >>

\* The pages read are those of the view of the release they are pinned to.
AsOfRelease(q, k) == [release |-> k, company |-> Resolved(k, q.asOf), asOf |-> q.asOf]
ViewAt(kept, op, x) == ViewOf(op, KnownRows(x, kept.annual), KnownRows(x, kept.closes))
PagesRead(kept, q) ==
  q.op \in RestViews =>
    /\ q.offset = 0 => q.rows = << >>
    /\ q.offset # 0 =>
         q.pin # {} /\ \A k \in q.pin : /\ q.offset <= Len(ViewAt(kept, q.op, AsOfRelease(q, k)))
                                      /\ q.rows = SubSeq(ViewAt(kept, q.op, AsOfRelease(q, k)), 1, q.offset)

QuerySound(kept, q, answers) ==
  /\ Shaped(q) /\ Asked(q) /\ q.offset \in Nat /\ OfStage(q) /\ YearsRead(kept, q) /\ PagesRead(kept, q)
  /\ q.at # "idle" =>
       \A one \in answers : one.op = q.op /\ one.asOf = q.asOf /\ one.count = q.count

AnswerSound(kept, one) ==
  /\ Asked(one) /\ one.pin \subseteq {one.release} /\ Certain(one) /\ Named(one)
  /\ IsAnswer(one.rows, one.op, one.count, one.company,
              KnownRows(one, kept.annual), KnownRows(one, kept.closes))
ToldSound(kept, answers) ==
  /\ \A one \in answers : AnswerSound(kept, one)
  /\ \A one, other \in answers :
       one.op = other.op /\ one.asOf = other.asOf /\ one.count = other.count

QueriesSound ==
  /\ book \in Books /\ newest \in Nat
  /\ QuerySound(book, query, told) /\ ToldSound(book, told)

-----------------------------------------------------------------------------
LEMMA SessionsOfNone == Sessions({}) = << >>
<1>1. OneCloseEach({})
  BY FS_EmptySet DEF OneCloseEach
<1>2. Sessions({}) \in Seq({}) /\ Len(Sessions({})) = 0
  BY <1>1, SessionsAre, FS_EmptySet
<1> QED
  BY <1>2

LEMMA ViewTyped ==
  ASSUME NEW kept \in Books, NEW op, NEW x
  PROVE  \E S : ViewAt(kept, op, x) \in Seq(S)
<1> DEFINE R == KnownRows(x, kept.annual)
           C == KnownRows(x, kept.closes)
<1>1. RowsOfOne(R) /\ OneCloseEach(C)
  BY KnownAreRows
<1> HIDE DEF R, C
<1>2. Sessions(C) \in Seq(C)
  BY <1>1, SessionsAre
<1>3. ASSUME NEW D \in SUBSET R PROVE Periods(D) \in Seq(D)
  <2>1. RowsOfOne(D)
    BY <1>1, RowsWithin
  <2>2. IsFiniteSet(D) /\ Orders(ByPeriod(D), D)
    BY <2>1, PeriodsOrdered DEF RowsOfOne
  <2> QED
    BY <2>2, AllOfOrder DEF Periods
<1>4. SelectRevisions(R) \in SUBSET R
  BY DEF SelectRevisions
<1>5. ViewAt(kept, op, x) = ViewOf(op, R, C)
  BY DEF ViewAt, R, C
<1> QED
  BY <1>2, <1>3, <1>4, <1>5 DEF ViewOf

\* What is read of a view is followed while what was asked and the pages stay.
LEMMA PagesStay ==
  ASSUME NEW kept, NEW q, NEW q2, PagesRead(kept, q), q2.op = q.op, q2.asOf = q.asOf,
         q2.pin = q.pin, q2.offset = q.offset, q2.rows = q.rows
  PROVE  PagesRead(kept, q2)
  BY DEF PagesRead, AsOfRelease

LEMMA StageMoves ==
  ASSUME NEW kept, NEW answers, NEW q, QuerySound(kept, q, answers), q.at \notin {"idle", "prices"},
         NEW stage, stage # "prices", NEW q2, q2 = [q EXCEPT !.at = stage], OfStage(q2)
  PROVE  QuerySound(kept, q2, answers)
<1>1. /\ Shaped(q2) /\ q2.at = stage /\ q2.op = q.op /\ q2.asOf = q.asOf /\ q2.pin = q.pin
      /\ q2.count = q.count /\ q2.release = q.release /\ q2.company = q.company
      /\ q2.years = q.years /\ q2.rows = q.rows /\ q2.offset = q.offset
  BY DEF QuerySound, Shaped
<1>2. Asked(q2) /\ q2.offset \in Nat /\ YearsRead(kept, q2)
  BY <1>1 DEF QuerySound, Asked, YearsRead
<1>3. PagesRead(kept, q2)
  BY <1>1, PagesStay DEF QuerySound
<1> QED
  BY <1>1, <1>2, <1>3 DEF QuerySound

LEMMA NoQuerySound == ASSUME NEW kept, NEW answers PROVE QuerySound(kept, NoQuery, answers)
  BY DEF QuerySound, NoQuery, Shaped, Asked, OfStage, YearsRead, PagesRead, PrivateOperations,
         RestViews

\* An answer is kept with what was asked and where it was found.
LEMMA AnswerIsSound ==
  ASSUME NEW kept, NEW answers, NEW q, QuerySound(kept, q, answers), ToldSound(kept, answers),
         q.at \in {"snapshot", "annual", "prices", "view"}, NEW rows,
         IsAnswer(rows, q.op, q.count, q.company, KnownRows(q, kept.annual), KnownRows(q, kept.closes)),
         NEW one, one = [op |-> q.op, asOf |-> q.asOf, pin |-> q.pin, count |-> q.count,
                         release |-> q.release, company |-> q.company, rows |-> rows]
  PROVE  ToldSound(kept, answers \cup {one})
<1>1. /\ one.op = q.op /\ one.asOf = q.asOf /\ one.pin = q.pin /\ one.count = q.count
      /\ one.release = q.release /\ one.company = q.company /\ one.rows = rows
  OBVIOUS
<1>2. /\ KnownRows(one, kept.annual) = KnownRows(q, kept.annual)
      /\ KnownRows(one, kept.closes) = KnownRows(q, kept.closes)
  BY <1>1 DEF KnownRows
<1>3. Asked(one) /\ one.pin \subseteq {one.release} /\ Certain(one) /\ Named(one)
  BY <1>1 DEF QuerySound, Asked, OfStage, Certain, Named
<1>4. AnswerSound(kept, one)
  BY <1>1, <1>2, <1>3 DEF AnswerSound
<1>5. \A other \in answers : other.op = one.op /\ other.asOf = one.asOf /\ other.count = one.count
  BY <1>1 DEF QuerySound
<1> QED
  BY <1>4, <1>5 DEF ToldSound

-----------------------------------------------------------------------------
(* The years of the prices.                                                                       *)
LEMMA GreatestNumber ==
  ASSUME NEW S \in SUBSET Int, IsFiniteSet(S), S # {}
  PROVE  \E i \in S : \A j \in S : j <= i
<1> DEFINE order == {p \in S \X S : p[1] < p[2]}
<1>1. \A x, y \in S : <<x, y>> \in order <=> x < y
  OBVIOUS
<1> HIDE DEF order
<1>2. Orders(order, S)
  BY <1>1 DEF Orders
<1>3. PICK i \in S : \A j \in S : j # i => <<j, i>> \in order
  BY <1>2, LastInOrder
<1>4. ASSUME NEW j \in S PROVE j <= i
  <2>1. j = i \/ j < i
    BY <1>1, <1>3
  <2> QED
    BY <2>1
<1> QED
  BY <1>4

LEMMA YearsAreOrdered ==
  ASSUME NEW x \in Nat, NEW y \in Nat
  PROVE  /\ YearOf(x) \in Int
         /\ YearOf(x) < YearOf(y) => x < y
         /\ x <= y => YearOf(x) <= YearOf(y)
  BY DEF YearOf

LEMMA YearIsLatest ==
  ASSUME book \in Books, NEW q, YearsRead(book, q), q.at = "prices", q.years # {}
  PROVE  LET year == CHOOSE y \in q.years : \A z \in q.years : z <= y
         IN year \in q.years /\ \A z \in q.years : z <= year
<1>2. q.years \subseteq Int /\ IsFiniteSet(q.years)
  <2>1. IsFiniteSet(book.closes) /\ \A r \in book.closes : r.session \in Nat
    BY BooksAssumption
  <2>2. IsFiniteSet({YearOf(r.session) : r \in book.closes})
    <3> DEFINE f == [r \in book.closes |-> YearOf(r.session)]
               image == {YearOf(r.session) : r \in book.closes}
    <3>1. f \in Surjection(book.closes, image)
      BY DEF Surjection
    <3> QED
      BY <2>1, <3>1, FS_Surjection
  <2>3. {YearOf(r.session) : r \in book.closes} \subseteq Int
    BY <2>1, YearsAreOrdered
  <2> QED
    BY <2>2, <2>3, FS_Subset DEF YearsRead
<1> QED
  BY <1>2, GreatestNumber

\* The closes of some years, and those of the others.
InYears(closes, years) == {r \in closes : YearOf(r.session) \in years}
OutOfYears(closes, years) == {r \in closes : YearOf(r.session) \notin years}

\* The next of the years joins its closes to those that are read.
LEMMA NextYear ==
  ASSUME book \in Books, NEW q, YearsRead(book, q), q.at = "prices", q.years # {},
         NEW year \in q.years, \A z \in q.years : z <= year,
         NEW left, left = q.years \ {year}
  PROVE  LET known == KnownRows(q, book.closes) IN
         /\ Sessions(ClosesOf(q, {year})) \o q.rows = Sessions(OutOfYears(known, left))
         /\ Sessions(known) = Sessions(InYears(known, left)) \o Sessions(OutOfYears(known, left))
         /\ \A r \in OutOfYears(known, left), y \in left : y < YearOf(r.session)
<1> DEFINE known == KnownRows(q, book.closes)
           after == OutOfYears(known, left)
           before == InYears(known, left)
           its == {r \in known : YearOf(r.session) = year}
           read == ReadOf(book, q)
<1>1. OneCloseEach(known)
  BY KnownAreRows
<1>2. q.years \subseteq Int
  <2>1. \A r \in book.closes : r.session \in Nat
    BY BooksAssumption
  <2>2. {YearOf(r.session) : r \in book.closes} \subseteq Int
    BY <2>1, YearsAreOrdered
  <2> QED
    BY <2>2 DEF YearsRead
<1>3. year \in q.years /\ \A z \in q.years : z <= year
  OBVIOUS
<1>4. /\ q.rows = Sessions(read)
      /\ \A r \in read, y \in q.years : y < YearOf(r.session)
      /\ read = {r \in known : YearOf(r.session) \notin q.years}
  BY DEF YearsRead, ReadOf
<1>5. ClosesOf(q, {year}) = its
  BY DEF ClosesOf, KnownRows
<1>6. /\ after \subseteq known /\ \A r \in known : r \in after <=> YearOf(r.session) \notin left
      /\ before \subseteq known /\ \A r \in known : r \in before <=> YearOf(r.session) \in left
      /\ after = its \cup read
  BY <1>3, <1>4 DEF InYears, OutOfYears
<1> HIDE DEF read, known, after, before
<1>7. \A r \in known : r.session \in Nat
  BY <1>1 DEF OneCloseEach
<1>8. Sessions(its \cup read) = Sessions(its) \o Sessions(read)
  <2>1. OneCloseEach(its \cup read)
    BY <1>1, <1>4, ClosesWithin
  <2>2. ASSUME NEW r \in its, NEW s \in read PROVE r.session < s.session
    <3>1. YearOf(r.session) < YearOf(s.session) /\ r \in known /\ s \in known
      BY <1>3, <1>4, <2>2
    <3> QED
      BY <1>7, <3>1, YearsAreOrdered
  <2> HIDE DEF its
  <2> QED
    BY <2>1, <2>2, SessionsJoin
<1>9. ASSUME NEW r \in after, NEW y \in left PROVE y < YearOf(r.session)
  <2>1. y \in q.years /\ y # year /\ y <= year /\ y \in Int /\ year \in Int
    BY <1>2, <1>3
  <2>2. CASE r \in read
    BY <1>4, <2>1, <2>2
  <2>3. CASE r \in its
    <3>1. YearOf(r.session) = year /\ y < year
      BY <2>1, <2>3
    <3> QED
      BY <3>1
  <2> QED
    BY <1>6, <2>2, <2>3
<1>10. Sessions(known) = Sessions(before) \o Sessions(after)
  <2>1. known = before \cup after
    BY <1>6
  <2>2. OneCloseEach(before \cup after)
    BY <1>1, <2>1
  <2>3. ASSUME NEW r \in before, NEW s \in after PROVE r.session < s.session
    <3>1. YearOf(r.session) < YearOf(s.session) /\ r \in known /\ s \in known
      BY <1>6, <1>9, <2>3
    <3> QED
      BY <1>7, <3>1, YearsAreOrdered
  <2>4. Sessions(before \cup after) = Sessions(before) \o Sessions(after)
    BY <2>2, <2>3, SessionsJoin
  <2> QED
    BY <2>1, <2>4
<1> QED
  BY <1>4, <1>5, <1>6, <1>8, <1>9, <1>10 DEF known, after, before

\* No close that is known is of a year after the instant.
LEMMA YearsOfTheKnown ==
  ASSUME book \in Books, NEW q, q.asOf \subseteq Nat, NEW r \in KnownRows(q, book.closes)
  PROVE  YearOf(r.session) \in {y \in YearFiles(q.release, q.company) :
                                  \A t \in q.asOf : y <= YearOf(t \div 4)}
<1>1. r \in Held(book.closes, q.release, q.company) /\ Available(r, q.asOf) /\ r \in book.closes
  BY DEF KnownRows, Held
<1>2. YearOf(r.session) \in YearFiles(q.release, q.company)
  BY <1>1 DEF YearFiles
<1>3. /\ r.session \in Nat /\ r.public \subseteq Moments
      /\ \A m \in r.public : r.session <= DayOf(m)
  BY <1>1, BooksAssumption
<1>4. ASSUME NEW t \in q.asOf PROVE YearOf(r.session) <= YearOf(t \div 4)
  <2>1. PICK m \in r.public : AvailabilityInstant(m) <= t
    BY <1>1 DEF Available
  <2>2. m.dated \in BOOLEAN /\ m.at \in Nat /\ t \in Nat /\ r.session <= DayOf(m)
    BY <1>3, <2>1 DEF Moments
  <2>3. DayOf(m) <= t \div 4 /\ DayOf(m) \in Nat
    <3>1. CASE m.dated
      BY <2>1, <2>2, <3>1 DEF AvailabilityInstant, DayOf
    <3>2. CASE ~m.dated
      BY <2>1, <2>2, <3>2 DEF AvailabilityInstant, DayOf
    <3> QED
      BY <2>2, <3>1, <3>2
  <2>4. r.session <= t \div 4 /\ t \div 4 \in Nat
    BY <1>3, <2>2, <2>3
  <2> QED
    BY <1>3, <2>4, YearsAreOrdered
<1> QED
  BY <1>2, <1>4

\* The latest close that is held, if it was known, is the last of those that were.
LEMMA LatestClose ==
  ASSUME book \in Books, NEW q, NEW held, held = Held(book.closes, q.release, q.company),
         NEW latest, latest = {r \in held : Available(r, q.asOf) /\ \A s \in held : s.session <= r.session},
         latest # {}
  PROVE  Sessions(latest) = LastRows(Sessions(KnownRows(q, book.closes)), 1)
<1> DEFINE known == KnownRows(q, book.closes)
           rest == known \ latest
<1>1. OneCloseEach(known)
  BY KnownAreRows
<1>2. latest \subseteq known /\ known \subseteq held
  BY DEF KnownRows
<1>3. known = rest \cup latest
  BY <1>2
<1> HIDE DEF known
<1>4. \A r, s \in known : r.session \in Nat /\ (r.session = s.session => r = s)
  BY <1>1 DEF OneCloseEach
<1>5. PICK r \in latest : TRUE
  OBVIOUS
<1>6. ASSUME NEW s \in latest PROVE s = r
  <2>1. s.session <= r.session /\ r.session <= s.session /\ r \in known /\ s \in known
    BY <1>2, <1>5
  <2> QED
    BY <1>4, <2>1
<1>7. latest = {r}
  BY <1>5, <1>6
<1>8. ASSUME NEW x \in rest, NEW s \in latest PROVE x.session < s.session
  <2>1. x.session <= s.session /\ x # s /\ x \in known /\ s \in known
    BY <1>2
  <2> QED
    BY <1>4, <2>1
<1> HIDE DEF rest
<1>9. Sessions(known) = Sessions(rest) \o Sessions(latest)
  <2>1. OneCloseEach(rest \cup latest)
    BY <1>1, <1>3
  <2>2. Sessions(rest \cup latest) = Sessions(rest) \o Sessions(latest)
    BY <1>8, <2>1, SessionsJoin
  <2> QED
    BY <1>3, <2>2
<1>10. Sessions(latest) \in Seq(known) /\ Sessions(rest) \in Seq(known) /\ Len(Sessions(latest)) = 1
  <2>1. OneCloseEach(latest) /\ OneCloseEach(rest)
    BY <1>1, <1>3, ClosesWithin
  <2>2. /\ Sessions(latest) \in Seq(latest) /\ Sessions(rest) \in Seq(rest)
        /\ Len(Sessions(latest)) = Cardinality(latest)
    BY <2>1, SessionsAre
  <2>3. Cardinality(latest) = 1
    BY <1>7, FS_Singleton
  <2> QED
    BY <1>3, <2>2, <2>3
<1>11. LastRows(Sessions(known), 1) = LastRows(Sessions(latest), 1)
  <2>1. 1 \in Nat \ {0}
    OBVIOUS
  <2>2. 1 <= 1 /\ Len(Sessions(latest)) = 1 => 1 <= Len(Sessions(latest))
    BY Zenon
  <2>3. 1 <= Len(Sessions(latest))
    BY <1>10, <2>2
  <2> QED
    BY <1>9, <1>10, <2>1, <2>3, LastOfJoin
<1>12. LastRows(Sessions(latest), 1) = Sessions(latest)
  <2>1. 1 \in Nat \ {0}
    OBVIOUS
  <2>2. 1 <= 1 /\ Len(Sessions(latest)) = 1 => Len(Sessions(latest)) <= 1
    BY Zenon
  <2>3. Len(Sessions(latest)) <= 1
    BY <1>10, <2>2
  <2> QED
    BY <1>10, <2>1, <2>3, LastOfFew
<1> QED
  BY <1>11, <1>12 DEF known

\* A view is read of what is known.
LEMMA ViewIs ==
  ASSUME NEW q, q.op \in RestViews
  PROVE  View(q) = ViewAt(book, q.op, q)
<1>1. AnnualOf(q) = KnownRows(q, book.annual)
  BY DEF AnnualOf, KnownRows
<1>2. ClosesOf(q, YearFiles(q.release, q.company)) = KnownRows(q, book.closes)
  BY DEF ClosesOf, KnownRows, YearFiles
<1>3. CASE q.op = "prices"
  BY <1>2, <1>3 DEF View, ViewAt, ViewOf
<1>4. CASE q.op = "revisions"
  BY <1>1, <1>4 DEF View, ViewAt, ViewOf
<1>5. CASE q.op = "fundamentals"
  BY <1>1, <1>5 DEF View, ViewAt, ViewOf
<1> QED
  BY <1>3, <1>4, <1>5 DEF RestViews

-----------------------------------------------------------------------------
(* What a step leaves of a request.                                                               *)
LEMMA WithRelease ==
  ASSUME NEW q, Shaped(q), NEW at_, NEW release_, NEW r,
         r = [q EXCEPT !.at = at_, !.release = release_]
  PROVE  r = [at |-> at_, op |-> q.op, asOf |-> q.asOf, pin |-> q.pin,
              count |-> q.count, release |-> release_, company |-> q.company,
              years |-> q.years, rows |-> q.rows, offset |-> q.offset]
  BY DEF Shaped

LEMMA WithCompany ==
  ASSUME NEW q, Shaped(q), NEW company_, NEW at_, NEW r,
         r = [q EXCEPT !.company = company_, !.at = at_]
  PROVE  r = [at |-> at_, op |-> q.op, asOf |-> q.asOf, pin |-> q.pin,
              count |-> q.count, release |-> q.release, company |-> company_,
              years |-> q.years, rows |-> q.rows, offset |-> q.offset]
  BY DEF Shaped

LEMMA WithYears ==
  ASSUME NEW q, Shaped(q), NEW at_, NEW years_, NEW r,
         r = [q EXCEPT !.at = at_, !.years = years_]
  PROVE  r = [at |-> at_, op |-> q.op, asOf |-> q.asOf, pin |-> q.pin,
              count |-> q.count, release |-> q.release, company |-> q.company,
              years |-> years_, rows |-> q.rows, offset |-> q.offset]
  BY DEF Shaped

LEMMA WithRows ==
  ASSUME NEW q, Shaped(q), NEW rows_, NEW years_, NEW r,
         r = [q EXCEPT !.rows = rows_, !.years = years_]
  PROVE  r = [at |-> q.at, op |-> q.op, asOf |-> q.asOf, pin |-> q.pin,
              count |-> q.count, release |-> q.release, company |-> q.company,
              years |-> years_, rows |-> rows_, offset |-> q.offset]
  BY DEF Shaped

LEMMA WithPage ==
  ASSUME NEW q, Shaped(q), NEW at_, NEW pin_, NEW rows_, NEW offset_, NEW r,
         r = [q EXCEPT !.at = at_, !.pin = pin_, !.rows = rows_, !.offset = offset_]
  PROVE  r = [at |-> at_, op |-> q.op, asOf |-> q.asOf, pin |-> pin_,
              count |-> q.count, release |-> q.release, company |-> q.company,
              years |-> q.years, rows |-> rows_, offset |-> offset_]
  BY DEF Shaped

-----------------------------------------------------------------------------
(* Every step keeps the invariant.                                                                *)
LEMMA DeclinedIsSound ==
  ASSUME QueriesSound, book' = book, newest' = newest, Declined
  PROVE  QueriesSound'
<1>1. query' = NoQuery /\ told' = told
  BY DEF Declined, Goes
<1>2. QuerySound(book, NoQuery, told)
  BY NoQuerySound
<1> QED
  BY <1>1, <1>2 DEF QueriesSound

\* The request goes on.
LEMMA GoesOn ==
  ASSUME QueriesSound, book' = book, newest' = newest, NEW q, Goes(q), QuerySound(book, q, told)
  PROVE  QueriesSound'
  BY DEF Goes, QueriesSound

LEMMA TellsSound ==
  ASSUME QueriesSound, book' = book, newest' = newest, NEW rows, Tells(rows),
         query.at \in {"snapshot", "annual", "prices", "view"},
         IsAnswer(rows, query.op, query.count, query.company,
                  KnownRows(query, book.annual), KnownRows(query, book.closes))
  PROVE  QueriesSound'
<1> DEFINE one == [op |-> query.op, asOf |-> query.asOf, pin |-> query.pin,
                   count |-> query.count, release |-> query.release,
                   company |-> query.company, rows |-> rows]
<1>1. query' = NoQuery /\ told' = told \cup {one}
  BY DEF Tells
<1>2. ToldSound(book, told \cup {one})
  BY AnswerIsSound DEF QueriesSound
<1>3. QuerySound(book, NoQuery, told \cup {one})
  BY NoQuerySound
<1> HIDE DEF one
<1> QED
  BY <1>1, <1>2, <1>3 DEF QueriesSound

LEMMA AskSound == ASSUME QueriesSound, Ask PROVE QueriesSound'
<1>1. PICK op \in PrivateOperations \cup RestViews, n \in Counts \cup {PageRows},
           asOf \in {{}} \cup {{t} : t \in Instants}, pin \in {{}} \cup {{k} : k \in 1..newest} :
         /\ op \in RestViews => pin = {} /\ n = PageRows
         /\ \A one \in told : one.op = op /\ one.asOf = asOf /\ one.count = n
         /\ query' = [NoQuery EXCEPT !.at = "pointer", !.op = op, !.asOf = asOf, !.pin = pin,
                        !.count = n]
  BY Zenon DEF Ask
<1>2. book' = book /\ newest' = newest /\ told' = told
  BY DEF Ask
<1>3. n \in Nat \ {0} /\ asOf \subseteq Nat /\ \A t, u \in asOf : t = u
  BY QueriesAssumption
<1> DEFINE q == [at |-> "pointer", op |-> op, asOf |-> asOf, pin |-> pin, count |-> n, release |-> 0,
                 company |-> 0, years |-> {}, rows |-> << >>, offset |-> 0]
<1>4. query' = q
  BY <1>1 DEF NoQuery
<1>5. Shaped(q) /\ Asked(q) /\ q.offset \in Nat /\ OfStage(q)
  BY <1>3 DEF Shaped, Asked, OfStage
<1>6. YearsRead(book, q) /\ PagesRead(book, q)
  BY DEF YearsRead, PagesRead
<1>7. QuerySound(book, q, told)
  BY <1>1, <1>5, <1>6 DEF QuerySound
<1> HIDE DEF q
<1> QED
  BY <1>2, <1>4, <1>7 DEF QueriesSound

LEMMA ReadPointerSound == ASSUME QueriesSound, ReadPointer PROVE QueriesSound'
<1> DEFINE q == [query EXCEPT !.at = "manifest", !.release = newest]
<1>1. /\ query.at = "pointer" /\ book' = book /\ newest' = newest /\ Goes(q)
      /\ QuerySound(book, query, told) /\ newest \in Nat
  BY DEF ReadPointer, QueriesSound
<1>2. /\ Shaped(q) /\ q.at = "manifest" /\ q.op = query.op /\ q.asOf = query.asOf
      /\ q.pin = query.pin /\ q.count = query.count /\ q.release = newest
      /\ q.rows = query.rows /\ q.offset = query.offset
  <2>1. Shaped(query) /\ q = [query EXCEPT !.at = "manifest", !.release = newest]
    BY <1>1 DEF QuerySound
  <2> HIDE DEF q
  <2>2. q = [at |-> "manifest", op |-> query.op, asOf |-> query.asOf, pin |-> query.pin,
             count |-> query.count, release |-> newest, company |-> query.company,
             years |-> query.years, rows |-> query.rows, offset |-> query.offset]
    BY <2>1, WithRelease
  <2> QED
    BY <2>2 DEF Shaped
<1> HIDE DEF q
<1>3. Asked(q) /\ q.offset \in Nat /\ OfStage(q) /\ YearsRead(book, q)
  BY <1>1, <1>2 DEF QuerySound, Asked, OfStage, YearsRead
<1>4. PagesRead(book, q)
  BY <1>1, <1>2, PagesStay DEF QuerySound
<1>5. QuerySound(book, q, told)
  BY <1>1, <1>2, <1>3, <1>4 DEF QuerySound
<1> QED
  BY <1>1, <1>5, GoesOn

LEMMA ReadManifestSound == ASSUME QueriesSound, ReadManifest PROVE QueriesSound'
<1> DEFINE stage == IF query.asOf # {} /\ query.op \in PrivateOperations THEN "dated" ELSE "resolve"
           q == [query EXCEPT !.at = stage]
<1>1. /\ query.at = "manifest" /\ book' = book /\ newest' = newest
      /\ Declined \/ (query.pin \subseteq {query.release} /\ Goes(q))
  BY DEF ReadManifest, Read, Digested, To
<1>2. QuerySound(book, query, told)
  BY DEF QueriesSound
<1>3. CASE query.pin \subseteq {query.release} /\ Goes(q)
  <2>1. /\ q.at = stage /\ q.op = query.op /\ q.asOf = query.asOf /\ q.pin = query.pin
        /\ q.release = query.release
    BY <1>2 DEF QuerySound, Shaped
  <2>2. stage \in {"dated", "resolve"} /\ (stage = "dated" => query.op \in PrivateOperations)
        /\ (stage = "resolve" => query.asOf = {} \/ query.op \notin PrivateOperations)
    OBVIOUS
  <2>3. q = [query EXCEPT !.at = stage]
    OBVIOUS
  <2> HIDE DEF q, stage
  <2>4. OfStage(q)
    BY <1>3, <2>1, <2>2 DEF OfStage, Certain
  <2>5. QuerySound(book, q, told)
    BY <1>1, <1>2, <2>2, <2>3, <2>4, StageMoves
  <2> QED
    BY <1>1, <1>3, <2>5, GoesOn
<1> QED
  BY <1>1, <1>3, DeclinedIsSound

LEMMA CheckIdentitySound == ASSUME QueriesSound, CheckIdentity PROVE QueriesSound'
<1> DEFINE q == [query EXCEPT !.at = "resolve"]
<1>1. /\ query.at = "dated" /\ book' = book /\ newest' = newest
      /\ Declined \/ (Indexed(query.release) /\ Covers(Entry(query.release), query.asOf) /\ Goes(q))
  BY DEF CheckIdentity, Read, Digested, To
<1>2. QuerySound(book, query, told)
  BY DEF QueriesSound
<1>3. CASE Indexed(query.release) /\ Covers(Entry(query.release), query.asOf) /\ Goes(q)
  <2>1. /\ q.at = "resolve" /\ q.op = query.op /\ q.asOf = query.asOf /\ q.pin = query.pin
        /\ q.release = query.release
    BY <1>2 DEF QuerySound, Shaped
  <2>2. q = [query EXCEPT !.at = "resolve"]
    OBVIOUS
  <2> HIDE DEF q
  <2>3. OfStage(q)
    BY <1>1, <1>2, <1>3, <2>1 DEF QuerySound, OfStage, Certain
  <2>4. QuerySound(book, q, told)
    BY <1>1, <1>2, <2>2, <2>3, StageMoves
  <2> QED
    BY <1>1, <1>3, <2>4, GoesOn
<1> QED
  BY <1>1, <1>3, DeclinedIsSound

LEMMA ResolveSecuritySound == ASSUME QueriesSound, ResolveSecurity PROVE QueriesSound'
<1> DEFINE company == Resolved(query.release, query.asOf)
           stage == IF query.op \in RestViews THEN "view" ELSE "snapshot"
           q == [query EXCEPT !.company = company, !.at = stage]
<1>1. /\ query.at = "resolve" /\ book' = book /\ newest' = newest
      /\ Declined \/ Goes(q)
  BY DEF ResolveSecurity, Read, Digested
<1>2. QuerySound(book, query, told)
  BY DEF QueriesSound
<1>3. CASE Goes(q)
  <2>1. /\ Shaped(q) /\ q.at = stage /\ q.op = query.op /\ q.asOf = query.asOf
        /\ q.pin = query.pin /\ q.count = query.count /\ q.release = query.release
        /\ q.company = company /\ q.rows = query.rows /\ q.offset = query.offset
    <3>1. Shaped(query) /\ q = [query EXCEPT !.company = company, !.at = stage]
      BY <1>2 DEF QuerySound
    <3> HIDE DEF q, stage, company
    <3>2. q = [at |-> stage, op |-> query.op, asOf |-> query.asOf, pin |-> query.pin,
               count |-> query.count, release |-> query.release, company |-> company,
               years |-> query.years, rows |-> query.rows, offset |-> query.offset]
      BY <3>1, WithCompany
    <3> QED
      BY <3>2 DEF Shaped
  <2>2. stage \in {"view", "snapshot"} /\ (stage = "view" <=> query.op \in RestViews)
    OBVIOUS
  <2> HIDE DEF q, stage
  <2>3. Asked(q) /\ q.offset \in Nat /\ YearsRead(book, q)
    BY <1>1, <1>2, <2>1, <2>2 DEF QuerySound, Asked, YearsRead
  <2>4. OfStage(q)
    BY <1>1, <1>2, <2>1, <2>2 DEF QuerySound, OfStage, Asked, Certain, Named
  <2>5. PagesRead(book, q)
    BY <1>2, <2>1, PagesStay DEF QuerySound
  <2>6. QuerySound(book, q, told)
    BY <1>1, <1>2, <2>1, <2>3, <2>4, <2>5 DEF QuerySound
  <2> QED
    BY <1>1, <1>3, <2>6, GoesOn
<1> QED
  BY <1>1, <1>3, DeclinedIsSound

LEMMA ReadSnapshotSound == ASSUME QueriesSound, ReadSnapshot PROVE QueriesSound'
<1> DEFINE held == Held(book.closes, query.release, query.company)
           latest == {r \in held : Available(r, query.asOf) /\ \A s \in held : s.session <= r.session}
           years == {y \in YearFiles(query.release, query.company) :
                       \A t \in query.asOf : y <= YearOf(t \div 4)}
           p == [query EXCEPT !.at = "prices", !.years = years]
           q == [query EXCEPT !.at = "annual"]
           C == KnownRows(query, book.closes)
<1>1. /\ query.at = "snapshot" /\ book' = book /\ newest' = newest
      /\ \/ Declined
         \/ query.op = "identity" /\ Tells(<< >>)
         \/ query.op = "price" /\ latest # {} /\ Tells(Sessions(latest))
         \/ query.op \in {"price", "price_history"} /\ Goes(p)
         \/ query.op \notin {"identity", "price", "price_history"} /\ Goes(q)
  BY DEF ReadSnapshot, Read, Digested, To
<1>2. /\ QuerySound(book, query, told) /\ book \in Books /\ query.op \in PrivateOperations
      /\ Asked(query) /\ query.asOf \subseteq Nat /\ query.rows = << >>
  BY <1>1 DEF QueriesSound, QuerySound, OfStage, Asked, YearsRead
<1>3. CASE query.op = "identity" /\ Tells(<< >>)
  <2>1. IsAnswer(<< >>, query.op, query.count, query.company, KnownRows(query, book.annual), C)
    BY <1>3 DEF IsAnswer, RestViews
  <2> QED
    BY <1>1, <1>3, <2>1, TellsSound
<1>4. CASE query.op = "price" /\ latest # {} /\ Tells(Sessions(latest))
  <2>1. Sessions(latest) = LastRows(Sessions(C), 1)
    BY <1>2, <1>4, LatestClose
  <2> HIDE DEF latest, C
  <2>2. IsAnswer(Sessions(latest), query.op, query.count, query.company,
                 KnownRows(query, book.annual), C)
    BY <1>4, <2>1 DEF IsAnswer, RestViews
  <2> QED
    BY <1>1, <1>4, <2>2, TellsSound DEF C
<1>5. CASE query.op \in {"price", "price_history"} /\ Goes(p)
  <2>1. p = [at |-> "prices", op |-> query.op, asOf |-> query.asOf, pin |-> query.pin,
             count |-> query.count, release |-> query.release, company |-> query.company,
             years |-> years, rows |-> query.rows, offset |-> query.offset]
    <3>1. Shaped(query) /\ p = [query EXCEPT !.at = "prices", !.years = years]
      BY <1>2 DEF QuerySound
    <3> HIDE DEF p, years
    <3> QED
      BY <3>1, WithYears
  <2>2. \A r \in C : YearOf(r.session) \in years
    BY <1>2, YearsOfTheKnown
  <2>3. years \subseteq {YearOf(r.session) : r \in book.closes}
    BY DEF YearFiles, Held
  <2> HIDE DEF p, years, C
  <2>4. /\ Shaped(p) /\ p.at = "prices" /\ p.op = query.op /\ p.asOf = query.asOf
        /\ p.pin = query.pin /\ p.count = query.count /\ p.release = query.release
        /\ p.company = query.company /\ p.years = years /\ p.rows = query.rows
        /\ p.offset = query.offset
    BY <2>1 DEF Shaped
  <2>5. KnownRows(p, book.closes) = C
    BY <2>4 DEF KnownRows, C
  <2>6. ReadOf(book, p) = {}
    BY <2>2, <2>4, <2>5 DEF ReadOf
  <2>7. p.rows = Sessions(ReadOf(book, p)) /\ Len(p.rows) = 0
    BY <1>2, <2>4, <2>6, SessionsOfNone
  <2>8. LimitOf(p) \in Nat \ {0}
    BY <1>2, <2>4 DEF Asked, LimitOf
  <2>9. YearsRead(book, p)
    BY <2>3, <2>4, <2>6, <2>7, <2>8 DEF YearsRead
  <2>10. Asked(p) /\ p.offset \in Nat /\ OfStage(p)
    BY <1>1, <1>2, <1>5, <2>4 DEF QuerySound, Asked, OfStage, Certain, Named
  <2>11. PagesRead(book, p)
    BY <1>2, <2>4, PagesStay DEF QuerySound
  <2>12. QuerySound(book, p, told)
    BY <1>1, <1>2, <2>4, <2>9, <2>10, <2>11 DEF QuerySound
  <2> QED
    BY <1>1, <1>5, <2>12, GoesOn
<1>6. CASE query.op \notin {"identity", "price", "price_history"} /\ Goes(q)
  <2>1. /\ q.at = "annual" /\ q.op = query.op /\ q.asOf = query.asOf /\ q.pin = query.pin
        /\ q.release = query.release /\ q.company = query.company
    BY <1>2 DEF QuerySound, Shaped
  <2>2. q = [query EXCEPT !.at = "annual"]
    OBVIOUS
  <2> HIDE DEF q
  <2>3. OfStage(q)
    BY <1>1, <1>2, <1>6, <2>1 DEF QuerySound, OfStage, Certain, Named, PrivateOperations
  <2>4. QuerySound(book, q, told)
    BY <1>1, <1>2, <2>2, <2>3, StageMoves
  <2> QED
    BY <1>1, <1>6, <2>4, GoesOn
<1> HIDE DEF p, q, latest
<1> QED
  BY <1>1, <1>3, <1>4, <1>5, <1>6, DeclinedIsSound

LEMMA ReadAnnualSound == ASSUME QueriesSound, ReadAnnual PROVE QueriesSound'
<1> DEFINE R == KnownRows(query, book.annual)
           selected == Observations(R, query.company, query.count)
           yearly == Observations({r \in R : FullYear(r)}, query.company, 40)
           growth == UNION {AnnualRevenueGrowth(o, query.count) : o \in yearly}
           answer == IF query.op = "financials" THEN selected ELSE growth
<1>1. AnnualOf(query) = R
  BY DEF AnnualOf, KnownRows
<1>2. /\ query.at = "annual" /\ book' = book /\ newest' = newest
      /\ Declined \/ \E rows \in answer : Tells(rows)
  <2> HIDE DEF R
  <2> QED
    BY <1>1 DEF ReadAnnual, Read, Digested
<1>3. QuerySound(book, query, told) /\ query.op \in {"financials", "revenue_growth"}
  BY <1>2 DEF QueriesSound, QuerySound, OfStage
<1>4. ASSUME NEW rows \in answer, Tells(rows) PROVE QueriesSound'
  <2> HIDE DEF R
  <2>1. IsAnswer(rows, query.op, query.count, query.company, R, KnownRows(query, book.closes))
    <3>1. CASE query.op = "financials"
      BY <1>4, <3>1 DEF IsAnswer, RestViews
    <3>2. CASE query.op = "revenue_growth"
      <4>1. PICK o \in yearly : rows \in AnnualRevenueGrowth(o, query.count)
        BY <1>4, <3>2
      <4> QED
        BY <3>2, <4>1 DEF IsAnswer, RestViews
    <3> QED
      BY <1>3, <3>1, <3>2
  <2> QED
    BY <1>2, <1>4, <2>1, TellsSound DEF R
<1> HIDE DEF answer
<1> QED
  BY <1>2, <1>4, DeclinedIsSound

LEMMA ReadYearSound == ASSUME QueriesSound, ReadYear PROVE QueriesSound'
<1> DEFINE year == CHOOSE y \in query.years : \A z \in query.years : z <= y
           left == query.years \ {year}
           rows == Sessions(ClosesOf(query, {year})) \o query.rows
           limit == LimitOf(query)
           C == KnownRows(query, book.closes)
           after == OutOfYears(C, left)
           before == InYears(C, left)
           q == [query EXCEPT !.rows = rows, !.years = left]
<1>1. /\ query.at = "prices" /\ book' = book /\ newest' = newest
      /\ \/ Declined
         \/ query.years = {} /\ Tells(query.rows)
         \/ query.years # {} /\ Len(rows) >= limit /\ Tells(LastRows(rows, limit))
         \/ query.years # {} /\ ~(Len(rows) >= limit) /\ Goes(q)
  BY DEF ReadYear, Read, Digested, LimitOf
<1>2. /\ QuerySound(book, query, told) /\ book \in Books /\ query.op \in {"price", "price_history"}
      /\ limit \in Nat \ {0} /\ OneCloseEach(C) /\ YearsRead(book, query)
  BY <1>1, KnownAreRows DEF QueriesSound, QuerySound, OfStage, Asked, LimitOf
<1>3. /\ query.rows = Sessions(ReadOf(book, query)) /\ Len(query.rows) < limit
      /\ query.years \subseteq {YearOf(r.session) : r \in book.closes}
  BY <1>1, <1>2 DEF YearsRead
<1>4. ASSUME NEW answer, answer = LastRows(Sessions(C), limit), Tells(answer) PROVE QueriesSound'
  <2> HIDE DEF C
  <2>1. IsAnswer(answer, query.op, query.count, query.company, KnownRows(query, book.annual), C)
    BY <1>2, <1>4 DEF IsAnswer, RestViews, LimitOf
  <2> QED
    BY <1>1, <1>4, <2>1, TellsSound DEF C
<1>5. CASE query.years = {} /\ Tells(query.rows)
  <2>1. ReadOf(book, query) = C
    BY <1>5 DEF ReadOf
  <2>2. Sessions(C) \in Seq(C) /\ Len(Sessions(C)) <= limit /\ query.rows = Sessions(C)
    <3> HIDE DEF C, limit
    <3>1. Sessions(C) \in Seq(C) /\ query.rows = Sessions(C)
      BY <1>2, <1>3, <2>1, SessionsAre
    <3> QED
      BY <1>2, <1>3, <3>1
  <2>3. LastRows(Sessions(C), limit) = Sessions(C)
    <3> HIDE DEF C, limit
    <3> QED
      BY <1>2, <2>2, LastOfFew
  <2> QED
    BY <1>4, <1>5, <2>2, <2>3
<1>6. ASSUME query.years # {}
      PROVE  /\ rows = Sessions(after) /\ Sessions(C) = Sessions(before) \o Sessions(after)
             /\ \A r \in after, y \in left : y < YearOf(r.session)
             /\ Sessions(after) \in Seq(C) /\ Sessions(before) \in Seq(C)
  <2>1. /\ rows = Sessions(after) /\ Sessions(C) = Sessions(before) \o Sessions(after)
        /\ \A r \in after, y \in left : y < YearOf(r.session)
    <3>0. year \in query.years /\ \A z \in query.years : z <= year
      BY <1>1, <1>2, <1>6, YearIsLatest
    <3>1. left = query.years \ {year}
      OBVIOUS
    <3> HIDE DEF year, left
    <3>2. /\ Sessions(ClosesOf(query, {year})) \o query.rows = Sessions(after)
          /\ Sessions(C) = Sessions(before) \o Sessions(after)
          /\ \A r \in after, y \in left : y < YearOf(r.session)
      BY <1>1, <1>2, <1>6, <3>0, <3>1, NextYear
    <3> QED
      BY <3>2
  <2> HIDE DEF C, left, rows
  <2>2. OneCloseEach(after) /\ OneCloseEach(before) /\ after \subseteq C /\ before \subseteq C
    <3>1. after \subseteq C /\ before \subseteq C
      BY DEF InYears, OutOfYears
    <3> QED
      BY <1>2, <3>1, ClosesWithin
  <2> HIDE DEF after, before
  <2>3. Sessions(after) \in Seq(after) /\ Sessions(before) \in Seq(before)
    BY <2>2, SessionsAre
  <2>4. Sessions(after) \in Seq(C) /\ Sessions(before) \in Seq(C)
    BY <2>2, <2>3
  <2> QED
    BY <2>1, <2>4
<1>7. CASE query.years # {} /\ Len(rows) >= limit /\ Tells(LastRows(rows, limit))
  <2> HIDE DEF after, before, C, limit, rows
  <2>1. limit <= Len(Sessions(after)) /\ rows = Sessions(after)
        /\ Sessions(C) = Sessions(before) \o Sessions(after)
        /\ Sessions(after) \in Seq(C) /\ Sessions(before) \in Seq(C)
    BY <1>2, <1>6, <1>7
  <2>2. LastRows(Sessions(before) \o Sessions(after), limit) = LastRows(Sessions(after), limit)
    BY <1>2, <2>1, LastOfJoin
  <2> QED
    BY <1>4, <1>7, <2>1, <2>2
<1>8. CASE query.years # {} /\ ~(Len(rows) >= limit) /\ Goes(q)
  <2>1. q = [at |-> query.at, op |-> query.op, asOf |-> query.asOf, pin |-> query.pin,
             count |-> query.count, release |-> query.release, company |-> query.company,
             years |-> left, rows |-> rows, offset |-> query.offset]
    <3>1. Shaped(query) /\ q = [query EXCEPT !.rows = rows, !.years = left]
      BY <1>2 DEF QuerySound
    <3> HIDE DEF q, left, rows
    <3> QED
      BY <3>1, WithRows
  <2>2. left \subseteq query.years
    OBVIOUS
  <2> HIDE DEF q, left, rows, C, limit
  <2>3. /\ Shaped(q) /\ q.at = "prices" /\ q.op = query.op /\ q.asOf = query.asOf
        /\ q.pin = query.pin /\ q.count = query.count /\ q.release = query.release
        /\ q.company = query.company /\ q.years = left /\ q.rows = rows
        /\ q.offset = query.offset
    BY <1>1, <2>1 DEF Shaped
  <2>4. KnownRows(q, book.closes) = C
    BY <2>3 DEF KnownRows, C
  <2>5. ReadOf(book, q) = after
    BY <2>3, <2>4 DEF ReadOf, OutOfYears
  <2>6. LimitOf(q) = limit
    BY <2>3 DEF LimitOf, limit
  <2>7. Len(rows) < limit
    <3>1. Len(rows) \in Nat
      BY <1>6, <1>8
    <3> QED
      BY <1>2, <1>8, <3>1
  <2>8. YearsRead(book, q)
    <3> HIDE DEF after, before
    <3> QED
      BY <1>3, <1>6, <1>8, <2>2, <2>3, <2>5, <2>6, <2>7 DEF YearsRead
  <2>9. Asked(q) /\ q.offset \in Nat /\ OfStage(q)
    BY <1>1, <1>2, <2>3 DEF QuerySound, Asked, OfStage, Certain, Named
  <2>10. PagesRead(book, q)
    BY <1>2, <2>3 DEF PagesRead, PrivateOperations, RestViews
  <2>11. QuerySound(book, q, told)
    BY <1>1, <1>2, <2>3, <2>8, <2>9, <2>10 DEF QuerySound
  <2> QED
    BY <1>1, <1>8, <2>11, GoesOn
<1> HIDE DEF rows, limit, q
<1> QED
  BY <1>1, <1>5, <1>7, <1>8, DeclinedIsSound

LEMMA ReadViewSound == ASSUME QueriesSound, ReadView PROVE QueriesSound'
<1> DEFINE view == View(query)
           next == query.offset + PageRows
           n == IF next < Len(view) THEN next ELSE Len(view)
           rows == query.rows \o SubSeq(view, query.offset + 1, n)
           q == [query EXCEPT !.at = "pointer", !.pin = {query.release}, !.rows = rows,
                   !.offset = next]
<1>1. /\ query.at = "view" /\ book' = book /\ newest' = newest
      /\ \/ Declined
         \/ next >= Len(view) /\ Tells(rows)
         \/ ~(next >= Len(view)) /\ Goes(q)
  BY DEF ReadView, Read, Digested
<1>2. /\ QuerySound(book, query, told) /\ book \in Books /\ query.op \in RestViews
      /\ query.pin \subseteq {query.release} /\ Named(query) /\ query.offset \in Nat
      /\ PagesRead(book, query)
  BY <1>1 DEF QueriesSound, QuerySound, OfStage
<1>3. view = ViewAt(book, query.op, query)
  BY <1>2, ViewIs
<1>4. view = ViewAt(book, query.op, AsOfRelease(query, query.release))
  <2>1. /\ KnownRows(query, book.annual) = KnownRows(AsOfRelease(query, query.release), book.annual)
        /\ KnownRows(query, book.closes) = KnownRows(AsOfRelease(query, query.release), book.closes)
    BY <1>2 DEF AsOfRelease, KnownRows, Named
  <2> QED
    BY <1>3, <2>1 DEF ViewAt
<1>5. PICK S : view \in Seq(S)
  BY <1>2, <1>3, ViewTyped
<1> HIDE DEF view
<1>6. next \in Nat /\ query.offset < next /\ Len(view) \in Nat
  BY <1>2, <1>5, QueriesAssumption
<1>7. query.offset <= Len(view) /\ query.rows = SubSeq(view, 1, query.offset)
  <2>1. CASE query.offset = 0
    <3>1. query.rows = << >>
      BY <1>2, <2>1 DEF PagesRead
    <3>2. SubSeq(view, 1, 0) = << >>
      BY <1>5
    <3> QED
      BY <1>6, <2>1, <3>1, <3>2
  <2>2. CASE query.offset # 0
    BY <1>2, <1>4, <2>2 DEF PagesRead
  <2> QED
    BY <2>1, <2>2
<1>8. n \in Nat /\ query.offset <= n /\ n <= Len(view)
  BY <1>2, <1>6, <1>7
<1> HIDE DEF n, next
<1>9. rows = SubSeq(view, 1, n)
  BY <1>2, <1>5, <1>7, <1>8, SplitView
<1>10. CASE next >= Len(view) /\ Tells(rows)
  <2>1. n = Len(view)
    BY <1>6, <1>10 DEF n
  <2>2. rows = view
    <3>1. SubSeq(view, 1, Len(view)) = view
      BY <1>5
    <3> QED
      BY <1>9, <2>1, <3>1
  <2> HIDE DEF rows
  <2>3. IsAnswer(rows, query.op, query.count, query.company, KnownRows(query, book.annual),
                 KnownRows(query, book.closes))
    BY <1>2, <1>3, <2>2 DEF IsAnswer, ViewAt, RestViews
  <2> QED
    BY <1>1, <1>10, <2>3, TellsSound
<1>11. CASE ~(next >= Len(view)) /\ Goes(q)
  <2>1. n = next /\ next <= Len(view) /\ next # 0
    BY <1>2, <1>6, <1>11 DEF n
  <2>2. q = [at |-> "pointer", op |-> query.op, asOf |-> query.asOf, pin |-> {query.release},
             count |-> query.count, release |-> query.release, company |-> query.company,
             years |-> query.years, rows |-> rows, offset |-> next]
    <3>1. Shaped(query) /\ q = [query EXCEPT !.at = "pointer", !.pin = {query.release},
                                  !.rows = rows, !.offset = next]
      BY <1>2 DEF QuerySound
    <3> HIDE DEF q, rows
    <3> QED
      BY <3>1, WithPage
  <2> HIDE DEF q, rows
  <2>3. /\ Shaped(q) /\ q.at = "pointer" /\ q.op = query.op /\ q.asOf = query.asOf
        /\ q.pin = {query.release} /\ q.count = query.count /\ q.release = query.release
        /\ q.rows = rows /\ q.offset = next
    BY <2>2 DEF Shaped
  <2>4. Asked(q) /\ q.offset \in Nat /\ OfStage(q) /\ YearsRead(book, q)
    BY <1>2, <1>6, <2>3 DEF QuerySound, Asked, OfStage, YearsRead, PrivateOperations, RestViews
  <2>5. AsOfRelease(q, query.release) = AsOfRelease(query, query.release)
    BY <2>3 DEF AsOfRelease
  <2>6. PagesRead(book, q)
    BY <1>4, <1>9, <2>1, <2>3, <2>5 DEF PagesRead
  <2>7. QuerySound(book, q, told)
    BY <1>1, <1>2, <2>3, <2>4, <2>6 DEF QuerySound
  <2> QED
    BY <1>1, <1>11, <2>7, GoesOn
<1> HIDE DEF rows, q
<1> QED
  BY <1>1, <1>10, <1>11, DeclinedIsSound

\* The invariant holds of every reachable state.
THEOREM QueriesAreSound == QueriesSpec => []QueriesSound
<1>1. QueriesInit => QueriesSound
  <2>1. ASSUME QueriesInit PROVE QueriesSound
    <3>1. QuerySound(book, query, told)
      BY <2>1, NoQuerySound DEF QueriesInit
    <3>2. ToldSound(book, told)
      BY <2>1 DEF QueriesInit, ToldSound
    <3> QED
      BY <2>1, <3>1, <3>2 DEF QueriesInit, QueriesSound
  <2> QED
    BY <2>1
<1>2. QueriesSound /\ [QueriesNext]_queryVars => QueriesSound'
  <2> SUFFICES ASSUME QueriesSound, [QueriesNext]_queryVars PROVE QueriesSound'
    OBVIOUS
  <2>1. CASE Publish
    BY <2>1 DEF Publish, QueriesSound
  <2>2. CASE Evict
    BY <2>2 DEF Evict, QueriesSound
  <2>3. CASE Answering
    BY <2>3, ReadPointerSound, ReadManifestSound, CheckIdentitySound, ResolveSecuritySound,
       ReadSnapshotSound, ReadAnnualSound, ReadYearSound, ReadViewSound DEF Answering
  <2>4. CASE UNCHANGED queryVars
    BY <2>4 DEF queryVars, QueriesSound
  <2> QED
    BY <2>1, <2>2, <2>3, <2>4, AskSound DEF QueriesNext
<1> QED
  BY <1>1, <1>2, PTL DEF QueriesSpec

\* Two answers as of one instant, each of a release of its day or a later one: one company, one answer.
LEMMA AnswersAgree ==
  ASSUME book \in Books, NEW one, NEW other, AnswerSound(book, one), AnswerSound(book, other),
         one.op = other.op, one.asOf = other.asOf, one.count = other.count, one.asOf # {},
         \A t \in one.asOf : t <= 4 * one.release + 3 /\ t <= 4 * other.release + 3
  PROVE  /\ one.op \in PrivateOperations => one.company = other.company
         /\ one.company = other.company => one.rows = other.rows
<1>1. /\ one.release \in Nat /\ other.release \in Nat /\ one.asOf \subseteq Nat
      /\ one.op \in PrivateOperations \cup RestViews
  BY DEF AnswerSound, Asked
<1>2. ASSUME one.op \in PrivateOperations PROVE one.company = other.company
  <2>1. /\ Covers(Entry(one.release), one.asOf) /\ Covers(Entry(other.release), one.asOf)
        /\ one.company = Entry(one.release).company /\ other.company = Entry(other.release).company
    BY <1>2 DEF AnswerSound, Certain, Named, Resolved
  <2>2. PICK t \in one.asOf : TRUE
    OBVIOUS
  <2>3. /\ Entry(one.release).from <= t /\ Entry(other.release).from <= t /\ t \in Nat
        /\ t <= 4 * one.release + 3 /\ t <= 4 * other.release + 3
    BY <1>1, <2>1, <2>2 DEF Covers
  <2>4. Handover \in Nat
    BY QueriesAssumption
  <2>5. one.release >= Handover <=> other.release >= Handover
    <3>1. ASSUME NEW x \in Nat, x >= Handover, NEW y \in Nat, ~(y >= Handover),
                 Entry(x).from <= t, t <= 4 * y + 3
          PROVE  FALSE
      <4>1. 4 * Handover <= t
        BY <3>1 DEF Entry
      <4> QED
        BY <2>3, <2>4, <3>1, <4>1
    <3> QED
      BY <1>1, <2>3, <3>1
  <2> QED
    BY <2>1, <2>5 DEF Entry
<1>3. ASSUME one.company = other.company PROVE one.rows = other.rows
  <2>1. /\ \A r \in book.annual : r.public \subseteq Moments /\ \A m, n \in r.public : m = n
        /\ \A r \in book.closes : r.public \subseteq Moments /\ \A m, n \in r.public : m = n
    BY BooksAssumption
  <2>2. KnownRows(one, book.annual) = KnownRows(other, book.annual)
    BY <1>1, <1>3, <2>1, KnownStays
  <2>3. KnownRows(one, book.closes) = KnownRows(other, book.closes)
    BY <1>1, <1>3, <2>1, KnownStays
  <2>4. /\ IsAnswer(one.rows, one.op, one.count, one.company,
                    KnownRows(one, book.annual), KnownRows(one, book.closes))
        /\ IsAnswer(other.rows, one.op, one.count, one.company,
                    KnownRows(one, book.annual), KnownRows(one, book.closes))
    BY <1>3, <2>2, <2>3 DEF AnswerSound
  <2> QED
    BY <1>1, <2>4, AnswerIsOne
<1> QED
  BY <1>2, <1>3

\* Of whatever rows there are, whatever is published and moved, lost or torn in between, and however
\* the artifacts are read: what is answered is of the release it names, whole and newest for the
\* instant asked about, and a later answer to the same question is the same.
THEOREM AnswersStay == QueriesSpec => []AnswersAreOfTheirInstant
<1>1. QueriesSound => AnswersAreOfTheirInstant
  <2> SUFFICES ASSUME QueriesSound, NEW one \in told, NEW other \in told
               PROVE  /\ IsWhole(one)
                      /\ one.asOf # {} /\ (\A t \in one.asOf : t <= 4 * one.release + 3
                                                            /\ t <= 4 * other.release + 3)
                           => /\ one.op \in PrivateOperations => one.company = other.company
                              /\ one.company = other.company => one.rows = other.rows
    BY DEF AnswersAreOfTheirInstant
  <2>1. /\ book \in Books /\ AnswerSound(book, one) /\ AnswerSound(book, other)
        /\ one.op = other.op /\ one.asOf = other.asOf /\ one.count = other.count
    BY DEF QueriesSound, ToldSound
  <2>2. IsWhole(one)
    BY <2>1, AnswerIsWhole DEF AnswerSound, Asked
  <2> QED
    BY <2>1, <2>2, AnswersAgree
<1> QED
  BY <1>1, QueriesAreSound, PTL
=============================================================================
