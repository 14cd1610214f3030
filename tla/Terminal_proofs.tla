--------------------------- MODULE Terminal_proofs ----------------------------
(*****************************************************************************)
(*  What the terminal is told, proved for every set of clients, years,       *)
(*  tasks, fields and rows: the answers of the retrieval orchestrator and    *)
(*  its cache are of the source they name, and what the registry says of a   *)
(*  past instant stays as it is, is explained by filings, and is inherited   *)
(*  by the next approved report.                                             *)
(*****************************************************************************)
EXTENDS RegistryReports, Retrieval, SequenceTheorems, WellFoundedInduction, TLAPS

-----------------------------------------------------------------------------
(* Retrieval: every key of the cache names the source of what it holds. *)

ClientSet == [pc : {"idle", "route", "lookup", "fetch", "store"}, tasks : Seq(Tasks), tries : Nat,
              item : ItemSet, warned : BOOLEAN, items : SUBSET ItemSet, keep : BOOLEAN,
              about : {"none", "any", "filings"}]

\* A task about filings is one that Yahoo's adapter takes only as a stand-in.
Sought(t) == t.source \in {"sec", "unnamed"} /\ t.action \in SecActions
\* The source that the key of an answer stands for.
SourceOf(k) ==
  IF k.task.source \in {"yahoo", "fred"} THEN k.task.source
  ELSE IF k.marked THEN "yahoo" ELSE "sec"
\* What an item says of itself is true of its content.
Told(i) == i.listed => i.filing = i.label /\ i.dated \in {i.label, NoYear}

ClientOk(c) ==
  /\ client[c] \in ClientSet
  /\ client[c].pc \in {"lookup", "fetch", "store"} =>
       /\ client[c].tasks # <<>> /\ Adapter(c, Now(c)) # "none"
       /\ FallsBack(c, Now(c)) => client[c].warned
  /\ client[c].pc = "store" => client[c].item.from = Adapter(c, Now(c))
  /\ Told(client[c].item) /\ \A i \in client[c].items : Told(i)
  /\ client[c].about = "filings" =>
       /\ \A k \in DOMAIN client[c].tasks : Sought(client[c].tasks[k])
       /\ (\E i \in client[c].items : i.from = "yahoo") => client[c].warned

CacheOk ==
  /\ cache \in [Keys -> ItemSet]
  /\ \A k \in Keys : Told(cache[k]) /\ (cache[k] # NoItem => cache[k].from = SourceOf(k))
DocsOk ==
  /\ docs \in [Years \cup {NoYear} -> ItemSet]
  /\ \A d \in Years \cup {NoYear} : Told(docs[d])
  /\ \A d \in Years : docs[d].listed /\ docs[d] # NoItem => docs[d].filing = d
ProcessesOk ==
  /\ adapters \in [Clients -> {{"yahoo", "fred"}, {"yahoo", "sec"}}]
  /\ tickers \in [Clients -> {"unloaded", "loaded", "empty"}]
  /\ asks \in Nat

RetrievalInv ==
  /\ ProcessesOk /\ CacheOk /\ DocsOk
  /\ client \in [Clients -> ClientSet] /\ \A c \in Clients : ClientOk(c)

-----------------------------------------------------------------------------
\* A set of years that has a bound has a last one.
LEMMA BoundedHasLast ==
  ASSUME NEW l \in SUBSET Years, l # {}
  PROVE  /\ Newest(l) \in l /\ \A z \in l : z <= Newest(l)
         /\ \A y \in l : (\A z \in l : z <= y) => y = Newest(l)
<1>1. Years \in SUBSET Nat
  BY RetrievalAssumption
<1>2. PICK top \in Years : \A z \in Years : z <= top
  BY RetrievalAssumption
<1> DEFINE Below == {top - z : z \in l}
           R == OpToRel(<, Nat)
<1>3. Below \in SUBSET Nat /\ Below # {}
  BY <1>1, <1>2
<1>4. IsWellFoundedOn(R, Nat)
  BY NatLessThanWellFounded
<1>5. \A x, y \in Nat : x < y => <<x, y>> \in R
  BY DEF OpToRel
<1> HIDE DEF R
<1>6. PICK least \in Below : \A y \in Below : ~ (<<y, least>> \in R)
  BY <1>3, <1>4, WFMin, Zenon
<1>7. \A z \in l : least <= top - z
  <2> SUFFICES ASSUME NEW z \in l PROVE least <= top - z OBVIOUS
  <2> HIDE DEF Below
  <2>1. top - z \in Below
    BY DEF Below
  <2>2. least \in Nat /\ top - z \in Nat
    BY <1>3, <2>1
  <2>3. ~ (top - z < least)
    BY <1>5, <1>6, <2>1, <2>2, Zenon
  <2> QED BY <2>2, <2>3
<1>8. \E y \in l : \A z \in l : z <= y
  <2>1. PICK y \in l : least = top - y
    OBVIOUS
  <2>2. \A z \in l : z <= y
    BY <1>1, <1>2, <1>7, <2>1
  <2> QED BY <2>2
<1>9. Newest(l) \in l /\ \A z \in l : z <= Newest(l)
  BY <1>8, Zenon DEF Newest
<1>10. ASSUME NEW y \in l, \A z \in l : z <= y PROVE y = Newest(l)
  <2>1. y <= Newest(l) /\ Newest(l) <= y /\ y \in Nat /\ Newest(l) \in Nat
    BY <1>1, <1>9, <1>10
  <2> QED BY <2>1
<1> QED BY <1>9, <1>10

LEMMA LastYearIsLast == LastYear \in Years /\ \A z \in Years : z <= LastYear
BY RetrievalAssumption, Zenon DEF LastYear

LEMMA YearsAreNot == NoYear \notin Years
BY RetrievalAssumption DEF NoYear

\* The tasks that there are.
LEMMA TaskIs ==
  ASSUME NEW t \in Tasks
  PROVE  /\ t.year \in Years \cup {NoYear}
         /\ \/ t = Task("yahoo", "quote", NoYear) \/ t = Task("yahoo", "financials", NoYear)
            \/ t = Task("fred", "macro", NoYear) \/ t = Task("unnamed", "financials", NoYear)
            \/ t.source = "sec" /\ t.action \in {"financials", "filing_markdown"}
BY DEF Tasks, Task

\* The adapter of a task.
LEMMA AdapterIs ==
  ASSUME NEW c, NEW t
  PROVE  /\ Registered(c, t) => Adapter(c, t) = t.source
         /\ ~Registered(c, t) /\ t.action \in SecActions =>
              Adapter(c, t) = IF "sec" \in adapters[c] THEN "sec" ELSE "yahoo"
         /\ ~Registered(c, t) /\ t.action = "macro" =>
              Adapter(c, t) = IF "fred" \in adapters[c] THEN "fred" ELSE "none"
<1>1. CASE Registered(c, t)
  BY <1>1, Zenon DEF Adapter
<1>2. CASE ~Registered(c, t) /\ t.action \in SecActions
  <2>1. t.action # "macro"
    BY <1>2 DEF SecActions
  <2> QED BY <1>2, <2>1 DEF Adapter
<1>3. CASE ~Registered(c, t) /\ t.action = "macro"
  <2>1. t.action \notin SecActions
    BY <1>3 DEF SecActions
  <2> QED BY <1>3, <2>1 DEF Adapter
<1> QED BY <1>1, <1>2, <1>3

\* The key of a task stands for the adapter that its process routes it to.
LEMMA KeyIsOfItsAdapter ==
  ASSUME ProcessesOk, NEW c \in Clients, NEW t \in Tasks, Adapter(c, t) # "none"
  PROVE  /\ CacheKey(c, t) \in Keys /\ Adapter(c, t) = SourceOf(CacheKey(c, t))
         /\ Sought(t) /\ Adapter(c, t) = "yahoo" => FallsBack(c, t)
<1>1. adapters[c] \in {{"yahoo", "fred"}, {"yahoo", "sec"}}
  BY DEF ProcessesOk
<1>2. CacheKey(c, t) \in Keys
  BY DEF CacheKey, Keys, FallsBack, Registered
<1>3. CacheKey(c, t).task = t /\ CacheKey(c, t).marked = FallsBack(c, t)
  BY Zenon DEF CacheKey
<1>4. SourceOf(CacheKey(c, t)) = IF t.source \in {"yahoo", "fred"} THEN t.source
                                ELSE IF FallsBack(c, t) THEN "yahoo" ELSE "sec"
  BY <1>3, Zenon DEF SourceOf
<1>5. CASE t.source \in {"yahoo", "fred"}
  <2>1. t.source = "fred" => t.action = "macro"
    BY <1>5, TaskIs DEF Task
  <2>2. Adapter(c, t) = t.source
    <3>1. CASE t.source \in adapters[c]
      BY <3>1, AdapterIs DEF Registered
    <3>2. CASE t.source \notin adapters[c]
      <4>1. t.source = "fred" /\ t.action = "macro" /\ "fred" \notin adapters[c]
        BY <1>1, <1>5, <2>1, <3>2
      <4>2. t.action \notin SecActions
        BY <4>1 DEF SecActions
      <4>3. Adapter(c, t) = IF "fred" \in adapters[c] THEN "fred" ELSE "none"
        BY <3>2, <4>1, AdapterIs DEF Registered
      <4> QED BY <4>1, <4>3
    <3> QED BY <3>1, <3>2
  <2> QED BY <1>2, <1>4, <1>5, <2>2 DEF Sought
<1>6. CASE t.source \in {"sec", "unnamed"}
  <2>1. t.action \in SecActions
    BY <1>6, TaskIs DEF Task, SecActions
  <2>2. t.source = "unnamed" => t.source \notin adapters[c]
    BY <1>1
  <2>3. CASE "sec" \in adapters[c]
    <3>1. Adapter(c, t) = "sec" /\ ~FallsBack(c, t)
      <4>1. ~FallsBack(c, t)
        BY <2>3, Zenon DEF FallsBack
      <4>2. CASE Registered(c, t)
        BY <1>6, <2>2, <4>1, <4>2, AdapterIs DEF Registered
      <4>3. CASE ~Registered(c, t)
        BY <2>1, <2>3, <4>1, <4>3, AdapterIs
      <4> QED BY <4>1, <4>2, <4>3
    <3> QED BY <1>2, <1>4, <1>6, <3>1
  <2>4. CASE "sec" \notin adapters[c]
    <3>1. Adapter(c, t) = "yahoo" /\ FallsBack(c, t)
      <4>1. ~Registered(c, t)
        BY <1>6, <2>2, <2>4 DEF Registered
      <4> QED BY <2>1, <2>4, <4>1, AdapterIs DEF FallsBack
    <3> QED BY <1>2, <1>4, <1>6, <3>1
  <2> QED BY <2>3, <2>4
<1>7. t.source \in {"yahoo", "fred", "unnamed", "sec"}
  BY TaskIs DEF Task
<1> QED BY <1>5, <1>6, <1>7

LEMMA PlainFacts ==
  ASSUME NEW from \in {"nothing", "yahoo", "sec", "fred"}
  PROVE  Plain(from) \in ItemSet /\ Plain(from).from = from /\ Told(Plain(from))
BY DEF Plain, Item, ItemSet, Told

\* The markdown of a filing is that of its label, unless edgartools did not list it.
LEMMA MarkdownFacts ==
  ASSUME NEW c \in Clients, NEW t \in Tasks, NEW i \in Markdown(c, t)
  PROVE  i \in ItemSet /\ i.from = "sec" /\ Told(i)
<1>1. t.year \in Years \cup {NoYear}
  BY TaskIs
<1>2. PICK target \in Found(c, t.year) \ {IF t.year # NoYear THEN NoYear ELSE -1} :
        \E l \in Listings, opened \in BOOLEAN :
          i = MarkdownOf(target, t.year, l, opened) /\ i.filing # NoYear
  BY DEF Markdown
<1>3. PICK l \in Listings, opened \in BOOLEAN :
        i = MarkdownOf(target, t.year, l, opened) /\ i.filing # NoYear
  BY <1>2
<1> DEFINE filing == IF t.year # NoYear /\ target \in l THEN target ELSE Newest(l)
           label == IF target # NoYear THEN target ELSE filing
           content == IF opened THEN filing ELSE target
           listed == target \in l \/ l = {}
<1>4. /\ i = [from |-> "sec", filing |-> content, label |-> label, dated |-> filing,
              listed |-> listed, parsed |-> TRUE]
  BY <1>3 DEF MarkdownOf, Item
<1>5. l \in SUBSET Years
  BY DEF Listings
<1>6. target \in Years \cup {NoYear} /\ (t.year = NoYear => target \in {NoYear, LastYear})
  BY <1>1, LastYearIsLast DEF Found
<1>7. /\ l = {} => Newest(l) = NoYear
      /\ l # {} => Newest(l) \in l
  BY <1>5, BoundedHasLast DEF Newest
<1>8. filing \in Years \cup {NoYear}
  BY <1>5, <1>6, <1>7
<1>9. target \in l => filing = target
  <2> SUFFICES ASSUME target \in l, t.year = NoYear PROVE Newest(l) = target OBVIOUS
  <2>1. target = LastYear
    BY <1>5, <1>6, YearsAreNot
  <2>2. \A z \in l : z <= target
    BY <1>5, <2>1, LastYearIsLast
  <2> QED BY <1>5, <2>2, BoundedHasLast
<1>10. l = {} => filing = NoYear
  BY <1>7
<1>11. listed \in BOOLEAN /\ content \in Years \cup {NoYear} /\ label \in Years \cup {NoYear}
  BY <1>6, <1>8
<1>12. content # NoYear
  BY <1>3, <1>4
<1>13. listed => content = label /\ filing \in {label, NoYear}
  BY <1>5, <1>9, <1>10, <1>12, YearsAreNot
<1> HIDE DEF filing, label, content, listed
<1>14. /\ i.from = "sec" /\ i.filing = content /\ i.label = label /\ i.dated = filing
       /\ i.listed = listed
  BY <1>4
<1> QED BY <1>4, <1>8, <1>11, <1>13, <1>14 DEF ItemSet, Told

LEMMA FinancialsFacts ==
  ASSUME NEW c \in Clients, NEW t \in Tasks, NEW i \in Financials(c, t)
  PROVE  i \in ItemSet /\ i.from = "sec" /\ Told(i)
<1>1. t.year \in Years \cup {NoYear} /\ LastYear \in Years
  BY TaskIs, LastYearIsLast
<1>2. \E y \in Years, parsed \in BOOLEAN : i = Statement(y, parsed)
  BY <1>1 DEF Financials, Found
<1> QED BY <1>2 DEF Statement, Item, ItemSet, Told

\* Whatever an adapter answers is its own, and says what it is.
LEMMA AnswersAreTold ==
  ASSUME NEW c \in Clients, NEW t \in Tasks, NEW i \in AnswersOf(c, t)
  PROVE  i \in ItemSet /\ i.from = Adapter(c, t) /\ Told(i)
<1>1. CASE Adapter(c, t) = "sec"
  BY <1>1, MarkdownFacts, FinancialsFacts DEF AnswersOf
<1>2. CASE Adapter(c, t) = "yahoo"
  BY <1>2, PlainFacts DEF AnswersOf
<1>3. CASE Adapter(c, t) = "fred"
  BY <1>3, PlainFacts DEF AnswersOf
<1> QED BY <1>1, <1>2, <1>3 DEF AnswersOf

\* The first task and those after it.
LEMMA HeadAndTail ==
  ASSUME NEW s \in Seq(Tasks), s # <<>>
  PROVE  /\ Head(s) \in Tasks /\ Tail(s) \in Seq(Tasks)
         /\ (\A k \in DOMAIN s : Sought(s[k])) =>
              Sought(Head(s)) /\ \A k \in DOMAIN Tail(s) : Sought(Tail(s)[k])
<1>1. /\ Len(s) \in Nat /\ Len(s) > 0 /\ DOMAIN s = 1..Len(s) /\ Head(s) = s[1]
      /\ Tail(s) \in Seq(Tasks) /\ DOMAIN Tail(s) = 1..(Len(s) - 1)
      /\ \A k \in 1..(Len(s) - 1) : Tail(s)[k] = s[k + 1]
  OBVIOUS
<1>2. Head(s) \in Tasks
  BY <1>1, ElementOfSeq
<1>3. 1 \in DOMAIN s /\ \A k \in DOMAIN Tail(s) : k + 1 \in DOMAIN s /\ Tail(s)[k] = s[k + 1]
  BY <1>1
<1> QED BY <1>1, <1>2, <1>3

\* What is known of a process is about its own request.
LEMMA OtherClients ==
  ASSUME NEW d \in Clients, ClientOk(d), client'[d] = client[d], adapters' = adapters
  PROVE  ClientOk(d)'
BY DEF ClientOk, Now, Adapter, FallsBack, Registered

LEMMA IdleFacts ==
  /\ IdleClient \in ClientSet /\ Told(IdleClient.item)
  /\ IdleClient.pc = "idle" /\ IdleClient.items = {} /\ IdleClient.about = "none"
<1>1. NoItem \in ItemSet /\ Told(NoItem)
  BY PlainFacts DEF NoItem
<1> HIDE DEF NoItem
<1>2. <<>> \in Seq(Tasks)
  OBVIOUS
<1> QED BY <1>1, <1>2 DEF IdleClient, ClientSet

LEMMA IdleIsOk ==
  ASSUME NEW d \in Clients, client'[d] = IdleClient
  PROVE  ClientOk(d)'
BY IdleFacts DEF ClientOk

LEMMA Init_RetrievalInv == RetrievalInit => RetrievalInv
<1> SUFFICES ASSUME RetrievalInit PROVE RetrievalInv OBVIOUS
<1>1. NoItem \in ItemSet /\ Told(NoItem)
  BY PlainFacts DEF NoItem
<1> HIDE DEF NoItem
<1>2. ProcessesOk
  BY RetrievalAssumption DEF RetrievalInit, ProcessesOk
<1>3. CacheOk /\ DocsOk
  <2>1. \A k \in Keys : cache[k] = NoItem
    BY DEF RetrievalInit
  <2>2. \A d \in Years \cup {NoYear} : docs[d] = NoItem
    BY DEF RetrievalInit
  <2>3. cache \in [Keys -> ItemSet] /\ docs \in [Years \cup {NoYear} -> ItemSet]
    BY <1>1 DEF RetrievalInit
  <2> QED BY <1>1, <2>1, <2>2, <2>3 DEF CacheOk, DocsOk
<1>4. ASSUME NEW c \in Clients PROVE ClientOk(c)
  <2>1. client[c] = IdleClient
    BY DEF RetrievalInit
  <2> QED BY <2>1, IdleFacts DEF ClientOk
<1>5. client \in [Clients -> ClientSet]
  BY IdleFacts DEF RetrievalInit
<1> QED BY <1>2, <1>3, <1>4, <1>5 DEF RetrievalInv

\* The step of one process that leaves cache and documents.
LEMMA OneClient ==
  ASSUME RetrievalInv, NEW c \in Clients, NEW r,
         client' = [client EXCEPT ![c] = r], cache' = cache, docs' = docs,
         adapters' = adapters, ProcessesOk',
         ClientOk(c)'
  PROVE  RetrievalInv'
<1>1. \A d \in Clients : d # c => ClientOk(d)'
  <2> SUFFICES ASSUME NEW d \in Clients, d # c PROVE ClientOk(d)' OBVIOUS
  <2>1. client'[d] = client[d]
    BY DEF RetrievalInv, ClientOk
  <2> QED BY <2>1, OtherClients DEF RetrievalInv
<1>2. client' \in [Clients -> ClientSet]
  <2>1. client'[c] = r
    BY DEF RetrievalInv
  <2>2. r \in ClientSet
    BY <2>1 DEF ClientOk
  <2> QED BY <2>2 DEF RetrievalInv
<1> QED BY <1>1, <1>2 DEF RetrievalInv, CacheOk, DocsOk

\* A process that has a request, and what its tasks are.
LEMMA AtWork ==
  ASSUME RetrievalInv, NEW c \in Clients, client[c].tasks # <<>>
  PROVE  /\ Now(c) \in Tasks /\ Tail(client[c].tasks) \in Seq(Tasks)
         /\ client[c].about = "filings" =>
              Sought(Now(c)) /\ \A k \in DOMAIN Tail(client[c].tasks) : Sought(Tail(client[c].tasks)[k])
<1>1. client[c].tasks \in Seq(Tasks)
  BY DEF RetrievalInv, ClientOk, ClientSet
<1>2. client[c].about = "filings" => \A k \in DOMAIN client[c].tasks : Sought(client[c].tasks[k])
  BY DEF RetrievalInv, ClientOk
<1>3. /\ Head(client[c].tasks) \in Tasks /\ Tail(client[c].tasks) \in Seq(Tasks)
      /\ (\A k \in DOMAIN client[c].tasks : Sought(client[c].tasks[k])) =>
              Sought(Head(client[c].tasks))
           /\ \A k \in DOMAIN Tail(client[c].tasks) : Sought(Tail(client[c].tasks)[k])
  BY <1>1, HeadAndTail
<1> QED BY <1>2, <1>3, Zenon DEF Now

\* The processes stay what they are when only clients, cache or documents change.
LEMMA ProcessesStay ==
  ASSUME ProcessesOk, adapters' = adapters, tickers' = tickers, asks' = asks
  PROVE  ProcessesOk'
BY DEF ProcessesOk

LEMMA Begin_RetrievalInv ==
  ASSUME RetrievalInv, NEW c \in Clients, NEW tasks \in Seq(Tasks),
         NEW about \in {"any", "filings"}, NEW keep \in BOOLEAN,
         about = "filings" => \A k \in DOMAIN tasks : Sought(tasks[k]),
         Begin(c, tasks, about, keep)
  PROVE  RetrievalInv'
<1> DEFINE r == [IdleClient EXCEPT !.pc = "route", !.tasks = tasks, !.about = about, !.keep = keep]
<1>1. /\ client' = [client EXCEPT ![c] = r] /\ cache' = cache /\ docs' = docs
      /\ adapters' = adapters /\ tickers' = tickers /\ asks' = asks + 1
  BY DEF Begin
<1>3. /\ r.pc = "route" /\ r.tasks = tasks /\ r.items = {} /\ r.about = about
      /\ r.item = IdleClient.item
  BY IdleFacts DEF ClientSet
<1>4. r \in ClientSet
  BY IdleFacts DEF ClientSet
<1> HIDE DEF r
<1>6. client'[c] = r
  BY <1>1 DEF RetrievalInv
<1>7. ClientOk(c)'
  BY <1>3, <1>4, <1>6, IdleFacts DEF ClientOk
<1>8. ProcessesOk'
  BY <1>1 DEF RetrievalInv, ProcessesOk
<1> QED BY <1>1, <1>7, <1>8, OneClient

LEMMA Asks_RetrievalInv ==
  ASSUME RetrievalInv, NEW c \in Clients, Asks(c)
  PROVE  RetrievalInv'
<1>1. ASSUME NEW t \in Tasks PROVE <<t>> \in Seq(Tasks) /\ DOMAIN <<t>> = {1} /\ <<t>>[1] = t
  OBVIOUS
<1>2. ASSUME NEW a \in {"quote", "macro", "financials", "filing_markdown"},
             NEW y \in Years \cup {NoYear}, a \in {"quote", "macro"} => y = NoYear,
             AskDirect(c, a, y)
      PROVE  RetrievalInv'
  <2>1. Direct(c, a, y) \in Seq(Tasks)
    <3>1. CASE a = "quote"
      <4>1. Direct(c, a, y) = <<Task("yahoo", "quote", NoYear)>>
        BY <3>1 DEF Direct
      <4> QED BY <4>1, <1>1 DEF Tasks
    <3>2. CASE a = "macro"
      <4>1. Direct(c, a, y) = <<Task("fred", "macro", NoYear)>>
        BY <3>2 DEF Direct
      <4> QED BY <4>1, <1>1 DEF Tasks
    <3>3. CASE a = "financials"
      <4>1. Direct(c, a, y) \in {<<Task("sec", "financials", y)>>, <<Task("yahoo", "financials", NoYear)>>}
        BY <3>3 DEF Direct
      <4>2. /\ Task("sec", "financials", y) \in Tasks
            /\ Task("yahoo", "financials", NoYear) \in Tasks
        BY DEF Tasks
      <4> QED BY <1>1, <4>1, <4>2
    <3>4. CASE a = "filing_markdown"
      <4>1. Direct(c, a, y) = <<Task("sec", "filing_markdown", y)>>
        BY <3>4 DEF Direct
      <4> QED BY <4>1, <1>1 DEF Tasks
    <3> QED BY <3>1, <3>2, <3>3, <3>4
  <2>2. Begin(c, Direct(c, a, y), "any", a = "filing_markdown")
    BY <1>2 DEF AskDirect
  <2>3. (a = "filing_markdown") \in BOOLEAN
    OBVIOUS
  <2> QED BY <2>1, <2>2, <2>3, Begin_RetrievalInv, Zenon
<1>3. ASSUME NEW a \in {"multi", "llm", "financials", "filing_markdown"},
             NEW y \in Years \cup {NoYear}, a \in {"multi", "llm"} => y = NoYear, AskQuery(c, a, y)
      PROVE  RetrievalInv'
  <2>1. CASE a = "multi"
    <3>1. Query(a, y) = <<Task("yahoo", "quote", NoYear), Task("fred", "macro", NoYear)>>
      BY <2>1 DEF Query, SecActions
    <3>2. Query(a, y) \in Seq(Tasks)
      BY <3>1 DEF Tasks
    <3>3. Begin(c, Query(a, y), "any", FALSE)
      BY <1>3, <2>1 DEF AskQuery
    <3> QED BY <3>2, <3>3, Begin_RetrievalInv, Zenon
  <2>2. CASE a # "multi"
    <3>1. \E t \in Tasks : Query(a, y) = <<t>> /\ Sought(t)
      <4>1. CASE a = "llm"
        <5>1. Query(a, y) = <<Task("unnamed", "financials", NoYear)>>
          BY <1>3, <4>1 DEF Query, SecActions
        <5> QED BY <5>1 DEF Tasks, Sought, Task, SecActions
      <4>2. CASE a \in {"financials", "filing_markdown"}
        <5>1. Query(a, y) = <<Task("sec", a, y)>>
          BY <4>2 DEF Query, SecActions
        <5>2. Task("sec", a, y) \in Tasks /\ Sought(Task("sec", a, y))
          BY <4>2 DEF Tasks, Sought, Task, SecActions
        <5> QED BY <5>1, <5>2
      <4> QED BY <2>2, <4>1, <4>2
    <3>2. PICK t \in Tasks : Query(a, y) = <<t>> /\ Sought(t)
      BY <3>1
    <3>3. Query(a, y) \in Seq(Tasks) /\ \A k \in DOMAIN Query(a, y) : Sought(Query(a, y)[k])
      BY <1>1, <3>2
    <3>4. Begin(c, Query(a, y), "filings", FALSE)
      BY <1>3, <2>2 DEF AskQuery
    <3> QED BY <3>3, <3>4, Begin_RetrievalInv, Zenon
  <2> QED BY <2>1, <2>2
<1> QED BY <1>2, <1>3 DEF Asks

\* A task is done, without an answer.
LEMMA Dropped ==
  ASSUME RetrievalInv, NEW c \in Clients, client[c].tasks # <<>>, NEW pc \in {"route"},
         client' = [client EXCEPT ![c] = [client[c] EXCEPT !.pc = pc, !.tasks = Tail(@)]],
         adapters' = adapters, tickers' = tickers, cache' = cache, docs' = docs, asks' = asks
  PROVE  RetrievalInv'
<1> DEFINE r == [client[c] EXCEPT !.pc = pc, !.tasks = Tail(@)]
<1>1. client[c] \in ClientSet /\ client'[c] = r /\ client' = [client EXCEPT ![c] = r]
  BY DEF RetrievalInv
<1>2. Tail(client[c].tasks) \in Seq(Tasks)
  BY AtWork
<1>3. /\ r \in ClientSet
      /\ r.pc = "route" /\ r.tasks = Tail(client[c].tasks) /\ r.item = client[c].item
      /\ r.items = client[c].items /\ r.about = client[c].about /\ r.warned = client[c].warned
  BY <1>1, <1>2 DEF ClientSet
<1> HIDE DEF r
<1>4. ClientOk(c)'
  BY <1>1, <1>3, AtWork DEF RetrievalInv, ClientOk
<1>5. ProcessesOk'
  BY ProcessesStay DEF RetrievalInv
<1> QED BY <1>1, <1>4, <1>5, OneClient

LEMMA Unrouted_RetrievalInv ==
  ASSUME RetrievalInv, NEW c \in Clients, Unrouted(c)
  PROVE  RetrievalInv'
<1>1. client[c].pc = "route" /\ client[c] \in ClientSet
  BY DEF Unrouted, At, RetrievalInv
<1>2. [client[c] EXCEPT !.tasks = Tail(@)] = [client[c] EXCEPT !.pc = "route", !.tasks = Tail(@)]
  BY <1>1 DEF ClientSet
<1>3. client' = [client EXCEPT ![c] = [client[c] EXCEPT !.pc = "route", !.tasks = Tail(@)]]
  BY <1>2 DEF Unrouted
<1> QED BY <1>3, Dropped DEF Unrouted

LEMMA FetchFails_RetrievalInv ==
  ASSUME RetrievalInv, NEW c \in Clients, FetchFails(c)
  PROVE  RetrievalInv'
<1>1. client[c].tasks # <<>>
  BY DEF FetchFails, At, RetrievalInv, ClientOk
<1> QED BY <1>1, Dropped DEF FetchFails

LEMMA Route_RetrievalInv ==
  ASSUME RetrievalInv, NEW c \in Clients, Route(c)
  PROVE  RetrievalInv'
<1> DEFINE warns == client[c].warned \/ FallsBack(c, Now(c))
           r == [client[c] EXCEPT !.pc = "lookup", !.tries = 0, !.warned = warns]
<1>1. client[c] \in ClientSet /\ client[c].tasks # <<>> /\ Adapter(c, Now(c)) # "none"
  BY DEF Route, RetrievalInv
<1>2. client' = [client EXCEPT ![c] = r]
  BY DEF Route
<1>3. warns \in BOOLEAN /\ (client[c].warned => warns) /\ (FallsBack(c, Now(c)) => warns)
  <2>1. client[c].warned \in BOOLEAN
    BY <1>1 DEF ClientSet
  <2> QED BY <2>1, Zenon
<1> HIDE DEF warns
<1>4. /\ r \in ClientSet
      /\ r.pc = "lookup" /\ r.tasks = client[c].tasks /\ r.item = client[c].item
      /\ r.items = client[c].items /\ r.about = client[c].about /\ r.warned = warns
  BY <1>1, <1>3 DEF ClientSet
<1> HIDE DEF r
<1>5. client'[c] = r
  BY <1>2 DEF RetrievalInv
<1>6. adapters' = adapters /\ tickers' = tickers /\ cache' = cache /\ docs' = docs /\ asks' = asks
  BY DEF Route
<1>7. Now(c)' = Now(c)
  BY <1>4, <1>5 DEF Now
<1>8. Adapter(c, Now(c))' = Adapter(c, Now(c)) /\ (FallsBack(c, Now(c))' <=> FallsBack(c, Now(c)))
  BY <1>6, <1>7 DEF Adapter, FallsBack, Registered
<1>9. ClientOk(c)
  BY DEF RetrievalInv
<1>10. ClientOk(c)'
  BY <1>1, <1>3, <1>4, <1>5, <1>8, <1>9 DEF ClientOk
<1> QED BY <1>2, <1>6, <1>10, OneClient, ProcessesStay DEF RetrievalInv

\* An answer is taken that is of the adapter of its task.
LEMMA Take_ClientOk ==
  ASSUME RetrievalInv, NEW c \in Clients, client[c].pc \in {"lookup", "store"},
         NEW item \in ItemSet, Told(item), item.from = Adapter(c, Now(c)), Take(c, item),
         adapters' = adapters
  PROVE  ClientOk(c)' /\ client' \in [Clients -> ClientSet]
         /\ \A d \in Clients : d # c => client'[d] = client[d]
<1> DEFINE r == [client[c] EXCEPT !.pc = "route", !.tasks = Tail(@), !.items = @ \cup {item}]
<1>1. client[c] \in ClientSet /\ ClientOk(c)
  BY DEF RetrievalInv
<1>2. client[c].tasks # <<>> /\ (FallsBack(c, Now(c)) => client[c].warned)
      /\ Adapter(c, Now(c)) # "none"
  BY <1>1 DEF ClientOk
<1>3. Tail(client[c].tasks) \in Seq(Tasks) /\ Now(c) \in Tasks
  BY <1>2, AtWork
<1>4. client' = [client EXCEPT ![c] = r]
  BY DEF Take
<1>5. /\ r \in ClientSet
      /\ r.pc = "route" /\ r.tasks = Tail(client[c].tasks) /\ r.item = client[c].item
      /\ r.items = client[c].items \cup {item} /\ r.about = client[c].about
      /\ r.warned = client[c].warned
  BY <1>1, <1>3 DEF ClientSet
<1> HIDE DEF r
<1>6. client'[c] = r /\ client' \in [Clients -> ClientSet]
      /\ \A d \in Clients : d # c => client'[d] = client[d]
  BY <1>4, <1>5 DEF RetrievalInv
<1>7. client[c].about = "filings" /\ item.from = "yahoo" => client[c].warned
  BY <1>2, <1>3, AtWork, KeyIsOfItsAdapter DEF RetrievalInv
<1>8. client[c].about = "filings" =>
        \A k \in DOMAIN Tail(client[c].tasks) : Sought(Tail(client[c].tasks)[k])
  BY <1>2, AtWork
<1> QED BY <1>1, <1>5, <1>6, <1>7, <1>8 DEF ClientOk

LEMMA CacheHit_RetrievalInv ==
  ASSUME RetrievalInv, NEW c \in Clients, CacheHit(c)
  PROVE  RetrievalInv'
<1> DEFINE key == CacheKey(c, Now(c))
<1>1. /\ client[c].pc = "lookup" /\ cache[key] # NoItem /\ Take(c, cache[key])
      /\ adapters' = adapters /\ tickers' = tickers /\ cache' = cache /\ docs' = docs /\ asks' = asks
  BY DEF CacheHit, At
<1>2. client[c].tasks # <<>> /\ Adapter(c, Now(c)) # "none"
  BY <1>1 DEF RetrievalInv, ClientOk
<1>3. Now(c) \in Tasks
  BY <1>2, AtWork
<1>4. key \in Keys /\ Adapter(c, Now(c)) = SourceOf(key)
  BY <1>2, <1>3, KeyIsOfItsAdapter DEF RetrievalInv
<1>5. cache[key] \in ItemSet /\ Told(cache[key]) /\ cache[key].from = Adapter(c, Now(c))
  BY <1>1, <1>4 DEF RetrievalInv, CacheOk
<1> HIDE DEF key
<1>6. ClientOk(c)' /\ client' \in [Clients -> ClientSet]
      /\ \A d \in Clients : d # c => client'[d] = client[d]
  BY <1>1, <1>5, Take_ClientOk
<1>7. \A d \in Clients : ClientOk(d)'
  BY <1>1, <1>6, OtherClients DEF RetrievalInv
<1> QED BY <1>1, <1>6, <1>7, ProcessesStay DEF RetrievalInv, CacheOk, DocsOk

LEMMA CacheMiss_RetrievalInv ==
  ASSUME RetrievalInv, NEW c \in Clients, CacheMiss(c)
  PROVE  RetrievalInv'
<1> DEFINE r == [client[c] EXCEPT !.pc = "fetch"]
<1>1. client[c] \in ClientSet /\ ClientOk(c) /\ client[c].pc = "lookup"
  BY DEF CacheMiss, At, RetrievalInv
<1>2. client' = [client EXCEPT ![c] = r]
  BY DEF CacheMiss
<1>3. /\ r \in ClientSet
      /\ r.pc = "fetch" /\ r.tasks = client[c].tasks /\ r.item = client[c].item
      /\ r.items = client[c].items /\ r.about = client[c].about /\ r.warned = client[c].warned
  BY <1>1 DEF ClientSet
<1> HIDE DEF r
<1>4. client'[c] = r
  BY <1>2 DEF RetrievalInv
<1>5. adapters' = adapters /\ cache' = cache /\ docs' = docs /\ asks' = asks
  BY DEF CacheMiss
<1>6. ProcessesOk'
  BY <1>5 DEF CacheMiss, RetrievalInv, ProcessesOk
<1>7. Now(c)' = Now(c)
  BY <1>3, <1>4 DEF Now
<1>8. Adapter(c, Now(c))' = Adapter(c, Now(c)) /\ (FallsBack(c, Now(c))' <=> FallsBack(c, Now(c)))
  BY <1>5, <1>7 DEF Adapter, FallsBack, Registered
<1>9. ClientOk(c)'
  BY <1>1, <1>3, <1>4, <1>8 DEF ClientOk
<1> QED BY <1>2, <1>5, <1>6, <1>9, OneClient

LEMMA Retry_RetrievalInv ==
  ASSUME RetrievalInv, NEW c \in Clients, Retry(c)
  PROVE  RetrievalInv'
<1> DEFINE n == client[c].tries + 1
           r == [client[c] EXCEPT !.tries = n]
<1>1. client[c] \in ClientSet /\ ClientOk(c)
  BY DEF RetrievalInv
<1>2. client' = [client EXCEPT ![c] = r]
  BY DEF Retry
<1>3. n \in Nat
  BY <1>1 DEF ClientSet
<1> HIDE DEF n
<1>4. /\ r \in ClientSet
      /\ r.pc = client[c].pc /\ r.tasks = client[c].tasks /\ r.item = client[c].item
      /\ r.items = client[c].items /\ r.about = client[c].about /\ r.warned = client[c].warned
  BY <1>1, <1>3 DEF ClientSet
<1> HIDE DEF r
<1>5. client'[c] = r
  BY <1>2 DEF RetrievalInv
<1>6. adapters' = adapters /\ tickers' = tickers /\ cache' = cache /\ docs' = docs /\ asks' = asks
  BY DEF Retry
<1>7. Now(c)' = Now(c)
  BY <1>4, <1>5 DEF Now
<1>8. Adapter(c, Now(c))' = Adapter(c, Now(c)) /\ (FallsBack(c, Now(c))' <=> FallsBack(c, Now(c)))
  BY <1>6, <1>7 DEF Adapter, FallsBack, Registered
<1>9. ClientOk(c)'
  BY <1>1, <1>4, <1>5, <1>8 DEF ClientOk
<1> QED BY <1>2, <1>6, <1>9, OneClient, ProcessesStay DEF RetrievalInv

LEMMA Fetched_RetrievalInv ==
  ASSUME RetrievalInv, NEW c \in Clients, NEW item, Fetched(c, item)
  PROVE  RetrievalInv'
<1> DEFINE warns == client[c].warned \/ ~item.parsed
           r == [client[c] EXCEPT !.pc = "store", !.item = item, !.warned = warns]
<1>1. client[c] \in ClientSet /\ ClientOk(c) /\ client[c].pc = "fetch"
      /\ item \in AnswersOf(c, Now(c))
  BY DEF Fetched, At, RetrievalInv
<1>2. client' = [client EXCEPT ![c] = r]
  BY DEF Fetched
<1>3. client[c].tasks # <<>> /\ Now(c) \in Tasks
  BY <1>1, AtWork DEF ClientOk
<1>4. item \in ItemSet /\ item.from = Adapter(c, Now(c)) /\ Told(item)
  BY <1>1, <1>3, AnswersAreTold
<1>5. warns \in BOOLEAN /\ (client[c].warned => warns)
  <2>1. client[c].warned \in BOOLEAN
    BY <1>1 DEF ClientSet
  <2> QED BY <2>1, Zenon
<1> HIDE DEF warns
<1>6. /\ r \in ClientSet
      /\ r.pc = "store" /\ r.tasks = client[c].tasks /\ r.item = item
      /\ r.items = client[c].items /\ r.about = client[c].about /\ r.warned = warns
  BY <1>1, <1>4, <1>5 DEF ClientSet
<1> HIDE DEF r
<1>7. client'[c] = r
  BY <1>2 DEF RetrievalInv
<1>8. adapters' = adapters /\ tickers' = tickers /\ cache' = cache /\ docs' = docs /\ asks' = asks
  BY DEF Fetched
<1>9. Now(c)' = Now(c)
  BY <1>6, <1>7 DEF Now
<1>10. Adapter(c, Now(c))' = Adapter(c, Now(c)) /\ (FallsBack(c, Now(c))' <=> FallsBack(c, Now(c)))
  BY <1>8, <1>9 DEF Adapter, FallsBack, Registered
<1>11. ClientOk(c)'
  BY <1>1, <1>4, <1>5, <1>6, <1>7, <1>10 DEF ClientOk
<1> QED BY <1>2, <1>8, <1>11, OneClient, ProcessesStay DEF RetrievalInv

LEMMA Store_RetrievalInv ==
  ASSUME RetrievalInv, NEW c \in Clients, Store(c)
  PROVE  RetrievalInv'
<1> DEFINE key == CacheKey(c, Now(c))
<1>1. /\ client[c].pc = "store" /\ cache' = [cache EXCEPT ![key] = client[c].item]
      /\ Take(c, client[c].item)
      /\ adapters' = adapters /\ tickers' = tickers /\ docs' = docs /\ asks' = asks
  BY DEF Store, At
<1>2. /\ client[c] \in ClientSet /\ client[c].tasks # <<>> /\ Adapter(c, Now(c)) # "none"
      /\ client[c].item.from = Adapter(c, Now(c)) /\ Told(client[c].item)
  BY <1>1 DEF RetrievalInv, ClientOk
<1>3. client[c].item \in ItemSet /\ Now(c) \in Tasks
  BY <1>2, AtWork DEF ClientSet
<1>4. key \in Keys /\ Adapter(c, Now(c)) = SourceOf(key)
  BY <1>2, <1>3, KeyIsOfItsAdapter DEF RetrievalInv
<1> HIDE DEF key
<1>5. CacheOk'
  BY <1>1, <1>2, <1>3, <1>4 DEF RetrievalInv, CacheOk
<1>6. ClientOk(c)' /\ client' \in [Clients -> ClientSet]
      /\ \A d \in Clients : d # c => client'[d] = client[d]
  BY <1>1, <1>2, <1>3, Take_ClientOk
<1>7. \A d \in Clients : ClientOk(d)'
  BY <1>1, <1>6, OtherClients DEF RetrievalInv
<1> QED BY <1>1, <1>5, <1>6, <1>7, ProcessesStay DEF RetrievalInv, DocsOk

LEMMA Respond_RetrievalInv ==
  ASSUME RetrievalInv, NEW c \in Clients, Respond(c)
  PROVE  RetrievalInv'
<1> DEFINE items == client[c].items
<1>1. /\ client' = [client EXCEPT ![c] = IdleClient]
      /\ adapters' = adapters /\ tickers' = tickers /\ cache' = cache /\ asks' = asks
      /\ docs' = docs \/ Persist(items)
  BY DEF Respond
<1>2. items \in SUBSET ItemSet /\ \A i \in items : Told(i)
  BY DEF RetrievalInv, ClientOk, ClientSet
<1> HIDE DEF items
<1>3. DocsOk'
  <2>1. CASE docs' = docs
    BY <2>1 DEF RetrievalInv, DocsOk
  <2>2. CASE Persist(items)
    <3>1. DOMAIN docs = Years \cup {NoYear}
      BY DEF RetrievalInv, DocsOk
    <3>2. ASSUME NEW d \in Years \cup {NoYear}
          PROVE  docs'[d] = docs[d] \/ (docs'[d] \in items /\ docs'[d].dated = d)
      <4>1. docs'[d] = IF Under(items, d) # {} THEN CHOOSE i \in Under(items, d) : TRUE ELSE docs[d]
        BY <2>2, <3>1, <3>2 DEF Persist
      <4>2. Under(items, d) # {} => (CHOOSE i \in Under(items, d) : TRUE) \in Under(items, d)
        OBVIOUS
      <4> QED BY <4>1, <4>2 DEF Under
    <3>3. docs' = [d \in Years \cup {NoYear} |-> docs'[d]]
      BY <2>2, <3>1 DEF Persist
    <3>4. \A d \in Years \cup {NoYear} : docs'[d] \in ItemSet /\ Told(docs'[d])
      BY <1>2, <3>2 DEF RetrievalInv, DocsOk
    <3>5. ASSUME NEW d \in Years, docs'[d].listed, docs'[d] # NoItem
          PROVE  docs'[d].filing = d
      <4>1. CASE docs'[d] = docs[d]
        BY <3>5, <4>1 DEF RetrievalInv, DocsOk
      <4>2. CASE docs'[d] \in items /\ docs'[d].dated = d
        <5>1. Told(docs'[d])
          BY <1>2, <4>2
        <5> QED BY <3>5, <4>2, <5>1, YearsAreNot DEF Told
      <4> QED BY <3>2, <4>1, <4>2
    <3>6. docs' \in [Years \cup {NoYear} -> ItemSet]
      BY <3>3, <3>4
    <3> QED BY <3>4, <3>5, <3>6 DEF DocsOk
  <2> QED BY <1>1, <2>1, <2>2
<1>4. client'[c] = IdleClient /\ \A d \in Clients : d # c => client'[d] = client[d]
  BY <1>1 DEF RetrievalInv
<1>5. client' \in [Clients -> ClientSet]
  BY <1>1, IdleFacts DEF RetrievalInv
<1>6. \A d \in Clients : ClientOk(d)'
  BY <1>1, <1>4, IdleIsOk, OtherClients DEF RetrievalInv
<1> QED BY <1>1, <1>3, <1>5, <1>6, ProcessesStay DEF RetrievalInv, CacheOk

LEMMA Restart_RetrievalInv ==
  ASSUME RetrievalInv, NEW c \in Clients, Restart(c)
  PROVE  RetrievalInv'
<1>1. ProcessesOk'
  BY DEF Restart, RetrievalInv, ProcessesOk
<1>2. client'[c] = IdleClient
  BY DEF Restart, RetrievalInv
<1> QED BY <1>1, <1>2, IdleIsOk, OneClient DEF Restart

LEMMA Expire_RetrievalInv ==
  ASSUME RetrievalInv, NEW k \in Keys, Expire(k)
  PROVE  RetrievalInv'
<1>1. /\ cache' = [cache EXCEPT ![k] = NoItem]
      /\ adapters' = adapters /\ tickers' = tickers /\ docs' = docs /\ client' = client /\ asks' = asks
  BY DEF Expire
<1>2. NoItem \in ItemSet /\ Told(NoItem)
  BY PlainFacts DEF NoItem
<1> HIDE DEF NoItem
<1>3. CacheOk'
  BY <1>1, <1>2 DEF RetrievalInv, CacheOk
<1>4. \A d \in Clients : ClientOk(d)'
  BY <1>1, OtherClients DEF RetrievalInv
<1> QED BY <1>1, <1>3, <1>4, ProcessesStay DEF RetrievalInv, DocsOk

LEMMA Next_RetrievalInv == RetrievalInv /\ [RetrievalNext]_retrievalVars => RetrievalInv'
<1> SUFFICES ASSUME RetrievalInv, [RetrievalNext]_retrievalVars PROVE RetrievalInv' OBVIOUS
<1>1. CASE UNCHANGED retrievalVars
  <2>1. /\ adapters' = adapters /\ tickers' = tickers /\ cache' = cache /\ docs' = docs
        /\ client' = client /\ asks' = asks
    BY <1>1 DEF retrievalVars
  <2>2. \A d \in Clients : ClientOk(d)'
    BY <2>1, OtherClients DEF RetrievalInv
  <2> QED BY <2>1, <2>2, ProcessesStay DEF RetrievalInv, CacheOk, DocsOk
<1>2. ASSUME NEW c \in Clients, StepOf(c) PROVE RetrievalInv'
  BY <1>2, Unrouted_RetrievalInv, Route_RetrievalInv, CacheHit_RetrievalInv, CacheMiss_RetrievalInv,
     Fetched_RetrievalInv, Retry_RetrievalInv, FetchFails_RetrievalInv, Store_RetrievalInv,
     Respond_RetrievalInv, Zenon DEF StepOf
<1>3. ASSUME NEW c \in Clients, Asks(c) \/ Restart(c) PROVE RetrievalInv'
  BY <1>3, Asks_RetrievalInv, Restart_RetrievalInv, Zenon
<1> QED BY <1>1, <1>2, <1>3, Expire_RetrievalInv, Zenon DEF RetrievalNext

LEMMA RetrievalInvariance == RetrievalSpec => []RetrievalInv
BY Init_RetrievalInv, Next_RetrievalInv, PTL DEF RetrievalSpec

\* No process is given, from the cache they share, what another adapter than its own
\* answered (RetrievalAgent._find_adapter_for_task, CacheManager.make_key).
THEOREM CacheIsOfItsSource == RetrievalSpec => []CacheKeepsSources
<1>1. RetrievalInv => CacheKeepsSources
  <2> SUFFICES ASSUME RetrievalInv, NEW c \in Clients, client[c].pc = "lookup",
                      cache[CacheKey(c, Now(c))] # NoItem
               PROVE  cache[CacheKey(c, Now(c))].from = Adapter(c, Now(c))
    BY DEF CacheKeepsSources, At
  <2>1. client[c].tasks # <<>> /\ Adapter(c, Now(c)) # "none"
    BY DEF RetrievalInv, ClientOk
  <2>2. Now(c) \in Tasks
    BY <2>1, AtWork
  <2>3. CacheKey(c, Now(c)) \in Keys /\ Adapter(c, Now(c)) = SourceOf(CacheKey(c, Now(c)))
    BY <2>1, <2>2, KeyIsOfItsAdapter DEF RetrievalInv
  <2> QED BY <2>3 DEF RetrievalInv, CacheOk
<1> QED BY <1>1, RetrievalInvariance, PTL

\* Yahoo's statements never answer a query about filings without their warning, and an
\* item is the filing it says it is, in an answer and in the document store
\* (RetrievalAgent.fetch, SECEdgarAdapter._fetch_filing_markdown).
THEOREM AnswersAreTrue == RetrievalSpec => []AnswersTellTheirSource
<1>1. RetrievalInv => AnswersTellTheirSource
  <2> SUFFICES ASSUME RetrievalInv PROVE AnswersTellTheirSource OBVIOUS
  <2>1. \A c \in Clients : client[c].about = "filings" =>
          ((\E i \in client[c].items : i.from = "yahoo") => client[c].warned)
    BY DEF RetrievalInv, ClientOk
  <2>2. \A i \in Items : Told(i)
    <3>1. \A c \in Clients : \A i \in client[c].items : Told(i)
      BY DEF RetrievalInv, ClientOk
    <3>2. DOMAIN docs = Years \cup {NoYear} /\ \A d \in DOMAIN docs : Told(docs[d])
      BY DEF RetrievalInv, DocsOk
    <3>3. \A i \in UNION {client[c].items : c \in Clients} : Told(i)
      BY <3>1, Zenon
    <3>4. \A i \in {docs[d] : d \in DOMAIN docs} : Told(i)
      BY <3>2, Zenon
    <3> QED BY <3>3, <3>4 DEF Items
  <2>3. \A d \in Years : docs[d].listed /\ docs[d] # NoItem => docs[d].filing = d
    BY DEF RetrievalInv, DocsOk
  <2> QED BY <2>1, <2>2, <2>3 DEF AnswersTellTheirSource, Told
<1> QED BY <1>1, RetrievalInvariance, PTL

-----------------------------------------------------------------------------
(* The registry: rows that become public later change no earlier answer. *)

\* What the rows of a field say when none of them can stand for it.
MissingStates == {"MISSING_OBSERVATION", "PERIOD_MISMATCH", "UNIT_MISMATCH", "NOT_PIT_ELIGIBLE"}
Nil(r, unit) == \E s \in MissingStates : r = Absent(s, unit)

\* The rows that can stand for a field in a period.
RowsFor(field, all, period) ==
  {r \in all : /\ r.field = field /\ r.period = period /\ Rank(field, r.concept) > 0
               /\ r.kind = Specs[field].kind /\ (Specs[field].kind = "duration" => r.annual)
               /\ r.unit = Specs[field].unit}
Standing(field, all, period, asOf) == Eligible(RowsFor(field, all, period), asOf)
Stands(field, eligible) ==
  LET winner == Winner(field, eligible)
      others == {Latest({s \in eligible : s.concept = r.concept}) : r \in eligible}
  IN Result(IF \E r \in others : r.value # winner.value THEN "CONFLICT"
            ELSE "SOURCE_UNVALIDATED", winner)

\* The result of a field is made of the rows that stand for it, or it has no value.
LEMMA FieldIsOfItsRows ==
  ASSUME NEW field, NEW all, NEW period, NEW asOf
  PROVE  LET eligible == Standing(field, all, period, asOf)
             result == EvaluateField(field, all, period, asOf)
         IN /\ eligible # {} => result = Stands(field, eligible)
            /\ eligible = {} => Nil(result, Specs[field].unit)
<1> DEFINE rows == {r \in all : r.field = field /\ r.period = period /\ Rank(field, r.concept) > 0}
           aligned == {r \in rows : r.kind = Specs[field].kind
                                      /\ (Specs[field].kind = "duration" => r.annual)}
           right == {r \in aligned : r.unit = Specs[field].unit}
           eligible == Eligible(right, asOf)
           result == EvaluateField(field, all, period, asOf)
<1>1. Standing(field, all, period, asOf) = eligible
  BY DEF Standing, RowsFor, Eligible
<1>2. eligible \subseteq right /\ right \subseteq aligned /\ aligned \subseteq rows
  BY DEF Eligible
<1>3. result = CASE rows = {} -> Absent("MISSING_OBSERVATION", Specs[field].unit)
       [] rows # {} /\ aligned = {} -> Absent("PERIOD_MISMATCH", Specs[field].unit)
       [] aligned # {} /\ right = {} -> Absent("UNIT_MISMATCH", Specs[field].unit)
       [] right # {} /\ eligible = {} -> Absent("NOT_PIT_ELIGIBLE", Specs[field].unit)
       [] OTHER -> Stands(field, eligible)
  BY DEF EvaluateField, Stands
<1> HIDE DEF rows, aligned, right, eligible, result
<1>4. CASE eligible # {}
  <2>1. rows # {} /\ aligned # {} /\ right # {}
    BY <1>2, <1>4
  <2>2. result = Stands(field, eligible)
    BY <1>3, <1>4, <2>1
  <2> QED BY <1>1, <1>4, <2>2 DEF result
<1>5. CASE eligible = {}
  <2>1. CASE rows = {}
    <3>1. aligned = {} /\ right = {}
      BY <1>2, <2>1
    <3>2. result = Absent("MISSING_OBSERVATION", Specs[field].unit)
      BY <1>3, <2>1, <3>1
    <3> QED BY <1>1, <1>5, <3>2 DEF result, Nil, MissingStates
  <2>2. CASE rows # {} /\ aligned = {}
    <3>1. right = {}
      BY <1>2, <2>2
    <3>2. result = Absent("PERIOD_MISMATCH", Specs[field].unit)
      BY <1>3, <2>2, <3>1
    <3> QED BY <1>1, <1>5, <3>2 DEF result, Nil, MissingStates
  <2>3. CASE aligned # {} /\ right = {}
    <3>1. rows # {}
      BY <1>2, <2>3
    <3>2. result = Absent("UNIT_MISMATCH", Specs[field].unit)
      BY <1>3, <2>3, <3>1
    <3> QED BY <1>1, <1>5, <3>2 DEF result, Nil, MissingStates
  <2>4. CASE right # {}
    <3>1. rows # {} /\ aligned # {}
      BY <1>2, <2>4
    <3>2. result = Absent("NOT_PIT_ELIGIBLE", Specs[field].unit)
      BY <1>3, <1>5, <2>4, <3>1
    <3> QED BY <1>1, <1>5, <3>2 DEF result, Nil, MissingStates
  <2> QED BY <2>1, <2>2, <2>3, <2>4
<1> QED BY <1>1, <1>4, <1>5 DEF result

LEMMA NilFacts ==
  ASSUME NEW r, NEW unit, Nil(r, unit)
  PROVE  r.value = NoValue /\ ~Usable(r)
BY DEF Nil, MissingStates, Absent, Usable, UsableStates

\* The same result, or no value in both.
Alike(a, b) == a = b \/ (a.value = NoValue /\ b.value = NoValue /\ ~Usable(a) /\ ~Usable(b))

\* Rows filed today stand for nothing as of today or of a day before.
LEMMA FieldsAlike ==
  ASSUME NEW all, NEW more, NEW today \in Nat, \A r \in more : r.filed = today,
         NEW asOf \in 1..today, NEW field, NEW period
  PROVE  Alike(EvaluateField(field, all, period, asOf), EvaluateField(field, all \cup more, period, asOf))
<1>1. \A r \in more : ~Available(r, asOf)
  BY DEF Available
<1>2. Standing(field, all \cup more, period, asOf) = Standing(field, all, period, asOf)
  BY <1>1 DEF Standing, RowsFor, Eligible
<1> QED BY <1>2, FieldIsOfItsRows, NilFacts DEF Alike

\* A total is the same when each part is, or when one has no value.
LEMMA TotalsAlike ==
  ASSUME NEW before, NEW after, NEW field \in DerivedFields,
         \A f \in ReportedFields : Alike(before[f], after[f])
  PROVE  DeriveSum(field, before) = DeriveSum(field, after)
<1> DEFINE d == Derived[field]
           one == CHOOSE p \in d.parts : TRUE
           two == CHOOSE p \in d.parts : p # one
<1>1. /\ d.parts \subseteq ReportedFields /\ \E a, b \in d.parts : a # b
      /\ d.reported # "none" => d.reported \in ReportedFields
  BY FundamentalsAssumption
<1>2. one \in d.parts /\ two \in d.parts
  <2>1. one \in d.parts
    BY <1>1
  <2>2. \E p \in d.parts : p # one
    BY <1>1
  <2> QED BY <2>1, <2>2
<1>3. \A f \in ReportedFields : before[f].value = after[f].value
  BY DEF Alike
<1>4. (\E p \in d.parts : before[p].value = NoValue) <=> (\E p \in d.parts : after[p].value = NoValue)
  BY <1>1, <1>3
<1>5. CASE \E p \in d.parts : before[p].value = NoValue
  <2>1. DeriveSum(field, before) = Absent("MISSING_OBSERVATION", "USD")
    BY <1>5 DEF DeriveSum
  <2>2. DeriveSum(field, after) = Absent("MISSING_OBSERVATION", "USD")
    BY <1>4, <1>5 DEF DeriveSum
  <2> QED BY <2>1, <2>2
<1>6. CASE ~ \E p \in d.parts : before[p].value = NoValue
  <2>1. \A p \in d.parts : before[p] = after[p]
    BY <1>1, <1>6 DEF Alike
  <2>2. SumOf(d.parts, before) = SumOf(d.parts, after)
    BY <1>2, <2>1 DEF SumOf
  <2>3. (\A p \in d.parts : before[p].state \in UsableStates)
          <=> (\A p \in d.parts : after[p].state \in UsableStates)
    BY <2>1
  <2>4. d.reported # "none" => before[d.reported].value = after[d.reported].value
    BY <1>1, <1>3
  <2> DEFINE reported(results) == IF d.reported = "none" THEN NoValue ELSE results[d.reported].value
             settled(results) == \A p \in d.parts : results[p].state \in UsableStates
             total(results) == SumOf(d.parts, results)
             made(r, s, t) == [Absent(CASE r # NoValue /\ Abs(r - t) > Slack -> "CONFLICT"
                                       [] s -> "PASS_DERIVED"
                                       [] OTHER -> "SOURCE_UNVALIDATED", "USD")
                                 EXCEPT !.value = t, !.concept = "sum"]
  <2>5. DeriveSum(field, before) = made(reported(before), settled(before), total(before))
    BY <1>6 DEF DeriveSum
  <2>6. DeriveSum(field, after) = made(reported(after), settled(after), total(after))
    BY <1>4, <1>6 DEF DeriveSum
  <2>7. reported(before) = reported(after) /\ total(before) = total(after)
        /\ settled(before) = settled(after)
    BY <2>2, <2>3, <2>4
  <2> HIDE DEF made, reported, settled, total
  <2> QED BY <2>5, <2>6, <2>7
<1> QED BY <1>5, <1>6

\* A filing is read on a day after that of its date: what is filed today changes nothing
\* that a report as of today, or of a day before, says of a usable field
\* (evaluate_field, _derive_sum).
THEOREM PastIsFinal == RegistrySpec => PastStays
<1> DEFINE Counted == day \in Nat
<1>1. RegistryInit => Counted
  BY DEF RegistryInit
<1>2. Counted /\ [RegistryNext]_registryVars => Counted'
  BY DEF RegistryNext, registryVars, File, Rewrite, NextDay, ApprovePacket, Publish, Screen
<1>3. Counted /\ [RegistryNext]_registryVars =>
        (filings' # filings =>
           \A d \in 1..day, p \in FiscalPeriods, f \in FieldIds :
             LET before == EvaluatePeriod(facts, p, d)[f]
                 after == EvaluatePeriod(facts', p, d)[f]
             IN Usable(before) \/ Usable(after) => before = after)
  <2> SUFFICES ASSUME Counted, [RegistryNext]_registryVars, filings' # filings,
                      NEW d \in 1..day, NEW p \in FiscalPeriods, NEW f \in FieldIds
               PROVE  Alike(EvaluatePeriod(facts, p, d)[f], EvaluatePeriod(facts', p, d)[f])
    BY DEF Alike
  <2>1. PICK rows \in Menu : File(rows)
    BY DEF RegistryNext, registryVars, Rewrite, NextDay, ApprovePacket, Publish, Screen
  <2> DEFINE more == {Row(r.field, r.concept, Specs[r.field].kind,
                          Specs[r.field].kind = "duration", "USD", r.value, r.period,
                          filings + 1, day) : r \in rows}
  <2>2. facts' = facts \cup more /\ \A r \in more : r.filed = day
    <3>1. facts' = facts \cup more
      BY <2>1, Zenon DEF File
    <3>2. \A r \in more : r.filed = day
      BY DEF Row
    <3> QED BY <3>1, <3>2
  <2> HIDE DEF more
  <2> DEFINE before == [g \in ReportedFields |-> EvaluateField(g, facts, p, d)]
             after == [g \in ReportedFields |-> EvaluateField(g, facts', p, d)]
  <2>3. \A g \in ReportedFields : Alike(before[g], after[g])
    BY <2>2, FieldsAlike
  <2>4. /\ EvaluatePeriod(facts, p, d)[f] = IF f \in ReportedFields THEN before[f] ELSE DeriveSum(f, before)
        /\ EvaluatePeriod(facts', p, d)[f] = IF f \in ReportedFields THEN after[f] ELSE DeriveSum(f, after)
    BY DEF EvaluatePeriod
  <2> HIDE DEF before, after
  <2>5. CASE f \in ReportedFields
    BY <2>3, <2>4, <2>5
  <2>6. CASE f \notin ReportedFields
    <3>1. DeriveSum(f, before) = DeriveSum(f, after)
      BY <2>3, <2>6, TotalsAlike DEF FieldIds
    <3> QED BY <2>4, <2>6, <3>1 DEF Alike
  <2> QED BY <2>5, <2>6
<1> HIDE DEF Counted
<1>4. RegistrySpec => []Counted
  BY <1>1, <1>2, PTL DEF RegistrySpec
<1> QED BY <1>3, <1>4, PTL DEF RegistrySpec, PastStays

-----------------------------------------------------------------------------
(* The registry: filings explain changes, and an accepted report hides nothing. *)

\* A result has all that a result has.
IsResult(r) ==
  /\ r = [state |-> r.state, value |-> r.value, concept |-> r.concept, unit |-> r.unit,
          accession |-> r.accession, filed |-> r.filed, confirmed |-> r.confirmed]
  /\ r.state \in States

\* The rows of the stored facts: a filing is of one day, and states one row of a concept.
Consistent(all) ==
  \A r \in all :
    /\ r.accession \in Nat \ {0} /\ r.filed \in Nat \ {0} /\ r.value \in Int \ {NoValue}
    /\ r = Row(r.field, r.concept, r.kind, r.annual, r.unit, r.value, r.period, r.accession, r.filed)
    /\ \A s \in all : r.accession = s.accession =>
         /\ r.filed = s.filed
         /\ r.field = s.field /\ r.concept = s.concept /\ r.period = s.period => r = s
FactsInv ==
  /\ day \in Nat \ {0} /\ filings \in Nat /\ rewrites \in Nat
  /\ Consistent(facts) /\ \A r \in facts : r.accession <= filings /\ r.filed <= day

\* A result of a field is of the row that stands for it as of a day, but perhaps for its value.
IsOfItsRow(r, field, all, period, asOf) ==
  LET eligible == Standing(field, all, period, asOf)
      winner == Winner(field, eligible)
  IN /\ eligible = {} => r.value = NoValue /\ ~Usable(r) /\ r.accession = NoAccession
     /\ eligible # {} => /\ r.value # NoValue /\ r.concept = winner.concept
                         /\ r.accession = winner.accession /\ r.filed = winner.filed
HasItsValue(r, field, all, period, asOf) ==
  LET eligible == Standing(field, all, period, asOf)
  IN eligible # {} => r.value = Winner(field, eligible).value
FieldsAreOfRows(fields, all, asOf) ==
  \A p \in DOMAIN fields :
    /\ \A f \in FieldIds : IsResult(fields[p][f])
    /\ \A f \in ReportedFields : IsOfItsRow(fields[p][f], f, all, p, asOf)
FieldsHaveValues(fields, all, asOf) ==
  \A p \in DOMAIN fields, f \in ReportedFields : HasItsValue(fields[p][f], f, all, p, asOf)

\* The approved report is of the facts as they are known now, but for rewritten values.
BaselineInv ==
  LET b == baseline.report
  IN /\ baseline.rewrites \in Nat /\ baseline.rewrites <= rewrites
     /\ b.asOf \in Nat /\ b.asOf <= day
     /\ b.fields = <<>> \/ b.cik = "cik"
     /\ FieldsAreOfRows(b.fields, facts, b.asOf)
     /\ baseline.rewrites = rewrites => FieldsHaveValues(b.fields, facts, b.asOf)
RegistryInv == FactsInv /\ BaselineInv

-----------------------------------------------------------------------------
(* The row that stands for a field: the latest of the first concept.                              *)
LEMMA NumberLeast ==
  ASSUME NEW S, S \in SUBSET Nat, S # {}
  PROVE  \E c \in S : \A d \in S : c <= d
<1> DEFINE R == OpToRel(<, Nat)
<1>1. IsWellFoundedOn(R, Nat)
  BY NatLessThanWellFounded
<1>2. \A x, y \in Nat : x < y => <<x, y>> \in R
  BY DEF OpToRel
<1> HIDE DEF R
<1>3. PICK x \in S : \A y \in S : ~ (<<y, x>> \in R)
  BY <1>1, WFMin, Zenon
<1>4. ASSUME NEW y \in S PROVE x <= y
  <2>1. x \in Nat /\ y \in Nat
    OBVIOUS
  <2>2. ~ (y < x)
    BY <1>2, <1>3, <2>1, Zenon
  <2> QED
    BY <2>1, <2>2
<1> QED BY <1>4

LEMMA NumberGreatest ==
  ASSUME NEW n \in Nat, NEW S, S \in SUBSET (0..n), S # {}
  PROVE  \E c \in S : \A d \in S : d <= c
<1> DEFINE T == {i \in 0..n : n - i \in S}
<1>1. \A d \in S : n - d \in T
  <2> SUFFICES ASSUME NEW d \in S PROVE n - d \in T
    OBVIOUS
  <2>1. d \in 0..n /\ n - d \in 0..n /\ n - (n - d) = d
    OBVIOUS
  <2>2. n - (n - d) \in S
    BY <2>1, Zenon
  <2> QED BY <2>1, <2>2, Zenon
<1>2. T \in SUBSET Nat /\ T # {}
  <2>1. T \in SUBSET Nat
    OBVIOUS
  <2>2. PICK d \in S : TRUE
    OBVIOUS
  <2>3. n - d \in T
    BY <1>1, Zenon
  <2> QED BY <2>1, <2>3, Zenon
<1>3. PICK c \in T : \A d \in T : c <= d
  BY <1>2, NumberLeast
<1>4. c \in 0..n /\ n - c \in S
  OBVIOUS
<1> HIDE DEF T
<1>5. ASSUME NEW d \in S PROVE d <= n - c
  <2>1. c <= n - d
    BY <1>1, <1>3
  <2>2. d \in 0..n
    OBVIOUS
  <2> QED BY <1>4, <2>1, <2>2
<1> QED BY <1>4, <1>5

LEMMA RankIs ==
  ASSUME NEW field \in ReportedFields, NEW concept
  PROVE  /\ Rank(field, concept) \in Nat
         /\ Rank(field, concept) > 0 => Specs[field].concepts[Rank(field, concept)] = concept
<1> DEFINE cs == Specs[field].concepts
           i == CHOOSE i \in DOMAIN cs : cs[i] = concept
<1>1. DOMAIN cs \subseteq Nat \ {0}
  BY FundamentalsAssumption
<1>2. CASE \E j \in DOMAIN cs : cs[j] = concept
  <2>1. i \in DOMAIN cs /\ cs[i] = concept
    BY <1>2
  <2>2. Rank(field, concept) = i
    BY <1>2 DEF Rank
  <2> QED BY <1>1, <2>1, <2>2
<1>3. CASE ~ \E j \in DOMAIN cs : cs[j] = concept
  <2>1. Rank(field, concept) = 0
    BY <1>3 DEF Rank
  <2> QED BY <2>1
<1> QED BY <1>2, <1>3

\* The rows that are late: of the last day, and of the last filing of it.
NoEarlier(r, s) == s.filed < r.filed \/ (s.filed = r.filed /\ s.accession <= r.accession)

LEMMA LatestIs ==
  ASSUME NEW n \in Nat, NEW rows, rows # {},
         \A r \in rows : r.accession \in 0..n /\ r.filed \in 0..n
  PROVE  Latest(rows) \in rows /\ \A s \in rows : NoEarlier(Latest(rows), s)
<1> DEFINE days == {r.filed : r \in rows}
<1>1. days \in SUBSET (0..n) /\ days # {}
  OBVIOUS
<1>2. PICK d \in days : \A e \in days : e <= d
  BY <1>1, NumberGreatest
<1> DEFINE last == {r \in rows : r.filed = d}
           accessions == {r.accession : r \in last}
<1>3. accessions \in SUBSET (0..n) /\ accessions # {}
  BY <1>2
<1>4. PICK a \in accessions : \A b \in accessions : b <= a
  BY <1>3, NumberGreatest
<1>5. PICK r \in last : r.accession = a
  BY <1>4
<1>6. \A s \in rows : NoEarlier(r, s)
  <2> SUFFICES ASSUME NEW s \in rows PROVE NoEarlier(r, s)
    OBVIOUS
  <2>1. s.filed <= d /\ s.filed \in 0..n /\ d \in 0..n
    BY <1>1, <1>2
  <2>2. s.filed = d => s.accession <= a
    BY <1>4
  <2>3. r.filed = d /\ r.accession = a
    BY <1>5
  <2> HIDE DEF last, accessions
  <2> QED BY <2>1, <2>2, <2>3 DEF NoEarlier
<1>7. r \in rows
  BY <1>5
<1>8. \E x \in rows : \A s \in rows : s.filed < x.filed \/ (s.filed = x.filed /\ s.accession <= x.accession)
  BY <1>6, <1>7 DEF NoEarlier
<1> QED BY <1>8 DEF Latest, NoEarlier

\* A row that stands for a field among others.
Wins(r, field, rows) ==
  /\ r \in rows
  /\ \A s \in rows : /\ Rank(field, r.concept) <= Rank(field, s.concept)
                     /\ Rank(field, r.concept) = Rank(field, s.concept) => NoEarlier(r, s)

LEMMA WinnerWins ==
  ASSUME NEW field \in ReportedFields, NEW n \in Nat, NEW rows, rows # {},
         \A r \in rows : r.accession \in 0..n /\ r.filed \in 0..n
  PROVE  Wins(Winner(field, rows), field, rows)
<1> DEFINE ranks == {Rank(field, r.concept) : r \in rows}
           best == CHOOSE i \in ranks : \A r \in rows : i <= Rank(field, r.concept)
           first == {r \in rows : Rank(field, r.concept) = best}
<1>1. ranks \in SUBSET Nat /\ ranks # {}
  BY RankIs
<1>2. \E i \in ranks : \A r \in rows : i <= Rank(field, r.concept)
  <2>1. PICK i \in ranks : \A j \in ranks : i <= j
    BY <1>1, NumberLeast
  <2> QED BY <2>1
<1>3. best \in ranks /\ \A r \in rows : best <= Rank(field, r.concept)
  BY <1>2
<1>4. Winner(field, rows) = Latest(first)
  BY DEF Winner
<1> HIDE DEF best
<1>5. first # {} /\ first \subseteq rows
  BY <1>3
<1>6. Latest(first) \in first /\ \A s \in first : NoEarlier(Latest(first), s)
  BY <1>5, LatestIs
<1> QED BY <1>3, <1>4, <1>6 DEF Wins

\* What stands for a field is available, of the period, and named by the contract.
LEMMA StandingIs ==
  ASSUME NEW field, NEW all, NEW period, NEW asOf, NEW r
  PROVE  r \in Standing(field, all, period, asOf) <=>
           /\ r \in all /\ r.field = field /\ r.period = period /\ Rank(field, r.concept) > 0
           /\ r.kind = Specs[field].kind /\ (Specs[field].kind = "duration" => r.annual)
           /\ r.unit = Specs[field].unit /\ Available(r, asOf)
BY DEF Standing, RowsFor, Eligible

Bounded(all) == \E n \in Nat : \A r \in all : r.accession \in 0..n /\ r.filed \in 0..n

LEMMA WinnerStands ==
  ASSUME NEW all, Bounded(all), NEW field \in ReportedFields, NEW period, NEW asOf,
         Standing(field, all, period, asOf) # {}
  PROVE  Wins(Winner(field, Standing(field, all, period, asOf)), field, Standing(field, all, period, asOf))
<1>1. PICK n \in Nat : \A r \in all : r.accession \in 0..n /\ r.filed \in 0..n
  BY DEF Bounded
<1>2. \A r \in Standing(field, all, period, asOf) : r.accession \in 0..n /\ r.filed \in 0..n
  BY <1>1, StandingIs, Zenon
<1> QED BY <1>2, WinnerWins, Zenon

LEMMA ConsistentRow ==
  ASSUME NEW all, Consistent(all), NEW r \in all
  PROVE  r.accession \in Nat \ {0} /\ r.filed \in Nat \ {0} /\ r.value \in Int \ {NoValue}
BY DEF Consistent

LEMMA OneWins ==
  ASSUME NEW all, Consistent(all), NEW field \in ReportedFields, NEW period, NEW rows, rows \subseteq all,
         \A r \in rows : r.field = field /\ r.period = period /\ Rank(field, r.concept) > 0,
         NEW r, NEW s, Wins(r, field, rows), Wins(s, field, rows)
  PROVE  r = s
<1>1. r \in all /\ s \in all /\ r \in rows /\ s \in rows
  BY DEF Wins
<1>2. Rank(field, r.concept) = Rank(field, s.concept) /\ Rank(field, r.concept) > 0
  <2>1. Rank(field, r.concept) <= Rank(field, s.concept) /\ Rank(field, s.concept) <= Rank(field, r.concept)
    BY DEF Wins
  <2> QED BY <1>1, <2>1, RankIs
<1>3. r.concept = s.concept
  BY <1>2, RankIs
<1>4. r.accession = s.accession
  <2>1. NoEarlier(r, s) /\ NoEarlier(s, r)
    BY <1>2, <1>1 DEF Wins
  <2> QED BY <1>1, <2>1, ConsistentRow DEF NoEarlier
<1> QED BY <1>1, <1>3, <1>4 DEF Consistent

\* What stands as of a day and what stands as of a later one.
LEMMA LaterStands ==
  ASSUME NEW all, Consistent(all), Bounded(all), NEW field \in ReportedFields, NEW period,
         NEW asOf \in Nat, NEW now \in Nat, asOf <= now, Standing(field, all, period, asOf) # {}
  PROVE  LET old == Winner(field, Standing(field, all, period, asOf))
             new == Winner(field, Standing(field, all, period, now))
         IN /\ Standing(field, all, period, now) # {} /\ old \in all /\ new \in all
            /\ Rank(field, new.concept) <= Rank(field, old.concept)
            /\ new = old \/ new.filed > old.filed
<1> DEFINE before == Standing(field, all, period, asOf)
           after == Standing(field, all, period, now)
           old == Winner(field, before)
           new == Winner(field, after)
<1>1. before \subseteq after
  <2> SUFFICES ASSUME NEW r \in before PROVE r \in after
    OBVIOUS
  <2>1. r \in all /\ Available(r, asOf)
    BY StandingIs
  <2>2. Available(r, now)
    BY <2>1, ConsistentRow DEF Available
  <2> QED BY <2>2, StandingIs
<1>2. Wins(old, field, before) /\ Wins(new, field, after)
  BY <1>1, WinnerStands
<1>3. \A r \in after : r \in all /\ r.field = field /\ r.period = period /\ Rank(field, r.concept) > 0
  BY StandingIs
<1>4. \A r \in after : r \notin before => ~Available(r, asOf)
  BY StandingIs
<1>5. \A r \in before : Available(r, asOf)
  BY StandingIs
<1> HIDE DEF before, after, old, new
<1>6. old \in before /\ old \in after /\ new \in after /\ old \in all /\ new \in all
  BY <1>1, <1>2, <1>3 DEF Wins
<1>7. Rank(field, new.concept) <= Rank(field, old.concept)
  BY <1>2, <1>6 DEF Wins
<1>8. new = old \/ new.filed > old.filed
  <2>1. CASE new \in before
    <3>1. Wins(old, field, after)
      <4> SUFFICES ASSUME NEW s \in after
                   PROVE  /\ Rank(field, old.concept) <= Rank(field, s.concept)
                          /\ Rank(field, old.concept) = Rank(field, s.concept) => NoEarlier(old, s)
        BY <1>6 DEF Wins
      <4>1. Rank(field, old.concept) = Rank(field, new.concept)
        <5>1. Rank(field, old.concept) <= Rank(field, new.concept)
          BY <1>2, <2>1 DEF Wins
        <5> QED BY <1>7, <5>1, RankIs
      <4>2. /\ Rank(field, new.concept) <= Rank(field, s.concept)
            /\ Rank(field, new.concept) = Rank(field, s.concept) => NoEarlier(new, s)
        BY <1>2 DEF Wins
      <4>3. NoEarlier(old, new)
        BY <1>2, <2>1, <4>1 DEF Wins
      <4>4. NoEarlier(new, s) => NoEarlier(old, s)
        BY <1>3, <1>6, <4>3, ConsistentRow DEF NoEarlier
      <4> QED BY <4>1, <4>2, <4>4
    <3> QED BY <1>2, <1>3, <3>1, OneWins
  <2>2. CASE new \notin before
    <3>1. ~Available(new, asOf) /\ Available(old, asOf)
      BY <1>4, <1>5, <1>6, <2>2
    <3> QED BY <1>6, <3>1, ConsistentRow DEF Available
  <2> QED BY <2>1, <2>2
<1> QED BY <1>6, <1>7, <1>8 DEF before, after, old, new

\* The stored facts after a row is rewritten, and a row among them.
Rewritten(all, row, value) == (all \ {row}) \cup {[row EXCEPT !.value = value]}
Image(r, row, value) == IF r = row THEN [row EXCEPT !.value = value] ELSE r
SameButValue(r, s) ==
  /\ r.field = s.field /\ r.concept = s.concept /\ r.kind = s.kind /\ r.annual = s.annual
  /\ r.unit = s.unit /\ r.period = s.period /\ r.accession = s.accession /\ r.filed = s.filed

LEMMA ImageIs ==
  ASSUME NEW all, Consistent(all), NEW row \in all, NEW value \in Int \ {NoValue}, NEW r \in all
  PROVE  LET s == Image(r, row, value)
         IN /\ s \in Rewritten(all, row, value) /\ SameButValue(r, s) /\ s.value \in Int \ {NoValue}
            /\ s = Row(s.field, s.concept, s.kind, s.annual, s.unit, s.value, s.period, s.accession, s.filed)
<1> DEFINE new == [row EXCEPT !.value = value]
<1>1. \A x \in all : x = Row(x.field, x.concept, x.kind, x.annual, x.unit, x.value, x.period, x.accession, x.filed)
                     /\ x.value \in Int \ {NoValue}
  BY DEF Consistent
<1>2. new = Row(row.field, row.concept, row.kind, row.annual, row.unit, value, row.period, row.accession, row.filed)
  <2>1. PICK a, b, c, d, e, v, f, g, h : row = Row(a, b, c, d, e, v, f, g, h)
    BY <1>1
  <2>2. new = Row(a, b, c, d, e, value, f, g, h)
    BY <2>1 DEF Row
  <2>3. row.field = a /\ row.concept = b /\ row.kind = c /\ row.annual = d /\ row.unit = e
        /\ row.period = f /\ row.accession = g /\ row.filed = h
    BY <2>1 DEF Row
  <2> QED BY <2>2, <2>3
<1> HIDE DEF new
<1>3. SameButValue(row, new) /\ new.value = value
  BY <1>2 DEF SameButValue, Row
<1>4. new = Row(new.field, new.concept, new.kind, new.annual, new.unit, new.value, new.period, new.accession, new.filed)
  BY <1>2, <1>3 DEF SameButValue
<1>5. CASE r = row
  <2>1. Image(r, row, value) = new
    BY <1>5 DEF Image, new
  <2>2. new \in Rewritten(all, row, value)
    BY DEF Rewritten, new
  <2> QED BY <1>3, <1>4, <1>5, <2>1, <2>2
<1>6. CASE r # row
  <2>1. Image(r, row, value) = r
    BY <1>6 DEF Image
  <2>2. r \in Rewritten(all, row, value)
    BY <1>6 DEF Rewritten
  <2> QED BY <1>1, <2>1, <2>2 DEF SameButValue
<1> QED BY <1>5, <1>6

LEMMA ImagesAreAll ==
  ASSUME NEW all, NEW row \in all, NEW value, NEW s \in Rewritten(all, row, value)
  PROVE  \E r \in all : s = Image(r, row, value)
<1>1. CASE s = [row EXCEPT !.value = value]
  <2>1. s = Image(row, row, value)
    BY <1>1 DEF Image
  <2> QED BY <2>1
<1>2. CASE s # [row EXCEPT !.value = value]
  <2>1. s \in all /\ s # row
    BY <1>2 DEF Rewritten
  <2>2. s = Image(s, row, value)
    BY <2>1 DEF Image
  <2> QED BY <2>1, <2>2
<1> QED BY <1>1, <1>2

LEMMA RewrittenIsConsistent ==
  ASSUME NEW all, Consistent(all), NEW row \in all, NEW value \in Int \ {NoValue}
  PROVE  Consistent(Rewritten(all, row, value))
<1> SUFFICES ASSUME NEW x \in Rewritten(all, row, value)
             PROVE  /\ x.accession \in Nat \ {0} /\ x.filed \in Nat \ {0} /\ x.value \in Int \ {NoValue}
                    /\ x = Row(x.field, x.concept, x.kind, x.annual, x.unit, x.value, x.period, x.accession, x.filed)
                    /\ \A y \in Rewritten(all, row, value) : x.accession = y.accession =>
                         /\ x.filed = y.filed
                         /\ x.field = y.field /\ x.concept = y.concept /\ x.period = y.period => x = y
  BY DEF Consistent
<1>1. PICK r \in all : x = Image(r, row, value)
  BY ImagesAreAll
<1>2. /\ SameButValue(r, x) /\ x.value \in Int \ {NoValue}
      /\ x = Row(x.field, x.concept, x.kind, x.annual, x.unit, x.value, x.period, x.accession, x.filed)
  BY <1>1, ImageIs
<1>3. r.accession \in Nat \ {0} /\ r.filed \in Nat \ {0}
  BY ConsistentRow
<1>4. ASSUME NEW y \in Rewritten(all, row, value), x.accession = y.accession
      PROVE  /\ x.filed = y.filed
             /\ x.field = y.field /\ x.concept = y.concept /\ x.period = y.period => x = y
  <2>1. PICK s \in all : y = Image(s, row, value)
    BY ImagesAreAll
  <2>2. SameButValue(s, y)
    BY <2>1, ImageIs
  <2>3. r.accession = s.accession
    BY <1>2, <1>4, <2>2 DEF SameButValue
  <2>4. /\ r.filed = s.filed
        /\ r.field = s.field /\ r.concept = s.concept /\ r.period = s.period => r = s
    BY <2>3 DEF Consistent
  <2> QED BY <1>1, <1>2, <2>1, <2>2, <2>4 DEF SameButValue
<1> QED BY <1>2, <1>3, <1>4 DEF SameButValue

LEMMA RewrittenStands ==
  ASSUME NEW all, Consistent(all), Bounded(all), NEW row \in all, NEW value \in Int \ {NoValue},
         NEW field \in ReportedFields, NEW period, NEW asOf
  PROVE  LET e == Standing(field, all, period, asOf)
             u == Standing(field, Rewritten(all, row, value), period, asOf)
         IN /\ e = {} <=> u = {}
            /\ e # {} => SameButValue(Winner(field, e), Winner(field, u))
<1> DEFINE e == Standing(field, all, period, asOf)
           u == Standing(field, Rewritten(all, row, value), period, asOf)
           w == Winner(field, e)
           x == Image(w, row, value)
<1>1. ASSUME NEW r \in all
      PROVE  /\ Image(r, row, value) \in u <=> r \in e
             /\ SameButValue(r, Image(r, row, value))
  <2>1. Image(r, row, value) \in Rewritten(all, row, value) /\ SameButValue(r, Image(r, row, value))
    BY ImageIs
  <2> DEFINE s == Image(r, row, value)
  <2>2. r \in e <=> (r.field = field /\ r.period = period /\ Rank(field, r.concept) > 0
           /\ r.kind = Specs[field].kind /\ (Specs[field].kind = "duration" => r.annual)
           /\ r.unit = Specs[field].unit /\ Available(r, asOf))
    BY StandingIs
  <2>3. s \in u <=> (s.field = field /\ s.period = period /\ Rank(field, s.concept) > 0
           /\ s.kind = Specs[field].kind /\ (Specs[field].kind = "duration" => s.annual)
           /\ s.unit = Specs[field].unit /\ Available(s, asOf))
    BY <2>1, StandingIs
  <2> HIDE DEF s, e, u
  <2>4. Available(r, asOf) = Available(s, asOf)
    BY <2>1 DEF Available, SameButValue, s
  <2> QED BY <2>1, <2>2, <2>3, <2>4 DEF SameButValue, s
<1>2. \A y \in u : \E r \in e : y = Image(r, row, value)
  <2> SUFFICES ASSUME NEW y \in u PROVE \E r \in e : y = Image(r, row, value)
    OBVIOUS
  <2>1. y \in Rewritten(all, row, value)
    BY StandingIs
  <2>2. PICK r \in all : y = Image(r, row, value)
    BY <2>1, ImagesAreAll
  <2> QED BY <1>1, <2>2
<1>3. e \subseteq all
  BY StandingIs
<1>4. e = {} <=> u = {}
  BY <1>1, <1>2, <1>3, Zenon
<1>5. CASE e # {}
  <2>1. Wins(w, field, e)
    BY <1>5, WinnerStands
  <2> HIDE DEF w, e
  <2>2. w \in e /\ w \in all /\ x \in u /\ SameButValue(w, x)
    BY <1>1, <1>3, <2>1 DEF Wins
  <2> HIDE DEF x
  <2>3. Wins(x, field, u)
    <3> SUFFICES ASSUME NEW y \in u
                 PROVE  /\ Rank(field, x.concept) <= Rank(field, y.concept)
                        /\ Rank(field, x.concept) = Rank(field, y.concept) => NoEarlier(x, y)
      BY <2>2 DEF Wins
    <3>1. PICK r \in e : y = Image(r, row, value)
      BY <1>2
    <3>2. SameButValue(r, y)
      BY <1>1, <1>3, <3>1
    <3>3. /\ Rank(field, w.concept) <= Rank(field, r.concept)
          /\ Rank(field, w.concept) = Rank(field, r.concept) => NoEarlier(w, r)
      BY <2>1 DEF Wins
    <3> QED BY <2>2, <3>2, <3>3 DEF SameButValue, NoEarlier
  <2>4. Wins(Winner(field, u), field, u)
    <3>1. Bounded(Rewritten(all, row, value))
      <4>1. PICK n \in Nat : \A r \in all : r.accession \in 0..n /\ r.filed \in 0..n
        BY DEF Bounded
      <4>2. \A y \in Rewritten(all, row, value) : y.accession \in 0..n /\ y.filed \in 0..n
        <5> SUFFICES ASSUME NEW y \in Rewritten(all, row, value) PROVE y.accession \in 0..n /\ y.filed \in 0..n
          OBVIOUS
        <5>1. PICK r \in all : y = Image(r, row, value)
          BY ImagesAreAll
        <5>2. SameButValue(r, y)
          BY <5>1, ImageIs
        <5> QED BY <4>1, <5>2 DEF SameButValue
      <4> QED BY <4>2 DEF Bounded
    <3> QED BY <1>4, <1>5, <3>1, WinnerStands
  <2>5. u \subseteq Rewritten(all, row, value)
        /\ \A y \in u : y.field = field /\ y.period = period /\ Rank(field, y.concept) > 0
    BY StandingIs
  <2> HIDE DEF u
  <2>6. x = Winner(field, u)
    BY <2>3, <2>4, <2>5, RewrittenIsConsistent, OneWins
  <2> QED BY <2>2, <2>6 DEF w, e, u
<1> QED BY <1>4, <1>5

\* The stored facts.
LEMMA FactsAreBounded ==
  ASSUME FactsInv
  PROVE  Bounded(facts)
<1>1. filings + day \in Nat
  BY DEF FactsInv
<1>2. \A r \in facts : r.accession \in 0..(filings + day) /\ r.filed \in 0..(filings + day)
  <2> SUFFICES ASSUME NEW r \in facts
               PROVE  r.accession \in 0..(filings + day) /\ r.filed \in 0..(filings + day)
    OBVIOUS
  <2>1. r.accession \in Nat /\ r.filed \in Nat /\ r.accession <= filings /\ r.filed <= day
    BY ConsistentRow DEF FactsInv
  <2> QED BY <2>1 DEF FactsInv
<1> QED BY <1>1, <1>2 DEF Bounded

LEMMA File_FactsInv ==
  ASSUME FactsInv, NEW rows \in Menu, File(rows)
  PROVE  FactsInv' /\ \E more : facts' = facts \cup more /\ \A r \in more : r.filed = day
<1> DEFINE Made(r) == Row(r.field, r.concept, Specs[r.field].kind, Specs[r.field].kind = "duration",
                          "USD", r.value, r.period, filings + 1, day)
           more == {Made(r) : r \in rows}
<1>1. /\ facts' = facts \cup more
      /\ filings' = filings + 1 /\ day' = day /\ rewrites' = rewrites
  BY Zenon DEF File
<1>2. \A x \in more : \E r \in rows : x = Made(r)
  OBVIOUS
<1>3. \A r \in rows : /\ r.value \in Int \ {NoValue}
                      /\ \A s \in rows : r.field = s.field /\ r.concept = s.concept /\ r.period = s.period => r = s
  BY RegistryAssumption
<1> HIDE DEF more
<1>4. ASSUME NEW x \in more
      PROVE  /\ x.accession = filings + 1 /\ x.filed = day /\ x.value \in Int \ {NoValue}
             /\ x = Row(x.field, x.concept, x.kind, x.annual, x.unit, x.value, x.period, x.accession, x.filed)
             /\ \A y \in more : x.field = y.field /\ x.concept = y.concept /\ x.period = y.period => x = y
  <2>1. PICK r \in rows : x = Made(r)
    BY <1>2
  <2>2. /\ x.field = r.field /\ x.concept = r.concept /\ x.period = r.period
        /\ x.value = r.value /\ x.accession = filings + 1 /\ x.filed = day
        /\ x.kind = Specs[r.field].kind /\ x.annual = (Specs[r.field].kind = "duration") /\ x.unit = "USD"
    BY <2>1 DEF Row
  <2>3. ASSUME NEW y \in more, x.field = y.field, x.concept = y.concept, x.period = y.period
        PROVE  x = y
    <3>1. PICK s \in rows : y = Made(s)
      BY <1>2
    <3>2. y.field = s.field /\ y.concept = s.concept /\ y.period = s.period
      BY <3>1 DEF Row
    <3>3. r = s
      BY <1>3, <2>2, <2>3, <3>2
    <3> QED BY <2>1, <3>1, <3>3
  <2>4. x = Row(x.field, x.concept, x.kind, x.annual, x.unit, x.value, x.period, x.accession, x.filed)
    BY <2>1 DEF Row
  <2> QED BY <1>3, <2>2, <2>3, <2>4
<1>5. Consistent(facts) /\ day \in Nat \ {0} /\ filings \in Nat /\ rewrites \in Nat
      /\ \A r \in facts : r.accession <= filings /\ r.filed <= day
  BY DEF FactsInv
<1>6. \A x \in facts, y \in more : x.accession # y.accession
  <2> SUFFICES ASSUME NEW x \in facts, NEW y \in more PROVE x.accession # y.accession
    OBVIOUS
  <2> QED BY <1>4, <1>5, ConsistentRow
<1>7. Consistent(facts \cup more)
  <2> SUFFICES ASSUME NEW x \in facts \cup more
               PROVE  /\ x.accession \in Nat \ {0} /\ x.filed \in Nat \ {0} /\ x.value \in Int \ {NoValue}
                      /\ x = Row(x.field, x.concept, x.kind, x.annual, x.unit, x.value, x.period, x.accession, x.filed)
                      /\ \A y \in facts \cup more : x.accession = y.accession =>
                           /\ x.filed = y.filed
                           /\ x.field = y.field /\ x.concept = y.concept /\ x.period = y.period => x = y
    BY DEF Consistent
  <2>1. CASE x \in facts
    <3>1. \A y \in more : x.accession # y.accession
      BY <1>6, <2>1
    <3> QED BY <1>5, <2>1, <3>1 DEF Consistent
  <2>2. CASE x \in more
    <3>1. \A y \in facts : x.accession # y.accession
      BY <1>6, <2>2
    <3>2. \A y \in more : y.filed = day
      BY <1>4
    <3> QED BY <1>4, <1>5, <2>2, <3>1, <3>2
  <2> QED BY <2>1, <2>2
<1>8. \A x \in facts \cup more : x.accession <= filings + 1 /\ x.filed <= day
  <2> SUFFICES ASSUME NEW x \in facts \cup more PROVE x.accession <= filings + 1 /\ x.filed <= day
    OBVIOUS
  <2>1. x.accession \in Nat
    BY <1>7, ConsistentRow
  <2> QED BY <1>4, <1>5, <2>1
<1>9. FactsInv'
  BY <1>1, <1>5, <1>7, <1>8 DEF FactsInv
<1> QED BY <1>1, <1>4, <1>9

LEMMA Rewrite_FactsInv ==
  ASSUME FactsInv, NEW row \in facts, NEW value \in Int \ {NoValue}, Rewrite(row, value)
  PROVE  FactsInv' /\ facts' = Rewritten(facts, row, value)
<1>1. facts' = Rewritten(facts, row, value) /\ rewrites' = rewrites + 1 /\ filings' = filings /\ day' = day
  BY DEF Rewrite, Rewritten
<1>2. Consistent(Rewritten(facts, row, value))
  BY RewrittenIsConsistent DEF FactsInv
<1>3. \A x \in Rewritten(facts, row, value) : x.accession <= filings /\ x.filed <= day
  <2> SUFFICES ASSUME NEW x \in Rewritten(facts, row, value) PROVE x.accession <= filings /\ x.filed <= day
    OBVIOUS
  <2>1. PICK r \in facts : x = Image(r, row, value)
    BY ImagesAreAll
  <2>2. SameButValue(r, x)
    BY <2>1, ImageIs DEF FactsInv
  <2> QED BY <2>2 DEF FactsInv, SameButValue
<1> QED BY <1>1, <1>2, <1>3 DEF FactsInv

LEMMA Other_FactsInv ==
  ASSUME FactsInv, facts' = facts, rewrites' = rewrites, filings' = filings, day' \in {day, day + 1}
  PROVE  FactsInv'
<1>1. day' \in Nat \ {0} /\ day <= day'
  BY DEF FactsInv
<1>2. \A r \in facts : r.filed <= day'
  <2> SUFFICES ASSUME NEW r \in facts PROVE r.filed <= day'
    OBVIOUS
  <2> QED BY <1>1, ConsistentRow DEF FactsInv
<1> QED BY <1>1, <1>2 DEF FactsInv

-----------------------------------------------------------------------------
(* Results.                                                                                       *)
\* What a confirmation leaves as it is.
SameOrigin(r, s) ==
  /\ r.value = s.value /\ r.concept = s.concept /\ r.unit = s.unit
  /\ r.accession = s.accession /\ r.filed = s.filed

LEMMA ConfirmKeeps ==
  ASSUME NEW field, NEW target, IsResult(target), NEW entry
  PROVE  LET r == Confirm(field, target, entry)
         IN /\ IsResult(r) /\ SameOrigin(r, target) /\ (target.value = NoValue => r = target)
            /\ r.confirmed = target.confirmed \/ r.confirmed = target.confirmed \cup {entry.source}
<1>1. PICK s, v, c, u, a, f, k :
        target = [state |-> s, value |-> v, concept |-> c, unit |-> u, accession |-> a, filed |-> f, confirmed |-> k]
  BY DEF IsResult
<1>2. target.state \in States /\ target.state = s
  BY <1>1 DEF IsResult
<1>3. {"SOURCE_UNVALIDATED", "CONFLICT", "SOURCE_VALIDATED"} \subseteq States
  BY DEF States, UsableStates
<1>4. \E t \in States, j \in {k, k \cup {entry.source}} :
        /\ Confirm(field, target, entry) =
             [state |-> t, value |-> v, concept |-> c, unit |-> u, accession |-> a, filed |-> f, confirmed |-> j]
        /\ v = NoValue => t = s /\ j = k
  <2>1. CASE ~entry.comparable \/ target.value = NoValue
    <3>1. Confirm(field, target, entry) = target
      BY <2>1 DEF Confirm
    <3> QED BY <1>1, <1>2, <3>1
  <2>2. CASE entry.comparable /\ target.value # NoValue /\ entry.unit # target.unit
    <3>1. Confirm(field, target, entry) \in {target, [target EXCEPT !.state = "SOURCE_UNVALIDATED"]}
      BY <2>2 DEF Confirm
    <3>2. v # NoValue
      BY <1>1, <2>2
    <3> QED BY <1>1, <1>2, <1>3, <3>1, <3>2
  <2>3. CASE entry.comparable /\ target.value # NoValue /\ entry.unit = target.unit
    <3>1. v # NoValue
      BY <1>1, <2>3
    <3>2. CASE entry.value # target.value
      <4>1. Confirm(field, target, entry) = [target EXCEPT !.state = "CONFLICT"]
        BY <2>3, <3>2 DEF Confirm
      <4> QED BY <1>1, <1>3, <3>1, <4>1
    <3>3. CASE entry.value = target.value
      <4> DEFINE t == IF s = "SOURCE_UNVALIDATED"
                         /\ ~(field \in ReportedFields /\ target.concept \in Specs[field].basis)
                      THEN "SOURCE_VALIDATED" ELSE s
      <4>1. Confirm(field, target, entry) =
              [target EXCEPT !.confirmed = @ \cup {entry.source},
                 !.state = IF @ = "SOURCE_UNVALIDATED"
                              /\ ~(field \in ReportedFields /\ target.concept \in Specs[field].basis)
                           THEN "SOURCE_VALIDATED" ELSE @]
        BY <2>3, <3>3 DEF Confirm
      <4>2. Confirm(field, target, entry) =
             [state |-> t, value |-> v, concept |-> c, unit |-> u, accession |-> a, filed |-> f,
              confirmed |-> k \cup {entry.source}]
        BY <1>1, <4>1
      <4>3. t \in States
        BY <1>2, <1>3
      <4> QED BY <3>1, <4>2, <4>3
    <3> QED BY <3>2, <3>3
  <2> QED BY <2>1, <2>2, <2>3
<1>5. PICK t \in States, j \in {k, k \cup {entry.source}} :
        /\ Confirm(field, target, entry) =
             [state |-> t, value |-> v, concept |-> c, unit |-> u, accession |-> a, filed |-> f, confirmed |-> j]
        /\ v = NoValue => t = s /\ j = k
  BY <1>4
<1> QED BY <1>1, <1>5 DEF IsResult, SameOrigin

LEMMA ConfirmedKeeps ==
  ASSUME NEW field, NEW period, NEW target, IsResult(target), NEW entries
  PROVE  LET r == Confirmed(field, period, target, entries)
         IN /\ IsResult(r) /\ SameOrigin(r, target) /\ (target.value = NoValue => r = target)
            /\ entries = {} => r = target
<1> DEFINE own == {e \in entries : e.field = field /\ e.period = period}
<1>1. CASE own = {}
  <2>1. Confirmed(field, period, target, entries) = target
    BY <1>1 DEF Confirmed
  <2> QED BY <2>1 DEF SameOrigin
<1>2. CASE own # {}
  <2>1. Confirmed(field, period, target, entries) = Confirm(field, target, CHOOSE e \in own : TRUE)
    BY <1>2 DEF Confirmed
  <2> HIDE DEF own
  <2>2. entries # {}
    BY <1>2 DEF own
  <2> QED BY <2>1, <2>2, ConfirmKeeps
<1> QED BY <1>1, <1>2

LEMMA FieldResult ==
  ASSUME NEW all, Consistent(all), Bounded(all), NEW field \in ReportedFields, NEW period, NEW asOf
  PROVE  LET r == EvaluateField(field, all, period, asOf)
         IN /\ IsResult(r) /\ r.confirmed = {}
            /\ IsOfItsRow(r, field, all, period, asOf) /\ HasItsValue(r, field, all, period, asOf)
<1> DEFINE e == Standing(field, all, period, asOf)
           r == EvaluateField(field, all, period, asOf)
           w == Winner(field, e)
<1>1. CASE e = {}
  <2>1. Nil(r, Specs[field].unit)
    BY <1>1, FieldIsOfItsRows
  <2>2. PICK s \in MissingStates : r = Absent(s, Specs[field].unit)
    BY <2>1 DEF Nil
  <2>3. s \in States
    BY DEF MissingStates, States
  <2>4. IsResult(r) /\ r.confirmed = {} /\ r.accession = NoAccession
    BY <2>2, <2>3 DEF IsResult, Absent
  <2>5. r.value = NoValue /\ ~Usable(r)
    BY <2>1, NilFacts
  <2> HIDE DEF e, r, w
  <2> QED BY <1>1, <2>4, <2>5 DEF IsOfItsRow, HasItsValue, e, r
<1>2. CASE e # {}
  <2>1. r = Stands(field, e)
    BY <1>2, FieldIsOfItsRows
  <2>2. PICK s \in {"CONFLICT", "SOURCE_UNVALIDATED"} : r = Result(s, w)
    BY <2>1 DEF Stands
  <2>3. s \in States
    BY DEF UsableStates, States
  <2>4. IsResult(r) /\ r.confirmed = {} /\ r.value = w.value /\ r.concept = w.concept
        /\ r.accession = w.accession /\ r.filed = w.filed
    BY <2>2, <2>3 DEF IsResult, Result
  <2>5. w \in e
    BY <1>2, WinnerStands DEF Wins
  <2>6. w \in all
    BY <2>5, StandingIs
  <2>7. w.value # NoValue
    BY <2>6, ConsistentRow
  <2> HIDE DEF e, r, w
  <2> QED BY <1>2, <2>4, <2>7 DEF IsOfItsRow, HasItsValue, e, r, w
<1> QED BY <1>1, <1>2

LEMMA TotalResult ==
  ASSUME NEW field, NEW results
  PROVE  IsResult(DeriveSum(field, results)) /\ DeriveSum(field, results).confirmed = {}
<1> DEFINE Made(s, v, c) == [state |-> s, value |-> v, concept |-> c, unit |-> "USD",
                             accession |-> NoAccession, filed |-> 0, confirmed |-> {}]
<1>1. \E s \in States : \E v, c : DeriveSum(field, results) = Made(s, v, c)
  <2> DEFINE d == Derived[field]
             total == SumOf(d.parts, results)
             settled == \A p \in d.parts : results[p].state \in UsableStates
             reported == IF d.reported = "none" THEN NoValue ELSE results[d.reported].value
             s == CASE reported # NoValue /\ Abs(reported - total) > Slack -> "CONFLICT"
                    [] settled -> "PASS_DERIVED"
                    [] OTHER -> "SOURCE_UNVALIDATED"
  <2>1. CASE \E p \in d.parts : results[p].value = NoValue
    <3>1. DeriveSum(field, results) = Absent("MISSING_OBSERVATION", "USD")
      BY <2>1 DEF DeriveSum
    <3>2. Absent("MISSING_OBSERVATION", "USD") = Made("MISSING_OBSERVATION", NoValue, NoConcept)
      BY DEF Absent
    <3>3. "MISSING_OBSERVATION" \in States
      BY DEF States
    <3> QED BY <3>1, <3>2, <3>3
  <2>2. CASE ~ \E p \in d.parts : results[p].value = NoValue
    <3>1. DeriveSum(field, results) = [Absent(s, "USD") EXCEPT !.value = total, !.concept = "sum"]
      BY <2>2 DEF DeriveSum
    <3>2. s \in {"CONFLICT", "PASS_DERIVED", "SOURCE_UNVALIDATED"}
      <4> HIDE DEF reported, total, settled
      <4>1. CASE reported # NoValue /\ Abs(reported - total) > Slack
        BY <4>1
      <4>2. CASE ~(reported # NoValue /\ Abs(reported - total) > Slack) /\ settled
        BY <4>2
      <4>3. CASE ~(reported # NoValue /\ Abs(reported - total) > Slack) /\ ~settled
        BY <4>3
      <4> QED BY <4>1, <4>2, <4>3
    <3> HIDE DEF s, total
    <3>3. s \in States
      BY <3>2 DEF States, UsableStates
    <3>4. DeriveSum(field, results) = Made(s, total, "sum")
      BY <3>1 DEF Absent
    <3> QED BY <3>3, <3>4
  <2> QED BY <2>1, <2>2
<1>2. PICK s \in States : \E v, c : DeriveSum(field, results) = Made(s, v, c)
  BY <1>1
<1>3. PICK v, c : DeriveSum(field, results) = Made(s, v, c)
  BY <1>2
<1> QED BY <1>3 DEF IsResult

\* What is evaluated of a company, and confirmed by entries of two sources.
LEMMA CompanyResults ==
  ASSUME NEW all, Consistent(all), Bounded(all), NEW asOf, NEW first, NEW second
  PROVE  LET results == EvaluateCompany(all, asOf)
             checked == CrossValidate(results, first, second)
         IN /\ FieldsAreOfRows(checked, all, asOf) /\ FieldsHaveValues(checked, all, asOf)
            /\ \A p \in DOMAIN checked, f \in FieldIds :
                 first = {} /\ second = {} => checked[p][f].confirmed = {}
<1> DEFINE results == EvaluateCompany(all, asOf)
           checked == CrossValidate(results, first, second)
<1>1. DOMAIN checked = DOMAIN results /\ DOMAIN results = PeriodsOf(all, asOf)
  BY DEF CrossValidate, EvaluateCompany
<1>2. ASSUME NEW p \in DOMAIN results, NEW f \in FieldIds
      PROVE  /\ IsResult(results[p][f]) /\ results[p][f].confirmed = {}
             /\ f \in ReportedFields => /\ IsOfItsRow(results[p][f], f, all, p, asOf)
                                        /\ HasItsValue(results[p][f], f, all, p, asOf)
  <2> DEFINE reported == [g \in ReportedFields |-> EvaluateField(g, all, p, asOf)]
  <2>1. results[p][f] = IF f \in ReportedFields THEN reported[f] ELSE DeriveSum(f, reported)
    BY <1>1 DEF EvaluateCompany, EvaluatePeriod
  <2>2. CASE f \in ReportedFields
    <3>1. results[p][f] = EvaluateField(f, all, p, asOf)
      BY <2>1, <2>2
    <3> HIDE DEF results
    <3> QED BY <2>2, <3>1, FieldResult
  <2>3. CASE f \notin ReportedFields
    <3> HIDE DEF reported, results
    <3> QED BY <2>1, <2>3, TotalResult
  <2> QED BY <2>2, <2>3
<1>3. ASSUME NEW p \in DOMAIN results, NEW f \in FieldIds
      PROVE  /\ IsResult(checked[p][f]) /\ SameOrigin(checked[p][f], results[p][f])
             /\ results[p][f].value = NoValue => checked[p][f] = results[p][f]
             /\ first = {} /\ second = {} => checked[p][f] = results[p][f]
  <2> DEFINE r == results[p][f]
             s == Confirmed(f, p, r, first)
             t == Confirmed(f, p, s, second)
  <2>1. checked[p][f] = t
    BY DEF CrossValidate
  <2>2. IsResult(r)
    BY <1>2
  <2> HIDE DEF r
  <2>3. IsResult(s) /\ SameOrigin(s, r) /\ (r.value = NoValue => s = r) /\ (first = {} => s = r)
    BY <2>2, ConfirmedKeeps
  <2> HIDE DEF s
  <2>4. IsResult(t) /\ SameOrigin(t, s) /\ (s.value = NoValue => t = s) /\ (second = {} => t = s)
    BY <2>3, ConfirmedKeeps
  <2> HIDE DEF t, checked, results
  <2> QED BY <2>1, <2>3, <2>4 DEF SameOrigin, r
<1> HIDE DEF results, checked
<1>4. ASSUME NEW p \in DOMAIN results, NEW f \in ReportedFields
      PROVE  IsOfItsRow(checked[p][f], f, all, p, asOf) /\ HasItsValue(checked[p][f], f, all, p, asOf)
  <2>1. f \in FieldIds
    BY DEF FieldIds
  <2>2. IsOfItsRow(results[p][f], f, all, p, asOf) /\ HasItsValue(results[p][f], f, all, p, asOf)
    BY <1>2, <2>1
  <2>3. /\ SameOrigin(checked[p][f], results[p][f])
        /\ results[p][f].value = NoValue => checked[p][f] = results[p][f]
    BY <1>3, <2>1
  <2> QED BY <2>2, <2>3 DEF IsOfItsRow, HasItsValue, SameOrigin
<1>5. FieldsAreOfRows(checked, all, asOf) /\ FieldsHaveValues(checked, all, asOf)
  BY <1>1, <1>3, <1>4 DEF FieldsAreOfRows, FieldsHaveValues
<1>6. \A p \in DOMAIN checked, f \in FieldIds :
        first = {} /\ second = {} => checked[p][f].confirmed = {}
  BY <1>1, <1>2, <1>3
<1> QED BY <1>5, <1>6 DEF checked, results

LEMMA NothingRead ==
  ASSUME NEW source, NEW results
  PROVE  Secondary(source, Nothing, results) = {}
<1>1. Nothing.values = <<>> /\ DOMAIN <<>> = {}
  BY DEF Nothing
<1>2. DOMAIN results \cap DOMAIN Nothing.values = {}
  BY <1>1
<1> QED BY <1>2 DEF Secondary

\* What a report says of its fields is of the facts as of its day, and is confirmed by what was read.
LEMMA ReportIs ==
  ASSUME FactsInv, NEW lost
  PROVE  LET c == Report(lost)
         IN /\ c.asOf = day /\ c.cik \in {"none", "cik"} /\ (c.fields = <<>> \/ c.cik = "cik")
            /\ FieldsAreOfRows(c.fields, facts, day) /\ FieldsHaveValues(c.fields, facts, day)
            /\ \A p \in DOMAIN c.fields, f \in FieldIds :
                 c.fields[p][f].confirmed # {} =>
                   Range(c.checks) # {} /\ Range(c.checks) \subseteq {"MATCH", "DIFFERENT_SOURCE_OBJECT"}
<1> DEFINE c == Report(lost)
           packetRead == IF "packet" \in lost THEN Nothing ELSE packet
           publishedRead == IF "published" \in lost THEN Nothing ELSE publishedReport
           identified == packetRead # Nothing \/ publishedRead # Nothing \/ "company" \notin lost
           results == EvaluateCompany(facts, day)
           first == Secondary("packet", packetRead, results)
           second == Secondary("published", publishedRead, results)
           checked == CrossValidate(results, first, second)
           read == identified /\ "facts" \notin lost
           lostIssues == lost \cap {"packet", "published"}
           families == [f \in {"serving"} |-> [resolved |-> "serving" \notin lost,
                                                sampled |-> "serving" \notin lost]]
           empty == [NoReport EXCEPT !.asOf = day, !.families = families, !.overall = "BLOCKED"]
           checks == [k \in If(publishedRead # Nothing, "published") \cup If(packetRead # Nothing, "packet") |->
                         Check(IF k = "packet" THEN packetRead ELSE publishedRead)]
<1>1. CASE ~read
  <2>1. c = [empty EXCEPT !.cik = IF identified THEN "cik" ELSE "none",
                          !.issues = lostIssues \cup {"BLOCKED"}]
    BY <1>1 DEF Report
  <2> DEFINE cik == IF identified THEN "cik" ELSE "none"
  <2>2. cik \in {"none", "cik"}
    OBVIOUS
  <2> HIDE DEF cik, identified, families, lostIssues
  <2>3. c.asOf = day /\ c.cik = cik /\ c.fields = <<>>
    BY <2>1 DEF NoReport, cik
  <2>4. DOMAIN c.fields = {}
    BY <2>3
  <2> HIDE DEF c
  <2>5. FieldsAreOfRows(c.fields, facts, day) /\ FieldsHaveValues(c.fields, facts, day)
    BY <2>4 DEF FieldsAreOfRows, FieldsHaveValues
  <2> QED BY <2>2, <2>3, <2>4, <2>5 DEF c
<1>2. CASE read
  <2>1. c = [asOf |-> day, object |-> Object, cik |-> "cik", fields |-> checked,
           overall |-> Overall(checked), families |-> families,
           issues |-> lostIssues \cup If(~Agreeing(checked), "NO_SECOND_SOURCE"),
           checks |-> checks]
    BY <1>2 DEF Report
  <2> HIDE DEF checked, checks, families, lostIssues
  <2>2. c.asOf = day /\ c.cik = "cik" /\ c.fields = checked /\ c.checks = checks
    BY <2>1
  <2> HIDE DEF c, first, second, results
  <2>3. /\ FieldsAreOfRows(checked, facts, day) /\ FieldsHaveValues(checked, facts, day)
        /\ \A p \in DOMAIN checked, f \in FieldIds :
                 first = {} /\ second = {} => checked[p][f].confirmed = {}
    BY FactsAreBounded, CompanyResults DEF FactsInv, checked, results
  <2>4. packetRead = Nothing /\ publishedRead = Nothing => first = {} /\ second = {}
    BY NothingRead DEF first, second
  <2> DEFINE keys == If(publishedRead # Nothing, "published") \cup If(packetRead # Nothing, "packet")
  <2>5. packetRead # Nothing \/ publishedRead # Nothing => keys # {}
    BY DEF If
  <2> HIDE DEF keys, packetRead, publishedRead
  <2>6. DOMAIN checks = keys /\ \A k \in keys : checks[k] \in {"MATCH", "DIFFERENT_SOURCE_OBJECT"}
    BY DEF checks, Check, keys
  <2>7. Range(checks) \subseteq {"MATCH", "DIFFERENT_SOURCE_OBJECT"} /\ (keys # {} => Range(checks) # {})
    BY <2>6 DEF Range
  <2> QED BY <2>2, <2>3, <2>4, <2>5, <2>7 DEF c
<1> QED BY <1>1, <1>2

-----------------------------------------------------------------------------
(* The invariant.                                                                                 *)
LEMMA Init_RegistryInv == RegistryInit => RegistryInv
<1> SUFFICES ASSUME RegistryInit PROVE RegistryInv OBVIOUS
<1>1. FactsInv
  BY DEF RegistryInit, FactsInv, Consistent
<1>2. baseline.report = NoReport /\ baseline.rewrites = 0 /\ rewrites = 0 /\ day = 1
  BY DEF RegistryInit
<1>3. NoReport.asOf = 0 /\ NoReport.fields = <<>> /\ DOMAIN NoReport.fields = {}
  BY DEF NoReport
<1>4. BaselineInv
  BY <1>2, <1>3 DEF BaselineInv, FieldsAreOfRows, FieldsHaveValues
<1> QED BY <1>1, <1>4 DEF RegistryInv

\* Facts in which the same rows stand as of a day say the same of it.
LEMMA FieldsStay ==
  ASSUME NEW all, NEW other, NEW asOf, NEW fields,
         \A f \in ReportedFields, p \in DOMAIN fields :
           Standing(f, all, p, asOf) = Standing(f, other, p, asOf)
  PROVE  /\ FieldsAreOfRows(fields, all, asOf) => FieldsAreOfRows(fields, other, asOf)
         /\ FieldsHaveValues(fields, all, asOf) => FieldsHaveValues(fields, other, asOf)
BY DEF FieldsAreOfRows, FieldsHaveValues, IsOfItsRow, HasItsValue

LEMMA Next_RegistryInv == RegistryInv /\ [RegistryNext]_registryVars => RegistryInv'
<1> SUFFICES ASSUME RegistryInv, [RegistryNext]_registryVars PROVE RegistryInv' OBVIOUS
<1> DEFINE b == baseline.report
<1>0. /\ FactsInv /\ baseline.rewrites \in Nat /\ baseline.rewrites <= rewrites
      /\ b.asOf \in Nat /\ b.asOf <= day /\ (b.fields = <<>> \/ b.cik = "cik")
      /\ FieldsAreOfRows(b.fields, facts, b.asOf)
      /\ baseline.rewrites = rewrites => FieldsHaveValues(b.fields, facts, b.asOf)
  BY DEF RegistryInv, BaselineInv
<1>a. day \in Nat \ {0} /\ rewrites \in Nat
  BY <1>0 DEF FactsInv
<1>1. ASSUME NEW rows \in Menu, File(rows) PROVE RegistryInv'
  <2>1. FactsInv'
    BY <1>0, <1>1, File_FactsInv
  <2>2. PICK more : facts' = facts \cup more /\ \A r \in more : r.filed = day
    BY <1>0, <1>1, File_FactsInv
  <2>3. baseline' = baseline /\ rewrites' = rewrites /\ day' = day
    BY <1>1 DEF File
  <2>4. \A f \in ReportedFields, p \in DOMAIN b.fields : Standing(f, facts, p, b.asOf) = Standing(f, facts', p, b.asOf)
    <3>1. \A r \in more : ~Available(r, b.asOf)
      BY <1>0, <1>a, <2>2 DEF Available
    <3> QED BY <2>2, <3>1 DEF Standing, RowsFor, Eligible
  <2> HIDE DEF b
  <2>5. /\ FieldsAreOfRows(b.fields, facts', b.asOf)
        /\ baseline.rewrites = rewrites => FieldsHaveValues(b.fields, facts', b.asOf)
    BY <1>0, <2>4, FieldsStay
  <2> QED BY <1>0, <2>1, <2>3, <2>5 DEF RegistryInv, BaselineInv, b
<1>2. ASSUME NEW row \in facts, NEW value \in Int \ {NoValue}, Rewrite(row, value) PROVE RegistryInv'
  <2>1. FactsInv' /\ facts' = Rewritten(facts, row, value)
    BY <1>0, <1>2, Rewrite_FactsInv
  <2>2. baseline' = baseline /\ rewrites' = rewrites + 1 /\ day' = day
    BY <1>2 DEF Rewrite
  <2>3. baseline.rewrites # rewrites' /\ baseline.rewrites <= rewrites'
    BY <1>0, <1>a, <2>2
  <2> HIDE DEF b
  <2>4. FieldsAreOfRows(b.fields, facts', b.asOf)
    <3> SUFFICES ASSUME NEW p \in DOMAIN b.fields, NEW f \in ReportedFields
                 PROVE  IsOfItsRow(b.fields[p][f], f, facts', p, b.asOf)
      BY <1>0 DEF FieldsAreOfRows
    <3> DEFINE e == Standing(f, facts, p, b.asOf)
               u == Standing(f, facts', p, b.asOf)
    <3>1. IsOfItsRow(b.fields[p][f], f, facts, p, b.asOf)
      BY <1>0 DEF FieldsAreOfRows
    <3>2. (e = {} <=> u = {}) /\ (e # {} => SameButValue(Winner(f, e), Winner(f, u)))
      BY <1>0, <2>1, FactsAreBounded, RewrittenStands DEF FactsInv
    <3> QED BY <3>1, <3>2 DEF IsOfItsRow, SameButValue
  <2> QED BY <1>0, <2>1, <2>2, <2>3, <2>4 DEF RegistryInv, BaselineInv, b
<1>3. ASSUME facts' = facts, rewrites' = rewrites, filings' = filings, day' \in {day, day + 1},
             baseline' = baseline
      PROVE  RegistryInv'
  <2>1. FactsInv'
    BY <1>0, <1>3, Other_FactsInv
  <2>2. b.asOf <= day'
    BY <1>0, <1>a, <1>3
  <2> QED BY <1>0, <1>3, <2>1, <2>2 DEF RegistryInv, BaselineInv
<1>4. ASSUME NEW lost, Screen(lost) PROVE RegistryInv'
  <2>1. /\ baseline' = [report |-> Report(lost), rewrites |-> rewrites]
        /\ facts' = facts /\ rewrites' = rewrites /\ filings' = filings /\ day' = day
    BY <1>4 DEF Screen
  <2>2. FactsInv'
    BY <1>0, <2>1, Other_FactsInv
  <2> DEFINE c == Report(lost)
  <2>3. /\ c.asOf = day /\ (c.fields = <<>> \/ c.cik = "cik")
        /\ FieldsAreOfRows(c.fields, facts, day) /\ FieldsHaveValues(c.fields, facts, day)
    BY <1>0, ReportIs
  <2> HIDE DEF c
  <2>4. baseline'.report = c /\ baseline'.rewrites = rewrites
    BY <2>1 DEF c
  <2> QED BY <1>a, <2>1, <2>2, <2>3, <2>4 DEF RegistryInv, BaselineInv
<1>5. ASSUME NEW row \in facts, NEW r \in UNION Menu, Rewrite(row, r.value) PROVE RegistryInv'
  BY <1>2, <1>5, RegistryAssumption
<1>6. ASSUME NextDay \/ ApprovePacket \/ Publish \/ UNCHANGED registryVars PROVE RegistryInv'
  BY <1>3, <1>6 DEF NextDay, ApprovePacket, Publish, registryVars
<1> QED BY <1>1, <1>4, <1>5, <1>6 DEF RegistryNext

LEMMA RegistryInvariance == RegistrySpec => []RegistryInv
BY Init_RegistryInv, Next_RegistryInv, PTL DEF RegistrySpec

-----------------------------------------------------------------------------
(* What a later report says of a reported field.                                                  *)
StandsFor(r, f, all, p, asOf) ==
  LET e == Standing(f, all, p, asOf)
      w == Winner(f, e)
  IN /\ e # {} /\ w \in all /\ w.filed \in Nat /\ Available(w, asOf) /\ HasFiling(r)
     /\ r.concept = w.concept /\ r.accession = w.accession /\ r.filed = w.filed
LEMMA RowStandsFor ==
  ASSUME NEW all, Consistent(all), Bounded(all), NEW f \in ReportedFields, NEW p, NEW asOf \in Nat,
         NEW r, IsOfItsRow(r, f, all, p, asOf), HasFiling(r) \/ r.value # NoValue
  PROVE  StandsFor(r, f, all, p, asOf)
<1> DEFINE e == Standing(f, all, p, asOf)
           w == Winner(f, e)
<1>1. e # {} /\ r.concept = w.concept /\ r.accession = w.accession /\ r.filed = w.filed
  BY DEF IsOfItsRow, HasFiling
<1>2. w \in e
  BY <1>1, WinnerStands, Zenon DEF Wins
<1>3. w \in all /\ Available(w, asOf)
  <2>1. ASSUME NEW s \in e PROVE s \in all /\ Available(s, asOf)
    BY <2>1, StandingIs, Zenon
  <2> QED BY <1>2, <2>1
<1>4. w.accession \in Nat \ {0} /\ w.filed \in Nat
  BY <1>3, ConsistentRow
<1> QED BY <1>1, <1>3, <1>4 DEF HasFiling, NoAccession, StandsFor

LEMMA FieldFollows ==
  ASSUME NEW all, Consistent(all), Bounded(all), NEW f \in ReportedFields, NEW p,
         NEW asOf \in Nat, NEW now \in Nat, asOf <= now, NEW old, NEW new,
         IsOfItsRow(old, f, all, p, asOf), IsOfItsRow(new, f, all, p, now)
  PROVE  /\ SameFiling(old, new) => new.filed = old.filed
         /\ HasFiling(new) => Available(new, now)
         /\ old.value # NoValue =>
              /\ new.value # NoValue /\ HasFiling(old) /\ HasFiling(new)
              /\ Rank(f, new.concept) <= Rank(f, old.concept) /\ new.filed >= old.filed
              /\ HasItsValue(old, f, all, p, asOf) /\ HasItsValue(new, f, all, p, now) =>
                   old.value = new.value \/ (LaterFiling(old, new) /\ ~SameFiling(old, new))
<1> DEFINE e == Standing(f, all, p, asOf)
           g == Standing(f, all, p, now)
           w == Winner(f, e)
           x == Winner(f, g)
<1>1. ASSUME HasFiling(old) \/ old.value # NoValue
      PROVE  /\ e # {} /\ w \in all /\ w.filed \in Nat /\ Available(w, asOf) /\ HasFiling(old)
             /\ old.concept = w.concept /\ old.accession = w.accession /\ old.filed = w.filed
  <2>1. StandsFor(old, f, all, p, asOf)
    BY <1>1, RowStandsFor, Zenon
  <2> QED BY <2>1 DEF StandsFor
<1>2. ASSUME HasFiling(new) \/ new.value # NoValue
      PROVE  /\ g # {} /\ x \in all /\ x.filed \in Nat /\ Available(x, now) /\ HasFiling(new)
             /\ new.concept = x.concept /\ new.accession = x.accession /\ new.filed = x.filed
  <2>1. StandsFor(new, f, all, p, now)
    BY <1>2, RowStandsFor, Zenon
  <2> QED BY <2>1 DEF StandsFor
<1>3. w \in all /\ x \in all /\ w.accession = x.accession => w.filed = x.filed
  BY DEF Consistent
<1>4. e # {} => /\ g # {} /\ Rank(f, x.concept) <= Rank(f, w.concept)
                /\ x = w \/ x.filed > w.filed
  BY LaterStands
<1>5. g # {} => new.value # NoValue
  BY DEF IsOfItsRow
<1>6. /\ e # {} /\ HasItsValue(old, f, all, p, asOf) => old.value = w.value
      /\ g # {} /\ HasItsValue(new, f, all, p, now) => new.value = x.value
  BY DEF HasItsValue
<1> HIDE DEF e, g, w, x
<1>7. SameFiling(old, new) => new.filed = old.filed
  BY <1>1, <1>2, <1>3 DEF SameFiling
<1>8. HasFiling(new) => Available(new, now)
  BY <1>2 DEF Available
<1>9. ASSUME old.value # NoValue
      PROVE  /\ new.value # NoValue /\ HasFiling(old) /\ HasFiling(new)
             /\ Rank(f, new.concept) <= Rank(f, old.concept) /\ new.filed >= old.filed
             /\ HasItsValue(old, f, all, p, asOf) /\ HasItsValue(new, f, all, p, now) =>
                  old.value = new.value \/ (LaterFiling(old, new) /\ ~SameFiling(old, new))
  <2>1. new.value # NoValue /\ HasFiling(old) /\ HasFiling(new)
    BY <1>1, <1>2, <1>4, <1>5, <1>9
  <2>2. Rank(f, new.concept) <= Rank(f, old.concept)
    BY <1>1, <1>2, <1>4, <1>9, <2>1
  <2>3. new.filed >= old.filed
    BY <1>1, <1>2, <1>4, <1>9, <2>1
  <2>4. x = w \/ LaterFiling(old, new)
    BY <1>1, <1>2, <1>4, <1>9, <2>1 DEF LaterFiling
  <2>5. LaterFiling(old, new) => ~SameFiling(old, new)
    BY <1>1, <1>2, <1>7, <1>9, <2>1 DEF LaterFiling
  <2>6. HasItsValue(old, f, all, p, asOf) /\ HasItsValue(new, f, all, p, now) /\ x = w => old.value = new.value
    BY <1>1, <1>2, <1>6, <1>9, <2>1
  <2> QED BY <2>1, <2>2, <2>3, <2>4, <2>5, <2>6
<1> QED BY <1>7, <1>8, <1>9

-----------------------------------------------------------------------------
(* No accusation without a rewrite.                                                               *)
LEMMA IfIs == ASSUME NEW condition, NEW code, NEW x PROVE x \in If(condition, code) <=> condition /\ x = code
BY DEF If

LEMMA StatesCode == \A s \in DOMAIN RegressionCode : RegressionCode[s] \in
  {"EVIDENCE_CONFLICT_INTRODUCED", "UNIT_MISMATCH_INTRODUCED", "OBSERVATION_LOST",
   "POINT_IN_TIME_ELIGIBILITY_LOST", "PERIOD_ALIGNMENT_LOST", "VALIDATION_DOWNGRADE"}
BY DEF RegressionCode, States, UsableStates

LEMMA ExplanationIs ==
  ASSUME NEW b, NEW c, NEW revised
  PROVE  Explanation(b, c, revised) \in
           {"IMMATERIAL_VALUE_DRIFT", "SUSPECTED_UNCONVERTED_SCALE", "RESTATEMENT_WITH_NEW_FILING",
            "FILING_REGRESSION_EARLIER_ACCESSION", "VALUE_CHANGED_WITH_SOURCE_REVISION",
            "VALUE_CHANGED_WITHOUT_SOURCE_REVISION"}
<1> HIDE DEF Material
<1> QED BY DEF Explanation

LEMMA ExplainedByFiling ==
  ASSUME NEW b, NEW c, NEW revised, HasFiling(b), HasFiling(c), ~SameFiling(b, c), LaterFiling(b, c)
  PROVE  Explanation(b, c, revised) \notin Accusations
BY DEF Explanation, Accusations

LEMMA StateFindingsAre ==
  ASSUME NEW b, NEW c
  PROVE  StateFindings(b, c) \subseteq
           {"EVIDENCE_CONFLICT_INTRODUCED", "UNIT_MISMATCH_INTRODUCED", "OBSERVATION_LOST",
            "POINT_IN_TIME_ELIGIBILITY_LOST", "PERIOD_ALIGNMENT_LOST", "VALIDATION_DOWNGRADE",
            "STATE_REGRESSION", "STATE_IMPROVED", "STATE_CHANGED"}
<1> DEFINE code == IF c.state \in DOMAIN RegressionCode THEN RegressionCode[c.state] ELSE "STATE_REGRESSION"
<1>1. code \in {"EVIDENCE_CONFLICT_INTRODUCED", "UNIT_MISMATCH_INTRODUCED", "OBSERVATION_LOST",
                "POINT_IN_TIME_ELIGIBILITY_LOST", "PERIOD_ALIGNMENT_LOST", "VALIDATION_DOWNGRADE",
                "STATE_REGRESSION"}
  BY StatesCode
<1>2. \A x \in StateFindings(b, c) : x \in {code, "STATE_IMPROVED", "STATE_CHANGED"}
  BY IfIs DEF StateFindings
<1> HIDE DEF code
<1> QED BY <1>1, <1>2

LEMMA UnitFindingsAre ==
  ASSUME NEW f, NEW b, NEW c
  PROVE  UnitFindings(f, b, c) \subseteq {"CONTRACT_UNIT_VIOLATION", "UNIT_CORRECTED", "UNIT_CHANGED"}
BY IfIs DEF UnitFindings
LEMMA ConceptFindingsAre ==
  ASSUME NEW f, NEW b, NEW c
  PROVE  ConceptFindings(f, b, c) \subseteq
           {"PROHIBITED_BASIS_SUBSTITUTION", "BASIS_SUBSTITUTION_UNSUPPORTED",
            "CONCEPT_PRIORITY_DEMOTED", "CONCEPT_CHANGED"}
BY IfIs DEF ConceptFindings
LEMMA CorroborationFindingsAre ==
  ASSUME NEW b, NEW c, NEW checks
  PROVE  CorroborationFindings(b, c, checks) \subseteq
           {"NON_INDEPENDENT_CORROBORATION", "NON_INDEPENDENT_CORROBORATION_PREEXISTING"}
BY IfIs DEF CorroborationFindings
LEMMA ValueFindingsAre ==
  ASSUME NEW f, NEW b, NEW c, NEW revised, NEW x \in ValueFindings(f, b, c, revised)
  PROVE  \/ b.value # NoValue /\ c.value # NoValue /\ b.value # c.value /\ x = Explanation(b, c, revised)
         \/ x \in {"SIGN_CONVENTION_VIOLATION", "VALUE_LOST_WITH_USABLE_STATE"}
BY IfIs DEF ValueFindings
LEMMA AvailabilityFindingsAre ==
  ASSUME NEW b, NEW c, NEW asOf, NEW x \in AvailabilityFindings(b, c, asOf)
  PROVE  \/ SameFiling(b, c) /\ c.filed < b.filed /\ x = "AVAILABILITY_CUTOFF_INCONSISTENT"
         \/ SameFiling(b, c) /\ c.filed # b.filed /\ x = "FILING_DATE_INCONSISTENT"
         \/ HasFiling(c) /\ ~Available(c, asOf) /\ x = "FUTURE_AVAILABILITY_UNSUPPORTED"
BY IfIs DEF AvailabilityFindings

LEMMA NotAccused ==
  ASSUME NEW f, NEW b, NEW c, NEW old, NEW new,
         SameFiling(old, new) => new.filed = old.filed,
         old.filed \in Nat \/ ~SameFiling(old, new),
         HasFiling(new) => Available(new, c.asOf),
         old.value # NoValue /\ new.value # NoValue /\ old.value # new.value =>
           HasFiling(old) /\ HasFiling(new) /\ ~SameFiling(old, new) /\ LaterFiling(old, new)
  PROVE  FieldFindings(f, old, new, b, c) \cap Accusations = {}
<1> SUFFICES ASSUME NEW x \in FieldFindings(f, old, new, b, c) PROVE x \notin Accusations
  OBVIOUS
<1> DEFINE revised == b.object # c.object
<1>1. \/ x \in UnitFindings(f, old, new) \/ x \in ConceptFindings(f, old, new)
      \/ x \in ValueFindings(f, old, new, revised) \/ x \in AvailabilityFindings(old, new, c.asOf)
      \/ x \in StateFindings(old, new) \/ x \in CorroborationFindings(old, new, c.checks)
  BY DEF FieldFindings
<1> HIDE DEF revised
<1>2. CASE x \in UnitFindings(f, old, new)
  BY <1>2, UnitFindingsAre DEF Accusations
<1>3. CASE x \in ConceptFindings(f, old, new)
  BY <1>3, ConceptFindingsAre DEF Accusations
<1>4. CASE x \in ValueFindings(f, old, new, revised)
  <2>1. \/ old.value # NoValue /\ new.value # NoValue /\ old.value # new.value /\ x = Explanation(old, new, revised)
        \/ x \in {"SIGN_CONVENTION_VIOLATION", "VALUE_LOST_WITH_USABLE_STATE"}
    BY <1>4, ValueFindingsAre, Zenon
  <2>2. CASE old.value # NoValue /\ new.value # NoValue /\ old.value # new.value /\ x = Explanation(old, new, revised)
    BY <2>2, ExplainedByFiling
  <2> QED BY <2>1, <2>2 DEF Accusations
<1>5. CASE x \in AvailabilityFindings(old, new, c.asOf)
  <2>1. ~(new.filed < old.filed) \/ ~SameFiling(old, new)
    OBVIOUS
  <2> QED BY <1>5, <2>1, AvailabilityFindingsAre DEF Accusations
<1>6. CASE x \in StateFindings(old, new)
  BY <1>6, StateFindingsAre DEF Accusations
<1>7. CASE x \in CorroborationFindings(old, new, c.checks)
  BY <1>7, CorroborationFindingsAre DEF Accusations
<1> QED BY <1>1, <1>2, <1>3, <1>4, <1>5, <1>6, <1>7

LEMMA Safe_FilingsExplainValues == RegistryInv => FilingsExplainValues
<1> SUFFICES ASSUME RegistryInv, baseline.rewrites = rewrites,
                    NEW p \in Periods(baseline.report) \cap Periods(Report({})), NEW f \in ReportedFields
             PROVE  FieldFindings(f, baseline.report.fields[p][f], Report({}).fields[p][f],
                                  baseline.report, Report({})) \cap Accusations = {}
  BY Zenon DEF FilingsExplainValues, AccusedOf
<1> DEFINE b == baseline.report
           c == Report({})
           old == b.fields[p][f]
           new == c.fields[p][f]
<1>1. /\ Consistent(facts) /\ Bounded(facts) /\ day \in Nat /\ b.asOf \in Nat /\ b.asOf <= day
      /\ FieldsAreOfRows(b.fields, facts, b.asOf) /\ FieldsHaveValues(b.fields, facts, b.asOf)
  BY FactsAreBounded DEF RegistryInv, FactsInv, BaselineInv
<1>2. /\ c.asOf = day /\ FieldsAreOfRows(c.fields, facts, day) /\ FieldsHaveValues(c.fields, facts, day)
  BY ReportIs DEF RegistryInv
<1>3. p \in DOMAIN b.fields /\ p \in DOMAIN c.fields
  BY DEF Periods
<1> HIDE DEF b, c
<1>4. /\ IsOfItsRow(old, f, facts, p, b.asOf) /\ HasItsValue(old, f, facts, p, b.asOf)
      /\ IsOfItsRow(new, f, facts, p, day) /\ HasItsValue(new, f, facts, p, day)
  BY <1>1, <1>2, <1>3 DEF FieldsAreOfRows, FieldsHaveValues
<1>5. HasFiling(old) => old.filed \in Nat
  <2>1. HasFiling(old) => StandsFor(old, f, facts, p, b.asOf)
    BY <1>1, <1>4, RowStandsFor, Zenon
  <2> QED BY <2>1 DEF StandsFor
<1> HIDE DEF old, new
<1>6. /\ SameFiling(old, new) => new.filed = old.filed
      /\ HasFiling(new) => Available(new, c.asOf)
      /\ old.value # NoValue =>
           /\ HasFiling(old) /\ HasFiling(new)
           /\ old.value = new.value \/ (LaterFiling(old, new) /\ ~SameFiling(old, new))
  BY <1>1, <1>2, <1>4, FieldFollows
<1>7. old.filed \in Nat \/ ~SameFiling(old, new)
  BY <1>5 DEF SameFiling
<1>8. FieldFindings(f, old, new, b, c) \cap Accusations = {}
  BY <1>6, <1>7, NotAccused
<1> QED BY <1>8 DEF old, new, b, c

\* Whatever is filed, and in whatever order the report and the sources are read, a change of a
\* reported field is accused only after the stored facts were rewritten without a filing.
THEOREM ValuesAreExplained == RegistrySpec => []FilingsExplainValues
BY RegistryInvariance, Safe_FilingsExplainValues, PTL

-----------------------------------------------------------------------------
(* The severity of every finding is known, and an accepted report has no doubtful one.            *)
Known == DOMAIN Severity
LEMMA KnownIs == Known = Observed \cup Doubtful \cup Failing
BY DEF Known, Severity

LEMMA RankOfSeverity ==
  ASSUME NEW f \in Known
  PROVE  /\ SeverityRank(Severity[f]) \in 1..4
         /\ f \in Doubtful \cup Failing => SeverityRank(Severity[f]) \in {3, 4}
<1>1. Severity[f] = IF f \in Failing THEN "FAIL" ELSE IF f \in Doubtful THEN "WARNING" ELSE "INFO"
  BY KnownIs DEF Severity
<1>2. SeverityRank("FAIL") = 4 /\ SeverityRank("WARNING") = 3 /\ SeverityRank("INFO") = 2
  <2>1. ASSUME NEW i \in 1..4
        PROVE  /\ Severities[i] = "FAIL" <=> i = 4
               /\ Severities[i] = "WARNING" <=> i = 3
               /\ Severities[i] = "INFO" <=> i = 2
    <3>1. i = 1 \/ i = 2 \/ i = 3 \/ i = 4
      OBVIOUS
    <3> QED BY <3>1 DEF Severities
  <2> QED BY <2>1 DEF SeverityRank
<1> QED BY <1>1, <1>2

LEMMA VerdictIs ==
  ASSUME NEW findings, findings \subseteq Known, OverallSeverity(findings) \in {"PASS", "INFO"}
  PROVE  findings \cap (Doubtful \cup Failing) = {}
<1> DEFINE ranks == {SeverityRank(Severity[f]) : f \in findings} \cup {1}
           top == CHOOSE i \in ranks : \A j \in ranks : j <= i
<1>1. ranks \in SUBSET (0..4) /\ ranks # {}
  BY RankOfSeverity
<1>2. top \in ranks /\ \A j \in ranks : j <= top
  <2>1. \E i \in ranks : \A j \in ranks : j <= i
    BY <1>1, NumberGreatest
  <2> QED BY <2>1
<1>3. top \in {1, 2}
  <2>1. OverallSeverity(findings) = Severities[top]
    BY DEF OverallSeverity
  <2>2. top \in 1..4
    BY <1>2, RankOfSeverity
  <2> HIDE DEF top
  <2>3. top = 1 \/ top = 2 \/ top = 3 \/ top = 4
    BY <2>2
  <2> QED BY <2>1, <2>3 DEF Severities
<1>4. ASSUME NEW f \in findings, f \in Doubtful \cup Failing PROVE FALSE
  <2>1. SeverityRank(Severity[f]) \in ranks /\ SeverityRank(Severity[f]) \in {3, 4}
    BY <1>4, RankOfSeverity
  <2> HIDE DEF ranks, top
  <2>2. SeverityRank(Severity[f]) <= top
    BY <1>2, <2>1
  <2> QED BY <1>3, <2>1, <2>2
<1> QED BY <1>4

LEMMA FieldFindingsAreKnown ==
  ASSUME NEW f, NEW old, NEW new, NEW b, NEW c
  PROVE  FieldFindings(f, old, new, b, c) \subseteq Known
<1> SUFFICES ASSUME NEW x \in FieldFindings(f, old, new, b, c)
             PROVE  x \in Observed \cup Doubtful \cup Failing
  BY KnownIs
<1> DEFINE revised == b.object # c.object
<1>1. \/ x \in UnitFindings(f, old, new) \/ x \in ConceptFindings(f, old, new)
      \/ x \in ValueFindings(f, old, new, revised) \/ x \in AvailabilityFindings(old, new, c.asOf)
      \/ x \in StateFindings(old, new) \/ x \in CorroborationFindings(old, new, c.checks)
  BY DEF FieldFindings
<1> HIDE DEF revised
<1>2. CASE x \in UnitFindings(f, old, new)
  BY <1>2, UnitFindingsAre DEF Observed, Doubtful, Failing
<1>3. CASE x \in ConceptFindings(f, old, new)
  BY <1>3, ConceptFindingsAre DEF Observed, Doubtful, Failing
<1>4. CASE x \in ValueFindings(f, old, new, revised)
  <2>1. \/ x = Explanation(old, new, revised)
        \/ x \in {"SIGN_CONVENTION_VIOLATION", "VALUE_LOST_WITH_USABLE_STATE"}
    BY <1>4, ValueFindingsAre, Zenon
  <2> QED BY <2>1, ExplanationIs DEF Observed, Doubtful, Failing
<1>5. CASE x \in AvailabilityFindings(old, new, c.asOf)
  BY <1>5, AvailabilityFindingsAre DEF Failing
<1>6. CASE x \in StateFindings(old, new)
  BY <1>6, StateFindingsAre DEF Observed, Doubtful, Failing
<1>7. CASE x \in CorroborationFindings(old, new, c.checks)
  BY <1>7, CorroborationFindingsAre DEF Doubtful, Failing
<1> QED BY <1>1, <1>2, <1>3, <1>4, <1>5, <1>6, <1>7

LEMMA FindingsAreKnown ==
  ASSUME NEW b, NEW c
  PROVE  Findings(b, c) \subseteq Known
<1> DEFINE ofFields == UNION {FieldFindings(f, b.fields[p][f], c.fields[p][f], b, c) :
                                f \in FieldIds, p \in Periods(b) \cap Periods(c)}
<1>1. Findings(b, c) = If(c.asOf < b.asOf, "AS_OF_REGRESSION")
        \cup FamilyFindings(b, c) \cup IdentityFindings(b, c)
        \cup CoverageFindings(b, c) \cup BlockerFindings(b, c) \cup ofFields
  BY DEF Findings
<1>2. ofFields \subseteq Known
  BY FieldFindingsAreKnown
<1>3. If(c.asOf < b.asOf, "AS_OF_REGRESSION") \subseteq Known
  BY IfIs, KnownIs DEF Doubtful
<1>4. FamilyFindings(b, c) \subseteq Known
  <2> SUFFICES ASSUME NEW x \in FamilyFindings(b, c) PROVE x \in Known
    OBVIOUS
  <2>1. x \in {"SOURCE_FAMILY_UNRESOLVED", "SOURCE_FAMILY_RECOVERED", "MANIFEST_ARTIFACT_SAMPLE_INCOMPLETE"}
    BY IfIs DEF FamilyFindings
  <2> QED BY <2>1, KnownIs DEF Observed, Failing
<1>5. IdentityFindings(b, c) \subseteq Known
  <2> SUFFICES ASSUME NEW x \in IdentityFindings(b, c) PROVE x \in Known
    OBVIOUS
  <2>1. x \in {"ISSUER_IDENTITY_CHANGED", "ISSUER_IDENTITY_UNRESOLVED", "SOURCE_IDENTITY_REGRESSION",
               "SOURCE_IDENTITY_DIVERGENCE_OBSERVED"}
    BY IfIs DEF IdentityFindings
  <2> QED BY <2>1, KnownIs DEF Observed, Doubtful, Failing
<1>6. CoverageFindings(b, c) \subseteq Known
  <2> SUFFICES ASSUME NEW x \in CoverageFindings(b, c) PROVE x \in Known
    OBVIOUS
  <2>1. x \in {"PERIOD_OBSERVED_LOST", "PERIOD_OBSERVED_ADDED", "COMPANY_OVERALL_COLLAPSE",
               "COMPANY_OVERALL_DOWNGRADE", "COMPANY_OVERALL_CHANGED"}
    BY IfIs DEF CoverageFindings
  <2> QED BY <2>1, KnownIs DEF Observed, Doubtful, Failing
<1>7. BlockerFindings(b, c) \subseteq Known
  BY IfIs, KnownIs DEF BlockerFindings, Observed, Failing
<1> HIDE DEF ofFields
<1> QED BY <1>1, <1>2, <1>3, <1>4, <1>5, <1>6, <1>7, Zenon

-----------------------------------------------------------------------------
(* What is lost between two results is a finding.                                                 *)
Grave == Doubtful \cup Failing

LEMMA DemotionIsGrave ==
  ASSUME NEW old, NEW new, old.state \in States, new.state \in States,
         StateFindings(old, new) \cap Grave = {}
  PROVE  (Usable(old) => Usable(new)) /\ (Validated(old) => Validated(new))
<1> DEFINE code == IF new.state \in DOMAIN RegressionCode THEN RegressionCode[new.state] ELSE "STATE_REGRESSION"
<1>1. code \in Grave
  <2>1. code \in {"EVIDENCE_CONFLICT_INTRODUCED", "UNIT_MISMATCH_INTRODUCED", "OBSERVATION_LOST",
                  "POINT_IN_TIME_ELIGIBILITY_LOST", "PERIOD_ALIGNMENT_LOST", "VALIDATION_DOWNGRADE",
                  "STATE_REGRESSION"}
    BY StatesCode
  <2> QED BY <2>1 DEF Grave, Doubtful, Failing
<1>2. ASSUME old.state # new.state, StateRank[new.state] < StateRank[old.state] PROVE FALSE
  <2>1. code \in StateFindings(old, new)
    BY <1>2, IfIs, Zenon DEF StateFindings
  <2> QED BY <1>1, <2>1
<1>3. \A s \in States : /\ StateRank[s] \in 0..5 /\ (s \in UsableStates <=> StateRank[s] >= 2)
                        /\ (s \in ValidatedStates <=> StateRank[s] >= 3)
  BY DEF StateRank, States, UsableStates, ValidatedStates
<1>4. StateRank[old.state] <= StateRank[new.state]
  BY <1>2, <1>3
<1> QED BY <1>3, <1>4 DEF Usable, Validated

LEMMA CorroborationIsOfAnother ==
  ASSUME NEW old, NEW new, NEW checks, CorroborationFindings(old, new, checks) \cap Grave = {},
         new.state = "SOURCE_VALIDATED",
         new.confirmed # {} => Range(checks) # {} /\ Range(checks) \subseteq {"MATCH", "DIFFERENT_SOURCE_OBJECT"}
  PROVE  "DIFFERENT_SOURCE_OBJECT" \in Range(checks)
<1>1. ASSUME Independent(new, checks) = "no" PROVE FALSE
  <2>1. CASE Validated(old)
    <3>1. "NON_INDEPENDENT_CORROBORATION_PREEXISTING" \in CorroborationFindings(old, new, checks)
      BY <1>1, <2>1, IfIs DEF CorroborationFindings
    <3> QED BY <3>1 DEF Grave, Doubtful
  <2>2. CASE ~Validated(old)
    <3>1. "NON_INDEPENDENT_CORROBORATION" \in CorroborationFindings(old, new, checks)
      BY <1>1, <2>2, IfIs DEF CorroborationFindings
    <3> QED BY <3>1 DEF Grave, Failing
  <2> QED BY <2>1, <2>2
<1>2. new.confirmed # {}
  BY <1>1 DEF Independent
<1>3. "MATCH" \notin Range(checks) \/ "DIFFERENT_SOURCE_OBJECT" \in Range(checks)
  BY <1>1, <1>2 DEF Independent
<1> QED BY <1>2, <1>3

LEMMA MaterialChangeIsOfALaterFiling ==
  ASSUME NEW f, NEW old, NEW new, NEW revised, old.value # NoValue, new.value \in Int \ {NoValue},
         Material(old.value, new.value), ValueFindings(f, old, new, revised) \cap Grave = {}
  PROVE  new.filed > old.filed
<1>1. old.value # new.value
  <2> SUFFICES ASSUME old.value = new.value PROVE FALSE
    OBVIOUS
  <2>1. Abs(new.value - old.value) = 0
    BY DEF Abs
  <2> QED BY <2>1, RegistryAssumption DEF Material
<1>2. Explanation(old, new, revised) \in ValueFindings(f, old, new, revised)
  BY <1>1, IfIs DEF ValueFindings
<1>3. Explanation(old, new, revised) \notin Grave
  BY <1>2
<1>4. {"SUSPECTED_UNCONVERTED_SCALE", "FILING_REGRESSION_EARLIER_ACCESSION",
       "VALUE_CHANGED_WITH_SOURCE_REVISION", "VALUE_CHANGED_WITHOUT_SOURCE_REVISION"} \subseteq Grave
  BY DEF Grave, Doubtful, Failing
<1>5. LaterFiling(old, new)
  BY <1>3, <1>4 DEF Explanation
<1> QED BY <1>5 DEF LaterFiling

LEMMA AcceptedInherits ==
  ASSUME RegistryInv, NEW lost, baseline.report.fields # <<>>, Accepts(Report(lost))
  PROVE  Inherits(baseline.report, Report(lost))
<1> DEFINE b == baseline.report
           c == Report(lost)
<1>1. /\ Consistent(facts) /\ Bounded(facts) /\ day \in Nat /\ b.asOf \in Nat /\ b.asOf <= day
      /\ FieldsAreOfRows(b.fields, facts, b.asOf) /\ b.cik = "cik"
  BY FactsAreBounded DEF RegistryInv, FactsInv, BaselineInv
<1>2. /\ c.asOf = day /\ c.cik \in {"none", "cik"}
      /\ FieldsAreOfRows(c.fields, facts, day) /\ FieldsHaveValues(c.fields, facts, day)
      /\ \A p \in DOMAIN c.fields, f \in FieldIds :
           c.fields[p][f].confirmed # {} =>
             Range(c.checks) # {} /\ Range(c.checks) \subseteq {"MATCH", "DIFFERENT_SOURCE_OBJECT"}
  BY ReportIs DEF RegistryInv
<1>3. Findings(b, c) \cap Grave = {}
  <2>1. b # NoReport
    BY DEF NoReport
  <2>2. OverallSeverity(Findings(b, c)) \in {"PASS", "INFO"}
    BY <2>1 DEF Accepts, Compared, Verdict
  <2> QED BY <2>2, FindingsAreKnown, VerdictIs, Zenon DEF Grave
<1> HIDE DEF b, c
<1>4. Periods(b) \subseteq Periods(c)
  <2>1. CoverageFindings(b, c) \subseteq Findings(b, c)
    BY DEF Findings
  <2>2. "PERIOD_OBSERVED_LOST" \in Grave
    BY DEF Grave, Doubtful
  <2>3. Periods(b) \ Periods(c) # {} => "PERIOD_OBSERVED_LOST" \in CoverageFindings(b, c)
    BY IfIs DEF CoverageFindings
  <2> QED BY <1>3, <2>1, <2>2, <2>3
<1>5. b.cik = c.cik
  <2>1. IdentityFindings(b, c) \subseteq Findings(b, c)
    BY DEF Findings
  <2>2. "ISSUER_IDENTITY_UNRESOLVED" \in Grave
    BY DEF Grave, Failing
  <2>3. b.cik # "none" /\ c.cik = "none" => "ISSUER_IDENTITY_UNRESOLVED" \in IdentityFindings(b, c)
    BY IfIs DEF IdentityFindings
  <2> QED BY <1>1, <1>2, <1>3, <2>1, <2>2, <2>3
<1>6. ASSUME NEW p \in Periods(b), NEW f \in FieldIds
      PROVE  LET old == b.fields[p][f]  new == c.fields[p][f] IN
             /\ Usable(old) => Usable(new)
             /\ Validated(old) => Validated(new)
             /\ Usable(old) /\ f \in ReportedFields =>
                  /\ Rank(f, new.concept) <= Rank(f, old.concept)
                  /\ new.filed >= old.filed
                  /\ Material(old.value, new.value) => new.filed > old.filed
             /\ new.state = "SOURCE_VALIDATED" => "DIFFERENT_SOURCE_OBJECT" \in Range(c.checks)
  <2> DEFINE old == b.fields[p][f]
             new == c.fields[p][f]
             revised == b.object # c.object
  <2>1. p \in DOMAIN b.fields /\ p \in DOMAIN c.fields /\ p \in Periods(b) \cap Periods(c)
    BY <1>4, <1>6 DEF Periods
  <2>2. FieldFindings(f, old, new, b, c) \cap Grave = {}
    <3>1. FieldFindings(f, old, new, b, c) \subseteq Findings(b, c)
      BY <1>6, <2>1 DEF Findings
    <3> QED BY <1>3, <3>1
  <2>3. IsResult(old) /\ IsResult(new)
    BY <1>1, <1>2, <1>6, <2>1 DEF FieldsAreOfRows
  <2>4. /\ StateFindings(old, new) \subseteq FieldFindings(f, old, new, b, c)
        /\ ValueFindings(f, old, new, revised) \subseteq FieldFindings(f, old, new, b, c)
        /\ CorroborationFindings(old, new, c.checks) \subseteq FieldFindings(f, old, new, b, c)
    BY DEF FieldFindings
  <2>5. f \in ReportedFields => /\ IsOfItsRow(old, f, facts, p, b.asOf) /\ IsOfItsRow(new, f, facts, p, day)
                                /\ HasItsValue(new, f, facts, p, day)
    BY <1>1, <1>2, <2>1 DEF FieldsAreOfRows, FieldsHaveValues
  <2>6. new.confirmed # {} => Range(c.checks) # {} /\ Range(c.checks) \subseteq {"MATCH", "DIFFERENT_SOURCE_OBJECT"}
    BY <1>2, <1>6, <2>1
  <2> HIDE DEF old, new, revised
  <2>7. (Usable(old) => Usable(new)) /\ (Validated(old) => Validated(new))
    BY <2>2, <2>3, <2>4, DemotionIsGrave DEF IsResult
  <2>8. new.state = "SOURCE_VALIDATED" => "DIFFERENT_SOURCE_OBJECT" \in Range(c.checks)
    BY <2>2, <2>4, <2>6, CorroborationIsOfAnother
  <2>9. ASSUME Usable(old), f \in ReportedFields
        PROVE  /\ Rank(f, new.concept) <= Rank(f, old.concept)
               /\ new.filed >= old.filed
               /\ Material(old.value, new.value) => new.filed > old.filed
    <3>1. old.value # NoValue
      BY <2>5, <2>9 DEF IsOfItsRow
    <3>2. /\ new.value # NoValue /\ Rank(f, new.concept) <= Rank(f, old.concept) /\ new.filed >= old.filed
      BY <1>1, <2>5, <2>9, <3>1, FieldFollows
    <3>3. new.value \in Int \ {NoValue}
      <4>1. StandsFor(new, f, facts, p, day)
        BY <1>1, <2>5, <2>9, <3>2, RowStandsFor, Zenon
      <4> DEFINE w == Winner(f, Standing(f, facts, p, day))
      <4>2. w \in facts /\ new.value = w.value
        BY <2>5, <2>9, <4>1 DEF StandsFor, HasItsValue
      <4> HIDE DEF w
      <4> QED BY <1>1, <4>2, ConsistentRow
    <3>4. Material(old.value, new.value) => new.filed > old.filed
      BY <2>2, <2>4, <3>1, <3>3, MaterialChangeIsOfALaterFiling
    <3> QED BY <3>2, <3>4
  <2> QED BY <2>7, <2>8, <2>9 DEF old, new
<1> QED BY <1>4, <1>5, <1>6 DEF Inherits, b, c

LEMMA Step_AcceptedHidesNothing ==
  RegistryInv /\ [RegistryNext]_registryVars =>
    (baseline' # baseline /\ baseline.report.fields # <<>> => Inherits(baseline.report, baseline'.report))
<1> SUFFICES ASSUME RegistryInv, [RegistryNext]_registryVars, baseline' # baseline, baseline.report.fields # <<>>
             PROVE  Inherits(baseline.report, baseline'.report)
  OBVIOUS
<1>1. ASSUME baseline' = baseline PROVE FALSE
  BY <1>1
<1>2. PICK lost : Screen(lost)
  BY <1>1 DEF RegistryNext, registryVars, File, Rewrite, NextDay, ApprovePacket, Publish
<1>3. Accepts(Report(lost)) /\ baseline' = [report |-> Report(lost), rewrites |-> rewrites]
  BY <1>2 DEF Screen
<1>4. baseline'.report = Report(lost)
  BY <1>3
<1>5. Inherits(baseline.report, Report(lost))
  BY <1>3, AcceptedInherits
<1> QED BY <1>4, <1>5

\* Whatever is filed or rewritten, and whatever sources are lost, an accepted report hides nothing
\* of its baseline.
THEOREM AcceptedReportsInherit == RegistrySpec => AcceptedHidesNothing
<1>1. RegistryInv /\ [RegistryNext]_registryVars =>
        [baseline' # baseline /\ baseline.report.fields # <<>> =>
           Inherits(baseline.report, baseline'.report)]_registryVars
  BY Step_AcceptedHidesNothing
<1> QED BY <1>1, RegistryInvariance, PTL DEF RegistrySpec, AcceptedHidesNothing
=============================================================================
