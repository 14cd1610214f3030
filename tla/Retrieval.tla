------------------------------ MODULE Retrieval ------------------------------
(***************************************************************************)
(* A request to the research terminal for one company: the orchestrator    *)
(* makes tasks of it, the retrieval agent routes every task to an adapter, *)
(* the adapter answers from the response cache or asks its source, with    *)
(* retries, and the orchestrator validates what came and keeps processed   *)
(* filings in the document store.                                          *)
(*                                                                         *)
(* Several processes share the cache and the document store; each has the  *)
(* adapters its configuration gives it and its own copy of the ticker map. *)
(* A source may fail at any call; the list of filings that edgartools      *)
(* returns need not have what the direct SEC client finds.                 *)
(***************************************************************************)
EXTENDS Integers, Sequences, FiniteSets

CONSTANTS
  Clients,      \* processes
  Years,        \* the filings of the company, by year
  Attempts,     \* of adapter_retry
  MaxAsks       \* bound on the requests

ASSUME RetrievalAssumption ==
  /\ Years \in SUBSET (Nat \ {0}) /\ \E y \in Years : \A z \in Years : z <= y
  /\ Attempts \in Nat \ {0} /\ MaxAsks \in Nat

LastYear == CHOOSE y \in Years : \A z \in Years : z <= y
NoYear == 0          \* no year was asked for, or none is known

VARIABLES
  adapters,   \* the adapters of each process
  tickers,    \* _ticker_map of each process
  cache,      \* the response cache
  docs,       \* the document store: what it holds under each filing date
  client,     \* the request each process works on
  asks

retrievalVars == <<adapters, tickers, cache, docs, client, asks>>

\* A task: which source it names, what for, and which filing year.
Task(source, action, year) == [source |-> source, action |-> action, year |-> year]
SecActions == {"filings", "financials", "company_facts", "filing_markdown"}

\* The direct methods choose the source of financial statements themselves; the
\* tasks of a query name the SEC, and those of a model need not name anything.
Direct(c, action, year) ==
  CASE action \in {"quote", "history", "info"} -> <<Task("yahoo", action, NoYear)>>
    [] action = "financials" ->
         IF "sec" \in adapters[c] THEN <<Task("sec", action, year)>>
         ELSE <<Task("yahoo", action, NoYear)>>
    [] action = "macro" -> <<Task("fred", action, NoYear)>>
    [] OTHER -> <<Task("sec", action, year)>>
Query(intent, year) ==
  CASE intent = "multi" -> <<Task("yahoo", "quote", NoYear), Task("fred", "macro", NoYear)>>
    [] intent \in SecActions -> <<Task("sec", intent, year)>>
    [] intent = "llm" -> <<Task("unnamed", "financials", year)>>
    [] OTHER -> <<Task("yahoo", "quote", NoYear)>>

\* The adapter of a task, and whether it stands in for the SEC.
Registered(c, t) == t.source \in adapters[c]
FallsBack(c, t) ==
  ~Registered(c, t) /\ t.action \in SecActions /\ "sec" \notin adapters[c]
Adapter(c, t) ==
  IF Registered(c, t) THEN t.source
  ELSE CASE t.action \in SecActions -> IF "sec" \in adapters[c] THEN "sec" ELSE "yahoo"
         [] t.action = "macro" -> IF "fred" \in adapters[c] THEN "fred" ELSE "none"
         [] OTHER -> "yahoo"

\* Mutant of CacheKey: the mark of a fallback is no part of the key.
UnmarkedKey(c, t) == [task |-> t, marked |-> FALSE]
\* The key is made of the parameters of the task, the name of its source and the
\* mark of a fallback with them.
CacheKey(c, t) == [task |-> t, marked |-> FallsBack(c, t)]
Tasks ==
  {Task("yahoo", "quote", NoYear), Task("yahoo", "financials", NoYear),
   Task("fred", "macro", NoYear), Task("unnamed", "financials", NoYear)}
  \cup {Task("sec", action, year) : action \in {"financials", "filing_markdown"},
                                    year \in Years \cup {NoYear}}
Keys == [task : Tasks, marked : BOOLEAN]

\* What an adapter returns.  filing: whose content it is; label: the accession
\* number it carries; dated: its filing date; listed: whether edgartools had the
\* filing asked for; parsed: FALSE for filing metadata without statements.  The
\* checks of the validation are left out: only a quote can fail one, and a quote
\* is not kept.
Item(from, filing, label, dated, listed, parsed) ==
  [from |-> from, filing |-> filing, label |-> label, dated |-> dated,
   listed |-> listed, parsed |-> parsed]
Plain(from) == Item(from, NoYear, NoYear, NoYear, TRUE, TRUE)
Statement(y, parsed) == Item("sec", y, y, y, TRUE, parsed)
NoItem == Plain("nothing")

IdleClient == [pc |-> "idle", tasks |-> <<>>, tries |-> 0, item |-> NoItem,
         warned |-> FALSE, items |-> {}, keep |-> FALSE, about |-> "none"]
Now(c) == Head(client[c].tasks)
At(c, pc) == client[c].pc = pc

RetrievalInit ==
  /\ adapters \in [Clients -> {{"yahoo", "fred"}, {"yahoo", "sec"}}]
  /\ tickers = [c \in Clients |-> "unloaded"]
  /\ cache = [k \in Keys |-> NoItem]
  /\ docs = [d \in Years \cup {NoYear} |-> NoItem]
  /\ client = [c \in Clients |-> IdleClient]
  /\ asks = 0

-----------------------------------------------------------------------------
Begin(c, tasks, about, keep) ==
  /\ At(c, "idle") /\ asks < MaxAsks
  /\ client' = [client EXCEPT ![c] = [IdleClient EXCEPT !.pc = "route", !.tasks = tasks,
                                                 !.about = about, !.keep = keep]]
  /\ asks' = asks + 1
  /\ UNCHANGED <<adapters, tickers, cache, docs>>

AskDirect(c, action, year) ==
  Begin(c, Direct(c, action, year), "any", action = "filing_markdown")
AskQuery(c, intent, year) ==
  Begin(c, Query(intent, year), IF intent = "multi" THEN "any" ELSE "filings", FALSE)

\* No adapter takes the task: an error, and the next task.
Unrouted(c) ==
  /\ At(c, "route") /\ client[c].tasks # <<>> /\ Adapter(c, Now(c)) = "none"
  /\ client' = [client EXCEPT ![c] = [client[c] EXCEPT !.tasks = Tail(@)]]
  /\ UNCHANGED <<adapters, tickers, cache, docs, asks>>

\* Mutant of Route: only a task that names its source can fall back.
RouteNamed(c) ==
  /\ At(c, "route") /\ client[c].tasks # <<>> /\ Adapter(c, Now(c)) # "none"
  /\ client' = [client EXCEPT ![c] = [client[c] EXCEPT !.pc = "lookup", !.tries = 0,
                  !.warned = @ \/ (FallsBack(c, Now(c)) /\ Now(c).source # "unnamed")]]
  /\ UNCHANGED <<adapters, tickers, cache, docs, asks>>

\* A fallback is recorded before the adapter is asked.
Route(c) ==
  /\ At(c, "route") /\ client[c].tasks # <<>> /\ Adapter(c, Now(c)) # "none"
  /\ client' = [client EXCEPT ![c] = [client[c] EXCEPT !.pc = "lookup", !.tries = 0,
                  !.warned = @ \/ FallsBack(c, Now(c))]]
  /\ UNCHANGED <<adapters, tickers, cache, docs, asks>>

Take(c, item) ==
  client' = [client EXCEPT ![c] = [client[c] EXCEPT !.pc = "route", !.tasks = Tail(@),
                                                    !.items = @ \cup {item}]]

\* What is cached is the data alone: the warnings that came with it are lost.
CacheHit(c) ==
  LET item == cache[CacheKey(c, Now(c))] IN
  /\ At(c, "lookup") /\ item # NoItem
  /\ Take(c, item)
  /\ UNCHANGED <<adapters, tickers, cache, docs, asks>>

\* The SEC adapter needs the ticker map, which is loaded once: a failure leaves an
\* empty map, which is never loaded again.
CacheMiss(c) ==
  /\ At(c, "lookup") /\ cache[CacheKey(c, Now(c))] = NoItem
  /\ client' = [client EXCEPT ![c].pc = "fetch"]
  /\ IF Adapter(c, Now(c)) = "sec" /\ tickers[c] = "unloaded"
     THEN \E m \in {"loaded", "empty"} : tickers' = [tickers EXCEPT ![c] = m]
     ELSE UNCHANGED tickers
  /\ UNCHANGED <<adapters, cache, docs, asks>>

\* The filing the direct SEC client finds: that of the year, or the latest; it may
\* find none, and finds none without a ticker map.
Found(c, year) ==
  {NoYear} \cup IF tickers[c] = "loaded" THEN {IF year = NoYear THEN LastYear ELSE year} ELSE {}

\* edgartools: it fails, or lists some of the filings, the newest first.
Listings == SUBSET Years
Newest(l) == IF l = {} THEN NoYear ELSE CHOOSE y \in l : \A z \in l : z <= y

\* The filing of the year when edgartools lists it, or else the first it lists.  Its
\* content when that can be opened, or else what the direct URL has.  The accession
\* number is that of the direct client, the date that of edgartools.
MarkdownOf(target, year, l, opened) ==
  LET filing == IF year # NoYear /\ target \in l THEN target ELSE Newest(l)
      label == IF target # NoYear THEN target ELSE filing
  IN Item("sec", IF opened THEN filing ELSE target, label, filing,
          target \in l \/ l = {}, TRUE)

Markdown(c, t) ==
  {i \in {MarkdownOf(target, t.year, l, opened) :
            target \in Found(c, t.year) \ {IF t.year # NoYear THEN NoYear ELSE -1},
            l \in Listings, opened \in BOOLEAN} :
     i.filing # NoYear}

\* Statements parsed by edgartools, those of a year only when the direct client finds
\* its filing; or, when edgartools fails, filing metadata from the direct client.
Financials(c, t) ==
  LET found == Found(c, t.year) \ {NoYear} IN
  {Statement(y, TRUE) : y \in IF t.year = NoYear THEN {LastYear} ELSE found}
    \cup {Statement(y, FALSE) : y \in found}

AnswersOf(c, t) ==
  CASE Adapter(c, t) = "sec" /\ t.action = "filing_markdown" -> Markdown(c, t)
    [] Adapter(c, t) = "sec" /\ t.action # "filing_markdown" -> Financials(c, t)
    [] Adapter(c, t) = "yahoo" /\ t.action = "quote" -> {Plain("yahoo")}
    [] Adapter(c, t) = "yahoo" /\ t.action = "financials" -> {Plain("yahoo")}
    [] Adapter(c, t) = "fred" -> {Plain("fred")}
    [] OTHER -> {}

Fetched(c, item) ==
  /\ At(c, "fetch") /\ item \in AnswersOf(c, Now(c))
  /\ client' = [client EXCEPT ![c] = [client[c] EXCEPT !.pc = "store", !.item = item,
                                                       !.warned = @ \/ ~item.parsed]]
  /\ UNCHANGED <<adapters, tickers, cache, docs, asks>>

\* A transient exception, while attempts are left.
Retry(c) ==
  /\ At(c, "fetch") /\ client[c].tries + 1 < Attempts
  /\ client' = [client EXCEPT ![c].tries = @ + 1]
  /\ UNCHANGED <<adapters, tickers, cache, docs, asks>>

\* Any other failure, or the last attempt: an error, and nothing is cached.
FetchFails(c) ==
  /\ At(c, "fetch")
  /\ client' = [client EXCEPT ![c] = [client[c] EXCEPT !.pc = "route", !.tasks = Tail(@)]]
  /\ UNCHANGED <<adapters, tickers, cache, docs, asks>>

Store(c) ==
  /\ At(c, "store")
  /\ cache' = [cache EXCEPT ![CacheKey(c, Now(c))] = client[c].item]
  /\ Take(c, client[c].item)
  /\ UNCHANGED <<adapters, tickers, docs, asks>>

Under(items, d) == {i \in items : i.dated = d}
\* A processed filing is stored under its filing date, over what is there.
Persist(items) ==
  docs' = [d \in DOMAIN docs |->
             IF Under(items, d) # {} THEN CHOOSE i \in Under(items, d) : TRUE ELSE docs[d]]

\* Every task is done: the answer is given; the content of a filing that was asked
\* for directly is kept, whatever came of it.
Respond(c) ==
  /\ At(c, "route") /\ client[c].tasks = <<>>
  /\ client' = [client EXCEPT ![c] = IdleClient]
  /\ IF client[c].keep THEN Persist(client[c].items) ELSE UNCHANGED docs
  /\ UNCHANGED <<adapters, tickers, cache, asks>>

\* An entry of the cache expires.
Expire(k) ==
  /\ cache[k] # NoItem
  /\ cache' = [cache EXCEPT ![k] = NoItem]
  /\ UNCHANGED <<adapters, tickers, docs, client, asks>>

\* A process ends, whatever it was doing, and another one starts.
Restart(c) ==
  /\ asks < MaxAsks
  /\ tickers' = [tickers EXCEPT ![c] = "unloaded"]
  /\ client' = [client EXCEPT ![c] = IdleClient]
  /\ asks' = asks + 1
  /\ UNCHANGED <<adapters, cache, docs>>
StepOf(c) ==
  \/ Unrouted(c) \/ Route(c) \/ CacheHit(c) \/ CacheMiss(c)
  \/ At(c, "fetch") /\ \E item \in AnswersOf(c, Now(c)) : Fetched(c, item)
  \/ Retry(c) \/ FetchFails(c) \/ Store(c) \/ Respond(c)

Asks(c) ==
  \/ \E a \in {"quote", "macro"} : AskDirect(c, a, NoYear)
  \/ \E a \in {"financials", "filing_markdown"}, y \in Years \cup {NoYear} : AskDirect(c, a, y)
  \/ \E i \in {"multi", "llm"} : AskQuery(c, i, NoYear)
  \/ \E i \in {"financials", "filing_markdown"}, y \in Years \cup {NoYear} : AskQuery(c, i, y)

RetrievalNext ==
  \/ \E c \in Clients : Asks(c) \/ StepOf(c) \/ Restart(c)
  \/ \E k \in Keys : Expire(k)

RetrievalSpec == RetrievalInit /\ [][RetrievalNext]_retrievalVars

-----------------------------------------------------------------------------
Items == (UNION {client[c].items : c \in Clients}) \cup {docs[d] : d \in DOMAIN docs}

\* What a process takes from the cache is what its own adapter would have asked for:
\* a process with the SEC adapter is never given Yahoo's statements that another
\* process without it stored as a stand-in (RetrievalAgent._find_adapter_for_task,
\* CacheManager.make_key).
CacheKeepsSources ==
  \A c \in Clients : At(c, "lookup") =>
    LET item == cache[CacheKey(c, Now(c))]
    IN item = NoItem \/ item.from = Adapter(c, Now(c))

\* Statements of Yahoo in the answer to a query about filings come with the warning
\* that they stand in for the SEC's, also when they come from the cache, whichever
\* process put them there (RetrievalAgent.fetch, _find_adapter_for_task).  The markdown
\* of a filing is the content of the filing whose accession number and date it carries,
\* and a stored document that of its date, whenever edgartools lists the filing or fails
\* (SECEdgarAdapter._fetch_filing_markdown).
AnswersTellTheirSource ==
  /\ \A c \in Clients : client[c].about = "filings" =>
       ((\E i \in client[c].items : i.from = "yahoo") => client[c].warned)
  /\ \A i \in Items : i.listed => i.filing = i.label /\ i.dated \in {i.label, NoYear}
  /\ \A d \in Years : docs[d].listed /\ docs[d] # NoItem => docs[d].filing = d

\* Every variable keeps its type.
ItemSet == [from : {"nothing", "yahoo", "sec", "fred"}, filing : Years \cup {NoYear},
            label : Years \cup {NoYear}, dated : Years \cup {NoYear},
            listed : BOOLEAN, parsed : BOOLEAN]
RetrievalTypeOK ==
  /\ cache \in [Keys -> ItemSet]
  /\ docs \in [Years \cup {NoYear} -> ItemSet]
  /\ tickers \in [Clients -> {"unloaded", "loaded", "empty"}]
  /\ \A c \in Clients : client[c].items \subseteq ItemSet /\ client[c].item \in ItemSet
  /\ asks \in 0..MaxAsks
================================================================================
