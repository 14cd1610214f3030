---------------------------- MODULE DatasetService ----------------------------
(***************************************************************************)
(* The dataset service: rows of a stored table (native.mjs) and the fixed  *)
(* SQL templates over the registered tables (financial-query.mjs).         *)
(*                                                                         *)
(* A native query reads the head of an object, then answers from its cache *)
(* or reads the object range by range; the object may be written again at  *)
(* any moment.  A template query compares the versions of its tables in    *)
(* the catalog with the policy, then answers from its cache or has the     *)
(* engine read the tables, and compares again; the tables may move at any  *)
(* moment, and the caller is told of a timeout while the work goes on.     *)
(* Both caches are create-only and shared by all requests.                 *)
(*                                                                         *)
(* The Python transport reads an object of the service in bounded ranges   *)
(* under the version of one HEAD, whole or for a member of an archive, and *)
(* repeats a request that failed in a way that may pass.                   *)
(***************************************************************************)
EXTENDS Integers, Sequences, FiniteSets

CONSTANTS
  Callers,        \* concurrent requests
  RowCount,       \* RowCount[v]: rows of version v of the object
  GroupRows,      \* rows read with one range
  NativeLimits,   \* rows of a page
  DecodeRows,     \* rows that fit the decode budget
  Tables,         \* the registered tables of a template
  Expected,       \* Expected[t]: the version the policy registers
  ChunkRows,      \* rows of one read of the transport: MAX_READ_BYTES
  ObjectRows,     \* max_bytes of read_all
  Retries,        \* of HttpDatasetBridge
  MaxWrites       \* bound: writes of the object and moves of the tables

ASSUME DatasetAssumption ==
  /\ RowCount \in Seq(Nat) /\ RowCount # <<>>
  /\ {GroupRows, DecodeRows, ChunkRows} \subseteq Nat \ {0} /\ {ObjectRows, Retries} \subseteq Nat
  /\ NativeLimits \subseteq Nat \ {0} /\ MaxWrites \in Nat
  /\ Tables # {} /\ Expected \in [Tables -> Int]

VARIABLES
  object,         \* the version of the stored object
  tables,         \* the version of every table in the catalog
  pages,          \* cached pages: [etag, from, limit, rows, next]
  results,        \* cached results: a set of [seen], the versions read
  request,        \* the request of each caller
  writes

datasetVars == <<object, tables, pages, results, request, writes>>

Versions == DOMAIN RowCount
Rest == [pc |-> "rest"]

\* The rows of version v in the half-open range.
TableRows(v, from, to) == [k \in 1..(to - from) |-> <<v, from + k>>]
Smaller(x, y) == IF x <= y THEN x ELSE y
PageEnd(v, from, limit) == Smaller(RowCount[v], from + limit)

Becomes(c, r) == request' = [request EXCEPT ![c] = r]
Fails(c) == Becomes(c, [pc |-> "failed", got |-> request[c].got, etag |-> request[c].etag])

\* A native caller: the rows it has, and the version and place of its cursor.
Native(got, etag, from) == [pc |-> "head", got |-> got, etag |-> etag, from |-> from]

DatasetInit ==
  /\ object \in Versions /\ tables = Expected
  /\ pages = {} /\ results = {} /\ writes = 0
  /\ request = [c \in Callers |-> Rest]

AskRows(c) == request[c] = Rest /\ Becomes(c, Native(<<>>, 0, 0))
              /\ UNCHANGED <<object, tables, pages, results, writes>>

-----------------------------------------------------------------------------
\* The cursor's version, and the one of If-Match, is that of the head.
SameVersion(r) == r.etag \in {0, object}

\* bucket.head, and the comparison of versions.
ReadHead(c) ==
  /\ request[c].pc = "head"
  /\ IF SameVersion(request[c])
     THEN \E limit \in NativeLimits :
            Becomes(c, [pc |-> "cache", got |-> request[c].got, etag |-> object,
                        from |-> request[c].from, limit |-> limit, rows |-> <<>>])
     ELSE Fails(c)
  /\ UNCHANGED <<object, tables, pages, results, writes>>

PageKey(r) == [etag |-> r.etag, from |-> r.from, limit |-> r.limit]
CachedPage(r) ==
  {p \in pages : [etag |-> p.etag, from |-> p.from, limit |-> p.limit] = PageKey(r)}

\* The caller has a page; it asks for the next one with its cursor.
HasPage(c, rows, next) ==
  LET r == request[c] IN
  Becomes(c, IF next = 0
             THEN [pc |-> "read", got |-> r.got \o rows, etag |-> r.etag,
                   part |-> <<0, RowCount[r.etag]>>]
             ELSE Native(r.got \o rows, r.etag, next))

\* The cache is looked up under the version of the head.
PageCache(c) ==
  /\ request[c].pc = "cache"
  /\ LET r == request[c] IN
     \/ \E p \in CachedPage(r) : HasPage(c, p.rows, p.next)
     \/ /\ CachedPage(r) = {}
        /\ LET end == PageEnd(r.etag, r.from, r.limit)
               first == (r.from \div GroupRows) * GroupRows
               decoded == IF end > r.from
                          THEN ((end + GroupRows - 1) \div GroupRows) * GroupRows - first ELSE 0
           IN  IF r.from > RowCount[r.etag] \/ decoded > DecodeRows
               THEN Fails(c)
               ELSE Becomes(c, [r EXCEPT !.pc = "ranges"])
  /\ UNCHANGED <<object, tables, pages, results, writes>>

\* sourceFile.slice: one range of the object, on the condition of its version.
ReadRange(c) ==
  /\ request[c].pc = "ranges"
  /\ LET r == request[c]
         at == r.from + Len(r.rows)
         to == Smaller(PageEnd(r.etag, r.from, r.limit), (at \div GroupRows + 1) * GroupRows)
     IN  IF at >= PageEnd(r.etag, r.from, r.limit)
         THEN Becomes(c, [r EXCEPT !.pc = "put"])
         ELSE IF object = r.etag
         THEN Becomes(c, [r EXCEPT !.rows = @ \o TableRows(object, at, to)])
         ELSE Fails(c)
  /\ UNCHANGED <<object, tables, pages, results, writes>>

\* The page is cached unless it is there, and answered.
PutPage(c) ==
  /\ request[c].pc = "put"
  /\ LET r == request[c]
         end == PageEnd(r.etag, r.from, r.limit)
         next == IF end < RowCount[r.etag] THEN end ELSE 0
     IN  /\ HasPage(c, r.rows, next)
         /\ pages' = IF CachedPage(r) # {} THEN pages
                     ELSE pages \cup {[etag |-> r.etag, from |-> r.from, limit |-> r.limit,
                                       rows |-> r.rows, next |-> next]}
  /\ UNCHANGED <<object, tables, results, writes>>

-----------------------------------------------------------------------------
\* A template query: waiting is what its caller still waits for, left the tables
\* whose version is still to be compared, seen the versions the engine read, hit
\* whether the result comes from the cache.
Template(pc, left, seen, hit, waiting) ==
  [pc |-> pc, left |-> left, seen |-> seen, hit |-> hit, waiting |-> waiting]

AskTemplate(c) ==
  /\ request[c] = Rest
  /\ Becomes(c, Template("before", Tables, <<>>, FALSE, TRUE))
  /\ UNCHANGED <<object, tables, pages, results, writes>>

\* versionCheck asks the catalog for one table after the other.
VersionCheck(c) ==
  /\ request[c].pc \in {"before", "after"} /\ request[c].left # {}
  /\ LET t == CHOOSE t \in request[c].left : TRUE
     IN  IF tables[t] = Expected[t]
         THEN Becomes(c, [request[c] EXCEPT !.left = @ \ {t}])
         ELSE Becomes(c, [request[c] EXCEPT !.pc = "refused"])
  /\ UNCHANGED <<object, tables, pages, results, writes>>

\* A result in the cache is answered after another comparison; without one the
\* engine is asked.
ResultCache(c) ==
  /\ request[c].pc = "before" /\ request[c].left = {}
  /\ \/ \E x \in results :
          Becomes(c, Template("after", Tables, x, TRUE, request[c].waiting))
     \/ /\ results = {}
        /\ Becomes(c, Template("engine", Tables, <<>>, FALSE, request[c].waiting))
  /\ UNCHANGED <<object, tables, pages, results, writes>>

\* External: the engine reads one table after the other as it finds them.
EngineReads(c) ==
  /\ request[c].pc = "engine"
  /\ LET t == CHOOSE t \in request[c].left : TRUE
         seen == [x \in DOMAIN request[c].seen \cup {t} |->
                    IF x = t THEN tables[t] ELSE request[c].seen[x]]
     IN  Becomes(c, IF request[c].left = {t}
                    THEN Template("after", Tables, seen, FALSE, request[c].waiting)
                    ELSE Template("engine", request[c].left \ {t}, seen, FALSE,
                                  request[c].waiting))
  /\ UNCHANGED <<object, tables, pages, results, writes>>

\* Mutant of AnswerTemplate: a result is kept before the tables were compared again.
AnswerUncompared(c) ==
  /\ request[c].pc = "after"
  /\ results' = IF request[c].hit \/ results # {} THEN results ELSE {request[c].seen}
  /\ Becomes(c, [request[c] EXCEPT !.pc = IF request[c].waiting THEN "answered" ELSE "late"])
  /\ UNCHANGED <<object, tables, pages, writes>>

\* The tables were compared again: the result is cached unless there is one, and
\* answered if the caller still waits.
AnswerTemplate(c) ==
  /\ request[c].pc = "after" /\ request[c].left = {}
  /\ results' = IF request[c].hit \/ results # {} THEN results ELSE {request[c].seen}
  /\ Becomes(c, [request[c] EXCEPT !.pc = IF request[c].waiting THEN "answered" ELSE "late"])
  /\ UNCHANGED <<object, tables, pages, writes>>

\* handleFinancialQuery: the caller is told QUERY_TIMEOUT and no longer waits; a
\* request to the catalog or the engine that starts after the deadline fails.
Timeout(c) ==
  /\ request[c].pc \in {"before", "engine", "after"} /\ request[c].waiting
  /\ \/ Becomes(c, [request[c] EXCEPT !.waiting = FALSE])
     \/ Becomes(c, [request[c] EXCEPT !.pc = "refused"])
  /\ UNCHANGED <<object, tables, pages, results, writes>>

-----------------------------------------------------------------------------
\* A read of the transport: of the whole object, or of a member of an archive whose
\* directory is read first.  part is what is being read, as a half-open range.
Reader(pc, kind, etag, part, tries) ==
  [pc |-> pc, kind |-> kind, etag |-> etag, part |-> part, tries |-> tries, got |-> <<>>]

AskObject(c, kind) ==
  /\ request[c] = Rest
  /\ Becomes(c, Reader("meta", kind, 0, <<0, 0>>, 0))
  /\ UNCHANGED <<object, tables, pages, results, writes>>

\* The directory of an archive is its last row, its member the row before.
Directory(v) == <<RowCount[v] - 1, RowCount[v]>>
Member(v) == <<RowCount[v] - 2, RowCount[v] - 1>>

\* head_meta: the version and the size that every range is read under.
HeadMeta(c) ==
  /\ request[c].pc = "meta"
  /\ LET kind == request[c].kind IN
     IF kind = "whole" /\ RowCount[object] > ObjectRows
     THEN Fails(c)
     ELSE Becomes(c, Reader("chunks", kind, object,
                            IF kind = "whole" THEN <<0, RowCount[object]>>
                            ELSE Directory(object), 0))
  /\ UNCHANGED <<object, tables, pages, results, writes>>

\* _request: a missing object, a busy or failing service and an unreachable one are
\* asked again while attempts are left.
Transient(c) ==
  /\ request[c].pc \in {"meta", "chunks"}
  /\ IF request[c].tries < Retries
     THEN Becomes(c, [request[c] EXCEPT !.tries = @ + 1])
     ELSE Fails(c)
  /\ UNCHANGED <<object, tables, pages, results, writes>>

\* What is left of the part: a short answer is continued where it ended.
Unreceived(r) == <<r.part[1] + Len(r.got), r.part[2]>>

\* The service compares the version with the head and reads on its condition; an
\* answer may be cut short, and one without a row ends the loop.
ReadChunk(c) ==
  /\ request[c].pc = "chunks" /\ Unreceived(request[c])[1] < request[c].part[2]
  /\ LET r == request[c]
         at == Unreceived(r)[1]
         to == Smaller(r.part[2], at + ChunkRows)
     IN  IF object # r.etag THEN Fails(c)
         ELSE \E end \in at..to :
                IF end = at THEN Fails(c)
                ELSE Becomes(c, [r EXCEPT !.got = @ \o TableRows(object, at, end), !.tries = 0])
  /\ UNCHANGED <<object, tables, pages, results, writes>>

\* The part is read; the directory of an archive leads to its member.
EndPart(c) ==
  /\ request[c].pc = "chunks" /\ Unreceived(request[c])[1] >= request[c].part[2]
  /\ LET r == request[c] IN
     Becomes(c, IF r.kind = "archive" /\ r.part = Directory(r.etag)
                THEN Reader("chunks", "member", r.etag, Member(r.etag), 0)
                ELSE [pc |-> "read", got |-> r.got, etag |-> r.etag, part |-> r.part])
  /\ UNCHANGED <<object, tables, pages, results, writes>>

-----------------------------------------------------------------------------
\* The object is written again; R2 gives the same bytes the same version.
WriteObject ==
  /\ writes < MaxWrites /\ writes' = writes + 1
  /\ object' \in Versions \ {object}
  /\ UNCHANGED <<tables, pages, results, request>>

\* A table is written, or rolled back: either way its metadata is new.
MoveTable(t) ==
  /\ writes < MaxWrites /\ writes' = writes + 1
  /\ tables' = [tables EXCEPT ![t] = @ + 1]
  /\ UNCHANGED <<object, pages, results, request>>

NativeStep(c) == ReadHead(c) \/ PageCache(c) \/ ReadRange(c) \/ PutPage(c)
TemplateStep(c) == \/ VersionCheck(c) \/ ResultCache(c) \/ EngineReads(c)
                   \/ AnswerTemplate(c) \/ Timeout(c)

ReaderStep(c) == HeadMeta(c) \/ Transient(c) \/ ReadChunk(c) \/ EndPart(c)

DatasetNext ==
  \/ \E c \in Callers : AskRows(c) \/ AskTemplate(c) \/ NativeStep(c) \/ TemplateStep(c)
  \/ \E c \in Callers : ReaderStep(c) \/ \E kind \in {"whole", "archive"} : AskObject(c, kind)
  \/ WriteObject \/ \E t \in Tables : MoveTable(t)

DatasetSpec == DatasetInit /\ [][DatasetNext]_datasetVars

-----------------------------------------------------------------------------
\* What was read to its end, a table page by page, from the cache or not, or an object
\* or a member range by range, is of one version of the object, whole and in order,
\* whatever was written meanwhile, whatever sizes the pages had, and wherever answers
\* were cut short.  And what a template query answers, at once or from the cache, the engine
\* read from the registered versions of all its tables, also when the tables move between the
\* comparison and the query, between two tables, or while a request whose caller was
\* told of a timeout goes on.
ServedIsOfOneVersion ==
  /\ \A c \in Callers : request[c].pc = "read" =>
       LET r == request[c] IN r.got = TableRows(r.etag, r.part[1], r.part[2])
  /\ \A c \in Callers : request[c].pc = "answered" => request[c].seen = Expected
  /\ \A seen \in results : seen = Expected
=============================================================================
