---------------------------- MODULE ReadinessRun ----------------------------
(***************************************************************************)
(* The resumable classification of the archive,                            *)
(* scripts/sec_universe_readiness.py: a run reads the work files of the    *)
(* runs before it, divides the issuers that are left into ranges, one      *)
(* worker and one append-only file each, and writes parts and a manifest   *)
(* from everything the files hold.                                         *)
(*                                                                         *)
(* A kill takes the main process and its workers together.  It leaves a    *)
(* prefix of what a worker had handed to its file, and perhaps a piece of  *)
(* the next line.                                                          *)
(***************************************************************************)
EXTENDS Integers, Sequences, FiniteSets

CONSTANTS
  Members,     \* the issuers of the archive, numbered by offset: 1..n
  OfOther,     \* members whose document names another issuer
  Malformed,   \* members whose document cannot be read as one
  Workers,     \* range files: 1..k
  FlushEvery,  \* records between two flushes: 50
  MaxLaunches, MaxKills   \* bounds

ASSUME ReadinessRunAssumption ==
  /\ Members \in SUBSET (Nat \ {0}) /\ OfOther \cup Malformed \subseteq Members
  /\ Workers \in Nat \ {0} /\ FlushEvery \in Nat \ {0}
  /\ MaxLaunches \in Nat /\ MaxKills \in Nat

VARIABLES
  work,      \* the range files: complete lines, and whether a torn one ends them
  worker,    \* the pool: issuers left, records not yet flushed
  main,      \* the run: pc and selection
  output,    \* the generation of the files, and the manifest last written: of
             \* which generation, and the issuers it lists
  launches, kills

readinessVars == <<work, worker, main, output, launches, kills>>

Ranges == 1..Workers
Joined == [cik |-> 0, status |-> "TWO_RECORDS_ON_ONE_LINE"]
RecordStatuses == {"CLASSIFIED", "SOURCE_IDENTITY_MISMATCH", "ARCHIVE_READ_FAILURE"}
EmptyFile == [lines |-> <<>>, torn |-> FALSE]
NoWork == [pc |-> "closed", left |-> {}, buffer |-> <<>>]

ReadinessRunInit ==
  /\ work = [w \in Ranges |-> EmptyFile]
  /\ worker = [w \in Ranges |-> NoWork]
  /\ main = [pc |-> "idle", selected |-> {}]
  /\ output = [files |-> 0, generation |-> 0, records |-> {}]
  /\ launches = 0 /\ kills = 0

\* work_records: every complete line is parsed; a line without its newline is
\* skipped.
LinesOf(file) == {file.lines[k] : k \in DOMAIN file.lines}
Readable(files) == \A w \in Ranges : Joined \notin LinesOf(files[w])
Recorded(files) == {line.cik : line \in UNION {LinesOf(files[w]) : w \in Ranges}}

\* Records are appended where the file ends, after a torn piece too.
Appended(file, records) ==
  IF records = <<>> THEN file
  ELSE [lines |-> file.lines \o (IF file.torn THEN <<Joined>> \o Tail(records) ELSE records),
        torn |-> FALSE]

\* plan_ranges: contiguous ranges in the order of the archive, at most one for
\* each worker; where they are cut is a matter of bytes.
RangePlans(todo) ==
  {plan \in [todo -> Ranges] :
     /\ \A x, y \in todo : x < y => plan[x] <= plan[y]
     /\ \A x \in todo, w \in Ranges : w < plan[x] => \E y \in todo : plan[y] = w}

-----------------------------------------------------------------------------
\* A run starts: --fresh discards the files; what they hold is not done again.
Launch(total, fresh) ==
  LET files == IF fresh THEN [w \in Ranges |-> EmptyFile] ELSE work
      selected == {c \in Members : c <= total}
  IN
  /\ main.pc \in {"idle", "unreadable"} /\ launches < MaxLaunches
  /\ launches' = launches + 1
  /\ work' = files
  /\ output' = [output EXCEPT !.files = IF fresh THEN @ + 1 ELSE @]
  /\ IF ~Readable(files)
     THEN main' = [pc |-> "unreadable", selected |-> selected] /\ UNCHANGED worker
     ELSE \E plan \in RangePlans(selected \ Recorded(files)) :
            /\ worker' = [w \in Ranges |->
                 [NoWork EXCEPT !.left = {c \in DOMAIN plan : plan[c] = w},
                                !.pc = IF \E c \in DOMAIN plan : plan[c] = w
                                       THEN "working" ELSE "closed"]]
            /\ main' = [pc |-> "pool", selected |-> selected]
  /\ UNCHANGED kills

\* classify_range: the next member of the range.  A member that cannot be read
\* is a record; one that cannot be parsed ends the worker.
First(w) == CHOOSE c \in worker[w].left : \A d \in worker[w].left : c <= d
Verdicts(c) ==
  {"ARCHIVE_READ_FAILURE"} \cup
  (IF c \in Malformed THEN {}
   ELSE {IF c \in OfOther THEN "SOURCE_IDENTITY_MISMATCH" ELSE "CLASSIFIED"})

Classify(w, status) ==
  LET buffer == Append(worker[w].buffer, [cik |-> First(w), status |-> status])
      full == Len(buffer) = FlushEvery
  IN
  /\ main.pc = "pool" /\ worker[w].pc = "working" /\ worker[w].left # {}
  /\ status \in Verdicts(First(w))
  /\ work' = [work EXCEPT ![w] = IF full THEN Appended(@, buffer) ELSE @]
  /\ worker' = [worker EXCEPT ![w].left = @ \ {First(w)},
                              ![w].buffer = IF full THEN <<>> ELSE buffer]
  /\ UNCHANGED <<main, output, launches, kills>>

Close(w, pc) ==
  /\ main.pc = "pool" /\ worker[w].pc = "working"
  /\ work' = [work EXCEPT ![w] = Appended(@, worker[w].buffer)]
  /\ worker' = [worker EXCEPT ![w].pc = pc, ![w].buffer = <<>>]
  /\ UNCHANGED <<main, output, launches, kills>>
CloseRange(w) == worker[w].left = {} /\ Close(w, "closed")
RaiseInRange(w) ==
  worker[w].pc = "working" /\ worker[w].left # {} /\ First(w) \in Malformed /\ Close(w, "raised")

PoolEnded == main.pc = "pool" /\ \A w \in Ranges : worker[w].pc # "working"
EndRun(pc) == main' = [main EXCEPT !.pc = pc]

\* Mutant of PoolEnds: the exception of a worker is not raised again.
PoolEndsAnyway ==
  /\ PoolEnded
  /\ EndRun(IF Readable(work) THEN "collected" ELSE "unreadable")
  /\ UNCHANGED <<work, worker, output, launches, kills>>

\* The exception of a worker is raised once the pool has ended; the files are
\* read again.
PoolEnds ==
  /\ PoolEnded
  /\ EndRun(CASE \E w \in Ranges : worker[w].pc = "raised" -> "idle"
              [] ~Readable(work) /\ (\A w \in Ranges : worker[w].pc # "raised") -> "unreadable"
              [] OTHER -> "collected")
  /\ UNCHANGED <<work, worker, output, launches, kills>>

\* The parts, the summary and the manifest of everything the files hold.
WriteOutput ==
  /\ main.pc = "collected"
  /\ output' = [output EXCEPT !.records = Recorded(work), !.generation = output.files]
  /\ EndRun("idle")
  /\ UNCHANGED <<work, worker, launches, kills>>

\* The run and its workers are killed.
KillRun ==
  /\ main.pc \in {"pool", "collected"} /\ kills < MaxKills
  /\ \E kept \in [Ranges -> 0..FlushEvery], piece \in [Ranges -> BOOLEAN] :
       /\ \A w \in Ranges : /\ kept[w] <= Len(worker[w].buffer)
                            /\ piece[w] => kept[w] < Len(worker[w].buffer)
       /\ work' = [w \in Ranges |->
            LET file == Appended(work[w], SubSeq(worker[w].buffer, 1, kept[w]))
            IN  [file EXCEPT !.torn = @ \/ piece[w]]]
  /\ worker' = [w \in Ranges |-> NoWork]
  /\ EndRun("idle")
  /\ kills' = kills + 1
  /\ UNCHANGED <<output, launches>>

ReadinessRunNext ==
  \/ \E total \in Members, fresh \in BOOLEAN : Launch(total, fresh)
  \/ \E w \in Ranges : \/ \E status \in RecordStatuses : Classify(w, status)
                       \/ CloseRange(w) \/ RaiseInRange(w)
  \/ PoolEnds \/ WriteOutput \/ KillRun

ReadinessRunSpec == ReadinessRunInit /\ [][ReadinessRunNext]_readinessVars

-----------------------------------------------------------------------------
\* A manifest lists every issuer that was selected for its run and every one the
\* manifest before it listed, unless the files were discarded in between: whatever
\* kills, torn lines, failed workers and smaller selections there were (main, from
\* work_records to manifest.json).
ManifestKeepsIssuers ==
  [][main.pc = "collected" /\ main'.pc = "idle" /\ kills' = kills =>
       /\ main.selected \subseteq output'.records
       /\ output.generation = output'.generation => output.records \subseteq output'.records
    ]_readinessVars

\* "a torn final line is discarded, and the issuer is retried"
\* (scripts/sec_universe_readiness.py:649): a run can read what a killed run left.
TornLineIsDiscarded == main.pc # "unreadable"
=============================================================================
