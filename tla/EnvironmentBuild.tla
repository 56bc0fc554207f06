--------------------------- MODULE EnvironmentBuild ---------------------------
(***************************************************************************)
(* The environment analysis: analysis.Build (internal/analysis/analysis.go)*)
(* with fetchSessions (helpers.go), the pool of workers that reads each    *)
(* session's details, and the totals of the runs (summarize, FailuresOf in *)
(* reliability.go).                                                        *)
(*                                                                         *)
(* VBR's session list is read in pages, newest first, by offset, while     *)
(* sessions start and end.  A session is named by its position in VBR's    *)
(* history: the n-th session that was created is n.                        *)
(***************************************************************************)
EXTENDS Integers, Sequences, FiniteSets

CONSTANTS
    PageSize,       \* sessions per page (2000)
    Pages,          \* how many pages are read at most (3)
    maxSessions,    \* how many sessions are analysed at most (80)
    fetchWorkers,   \* how many of them at a time (8)
    MaxHistory,     \* bound on the sessions VBR has when Build is called
    MaxStarts       \* bound on the sessions that start while pages are read

ASSUME SizesAssumption == {PageSize, Pages, maxSessions, fetchWorkers} \subseteq Nat \ {0}
ASSUME BoundsAssumption == MaxHistory \in Nat /\ MaxStarts \in Nat

\* Fewer sessions start during the few seconds of the paging than fill a page.
ASSUME PagingAssumption == MaxStarts < PageSize

VARIABLES
    history,    \* VBR's sessions, oldest first
    pc,         \* where Build is
    page,       \* pages read so far
    all,        \* the sessions fetched, as they were when their page was made
    window,     \* positions in all of dataSess, before the cap
    failures,   \* positions in all of the failed sessions of relSess
    next,       \* the position that the loop over dataSess has reached
    sem,        \* slots taken: the length of the channel sem
    wg,         \* the counter of the WaitGroup
    reading,    \* the goroutines that read their session's details
    holding,    \* those that have written their record and hold their slot
    leaving,    \* those that have given it back
    records,    \* the positions that have a record
    \* history variables, which no guard reads
    starts,     \* sessions that started since the first page
    top         \* the newest session of the first page

fetched == <<page, all, starts, top>>
selected == <<window, failures>>
workers == <<reading, holding, leaving, records>>
pool == <<next, sem, wg, workers>>
vars == <<history, pc, fetched, selected, pool>>

\* The classes that isDataJob and isRestoreRun tell apart, and the results that
\* resultOf does; a session that has not ended has result "None".
Classes == {"data", "restore", "system"}
Outcomes == {"Success", "Failed"}
Session == [class : Classes, result : Outcomes \cup {"None"}]
Listed == [id : Nat, class : Classes, result : Outcomes \cup {"None"}]

\* dataSess after the cap: its first maxSessions sessions.
dataSess == {i \in window : Cardinality({j \in window : j < i}) < maxSessions}

\* The type of every variable; goroutines run for sessions that are analysed.
TypeOK ==
    /\ history \in Seq(Session)
    /\ pc \in {"fetch", "select", "start", "wait", "done"}
    /\ page \in 0 .. Pages
    /\ pc = "fetch" => page < Pages
    /\ all \in Seq(Listed)
    /\ window \subseteq DOMAIN all
    /\ failures \subseteq DOMAIN all
    /\ next \in 1 .. Len(all) + 1
    /\ sem \in 0 .. fetchWorkers
    /\ wg \in Nat
    /\ reading \cup holding \cup leaving \cup records \subseteq dataSess
    /\ starts \in 0 .. MaxStarts
    /\ top \in Nat

\* A history that says nothing of what is never looked at: how a session that
\* is neither a data job nor a restore went.
Plausible(s) == s.class = "system" => s.result = "None"

Init ==
    /\ \E n \in 0 .. MaxHistory : history \in [1 .. n -> {s \in Session : Plausible(s)}]
    /\ pc = "fetch"
    /\ page = 0
    /\ all = <<>> /\ window = {} /\ failures = {}
    /\ next = 1 /\ sem = 0 /\ wg = 0
    /\ reading = {} /\ holding = {} /\ leaving = {} /\ records = {}
    /\ starts = 0
    /\ top = 0

------------------------------------------------------------------------------
(* Faulty variants of definitions of this module, one for each way the     *)
(* code could plausibly be wrong; the properties are shown to reject them. *)

\* orderAsc=true: the list is read from its oldest end.
OldestFirst(skip) ==
    LET n == Len(history)
    IN  [i \in 1 .. (IF n - skip > PageSize THEN PageSize ELSE IF n > skip THEN n - skip ELSE 0) |->
            [id |-> skip + i, class |-> history[skip + i].class, result |-> history[skip + i].result]]

\* skip counts from the last session of the page before.
OverlappingSkip == page * (PageSize - 1)

\* A page that failed is left out, and the next one is read.
NeverShort(items) == FALSE

\* The channel has room for one worker too many.
SlotTooMany == sem <= fetchWorkers

\* The deferred release of the slot is missing.
SlotLost == 0

\* Build waits for the workers that were started, but for the last.
OneLeft == wg <= 1

------------------------------------------------------------------------------
(* VBR (external).  Its sessions matter only as long as pages are read.    *)

Paging == pc = "fetch" /\ page > 0

StartSession(class) ==
    /\ Paging
    /\ starts < MaxStarts
    /\ history' = Append(history, [class |-> class, result |-> "None"])
    /\ starts' = starts + 1
    /\ UNCHANGED <<pc, page, all, top, selected, pool>>

EndSession(n, outcome) ==
    /\ Paging
    /\ history[n].class # "system" /\ history[n].result = "None"
    /\ history' = [history EXCEPT ![n].result = outcome]
    /\ UNCHANGED <<pc, fetched, selected, pool>>

\* v1/sessions?limit=PageSize&skip=...&orderColumn=CreationTime&orderAsc=false
NewestFirst(skip) ==
    LET n == Len(history) - skip
    IN  [i \in 1 .. (IF n > PageSize THEN PageSize ELSE IF n > 0 THEN n ELSE 0) |->
            [id |-> n + 1 - i, class |-> history[n + 1 - i].class, result |-> history[n + 1 - i].result]]

------------------------------------------------------------------------------
(* fetchSessions.                                                          *)

Skip == page * PageSize

Short(items) == Len(items) < PageSize

FetchPage(items) ==
    /\ pc = "fetch"
    /\ all' = all \o items
    /\ page' = page + 1
    /\ top' = IF page = 0 THEN Len(history) ELSE top
    /\ pc' = IF Short(items) \/ page' = Pages THEN "select" ELSE "fetch"
    /\ UNCHANGED <<history, starts, selected, pool>>

PageRead == FetchPage(NewestFirst(Skip))

\* getItems answers an error like a page without sessions.
PageFails == FetchPage(<<>>)

\* The data sessions and the failures of the window of days, which begins with
\* the session numbered from.  (Without days it begins with the first.)
InWindow(from, classes) == {i \in DOMAIN all : all[i].class \in classes /\ all[i].id >= from}

DataRuns(from) == InWindow(from, {"data"})

FailedRuns(from) == {i \in InWindow(from, {"data", "restore"}) : all[i].result = "Failed"}

Select(from) ==
    /\ pc = "select"
    /\ window' = DataRuns(from)
    /\ failures' = FailedRuns(from)
    /\ pc' = "start"
    /\ UNCHANGED <<history, fetched, pool>>

------------------------------------------------------------------------------
(* The pool: one goroutine per session that has not failed, and at most    *)
(* fetchWorkers of them at a time.                                         *)

Failed(i) == all[i].result = "Failed"

\* The loop goes over what is not analysed, and over what has failed.
SkipFailed ==
    /\ pc = "start"
    /\ next \in DOMAIN all
    /\ next \notin dataSess \/ Failed(next)
    /\ next' = next + 1
    /\ UNCHANGED <<history, pc, fetched, selected, sem, wg, workers>>

SlotFree == sem < fetchWorkers

\* wg.Add, sem <- struct{}{} (which blocks while the channel is full), go.
StartWorker ==
    /\ pc = "start"
    /\ next \in dataSess /\ ~ Failed(next)
    /\ SlotFree
    /\ sem' = sem + 1
    /\ wg' = wg + 1
    /\ reading' = reading \cup {next}
    /\ next' = next + 1
    /\ UNCHANGED <<history, pc, fetched, selected, holding, leaving, records>>

\* buildRecord: the task sessions and the logs are read, either may fail, and
\* there is a record in any case.
WriteRecord(i) ==
    /\ i \in reading
    /\ reading' = reading \ {i}
    /\ holding' = holding \cup {i}
    /\ records' = records \cup {i}
    /\ UNCHANGED <<history, pc, fetched, selected, next, sem, wg, leaving>>

\* The deferred calls, in their order: <-sem, then wg.Done.
Slot == 1

Release(i) ==
    /\ i \in holding
    /\ holding' = holding \ {i}
    /\ leaving' = leaving \cup {i}
    /\ sem' = sem - Slot
    /\ UNCHANGED <<history, pc, fetched, selected, next, wg, reading, records>>

Done(i) ==
    /\ i \in leaving
    /\ leaving' = leaving \ {i}
    /\ wg' = wg - 1
    /\ UNCHANGED <<history, pc, fetched, selected, next, sem, reading, holding, records>>

AllStarted ==
    /\ pc = "start"
    /\ next > Len(all)
    /\ pc' = "wait"
    /\ UNCHANGED <<history, fetched, selected, pool>>

\* wg.Wait returns; what follows reads the records and is one step.
NoneLeft == wg = 0

\* AddReliability: the rate of the runs that have a record, among these and the
\* failures, rounded to whole percents.
Percent(n, of) == (200 * n + of) \div (2 * of)

Completed == Cardinality(records)
SuccessPct == Percent(Completed, Completed + Cardinality(failures))

Aggregate ==
    /\ pc = "wait"
    /\ NoneLeft
    /\ pc' = "done"
    /\ UNCHANGED <<history, fetched, selected, pool>>

BuildStep ==
    \/ PageRead
    \/ PageFails
    \/ \E from \in 1 .. Len(history) + 1 : Select(from)
    \/ SkipFailed
    \/ StartWorker
    \/ AllStarted
    \/ Aggregate

WorkerStep(i) == WriteRecord(i) \/ Release(i) \/ Done(i)

Next ==
    \/ \E class \in Classes : StartSession(class)
    \/ \E n \in DOMAIN history, outcome \in Outcomes : EndSession(n, outcome)
    \/ BuildStep
    \/ \E i \in DOMAIN all : WorkerStep(i)

\* Build and its workers run on: every GET ends within its budget.
Fairness == WF_vars(BuildStep) /\ \A i \in 1 .. Pages * PageSize : WF_vars(WorkerStep(i))

Safety == Init /\ [][Next]_vars

Spec == Safety /\ Fairness

------------------------------------------------------------------------------
\* The sessions at some positions of the list.
Ids(positions) == {all[i].id : i \in positions}

\* helpers.go:44, "newest first", is what FailuresOf relies on to tell whether a
\* job fails right now: the first listed session of a job is its newest.  A page
\* that shifted may repeat older sessions, but never brings a newer one that was
\* not listed before.
FirstListedIsNewest ==
    \A i, j \in DOMAIN all :
        (i < j /\ all[i].id < all[j].id) => \E k \in 1 .. i : all[k].id = all[j].id

\* A session is listed twice only because another one started between two pages.
RepeatsAreShifts == Len(all) <= Cardinality(Ids(DOMAIN all)) + starts

\* The analysed runs have no gap: every data session between the oldest of them
\* and the newest that VBR had when the analysis began is analysed, whatever
\* starts, ends or fails to arrive.
NoGapInRuns ==
    pc \in {"start", "wait", "done"} =>
        \A i \in dataSess : \A n \in all[i].id .. top :
            history[n].class = "data" => n \in Ids(dataSess)

\* Slots are never lost or given back early: the taken ones belong to the
\* workers that still read, at most fetchWorkers at a time.
SlotsAreWorkers == sem = Cardinality(reading \cup holding) /\ sem <= fetchWorkers

\* When Build aggregates, exactly the analysed sessions that had not failed have
\* a record, and no worker is left to write one.
EveryRunRecorded ==
    pc = "done" => reading = {} /\ records = {i \in dataSess : ~ Failed(i)}

\* Build returns.
BuildEnds == <>(pc = "done")

\* assessment.go:99, "completed runs vs attempts incl. failed ones": the success
\* rate is that of the window.
RateOfWindow ==
    pc = "done" /\ failures # {} =>
        LET completed == Cardinality({i \in window : ~ Failed(i)})
        IN  SuccessPct = Percent(completed, completed + Cardinality(failures))

------------------------------------------------------------------------------
(* The inductive strengthening of the properties of the pool.              *)

\* The goroutines that Wait still waits for.
Running == reading \cup holding \cup leaving

\* Before the sessions are selected there is nothing to do.
NothingSelected == window = {} /\ failures = {} /\ next = 1 /\ Running = {} /\ records = {}

PoolInv ==
    /\ pc \in {"fetch", "select"} => NothingSelected
    /\ reading \cap records = {} /\ holding \cap leaving = {}
    /\ holding \cup leaving \subseteq records
    /\ reading \cup records = {i \in dataSess : i < next /\ ~ Failed(i)}
    /\ sem = Cardinality(reading \cup holding)
    /\ wg = Cardinality(Running)
    /\ pc \in {"wait", "done"} => next > Len(all)
    /\ pc = "done" => wg = 0
==============================================================================
