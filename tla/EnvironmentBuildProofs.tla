------------------------ MODULE EnvironmentBuildProofs ------------------------
(***************************************************************************)
(* The pool of workers of EnvironmentBuild, for every size of the pages,   *)
(* the cap and the pool: slots are accounted for, and Build aggregates     *)
(* exactly when the record of every analysed session is there.  And of the *)
(* list that the pages make up, whatever starts and ends while it is read. *)
(***************************************************************************)
EXTENDS EnvironmentBuild, FiniteSetTheorems, TLAPS

USE SizesAssumption, BoundsAssumption

\* A page is a sequence of listed sessions.
LEMMA PageType ==
    ASSUME NEW skip \in Nat, history \in Seq(Session)
    PROVE  NewestFirst(skip) \in Seq(Listed)
<1> DEFINE n == Len(history) - skip
           k == IF n > PageSize THEN PageSize ELSE IF n > 0 THEN n ELSE 0
<1>1. n \in Int /\ n <= Len(history) /\ k \in Nat /\ k <= Len(history) /\ (k > 0 => k <= n)
  OBVIOUS
<1>2. \A i \in 1 .. k : n + 1 - i \in 1 .. Len(history) /\ n + 1 - i \in Nat
  BY <1>1
<1>3. \A i \in 1 .. k : history[n + 1 - i] \in Session
  BY <1>2
<1>4. \A i \in 1 .. k :
          [id |-> n + 1 - i, class |-> history[n + 1 - i].class, result |-> history[n + 1 - i].result]
              \in Listed
  BY <1>2, <1>3 DEF Session, Listed
<1>5. NewestFirst(skip) \in [1 .. k -> Listed]
  BY <1>4 DEF NewestFirst
<1> QED
  BY <1>1, <1>5

\* Fetching a page keeps the types, and what was listed before it its place.
LEMMA FetchType ==
    ASSUME TypeOK, PoolInv, NEW items \in Seq(Listed), FetchPage(items)
    PROVE  TypeOK' /\ PoolInv'
<1>1. all' \in Seq(Listed) /\ Len(all') \in Nat
  BY DEF TypeOK, FetchPage
<1>2. page' \in 0 .. Pages
  BY DEF TypeOK, FetchPage
<1>3. NothingSelected /\ NothingSelected' /\ dataSess = {} /\ dataSess' = {}
  BY DEF PoolInv, NothingSelected, FetchPage, selected, pool, workers, Running, dataSess
<1>4. TypeOK'
  <2>1. history' \in Seq(Session) /\ top' \in Nat /\ starts' \in 0 .. MaxStarts
    BY DEF TypeOK, FetchPage
  <2>2. pc' \in {"fetch", "select"} /\ (pc' = "fetch" => page' < Pages)
    <3>1. page' # Pages => page' < Pages
      BY <1>2
    <3> QED
      BY <3>1 DEF FetchPage
  <2>3. /\ window' = {} /\ failures' = {} /\ next' = 1
        /\ reading' \cup holding' \cup leaving' \cup records' = {}
    BY <1>3 DEF NothingSelected, Running
  <2>4. sem' \in 0 .. fetchWorkers /\ wg' \in Nat
    BY DEF TypeOK, FetchPage, pool, workers
  <2>5. next' \in 1 .. Len(all') + 1
    BY <1>1, <2>3
  <2>6. /\ window' \subseteq DOMAIN all' /\ failures' \subseteq DOMAIN all'
        /\ reading' \cup holding' \cup leaving' \cup records' \subseteq dataSess'
    BY <2>3
  <2>7. pc' \in {"fetch", "select", "start", "wait", "done"}
    BY <2>2
  <2> QED
    BY <1>1, <1>2, <2>1, <2>2, <2>4, <2>5, <2>6, <2>7, Zenon DEF TypeOK
<1>5. PoolInv'
  BY <1>3 DEF PoolInv, NothingSelected, FetchPage, selected, pool, workers, Running
<1> QED
  BY <1>4, <1>5

\* VBR's own steps do not touch Build.
LEMMA VbrStep ==
    ASSUME TypeOK, PoolInv,
           \/ \E class \in Classes : StartSession(class)
           \/ \E n \in DOMAIN history, outcome \in Outcomes : EndSession(n, outcome)
    PROVE  TypeOK' /\ PoolInv'
<1>1. UNCHANGED <<pc, page, all, top, selected, pool>> /\ dataSess' = dataSess
  BY DEF StartSession, EndSession, fetched, selected, dataSess
<1>2. history' \in Seq(Session) /\ starts' \in 0 .. MaxStarts
  <2>1. ASSUME NEW class \in Classes, StartSession(class)
        PROVE  history' \in Seq(Session) /\ starts' \in 0 .. MaxStarts
    BY <2>1 DEF StartSession, TypeOK, Session
  <2>2. ASSUME NEW n \in DOMAIN history, NEW outcome \in Outcomes, EndSession(n, outcome)
        PROVE  history' \in Seq(Session) /\ starts' \in 0 .. MaxStarts
    <3>1. history[n] \in Session
      BY DEF TypeOK
    <3>2. [history[n] EXCEPT !.result = outcome] \in Session
      BY <3>1 DEF Session
    <3>3. history' = [history EXCEPT ![n] = [history[n] EXCEPT !.result = outcome]]
      BY <2>2 DEF EndSession
    <3>4. history' \in Seq(Session)
      BY <3>2, <3>3, SMTT(30) DEF TypeOK
    <3> QED
      BY <2>2, <3>4 DEF EndSession, fetched, TypeOK
  <2> QED
    BY <2>1, <2>2
<1> QED
  BY <1>1, <1>2 DEF TypeOK, PoolInv, NothingSelected, selected, pool, workers, Running, Failed

\* What the pool works on is finite, so that its sets can be counted.
LEMMA FinitePool ==
    ASSUME TypeOK
    PROVE  /\ IsFiniteSet(dataSess) /\ IsFiniteSet(Running)
           /\ IsFiniteSet(reading \cup holding)
<1>1. IsFiniteSet(DOMAIN all)
  <2>1. DOMAIN all = 1 .. Len(all) /\ Len(all) \in Nat
    BY DEF TypeOK
  <2>2. IsFiniteSet(1 .. Len(all))
    BY <2>1, FS_Interval
  <2> QED
    BY <2>1, <2>2
<1>2. dataSess \subseteq DOMAIN all
  BY DEF TypeOK, dataSess
<1>3. Running \subseteq dataSess /\ reading \cup holding \subseteq dataSess
  BY DEF TypeOK, Running
<1> QED
  BY <1>1, <1>2, <1>3, FS_Subset

\* Selecting the sessions starts no worker.
LEMMA SelectStep ==
    ASSUME TypeOK, PoolInv, NEW from \in Nat, Select(from)
    PROVE  TypeOK' /\ PoolInv'
<1>1. window' \subseteq DOMAIN all' /\ failures' \subseteq DOMAIN all'
  BY DEF Select, DataRuns, FailedRuns, InWindow, fetched
<1>2. \A i \in dataSess' : i \in 1 .. Len(all)
  BY <1>1 DEF dataSess, Select, fetched, TypeOK
<1>3. next' = 1 /\ Running' = {} /\ records' = {} /\ reading' = {} /\ holding' = {}
  BY DEF Select, PoolInv, NothingSelected, Running, pool, workers
<1> QED
  BY <1>1, <1>2, <1>3 DEF TypeOK, PoolInv, Select, fetched, pool, workers, Running

\* The loop passes over a session that gets no worker.
LEMMA SkipStep ==
    ASSUME TypeOK, PoolInv, SkipFailed
    PROVE  TypeOK' /\ PoolInv'
<1>1. dataSess' = dataSess /\ Running' = Running /\ (\A i : Failed(i)' = Failed(i))
  BY DEF SkipFailed, dataSess, Running, Failed, fetched, selected, workers
<1>2. \A i \in dataSess : i \in Nat /\ ((i < next + 1) <=> (i < next \/ i = next))
  BY DEF TypeOK, dataSess
<1>3. {i \in dataSess : i < next /\ ~ Failed(i)} = {i \in dataSess' : i < next' /\ ~ Failed(i)'}
  BY <1>1, <1>2 DEF SkipFailed
<1> QED
  BY <1>1, <1>3, SMTT(30) DEF TypeOK, PoolInv, SkipFailed, fetched, selected, workers

\* A worker takes a slot, which was free.
LEMMA StartStep ==
    ASSUME TypeOK, PoolInv, StartWorker
    PROVE  TypeOK' /\ PoolInv'
<1>1. dataSess' = dataSess /\ (\A i : Failed(i)' = Failed(i))
  BY DEF StartWorker, dataSess, Failed, fetched, selected
<1>2. next \in dataSess /\ next \in 1 .. Len(all) /\ ~ Failed(next)
  BY DEF StartWorker, TypeOK, dataSess
<1>3. next \notin Running /\ next \notin records
  <2>1. next \notin reading \cup records
    BY <1>2 DEF PoolInv
  <2>2. holding \cup leaving \subseteq records
    BY DEF PoolInv
  <2> QED
    BY <2>1, <2>2 DEF Running
<1>4. Cardinality((reading \cup holding)') = Cardinality(reading \cup holding) + 1
  <2>1. (reading \cup holding)' = (reading \cup holding) \cup {next}
    BY DEF StartWorker
  <2> QED
    BY <1>3, <2>1, FinitePool, FS_AddElement DEF Running
<1>5. Cardinality(Running') = Cardinality(Running) + 1
  <2>1. Running' = Running \cup {next}
    BY DEF StartWorker, Running
  <2> QED
    BY <1>3, <2>1, FinitePool, FS_AddElement
<1>6. \A i \in dataSess : i \in Nat /\ ((i < next + 1) <=> (i < next \/ i = next))
  BY DEF TypeOK, dataSess
<1>7. (reading \cup records)' = {i \in dataSess' : i < next' /\ ~ Failed(i)'}
  BY <1>1, <1>2, <1>6 DEF StartWorker, PoolInv
<1>8. sem' \in 0 .. fetchWorkers /\ wg' \in Nat /\ next' \in 1 .. Len(all') + 1
  BY <1>2 DEF StartWorker, SlotFree, TypeOK, fetched
<1>9. (reading \cup holding \cup leaving \cup records)' \subseteq dataSess'
  BY <1>1, <1>2 DEF StartWorker, TypeOK
<1>10. TypeOK'
  BY <1>1, <1>8, <1>9 DEF TypeOK, StartWorker, fetched, selected
<1>11. /\ reading' \cap records' = {} /\ holding' \cap leaving' = {}
       /\ holding' \cup leaving' \subseteq records'
  BY <1>3 DEF StartWorker, PoolInv
<1>12. sem' = Cardinality((reading \cup holding)') /\ wg' = Cardinality(Running')
  BY <1>4, <1>5 DEF StartWorker, PoolInv
<1>13. pc' = "start"
  BY DEF StartWorker
<1> QED
  BY <1>7, <1>10, <1>11, <1>12, <1>13 DEF PoolInv

\* A worker that writes its record keeps its slot.
LEMMA WriteStep ==
    ASSUME TypeOK, PoolInv, NEW i \in DOMAIN all, WriteRecord(i)
    PROVE  TypeOK' /\ PoolInv'
<1>1. dataSess' = dataSess /\ (\A j : Failed(j)' = Failed(j))
  BY DEF WriteRecord, dataSess, Failed, fetched, selected
<1>2. i \notin records /\ i \notin holding /\ i \notin leaving /\ i \in dataSess
  BY DEF WriteRecord, PoolInv, TypeOK
<1>3. (reading \cup records)' = reading \cup records /\ Running' = Running
      /\ (reading \cup holding)' = reading \cup holding
  BY DEF WriteRecord, Running
<1>4. TypeOK'
  BY <1>1, <1>2 DEF TypeOK, WriteRecord, fetched, selected
<1>5. /\ reading' \cap records' = {} /\ holding' \cap leaving' = {}
      /\ holding' \cup leaving' \subseteq records'
  BY <1>2 DEF WriteRecord, PoolInv
<1>6. pc \notin {"fetch", "select"}
  BY DEF PoolInv, NothingSelected, Running, WriteRecord
<1> QED
  BY <1>1, <1>3, <1>4, <1>5, <1>6 DEF PoolInv, WriteRecord, fetched, selected

\* A worker gives its slot back once.
LEMMA ReleaseStep ==
    ASSUME TypeOK, PoolInv, NEW i \in DOMAIN all, Release(i)
    PROVE  TypeOK' /\ PoolInv'
<1>1. dataSess' = dataSess /\ (\A j : Failed(j)' = Failed(j))
  BY DEF Release, dataSess, Failed, fetched, selected
<1>2. i \in records /\ i \notin reading /\ i \notin leaving /\ i \in dataSess
  BY DEF Release, PoolInv, TypeOK
<1>3. (reading \cup records)' = reading \cup records /\ Running' = Running
  BY DEF Release, Running
<1>4. (reading \cup holding)' = (reading \cup holding) \ {i} /\ i \in reading \cup holding
  BY <1>2 DEF Release
<1>5. Cardinality((reading \cup holding)') = sem - 1
  <2> DEFINE taken == reading \cup holding
  <2>1. IsFiniteSet(taken) /\ i \in taken /\ taken' = taken \ {i} /\ sem = Cardinality(taken)
    BY <1>4, FinitePool DEF PoolInv
  <2> HIDE DEF taken
  <2>2. Cardinality(taken \ {i}) = Cardinality(taken) - 1
    BY <2>1, FS_RemoveElement
  <2>3. Cardinality(taken') = sem - 1
    BY <2>1, <2>2
  <2> QED
    BY <2>3 DEF taken
<1>6. sem' = Cardinality((reading \cup holding)') /\ sem' \in 0 .. fetchWorkers
  <2>1. IsFiniteSet((reading \cup holding)')
    BY <1>4, FinitePool, FS_Subset
  <2>2. Cardinality((reading \cup holding)') \in Nat
    BY <2>1, FS_CardinalityType
  <2> QED
    BY <1>5, <2>2 DEF Release, Slot, TypeOK
<1>7. TypeOK'
  BY <1>1, <1>2, <1>6 DEF TypeOK, Release, fetched, selected
<1>8. /\ reading' \cap records' = {} /\ holding' \cap leaving' = {}
      /\ holding' \cup leaving' \subseteq records'
  BY <1>2 DEF Release, PoolInv
<1>9. pc \notin {"fetch", "select"}
  BY DEF PoolInv, NothingSelected, Running, Release
<1> QED
  BY <1>1, <1>3, <1>6, <1>7, <1>8, <1>9 DEF PoolInv, Release, fetched, selected

\* A worker is done once.
LEMMA DoneStep ==
    ASSUME TypeOK, PoolInv, NEW i \in DOMAIN all, Done(i)
    PROVE  TypeOK' /\ PoolInv'
<1>1. dataSess' = dataSess /\ (\A j : Failed(j)' = Failed(j))
  BY DEF Done, dataSess, Failed, fetched, selected
<1>2. i \in records /\ i \notin reading /\ i \notin holding
  BY DEF Done, PoolInv
<1>3. Running' = Running \ {i} /\ i \in Running
  BY <1>2 DEF Done, Running
<1>4. Cardinality(Running') = wg - 1
  BY <1>3, FinitePool, FS_RemoveElement DEF PoolInv
<1>5. wg' = Cardinality(Running') /\ wg' \in Nat
  <2>1. IsFiniteSet(Running')
    BY <1>3, FinitePool, FS_Subset
  <2>2. Cardinality(Running') \in Nat
    BY <2>1, FS_CardinalityType
  <2> QED
    BY <1>4, <2>2 DEF Done, TypeOK
<1>6. TypeOK'
  BY <1>1, <1>5 DEF TypeOK, Done, fetched, selected
<1>7. wg # 0
  BY <1>3, FinitePool, FS_EmptySet DEF PoolInv
<1>8. pc \notin {"fetch", "select", "done"}
  BY <1>3, <1>7 DEF PoolInv, NothingSelected
<1> QED
  BY <1>1, <1>2, <1>5, <1>6, <1>8 DEF PoolInv, Done, fetched, selected

\* Build's own steps after the loop.
LEMMA WaitStep ==
    ASSUME TypeOK, PoolInv, AllStarted \/ Aggregate
    PROVE  TypeOK' /\ PoolInv'
  BY DEF TypeOK, PoolInv, AllStarted, Aggregate, NoneLeft, fetched, selected, pool, workers,
         Running, Failed, dataSess

\* Every step of the system keeps the invariant.
LEMMA NextStep ==
    ASSUME TypeOK, PoolInv, Next
    PROVE  TypeOK' /\ PoolInv'
<1>1. CASE \/ \E class \in Classes : StartSession(class)
           \/ \E n \in DOMAIN history, outcome \in Outcomes : EndSession(n, outcome)
  BY <1>1, VbrStep
<1>2. CASE PageRead \/ PageFails
  <2>1. Skip \in Nat
    BY DEF Skip, TypeOK
  <2>2. history \in Seq(Session)
    BY DEF TypeOK
  <2>3. NewestFirst(Skip) \in Seq(Listed)
    BY <2>1, <2>2, PageType
  <2>4. <<>> \in Seq(Listed)
    OBVIOUS
  <2> QED
    BY <1>2, <2>3, <2>4, FetchType DEF PageRead, PageFails
<1>3. ASSUME NEW from \in 1 .. Len(history) + 1, Select(from)
      PROVE  TypeOK' /\ PoolInv'
  <2>1. from \in Nat
    BY DEF TypeOK
  <2> QED
    BY <1>3, <2>1, SelectStep
<1>4. CASE SkipFailed \/ StartWorker
  BY <1>4, SkipStep, StartStep
<1>5. CASE AllStarted \/ Aggregate
  BY <1>5, WaitStep
<1>6. ASSUME NEW i \in DOMAIN all, WorkerStep(i)
      PROVE  TypeOK' /\ PoolInv'
  BY <1>6, WriteStep, ReleaseStep, DoneStep DEF WorkerStep
<1> QED
  BY <1>1, <1>2, <1>3, <1>4, <1>5, <1>6 DEF Next, BuildStep

\* The invariant of the pool holds at the start and is kept.
LEMMA Invariants == Safety => [](TypeOK /\ PoolInv)
<1>1. Init => TypeOK /\ PoolInv
  <2> SUFFICES ASSUME Init PROVE TypeOK /\ PoolInv
    OBVIOUS
  <2>1. history \in Seq(Session)
    BY DEF Init
  <2>2. dataSess = {} /\ Running = {} /\ reading \cup holding = {} /\ Len(all) = 0
    BY DEF Init, dataSess, Running
  <2>3. TypeOK
    BY <2>1, <2>2 DEF Init, TypeOK
  <2> QED
    BY <2>2, <2>3, FS_EmptySet DEF Init, PoolInv, NothingSelected
<1>2. TypeOK /\ PoolInv /\ [Next]_vars => TypeOK' /\ PoolInv'
  <2> SUFFICES ASSUME TypeOK, PoolInv, UNCHANGED vars PROVE TypeOK' /\ PoolInv'
    BY NextStep
  <2> QED
    BY DEF TypeOK, PoolInv, vars, fetched, selected, pool, workers, Running, Failed, dataSess,
           NothingSelected
<1> QED
  BY <1>1, <1>2, PTL DEF Safety

\* Every variable keeps its type; goroutines only run for analysed sessions.
THEOREM TypeCorrect == Spec => []TypeOK
<1> QED
  BY Invariants, PTL DEF Spec

\* The channel sem (analysis.go:235-242) never holds more nor fewer slots than
\* there are workers that read, and never more than fetchWorkers.
THEOREM SlotsAreWorkersHolds == Spec => []SlotsAreWorkers
<1>1. TypeOK /\ PoolInv => SlotsAreWorkers
  BY DEF TypeOK, PoolInv, SlotsAreWorkers
<1> QED
  BY <1>1, Invariants, PTL DEF Spec

\* wg.Wait (analysis.go:247) returns when every analysed session that has not
\* failed has its record, and no worker is left that could write one.
THEOREM EveryRunRecordedHolds == Spec => []EveryRunRecorded
<1>1. ASSUME TypeOK, PoolInv, pc = "done"
      PROVE  reading = {} /\ records = {i \in dataSess : ~ Failed(i)}
  <2>1. Running = {}
    BY <1>1, FinitePool, FS_EmptySet DEF PoolInv
  <2>2. \A i \in dataSess : i < next
    BY <1>1 DEF TypeOK, PoolInv, dataSess
  <2> QED
    BY <1>1, <2>1, <2>2 DEF PoolInv, Running
<1>2. TypeOK /\ PoolInv => EveryRunRecorded
  BY <1>1 DEF EveryRunRecorded
<1> QED
  BY <1>2, Invariants, PTL DEF Spec
------------------------------------------------------------------------------
(* The list of sessions.                                                   *)

\* A session at position k had k - 1 newer ones: how many VBR had in all when
\* the page was made.
Length(k) == all[k].id + k - 1

\* VBR's list only grows, and by fewer sessions than a page holds.
Grown ==
    /\ page = 0 => all = <<>> /\ starts = 0
    /\ page > 0 => Len(history) = top + starts
    /\ pc = "fetch" => Len(all) = Skip

\* The pages come from lists that were no shorter than the one before.
Pasted ==
    /\ \A k \in DOMAIN all : /\ Length(k) \in top .. Len(history)
                             /\ k <= PageSize => Length(k) = top
    /\ \A i, j \in DOMAIN all : i < j => Length(i) <= Length(j)

\* Between a listed session and the newest of the first page none is missed.
Covered == \A i \in DOMAIN all : \A n \in all[i].id .. top : \E k \in 1 .. i : all[k].id = n

\* What is listed is VBR's, and what is analysed is of the window.
Selected ==
    /\ \A k \in DOMAIN all : all[k].id \in 1 .. Len(history) /\ history[all[k].id].class = all[k].class
    /\ pc \in {"start", "wait", "done"} => \E from \in 1 .. Len(history) + 1 : window = DataRuns(from)

ListInv == Grown /\ Pasted /\ Covered /\ Selected


\* What a page holds: the sessions that follow the first skip, newest first.
LEMMA PageShape ==
    ASSUME NEW skip \in Nat, history \in Seq(Session)
    PROVE  /\ Len(NewestFirst(skip)) \in 0 .. PageSize
           /\ \A i \in 1 .. Len(NewestFirst(skip)) :
                  /\ NewestFirst(skip)[i].id = Len(history) - skip + 1 - i
                  /\ NewestFirst(skip)[i].id \in 1 .. Len(history)
                  /\ NewestFirst(skip)[i].class = history[NewestFirst(skip)[i].id].class
<1> DEFINE n == Len(history) - skip
           k == IF n > PageSize THEN PageSize ELSE IF n > 0 THEN n ELSE 0
           page1 == [i \in 1 .. k |->
                        [id |-> n + 1 - i, class |-> history[n + 1 - i].class, result |-> history[n + 1 - i].result]]
<1>1. n \in Int /\ n <= Len(history) /\ k \in 0 .. PageSize /\ (k > 0 => k <= n)
  OBVIOUS
<1>2. NewestFirst(skip) = page1
  BY DEF NewestFirst
<1>3. \A i \in 1 .. k : n + 1 - i \in 1 .. Len(history)
  BY <1>1
<1>4. Len(history) \in Nat
  OBVIOUS
<1>5. n = Len(history) - skip
  OBVIOUS
<1> HIDE DEF k, n
<1>6. Len(page1) = k
  BY <1>1
<1>7. \A i \in 1 .. k : page1[i].id = n + 1 - i /\ page1[i].class = history[n + 1 - i].class
  OBVIOUS
<1> HIDE DEF page1
<1> QED
  BY <1>1, <1>2, <1>3, <1>4, <1>5, <1>6, <1>7

\* What FetchPage is given: a page of what comes after the sessions it has.
Follows(items) ==
    /\ items \in Seq(Listed)
    /\ Len(items) <= PageSize
    /\ \A i \in 1 .. Len(items) :
           /\ items[i].id = Len(history) - Skip + 1 - i
           /\ items[i].id \in 1 .. Len(history)
           /\ items[i].class = history[items[i].id].class

\* A page extends the list by what the list did not have yet.
LEMMA FetchList ==
    ASSUME TypeOK, ListInv, NEW items, Follows(items), FetchPage(items)
    PROVE  ListInv'
<1> DEFINE L == Len(all)
           M == Len(items)
           H == Len(history)
<1>1. all' = all \o items /\ history' = history
  BY DEF FetchPage
<1>2. /\ L \in Nat /\ M \in Nat /\ M <= PageSize /\ L = Skip /\ H \in Nat
      /\ page \in Nat /\ page' = page + 1 /\ starts' = starts
  BY DEF FetchPage, Follows, ListInv, Grown, TypeOK
<1>3. /\ DOMAIN all = 1 .. L /\ DOMAIN all' = 1 .. L + M /\ Len(all') = L + M
      /\ \A k \in 1 .. L : all'[k] = all[k]
      /\ \A i \in 1 .. M : all'[L + i] = items[i]
  BY <1>1 DEF TypeOK, Follows
<1>4. /\ top' \in Nat /\ top \in Nat /\ starts \in 0 .. MaxStarts
      /\ page > 0 => top' = top /\ H = top + starts
      /\ page = 0 => top' = H /\ starts = 0
  BY <1>2 DEF FetchPage, ListInv, Grown, TypeOK
<1>5. Len(history') = H
  BY <1>1
<1>6. \A i \in 1 .. M : items[i].id = H - L + 1 - i /\ items[i].id \in 1 .. H
                         /\ items[i].class = history[items[i].id].class
  BY <1>2 DEF Follows
<1>7. \A k \in 1 .. L : all[k].id \in 1 .. H /\ history[all[k].id].class = all[k].class
  BY <1>3 DEF ListInv, Selected
<1>8. \A k \in 1 .. L : Length(k) \in top .. H /\ (k <= PageSize => Length(k) = top)
  BY <1>3 DEF ListInv, Pasted
<1>9. \A i, j \in 1 .. L : i < j => Length(i) <= Length(j)
  BY <1>3 DEF ListInv, Pasted
<1>10. \A i \in 1 .. L : \A n \in all[i].id .. top : \E k \in 1 .. i : all[k].id = n
  BY <1>3 DEF ListInv, Covered
<1> HIDE DEF L, M, H
<1>11. PageSize \in Nat /\ PageSize > 0 /\ L = page * PageSize
  BY <1>2 DEF Skip
<1>12. H = top' + starts
  <2>1. page = 0 \/ page > 0
    BY <1>2
  <2>2. CASE page = 0
    BY <1>2, <1>4, <2>2
  <2>3. CASE page > 0
    BY <1>2, <1>4, <2>3
  <2> QED
    BY <2>1, <2>2, <2>3
<1>13. top' <= H /\ starts < PageSize
  BY <1>2, <1>4, PagingAssumption
<1>14. \A k \in 1 .. L : all'[k].id = all[k].id /\ all[k].id \in Int
  BY <1>2, <1>3, <1>7
<1>15. \A k \in L + 1 .. L + M : all'[k].id = H + 1 - k /\ all'[k].id \in 1 .. H
                               /\ all'[k].class = history[all'[k].id].class
  <2> SUFFICES ASSUME NEW k \in L + 1 .. L + M
               PROVE  all'[k].id = H + 1 - k /\ all'[k].id \in 1 .. H /\ all'[k].class = history[all'[k].id].class
    OBVIOUS
  <2> DEFINE m == k - L
  <2>1. m \in 1 .. M /\ k = L + m /\ k \in Int
    BY <1>2
  <2> HIDE DEF m
  <2>2. all'[k] = items[m]
    BY <1>3, <2>1
  <2>3. items[m].id = H - L + 1 - m /\ items[m].id \in 1 .. H
        /\ items[m].class = history[items[m].id].class
    BY <1>6, <2>1
  <2>4. H - L + 1 - m = H + 1 - k
    BY <1>2, <2>1
  <2> QED
    BY <2>2, <2>3, <2>4
<1>16. page = 0 => L = 0
  BY <1>11
<1>17. page > 0 => L >= PageSize
  BY <1>2, <1>11
<1>18. \A k \in 1 .. L : Length(k)' = Length(k)
  BY <1>14 DEF Length
<1>19. \A k \in L + 1 .. L + M : Length(k)' = H
  BY <1>2, <1>15 DEF Length
<1>20. \A k \in 1 .. L + M : k \in 1 .. L \/ k \in L + 1 .. L + M
  BY <1>2
<1>21. \A k \in 1 .. L : page > 0
  BY <1>1, <1>2, <1>16
<1>22. Pasted'
  <2>1. ASSUME NEW k \in 1 .. L + M
        PROVE  Length(k)' \in top' .. H /\ (k <= PageSize => Length(k)' = top')
    <3>1. CASE k \in 1 .. L
      BY <1>4, <1>18, <1>21, <1>8, <3>1
    <3>2. CASE k \in L + 1 .. L + M
      <4>1. k <= PageSize => page = 0
        BY <1>2, <1>17, <1>11, <3>2
      <4> QED
        BY <1>2, <1>4, <1>13, <1>19, <3>2, <4>1
    <3> QED
      BY <1>20, <3>1, <3>2
  <2>2. ASSUME NEW i \in 1 .. L + M, NEW j \in 1 .. L + M, i < j
        PROVE  Length(i)' <= Length(j)'
    <3>1. CASE j \in 1 .. L
      <4>1. i \in 1 .. L
        BY <1>2, <2>2, <3>1
      <4> QED
        BY <1>18, <1>9, <2>2, <3>1, <4>1
    <3>2. CASE j \in L + 1 .. L + M
      BY <1>2, <1>4, <1>19, <2>1, <3>2
    <3> QED
      BY <1>20, <3>1, <3>2
  <2> QED
    BY <1>3, <1>5, <2>1, <2>2 DEF Pasted
<1>23. Covered'
  <2> SUFFICES ASSUME NEW i \in 1 .. L + M, NEW n \in all'[i].id .. top'
               PROVE  \E k \in 1 .. i : all'[k].id = n
    BY <1>3 DEF Covered
  <2>1. CASE i \in 1 .. L
    <3>1. n \in all[i].id .. top
      BY <1>2, <1>4, <1>14, <1>21, <2>1
    <3>2. PICK k \in 1 .. i : all[k].id = n
      BY <1>10, <2>1, <3>1
    <3>3. k \in 1 .. L
      BY <1>2, <2>1, <3>2
    <3> QED
      BY <1>14, <3>2, <3>3
  <2>2. CASE i \in L + 1 .. L + M
    <3> DEFINE m == H + 1 - n
    <3>1. all'[i].id = H + 1 - i
      BY <1>15, <2>2
    <3>2. n \in Int /\ i \in Int /\ n >= H + 1 - i /\ n <= top'
      BY <1>2, <1>4, <2>2, <3>1
    <3>3. m \in 1 .. i /\ n = H + 1 - m
      BY <1>2, <1>13, <1>4, <3>2
    <3> HIDE DEF m
    <3>4. CASE m > L
      <4>1. m \in L + 1 .. L + M
        BY <1>2, <2>2, <3>3, <3>4
      <4> QED
        BY <1>15, <3>3, <4>1
    <3>5. CASE m <= L
      <4>1. L \in 1 .. L
        BY <1>2, <3>3, <3>5
      <4>2. page > 0 /\ top' = top
        BY <1>4, <1>21, <4>1
      <4>3. all[L].id + L - 1 <= H /\ all[L].id \in Int
        BY <1>2, <1>4, <1>14, <1>8, <4>1 DEF Length
      <4>4. n \in all[L].id .. top
        BY <1>2, <1>4, <3>2, <3>3, <3>5, <4>2, <4>3
      <4>5. PICK k \in 1 .. L : all[k].id = n
        BY <1>10, <4>1, <4>4
      <4>6. k \in 1 .. i
        BY <1>2, <2>2, <4>5
      <4> QED
        BY <1>14, <4>5, <4>6
    <3> QED
      BY <1>2, <3>3, <3>4, <3>5
  <2> QED
    BY <1>20, <2>1, <2>2
<1>24. Selected'
  <2>1. pc' \notin {"start", "wait", "done"}
    BY DEF FetchPage
  <2>2. \A k \in 1 .. L + M : all'[k].id \in 1 .. H /\ history[all'[k].id].class = all'[k].class
    BY <1>3, <1>15, <1>20, <1>7
  <2> QED
    BY <1>1, <1>3, <1>5, <2>1, <2>2 DEF Selected
<1>25. Grown'
  <2>1. pc' = "fetch" => M = PageSize
    BY <1>2 DEF FetchPage, Short, M
  <2>2. Skip' = L + PageSize
    BY <1>2, <1>11 DEF Skip
  <2>3. page' > 0 /\ page' # 0
    BY <1>2
  <2> QED
    BY <1>2, <1>3, <1>12, <1>5, <2>1, <2>2, <2>3 DEF Grown
<1> QED
  BY <1>22, <1>23, <1>24, <1>25 DEF ListInv

\* The types of the list.
LEMMA ListTypes ==
    ASSUME TypeOK
    PROVE  /\ DOMAIN all = 1 .. Len(all) /\ Len(all) \in Nat /\ Len(history) \in Nat
           /\ top \in Nat /\ starts \in 0 .. MaxStarts /\ page \in Nat
           /\ \A k \in DOMAIN all : all[k].id \in Nat /\ k \in Nat /\ k >= 1
<1>1. DOMAIN all = 1 .. Len(all) /\ Len(all) \in Nat /\ Len(history) \in Nat
  BY DEF TypeOK
<1>2. top \in Nat /\ starts \in 0 .. MaxStarts /\ page \in Nat
  BY DEF TypeOK
<1>3. \A k \in DOMAIN all : all[k] \in Listed
  BY DEF TypeOK
<1>4. \A k \in DOMAIN all : all[k].id \in Nat
  BY <1>3 DEF Listed
<1> QED
  BY <1>1, <1>2, <1>4

\* Sessions that start or end leave the list as it is.
LEMMA VbrList ==
    ASSUME TypeOK, ListInv,
           \/ \E class \in Classes : StartSession(class)
           \/ \E n \in DOMAIN history, outcome \in Outcomes : EndSession(n, outcome)
    PROVE  ListInv'
<1>1. /\ UNCHANGED <<pc, page, all, top, window>> /\ page > 0 /\ pc = "fetch" /\ page \in Nat
      /\ Skip' = Skip /\ top \in Nat /\ starts \in Nat
  <2>1. UNCHANGED <<pc, page, all, top, window>> /\ page > 0 /\ pc = "fetch"
    BY DEF StartSession, EndSession, Paging, fetched, selected
  <2>2. Skip' = Skip
    BY <2>1 DEF Skip
  <2> QED
    BY <2>1, <2>2, ListTypes
<1>2. /\ Len(history) \in Nat /\ Len(history') \in Nat
      /\ Len(history) = top + starts => Len(history') = top + starts'
      /\ Len(history) <= Len(history')
      /\ \A n \in 1 .. Len(history) : history'[n].class = history[n].class
      /\ starts' \in Nat
  <2>1. ASSUME NEW class \in Classes, StartSession(class)
        PROVE  /\ Len(history) \in Nat /\ Len(history') = Len(history) + 1
               /\ starts' = starts + 1 /\ starts \in Nat
               /\ \A n \in 1 .. Len(history) : history'[n] = history[n]
    BY <2>1 DEF StartSession, TypeOK
  <2>2. ASSUME NEW n \in DOMAIN history, NEW outcome \in Outcomes, EndSession(n, outcome)
        PROVE  /\ Len(history) \in Nat /\ Len(history') = Len(history)
               /\ starts' = starts /\ starts \in Nat
               /\ \A m \in 1 .. Len(history) : history'[m].class = history[m].class
    <3>1. history[n] \in Session
      BY DEF TypeOK
    <3> DEFINE ended == [history[n] EXCEPT !.result = outcome]
    <3>2. ended \in Session /\ ended.class = history[n].class
      BY <3>1 DEF Session
    <3>3. history' = [history EXCEPT ![n] = ended]
      BY <2>2 DEF EndSession
    <3> HIDE DEF ended
    <3>4. \A m \in 1 .. Len(history) : history'[m] = IF m = n THEN ended ELSE history[m]
      BY <3>3, SMTT(30) DEF TypeOK
    <3>5. Len(history') = Len(history) /\ Len(history) \in Nat
      BY <3>2, <3>3, SMTT(30) DEF TypeOK
    <3>6. starts' = starts /\ starts \in Nat
      BY <2>2 DEF EndSession, fetched, TypeOK
    <3> QED
      BY <3>2, <3>4, <3>5, <3>6
  <2>3. CASE \E class \in Classes : StartSession(class)
    BY <1>1, <2>1, <2>3, SMTT(30)
  <2>4. CASE \E n \in DOMAIN history, outcome \in Outcomes : EndSession(n, outcome)
    <3>1. /\ Len(history) \in Nat /\ Len(history') = Len(history)
          /\ starts' = starts /\ starts \in Nat
          /\ \A m \in 1 .. Len(history) : history'[m].class = history[m].class
      BY <2>2, <2>4
    <3>2. Len(history) = top + starts => Len(history') = top + starts'
      BY <3>1, Zenon
    <3> QED
      BY <3>1, <3>2
  <2> QED
    BY <2>3, <2>4
<1>3. Grown'
  <2>1. Len(history) = top + starts
    BY <1>1 DEF ListInv, Grown
  <2>2. Len(history') = top + starts'
    BY <1>2, <2>1
  <2>3. page' # 0
    BY <1>1
  <2> QED
    BY <1>1, <2>2, <2>3 DEF ListInv, Grown
<1>4. \A k \in DOMAIN all : Length(k)' = Length(k)
  BY <1>1 DEF Length
<1>5. Pasted'
  <2>1. \A k \in DOMAIN all : Length(k) \in top .. Len(history')
    BY <1>1, <1>2 DEF ListInv, Pasted
  <2> QED
    BY <1>1, <1>4, <2>1 DEF ListInv, Pasted
<1>6. Covered'
  BY <1>1 DEF ListInv, Covered
<1>7. Selected'
  <2>1. \A k \in DOMAIN all : all[k].id \in 1 .. Len(history) /\ history[all[k].id].class = all[k].class
    BY DEF ListInv, Selected
  <2>2. \A k \in DOMAIN all : all[k].id \in 1 .. Len(history') /\ history'[all[k].id].class = all[k].class
    BY <1>2, <2>1
  <2> QED
    BY <1>1, <2>2 DEF Selected
<1> QED
  BY <1>3, <1>5, <1>6, <1>7 DEF ListInv

\* So do the steps of Build after the paging, which only choose from it.
LEMMA KeepList ==
    ASSUME ListInv, UNCHANGED <<history, page, all, top, starts>>, pc' = "fetch" => pc = "fetch",
           pc' \in {"start", "wait", "done"} => \E from \in 1 .. Len(history) + 1 : window' = DataRuns(from)
    PROVE  ListInv'
<1>1. Skip' = Skip /\ (\A k : Length(k)' = Length(k)) /\ (\A from : DataRuns(from)' = DataRuns(from))
  BY DEF Skip, Length, DataRuns, InWindow
<1>2. Grown' /\ Pasted' /\ Covered'
  BY <1>1 DEF ListInv, Grown, Pasted, Covered
<1>3. Selected'
  BY <1>1 DEF ListInv, Selected
<1> QED
  BY <1>2, <1>3 DEF ListInv

LEMMA ListStep ==
    ASSUME TypeOK, ListInv, [Next]_vars
    PROVE  ListInv'
<1>1. CASE \/ \E class \in Classes : StartSession(class)
           \/ \E n \in DOMAIN history, outcome \in Outcomes : EndSession(n, outcome)
  BY <1>1, VbrList
<1>2. CASE PageRead
  <2>1. Skip \in Nat /\ history \in Seq(Session)
    BY DEF Skip, TypeOK
  <2>2. Follows(NewestFirst(Skip))
    <3>1. NewestFirst(Skip) \in Seq(Listed)
      BY <2>1, PageType
    <3>2. /\ Len(NewestFirst(Skip)) \in 0 .. PageSize
          /\ \A i \in 1 .. Len(NewestFirst(Skip)) :
                 /\ NewestFirst(Skip)[i].id = Len(history) - Skip + 1 - i
                 /\ NewestFirst(Skip)[i].id \in 1 .. Len(history)
                 /\ NewestFirst(Skip)[i].class = history[NewestFirst(Skip)[i].id].class
      BY <2>1, PageShape
    <3>3. Len(NewestFirst(Skip)) <= PageSize
      BY <3>2
    <3> QED
      BY <3>1, <3>2, <3>3 DEF Follows
  <2> QED
    BY <1>2, <2>2, FetchList DEF PageRead
<1>3. CASE PageFails
  <2>1. <<>> \in Seq(Listed) /\ Len(<<>>) = 0
    OBVIOUS
  <2>2. Follows(<<>>)
    BY <2>1 DEF Follows
  <2> QED
    BY <1>3, <2>2, FetchList DEF PageFails
<1>4. ASSUME NEW from \in 1 .. Len(history) + 1, Select(from)
      PROVE  ListInv'
  BY <1>4, KeepList DEF Select, fetched
<1>5. CASE SkipFailed \/ StartWorker \/ AllStarted \/ Aggregate \/ UNCHANGED vars
           \/ \E i \in DOMAIN all : WorkerStep(i)
  <2>1. /\ UNCHANGED <<history, page, all, top, starts, window>>
        /\ pc' = "fetch" => pc = "fetch"
        /\ pc' \in {"start", "wait", "done"} => pc \in {"start", "wait", "done"}
    BY <1>5 DEF SkipFailed, StartWorker, AllStarted, Aggregate, vars, WorkerStep, WriteRecord, Release, Done,
                fetched, selected
  <2> QED
    BY <2>1, KeepList DEF ListInv, Selected
<1> QED
  BY <1>1, <1>2, <1>3, <1>4, <1>5 DEF Next, BuildStep

LEMMA ListInvariant == Safety => [](TypeOK /\ ListInv)
<1>1. Init => ListInv
  <2> SUFFICES ASSUME Init PROVE ListInv
    OBVIOUS
  <2>1. page = 0 /\ all = <<>> /\ starts = 0 /\ pc = "fetch"
    BY DEF Init
  <2>2. DOMAIN all = {} /\ Len(all) = 0 /\ Skip = 0
    BY <2>1 DEF Skip
  <2> QED
    BY <2>1, <2>2 DEF ListInv, Grown, Pasted, Covered, Selected
<1>2. TypeOK /\ ListInv /\ [Next]_vars => ListInv'
  BY ListStep
<1> QED
  BY <1>1, <1>2, Invariants, PTL DEF Safety

\* helpers.go:44 and reliability.go:46-66: for any page size and any number of
\* sessions that start or end while the pages are read, the first session of a
\* job that FailuresOf meets is its newest.
THEOREM FirstListedIsNewestHolds == Spec => []FirstListedIsNewest
<1>1. ASSUME TypeOK, ListInv, NEW i \in DOMAIN all, NEW j \in DOMAIN all, i < j, all[i].id < all[j].id
      PROVE  \E k \in 1 .. i : all[k].id = all[j].id
  <2>1. i \in Nat /\ j \in Nat /\ all[i].id \in Int /\ all[j].id \in Int /\ top \in Nat /\ starts \in 0 .. MaxStarts
    BY <1>1, ListTypes
  <2>2. Length(i) <= Length(j) /\ Length(j) \in top .. Len(history) /\ (j <= PageSize => Length(j) = top)
        /\ Length(i) \in top .. Len(history)
    BY <1>1 DEF ListInv, Pasted
  <2>3. Len(history) = top + starts
    <3>1. all # <<>>
      OBVIOUS
    <3>2. page # 0
      BY <3>1, <1>1 DEF ListInv, Grown
    <3> QED
      BY <1>1, <3>2 DEF ListInv, Grown, TypeOK
  <2>4. all[j].id <= top
    <3>1. CASE j <= PageSize
      BY <1>1, <2>1, <2>2, <3>1, ListTypes, SMTT(30) DEF Length
    <3>2. CASE j > PageSize
      BY <2>1, <2>2, <2>3, <3>2, PagingAssumption, SMTT(30) DEF Length
    <3> QED
      BY <2>1, <3>1, <3>2
  <2>5. all[j].id \in all[i].id .. top
    BY <1>1, <2>1, <2>4
  <2> QED
    BY <1>1, <2>5 DEF ListInv, Covered
<1>2. TypeOK /\ ListInv => FirstListedIsNewest
  BY <1>1 DEF FirstListedIsNewest
<1> QED
  BY <1>2, ListInvariant, PTL DEF Spec

\* helpers.go:47-60: the list repeats at most as many sessions as were created
\* since its first page.
THEOREM RepeatsAreShiftsHolds == Spec => []RepeatsAreShifts
<1>1. ASSUME TypeOK, ListInv PROVE RepeatsAreShifts
  <2> DEFINE L == Len(all)
             ids == Ids(DOMAIN all)
  <2>1. L \in Nat /\ DOMAIN all = 1 .. L /\ top \in Nat /\ starts \in Nat
    BY <1>1 DEF TypeOK
  <2>2. IsFiniteSet(ids)
    <3>1. ids \subseteq 1 .. Len(history)
      BY <1>1 DEF ListInv, Selected, Ids
    <3>2. IsFiniteSet(1 .. Len(history))
      BY <1>1, ListTypes, FS_Interval
    <3> QED
      BY <3>1, <3>2, FS_Subset
  <2>3. Cardinality(ids) \in Nat
    BY <2>2, FS_CardinalityType
  <2>4. CASE L = 0
    BY <2>1, <2>3, <2>4 DEF RepeatsAreShifts
  <2>5. CASE L > 0
    <3>1. L \in DOMAIN all /\ all[L].id \in Int
      BY <2>1, <2>5, <1>1, ListTypes
    <3>2. all[L].id .. top \subseteq ids
      BY <1>1, <2>1, <3>1 DEF ListInv, Covered, Ids
    <3>3. Cardinality(all[L].id .. top) <= Cardinality(ids)
      <4> HIDE DEF L, ids
      <4> QED
        BY <2>2, <3>2, FS_Subset
    <3>4. Cardinality(all[L].id .. top) = IF all[L].id > top THEN 0 ELSE top - all[L].id + 1
      <4> DEFINE low == all[L].id
      <4>1. low \in Int /\ top \in Int
        BY <2>1, <3>1
      <4> HIDE DEF low
      <4>2. Cardinality(low .. top) = IF low > top THEN 0 ELSE top - low + 1
        BY <4>1, FS_Interval
      <4> QED
        BY <4>2 DEF low
    <3>5. Length(L) \in top .. Len(history) /\ Len(history) = top + starts
      <4>1. page # 0
        BY <1>1, <2>1, <2>5 DEF ListInv, Grown
      <4> QED
        BY <1>1, <3>1, <4>1 DEF ListInv, Grown, Pasted, TypeOK
    <3>6. all[L].id + L - 1 <= top + starts
      BY <2>1, <3>1, <3>5 DEF Length
    <3> HIDE DEF L, ids
    <3>7. L <= Cardinality(ids) + starts
      BY <2>1, <2>3, <3>1, <3>3, <3>4, <3>6, SMTT(30)
    <3> QED
      BY <3>7 DEF L, ids, RepeatsAreShifts
  <2> QED
    BY <2>1, <2>4, <2>5
<1> QED
  BY <1>1, ListInvariant, PTL DEF Spec

\* analysis.go:205-222: between the oldest analysed run and the newest that VBR
\* had, the cap on the sessions and the pages leave none out.
THEOREM NoGapInRunsHolds == Spec => []NoGapInRuns
<1>1. ASSUME TypeOK, ListInv, pc \in {"start", "wait", "done"}, NEW i \in dataSess,
             NEW n \in all[i].id .. top, history[n].class = "data"
      PROVE  n \in Ids(dataSess)
  <2>1. i \in window /\ i \in DOMAIN all /\ DOMAIN all = 1 .. Len(all) /\ Len(all) \in Nat
    BY <1>1 DEF dataSess, TypeOK
  <2>2. PICK k \in 1 .. i : all[k].id = n
    BY <1>1, <2>1 DEF ListInv, Covered
  <2>3. k \in DOMAIN all /\ k <= i
    BY <2>1, <2>2
  <2>4. PICK from \in 1 .. Len(history) + 1 : window = DataRuns(from)
    BY <1>1 DEF ListInv, Selected
  <2>5. all[k].class = "data" /\ all[k].id >= from
    <3>1. all[k].class = "data"
      BY <1>1, <2>2, <2>3 DEF ListInv, Selected
    <3>2. all[i].id >= from /\ all[i].id \in Int /\ all[k].id \in Int /\ all[k].id >= all[i].id /\ from \in Int
      <4>1. all[i].id >= from /\ from \in Int
        BY <1>1, <2>1, <2>4, ListTypes DEF DataRuns, InWindow
      <4>2. top \in Nat /\ \A j \in DOMAIN all : all[j].id \in Nat
        BY <1>1, ListTypes
      <4>3. all[i].id \in Nat /\ all[k].id \in Nat
        BY <2>1, <2>3, <4>2, Zenon
      <4> QED
        BY <1>1, <2>2, <4>1, <4>2, <4>3
    <3> QED
      BY <3>1, <3>2
  <2>6. k \in window
    BY <2>3, <2>4, <2>5 DEF DataRuns, InWindow
  <2>7. {j \in window : j < k} \subseteq {j \in window : j < i}
    BY <1>1, <2>1, <2>3 DEF TypeOK
  <2>8. IsFiniteSet({j \in window : j < i})
    <3>1. IsFiniteSet(DOMAIN all)
      BY <2>1, FS_Interval
    <3>2. {j \in window : j < i} \subseteq DOMAIN all
      BY <1>1 DEF TypeOK
    <3> QED
      BY <3>1, <3>2, FS_Subset
  <2>9. Cardinality({j \in window : j < k}) < maxSessions
    <3> DEFINE before == {j \in window : j < k}
               below == {j \in window : j < i}
    <3>1. Cardinality(below) < maxSessions
      BY DEF dataSess
    <3>2. before \subseteq below /\ IsFiniteSet(below)
      BY <2>7, <2>8
    <3> HIDE DEF before, below
    <3>3. Cardinality(before) <= Cardinality(below) /\ Cardinality(before) \in Nat /\ Cardinality(below) \in Nat
      BY <3>2, FS_Subset, FS_CardinalityType
    <3>4. Cardinality(before) < maxSessions
      BY <3>1, <3>3
    <3> QED
      BY <3>4 DEF before
  <2>10. k \in dataSess
    BY <2>6, <2>9 DEF dataSess
  <2> QED
    BY <2>2, <2>10 DEF Ids
<1>2. TypeOK /\ ListInv => NoGapInRuns
  BY <1>1 DEF NoGapInRuns
<1> QED
  BY <1>2, ListInvariant, PTL DEF Spec
==============================================================================
