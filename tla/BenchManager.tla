----------------------------- MODULE BenchManager -----------------------------
(***************************************************************************)
(* The disk benchmark of a session: benchmark.Manager                      *)
(* (internal/benchmark/manager.go), the handlers that call it              *)
(* (internal/server/handlers.go), the session store they resolve their     *)
(* session in, the goroutine that runs each benchmark, and the loop of the *)
(* page (frontend/index.html) that polls it.                               *)
(*                                                                         *)
(* Every critical section of Manager.mu and of Store.mu is one step.  What *)
(* lies between two of them is where requests overlap: a handler resolves  *)
(* its session first and writes to the manager after an SSH dial, a        *)
(* network measurement or a round of GETs, while a disconnect may run.     *)
(***************************************************************************)
EXTENDS Naturals, Sequences, FiniteSets

CONSTANTS
    Sessions,   \* session ids that Store.New may draw
    Handlers,   \* handler goroutines
    Jobs,       \* job ids that newID may draw
    Watched,    \* those of them whose page stays open and polls
    Repos,      \* repositories a benchmark can be run on
    OtherOperations,  \* what a request may name that operationTests has no key for
    MaxSpeed,   \* bound on a measured write speed
    Nothing     \* no session, no repository

ASSUME NothingAssumption == Nothing \notin Sessions \cup Repos
ASSUME OtherOperationsAssumption == OtherOperations \cap {"backup", "restore", "both"} = {}
ASSUME MaxSpeedAssumption == MaxSpeed \in Nat

VARIABLES
    store,      \* keys of Store.sessions
    conns,      \* keys of Manager.conns: the sessions with a validated connection
    iperfs,     \* keys of Manager.iperfs: the sessions with a network measurement
    table,      \* keys of Manager.jobs
    job,        \* every Job ever made, in the table or only in its goroutine
    rows,       \* the rows that RunDisk has collected for a job
    pc,         \* where each handler is
    sess,       \* the session each handler works on
    target,     \* the repository of a Start
    op,         \* the operation of a Start
    viewer,     \* where the polling loop of a job's page is
    \* history variables, which no guard reads
    opened,     \* the sessions that were ever in the store
    overlapped  \* the sessions cleared while a handler was past its session check

manager == <<conns, iperfs, table>>
request == <<sess, target, op>>
vars == <<store, conns, iperfs, table, job, rows, pc, sess, target, op,
          viewer, opened, overlapped>>

\* What a benchmark measures for each operation, in order.
operationTests == [backup  |-> <<"seqwrite", "randwrite">>,
                   restore |-> <<"seqread", "randread">>,
                   both    |-> <<"seqread", "seqwrite", "randread", "randwrite">>]

\* Start takes any string from the request ("" is "backup").
Operations == DOMAIN operationTests \cup OtherOperations

Statuses == {"queued", "running", "completed", "failed"}
Ended == {"completed", "failed"}

\* A row keeps the bandwidth of a sequential write, the only one that is read
\* again (DiskWriteMBps); the row of another test is 0.  fio reports one row per
\* test, so rows are in the order of the tests.
Row == 0 .. MaxSpeed
Results == {r \in Seq(Row) : Len(r) <= 4}

\* progress is the percentage that the page draws.
Job == [session : Sessions, repo : Repos, op : Operations,
        status : Statuses, progress : 0 .. 100, disk : Results]
NoJob == [session |-> Nothing, repo |-> Nothing, op |-> "backup",
          status |-> "queued", progress |-> 0, disk |-> <<>>]
Made == {j \in Jobs : job[j] # NoJob}

\* Handlers past their session check; "deleted" is a disconnect between its
\* two calls.
Working == {"dialing", "measuring", "lookup", "create"}

\* The type of every variable; a handler has a session while it works, and a
\* repository while it starts a benchmark.
TypeOK ==
    /\ store \subseteq opened
    /\ opened \subseteq Sessions
    /\ overlapped \subseteq opened
    /\ conns \subseteq opened
    /\ iperfs \subseteq opened
    /\ job \in [Jobs -> Job \cup {NoJob}]
    /\ table \subseteq Made
    /\ rows \in [Jobs -> Results]
    /\ pc \in [Handlers -> {"idle", "deleted"} \cup Working]
    /\ sess \in [Handlers -> opened \cup {Nothing}]
    /\ target \in [Handlers -> Repos \cup {Nothing}]
    /\ op \in [Handlers -> Operations]
    /\ viewer \in [Jobs -> {"off", "ask", "resolved"}]
    /\ \A h \in Handlers :
          /\ (sess[h] = Nothing) <=> (pc[h] = "idle")
          /\ (target[h] # Nothing) <=> (pc[h] \in {"lookup", "create"})

Init ==
    /\ store = {} /\ conns = {} /\ iperfs = {} /\ table = {}
    /\ job = [j \in Jobs |-> NoJob]
    /\ rows = [j \in Jobs |-> <<>>]
    /\ pc = [h \in Handlers |-> "idle"]
    /\ sess = [h \in Handlers |-> Nothing]
    /\ target = [h \in Handlers |-> Nothing]
    /\ op = [h \in Handlers |-> "backup"]
    /\ viewer = [j \in Jobs |-> "off"]
    /\ opened = {} /\ overlapped = {}

------------------------------------------------------------------------------
(* Faulty variants of definitions of this module, one for each way the     *)
(* code could plausibly be wrong; the properties are shown to reject them. *)

\* session() checks nothing: a handler works for a session that is gone.
AnySession(s) == s \in opened

\* ClearSession discards the jobs of every session.
AllJobs(s) == table

\* A status that the page has no name for.
UnnamedStatus == "error"

\* The error path leaves the status as it is.
SilentError == "running"

\* A straggling test still reports to a job that has completed.
StillRunning(j) == job[j].status \in {"running", "completed"}

------------------------------------------------------------------------------
\* An operation nobody knows runs all tests.
testsForOperation(o) ==
    operationTests[IF o \in DOMAIN operationTests THEN o ELSE "both"]

\* (A faulty variant of Tests below: the last test is forgotten, and the job
\* completes without its row.)
OneTestLess(j) == Len(testsForOperation(job[j].op)) - 1

------------------------------------------------------------------------------
(* The handlers.                                                           *)

\* Store.New, for connect and connectDemo: a random id is never drawn twice.
NewSession(s) ==
    /\ s \notin opened
    /\ store' = store \cup {s}
    /\ opened' = opened \cup {s}
    /\ UNCHANGED <<manager, job, rows, pc, request, viewer, overlapped>>

\* Server.session: every handler but disconnect starts with it.
Known(s) == s \in store

Resolve(h, s, where) ==
    /\ pc[h] = "idle"
    /\ Known(s)
    /\ pc' = [pc EXCEPT ![h] = where]
    /\ sess' = [sess EXCEPT ![h] = s]
    /\ UNCHANGED <<store, manager, job, rows, viewer, opened, overlapped>>

\* benchConnection, iperf and benchmarkStart.
Connect(h, s) == Resolve(h, s, "dialing") /\ UNCHANGED <<target, op>>

Measure(h, s) == Resolve(h, s, "measuring") /\ UNCHANGED <<target, op>>

\* (bounded: no more Starts in flight than job ids are left.)
StartBenchmark(h, s, r, o) ==
    /\ Resolve(h, s, "lookup")
    /\ Cardinality({g \in Handlers : pc[g] \in {"lookup", "create"}}) < Cardinality(Jobs \ Made)
    /\ target' = [target EXCEPT ![h] = r]
    /\ op' = [op EXCEPT ![h] = o]

\* The handler answers, and forgets its request.
Answer(h) ==
    /\ pc' = [pc EXCEPT ![h] = "idle"]
    /\ sess' = [sess EXCEPT ![h] = Nothing]
    /\ target' = [target EXCEPT ![h] = Nothing]
    /\ op' = [op EXCEPT ![h] = "backup"]

\* TestConnection: the dial worked, the session gets its connection.
Connected(h) ==
    /\ pc[h] = "dialing"
    /\ conns' = conns \cup {sess[h]}
    /\ Answer(h)
    /\ UNCHANGED <<store, iperfs, table, job, rows, viewer, opened, overlapped>>

\* SetIperf, for a measurement that is one.
Measured(h) ==
    /\ pc[h] = "measuring"
    /\ iperfs' = iperfs \cup {sess[h]}
    /\ Answer(h)
    /\ UNCHANGED <<store, conns, table, job, rows, viewer, opened, overlapped>>

\* Bad input, demo session, refused dial, failed measurement, no such
\* repository (404): the handler answers and leaves the manager alone.
Refuse(h) ==
    /\ pc[h] \in {"dialing", "measuring", "lookup"}
    /\ Answer(h)
    /\ UNCHANGED <<store, manager, job, rows, viewer, opened, overlapped>>

\* Start has found the repository, and asks for the connection (getConn).
HasConn(h) ==
    /\ pc[h] = "lookup"
    /\ sess[h] \in conns
    /\ pc' = [pc EXCEPT ![h] = "create"]
    /\ UNCHANGED <<store, manager, job, rows, request, viewer, opened, overlapped>>

\* The conflict (409) of a session without a connection.
NoConn(h) ==
    /\ pc[h] = "lookup"
    /\ sess[h] \notin conns
    /\ Answer(h)
    /\ UNCHANGED <<store, manager, job, rows, viewer, opened, overlapped>>

\* Start puts the job into the table and starts its goroutine; a page that gets
\* the job id, and is not closed, begins to poll.
Create(h, j) ==
    /\ pc[h] = "create"
    /\ job[j] = NoJob
    /\ job' = [job EXCEPT ![j] = [NoJob EXCEPT !.session = sess[h],
                                               !.repo = target[h],
                                               !.op = op[h]]]
    /\ table' = table \cup {j}
    /\ viewer' = [viewer EXCEPT ![j] = IF j \in Watched THEN "ask" ELSE "off"]
    /\ Answer(h)
    /\ UNCHANGED <<store, conns, iperfs, rows, opened, overlapped>>

\* disconnect: the session leaves the store ...
Delete(h, s) ==
    /\ pc[h] = "idle"
    /\ s \in opened
    /\ store' = store \ {s}
    /\ pc' = [pc EXCEPT ![h] = "deleted"]
    /\ sess' = [sess EXCEPT ![h] = s]
    /\ UNCHANGED <<manager, job, rows, target, op, viewer, opened, overlapped>>

\* ... and then the manager discards what it has of it (ClearSession).
JobsOf(s) == {j \in table : job[j].session = s}

ClearSession(h) ==
    /\ pc[h] = "deleted"
    /\ conns' = conns \ {sess[h]}
    /\ iperfs' = iperfs \ {sess[h]}
    /\ table' = table \ JobsOf(sess[h])
    /\ overlapped' = IF \E g \in Handlers : pc[g] \in Working /\ sess[g] = sess[h]
                     THEN overlapped \cup {sess[h]}
                     ELSE overlapped
    /\ Answer(h)
    /\ UNCHANGED <<store, job, rows, viewer, opened>>

------------------------------------------------------------------------------
(* The goroutine of a job.  It holds the Job itself, so it goes on when    *)
(* the job has left the table.                                             *)

Tests(j) == Len(testsForOperation(job[j].op))

\* What RunDisk tells onProgress after n of its tests.
Percent(n, total) == (n * 100) \div total

Runnable(j) == job[j].status = "running"

Run(j) ==
    /\ j \in Made
    /\ job[j].status = "queued"
    /\ job' = [job EXCEPT ![j].status = "running"]
    /\ UNCHANGED <<store, manager, rows, pc, request, viewer, opened, overlapped>>

\* One test of RunDisk has run, its libaio to psync retry included, and its
\* progress is reported.
TestDone(j, speed) ==
    /\ Runnable(j)
    /\ Len(rows[j]) < Tests(j)
    /\ testsForOperation(job[j].op)[Len(rows[j]) + 1] # "seqwrite" => speed = 0
    /\ rows' = [rows EXCEPT ![j] = Append(@, speed)]
    /\ job' = [job EXCEPT ![j].progress = Percent(Len(rows[j]) + 1, Tests(j))]
    /\ UNCHANGED <<store, manager, pc, request, viewer, opened, overlapped>>

\* The dial, a test or its report fails, and with it the whole job: what was
\* measured is dropped.
FailedStatus == "failed"

RunFails(j) ==
    /\ Runnable(j)
    /\ Len(rows[j]) < Tests(j)
    /\ job' = [job EXCEPT ![j].status = FailedStatus]
    /\ rows' = [rows EXCEPT ![j] = <<>>]
    /\ UNCHANGED <<store, manager, pc, request, viewer, opened, overlapped>>

\* The annotated rows, the progress and the status are set together.
Complete(j) ==
    /\ Runnable(j)
    /\ Len(rows[j]) = Tests(j)
    /\ job' = [job EXCEPT ![j].disk = rows[j], ![j].progress = 100, ![j].status = "completed"]
    /\ rows' = [rows EXCEPT ![j] = <<>>]
    /\ UNCHANGED <<store, manager, pc, request, viewer, opened, overlapped>>

------------------------------------------------------------------------------
(* The page's pollJob: benchmarkGet resolves the session and then reads    *)
(* the job; the loop goes on while the job has not ended.                  *)

AskSession(j) ==
    /\ viewer[j] = "ask"
    /\ viewer' = [viewer EXCEPT ![j] = IF Known(job[j].session) THEN "resolved" ELSE "off"]
    /\ UNCHANGED <<store, manager, job, rows, pc, request, opened, overlapped>>

JobJSON(j) ==
    /\ viewer[j] = "resolved"
    /\ viewer' = [viewer EXCEPT ![j] =
                    IF j \in table /\ job[j].status \notin Ended THEN "ask" ELSE "off"]
    /\ UNCHANGED <<store, manager, job, rows, pc, request, opened, overlapped>>

\* DiskWriteMBps: the best row named "seqwrite" of the completed jobs that are
\* in the table, whatever operation they ran (0: none was measured).
Measurements(s, r) ==
    {j \in JobsOf(s) : job[j].repo = r /\ job[j].status = "completed"}

SeqWrites(j) == {i \in DOMAIN job[j].disk : testsForOperation(job[j].op)[i] = "seqwrite"}

DiskWriteMBps(s, r) ==
    LET speeds == {0} \cup UNION {{job[j].disk[i] : i \in SeqWrites(j)} : j \in Measurements(s, r)}
    IN  CHOOSE v \in speeds : \A w \in speeds : w <= v

HandlerStep(h) ==
    \/ Connected(h)
    \/ Measured(h)
    \/ Refuse(h)
    \/ HasConn(h)
    \/ NoConn(h)
    \/ \E j \in Jobs : Create(h, j)
    \/ ClearSession(h)

GoroutineStep(j) ==
    \/ Run(j)
    \/ \E speed \in Row : TestDone(j, speed)
    \/ RunFails(j)
    \/ Complete(j)

PageStep(j) == AskSession(j) \/ JobJSON(j)

Next ==
    \/ \E s \in Sessions : NewSession(s)
    \/ \E h \in Handlers, s \in Sessions :
          \/ Connect(h, s)
          \/ Measure(h, s)
          \/ \E r \in Repos, o \in Operations : StartBenchmark(h, s, r, o)
          \/ Delete(h, s)
    \/ \E h \in Handlers : HandlerStep(h)
    \/ \E j \in Jobs : GoroutineStep(j) \/ PageStep(j)

\* A benchmark runs on: fio runs for a given time and a connection that died
\* is noticed.  So does the page that waits for it.
Fairness == \A j \in Jobs : WF_vars(GoroutineStep(j)) /\ WF_vars(PageStep(j))

Safety == Init /\ [][Next]_vars

Spec == Safety /\ Fairness

------------------------------------------------------------------------------
\* A job has results exactly when it has completed, and then they are the rows
\* of all its tests: no page and no analysis ever sees a part of them.
ResultsAreComplete ==
    \A j \in Made :
        /\ job[j].status = "completed" =>
              Len(job[j].disk) = Len(testsForOperation(job[j].op)) /\ job[j].progress = 100
        /\ job[j].status # "completed" => job[j].disk = <<>>

\* What the manager keeps of a session that is gone is cleared, or is about to
\* be, or was written by a request that was under way when it was cleared.
LeftoversWereInFlight ==
    \A s \in opened \ (store \cup overlapped) :
        (s \in conns \cup iperfs \/ JobsOf(s) # {}) =>
            \E h \in Handlers : pc[h] = "deleted" /\ sess[h] = s

\* A job's status goes queued, running, completed or failed, its progress only
\* grows, and nothing of a job that has ended changes.
JobsRunForward ==
    [][\A j \in Made :
          /\ job'[j].status = "queued" => job[j].status = "queued"
          /\ job'[j].progress >= job[j].progress
          /\ job[j].status \in Ended => job'[j] = job[j]]_vars

\* A job stays listed until its own session disconnects: neither the end of
\* the job nor a disconnect of another session takes it away.
OnlyDisconnectDiscards ==
    [][\A j \in table : j \notin table' => job[j].session \notin store]_vars

\* The disk ceiling that the analysis compares the jobs with never falls while
\* the session lives, whatever is run, fails or is discarded meanwhile.
CeilingNeverFalls ==
    [][\A s \in store, r \in Repos : DiskWriteMBps(s, r)' >= DiskWriteMBps(s, r)]_vars

\* Every job that was started ends, also when its session does not wait for it.
EveryJobEnds ==
    \A j \in Jobs : (j \in Made) ~> (job[j].status \in Ended)

\* The page never polls for ever: its job ends, or answers 404.
EveryPollEnds ==
    \A j \in Jobs : (viewer[j] # "off") ~> (viewer[j] = "off")

\* handlers.go:143, "discards jobs and the passwords": once a session has
\* disconnected, the manager holds nothing of it.
DisconnectLeavesNothing ==
    \A s \in opened \ store :
        (\A h \in Handlers : pc[h] = "deleted" => sess[h] # s) =>
            s \notin conns \cup iperfs /\ JobsOf(s) = {}

------------------------------------------------------------------------------
\* The inductive strengthening of the properties above: what a job's goroutine
\* knows, and what a disconnect leaves behind.
GoroutineInv ==
    \A j \in Jobs :
        /\ job[j].status = "running" =>
              job[j].progress = Percent(Len(rows[j]), Tests(j)) /\ Len(rows[j]) <= Tests(j)
        /\ job[j].status = "queued" => job[j].progress = 0
        /\ job[j].status # "running" => rows[j] = <<>>

DisconnectInv ==
    \A s \in opened \ (store \cup overlapped) :
        \/ \E h \in Handlers : pc[h] = "deleted" /\ sess[h] = s
        \/ /\ s \notin conns \cup iperfs /\ JobsOf(s) = {}
           /\ \A h \in Handlers : pc[h] \in Working => sess[h] # s
==============================================================================
