# Verification of the Veeam benchmark console

TLA+ models, TLC runs and TLAPS proofs for the Go program in `src/`: a web
console that reads the REST API of a Veeam server (VBR), analyses its backup
sessions, and measures disks and networks of the hosts it finds. File names
below are relative to `src/`.

## 1. The system

A browser page (`frontend/index.html`, embedded by `web.go`) calls the handlers
of `internal/server`. Each request runs in its own goroutine. Handlers resolve a
session in a store, then call one of the packages below. Nothing is persisted:
a restart forgets everything, so there is no recovery to model.

| Component | State it keeps | Operations | What makes it correct |
|---|---|---|---|
| VBR read path (`internal/vbr/client.go`, `session.go`) | response cache under `cacheMu`, table of calls in flight under `inflightMu`, both per session | `Get`: `cacheGet`, `joinOrLead`, `fetchOnce`, `cachePut`, `cacheGetStale`, `leadDone` | one fetch per path in flight; nobody waits for a leader that is gone (except on a malformed path, see section 3); bounded age; reads never go back in time; an error only when there is nothing usable |
| VBR tokens (same files) | access token, refresh token, expiry under `mu`; renewals serialised by `renewMu` | `fetchOnce` (proactive renewal, 401, one retry), `renewToken`, `SetTokens`, `Authenticate` | one renewal per rejected token; the session never loses its newest pair to an interleaving; "session expired" is the truth |
| Session store (`session.go`) and session check (`server/handlers.go`) | map of sessions under a lock | `New`, `Get`, `Delete`; `connect`, `disconnect` | what belongs to a session goes with it |
| Connection (`handlers.go` 83-127) | none | tries API revisions newest first | stops at the newest revision VBR speaks, and never retries bad credentials |
| Benchmark manager (`internal/benchmark/manager.go`, `ssh.go`) | connections, jobs, network measurements under one mutex; one goroutine per job | `TestConnection`, `Start`, `run`, `JobJSON`, `SetIperf`, `DiskWriteMBps`, `ClearSession` | jobs run forward, keep their results, are discarded only with their session |
| Network benchmark and baselines (`network.go`, `baselines.go`, `fio.go`) | none | iperf3 over SSH, grading | a port is not taken twice; grading is monotone |
| Environment analysis (`internal/analysis/analysis.go`, `helpers.go`, `sessiontypes.go`) | locals of one request; a pool of workers | page through the sessions, select, analyse each in parallel, aggregate | each run counted once; none lost without notice; the request ends |
| Host resources and sizing (`vbr/session.go`, `vbr/nodemetrics.go`, `analysis/sizing.go`) | what was entered by hand and the probe cache, per session | `SetHostRes`, `HostResAll`, `AutoRes`, sizing of each proxy | a build that runs alone shows one size of a host, whatever is typed or exported meanwhile |
| Job capacity (`analysis/capacity.go`) | locals of one request | add up the runs, stages, dominant stage, projection | what it hands to the verdict fits the runs it added up |
| Verdict engine (`analysis/verdict.go`) | `vbuild`, local to one request | rules per stage, cause lock, ordered actions | a measured cause is final; the cause and the actions agree |
| Reliability, assessment, plan (`reliability.go`, `assessment.go`, `capacityplan.go`) | locals of one request | success rate, hour buckets, union of spans, findings, actions in order | a job that fails now is said first; no time counted twice |
| Proxy placement advice (`topology/recommend.go`) | none | advice per job, rebalancing, list of unchanged jobs | advice is spread, never moves load onto a bottleneck, answers every job |
| Topology graph (`topology/flow.go`) | none | nodes and edges of the diagram | a projection of VBR's lists |
| Deep logs (`internal/deeplog`) | none | fetch logs over SMB, parse the last run | all numbers come from one run |
| Page | the poll loop of a benchmark | `pollJob` | stops polling |
| Diagnostics, debug log, demo data, shell (`dbg`, `demo.go`, `main.go`, `web.go`) | last analyses for a bundle | print, serve | - |
| Python prototype (`backend/`) | - | - | replaced by the Go program, not built |

How they interact: every handler resolves its session in the store and most of
them call `vbr.Get`; the workers of an analysis call it in parallel; the
analysis asks the benchmark manager for the measured disk ceiling
(`DiskWriteMBps`) and the network result; a disconnect removes the session from
the store and then clears the manager, while other requests may be between
their session check and their write.

The hard behaviours are the overlap of requests on one session (cache, tokens,
store, manager), the failures of VBR and of lost replies, the paging of a list
that grows while it is read, the pool of workers, and a few algorithms whose
result depends on order. `PROJECT.json` lists each at its line under "hazards",
with the properties that cover it.

## 2. Modules

| Module | Models | State and actions against the code |
|---|---|---|
| `SnapshotReads` | what `vbr.Get` promises | a read of a path returns a snapshot that is no older than any a finished read of the session returned, or fails; `answer` holds what each read was told, so an implementation must return the snapshot it settled on; a read without an answer may be given up (`Abandon`) |
| `VbrCache` | `Get` with cache and single flight | `cache`, `inflight` are the maps; `pc`, `path`, `call`, `res` the locals of a caller; one action per critical section or exchange: `Hit`/`Miss`/`Bypass` (the lookup), `Join`/`Lead` (`joinOrLead`), `Respond`/`FetchFails` (`fetchOnce`), `Put` (`cachePut`), `FallBack` (`cacheGetStale`), `Unregister`/`Close` (`leadDone`), `Return`; `Panics` is the end of a caller whose path is no URL, which skips `leadDone` and leaves a call of `Gone` in the table |
| `VbrTokens` | `fetchOnce` and `renewToken` | the tokens of the session and VBR's view of them; `Begin`, `Answered`, `Rejected`, `Acquire` (takes `renewMu` and re-checks), `Grant`/`Refused`/`Unanswered` (the exchange), `Store` (`SetTokens`), `Reread`, `Report`; VBR's own steps `Expire`, `Revoke`, `ComesDue` |
| `BenchManager` | store, session check, manager, job goroutines, poll loop | `store`, `conns`, `iperfs`, `table` are the maps; `job` are the Job objects, which outlive the table; `operationTests` are the tests of each operation, and what it has no key for (`OtherOperations`) runs those of "both"; one action per critical section |
| `EnvironmentBuild` | `analysis.Build` with `fetchSessions` and its pool of workers | `history` is VBR's list, which grows and changes between two pages; `all`, `window` (`dataSess` before the cap), `failures`, `next`, `sem`, `wg`, `records` are Build's; `reading`, `holding`, `leaving` are where each goroutine is (working, record written, slot given back). `PageRead`/`PageFails` are one request; `Select` the filters; `SkipFailed`/`StartWorker` one turn of the loop; `WriteRecord`, `Release`, `Done` the goroutine and its two deferred calls; `AllStarted`, `Aggregate` the rest |
| `ProxyAdvice` | `topology.Recommend` | `slots`, `hot`, `jobs` are what VBR and the assessment say; `load` is the field `jobs` of each `pxInfo`, `rows` the recommendations. `CountJobs` is the loop over VBR's jobs; `AdviseMove`, `AdviseAutomatic`, `AdviseNothing` the turns of the loop over the VMware jobs; `Rebalance` and `ListUnchanged` the two rules that follow |
| `JobVerdict` | `analysis.JobCapacity` and `BuildVerdict` | `tot` is what the loop over the sessions adds up (`ReadRun`, `SkipSession`), `job` the result and the signals beside it (`EndWindow`), `v` the `vbuild` of the verdict. `Insufficient`, `Balanced`, `Dominated` and `Limited` are the cases of `BuildVerdict`; `ApplyRules` is one turn over the stages that bind, `CheckSpace` one over the repositories, `CrossCut` the rules for all jobs, `Finish` the sort: `advice` are the actions in their final order |
| `DeepLog` | `deeplog.FetchWindows` and `Parse`, against VBR that writes | `jobLog`, `taskLog` are the files, to which VBR appends line by line; `toRead`, `taskRead` are what the fetch has listed and read, one file per action, each cut after its first `maxLogBytes`; `result` is what `Parse` returns |
| `EnvironmentVerdict` | what `analysis.Build` concludes from the sessions it has | `ReadSession` is one turn over the window (`FailuresOf` and the records), `BuildAssessment`, `AddCapacity`, `AddReliability`, `AddSizing`, `FinishActions` are the calls that Build makes, in its order; `a` is the assessment, `acts` its actions by impact |
| `HostResources` | `SetHostRes`, `HostResAll`, `AutoRes`, the loop of `BuildSizing` | `hostRes` and `autoRes` are the maps of the session; each build has its copy `manual`, its place `at` and the rows it has built. One action per critical section: a probe is made between two of them |
| `Analyses` | `JobVerdict`, `DeepLog`, `EnvironmentVerdict`, `HostResources` and `ProxyAdvice` in one specification | a behaviour is one of any of the five; they share no variable |
| `MC*` | instances for TLC | symmetry sets, bounds, what VBR may say |
| `*Proofs` | theorems | each extends its component's module and TLAPS; `AnalysesProofs` extends `Analyses` |

A response body is the time at which VBR produced it, which is what freshness,
age and going back in time are about. A token is the number of the grant that
issued it. A benchmark row is its sequential write bandwidth, the one value that
is read again.

Decisions worth knowing when reading the modules:

- `VbrCache`: the clock counts minutes and stands still while a caller is in
  code that does not wait for anything. Without this a fetch could "take" an
  hour between its return and the critical section that stores it.
- `VbrCache`: `FetchFails` folds every failure of the leader's exchange that
  `fetchOnce` returns, including the cancelled context of the leader's own
  request, which the followers then share. The failure that it does not return
  is `Panics`: `doGet` drops the error of `http.NewRequestWithContext`
  (`client.go:226`) and uses the nil request. `Malformed` are the paths for
  which it does; only the raw passthrough (`handlers.go:663`) lets a user name
  one.
- `VbrTokens`: VBR may or may not keep the redeemed refresh token valid, and
  its reply may lack a new one, because the code accepts either.
- `ProxyAdvice`: the rows are a set, since each is about one job or about none;
  their order on the page is layout. Any set of proxies may be bottlenecks: a
  run counts for every proxy it used, so the shares do not add up to 100%.
- `JobVerdict`: what an action asks for is what the page shows for its code.
  For `act.atCapacity` that is to scale out (`frontend/index.html:681`),
  whatever the parameter `scaleOut` of the server says.
- `EnvironmentVerdict`: a job has an identifier and a name, and one name may
  have several identifiers (`reliability.go` 75-76). The history variable
  `heads` keeps the newest session of each name under each identifier.
- `BenchManager`: the `libaio` to `psync` retry is part of `TestDone`. The
  answer of `Start` reads the status of the job without the lock; the page only
  uses the id, so it is not modelled. `Deployed` is written and never read.
- `EnvironmentBuild`: a session is its position in VBR's history, so that
  "newest first" and "between" are comparisons of numbers. `Select` takes any
  beginning of the window, which stands for the number of days asked for and
  for every distribution of start times over them. What a session that is
  neither a data job nor a restore did is never read, so `Init` gives it one
  result. Listed sessions keep the result they had when their page was made.
- `EnvironmentBuild`: a failed page is an empty one, because `getItems` answers
  an error like that; the loop then stops as it does at the end of the list.
- `JobVerdict` and `EnvironmentVerdict`: where the code keeps the greatest
  entry of a Go map, entries that tie are taken in the order of the iteration;
  the modules take any of them.
- `JobVerdict`: sizes are in MB, durations in seconds and rates in tenths of a
  MB/s, the decimal that `round1` keeps, so that quotients and thresholds are
  those of the code (`Tenths`, `PercentOf`). `EnvironmentVerdict` counts in MiB
  and in units of which `Hour` make an hour.
- Actions are kept by impact, each a sequence: what a stable sort by impact
  gives. Titles, parameters and translations are left out, except where a rule
  asks whether an action is already there.
- `DeepLog`: a line is what the parser looks for and the number of the run that
  wrote it. Two runs never agree on a value, so "the numbers come from one run"
  is a comparison of numbers. Of a file that is larger than the cap the head is
  read, as `io.LimitReader` does.
- `HostResources`: a failed probe is cached (`NoRes`) as a good one is; `alone`
  is a history variable that says whether another build overlapped.
- `BenchManager`: `StartBenchmark` is bounded so that a Start in flight finds a
  free job id; ids are random and never run out in the program. `Watched` are the
  jobs whose page stays open: a page that is closed stops polling.

## 3. Runs

| Run | Question | Instance |
|---|---|---|
| `cache_safety` | single flight, ages, monotone reads, refinement of `SnapshotReads` | 3 callers, two cached paths, one of them malformed, and one uncached, TTLs 0 and 1, clock to 3 |
| `cache_lost_leader` (violation) | the comment at `session.go:79`: everyone who waits on a path is given its result | 2 callers of a malformed path |
| `tokens` | what the session holds after any interleaving, who hears that it expired, every fetch ends | 2 callers, 3 grants |
| `bench_safety` | jobs, results, what a disconnect discards | 2 sessions, 2 handlers, 2 jobs of 4 operations, speeds 0 and 1, no page open |
| `bench_liveness` | jobs end, the page stops polling | 1 session, 2 handlers, 2 jobs, one with a page |
| `bench_leftovers` (violation) | the comment at `handlers.go:143`: nothing stays after a disconnect | 1 session, 2 handlers |
| `environment` | what is listed and analysed while the list changes, the slots, the records, that Build returns | pages of 2, at most 2, a history of up to 3, one session that starts meanwhile, 3 analysed, 2 workers |
| `environment_rate` (violation) | `assessment.go:99`: the success rate is "completed runs vs attempts" | a cap of 1 session |
| `analyses` | the measured cause, storage advice, one run of the logs, failing jobs first, hours of activity, one size per host; the spread of automatic jobs, who is told to leave a bottleneck, one row per job | 2 runs of a job of 5 kinds, with every combination of the proxies, repositories, ceilings and logs of `MCAnalyses`; 2 machines, 3 runs, a cap of 13 lines; 4 sessions of a job with two identifiers and of another job, over 2 days of 2 hours of 3 units; 2 builds, 2 hosts, proxies on hosts h, g, h; 3 proxies with 2 or an unknown number of slots (which weighs like 1), 3 jobs, each automatic or pinned to at most one of them, every set of bottlenecks |
| `starved_scaled` (violation) | `verdict_test.go` 277-280: a starved disk is never answered with `act.atCapacity` | that of `analyses` |
| `recovered_failing` (violation) | `reliability.go` 29-30: what fails now has not succeeded since | that of `analyses` |
| `advice_balance` (violation) | `recommend.go:32`: no load onto a bottleneck | 2 proxies, 2 jobs |

Why the bounds are enough. Three callers are a leader, a follower and one that
arrives late, the smallest set in which a third party can come between the two
steps of the other two. The clock has one step inside the short TTL, one inside
the fallback only and one beyond both. Three grants let the login's token be
renewed and the renewed one be renewed again while a caller still holds the
first. Two handlers are one request and one disconnect (or two requests); two
sessions show that one does not touch the other's data. A job has two tests, or
four for "both" and for an operation that the server does not know, as in the
code; one stands for all that are not known. In `EnvironmentBuild` the history is shorter than, equal to
and longer than a page, both pages can be full, the cap is above and (in
`environment_rate`) below what is listed, and there are more sessions than
workers. `PagingAssumption` says that fewer sessions start during the paging
than fill a page: with a page of 2000 and a few seconds that is what happens,
and without it even a list that is read correctly would have pages with nothing
new. In `ProxyAdvice` three proxies leave two to choose from when one is a
bottleneck, and three jobs let a pinned one and two automatic ones compete; a job
pinned to a second proxy would only weigh on both. A malformed path beside a
well-formed one shows that what is lost on the first does not touch the second.

In `analyses`, two runs of a job are enough for sums, averages and votes to
differ from either run; of the five kinds one says nothing of its stages,
three saturate one, two and three of them, and one has no duration and only
names stages. The disks and links that were
measured are slower and faster than the runs, and hosts have too few cores for
their slots, enough, little memory, or are not known. Three runs and a cap of
13 lines let a run begin, end or be given up between two files that are read,
and let a file outgrow what is read of it. Four sessions are one
more than a firm verdict needs in that instance (`envMinDataRuns` 3 instead of 5,
`envMinStageRuns` 2 instead of 3), of jobs that fail, have failed and run, one of
which changes its identifier; they
lie within an hour, cross several, cross a day, or have no length. Proxies on
h, g, h let another build or a user come between two rows of the same host.
`CHECK_DEADLOCK FALSE` is said where the system ends: an analysis that has
returned, an environment that has been aggregated; and in the two runs of
the cache, where all callers may end up waiting for a call that was lost.

The safety properties of the passing runs are also proved for every value of these
constants (section 4).

Fairness. A caller inside `Get` or `fetchOnce` takes its next step: HTTP
exchanges have a time budget (`client.go`), critical sections are short. In
`VbrTokens` the lock needs strong fairness, because other callers may take it in
between; Go's mutex hands itself to a waiter that has starved. A benchmark
goroutine runs on: fio is started with `--time_based --runtime`, and an SSH
connection that dies is noticed by TCP. In `EnvironmentBuild` Build and each of
its goroutines run on, since every GET they wait for has a budget; no fairness
between them is needed for the slots. Nothing is assumed of users, of VBR
or of the clock.

The violations:

- `cache_lost_leader`: a leader whose path is no URL panics in `doGet`, and
  `net/http` recovers its handler; `leadDone` is not deferred, so the call stays
  registered and its channel open. Every later Get of that path waits for ever,
  in its own request. `WaitersHaveLeader` says that this is the only way to be
  left behind, and that no other path is touched.
- `bench_leftovers`: a comment promises that a disconnect leaves nothing
  behind; a request past its session check writes afterwards, and the entry
  stays until the process ends. `LeftoversWereInFlight` says that nothing else
  does.
- `environment_rate`: a wrong number on the page. The failures of the whole
  window are set against the completed runs among the first `maxSessions` (80)
  data sessions, so in an environment with more sessions than that the success
  rate comes out too low.
- `advice_balance`: wrong advice. The rebalancing row compares loads only, and
  may name the bottleneck as the proxy to move jobs to, against the rule that
  the rest of the function keeps (`BottlenecksAreLeft`). The trace has two jobs
  pinned to proxy 2, while proxy 1 is the bottleneck and carries nothing.
- `starved_scaled`: contradictory advice. A disk that the job leaves idle gets
  "do not buy storage" and, when the slots of its host use up the cores, also
  `act.atCapacity`, which the page words as scaling out to a bigger host,
  another proxy or more extents. The test that forbids it has no host
  resources. `NoStorageForStarvedDisk` says that nothing else asks such a job
  for storage or to scale out, and that this is said only where the slots of a
  host are really used up. (A host with room for two tasks or less is told to
  grow, `act.scaleHost`; the test does not speak of that.)
- `recovered_failing`: a wrong headline. Failures are grouped by the name of the
  job, because some jobs have a new identifier in every run, but the newest run
  is looked up by identifier: a failure stays "failing now" after a later run
  of that name succeeded. `FailingNowFirst` says what holds: no failing job is
  missed, and none is named without reason while identifiers are kept.

Things the models show that contradict nothing written down, or that no run of
their own is spent on:

- A caller that missed before the leader stored, and comes to `joinOrLead` after
  `leadDone`, sends a second request for what is now fresh in the cache,
  although `session.go:49` speaks of one request per cache miss. Harmless.
- When VBR redeems a single-use refresh token and the reply is lost, or has no
  refresh token, the session ends up with a pair that is worth nothing. The
  properties of `VbrTokens` are about sessions to which that did not happen.
- A session can be listed, and analysed, twice when another one starts between
  two pages (`RepeatsAreShifts` bounds how often), and a session that is still
  running counts as a completed one. A job whose newest session is still
  running counts as not failing now (`reliability.go` 160-178), whatever its
  last completed run said; `FailingNowFirst` takes "now" in this sense.
- Logs that are read while a run is in progress, after one that was given up,
  or that are larger than the cap mix runs: what looks like the last run is cut
  out of each file separately (`parse.go:84`), the files are read one after the
  other, and of a large one only the head (`fetch.go:131`), which holds the
  oldest runs. `OneRun` therefore speaks of files that fit, at rest, whose last
  two runs were completed.
- The space of a repository is known in whole GiB, and 0 means not known: one
  with less than 1 GiB left has no forecast, and is not named when it is the
  first to fill (`capacityplan.go` 18-38, `capacity.go:529`).
- The skew of a job compares the times of the machines of the last logged run
  with the duration of the largest run of the window, which may be another one.
- Which of two stages that tie is dominant depends on the iteration order of a
  map (`capacity.go:366`, `analysis.go:379`).
- A later stage that was measured still raises or lowers the severity after the
  cause is locked; `alt` is never called.
- "Probed once per session" (`nodemetrics.go`) does not hold for builds that
  overlap, and the rows of one host may then differ; `OneHostOneSize` speaks of
  builds that no other one overlaps.

## 4. Proofs

The eight `*Proofs` modules prove, for any sets of callers, paths, sessions,
proxies, jobs, runs and hosts, any sizes and any bounds:

- `VbrCache`: the type invariant, `SingleFlight`, `WaitersHaveLeader` (with its
  exception for the lost calls of malformed paths, `LostCalls`),
  `FailsOnlyWithoutCopy`, `ServedCopyAge`, `VolatileIsFresh`,
  `CacheNeverRegresses`, and that `VbrCache` implements `SnapshotReads`. The
  first three need only each other: the single-flight table and the leaders'
  program counters determine one another. The rest follows from `DataInv`: what is in the
  cache is at least as new as anything that was returned (`StoreInv`), and
  each caller's local copy fits what it will be allowed to return (`CallerInv`).
  Its subtle conjunct is that a leader at "fetched" holds a newer body than
  the cache, which is true only because there is one leader.
- `VbrTokens`: the type invariant, `RenewsCurrentPair`, `HoldsNewestPair` and
  `ExpiredOnlyAfterRetry`, from `PairInv`: token numbers grow from callers to
  session to VBR, and the grant about to be stored is the newest.
- `BenchManager`: the type invariant, `ResultsAreComplete`, `JobsRunForward`,
  `LeftoversWereInFlight`, `OnlyDisconnectDiscards` and `CeilingNeverFalls`.
  `GoroutineInv` ties the
  progress to the rows a goroutine has collected; `DisconnectInv` says that
  after an undisturbed clearing nobody works for the session any more, which
  holds because the session leaves the store first. The ceiling cannot fall
  because the rows it is the greatest of are the sequential writes of all
  completed jobs in the table, whatever their operation, which keep their
  results and leave only with their session.
- `EnvironmentBuild`: the type invariant, `SlotsAreWorkers` and
  `EveryRunRecorded`, from `PoolInv`. It says that the records and the readers
  together are exactly the sessions the loop has passed and not skipped, that
  each goroutine is in one place, and that `sem` and `wg` count the goroutines
  before their release and before their Done. `EveryRunRecorded` then follows
  because a counter of zero means an empty set. `FirstListedIsNewest`,
  `RepeatsAreShifts` and `NoGapInRuns` follow from `ListInv`, which says where
  each item of the list came from: the one at position k had position k in
  VBR's list at the time of its page, so its number is the length of that list
  plus one minus k (`Pasted`). Lengths only grow from page to page (`Grown`),
  hence numbers fall by at most one from a position to the next, and every
  number between a listed one and the first is listed (`Covered`). The
  selection is a beginning of that list (`Selected`).
- `ProxyAdvice`: the type invariant, `SpreadsAutomatic`, `BottlenecksAreLeft`
  and `EveryJobAnswered`. `RowsInv` says what the loop has answered each job it
  has passed, and that rows are about jobs it has passed. `LoadInv` says that
  what was counted is what following the advice gives, and that the spread
  holds after every turn: the proxy chosen was the least loaded, and the loads
  of the others only grow.
- `JobVerdict`: the type invariant, `MeasuredCauseStands` and
  `NoStorageForStarvedDisk`. The counters are within the window because each
  run adds one at most (`CounterInv`), and the possible gain is within its range
  because the next ceiling is never below the one that binds (`GainBound`).
  `CauseInv` distinguishes the stages that
  bind and were measured: while all of them are still to be done the cause is
  not locked; once one has been done the cause is that of the busiest of them,
  because the code takes the stages from the busiest down (`HottestOfPart`), and
  the lock keeps it. Every rule that follows either respects the lock or does
  not touch the cause. `StorageInv` says of a starved disk that no action so
  far asks for storage, that one which asks to scale out is there only if a host
  takes no more tasks (`HostFull`), and that the note against storage is there
  once the rules of the target have been applied; the rules of another stage
  cannot undo it because they ask for nothing else and nothing is taken off the
  list.
- `DeepLog`: the type invariant and `OneRun`. `LogInv` orders the lines of a job's log by run and,
  within a run, by the place the program gives them, lets no line be ahead of
  the newest run, and says that a run which was not abandoned has written all
  its lines; that the log of a machine that took part in such a run ends with
  that run's line; and that what has been read is what is there, for as long as
  nobody has written. When the files have settled, the last but one of the
  lines at which `Parse` cuts therefore belongs to the run before the newest
  (`JobSegment`), what follows it is of the newest run (`SegmentLines`), and the
  last line of each kind is too.
- `EnvironmentVerdict`: the type invariant, `FailingNowFirst` and
  `ActivityAccounted`. The map of `FailuresOf` says that
  some job fails now exactly if the newest session of an identifier has failed
  (`NowIsLatest`), and that session is among `heads` (`HeadsRead`, `SomeFailed`),
  which relates it to names; nothing says so before `AddReliability` (`NotYet`), which puts
  it before what is there; and what comes later is only appended (`SaidFirst`).
  Records, failures and what is still unread are together at most the window
  (`Counts`), from which the types follow. `ActivityAccounted` is a fact about
  any records. Its first half: what a run gives the first m hours is within m
  units of its proportional part (`RowSum`), and adding up by hour is adding up
  by run (`Exchange`). Its second half: an enumeration by beginning exists
  (`Enumerable`), and after each span that `unionSeconds` takes, what it has
  closed plus the span that is open is the number of units covered so far, none
  of which is beyond the end of the open one (`Covers`, `GrowCovers`). Sums and
  the merge are recursive functions; that they exist, and what they are at each
  argument, is proved by induction over the numbers up to a bound, in the form
  of a least counterexample (`Least`, `UpTo`).
- `HostResources`: the type invariant and `OneHostOneSize`. A build uses one copy of the manual
  entries; for a host without one, its rows show what the cache holds, which
  nobody else changes for as long as no other build runs.

The assumptions are those the modules declare: the null value is not a member
of the sets, the cached and uncached paths are disjoint, `CacheTTL <= StaleTTL`,
and bounds are positive. Each of the five modules that `Analyses` composes
says in `ConstantsOK` what its inputs look like; `Analyses` declares the five as
ASSUMEs, so that TLC evaluates them on the instance of the run. `AnalysesProofs`
shows that a behaviour of the composition is one of each of the five, and takes
the theorems from there.

Only model-checked: the liveness properties, which need fairness and ENABLED;
the prover does not treat them. That a follower of a well-formed path is
answered has no run of its own: `WaitersHaveLeader` says that its leader is
there and has yet to close the channel, and the steps of a leader never block. Every other property of the passing runs is
proved.

## 5. Plan

What is left, in this order:

1. `Negotiation` (`server/handlers.go` 83-127): the order of the revisions and
   which errors end it. Sequential and stateless, for a module that shares a run.
2. `PortScan` (`benchmark/network.go`): the ports that iperf is started on when
   two measurements overlap; the grading of `baselines.go` as an operator.
3. The contents of a record in `EnvironmentBuild` (repositories and proxies of
   a session), so that `EnvironmentVerdict` can be composed with it instead of
   starting from sessions.
4. The topology graph, of which only the advice is modelled.

## 6. Not modelled, and why

- Diagnostics, the debug log, the embedded page's rendering, demo data, the
  shell, and the scripts: they print or forward and keep no state of their own.
  A later plain analysis of a job does replace the deep one in the bundle
  (`handlers.go:478`); nothing says that it should not.
- The commands sent over SSH and the parsing of what they print, the SMB
  transfer of logs, TLS and certificates: I/O and text. Their outcomes are
  nondeterministic choices of the actions that wait for them. The patterns that
  `deeplog` looks for are not modelled, only which of their matches it takes.
- The tables and texts of the reports: what is printed and asked for by no rule.
- The Python prototype in `backend/`: not part of the build.
- Crashes and restarts: nothing survives the process.
- Negotiation, the network benchmark and the topology graph: see the plan.
