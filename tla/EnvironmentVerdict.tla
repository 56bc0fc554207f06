-------------------------- MODULE EnvironmentVerdict --------------------------
(***************************************************************************)
(* What the environment analysis concludes from the sessions of the        *)
(* window: BuildAssessment (internal/analysis/assessment.go), FailuresOf   *)
(* and AddReliability (reliability.go), AddCapacity and FinishActions      *)
(* (capacityplan.go), AddSizing (sizing.go), in the order in which Build   *)
(* (analysis.go) calls them.                                               *)
(*                                                                         *)
(* Sizes are in MiB, times in units of which Hour make an hour.  How the   *)
(* sessions are listed and read is the subject of EnvironmentBuild.        *)
(***************************************************************************)
EXTENDS Integers, Sequences, FiniteSets

CONSTANTS
    Sessions,       \* what VBR may say of a session of the window
    Jobs,           \* identifiers of jobs
    Names,          \* the names of jobs
    Messages,       \* the error messages of failed sessions
    RepoStates,     \* what repositories/states may list: [repo, free]
    DownLists,      \* the servers that may be down: whether each hosts repositories
    ProxyRows,      \* what may be known of the proxies: [slots, cores, ram]
    MaxSessions,    \* bound on the sessions of the window
    Hour,           \* units of time in an hour
    DayHours,       \* hours in a day (24)
    Days,           \* days of which buckets are kept: no session is older
    envMinDataRuns, \* runs with data for a firm verdict (5)
    envMinStageRuns \* runs that back the dominant stage (3)

VARIABLES
    pc,         \* where Build is
    left,       \* sessions of the window that have not been looked at
    clock,      \* creation time of the last one: they come newest first
    recs,       \* the records of the completed runs
    seen,       \* the keys of the map newest of FailuresOf
    failures,   \* its map group: per job name and message
    failed,     \* the failed sessions
    down,       \* the servers that are down
    a,          \* the assessment
    acts,       \* its actions, by impact in the order of the stable sort
    \* history variable, which no guard reads
    heads       \* of each job, under each name and identifier, the newest session

vars == <<pc, left, clock, recs, seen, failures, failed, down, a, acts, heads>>

lowFloor == 16
gib == 1024
envDataFloor == gib
hotspotShare == 35
staggerJobs == 3
envStageShare == 40
staleAfter == DayHours * Hour

Impacts == {"high", "hygiene", "medium", "verify", "info"}
Stages == {"Source", "Proxy", "Network", "Target"}
Hours == 0 .. Days * DayHours - 1
Now == Days * DayHours * Hour

\* What the proofs assume of the constants: every session of the window has begun,
\* within the days of which buckets are kept, and none ends in the future.
ConstantsOK ==
    /\ MaxSessions \in Nat /\ Days \in Nat
    /\ DayHours \in Nat \ {0} /\ Hour \in Nat \ {0}
    /\ \A s \in Sessions : /\ s.job \in Jobs /\ s.name \in Names
                           /\ s.result \in {"Success", "Failed", "None"}
                           /\ s.result = "Failed" => s.message \in Messages
                           /\ s.start \in Nat /\ s.start < Now
                           /\ s.end \in Nat /\ s.end <= Now /\ s.bytes \in Nat
    /\ \A q \in DownLists : q \in Seq(BOOLEAN)

NoFailures == [key \in Names \X Messages |-> [count |-> 0, now |-> FALSE]]
NoAssessment == [severity |-> "", headline |-> "", confidence |-> "", peakBusy |-> 0,
                 success |-> -1, fillDays |-> -1]
NoActions == [impact \in Impacts |-> <<>>]

TypeOK ==
    /\ pc \in {"window", "build", "assess", "capacity", "reliability", "sizing", "finish", "done", "none"}
    /\ left \in 0 .. MaxSessions
    /\ clock \in 0 .. Now
    /\ Len(recs) <= MaxSessions /\ failed <= MaxSessions
    /\ seen \subseteq Jobs
    /\ \A key \in DOMAIN failures : failures[key].now => failures[key].count > 0
    /\ a.severity \in {"", "critical", "warn", "ok", "unknown"}
    /\ a.confidence \in {"", "observed", "low", "insufficient"}
    /\ a.success \in -1 .. 100
    /\ DOMAIN acts = Impacts
    /\ heads \in Seq([name : Names, job : Jobs, result : {"Success", "Failed", "None"}])

Init ==
    /\ pc = "window"
    /\ left \in 0 .. MaxSessions
    /\ clock = Now
    /\ recs = <<>>
    /\ seen = {}
    /\ failures = NoFailures
    /\ failed = 0
    /\ down = <<>>
    /\ a = NoAssessment
    /\ acts = NoActions
    /\ heads = <<>>

------------------------------------------------------------------------------
(* Faulty variants of definitions of this module, one for each way the     *)
(* code could plausibly be wrong; the properties are shown to reject them. *)

\* Every later finding is put before the earlier ones.
PutBefore(found, impact) == found[impact] \o acts[impact]

\* A stretch ends where the last of its spans does, and not the longest.
LastEnds(cur, x) == x.to

------------------------------------------------------------------------------
(* The sessions of the window, newest first.                               *)

\* FailuresOf, one turn of its loop: the first session of a job that is seen
\* tells whether the job is failing now.
CountFailure(s) ==
    IF s.result # "Failed" THEN failures
    ELSE [failures EXCEPT ![<<s.name, s.message>>] =
             [count |-> @.count + 1, now |-> @.now \/ s.job \notin seen]]

ReadSession(s) ==
    /\ left' = left - 1
    /\ clock' = s.start
    /\ failures' = CountFailure(s)
    /\ failed' = failed + (IF s.result = "Failed" THEN 1 ELSE 0)
    /\ seen' = seen \cup {s.job}
    /\ recs' = IF s.data /\ s.result # "Failed" THEN Append(recs, s) ELSE recs
    /\ heads' = IF \E i \in DOMAIN heads : heads[i].name = s.name /\ heads[i].job = s.job THEN heads
                ELSE Append(heads, [name |-> s.name, job |-> s.job, result |-> s.result])
    /\ UNCHANGED <<pc, down, a, acts>>

\* FailuresOf has counted the last session; DownHostsOf.
WindowRead ==
    /\ pc = "window" /\ left = 0
    /\ down' \in DownLists
    /\ pc' = "build"
    /\ UNCHANGED <<left, clock, recs, seen, failures, failed, a, acts, heads>>

------------------------------------------------------------------------------
(* Arithmetic of the records.                                              *)

Total(q) ==
    LET sum[n \in 0 .. Len(q)] == IF n = 0 THEN 0 ELSE sum[n - 1] + q[n]
    IN  sum[Len(q)]

Bytes == Total([i \in DOMAIN recs |-> recs[i].bytes])

\* pct
Percent(part, whole) == IF whole <= 0 THEN 0 ELSE (200 * part + whole) \div (2 * whole)

Bigger(x, y) == IF x > y THEN x ELSE y
Smaller(x, y) == IF x < y THEN x ELSE y

\* Whether the bytes of a run are spread over the hours that it spans.
Spreads(r) == r.end > r.start /\ r.bytes > 0

\* The part of an hour during which the run was active.
Clip(r, h) == [from |-> Bigger(r.start, h * Hour), to |-> Smaller(r.end, (h + 1) * Hour)]

Touches(r, h) == Spreads(r) /\ Clip(r, h).from < Clip(r, h).to

\* spread, and what Build does with a run that it cannot spread.
Share(r, h) ==
    IF Spreads(r)
    THEN IF Touches(r, h) THEN (r.bytes * (Clip(r, h).to - Clip(r, h).from)) \div (r.end - r.start) ELSE 0
    ELSE IF r.start \div Hour = h THEN r.bytes ELSE 0

BucketBytes(h) == Total([i \in DOMAIN recs |-> Share(recs[i], h)])

BucketSpans(h) == {Clip(recs[i], h) : i \in {j \in DOMAIN recs : Touches(recs[j], h)}}

\* unionSeconds: the spans by where they begin, merged as they overlap.
ByStart(spans) ==
    CHOOSE q \in [1 .. Cardinality(spans) -> spans] :
        /\ \A x \in spans : \E i \in DOMAIN q : q[i] = x
        /\ \A i \in 2 .. Cardinality(spans) : q[i - 1].from <= q[i].from

LongestEnds(cur, x) == Bigger(cur.to, x.to)

UnionSeconds(spans) ==
    LET q == ByStart(spans)
        Merge[n \in 1 .. Len(q)] ==
            IF n = 1 THEN [total |-> 0, cur |-> q[1]]
            ELSE LET m == Merge[n - 1]
                 IN  IF q[n].from > m.cur.to
                     THEN [total |-> m.total + m.cur.to - m.cur.from, cur |-> q[n]]
                     ELSE [m EXCEPT !.cur.to = LongestEnds(m.cur, q[n])]
        last == Merge[Len(q)]
    IN  IF spans = {} THEN 0 ELSE last.total + last.cur.to - last.cur.from

\* Buckets that are not taken for noise.
Busy == {h \in Hours : BucketBytes(h) >= lowFloor}

\* The hours of the iteration over a Go map with the most data.
Peaks == {h \in Busy : \A k \in Busy : BucketBytes(k) <= BucketBytes(h)}

------------------------------------------------------------------------------
(* BuildAssessment.                                                        *)

DataRuns == {i \in DOMAIN recs : recs[i].bytes >= lowFloor}

\* Stages count by the data that was moved in runs that name them.
Binding == {i \in DataRuns : recs[i].stage # ""}

BytesOf(runs) == Total([i \in DOMAIN recs |-> IF i \in runs THEN recs[i].bytes ELSE 0])

StageRuns(stage) == {i \in Binding : recs[i].stage = stage}

TopStages ==
    LET named == {recs[i].stage : i \in Binding}
    IN  IF named = {} THEN {""}
        ELSE {s \in named : \A t \in named : BytesOf(StageRuns(t)) <= BytesOf(StageRuns(s))}

\* The resources that own the stage of a run.
Owners(r) ==
    CASE r.stage = "Target" -> {<<"repository", id>> : id \in r.repos}
      [] r.stage \in {"Proxy", "Network"} -> {<<"proxy", id>> : id \in r.proxies}
      [] OTHER -> {}

OwnedBy(resource) == {i \in Binding : resource \in Owners(recs[i])}

\* The first of the hotspots, by the data of the runs that they hold up.
TopHotspots ==
    LET owners == UNION {Owners(recs[i]) : i \in Binding}
    IN  {k \in owners : \A o \in owners : BytesOf(OwnedBy(o)) <= BytesOf(OwnedBy(k))}

HourOfDay(r) == (r.start \div Hour) % DayHours
StartingAt(h) == {i \in DOMAIN recs : HourOfDay(recs[i]) = h}
StartingJobs(h) == Cardinality({recs[i].job : i \in StartingAt(h)})
StaggerHours ==
    {h \in 0 .. DayHours - 1 : \A k \in 0 .. DayHours - 1 : StartingJobs(k) <= StartingJobs(h)}

NoDataJobs ==
    {recs[i].job : i \in DOMAIN recs} \
    {job \in Jobs : BytesOf({i \in DOMAIN recs : recs[i].job = job}) >= lowFloor}

\* Machines without a good copy within staleAfter.
StaleVMs ==
    (UNION {recs[i].good \cup recs[i].bad : i \in DOMAIN recs}) \
    (UNION {recs[i].good : i \in {j \in DOMAIN recs : Now - recs[j].start <= staleAfter}})

WaitPct ==
    Percent(Total([i \in DOMAIN recs |-> recs[i].wait]),
            Total([i \in DOMAIN recs |-> Bigger(0, recs[i].end - recs[i].start)]))

\* a.WaitSec >= 300
LongWait == 12 * Total([i \in DOMAIN recs |-> recs[i].wait]) >= Hour

EnvConfidence(stage) ==
    CASE Bytes < envDataFloor \/ Cardinality(DataRuns) < 2 -> "insufficient"
      [] OTHER -> IF \/ Cardinality(DataRuns) < envMinDataRuns
                     \/ Cardinality(StageRuns(stage)) < envMinStageRuns
                  THEN "low" ELSE "observed"

When(condition, code) == IF condition THEN <<code>> ELSE <<>>
None == [impact \in Impacts |-> <<>>]

\* rank(append(acts, a.Actions...)): what is found goes before the rest
Prepend(found) == [impact \in Impacts |-> found[impact] \o acts[impact]]

PutAfter(found, impact) == acts[impact] \o found[impact]

\* rank(append(a.Actions, acts...)): it goes after them
Extend(found) == [impact \in Impacts |-> PutAfter(found, impact)]

sessions == <<left, clock, recs, seen, failures, failed, down, heads>>

\* No run completed, no run failed, no server is down: there is no assessment.
NothingToSay ==
    /\ pc = "build" /\ recs = <<>> /\ failed = 0 /\ down = <<>>
    /\ pc' = "none"
    /\ UNCHANGED <<sessions, a, acts>>

\* No run completed, but a verdict on the reliability there must be.
ReliabilityOnly ==
    /\ pc = "build" /\ recs = <<>>
    /\ failed > 0 \/ down # <<>>
    /\ a' = [a EXCEPT !.confidence = "insufficient", !.severity = "unknown", !.headline = "nodata"]
    /\ pc' = "capacity"
    /\ UNCHANGED <<sessions, acts>>

PeakBusy(peak) == UnionSeconds(BucketSpans(peak))

\* Too little moved to judge the infrastructure.
Thin(stage, peak) ==
    /\ EnvConfidence(stage) = "insufficient"
    /\ a' = [a EXCEPT !.confidence = "insufficient", !.severity = "unknown", !.peakBusy = PeakBusy(peak),
                      !.headline = IF DataRuns = {} THEN "nodata" ELSE "thin"]
    /\ acts' = [acts EXCEPT !["verify"] = <<"envNoData">>]
    /\ pc' = "capacity"
    /\ UNCHANGED sessions

Recurs(stage) == stage # "" /\ Percent(BytesOf(StageRuns(stage)), BytesOf(Binding)) >= envStageShare

Concentrates(resource) == Percent(BytesOf(OwnedBy(resource)), BytesOf(Binding)) >= hotspotShare

Crowded(h) == StartingJobs(h) >= staggerJobs /\ Percent(BytesOf(StartingAt(h)), Bytes) >= 40

\* verdict: where the bottleneck is, and what to do about it.
Judge(stage, peak, hottest, h) ==
    LET hot == hottest # <<>> /\ Concentrates(hottest)
    IN  /\ EnvConfidence(stage) # "insufficient"
        /\ a' = [a EXCEPT !.confidence = EnvConfidence(stage), !.peakBusy = PeakBusy(peak),
                          !.severity = IF hot THEN "critical" ELSE IF Recurs(stage) THEN "warn" ELSE "ok",
                          !.headline = IF Recurs(stage) THEN "bound" ELSE "spread"]
        /\ acts' = [acts EXCEPT
               !["high"] = When(hot /\ hottest[1] = "repository", "envRepo")
                           \o When(hot /\ hottest[1] = "proxy", "envProxy")
                           \o When(stage = "Source" /\ Recurs(stage), "envSource"),
               !["medium"] = When(Crowded(h), "envStagger"),
               !["verify"] = When(NoDataJobs # {}, "envNoData") \o <<"envMeasure">>]
        /\ pc' = "capacity"
        /\ UNCHANGED sessions

\* The maps are read in any order: where two are equal, either may come first.
BuildAssessment ==
    /\ pc = "build" /\ recs # <<>>
    /\ \E stage \in TopStages,
          peak \in (IF Busy = {} THEN {-1} ELSE Peaks),
          hottest \in (IF TopHotspots = {} THEN {<<>>} ELSE TopHotspots),
          h \in StaggerHours :
           Thin(stage, peak) \/ Judge(stage, peak, hottest, h)

------------------------------------------------------------------------------
(* AddCapacity, AddReliability, AddSizing and FinishActions.               *)

\* RepoBytesPerDay: over the days between the oldest and the newest record.
PerDay(repo) ==
    BytesOf({i \in DOMAIN recs : repo \in recs[i].repos}) \div
        ((recs[1].start - recs[Len(recs)].start) \div (DayHours * Hour) + 1)

\* num(st["freeGB"]) * gib: whole GiB
Free(state) == (state.free \div gib) * gib

Fills(state) == recs # <<>> /\ PerDay(state.repo) >= gib \div 4 /\ Free(state) > 0
DaysLeft(state) == Free(state) \div PerDay(state.repo)

AddCapacity(states) ==
    /\ a' = IF \E x \in states : Fills(x)
            THEN [a EXCEPT !.fillDays =
                     CHOOSE d \in {DaysLeft(x) : x \in {y \in states : Fills(y)}} :
                         \A x \in {y \in states : Fills(y)} : d <= DaysLeft(x)]
            ELSE a
    /\ pc' = "reliability"
    /\ UNCHANGED <<sessions, acts>>

FailingNow == {key \in DOMAIN failures : failures[key].now}

\* A server that is down with repositories on it, and one without.
HostActions(hosted) == LET hosts == {i \in DOMAIN down : down[i] = hosted}
                       IN  [i \in 1 .. Cardinality(hosts) |-> IF hosted THEN "envHostDown" ELSE "envHostDownBare"]

AddReliability ==
    /\ pc = "reliability"
    /\ a' = [a EXCEPT
           !.success = IF Len(recs) + failed > 0 THEN Percent(Len(recs), Len(recs) + failed) ELSE @,
           !.severity = IF FailingNow # {} THEN "critical" ELSE @,
           !.headline = IF FailingNow # {} THEN "failing" ELSE @]
    /\ acts' = Prepend([None EXCEPT
           !["high"] = When(FailingNow # {}, "envFailing") \o HostActions(TRUE),
           !["medium"] = When(FailingNow = {} /\ failed > 0, "envPastFailures") \o HostActions(FALSE)])
    /\ pc' = "sizing"
    /\ UNCHANGED sessions

\* BuildSizing and sizingState: one slot needs a core and 2 GB.
Viable(row) == IF row.cores > 0 /\ row.ram > 0 THEN Smaller(row.cores, row.ram \div 2) ELSE 0
Deficit(row) == Viable(row) > 0 /\ row.slots > Viable(row)

AddSizing(rows) ==
    LET short == {i \in DOMAIN rows : Deficit(rows[i])}
        top == rows[CHOOSE i \in short : \A j \in short : i <= j]
        doubled == top.slots - Viable(top) >= Viable(top)
    IN  /\ acts' = IF short = {} THEN acts
                   ELSE Extend([None EXCEPT ![IF doubled THEN "high" ELSE "medium"] = <<"envSizing">>])
        /\ pc' = "finish"
        /\ UNCHANGED <<sessions, a>>

FinishActions ==
    LET waits == WaitPct >= 10 /\ LongWait
        fills == a.fillDays \in 0 .. 29
    IN  /\ pc = "finish"
        /\ acts' = Extend([None EXCEPT
               !["high"] = When(waits /\ WaitPct >= 25, "envWaits") \o When(fills /\ a.fillDays < 7, "envSpace"),
               !["medium"] = When(waits /\ WaitPct < 25, "envWaits") \o When(StaleVMs # {}, "envStale")
                             \o When(fills /\ a.fillDays >= 7, "envSpace")])
        /\ pc' = "done"
        /\ UNCHANGED <<sessions, a>>

------------------------------------------------------------------------------

Next ==
    \/ /\ pc = "window" /\ left > 0
       /\ \E s \in {t \in Sessions : t.start <= clock} : ReadSession(s)
    \/ WindowRead \/ NothingToSay \/ ReliabilityOnly \/ BuildAssessment
    \/ pc = "capacity" /\ \E states \in RepoStates : AddCapacity(states)
    \/ AddReliability
    \/ pc = "sizing" /\ \E rows \in ProxyRows : AddSizing(rows)
    \/ FinishActions

Spec == Init /\ [][Next]_vars

------------------------------------------------------------------------------
(* Properties.                                                             *)

\* The actions in their final order.
Ranked == acts["high"] \o acts["hygiene"] \o acts["medium"] \o acts["verify"] \o acts["info"]

\* The newest session of the window with its name, or with its identifier.
NewestOfName(i) == \A k \in 1 .. i - 1 : heads[k].name # heads[i].name
NewestOfJob(i) == \A k \in 1 .. i - 1 : heads[k].job # heads[i].job

\* Every job had one identifier.
KeptIdentifiers ==
    \A i, k \in DOMAIN heads : heads[i].name = heads[k].name => heads[i].job = heads[k].job

\* reliability.go:135-137, capacityplan.go:84-85: when the newest session of a job
\* of the window failed, the verdict is critical and fixing that job is its first
\* action, whatever bottleneck, server, proxy or repository the other parts of the
\* analysis find before and after.  The job is its name, with an identifier that
\* no newer session has under another name.  As long as no job comes back under
\* another identifier, it is not said otherwise.
FailingNowFirst ==
    pc = "done" =>
        /\ (\E i \in DOMAIN heads : heads[i].result = "Failed" /\ NewestOfName(i) /\ NewestOfJob(i))
               => a.headline = "failing"
        /\ a.headline = "failing" =>
               /\ a.severity = "critical" /\ Ranked[1] = "envFailing"
               /\ KeptIdentifiers => \E i \in DOMAIN heads : heads[i].result = "Failed" /\ NewestOfName(i)

\* reliability.go:29-30, "the job's most recent run in the window is one of these
\* failures", where a job is its name (75-76, and TestFailuresGroupByNameNotJobID):
\* what is said to be failing now has not succeeded since.
RecoveredIsNotFailing ==
    pc = "done" /\ a.headline = "failing" =>
        \E i \in DOMAIN heads :
            /\ heads[i].result = "Failed"
            /\ \A k \in 1 .. i - 1 : heads[k].name = heads[i].name => heads[k].result # "Success"

\* assessment.go:212-213, 516-518 and 547-548: the hours account for all the data
\* of the window but for what the division drops, one unit per hour and run at
\* most, and the time for which an hour is busy is the time during which some run
\* was active in it, counted once.
ActivityAccounted ==
    pc = "build" =>
        LET kept == Total([i \in 1 .. Days * DayHours |-> BucketBytes(i - 1)])
        IN  /\ kept <= Bytes /\ Bytes - kept <= Len(recs) * Days * DayHours
            /\ \A h \in Hours : UnionSeconds(BucketSpans(h)) =
                   Cardinality({t \in h * Hour .. (h + 1) * Hour - 1 :
                       \E i \in DOMAIN recs : recs[i].bytes > 0 /\ recs[i].start <= t /\ t < recs[i].end})
==============================================================================
