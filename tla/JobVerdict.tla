------------------------------ MODULE JobVerdict ------------------------------
(***************************************************************************)
(* The analysis of one job: JobCapacity (internal/analysis/capacity.go)    *)
(* adds up the runs of the window and finds the stages that saturate;      *)
(* BuildVerdict (verdict.go) turns that, the deep logs if they were read   *)
(* and the ceilings that were measured with fio and iperf into a cause, a  *)
(* severity and a ranked list of actions.                                  *)
(*                                                                         *)
(* Sizes are in MB, durations in seconds, rates in tenths of a MB/s (the   *)
(* one decimal that round1 keeps) and 0 stands for what is not known.      *)
(***************************************************************************)
EXTENDS Integers, Sequences, FiniteSets

CONSTANTS
    Runs,           \* what VBR may say of a run of the job
    Sites,          \* what may be known of the job's proxies, repositories and logs
    MaxListed,      \* bound on the sessions that VBR lists
    maxWindowRuns   \* runs that are added up at most (40)

VARIABLES
    pc,     \* where the analysis is
    listed, \* sessions of the list that have not been looked at
    tot,    \* what the loop over the runs adds up
    job,    \* the JobCapacityResult and the signals that come with it
    todo,   \* binding stages whose rules have not been applied
    space,  \* repositories whose free space has been looked at
    v,      \* the verdict being built (vbuild)
    advice  \* the actions in their final order

vars == <<pc, listed, tot, job, todo, space, v, advice>>

lowFloor == 17          \* 16 MiB, in whole MB
satBytes == 269         \* 256 MiB
bindThreshold == 85
coLimitSpread == 6
maxCredibleGain == 75
starvedPct == 60
maxedPct == 80

stageNames == <<"Source", "Proxy", "Network", "Target">>
Stages == {"Source", "Proxy", "Network", "Target"}
\* A task may also name a bottleneck that is none of the stages.
Bottlenecks == Stages \cup {"Throttling"}
Impacts == {"high", "hygiene", "medium", "verify", "info"}

Bigger(a, b) == IF a > b THEN a ELSE b
Smaller(a, b) == IF a < b THEN a ELSE b
\* round1(amount / time), in tenths
Tenths(amount, time) == (20 * amount + time) \div (2 * time)
\* int(got / ceil * 100 + 0.5)
PercentOf(got, ceil) == (200 * got + ceil) \div (2 * ceil)

NoActions == [impact \in Impacts |-> <<>>]
NoVerdict == [severity |-> "", stage |-> "", cause |-> "", known |-> FALSE,
              locked |-> FALSE, acts |-> NoActions]
NoTotals == [runs |-> 0, data |-> 0, read |-> 0, xfer |-> 0, dur |-> 0, dataDur |-> 0,
             loads |-> 0, util |-> [s \in Stages |-> 0], votes |-> [s \in Bottlenecks |-> 0],
             rep |-> -1, repDur |-> 0]
NoDeep == [read |-> FALSE, transport |-> "", why |-> FALSE, compression |-> 0,
           vms |-> [n |-> 0, sum |-> 0, max |-> 0]]
NoJob == [confidence |-> "", write |-> 0, util |-> [s \in Stages |-> 0], primary |-> "", gain |-> 0,
          repDur |-> 0, proxies |-> <<>>, repos |-> <<>>, deep |-> NoDeep, disk |-> 0, link |-> 0]

TypeOK ==
    /\ pc \in {"loop", "judge", "rules", "space", "finish", "done", "refused"}
    /\ listed \in 0 .. MaxListed
    /\ tot.runs \in 0 .. maxWindowRuns
    /\ tot.data \in 0 .. tot.runs /\ tot.loads \in 0 .. tot.runs
    /\ job.confidence \in {"", "observed", "low", "insufficient"}
    /\ job.primary \in Bottlenecks \cup {""}
    /\ job.gain \in 0 .. maxCredibleGain
    /\ todo \subseteq Stages
    /\ space \in 0 .. Len(job.repos)
    /\ v.severity \in {"", "critical", "warn", "ok", "unknown"}
    /\ v.stage \in Bottlenecks \cup {""}
    /\ v.locked => v.known
    /\ DOMAIN v.acts = Impacts

Init ==
    /\ pc = "loop"
    /\ listed \in 0 .. MaxListed
    /\ tot = NoTotals
    /\ job = NoJob
    /\ todo = {}
    /\ space = 0
    /\ v = NoVerdict
    /\ advice = <<>>

------------------------------------------------------------------------------
(* Faulty variants of definitions of this module, one for each way the     *)
(* code could plausibly be wrong; the properties are shown to reject them. *)

\* cause() does not look at causeLocked.
CauseUnlocked(b, known, code) == [b EXCEPT !.known = known, !.cause = code]

\* The advice for a busy repository is kept when its disk turns out to be starved.
StillFaster(b) ==
    [b EXCEPT !.known = TRUE, !.locked = TRUE, !.cause = IF b.locked THEN @ ELSE "starvedTarget",
              !.severity = "warn",
              !.acts["high"] = Append(@, [code |-> "fasterTarget", way |-> "storage", gain |-> job.gain]),
              !.acts["info"] = Append(@, [code |-> "noBuyStorage", way |-> "", gain |-> 0])]

------------------------------------------------------------------------------
(* JobCapacity: the runs of the window.                                    *)

\* Several tasks or runs may name different stages equally often: the code
\* takes the one that the iteration over a Go map meets first.
MostVoted(votes) ==
    IF \A s \in DOMAIN votes : votes[s] = 0 THEN {""}
    ELSE {s \in DOMAIN votes : \A t \in DOMAIN votes : votes[t] <= votes[s]}

\* The worst case per stage over the "Load:" lines of a run.
Worst(loads) ==
    [s \in Stages |-> CHOOSE u \in {l[s] : l \in loads} : \A l \in loads : l[s] <= u]

\* The busiest of a set of stages, the first of them in a tie.
Hottest(util, among) ==
    LET top == {s \in among : \A t \in among : util[t] <= util[s]}
    IN  stageNames[CHOOSE i \in 1 .. 4 : stageNames[i] \in top /\ \A j \in 1 .. i - 1 : stageNames[j] \notin top]

\* What bottleneckFromLogs and dominantTaskBottleneck may name as primary.
Primaries(run) ==
    IF run.said # "" THEN {run.said}
    ELSE IF run.loads # {} THEN {Hottest(Worst(run.loads), Stages)}
    ELSE MostVoted(run.tasks)

\* x of the loop is another job's session, failed, too old or no data job.
SkipSession ==
    /\ pc = "loop" /\ listed > 0
    /\ listed' = listed - 1
    /\ UNCHANGED <<pc, tot, job, todo, space, v, advice>>

CountRun(run, primary) ==
    LET moved == Bigger(run.read, run.xfer)
        big == IF moved >= lowFloor THEN 1 ELSE 0
    IN  /\ listed' = listed - 1
        /\ tot' = [runs |-> tot.runs + 1,
                   data |-> tot.data + big,
                   read |-> tot.read + big * run.read,
                   xfer |-> tot.xfer + big * run.xfer,
                   dur |-> tot.dur + run.dur,
                   dataDur |-> tot.dataDur + big * run.dur,
                   loads |-> tot.loads + (IF run.loads = {} THEN 0 ELSE 1),
                   util |-> IF run.loads = {} THEN tot.util
                            ELSE [s \in Stages |-> tot.util[s] + Worst(run.loads)[s]],
                   votes |-> [s \in Bottlenecks |-> tot.votes[s] + (IF s = primary THEN 1 ELSE 0)],
                   rep |-> Bigger(tot.rep, moved),
                   repDur |-> IF moved > tot.rep THEN run.dur ELSE tot.repDur]
        /\ UNCHANGED <<pc, job, todo, space, v, advice>>

AllCounted == listed = 0 \/ tot.runs = maxWindowRuns

\* "no successful runs for this job"
Refuse ==
    /\ pc = "loop" /\ AllCounted /\ tot.runs = 0
    /\ pc' = "refused"
    /\ UNCHANGED <<listed, tot, job, todo, space, v, advice>>

Confidence ==
    IF Bigger(tot.read, tot.xfer) >= satBytes THEN "observed"
    ELSE IF tot.data > 0 THEN "low" ELSE "insufficient"

Average == [s \in Stages |-> IF tot.loads = 0 THEN 0 ELSE tot.util[s] \div tot.loads]

\* buildStages and bindingStages: a stage without a percentage never binds.
Binding(util) ==
    {s \in Stages : util[s] >= bindThreshold /\ \A t \in Stages : util[s] >= util[t] - coLimitSpread}

\* projectTime: what the data moved would have taken at the next ceiling.
Projected(util) ==
    LET bind == util[Hottest(util, Stages)]
        next == IF Binding(util) = Stages THEN 0 ELSE util[Hottest(util, Stages \ Binding(util))]
    IN  IF tot.data = 0 \/ Tenths(tot.dur, tot.runs) = 0 \/ Binding(util) = {} \/ next = 0 THEN 0
        ELSE ((bind - next) * 100) \div bind

\* The bound that BuildVerdict puts on it.
Gain(util) == Smaller(maxCredibleGain, Projected(util))

\* The repositories come out of a Go map, in any order.
Orders(S) == {q \in [1 .. Cardinality(S) -> S] : \A r \in S : \E i \in DOMAIN q : q[i] = r}

\* measuredFor: the best disk of the job's repositories, the better direction.
BestDisk(repos) == CHOOSE mbps \in {0} \cup {r.fio : r \in repos} : \A r \in repos : r.fio <= mbps

\* What the proofs assume of the constants: sizes, times and rates are numbers,
\* there is a worst case among the loads and a best one among the disks, and a
\* job has finitely many repositories.
ConstantsOK ==
    /\ maxWindowRuns \in Nat /\ MaxListed \in Nat
    /\ \A run \in Runs : /\ run.xfer \in Nat /\ run.dur \in Nat
                         /\ run.loads # {} => Worst(run.loads) \in [Stages -> Nat]
    /\ \A site \in Sites : site.send \in Nat /\ site.recv \in Nat /\ BestDisk(site.repos) \in Nat
                           /\ IsFiniteSet(site.repos)

Summarise(site, primary, order) ==
    /\ job' = [confidence |-> Confidence,
               write |-> IF tot.dataDur = 0 THEN 0 ELSE Tenths(tot.xfer, tot.dataDur),
               util |-> Average,
               primary |-> primary,
               gain |-> Gain(Average),
               repDur |-> tot.repDur,
               proxies |-> site.proxies,
               repos |-> order,
               deep |-> site.deep,
               disk |-> BestDisk(site.repos),
               link |-> Bigger(site.send, site.recv)]
    /\ pc' = "judge"
    /\ UNCHANGED <<listed, tot, todo, space, v, advice>>

------------------------------------------------------------------------------
(* The builder: what a rule adds to the verdict.  The actions are kept by  *)
(* impact, in the order in which the stable sort of finish leaves them.    *)

Action(code, way, gain) == [code |-> code, way |-> way, gain |-> gain]

Add(b, impact, code) ==
    [b EXCEPT !.acts[impact] = Append(@, Action(code, "", 0))]

\* An action that frees the bottleneck; way is what the page says it asks for.
\* (The page has a text for every code, vt of frontend/index.html:1809, and in
\* those of scaleHost and atCapacity no place for the scaleOut of the server.)
AddGain(b, code, way) ==
    [b EXCEPT !.acts["high"] = Append(@, Action(code, way, job.gain))]

Cause(b, known, code) ==
    IF b.locked THEN b ELSE [b EXCEPT !.known = known, !.cause = code]

CauseIfUnknown(b, code) == IF b.known THEN b ELSE Cause(b, TRUE, code)

CauseFinal(b, code) == [Cause(b, TRUE, code) EXCEPT !.locked = TRUE]

Severity(b, severity) == [b EXCEPT !.severity = severity]

------------------------------------------------------------------------------
(* The rules of the stages.                                                *)

\* At most one task per core and 2 GB a task.
Viable(res) == IF res.ram > 0 THEN Smaller(res.cores, res.ram \div 2) ELSE res.cores

\* The host takes as many tasks as it has cores and memory for.
AtCapacity(res) == res.cores > 0 /\ Viable(res) > 2 /\ res.slots >= Viable(res)

\* slotsRules, for the first resource of its kind.  A host without known cores
\* and slots says nothing.
SlotsRules(b, resources) ==
    IF resources = <<>> THEN b
    ELSE LET res == resources[1]
         IN  CASE res.cores = 0 /\ res.slots > 0 -> Add(b, "verify", "slotsUnknown")
               [] res.cores > 0 /\ Viable(res) <= 2 -> AddGain(b, "scaleHost", "host")
               [] res.cores > 0 /\ Viable(res) > 2 /\ res.slots < Viable(res) ->
                      Cause(AddGain(b, "slots", ""), TRUE, "slots")
               [] AtCapacity(res) -> AddGain(b, "atCapacity", "scaleOut")
               [] OTHER -> b

CompressionRule(b) ==
    IF job.deep.read /\ job.deep.compression \in 0 .. 4 THEN Add(b, "medium", "compression") ELSE b

\* One VM takes most of the time of three or more, or they ran one by one.
SkewRules(b) ==
    LET vms == job.deep.vms
        skewed == vms.n >= 3 /\ 10 * vms.max >= 6 * vms.sum
        serial == /\ 10 * vms.sum >= 8 * job.repDur /\ 100 * vms.sum <= 125 * job.repDur
                  /\ 10 * vms.max <= 7 * vms.sum
    IN  IF vms.n < 2 \/ job.repDur = 0 \/ vms.sum = 0 THEN b
        ELSE CASE skewed -> Add(b, "medium", "skew")
               [] serial /\ ~ skewed -> Add(b, "medium", "serial")
               [] OTHER -> b

SourceRules(b) ==
    LET deep == job.deep
    IN  CASE ~ deep.read -> Add(Add(Cause(b, FALSE, "srcunknown"), "verify", "deep"), "verify", "srcStorage")
          [] deep.read /\ deep.transport = "nbd" ->
                 SkewRules(AddGain(Cause(b, TRUE, IF deep.why THEN "nbdHotadd" ELSE "nbd"), "hotadd", ""))
          [] deep.read /\ deep.transport = "direct" ->
                 SkewRules(Add(Cause(b, TRUE, "transportOK"), "verify", "srcStorage"))
          [] OTHER -> SkewRules(Add(Cause(b, TRUE, "srcstore"), "verify", "srcStorage"))

ProxyRules(b) == SlotsRules(CauseIfUnknown(b, "proxyproc"), job.proxies)

LinkMeasured == job.link > 0 /\ job.write > 0
\* MB/s against Mbps
LinkUsed == PercentOf(8 * job.write, 10 * job.link)

NetworkRules(b) ==
    CASE LinkMeasured /\ LinkUsed < starvedPct ->
             AddGain(Severity(CauseFinal(b, "starvedNet"), "warn"), "feedNet", "concurrency")
      [] LinkMeasured /\ LinkUsed >= starvedPct ->
             AddGain(Severity(CauseFinal(b, "maxedNet"), "critical"), "netUpgrade", "link")
      [] OTHER -> Add(AddGain(CauseIfUnknown(b, "netlink"), "netUpgrade", "link"), "verify", "iperf")

DiskMeasured == job.disk > 0 /\ job.write > 0
DiskUsed == PercentOf(job.write, 10 * job.disk)

\* targetMeasuredRules
StarvedTarget(b) ==
    LET judged == Severity(CauseFinal(b, "starvedTarget"), "warn")
        fed == IF job.repos # <<>> /\ job.repos[1].cores > 0
               THEN SlotsRules(judged, job.repos)
               ELSE AddGain(judged, "feedTarget", "concurrency")
    IN  CompressionRule(Add(fed, "info", "noBuyStorage"))

MaxedTarget(b) ==
    CompressionRule(AddGain(Severity(CauseFinal(b, "maxedTarget"), "critical"), "fasterTarget", "storage"))

PartialTarget(b) ==
    CompressionRule(Add(SlotsRules(CauseFinal(b, "partialTarget"), job.repos), "medium", "feedTarget"))

UnmeasuredTarget(b) ==
    CompressionRule(Add(SlotsRules(b, job.repos), "verify", "fio"))

TargetRules(b) ==
    LET c == CauseIfUnknown(b, "repowrite")
    IN  CASE ~ DiskMeasured -> UnmeasuredTarget(c)
          [] DiskMeasured /\ DiskUsed < starvedPct -> StarvedTarget(c)
          [] DiskMeasured /\ DiskUsed >= maxedPct -> MaxedTarget(c)
          [] OTHER -> PartialTarget(c)

StageRules(b, stage) ==
    CASE stage = "Source" -> SourceRules(b)
      [] stage = "Proxy" -> ProxyRules(b)
      [] stage = "Network" -> NetworkRules(b)
      [] stage = "Target" -> TargetRules(b)
      [] OTHER -> b

------------------------------------------------------------------------------
(* BuildVerdict.                                                           *)

\* No run moved enough data: there is nothing to judge.
Insufficient ==
    /\ pc = "judge" /\ job.confidence = "insufficient"
    /\ v' = Add(Cause(Severity(v, "unknown"), FALSE, "noop"), "verify", "window")
    /\ pc' = "finish"
    /\ UNCHANGED <<listed, tot, job, todo, space, advice>>

Judging == pc = "judge" /\ job.confidence # "insufficient"

Balanced ==
    /\ Judging /\ Binding(job.util) = {} /\ job.primary = ""
    /\ v' = Add(Cause(Severity(v, "ok"), TRUE, "balanced"), "info", "balanced")
    /\ pc' = "space"
    /\ UNCHANGED <<listed, tot, job, todo, space, advice>>

\* A stage dominates, but no percentage says that it saturates.
Dominated ==
    /\ Judging /\ Binding(job.util) = {} /\ job.primary # ""
    /\ v' = StageRules([Severity(v, "warn") EXCEPT !.stage = job.primary], job.primary)
    /\ pc' = "space"
    /\ UNCHANGED <<listed, tot, job, todo, space, advice>>

Limited ==
    /\ Judging /\ Binding(job.util) # {}
    /\ LET top == Hottest(job.util, Stages)
       IN  v' = [Severity(v, IF job.util[top] >= 95 THEN "critical" ELSE "warn") EXCEPT !.stage = top]
    /\ todo' = Binding(job.util)
    /\ pc' = "rules"
    /\ UNCHANGED <<listed, tot, job, space, advice>>

\* The binding stages, from the busiest on.
ApplyRules ==
    /\ pc = "rules" /\ todo # {}
    /\ v' = StageRules(v, Hottest(job.util, todo))
    /\ todo' = todo \ {Hottest(job.util, todo)}
    /\ UNCHANGED <<pc, listed, tot, job, space, advice>>

RulesApplied ==
    /\ pc = "rules" /\ todo = {}
    /\ pc' = "space"
    /\ UNCHANGED <<listed, tot, job, todo, space, v, advice>>

\* crossCutting, the free space of each repository.
FreePercent(repo) == (repo.free * 100) \div repo.cap

Full(repo) == repo.cap > 0 /\ repo.free > 0 /\ FreePercent(repo) < 10

CheckSpace ==
    /\ pc = "space" /\ space < Len(job.repos)
    /\ LET repo == job.repos[space + 1]
       IN  v' = IF ~ Full(repo) THEN v
                ELSE Add(v, IF FreePercent(repo) < 5 THEN "high" ELSE "hygiene", "repoFree")
    /\ space' = space + 1
    /\ UNCHANGED <<pc, listed, tot, job, todo, advice>>

\* crossCutting, what would make the verdict firmer.
CrossCut ==
    /\ pc = "space" /\ space = Len(job.repos)
    /\ LET widened == IF job.confidence = "low" THEN Add(v, "verify", "window") ELSE v
       IN  v' = IF ~ job.deep.read /\ v.stage \notin {"", "Source"} THEN Add(widened, "verify", "deep")
                ELSE widened
    /\ pc' = "finish"
    /\ UNCHANGED <<listed, tot, job, todo, space, advice>>

\* finish: the actions by impact; the verdict is what the handler returns.
Finish ==
    /\ pc = "finish"
    /\ advice' = v.acts["high"] \o v.acts["hygiene"] \o v.acts["medium"] \o v.acts["verify"] \o v.acts["info"]
    /\ pc' = "done"
    /\ UNCHANGED <<listed, tot, job, todo, space, v>>

------------------------------------------------------------------------------

ReadRun ==
    /\ pc = "loop" /\ listed > 0 /\ tot.runs < maxWindowRuns
    /\ \E run \in Runs : \E primary \in Primaries(run) : CountRun(run, primary)

EndWindow ==
    /\ pc = "loop" /\ AllCounted /\ tot.runs > 0
    /\ \E site \in Sites, primary \in MostVoted(tot.votes) : \E order \in Orders(site.repos) :
           Summarise(site, primary, order)

JobCapacity == SkipSession \/ ReadRun \/ Refuse \/ EndWindow

BuildVerdict ==
    \/ Insufficient \/ Balanced \/ Dominated \/ Limited
    \/ ApplyRules \/ RulesApplied
    \/ CheckSpace \/ CrossCut \/ Finish

Next == JobCapacity \/ BuildVerdict

Spec == Init /\ [][Next]_vars

------------------------------------------------------------------------------
(* Properties.                                                             *)

\* The stages that the verdict speaks of: those that saturate or, where none
\* does, the dominant one.
Judged ==
    IF job.confidence = "insufficient" THEN {}
    ELSE IF Binding(job.util) = {} THEN {job.primary} \cap Stages ELSE Binding(job.util)

\* Those whose ceiling was measured.
Measured ==
    {s \in Judged : (s = "Target" /\ DiskMeasured) \/ (s = "Network" /\ LinkMeasured)}

\* What the measurement says of such a stage.
MeasuredCause(s) ==
    IF s = "Network" THEN (IF LinkUsed < starvedPct THEN "starvedNet" ELSE "maxedNet")
    ELSE IF DiskUsed < starvedPct THEN "starvedTarget"
    ELSE IF DiskUsed >= maxedPct THEN "maxedTarget" ELSE "partialTarget"

\* verdict.go:144-149: a cause that rests on a measured ceiling is final.  Whatever
\* stages saturate together with it, before or after it, and whatever their rules
\* and those of its own host's task slots deduce, the verdict ends with what was
\* measured at the busiest measured stage.
MeasuredCauseStands ==
    pc = "done" /\ Measured # {} =>
        /\ v.known
        /\ v.cause = MeasuredCause(Hottest(job.util, Measured))

\* verdict.go:278-285: a job that uses less than starvedPct of what the disk of
\* its repository was measured to write is told so, and is not told by any rule
\* of any stage to get faster or more storage -- with one exception: slotsRules
\* tells it to scale out when the host of its proxy or repository really takes no
\* more tasks.
NoStorageForStarvedDisk ==
    pc = "done" /\ "Target" \in Measured /\ DiskUsed < starvedPct =>
        /\ \E i \in DOMAIN advice : advice[i].code = "noBuyStorage"
        /\ \A i \in DOMAIN advice :
              advice[i].way \in {"storage", "scaleOut"} =>
                  /\ advice[i].code = "atCapacity"
                  /\ \E hosts \in {job.proxies, job.repos} : hosts # <<>> /\ AtCapacity(hosts[1])

\* verdict_test.go:277-280, "no debe recomendar escalar storage": the exception
\* above, for a job that nothing but a starved disk is held to limit.
StarvedDiskIsNotScaled ==
    pc = "done" /\ Judged = {"Target"} /\ DiskMeasured /\ DiskUsed < starvedPct =>
        \A i \in DOMAIN advice : advice[i].way \notin {"storage", "scaleOut"}
==============================================================================
