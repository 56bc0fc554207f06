-------------------------------- MODULE Analyses --------------------------------
(***************************************************************************)
(* The five analyses that the server makes: of one job (JobVerdict), of    *)
(* its logs (DeepLog), of the environment (EnvironmentVerdict), of the     *)
(* hosts of the proxies (HostResources) and of which proxy should take     *)
(* which job (ProxyAdvice).  They share no variable; a behaviour is one of *)
(* any of the five, and the others stay at their initial state.  Three are *)
(* instantiated with their proofs, so that their theorems are at hand      *)
(* where those of this module are proved.                                  *)
(***************************************************************************)
EXTENDS Integers, Sequences, FiniteSets

CONSTANTS
    Runs, Sites, MaxListed, maxWindowRuns,                  \* JobVerdict
    VMs, MaxRuns, maxLogBytes,                              \* DeepLog
    Sessions, Jobs, Names, Messages, RepoStates,            \* EnvironmentVerdict
    DownLists, ProxyRows, MaxSessions, Hour, DayHours,
    Days, envMinDataRuns, envMinStageRuns,
    Builds, Hosts, Appliances, Sizes, ProxyHosts,           \* HostResources
    NumProxies, SlotCounts, MaxJobs, MaxPin                 \* ProxyAdvice

VARIABLES
    analysis,   \* which of the five it is
    jobPc, jobListed, jobTot, job, jobTodo, jobSpace, jobV, jobAdvice,
    run, phase, busy, threads, finished, jobLog, taskLog, step, toRead, taskRead, result, quiet,
    envPc, envLeft, envClock, recs, seen, failures, failed, down, assessment, envActs, heads,
    exported, hostRes, autoRes, at, manual, probed, rows, alone,
    advSlots, advHot, advJobs, advPc, advLoad, advNext, advRows

Job == INSTANCE JobVerdictProofs WITH
    pc <- jobPc, listed <- jobListed, tot <- jobTot, todo <- jobTodo,
    space <- jobSpace, v <- jobV, advice <- jobAdvice

Log == INSTANCE DeepLog

Env == INSTANCE EnvironmentVerdictProofs WITH
    pc <- envPc, left <- envLeft, clock <- envClock, a <- assessment, acts <- envActs

Res == INSTANCE HostResources

Adv == INSTANCE ProxyAdviceProofs WITH
    slots <- advSlots, hot <- advHot, jobs <- advJobs, pc <- advPc,
    load <- advLoad, next <- advNext, rows <- advRows

ASSUME JobConstants == Job!ConstantsOK
ASSUME LogConstants == Log!ConstantsOK
ASSUME EnvironmentConstants == Env!ConstantsOK
ASSUME HostConstants == Res!ConstantsOK
ASSUME AdviceConstants == Adv!ConstantsOK

------------------------------------------------------------------------------

jobVars == <<jobPc, jobListed, jobTot, job, jobTodo, jobSpace, jobV, jobAdvice>>
logVars == <<run, phase, busy, threads, finished, jobLog, taskLog, step, toRead, taskRead, result, quiet>>
envVars == <<envPc, envLeft, envClock, recs, seen, failures, failed, down, assessment, envActs, heads>>
hostVars == <<exported, hostRes, autoRes, at, manual, probed, rows, alone>>
adviceVars == <<advSlots, advHot, advJobs, advPc, advLoad, advNext, advRows>>
vars == <<analysis, jobVars, logVars, envVars, hostVars, adviceVars>>

AllTheSame(slots) == \A p \in DOMAIN slots : slots[p] = CHOOSE n \in SlotCounts : TRUE

Init ==
    /\ analysis \in {"job", "log", "environment", "hosts", "advice"}
    /\ Job!Init /\ (analysis # "job" => jobListed = 0)
    /\ Log!Init
    /\ Env!Init /\ (analysis # "environment" => envLeft = 0)
    /\ Res!Init
    /\ Adv!Init /\ (analysis # "advice" => advJobs = <<>> /\ advHot = {} /\ AllTheSame(advSlots))

AnalyseJob ==
    /\ analysis = "job"
    /\ Job!Next
    /\ UNCHANGED <<analysis, logVars, envVars, hostVars, adviceVars>>

AnalyseLogs ==
    /\ analysis = "log"
    /\ Log!Next
    /\ UNCHANGED <<analysis, jobVars, envVars, hostVars, adviceVars>>

AnalyseEnvironment ==
    /\ analysis = "environment"
    /\ Env!Next
    /\ UNCHANGED <<analysis, jobVars, logVars, hostVars, adviceVars>>

SizeHosts ==
    /\ analysis = "hosts"
    /\ Res!Next
    /\ UNCHANGED <<analysis, jobVars, logVars, envVars, adviceVars>>

PlaceJobs ==
    /\ analysis = "advice"
    /\ Adv!Next
    /\ UNCHANGED <<analysis, jobVars, logVars, envVars, hostVars>>

Next == AnalyseJob \/ AnalyseLogs \/ AnalyseEnvironment \/ SizeHosts \/ PlaceJobs

Spec == Init /\ [][Next]_vars

------------------------------------------------------------------------------

\* Every variable of the five modules has its type.
TypeOK == Job!TypeOK /\ Log!TypeOK /\ Env!TypeOK /\ Res!TypeOK /\ Adv!TypeOK

\* JobVerdict: a cause that rests on a measured ceiling is final.
MeasuredCauseStands == Job!MeasuredCauseStands

\* JobVerdict: who does not use the disk is told so, and is told to scale only
\* where a host takes no more tasks.
NoStorageForStarvedDisk == Job!NoStorageForStarvedDisk

\* JobVerdict, verdict_test.go:277-280: not even then.
StarvedDiskIsNotScaled == Job!StarvedDiskIsNotScaled

\* DeepLog: all that is read is of the most recent run.
OneRun == Log!OneRun

\* EnvironmentVerdict: a job that is failing is the first thing that is said.
FailingNowFirst == Env!FailingNowFirst

\* EnvironmentVerdict, reliability.go:29-30: no job is that has succeeded since.
RecoveredIsNotFailing == Env!RecoveredIsNotFailing

\* EnvironmentVerdict: the hours add up to the window, and count no time twice.
ActivityAccounted == Env!ActivityAccounted

\* HostResources: a report shows one size of a host.
OneHostOneSize == Res!OneHostOneSize

\* ProxyAdvice: each piece of advice counts in the next one.
SpreadsAutomatic == Adv!SpreadsAutomatic

\* ProxyAdvice: a job leaves a bottleneck if it can, and none is sent to one.
BottlenecksAreLeft == Adv!BottlenecksAreLeft

\* ProxyAdvice: when there is advice, every job is answered once.
EveryJobAnswered == Adv!EveryJobAnswered
==============================================================================
