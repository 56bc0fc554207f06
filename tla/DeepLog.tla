-------------------------------- MODULE DeepLog --------------------------------
(***************************************************************************)
(* The deep analysis of a job: VBR appends to Job.<name>.log and to one    *)
(* Task.<vm>.log per machine while the job runs; FetchWindows              *)
(* (internal/deeplog/fetch.go) reads the files over SMB, one after the     *)
(* other, and Parse (parse.go) takes from them what it holds for the most  *)
(* recent run.                                                             *)
(*                                                                         *)
(* A line is what the parser looks for in it and the number of the run     *)
(* that wrote it: two runs never agree on a value, so that the number      *)
(* stands for the value.                                                   *)
(***************************************************************************)
EXTENDS Integers, Sequences, FiniteSets

CONSTANTS
    VMs,            \* the machines of the job
    MaxRuns,        \* bound on the runs of the job
    maxLogBytes     \* how much of a file is read, in lines (16 MiB)

VARIABLES
    run,        \* number of the newest run
    phase,      \* what it has written to the job log
    busy,       \* machines whose Busy line it still has to write
    threads,    \* machines whose thread it still has to complete
    finished,   \* the runs that wrote all their lines
    jobLog,     \* the lines of Job.<name>.log
    taskLog,    \* the lines of each Task.<vm>.log
    step,       \* where the deep analysis is
    toRead,     \* task logs of the listing that have not been read
    taskRead,   \* what was read of the task logs
    result,     \* what Parse returns
    \* history variable, which no guard reads
    quiet       \* no run wrote anything since the folder was listed

\* What the proofs assume of the constants.
ConstantsOK == MaxRuns \in Nat /\ maxLogBytes \in Nat

vbr == <<run, phase, busy, threads, finished, jobLog, taskLog>>
deep == <<step, toRead, taskRead, result>>
vars == <<vbr, deep, quiet>>

Line == [kind : {"mode", "thread", "load", "primary", "option"}, vm : VMs \cup {""}, run : 1 .. MaxRuns]
NoResult == [runAt |-> 0, transport |-> {}, aggregate |-> 0, primary |-> 0, options |-> 0,
             duration |-> [vm \in VMs |-> 0], stages |-> [vm \in VMs |-> 0]]
NotRead == <<>>

TypeOK ==
    /\ run \in 0 .. MaxRuns
    /\ phase \in {"running", "load", "primary", "over"}
    /\ busy \subseteq VMs /\ threads \subseteq VMs
    /\ finished \subseteq 1 .. run
    /\ jobLog \in Seq(Line)
    /\ taskLog \in [VMs -> Seq(Line)]
    /\ step \in {"idle", "tasks", "job", "parsed", "failed"}
    /\ toRead \subseteq VMs
    /\ taskRead \in [VMs -> Seq(Line)]
    /\ DOMAIN result = DOMAIN NoResult
    /\ quiet \in BOOLEAN

Init ==
    /\ run = 0 /\ phase = "over" /\ busy = {} /\ threads = {} /\ finished = {}
    /\ jobLog = <<>>
    /\ taskLog = [vm \in VMs |-> <<>>]
    /\ step = "idle" /\ toRead = {} /\ taskRead = [vm \in VMs |-> NotRead]
    /\ result = NoResult
    /\ quiet = TRUE

------------------------------------------------------------------------------
(* Faulty variants of definitions of this module, one for each way the     *)
(* code could plausibly be wrong; the properties are shown to reject them. *)

\* The first match of the file, and not the last.
FirstOf(lines, kind) ==
    IF \A i \in DOMAIN lines : lines[i].kind # kind THEN 0
    ELSE lines[CHOOSE i \in DOMAIN lines :
                   lines[i].kind = kind /\ \A j \in 1 .. i - 1 : lines[j].kind # kind].run

\* The whole file, with all the runs that it holds.
WholeFile(lines) == lines

------------------------------------------------------------------------------
(* VBR (external): what a run writes, and when.                            *)

Writes == quiet' = (quiet /\ step = "idle")

Say(kind, vm) == [kind |-> kind, vm |-> vm, run |-> run]

StartRun(vms) ==
    /\ phase = "over" /\ run < MaxRuns
    /\ run' = run + 1
    /\ phase' = "running"
    /\ busy' = vms /\ threads' = vms
    /\ jobLog' = Append(jobLog, [kind |-> "mode", vm |-> "", run |-> run + 1])
    /\ Writes
    /\ UNCHANGED <<finished, taskLog, deep>>

WriteBusy(vm) ==
    /\ phase = "running" /\ vm \in busy
    /\ taskLog' = [taskLog EXCEPT ![vm] = Append(@, Say("load", vm))]
    /\ busy' = busy \ {vm}
    /\ Writes
    /\ UNCHANGED <<run, phase, threads, finished, jobLog, deep>>

CompleteThread(vm) ==
    /\ phase = "running" /\ vm \in threads
    /\ jobLog' = Append(jobLog, Say("thread", vm))
    /\ threads' = threads \ {vm}
    /\ Writes
    /\ UNCHANGED <<run, phase, busy, finished, taskLog, deep>>

WriteLoad ==
    /\ phase = "running" /\ busy = {} /\ threads = {}
    /\ jobLog' = Append(jobLog, Say("load", ""))
    /\ phase' = "load"
    /\ Writes
    /\ UNCHANGED <<run, busy, threads, finished, taskLog, deep>>

WritePrimary ==
    /\ phase = "load"
    /\ jobLog' = Append(jobLog, Say("primary", ""))
    /\ phase' = "primary"
    /\ Writes
    /\ UNCHANGED <<run, busy, threads, finished, taskLog, deep>>

WriteOptions ==
    /\ phase = "primary"
    /\ jobLog' = Append(jobLog, Say("option", ""))
    /\ phase' = "over"
    /\ finished' = finished \cup {run}
    /\ Writes
    /\ UNCHANGED <<run, busy, threads, taskLog, deep>>

\* The run ends without the lines that close it, for instance with the service.
AbandonRun ==
    /\ phase = "running"
    /\ phase' = "over" /\ busy' = {} /\ threads' = {}
    /\ Writes
    /\ UNCHANGED <<run, finished, jobLog, taskLog, deep>>

------------------------------------------------------------------------------
(* FetchWindows.                                                           *)

\* io.LimitReader: the head of the file.
ReadCapped(file) == SubSeq(file, 1, IF Len(file) > maxLogBytes THEN maxLogBytes ELSE Len(file))

\* listDir: every machine that ever took part in the job has a file.
ListFolder ==
    /\ step = "idle" /\ jobLog # <<>>
    /\ toRead' = {vm \in VMs : taskLog[vm] # <<>>}
    /\ step' = "tasks"
    /\ quiet' = TRUE
    /\ UNCHANGED <<vbr, taskRead, result>>

ReadTask(vm) ==
    /\ step = "tasks" /\ vm \in toRead
    /\ taskRead' = [taskRead EXCEPT ![vm] = ReadCapped(taskLog[vm])]
    /\ toRead' = toRead \ {vm}
    /\ UNCHANGED <<vbr, step, result, quiet>>

\* A task log that cannot be read is left out.
TaskFails(vm) ==
    /\ step = "tasks" /\ vm \in toRead
    /\ toRead' = toRead \ {vm}
    /\ UNCHANGED <<vbr, step, taskRead, result, quiet>>

TasksRead ==
    /\ step = "tasks" /\ toRead = {}
    /\ step' = "job"
    /\ UNCHANGED <<vbr, toRead, taskRead, result, quiet>>

JobFails ==
    /\ step = "job"
    /\ step' = "failed"
    /\ UNCHANGED <<vbr, toRead, taskRead, result, quiet>>

------------------------------------------------------------------------------
(* Parse.                                                                  *)

Loads(lines) == {i \in DOMAIN lines : lines[i].kind = "load"}

\* lastRunSegment: what follows the Load line before the last.
LastRunSegment(lines) ==
    IF Cardinality(Loads(lines)) < 2 THEN lines
    ELSE LET cut == CHOOSE i \in Loads(lines) : Cardinality({j \in Loads(lines) : j > i}) = 1
         IN  SubSeq(lines, cut + 1, Len(lines))

\* lastSubmatch: the run of the last line of its kind, 0 if there is none.
LastOf(lines, kind) ==
    IF \A i \in DOMAIN lines : lines[i].kind # kind THEN 0
    ELSE lines[CHOOSE i \in DOMAIN lines :
                   lines[i].kind = kind /\ \A j \in i + 1 .. Len(lines) : lines[j].kind # kind].run

\* parseJob puts the durations in a map: the last line of a machine wins.
Duration(lines, vm) ==
    LET own == {i \in DOMAIN lines : lines[i].kind = "thread" /\ lines[i].vm = vm}
    IN  IF own = {} THEN 0 ELSE lines[CHOOSE i \in own : \A j \in own : j <= i].run

Parse(file, tasks) ==
    LET lines == LastRunSegment(file)
    IN  [runAt |-> LastOf(file, "load"),
         transport |-> {lines[i].run : i \in {j \in DOMAIN lines : lines[j].kind = "mode"}},
         aggregate |-> LastOf(lines, "load"),
         primary |-> LastOf(lines, "primary"),
         options |-> LastOf(lines, "option"),
         duration |-> [vm \in VMs |-> IF tasks[vm] = NotRead THEN 0 ELSE Duration(lines, vm)],
         stages |-> [vm \in VMs |-> LastOf(LastRunSegment(tasks[vm]), "load")]]

ReadJob ==
    /\ step = "job"
    /\ result' = Parse(ReadCapped(jobLog), taskRead)
    /\ step' = "parsed"
    /\ UNCHANGED <<vbr, toRead, taskRead, quiet>>

------------------------------------------------------------------------------

\* What VBR writes after the analysis has ended is of no interest.
RunStep ==
    /\ step \notin {"parsed", "failed"}
    /\ \/ \E vms \in SUBSET VMs : StartRun(vms)
       \/ \E vm \in VMs : WriteBusy(vm) \/ CompleteThread(vm)
       \/ WriteLoad \/ WritePrimary \/ WriteOptions \/ AbandonRun

Fetch ==
    \/ ListFolder
    \/ \E vm \in VMs : ReadTask(vm) \/ TaskFails(vm)
    \/ TasksRead \/ JobFails \/ ReadJob

Next == RunStep \/ Fetch

Spec == Init /\ [][Next]_vars

------------------------------------------------------------------------------
(* Properties.                                                             *)

\* No run was writing while the files were read, none was abandoned since the
\* Load line before the last, and the files fit in what is read of them.
Settled ==
    /\ quiet /\ phase = "over"
    /\ {run - 1, run} \cap Nat \subseteq finished \cup {0}
    /\ \A file \in {jobLog} \cup {taskLog[vm] : vm \in VMs} : Len(file) <= maxLogBytes

\* parse.go:79-84 and 152-153: everything the deep analysis says is of the most
\* recent run, whatever older runs left in the same files, and a machine that is
\* shown with its duration is shown with its stages of the same run.
OneRun ==
    [][Settled /\ ReadJob =>
        /\ result'.runAt = run /\ result'.transport = {run}
        /\ {result'.aggregate, result'.primary, result'.options} = {run}
        /\ \A vm \in VMs : result'.duration[vm] # 0 =>
               result'.duration[vm] = run /\ result'.stages[vm] = run]_vars
==============================================================================
