----------------------------- MODULE AnalysesProofs -----------------------------
(***************************************************************************)
(* Proofs about the five analyses: those about the logs of a job and the   *)
(* hosts of the proxies from the ground up, those about a job, the         *)
(* environment and the advice from the theorems of their own modules.      *)
(***************************************************************************)
EXTENDS Analyses, WellFoundedInduction, FiniteSetTheorems, SequenceTheorems, TLAPS

------------------------------------------------------------------------------
(* DeepLog: the lines of the files.                                        *)

\* The lines of a run come in the order of their ranks, those of the runs in
\* the order of the runs.
Rank == [mode |-> 0, thread |-> 1, load |-> 2, primary |-> 3, option |-> 4]

Key(line) == 5 * line.run + Rank[line.kind]

\* Only the lines of the threads may have the same key.
Sorted(file) ==
    \A i, j \in DOMAIN file :
        i < j => Key(file[i]) <= Key(file[j]) /\ (file[j].kind # "thread" => Key(file[i]) < Key(file[j]))

HasLine(file, kind, r) == \E i \in DOMAIN file : file[i].kind = kind /\ file[i].run = r

HasThread(file, vm, r) == \E i \in DOMAIN file : file[i].kind = "thread" /\ file[i].vm = vm /\ file[i].run = r

\* The rank of the last line that the newest run can have written.
Written == [running |-> 1, load |-> 2, primary |-> 3, over |-> 4]

\* Nothing is written ahead of the newest run, and it writes all its lines
\* unless it is abandoned.
JobLogInv ==
    /\ phase # "over" => run > 0 /\ run \notin finished
    /\ Sorted(jobLog)
    /\ \A i \in DOMAIN jobLog : Key(jobLog[i]) <= 5 * run + Written[phase]
    /\ \A r \in finished, kind \in {"mode", "load", "primary", "option"} : HasLine(jobLog, kind, r)
    /\ phase # "over" =>
          \A kind \in {"mode", "load", "primary"} : Rank[kind] <= Written[phase] => HasLine(jobLog, kind, run)

\* The Busy line of the newest run is the last line of the machine's log.
Wrote(vm) == taskLog[vm] # <<>> /\ taskLog[vm][Len(taskLog[vm])].run = run

TookPart(vm) == vm \in threads \/ HasThread(jobLog, vm, run)

\* A machine of a run that is not abandoned writes both of its lines.
TaskLogInv ==
    /\ \A vm \in VMs : \A i \in DOMAIN taskLog[vm] : taskLog[vm][i].kind = "load"
    /\ phase # "running" => busy = {} /\ threads = {}
    /\ phase # "over" \/ run \in finished =>
          \A vm \in VMs : TookPart(vm) => vm \in busy \/ Wrote(vm)

\* What was read is what is in the files, as long as nobody writes.
ReadInv ==
    /\ step # "idle" => jobLog # <<>>
    /\ step = "idle" => \A vm \in VMs : taskRead[vm] = Log!NotRead
    /\ step \in {"tasks", "job"} /\ quiet =>
          \A vm \in VMs : taskRead[vm] \in {Log!NotRead, Log!ReadCapped(taskLog[vm])}

LogInv == Log!TypeOK /\ JobLogInv /\ TaskLogInv /\ ReadInv

------------------------------------------------------------------------------
(* What the steps of VBR and of the analysis do to the files.              *)

LEMMA LogBounds == MaxRuns \in Nat /\ maxLogBytes \in Nat
  BY LogConstants DEF Log!ConstantsOK

Kinds == {"mode", "thread", "load", "primary", "option"}

Owners == VMs \cup {""}

\* The key tells the run and the kind.
LEMMA Keys ==
    ASSUME NEW x \in Log!Line, NEW y \in Log!Line
    PROVE  /\ Key(x) \in Nat /\ Rank[x.kind] \in 0 .. 4 /\ x.kind \in Kinds /\ x.run \in 1 .. MaxRuns
           /\ Key(x) = 5 * x.run + Rank[x.kind]
           /\ Key(x) = Key(y) => x.run = y.run /\ x.kind = y.kind
           /\ x.kind = y.kind => (Key(x) <= Key(y) <=> x.run <= y.run) /\ (Key(x) < Key(y) <=> x.run < y.run)
<1>0. ASSUME NEW z \in Log!Line PROVE z.kind \in Kinds /\ z.run \in 1 .. MaxRuns /\ z.run \in Nat
  <2>1. z.kind \in Kinds /\ z.run \in 1 .. MaxRuns
    BY DEF Log!Line, Kinds
  <2> QED
    BY <2>1
<1>1. x.kind \in Kinds /\ y.kind \in Kinds /\ x.run \in Nat /\ y.run \in Nat /\ x.run \in 1 .. MaxRuns
  BY <1>0
<1>2. \A k, m \in Kinds : Rank[k] \in 0 .. 4 /\ (Rank[k] = Rank[m] => k = m)
  BY DEF Rank, Kinds
<1>3. Rank[x.kind] \in 0 .. 4 /\ Rank[y.kind] \in 0 .. 4 /\ (Rank[x.kind] = Rank[y.kind] => x.kind = y.kind)
  BY <1>1, <1>2
<1> QED
  BY <1>1, <1>3 DEF Key

\* A line that is added after all the others.
LEMMA AddLine ==
    ASSUME NEW file \in Seq(Log!Line), Sorted(file), NEW line \in Log!Line, NEW top \in Nat,
           \A i \in DOMAIN file : Key(file[i]) <= top,
           top <= Key(line), line.kind # "thread" => top < Key(line)
    PROVE  LET longer == Append(file, line)
           IN  /\ longer \in Seq(Log!Line) /\ longer # <<>>
               /\ Sorted(longer)
               /\ \A i \in DOMAIN longer : Key(longer[i]) <= Key(line)
               /\ HasLine(longer, line.kind, line.run)
               /\ \A kind, r : HasLine(file, kind, r) => HasLine(longer, kind, r)
               /\ \A vm, r : HasThread(longer, vm, r) =>
                      HasThread(file, vm, r) \/ (line.kind = "thread" /\ line.vm = vm /\ line.run = r)
<1> DEFINE longer == Append(file, line)
           n == Len(file) + 1
<1>1. /\ longer \in Seq(Log!Line) /\ longer # <<>>
      /\ n \in Nat /\ DOMAIN longer = 1 .. n /\ DOMAIN file = 1 .. n - 1
      /\ longer[n] = line
      /\ \A i \in DOMAIN file : longer[i] = file[i] /\ file[i] \in Log!Line
  BY AppendProperties
<1> HIDE DEF longer, n
<1>2. \A i \in DOMAIN longer : i = n \/ i \in DOMAIN file
  BY <1>1
<1>3. \A i \in DOMAIN file : Key(file[i]) \in Nat
  BY <1>1, Keys
<1>4. \A i \in DOMAIN longer : Key(longer[i]) <= Key(line) /\ Key(longer[i]) \in Nat
  BY <1>1, <1>2, <1>3, Keys
<1>5. ASSUME NEW i \in DOMAIN longer, NEW j \in DOMAIN longer, i < j
      PROVE  /\ Key(longer[i]) <= Key(longer[j])
             /\ longer[j].kind # "thread" => Key(longer[i]) < Key(longer[j])
  <2>1. i \in DOMAIN file
    BY <1>1, <1>5
  <2>2. CASE j \in DOMAIN file
    BY <1>1, <1>5, <2>1, <2>2 DEF Sorted
  <2>3. CASE j = n
    BY <1>1, <1>3, <2>1, <2>3, Keys
  <2> QED
    BY <1>2, <2>2, <2>3
<1>6. Sorted(longer)
  BY <1>5 DEF Sorted
<1>7. HasLine(longer, line.kind, line.run)
  BY <1>1 DEF HasLine
<1>8. \A kind, r : HasLine(file, kind, r) => HasLine(longer, kind, r)
  BY <1>1 DEF HasLine
<1>9. \A vm, r : HasThread(longer, vm, r) =>
          HasThread(file, vm, r) \/ (line.kind = "thread" /\ line.vm = vm /\ line.run = r)
  <2> SUFFICES ASSUME NEW vm, NEW r, HasThread(longer, vm, r)
               PROVE  HasThread(file, vm, r) \/ (line.kind = "thread" /\ line.vm = vm /\ line.run = r)
    BY Zenon
  <2>1. PICK i \in DOMAIN longer : longer[i].kind = "thread" /\ longer[i].vm = vm /\ longer[i].run = r
    BY Zenon DEF HasThread
  <2>2. i = n \/ i \in DOMAIN file
    BY <1>2
  <2>3. CASE i = n
    BY <1>1, <2>1, <2>3, Zenon
  <2>4. CASE i \in DOMAIN file
    <3>1. file[i] = longer[i]
      BY <1>1, <2>4
    <3>2. file[i].kind = "thread" /\ file[i].vm = vm /\ file[i].run = r
      BY <2>1, <3>1
    <3> QED
      BY <2>4, <3>2 DEF HasThread
  <2> QED
    BY <2>2, <2>3, <2>4
<1> QED
  BY <1>1, <1>4, <1>6, <1>7, <1>8, <1>9 DEF longer

LEMMA InitLog == Log!Init => LogInv
<1> SUFFICES ASSUME Log!Init PROVE LogInv
  OBVIOUS
<1>1. <<>> \in Seq(Log!Line) /\ DOMAIN <<>> = {}
  BY EmptySeq
<1>2. Log!TypeOK
  BY <1>1, LogBounds DEF Log!Init, Log!TypeOK, Log!NotRead
<1>3. JobLogInv
  BY <1>1 DEF Log!Init, JobLogInv, Sorted
<1>4. TaskLogInv
  BY <1>1 DEF Log!Init, TaskLogInv
<1>5. ReadInv
  BY DEF Log!Init, ReadInv
<1> QED
  BY <1>2, <1>3, <1>4, <1>5 DEF LogInv

\* What a run may write next.
LEMMA WriterState ==
    ASSUME LogInv
    PROVE  /\ phase # "over" => run \in 1 .. MaxRuns
           /\ 5 * run + Written[phase] \in Nat
           /\ run \in Nat
  BY DEF LogInv, Log!TypeOK, JobLogInv, Written

\* A line of the job log that is due.
LEMMA JobLine ==
    ASSUME LogInv, NEW line \in Log!Line, jobLog' = Append(jobLog, line),
           5 * run + Written[phase] <= Key(line),
           line.kind # "thread" => 5 * run + Written[phase] < Key(line)
    PROVE  /\ jobLog' \in Seq(Log!Line) /\ jobLog' # <<>>
           /\ Sorted(jobLog')
           /\ \A i \in DOMAIN jobLog' : Key(jobLog'[i]) <= Key(line)
           /\ HasLine(jobLog', line.kind, line.run)
           /\ \A kind, r : HasLine(jobLog, kind, r) => HasLine(jobLog', kind, r)
           /\ \A vm, r : HasThread(jobLog', vm, r) =>
                  HasThread(jobLog, vm, r) \/ (line.kind = "thread" /\ line.vm = vm /\ line.run = r)
<1>1. /\ jobLog \in Seq(Log!Line) /\ Sorted(jobLog) /\ 5 * run + Written[phase] \in Nat
      /\ \A i \in DOMAIN jobLog : Key(jobLog[i]) <= 5 * run + Written[phase]
  BY WriterState DEF LogInv, Log!TypeOK, JobLogInv
<1> DEFINE top == 5 * run + Written[phase]
<1> HIDE DEF top
<1>2. /\ Append(jobLog, line) \in Seq(Log!Line) /\ Append(jobLog, line) # <<>>
      /\ Sorted(Append(jobLog, line))
      /\ \A i \in DOMAIN Append(jobLog, line) : Key(Append(jobLog, line)[i]) <= Key(line)
      /\ HasLine(Append(jobLog, line), line.kind, line.run)
      /\ \A kind, r : HasLine(jobLog, kind, r) => HasLine(Append(jobLog, line), kind, r)
      /\ \A vm, r : HasThread(Append(jobLog, line), vm, r) =>
                  HasThread(jobLog, vm, r) \/ (line.kind = "thread" /\ line.vm = vm /\ line.run = r)
  <2>1. /\ top \in Nat /\ top <= Key(line) /\ (line.kind # "thread" => top < Key(line))
        /\ \A i \in DOMAIN jobLog : Key(jobLog[i]) <= top
    BY <1>1 DEF top
  <2> QED
    BY <1>1, <2>1, AddLine
<1> QED
  BY <1>2, Zenon

\* The lines as VBR says them.
LEMMA SaidLine ==
    ASSUME LogInv, NEW kind \in Kinds, NEW vm \in Owners, NEW r \in 1 .. MaxRuns
    PROVE  LET line == [kind |-> kind, vm |-> vm, run |-> r]
           IN  line \in Log!Line /\ line.kind = kind /\ line.vm = vm /\ line.run = r
  BY DEF Log!Line, Kinds, Owners

LEMMA StepStartRun ==
    ASSUME LogInv, NEW vms \in SUBSET VMs, Log!StartRun(vms)
    PROVE  LogInv'
<1> DEFINE next == run + 1
           line == [kind |-> "mode", vm |-> "", run |-> next]
<1>1. /\ phase = "over" /\ run < MaxRuns
      /\ jobLog' = Append(jobLog, line)
      /\ run' = run + 1 /\ phase' = "running" /\ busy' = vms /\ threads' = vms
      /\ UNCHANGED <<finished, taskLog, step, toRead, taskRead, result>>
  BY Zenon DEF Log!StartRun, Log!deep
<1>q. quiet' = (quiet /\ step = "idle")
  BY Zenon DEF Log!StartRun, Log!Writes
<1>a. run \in Nat /\ MaxRuns \in Nat /\ next \in 1 .. MaxRuns /\ next = run + 1
  <2>1. run \in Nat
    BY WriterState
  <2>2. run < MaxRuns
    BY <1>1
  <2> QED
    BY <2>1, <2>2, LogBounds
<1> HIDE DEF next
<1>2. line \in Log!Line /\ line.kind = "mode" /\ line.run = run + 1 /\ Key(line) = 5 * run + 5
  <2>0. next \in 1 .. MaxRuns
    BY <1>a
  <2>1. "mode" \in Kinds /\ "" \in Owners
    BY DEF Kinds, Owners
  <2>2. line \in Log!Line /\ line.kind = "mode" /\ line.run = next
    BY <2>0, <2>1, SaidLine
  <2> HIDE DEF line
  <2> QED
    BY <1>a, <2>2 DEF Key, Rank
<1> HIDE DEF line
<1>3. 5 * run + Written[phase] < Key(line) /\ 5 * run + Written[phase] <= Key(line)
  BY <1>1, <1>a, <1>2 DEF Written
<1>4. /\ jobLog' \in Seq(Log!Line) /\ jobLog' # <<>>
      /\ Sorted(jobLog')
      /\ \A i \in DOMAIN jobLog' : Key(jobLog'[i]) <= Key(line)
      /\ HasLine(jobLog', "mode", run + 1)
      /\ \A kind, r : HasLine(jobLog, kind, r) => HasLine(jobLog', kind, r)
      /\ \A vm, r : HasThread(jobLog', vm, r) => HasThread(jobLog, vm, r)
  BY <1>1, <1>2, <1>3, JobLine
<1>5. finished \subseteq 1 .. run /\ Log!TypeOK
  BY DEF LogInv, Log!TypeOK
<1>6. Log!TypeOK'
  <2>1. run' \in 0 .. MaxRuns /\ finished' \subseteq 1 .. run'
    BY <1>1, <1>a, <1>5
  <2> QED
    BY <1>1, <1>q, <1>4, <1>5, <2>1 DEF Log!TypeOK
<1>7. JobLogInv'
  <2>1. run' > 0 /\ run' \notin finished'
    BY <1>1, <1>a, <1>5
  <2>2. \A i \in DOMAIN jobLog' : Key(jobLog'[i]) <= 5 * run' + Written[phase']
    <3> SUFFICES ASSUME NEW i \in DOMAIN jobLog' PROVE Key(jobLog'[i]) <= 5 * run' + Written[phase']
      OBVIOUS
    <3>1. jobLog'[i] \in Log!Line /\ Key(jobLog'[i]) <= Key(line)
      BY <1>4
    <3>2. Key(jobLog'[i]) \in Nat
      BY <3>1, Keys
    <3> QED
      BY <1>1, <1>a, <1>2, <3>1, <3>2 DEF Written
  <2>3. \A r \in finished', kind \in {"mode", "load", "primary", "option"} : HasLine(jobLog', kind, r)
    BY <1>1, <1>4 DEF LogInv, JobLogInv
  <2>4. \A kind \in {"mode", "load", "primary"} : Rank[kind] <= Written[phase'] => HasLine(jobLog', kind, run')
    <3>1. /\ Rank["load"] = 2 /\ Rank["primary"] = 3 /\ Written[phase'] = 1
      BY <1>1 DEF Rank, Written
    <3>2. HasLine(jobLog', "mode", run')
      BY <1>1, <1>4
    <3> QED
      BY <3>1, <3>2
  <2> QED
    BY <1>4, <2>1, <2>2, <2>3, <2>4 DEF JobLogInv
<1>8. TaskLogInv'
  <2>1. \A vm : ~HasThread(jobLog, vm, run + 1)
    <3> SUFFICES ASSUME NEW vm, NEW i \in DOMAIN jobLog, jobLog[i].kind = "thread", jobLog[i].run = run + 1
                 PROVE FALSE
      BY DEF HasThread
    <3>1. jobLog[i] \in Log!Line /\ Key(jobLog[i]) <= 5 * run + 4
      BY <1>1, <1>5 DEF LogInv, JobLogInv, Log!TypeOK, Written
    <3>2. Key(jobLog[i]) = 5 * (run + 1) + 1
      BY <3>1, Keys DEF Rank
    <3> QED
      BY <1>1, <1>a, <3>1, <3>2
  <2>2. \A vm \in VMs : TookPart(vm)' => vm \in busy'
    BY <1>1, <1>4, <2>1 DEF TookPart
  <2>3. \A vm \in VMs : \A i \in DOMAIN taskLog'[vm] : taskLog'[vm][i].kind = "load"
    BY <1>1 DEF LogInv, TaskLogInv
  <2> QED
    BY <1>1, <2>2, <2>3 DEF TaskLogInv
<1>9. ReadInv'
  BY <1>1, <1>q, <1>4 DEF LogInv, ReadInv, Log!NotRead
<1> QED
  BY <1>6, <1>7, <1>8, <1>9 DEF LogInv

LEMMA StepWriteBusy ==
    ASSUME LogInv, NEW vm \in VMs, Log!WriteBusy(vm)
    PROVE  LogInv'
<1> DEFINE line == [kind |-> "load", vm |-> vm, run |-> run]
           longer == Append(taskLog[vm], line)
<1>1. /\ phase = "running" /\ run \in 1 .. MaxRuns
      /\ taskLog' = [taskLog EXCEPT ![vm] = longer]
      /\ busy' = busy \ {vm}
      /\ quiet' = (quiet /\ step = "idle")
      /\ UNCHANGED <<run, phase, threads, finished, jobLog, step, toRead, taskRead, result>>
  BY WriterState DEF LogInv, Log!WriteBusy, Log!Writes, Log!deep, Log!Say
<1>2. line \in Log!Line /\ line.kind = "load" /\ line.run = run
  BY <1>1, SaidLine DEF Kinds, Owners
<1>3. Log!TypeOK /\ taskLog \in [VMs -> Seq(Log!Line)]
  BY DEF LogInv, Log!TypeOK
<1> HIDE DEF line
<1>4. /\ longer \in Seq(Log!Line) /\ longer # <<>> /\ longer[Len(longer)] = line
      /\ \A i \in DOMAIN longer : longer[i] = line \/ (i \in DOMAIN taskLog[vm] /\ longer[i] = taskLog[vm][i])
  BY <1>2, <1>3, AppendProperties
<1> HIDE DEF longer
<1>5. taskLog' \in [VMs -> Seq(Log!Line)] /\ taskLog'[vm] = longer
      /\ \A w \in VMs : w # vm => taskLog'[w] = taskLog[w]
  BY <1>1, <1>3, <1>4
<1>6. Log!TypeOK'
  BY <1>1, <1>3, <1>5 DEF Log!TypeOK
<1>7. JobLogInv'
  BY <1>1 DEF LogInv, JobLogInv
<1>8. TaskLogInv'
  <2>1. \A w \in VMs : \A i \in DOMAIN taskLog'[w] : taskLog'[w][i].kind = "load"
    BY <1>2, <1>4, <1>5 DEF LogInv, TaskLogInv
  <2>2. Wrote(vm)'
    BY <1>1, <1>2, <1>4, <1>5 DEF Wrote
  <2>3. \A w \in VMs : TookPart(w)' => w \in busy' \/ Wrote(w)'
    <3> SUFFICES ASSUME NEW w \in VMs, TookPart(w)', w # vm PROVE w \in busy' \/ Wrote(w)'
      BY <2>2
    <3>1. TookPart(w)
      BY <1>1 DEF TookPart
    <3>2. w \in busy \/ Wrote(w)
      BY <1>1, <3>1 DEF LogInv, TaskLogInv
    <3> QED
      BY <1>1, <1>5, <3>2 DEF Wrote
  <2> QED
    BY <1>1, <2>1, <2>3 DEF TaskLogInv
<1>9. ReadInv'
  BY <1>1 DEF LogInv, ReadInv, Log!NotRead
<1> QED
  BY <1>6, <1>7, <1>8, <1>9 DEF LogInv

\* The table of the ranks.
LEMMA Ranks ==
    /\ Rank["mode"] = 0 /\ Rank["thread"] = 1 /\ Rank["load"] = 2 /\ Rank["primary"] = 3 /\ Rank["option"] = 4
    /\ Written["running"] = 1 /\ Written["load"] = 2 /\ Written["primary"] = 3 /\ Written["over"] = 4
    /\ \A k \in Kinds : Rank[k] \in 0 .. 4
    /\ \A k, m \in Kinds : Rank[k] = Rank[m] => k = m
    /\ \A p \in {"running", "load", "primary"} : Written[p] \in 1 .. 3
  BY DEF Rank, Written, Kinds

\* The newest run writes its next line to the job log.
Saying(kind, vm) ==
    /\ phase # "over"
    /\ Rank[kind] = Written[phase] + 1 \/ (phase = "running" /\ kind = "thread" /\ vm \in threads)
    /\ phase' \in {"running", "load", "primary", "over"} /\ Written[phase'] = Rank[kind]
    /\ finished' = IF phase' = "over" THEN finished \cup {run} ELSE finished
    /\ threads' \subseteq threads
    /\ phase' # "running" => busy = {} /\ threads' = {}
    /\ UNCHANGED <<run, busy, taskLog, step, toRead, taskRead, result>>

LEMMA StepSay ==
    \A kind \in Kinds, vm \in Owners :
        /\ LogInv
        /\ Saying(kind, vm) /\ jobLog' = Append(jobLog, Log!Say(kind, vm)) /\ Log!Writes
        => LogInv'
<1>0. SUFFICES ASSUME NEW kind \in Kinds, NEW vm \in Owners, LogInv,
                      Saying(kind, vm), jobLog' = Append(jobLog, Log!Say(kind, vm)), Log!Writes
               PROVE  LogInv'
  OBVIOUS
<1> DEFINE line == Log!Say(kind, vm)
<1>1. /\ Log!TypeOK /\ run \in 1 .. MaxRuns /\ run \in Nat /\ phase # "over"
      /\ UNCHANGED <<run, busy, taskLog, step, toRead, taskRead, result>>
  BY <1>0, WriterState DEF LogInv, Saying
<1>2. line \in Log!Line /\ line.kind = kind /\ line.vm = vm /\ line.run = run
  <2>1. LET said == [kind |-> kind, vm |-> vm, run |-> run]
        IN  said \in Log!Line /\ said.kind = kind /\ said.vm = vm /\ said.run = run
    BY <1>0, <1>1, SaidLine
  <2> QED
    BY <2>1 DEF Log!Say
<1> HIDE DEF line
<1>3. /\ Written[phase] \in 1 .. 3 /\ Rank[kind] \in 0 .. 4
      /\ Rank[kind] = Written[phase] + 1 \/ (Rank[kind] = Written[phase] /\ kind = "thread" /\ vm \in threads)
  <2>1. Written[phase] \in 1 .. 3
    <3>1. phase \in {"running", "load", "primary"}
      BY <1>1 DEF Log!TypeOK
    <3> QED
      BY <3>1, Ranks
  <2>2. CASE phase = "running" /\ kind = "thread" /\ vm \in threads
    BY <2>1, <2>2, Ranks
  <2>3. CASE Rank[kind] = Written[phase] + 1
    BY <2>1, <2>3, Ranks
  <2> QED
    BY <1>0, <2>2, <2>3 DEF Saying
<1>4. Rank[kind] >= Written[phase] /\ (kind # "thread" => Rank[kind] > Written[phase])
  BY <1>3
<1>5. Key(line) = 5 * run + Rank[kind]
  BY <1>2 DEF Key
<1>6. /\ jobLog' \in Seq(Log!Line) /\ jobLog' # <<>>
      /\ Sorted(jobLog')
      /\ \A i \in DOMAIN jobLog' : Key(jobLog'[i]) <= Key(line)
      /\ HasLine(jobLog', kind, run)
      /\ \A k, r : HasLine(jobLog, k, r) => HasLine(jobLog', k, r)
      /\ \A w, r : HasThread(jobLog', w, r) => HasThread(jobLog, w, r) \/ (kind = "thread" /\ vm = w /\ run = r)
  <2>1. jobLog' = Append(jobLog, line)
    BY <1>0 DEF line
  <2>2. 5 * run + Written[phase] <= Key(line) /\ (line.kind # "thread" => 5 * run + Written[phase] < Key(line))
    <3>1. 5 * run \in Nat
      BY <1>1
    <3> QED
      BY <1>2, <1>3, <1>4, <1>5, <3>1
  <2> QED
    BY <1>0, <1>2, <2>1, <2>2, JobLine
<1>7. quiet' = (quiet /\ step = "idle")
  BY <1>0 DEF Log!Writes
<1>8. Log!TypeOK'
  <2>1. finished' \subseteq 1 .. run'
    <3>1. finished \subseteq 1 .. run
      BY <1>1 DEF Log!TypeOK
    <3>2. finished' \subseteq finished \cup {run}
      BY <1>0 DEF Saying
    <3> QED
      BY <1>1, <3>1, <3>2
  <2> QED
    BY <1>1, <1>6, <1>7, <1>0, <2>1 DEF Log!TypeOK, Saying
<1>9. JobLogInv'
  <2>1. phase' # "over" => run' > 0 /\ run' \notin finished'
    BY <1>0, <1>1 DEF LogInv, JobLogInv, Saying
  <2>2. \A i \in DOMAIN jobLog' : Key(jobLog'[i]) <= 5 * run' + Written[phase']
    BY <1>0, <1>1, <1>5, <1>6 DEF Saying
  <2>3. \A k \in {"mode", "load", "primary"} : Rank[k] <= Written[phase'] => HasLine(jobLog', k, run)
    <3>1. ASSUME NEW k \in {"mode", "load", "primary"}, Rank[k] <= Rank[kind] PROVE HasLine(jobLog', k, run)
      <4>1. CASE Rank[k] <= Written[phase]
        BY <1>0, <1>1, <1>6, <4>1 DEF LogInv, JobLogInv
      <4>2. CASE ~(Rank[k] <= Written[phase])
        <5>0. k \in Kinds
          BY DEF Kinds
        <5>1. Rank[k] \in 0 .. 4
          BY <5>0, Ranks
        <5>a. Rank[k] = Rank[kind]
          BY <1>3, <3>1, <4>2, <5>1
        <5>2. k = kind
          BY <5>0, <5>a, Ranks, Zenon
        <5> QED
          BY <1>6, <5>2
      <4> QED
        BY <4>1, <4>2
    <3> QED
      BY <1>0, <3>1 DEF Saying
  <2>4. \A r \in finished', k \in {"mode", "load", "primary", "option"} : HasLine(jobLog', k, r)
    <3>1. \A r \in finished, k \in {"mode", "load", "primary", "option"} : HasLine(jobLog', k, r)
      BY <1>0, <1>6 DEF LogInv, JobLogInv
    <3>2. CASE phase' = "over"
      <4>1. Rank[kind] = 4
        BY <1>0, <3>2, Ranks DEF Saying
      <4>2. kind = "option"
        <5>1. "option" \in Kinds /\ Rank[kind] = Rank["option"]
          BY <4>1, Ranks DEF Kinds
        <5> QED
          BY <5>1, Ranks, Zenon
      <4>3. \A k \in {"mode", "load", "primary"} : Rank[k] <= Written[phase']
        BY <3>2, Ranks
      <4> QED
        BY <1>6, <2>3, <3>1, <3>2, <4>2, <4>3, <1>0 DEF Saying
    <3>3. CASE phase' # "over"
      BY <1>0, <3>1, <3>3 DEF Saying
    <3> QED
      BY <3>2, <3>3
  <2> QED
    BY <1>1, <1>6, <2>1, <2>2, <2>3, <2>4 DEF JobLogInv
<1>10. TaskLogInv'
  <2>1. \A w \in VMs : TookPart(w)' => w \in busy' \/ Wrote(w)'
    <3> SUFFICES ASSUME NEW w \in VMs, TookPart(w)' PROVE w \in busy' \/ Wrote(w)'
      OBVIOUS
    <3>1. TookPart(w)
      <4>1. kind = "thread" => vm \in threads
        <5>1. kind = "thread" => Rank[kind] = 1
          BY Ranks
        <5> QED
          BY <1>3, <5>1
      <4> QED
        BY <1>0, <1>1, <1>6, <4>1 DEF TookPart, Saying
    <3>2. w \in busy \/ Wrote(w)
      BY <1>0, <1>1, <3>1 DEF LogInv, TaskLogInv
    <3> QED
      BY <1>1, <3>2 DEF Wrote
  <2> QED
    BY <1>0, <1>1, <2>1 DEF LogInv, TaskLogInv, Saying
<1>11. ReadInv'
  BY <1>0, <1>1, <1>6, <1>7 DEF LogInv, ReadInv, Log!NotRead
<1> QED
  BY <1>8, <1>9, <1>10, <1>11 DEF LogInv

LEMMA StepWriter == LogInv /\ Log!RunStep => LogInv'
<1>0. SUFFICES ASSUME LogInv, Log!RunStep PROVE LogInv'
  OBVIOUS
<1>1. ASSUME NEW vms \in SUBSET VMs, Log!StartRun(vms) PROVE LogInv'
  BY <1>0, <1>1, StepStartRun
<1>2. ASSUME NEW vm \in VMs, Log!WriteBusy(vm) PROVE LogInv'
  BY <1>0, <1>2, StepWriteBusy
<1>3. ASSUME NEW vm \in VMs, Log!CompleteThread(vm) PROVE LogInv'
  <2>1. Saying("thread", vm)
    BY <1>3, Ranks, Zenon DEF Log!CompleteThread, Saying, Log!deep
  <2> QED
    BY <1>0, <1>3, <2>1, StepSay DEF Log!CompleteThread, Kinds, Owners
<1>4. ASSUME Log!WriteLoad PROVE LogInv'
  <2>1. phase # "over" /\ Rank["load"] = Written[phase] + 1 /\ Written[phase'] = Rank["load"] /\ busy = {} /\ threads = {}
    <3>1. phase = "running" /\ phase' = "load" /\ (phase = "running" => busy = {} /\ threads = {})
      BY <1>4, Zenon DEF Log!WriteLoad
    <3>2. busy = {} /\ threads = {}
      BY <1>0, <3>1 DEF LogInv, TaskLogInv
    <3> QED
      BY <3>1, <3>2, Ranks
  <2>2. \A vm : Saying("load", vm)
    BY <1>4, <2>1 DEF Log!WriteLoad, Saying, Log!deep
  <2> QED
    BY <1>0, <1>4, <2>2, StepSay DEF Log!WriteLoad, Kinds, Owners
<1>5. ASSUME Log!WritePrimary PROVE LogInv'
  <2>1. phase # "over" /\ Rank["primary"] = Written[phase] + 1 /\ Written[phase'] = Rank["primary"] /\ busy = {} /\ threads = {}
    <3>1. phase = "load" /\ phase' = "primary" /\ (phase = "running" => busy = {} /\ threads = {})
      BY <1>5, Zenon DEF Log!WritePrimary
    <3>2. busy = {} /\ threads = {}
      BY <1>0, <3>1 DEF LogInv, TaskLogInv
    <3> QED
      BY <3>1, <3>2, Ranks
  <2>2. \A vm : Saying("primary", vm)
    BY <1>5, <2>1 DEF Log!WritePrimary, Saying, Log!deep
  <2> QED
    BY <1>0, <1>5, <2>2, StepSay DEF Log!WritePrimary, Kinds, Owners
<1>6. ASSUME Log!WriteOptions PROVE LogInv'
  <2>1. phase # "over" /\ Rank["option"] = Written[phase] + 1 /\ Written[phase'] = Rank["option"] /\ busy = {} /\ threads = {}
    <3>1. phase = "primary" /\ phase' = "over" /\ (phase = "running" => busy = {} /\ threads = {})
      BY <1>6, Zenon DEF Log!WriteOptions
    <3>2. busy = {} /\ threads = {}
      BY <1>0, <3>1 DEF LogInv, TaskLogInv
    <3> QED
      BY <3>1, <3>2, Ranks
  <2>2. \A vm : Saying("option", vm)
    BY <1>6, <2>1 DEF Log!WriteOptions, Saying, Log!deep
  <2> QED
    BY <1>0, <1>6, <2>2, StepSay DEF Log!WriteOptions, Kinds, Owners
<1>7. ASSUME Log!AbandonRun PROVE LogInv'
  <2>1. /\ phase = "running" /\ phase' = "over" /\ busy' = {} /\ threads' = {}
        /\ UNCHANGED <<run, finished, jobLog, taskLog, step, toRead, taskRead, result>>
    BY <1>7, Zenon DEF Log!AbandonRun, Log!deep
  <2>2. quiet' = (quiet /\ step = "idle")
    BY <1>7, Zenon DEF Log!AbandonRun, Log!Writes
  <2>3. Log!TypeOK'
    BY <1>0, <2>1, <2>2 DEF LogInv, Log!TypeOK
  <2>4. JobLogInv'
    <3>1. \A i \in DOMAIN jobLog : Key(jobLog[i]) \in Nat /\ Key(jobLog[i]) <= 5 * run + 1
      BY <1>0, <2>1, Keys, Ranks DEF LogInv, Log!TypeOK, JobLogInv
    <3>2. run \in Nat
      BY <1>0, WriterState
    <3>3. \A i \in DOMAIN jobLog' : Key(jobLog'[i]) <= 5 * run' + Written[phase']
      BY <2>1, <3>1, <3>2, Ranks
    <3> QED
      BY <1>0, <2>1, <3>3 DEF LogInv, JobLogInv
  <2>5. TaskLogInv'
    BY <1>0, <2>1 DEF LogInv, TaskLogInv, JobLogInv
  <2>6. ReadInv'
    BY <1>0, <2>1, <2>2 DEF LogInv, ReadInv, Log!NotRead
  <2> QED
    BY <2>3, <2>4, <2>5, <2>6 DEF LogInv
<1> QED
  BY <1>0, <1>1, <1>2, <1>3, <1>4, <1>5, <1>6, <1>7, Zenon DEF Log!RunStep

\* What was read of a file is part of it.
LEMMA Capped ==
    ASSUME NEW file \in Seq(Log!Line)
    PROVE  /\ Log!ReadCapped(file) \in Seq(Log!Line)
           /\ Len(file) <= maxLogBytes => Log!ReadCapped(file) = file
<1>1. /\ SubSeq(file, 1, Len(file)) = file /\ Len(file) \in Nat
      /\ SubSeq(file, 1, Len(file)) \in Seq(Log!Line)
  BY SubSeqProperties, SubSeqFull
<1>2. ~(Len(file) <= maxLogBytes) => SubSeq(file, 1, maxLogBytes) \in Seq(Log!Line)
  BY <1>1, SubSeqProperties, LogBounds
<1>3. CASE Len(file) <= maxLogBytes
  <2>1. ~(Len(file) > maxLogBytes)
    BY <1>1, <1>3, LogBounds
  <2> QED
    BY <1>1, <2>1, Zenon DEF Log!ReadCapped
<1>4. CASE ~(Len(file) <= maxLogBytes)
  <2>1. Len(file) > maxLogBytes
    BY <1>1, <1>4, LogBounds
  <2> QED
    BY <1>2, <1>4, <2>1, Zenon DEF Log!ReadCapped
<1> QED
  BY <1>3, <1>4

LEMMA StepReader == LogInv /\ Log!Fetch => LogInv'
<1>0. SUFFICES ASSUME LogInv, Log!Fetch PROVE LogInv'
  OBVIOUS
<1>1. UNCHANGED <<run, phase, busy, threads, finished, jobLog, taskLog>>
  BY <1>0 DEF Log!Fetch, Log!ListFolder, Log!ReadTask, Log!TaskFails, Log!TasksRead, Log!JobFails, Log!ReadJob, Log!vbr
<1>2. JobLogInv' /\ TaskLogInv'
  <2>1. JobLogInv'
    BY <1>0, <1>1 DEF LogInv, JobLogInv
  <2>2. \A vm : (TookPart(vm) <=> TookPart(vm)') /\ (Wrote(vm) <=> Wrote(vm)')
    BY <1>1 DEF TookPart, Wrote
  <2>3. TaskLogInv'
    BY <1>0, <1>1, <2>2 DEF LogInv, TaskLogInv
  <2> QED
    BY <2>1, <2>3
<1>3. ASSUME Log!ListFolder PROVE Log!TypeOK' /\ ReadInv'
  <2>1. Log!TypeOK'
    BY <1>0, <1>1, <1>3 DEF LogInv, Log!TypeOK, Log!ListFolder
  <2>2. ReadInv'
    BY <1>0, <1>1, <1>3 DEF LogInv, ReadInv, Log!ListFolder, Log!NotRead
  <2> QED
    BY <2>1, <2>2
<1>4. ASSUME NEW vm \in VMs, Log!ReadTask(vm) PROVE Log!TypeOK' /\ ReadInv'
  <2>1. /\ step = "tasks" /\ UNCHANGED <<step, result, quiet>>
        /\ toRead' = toRead \ {vm}
        /\ taskRead' = [taskRead EXCEPT ![vm] = Log!ReadCapped(taskLog[vm])]
    BY <1>4 DEF Log!ReadTask
  <2>2. Log!ReadCapped(taskLog[vm]) \in Seq(Log!Line) /\ taskRead \in [VMs -> Seq(Log!Line)]
    BY <1>0, Capped DEF LogInv, Log!TypeOK
  <2>3. taskRead' \in [VMs -> Seq(Log!Line)]
    BY <2>1, <2>2
  <2>4. Log!TypeOK'
    BY <1>0, <1>1, <2>1, <2>3 DEF LogInv, Log!TypeOK
  <2>5. \A w \in VMs : taskRead'[w] = IF w = vm THEN Log!ReadCapped(taskLog[w]) ELSE taskRead[w]
    BY <2>1, <2>2
  <2>6. ReadInv'
    BY <1>0, <1>1, <2>1, <2>5 DEF LogInv, ReadInv, Log!ReadCapped, Log!NotRead
  <2> QED
    BY <2>4, <2>6
<1>5. ASSUME NEW vm \in VMs, Log!TaskFails(vm) PROVE Log!TypeOK' /\ ReadInv'
  <2>1. Log!TypeOK'
    BY <1>0, <1>1, <1>5 DEF LogInv, Log!TypeOK, Log!TaskFails
  <2>2. ReadInv'
    BY <1>0, <1>1, <1>5 DEF LogInv, ReadInv, Log!TaskFails, Log!ReadCapped, Log!NotRead
  <2> QED
    BY <2>1, <2>2
<1>6. ASSUME Log!TasksRead \/ Log!JobFails PROVE Log!TypeOK' /\ ReadInv'
  <2>1. Log!TypeOK'
    BY <1>0, <1>1, <1>6 DEF LogInv, Log!TypeOK, Log!TasksRead, Log!JobFails
  <2>2. ReadInv'
    BY <1>0, <1>1, <1>6 DEF LogInv, ReadInv, Log!TasksRead, Log!JobFails, Log!ReadCapped, Log!NotRead
  <2> QED
    BY <2>1, <2>2
<1>7. ASSUME Log!ReadJob PROVE Log!TypeOK' /\ ReadInv'
  <2>1. DOMAIN result' = DOMAIN Log!NoResult
    BY <1>7 DEF Log!ReadJob, Log!Parse, Log!NoResult
  <2>2. Log!TypeOK'
    BY <1>0, <1>1, <1>7, <2>1 DEF LogInv, Log!TypeOK, Log!ReadJob
  <2>3. ReadInv'
    BY <1>0, <1>1, <1>7 DEF LogInv, ReadInv, Log!ReadJob, Log!ReadCapped, Log!NotRead
  <2> QED
    BY <2>2, <2>3
<1>8. Log!TypeOK' /\ ReadInv'
  BY <1>0, <1>3, <1>4, <1>5, <1>6, <1>7, Zenon DEF Log!Fetch
<1> QED
  BY <1>2, <1>8 DEF LogInv

LEMMA NextLog == LogInv /\ [Log!Next]_(Log!vars) => LogInv'
<1>1. CASE Log!RunStep
  BY <1>1, StepWriter
<1>2. CASE Log!Fetch
  BY <1>2, StepReader
<1>3. ASSUME LogInv, UNCHANGED Log!vars PROVE LogInv'
  <2>1. UNCHANGED <<run, phase, busy, threads, finished, jobLog, taskLog, step, toRead, taskRead, result, quiet>>
    BY <1>3 DEF Log!vars, Log!vbr, Log!deep
  <2>2. Log!TypeOK'
    BY <1>3, <2>1 DEF LogInv, Log!TypeOK
  <2>3. JobLogInv'
    BY <1>3, <2>1 DEF LogInv, JobLogInv
  <2>4. TaskLogInv'
    BY <1>3, <2>1 DEF LogInv, TaskLogInv, TookPart, Wrote
  <2>5. ReadInv'
    BY <1>3, <2>1 DEF LogInv, ReadInv, Log!ReadCapped, Log!NotRead
  <2> QED
    BY <2>2, <2>3, <2>4, <2>5 DEF LogInv
<1> QED
  BY <1>1, <1>2, <1>3 DEF Log!Next

------------------------------------------------------------------------------
(* What Parse takes from a file.                                           *)

LEMMA Greatest ==
    ASSUME NEW n \in Nat, NEW T \in SUBSET (1 .. n), T # {}
    PROVE  \E i \in T : \A j \in T : j <= i
<1> DEFINE Above(i) == n - i
           gaps == {Above(i) : i \in T}
           Smaller == {ss \in Nat \X Nat : ss[1] < ss[2]}
<1>1. IsWellFoundedOn(Smaller, Nat)
  BY NatLessThanWellFounded DEF OpToRel
<1>2. \A k, m \in Nat : <<k, m>> \in Smaller <=> k < m
  OBVIOUS
<1>3. gaps # {} /\ gaps \subseteq Nat
  <2>1. \A i \in T : Above(i) \in Nat
    OBVIOUS
  <2> QED
    BY <2>1
<1> HIDE DEF Smaller, gaps
<1>4. PICK k \in gaps : \A m \in gaps : ~ (<<m, k>> \in Smaller)
  BY <1>1, <1>3, WFMin
<1>5. PICK i \in T : k = Above(i)
  BY <1>4 DEF gaps
<1>6. ASSUME NEW j \in T PROVE j <= i
  <2>1. Above(j) \in gaps /\ Above(j) \in Nat /\ k \in Nat
    BY <1>3, <1>4 DEF gaps
  <2>2. ~ (Above(j) < k)
    BY <1>2, <1>4, <2>1
  <2> QED
    BY <1>5, <2>2
<1> QED
  BY <1>6

\* The Cardinality that DeepLog inherits is the one that the library is about.
LEMMA SameCardinality == \A S : Log!Cardinality(S) = Cardinality(S)
  BY Zenon DEF Log!Cardinality, Cardinality

LEMMA LoadsFinite ==
    ASSUME NEW file \in Seq(Log!Line)
    PROVE  /\ Log!Loads(file) \subseteq 1 .. Len(file) /\ Len(file) \in Nat
           /\ \A T \in SUBSET Log!Loads(file) : IsFiniteSet(T) /\ Cardinality(T) \in Nat
<1>1. Len(file) \in Nat /\ DOMAIN file = 1 .. Len(file)
  BY LenProperties
<1>2. Log!Loads(file) \subseteq 1 .. Len(file)
  BY <1>1 DEF Log!Loads
<1>3. IsFiniteSet(1 .. Len(file))
  BY <1>1, FS_Interval
<1>4. ASSUME NEW T \in SUBSET Log!Loads(file) PROVE IsFiniteSet(T) /\ Cardinality(T) \in Nat
  <2>1. T \in SUBSET (1 .. Len(file))
    BY <1>2
  <2>2. IsFiniteSet(T)
    BY <1>3, <2>1, FS_Subset
  <2> QED
    BY <2>2, FS_CardinalityType
<1> QED
  BY <1>1, <1>2, <1>4

\* With no two Load lines the segment is the file.
LEMMA SegmentWhole ==
    ASSUME NEW file \in Seq(Log!Line), \A i, j \in Log!Loads(file) : i = j
    PROVE  Log!LastRunSegment(file) = file
<1> DEFINE L == Log!Loads(file)
<1>1. IsFiniteSet(L) /\ Cardinality(L) \in Nat
  BY LoadsFinite
<1>2. L = {} => Cardinality(L) = 0
  BY <1>1, FS_EmptySet
<1>3. ASSUME NEW i \in L PROVE Cardinality(L) = 1
  <2>1. L = {i}
    OBVIOUS
  <2> HIDE DEF L
  <2> QED
    BY <2>1, FS_Singleton
<1>4. Cardinality(L) < 2
  <2> HIDE DEF L
  <2> QED
    BY <1>2, <1>3
<1>5. Log!Cardinality(Log!Loads(file)) < 2
  BY <1>4, SameCardinality
<1> QED
  BY <1>5, Zenon DEF Log!LastRunSegment

\* With two or more it begins after the last but one.
LEMMA SegmentIs ==
    ASSUME NEW file \in Seq(Log!Line), NEW i \in Log!Loads(file), NEW j \in Log!Loads(file), i < j,
           \A l \in Log!Loads(file) : l <= i \/ l = j
    PROVE  Log!LastRunSegment(file) = SubSeq(file, i + 1, Len(file))
<1> DEFINE L == Log!Loads(file)
           After(c) == {l \in L : l > c}
<1>0. L \subseteq Nat /\ i \in Nat /\ j \in Nat
  BY LoadsFinite
<1>1. \A c : IsFiniteSet(After(c)) /\ Cardinality(After(c)) \in Nat
  BY LoadsFinite
<1>2. Cardinality(After(i)) = 1
  <2>1. After(i) = {j}
    BY <1>0
  <2> QED
    BY <2>1, FS_Singleton
<1>3. ASSUME NEW c \in L, Cardinality(After(c)) = 1 PROVE c = i
  <2>1. PICK x : After(c) = {x}
    BY <1>1, <1>3, FS_Singleton
  <2>2. CASE c = j
    <3>1. After(c) = {}
      BY <1>0, <2>2
    <3> QED
      BY <2>1, <3>1
  <2>3. CASE c < i
    <3>1. i \in After(c) /\ j \in After(c)
      BY <1>0, <2>3
    <3> QED
      BY <1>0, <2>1, <3>1
  <2> QED
    BY <1>0, <2>2, <2>3
<1>4. ~(Cardinality(L) < 2)
  <2>1. /\ IsFiniteSet(L) /\ Cardinality(L) \in Nat
    BY LoadsFinite
  <2>2. ASSUME Cardinality(L) = 0 \/ Cardinality(L) = 1 PROVE FALSE
    <3>1. CASE Cardinality(L) = 0
      BY <2>1, <3>1, FS_EmptySet
    <3>2. CASE Cardinality(L) = 1
      <4>1. PICK x : L = {x}
        BY <2>1, <3>2, FS_Singleton
      <4> QED
        BY <1>0, <4>1
    <3> QED
      BY <2>2, <3>1, <3>2
  <2> QED
    BY <2>1, <2>2
<1>5. (CHOOSE c \in L : Log!Cardinality(After(c)) = 1) = i
  <2>1. \A c \in L : Log!Cardinality(After(c)) = 1 <=> c = i
    BY <1>2, <1>3, SameCardinality
  <2> HIDE DEF After, L
  <2>2. i \in L
    BY DEF L
  <2> QED
    BY <2>1, <2>2
<1>6. ~(Log!Cardinality(Log!Loads(file)) < 2)
  BY <1>4, SameCardinality
<1> QED
  BY <1>5, <1>6, Zenon DEF Log!LastRunSegment

\* The last line of a kind is that of the run that no other is newer than.
LEMMA LastIs ==
    ASSUME NEW file \in Seq(Log!Line), Sorted(file), NEW kind, kind # "thread", NEW r \in Nat,
           HasLine(file, kind, r), \A i \in DOMAIN file : file[i].run <= r
    PROVE  Log!LastOf(file, kind) = r
<1>1. /\ Len(file) \in Nat /\ DOMAIN file = 1 .. Len(file)
      /\ \A i \in DOMAIN file : file[i] \in Log!Line
  BY LenProperties, ElementOfSeq
<1>2. PICK p \in DOMAIN file : file[p].kind = kind /\ file[p].run = r
  BY DEF HasLine
<1>3. ASSUME NEW j \in DOMAIN file, p < j PROVE file[j].kind # kind
  <2>1. SUFFICES ASSUME file[j].kind = kind PROVE FALSE
    OBVIOUS
  <2>2. Key(file[p]) < Key(file[j])
    BY <1>2, <1>3, <2>1 DEF Sorted
  <2>3. file[p].run < file[j].run
    BY <1>1, <1>2, <2>1, <2>2, Keys
  <2>4. file[j].run \in Nat
    BY <1>1, Keys
  <2> QED
    BY <1>2, <2>3, <2>4
<1> DEFINE Last(i) == file[i].kind = kind /\ \A j \in i + 1 .. Len(file) : file[j].kind # kind
<1>4. Last(p)
  BY <1>1, <1>2, <1>3
<1>5. ASSUME NEW i \in DOMAIN file, Last(i) PROVE i = p
  <2>1. ~(p < i)
    BY <1>3, <1>5
  <2>2. ~(i < p)
    BY <1>1, <1>2, <1>5
  <2> QED
    BY <1>1, <2>1, <2>2
<1>6. (CHOOSE i \in DOMAIN file : Last(i)) = p
  <2> HIDE DEF Last
  <2> QED
    BY <1>4, <1>5
<1> QED
  BY <1>2, <1>6, Zenon DEF Log!LastOf

------------------------------------------------------------------------------
(* The files of a job that has settled.                                    *)

\* The newest run and the one before it have written all their lines.
LEMMA NewestRun ==
    ASSUME LogInv, Log!Settled, jobLog # <<>>
    PROVE  /\ run \in Nat /\ run > 0 /\ run \in finished /\ (run > 1 => run - 1 \in finished)
           /\ jobLog \in Seq(Log!Line) /\ Len(jobLog) \in Nat /\ DOMAIN jobLog = 1 .. Len(jobLog)
           /\ \A i \in DOMAIN jobLog :
                  /\ jobLog[i] \in Log!Line /\ jobLog[i].run \in Nat /\ jobLog[i].run <= run
                  /\ Key(jobLog[i]) \in Nat
           /\ Log!ReadCapped(jobLog) = jobLog
<1>1. /\ jobLog \in Seq(Log!Line) /\ Len(jobLog) \in Nat /\ DOMAIN jobLog = 1 .. Len(jobLog)
      /\ \A i \in DOMAIN jobLog : jobLog[i] \in Log!Line
      /\ run \in Nat /\ finished \subseteq 1 .. run
  BY LenProperties, ElementOfSeq, WriterState DEF LogInv, Log!TypeOK
<1>2. \A i \in DOMAIN jobLog : jobLog[i].run \in 1 .. MaxRuns /\ Key(jobLog[i]) \in Nat /\ jobLog[i].run <= run
  <2> SUFFICES ASSUME NEW i \in DOMAIN jobLog
               PROVE  jobLog[i].run \in 1 .. MaxRuns /\ Key(jobLog[i]) \in Nat /\ jobLog[i].run <= run
    OBVIOUS
  <2>1. Key(jobLog[i]) <= 5 * run + 4
    BY Ranks DEF LogInv, JobLogInv, Log!Settled
  <2>2. /\ Key(jobLog[i]) \in Nat /\ Rank[jobLog[i].kind] \in 0 .. 4 /\ jobLog[i].run \in 1 .. MaxRuns
        /\ Key(jobLog[i]) = 5 * jobLog[i].run + Rank[jobLog[i].kind]
    BY <1>1, Keys
  <2>3. run \in Nat /\ MaxRuns \in Nat
    BY <1>1, LogBounds
  <2>4. 5 * jobLog[i].run <= 5 * run + 4
    BY <2>1, <2>2, <2>3
  <2>5. jobLog[i].run <= run
    BY <2>2, <2>3, <2>4
  <2> QED
    BY <2>2, <2>5
<1>3. 1 \in DOMAIN jobLog
  BY <1>1, EmptySeq
<1>4. run > 0
  BY <1>1, <1>2, <1>3, LogBounds
<1>5. run \in finished /\ (run > 1 => run - 1 \in finished)
  <2>1. {run - 1, run} \cap Nat \subseteq finished \cup {0}
    BY DEF Log!Settled
  <2>2. run > 1 => run - 1 \in Nat /\ run - 1 # 0
    BY <1>1
  <2> QED
    BY <1>1, <1>4, <2>1, <2>2
<1>6. Log!ReadCapped(jobLog) = jobLog
  BY <1>1, Capped DEF Log!Settled
<1> QED
  BY <1>1, <1>2, <1>4, <1>5, <1>6, LogBounds

\* The segment begins after the Load line of the run before the newest.
LEMMA JobSegment ==
    ASSUME LogInv, Log!Settled, jobLog # <<>>
    PROVE  \E c \in 0 .. Len(jobLog) :
               /\ Log!LastRunSegment(jobLog) = SubSeq(jobLog, c + 1, Len(jobLog))
               /\ \A i \in DOMAIN jobLog : i <= c <=> Key(jobLog[i]) <= 5 * run - 3
<1> DEFINE n == Len(jobLog)
<1>1. /\ run \in Nat /\ run > 0 /\ run \in finished /\ (run > 1 => run - 1 \in finished)
      /\ jobLog \in Seq(Log!Line) /\ n \in Nat /\ DOMAIN jobLog = 1 .. n
      /\ \A i \in DOMAIN jobLog :
             /\ jobLog[i] \in Log!Line /\ jobLog[i].run \in Nat /\ jobLog[i].run <= run
             /\ Key(jobLog[i]) \in Nat
  BY NewestRun
<1>2. Sorted(jobLog)
  BY DEF LogInv, JobLogInv
<1> HIDE DEF n
<1>3. \A i \in DOMAIN jobLog :
          /\ jobLog[i].kind \in Kinds /\ Rank[jobLog[i].kind] \in 0 .. 4 /\ jobLog[i].run >= 1
          /\ Key(jobLog[i]) = 5 * jobLog[i].run + Rank[jobLog[i].kind]
  BY <1>1, Keys
<1>4. \A i \in Log!Loads(jobLog) : i \in DOMAIN jobLog /\ i \in Nat /\ jobLog[i].kind = "load" /\ Key(jobLog[i]) = 5 * jobLog[i].run + 2
  BY <1>1, <1>3, Ranks DEF Log!Loads
<1>5. \A i, j \in Log!Loads(jobLog) : i < j => jobLog[i].run < jobLog[j].run
  <2> SUFFICES ASSUME NEW i \in Log!Loads(jobLog), NEW j \in Log!Loads(jobLog), i < j
               PROVE  jobLog[i].run < jobLog[j].run
    OBVIOUS
  <2>1. Key(jobLog[i]) < Key(jobLog[j])
    BY <1>2, <1>4 DEF Sorted
  <2> QED
    BY <1>1, <1>4, <2>1
<1>6. ASSUME run = 1
      PROVE  \E c \in 0 .. n :
                 /\ Log!LastRunSegment(jobLog) = SubSeq(jobLog, c + 1, n)
                 /\ \A i \in DOMAIN jobLog : i <= c <=> Key(jobLog[i]) <= 5 * run - 3
  <2>1. \A i \in Log!Loads(jobLog) : jobLog[i].run = 1
    BY <1>1, <1>3, <1>4, <1>6
  <2>2. \A i, j \in Log!Loads(jobLog) : i = j
    <3> SUFFICES ASSUME NEW i \in Log!Loads(jobLog), NEW j \in Log!Loads(jobLog) PROVE i = j
      OBVIOUS
    <3>1. ~(i < j) /\ ~(j < i)
      BY <1>5, <2>1
    <3> QED
      BY <1>4, <3>1
  <2>3. Log!LastRunSegment(jobLog) = SubSeq(jobLog, 0 + 1, n)
    <3>1. Log!LastRunSegment(jobLog) = jobLog
      BY <1>1, <2>2, SegmentWhole
    <3>2. SubSeq(jobLog, 1, n) = jobLog
      BY <1>1, SubSeqFull DEF n
    <3> QED
      BY <3>1, <3>2
  <2>4. \A i \in DOMAIN jobLog : i <= 0 <=> Key(jobLog[i]) <= 5 * run - 3
    <3> SUFFICES ASSUME NEW i \in DOMAIN jobLog PROVE ~(i <= 0) /\ ~(Key(jobLog[i]) <= 5 * run - 3)
      OBVIOUS
    <3>1. i \in Nat /\ i > 0
      BY <1>1
    <3>2. Key(jobLog[i]) = 5 * jobLog[i].run + Rank[jobLog[i].kind] /\ jobLog[i].run \in Nat
          /\ jobLog[i].run >= 1 /\ Rank[jobLog[i].kind] \in 0 .. 4
      BY <1>1, <1>3
    <3> QED
      BY <1>6, <3>1, <3>2
  <2>5. 0 \in 0 .. n
    BY <1>1
  <2> QED
    BY <2>3, <2>4, <2>5, Zenon
<1>7. ASSUME run > 1
      PROVE  \E c \in 0 .. n :
                 /\ Log!LastRunSegment(jobLog) = SubSeq(jobLog, c + 1, n)
                 /\ \A i \in DOMAIN jobLog : i <= c <=> Key(jobLog[i]) <= 5 * run - 3
  <2>1. HasLine(jobLog, "load", run) /\ HasLine(jobLog, "load", run - 1)
    BY <1>1, <1>7 DEF LogInv, JobLogInv
  <2>2. PICK c \in Log!Loads(jobLog) : jobLog[c].run = run - 1
    BY <2>1 DEF HasLine, Log!Loads
  <2>3. PICK d \in Log!Loads(jobLog) : jobLog[d].run = run
    BY <2>1 DEF HasLine, Log!Loads
  <2>4. c < d
    <3>1. c \in Nat /\ d \in Nat
      BY <1>4
    <3>2. ~(d < c) /\ c # d
      <4>1. d < c => run < run - 1
        BY <1>5, <2>2, <2>3
      <4> QED
        BY <1>1, <2>2, <2>3, <4>1
    <3> QED
      BY <3>1, <3>2
  <2>5. ASSUME NEW l \in Log!Loads(jobLog) PROVE l <= c \/ l = d
    <3>0. jobLog[l].run \in Nat /\ jobLog[l].run <= run
      BY <1>1, <1>4
    <3>1. ~(d < l)
      <4>1. d < l => run < jobLog[l].run
        BY <1>5, <2>3
      <4> QED
        BY <1>1, <3>0, <4>1
    <3>2. ~(c < l /\ l < d)
      <4>1. c < l => run - 1 < jobLog[l].run
        BY <1>5, <2>2
      <4>2. l < d => jobLog[l].run < run
        BY <1>5, <2>3
      <4> QED
        BY <1>1, <3>0, <4>1, <4>2
    <3> QED
      BY <1>4, <3>1, <3>2
  <2>6. Log!LastRunSegment(jobLog) = SubSeq(jobLog, c + 1, n)
    BY <1>1, <2>4, <2>5, SegmentIs DEF n
  <2>7. Key(jobLog[c]) = 5 * run - 3 /\ c \in DOMAIN jobLog /\ c \in Nat /\ jobLog[c].kind = "load"
    BY <1>1, <1>4, <2>2
  <2>8. ASSUME NEW i \in DOMAIN jobLog PROVE i <= c <=> Key(jobLog[i]) <= 5 * run - 3
    <3>1. CASE i <= c
      <4>1. i = c \/ Key(jobLog[i]) <= Key(jobLog[c])
        BY <1>1, <1>2, <2>7, <3>1 DEF Sorted
      <4> QED
        BY <1>1, <2>7, <3>1, <4>1
    <3>2. CASE ~(i <= c)
      <4>1. Key(jobLog[c]) <= Key(jobLog[i]) /\ (jobLog[i].kind # "thread" => Key(jobLog[c]) < Key(jobLog[i]))
        BY <1>1, <1>2, <2>7, <3>2 DEF Sorted
      <4>2. Key(jobLog[c]) = Key(jobLog[i]) => jobLog[i].kind = "load"
        BY <1>1, <2>7, Keys
      <4> QED
        BY <1>1, <2>7, <3>2, <4>1, <4>2
    <3> QED
      BY <3>1, <3>2
  <2>9. c \in 0 .. n
    BY <1>1, <2>7
  <2> QED
    BY <2>6, <2>8, <2>9, Zenon
<1>8. \E c \in 0 .. n :
          /\ Log!LastRunSegment(jobLog) = SubSeq(jobLog, c + 1, n)
          /\ \A i \in DOMAIN jobLog : i <= c <=> Key(jobLog[i]) <= 5 * run - 3
  <2>1. run = 1 \/ run > 1
    BY <1>1
  <2> QED
    BY <1>6, <1>7, <2>1, Zenon
<1> QED
  BY <1>8, Zenon DEF n

\* What the segment holds of the newest run, and what of others.
LEMMA SegmentLines ==
    ASSUME LogInv, Log!Settled, jobLog # <<>>
    PROVE  LET lines == Log!LastRunSegment(jobLog)
           IN  /\ lines \in Seq(Log!Line) /\ Sorted(lines)
               /\ \A m \in DOMAIN lines :
                      /\ lines[m].run \in Nat /\ lines[m].run <= run
                      /\ lines[m].kind \in {"mode", "thread"} => lines[m].run = run
               /\ \A kind \in Kinds : HasLine(jobLog, kind, run) => HasLine(lines, kind, run)
               /\ \A vm, r : HasThread(lines, vm, r) => HasThread(jobLog, vm, r)
<1> DEFINE n == Len(jobLog)
           lines == Log!LastRunSegment(jobLog)
<1>1. /\ run \in Nat /\ run > 0
      /\ jobLog \in Seq(Log!Line) /\ n \in Nat /\ DOMAIN jobLog = 1 .. n
      /\ \A i \in DOMAIN jobLog :
             /\ jobLog[i] \in Log!Line /\ jobLog[i].run \in Nat /\ jobLog[i].run <= run
             /\ Key(jobLog[i]) \in Nat
  BY NewestRun
<1>2. PICK c \in 0 .. n :
          /\ lines = SubSeq(jobLog, c + 1, n)
          /\ \A i \in DOMAIN jobLog : i <= c <=> Key(jobLog[i]) <= 5 * run - 3
  BY JobSegment
<1> HIDE DEF n, lines
<1>3. c \in Nat /\ c <= n /\ \A i \in c + 1 .. n : i \in DOMAIN jobLog
  BY <1>1, <1>2
<1>4. lines \in Seq(Log!Line) /\ Len(lines) = n - c /\ \A m \in 1 .. n - c : lines[m] = jobLog[m + c]
  <2>1. \A i \in c + 1 .. n : jobLog[i] \in Log!Line
    BY <1>1, <1>3
  <2>2. /\ SubSeq(jobLog, c + 1, n) \in Seq(Log!Line)
        /\ Len(SubSeq(jobLog, c + 1, n)) = IF c + 1 <= n THEN n - (c + 1) + 1 ELSE 0
        /\ \A m \in 1 .. n - (c + 1) + 1 : SubSeq(jobLog, c + 1, n)[m] = jobLog[(c + 1) + m - 1]
    BY <1>1, <1>3, <2>1, SubSeqProperties
  <2>3. /\ lines \in Seq(Log!Line)
        /\ Len(lines) = IF c + 1 <= n THEN n - (c + 1) + 1 ELSE 0
        /\ \A m \in 1 .. n - (c + 1) + 1 : lines[m] = jobLog[(c + 1) + m - 1]
    BY <1>2, <2>2, Zenon
  <2>4. n - (c + 1) + 1 = n - c /\ \A m \in 1 .. n - c : (c + 1) + m - 1 = m + c
    BY <1>1, <1>3
  <2>5. \A m \in 1 .. n - c : lines[m] = jobLog[m + c]
    BY <2>3, <2>4
  <2>6. Len(lines) = n - c
    BY <1>1, <1>3, <2>3
  <2> QED
    BY <2>3, <2>5, <2>6
<1>5. DOMAIN lines = 1 .. n - c /\ \A m \in DOMAIN lines : m + c \in DOMAIN jobLog /\ m + c > c /\ lines[m] = jobLog[m + c]
  <2>1. DOMAIN lines = 1 .. n - c
    BY <1>4
  <2>2. \A m \in 1 .. n - c : m + c \in 1 .. n /\ m + c > c
    BY <1>1, <1>3
  <2> QED
    BY <1>1, <1>4, <2>1, <2>2
<1>6. Sorted(lines)
  <2> SUFFICES ASSUME NEW i \in DOMAIN lines, NEW j \in DOMAIN lines, i < j
               PROVE  Key(lines[i]) <= Key(lines[j]) /\ (lines[j].kind # "thread" => Key(lines[i]) < Key(lines[j]))
    BY DEF Sorted
  <2>1. i + c < j + c
    BY <1>3, <1>5
  <2>2. Sorted(jobLog)
    BY DEF LogInv, JobLogInv
  <2> QED
    BY <1>5, <2>1, <2>2 DEF Sorted
<1>7. ASSUME NEW m \in DOMAIN lines
      PROVE  /\ lines[m].run \in Nat /\ lines[m].run <= run
             /\ lines[m].kind \in {"mode", "thread"} => lines[m].run = run
  <2>1. /\ lines[m] \in Log!Line /\ lines[m].run \in Nat /\ lines[m].run <= run
        /\ Key(lines[m]) \in Nat /\ ~(Key(lines[m]) <= 5 * run - 3)
    <3>1. m + c \in DOMAIN jobLog /\ ~(m + c <= c) /\ lines[m] = jobLog[m + c]
      BY <1>3, <1>5
    <3> QED
      BY <1>1, <1>2, <3>1
  <2>2. Key(lines[m]) = 5 * lines[m].run + Rank[lines[m].kind]
    BY <2>1, Keys
  <2>3. ASSUME lines[m].kind \in {"mode", "thread"} PROVE lines[m].run = run
    <3>1. Rank[lines[m].kind] \in {0, 1}
      BY <2>3, Ranks
    <3> QED
      BY <1>1, <2>1, <2>2, <3>1
  <2> QED
    BY <2>1, <2>3
<1>8. ASSUME NEW kind \in Kinds, HasLine(jobLog, kind, run) PROVE HasLine(lines, kind, run)
  <2>1. PICK i \in DOMAIN jobLog : jobLog[i].kind = kind /\ jobLog[i].run = run
    BY <1>8 DEF HasLine
  <2>2. Key(jobLog[i]) = 5 * run + Rank[kind] /\ Rank[kind] \in 0 .. 4
    BY <1>1, <2>1, Keys
  <2>3. ~(i <= c)
    BY <1>1, <1>2, <2>2
  <2>4. i - c \in DOMAIN lines /\ lines[i - c] = jobLog[i]
    <3>1. i - c \in 1 .. n - c /\ (i - c) + c = i
      BY <1>1, <1>3, <2>3
    <3> QED
      BY <1>5, <3>1
  <2> QED
    BY <2>1, <2>4 DEF HasLine
<1>9. ASSUME NEW vm, NEW r, HasThread(lines, vm, r) PROVE HasThread(jobLog, vm, r)
  <2>1. PICK m \in DOMAIN lines : lines[m].kind = "thread" /\ lines[m].vm = vm /\ lines[m].run = r
    BY <1>9 DEF HasThread
  <2>2. m + c \in DOMAIN jobLog /\ jobLog[m + c] = lines[m]
    BY <1>5
  <2> QED
    BY <2>1, <2>2 DEF HasThread
<1> QED
  BY <1>4, <1>6, <1>7, <1>8, <1>9 DEF lines

\* A file of nothing but Load lines: the last of them is what Parse takes.
LEMMA StagesAreLast ==
    ASSUME NEW file \in Seq(Log!Line), file # <<>>, \A i \in DOMAIN file : file[i].kind = "load"
    PROVE  Log!LastOf(Log!LastRunSegment(file), "load") = file[Len(file)].run
<1> DEFINE n == Len(file)
<1>1. n \in Nat /\ n > 0 /\ DOMAIN file = 1 .. n /\ Log!Loads(file) = 1 .. n
  BY LenProperties, EmptySeq DEF Log!Loads
<1>2. n \in DOMAIN file /\ file[n] \in Log!Line
  BY <1>1, ElementOfSeq
<1>3. PICK c \in 0 .. n - 1 : Log!LastRunSegment(file) = SubSeq(file, c + 1, n)
  <2>1. CASE n = 1
    <3>1. Log!LastRunSegment(file) = file
      BY <1>1, <2>1, SegmentWhole
    <3> QED
      BY <1>1, <2>1, <3>1, SubSeqFull
  <2>2. CASE n > 1
    <3>1. n - 1 \in Log!Loads(file) /\ n \in Log!Loads(file) /\ n - 1 < n
          /\ \A l \in Log!Loads(file) : l <= n - 1 \/ l = n
      BY <1>1, <2>2
    <3>2. Log!LastRunSegment(file) = SubSeq(file, (n - 1) + 1, n)
      BY <3>1, SegmentIs
    <3>3. n - 1 \in 0 .. n - 1
      BY <1>1, <2>2
    <3> QED
      BY <3>2, <3>3, Zenon
  <2> QED
    BY <1>1, <2>1, <2>2
<1> DEFINE lines == SubSeq(file, c + 1, n)
           last == n - c
<1> HIDE DEF n
<1>4. last \in Nat /\ last > 0 /\ DOMAIN lines = 1 .. last /\ Len(lines) = last
      /\ \A m \in 1 .. last : lines[m] = file[m + c] /\ m + c \in DOMAIN file
  <2>1. \A i \in c + 1 .. n : file[i] \in Log!Line
    BY <1>1, ElementOfSeq DEF n
  <2>2. /\ lines \in Seq(Log!Line)
        /\ Len(lines) = IF c + 1 <= n THEN n - (c + 1) + 1 ELSE 0
        /\ \A m \in 1 .. n - (c + 1) + 1 : lines[m] = file[(c + 1) + m - 1]
    BY <1>1, <1>3, <2>1, SubSeqProperties
  <2>3. c \in Nat /\ c + 1 <= n /\ n - (c + 1) + 1 = last /\ last \in Nat /\ last > 0
    BY <1>1, <1>3
  <2>4. \A m \in 1 .. last : (c + 1) + m - 1 = m + c /\ m + c \in 1 .. n
    BY <1>1, <2>3
  <2> HIDE DEF lines, last
  <2>5. Len(lines) = last /\ \A m \in 1 .. last : lines[m] = file[(c + 1) + m - 1]
    BY <2>2, <2>3
  <2>6. DOMAIN lines = 1 .. last
    BY <2>2, <2>5, LenProperties
  <2>7. \A m \in 1 .. last : lines[m] = file[m + c] /\ m + c \in DOMAIN file
    BY <1>1, <2>4, <2>5
  <2> QED
    BY <2>3, <2>5, <2>6, <2>7
<1>5. lines[last] = file[n] /\ \A m \in DOMAIN lines : lines[m].kind = "load"
  <2>1. last + c = n /\ last \in 1 .. last
    BY <1>1, <1>3, <1>4
  <2> HIDE DEF lines, last
  <2> QED
    BY <1>4, <2>1
<1> HIDE DEF lines, last
<1> DEFINE Last(i) == lines[i].kind = "load" /\ \A j \in i + 1 .. Len(lines) : lines[j].kind # "load"
<1>6. Last(last)
  BY <1>4, <1>5
<1>7. ASSUME NEW i \in DOMAIN lines, Last(i) PROVE i = last
  <2>1. i \in Nat /\ i <= last
    BY <1>4
  <2>2. i < last => last \in i + 1 .. Len(lines) /\ last \in DOMAIN lines
    BY <1>4, <2>1
  <2>3. ~(i < last)
    BY <1>5, <1>7, <2>2
  <2> QED
    BY <1>4, <2>1, <2>3
<1>8. (CHOOSE i \in DOMAIN lines : Last(i)) = last
  <2>1. last \in DOMAIN lines
    BY <1>4
  <2> HIDE DEF Last
  <2> QED
    BY <1>6, <1>7, <2>1
<1>9. Log!LastOf(lines, "load") = lines[last].run
  <2>1. last \in DOMAIN lines /\ lines[last].kind = "load"
    BY <1>4, <1>5
  <2> QED
    BY <1>8, <2>1, Zenon DEF Log!LastOf
<1> QED
  BY <1>3, <1>5, <1>9 DEF lines, n

\* The duration of a machine is that of the newest run.
LEMMA DurationIs ==
    ASSUME LogInv, Log!Settled, jobLog # <<>>, NEW vm,
           Log!Duration(Log!LastRunSegment(jobLog), vm) # 0
    PROVE  Log!Duration(Log!LastRunSegment(jobLog), vm) = run /\ HasThread(jobLog, vm, run)
<1> DEFINE lines == Log!LastRunSegment(jobLog)
           own == {i \in DOMAIN lines : lines[i].kind = "thread" /\ lines[i].vm = vm}
<1>1. /\ lines \in Seq(Log!Line)
      /\ \A m \in DOMAIN lines : lines[m].kind = "thread" => lines[m].run = run
      /\ HasThread(lines, vm, run) => HasThread(jobLog, vm, run)
  BY SegmentLines
<1>2. Log!Duration(lines, vm) # 0
  OBVIOUS
<1> HIDE DEF lines
<1>3. own # {}
  BY <1>2 DEF Log!Duration
<1>4. \E i \in own : \A j \in own : j <= i
  <2>1. Len(lines) \in Nat /\ own \in SUBSET (1 .. Len(lines))
    BY <1>1, LenProperties
  <2> HIDE DEF own
  <2> QED
    BY <1>3, <2>1, Greatest
<1> DEFINE i == CHOOSE i \in own : \A j \in own : j <= i
<1>5. i \in own
  <2> HIDE DEF own
  <2> QED
    BY <1>4
<1>6. Log!Duration(lines, vm) = lines[i].run
  BY <1>3, Zenon DEF Log!Duration
<1> HIDE DEF i
<1>7. lines[i].run = run /\ HasThread(lines, vm, run)
  BY <1>1, <1>5 DEF HasThread
<1> QED
  BY <1>1, <1>6, <1>7 DEF lines

\* What Parse returns when the files have settled.
LEMMA OneRunStep ==
    ASSUME LogInv, Log!Settled, Log!ReadJob
    PROVE  /\ result'.runAt = run /\ result'.transport = {run}
           /\ {result'.aggregate, result'.primary, result'.options} = {run}
           /\ \A vm \in VMs : result'.duration[vm] # 0 =>
                  result'.duration[vm] = run /\ result'.stages[vm] = run
<1> DEFINE lines == Log!LastRunSegment(jobLog)
<1>1. jobLog # <<>> /\ step = "job"
  BY DEF LogInv, ReadInv, Log!ReadJob
<1>2. /\ run \in Nat /\ run \in finished /\ jobLog \in Seq(Log!Line) /\ Sorted(jobLog)
      /\ \A i \in DOMAIN jobLog : jobLog[i].run <= run
      /\ Log!ReadCapped(jobLog) = jobLog
  BY <1>1, NewestRun DEF LogInv, JobLogInv
<1>3. /\ lines \in Seq(Log!Line) /\ Sorted(lines)
      /\ \A m \in DOMAIN lines :
             /\ lines[m].run \in Nat /\ lines[m].run <= run
             /\ lines[m].kind \in {"mode", "thread"} => lines[m].run = run
      /\ \A kind \in Kinds : HasLine(jobLog, kind, run) => HasLine(lines, kind, run)
  BY <1>1, SegmentLines
<1>4. \A kind \in {"mode", "load", "primary", "option"} : HasLine(jobLog, kind, run) /\ HasLine(lines, kind, run)
  <2>1. \A kind \in {"mode", "load", "primary", "option"} : HasLine(jobLog, kind, run)
    BY <1>2 DEF LogInv, JobLogInv
  <2> HIDE DEF lines
  <2> QED
    BY <1>3, <2>1 DEF Kinds
<1>5. result' = [runAt |-> Log!LastOf(jobLog, "load"),
                 transport |-> {lines[i].run : i \in {j \in DOMAIN lines : lines[j].kind = "mode"}},
                 aggregate |-> Log!LastOf(lines, "load"),
                 primary |-> Log!LastOf(lines, "primary"),
                 options |-> Log!LastOf(lines, "option"),
                 duration |-> [vm \in VMs |-> IF taskRead[vm] = Log!NotRead THEN 0 ELSE Log!Duration(lines, vm)],
                 stages |-> [vm \in VMs |-> Log!LastOf(Log!LastRunSegment(taskRead[vm]), "load")]]
  BY <1>2, Zenon DEF Log!ReadJob, Log!Parse
<1> HIDE DEF lines
<1>6. Log!LastOf(jobLog, "load") = run
  BY <1>2, <1>4, LastIs
<1>7. \A kind \in {"load", "primary", "option"} : Log!LastOf(lines, kind) = run
  BY <1>2, <1>3, <1>4, LastIs
<1>8. {lines[i].run : i \in {j \in DOMAIN lines : lines[j].kind = "mode"}} = {run}
  <2>1. PICK i \in DOMAIN lines : lines[i].kind = "mode" /\ lines[i].run = run
    BY <1>4 DEF HasLine
  <2>2. \A j \in DOMAIN lines : lines[j].kind = "mode" => lines[j].run = run
    BY <1>3
  <2> QED
    BY <2>1, <2>2
<1>9. ASSUME NEW vm \in VMs, taskRead[vm] # Log!NotRead, Log!Duration(lines, vm) # 0
      PROVE  Log!Duration(lines, vm) = run /\ Log!LastOf(Log!LastRunSegment(taskRead[vm]), "load") = run
  <2>1. Log!Duration(lines, vm) = run /\ HasThread(jobLog, vm, run)
    BY <1>1, <1>9, DurationIs DEF lines
  <2>2. Wrote(vm)
    BY <1>2, <2>1 DEF LogInv, TaskLogInv, TookPart, Log!Settled
  <2>3. taskLog[vm] \in Seq(Log!Line) /\ Len(taskLog[vm]) <= maxLogBytes
    BY DEF LogInv, Log!TypeOK, Log!Settled
  <2>4. taskRead[vm] = taskLog[vm]
    BY <1>1, <1>9, <2>3, Capped DEF LogInv, ReadInv, Log!Settled
  <2>5. Log!LastOf(Log!LastRunSegment(taskLog[vm]), "load") = taskLog[vm][Len(taskLog[vm])].run
    BY <2>2, <2>3, StagesAreLast DEF Wrote, LogInv, TaskLogInv
  <2> QED
    BY <2>1, <2>2, <2>4, <2>5 DEF Wrote
<1>10. /\ result'.runAt = run
       /\ result'.transport = {run}
       /\ result'.aggregate = run /\ result'.primary = run /\ result'.options = run
  BY <1>5, <1>6, <1>7, <1>8
<1>11. ASSUME NEW vm \in VMs, result'.duration[vm] # 0
       PROVE  result'.duration[vm] = run /\ result'.stages[vm] = run
  <2>1. /\ result'.duration[vm] = IF taskRead[vm] = Log!NotRead THEN 0 ELSE Log!Duration(lines, vm)
        /\ result'.stages[vm] = Log!LastOf(Log!LastRunSegment(taskRead[vm]), "load")
    BY <1>5
  <2>2. taskRead[vm] # Log!NotRead
    BY <1>11, <2>1
  <2>3. result'.duration[vm] = Log!Duration(lines, vm)
    BY <2>1, <2>2
  <2> QED
    BY <1>9, <1>11, <2>1, <2>2, <2>3
<1> QED
  BY <1>10, <1>11

------------------------------------------------------------------------------
(* HostResources: types.                                                   *)

USE DEF Res!Found, Res!NoRes, Res!Unseen

\* What the argument needs of TypeOK.
HostTypes ==
    /\ autoRes \in [Hosts -> Res!Found \cup {Res!Unseen}]
    /\ hostRes \in [Hosts -> Res!Found]
    /\ exported \in [Appliances -> Res!Found]
    /\ at \in [Builds -> {"idle", "row", "probe", "store"}]
    /\ manual \in [Builds -> [Hosts -> Res!Found]]
    /\ probed \in [Builds -> Res!Found]
    /\ rows \in [Builds -> Seq(Res!Found)]
    /\ \A b \in Builds : at[b] # "idle" => Len(rows[b]) < Len(ProxyHosts)
    /\ \A b \in Builds : Len(rows[b]) <= Len(ProxyHosts)
    /\ alone \in [Builds -> BOOLEAN]

LEMMA HostTypesImply == ASSUME HostTypes PROVE Res!TypeOK
<1>1. ASSUME NEW b \in Builds PROVE \A i \in DOMAIN rows[b] : rows[b][i] \in Res!Found
  <2>1. rows[b] \in Seq(Res!Found)
    BY DEF HostTypes
  <2> QED
    BY <2>1, ElementOfSeq, LenProperties
<1> QED
  BY <1>1, Zenon DEF HostTypes, Res!TypeOK

LEMMA HostInitTypes == ASSUME Res!ConstantsOK, Res!Init PROVE HostTypes
<1>1. Len(ProxyHosts) \in Nat
  BY DEF Res!ConstantsOK
<1>2. rows \in [Builds -> Seq(Res!Found)] /\ \A b \in Builds : Len(rows[b]) = 0
  BY DEF Res!Init
<1> QED
  BY <1>1, <1>2 DEF Res!Init, HostTypes

\* The host of the next row is a server.
LEMMA HostOfType ==
    ASSUME Res!ConstantsOK, HostTypes, NEW b \in Builds, at[b] # "idle"
    PROVE  /\ Res!HostOf(b) \in Hosts
           /\ Len(rows[b]) + 1 \in DOMAIN ProxyHosts
<1>1. Len(rows[b]) + 1 \in 1 .. Len(ProxyHosts)
  BY DEF HostTypes, Res!ConstantsOK
<1> QED
  BY <1>1 DEF Res!HostOf, Res!ConstantsOK

\* A row is added and nothing else of the build changes.
LEMMA AddRowTypes ==
    ASSUME Res!ConstantsOK, HostTypes, NEW b \in Builds, at[b] # "idle", NEW size \in Res!Found, Res!AddRow(b, size)
    PROVE  /\ at' \in [Builds -> {"idle", "row", "probe", "store"}]
           /\ rows' \in [Builds -> Seq(Res!Found)]
           /\ \A c \in Builds : at'[c] # "idle" => Len(rows'[c]) < Len(ProxyHosts)
           /\ \A c \in Builds : Len(rows'[c]) <= Len(ProxyHosts)
<1>1. rows[b] \in Seq(Res!Found) /\ rows'[b] = Append(rows[b], size)
  BY DEF HostTypes, Res!AddRow
<1>2. Len(rows'[b]) = Len(rows[b]) + 1 /\ rows'[b] \in Seq(Res!Found)
  BY <1>1
<1>3. rows' \in [Builds -> Seq(Res!Found)]
  BY <1>1, <1>2 DEF HostTypes, Res!AddRow
<1>4. at' \in [Builds -> {"idle", "row", "probe", "store"}]
  BY DEF HostTypes, Res!AddRow
<1>5. Len(rows'[b]) <= Len(ProxyHosts) /\ (at'[b] # "idle" => Len(rows'[b]) < Len(ProxyHosts))
  BY <1>1, <1>2 DEF HostTypes, Res!AddRow, Res!ConstantsOK
<1>6. ASSUME NEW c \in Builds, c # b
      PROVE  rows'[c] = rows[c] /\ at'[c] = at[c]
  BY <1>6 DEF HostTypes, Res!AddRow
<1> QED
  BY <1>3, <1>4, <1>5, <1>6 DEF HostTypes

LEMMA HostStepTypes == ASSUME Res!ConstantsOK, HostTypes, [Res!Next]_(Res!vars) PROVE HostTypes'
<1>1. ASSUME NEW h \in Appliances, NEW size \in Res!Found, Res!ExporterChanges(h, size)
      PROVE  HostTypes'
  BY <1>1 DEF HostTypes, Res!ExporterChanges, Res!res
<1>2. ASSUME NEW h \in Hosts, NEW size \in Res!Found, Res!SetHostRes(h, size)
      PROVE  HostTypes'
  BY <1>2 DEF HostTypes, Res!SetHostRes
<1>3. ASSUME NEW b \in Builds, Res!BeginSizing(b)
      PROVE  HostTypes'
  <2>1. Len(ProxyHosts) \in Nat /\ Len(ProxyHosts) > 0
    BY DEF Res!ConstantsOK
  <2>2. rows' \in [Builds -> Seq(Res!Found)] /\ rows'[b] = <<>>
    BY <1>3 DEF HostTypes, Res!BeginSizing
  <2>3. \A c \in Builds \ {b} : rows'[c] = rows[c] /\ at'[c] = at[c]
    BY <1>3 DEF HostTypes, Res!BeginSizing
  <2>4. Len(rows'[b]) = 0
    BY <2>2
  <2>5. alone' \in [Builds -> BOOLEAN] /\ manual' \in [Builds -> [Hosts -> Res!Found]]
    BY <1>3 DEF HostTypes, Res!BeginSizing
  <2> QED
    BY <1>3, <2>1, <2>2, <2>3, <2>4, <2>5 DEF HostTypes, Res!BeginSizing, Res!res
<1>4. ASSUME NEW b \in Builds, Res!KnownRow(b)
      PROVE  HostTypes'
  <2>1. at[b] # "idle" /\ manual[b][Res!HostOf(b)] \in Res!Found
    BY <1>4, HostOfType DEF Res!KnownRow, HostTypes
  <2> QED
    BY <1>4, <2>1, AddRowTypes DEF HostTypes, Res!KnownRow, Res!res
<1>5. ASSUME NEW b \in Builds, Res!CachedRow(b)
      PROVE  HostTypes'
  <2>1. at[b] # "idle" /\ autoRes[Res!HostOf(b)] \in Res!Found
    BY <1>5, HostOfType DEF Res!CachedRow, Res!AsksMetrics, Res!Seen, HostTypes
  <2> QED
    BY <1>5, <2>1, AddRowTypes DEF HostTypes, Res!CachedRow, Res!res
<1>6. ASSUME NEW b \in Builds, Res!LeaveCache(b)
      PROVE  HostTypes'
  BY <1>6 DEF HostTypes, Res!LeaveCache, Res!AsksMetrics, Res!res
<1>7. ASSUME NEW b \in Builds, NEW answer \in Res!Found, Res!Probe(b, answer)
      PROVE  HostTypes'
  BY <1>7 DEF HostTypes, Res!Probe, Res!res
<1>8. ASSUME NEW b \in Builds, Res!StoreProbe(b)
      PROVE  HostTypes'
  <2>1. at[b] # "idle" /\ probed[b] \in Res!Found
    BY <1>8 DEF Res!StoreProbe, HostTypes
  <2>2. autoRes' \in [Hosts -> Res!Found \cup {Res!Unseen}] /\ probed' \in [Builds -> Res!Found]
    BY <1>8, <2>1 DEF HostTypes, Res!StoreProbe
  <2>3. Res!AddRow(b, probed[b])
    BY <1>8 DEF Res!StoreProbe
  <2> QED
    BY <1>8, <2>1, <2>2, <2>3, AddRowTypes DEF HostTypes, Res!StoreProbe
<1>9. CASE UNCHANGED Res!vars
  BY <1>9 DEF HostTypes, Res!vars, Res!res
<1> QED
  BY <1>1, <1>2, <1>3, <1>4, <1>5, <1>6, <1>7, <1>8, <1>9 DEF Res!Next

------------------------------------------------------------------------------
(* HostResources: what a report that is made alone shows.                  *)

\* Where a row of a build comes from: the copy of the entries, or the cache.
FromCopy(b, h) == manual[b][h] # Res!NoRes \/ h \notin Appliances

RowsStand(b) ==
    \A i \in DOMAIN rows[b] :
        rows[b][i] = IF FromCopy(b, ProxyHosts[i]) THEN manual[b][ProxyHosts[i]] ELSE autoRes[ProxyHosts[i]]

\* While a build is alone no other probes or stores, its own probe is of a host
\* that was not seen, and its rows are what the copy and the cache say.
AloneHolds ==
    \A b \in Builds : alone[b] =>
        /\ \A c \in Builds \ {b} : at[c] = "idle"
        /\ at[b] \in {"probe", "store"} => ~ FromCopy(b, Res!HostOf(b)) /\ autoRes[Res!HostOf(b)] = Res!Unseen
        /\ RowsStand(b)

LEMMA AloneImplies == ASSUME Res!ConstantsOK, HostTypes, AloneHolds PROVE Res!OneHostOneSize
  BY DEF AloneHolds, RowsStand, Res!OneHostOneSize

LEMMA InitAlone == ASSUME Res!Init PROVE AloneHolds
  BY DEF Res!Init, AloneHolds

\* Adding the right row keeps the rows standing.
LEMMA AddRowStands ==
    ASSUME Res!ConstantsOK, HostTypes, NEW b \in Builds, at[b] # "idle", RowsStand(b), NEW size \in Res!Found,
           Res!AddRow(b, size), UNCHANGED <<manual, autoRes>>,
           size = IF FromCopy(b, Res!HostOf(b)) THEN manual[b][Res!HostOf(b)] ELSE autoRes[Res!HostOf(b)]
    PROVE  RowsStand(b)'
<1>1. rows[b] \in Seq(Res!Found) /\ rows'[b] = Append(rows[b], size)
  BY DEF HostTypes, Res!AddRow
<1>2. DOMAIN rows'[b] = DOMAIN rows[b] \cup {Len(rows[b]) + 1}
  BY <1>1
<1>3. \A i \in DOMAIN rows[b] : rows'[b][i] = rows[b][i]
  BY <1>1
<1>4. rows'[b][Len(rows[b]) + 1] = size
  BY <1>1
<1> QED
  BY <1>2, <1>3, <1>4 DEF RowsStand, FromCopy, Res!HostOf

\* Nothing that the claim about a build speaks of has changed.
LEMMA KeepsAlone ==
    ASSUME HostTypes, AloneHolds, UNCHANGED <<at, manual, rows, autoRes, alone>>
    PROVE  AloneHolds'
  BY DEF AloneHolds, RowsStand, FromCopy, Res!HostOf

\* The step of one build leaves the claims of the others in place: they do not
\* run alone.
LEMMA OthersAlone ==
    ASSUME HostTypes, AloneHolds, NEW b \in Builds, at[b] # "idle", alone' = alone,
           alone[b] =>
               /\ \A c \in Builds \ {b} : at'[c] = "idle"
               /\ at'[b] \in {"probe", "store"} =>
                      ~ FromCopy(b, Res!HostOf(b))' /\ autoRes'[Res!HostOf(b)'] = Res!Unseen
               /\ RowsStand(b)'
    PROVE  AloneHolds'
<1>1. \A c \in Builds \ {b} : ~ alone[c]
  BY DEF AloneHolds
<1> QED
  BY <1>1 DEF AloneHolds

LEMMA StepAlone == ASSUME Res!ConstantsOK, HostTypes, AloneHolds, [Res!Next]_(Res!vars) PROVE AloneHolds'
<1>1. ASSUME NEW h \in Appliances, NEW size \in Res!Found, Res!ExporterChanges(h, size)
      PROVE  AloneHolds'
  BY <1>1, KeepsAlone DEF Res!ExporterChanges, Res!res
<1>2. ASSUME NEW h \in Hosts, NEW size \in Res!Found, Res!SetHostRes(h, size)
      PROVE  AloneHolds'
  BY <1>2, KeepsAlone DEF Res!SetHostRes
<1>3. ASSUME NEW b \in Builds, Res!BeginSizing(b)
      PROVE  AloneHolds'
  <2>1. \A c \in Builds : alone'[c] => c = b /\ \A d \in Builds : at[d] = "idle"
    BY <1>3 DEF Res!BeginSizing, HostTypes
  <2>2. at'[b] = "row" /\ rows'[b] = <<>> /\ \A c \in Builds \ {b} : at'[c] = at[c]
    BY <1>3 DEF Res!BeginSizing, HostTypes
  <2>3. RowsStand(b)'
    BY <2>2 DEF RowsStand
  <2> QED
    BY <2>1, <2>2, <2>3 DEF AloneHolds
<1>4. ASSUME NEW b \in Builds, Res!KnownRow(b)
      PROVE  AloneHolds'
  <2>1. at[b] # "idle" /\ manual[b][Res!HostOf(b)] \in Res!Found
    BY <1>4, HostOfType DEF Res!KnownRow, HostTypes
  <2>2. Res!AddRow(b, manual[b][Res!HostOf(b)]) /\ FromCopy(b, Res!HostOf(b)) /\ UNCHANGED <<manual, autoRes, alone>>
    BY <1>4 DEF Res!KnownRow, FromCopy, Res!res
  <2>3. alone[b] => RowsStand(b)'
    BY <2>1, <2>2, AddRowStands DEF AloneHolds
  <2>4. alone[b] => at'[b] \in {"idle", "row"} /\ \A c \in Builds \ {b} : at'[c] = "idle"
    BY <2>2 DEF AloneHolds, Res!AddRow, HostTypes
  <2> QED
    BY <2>1, <2>2, <2>3, <2>4, OthersAlone
<1>5. ASSUME NEW b \in Builds, Res!CachedRow(b)
      PROVE  AloneHolds'
  <2>1. at[b] # "idle" /\ autoRes[Res!HostOf(b)] \in Res!Found
    BY <1>5, HostOfType DEF Res!CachedRow, Res!AsksMetrics, Res!Seen, HostTypes
  <2>2. Res!AddRow(b, autoRes[Res!HostOf(b)]) /\ ~ FromCopy(b, Res!HostOf(b)) /\ UNCHANGED <<manual, autoRes, alone>>
    BY <1>5 DEF Res!CachedRow, Res!AsksMetrics, FromCopy, Res!res
  <2>3. alone[b] => RowsStand(b)'
    BY <2>1, <2>2, AddRowStands DEF AloneHolds
  <2>4. alone[b] => at'[b] \in {"idle", "row"} /\ \A c \in Builds \ {b} : at'[c] = "idle"
    BY <2>2 DEF AloneHolds, Res!AddRow, HostTypes
  <2> QED
    BY <2>1, <2>2, <2>3, <2>4, OthersAlone
<1>6. ASSUME NEW b \in Builds, Res!LeaveCache(b)
      PROVE  AloneHolds'
  <2>1. /\ at[b] # "idle" /\ at'[b] = "probe" /\ \A c \in Builds \ {b} : at'[c] = at[c]
        /\ UNCHANGED <<manual, autoRes, rows, alone>>
    BY <1>6 DEF Res!LeaveCache, Res!AsksMetrics, HostTypes, Res!res
  <2>2. ~ FromCopy(b, Res!HostOf(b)) /\ autoRes[Res!HostOf(b)] = Res!Unseen
    BY <1>6 DEF Res!LeaveCache, Res!AsksMetrics, FromCopy, Res!Seen
  <2>3. ~ FromCopy(b, Res!HostOf(b))' /\ autoRes'[Res!HostOf(b)'] = Res!Unseen
    BY <2>1, <2>2 DEF FromCopy, Res!HostOf
  <2>4. RowsStand(b) => RowsStand(b)'
    BY <2>1 DEF RowsStand, FromCopy
  <2> QED
    BY <2>1, <2>3, <2>4, OthersAlone DEF AloneHolds
<1>7. ASSUME NEW b \in Builds, NEW answer \in Res!Found, Res!Probe(b, answer)
      PROVE  AloneHolds'
  <2>1. /\ at[b] = "probe" /\ at'[b] = "store" /\ \A c \in Builds \ {b} : at'[c] = at[c]
        /\ UNCHANGED <<manual, autoRes, rows, alone>>
    BY <1>7 DEF Res!Probe, HostTypes, Res!res
  <2>2. RowsStand(b) => RowsStand(b)'
    BY <2>1 DEF RowsStand, FromCopy
  <2>3. FromCopy(b, Res!HostOf(b))' = FromCopy(b, Res!HostOf(b)) /\ Res!HostOf(b)' = Res!HostOf(b)
    BY <2>1 DEF FromCopy, Res!HostOf
  <2> QED
    BY <2>1, <2>2, <2>3, OthersAlone DEF AloneHolds
<1>8. ASSUME NEW b \in Builds, Res!StoreProbe(b)
      PROVE  AloneHolds'
  <2>1. at[b] = "store" /\ probed[b] \in Res!Found /\ Res!HostOf(b) \in Hosts
    BY <1>8, HostOfType DEF Res!StoreProbe, HostTypes
  <2>2. /\ Res!AddRow(b, probed[b]) /\ UNCHANGED <<manual, alone>>
        /\ autoRes' = [autoRes EXCEPT ![Res!HostOf(b)] = probed[b]]
    BY <1>8 DEF Res!StoreProbe
  <2>3. ASSUME alone[b] PROVE RowsStand(b)'
    <3>1. ~ FromCopy(b, Res!HostOf(b)) /\ autoRes[Res!HostOf(b)] = Res!Unseen /\ RowsStand(b)
      BY <2>1, <2>3 DEF AloneHolds
    <3>2. rows[b] \in Seq(Res!Found) /\ rows'[b] = Append(rows[b], probed[b])
      BY <2>2 DEF HostTypes, Res!AddRow
    <3>3. /\ DOMAIN rows'[b] = DOMAIN rows[b] \cup {Len(rows[b]) + 1}
          /\ \A i \in DOMAIN rows[b] : rows'[b][i] = rows[b][i] /\ rows[b][i] \in Res!Found
          /\ rows'[b][Len(rows[b]) + 1] = probed[b]
      BY <3>2
    <3>4. ASSUME NEW i \in DOMAIN rows[b]
          PROVE  rows'[b][i] = IF FromCopy(b, ProxyHosts[i])' THEN manual'[b][ProxyHosts[i]] ELSE autoRes'[ProxyHosts[i]]
      <4>1. CASE FromCopy(b, ProxyHosts[i])
        BY <2>2, <3>1, <3>3, <4>1 DEF RowsStand, FromCopy
      <4>2. CASE ~ FromCopy(b, ProxyHosts[i])
        <5>1. rows[b][i] = autoRes[ProxyHosts[i]] /\ rows[b][i] # Res!Unseen
          BY <3>1, <3>3, <4>2 DEF RowsStand, Res!ConstantsOK
        <5>2. ProxyHosts[i] # Res!HostOf(b) /\ ProxyHosts[i] \in Hosts
          <6>1. i \in DOMAIN ProxyHosts
            BY <3>2 DEF HostTypes, Res!ConstantsOK
          <6> QED
            BY <3>1, <5>1, <6>1 DEF Res!ConstantsOK
        <5> QED
          BY <2>2, <3>3, <4>2, <5>1, <5>2 DEF FromCopy, HostTypes
      <4> QED
        BY <4>1, <4>2
    <3>5. LET i == Len(rows[b]) + 1
          IN  rows'[b][i] = IF manual'[b][ProxyHosts[i]] # Res!NoRes \/ ProxyHosts[i] \notin Appliances
                            THEN manual'[b][ProxyHosts[i]] ELSE autoRes'[ProxyHosts[i]]
      <4>1. autoRes'[Res!HostOf(b)] = probed[b]
        BY <2>1, <2>2 DEF HostTypes
      <4>2. manual'[b][Res!HostOf(b)] = Res!NoRes /\ Res!HostOf(b) \in Appliances
        BY <2>2, <3>1 DEF FromCopy
      <4> QED
        BY <3>3, <4>1, <4>2 DEF Res!HostOf
    <3> QED
      BY <3>3, <3>4, <3>5 DEF RowsStand, FromCopy
  <2>4. alone[b] => at'[b] \in {"idle", "row"} /\ \A c \in Builds \ {b} : at'[c] = "idle"
    BY <2>2 DEF AloneHolds, Res!AddRow, HostTypes
  <2> QED
    BY <2>1, <2>2, <2>3, <2>4, OthersAlone
<1>9. CASE UNCHANGED Res!vars
  BY <1>9, KeepsAlone DEF Res!vars, Res!res
<1> QED
  BY <1>1, <1>2, <1>3, <1>4, <1>5, <1>6, <1>7, <1>8, <1>9 DEF Res!Next

------------------------------------------------------------------------------
(* The theorems about the five analyses together: a behaviour of them is   *)
(* one of each of the modules.                                             *)

LEMMA JobBehaviour == Spec => Job!Spec
<1>1. Init => Job!Init
  BY DEF Init
<1>2. [Next]_vars => [Job!Next]_(Job!vars)
  BY DEF Next, AnalyseJob, AnalyseLogs, AnalyseEnvironment, SizeHosts, PlaceJobs, vars, jobVars, Job!vars
<1> QED
  BY <1>1, <1>2, PTL DEF Spec, Job!Spec

LEMMA LogBehaviour == Spec => Log!Spec
<1>1. Init => Log!Init
  BY DEF Init
<1>2. [Next]_vars => [Log!Next]_(Log!vars)
  BY DEF Next, AnalyseJob, AnalyseLogs, AnalyseEnvironment, SizeHosts, PlaceJobs, vars, logVars, Log!vars, Log!vbr, Log!deep
<1> QED
  BY <1>1, <1>2, PTL DEF Spec, Log!Spec

LEMMA EnvironmentBehaviour == Spec => Env!Spec
<1>1. Init => Env!Init
  BY DEF Init
<1>2. [Next]_vars => [Env!Next]_(Env!vars)
  BY DEF Next, AnalyseJob, AnalyseLogs, AnalyseEnvironment, SizeHosts, PlaceJobs, vars, envVars, Env!vars
<1> QED
  BY <1>1, <1>2, PTL DEF Spec, Env!Spec

LEMMA HostBehaviour == Spec => Res!Spec
<1>1. Init => Res!Init
  BY DEF Init
<1>2. [Next]_vars => [Res!Next]_(Res!vars)
  BY DEF Next, AnalyseJob, AnalyseLogs, AnalyseEnvironment, SizeHosts, PlaceJobs, vars, hostVars, Res!vars, Res!res
<1> QED
  BY <1>1, <1>2, PTL DEF Spec, Res!Spec

LEMMA AdviceBehaviour == Spec => Adv!Spec
<1>1. Init => Adv!Init
  BY DEF Init
<1>2. [Next]_vars => [Adv!Next]_(Adv!vars)
  BY DEF Next, AnalyseJob, AnalyseLogs, AnalyseEnvironment, SizeHosts, PlaceJobs, vars, adviceVars,
         Adv!vars, Adv!input
<1> QED
  BY <1>1, <1>2, PTL DEF Spec, Adv!Spec

\* The lists, counters and copies of the five analyses have their types: no sum of
\* capacity.go leaves the window, no cause is locked that is not known, no log names
\* a run that has not begun, and no report has more rows than there are proxies,
\* and every piece of advice is one that the page can show.
THEOREM TypeCorrect == Spec => []TypeOK
<1>1. Job!Spec => []Job!TypeOK
  BY JobConstants, Job!TypeCorrect
<1>2. Env!Spec => []Env!TypeOK
  BY EnvironmentConstants, Env!TypeCorrect
<1>3. Log!Spec => []Log!TypeOK
  <2>1. LogInv => Log!TypeOK
    BY DEF LogInv
  <2> QED
    BY <2>1, InitLog, NextLog, PTL DEF Log!Spec
<1>4. Res!Spec => []Res!TypeOK
  <2>1. Res!Init => HostTypes
    BY HostConstants, HostInitTypes
  <2>2. HostTypes /\ [Res!Next]_(Res!vars) => HostTypes'
    BY HostConstants, HostStepTypes
  <2>3. HostTypes => Res!TypeOK
    BY HostTypesImply
  <2> QED
    BY <2>1, <2>2, <2>3, PTL DEF Res!Spec
<1>5. Adv!Spec => []Adv!TypeOK
  BY AdviceConstants, Adv!TypeCorrect
<1> QED
  BY <1>1, <1>2, <1>3, <1>4, <1>5, JobBehaviour, LogBehaviour, EnvironmentBehaviour, HostBehaviour,
     AdviceBehaviour, PTL DEF TypeOK

\* verdict.go:144-149: whichever stages saturate together, and in whatever order,
\* the verdict of a job ends with what was measured at the busiest stage whose
\* ceiling was measured.
THEOREM MeasuredCauseStandsHolds == Spec => []MeasuredCauseStands
<1>1. Job!Spec => []Job!MeasuredCauseStands
  BY JobConstants, Job!MeasuredCauseStandsHolds
<1> QED
  BY <1>1, JobBehaviour, PTL DEF MeasuredCauseStands

\* verdict.go:278-285: a job that is measured not to use its disk is told so, and
\* nothing that the analysis tells it means more storage or a bigger host, but for
\* scaling out where a host of the job takes no more tasks.
THEOREM NoStorageForStarvedDiskHolds == Spec => []NoStorageForStarvedDisk
<1>1. Job!Spec => []Job!NoStorageForStarvedDisk
  BY JobConstants, Job!NoStorageForStarvedDiskHolds
<1> QED
  BY <1>1, JobBehaviour, PTL DEF NoStorageForStarvedDisk

\* parse.go:79-84 and 152-153: however the lines of the runs interleave in the files,
\* and whatever abandoned runs left there, all that is read from files that have
\* settled is of the newest run.
THEOREM OneRunHolds == Spec => OneRun
<1>1. LogInv => [Log!Settled /\ Log!ReadJob =>
                    /\ result'.runAt = run /\ result'.transport = {run}
                    /\ {result'.aggregate, result'.primary, result'.options} = {run}
                    /\ \A vm \in VMs : result'.duration[vm] # 0 =>
                           result'.duration[vm] = run /\ result'.stages[vm] = run]_(Log!vars)
  BY OneRunStep
<1>2. Log!Spec => []LogInv
  BY InitLog, NextLog, PTL DEF Log!Spec
<1> QED
  BY <1>1, <1>2, LogBehaviour, PTL DEF OneRun, Log!OneRun

\* reliability.go:135-137 and capacityplan.go:84-85: when the newest session of a job
\* failed the analysis says so, and says it first; and it says so of no other job,
\* unless one came back under another identifier.
THEOREM FailingNowFirstHolds == Spec => []FailingNowFirst
<1>1. Env!Spec => []Env!FailingNowFirst
  BY EnvironmentConstants, Env!FailingNowComesFirst
<1> QED
  BY <1>1, EnvironmentBehaviour, PTL DEF FailingNowFirst

\* assessment.go:212-213, 516-518 and 547-548: the hours of the environment analysis
\* account for the data of the window, and each is busy for as long as some run was
\* active in it.
THEOREM ActivityAccountedHolds == Spec => []ActivityAccounted
<1>1. Env!Spec => []Env!ActivityAccounted
  BY EnvironmentConstants, Env!ActivityAccountedHolds
<1> QED
  BY <1>1, EnvironmentBehaviour, PTL DEF ActivityAccounted

\* nodemetrics.go:80-82 and sizing.go:56: whoever enters or exports sizes, a report
\* that is made without another one in between shows one size of a host.
THEOREM OneHostOneSizeHolds == Spec => []OneHostOneSize
<1>1. Res!Init => HostTypes /\ AloneHolds
  BY HostConstants, HostInitTypes, InitAlone
<1>2. (HostTypes /\ AloneHolds) /\ [Res!Next]_(Res!vars) => (HostTypes /\ AloneHolds)'
  BY HostConstants, HostStepTypes, StepAlone
<1>3. HostTypes /\ AloneHolds => Res!OneHostOneSize
  BY HostConstants, AloneImplies
<1>4. Res!Spec => []Res!OneHostOneSize
  BY <1>1, <1>2, <1>3, PTL DEF Res!Spec
<1> QED
  BY <1>4, HostBehaviour, PTL DEF OneHostOneSize

\* recommend.go:203, "so several automatic jobs get spread": with the advice followed,
\* no automatic job would have fewer jobs per slot beside it on another proxy that is
\* not a bottleneck, for any proxies, slots and jobs.
THEOREM SpreadsAutomaticHolds == Spec => []SpreadsAutomatic
<1>1. Adv!Spec => []Adv!SpreadsAutomatic
  BY AdviceConstants, Adv!SpreadsAutomaticHolds
<1> QED
  BY <1>1, AdviceBehaviour, PTL DEF SpreadsAutomatic

\* recommend.go:32: whoever is pinned to a bottleneck is told to leave it if there is
\* a proxy that is none, and nobody is sent to one.
THEOREM BottlenecksAreLeftHolds == Spec => []BottlenecksAreLeft
<1>1. Adv!Spec => []Adv!BottlenecksAreLeft
  BY AdviceConstants, Adv!BottlenecksAreLeftHolds
<1> QED
  BY <1>1, AdviceBehaviour, PTL DEF BottlenecksAreLeft

\* recommend.go:233: when there is advice, each job has one row, unless it is
\* automatic and every proxy is a bottleneck.
THEOREM EveryJobAnsweredHolds == Spec => []EveryJobAnswered
<1>1. Adv!Spec => []Adv!EveryJobAnswered
  BY AdviceConstants, Adv!EveryJobAnsweredHolds
<1> QED
  BY <1>1, AdviceBehaviour, PTL DEF EveryJobAnswered
==============================================================================
