-------------------------- MODULE BenchManagerProofs --------------------------
(***************************************************************************)
(* Proofs about BenchManager, for any number of sessions, handlers, jobs   *)
(* and repositories and any speed.                                         *)
(***************************************************************************)
EXTENDS BenchManager, WellFoundedInduction, TLAPS

\* A job that was made is told apart from no job.
LEMMA MadeIsJob ==
    ASSUME NEW j, job[j] \in Job \cup {NoJob}
    PROVE  (job[j] # NoJob) <=> (job[j].session \in Sessions)
BY NothingAssumption DEF Job, NoJob

\* Every operation runs two or four tests.
LEMMA TestCounts ==
    ASSUME NEW o PROVE Len(testsForOperation(o)) \in {2, 4}
<1>1. DOMAIN operationTests = {"backup", "restore", "both"}
  BY DEF operationTests
<1>2. /\ Len(operationTests["backup"]) = 2
      /\ Len(operationTests["restore"]) = 2
      /\ Len(operationTests["both"]) = 4
  BY DEF operationTests
<1> QED
  BY <1>1, <1>2 DEF testsForOperation

\* The percentages of a job that goes through its tests.
LEMMA Percentages ==
    ASSUME NEW total \in {2, 4}, NEW n \in Nat, n < total
    PROVE  /\ Percent(0, total) = 0
           /\ Percent(n + 1, total) \in 0 .. 100
           /\ Percent(n, total) <= Percent(n + 1, total)
           /\ Percent(n, total) <= 100
BY DEF Percent

LEMMA BackupIsOperation == "backup" \in Operations
BY DEF Operations, operationTests

LEMMA InitTypeOK == Init => TypeOK
<1> SUFFICES ASSUME Init PROVE TypeOK
  OBVIOUS
<1>1. rows \in [Jobs -> Results]
  BY DEF Init, Results
<1>2. /\ job \in [Jobs -> Job \cup {NoJob}]
      /\ table \subseteq Made
  BY DEF Init
<1> QED
  BY <1>1, <1>2, BackupIsOperation DEF Init, TypeOK

LEMMA NextTypeOK == TypeOK /\ [Next]_vars => TypeOK'
<1> SUFFICES ASSUME TypeOK, [Next]_vars PROVE TypeOK'
  OBVIOUS
<1> USE NothingAssumption, BackupIsOperation DEF TypeOK, Working, manager, request
<1>1. ASSUME NEW s \in Sessions, NewSession(s)
      PROVE TypeOK'
  BY <1>1 DEF NewSession, Made
<1>2. ASSUME NEW h \in Handlers, NEW s \in Sessions, Connect(h, s)
      PROVE TypeOK'
  BY <1>2 DEF Connect, Resolve, Known, Made
<1>3. ASSUME NEW h \in Handlers, NEW s \in Sessions, Measure(h, s)
      PROVE TypeOK'
  BY <1>3 DEF Measure, Resolve, Known, Made
<1>4. ASSUME NEW h \in Handlers, NEW s \in Sessions, NEW r \in Repos,
             NEW o \in Operations, StartBenchmark(h, s, r, o)
      PROVE TypeOK'
  BY <1>4 DEF StartBenchmark, Resolve, Known, Made
<1>5. ASSUME NEW h \in Handlers, NEW s \in Sessions, Delete(h, s)
      PROVE TypeOK'
  BY <1>5 DEF Delete, Made
<1>6. ASSUME NEW h \in Handlers, Connected(h)
      PROVE TypeOK'
  BY <1>6 DEF Connected, Answer, Made
<1>7. ASSUME NEW h \in Handlers, Measured(h)
      PROVE TypeOK'
  BY <1>7 DEF Measured, Answer, Made
<1>8. ASSUME NEW h \in Handlers, Refuse(h)
      PROVE TypeOK'
  BY <1>8 DEF Refuse, Answer, Made
<1>9. ASSUME NEW h \in Handlers, HasConn(h)
      PROVE TypeOK'
  BY <1>9 DEF HasConn, Made
<1>10. ASSUME NEW h \in Handlers, NoConn(h)
       PROVE TypeOK'
  BY <1>10 DEF NoConn, Answer, Made
<1>11. ASSUME NEW h \in Handlers, NEW j \in Jobs, Create(h, j)
       PROVE TypeOK'
  <2>1. sess[h] \in Sessions /\ target[h] \in Repos
    BY <1>11 DEF Create
  <2>0. <<>> \in Results
    BY DEF Results
  <2>2. job'[j] \in Job
    <3>1. job'[j] = [session |-> sess[h], repo |-> target[h], op |-> op[h],
                     status |-> "queued", progress |-> 0, disk |-> <<>>]
      BY <1>11 DEF Create, NoJob
    <3> QED
      BY <2>0, <2>1, <3>1 DEF Job, Statuses
  <2>3. job' \in [Jobs -> Job \cup {NoJob}]
    BY <1>11, <2>2 DEF Create
  <2>4. job'[j] # NoJob
    BY <2>2 DEF Job, NoJob
  <2>5. table' \subseteq Made'
    BY <1>11, <2>4 DEF Create, Made
  <2> QED
    BY <1>11, <2>1, <2>3, <2>5 DEF Create, Answer
<1>12. ASSUME NEW h \in Handlers, ClearSession(h)
       PROVE TypeOK'
  BY <1>12 DEF ClearSession, Answer, Made, JobsOf
<1>13. ASSUME NEW j \in Jobs, Run(j)
       PROVE TypeOK'
  <2>0. job[j] \in Job /\ job'[j] = [job[j] EXCEPT !.status = "running"]
    BY <1>13 DEF Run, Made
  <2>3. job'[j] \in Job
    BY <2>0 DEF Job, Statuses
  <2>1. job[j] \in Job /\ job'[j] \in Job /\ job'[j] # NoJob
    BY <2>0, <2>3 DEF Job, NoJob
  <2> QED
    BY <1>13, <2>1 DEF Run, Made
<1>14. ASSUME NEW j \in Jobs, NEW speed \in Row, TestDone(j, speed)
       PROVE TypeOK'
  <2>1. job[j] \in Job
    BY <1>14 DEF TestDone, Runnable, NoJob
  <2>2. Tests(j) \in {2, 4}
    BY TestCounts DEF Tests
  <2>3. rows[j] \in Seq(Row) /\ Len(rows[j]) \in Nat /\ Len(rows[j]) < Tests(j)
    BY <1>14 DEF TestDone, Results
  <2>6. Percent(Len(rows[j]) + 1, Tests(j)) \in 0 .. 100
    BY <2>2, <2>3, Percentages
  <2>4. rows'[j] \in Results
    BY <1>14, <2>2, <2>3 DEF TestDone, Results
  <2>5. job'[j] \in Job /\ job'[j] # NoJob
    BY <1>14, <2>1, <2>6 DEF TestDone, Job, NoJob
  <2> QED
    BY <1>14, <2>4, <2>5 DEF TestDone, Made
<1>15. ASSUME NEW j \in Jobs, RunFails(j)
       PROVE TypeOK'
  <2>0. job[j] \in Job /\ job'[j] = [job[j] EXCEPT !.status = "failed"]
    BY <1>15 DEF RunFails, Runnable, FailedStatus, NoJob
  <2>3. job'[j] \in Job
    BY <2>0 DEF Job, Statuses
  <2>1. job'[j] \in Job /\ job'[j] # NoJob
    BY <2>3 DEF Job, NoJob
  <2>2. <<>> \in Results
    BY DEF Results
  <2> QED
    BY <1>15, <2>1, <2>2 DEF RunFails, Made
<1>16. ASSUME NEW j \in Jobs, Complete(j)
       PROVE TypeOK'
  <2>1. job'[j] \in Job /\ job'[j] # NoJob
    BY <1>16 DEF Complete, Runnable, Job, NoJob, Statuses
  <2>2. <<>> \in Results
    BY DEF Results
  <2> QED
    BY <1>16, <2>1, <2>2 DEF Complete, Made
<1>17. ASSUME NEW j \in Jobs, AskSession(j)
       PROVE TypeOK'
  BY <1>17 DEF AskSession, Made
<1>18. ASSUME NEW j \in Jobs, JobJSON(j)
       PROVE TypeOK'
  BY <1>18 DEF JobJSON, Made
<1>19. CASE UNCHANGED vars
  BY <1>19 DEF vars, Made
<1> QED
  BY <1>1, <1>2, <1>3, <1>4, <1>5, <1>6, <1>7, <1>8, <1>9, <1>10, <1>11, <1>12,
     <1>13, <1>14, <1>15, <1>16, <1>17, <1>18, <1>19
     DEF Next, HandlerStep, GoroutineStep, PageStep

\* Every reachable state is well typed; in particular the manager never holds
\* anything under a session id that was not handed out.
THEOREM TypeCorrect == Safety => []TypeOK
<1> QED
  BY InitTypeOK, NextTypeOK, PTL DEF Safety

------------------------------------------------------------------------------
\* The goroutines.  Only the four steps of a goroutine and Create touch a job.

JobInv == GoroutineInv /\ ResultsAreComplete

\* JobInv speaks of each job alone: of the Job b and the rows r of one.
Sound(b, r) ==
    /\ b.status = "running" =>
          /\ b.progress = Percent(Len(r), Len(testsForOperation(b.op)))
          /\ Len(r) <= Len(testsForOperation(b.op))
          /\ b.disk = <<>>
    /\ b.status = "queued" => b.progress = 0 /\ b.disk = <<>>
    /\ b.status = "failed" => b.disk = <<>>
    /\ b.status = "completed" =>
          Len(b.disk) = Len(testsForOperation(b.op)) /\ b.progress = 100
    /\ b.status # "running" => r = <<>>

LEMMA SoundJobs ==
    TypeOK => (JobInv <=> \A j \in Jobs : Sound(job[j], rows[j]))
<1> SUFFICES ASSUME TypeOK
             PROVE  JobInv <=> \A j \in Jobs : Sound(job[j], rows[j])
  OBVIOUS
<1>1. \A j \in Jobs :
         /\ job[j].status \in Statuses
         /\ job[j] = NoJob => job[j].status = "queued" /\ job[j].disk = <<>>
  BY DEF TypeOK, Job, NoJob, Statuses
<1> QED
  BY <1>1 DEF JobInv, GoroutineInv, ResultsAreComplete, Made, Sound, Tests, Statuses

LEMMA InitJobInv == Init => JobInv
<1> SUFFICES ASSUME Init PROVE JobInv
  OBVIOUS
<1>1. \A j \in Jobs : Sound(job[j], rows[j])
  BY DEF Init, NoJob, Sound
<1> QED
  BY <1>1, SoundJobs, InitTypeOK

LEMMA NextJobInv == TypeOK /\ TypeOK' /\ JobInv /\ [Next]_vars => JobInv'
<1>s. (TypeOK => (JobInv <=> \A j \in Jobs : Sound(job[j], rows[j])))'
  BY SoundJobs, PTL
<1> SUFFICES ASSUME TypeOK, TypeOK', JobInv, [Next]_vars
             PROVE  \A k \in Jobs : Sound(job'[k], rows'[k])
  BY <1>s
<1>0. \A k \in Jobs : Sound(job[k], rows[k])
  BY SoundJobs
<1> SUFFICES ASSUME NEW k \in Jobs
             PROVE  Sound(job'[k], rows'[k])
  OBVIOUS
<1>1. ASSUME job'[k] = job[k], rows'[k] = rows[k]
      PROVE Sound(job'[k], rows'[k])
  BY <1>0, <1>1
<1>2. ASSUME NEW h \in Handlers, NEW j \in Jobs, Create(h, j)
      PROVE Sound(job'[k], rows'[k])
  <2>1. CASE j # k
    BY <1>1, <1>2, <2>1 DEF Create, TypeOK
  <2>2. CASE j = k
    <3>1. job'[k].status = "queued" /\ job'[k].progress = 0 /\ job'[k].disk = <<>>
      BY <1>2, <2>2 DEF Create, NoJob, TypeOK
    <3>2. rows'[k] = <<>>
      BY <1>0, <1>2, <2>2 DEF Create, NoJob, Sound
    <3> QED
      BY <3>1, <3>2 DEF Sound
  <2> QED
    BY <2>1, <2>2
<1>3. ASSUME NEW j \in Jobs, Run(j)
      PROVE Sound(job'[k], rows'[k])
  <2>1. CASE j # k
    BY <1>1, <1>3, <2>1 DEF Run, TypeOK
  <2>2. CASE j = k
    <3>1. job[k] \in Job /\ job'[k] = [job[k] EXCEPT !.status = "running"]
      BY <1>3, <2>2 DEF Run, Made, TypeOK
    <3>2. /\ job'[k].status = "running" /\ job'[k].progress = 0 /\ job'[k].disk = <<>>
          /\ rows'[k] = <<>>
      BY <1>0, <1>3, <2>2, <3>1 DEF Run, Job, Sound
    <3>3. /\ Len(testsForOperation(job'[k].op)) \in {2, 4}
          /\ Percent(0, Len(testsForOperation(job'[k].op))) = 0
      <4>1. Len(testsForOperation(job'[k].op)) \in {2, 4}
        BY TestCounts
      <4>2. \A total \in {2, 4} : Percent(0, total) = 0
        BY Percentages
      <4> QED
        BY <4>1, <4>2
    <3> QED
      BY <3>2, <3>3 DEF Sound
  <2> QED
    BY <2>1, <2>2
<1>4. ASSUME NEW j \in Jobs, NEW speed \in Row, TestDone(j, speed)
      PROVE Sound(job'[k], rows'[k])
  <2>1. CASE j # k
    BY <1>1, <1>4, <2>1 DEF TestDone, TypeOK
  <2>2. CASE j = k
    <3> DEFINE total == Len(testsForOperation(job[k].op))
    <3>1. /\ job[k] \in Job /\ rows[k] \in Seq(Row)
          /\ job'[k] = [job[k] EXCEPT !.progress = Percent(Len(rows[k]) + 1, total)]
          /\ rows'[k] = Append(rows[k], speed)
          /\ job[k].status = "running" /\ Len(rows[k]) < total
      BY <1>4, <2>2 DEF TestDone, Runnable, TypeOK, NoJob, Results, Tests
    <3>3. total \in {2, 4}
      BY TestCounts
    <3>4. job'[k].op = job[k].op
      BY <3>1 DEF Job
    <3> HIDE DEF total
    <3>2. /\ job'[k].status = "running" /\ job'[k].disk = <<>>
          /\ job'[k].progress = Percent(Len(rows'[k]), total)
          /\ Len(rows'[k]) <= total
      BY <1>0, <3>1, <3>3 DEF Job, Sound
    <3> QED
      BY <3>2, <3>4 DEF Sound, total
  <2> QED
    BY <2>1, <2>2
<1>5. ASSUME NEW j \in Jobs, RunFails(j)
      PROVE Sound(job'[k], rows'[k])
  <2>1. CASE j # k
    BY <1>1, <1>5, <2>1 DEF RunFails, TypeOK
  <2>2. CASE j = k
    <3>1. /\ job[k] \in Job /\ job[k].status = "running"
          /\ job'[k] = [job[k] EXCEPT !.status = "failed"]
          /\ rows'[k] = <<>>
      BY <1>5, <2>2 DEF RunFails, Runnable, FailedStatus, TypeOK, NoJob
    <3>2. job'[k].status = "failed" /\ job'[k].disk = <<>>
      BY <1>0, <3>1 DEF Job, Sound
    <3> QED
      BY <3>1, <3>2 DEF Sound
  <2> QED
    BY <2>1, <2>2
<1>6. ASSUME NEW j \in Jobs, Complete(j)
      PROVE Sound(job'[k], rows'[k])
  <2>1. CASE j # k
    BY <1>1, <1>6, <2>1 DEF Complete, TypeOK
  <2>2. CASE j = k
    <3>1. /\ job[k] \in Job /\ job[k].status = "running"
          /\ Len(rows[k]) = Len(testsForOperation(job[k].op))
          /\ job'[k] = [job[k] EXCEPT !.disk = rows[k], !.progress = 100, !.status = "completed"]
          /\ rows'[k] = <<>>
      BY <1>6, <2>2 DEF Complete, Runnable, TypeOK, NoJob, Tests
    <3>2. /\ job'[k].status = "completed" /\ job'[k].progress = 100
          /\ job'[k].disk = rows[k] /\ job'[k].op = job[k].op
      BY <3>1 DEF Job
    <3> QED
      BY <3>1, <3>2 DEF Sound
  <2> QED
    BY <2>1, <2>2
<1>7. CASE UNCHANGED vars
  BY <1>1, <1>7 DEF vars
<1> QED
  BY <1>1, <1>2, <1>3, <1>4, <1>5, <1>6, <1>7
     DEF Next, HandlerStep, GoroutineStep, PageStep, NewSession, Connect, Measure,
         StartBenchmark, Resolve, Delete, Connected, Measured, Refuse, HasConn, NoConn,
         ClearSession, AskSession, JobJSON

\* A job has results exactly when it has completed, and then all of them: the
\* rows, the progress and the status are set in one critical section.
THEOREM ResultsAreCompleteHolds == Safety => []ResultsAreComplete
<1>1. JobInv => ResultsAreComplete
  BY DEF JobInv
<1> QED
  BY <1>1, InitTypeOK, NextTypeOK, InitJobInv, NextJobInv, PTL DEF Safety

\* One step of a job that obeys the invariant.
LEMMA JobStep ==
    TypeOK /\ JobInv /\ [Next]_vars =>
        \A j \in Made :
            /\ job'[j].status = "queued" => job[j].status = "queued"
            /\ job'[j].progress >= job[j].progress
            /\ job[j].status \in Ended => job'[j] = job[j]
<1> DEFINE Forward(k) ==
        /\ job'[k].status = "queued" => job[k].status = "queued"
        /\ job'[k].progress >= job[k].progress
        /\ job[k].status \in Ended => job'[k] = job[k]
<1> SUFFICES ASSUME TypeOK, JobInv, [Next]_vars, NEW k \in Made
             PROVE  Forward(k)
  OBVIOUS
<1> USE DEF Made, Ended
<1>0. k \in Jobs /\ job[k] \in Job /\ job[k].progress \in Nat
  BY DEF TypeOK, Job
<1>1. ASSUME job'[k] = job[k]
      PROVE Forward(k)
  BY <1>0, <1>1
<1>2. ASSUME NEW h \in Handlers, NEW j \in Jobs, Create(h, j)
      PROVE job'[k] = job[k]
  BY <1>0, <1>2 DEF Create
<1>3. ASSUME NEW j \in Jobs, Run(j)
      PROVE Forward(k)
  <2>1. job'[k] = job[k] \/ (j = k /\ job'[k] = [job[k] EXCEPT !.status = "running"])
    BY <1>0, <1>3 DEF Run, TypeOK
  <2> QED
    BY <1>0, <1>1, <1>3, <2>1 DEF Run, Job
<1>4. ASSUME NEW j \in Jobs, NEW speed \in Row, TestDone(j, speed)
      PROVE Forward(k)
  <2>1. \/ job'[k] = job[k]
        \/ j = k /\ job'[k] = [job[k] EXCEPT !.progress = Percent(Len(rows[k]) + 1, Tests(k))]
    BY <1>0, <1>4 DEF TestDone, TypeOK
  <2>2. CASE j = k /\ job'[k] = [job[k] EXCEPT !.progress = Percent(Len(rows[k]) + 1, Tests(k))]
    <3>1. /\ job[k].status = "running" /\ job[k].progress = Percent(Len(rows[k]), Tests(k))
          /\ Len(rows[k]) < Tests(k)
      BY <1>0, <1>4, <2>2 DEF TestDone, Runnable, JobInv, GoroutineInv
    <3>2. Len(rows[k]) \in Nat
      BY <1>0 DEF TypeOK, Results
    <3>3. Tests(k) \in {2, 4}
      BY TestCounts DEF Tests
    <3>4. /\ Percent(Len(rows[k]), Tests(k)) <= Percent(Len(rows[k]) + 1, Tests(k))
          /\ Percent(Len(rows[k]) + 1, Tests(k)) \in 0 .. 100
      BY <3>1, <3>2, <3>3, Percentages
    <3>5. /\ job'[k].progress = Percent(Len(rows[k]) + 1, Tests(k))
          /\ job'[k].status = "running"
      BY <1>0, <2>2, <3>1 DEF Job
    <3> QED
      BY <1>0, <3>1, <3>4, <3>5
  <2> QED
    BY <1>1, <2>1, <2>2
<1>5. ASSUME NEW j \in Jobs, RunFails(j)
      PROVE Forward(k)
  <2>1. job'[k] = job[k] \/ (j = k /\ job'[k] = [job[k] EXCEPT !.status = "failed"])
    BY <1>0, <1>5 DEF RunFails, FailedStatus, TypeOK
  <2> QED
    BY <1>0, <1>1, <1>5, <2>1 DEF RunFails, Runnable, Job
<1>6. ASSUME NEW j \in Jobs, Complete(j)
      PROVE Forward(k)
  <2>1. CASE j # k
    BY <1>0, <1>1, <1>6, <2>1 DEF Complete, TypeOK
  <2>2. CASE j = k
    <3>1. /\ job[k] \in Job /\ job[k].status = "running"
          /\ job'[k] = [job[k] EXCEPT !.disk = rows[k], !.progress = 100, !.status = "completed"]
      BY <1>0, <1>6, <2>2 DEF Complete, Runnable, TypeOK
    <3>2. job'[k].status = "completed" /\ job'[k].progress = 100 /\ job[k].progress \in 0 .. 100
      BY <3>1 DEF Job
    <3> QED
      BY <1>0, <3>1, <3>2
  <2> QED
    BY <2>1, <2>2
<1>7. CASE UNCHANGED vars
  BY <1>1, <1>7 DEF vars
<1> QED
  BY <1>1, <1>2, <1>3, <1>4, <1>5, <1>6, <1>7
     DEF Next, HandlerStep, GoroutineStep, PageStep, NewSession, Connect, Measure,
         StartBenchmark, Resolve, Delete, Connected, Measured, Refuse, HasConn, NoConn,
         ClearSession, AskSession, JobJSON

\* A job runs forward only, and what has ended stays as it is.
THEOREM JobsRunForwardHolds == Safety => JobsRunForward
<1> QED
  BY JobStep, InitTypeOK, NextTypeOK, InitJobInv, NextJobInv, PTL DEF Safety, JobsRunForward

------------------------------------------------------------------------------
\* The disconnects.

LEMMA InitDisconnectInv == Init => DisconnectInv
BY DEF Init, DisconnectInv

\* What the manager holds of session s, and who works for it.
Held(s) == s \in conns \cup iperfs \/ JobsOf(s) # {}
Awaited(s) == \E h \in Handlers : pc[h] = "deleted" /\ sess[h] = s
Served(s) == \E h \in Handlers : pc[h] \in Working /\ sess[h] = s

LEMMA NextDisconnectInv == TypeOK /\ DisconnectInv /\ [Next]_vars => DisconnectInv'
<1> SUFFICES ASSUME TypeOK, [Next]_vars, DisconnectInv,
                    NEW s \in opened' \ (store' \cup overlapped')
             PROVE  Awaited(s)' \/ (~ Held(s)' /\ ~ Served(s)')
  BY DEF DisconnectInv, Awaited, Held, Served
<1>0. ASSUME s \in opened \ (store \cup overlapped)
      PROVE  Awaited(s) \/ (~ Held(s) /\ ~ Served(s))
  BY <1>0 DEF DisconnectInv, Awaited, Held, Served
<1> USE NothingAssumption DEF TypeOK, Working, manager, request, Held, Awaited, Served, JobsOf
<1>1. ASSUME NEW n \in Sessions, NewSession(n)
      PROVE Awaited(s)' \/ (~ Held(s)' /\ ~ Served(s)')
  BY <1>0, <1>1 DEF NewSession
<1>2. ASSUME NEW h \in Handlers, NEW n \in Sessions, NEW where \in Working,
             Resolve(h, n, where)
      PROVE Awaited(s)' \/ (~ Held(s)' /\ ~ Served(s)')
  BY <1>0, <1>2 DEF Resolve, Known
<1>3. ASSUME NEW h \in Handlers, NEW n \in Sessions, Delete(h, n)
      PROVE Awaited(s)' \/ (~ Held(s)' /\ ~ Served(s)')
  <2>1. CASE s = n
    BY <1>3, <2>1 DEF Delete
  <2>2. CASE s # n
    BY <1>0, <1>3, <2>2 DEF Delete
  <2> QED
    BY <2>1, <2>2
<1>4. ASSUME NEW h \in Handlers, pc[h] \in Working, Answer(h),
             UNCHANGED <<store, opened, overlapped>>,
             conns' \in {conns, conns \cup {sess[h]}},
             iperfs' \in {iperfs, iperfs \cup {sess[h]}},
             \A j \in table' : (j \in table /\ job'[j] = job[j]) \/ job'[j].session = sess[h]
      PROVE Awaited(s)' \/ (~ Held(s)' /\ ~ Served(s)')
  BY <1>0, <1>4 DEF Answer
<1>5. ASSUME NEW h \in Handlers, Connected(h) \/ Measured(h) \/ Refuse(h) \/ NoConn(h)
      PROVE Awaited(s)' \/ (~ Held(s)' /\ ~ Served(s)')
  BY <1>4, <1>5 DEF Connected, Measured, Refuse, NoConn
<1>6. ASSUME NEW h \in Handlers, HasConn(h)
      PROVE Awaited(s)' \/ (~ Held(s)' /\ ~ Served(s)')
  BY <1>0, <1>6 DEF HasConn
<1>7. ASSUME NEW h \in Handlers, NEW j \in Jobs, Create(h, j)
      PROVE Awaited(s)' \/ (~ Held(s)' /\ ~ Served(s)')
  <2>1. job'[j].session = sess[h]
    BY <1>7 DEF Create, NoJob
  <2>2. \A i \in table' : (i \in table /\ job'[i] = job[i]) \/ job'[i].session = sess[h]
    BY <1>7, <2>1 DEF Create, Made
  <2> QED
    BY <1>4, <1>7, <2>2 DEF Create
<1>8. ASSUME NEW h \in Handlers, ClearSession(h)
      PROVE Awaited(s)' \/ (~ Held(s)' /\ ~ Served(s)')
  <2>1. CASE s = sess[h]
    BY <1>8, <2>1 DEF ClearSession, Answer
  <2>2. CASE s # sess[h]
    BY <1>0, <1>8, <2>2 DEF ClearSession, Answer
  <2> QED
    BY <2>1, <2>2
<1>9. ASSUME UNCHANGED <<store, manager, pc, sess, opened, overlapped>>,
             \A j \in table : job'[j].session = job[j].session
      PROVE Awaited(s)' \/ (~ Held(s)' /\ ~ Served(s)')
  BY <1>0, <1>9
<1>10. ASSUME NEW j \in Jobs, GoroutineStep(j) \/ PageStep(j)
       PROVE Awaited(s)' \/ (~ Held(s)' /\ ~ Served(s)')
  <2>1. \A i \in Jobs : job[i] \in Job \/ job[i] = NoJob
    OBVIOUS
  <2>2. \A i \in table : job'[i].session = job[i].session
    <3>1. CASE Run(j)
      BY <2>1, <3>1 DEF Run, Made, Job, NoJob
    <3>2. CASE \E speed \in Row : TestDone(j, speed)
      BY <2>1, <3>2 DEF TestDone, Made, Job, NoJob
    <3>3. CASE RunFails(j)
      BY <2>1, <3>3 DEF RunFails, Made, Job, NoJob
    <3>4. CASE Complete(j)
      BY <2>1, <3>4 DEF Complete, Made, Job, NoJob
    <3>5. CASE PageStep(j)
      BY <3>5 DEF PageStep, AskSession, JobJSON
    <3> QED
      BY <1>10, <3>1, <3>2, <3>3, <3>4, <3>5 DEF GoroutineStep
  <2>3. UNCHANGED <<store, manager, pc, sess, opened, overlapped>>
    BY <1>10 DEF GoroutineStep, Run, TestDone, RunFails, Complete, PageStep, AskSession, JobJSON
  <2> QED
    BY <1>9, <2>2, <2>3
<1>11. CASE UNCHANGED vars
  BY <1>9, <1>11 DEF vars
<1> QED
  BY <1>1, <1>2, <1>3, <1>5, <1>6, <1>7, <1>8, <1>10, <1>11
     DEF Next, HandlerStep, Connect, Measure, StartBenchmark

\* What the manager still holds of a session that is gone is about to be
\* cleared, or was written by a request that was under way when it was.
THEOREM LeftoversWereInFlightHolds == Safety => []LeftoversWereInFlight
<1>1. DisconnectInv => LeftoversWereInFlight
  BY DEF DisconnectInv, LeftoversWereInFlight
<1> QED
  BY <1>1, InitTypeOK, NextTypeOK, InitDisconnectInv, NextDisconnectInv, PTL DEF Safety

------------------------------------------------------------------------------
\* The sessions whose disconnect has come as far as ClearSession are gone.
DeletedInv == \A h \in Handlers : pc[h] = "deleted" => sess[h] \notin store

LEMMA NextDeletedInv == TypeOK /\ DeletedInv /\ [Next]_vars => DeletedInv'
<1> SUFFICES ASSUME TypeOK, DeletedInv, [Next]_vars PROVE DeletedInv'
  OBVIOUS
<1> USE NothingAssumption DEF TypeOK, DeletedInv, Working, manager, request
<1>1. ASSUME NEW s \in Sessions, NewSession(s)
      PROVE DeletedInv'
  BY <1>1 DEF NewSession
<1>2. ASSUME NEW h \in Handlers, NEW s \in Sessions, NEW where \in Working,
             Resolve(h, s, where)
      PROVE DeletedInv'
  BY <1>2 DEF Resolve
<1>3. ASSUME NEW h \in Handlers, NEW s \in Sessions, Delete(h, s)
      PROVE DeletedInv'
  BY <1>3 DEF Delete
<1>4. ASSUME NEW h \in Handlers, HandlerStep(h)
      PROVE DeletedInv'
  BY <1>4 DEF HandlerStep, Connected, Measured, Refuse, HasConn, NoConn, Create,
              ClearSession, Answer
<1>5. ASSUME NEW j \in Jobs, GoroutineStep(j) \/ PageStep(j)
      PROVE DeletedInv'
  BY <1>5 DEF GoroutineStep, Run, TestDone, RunFails, Complete, PageStep, AskSession, JobJSON
<1>6. CASE UNCHANGED vars
  BY <1>6 DEF vars
<1> QED
  BY <1>1, <1>2, <1>3, <1>4, <1>5, <1>6 DEF Next, Connect, Measure, StartBenchmark

LEMMA DiscardStep ==
    TypeOK /\ DeletedInv /\ [Next]_vars =>
        \A j \in table : j \notin table' => job[j].session \notin store
<1> SUFFICES ASSUME TypeOK, DeletedInv, [Next]_vars, NEW j \in table, j \notin table'
             PROVE  job[j].session \notin store
  OBVIOUS
<1>1. PICK h \in Handlers : ClearSession(h)
  BY DEF Next, HandlerStep, GoroutineStep, PageStep, NewSession, Connect, Measure,
         StartBenchmark, Resolve, Delete, Connected, Measured, Refuse, HasConn, NoConn,
         Create, Run, TestDone, RunFails, Complete, AskSession, JobJSON, vars, manager
<1> QED
  BY <1>1 DEF ClearSession, JobsOf, DeletedInv

\* A job is discarded by a disconnect of its own session, and by nothing else.
THEOREM OnlyDisconnectDiscardsHolds == Safety => OnlyDisconnectDiscards
<1>1. Init => DeletedInv
  BY DEF Init, DeletedInv
<1> QED
  BY <1>1, DiscardStep, InitTypeOK, NextTypeOK, NextDeletedInv, PTL
     DEF Safety, OnlyDisconnectDiscards

------------------------------------------------------------------------------
\* The ceilings.  A set of speeds has a highest one: there is no infinite way
\* up below MaxSpeed.
LEMMA HighestSpeed ==
    ASSUME NEW speeds \in SUBSET Row, speeds # {}
    PROVE  \E v \in speeds : \A w \in speeds : w <= v
<1> USE MaxSpeedAssumption DEF Row
<1> DEFINE Below(v) == MaxSpeed - v
           gaps == {Below(v) : v \in speeds}
           Smaller == {ss \in Nat \X Nat : ss[1] < ss[2]}
<1>1. IsWellFoundedOn(Smaller, Nat)
  BY NatLessThanWellFounded DEF OpToRel
<1>2. \A m, n \in Nat : <<m, n>> \in Smaller <=> m < n
  OBVIOUS
<1>3. gaps # {} /\ gaps \subseteq Nat
  <2>1. \A v \in speeds : Below(v) \in Nat
    OBVIOUS
  <2> QED
    BY <2>1
<1> HIDE DEF Smaller, gaps
<1>4. PICK n \in gaps : \A m \in gaps : ~ (<<m, n>> \in Smaller)
  BY <1>1, <1>3, WFMin
<1>5. PICK v \in speeds : n = Below(v)
  BY <1>4 DEF gaps
<1>6. ASSUME NEW w \in speeds PROVE w <= v
  <2>1. Below(w) \in gaps /\ Below(w) \in Nat /\ n \in Nat
    BY <1>3, <1>4 DEF gaps
  <2>2. ~ (Below(w) < n)
    BY <1>2, <1>4, <2>1
  <2> QED
    BY <1>5, <2>2
<1> QED
  BY <1>6

\* The speeds that DiskWriteMBps takes the best of.
Speeds(s, r) ==
    {0} \cup UNION {{job[j].disk[i] : i \in SeqWrites(j)} : j \in Measurements(s, r)}

LEMMA SpeedsTyped ==
    ASSUME TypeOK, NEW s, NEW r
    PROVE  Speeds(s, r) \subseteq Row
<1> SUFFICES ASSUME NEW j \in Measurements(s, r), NEW i \in SeqWrites(j)
             PROVE  job[j].disk[i] \in Row
  BY MaxSpeedAssumption DEF Speeds, Row
<1>1. j \in Jobs /\ job[j].status = "completed"
  BY DEF Measurements, JobsOf, TypeOK, Made
<1>2. job[j] \in Job
  BY <1>1 DEF TypeOK, NoJob
<1>3. job[j].disk \in Seq(Row) /\ i \in DOMAIN job[j].disk
  BY <1>2 DEF Job, Results, SeqWrites
<1> QED
  BY <1>3

LEMMA CeilingIsHighest ==
    ASSUME TypeOK, JobInv, NEW s, NEW r
    PROVE  /\ DiskWriteMBps(s, r) \in Speeds(s, r)
           /\ \A w \in Speeds(s, r) : w <= DiskWriteMBps(s, r)
<1>1. Speeds(s, r) # {}
  BY DEF Speeds
<1>2. \E v \in Speeds(s, r) : \A w \in Speeds(s, r) : w <= v
  BY <1>1, SpeedsTyped, HighestSpeed
<1>3. DiskWriteMBps(s, r) = CHOOSE v \in Speeds(s, r) : \A w \in Speeds(s, r) : w <= v
  BY DEF DiskWriteMBps, Speeds
<1> QED
  BY <1>2, <1>3

\* A measurement of a session that lives stays listed, and stays as it is.
LEMMA MeasurementsStay ==
    ASSUME TypeOK, JobInv, DeletedInv, [Next]_vars, NEW s \in store, NEW r
    PROVE  Speeds(s, r) \subseteq Speeds(s, r)'
<1> SUFFICES ASSUME NEW j \in Measurements(s, r)
             PROVE  j \in Measurements(s, r)' /\ job'[j] = job[j]
  BY DEF Speeds, SeqWrites
<1>1. /\ j \in table /\ job[j].session = s /\ job[j].repo = r
      /\ job[j].status = "completed"
  BY DEF Measurements, JobsOf
<1>2. j \in table'
  BY <1>1, DiscardStep
<1>3. job'[j] = job[j]
  BY <1>1, JobStep DEF TypeOK, Ended
<1> QED
  BY <1>1, <1>2, <1>3 DEF Measurements, JobsOf

LEMMA CeilingStep ==
    TypeOK /\ TypeOK' /\ JobInv /\ JobInv' /\ DeletedInv /\ [Next]_vars =>
        \A s \in store, r \in Repos : DiskWriteMBps(s, r)' >= DiskWriteMBps(s, r)
<1>h. ASSUME NEW s, NEW r
      PROVE  (TypeOK /\ JobInv => /\ DiskWriteMBps(s, r) \in Speeds(s, r)
                                  /\ \A w \in Speeds(s, r) : w <= DiskWriteMBps(s, r))'
  <2>1. TypeOK /\ JobInv => /\ DiskWriteMBps(s, r) \in Speeds(s, r)
                            /\ \A w \in Speeds(s, r) : w <= DiskWriteMBps(s, r)
    BY CeilingIsHighest
  <2> QED
    BY <2>1, PTL
<1> SUFFICES ASSUME TypeOK, TypeOK', JobInv, JobInv', DeletedInv, [Next]_vars,
                    NEW s \in store, NEW r \in Repos
             PROVE  DiskWriteMBps(s, r) <= DiskWriteMBps(s, r)'
  <2> QED
    OBVIOUS
<1>1. DiskWriteMBps(s, r) \in Speeds(s, r)
  BY CeilingIsHighest
<1>2. DiskWriteMBps(s, r) \in Speeds(s, r)'
  BY <1>1, MeasurementsStay
<1> QED
  BY <1>h, <1>2

\* The ceiling of a repository never falls while the session lives: the jobs it
\* is taken from stay listed and unchanged, whatever else runs, fails or is
\* discarded.
THEOREM CeilingNeverFallsHolds == Safety => CeilingNeverFalls
<1>1. Init => DeletedInv
  BY DEF Init, DeletedInv
<1> QED
  BY <1>1, CeilingStep, InitTypeOK, NextTypeOK, InitJobInv, NextJobInv, NextDeletedInv, PTL
     DEF Safety, CeilingNeverFalls
==============================================================================
