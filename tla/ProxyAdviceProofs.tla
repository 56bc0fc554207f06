-------------------------- MODULE ProxyAdviceProofs --------------------------
(***************************************************************************)
(* The placement advice of ProxyAdvice, for any proxies, slots and jobs:   *)
(* the automatic jobs are spread, bottlenecks are left, and every job is   *)
(* answered.                                                               *)
(***************************************************************************)
EXTENDS ProxyAdvice, FiniteSetTheorems, TLAPS

USE DEF ConstantsOK

------------------------------------------------------------------------------
(* Types.                                                                  *)

LEMMA InitType == ASSUME ConstantsOK PROVE Init => TypeOK
<1> SUFFICES ASSUME Init PROVE TypeOK
  OBVIOUS
<1>1. jobs \in Seq(Job)
  BY DEF Init
<1>2. next \in 1 .. Len(jobs) + 1
  BY <1>1 DEF Init
<1> QED
  BY <1>1, <1>2 DEF Init, TypeOK

\* The proxies a job is pinned to.
LEMMA PinType ==
    ASSUME ConstantsOK, TypeOK, NEW j \in DOMAIN jobs
    PROVE  /\ jobs[j].auto \in BOOLEAN
           /\ PinnedTo(j) \subseteq Proxies \cup {None}
           /\ FirstPin(j) \in Proxies \cup {None}
<1>1. jobs[j] \in Job
  BY DEF TypeOK
<1>2. PICK k \in 0 .. MaxPin : jobs[j].pin \in [1 .. k -> Proxies \cup {None}]
  BY <1>1 DEF Job, Pins
<1>3. PinnedTo(j) \subseteq Proxies \cup {None}
  BY <1>2 DEF PinnedTo
<1>4. FirstPin(j) \in Proxies \cup {None}
  <2>1. CASE jobs[j].pin = <<>>
    BY <2>1 DEF FirstPin
  <2>2. CASE jobs[j].pin # <<>>
    <3>1. k # 0
      BY <1>2, <2>2
    <3> QED
      BY <1>2, <2>2, <3>1 DEF FirstPin
  <2> QED
    BY <2>1, <2>2
<1> QED
  BY <1>1, <1>3, <1>4 DEF Job

LEMMA PinnedFinite ==
    ASSUME ConstantsOK, TypeOK, NEW p \in Proxies
    PROVE  IsFiniteSet(Pinned(p)) /\ Cardinality(Pinned(p)) \in Nat
<1>1. DOMAIN jobs = 1 .. Len(jobs) /\ Len(jobs) \in Nat
  BY DEF TypeOK
<1>2. IsFiniteSet(1 .. Len(jobs))
  BY <1>1, FS_Interval
<1>3. Pinned(p) \subseteq 1 .. Len(jobs)
  BY <1>1 DEF Pinned
<1> QED
  BY <1>2, <1>3, FS_Subset, FS_CardinalityType

LEMMA NextType ==
    ASSUME ConstantsOK, TypeOK, [Next]_vars
    PROVE  TypeOK'
<1>1. CASE CountJobs
  <2>1. load' \in [Proxies -> Nat]
    BY <1>1, PinnedFinite DEF CountJobs
  <2> QED
    BY <1>1, <2>1 DEF CountJobs, TypeOK, input
<1>2. ASSUME NextJob PROVE next' \in 1 .. Len(jobs') + 1 /\ next \in Nat /\ next \in DOMAIN jobs
                           /\ UNCHANGED <<slots, hot, jobs, pc>>
  BY <1>2 DEF NextJob, TypeOK, input
<1>3. CASE AdviseMove
  <2>1. PICK h \in Proxies, best \in Proxies :
            rows' = rows \cup {NewRow("hotspot", next, h, best)}
    BY <1>3 DEF AdviseMove
  <2>2. rows' \subseteq Row
    BY <1>2, <1>3, <2>1 DEF AdviseMove, TypeOK, NewRow, Row
  <2> QED
    BY <1>2, <1>3, <2>2 DEF AdviseMove, TypeOK
<1>4. CASE AdviseAutomatic
  <2>1. PICK best \in Proxies :
            /\ rows' = rows \cup {NewRow("auto", next, None, best)}
            /\ load' = [load EXCEPT ![best] = @ + 1]
    BY <1>4 DEF AdviseAutomatic
  <2>2. rows' \subseteq Row
    BY <1>2, <1>4, <2>1 DEF AdviseAutomatic, TypeOK, NewRow, Row
  <2>3. load' \in [Proxies -> Nat]
    BY <2>1 DEF TypeOK
  <2> QED
    BY <1>2, <1>4, <2>2, <2>3 DEF AdviseAutomatic, TypeOK
<1>5. CASE AdviseNothing
  BY <1>2, <1>5 DEF AdviseNothing, TypeOK
<1>6. CASE EndOfJobs
  BY <1>6 DEF EndOfJobs, TypeOK, input
<1>7. CASE Rebalance
  <2>1. rows' \subseteq Row
    BY <1>7 DEF Rebalance, TypeOK, NewRow, Row, None
  <2> QED
    BY <1>7, <2>1 DEF Rebalance, TypeOK, input
<1>8. CASE ListUnchanged
  <2>1. \A j \in DOMAIN jobs : j \in Nat /\ FirstPin(j) \in Proxies \cup {None}
    BY PinType DEF TypeOK
  <2>2. Unchanged \subseteq Row
    BY <2>1 DEF Unchanged, NewRow, Row
  <2> QED
    BY <1>8, <2>2 DEF ListUnchanged, TypeOK, input
<1>9. CASE UNCHANGED vars
  BY <1>9 DEF vars, input, TypeOK
<1> QED
  BY <1>1, <1>3, <1>4, <1>5, <1>6, <1>7, <1>8, <1>9 DEF Next

------------------------------------------------------------------------------
(* The rows.                                                               *)

LEMMA InitRows == ASSUME ConstantsOK PROVE Init => RowsInv
  BY DEF Init, RowsInv

\* One turn of the loop, at the job n: those answered before keep their answers,
\* and the invariant is kept when n is answered.
LEMMA LoopRows ==
    ASSUME ConstantsOK, TypeOK, RowsInv, NextJob, NEW n, n = next,
           rows \subseteq rows', \A r \in rows' \ rows : r.job = n,
           \A r \in rows' \ rows : r.kind \in {"auto", "hotspot"} /\ r.to \in Proxies \ hot
    PROVE  /\ RowsOf(n) = {} /\ RowsOf(n)' = rows' \ rows
           /\ UNCHANGED <<hot, jobs, PinnedTo(n)>>
           /\ Answered(n)' => RowsInv'
<1>1. n \in Nat \ {0} /\ next' = n + 1 /\ n \in DOMAIN jobs /\ pc = "advise" /\ pc' = "advise"
  BY DEF NextJob, TypeOK, input
<1>2. UNCHANGED <<hot, jobs>> /\ (\A j : PinnedTo(j)' = PinnedTo(j))
  BY DEF NextJob, input, PinnedTo
<1>3. \A r \in rows : r.job \in Nat /\ r.job < n
  BY DEF RowsInv, TypeOK, Row
<1>4. \A j \in 1 .. n - 1 : RowsOf(j)' = RowsOf(j)
  BY <1>1 DEF RowsOf
<1>5. ASSUME NEW j \in 1 .. n - 1
      PROVE  Answered(j)'
  <2>1. Answered(j) /\ RowsOf(j)' = RowsOf(j)
    BY <1>4 DEF RowsInv
  <2>2. RowsOf(j) \subseteq rows'
    BY DEF RowsOf
  <2> QED
    BY <1>2, <2>1, <2>2 DEF Answered
<1>6. \A r \in rows' : r.job < n + 1
  BY <1>1, <1>3
<1>7. RowsOf(n) = {} /\ RowsOf(n)' = rows' \ rows
  BY <1>1, <1>3 DEF RowsOf
<1>8. ASSUME Answered(n)'
      PROVE  RowsInv'
  <2>1. \A j \in 1 .. n : j \in 1 .. n - 1 \/ j = n
    BY <1>1
  <2>2. \A j \in 1 .. next' - 1 : Answered(j)'
    BY <1>1, <1>5, <1>8, <2>1
  <2>3. \A r \in rows' : r.kind \in {"auto", "hotspot"} => r.to \in (Proxies \ hot)'
    BY <1>2 DEF RowsInv, Proxies
  <2> QED
    BY <1>1, <1>6, <2>2, <2>3 DEF RowsInv
<1> QED
  BY <1>2, <1>7, <1>8

LEMMA MoveRows ==
    ASSUME ConstantsOK, TypeOK, RowsInv, AdviseMove
    PROVE  RowsInv'
<1>1. PICK n : n = next
  OBVIOUS
<1>2. PICK h \in Proxies, best \in Proxies :
          /\ IsFirstHot(h, n)
          /\ IsBest(best)
          /\ rows' = rows \cup {NewRow("hotspot", n, h, best)}
  BY <1>1 DEF AdviseMove
<1>3. PICK r : r = NewRow("hotspot", n, h, best)
  OBVIOUS
<1>4. r.job = n /\ r.kind = "hotspot" /\ r.from = h /\ r.to = best
  BY <1>3 DEF NewRow
<1>5. h \in hot \cap PinnedTo(n) /\ best \in Proxies \ hot /\ ~ jobs[n].auto
  BY <1>1, <1>2 DEF AdviseMove, IsFirstHot, PinnedTo, IsBest, IsLightest, Candidates
<1>6. rows' = rows \cup {r} /\ NextJob
  BY <1>2, <1>3 DEF AdviseMove
<1>7. /\ RowsOf(n) = {} /\ RowsOf(n)' = rows' \ rows
      /\ UNCHANGED <<hot, jobs, PinnedTo(n)>>
      /\ Answered(n)' => RowsInv'
  BY <1>1, <1>4, <1>5, <1>6, LoopRows
<1>8. r \notin rows
  BY <1>4, <1>7 DEF RowsOf
<1>9. RowsOf(n)' = {r} /\ r \in rows'
  BY <1>6, <1>7, <1>8
<1>10. Answered(n)'
  BY <1>4, <1>5, <1>7, <1>9 DEF Answered
<1> QED
  BY <1>7, <1>10

LEMMA AutomaticRows ==
    ASSUME ConstantsOK, TypeOK, RowsInv, AdviseAutomatic
    PROVE  RowsInv'
<1>1. PICK n : n = next
  OBVIOUS
<1>2. PICK best \in Proxies :
          IsBest(best) /\ rows' = rows \cup {NewRow("auto", n, None, best)}
  BY <1>1 DEF AdviseAutomatic
<1>3. PICK r : r = NewRow("auto", n, None, best)
  OBVIOUS
<1>4. r.job = n /\ r.kind = "auto" /\ r.to = best
  BY <1>3 DEF NewRow
<1>5. best \in Proxies \ hot /\ jobs[n].auto
  BY <1>1, <1>2 DEF AdviseAutomatic, IsBest, IsLightest, Candidates
<1>6. rows' = rows \cup {r} /\ NextJob
  BY <1>2, <1>3 DEF AdviseAutomatic
<1>7. /\ RowsOf(n) = {} /\ RowsOf(n)' = rows' \ rows
      /\ UNCHANGED <<hot, jobs, PinnedTo(n)>>
      /\ Answered(n)' => RowsInv'
  BY <1>1, <1>4, <1>5, <1>6, LoopRows
<1>8. r \notin rows
  BY <1>4, <1>7 DEF RowsOf
<1>9. RowsOf(n)' = {r} /\ r \in rows'
  BY <1>6, <1>7, <1>8
<1>10. Answered(n)'
  BY <1>4, <1>5, <1>7, <1>9 DEF Answered
<1> QED
  BY <1>7, <1>10

LEMMA NothingRows ==
    ASSUME ConstantsOK, TypeOK, RowsInv, AdviseNothing
    PROVE  RowsInv'
<1>1. PICK n : n = next
  OBVIOUS
<1>2. rows' = rows /\ NextJob
  BY DEF AdviseNothing
<1>3. /\ RowsOf(n) = {} /\ RowsOf(n)' = rows' \ rows
      /\ UNCHANGED <<hot, jobs, PinnedTo(n)>>
      /\ Answered(n)' => RowsInv'
  BY <1>1, <1>2, LoopRows
<1>4. n \in DOMAIN jobs /\ jobs[n].auto \in BOOLEAN
  BY <1>1, PinType DEF AdviseNothing, NextJob
<1>5. hot = Proxies \/ (~ jobs[n].auto /\ PinnedTo(n) \cap hot = {})
  BY <1>1 DEF AdviseNothing, Candidates, TypeOK
<1>6. RowsOf(n)' = {}
  BY <1>2, <1>3
<1>7. Answered(n)'
  BY <1>3, <1>4, <1>5, <1>6 DEF Answered, Proxies
<1> QED
  BY <1>3, <1>7

\* The row of the rebalancing is about no job.
LEMMA RebalanceRows ==
    ASSUME ConstantsOK, TypeOK, RowsInv, Rebalance
    PROVE  RowsInv'
<1>1. UNCHANGED <<hot, jobs, next>> /\ (\A j : PinnedTo(j)' = PinnedTo(j)) /\ next > Len(jobs)
      /\ next \in Nat /\ pc = "balance" /\ pc' = "list"
  BY DEF Rebalance, input, PinnedTo, RowsInv, TypeOK
<1>2. rows \subseteq rows' /\ (\A r \in rows' \ rows : r.job = None /\ r.kind = "balance")
  BY DEF Rebalance, NewRow
<1>3. \A j \in 1 .. next - 1 : RowsOf(j)' = RowsOf(j)
  BY <1>2 DEF RowsOf, None
<1>4. \A j \in 1 .. next - 1 : Answered(j)'
  <2> TAKE j \in 1 .. next - 1
  <2>1. Answered(j) /\ RowsOf(j)' = RowsOf(j)
    BY <1>3 DEF RowsInv
  <2> QED
    BY <1>1, <1>2, <2>1 DEF Answered
<1>5. \A r \in rows' : r.job < next
  BY <1>1, <1>2 DEF RowsInv, None, TypeOK
<1> QED
  BY <1>1, <1>2, <1>4, <1>5 DEF RowsInv, Proxies

\* The list of unchanged jobs gives a row to those that have none.
LEMMA ListRows ==
    ASSUME ConstantsOK, TypeOK, RowsInv, ListUnchanged
    PROVE  RowsInv'
<1>1. UNCHANGED <<hot, jobs, next>> /\ (\A j : PinnedTo(j)' = PinnedTo(j)) /\ next > Len(jobs)
      /\ next \in Nat /\ pc' = "done" /\ DOMAIN jobs = 1 .. Len(jobs) /\ Len(jobs) \in Nat
      /\ next - 1 \in Nat
  BY DEF ListUnchanged, input, PinnedTo, RowsInv, TypeOK
<1>2. CASE rows = {}
  BY <1>1, <1>2 DEF ListUnchanged, RowsInv, Answered, RowsOf
<1>3. CASE rows # {}
  <2>1. rows' = rows \cup Unchanged
    BY <1>3 DEF ListUnchanged
  <2>2. \A r \in Unchanged : r.kind = "ok" /\ r.job \in DOMAIN jobs /\ r.job \notin Named
                             /\ ~ jobs[r.job].auto
    BY DEF Unchanged, NewRow
  <2>3. ASSUME NEW j \in DOMAIN jobs
        PROVE  /\ Answered(j)'
               /\ jobs[j].auto \/ \E r \in rows' : RowsOf(j)' = {r}
    <3>1. Answered(j)
      BY <1>1 DEF RowsInv
    <3>2. CASE RowsOf(j) # {} \/ jobs[j].auto
      <4>1. RowsOf(j)' = RowsOf(j)
        BY <2>1, <2>2, <3>2 DEF RowsOf, Named
      <4>2. Answered(j)'
        BY <1>1, <2>1, <3>1, <4>1 DEF Answered
      <4>3. \A r \in RowsOf(j) : r.kind # "ok"
        BY DEF RowsOf, RowsInv, ListUnchanged
      <4> QED
        BY <1>1, <2>1, <3>1, <3>2, <4>1, <4>2, <4>3 DEF Answered
    <3>3. CASE RowsOf(j) = {} /\ ~ jobs[j].auto
      <4>1. j \notin Named
        BY <3>3 DEF RowsOf, Named
      <4>2. PICK r : r = NewRow("ok", j, FirstPin(j), None)
        OBVIOUS
      <4>3. r \in Unchanged /\ r.job = j /\ r.kind = "ok"
        BY <3>3, <4>1, <4>2 DEF Unchanged, NewRow
      <4>4. \A x \in Unchanged : x.job = j => x = r
        BY <4>2 DEF Unchanged, NewRow
      <4>5. RowsOf(j)' = {r}
        BY <2>1, <3>3, <4>3, <4>4 DEF RowsOf
      <4>6. PinnedTo(j) \cap hot = {} \/ hot = Proxies
        BY <3>1, <3>3 DEF Answered
      <4> QED
        BY <1>1, <2>1, <3>3, <4>3, <4>5, <4>6 DEF Answered, Proxies
    <3> QED
      BY <3>2, <3>3
  <2>4. \A j \in 1 .. next - 1 : j \in DOMAIN jobs
    BY <1>1 DEF TypeOK
  <2>5. \A r \in rows' : r.job < next
    BY <1>1, <2>1, <2>2 DEF RowsInv
  <2>6. \A r \in rows' : r.kind \in {"auto", "hotspot"} => r.to \in Proxies \ hot
    BY <2>1, <2>2 DEF RowsInv
  <2> QED
    BY <1>1, <2>3, <2>4, <2>5, <2>6 DEF RowsInv, Proxies
<1> QED
  BY <1>2, <1>3

LEMMA NextRows ==
    ASSUME ConstantsOK, TypeOK, RowsInv, [Next]_vars
    PROVE  RowsInv'
<1>1. CASE CountJobs \/ EndOfJobs \/ UNCHANGED vars
  <2>1. UNCHANGED <<hot, jobs, next, rows>>
    BY <1>1 DEF CountJobs, EndOfJobs, vars, input
  <2>2. \A j : Answered(j)' = Answered(j)
    BY <2>1 DEF Answered, RowsOf, PinnedTo, Proxies
  <2>3. \A j : RowsOf(j)' = RowsOf(j)
    BY <2>1 DEF RowsOf
  <2> QED
    BY <1>1, <2>1, <2>2, <2>3 DEF RowsInv, CountJobs, EndOfJobs, vars, Proxies
<1> QED
  BY <1>1, MoveRows, AutomaticRows, NothingRows, RebalanceRows, ListRows DEF Next

------------------------------------------------------------------------------
(* The load.                                                               *)

LEMMA InitLoad == ASSUME ConstantsOK PROVE Init => LoadInv
<1> SUFFICES ASSUME Init PROVE LoadInv
  OBVIOUS
<1>1. rows = {} /\ \A p \in Proxies : Suggested(p) = {}
  BY DEF Init, Suggested
<1> QED
  BY <1>1, FS_EmptySet DEF Init, LoadInv

LEMMA SuggestedFinite ==
    ASSUME ConstantsOK, LoadInv, NEW p \in Proxies
    PROVE  IsFiniteSet(Suggested(p)) /\ Cardinality(Suggested(p)) \in Nat
<1>1. Suggested(p) \subseteq rows /\ IsFiniteSet(rows)
  BY DEF Suggested, LoadInv
<1> QED
  BY <1>1, FS_Subset, FS_CardinalityType

\* Rows that suggest nothing for an automatic job leave the load as it is.
LEMMA OtherLoad ==
    ASSUME ConstantsOK, TypeOK, LoadInv, UNCHANGED <<input, load>>, pc # "count", pc' # "count",
           IsFiniteSet(rows'), rows \subseteq rows', \A r \in rows' \ rows : r.kind # "auto"
    PROVE  LoadInv'
<1>1. \A p \in Proxies : Suggested(p)' = Suggested(p)
  BY DEF Suggested
<1>2. \A p \in Proxies : Weight(p)' = Weight(p) /\ Pinned(p)' = Pinned(p) /\ Outcome(p)' = Outcome(p)
  BY <1>1 DEF input, Weight, Pinned, PinnedTo, Outcome
<1> QED
  BY <1>1, <1>2 DEF LoadInv, input, Proxies

LEMMA CountLoad ==
    ASSUME ConstantsOK, TypeOK, RowsInv, LoadInv, CountJobs
    PROVE  LoadInv'
<1>1. rows' = {} /\ UNCHANGED <<slots, hot, jobs, rows>> /\ pc' = "advise"
  BY DEF CountJobs, RowsInv, input
<1>2. \A p \in Proxies : Suggested(p)' = {} /\ Pinned(p)' = Pinned(p)
  BY <1>1 DEF Suggested, Pinned, PinnedTo
<1>3. \A p \in Proxies : load'[p] = Outcome(p)'
  <2> TAKE p \in Proxies
  <2>1. Cardinality(Pinned(p)) \in Nat
    BY PinnedFinite
  <2> QED
    BY <1>2, <2>1, FS_EmptySet DEF Outcome, CountJobs
<1> QED
  BY <1>1, <1>2, <1>3, FS_EmptySet DEF LoadInv, Proxies

\* The choice of best: one more job on the least loaded proxy keeps the spread.
LEMMA AutomaticLoad ==
    ASSUME ConstantsOK, TypeOK, RowsInv, LoadInv, AdviseAutomatic
    PROVE  LoadInv'
<1>1. PICK best \in Proxies :
          /\ IsBest(best)
          /\ rows' = rows \cup {NewRow("auto", next, None, best)}
          /\ load' = [load EXCEPT ![best] = @ + 1]
  BY DEF AdviseAutomatic
<1>2. PICK r : r = NewRow("auto", next, None, best)
  OBVIOUS
<1>3. r.job = next /\ r.kind = "auto" /\ r.to = best /\ rows' = rows \cup {r}
  BY <1>1, <1>2 DEF NewRow
<1>4. r \notin rows
  BY <1>3 DEF RowsInv, TypeOK
<1>5. UNCHANGED <<slots, hot, jobs, pc>> /\ pc = "advise"
  BY DEF AdviseAutomatic, NextJob, input
<1>6. \A p \in Proxies : load[p] \in Nat /\ load'[p] = IF p = best THEN load[p] + 1 ELSE load[p]
  BY <1>1 DEF TypeOK
<1>7. \A p \in Proxies : Weight(p)' = Weight(p) /\ Weight(p) \in Nat /\ Pinned(p)' = Pinned(p)
  BY <1>5 DEF Weight, Pinned, PinnedTo, TypeOK
<1>8. Suggested(best)' = Suggested(best) \cup {r} /\ r \notin Suggested(best)
  BY <1>3, <1>4 DEF Suggested
<1>9. \A p \in Proxies \ {best} : Suggested(p)' = Suggested(p)
  BY <1>3 DEF Suggested
<1>10. \A p \in Proxies : load'[p] = Outcome(p)'
  <2> TAKE p \in Proxies
  <2>1. load[p] = Outcome(p) /\ Cardinality(Pinned(p)) \in Nat
    BY <1>5, PinnedFinite DEF LoadInv
  <2>2. CASE p = best
    <3>1. Cardinality(Suggested(p)') = Cardinality(Suggested(p)) + 1
      BY <1>8, <2>2, SuggestedFinite, FS_AddElement
    <3>2. Cardinality(Suggested(p)) \in Nat
      BY SuggestedFinite
    <3> QED
      BY <1>6, <1>7, <2>1, <2>2, <3>1, <3>2 DEF Outcome
  <2>3. CASE p # best
    BY <1>6, <1>7, <1>9, <2>1, <2>3 DEF Outcome
  <2> QED
    BY <2>2, <2>3
<1>11. ASSUME NEW p \in Proxies, NEW q \in Proxies \ hot, Suggested(p)' # {}
       PROVE  (load'[p] - 1) * Weight(q) <= load'[q] * Weight(p)
  <2>1. (load'[p] - 1) * Weight(q) <= load[q] * Weight(p)
    <3>1. CASE p = best
      <4>1. ~ (load[q] * Weight(p) < load[p] * Weight(q))
        BY <1>1, <3>1 DEF IsBest, IsLightest, Candidates, LighterPerSlot
      <4>2. load'[p] - 1 = load[p]
        BY <1>6, <3>1
      <4>3. load[q] * Weight(p) \in Nat /\ load[p] * Weight(q) \in Nat
        BY <1>6, <1>7
      <4> QED
        BY <4>1, <4>2, <4>3
    <3>2. CASE p # best
      BY <1>6, <1>9, <1>11, <3>2 DEF LoadInv
    <3> QED
      BY <3>1, <3>2
  <2>2. load[q] * Weight(p) <= load'[q] * Weight(p)
    <3>1. load[q] \in Nat /\ Weight(p) \in Nat
      BY <1>6, <1>7
    <3>2. (load[q] + 1) * Weight(p) = load[q] * Weight(p) + Weight(p) /\ load[q] * Weight(p) \in Nat
      BY <3>1
    <3>3. load'[q] = load[q] \/ load'[q] = load[q] + 1
      BY <1>6
    <3> QED
      BY <3>1, <3>2, <3>3
  <2>3. /\ (load'[p] - 1) * Weight(q) \in Int
        /\ load[q] * Weight(p) \in Int /\ load'[q] * Weight(p) \in Int
    <3>1. load'[p] - 1 \in Int /\ load[q] \in Int /\ load'[q] \in Int /\ Weight(p) \in Int
          /\ Weight(q) \in Int
      BY <1>6, <1>7
    <3> QED
      BY <3>1
  <2> QED
    BY <2>1, <2>2, <2>3
<1>12. IsFiniteSet(rows')
  BY <1>3, FS_AddElement DEF LoadInv
<1> QED
  BY <1>5, <1>7, <1>10, <1>11, <1>12 DEF LoadInv, Proxies

LEMMA NextLoad ==
    ASSUME ConstantsOK, TypeOK, RowsInv, LoadInv, [Next]_vars
    PROVE  LoadInv'
<1>1. CASE AdviseMove
  <2>1. PICK r : r.kind = "hotspot" /\ rows' = rows \cup {r}
    BY <1>1 DEF AdviseMove, NewRow
  <2>2. IsFiniteSet(rows')
    BY <2>1, FS_AddElement DEF LoadInv
  <2> QED
    BY <1>1, <2>1, <2>2, OtherLoad DEF AdviseMove, NextJob
<1>2. CASE AdviseNothing \/ EndOfJobs
  BY <1>2, OtherLoad DEF AdviseNothing, NextJob, EndOfJobs, LoadInv
<1>3. CASE Rebalance
  <2>1. rows' = rows \/ \E r : r.kind = "balance" /\ rows' = rows \cup {r}
    BY <1>3 DEF Rebalance, NewRow
  <2>2. IsFiniteSet(rows')
    BY <2>1, FS_AddElement DEF LoadInv
  <2> QED
    BY <1>3, <2>1, <2>2, OtherLoad DEF Rebalance
<1>4. CASE ListUnchanged
  <2>1. IsFiniteSet(Unchanged)
    <3>1. DOMAIN jobs = 1 .. Len(jobs) /\ Len(jobs) \in Nat
      BY DEF TypeOK
    <3> DEFINE unnamed == {k \in DOMAIN jobs : ~ jobs[k].auto /\ k \notin Named}
               row(j) == NewRow("ok", j, FirstPin(j), None)
    <3>2. IsFiniteSet(unnamed)
      <4>1. IsFiniteSet(1 .. Len(jobs)) /\ unnamed \subseteq 1 .. Len(jobs)
        BY <3>1, FS_Interval
      <4> QED
        BY <4>1, FS_Subset
    <3>3. [j \in unnamed |-> row(j)] \in Surjection(unnamed, Unchanged)
      BY DEF Unchanged, Surjection
    <3> QED
      BY <3>2, <3>3, FS_Surjection
  <2>2. IsFiniteSet(rows')
    BY <1>4, <2>1, FS_Union, FS_EmptySet DEF ListUnchanged, LoadInv
  <2>3. \A r \in Unchanged : r.kind = "ok"
    BY DEF Unchanged, NewRow
  <2> QED
    BY <1>4, <2>2, <2>3, OtherLoad DEF ListUnchanged
<1>5. CASE UNCHANGED vars
  BY <1>5 DEF LoadInv, vars, input, Outcome, Suggested, Pinned, PinnedTo, Weight, Proxies
<1> QED
  BY <1>1, <1>2, <1>3, <1>4, <1>5, CountLoad, AutomaticLoad DEF Next

------------------------------------------------------------------------------
(* The theorems.                                                           *)

LEMMA Invariants == ASSUME ConstantsOK PROVE Spec => [](TypeOK /\ RowsInv /\ LoadInv)
<1>1. Init => TypeOK /\ RowsInv /\ LoadInv
  BY InitType, InitRows, InitLoad
<1>2. TypeOK /\ RowsInv /\ LoadInv /\ [Next]_vars => TypeOK' /\ RowsInv' /\ LoadInv'
  BY NextType, NextRows, NextLoad
<1> QED
  BY <1>1, <1>2, PTL DEF Spec

\* The inputs do not change, and every row is one the page can show.
THEOREM TypeCorrect == ASSUME ConstantsOK PROVE Spec => []TypeOK
  BY Invariants, PTL

\* recommend.go:203: with the advice followed, no automatic job would be better
\* off on another proxy that is not a bottleneck.
THEOREM SpreadsAutomaticHolds == ASSUME ConstantsOK PROVE Spec => []SpreadsAutomatic
<1>1. TypeOK /\ RowsInv /\ LoadInv => SpreadsAutomatic
  <2> SUFFICES ASSUME TypeOK, RowsInv, LoadInv,
                      NEW p \in Proxies, Suggested(p) # {}, NEW q \in Proxies \ hot
               PROVE  (Outcome(p) - 1) * Weight(q) <= Outcome(q) * Weight(p)
    BY DEF SpreadsAutomatic
  <2>1. pc # "count"
    BY DEF RowsInv, Suggested
  <2> QED
    BY <2>1 DEF LoadInv
<1> QED
  BY <1>1, Invariants, PTL

\* recommend.go:32: jobs are told to leave a bottleneck when they can, and no job
\* is sent to one.
THEOREM BottlenecksAreLeftHolds == ASSUME ConstantsOK PROVE Spec => []BottlenecksAreLeft
<1>1. TypeOK /\ RowsInv => BottlenecksAreLeft
  <2> SUFFICES ASSUME TypeOK, RowsInv, pc \in {"balance", "list", "done"}, NEW j \in DOMAIN jobs
               PROVE  (\E r \in RowsOf(j) : r.kind = "hotspot" /\ r.from \in hot \cap PinnedTo(j))
                          <=> (~ jobs[j].auto /\ PinnedTo(j) \cap hot # {} /\ hot # Proxies)
    BY DEF BottlenecksAreLeft, RowsInv
  <2>1. j \in 1 .. next - 1
    BY DEF RowsInv, TypeOK
  <2>2. Answered(j)
    BY <2>1 DEF RowsInv
  <2> QED
    BY <2>2 DEF Answered
<1> QED
  BY <1>1, Invariants, PTL

\* recommend.go:233: when there is advice, each job has one row, unless it is
\* automatic and every proxy is a bottleneck.
THEOREM EveryJobAnsweredHolds == ASSUME ConstantsOK PROVE Spec => []EveryJobAnswered
<1>1. TypeOK /\ RowsInv => EveryJobAnswered
  <2> SUFFICES ASSUME TypeOK, RowsInv, pc = "done", rows # {}, NEW j \in DOMAIN jobs
               PROVE  \/ \E r \in rows : RowsOf(j) = {r}
                      \/ jobs[j].auto /\ hot = Proxies /\ RowsOf(j) = {}
    BY DEF EveryJobAnswered
  <2>1. j \in 1 .. next - 1
    BY DEF RowsInv, TypeOK
  <2>2. Answered(j)
    BY <2>1 DEF RowsInv
  <2> QED
    BY <2>2 DEF Answered, RowsInv
<1> QED
  BY <1>1, Invariants, PTL
==============================================================================
