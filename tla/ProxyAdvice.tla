----------------------------- MODULE ProxyAdvice -----------------------------
(***************************************************************************)
(* The placement advice of the Architecture view: topology.Recommend       *)
(* (internal/topology/recommend.go).  One pass over the jobs collects what *)
(* the proxies carry, a second one advises job by job and counts what it   *)
(* advised, and two rules follow that read the result.                     *)
(*                                                                         *)
(* A proxy is its position in VBR's list, a job its position in the list   *)
(* of VMware jobs.  The rows are a set: their order on the page, by impact, *)
(* and their wording are left out.                                         *)
(***************************************************************************)
EXTENDS Integers, Sequences, FiniteSets

CONSTANTS
    NumProxies,     \* VMware proxies
    SlotCounts,     \* the values of maxTaskCount, 0 when it is unknown
    MaxJobs,        \* bound on the jobs
    MaxPin          \* bound on the proxies that a job is pinned to

VARIABLES
    slots,      \* slots of each proxy
    hot,        \* proxies that the assessment saw topping out (isHot)
    jobs,       \* the VMware jobs
    pc,         \* the part of Recommend that comes next
    load,       \* the field jobs of each pxInfo
    next,       \* the position of the loop over the jobs
    rows        \* the recommendations

input == <<slots, hot, jobs>>
vars == <<input, pc, load, next, rows>>

\* What the proofs assume of the constants.
ConstantsOK ==
    /\ NumProxies \in Nat /\ MaxJobs \in Nat /\ MaxPin \in Nat
    /\ SlotCounts \subseteq Nat

Proxies == 1 .. NumProxies

\* Stands for a proxy that is not in the list (another type, or deleted), and in
\* a row for no proxy; no job has this position either.
None == 0

Pins == UNION {{p \in [1 .. k -> Proxies \cup {None}] : \A i, j \in 1 .. k : i # j => p[i] # p[j]} :
                   k \in 0 .. MaxPin}
Job == [auto : BOOLEAN, pin : Pins]

Row == [kind : {"auto", "hotspot", "balance", "ok"}, job : Nat,
        from : Proxies \cup {None}, to : Proxies \cup {None}]

TypeOK ==
    /\ slots \in [Proxies -> SlotCounts]
    /\ hot \subseteq Proxies
    /\ jobs \in Seq(Job)
    /\ pc \in {"count", "advise", "balance", "list", "done"}
    /\ load \in [Proxies -> Nat]
    /\ next \in 1 .. Len(jobs) + 1
    /\ rows \subseteq Row

\* What an automatic job is pinned to is not read.
Plausible(job) == job.auto => job.pin = <<>>

Init ==
    /\ slots \in [Proxies -> SlotCounts]
    /\ hot \in SUBSET Proxies
    /\ \E n \in 0 .. MaxJobs : jobs \in [1 .. n -> {job \in Job : Plausible(job)}]
    /\ pc = "count"
    /\ load = [p \in Proxies |-> 0]
    /\ next = 1
    /\ rows = {}

PinnedTo(j) == {jobs[j].pin[i] : i \in DOMAIN jobs[j].pin}

\* The jobs that a proxy carries as configured.
Pinned(p) == {j \in DOMAIN jobs : ~ jobs[j].auto /\ p \in PinnedTo(j)}

\* perSlot divides by this: jobs per slot, or jobs when the slots are unknown.
Weight(p) == IF slots[p] = 0 THEN 1 ELSE slots[p]

------------------------------------------------------------------------------
(* Faulty variants of definitions of this module, one for each way the     *)
(* code could plausibly be wrong; the properties are shown to reject them. *)

\* The load is compared in jobs.
LighterByJobs(p, q) == load[p] < load[q]

\* The search for the least loaded proxy looks at all of them.
AnyTarget == Proxies

\* Rows are listed for jobs that have one already.
NoneNamed == {}

\* The loop moves on twice.
JobPassedOver ==
    /\ pc = "advise"
    /\ next \in DOMAIN jobs
    /\ next' = next + 2
    /\ UNCHANGED <<input, pc>>

------------------------------------------------------------------------------
\* perSlot, compared as fractions; the rounding of float64 is left out.
LighterPerSlot(p, q) == load[p] * Weight(q) < load[q] * Weight(p)

\* The first of the least loaded proxies of a set, as a loop with < finds it.
IsLightest(p, candidates) ==
    /\ p \in candidates
    /\ \A q \in candidates : ~ LighterPerSlot(q, p) /\ (q < p => LighterPerSlot(p, q))

IsHeaviest(p) ==
    /\ p \in Proxies
    /\ \A q \in Proxies : ~ LighterPerSlot(p, q) /\ (q < p => LighterPerSlot(q, p))

\* best skips what the assessment flagged.
Candidates == Proxies \ hot
IsBest(p) == IsLightest(p, Candidates)

NewRow(kind, job, from, to) == [kind |-> kind, job |-> job, from |-> from, to |-> to]

------------------------------------------------------------------------------
\* The loop over VBR's jobs.
CountJobs ==
    /\ pc = "count"
    /\ load' = [p \in Proxies |-> Cardinality(Pinned(p))]
    /\ pc' = "advise"
    /\ UNCHANGED <<input, next, rows>>

NextJob ==
    /\ pc = "advise"
    /\ next \in DOMAIN jobs
    /\ next' = next + 1
    /\ UNCHANGED <<input, pc>>

\* A job pinned to a bottleneck, of which the first in its list is named.
IsFirstHot(h, j) ==
    \E i \in DOMAIN jobs[j].pin :
        /\ jobs[j].pin[i] = h
        /\ h \in hot
        /\ \A k \in 1 .. i - 1 : jobs[j].pin[k] \notin hot

AdviseMove ==
    /\ NextJob
    /\ ~ jobs[next].auto
    /\ \E h \in Proxies, best \in Proxies :
           /\ IsFirstHot(h, next)
           /\ IsBest(best)
           /\ rows' = rows \cup {NewRow("hotspot", next, h, best)}
    /\ UNCHANGED load

\* An automatic job; it is counted, so that several get spread.
AdviseAutomatic ==
    /\ NextJob
    /\ jobs[next].auto
    /\ \E best \in Proxies :
           /\ IsBest(best)
           /\ rows' = rows \cup {NewRow("auto", next, None, best)}
           /\ load' = [load EXCEPT ![best] = @ + 1]

\* No row yet: there is nowhere to go, or the job is pinned elsewhere.
AdviseNothing ==
    /\ NextJob
    /\ Candidates = {} \/ (~ jobs[next].auto /\ PinnedTo(next) \cap hot = {})
    /\ UNCHANGED <<load, rows>>

EndOfJobs ==
    /\ pc = "advise"
    /\ next > Len(jobs)
    /\ pc' = "balance"
    /\ UNCHANGED <<input, load, next, rows>>

\* jobsPerSlotGap is one half.
GapIsWide(hi, lo) ==
    2 * (load[hi] * Weight(lo) - load[lo] * Weight(hi)) >= Weight(hi) * Weight(lo)

WorthBalancing(hi, lo) ==
    /\ IsHeaviest(hi)
    /\ IsLightest(lo, Proxies)
    /\ hi # lo
    /\ GapIsWide(hi, lo)
    /\ load[hi] >= 2

Rebalance ==
    /\ pc = "balance"
    /\ \/ \E hi, lo \in Proxies :
              /\ WorthBalancing(hi, lo)
              /\ rows' = rows \cup {NewRow("balance", None, hi, lo)}
       \/ /\ \A hi, lo \in Proxies : ~ WorthBalancing(hi, lo)
          /\ UNCHANGED rows
    /\ pc' = "list"
    /\ UNCHANGED <<input, load, next>>

\* The jobs that need no change, with the first proxy they are pinned to.
Named == {r.job : r \in rows}
FirstPin(j) == IF jobs[j].pin = <<>> THEN None ELSE jobs[j].pin[1]
Unchanged ==
    {NewRow("ok", j, FirstPin(j), None) : j \in {k \in DOMAIN jobs : ~ jobs[k].auto /\ k \notin Named}}

ListUnchanged ==
    /\ pc = "list"
    /\ rows' = IF rows = {} THEN {} ELSE rows \cup Unchanged
    /\ pc' = "done"
    /\ UNCHANGED <<input, load, next>>

Next == CountJobs \/ AdviseMove \/ AdviseAutomatic \/ AdviseNothing \/ EndOfJobs \/ Rebalance \/ ListUnchanged

Spec == Init /\ [][Next]_vars

------------------------------------------------------------------------------
\* The rows that advise one thing for a job.
RowsOf(j) == {r \in rows : r.job = j}
Suggested(p) == {r \in rows : r.kind = "auto" /\ r.to = p}

\* Jobs of a proxy once the advice for the automatic jobs is followed.
Outcome(p) == Cardinality(Pinned(p)) + Cardinality(Suggested(p))

\* recommend.go:203, "so several automatic jobs get spread": with the advice
\* followed, no automatic job would have fewer jobs per slot beside it on another
\* proxy that is not a bottleneck.
SpreadsAutomatic ==
    \A p \in Proxies : Suggested(p) # {} =>
        \A q \in Proxies \ hot : (Outcome(p) - 1) * Weight(q) <= Outcome(q) * Weight(p)

\* recommend.go:32, "a bottleneck we must not move more load onto", for the rows
\* about one job: whoever is pinned to a bottleneck is told to leave it, if there
\* is a proxy that is none, and nobody is sent to one.
BottlenecksAreLeft ==
    /\ \A r \in rows : r.kind \in {"auto", "hotspot"} => r.to \in Proxies \ hot
    /\ pc \in {"balance", "list", "done"} =>
           \A j \in DOMAIN jobs :
               (\E r \in RowsOf(j) : r.kind = "hotspot" /\ r.from \in hot \cap PinnedTo(j))
                   <=> (~ jobs[j].auto /\ PinnedTo(j) \cap hot # {} /\ hot # Proxies)

\* recommend.go:233, "it keeps the reader from wondering whether we skipped
\* them": when there is advice, each job has one row, unless it is automatic and
\* every proxy is a bottleneck.
EveryJobAnswered ==
    pc = "done" /\ rows # {} =>
        \A j \in DOMAIN jobs :
            \/ \E r \in rows : RowsOf(j) = {r}
            \/ jobs[j].auto /\ hot = Proxies /\ RowsOf(j) = {}

\* recommend.go:32, for all rows: no row names a bottleneck as the target.
NeverOntoBottleneck == \A r \in rows : r.to \notin hot

------------------------------------------------------------------------------
(* The inductive strengthening of the properties of the advice.            *)

\* What the loop has made of a job that it has passed, with all that follows.
Answered(j) ==
    \/ jobs[j].auto /\ hot = Proxies /\ RowsOf(j) = {}
    \/ jobs[j].auto /\ hot # Proxies /\ \E r \in rows : RowsOf(j) = {r} /\ r.kind = "auto"
    \/ /\ ~ jobs[j].auto /\ PinnedTo(j) \cap hot # {} /\ hot # Proxies
       /\ \E r \in rows : RowsOf(j) = {r} /\ r.kind = "hotspot" /\ r.from \in hot \cap PinnedTo(j)
    \/ /\ ~ jobs[j].auto /\ (PinnedTo(j) \cap hot = {} \/ hot = Proxies)
       /\ \A r \in RowsOf(j) : r.kind = "ok"

RowsInv ==
    /\ pc = "count" => rows = {} /\ next = 1
    /\ pc \in {"balance", "list", "done"} => next > Len(jobs)
    /\ pc # "done" => \A r \in rows : r.kind # "ok"
    /\ \A r \in rows : r.job < next
    /\ \A j \in 1 .. next - 1 : Answered(j)
    /\ \A r \in rows : r.kind \in {"auto", "hotspot"} => r.to \in Proxies \ hot
    /\ pc = "done" /\ rows # {} =>
           \A j \in DOMAIN jobs : jobs[j].auto \/ \E r \in rows : RowsOf(j) = {r}

\* What was counted is the outcome of what was advised, and each piece of advice
\* was the best when it was given.
LoadInv ==
    /\ IsFiniteSet(rows)
    /\ pc # "count" => \A p \in Proxies : load[p] = Outcome(p)
    /\ \A p \in Proxies, q \in Proxies \ hot :
           Suggested(p) # {} => (load[p] - 1) * Weight(q) <= load[q] * Weight(p)
==============================================================================
