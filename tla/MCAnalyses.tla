------------------------------- MODULE MCAnalyses -------------------------------
(***************************************************************************)
(* A small instance of each of the five analyses, for TLC.                 *)
(***************************************************************************)
EXTENDS Analyses, TLC

------------------------------------------------------------------------------
(* JobVerdict: runs that are small, that saturate one, two or three stages *)
(* and that only name a stage; hosts with too few slots, with too many,    *)
(* too small and not known; disks and links slower and faster than a run.  *)

Load(s, p, n, t) == "Source" :> s @@ "Proxy" :> p @@ "Network" :> n @@ "Target" :> t

Votes(stages) == [s \in {"Source", "Proxy", "Network", "Target", "Throttling"} |-> IF s \in stages THEN 1 ELSE 0]

JobRun(read, xfer, dur, loads, said, tasks) ==
    [read |-> read, xfer |-> xfer, dur |-> dur, loads |-> loads, said |-> said, tasks |-> Votes(tasks)]

JobRuns ==
    {JobRun(10, 10, 10, {}, "", {}),
     JobRun(100, 60, 10, {Load(90, 20, 10, 50)}, "", {}),
     JobRun(300, 200, 10, {Load(20, 10, 80, 97), Load(10, 10, 95, 60)}, "Target", {}),
     JobRun(300, 300, 20, {Load(10, 92, 90, 90)}, "", {}),
     JobRun(300, 280, 0, {}, "", {"Target", "Throttling", "Network"})}

Host(cores, ram, slots, cap, free, fio) ==
    [cores |-> cores, ram |-> ram, slots |-> slots, cap |-> cap, free |-> free, fio |-> fio]

Bare == {Host(0, 0, 2, 100, 7, 0), Host(2, 8, 2, 100, 7, 0), Host(8, 8, 2, 100, 7, 0), Host(4, 0, 4, 100, 7, 0)}

Repositories ==
    {{}} \cup {{[h EXCEPT !.fio = fio]} : h \in Bare, fio \in {0, 20, 100}}
    \cup {{Host(0, 0, 0, 0, 0, 0), Host(8, 16, 4, 100, 3, 30)}}

Deep(transport, why, compression, n, sum, max) ==
    [read |-> TRUE, transport |-> transport, why |-> why, compression |-> compression,
     vms |-> [n |-> n, sum |-> sum, max |-> max]]

NotDeep == [Deep("", FALSE, 0, 0, 0, 0) EXCEPT !.read = FALSE]

JobSites ==
    [proxies : {<<>>, <<Host(8, 8, 2, 0, 0, 0)>>},
     repos : Repositories,
     deep : {NotDeep, Deep("nbd", TRUE, 4, 3, 10, 8), Deep("direct", FALSE, 5, 2, 10, 5),
             Deep("", FALSE, -1, 0, 0, 0), Deep("nbd", FALSE, -1, 3, 40, 10)},
     send : {0, 250, 600}, recv : {0}]

------------------------------------------------------------------------------
(* EnvironmentVerdict: one job under two identifiers and another, runs     *)
(* within an hour, over several and of no length, with the bottleneck in   *)
(* each stage and in none.                                                 *)

Session(number, start, end, bytes) ==
    [job |-> number, name |-> IF number = 3 THEN "m" ELSE "n", message |-> "", result |-> "Success", data |-> TRUE,
     start |-> start, end |-> end, bytes |-> bytes, wait |-> 0, stage |-> "", repos |-> {"r"},
     proxies |-> {"p"}, good |-> {"vm"}, bad |-> {}]

Completed ==
    {[Session(1, 6, 10, 700) EXCEPT !.stage = "Source"],
     [Session(1, 3, 9, 1500) EXCEPT !.stage = "Target", !.wait = 2],
     [Session(2, 4, 6, 600) EXCEPT !.stage = "Target", !.repos = {"r", "q"}, !.good = {}, !.bad = {"vm"}],
     [Session(3, 4, 5, 5) EXCEPT !.stage = "Source"],
     [Session(3, 0, 0, 40) EXCEPT !.repos = {"q"}],
     [Session(2, 0, 11, 601) EXCEPT !.stage = "Network", !.repos = {"q"}],
     [Session(2, 1, 4, 0) EXCEPT !.stage = "Proxy", !.repos = {"q"}]}

FailedSessions ==
    {[Session(number, start, 6, 0) EXCEPT !.result = "Failed", !.message = "e", !.data = data,
          !.repos = {}, !.proxies = {}, !.good = {}] :
     number \in {1, 2}, start \in {2, 5}, data \in BOOLEAN}

Going == {[s EXCEPT !.result = "None", !.end = 0, !.message = "", !.bytes = 20] : s \in FailedSessions}

FreeSpace(r, q) == {[repo |-> "r", free |-> r], [repo |-> "q", free |-> q]}

ProxyRow(slots, cores, ram) == [slots |-> slots, cores |-> cores, ram |-> ram]

EnvSessions == Completed \cup FailedSessions \cup Going
ListedStates == {{}, FreeSpace(1500, 30000), FreeSpace(500, 5000)}
ListedServers == {<<>>, <<TRUE, FALSE>>}
SizingRows == {<<>>, <<ProxyRow(4, 8, 16), ProxyRow(4, 2, 16)>>, <<ProxyRow(4, 3, 16)>>}

------------------------------------------------------------------------------
(* HostResources: the first and the last proxy are on the same appliance.  *)

HostOrder == <<"h", "g", "h">>

------------------------------------------------------------------------------
(* ProxyAdvice.                                                            *)

\* A proxy whose slots are unknown weighs as much as one with a single slot.
TwoSlotsOrUnknown == {0, 2}

------------------------------------------------------------------------------

\* Machines and builds only differ in their names.
Symmetry == Permutations(VMs) \cup Permutations(Builds)
==============================================================================
