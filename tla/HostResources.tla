----------------------------- MODULE HostResources -----------------------------
(***************************************************************************)
(* Where the sizing of the proxies gets the cores and the memory of a host *)
(* from (BuildSizing, internal/analysis/sizing.go): from what was entered  *)
(* by hand (SetHostRes and HostResAll, internal/vbr/session.go), of which  *)
(* a build takes a copy when it begins, or else from the metrics that an   *)
(* appliance exports, through the cache of the session (AutoRes,           *)
(* internal/vbr/nodemetrics.go).  Builds of the same session overlap, and  *)
(* a probe is made without the lock that guards the cache.                 *)
(***************************************************************************)
EXTENDS Naturals, Sequences, FiniteSets

CONSTANTS
    Builds,     \* environment analyses of the session
    Hosts,      \* names and identifiers of the servers, both
    Appliances, \* those that are asked for their metrics
    Sizes,      \* resources of a host that may be entered or exported
    ProxyHosts  \* the host of each proxy, in the order in which VBR lists them

VARIABLES
    exported,   \* what each host exports, NoRes when it does not answer
    hostRes,    \* what was entered by hand
    autoRes,    \* the cache of the session
    at,         \* where each build is
    manual,     \* its copy of hostRes
    probed,     \* what its probe found
    rows,       \* the resources in the rows it has built
    \* history variable, which no guard reads
    alone       \* no other build ran since this one began

\* What the code makes sure of, and the proofs assume, of the constants.
ConstantsOK ==
    /\ ProxyHosts \in Seq(Hosts) /\ ProxyHosts # <<>>
    /\ Appliances \subseteq Hosts
    /\ Sizes \cap {"none", "unseen"} = {}

res == <<hostRes, autoRes>>
vars == <<exported, res, at, manual, probed, rows, alone>>

NoRes == "none"     \* not known, or the nil of a failed probe
Unseen == "unseen"  \* no key in the map
Found == Sizes \cup {NoRes}

TypeOK ==
    /\ exported \in [Appliances -> Found]
    /\ hostRes \in [Hosts -> Found]
    /\ autoRes \in [Hosts -> Found \cup {Unseen}]
    /\ at \in [Builds -> {"idle", "row", "probe", "store"}]
    /\ manual \in [Builds -> [Hosts -> Found]]
    /\ probed \in [Builds -> Found]
    /\ \A b \in Builds : Len(rows[b]) <= Len(ProxyHosts) /\ \A i \in DOMAIN rows[b] : rows[b][i] \in Found
    /\ alone \in [Builds -> BOOLEAN]

Init ==
    /\ exported = [h \in Appliances |-> NoRes]
    /\ hostRes = [h \in Hosts |-> NoRes]
    /\ autoRes = [h \in Hosts |-> Unseen]
    /\ at = [b \in Builds |-> "idle"]
    /\ manual = [b \in Builds |-> [h \in Hosts |-> NoRes]]
    /\ probed = [b \in Builds |-> NoRes]
    /\ rows = [b \in Builds |-> <<>>]
    /\ alone = [b \in Builds |-> FALSE]

------------------------------------------------------------------------------
(* Faulty variant of a definition of this module, a way in which the code  *)
(* could plausibly be wrong; the properties are shown to reject it.        *)

\* A failed probe counts as no answer.
Answered(h) == autoRes[h] \notin {Unseen, NoRes}

------------------------------------------------------------------------------

\* An exporter comes up, goes down or reports something else (external).
ExporterChanges(h, size) ==
    /\ exported[h] # size
    /\ exported' = [exported EXCEPT ![h] = size]
    /\ UNCHANGED <<res, at, manual, probed, rows, alone>>

\* The handler hostResources; cores = ram = 0 deletes the entry.
SetHostRes(h, size) ==
    /\ hostRes' = [hostRes EXCEPT ![h] = size]
    /\ UNCHANGED <<exported, autoRes, at, manual, probed, rows, alone>>

\* HostResAll.
BeginSizing(b) ==
    /\ at[b] = "idle"
    /\ at' = [at EXCEPT ![b] = "row"]
    /\ manual' = [manual EXCEPT ![b] = hostRes]
    /\ rows' = [rows EXCEPT ![b] = <<>>]
    /\ alone' = [c \in Builds |-> IF c = b THEN \A d \in Builds : at[d] = "idle" ELSE FALSE]
    /\ UNCHANGED <<exported, res, probed>>

\* The host of the proxy whose row is next.
HostOf(b) == ProxyHosts[Len(rows[b]) + 1]

AddRow(b, size) ==
    /\ rows' = [rows EXCEPT ![b] = Append(@, size)]
    /\ at' = [at EXCEPT ![b] = IF Len(rows'[b]) = Len(ProxyHosts) THEN "idle" ELSE "row"]

\* A host that has been entered by hand, or exports nothing.
KnownRow(b) ==
    /\ at[b] = "row"
    /\ manual[b][HostOf(b)] # NoRes \/ HostOf(b) \notin Appliances
    /\ AddRow(b, manual[b][HostOf(b)])
    /\ UNCHANGED <<exported, res, manual, probed, alone>>

\* The key is in the map: a failed probe is remembered too.
Seen(h) == autoRes[h] # Unseen

AsksMetrics(b) == at[b] = "row" /\ manual[b][HostOf(b)] = NoRes /\ HostOf(b) \in Appliances

\* AutoRes finds the host in the cache ...
CachedRow(b) ==
    /\ AsksMetrics(b) /\ Seen(HostOf(b))
    /\ AddRow(b, autoRes[HostOf(b)])
    /\ UNCHANGED <<exported, res, manual, probed, alone>>

\* ... or gives up the lock,
LeaveCache(b) ==
    /\ AsksMetrics(b) /\ ~ Seen(HostOf(b))
    /\ at' = [at EXCEPT ![b] = "probe"]
    /\ UNCHANGED <<exported, res, manual, probed, rows, alone>>

\* asks the host, which may also not answer in time,
Probe(b, answer) ==
    /\ at[b] = "probe" /\ answer \in {exported[HostOf(b)], NoRes}
    /\ probed' = [probed EXCEPT ![b] = answer]
    /\ at' = [at EXCEPT ![b] = "store"]
    /\ UNCHANGED <<exported, res, manual, rows, alone>>

\* and stores the answer, whatever another build has stored meanwhile.
StoreProbe(b) ==
    /\ at[b] = "store"
    /\ autoRes' = [autoRes EXCEPT ![HostOf(b)] = probed[b]]
    /\ AddRow(b, probed[b])
    /\ probed' = [probed EXCEPT ![b] = NoRes]
    /\ UNCHANGED <<exported, hostRes, manual, alone>>

Next ==
    \/ \E h \in Appliances, size \in Found : ExporterChanges(h, size)
    \/ \E h \in Hosts, size \in Found : SetHostRes(h, size)
    \/ \E b \in Builds :
           \/ BeginSizing(b) \/ KnownRow(b) \/ CachedRow(b) \/ LeaveCache(b)
           \/ \E answer \in Found : Probe(b, answer)
           \/ StoreProbe(b)

Spec == Init /\ [][Next]_vars

------------------------------------------------------------------------------
(* Properties.                                                             *)

\* nodemetrics.go:80-82 and sizing.go:56: in a build that no other build overlaps,
\* the proxies of one host all have the same resources, also when an exporter
\* fails, comes back or another size is entered between two of its rows.  (Builds
\* that overlap can each find the host unseen, and one changes the cache under
\* the other: their rows may differ.)
OneHostOneSize ==
    \A b \in Builds : alone[b] =>
        \A i, j \in DOMAIN rows[b] : ProxyHosts[i] = ProxyHosts[j] => rows[b][i] = rows[b][j]
==============================================================================
