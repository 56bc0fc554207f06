------------------------------- MODULE VbrCache -------------------------------
(***************************************************************************)
(* The read path of one Veeam session: vbr.Get (internal/vbr/client.go)    *)
(* with the response cache and the single-flight table of vbr.Session      *)
(* (internal/vbr/session.go).  The callers are the handler goroutines and  *)
(* the analysis workers, which all share the session.                      *)
(*                                                                         *)
(* A response body is abstracted to the time at which VBR produced it, so  *)
(* that older and newer bodies can be told apart.  One HTTP exchange       *)
(* (fetchOnce, with its token renewal and its retry) is one or two steps:  *)
(* VBR produces the body, and the exchange may fail before or after that.  *)
(* A path that is no URL makes the exchange panic: the HTTP server recovers *)
(* the handler, which has left Get in the middle.                          *)
(***************************************************************************)
EXTENDS Naturals

CONSTANTS
    Callers,    \* goroutines that call Get
    Cacheable,  \* paths for which cacheable(path) holds
    Volatile,   \* paths for which it does not (sessions, task sessions, logs)
    Malformed,  \* paths that do not parse as the path of a URL (raw passthrough)
    CacheTTL,   \* how long an entry is served without asking VBR
    StaleTTL,   \* how old an entry may be and still replace a failed fetch
    MaxNow,     \* bound on the clock
    Nobody,     \* no caller, and no path
    Gone        \* the leader of a call whose goroutine has died

Paths == Cacheable \cup Volatile

ASSUME NobodyAssumption == Nobody \notin Callers /\ Nobody \notin Paths
ASSUME GoneAssumption == Gone \notin Callers /\ Gone # Nobody
ASSUME MalformedAssumption == Malformed \subseteq Paths
ASSUME PathsAssumption == Cacheable \cap Volatile = {}
ASSUME TTLAssumption == CacheTTL \in Nat /\ StaleTTL \in Nat /\ CacheTTL <= StaleTTL
ASSUME MaxNowAssumption == MaxNow \in Nat \ {0}

VARIABLES
    now,        \* the clock; it starts at 1, so that 0 is no time
    cache,      \* Session.cache: path -> a copy, NoCopy where the map has no key
    inflight,   \* Session.inflight: path -> the caller that leads its fetch,
                \* Gone for a call that nobody will complete any more
    pc,         \* where each caller is in Get
    path,       \* the path of each caller's Get
    call,       \* the call a waiting caller holds, named by its leader
    res,        \* the caller's local body: a copy, NoCopy for an error
    \* history variables, which no guard reads
    began,      \* when each caller's Get began
    had,        \* .at of the entry that was cached when it began
    newest,     \* newest[p]: the newest snapshot of p that a Get returned
    floor       \* newest[path[c]] when c's Get began

vars == <<now, cache, inflight, pc, path, call, res, began, had, newest, floor>>

\* A body: snap is when VBR produced it, at is when the session stored it
\* (before that: received it).
Times == 0 .. MaxNow
Copy == [at : Times, snap : Times]
NoCopy == [at |-> 0, snap |-> 0]

\* Between joinOrLead and the delete of leadDone a caller is the registered
\* leader of its path; at "closing" it has only close(c.done) left to do.
Leading == {"fetch", "fetched", "failed", "publish"}
PCs == {"idle", "missed", "wait", "direct", "closing", "got"} \cup Leading

\* The type of every variable; a caller has a path exactly inside Get.
TypeOK ==
    /\ now \in 1 .. MaxNow
    /\ cache \in [Paths -> Copy]
    /\ inflight \in [Paths -> Callers \cup {Nobody, Gone}]
    /\ pc \in [Callers -> PCs]
    /\ path \in [Callers -> Paths \cup {Nobody}]
    /\ call \in [Callers -> Callers \cup {Nobody, Gone}]
    /\ res \in [Callers -> Copy]
    /\ began \in [Callers -> Times]
    /\ had \in [Callers -> Times]
    /\ newest \in [Paths -> Times]
    /\ floor \in [Callers -> Times]
    /\ \A c \in Callers : (path[c] = Nobody) <=> (pc[c] = "idle")

Init ==
    /\ now = 1
    /\ cache = [p \in Paths |-> NoCopy]
    /\ inflight = [p \in Paths |-> Nobody]
    /\ pc = [c \in Callers |-> "idle"]
    /\ path = [c \in Callers |-> Nobody]
    /\ call = [c \in Callers |-> Nobody]
    /\ res = [c \in Callers |-> NoCopy]
    /\ began = [c \in Callers |-> 0]
    /\ had = [c \in Callers |-> 0]
    /\ newest = [p \in Paths |-> 0]
    /\ floor = [c \in Callers |-> 0]

------------------------------------------------------------------------------
(* Faulty variants of definitions of this module, one for each way the     *)
(* code could plausibly be wrong; the properties are shown to reject them. *)

\* No single flight: joinOrLead never finds a registered call.
NeverInFlight(p) == FALSE

\* A channel send where leadDone closes the channel: one waiter wakes up.
OneWaiter(c) ==
    LET waiting == {f \in Callers : pc[f] = "wait" /\ call[f] = c}
    IN  IF waiting = {} THEN {} ELSE {CHOOSE f \in waiting : TRUE}

\* The session list is cached like the job list.
AlwaysCacheable(p) == TRUE

\* The fallback uses the short TTL, and so is no fallback.
ShortFallback(p) == cache[p] # NoCopy /\ now - cache[p].at <= CacheTTL

\* The fallback has no cap: an entry of any age replaces a failed fetch.
AncientFallback(p) == cache[p] # NoCopy

\* The entry keeps its expiry where the readers expect its age.
ExpiryStamp == now + StaleTTL

------------------------------------------------------------------------------
\* cacheGet and cacheGetStale: an entry is usable up to and including its TTL.
Within(p, ttl) ==
    /\ cache[p] # NoCopy
    /\ now - cache[p].at <= ttl

FallbackUsable(p) == Within(p, StaleTTL)

IsCacheable(p) == p \in Cacheable

InFlight(p) == inflight[p] # Nobody

\* The time cachePut gives an entry.
Stamp == now

\* close(c.done) wakes every goroutine blocked on the channel.
Waiters(c) == {f \in Callers : pc[f] = "wait" /\ call[f] = c}

------------------------------------------------------------------------------
\* Get is called.  The first thing it does to shared state is cacheGet, one
\* critical section of cacheMu, so the call and the lookup are one step.
Enter(c, p, where, body) ==
    /\ pc[c] = "idle"
    /\ pc' = [pc EXCEPT ![c] = where]
    /\ path' = [path EXCEPT ![c] = p]
    /\ res' = [res EXCEPT ![c] = body]
    /\ began' = [began EXCEPT ![c] = now]
    /\ had' = [had EXCEPT ![c] = cache[p].at]
    /\ floor' = [floor EXCEPT ![c] = newest[p]]
    /\ UNCHANGED <<now, cache, inflight, call, newest>>

\* A path that is not cacheable goes straight to fetchOnce.
Bypass(c, p) ==
    /\ ~ IsCacheable(p)
    /\ Enter(c, p, "direct", NoCopy)

Hit(c, p) ==
    /\ IsCacheable(p)
    /\ Within(p, CacheTTL)
    /\ Enter(c, p, "got", cache[p])

Miss(c, p) ==
    /\ IsCacheable(p)
    /\ ~ Within(p, CacheTTL)
    /\ Enter(c, p, "missed", NoCopy)

\* The steps below move one caller, and leave the history alone.
Move(c, from, to) ==
    /\ pc[c] = from
    /\ pc' = [pc EXCEPT ![c] = to]
    /\ UNCHANGED <<now, path, began, had, newest, floor>>

\* joinOrLead, one critical section of inflightMu.
Join(c) ==
    /\ Move(c, "missed", "wait")
    /\ InFlight(path[c])
    /\ call' = [call EXCEPT ![c] = inflight[path[c]]]
    /\ UNCHANGED <<cache, inflight, res>>

Lead(c) ==
    /\ Move(c, "missed", "fetch")
    /\ ~ InFlight(path[c])
    /\ inflight' = [inflight EXCEPT ![path[c]] = c]
    /\ UNCHANGED <<cache, call, res>>

\* http.NewRequestWithContext accepts the path.
Parses(p) == p \notin Malformed

\* VBR produces the body of the leader's GET.
Respond(c) ==
    /\ Move(c, "fetch", "fetched")
    /\ Parses(path[c])
    /\ res' = [res EXCEPT ![c] = [at |-> now, snap |-> now]]
    /\ UNCHANGED <<cache, inflight, call>>

\* fetchOnce fails: a budget that ran out, the cancelled context of the
\* leader's own request, an HTTP error, an expired session, a body that is no
\* JSON.  VBR may or may not have produced a body by then.  A renewal that
\* fails before the first doGet is the only such end for a malformed path.
FetchFails(c) ==
    /\ Move(c, "fetch", "failed") \/ Move(c, "fetched", "failed")
    /\ res' = [res EXCEPT ![c] = NoCopy]
    /\ UNCHANGED <<cache, inflight, call>>

\* (A faulty variant of Put below: an entry that is there is not replaced.)
PutOnce(c) ==
    /\ Move(c, "fetched", "publish")
    /\ LET entry == [at |-> Stamp, snap |-> res[c].snap]
       IN  /\ cache' = [cache EXCEPT ![path[c]] = IF @ = NoCopy THEN entry ELSE @]
           /\ res' = [res EXCEPT ![c] = entry]
    /\ UNCHANGED <<inflight, call>>

\* cachePut.
Put(c) ==
    /\ Move(c, "fetched", "publish")
    /\ LET entry == [at |-> Stamp, snap |-> res[c].snap]
       IN  /\ cache' = [cache EXCEPT ![path[c]] = entry]
           /\ res' = [res EXCEPT ![c] = entry]
    /\ UNCHANGED <<inflight, call>>

\* cacheGetStale: the previous copy replaces the error, if it is usable.
FallBack(c) ==
    /\ Move(c, "failed", "publish")
    /\ res' = [res EXCEPT ![c] = IF FallbackUsable(path[c]) THEN cache[path[c]] ELSE NoCopy]
    /\ UNCHANGED <<cache, inflight, call>>

\* leadDone sets the call's result and deletes it from the table...
Unregister(c) ==
    /\ Move(c, "publish", "closing")
    /\ inflight' = [inflight EXCEPT ![path[c]] = Nobody]
    /\ UNCHANGED <<cache, call, res>>

\* ... and then closes the channel.  What a waiter reads from the call after
\* that no longer changes, so it is given its result here.
Close(c) ==
    /\ pc[c] = "closing"
    /\ LET released == Waiters(c) \cup {c}
       IN  /\ pc' = [f \in Callers |-> IF f \in released THEN "got" ELSE pc[f]]
           /\ res' = [f \in Callers |-> IF f \in released THEN res[c] ELSE res[f]]
           /\ call' = [f \in Callers |-> IF f \in released THEN Nobody ELSE call[f]]
    /\ UNCHANGED <<now, cache, inflight, path, began, had, newest, floor>>

\* fetchOnce of a path that is not cacheable.
DirectRespond(c) ==
    /\ Move(c, "direct", "got")
    /\ Parses(path[c])
    /\ res' = [res EXCEPT ![c] = [at |-> now, snap |-> now]]
    /\ UNCHANGED <<cache, inflight, call>>

DirectFails(c) ==
    /\ Move(c, "direct", "got")
    /\ UNCHANGED <<cache, inflight, call, res>>

\* The goroutine has left Get, and its locals are gone.
Larger(a, b) == IF a > b THEN a ELSE b

Leave(c) ==
    /\ pc' = [pc EXCEPT ![c] = "idle"]
    /\ path' = [path EXCEPT ![c] = Nobody]
    /\ res' = [res EXCEPT ![c] = NoCopy]
    /\ began' = [began EXCEPT ![c] = 0]
    /\ had' = [had EXCEPT ![c] = 0]
    /\ floor' = [floor EXCEPT ![c] = 0]
    /\ UNCHANGED <<now, cache>>

\* Get returns to its caller.
Return(c) ==
    /\ pc[c] = "got"
    /\ Leave(c)
    /\ newest' = [newest EXCEPT ![path[c]] = Larger(@, res[c].snap)]
    /\ UNCHANGED <<inflight, call>>

\* doGet ignores the error of NewRequestWithContext and uses the nil request:
\* it panics, and the HTTP server recovers the handler.  leadDone is not
\* deferred, so the call of a leader stays in the table and its channel stays
\* open.  (The call is renamed: another call of c is another channel.)
Lost(owner, c) == IF owner = c THEN Gone ELSE owner

Panics(c) ==
    /\ pc[c] \in {"fetch", "direct"}
    /\ ~ Parses(path[c])
    /\ Leave(c)
    /\ inflight' = [p \in Paths |-> Lost(inflight[p], c)]
    /\ call' = [f \in Callers |-> Lost(call[f], c)]
    /\ UNCHANGED newest

\* The clock counts minutes.  It does not advance while a caller runs through
\* code that waits for nothing: between cacheGet and joinOrLead, and from the
\* end of a fetch to the close of the channel and the return of Get.
Tick ==
    /\ now < MaxNow
    /\ \A c \in Callers : pc[c] \notin {"missed", "failed", "publish", "closing", "got"}
    /\ now' = now + 1
    /\ UNCHANGED <<cache, inflight, pc, path, call, res, began, had, newest, floor>>

\* A caller inside Get takes its next step.
Step(c) ==
    \/ Join(c)
    \/ Lead(c)
    \/ Respond(c)
    \/ FetchFails(c)
    \/ Put(c)
    \/ FallBack(c)
    \/ Unregister(c)
    \/ Close(c)
    \/ DirectRespond(c)
    \/ DirectFails(c)
    \/ Panics(c)
    \/ Return(c)

Next ==
    \/ Tick
    \/ \E c \in Callers :
          \/ \E p \in Paths : Bypass(c, p) \/ Hit(c, p) \/ Miss(c, p)
          \/ Step(c)

\* A goroutine inside Get runs on: a fetch ends within its time budget, a
\* critical section is short.  Nothing obliges anyone to call Get again.
Fairness == \A c \in Callers : WF_vars(Step(c))

Safety == Init /\ [][Next]_vars

Spec == Safety /\ Fairness

------------------------------------------------------------------------------
\* A path has at most one fetch in flight, and it is the one registered: the
\* callers between joinOrLead and leadDone are exactly the registered leaders.
SingleFlight ==
    \A c \in Callers, p \in Paths :
        (inflight[p] = c) <=> (pc[c] \in Leading /\ path[c] = p)

\* A waiter is left behind on a malformed path only: whoever else blocks on a
\* call's channel blocks on one of its own path whose leader is still going to
\* close it, whatever panicked elsewhere in the session.
WaitersHaveLeader ==
    \A f \in Callers :
        pc[f] = "wait" =>
            \/ call[f] = Gone /\ ~ Parses(path[f])
            \/ /\ call[f] \in Callers
               /\ pc[call[f]] \in Leading \cup {"closing"}
               /\ path[call[f]] = path[f]

\* "data from minutes ago beats an empty diagram": a Get fails only if the
\* copy that was cached when it began, or whatever replaced it, has outlived
\* the fallback by the time it fails -- for the caller that fetched and for
\* everyone who waited for it.
FailsOnlyWithoutCopy ==
    \A c \in Callers :
        (pc[c] = "got" /\ res[c] = NoCopy /\ had[c] # 0) => now - had[c] > StaleTTL

\* "Capped so a whole session never runs on ancient data": no Get, waiting or
\* fetching, returns a copy stored more than StaleTTL before it began.
ServedCopyAge ==
    \A c \in Callers :
        (pc[c] = "got" /\ res[c] # NoCopy) => res[c].at + StaleTTL >= began[c]

\* "Sessions are deliberately NOT cached": a snapshot of such a path is taken
\* after the Get that returns it began.
VolatileIsFresh ==
    \A c \in Callers :
        (pc[c] = "got" /\ path[c] \in Volatile /\ res[c] # NoCopy) =>
            res[c].snap >= began[c]

\* The cache never goes back: a slow fetch does not overwrite what a later one
\* brought.
CacheNeverRegresses ==
    [][\A p \in Paths : cache'[p].at >= cache[p].at /\ cache'[p].snap >= cache[p].snap]_vars

\* session.go:79, "publishes the result to everyone waiting on this path":
\* whoever waits for a request in flight hears of its end.
EveryWaiterIsAnswered == \A c \in Callers : (pc[c] = "wait") ~> (pc[c] = "got")

\* The read path as its users see it: monotone reads of snapshots.
Reads == INSTANCE SnapshotReads WITH
            reading <- path,
            NoPath <- Nobody,
            answer <- [c \in Callers |-> IF pc[c] = "got" THEN {res[c].snap} ELSE {}]

\* Get implements the safety part of SnapshotReads: whoever asks, through the
\* cache, a shared fetch or the fallback, reads of a path never go back in time
\* across the whole session.
MonotoneReads == Reads!Safety

------------------------------------------------------------------------------
\* The inductive strengthening of the properties above.

\* Only the call of a malformed path loses its leader.
LostCalls == \A p \in Paths : inflight[p] = Gone => ~ Parses(p)

\* Result r is one that the Get c is in may return.
Fits(c, r) ==
    /\ r = NoCopy => (had[c] = 0 \/ now - had[c] > StaleTTL)
    /\ r # NoCopy =>
          /\ floor[c] <= r.snap
          /\ r.snap <= now
          /\ r.at + StaleTTL >= began[c]
          /\ path[c] \in Cacheable => r.snap <= cache[path[c]].snap
          /\ path[c] \in Volatile => r.snap >= began[c]

\* What the session has stored and handed out so far.
StoreInv ==
    \A p \in Paths :
        /\ cache[p].snap <= cache[p].at
        /\ cache[p].at <= now
        /\ newest[p] <= now
        /\ p \in Cacheable => newest[p] <= cache[p].snap
        /\ p \in Volatile => cache[p] = NoCopy

\* What each caller knows, by where it is in Get.
CallerInv ==
    \A c \in Callers :
        /\ pc[c] # "idle" =>
              /\ began[c] <= now
              /\ had[c] <= cache[path[c]].at
              /\ floor[c] <= newest[path[c]]
        /\ pc[c] \in {"missed", "wait", "closing"} \cup Leading => path[c] \in Cacheable
        /\ pc[c] = "direct" => path[c] \in Volatile /\ res[c] = NoCopy
        /\ pc[c] = "fetched" => cache[path[c]].snap <= res[c].snap /\ res[c].snap <= now
        /\ pc[c] = "publish" =>
              IF res[c] = NoCopy
              THEN ~ Within(path[c], StaleTTL)
              ELSE res[c] = cache[path[c]] /\ Within(path[c], StaleTTL)
        /\ pc[c] = "closing" => \A f \in Waiters(c) \cup {c} : Fits(f, res[c])
        /\ pc[c] = "got" => Fits(c, res[c])

DataInv == StoreInv /\ CallerInv
==============================================================================
