---------------------------- MODULE VbrCacheProofs ----------------------------
(***************************************************************************)
(* Proofs about VbrCache, for every number of callers, every set of paths  *)
(* and all lifetimes: its type invariant, the single flight, and what      *)
(* follows from it.                                                        *)
(***************************************************************************)
EXTENDS VbrCache, TLAPS

LEMMA InitTypeOK == Init => TypeOK
BY MaxNowAssumption DEF Init, TypeOK, Times, Copy, NoCopy, PCs

\* Every step keeps every variable in its type.
LEMMA NextTypeOK == TypeOK /\ [Next]_vars => TypeOK'
<1> SUFFICES ASSUME TypeOK, [Next]_vars PROVE TypeOK'
  OBVIOUS
<1> USE MaxNowAssumption, NobodyAssumption, GoneAssumption DEF TypeOK, Times, Copy, NoCopy, PCs, Leading
<1>1. CASE Tick
  BY <1>1 DEF Tick
<1>2. ASSUME NEW c \in Callers, NEW p \in Paths, Bypass(c, p)
      PROVE TypeOK'
  BY <1>2 DEF Bypass, Enter
<1>3. ASSUME NEW c \in Callers, NEW p \in Paths, Hit(c, p)
      PROVE TypeOK'
  BY <1>3 DEF Hit, Enter
<1>4. ASSUME NEW c \in Callers, NEW p \in Paths, Miss(c, p)
      PROVE TypeOK'
  BY <1>4 DEF Miss, Enter
<1>5. ASSUME NEW c \in Callers, Join(c)
      PROVE TypeOK'
  BY <1>5 DEF Join, Move, InFlight
<1>6. ASSUME NEW c \in Callers, Lead(c)
      PROVE TypeOK'
  BY <1>6 DEF Lead, Move
<1>7. ASSUME NEW c \in Callers, Respond(c)
      PROVE TypeOK'
  BY <1>7 DEF Respond, Move
<1>8. ASSUME NEW c \in Callers, FetchFails(c)
      PROVE TypeOK'
  BY <1>8 DEF FetchFails, Move
<1>9. ASSUME NEW c \in Callers, Put(c)
      PROVE TypeOK'
  BY <1>9 DEF Put, Move, Stamp
<1>10. ASSUME NEW c \in Callers, FallBack(c)
       PROVE TypeOK'
  BY <1>10 DEF FallBack, Move
<1>11. ASSUME NEW c \in Callers, Unregister(c)
       PROVE TypeOK'
  BY <1>11 DEF Unregister, Move
<1>12. ASSUME NEW c \in Callers, Close(c)
       PROVE TypeOK'
  <2>1. /\ pc' \in [Callers -> PCs]
        /\ res' \in [Callers -> Copy]
        /\ call' \in [Callers -> Callers \cup {Nobody, Gone}]
    <3>1. pc' \in [Callers -> PCs]
      BY <1>12 DEF Close
    <3>2. res' \in [Callers -> Copy]
      BY <1>12 DEF Close
    <3>3. call' \in [Callers -> Callers \cup {Nobody, Gone}]
      BY <1>12 DEF Close
    <3> QED
      BY <3>1, <3>2, <3>3
  <2>2. \A f \in Callers : (pc'[f] = "idle") <=> (pc[f] = "idle")
    BY <1>12 DEF Close, Waiters
  <2> QED
    BY <1>12, <2>1, <2>2 DEF Close
<1>13. ASSUME NEW c \in Callers, DirectRespond(c)
       PROVE TypeOK'
  BY <1>13 DEF DirectRespond, Move
<1>14. ASSUME NEW c \in Callers, DirectFails(c)
       PROVE TypeOK'
  BY <1>14 DEF DirectFails, Move
<1>15. ASSUME NEW c \in Callers, Return(c)
       PROVE TypeOK'
  BY <1>15 DEF Return, Leave, Larger
<1>17. ASSUME NEW c \in Callers, Panics(c)
       PROVE TypeOK'
  BY <1>17 DEF Panics, Leave, Lost
<1>16. CASE UNCHANGED vars
  BY <1>16 DEF vars
<1> QED
  BY <1>1, <1>2, <1>3, <1>4, <1>5, <1>6, <1>7, <1>8, <1>9, <1>10, <1>11, <1>12,
     <1>13, <1>14, <1>15, <1>16, <1>17 DEF Next, Step

\* Every reachable state is well typed; in particular no caller is ever at a
\* point that Get does not have.
THEOREM TypeCorrect == Safety => []TypeOK
<1> QED
  BY InitTypeOK, NextTypeOK, PTL DEF Safety

------------------------------------------------------------------------------
\* One fetch per path: together the three facts say that the table of inflight
\* calls, the leaders and the waiters always agree.
Flight == SingleFlight /\ WaitersHaveLeader /\ LostCalls

LEMMA InitFlight == Init => Flight
BY NobodyAssumption, GoneAssumption DEF Init, Flight, SingleFlight, WaitersHaveLeader, LostCalls, Leading

LEMMA NextFlight == TypeOK /\ TypeOK' /\ Flight /\ [Next]_vars => Flight'
<1> SUFFICES ASSUME TypeOK, TypeOK', Flight, [Next]_vars PROVE Flight'
  OBVIOUS
<1> USE NobodyAssumption, GoneAssumption
    DEF TypeOK, PCs, Leading, Flight, SingleFlight, WaitersHaveLeader, LostCalls
<1>1. CASE Tick
  BY <1>1 DEF Tick
<1>2. ASSUME NEW c \in Callers, NEW p \in Paths, Bypass(c, p)
      PROVE Flight'
  BY <1>2 DEF Bypass, Enter
<1>3. ASSUME NEW c \in Callers, NEW p \in Paths, Hit(c, p)
      PROVE Flight'
  BY <1>3 DEF Hit, Enter
<1>4. ASSUME NEW c \in Callers, NEW p \in Paths, Miss(c, p)
      PROVE Flight'
  BY <1>4 DEF Miss, Enter
<1>5. ASSUME NEW c \in Callers, Join(c)
      PROVE Flight'
  BY <1>5 DEF Join, Move, InFlight
<1>6. ASSUME NEW c \in Callers, Lead(c)
      PROVE Flight'
  BY <1>6 DEF Lead, Move, InFlight
<1>7. ASSUME NEW c \in Callers, Respond(c)
      PROVE Flight'
  BY <1>7 DEF Respond, Move
<1>8. ASSUME NEW c \in Callers, FetchFails(c)
      PROVE Flight'
  BY <1>8 DEF FetchFails, Move
<1>9. ASSUME NEW c \in Callers, Put(c)
      PROVE Flight'
  BY <1>9 DEF Put, Move, Stamp
<1>10. ASSUME NEW c \in Callers, FallBack(c)
       PROVE Flight'
  BY <1>10 DEF FallBack, Move
<1>11. ASSUME NEW c \in Callers, Unregister(c)
       PROVE Flight'
  BY <1>11 DEF Unregister, Move
<1>12. ASSUME NEW c \in Callers, Close(c)
       PROVE Flight'
  <2>1. SingleFlight'
    BY <1>12 DEF Close, Waiters
  <2>2. WaitersHaveLeader'
    BY <1>12 DEF Close, Waiters
  <2>3. LostCalls'
    BY <1>12 DEF Close
  <2> QED
    BY <2>1, <2>2, <2>3
<1>13. ASSUME NEW c \in Callers, DirectRespond(c)
       PROVE Flight'
  BY <1>13 DEF DirectRespond, Move
<1>14. ASSUME NEW c \in Callers, DirectFails(c)
       PROVE Flight'
  BY <1>14 DEF DirectFails, Move
<1>15. ASSUME NEW c \in Callers, Return(c)
       PROVE Flight'
  BY <1>15 DEF Return, Leave
<1>17. ASSUME NEW c \in Callers, Panics(c)
       PROVE Flight'
  <2>1. SingleFlight'
    BY <1>17 DEF Panics, Leave, Lost
  <2>2. WaitersHaveLeader'
    <3> SUFFICES ASSUME NEW f \in Callers, pc'[f] = "wait"
                 PROVE  \/ call'[f] = Gone /\ ~ Parses(path'[f])
                        \/ /\ call'[f] \in Callers
                           /\ pc'[call'[f]] \in Leading \cup {"closing"}
                           /\ path'[call'[f]] = path'[f]
      OBVIOUS
    <3>1. f # c /\ pc[f] = "wait" /\ path'[f] = path[f]
      BY <1>17 DEF Panics, Leave
    <3>2. CASE call[f] = c
      BY <1>17, <3>1, <3>2 DEF Panics, Leave, Lost
    <3>3. CASE call[f] # c
      BY <1>17, <3>1, <3>3 DEF Panics, Leave, Lost
    <3> QED
      BY <3>2, <3>3
  <2>3. LostCalls'
    BY <1>17 DEF Panics, Leave, Lost
  <2> QED
    BY <2>1, <2>2, <2>3
<1>16. CASE UNCHANGED vars
  BY <1>16 DEF vars
<1> QED
  BY <1>1, <1>2, <1>3, <1>4, <1>5, <1>6, <1>7, <1>8, <1>9, <1>10, <1>11, <1>12,
     <1>13, <1>14, <1>15, <1>16, <1>17 DEF Next, Step

\* At most one fetch of a path is in flight, whatever the number of callers.
THEOREM SingleFlightHolds == Safety => []SingleFlight
<1>1. Safety => []Flight
  BY TypeCorrect, InitFlight, NextFlight, PTL DEF Safety
<1>2. Flight => SingleFlight
  BY DEF Flight
<1> QED
  BY <1>1, <1>2, PTL

\* Whoever waits for a fetch waits for one that is still going to end, but for
\* those who wait on a malformed path after its leader has panicked.
THEOREM WaitersHaveLeaderHolds == Safety => []WaitersHaveLeader
<1>1. Safety => []Flight
  BY TypeCorrect, InitFlight, NextFlight, PTL DEF Safety
<1>2. Flight => WaitersHaveLeader
  BY DEF Flight
<1> QED
  BY <1>1, <1>2, PTL

------------------------------------------------------------------------------
\* What the session stores and hands out.

LEMMA InitDataInv == Init => DataInv
BY NobodyAssumption, PathsAssumption, MaxNowAssumption, SMTT(30)
   DEF Init, DataInv, StoreInv, CallerInv, NoCopy, Leading

LEMMA NextDataInv ==
    TypeOK /\ TypeOK' /\ Flight /\ DataInv /\ [Next]_vars => DataInv'
<1> SUFFICES ASSUME TypeOK, TypeOK', Flight, DataInv, [Next]_vars PROVE DataInv'
  OBVIOUS
<1> USE NobodyAssumption, GoneAssumption, PathsAssumption, TTLAssumption, MaxNowAssumption
    DEF TypeOK, PCs, Leading, Times, Copy, NoCopy, Paths, Flight, SingleFlight, WaitersHaveLeader,
        DataInv, StoreInv, CallerInv, Fits, Within, Waiters
<1>1. CASE Tick
  BY <1>1 DEF Tick
<1>2. ASSUME NEW c \in Callers, NEW p \in Paths, Bypass(c, p)
      PROVE DataInv'
  BY <1>2 DEF Bypass, Enter, IsCacheable
<1>3. ASSUME NEW c \in Callers, NEW p \in Paths, Hit(c, p)
      PROVE DataInv'
  BY <1>3 DEF Hit, Enter, IsCacheable
<1>4. ASSUME NEW c \in Callers, NEW p \in Paths, Miss(c, p)
      PROVE DataInv'
  BY <1>4 DEF Miss, Enter, IsCacheable
<1>5. ASSUME NEW c \in Callers, Join(c)
      PROVE DataInv'
  BY <1>5 DEF Join, Move, InFlight
<1>6. ASSUME NEW c \in Callers, Lead(c)
      PROVE DataInv'
  BY <1>6 DEF Lead, Move, InFlight
<1>7. ASSUME NEW c \in Callers, Respond(c)
      PROVE DataInv'
  BY <1>7 DEF Respond, Move
<1>8. ASSUME NEW c \in Callers, FetchFails(c)
      PROVE DataInv'
  BY <1>8 DEF FetchFails, Move
<1>9. ASSUME NEW c \in Callers, Put(c)
      PROVE DataInv'
  BY <1>9 DEF Put, Move, Stamp
<1>10. ASSUME NEW c \in Callers, FallBack(c)
       PROVE DataInv'
  BY <1>10 DEF FallBack, Move, FallbackUsable
<1>11. ASSUME NEW c \in Callers, Unregister(c)
       PROVE DataInv'
  BY <1>11 DEF Unregister, Move
<1>12. ASSUME NEW c \in Callers, Close(c)
       PROVE DataInv'
  BY <1>12 DEF Close
<1>13. ASSUME NEW c \in Callers, DirectRespond(c)
       PROVE DataInv'
  BY <1>13 DEF DirectRespond, Move
<1>14. ASSUME NEW c \in Callers, DirectFails(c)
       PROVE DataInv'
  BY <1>14 DEF DirectFails, Move
<1>15. ASSUME NEW c \in Callers, Return(c)
       PROVE DataInv'
  BY <1>15 DEF Return, Leave, Larger
<1>17. ASSUME NEW c \in Callers, Panics(c)
       PROVE DataInv'
  BY <1>17 DEF Panics, Leave, Lost
<1>16. CASE UNCHANGED vars
  BY <1>16 DEF vars
<1> QED
  BY <1>1, <1>2, <1>3, <1>4, <1>5, <1>6, <1>7, <1>8, <1>9, <1>10, <1>11, <1>12,
     <1>13, <1>14, <1>15, <1>16, <1>17 DEF Next, Step

LEMMA Invariants == Safety => [](TypeOK /\ Flight /\ DataInv)
<1>1. Init => TypeOK /\ Flight /\ DataInv
  BY InitTypeOK, InitFlight, InitDataInv
<1>2. (TypeOK /\ Flight /\ DataInv) /\ [Next]_vars => (TypeOK /\ Flight /\ DataInv)'
  BY NextTypeOK, NextFlight, NextDataInv
<1> QED
  BY <1>1, <1>2, PTL DEF Safety

\* No Get fails while a usable copy exists.
THEOREM FailsOnlyWithoutCopyHolds == Safety => []FailsOnlyWithoutCopy
<1>1. DataInv => FailsOnlyWithoutCopy
  BY DEF DataInv, CallerInv, Fits, FailsOnlyWithoutCopy
<1> QED
  BY <1>1, Invariants, PTL

\* No Get returns a copy that outlived the fallback before it began.
THEOREM ServedCopyAgeHolds == Safety => []ServedCopyAge
<1>1. DataInv => ServedCopyAge
  BY DEF DataInv, CallerInv, Fits, ServedCopyAge
<1> QED
  BY <1>1, Invariants, PTL

\* A path that is not cacheable is always read from VBR.
THEOREM VolatileIsFreshHolds == Safety => []VolatileIsFresh
<1>1. DataInv => VolatileIsFresh
  BY DEF DataInv, CallerInv, Fits, VolatileIsFresh
<1> QED
  BY <1>1, Invariants, PTL

------------------------------------------------------------------------------
\* Steps other than cachePut leave the cache alone, and cachePut replaces an
\* entry by one that is no older: the single flight is what makes it so.
LEMMA CacheStep ==
    ASSUME TypeOK, Flight, DataInv, Next
    PROVE  \A p \in Paths : cache'[p].at >= cache[p].at /\ cache'[p].snap >= cache[p].snap
<1> USE DEF TypeOK, Copy, Times, StoreInv, CallerInv, DataInv
<1>1. ASSUME NEW c \in Callers, Put(c)
      PROVE \A p \in Paths : cache'[p].at >= cache[p].at /\ cache'[p].snap >= cache[p].snap
  BY <1>1 DEF Put, Move, Stamp
<1>2. ASSUME UNCHANGED cache
      PROVE \A p \in Paths : cache'[p].at >= cache[p].at /\ cache'[p].snap >= cache[p].snap
  BY <1>2
<1>3. CASE Tick
  BY <1>2, <1>3 DEF Tick
<1>4. ASSUME NEW c \in Callers, NEW p \in Paths, Bypass(c, p) \/ Hit(c, p) \/ Miss(c, p)
      PROVE UNCHANGED cache
  BY <1>4 DEF Bypass, Hit, Miss, Enter
<1>5. ASSUME NEW c \in Callers, Step(c)
      PROVE Put(c) \/ UNCHANGED cache
  BY <1>5 DEF Step, Join, Lead, Respond, FetchFails, FallBack, Unregister, Close,
              DirectRespond, DirectFails, Panics, Return, Leave
<1> QED
  BY <1>1, <1>2, <1>3, <1>4, <1>5 DEF Next

\* No fetch, however slow, overwrites what a later one brought.
THEOREM CacheNeverRegressesHolds == Safety => CacheNeverRegresses
<1>1. (TypeOK /\ Flight /\ DataInv) /\ [Next]_vars =>
          [\A p \in Paths : cache'[p].at >= cache[p].at /\ cache'[p].snap >= cache[p].snap]_vars
  BY CacheStep DEF vars
<1> QED
  BY <1>1, Invariants, PTL DEF Safety, CacheNeverRegresses

------------------------------------------------------------------------------
\* The refinement of SnapshotReads: entering Get begins a read, which a hit
\* answers at once; the end of an exchange settles its reads; Return ends them,
\* and a panic abandons one.
Told == [c \in Callers |-> IF pc[c] = "got" THEN {res[c].snap} ELSE {}]

LEMMA InitReads == Init => Reads!Init
BY DEF Init, Reads!Init

\* An answer that fits a Get is one that its read may have.
LEMMA FittingAnswer ==
    ASSUME TypeOK, NEW c \in Callers, NEW r \in Copy, Fits(c, r)
    PROVE  {r.snap} \in Reads!Answers(floor[c])
<1>1. floor[c] \in Nat /\ now \in Nat /\ r.snap \in Nat
  BY DEF TypeOK, Copy, Times
<1>2. CASE r = NoCopy
  BY <1>2 DEF NoCopy, Reads!Answers
<1>3. CASE r # NoCopy
  <2>1. r.snap \in floor[c] .. now
    BY <1>1, <1>3 DEF Fits
  <2> QED
    BY <2>1 DEF Reads!Answers
<1> QED
  BY <1>2, <1>3

\* A step that brings callers to "got", with answers that fit, settles reads.
LEMMA SettleReads ==
    ASSUME TypeOK,
           UNCHANGED <<now, newest, path, floor>>,
           \A c \in Callers : pc[c] = "got" => pc'[c] = "got" /\ res'[c] = res[c],
           \A c \in Callers : pc'[c] = "got" /\ pc[c] # "got" =>
                path[c] # Nobody /\ {res'[c].snap} \in Reads!Answers(floor[c])
    PROVE  Reads!Settle \/ UNCHANGED Reads!vars
<1> DEFINE settled == {c \in Callers : pc'[c] = "got" /\ pc[c] # "got"}
<1>1. settled \in SUBSET {c \in Callers : path[c] # Nobody /\ Told[c] = {}}
  BY DEF Told
<1>2. Told' = [c \in Callers |-> IF c \in settled THEN Told'[c] ELSE Told[c]]
  BY DEF Told
<1>3. \A c \in settled : Told'[c] \in Reads!Answers(floor[c])
  BY DEF Told
<1> QED
  BY <1>1, <1>2, <1>3 DEF Reads!Settle, Told

LEMMA StepReads ==
    ASSUME TypeOK, DataInv, [Next]_vars
    PROVE  [Reads!Next]_Reads!vars
<1> USE NobodyAssumption, PathsAssumption DEF TypeOK
<1>1. CASE Tick
  BY <1>1 DEF Tick, Reads!Next, Reads!Tick
<1>2. ASSUME NEW c \in Callers, NEW p \in Paths, Bypass(c, p) \/ Hit(c, p) \/ Miss(c, p)
      PROVE Reads!Begin(c, p)
  <2>1. PICK where \in {"direct", "got", "missed"}, body \in {NoCopy, cache[p]} :
            /\ Enter(c, p, where, body)
            /\ where = "got" => Hit(c, p) /\ body = cache[p]
    BY <1>2 DEF Bypass, Hit, Miss
  <2>2. PICK a \in {{}, {cache[p].snap}} :
            /\ Told' = [Told EXCEPT ![c] = a]
            /\ a = {} \/ Hit(c, p)
    BY <2>1 DEF Enter, Told
  <2>3. Hit(c, p) => {cache[p].snap} \in Reads!Answers(newest[p])
    BY DEF Hit, IsCacheable, DataInv, StoreInv, Reads!Answers, Copy, Times
  <2> QED
    BY <2>1, <2>2, <2>3 DEF Enter, Reads!Begin, Told
<1>3. ASSUME NEW c \in Callers, Return(c)
      PROVE Reads!Return(c)
  <2>1. Told[c] = {res[c].snap} /\ Told' = [Told EXCEPT ![c] = {}]
    BY <1>3 DEF Return, Leave, Told
  <2>2. newest' = [newest EXCEPT ![path[c]] = Reads!Larger(@, res[c].snap)]
    BY <1>3 DEF Return, Larger, Reads!Larger
  <2> QED
    BY <1>3, <2>1, <2>2 DEF Return, Leave, Reads!Return, Told
<1>4. ASSUME NEW c \in Callers, Close(c)
      PROVE Reads!Settle \/ UNCHANGED Reads!vars
  <2>1. \A f \in Waiters(c) \cup {c} :
            f \in Callers /\ path[f] # Nobody /\ {res[c].snap} \in Reads!Answers(floor[f])
    BY <1>4, FittingAnswer DEF Close, Waiters, DataInv, CallerInv
  <2> QED
    BY <1>4, <2>1, SettleReads DEF Close, Waiters
<1>5. ASSUME NEW c \in Callers, DirectRespond(c) \/ DirectFails(c)
      PROVE Reads!Settle \/ UNCHANGED Reads!vars
  <2>1. floor[c] <= now /\ path[c] # Nobody /\ res[c].snap = 0
    BY <1>5 DEF DirectRespond, DirectFails, Move, DataInv, StoreInv, CallerInv, NoCopy, Times
  <2>2. {res'[c].snap} \in Reads!Answers(floor[c])
    BY <1>5, <2>1 DEF DirectRespond, DirectFails, Move, Reads!Answers, Times
  <2> QED
    BY <1>5, <2>1, <2>2, SettleReads DEF DirectRespond, DirectFails, Move
<1>6. ASSUME NEW c \in Callers,
             Join(c) \/ Lead(c) \/ Respond(c) \/ FetchFails(c) \/ Put(c) \/ FallBack(c) \/ Unregister(c)
      PROVE UNCHANGED Reads!vars
  <2>1. PICK to \in PCs \ {"got"} : \E from \in PCs \ {"got"} : Move(c, from, to)
    BY <1>6 DEF Join, Lead, Respond, FetchFails, Put, FallBack, Unregister, PCs, Leading
  <2>2. \A f \in Callers : pc'[f] = "got" <=> pc[f] = "got"
    BY <2>1 DEF Move
  <2>3. \A f \in Callers : pc[f] = "got" => res'[f] = res[f]
    BY <1>6, <2>1 DEF Join, Lead, Respond, FetchFails, Put, FallBack, Unregister, Move
  <2> QED
    BY <2>1, <2>2, <2>3 DEF Move, Reads!vars
<1>8. ASSUME NEW c \in Callers, Panics(c)
      PROVE Reads!Abandon(c)
  <2>1. Told[c] = {} /\ Told' = Told
    BY <1>8 DEF Panics, Leave, Told
  <2> QED
    BY <1>8, <2>1 DEF Panics, Leave, Reads!Abandon, Told
<1>7. CASE UNCHANGED vars
  BY <1>7 DEF vars, Reads!vars
<1> QED
  BY <1>1, <1>2, <1>3, <1>4, <1>5, <1>6, <1>7, <1>8 DEF Next, Step, Reads!Next

\* Reads of a path never go back in time, whoever asks and whatever serves.
THEOREM MonotoneReadsHolds == Safety => MonotoneReads
<1>1. TypeOK /\ DataInv /\ [Next]_vars => [Reads!Next]_Reads!vars
  BY StepReads
<1> QED
  BY <1>1, InitReads, Invariants, PTL DEF Safety, MonotoneReads, Reads!Safety
==============================================================================
