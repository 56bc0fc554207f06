----------------------- MODULE EnvironmentVerdictProofs -----------------------
(***************************************************************************)
(* What the environment analysis says, for any sessions, servers,          *)
(* repositories and proxies: a job that is failing now comes first, what   *)
(* is kept of the window is within it, and the hours account for its data  *)
(* and for the time during which runs were active.                         *)
(***************************************************************************)
EXTENDS EnvironmentVerdict, FiniteSetTheorems, FunctionTheorems, SequenceTheorems,
        WellFoundedInduction, TLAPS

------------------------------------------------------------------------------
(* The inductive invariant.                                                *)

Results == {"Success", "Failed", "None"}

Early == {"window", "build", "none", "capacity", "reliability"}

\* The actions by their codes.
Codes == {"envNoData", "envRepo", "envProxy", "envSource", "envStagger", "envMeasure",
          "envFailing", "envHostDown", "envHostDownBare", "envPastFailures",
          "envSizing", "envWaits", "envSpace", "envStale"}

\* What the argument needs of TypeOK.
Types ==
    /\ pc \in Early \cup {"assess", "sizing", "finish", "done"}
    /\ heads \in Seq([name : Names, job : Jobs, result : Results])
    /\ seen = {heads[i].job : i \in DOMAIN heads}
    /\ failures \in [Names \X Messages -> [count : Nat, now : BOOLEAN]]
    /\ IsFiniteSet(DOMAIN down)
    /\ DOMAIN a = {"severity", "headline", "confidence", "peakBusy", "success", "fillDays"}
    /\ acts \in [Impacts -> Seq(Codes)]

\* A job fails now exactly if the map of FailuresOf says so of some group.
SomeFailed == \E i \in DOMAIN heads : heads[i].result = "Failed" /\ NewestOfJob(i)

NowIsLatest == FailingNow # {} <=> SomeFailed

\* Before AddReliability nothing says that a job fails ...
NotYet == pc \in Early => a.headline # "failing"

\* ... and from then on it is said if it is so, and comes first.
SaidFirst ==
    pc \notin Early =>
        /\ a.headline = "failing" <=> FailingNow # {}
        /\ FailingNow # {} =>
               a.severity = "critical" /\ Len(acts["high"]) > 0 /\ acts["high"][1] = "envFailing"

IInv == Types /\ NowIsLatest /\ NotYet /\ SaidFirst

USE DEF Results, Early

LEMMA ConcatType ==
    ASSUME NEW s \in Seq(Codes), NEW t \in Seq(Codes)
    PROVE  /\ s \o t \in Seq(Codes)
           /\ Len(s) > 0 => Len(s \o t) > 0 /\ (s \o t)[1] = s[1]
  OBVIOUS

\* What When returns.
LEMMA OneOrNone ==
    ASSUME NEW code \in Codes, NEW w, w = <<code>> \/ w = <<>>
    PROVE  w \in Seq(Codes)
<1>1. <<code>> \in Seq(Codes) /\ <<>> \in Seq(Codes)
  OBVIOUS
<1> QED
  BY <1>1, Zenon

LEMMA Implied == ASSUME IInv PROVE FailingNowFirst
<1> SUFFICES ASSUME pc = "done"
             PROVE  /\ SomeFailed => a.headline = "failing"
                    /\ a.headline = "failing" =>
                          /\ a.severity = "critical" /\ Ranked[1] = "envFailing"
                          /\ KeptIdentifiers =>
                                \E i \in DOMAIN heads : heads[i].result = "Failed" /\ NewestOfName(i)
  BY DEF FailingNowFirst, SomeFailed
<1>1. SomeFailed <=> a.headline = "failing"
  BY DEF IInv, NowIsLatest, SaidFirst
<1>3. ASSUME KeptIdentifiers, SomeFailed
      PROVE  \E i \in DOMAIN heads : heads[i].result = "Failed" /\ NewestOfName(i)
  <2>1. PICK i \in DOMAIN heads : heads[i].result = "Failed" /\ NewestOfJob(i)
    BY <1>3 DEF SomeFailed
  <2>2. 1 .. i - 1 \subseteq DOMAIN heads
    BY DEF IInv, Types
  <2>3. NewestOfName(i)
    BY <1>3, <2>1, <2>2 DEF KeptIdentifiers, NewestOfName, NewestOfJob
  <2> QED
    BY <2>1, <2>3
<1>2. ASSUME a.headline = "failing" PROVE Ranked[1] = "envFailing"
  <2>1. \A impact \in Impacts : acts[impact] \in Seq(Codes)
    BY DEF IInv, Types
  <2>2. Len(acts["high"]) > 0 /\ acts["high"][1] = "envFailing"
    BY <1>2 DEF IInv, SaidFirst
  <2> DEFINE two == acts["high"] \o acts["hygiene"]
             three == two \o acts["medium"]
             four == three \o acts["verify"]
  <2>3. two \in Seq(Codes) /\ Len(two) > 0 /\ two[1] = "envFailing"
    <3>1. acts["high"] \in Seq(Codes) /\ acts["hygiene"] \in Seq(Codes)
      BY <2>1 DEF Impacts
    <3> QED
      BY <3>1, <2>2, ConcatType
  <2>4. three \in Seq(Codes) /\ Len(three) > 0 /\ three[1] = "envFailing"
    <3>1. acts["medium"] \in Seq(Codes)
      BY <2>1 DEF Impacts
    <3> HIDE DEF two
    <3> QED
      BY <3>1, <2>3, ConcatType
  <2>5. four \in Seq(Codes) /\ Len(four) > 0 /\ four[1] = "envFailing"
    <3>1. acts["verify"] \in Seq(Codes)
      BY <2>1 DEF Impacts
    <3> HIDE DEF three
    <3> QED
      BY <3>1, <2>4, ConcatType
  <2>6. Ranked = four \o acts["info"]
    BY DEF Ranked
  <2>7. acts["info"] \in Seq(Codes)
    BY <2>1 DEF Impacts
  <2> HIDE DEF four
  <2> QED
    BY <2>5, <2>6, <2>7, ConcatType
<1> QED
  BY <1>1, <1>2, <1>3 DEF IInv, SaidFirst

------------------------------------------------------------------------------
(* The beginning.                                                          *)

LEMMA InitInv == Init => IInv
<1> SUFFICES ASSUME Init PROVE IInv
  OBVIOUS
<1>1. Types
  <2>1. IsFiniteSet(DOMAIN down)
    <3>1. down \in Seq(BOOLEAN) /\ Len(down) = 0
      BY EmptySeq DEF Init
    <3>2. DOMAIN down = 1 .. 0
      BY <3>1, LenProperties
    <3> QED
      BY <3>2, FS_Interval
  <2>2. failures \in [Names \X Messages -> [count : Nat, now : BOOLEAN]]
    BY DEF Init, NoFailures
  <2>3. DOMAIN a = {"severity", "headline", "confidence", "peakBusy", "success", "fillDays"}
    BY DEF Init, NoAssessment
  <2>4. acts \in [Impacts -> Seq(Codes)]
    <3>1. <<>> \in Seq(Codes)
      OBVIOUS
    <3> QED
      BY <3>1 DEF Init, NoActions
  <2>5. /\ pc \in Early
        /\ heads \in Seq([name : Names, job : Jobs, result : Results])
        /\ seen = {heads[i].job : i \in DOMAIN heads}
    BY DEF Init
  <2> QED
    BY <2>1, <2>2, <2>3, <2>4, <2>5 DEF Types
<1>2. FailingNow = {}
  BY DEF Init, FailingNow, NoFailures
<1>3. ~ SomeFailed
  BY DEF Init, SomeFailed
<1> QED
  BY <1>1, <1>2, <1>3 DEF Init, IInv, NowIsLatest, NotYet, SaidFirst, NoAssessment

------------------------------------------------------------------------------
(* The sessions of the window.                                             *)

\* A session that is read is the newest of its job if none of the job was.
LEMMA HeadsRead ==
    ASSUME Types, NEW s, s.job \in Jobs, s.name \in Names, s.result \in Results, ReadSession(s)
    PROVE  /\ heads' \in Seq([name : Names, job : Jobs, result : Results])
           /\ seen' = {heads'[i].job : i \in DOMAIN heads'}
           /\ SomeFailed' <=> SomeFailed \/ (s.result = "Failed" /\ s.job \notin seen)
<1> DEFINE Heads == [name : Names, job : Jobs, result : Results]
           h == [name |-> s.name, job |-> s.job, result |-> s.result]
           there == \E i \in DOMAIN heads : heads[i].name = s.name /\ heads[i].job = s.job
<1>1. heads \in Seq(Heads) /\ seen = {heads[i].job : i \in DOMAIN heads}
  BY DEF Types
<1>2. seen' = seen \cup {s.job} /\ heads' = IF there THEN heads ELSE Append(heads, h)
  BY DEF ReadSession
<1>3. CASE there
  <2>1. heads' = heads /\ s.job \in seen
    BY <1>1, <1>2, <1>3
  <2> QED
    BY <1>1, <1>2, <2>1 DEF SomeFailed, NewestOfJob
<1>4. CASE ~ there
  <2> DEFINE n == Len(heads) + 1
  <2>1. h \in Heads /\ h.job = s.job /\ h.result = s.result
    OBVIOUS
  <2> HIDE DEF h
  <2>2. heads' = Append(heads, h)
    BY <1>2, <1>4
  <2>3. /\ heads' \in Seq(Heads) /\ DOMAIN heads' = DOMAIN heads \cup {n}
        /\ n \notin DOMAIN heads /\ heads'[n] = h
        /\ \A i \in DOMAIN heads : heads'[i] = heads[i]
        /\ DOMAIN heads = 1 .. n - 1 /\ n \in Nat
    BY <1>1, <2>1, <2>2, AppendProperties
  <2>4. \A i \in DOMAIN heads : 1 .. i - 1 \subseteq DOMAIN heads
    BY <2>3
  <2>5. \A i \in DOMAIN heads : NewestOfJob(i)' <=> NewestOfJob(i)
    BY <2>3, <2>4 DEF NewestOfJob
  <2>6. (\A k \in 1 .. n - 1 : heads'[k].job # heads'[n].job) <=> s.job \notin seen
    BY <1>1, <2>1, <2>3
  <2>7. SomeFailed' <=> \/ \E i \in DOMAIN heads : heads'[i].result = "Failed" /\ NewestOfJob(i)'
                        \/ /\ heads'[n].result = "Failed"
                           /\ \A k \in 1 .. n - 1 : heads'[k].job # heads'[n].job
    BY <2>3 DEF SomeFailed, NewestOfJob
  <2>8. SomeFailed' <=> SomeFailed \/ (s.result = "Failed" /\ s.job \notin seen)
    BY <2>1, <2>3, <2>5, <2>6, <2>7 DEF SomeFailed
  <2>9. seen' = {heads'[i].job : i \in DOMAIN heads'}
    BY <1>1, <1>2, <2>1, <2>3
  <2> QED
    BY <2>3, <2>8, <2>9
<1> QED
  BY <1>3, <1>4

LEMMA ReadInv ==
    ASSUME ConstantsOK, IInv, pc = "window", NEW s \in Sessions, ReadSession(s)
    PROVE  IInv'
<1>1. /\ s.job \in Jobs /\ s.name \in Names /\ s.result \in Results
      /\ s.result = "Failed" => s.message \in Messages
  BY DEF ConstantsOK
<1>3. /\ heads' \in Seq([name : Names, job : Jobs, result : Results])
      /\ seen' = {heads'[i].job : i \in DOMAIN heads'}
      /\ SomeFailed' <=> SomeFailed \/ (s.result = "Failed" /\ s.job \notin seen)
  BY <1>1, HeadsRead DEF IInv
<1>5. CASE s.result = "Failed"
  <2> DEFINE key == <<s.name, s.message>>
  <2>0. key \in Names \X Messages
    BY <1>1, <1>5
  <2>1. failures' = [failures EXCEPT ![key] =
                        [count |-> failures[key].count + 1, now |-> failures[key].now \/ s.job \notin seen]]
    BY <1>5 DEF ReadSession, CountFailure
  <2>2. failures[key].count \in Nat /\ failures[key].now \in BOOLEAN
    BY <2>0 DEF IInv, Types
  <2>3. failures' \in [Names \X Messages -> [count : Nat, now : BOOLEAN]]
    <3>1. [count |-> failures[key].count + 1, now |-> failures[key].now \/ s.job \notin seen]
              \in [count : Nat, now : BOOLEAN]
      BY <2>2
    <3> QED
      BY <2>0, <2>1, <3>1 DEF IInv, Types
  <2>4. \A k \in Names \X Messages : failures'[k].now <=> failures[k].now \/ (k = key /\ s.job \notin seen)
    BY <2>0, <2>1, <2>2 DEF IInv, Types
  <2>5. DOMAIN failures = Names \X Messages /\ DOMAIN failures' = Names \X Messages
    BY <2>3 DEF IInv, Types
  <2>6. FailingNow' = FailingNow \cup (IF s.job \notin seen THEN {key} ELSE {})
    BY <2>0, <2>4, <2>5 DEF FailingNow
  <2>7. NowIsLatest'
    BY <1>3, <1>5, <2>6 DEF IInv, NowIsLatest
  <2> QED
    BY <1>3, <2>3, <2>7 DEF IInv, Types, NotYet, SaidFirst, ReadSession
<1>6. CASE s.result # "Failed"
  <2>1. failures' = failures /\ FailingNow' = FailingNow
    BY <1>6 DEF ReadSession, CountFailure, FailingNow
  <2>2. NowIsLatest'
    BY <1>3, <1>6, <2>1 DEF IInv, NowIsLatest
  <2> QED
    BY <1>3, <2>1, <2>2 DEF IInv, Types, NotYet, SaidFirst, ReadSession
<1> QED
  BY <1>5, <1>6

LEMMA WindowReadInv == ASSUME ConstantsOK, IInv, WindowRead PROVE IInv'
<1>1. IsFiniteSet(DOMAIN down')
  <2>1. down' \in Seq(BOOLEAN)
    BY DEF WindowRead, ConstantsOK
  <2>2. Len(down') \in Nat /\ DOMAIN down' = 1 .. Len(down')
    BY <2>1, LenProperties
  <2> QED
    BY <2>2, FS_Interval
<1>2. FailingNow' = FailingNow
  BY DEF WindowRead, FailingNow
<1> QED
  BY <1>1, <1>2 DEF IInv, Types, NowIsLatest, SomeFailed, NewestOfJob, NotYet, SaidFirst, WindowRead

------------------------------------------------------------------------------
(* The assessment.                                                         *)

\* A step within the part of Build that comes before AddReliability.
LEMMA EarlyStep ==
    ASSUME IInv, pc \in Early, pc' \in Early, UNCHANGED sessions,
           DOMAIN a' = DOMAIN a, a'.headline # "failing", acts' \in [Impacts -> Seq(Codes)],
           UNCHANGED down
    PROVE  IInv'
<1>1. FailingNow' = FailingNow
  BY DEF sessions, FailingNow
<1> QED
  BY <1>1 DEF IInv, Types, NowIsLatest, SomeFailed, NewestOfJob, NotYet, SaidFirst, sessions

LEMMA BuildInv ==
    ASSUME IInv, NothingToSay \/ ReliabilityOnly \/ BuildAssessment
    PROVE  IInv'
<1>1. acts \in [Impacts -> Seq(Codes)] /\ (a.headline # "failing" \/ pc \notin Early)
  BY DEF IInv, Types, NotYet
<1>2. CASE NothingToSay
  BY <1>1, <1>2, EarlyStep DEF NothingToSay, sessions, IInv, Types
<1>3. CASE ReliabilityOnly
  <2>1. DOMAIN a' = DOMAIN a /\ a'.headline = "nodata"
    BY <1>3 DEF ReliabilityOnly, IInv, Types
  <2> QED
    BY <1>1, <1>3, <2>1, EarlyStep DEF ReliabilityOnly, sessions, IInv, Types
<1>4. CASE BuildAssessment
  <2>1. pc = "build"
    BY <1>4 DEF BuildAssessment
  <2>2. PICK stage, peak, hottest, h : Thin(stage, peak) \/ Judge(stage, peak, hottest, h)
    BY <1>4 DEF BuildAssessment
  <2>3. CASE Thin(stage, peak)
    <3>1. DOMAIN a' = DOMAIN a /\ a'.headline \in {"nodata", "thin"}
      BY <2>3 DEF Thin, IInv, Types
    <3>2. acts' \in [Impacts -> Seq(Codes)]
      <4>1. <<"envNoData">> \in Seq(Codes)
        BY OneOrNone DEF Codes
      <4> QED
        BY <1>1, <2>1, <2>3, <4>1 DEF Thin, Impacts
    <3> QED
      BY <2>1, <2>3, <3>1, <3>2, EarlyStep DEF Thin, sessions
  <2>4. CASE Judge(stage, peak, hottest, h)
    <3>1. DOMAIN a' = DOMAIN a /\ a'.headline \in {"bound", "spread"}
      BY <2>4 DEF Judge, IInv, Types
    <3>2. acts' \in [Impacts -> Seq(Codes)]
      <4> DEFINE hot == hottest # <<>> /\ Concentrates(hottest)
                 repo == When(hot /\ hottest[1] = "repository", "envRepo")
                 proxy == When(hot /\ hottest[1] = "proxy", "envProxy")
                 source == When(stage = "Source" /\ Recurs(stage), "envSource")
                 medium == When(Crowded(h), "envStagger")
                 nodata == When(NoDataJobs # {}, "envNoData")
      <4>1. acts' = [acts EXCEPT !["high"] = repo \o proxy \o source, !["medium"] = medium,
                                 !["verify"] = nodata \o <<"envMeasure">>]
        BY <2>4 DEF Judge
      <4> HIDE DEF hot
      <4>2. /\ repo = <<"envRepo">> \/ repo = <<>>
            /\ proxy = <<"envProxy">> \/ proxy = <<>>
            /\ source = <<"envSource">> \/ source = <<>>
            /\ medium = <<"envStagger">> \/ medium = <<>>
            /\ nodata = <<"envNoData">> \/ nodata = <<>>
        BY Zenon DEF When
      <4> HIDE DEF repo, proxy, source, medium, nodata
      <4>3. /\ repo \in Seq(Codes) /\ proxy \in Seq(Codes) /\ source \in Seq(Codes)
            /\ medium \in Seq(Codes) /\ nodata \in Seq(Codes) /\ <<"envMeasure">> \in Seq(Codes)
        BY <4>2, OneOrNone DEF Codes
      <4>4. repo \o proxy \o source \in Seq(Codes) /\ nodata \o <<"envMeasure">> \in Seq(Codes)
        BY <4>3, ConcatType
      <4> QED
        BY <1>1, <2>1, <4>1, <4>3, <4>4 DEF Impacts
    <3> QED
      BY <2>1, <2>4, <3>1, <3>2, EarlyStep DEF Judge, sessions
  <2> QED
    BY <2>2, <2>3, <2>4
<1> QED
  BY <1>2, <1>3, <1>4

LEMMA CapacityInv ==
    ASSUME IInv, pc = "capacity", NEW states \in RepoStates, AddCapacity(states)
    PROVE  IInv'
<1>1. DOMAIN a' = DOMAIN a /\ a'.headline = a.headline
  BY DEF AddCapacity, IInv, Types
<1>2. a.headline # "failing"
  BY DEF IInv, NotYet
<1> QED
  BY <1>1, <1>2, EarlyStep DEF AddCapacity, sessions, IInv, Types

------------------------------------------------------------------------------
(* AddReliability, and what is found after it.                             *)

LEMMA HostActionsType == ASSUME IInv, NEW hosted \in BOOLEAN PROVE HostActions(hosted) \in Seq(Codes)
<1> DEFINE hosts == {i \in DOMAIN down : down[i] = hosted}
           code == IF hosted THEN "envHostDown" ELSE "envHostDownBare"
<1>1. IsFiniteSet(DOMAIN down)
  BY DEF IInv, Types
<1>2. Cardinality(hosts) \in Nat
  BY <1>1, FS_Subset, FS_CardinalityType
<1>3. HostActions(hosted) = [i \in 1 .. Cardinality(hosts) |-> code]
  BY DEF HostActions
<1>4. code \in Codes
  BY DEF Codes
<1> HIDE DEF hosts, code
<1> QED
  BY <1>2, <1>3, <1>4

LEMMA NoneType == None \in [Impacts -> Seq(Codes)]
<1>1. <<>> \in Seq(Codes)
  OBVIOUS
<1> QED
  BY <1>1 DEF None

LEMMA ReliabilityInv == ASSUME IInv, AddReliability PROVE IInv'
<1> DEFINE failing == When(FailingNow # {}, "envFailing")
           past == When(FailingNow = {} /\ failed > 0, "envPastFailures")
           high == failing \o HostActions(TRUE)
           medium == past \o HostActions(FALSE)
           found == [None EXCEPT !["high"] = high, !["medium"] = medium]
<1>1. /\ FailingNow # {} => failing = <<"envFailing">>
      /\ failing = <<"envFailing">> \/ failing = <<>>
      /\ past = <<"envPastFailures">> \/ past = <<>>
  BY Zenon DEF When
<1>2. high \in Seq(Codes) /\ medium \in Seq(Codes) /\ (FailingNow # {} => Len(high) > 0 /\ high[1] = "envFailing")
  <2>1. HostActions(TRUE) \in Seq(Codes) /\ HostActions(FALSE) \in Seq(Codes)
    BY HostActionsType
  <2> HIDE DEF failing, past
  <2>2. failing \in Seq(Codes) /\ past \in Seq(Codes)
    BY <1>1, OneOrNone DEF Codes
  <2>3. FailingNow # {} => Len(failing) > 0 /\ failing[1] = "envFailing"
    BY <1>1
  <2> QED
    BY <2>1, <2>2, <2>3, ConcatType
<1>3. acts' = Prepend(found)
  BY DEF AddReliability
<1> HIDE DEF high, medium
<1>4. found \in [Impacts -> Seq(Codes)] /\ found["high"] = high
  BY <1>2, NoneType DEF Impacts
<1> HIDE DEF found
<1>5. acts \in [Impacts -> Seq(Codes)]
  BY DEF IInv, Types
<1>6. acts' \in [Impacts -> Seq(Codes)]
  BY <1>3, <1>4, <1>5 DEF Prepend
<1>7. FailingNow # {} => Len(acts'["high"]) > 0 /\ acts'["high"][1] = "envFailing"
  <2>1. acts'["high"] = high \o acts["high"] /\ acts["high"] \in Seq(Codes)
    BY <1>3, <1>4, <1>5 DEF Prepend, Impacts
  <2> QED
    BY <1>2, <2>1, ConcatType
<1>8. /\ DOMAIN a' = DOMAIN a
      /\ a'.headline = IF FailingNow # {} THEN "failing" ELSE a.headline
      /\ a'.severity = IF FailingNow # {} THEN "critical" ELSE a.severity
  BY DEF AddReliability, IInv, Types
<1>9. a.headline # "failing"
  BY DEF AddReliability, IInv, NotYet
<1>10. FailingNow' = FailingNow
  BY DEF AddReliability, sessions, FailingNow
<1> QED
  BY <1>6, <1>7, <1>8, <1>9, <1>10 DEF AddReliability, sessions, IInv, Types, NowIsLatest, SomeFailed, NewestOfJob, NotYet, SaidFirst

\* What is found later goes after what was found before.
LEMMA ExtendInv ==
    ASSUME IInv, pc \notin Early, pc' \in {"finish", "done"}, UNCHANGED <<sessions, a>>,
           NEW found \in [Impacts -> Seq(Codes)], acts' = Extend(found)
    PROVE  IInv'
<1>1. acts \in [Impacts -> Seq(Codes)]
  BY DEF IInv, Types
<1>2. acts' \in [Impacts -> Seq(Codes)] /\ acts'["high"] = acts["high"] \o found["high"]
  BY <1>1 DEF Extend, PutAfter, Impacts
<1>3. Len(acts["high"]) > 0 => Len(acts'["high"]) > 0 /\ acts'["high"][1] = acts["high"][1]
  BY <1>1, <1>2, SMTT(30) DEF Impacts
<1>4. FailingNow' = FailingNow
  BY DEF sessions, FailingNow
<1> QED
  BY <1>2, <1>3, <1>4 DEF sessions, IInv, Types, NowIsLatest, SomeFailed, NewestOfJob, NotYet, SaidFirst

LEMMA SizingInv ==
    ASSUME IInv, pc = "sizing", NEW proxies \in ProxyRows, AddSizing(proxies)
    PROVE  IInv'
<1>1. None \in [Impacts -> Seq(Codes)]
  BY NoneType
<1>2. PICK impact \in {"high", "medium"} :
          acts' = acts \/ acts' = Extend([None EXCEPT ![impact] = <<"envSizing">>])
  BY DEF AddSizing
<1>3. CASE acts' = acts
  <2>1. FailingNow' = FailingNow
    BY DEF AddSizing, sessions, FailingNow
  <2> QED
    BY <1>3, <2>1 DEF AddSizing, sessions, IInv, Types, NowIsLatest, SomeFailed, NewestOfJob, NotYet, SaidFirst
<1>4. CASE acts' = Extend([None EXCEPT ![impact] = <<"envSizing">>])
  <2>1. [None EXCEPT ![impact] = <<"envSizing">>] \in [Impacts -> Seq(Codes)]
    <3>1. <<"envSizing">> \in Seq(Codes)
      BY OneOrNone DEF Codes
    <3> QED
      BY <1>1, <3>1 DEF Impacts
  <2> QED
    BY <1>4, <2>1, ExtendInv DEF AddSizing
<1> QED
  BY <1>2, <1>3, <1>4

LEMMA FinishInv == ASSUME IInv, FinishActions PROVE IInv'
<1> DEFINE waits == WaitPct >= 10 /\ LongWait
           fills == a.fillDays \in 0 .. 29
           long == When(waits /\ WaitPct >= 25, "envWaits")
           soon == When(fills /\ a.fillDays < 7, "envSpace")
           some == When(waits /\ WaitPct < 25, "envWaits")
           stale == When(StaleVMs # {}, "envStale")
           later == When(fills /\ a.fillDays >= 7, "envSpace")
           high == long \o soon
           medium == some \o stale \o later
           found == [None EXCEPT !["high"] = high, !["medium"] = medium]
<1>1. acts' = Extend(found) /\ pc = "finish" /\ pc' = "done" /\ UNCHANGED <<sessions, a>>
  BY DEF FinishActions
<1>2. high \in Seq(Codes) /\ medium \in Seq(Codes)
  <2> HIDE DEF waits, fills
  <2>1. /\ long = <<"envWaits">> \/ long = <<>>
        /\ soon = <<"envSpace">> \/ soon = <<>>
        /\ some = <<"envWaits">> \/ some = <<>>
        /\ stale = <<"envStale">> \/ stale = <<>>
        /\ later = <<"envSpace">> \/ later = <<>>
    BY Zenon DEF When
  <2> HIDE DEF long, soon, some, stale, later
  <2>2. /\ long \in Seq(Codes) /\ soon \in Seq(Codes) /\ some \in Seq(Codes)
        /\ stale \in Seq(Codes) /\ later \in Seq(Codes)
    BY <2>1, OneOrNone DEF Codes
  <2> QED
    BY <2>2, ConcatType
<1> HIDE DEF high, medium
<1>3. found \in [Impacts -> Seq(Codes)]
  BY <1>2, NoneType DEF Impacts
<1> HIDE DEF found
<1> QED
  BY <1>1, <1>3, ExtendInv

------------------------------------------------------------------------------
(* The theorem.                                                            *)

LEMMA StepInv == ASSUME ConstantsOK, IInv, [Next]_vars PROVE IInv'
<1>1. CASE UNCHANGED vars
  BY <1>1 DEF vars, IInv, Types, NowIsLatest, SomeFailed, NewestOfJob, NotYet, SaidFirst, FailingNow
<1>2. CASE Next
  BY <1>2, ReadInv, WindowReadInv, BuildInv, CapacityInv, ReliabilityInv, SizingInv, FinishInv DEF Next
<1> QED
  BY <1>1, <1>2

\* reliability.go:135-137 and capacityplan.go:84-85: whatever the sessions of the
\* window, their order and what else is found, when the newest session of a job
\* failed the analysis says so, and when it says so it says it first; and where no
\* job came back under another identifier, it says so only then.
THEOREM FailingNowComesFirst == ASSUME ConstantsOK PROVE Spec => []FailingNowFirst
<1>1. Init => IInv
  BY InitInv
<1>2. IInv /\ [Next]_vars => IInv'
  BY StepInv
<1>3. IInv => FailingNowFirst
  BY Implied
<1> QED
  BY <1>1, <1>2, <1>3, PTL DEF Spec

------------------------------------------------------------------------------
(* Type correctness.                                                       *)

Severities == {"", "critical", "warn", "ok", "unknown"}
Confidences == {"", "observed", "low", "insufficient"}

\* What is left of TypeOK.  The records, the failures and what has not been read
\* are parts of the window; a group in which a job is failing has a failure.
Counts ==
    /\ left \in 0 .. MaxSessions
    /\ clock \in 0 .. Now
    /\ recs \in Seq(Sessions) /\ failed \in Nat
    /\ Len(recs) + failed + left <= MaxSessions

WindowInv ==
    /\ Counts
    /\ \A key \in Names \X Messages : failures[key].now => failures[key].count > 0
    /\ a.severity \in Severities /\ a.confidence \in Confidences
    /\ a.success \in -1 .. 100

LEMMA NowNat == ASSUME ConstantsOK PROVE Now \in Nat
<1>1. Days \in Nat /\ DayHours \in Nat /\ Hour \in Nat
  BY DEF ConstantsOK
<1>2. Days * DayHours \in Nat
  BY <1>1
<1> QED
  BY <1>1, <1>2 DEF Now

LEMMA TypesImplied == ASSUME ConstantsOK, IInv, WindowInv PROVE TypeOK
<1>1. Counts /\ MaxSessions \in Nat
  BY DEF WindowInv, ConstantsOK
<1>2. Len(recs) <= MaxSessions /\ failed <= MaxSessions /\ left \in 0 .. MaxSessions /\ clock \in 0 .. Now
  <2>1. Len(recs) \in Nat /\ failed \in Nat /\ left \in Nat
    BY <1>1, LenProperties DEF Counts
  <2> QED
    BY <1>1, <2>1 DEF Counts
<1>3. DOMAIN failures = Names \X Messages /\ DOMAIN acts = Impacts /\ seen \subseteq Jobs
  <2> DEFINE Heads == [name : Names, job : Jobs, result : Results]
  <2>0. heads \in Seq(Heads) /\ \A h \in Heads : h.job \in Jobs
    BY DEF IInv, Types
  <2> HIDE DEF Heads
  <2>1. \A i \in DOMAIN heads : heads[i].job \in Jobs
    BY <2>0
  <2>2. seen = {heads[i].job : i \in DOMAIN heads}
    BY DEF IInv, Types
  <2>3. seen \subseteq Jobs
    BY <2>1, <2>2
  <2>4. failures \in [Names \X Messages -> [count : Nat, now : BOOLEAN]] /\ acts \in [Impacts -> Seq(Codes)]
    BY DEF IInv, Types
  <2> QED
    BY <2>3, <2>4
<1>4. pc \in {"window", "build", "assess", "capacity", "reliability", "sizing", "finish", "done", "none"}
  BY DEF IInv, Types
<1>5. heads \in Seq([name : Names, job : Jobs, result : {"Success", "Failed", "None"}])
  BY DEF IInv, Types
<1> QED
  BY <1>2, <1>3, <1>4, <1>5, Zenon DEF WindowInv, TypeOK, Severities, Confidences

LEMMA WindowInit == ASSUME ConstantsOK, Init PROVE WindowInv
<1>1. recs \in Seq(Sessions) /\ Len(recs) = 0 /\ failed = 0
  BY EmptySeq DEF Init
<1>2. \A key \in Names \X Messages : ~ failures[key].now
  BY DEF Init, NoFailures
<1>3. a.severity \in Severities /\ a.confidence \in Confidences /\ a.success = -1
  BY DEF Init, NoAssessment, Severities, Confidences
<1>4. clock = Now /\ left \in 0 .. MaxSessions /\ MaxSessions \in Nat
  BY DEF Init, ConstantsOK
<1>5. Counts
  BY <1>1, <1>4, NowNat DEF Counts
<1>6. -1 \in -1 .. 100
  OBVIOUS
<1> QED
  BY <1>2, <1>3, <1>5, <1>6 DEF WindowInv

LEMMA WindowSession ==
    ASSUME ConstantsOK, IInv, WindowInv, pc = "window", left > 0,
           NEW s \in Sessions, s.start <= clock, ReadSession(s)
    PROVE  WindowInv'
<1>1. /\ s.job \in Jobs /\ s.name \in Names /\ s.start \in Nat
      /\ s.result = "Failed" => s.message \in Messages
  BY DEF ConstantsOK
<1>2. MaxSessions \in Nat /\ Now \in Nat
  BY NowNat DEF ConstantsOK
<1> DEFINE more == IF s.result = "Failed" THEN 1 ELSE 0
<1>3. /\ left' = left - 1 /\ clock' = s.start /\ failed' = failed + more /\ a' = a
      /\ recs' = IF s.data /\ s.result # "Failed" THEN Append(recs, s) ELSE recs
  BY DEF ReadSession
<1>4. /\ recs' \in Seq(Sessions) /\ Len(recs) \in Nat /\ Len(recs') \in Nat
      /\ Len(recs') + more <= Len(recs) + 1
  <2>1. recs \in Seq(Sessions) /\ Len(recs) \in Nat
    BY LenProperties DEF WindowInv, Counts
  <2>2. Append(recs, s) \in Seq(Sessions) /\ Len(Append(recs, s)) = Len(recs) + 1
    BY <2>1, AppendProperties
  <2>3. CASE recs' = recs /\ more \in {0, 1}
    BY <2>1, <2>3
  <2>4. CASE recs' = Append(recs, s) /\ more = 0
    BY <2>1, <2>2, <2>4
  <2> QED
    BY <1>3, <2>3, <2>4
<1>5. more \in {0, 1}
  OBVIOUS
<1> HIDE DEF more
<1>6. Counts'
  <2>1. /\ left' = left - 1 /\ clock' = s.start /\ failed' = failed + more
        /\ s.start \in Nat /\ s.start <= clock /\ left > 0 /\ Counts
    BY <1>1, <1>3 DEF WindowInv
  <2> QED
    BY <1>2, <1>4, <1>5, <2>1 DEF Counts
<1>7. \A key \in Names \X Messages : failures'[key].now => failures'[key].count > 0
  <2>1. /\ failures \in [Names \X Messages -> [count : Nat, now : BOOLEAN]]
        /\ \A key \in Names \X Messages : failures[key].now => failures[key].count > 0
    BY DEF IInv, Types, WindowInv
  <2>2. CASE s.result # "Failed"
    BY <2>1, <2>2 DEF ReadSession, CountFailure
  <2>3. CASE s.result = "Failed"
    <3> DEFINE group == <<s.name, s.message>>
               counted == [count |-> failures[group].count + 1,
                           now |-> failures[group].now \/ s.job \notin seen]
    <3>1. failures' = [failures EXCEPT ![group] = counted] /\ group \in Names \X Messages
      BY <1>1, <2>3 DEF ReadSession, CountFailure
    <3>2. counted.count > 0
      BY <2>1, <3>1
    <3> HIDE DEF counted, group
    <3> QED
      BY <2>1, <3>1, <3>2
  <2> QED
    BY <2>2, <2>3
<1> QED
  BY <1>3, <1>6, <1>7 DEF WindowInv

\* A part of a whole is at most all of it.
LEMMA PercentBound ==
    ASSUME NEW part \in Nat, NEW whole \in Nat, part <= whole
    PROVE  Percent(part, whole) \in 0 .. 100
<1>1. CASE whole = 0
  BY <1>1 DEF Percent
<1>2. CASE whole > 0
  <2> DEFINE x == 200 * part + whole
             d == 2 * whole
  <2>1. x \in Nat /\ d \in Nat /\ d > 0 /\ x < d * 101
    BY <1>2
  <2>2. Percent(part, whole) = x \div d
    BY <1>2 DEF Percent
  <2> HIDE DEF x, d
  <2>3. x \div d \in Nat /\ d * (x \div d) <= x
    BY <2>1
  <2>4. x \div d < 101
    BY <2>1, <2>3
  <2> QED
    BY <2>2, <2>3, <2>4
<1> QED
  BY <1>1, <1>2

\* What is judged does not change the window.
LEMMA WindowKept ==
    ASSUME WindowInv, UNCHANGED sessions,
           a'.severity \in Severities, a'.confidence \in Confidences, a'.success \in -1 .. 100
    PROVE  WindowInv'
  BY DEF WindowInv, Counts, sessions

LEMMA WindowLater ==
    ASSUME ConstantsOK, IInv, WindowInv,
           \/ WindowRead \/ NothingToSay \/ ReliabilityOnly \/ BuildAssessment
           \/ \E states \in RepoStates : AddCapacity(states)
           \/ AddReliability
           \/ \E known \in ProxyRows : AddSizing(known)
           \/ FinishActions
    PROVE  WindowInv'
<1>1. /\ a.severity \in Severities /\ a.confidence \in Confidences /\ a.success \in -1 .. 100
      /\ DOMAIN a = {"severity", "headline", "confidence", "peakBusy", "success", "fillDays"}
  BY DEF WindowInv, IInv, Types
<1>2. CASE WindowRead
  BY <1>2 DEF WindowInv, Counts, WindowRead
<1>3. CASE NothingToSay \/ (\E known \in ProxyRows : AddSizing(known)) \/ FinishActions
  BY <1>1, <1>3, WindowKept DEF NothingToSay, AddSizing, FinishActions
<1>4. CASE ReliabilityOnly
  BY <1>1, <1>4, WindowKept DEF ReliabilityOnly, Severities, Confidences
<1>5. CASE BuildAssessment
  <2>1. PICK stage, peak, hottest, h : Thin(stage, peak) \/ Judge(stage, peak, hottest, h)
    BY <1>5 DEF BuildAssessment
  <2>2. CASE Thin(stage, peak)
    BY <1>1, <2>2, WindowKept DEF Thin, Severities, Confidences
  <2>3. CASE Judge(stage, peak, hottest, h)
    <3>1. EnvConfidence(stage) \in Confidences
      BY Zenon DEF EnvConfidence, Confidences
    <3>2. /\ UNCHANGED sessions /\ a'.success = a.success /\ a'.confidence = EnvConfidence(stage)
          /\ a'.severity \in Severities
      BY <1>1, <2>3 DEF Judge, Severities
    <3> QED
      BY <1>1, <3>1, <3>2, WindowKept
  <2> QED
    BY <2>1, <2>2, <2>3
<1>6. CASE \E states \in RepoStates : AddCapacity(states)
  <2>1. UNCHANGED sessions /\ a'.severity = a.severity /\ a'.confidence = a.confidence /\ a'.success = a.success
    BY <1>1, <1>6 DEF AddCapacity
  <2> QED
    BY <1>1, <2>1, WindowKept
<1>7. CASE AddReliability
  <2> DEFINE completed == Len(recs)
  <2>1. completed \in Nat /\ failed \in Nat
    BY LenProperties DEF WindowInv, Counts
  <2>2. Percent(completed, completed + failed) \in -1 .. 100
    <3> HIDE DEF completed
    <3>1. completed + failed \in Nat /\ completed <= completed + failed
      BY <2>1
    <3>2. Percent(completed, completed + failed) \in 0 .. 100
      BY <2>1, <3>1, PercentBound
    <3> HIDE DEF Percent
    <3> QED
      BY <3>2
  <2>3. /\ UNCHANGED sessions /\ a'.confidence = a.confidence
        /\ a'.severity = a.severity \/ a'.severity = "critical"
        /\ a'.success = a.success \/ a'.success = Percent(completed, completed + failed)
    BY <1>1, <1>7 DEF AddReliability
  <2> QED
    BY <1>1, <2>2, <2>3, WindowKept DEF Severities
<1> QED
  BY <1>2, <1>3, <1>4, <1>5, <1>6, <1>7

LEMMA WindowStep == ASSUME ConstantsOK, IInv, WindowInv, [Next]_vars PROVE WindowInv'
<1>1. CASE UNCHANGED vars
  BY <1>1 DEF vars, WindowInv, Counts
<1> QED
  BY <1>1, WindowSession, WindowLater DEF Next

\* analysis.go, assessment.go and reliability.go: what is read of the window stays
\* within it, and the success rate is a percentage or not known.
THEOREM TypeCorrect == ASSUME ConstantsOK PROVE Spec => []TypeOK
<1>1. Init => IInv /\ WindowInv
  BY InitInv, WindowInit
<1>2. (IInv /\ WindowInv) /\ [Next]_vars => (IInv /\ WindowInv)'
  BY StepInv, WindowStep
<1>3. IInv /\ WindowInv => TypeOK
  BY TypesImplied
<1> QED
  BY <1>1, <1>2, <1>3, PTL DEF Spec

------------------------------------------------------------------------------
(* Induction.                                                              *)

\* A set of numbers has a least one.
LEMMA Least == ASSUME NEW T \in SUBSET Nat, T # {} PROVE \E x \in T : \A y \in T : x <= y
<1> DEFINE R == {ss \in Nat \X Nat : ss[1] < ss[2]}
<1>1. IsWellFoundedOn(R, Nat)
  BY NatLessThanWellFounded DEF OpToRel
<1>2. \A x, y \in Nat : <<x, y>> \in R <=> x < y
  OBVIOUS
<1> HIDE DEF R
<1>3. PICK x \in T : \A y \in T : ~ (<<y, x>> \in R)
  BY <1>1, WFMin
<1>4. ASSUME NEW y \in T PROVE x <= y
  <2>1. x \in Nat /\ y \in Nat /\ ~ (y < x)
    BY <1>2, <1>3
  <2> QED
    BY <2>1
<1> QED
  BY <1>3, <1>4

\* What holds of 0 and, below N, of n + 1 if of n, holds up to N.
LEMMA UpTo ==
    ASSUME NEW N \in Nat, NEW S, 0 \in S, \A n \in Nat : n < N /\ n \in S => n + 1 \in S
    PROVE  \A n \in 0 .. N : n \in S
<1> SUFFICES ASSUME NEW k \in 0 .. N, k \notin S PROVE FALSE
  OBVIOUS
<1>1. PICK x \in Nat : x \in 0 .. N /\ x \notin S /\ \A y \in 0 .. N : y \notin S => x <= y
  <2> DEFINE T == {n \in 0 .. N : n \notin S}
  <2>1. T \in SUBSET Nat /\ T # {}
    OBVIOUS
  <2>2. PICK x \in T : \A y \in T : x <= y
    BY <2>1, Least
  <2> QED
    BY <2>2
<1>2. x - 1 \in Nat /\ x - 1 < N /\ x - 1 \in 0 .. N
  BY <1>1
<1>3. x - 1 \in S
  BY <1>1, <1>2
<1> QED
  BY <1>1, <1>2, <1>3

------------------------------------------------------------------------------
(* Sums.                                                                   *)

\* The partial sums that Total adds up.
Sums(q) == CHOOSE sum : sum = [n \in 0 .. Len(q) |-> IF n = 0 THEN 0 ELSE sum[n - 1] + q[n]]

LEMMA TotalIs == \A q : Total(q) = Sums(q)[Len(q)]
  BY DEF Total, Sums

LEMMA SumsExist ==
    ASSUME NEW q, Len(q) \in Nat
    PROVE  Sums(q) = [n \in 0 .. Len(q) |-> IF n = 0 THEN 0 ELSE Sums(q)[n - 1] + q[n]]
<1> DEFINE IsSum(f, L) == f = [n \in 0 .. L |-> IF n = 0 THEN 0 ELSE f[n - 1] + q[n]]
           S == {L \in Nat : \E f : IsSum(f, L)}
<1>1. 0 \in S
  <2>1. IsSum([n \in 0 .. 0 |-> 0], 0)
    OBVIOUS
  <2> QED
    BY <2>1
<1>2. ASSUME NEW L \in Nat, L \in S PROVE L + 1 \in S
  <2>1. PICK f : IsSum(f, L)
    BY <1>2
  <2> DEFINE g == [n \in 0 .. L + 1 |-> IF n = 0 THEN 0 ELSE f[n - 1] + q[n]]
  <2>2. \A n \in 0 .. L : g[n] = f[n]
    BY <2>1
  <2>3. \A n \in 0 .. L + 1 : n # 0 => n - 1 \in 0 .. L
    OBVIOUS
  <2>4. IsSum(g, L + 1)
    BY <2>2, <2>3
  <2>5. \E h : IsSum(h, L + 1)
    BY <2>4
  <2> HIDE DEF IsSum
  <2> QED
    BY <2>5
<1> HIDE DEF S
<1>3. Len(q) \in S
  BY <1>1, <1>2, UpTo
<1> QED
  BY <1>3 DEF S, Sums

LEMMA SumsAre ==
    ASSUME NEW N \in Nat, NEW q \in [1 .. N -> Int]
    PROVE  /\ Len(q) = N /\ Sums(q)[0] = 0 /\ Total(q) = Sums(q)[N]
           /\ \A n \in 0 .. N : Sums(q)[n] \in Int
           /\ \A n \in Nat : n < N => Sums(q)[n + 1] = Sums(q)[n] + q[n + 1]
<1>1. Len(q) = N /\ q \in Seq(Int)
  OBVIOUS
<1>2. Sums(q) = [n \in 0 .. N |-> IF n = 0 THEN 0 ELSE Sums(q)[n - 1] + q[n]]
  BY <1>1, SumsExist
<1> DEFINE sum == Sums(q)
<1> HIDE DEF sum
<1>3. sum = [n \in 0 .. N |-> IF n = 0 THEN 0 ELSE sum[n - 1] + q[n]]
  BY <1>2 DEF sum
<1>4. sum[0] = 0 /\ \A n \in Nat : n < N => sum[n + 1] = sum[n] + q[n + 1]
  <2>1. \A n \in Nat : n < N => n + 1 \in 0 .. N /\ n + 1 # 0 /\ (n + 1) - 1 = n
    OBVIOUS
  <2>2. 0 \in 0 .. N
    OBVIOUS
  <2> QED
    BY <1>3, <2>1, <2>2
<1>5. \A n \in 0 .. N : sum[n] \in Int
  <2> DEFINE S == {n \in Nat : sum[n] \in Int}
  <2>1. 0 \in S
    BY <1>4
  <2>2. \A n \in Nat : n < N /\ n \in S => n + 1 \in S
    BY <1>4
  <2>3. \A n \in 0 .. N : n \in S
    <3> HIDE DEF S
    <3> QED
      BY <2>1, <2>2, UpTo
  <2> QED
    BY <2>3
<1> QED
  BY <1>1, <1>4, <1>5, TotalIs DEF sum

LEMMA SumOfSums ==
    ASSUME NEW N \in Nat, NEW x \in [1 .. N -> Int], NEW y \in [1 .. N -> Int], NEW z \in [1 .. N -> Int],
           \A n \in 1 .. N : z[n] = x[n] + y[n]
    PROVE  Total(z) = Total(x) + Total(y)
<1> DEFINE sx == Sums(x)
           sy == Sums(y)
           sz == Sums(z)
           S == {n \in Nat : sz[n] = sx[n] + sy[n]}
<1>1. /\ sx[0] = 0 /\ sy[0] = 0 /\ sz[0] = 0
      /\ \A n \in 0 .. N : sx[n] \in Int /\ sy[n] \in Int /\ sz[n] \in Int
      /\ \A n \in Nat : n < N => /\ sx[n + 1] = sx[n] + x[n + 1]
                                 /\ sy[n + 1] = sy[n] + y[n + 1]
                                 /\ sz[n + 1] = sz[n] + z[n + 1]
      /\ Total(x) = sx[N] /\ Total(y) = sy[N] /\ Total(z) = sz[N]
  <2>1. /\ sx[0] = 0 /\ Total(x) = sx[N] /\ \A n \in 0 .. N : sx[n] \in Int
        /\ \A n \in Nat : n < N => sx[n + 1] = sx[n] + x[n + 1]
    BY SumsAre
  <2>2. /\ sy[0] = 0 /\ Total(y) = sy[N] /\ \A n \in 0 .. N : sy[n] \in Int
        /\ \A n \in Nat : n < N => sy[n + 1] = sy[n] + y[n + 1]
    BY SumsAre
  <2>3. /\ sz[0] = 0 /\ Total(z) = sz[N] /\ \A n \in 0 .. N : sz[n] \in Int
        /\ \A n \in Nat : n < N => sz[n + 1] = sz[n] + z[n + 1]
    BY SumsAre
  <2> HIDE DEF sx, sy, sz
  <2> QED
    BY <2>1, <2>2, <2>3
<1> HIDE DEF sx, sy, sz
<1>2. 0 \in S
  BY <1>1
<1>3. \A n \in Nat : n < N /\ n \in S => n + 1 \in S
  <2> SUFFICES ASSUME NEW n \in Nat, n < N, n \in S PROVE n + 1 \in S
    OBVIOUS
  <2>1. n + 1 \in 1 .. N /\ n \in 0 .. N
    OBVIOUS
  <2>2. x[n + 1] \in Int /\ y[n + 1] \in Int /\ z[n + 1] = x[n + 1] + y[n + 1]
    BY <2>1
  <2>3. sx[n] \in Int /\ sy[n] \in Int
    BY <1>1, <2>1
  <2>4. sx[n + 1] = sx[n] + x[n + 1] /\ sy[n + 1] = sy[n] + y[n + 1] /\ sz[n + 1] = sz[n] + z[n + 1]
    BY <1>1, <2>1
  <2> QED
    BY <2>2, <2>3, <2>4
<1> HIDE DEF S
<1>4. N \in S
  <2>1. \A n \in 0 .. N : n \in S
    BY <1>2, <1>3, UpTo
  <2> QED
    BY <2>1
<1> QED
  BY <1>1, <1>4 DEF S

LEMMA SumMonotone ==
    ASSUME NEW N \in Nat, NEW x \in [1 .. N -> Int], NEW y \in [1 .. N -> Int],
           \A n \in 1 .. N : x[n] <= y[n]
    PROVE  Total(x) <= Total(y)
<1> DEFINE sx == Sums(x)
           sy == Sums(y)
           S == {n \in Nat : sx[n] <= sy[n]}
<1>1. /\ sx[0] = 0 /\ sy[0] = 0
      /\ \A n \in 0 .. N : sx[n] \in Int /\ sy[n] \in Int
      /\ \A n \in Nat : n < N => sx[n + 1] = sx[n] + x[n + 1] /\ sy[n + 1] = sy[n] + y[n + 1]
      /\ Total(x) = sx[N] /\ Total(y) = sy[N]
  <2>1. /\ sx[0] = 0 /\ Total(x) = sx[N] /\ \A n \in 0 .. N : sx[n] \in Int
        /\ \A n \in Nat : n < N => sx[n + 1] = sx[n] + x[n + 1]
    BY SumsAre
  <2>2. /\ sy[0] = 0 /\ Total(y) = sy[N] /\ \A n \in 0 .. N : sy[n] \in Int
        /\ \A n \in Nat : n < N => sy[n + 1] = sy[n] + y[n + 1]
    BY SumsAre
  <2> HIDE DEF sx, sy
  <2> QED
    BY <2>1, <2>2
<1> HIDE DEF sx, sy
<1>2. 0 \in S
  BY <1>1
<1>3. \A n \in Nat : n < N /\ n \in S => n + 1 \in S
  <2> SUFFICES ASSUME NEW n \in Nat, n < N, n \in S PROVE n + 1 \in S
    OBVIOUS
  <2>1. n + 1 \in 1 .. N /\ n \in 0 .. N
    OBVIOUS
  <2>2. x[n + 1] \in Int /\ y[n + 1] \in Int /\ x[n + 1] <= y[n + 1]
    BY <2>1
  <2>3. sx[n] \in Int /\ sy[n] \in Int
    BY <1>1, <2>1
  <2>4. sx[n + 1] = sx[n] + x[n + 1] /\ sy[n + 1] = sy[n] + y[n + 1] /\ sx[n] <= sy[n]
    BY <1>1, <2>1
  <2> QED
    BY <2>2, <2>3, <2>4
<1> HIDE DEF S
<1>4. N \in S
  <2>1. \A n \in 0 .. N : n \in S
    BY <1>2, <1>3, UpTo
  <2> QED
    BY <2>1
<1> QED
  BY <1>1, <1>4 DEF S

LEMMA SumOfEqual ==
    ASSUME NEW N \in Nat, NEW c \in Int
    PROVE  Total([n \in 1 .. N |-> c]) = N * c
<1> DEFINE x == [n \in 1 .. N |-> c]
           sx == Sums(x)
           S == {n \in Nat : sx[n] = n * c}
<1>1. x \in [1 .. N -> Int] /\ \A n \in 1 .. N : x[n] = c
  OBVIOUS
<1> HIDE DEF x
<1>2. /\ sx[0] = 0 /\ Total(x) = sx[N]
      /\ \A n \in Nat : n < N => sx[n + 1] = sx[n] + x[n + 1]
  BY <1>1, SumsAre
<1> HIDE DEF sx
<1>3. 0 \in S
  BY <1>2
<1>4. \A n \in Nat : n < N /\ n \in S => n + 1 \in S
  <2> SUFFICES ASSUME NEW n \in Nat, n < N, n \in S PROVE n + 1 \in S
    OBVIOUS
  <2>1. x[n + 1] = c
    BY <1>1
  <2>2. (n + 1) * c = n * c + c
    OBVIOUS
  <2> QED
    BY <1>2, <2>1, <2>2
<1> HIDE DEF S
<1>5. N \in S
  BY <1>3, <1>4, UpTo
<1> QED
  BY <1>2, <1>5 DEF S, x

------------------------------------------------------------------------------
(* The bytes of a run, over the hours.                                     *)

HoursKept == Days * DayHours

\* What a run adds to each hour.
Row(r) == [h \in 1 .. HoursKept |-> Share(r, h - 1)]

LEMMA HoursNat ==
    ASSUME ConstantsOK
    PROVE  HoursKept \in Nat /\ Hour \in Nat /\ Hour > 0 /\ Now = HoursKept * Hour /\ Hours = 0 .. HoursKept - 1
  BY DEF ConstantsOK, HoursKept, Now, Hours

LEMMA SessionTypes ==
    ASSUME ConstantsOK, NEW r \in Sessions
    PROVE  /\ r.start \in Nat /\ r.end \in Nat /\ r.bytes \in Nat
           /\ r.start < HoursKept * Hour /\ r.end <= HoursKept * Hour
  BY HoursNat DEF ConstantsOK

LEMMA Quotient ==
    ASSUME NEW x \in Nat, NEW d \in Nat, d > 0
    PROVE  x \div d \in Nat /\ d * (x \div d) <= x /\ x <= d * (x \div d) + d
  OBVIOUS

\* The part of a run that is over at the beginning of hour m.
Over(r, m) == Bigger(0, Smaller(r.end, m * Hour) - r.start)

\* A run that is spread gives an hour the part that falls into it, rounded down.
LEMMA SpreadShare ==
    ASSUME ConstantsOK, NEW r \in Sessions, Spreads(r), NEW m \in Nat
    PROVE  /\ Over(r, m) \in Nat /\ Over(r, m + 1) - Over(r, m) \in Nat
           /\ Share(r, m) = (r.bytes * (Over(r, m + 1) - Over(r, m))) \div (r.end - r.start)
<1> DEFINE begin == m * Hour
<1>1. begin \in Nat /\ (m + 1) * Hour = begin + Hour /\ Hour \in Nat /\ Hour > 0
  BY HoursNat
<1>2. r.start \in Nat /\ r.end \in Nat /\ r.bytes \in Nat /\ r.start < r.end
  BY SessionTypes DEF Spreads
<1>3. /\ Over(r, m) = Bigger(0, Smaller(r.end, begin) - r.start)
      /\ Over(r, m + 1) = Bigger(0, Smaller(r.end, begin + Hour) - r.start)
  BY <1>1 DEF Over
<1>4. /\ Clip(r, m).from = Bigger(r.start, begin)
      /\ Clip(r, m).to = Smaller(r.end, begin + Hour)
  BY <1>1 DEF Clip
<1> DEFINE from == Clip(r, m).from
           to == Clip(r, m).to
           share == (r.bytes * (to - from)) \div (r.end - r.start)
<1>5. Share(r, m) = IF from < to THEN share ELSE 0
  BY DEF Share, Touches
<1> HIDE DEF begin, from, to
<1>6. Over(r, m) \in Nat /\ Over(r, m + 1) - Over(r, m) = IF from < to THEN to - from ELSE 0
  BY <1>1, <1>2, <1>3, <1>4 DEF Bigger, Smaller, from, to
<1>7. from \in Int /\ to \in Int
  BY <1>1, <1>2, <1>4 DEF Bigger, Smaller, from, to
<1>8. CASE from < to
  BY <1>5, <1>6, <1>7, <1>8
<1>9. CASE ~ from < to
  <2>1. r.bytes * 0 = 0 /\ 0 \div (r.end - r.start) = 0
    BY <1>2
  <2> QED
    BY <1>5, <1>6, <1>9, <2>1
<1> QED
  BY <1>8, <1>9

LEMMA RowType == ASSUME ConstantsOK, NEW r \in Sessions PROVE Row(r) \in [1 .. HoursKept -> Int]
<1>1. ASSUME NEW h \in 1 .. HoursKept PROVE Share(r, h - 1) \in Int
  <2>1. h - 1 \in Nat /\ r.bytes \in Nat /\ r.start \in Nat /\ r.end \in Nat
    BY SessionTypes, HoursNat
  <2>2. CASE Spreads(r)
    <3> DEFINE part == Over(r, (h - 1) + 1) - Over(r, h - 1)
    <3>1. part \in Nat /\ Share(r, h - 1) = (r.bytes * part) \div (r.end - r.start)
      BY <2>1, <2>2, SpreadShare
    <3>2. r.bytes * part \in Nat /\ r.end - r.start \in Nat /\ r.end - r.start > 0
      BY <2>1, <2>2, <3>1 DEF Spreads
    <3> QED
      BY <3>1, <3>2, Quotient
  <2>3. CASE ~ Spreads(r)
    BY <2>1, <2>3 DEF Share
  <2> QED
    BY <2>2, <2>3
<1> QED
  BY <1>1 DEF Row

\* The hours get all of it but for what each of them rounds down.
LEMMA RowSum ==
    ASSUME ConstantsOK, NEW r \in Sessions
    PROVE  Total(Row(r)) <= r.bytes /\ r.bytes <= Total(Row(r)) + HoursKept
<1> DEFINE s == Sums(Row(r))
           H == HoursKept
<1>1. /\ s[0] = 0 /\ Total(Row(r)) = s[H] /\ \A n \in 0 .. H : s[n] \in Int
      /\ \A m \in Nat : m < H => s[m + 1] = s[m] + Row(r)[m + 1]
  BY RowType, HoursNat, SumsAre
<1>2. \A m \in Nat : m < H => s[m + 1] = s[m] + Share(r, m)
  <2> SUFFICES ASSUME NEW m \in Nat, m < H PROVE s[m + 1] = s[m] + Share(r, m)
    OBVIOUS
  <2>1. m + 1 \in 1 .. H /\ (m + 1) - 1 = m
    BY HoursNat
  <2>2. Row(r)[m + 1] = Share(r, m)
    BY <2>1, Zenon DEF Row
  <2> QED
    BY <1>1, <2>2
<1> HIDE DEF s
<1>3. /\ r.start \in Nat /\ r.end \in Nat /\ r.bytes \in Nat /\ H \in Nat /\ Hour \in Nat /\ Hour > 0
      /\ r.start < H * Hour /\ r.end <= H * Hour
  BY SessionTypes, HoursNat
<1> HIDE DEF H
<1>4. CASE Spreads(r)
  <2> DEFINE dur == r.end - r.start
             over(m) == Over(r, m)
             S == {m \in Nat : dur * s[m] <= r.bytes * over(m) /\ r.bytes * over(m) <= dur * (s[m] + m)}
  <2>1. dur \in Nat /\ dur > 0
    BY <1>3, <1>4 DEF Spreads
  <2>2. over(0) = 0 /\ over(H) = dur
    BY <1>3, <1>4 DEF Over, Bigger, Smaller, Spreads
  <2>3. \A m \in Nat : over(m) \in Nat
    BY <1>4, SpreadShare
  <2>4. 0 \in S
    <3>1. dur * 0 = 0 /\ r.bytes * 0 = 0 /\ 0 + 0 = 0
      BY <1>3, <2>1
    <3> HIDE DEF dur, over
    <3> QED
      BY <1>1, <2>2, <3>1
  <2>5. ASSUME NEW m \in Nat, m < H, m \in S PROVE m + 1 \in S
    <3> DEFINE part == over(m + 1) - over(m)
               x == r.bytes * part
               share == x \div dur
    <3>1. part \in Nat /\ Share(r, m) = share
      BY <1>4, SpreadShare
    <3>2. x \in Nat
      BY <1>3, <3>1
    <3>3. share \in Nat /\ dur * share <= x /\ x <= dur * share + dur
      <4> HIDE DEF x, dur
      <4> QED
        BY <2>1, <3>2, Quotient
    <3>4. s[m + 1] = s[m] + share /\ s[m] \in Int
      BY <1>1, <1>2, <1>3, <2>5, <3>1
    <3>5. r.bytes * over(m + 1) = r.bytes * over(m) + x
      <4>1. over(m + 1) = over(m) + part /\ over(m) \in Nat /\ part \in Nat
        BY <2>3, <3>1
      <4> HIDE DEF part, over
      <4> QED
        BY <1>3, <4>1
    <3> HIDE DEF share, part, dur, x
    <3>6. /\ dur * s[m + 1] = dur * s[m] + dur * share
          /\ dur * (s[m + 1] + (m + 1)) = dur * (s[m] + m) + dur * share + dur
      BY <2>1, <3>3, <3>4
    <3>7. dur * s[m] \in Int /\ dur * share \in Int /\ r.bytes * over(m) \in Int /\ dur * (s[m] + m) \in Int
      BY <1>3, <2>1, <2>3, <3>3, <3>4
    <3>8. dur * s[m] <= r.bytes * over(m) /\ r.bytes * over(m) <= dur * (s[m] + m)
      BY <2>5
    <3> HIDE DEF over
    <3>9. dur * s[m + 1] <= r.bytes * over(m + 1) /\ r.bytes * over(m + 1) <= dur * (s[m + 1] + (m + 1))
      BY <2>1, <3>2, <3>3, <3>5, <3>6, <3>7, <3>8
    <3> QED
      BY <3>9
  <2> HIDE DEF S
  <2>6. \A n \in 0 .. H : n \in S
    BY <1>3, <2>4, <2>5, UpTo
  <2>7. H \in S
    BY <1>3, <2>6
  <2> HIDE DEF dur, over
  <2>8. dur * s[H] <= r.bytes * dur /\ r.bytes * dur <= dur * (s[H] + H) /\ s[H] \in Int
    BY <1>1, <1>3, <2>2, <2>7 DEF S
  <2> QED
    BY <1>1, <1>3, <2>1, <2>8 DEF H
<1>5. CASE ~ Spreads(r)
  <2> DEFINE k == r.start \div Hour
             S == {m \in Nat : s[m] = IF k < m THEN r.bytes ELSE 0}
  <2>1. k \in Nat /\ k < H
    <3>1. k \in Nat /\ Hour * k <= r.start
      BY <1>3, Quotient
    <3>2. Hour * k < Hour * H
      BY <1>3, <3>1
    <3> HIDE DEF k
    <3> QED
      BY <1>3, <3>1, <3>2
  <2>2. \A m : Share(r, m) = IF k = m THEN r.bytes ELSE 0
    BY <1>5 DEF Share
  <2> HIDE DEF k
  <2>3. 0 \in S
    BY <1>1, <2>1
  <2>4. ASSUME NEW m \in Nat, m < H, m \in S PROVE m + 1 \in S
    BY <1>2, <1>3, <2>1, <2>2, <2>4
  <2> HIDE DEF S
  <2>5. H \in S
    <3>1. \A n \in 0 .. H : n \in S
      BY <1>3, <2>3, <2>4, UpTo
    <3> QED
      BY <1>3, <3>1
  <2>6. s[H] = r.bytes
    BY <2>1, <2>5 DEF S
  <2> QED
    BY <1>1, <1>3, <2>6 DEF H
<1> QED
  BY <1>4, <1>5

------------------------------------------------------------------------------
(* The bytes of the window: the hours add up to the runs.                  *)

\* What the first n records leave in each hour.
Kept(n) == [h \in 1 .. HoursKept |-> Sums([i \in DOMAIN recs |-> Share(recs[i], h - 1)])[n]]

Rows == [i \in DOMAIN recs |-> Total(Row(recs[i]))]

LEMMA RecordTypes ==
    ASSUME ConstantsOK, recs \in Seq(Sessions)
    PROVE  /\ Len(recs) \in Nat /\ DOMAIN recs = 1 .. Len(recs)
           /\ \A i \in 1 .. Len(recs) : recs[i] \in Sessions
  BY LenProperties, ElementOfSeq

LEMMA SumOfNone == ASSUME NEW N \in Nat PROVE Total([n \in 1 .. N |-> 0]) = 0
<1>1. \A c \in Int : Total([n \in 1 .. N |-> c]) = N * c
  BY SumOfEqual
<1> QED
  BY <1>1

\* Adding up by hour is adding up by run.
LEMMA Exchange ==
    ASSUME ConstantsOK, recs \in Seq(Sessions)
    PROVE  Total([i \in 1 .. HoursKept |-> BucketBytes(i - 1)]) = Total(Rows)
<1> DEFINE H == HoursKept
           N == Len(recs)
           column(h) == [i \in DOMAIN recs |-> Share(recs[i], h - 1)]
           sum(h) == Sums(column(h))
           S == {n \in Nat : Total(Kept(n)) = Sums(Rows)[n]}
<1>1. N \in Nat /\ H \in Nat /\ DOMAIN recs = 1 .. N /\ \A i \in 1 .. N : recs[i] \in Sessions
  BY RecordTypes, HoursNat
<1>2. \A i \in 1 .. N : Row(recs[i]) \in [1 .. H -> Int]
  BY <1>1, RowType
<1>3. \A h \in 1 .. H : column(h) \in [1 .. N -> Int]
  <2> SUFFICES ASSUME NEW h \in 1 .. H, NEW i \in 1 .. N PROVE Share(recs[i], h - 1) \in Int
    BY <1>1
  <2>1. Row(recs[i])[h] = Share(recs[i], h - 1)
    BY Zenon DEF Row
  <2> QED
    BY <1>2, <2>1
<1>4. Rows \in [1 .. N -> Int]
  <2>1. \A i \in 1 .. N : Total(Row(recs[i])) \in Int
    BY <1>1, <1>2, SumsAre
  <2> QED
    BY <1>1, <2>1 DEF Rows
<1>5. \A h \in 1 .. H :
          /\ sum(h)[0] = 0 /\ BucketBytes(h - 1) = sum(h)[N] /\ \A n \in 0 .. N : sum(h)[n] \in Int
          /\ \A n \in Nat : n < N => sum(h)[n + 1] = sum(h)[n] + Share(recs[n + 1], h - 1)
  <2> SUFFICES ASSUME NEW h \in 1 .. H
               PROVE  /\ sum(h)[0] = 0 /\ BucketBytes(h - 1) = sum(h)[N] /\ \A n \in 0 .. N : sum(h)[n] \in Int
                      /\ \A n \in Nat : n < N => sum(h)[n + 1] = sum(h)[n] + Share(recs[n + 1], h - 1)
    OBVIOUS
  <2> DEFINE c == column(h)
  <2>1. c \in [1 .. N -> Int] /\ \A n \in 1 .. N : c[n] = Share(recs[n], h - 1)
    BY <1>1, <1>3
  <2>2. BucketBytes(h - 1) = Total(c)
    BY DEF BucketBytes
  <2> HIDE DEF c
  <2>3. /\ Sums(c)[0] = 0 /\ Total(c) = Sums(c)[N] /\ \A n \in 0 .. N : Sums(c)[n] \in Int
        /\ \A n \in Nat : n < N => Sums(c)[n + 1] = Sums(c)[n] + c[n + 1]
    BY <1>1, <2>1, SumsAre
  <2>4. \A n \in Nat : n < N => c[n + 1] = Share(recs[n + 1], h - 1)
    BY <1>1, <2>1
  <2> QED
    BY <2>2, <2>3, <2>4 DEF c
<1>6. \A n \in 0 .. N : Kept(n) \in [1 .. H -> Int] /\ \A h \in 1 .. H : Kept(n)[h] = sum(h)[n]
  BY <1>5 DEF Kept
<1>7. /\ Sums(Rows)[0] = 0 /\ Total(Rows) = Sums(Rows)[N]
      /\ \A n \in Nat : n < N => Sums(Rows)[n + 1] = Sums(Rows)[n] + Rows[n + 1]
  BY <1>1, <1>4, SumsAre
<1> HIDE DEF sum
<1>8. 0 \in S
  <2>1. \A h \in 1 .. H : Kept(0)[h] = 0
    <3>1. 0 \in 0 .. N
      BY <1>1
    <3> QED
      BY <1>5, <1>6, <3>1
  <2>2. Kept(0) = [h \in 1 .. H |-> 0]
    BY <1>1, <1>6, <2>1
  <2>3. Total(Kept(0)) = 0
    BY <1>1, <2>2, SumOfNone
  <2> QED
    BY <1>1, <1>7, <2>3
<1>9. ASSUME NEW n \in Nat, n < N, n \in S PROVE n + 1 \in S
  <2>1. n \in 0 .. N /\ n + 1 \in 0 .. N /\ n + 1 \in 1 .. N
    BY <1>1, <1>9
  <2> DEFINE row == Row(recs[n + 1])
             before == Kept(n)
             after == Kept(n + 1)
  <2>2. row \in [1 .. H -> Int] /\ before \in [1 .. H -> Int] /\ after \in [1 .. H -> Int]
    BY <1>2, <1>6, <2>1
  <2>3. \A h \in 1 .. H : row[h] = Share(recs[n + 1], h - 1)
    BY Zenon DEF Row
  <2>4. \A h \in 1 .. H : after[h] = before[h] + row[h]
    BY <1>5, <1>6, <1>9, <2>1, <2>3
  <2> HIDE DEF row, before, after
  <2>5. Total(after) = Total(before) + Total(row)
    BY <1>1, <2>2, <2>4, SumOfSums
  <2>6. Rows[n + 1] = Total(row)
    BY <1>1, <2>1 DEF Rows, row
  <2> QED
    BY <1>7, <1>9, <2>5, <2>6 DEF before, after
<1>10. N \in S
  <2> HIDE DEF S, N
  <2>1. \A n \in 0 .. N : n \in S
    BY <1>1, <1>8, <1>9, UpTo
  <2> QED
    BY <1>1, <2>1
<1>11. Kept(N) = [i \in 1 .. H |-> BucketBytes(i - 1)]
  <2>1. \A h \in 1 .. H : Kept(N)[h] = BucketBytes(h - 1)
    BY <1>1, <1>5, <1>6
  <2> QED
    BY <2>1 DEF Kept
<1> QED
  BY <1>7, <1>10, <1>11

LEMMA BytesKept ==
    ASSUME ConstantsOK, recs \in Seq(Sessions)
    PROVE  LET kept == Total([i \in 1 .. Days * DayHours |-> BucketBytes(i - 1)])
           IN  kept <= Bytes /\ Bytes - kept <= Len(recs) * Days * DayHours
<1> DEFINE H == HoursKept
           N == Len(recs)
           sizes == [i \in DOMAIN recs |-> recs[i].bytes]
           dropped == [i \in 1 .. N |-> H]
           most == [i \in 1 .. N |-> Rows[i] + H]
<1>1. N \in Nat /\ H \in Nat /\ DOMAIN recs = 1 .. N /\ \A i \in 1 .. N : recs[i] \in Sessions
  BY RecordTypes, HoursNat
<1>2. \A i \in 1 .. N : /\ Rows[i] = Total(Row(recs[i])) /\ Rows[i] \in Int
                        /\ sizes[i] = recs[i].bytes /\ sizes[i] \in Int
                        /\ Rows[i] <= sizes[i] /\ sizes[i] <= Rows[i] + H
  <2> SUFFICES ASSUME NEW i \in 1 .. N
               PROVE  /\ Rows[i] = Total(Row(recs[i])) /\ Rows[i] \in Int
                      /\ sizes[i] = recs[i].bytes /\ sizes[i] \in Int
                      /\ Rows[i] <= sizes[i] /\ sizes[i] <= Rows[i] + H
    OBVIOUS
  <2>1. Row(recs[i]) \in [1 .. H -> Int] /\ recs[i].bytes \in Nat
    BY <1>1, RowType, SessionTypes
  <2>2. Total(Row(recs[i])) \in Int
    BY <1>1, <2>1, SumsAre
  <2>3. Rows[i] = Total(Row(recs[i])) /\ sizes[i] = recs[i].bytes
    BY <1>1 DEF Rows
  <2> QED
    BY <1>1, <2>1, <2>2, <2>3, RowSum
<1>3. sizes \in [1 .. N -> Int] /\ Rows \in [1 .. N -> Int]
  BY <1>1, <1>2 DEF Rows
<1>4. dropped \in [1 .. N -> Int] /\ most \in [1 .. N -> Int]
  BY <1>1, <1>2
<1>5. Total(dropped) = N * H
  <2>1. \A c \in Int : Total([i \in 1 .. N |-> c]) = N * c
    BY <1>1, SumOfEqual
  <2> QED
    BY <1>1, <2>1
<1>6. \A i \in 1 .. N : dropped[i] = H /\ most[i] = Rows[i] + H
  OBVIOUS
<1>7. Bytes = Total(sizes)
  BY DEF Bytes
<1> HIDE DEF sizes, dropped, most, N, H
<1>8. Total(most) = Total(Rows) + Total(dropped)
  <2>1. \A i \in 1 .. N : most[i] = Rows[i] + dropped[i]
    BY <1>6
  <2> QED
    BY <1>1, <1>3, <1>4, <2>1, SumOfSums
<1>9. Total(Rows) <= Total(sizes) /\ Total(sizes) <= Total(most)
  <2>1. \A i \in 1 .. N : Rows[i] <= sizes[i] /\ sizes[i] <= most[i]
    BY <1>2, <1>6
  <2> QED
    BY <1>1, <1>3, <1>4, <2>1, SumMonotone
<1>10. Total(Rows) \in Int /\ Total(sizes) \in Int
  <2>1. N \in 0 .. N
    BY <1>1
  <2>2. Total(Rows) = Sums(Rows)[N] /\ \A n \in 0 .. N : Sums(Rows)[n] \in Int
    BY <1>1, <1>3, SumsAre
  <2>3. Total(sizes) = Sums(sizes)[N] /\ \A n \in 0 .. N : Sums(sizes)[n] \in Int
    BY <1>1, <1>3, SumsAre
  <2> QED
    BY <2>1, <2>2, <2>3
<1>11. N * H = Len(recs) * Days * DayHours
  <2>1. Days \in Nat /\ DayHours \in Nat /\ H = Days * DayHours
    BY DEF ConstantsOK, HoursKept, H
  <2> QED
    BY <1>1, <2>1 DEF N
<1>12. Total([i \in 1 .. Days * DayHours |-> BucketBytes(i - 1)]) = Total(Rows)
  BY Exchange DEF HoursKept
<1> QED
  BY <1>1, <1>5, <1>7, <1>8, <1>9, <1>10, <1>11, <1>12

------------------------------------------------------------------------------
(* The time in which runs are active: an enumeration by beginning.         *)

\* q lists the spans of T, none before one that begins earlier.
ByBeginning(q, T, n) ==
    /\ q \in [1 .. n -> T]
    /\ \A x \in T : \E i \in 1 .. n : q[i] = x
    /\ \A i \in 2 .. n : q[i - 1].from <= q[i].from

LEMMA Enumerable ==
    ASSUME NEW T, IsFiniteSet(T), \A x \in T : x.from \in Nat
    PROVE  \E q : ByBeginning(q, T, Cardinality(T))
<1> DEFINE S == {n \in Nat : \A U \in SUBSET T : Cardinality(U) = n => \E q : ByBeginning(q, U, n)}
<1>1. Cardinality(T) \in Nat
  BY FS_CardinalityType
<1>2. 0 \in S
  <2> SUFFICES ASSUME NEW U \in SUBSET T, Cardinality(U) = 0 PROVE \E q : ByBeginning(q, U, 0)
    OBVIOUS
  <2>1. U = {}
    BY FS_Subset, FS_EmptySet
  <2>2. ByBeginning([i \in 1 .. 0 |-> 0], U, 0)
    BY <2>1 DEF ByBeginning
  <2> QED
    BY <2>2
<1>3. ASSUME NEW n \in Nat, n \in S PROVE n + 1 \in S
  <2> SUFFICES ASSUME NEW U \in SUBSET T, Cardinality(U) = n + 1 PROVE \E q : ByBeginning(q, U, n + 1)
    OBVIOUS
  <2>1. IsFiniteSet(U) /\ U # {}
    <3>1. IsFiniteSet(U)
      BY FS_Subset
    <3> QED
      BY <3>1, FS_EmptySet
  <2>2. PICK x \in U : \A y \in U : x.from <= y.from
    <3> DEFINE begins == {y.from : y \in U}
    <3>1. begins \in SUBSET Nat /\ begins # {}
      BY <2>1
    <3>2. PICK b \in begins : \A c \in begins : b <= c
      BY <3>1, Least
    <3> QED
      BY <3>2
  <2>3. U \ {x} \in SUBSET T /\ Cardinality(U \ {x}) = n
    <3>1. Cardinality(U \ {x}) = (n + 1) - 1
      BY <2>1, FS_RemoveElement
    <3> QED
      BY <3>1
  <2>4. PICK q : ByBeginning(q, U \ {x}, n)
    BY <1>3, <2>3
  <2> DEFINE p == [i \in 1 .. n + 1 |-> IF i = 1 THEN x ELSE q[i - 1]]
  <2>5. \A i \in 2 .. n + 1 : i - 1 \in 1 .. n /\ i \in 1 .. n + 1 /\ i # 1 /\ p[i] = q[i - 1]
    OBVIOUS
  <2>6. p \in [1 .. n + 1 -> U] /\ 1 \in 1 .. n + 1 /\ p[1] = x
    <3>1. \A i \in 1 .. n : q[i] \in U
      BY <2>4 DEF ByBeginning
    <3>2. \A i \in 1 .. n + 1 : i # 1 => i - 1 \in 1 .. n
      OBVIOUS
    <3> QED
      BY <3>1, <3>2
  <2>7. ASSUME NEW y \in U PROVE \E i \in 1 .. n + 1 : p[i] = y
    <3>1. CASE y = x
      BY <2>6, <3>1
    <3>2. CASE y # x
      <4>1. PICK i \in 1 .. n : q[i] = y
        BY <2>4, <3>2 DEF ByBeginning
      <4>2. i + 1 \in 2 .. n + 1 /\ i + 1 \in 1 .. n + 1 /\ (i + 1) - 1 = i
        OBVIOUS
      <4>3. p[i + 1] = y
        BY <2>5, <4>1, <4>2
      <4> QED
        BY <4>2, <4>3
    <3> QED
      BY <3>1, <3>2
  <2>8. ASSUME NEW i \in 2 .. n + 1 PROVE p[i - 1].from <= p[i].from
    <3>1. CASE i = 2
      <4>1. p[2] = q[1] /\ 1 \in 1 .. n /\ q[1] \in U
        BY <2>4, <2>5, <3>1 DEF ByBeginning
      <4> QED
        BY <2>2, <2>6, <3>1, <4>1
    <3>2. CASE i # 2
      <4>1. i - 1 \in 2 .. n + 1 /\ i - 1 \in 2 .. n
        BY <3>2
      <4>2. p[i] = q[i - 1] /\ p[i - 1] = q[(i - 1) - 1]
        BY <2>5, <4>1
      <4>3. q[(i - 1) - 1].from <= q[i - 1].from
        BY <2>4, <4>1 DEF ByBeginning
      <4> QED
        BY <4>2, <4>3
    <3> QED
      BY <3>1, <3>2
  <2> HIDE DEF p
  <2>9. ByBeginning(p, U, n + 1)
    BY <2>6, <2>7, <2>8 DEF ByBeginning
  <2> QED
    BY <2>9
<1> HIDE DEF S
<1>4. Cardinality(T) \in S
  BY <1>1, <1>2, <1>3, UpTo
<1> QED
  BY <1>4 DEF S

LEMMA ByStartLists ==
    ASSUME NEW T, IsFiniteSet(T), \A x \in T : x.from \in Nat
    PROVE  ByBeginning(ByStart(T), T, Cardinality(T))
<1> DEFINE n == Cardinality(T)
           Lists(q) == /\ \A x \in T : \E i \in DOMAIN q : q[i] = x
                       /\ \A i \in 2 .. n : q[i - 1].from <= q[i].from
<1>1. PICK q : ByBeginning(q, T, n)
  BY Enumerable
<1>2. q \in [1 .. n -> T] /\ Lists(q)
  BY <1>1 DEF ByBeginning
<1>3. ByStart(T) = CHOOSE p \in [1 .. n -> T] : Lists(p)
  BY DEF ByStart
<1>4. ByStart(T) \in [1 .. n -> T] /\ Lists(ByStart(T))
  <2> HIDE DEF Lists
  <2> QED
    BY <1>2, <1>3, SMTT(30)
<1> QED
  BY <1>4 DEF ByBeginning

------------------------------------------------------------------------------
(* The spans merged as they overlap.                                       *)

\* The next span joins the one that is being merged, or closes it.
Grow(m, x) ==
    IF x.from > m.cur.to
    THEN [total |-> m.total + m.cur.to - m.cur.from, cur |-> x]
    ELSE [m EXCEPT !.cur.to = LongestEnds(m.cur, x)]

\* The partial results that UnionSeconds computes.
Merged(q) == CHOOSE merge : merge =
    [n \in 1 .. Len(q) |-> IF n = 1 THEN [total |-> 0, cur |-> q[1]] ELSE Grow(merge[n - 1], q[n])]

Length(m) == m.total + m.cur.to - m.cur.from

LEMMA UnionIsMerged ==
    ASSUME NEW spans, spans # {}
    PROVE  UnionSeconds(spans) = Length(Merged(ByStart(spans))[Len(ByStart(spans))])
  BY DEF UnionSeconds, Merged, Grow, Length

LEMMA MergedExists ==
    ASSUME NEW q, Len(q) \in Nat, Len(q) > 0
    PROVE  Merged(q) = [n \in 1 .. Len(q) |->
               IF n = 1 THEN [total |-> 0, cur |-> q[1]] ELSE Grow(Merged(q)[n - 1], q[n])]
<1> DEFINE begin == [total |-> 0, cur |-> q[1]]
           next(f, n) == Grow(f[n - 1], q[n])
           IsMerge(f, L) == f = [n \in 1 .. L |-> IF n = 1 THEN begin ELSE next(f, n)]
           S == {L \in Nat : \E f : IsMerge(f, L + 1)}
<1>1. 0 \in S
  <2>1. IsMerge([n \in 1 .. 0 + 1 |-> begin], 0 + 1)
    <3> HIDE DEF begin, next
    <3>1. \A n \in 1 .. 0 + 1 : n = 1
      OBVIOUS
    <3> QED
      BY <3>1
  <2> QED
    BY <2>1
<1>2. ASSUME NEW L \in Nat, L \in S PROVE L + 1 \in S
  <2>1. PICK f : IsMerge(f, L + 1)
    BY <1>2
  <2> DEFINE g == [n \in 1 .. (L + 1) + 1 |-> IF n = 1 THEN begin ELSE next(f, n)]
  <2>2. \A n \in 1 .. L + 1 : g[n] = f[n]
    <3> HIDE DEF begin, next
    <3> QED
      BY <2>1
  <2>3. \A n \in 1 .. (L + 1) + 1 : n # 1 => n - 1 \in 1 .. L + 1
    OBVIOUS
  <2>4. \A n \in 1 .. (L + 1) + 1 : n # 1 => next(f, n) = next(g, n)
    BY <2>2, <2>3
  <2>5. IsMerge(g, (L + 1) + 1)
    <3> HIDE DEF begin, next
    <3> QED
      BY <2>4
  <2>6. \E h : IsMerge(h, (L + 1) + 1)
    <3> HIDE DEF IsMerge, g
    <3> QED
      BY <2>5
  <2> HIDE DEF IsMerge
  <2> QED
    BY <2>6
<1> HIDE DEF S
<1>3. Len(q) - 1 \in S
  <2>1. Len(q) - 1 \in Nat /\ Len(q) - 1 \in 0 .. Len(q) - 1
    OBVIOUS
  <2>2. \A n \in 0 .. Len(q) - 1 : n \in S
    BY <1>1, <1>2, <2>1, UpTo
  <2> QED
    BY <2>1, <2>2
<1>4. \E f : IsMerge(f, Len(q))
  <2>1. (Len(q) - 1) + 1 = Len(q)
    OBVIOUS
  <2> QED
    BY <1>3, <2>1 DEF S
<1> QED
  BY <1>4 DEF Merged

------------------------------------------------------------------------------
(* What the merged spans cover.                                            *)

Covered(q, n) == {t \in Nat : \E i \in 1 .. n : q[i].from <= t /\ t < q[i].to}

LEMMA CoverMore ==
    ASSUME NEW C \in SUBSET Nat, IsFiniteSet(C), NEW x \in Nat, NEW y \in Nat, x <= y,
           \A t \in C : t < x
    PROVE  /\ IsFiniteSet(C \cup (x .. y - 1))
           /\ Cardinality(C \cup (x .. y - 1)) = Cardinality(C) + (y - x)
<1>1. IsFiniteSet(x .. y - 1) /\ Cardinality(x .. y - 1) = y - x
  <2>1. x \in Int /\ y - 1 \in Int
    OBVIOUS
  <2>2. IsFiniteSet(x .. y - 1) /\ Cardinality(x .. y - 1) = IF x > y - 1 THEN 0 ELSE (y - 1) - x + 1
    BY <2>1, FS_Interval
  <2> QED
    BY <2>2
<1>2. C \cap (x .. y - 1) = {}
  OBVIOUS
<1>3. Cardinality(C) \in Nat /\ Cardinality({}) = 0
  BY FS_CardinalityType, FS_EmptySet
<1> QED
  BY <1>1, <1>2, <1>3, FS_Union

Spans == {x \in [from : Nat, to : Nat] : x.from < x.to}

\* m is what merging the first n spans comes to.
Covers(m, q, n) ==
    /\ m \in [total : Int, cur : Spans]
    /\ m.cur.from <= q[n].from
    /\ IsFiniteSet(Covered(q, n))
    /\ Length(m) = Cardinality(Covered(q, n))
    /\ \A t \in Covered(q, n) : t < m.cur.to
    /\ m.cur.from .. m.cur.to - 1 \subseteq Covered(q, n)

LEMMA GrowCovers ==
    ASSUME NEW n \in Nat, n > 0, NEW q, \A i \in 1 .. n + 1 : q[i] \in Spans,
           q[n].from <= q[n + 1].from, NEW m, Covers(m, q, n)
    PROVE  Covers(Grow(m, q[n + 1]), q, n + 1)
<1> DEFINE x == q[n + 1]
           C == Covered(q, n)
           D == Covered(q, n + 1)
           g == Grow(m, x)
<1>1. x \in Spans /\ q[n] \in Spans /\ m.cur \in Spans /\ m.total \in Int /\ m \in [total : Int, cur : Spans]
  BY DEF Covers
<1>2. C \in SUBSET Nat /\ D = C \cup (x.from .. x.to - 1)
  <2>1. C \in SUBSET Nat /\ D \in SUBSET Nat /\ x.from .. x.to - 1 \subseteq Nat
    BY <1>1 DEF Covered, Spans
  <2>2. \A t \in Nat : t \in D <=> t \in C \/ (x.from <= t /\ t < x.to)
    BY DEF Covered
  <2>3. \A t \in Nat : t \in x.from .. x.to - 1 <=> x.from <= t /\ t < x.to
    BY <1>1 DEF Spans
  <2> HIDE DEF C, D, x
  <2> QED
    BY <2>1, <2>2, <2>3
<1>3. /\ x.from \in Nat /\ x.to \in Nat /\ x.from < x.to
      /\ m.cur.from \in Nat /\ m.cur.to \in Nat /\ m.cur.from < m.cur.to
      /\ m.cur.from <= q[n].from /\ q[n].from \in Nat /\ q[n].from <= x.from
      /\ IsFiniteSet(C) /\ Length(m) = Cardinality(C) /\ Cardinality(C) \in Nat
      /\ \A t \in C : t < m.cur.to
      /\ m.cur.from .. m.cur.to - 1 \subseteq C
  BY <1>1, FS_CardinalityType DEF Covers, Spans
<1>4. Length(m) = m.total + m.cur.to - m.cur.from
  BY DEF Length
<1> SUFFICES /\ g \in [total : Int, cur : Spans]
             /\ g.cur.from <= x.from
             /\ IsFiniteSet(D)
             /\ Length(g) = Cardinality(D)
             /\ \A t \in D : t < g.cur.to
             /\ g.cur.from .. g.cur.to - 1 \subseteq D
  BY DEF Covers
<1> HIDE DEF C, D, x
<1>5. CASE x.from > m.cur.to
  <2>1. g = [total |-> m.total + m.cur.to - m.cur.from, cur |-> x]
    BY <1>5 DEF Grow
  <2>2. g.total = m.total + m.cur.to - m.cur.from /\ g.cur = x /\ g \in [total : Int, cur : Spans]
    BY <1>1, <1>3, <2>1
  <2> HIDE DEF g
  <2>3. IsFiniteSet(D) /\ Cardinality(D) = Cardinality(C) + (x.to - x.from)
    BY <1>2, <1>3, <1>5, CoverMore
  <2>4. Length(g) = g.total + g.cur.to - g.cur.from
    BY DEF Length
  <2>5. Length(g) = Cardinality(D)
    BY <1>1, <1>3, <1>4, <2>2, <2>3, <2>4
  <2>6. \A t \in D : t < g.cur.to
    BY <1>2, <1>3, <1>5, <2>2
  <2> QED
    BY <1>2, <1>3, <2>2, <2>3, <2>5, <2>6
<1>6. CASE ~ x.from > m.cur.to
  <2> DEFINE longest == LongestEnds(m.cur, x)
  <2>1. g = [m EXCEPT !.cur.to = longest]
    BY <1>6 DEF Grow
  <2>2. longest \in Nat /\ m.cur.to <= longest /\ x.to <= longest /\ (longest = m.cur.to \/ longest = x.to)
    BY <1>3 DEF LongestEnds, Bigger
  <2> HIDE DEF longest
  <2>3. g.total = m.total /\ g.cur.from = m.cur.from /\ g.cur.to = longest
    BY <1>1, <2>1 DEF Spans
  <2>4. g \in [total : Int, cur : Spans]
    <3>1. [m.cur EXCEPT !.to = longest] \in Spans
      BY <1>1, <1>3, <2>2 DEF Spans
    <3> QED
      BY <1>1, <2>1, <3>1
  <2> HIDE DEF g
  <2>5. D = C \cup (m.cur.to .. longest - 1)
    <3>1. \A t \in Nat : x.from <= t /\ t < m.cur.to => t \in C
      BY <1>3
    <3>2. \A t \in Nat : t \in x.from .. x.to - 1 => t \in C \/ t \in m.cur.to .. longest - 1
      BY <1>3, <2>2, <3>1
    <3>3. \A t \in Nat : t \in m.cur.to .. longest - 1 => t \in x.from .. x.to - 1
      BY <1>3, <1>6, <2>2
    <3>4. x.from .. x.to - 1 \subseteq Nat /\ m.cur.to .. longest - 1 \subseteq Nat
      BY <1>3, <2>2
    <3> QED
      BY <1>2, <3>2, <3>3, <3>4
  <2>6. IsFiniteSet(D) /\ Cardinality(D) = Cardinality(C) + (longest - m.cur.to)
    <3>1. /\ C \in SUBSET Nat /\ IsFiniteSet(C) /\ m.cur.to \in Nat /\ longest \in Nat /\ m.cur.to <= longest
          /\ \A t \in C : t < m.cur.to
      BY <1>2, <1>3, <2>2
    <3>2. /\ IsFiniteSet(C \cup (m.cur.to .. longest - 1))
          /\ Cardinality(C \cup (m.cur.to .. longest - 1)) = Cardinality(C) + (longest - m.cur.to)
      BY <3>1, CoverMore
    <3> QED
      BY <2>5, <3>2
  <2>7. Length(g) = g.total + g.cur.to - g.cur.from
    BY DEF Length
  <2>8. Length(g) = Cardinality(D)
    <3>1. Length(g) = m.total + longest - m.cur.from
      BY <2>3, <2>7
    <3>2. /\ m.total \in Int /\ m.cur.from \in Nat /\ m.cur.to \in Nat /\ longest \in Nat
          /\ m.total + m.cur.to - m.cur.from = Cardinality(C)
          /\ Cardinality(D) = Cardinality(C) + (longest - m.cur.to)
      BY <1>1, <1>3, <1>4, <2>2, <2>6
    <3> QED
      BY <3>1, <3>2
  <2>9. \A t \in D : t < g.cur.to
    <3> SUFFICES ASSUME NEW t \in D PROVE t < longest
      BY <2>3
    <3>1. t \in Nat
      BY <1>2, <1>3
    <3>2. CASE t \in C
      BY <1>3, <2>2, <3>1, <3>2
    <3>3. CASE t \in m.cur.to .. longest - 1
      BY <1>3, <2>2, <3>3
    <3> QED
      BY <2>5, <3>2, <3>3
  <2>10. g.cur.from .. g.cur.to - 1 \subseteq D
    BY <1>3, <2>2, <2>3, <2>5
  <2> QED
    BY <1>3, <2>3, <2>4, <2>6, <2>8, <2>9, <2>10
<1> QED
  BY <1>5, <1>6

LEMMA CoversAll ==
    ASSUME NEW N \in Nat, N > 0, NEW q \in [1 .. N -> Spans], \A i \in 2 .. N : q[i - 1].from <= q[i].from
    PROVE  Covers(Merged(q)[N], q, N)
<1> DEFINE merge == Merged(q)
           S == {k \in Nat : Covers(merge[k + 1], q, k + 1)}
<1>1. Len(q) = N
  OBVIOUS
<1>2. merge = [n \in 1 .. N |-> IF n = 1 THEN [total |-> 0, cur |-> q[1]] ELSE Grow(merge[n - 1], q[n])]
  BY <1>1, MergedExists
<1> HIDE DEF merge
<1>3. \A i \in 1 .. N : q[i] \in Spans
  OBVIOUS
<1>4. 0 \in S
  <2>1. merge[1] = [total |-> 0, cur |-> q[1]] /\ q[1] \in Spans
    <3>1. 1 \in 1 .. N
      OBVIOUS
    <3> QED
      BY <1>2, <3>1
  <2> DEFINE x == q[1]
             m == [total |-> 0, cur |-> x]
  <2>2. x \in Spans /\ x.from \in Nat /\ x.to \in Nat /\ x.from < x.to
    BY <2>1 DEF Spans
  <2>3. Covered(q, 1) = x.from .. x.to - 1
    <3>1. \A t \in Nat : t \in Covered(q, 1) <=> x.from <= t /\ t < x.to
      BY DEF Covered
    <3>2. \A t \in Nat : t \in x.from .. x.to - 1 <=> x.from <= t /\ t < x.to
      BY <2>2
    <3>3. Covered(q, 1) \subseteq Nat /\ x.from .. x.to - 1 \subseteq Nat
      BY <2>2 DEF Covered
    <3> HIDE DEF x
    <3> QED
      BY <3>1, <3>2, <3>3
  <2> HIDE DEF x
  <2>4. IsFiniteSet(x.from .. x.to - 1) /\ Cardinality(x.from .. x.to - 1) = x.to - x.from
    <3>1. x.from \in Int /\ x.to - 1 \in Int
      BY <2>2
    <3>2. /\ IsFiniteSet(x.from .. x.to - 1)
          /\ Cardinality(x.from .. x.to - 1) = IF x.from > x.to - 1 THEN 0 ELSE (x.to - 1) - x.from + 1
      BY <3>1, FS_Interval
    <3> QED
      BY <2>2, <3>2
  <2>5. m \in [total : Int, cur : Spans] /\ m.cur = x /\ Length(m) = x.to - x.from
    BY <2>2 DEF Length
  <2> HIDE DEF m
  <2>6. Covers(m, q, 1)
    <3>1. x.from <= q[1].from
      BY <2>2 DEF x
    <3>2. \A t \in x.from .. x.to - 1 : t < x.to
      BY <2>2
    <3> QED
      BY <2>3, <2>4, <2>5, <3>1, <3>2 DEF Covers
  <2> QED
    BY <2>1, <2>6 DEF m, x
<1>5. ASSUME NEW k \in Nat, k < N - 1, k \in S PROVE k + 1 \in S
  <2> DEFINE n == k + 1
  <2>1. n \in Nat /\ n > 0 /\ n + 1 \in 1 .. N /\ n + 1 \in 2 .. N /\ n + 1 # 1 /\ (n + 1) - 1 = n
    BY <1>5
  <2>2. Covers(merge[n], q, n)
    BY <1>5
  <2>3. merge[n + 1] = Grow(merge[n], q[n + 1])
    <3> HIDE DEF n
    <3> QED
      BY <1>2, <2>1
  <2>4. \A i \in 1 .. n + 1 : q[i] \in Spans
    BY <1>3, <2>1
  <2>5. q[n].from <= q[n + 1].from
    <3> HIDE DEF n
    <3>1. q[(n + 1) - 1].from <= q[n + 1].from
      BY <2>1
    <3> QED
      BY <2>1, <3>1
  <2>6. Covers(merge[n + 1], q, n + 1)
    <3> HIDE DEF n
    <3> QED
      BY <2>1, <2>2, <2>3, <2>4, <2>5, GrowCovers
  <2> QED
    BY <2>6
<1> HIDE DEF S
<1>6. N - 1 \in S
  <2>1. N - 1 \in Nat /\ N - 1 \in 0 .. N - 1
    OBVIOUS
  <2>2. \A k \in 0 .. N - 1 : k \in S
    BY <1>4, <1>5, <2>1, UpTo
  <2> QED
    BY <2>1, <2>2
<1>7. (N - 1) + 1 = N
  OBVIOUS
<1> QED
  BY <1>6, <1>7 DEF S, merge

------------------------------------------------------------------------------
(* The time for which an hour is busy.                                     *)

LEMMA ClipIs ==
    ASSUME ConstantsOK, NEW r \in Sessions, NEW h \in Hours
    PROVE  /\ h * Hour \in Nat /\ (h + 1) * Hour = h * Hour + Hour
           /\ Touches(r, h) => Clip(r, h) \in Spans
           /\ \A t \in h * Hour .. (h + 1) * Hour - 1 :
                  r.bytes > 0 /\ r.start <= t /\ t < r.end
                      <=> Touches(r, h) /\ Clip(r, h).from <= t /\ t < Clip(r, h).to
           /\ \A t \in Nat :
                  Touches(r, h) /\ Clip(r, h).from <= t /\ t < Clip(r, h).to
                      => t \in h * Hour .. (h + 1) * Hour - 1
<1> DEFINE begin == h * Hour
           from == Clip(r, h).from
           to == Clip(r, h).to
<1>1. begin \in Nat /\ (h + 1) * Hour = begin + Hour /\ Hour \in Nat /\ Hour > 0
  <2>1. h \in Nat /\ Hour \in Nat /\ Hour > 0
    BY HoursNat
  <2> QED
    BY <2>1
<1>2. r.start \in Nat /\ r.end \in Nat /\ r.bytes \in Nat
  BY SessionTypes
<1> HIDE DEF begin
<1>3. Clip(r, h) = [from |-> Bigger(r.start, begin), to |-> Smaller(r.end, begin + Hour)]
  BY <1>1 DEF Clip, begin
<1>4. from = Bigger(r.start, begin) /\ to = Smaller(r.end, begin + Hour)
  BY <1>3
<1>5. Touches(r, h) <=> r.end > r.start /\ r.bytes > 0 /\ from < to
  BY DEF Touches, Spreads
<1>6. Touches(r, h) => Clip(r, h) \in Spans
  <2>1. Bigger(r.start, begin) \in Nat /\ Smaller(r.end, begin + Hour) \in Nat
    BY <1>1, <1>2 DEF Bigger, Smaller
  <2> QED
    BY <1>3, <1>5, <2>1 DEF Spans
<1> HIDE DEF from, to
<1>7. \A t \in begin .. (begin + Hour) - 1 :
          r.bytes > 0 /\ r.start <= t /\ t < r.end <=> Touches(r, h) /\ from <= t /\ t < to
  BY <1>1, <1>2, <1>4, <1>5 DEF Bigger, Smaller
<1>8. \A t \in Nat : Touches(r, h) /\ from <= t /\ t < to => t \in begin .. (begin + Hour) - 1
  BY <1>1, <1>2, <1>4, <1>5 DEF Bigger, Smaller
<1> QED
  BY <1>1, <1>6, <1>7, <1>8 DEF begin, from, to

\* The merged spans of an hour last as long as some run is active in it.
LEMMA BusyTime ==
    ASSUME ConstantsOK, recs \in Seq(Sessions), NEW h \in Hours
    PROVE  UnionSeconds(BucketSpans(h)) =
               Cardinality({t \in h * Hour .. (h + 1) * Hour - 1 :
                   \E i \in DOMAIN recs : recs[i].bytes > 0 /\ recs[i].start <= t /\ t < recs[i].end})
<1> DEFINE hour == h * Hour .. (h + 1) * Hour - 1
           busy == {t \in hour :
                       \E i \in DOMAIN recs : recs[i].bytes > 0 /\ recs[i].start <= t /\ t < recs[i].end}
           touching == {i \in DOMAIN recs : Touches(recs[i], h)}
           T == BucketSpans(h)
           clips == [i \in touching |-> Clip(recs[i], h)]
<1>1. Len(recs) \in Nat /\ DOMAIN recs = 1 .. Len(recs) /\ \A i \in 1 .. Len(recs) : recs[i] \in Sessions
  BY RecordTypes
<1>2. /\ \A x \in T : \E i \in touching : x = Clip(recs[i], h)
      /\ \A i \in touching : Clip(recs[i], h) \in T
  BY DEF BucketSpans
<1>3. \A i \in touching : Clip(recs[i], h) \in Spans
  BY <1>1, ClipIs
<1>4. T \subseteq Spans
  BY <1>2, <1>3
<1>5. IsFiniteSet(T)
  <2>1. IsFiniteSet(touching)
    <3>1. IsFiniteSet(DOMAIN recs)
      BY <1>1, FS_Interval
    <3> QED
      BY <3>1, FS_Subset
  <2>2. clips \in [touching -> T] /\ \A x \in T : \E i \in touching : clips[i] = x
    <3> HIDE DEF touching, T
    <3> QED
      BY <1>2
  <2> HIDE DEF touching, T, clips
  <2>3. clips \in Surjection(touching, T)
    BY <2>2, Fun_IsSurj
  <2> QED
    BY <2>1, <2>3, FS_Surjection
<1>6. \A t : t \in busy <=> t \in Nat /\ \E x \in T : x.from <= t /\ t < x.to
  <2>1. hour \subseteq Nat
    <3>1. h * Hour \in Nat
      BY HoursNat
    <3> QED
      BY <3>1
  <2>2. \A i \in DOMAIN recs : \A t \in hour :
            recs[i].bytes > 0 /\ recs[i].start <= t /\ t < recs[i].end
                <=> i \in touching /\ Clip(recs[i], h).from <= t /\ t < Clip(recs[i], h).to
    BY <1>1, ClipIs
  <2>3. \A i \in touching : \A t \in Nat :
            Clip(recs[i], h).from <= t /\ t < Clip(recs[i], h).to => t \in hour
    BY <1>1, ClipIs
  <2>4. \A t : t \in busy <=> t \in hour /\ \E i \in touching : Clip(recs[i], h).from <= t /\ t < Clip(recs[i], h).to
    <3>1. touching \subseteq DOMAIN recs
      OBVIOUS
    <3> HIDE DEF hour, touching
    <3> QED
      BY <2>2, <3>1
  <2> HIDE DEF hour, touching, busy, T
  <2> QED
    BY <1>2, <2>1, <2>3, <2>4
<1> HIDE DEF busy, touching, T, clips
<1>7. CASE T = {}
  <2>1. busy = {}
    BY <1>6, <1>7
  <2>2. UnionSeconds(T) = 0
    BY <1>7 DEF UnionSeconds
  <2> QED
    BY <2>1, <2>2, FS_EmptySet DEF busy, T
<1>8. CASE T # {}
  <2> DEFINE N == Cardinality(T)
             q == ByStart(T)
             last == Merged(q)[N]
  <2>1. ByBeginning(q, T, N)
    <3>1. \A x \in T : x.from \in Nat
      BY <1>4 DEF Spans
    <3> QED
      BY <1>5, <3>1, ByStartLists
  <2>2. N \in Nat /\ N > 0
    BY <1>5, <1>8, FS_CardinalityType, FS_EmptySet
  <2> HIDE DEF N, q
  <2>3. /\ q \in [1 .. N -> T] /\ q \in [1 .. N -> Spans]
        /\ \A x \in T : \E i \in 1 .. N : q[i] = x
        /\ \A i \in 2 .. N : q[i - 1].from <= q[i].from
    BY <1>4, <2>1 DEF ByBeginning
  <2>4. Len(q) = N
    BY <2>2, <2>3
  <2>5. Covers(last, q, N)
    BY <2>2, <2>3, CoversAll
  <2>6. UnionSeconds(T) = Length(last)
    BY <1>8, <2>4, UnionIsMerged DEF q
  <2>7. Covered(q, N) = busy
    <3>1. \A i \in 1 .. N : q[i] \in T
      BY <2>3
    <3>2. \A t : t \in Covered(q, N) <=> t \in Nat /\ \E i \in 1 .. N : q[i].from <= t /\ t < q[i].to
      BY DEF Covered
    <3>3. \A t : t \in Covered(q, N) <=> t \in busy
      BY <1>6, <2>3, <3>1, <3>2
    <3> QED
      BY <3>3
  <2> HIDE DEF last
  <2>8. Length(last) = Cardinality(Covered(q, N))
    BY <2>5 DEF Covers
  <2> QED
    BY <2>6, <2>7, <2>8 DEF busy, T
<1> QED
  BY <1>7, <1>8

\* assessment.go: the hours account for all the data of the window but for what
\* each division drops, and the spans merged by unionSeconds last as long as some
\* run was active in the hour.
THEOREM ActivityAccountedHolds == ASSUME ConstantsOK PROVE Spec => []ActivityAccounted
<1>1. Init => IInv /\ WindowInv
  BY InitInv, WindowInit
<1>2. (IInv /\ WindowInv) /\ [Next]_vars => (IInv /\ WindowInv)'
  BY StepInv, WindowStep
<1>3. IInv /\ WindowInv => ActivityAccounted
  <2> SUFFICES ASSUME WindowInv PROVE ActivityAccounted
    OBVIOUS
  <2>1. recs \in Seq(Sessions)
    BY DEF WindowInv, Counts
  <2> QED
    BY <2>1, BytesKept, BusyTime DEF ActivityAccounted
<1> QED
  BY <1>1, <1>2, <1>3, PTL DEF Spec
==============================================================================
