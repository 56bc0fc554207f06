--------------------------- MODULE JobVerdictProofs ---------------------------
(***************************************************************************)
(* A cause that rests on a measured ceiling is final, and a disk that is   *)
(* measured to be idle is no reason to buy storage, for any runs of the    *)
(* job, any hosts and any measurements.                                    *)
(***************************************************************************)
EXTENDS JobVerdict, FiniteSetTheorems, SequenceTheorems, TLAPS

------------------------------------------------------------------------------
(* The busiest stage.                                                      *)

Utils == [Stages -> Int]

Top(util, among) == {s \in among : \A t \in among : util[t] <= util[s]}

\* i is where stageNames has its first element of A.
First(A, i) == stageNames[i] \in A /\ \A j \in 1 .. i - 1 : stageNames[j] \notin A

\* Some stage of a set is no less busy than the others.
LEMMA TopExists ==
    ASSUME NEW util \in Utils, NEW T \in SUBSET Stages, T # {}
    PROVE  Top(util, T) # {}
<1>1. /\ util["Source"] \in Int /\ util["Proxy"] \in Int
      /\ util["Network"] \in Int /\ util["Target"] \in Int
  BY DEF Utils, Stages
<1>2. T \subseteq {"Source", "Proxy", "Network", "Target"}
  BY DEF Stages
<1> QED
  BY <1>1, <1>2 DEF Top

LEMMA FirstExists ==
    ASSUME NEW A \in SUBSET Stages, A # {}
    PROVE  \E i \in 1 .. 4 : First(A, i)
<1>1. CASE "Source" \in A
  <2>1. First(A, 1)
    BY <1>1 DEF First, stageNames
  <2> QED
    BY <2>1
<1>2. CASE "Source" \notin A /\ "Proxy" \in A
  <2>1. First(A, 2)
    BY <1>2 DEF First, stageNames
  <2> QED
    BY <2>1
<1>3. CASE "Source" \notin A /\ "Proxy" \notin A /\ "Network" \in A
  <2>1. First(A, 3)
    BY <1>3 DEF First, stageNames
  <2> QED
    BY <2>1
<1>4. CASE "Source" \notin A /\ "Proxy" \notin A /\ "Network" \notin A
  <2>1. "Target" \in A
    BY <1>4 DEF Stages
  <2>2. First(A, 4)
    BY <1>4, <2>1 DEF First, stageNames
  <2> QED
    BY <2>2
<1> QED
  BY <1>1, <1>2, <1>3, <1>4

LEMMA FirstUnique ==
    ASSUME NEW A, NEW i \in 1 .. 4, NEW j \in 1 .. 4, First(A, i), First(A, j)
    PROVE  i = j
<1>1. ~ i < j
  <2>1. i < j => i \in 1 .. j - 1
    OBVIOUS
  <2> QED
    BY <2>1 DEF First
<1>2. ~ j < i
  <2>1. j < i => j \in 1 .. i - 1
    OBVIOUS
  <2> QED
    BY <2>1 DEF First
<1> QED
  BY <1>1, <1>2

\* The busiest stage of a set is one of its top stages, the first.
LEMMA HottestIsFirst ==
    ASSUME NEW util \in Utils, NEW T \in SUBSET Stages, T # {}
    PROVE  \E i \in 1 .. 4 : First(Top(util, T), i) /\ Hottest(util, T) = stageNames[i]
<1> DEFINE i == CHOOSE k \in 1 .. 4 : First(Top(util, T), k)
<1>1. Top(util, T) \in SUBSET Stages /\ Top(util, T) # {}
  BY TopExists DEF Top
<1>2. i \in 1 .. 4 /\ First(Top(util, T), i)
  BY <1>1, FirstExists
<1>3. Hottest(util, T) = stageNames[i]
  BY DEF Hottest, First, Top
<1> QED
  BY <1>2, <1>3

LEMMA HottestInside ==
    ASSUME NEW util \in Utils, NEW T \in SUBSET Stages, T # {}
    PROVE  Hottest(util, T) \in T
<1>1. PICK i \in 1 .. 4 : First(Top(util, T), i) /\ Hottest(util, T) = stageNames[i]
  BY HottestIsFirst
<1> QED
  BY <1>1 DEF First, Top

\* The busiest of a set is the busiest of every part of it that it is in.
LEMMA HottestOfPart ==
    ASSUME NEW util \in Utils, NEW T \in SUBSET Stages, NEW S \in SUBSET T, Hottest(util, T) \in S
    PROVE  Hottest(util, S) = Hottest(util, T)
<1>1. PICK i \in 1 .. 4 : First(Top(util, T), i) /\ Hottest(util, T) = stageNames[i]
  BY HottestIsFirst
<1>2. PICK k \in 1 .. 4 : First(Top(util, S), k) /\ Hottest(util, S) = stageNames[k]
  BY HottestIsFirst
<1>3. Top(util, S) \subseteq Top(util, T)
  <2> DEFINE h == Hottest(util, T)
  <2>1. h \in Top(util, T) /\ h \in S
    BY <1>1 DEF First
  <2> HIDE DEF h
  <2>2. ASSUME NEW s \in Top(util, S), NEW t \in T PROVE util[t] <= util[s]
    <3>1. util[t] <= util[h] /\ util[h] <= util[s]
      BY <2>1 DEF Top
    <3>2. s \in Stages /\ t \in Stages /\ h \in Stages
      BY <2>1 DEF Top
    <3>3. util[t] \in Int /\ util[h] \in Int /\ util[s] \in Int
      BY <3>2 DEF Utils
    <3> QED
      BY <3>1, <3>3
  <2> QED
    BY <2>2 DEF Top
<1>4. First(Top(util, S), i)
  <2>1. stageNames[i] \in Top(util, S)
    BY <1>1 DEF First, Top
  <2> QED
    BY <1>1, <1>3, <2>1 DEF First
<1> QED
  BY <1>1, <1>2, <1>4, FirstUnique

------------------------------------------------------------------------------
(* What a rule does to the cause of a verdict.                             *)

Fields == {"severity", "stage", "cause", "known", "locked", "acts"}

Severities == {"", "critical", "warn", "ok", "unknown"}
StageNames == Bottlenecks \cup {""}

\* A builder has its fields and its lists of actions, and locks no cause that is
\* not known.
Builder(b) ==
    /\ DOMAIN b = Fields /\ b.locked \in BOOLEAN /\ b.known \in BOOLEAN
    /\ b.locked => b.known
    /\ b.severity \in Severities /\ b.stage \in StageNames /\ DOMAIN b.acts = Impacts

\* The cause is what it was.
Same(b, c) == c.cause = b.cause /\ c.known = b.known /\ c.locked = b.locked

\* A final cause is not touched, and none becomes final.
Loose(b, c) == Builder(c) /\ c.locked = b.locked /\ (b.locked => Same(b, c))

\* A final cause is not touched; otherwise code becomes it.
Final(b, c, code) ==
    /\ Builder(c) /\ c.locked
    /\ b.locked => Same(b, c)
    /\ ~ b.locked => c.known /\ c.cause = code

LEMMA LooseTwice ==
    ASSUME NEW b, NEW c, NEW d, Loose(b, c), Loose(c, d)
    PROVE  Loose(b, d)
  BY DEF Loose, Same

LEMMA LooseThenFinal ==
    ASSUME NEW b, NEW c, NEW d, NEW code, Loose(b, c), Final(c, d, code)
    PROVE  Final(b, d, code)
  BY DEF Loose, Final, Same

LEMMA FinalThenLoose ==
    ASSUME NEW b, NEW c, NEW d, NEW code, Final(b, c, code), Loose(c, d)
    PROVE  Final(b, d, code)
  BY DEF Loose, Final, Same

LEMMA LooseSelf == ASSUME NEW b, Builder(b) PROVE Loose(b, b)
  BY DEF Loose, Same

\* Of a builder, an action, the severity and the stage are not the cause.
LEMMA OtherField ==
    ASSUME NEW b, Builder(b), NEW x
    PROVE  /\ DOMAIN x = Impacts => Loose(b, [b EXCEPT !.acts = x])
           /\ x \in Severities => Loose(b, [b EXCEPT !.severity = x])
           /\ x \in StageNames => Loose(b, [b EXCEPT !.stage = x])
  BY DEF Builder, Fields, Loose, Same

LEMMA Judgements ==
    /\ "critical" \in Severities /\ "warn" \in Severities /\ "ok" \in Severities
    /\ "unknown" \in Severities /\ Stages \subseteq StageNames
  BY DEF Severities, StageNames, Bottlenecks, Stages

LEMMA AddLoose ==
    ASSUME NEW b, Builder(b), NEW impact, NEW code
    PROVE  Loose(b, Add(b, impact, code))
<1> DEFINE x == [b.acts EXCEPT ![impact] = Append(b.acts[impact], Action(code, "", 0))]
<1>1. Add(b, impact, code) = [b EXCEPT !.acts = x]
  BY DEF Add
<1>2. DOMAIN x = Impacts
  BY DEF Builder
<1> HIDE DEF x
<1>3. Loose(b, [b EXCEPT !.acts = x])
  BY <1>2, OtherField
<1> QED
  BY <1>1, <1>3, Zenon

LEMMA AddGainLoose ==
    ASSUME NEW b, Builder(b), NEW code, NEW way
    PROVE  Loose(b, AddGain(b, code, way))
<1> DEFINE x == [b.acts EXCEPT !["high"] = Append(b.acts["high"], Action(code, way, job.gain))]
<1>1. AddGain(b, code, way) = [b EXCEPT !.acts = x]
  BY DEF AddGain
<1>2. DOMAIN x = Impacts
  BY DEF Builder
<1> HIDE DEF x
<1>3. Loose(b, [b EXCEPT !.acts = x])
  BY <1>2, OtherField
<1> QED
  BY <1>1, <1>3, Zenon

LEMMA SeverityLoose ==
    ASSUME NEW b, Builder(b), NEW severity \in Severities
    PROVE  Loose(b, Severity(b, severity))
  BY OtherField DEF Severity

LEMMA CauseLoose ==
    ASSUME NEW b, Builder(b), NEW known \in BOOLEAN, NEW code
    PROVE  Loose(b, Cause(b, known, code))
  BY DEF Builder, Fields, Loose, Same, Cause

LEMMA CauseIfUnknownLoose ==
    ASSUME NEW b, Builder(b), NEW code
    PROVE  Loose(b, CauseIfUnknown(b, code))
<1>1. CASE b.known
  BY <1>1, LooseSelf DEF CauseIfUnknown
<1>2. CASE ~ b.known
  BY <1>2, CauseLoose DEF CauseIfUnknown
<1> QED
  BY <1>1, <1>2

LEMMA CauseFinalFinal ==
    ASSUME NEW b, Builder(b), NEW code
    PROVE  Final(b, CauseFinal(b, code), code)
<1> DEFINE c == Cause(b, TRUE, code)
<1>1. Loose(b, c)
  BY CauseLoose
<1>2. ~ b.locked => c.known = TRUE /\ c.cause = code
  BY DEF Builder, Fields, Cause
<1>3. CauseFinal(b, code) = [c EXCEPT !.locked = TRUE]
  BY DEF CauseFinal
<1> HIDE DEF c
<1> DEFINE d == [c EXCEPT !.locked = TRUE]
<1>4. /\ DOMAIN d = DOMAIN c /\ d.locked = TRUE /\ d.known = c.known /\ d.cause = c.cause
      /\ d.severity = c.severity /\ d.stage = c.stage /\ d.acts = c.acts
  BY <1>1 DEF Loose, Builder, Fields
<1>5. c.known = TRUE
  BY <1>1, <1>2 DEF Loose, Same, Builder
<1> HIDE DEF d
<1> QED
  BY <1>1, <1>2, <1>3, <1>4, <1>5 DEF Final, Loose, Same, Builder, d

------------------------------------------------------------------------------
(* The rules.                                                              *)

\* A CASE yields one of its values.
LEMMA OneOfFive ==
    ASSUME NEW c, NEW p \in BOOLEAN, NEW q \in BOOLEAN, NEW r \in BOOLEAN, NEW s \in BOOLEAN,
           NEW v1, NEW v2, NEW v3, NEW v4, NEW v5,
           c = CASE p -> v1 [] q -> v2 [] r -> v3 [] s -> v4 [] OTHER -> v5
    PROVE  c = v1 \/ c = v2 \/ c = v3 \/ (s /\ c = v4) \/ c = v5
  BY SMT

LEMMA OneOfFour ==
    ASSUME NEW c, NEW p \in BOOLEAN, NEW q \in BOOLEAN, NEW r \in BOOLEAN, NEW v1, NEW v2, NEW v3, NEW v4,
           c = CASE p -> v1 [] q -> v2 [] r -> v3 [] OTHER -> v4
    PROVE  c = v1 \/ c = v2 \/ c = v3 \/ c = v4
  BY SMT

LEMMA SlotsCases ==
    ASSUME NEW b, NEW resources
    PROVE  \/ SlotsRules(b, resources) = b
           \/ SlotsRules(b, resources) = Add(b, "verify", "slotsUnknown")
           \/ SlotsRules(b, resources) = AddGain(b, "scaleHost", "host")
           \/ SlotsRules(b, resources) = Cause(AddGain(b, "slots", ""), TRUE, "slots")
           \/ /\ SlotsRules(b, resources) = AddGain(b, "atCapacity", "scaleOut")
              /\ resources # <<>> /\ AtCapacity(resources[1])
<1> DEFINE c == SlotsRules(b, resources)
           res == resources[1]
           unknown == res.cores = 0 /\ res.slots > 0
           small == res.cores > 0 /\ Viable(res) <= 2
           spare == res.cores > 0 /\ Viable(res) > 2 /\ res.slots < Viable(res)
           full == AtCapacity(res)
           ask == Add(b, "verify", "slotsUnknown")
           scale == AddGain(b, "scaleHost", "host")
           raise == Cause(AddGain(b, "slots", ""), TRUE, "slots")
           out == AddGain(b, "atCapacity", "scaleOut")
<1>1. CASE resources = <<>>
  BY <1>1 DEF SlotsRules
<1>2. CASE resources # <<>>
  <2>1. c = CASE unknown -> ask [] small -> scale [] spare -> raise [] full -> out [] OTHER -> b
    BY <1>2, Zenon DEF SlotsRules
  <2>2. unknown \in BOOLEAN /\ small \in BOOLEAN /\ spare \in BOOLEAN /\ full \in BOOLEAN
    BY Zenon DEF AtCapacity
  <2> HIDE DEF c, unknown, small, spare, full, ask, scale, raise, out
  <2>3. c = ask \/ c = scale \/ c = raise \/ (full /\ c = out) \/ c = b
    BY <2>1, <2>2, OneOfFive
  <2> QED
    BY <1>2, <2>3, Zenon DEF c, full, ask, scale, raise, out
<1> QED
  BY <1>1, <1>2

LEMMA SlotsLoose ==
    ASSUME NEW b, Builder(b), NEW resources
    PROVE  Loose(b, SlotsRules(b, resources))
<1> DEFINE c == SlotsRules(b, resources)
<1>1. Loose(b, Cause(AddGain(b, "slots", ""), TRUE, "slots"))
  <2>1. Loose(b, AddGain(b, "slots", ""))
    BY AddGainLoose
  <2>2. Builder(AddGain(b, "slots", ""))
    BY <2>1 DEF Loose
  <2> QED
    BY <2>1, <2>2, CauseLoose, LooseTwice
<1>2. \/ c = b \/ c = Add(b, "verify", "slotsUnknown") \/ c = AddGain(b, "scaleHost", "host")
      \/ c = Cause(AddGain(b, "slots", ""), TRUE, "slots") \/ c = AddGain(b, "atCapacity", "scaleOut")
  BY SlotsCases, Zenon
<1> HIDE DEF c
<1>3. Loose(b, c)
  BY <1>1, <1>2, LooseSelf, AddLoose, AddGainLoose
<1> QED
  BY <1>3 DEF c

LEMMA CompressionLoose == ASSUME NEW b, Builder(b) PROVE Loose(b, CompressionRule(b))
  BY LooseSelf, AddLoose, Zenon DEF CompressionRule

LEMMA SkewCases ==
    ASSUME NEW b
    PROVE  \/ SkewRules(b) = b
           \/ SkewRules(b) = Add(b, "medium", "skew")
           \/ SkewRules(b) = Add(b, "medium", "serial")
  BY Zenon DEF SkewRules

LEMMA SkewLoose == ASSUME NEW b, Builder(b) PROVE Loose(b, SkewRules(b))
  BY SkewCases, LooseSelf, AddLoose

\* The three that look for skew begin with a cause that is known.
SourceKnown(b) ==
    {AddGain(Cause(b, TRUE, IF job.deep.why THEN "nbdHotadd" ELSE "nbd"), "hotadd", ""),
     Add(Cause(b, TRUE, "transportOK"), "verify", "srcStorage"),
     Add(Cause(b, TRUE, "srcstore"), "verify", "srcStorage")}

LEMMA SourceCases ==
    ASSUME NEW b
    PROVE  \/ SourceRules(b) = Add(Add(Cause(b, FALSE, "srcunknown"), "verify", "deep"), "verify", "srcStorage")
           \/ \E d \in SourceKnown(b) : SourceRules(b) = SkewRules(d)
<1> DEFINE deep == job.deep
           unread == Add(Add(Cause(b, FALSE, "srcunknown"), "verify", "deep"), "verify", "srcStorage")
           nbd == AddGain(Cause(b, TRUE, IF deep.why THEN "nbdHotadd" ELSE "nbd"), "hotadd", "")
           direct == Add(Cause(b, TRUE, "transportOK"), "verify", "srcStorage")
           other == Add(Cause(b, TRUE, "srcstore"), "verify", "srcStorage")
           c == SourceRules(b)
           p == ~ deep.read
           q == deep.read /\ deep.transport = "nbd"
           r == deep.read /\ deep.transport = "direct"
           skewed1 == SkewRules(nbd)
           skewed2 == SkewRules(direct)
           skewed3 == SkewRules(other)
<1>1. c = CASE p -> unread [] q -> skewed1 [] r -> skewed2 [] OTHER -> skewed3
  BY Zenon DEF SourceRules
<1>2. p \in BOOLEAN /\ q \in BOOLEAN /\ r \in BOOLEAN
  BY Zenon
<1>3. nbd \in SourceKnown(b) /\ direct \in SourceKnown(b) /\ other \in SourceKnown(b)
  BY DEF SourceKnown
<1> HIDE DEF c, p, q, r, unread, skewed1, skewed2, skewed3
<1>4. c = unread \/ c = skewed1 \/ c = skewed2 \/ c = skewed3
  BY <1>1, <1>2, OneOfFour
<1> HIDE DEF nbd, direct, other
<1>5. c = unread \/ \E d \in SourceKnown(b) : c = SkewRules(d)
  BY <1>3, <1>4 DEF skewed1, skewed2, skewed3
<1> QED
  BY <1>5, Zenon DEF c, unread

LEMMA SourceLoose == ASSUME NEW b, Builder(b) PROVE Loose(b, SourceRules(b))
<1> DEFINE unread == Add(Add(Cause(b, FALSE, "srcunknown"), "verify", "deep"), "verify", "srcStorage")
           c == SourceRules(b)
<1>1. Loose(b, unread)
  <2> DEFINE d == Cause(b, FALSE, "srcunknown")
             e == Add(d, "verify", "deep")
  <2>1. Loose(b, d) /\ Builder(d)
    BY CauseLoose DEF Loose
  <2>2. Loose(d, e) /\ Builder(e)
    BY <2>1, AddLoose DEF Loose
  <2>3. Loose(e, unread)
    BY <2>2, AddLoose
  <2> QED
    BY <2>1, <2>2, <2>3, LooseTwice
<1>2. \A d \in SourceKnown(b) : Loose(b, d)
  <2>1. \A code : Loose(b, Cause(b, TRUE, code)) /\ Builder(Cause(b, TRUE, code))
    BY CauseLoose DEF Loose
  <2>2. \A code, way, impact, what :
           /\ Loose(b, Add(Cause(b, TRUE, code), impact, what))
           /\ Loose(b, AddGain(Cause(b, TRUE, code), what, way))
    BY <2>1, AddLoose, AddGainLoose, LooseTwice
  <2> QED
    BY <2>2, Zenon DEF SourceKnown
<1>3. \A d : Loose(b, d) => Loose(b, SkewRules(d))
  BY SkewLoose, LooseTwice DEF Loose
<1>4. c = unread \/ \E d \in SourceKnown(b) : c = SkewRules(d)
  BY SourceCases, Zenon
<1> HIDE DEF c, unread
<1>5. Loose(b, c)
  BY <1>1, <1>2, <1>3, <1>4
<1> QED
  BY <1>5 DEF c

LEMMA ProxyLoose == ASSUME NEW b, Builder(b) PROVE Loose(b, ProxyRules(b))
<1> DEFINE c == CauseIfUnknown(b, "proxyproc")
<1>1. Loose(b, c) /\ Builder(c)
  BY CauseIfUnknownLoose DEF Loose
<1>2. Loose(c, SlotsRules(c, job.proxies))
  BY <1>1, SlotsLoose
<1> QED
  BY <1>1, <1>2, LooseTwice DEF ProxyRules

\* What was measured can be compared.
Measurable == (LinkMeasured => LinkUsed \in Int) /\ (DiskMeasured => DiskUsed \in Int)

LEMMA NetworkEffect ==
    ASSUME NEW b, Builder(b), Measurable
    PROVE  /\ LinkMeasured => Final(b, NetworkRules(b), MeasuredCause("Network"))
           /\ ~ LinkMeasured => Loose(b, NetworkRules(b))
<1> DEFINE starved == AddGain(Severity(CauseFinal(b, "starvedNet"), "warn"), "feedNet", "concurrency")
           maxed == AddGain(Severity(CauseFinal(b, "maxedNet"), "critical"), "netUpgrade", "link")
           guessed == Add(AddGain(CauseIfUnknown(b, "netlink"), "netUpgrade", "link"), "verify", "iperf")
<1>1. ASSUME NEW cause, NEW severity \in Severities, NEW code, NEW way
      PROVE  Final(b, AddGain(Severity(CauseFinal(b, cause), severity), code, way), cause)
  <2> DEFINE d == CauseFinal(b, cause)
             e == Severity(d, severity)
  <2>1. Final(b, d, cause) /\ Builder(d)
    BY CauseFinalFinal DEF Final
  <2>2. Loose(d, e) /\ Builder(e)
    BY <1>1, <2>1, SeverityLoose DEF Loose
  <2>3. Loose(e, AddGain(e, code, way))
    BY <2>2, AddGainLoose
  <2> QED
    BY <2>1, <2>2, <2>3, FinalThenLoose
<1>2. Loose(b, guessed)
  <2> DEFINE d == CauseIfUnknown(b, "netlink")
             e == AddGain(d, "netUpgrade", "link")
  <2>1. Loose(b, d) /\ Builder(d)
    BY CauseIfUnknownLoose DEF Loose
  <2>2. Loose(d, e) /\ Builder(e)
    BY <2>1, AddGainLoose DEF Loose
  <2>3. Loose(e, guessed)
    BY <2>2, AddLoose
  <2> QED
    BY <2>1, <2>2, <2>3, LooseTwice
<1>3. Final(b, starved, "starvedNet") /\ Final(b, maxed, "maxedNet")
  BY <1>1, Judgements
<1> DEFINE below == LinkUsed < starvedPct
           above == LinkUsed >= starvedPct
<1>4. LinkMeasured => (above <=> ~ below)
  BY DEF Measurable, starvedPct
<1>5. NetworkRules(b) = CASE LinkMeasured /\ below -> starved [] LinkMeasured /\ above -> maxed [] OTHER -> guessed
  BY Zenon DEF NetworkRules
<1>6. MeasuredCause("Network") = IF below THEN "starvedNet" ELSE "maxedNet"
  BY DEF MeasuredCause
<1> HIDE DEF starved, maxed, guessed, below, above
<1>7. CASE ~ LinkMeasured
  <2>1. NetworkRules(b) = guessed
    BY <1>5, <1>7, Zenon
  <2> QED
    BY <1>2, <1>7, <2>1
<1>8. CASE LinkMeasured /\ below
  <2>1. NetworkRules(b) = starved
    BY <1>4, <1>5, <1>8, Zenon
  <2> QED
    BY <1>3, <1>6, <1>8, <2>1
<1>9. CASE LinkMeasured /\ ~ below
  <2>1. NetworkRules(b) = maxed
    BY <1>4, <1>5, <1>9, Zenon
  <2> QED
    BY <1>3, <1>6, <1>9, <2>1
<1> QED
  BY <1>7, <1>8, <1>9

LEMMA TargetEffect ==
    ASSUME NEW b, Builder(b), Measurable
    PROVE  /\ DiskMeasured => Final(b, TargetRules(b), MeasuredCause("Target"))
           /\ ~ DiskMeasured => Loose(b, TargetRules(b))
<1> DEFINE c == CauseIfUnknown(b, "repowrite")
           below == DiskUsed < starvedPct
           above == DiskUsed >= maxedPct
           unmeasured == UnmeasuredTarget(c)
           starved == StarvedTarget(c)
           maxed == MaxedTarget(c)
           partial == PartialTarget(c)
           rules == TargetRules(b)
<1>1. Loose(b, c) /\ Builder(c)
  BY CauseIfUnknownLoose DEF Loose
<1>2. Loose(c, unmeasured)
  <2> DEFINE d == SlotsRules(c, job.repos)
             e == Add(d, "verify", "fio")
  <2>1. Loose(c, d) /\ Builder(d)
    BY <1>1, SlotsLoose DEF Loose
  <2>2. Loose(d, e) /\ Builder(e)
    BY <2>1, AddLoose DEF Loose
  <2>3. Loose(e, CompressionRule(e))
    BY <2>2, CompressionLoose
  <2> QED
    BY <2>1, <2>2, <2>3, LooseTwice DEF UnmeasuredTarget
<1>3. Final(c, starved, "starvedTarget")
  <2> DEFINE d == CauseFinal(c, "starvedTarget")
             judged == Severity(d, "warn")
             slots == SlotsRules(judged, job.repos)
             feed == AddGain(judged, "feedTarget", "concurrency")
             fed == IF job.repos # <<>> /\ job.repos[1].cores > 0 THEN slots ELSE feed
             e == Add(fed, "info", "noBuyStorage")
  <2>1. Final(c, d, "starvedTarget") /\ Builder(d)
    BY <1>1, CauseFinalFinal DEF Final
  <2>2. Loose(d, judged) /\ Builder(judged)
    BY <2>1, Judgements, SeverityLoose DEF Loose
  <2>3. Loose(judged, fed) /\ Builder(fed)
    <3>1. fed = slots \/ fed = feed
      BY Zenon
    <3>2. Loose(judged, slots) /\ Loose(judged, feed)
      BY <2>2, SlotsLoose, AddGainLoose
    <3> HIDE DEF judged, slots, feed, fed
    <3> QED
      BY <3>1, <3>2 DEF Loose
  <2>4. starved = CompressionRule(e)
    BY DEF StarvedTarget
  <2> HIDE DEF fed
  <2>5. Loose(fed, e) /\ Builder(e)
    BY <2>3, AddLoose DEF Loose
  <2>6. Loose(e, starved)
    BY <2>4, <2>5, CompressionLoose
  <2> HIDE DEF d, judged, e, starved
  <2>7. Loose(d, starved)
    BY <2>2, <2>3, <2>5, <2>6, LooseTwice
  <2> QED
    BY <2>1, <2>7, FinalThenLoose
<1>4. Final(c, maxed, "maxedTarget")
  <2> DEFINE d == CauseFinal(c, "maxedTarget")
             judged == Severity(d, "critical")
             e == AddGain(judged, "fasterTarget", "storage")
  <2>1. Final(c, d, "maxedTarget") /\ Builder(d)
    BY <1>1, CauseFinalFinal DEF Final
  <2>2. Loose(d, judged) /\ Builder(judged)
    BY <2>1, Judgements, SeverityLoose DEF Loose
  <2>3. Loose(judged, e) /\ Builder(e)
    BY <2>2, AddGainLoose DEF Loose
  <2>4. maxed = CompressionRule(e)
    BY DEF MaxedTarget
  <2>5. Loose(e, maxed)
    BY <2>3, <2>4, CompressionLoose
  <2> HIDE DEF d, judged, e, maxed
  <2>6. Loose(d, maxed)
    BY <2>2, <2>3, <2>5, LooseTwice
  <2> QED
    BY <2>1, <2>6, FinalThenLoose
<1>5. Final(c, partial, "partialTarget")
  <2> DEFINE d == CauseFinal(c, "partialTarget")
             slots == SlotsRules(d, job.repos)
             e == Add(slots, "medium", "feedTarget")
  <2>1. Final(c, d, "partialTarget") /\ Builder(d)
    BY <1>1, CauseFinalFinal DEF Final
  <2>2. Loose(d, slots) /\ Builder(slots)
    BY <2>1, SlotsLoose DEF Loose
  <2>3. Loose(slots, e) /\ Builder(e)
    BY <2>2, AddLoose DEF Loose
  <2>4. partial = CompressionRule(e)
    BY DEF PartialTarget
  <2>5. Loose(e, partial)
    BY <2>3, <2>4, CompressionLoose
  <2> HIDE DEF d, slots, e, partial
  <2>6. Loose(d, partial)
    BY <2>2, <2>3, <2>5, LooseTwice
  <2> QED
    BY <2>1, <2>6, FinalThenLoose
<1>6. rules = CASE ~ DiskMeasured -> unmeasured
                [] DiskMeasured /\ below -> starved
                [] DiskMeasured /\ above -> maxed
                [] OTHER -> partial
  BY Zenon DEF TargetRules
<1>7. MeasuredCause("Target") = IF below THEN "starvedTarget" ELSE IF above THEN "maxedTarget" ELSE "partialTarget"
  BY DEF MeasuredCause
<1>8. DiskMeasured => ~ (below /\ above)
  BY DEF Measurable, starvedPct, maxedPct
<1> HIDE DEF rules, c, below, above, unmeasured, starved, maxed, partial
<1>9. CASE ~ DiskMeasured
  <2>1. rules = unmeasured
    BY <1>6, <1>9, Zenon
  <2>2. Loose(b, rules)
    BY <1>1, <1>2, <2>1, LooseTwice
  <2> QED
    BY <1>9, <2>2 DEF rules
<1>10. CASE DiskMeasured /\ below
  <2>1. rules = starved
    BY <1>6, <1>8, <1>10, Zenon
  <2>2. Final(b, rules, MeasuredCause("Target"))
    BY <1>1, <1>3, <1>7, <1>10, <2>1, LooseThenFinal
  <2> QED
    BY <1>10, <2>2 DEF rules
<1>11. CASE DiskMeasured /\ ~ below /\ above
  <2>1. rules = maxed
    BY <1>6, <1>8, <1>11, Zenon
  <2>2. Final(b, rules, MeasuredCause("Target"))
    BY <1>1, <1>4, <1>7, <1>11, <2>1, LooseThenFinal
  <2> QED
    BY <1>11, <2>2 DEF rules
<1>12. CASE DiskMeasured /\ ~ below /\ ~ above
  <2>1. rules = partial
    BY <1>6, <1>12, Zenon
  <2>2. Final(b, rules, MeasuredCause("Target"))
    BY <1>1, <1>5, <1>7, <1>12, <2>1, LooseThenFinal
  <2> QED
    BY <1>12, <2>2 DEF rules
<1> QED
  BY <1>9, <1>10, <1>11, <1>12

\* Whether the ceiling of a stage was measured.
HasCeiling(stage) == (stage = "Target" /\ DiskMeasured) \/ (stage = "Network" /\ LinkMeasured)

\* The rules of a stage make the cause final exactly if its ceiling is known.
LEMMA StageEffect ==
    ASSUME NEW b, Builder(b), Measurable, NEW stage \in Stages
    PROVE  /\ HasCeiling(stage) => Final(b, StageRules(b, stage), MeasuredCause(stage))
           /\ ~ HasCeiling(stage) => Loose(b, StageRules(b, stage))
<1>1. CASE stage = "Source"
  <2>1. StageRules(b, stage) = SourceRules(b)
    BY <1>1, Zenon DEF StageRules
  <2> QED
    BY <1>1, <2>1, SourceLoose DEF HasCeiling
<1>2. CASE stage = "Proxy"
  <2>1. StageRules(b, stage) = ProxyRules(b)
    BY <1>2, Zenon DEF StageRules
  <2> QED
    BY <1>2, <2>1, ProxyLoose DEF HasCeiling
<1>3. CASE stage = "Network"
  <2>1. StageRules(b, stage) = NetworkRules(b)
    BY <1>3, Zenon DEF StageRules
  <2> QED
    BY <1>3, <2>1, NetworkEffect DEF HasCeiling
<1>4. CASE stage = "Target"
  <2>1. StageRules(b, stage) = TargetRules(b)
    BY <1>4, Zenon DEF StageRules
  <2> QED
    BY <1>4, <2>1, TargetEffect DEF HasCeiling
<1> QED
  BY <1>1, <1>2, <1>3, <1>4 DEF Stages

------------------------------------------------------------------------------
(* The inductive invariant.                                                *)

\* What the argument needs of TypeOK.
Types ==
    /\ tot.util \in Utils
    /\ tot.loads \in Nat /\ tot.xfer \in Nat /\ tot.dataDur \in Nat
    /\ job.util \in Utils
    /\ job.write \in Int /\ job.disk \in Nat /\ job.link \in Nat
    /\ DOMAIN tot.votes = Bottlenecks /\ job.primary \in StageNames
    /\ Builder(v)

\* What the measurements say of the job.
TheCause == MeasuredCause(Hottest(job.util, Measured))

Settled == v.locked /\ v.known /\ v.cause = TheCause

\* While the rules are applied the cause is final as soon as that of the first
\* measured stage has been, and that is the busiest measured one.
CauseInv ==
    /\ pc \in {"loop", "judge", "refused", "rules", "space", "finish", "done"}
    /\ pc \in {"loop", "judge"} => ~ v.locked
    /\ pc = "rules" => /\ todo \subseteq Judged /\ Judged \subseteq Stages
                       /\ (~ v.locked /\ Measured \subseteq todo) \/ Settled
    /\ pc \in {"space", "finish", "done"} => Measured = {} \/ Settled

IInv == Types /\ CauseInv

LEMMA TypesMeasurable == Types => Measurable
<1> SUFFICES ASSUME Types PROVE Measurable
  OBVIOUS
<1>1. ASSUME LinkMeasured PROVE LinkUsed \in Int
  BY <1>1 DEF Types, LinkMeasured, LinkUsed, PercentOf
<1>2. ASSUME DiskMeasured PROVE DiskUsed \in Int
  BY <1>2 DEF Types, DiskMeasured, DiskUsed, PercentOf
<1> QED
  BY <1>1, <1>2 DEF Measurable

LEMMA MeasuredStages == Measured \subseteq Judged /\ (\A s \in Judged : s \in Measured <=> HasCeiling(s))
  BY DEF Measured, HasCeiling

\* All of this is about what JobCapacity has found.
LEMMA JobKept ==
    ASSUME job' = job
    PROVE  Measured' = Measured /\ Judged' = Judged /\ TheCause' = TheCause
  BY DEF Measured, Judged, TheCause, MeasuredCause, DiskMeasured, LinkMeasured, DiskUsed, LinkUsed

LEMMA InitInv == Init => IInv
<1> SUFFICES ASSUME Init PROVE IInv
  OBVIOUS
<1>1. Builder(v) /\ ~ v.locked
  BY DEF Init, NoVerdict, NoActions, Builder, Fields, Severities, StageNames
<1>2. /\ tot.util \in Utils /\ tot.loads \in Nat /\ tot.xfer \in Nat /\ tot.dataDur \in Nat
  BY DEF Init, NoTotals, Utils
<1>3. job.util \in Utils /\ job.write \in Int /\ job.disk \in Nat /\ job.link \in Nat
  <2>1. job.util = [s \in Stages |-> 0]
    BY DEF Init, NoJob
  <2>2. job.write = 0 /\ job.disk = 0 /\ job.link = 0
    BY DEF Init, NoJob
  <2> QED
    BY <2>1, <2>2 DEF Utils
<1>4. DOMAIN tot.votes = Bottlenecks /\ job.primary \in StageNames
  BY DEF Init, NoTotals, NoJob, StageNames
<1> QED
  BY <1>1, <1>2, <1>3, <1>4 DEF Init, IInv, Types, CauseInv

\* JobCapacity does not touch the verdict.
LEMMA CapacityStep == ASSUME ConstantsOK, IInv, JobCapacity PROVE IInv'
<1>1. pc = "loop" /\ v' = v /\ pc' \in {"loop", "judge", "refused"}
  BY DEF JobCapacity, SkipSession, ReadRun, CountRun, Refuse, EndWindow, Summarise
<1>2. /\ tot.util \in Utils /\ tot.loads \in Nat /\ tot.xfer \in Nat /\ tot.dataDur \in Nat
  BY DEF IInv, Types
<1>3. /\ tot'.util \in Utils /\ tot'.loads \in Nat /\ tot'.xfer \in Nat /\ tot'.dataDur \in Nat
  <2>1. CASE tot' = tot
    BY <1>2, <2>1
  <2>2. ASSUME NEW run \in Runs, NEW primary, CountRun(run, primary)
        PROVE  /\ tot'.util \in Utils /\ tot'.loads \in Nat /\ tot'.xfer \in Nat /\ tot'.dataDur \in Nat
    <3> DEFINE big == IF Bigger(run.read, run.xfer) >= lowFloor THEN 1 ELSE 0
               util == IF run.loads = {} THEN tot.util
                       ELSE [s \in Stages |-> tot.util[s] + Worst(run.loads)[s]]
               loads == tot.loads + (IF run.loads = {} THEN 0 ELSE 1)
               xfer == tot.xfer + big * run.xfer
               dataDur == tot.dataDur + big * run.dur
    <3>1. tot'.util = util /\ tot'.loads = loads /\ tot'.xfer = xfer /\ tot'.dataDur = dataDur
      BY <2>2 DEF CountRun
    <3>2. big \in {0, 1} /\ run.xfer \in Nat /\ run.dur \in Nat
      BY DEF ConstantsOK
    <3>3. util \in Utils
      <4>1. run.loads # {} => Worst(run.loads) \in [Stages -> Nat]
        BY DEF ConstantsOK
      <4> QED
        BY <1>2, <4>1 DEF Utils
    <3>4. loads \in Nat
      BY <1>2
    <3> HIDE DEF big
    <3>5. xfer \in Nat /\ dataDur \in Nat
      BY <1>2, <3>2
    <3> QED
      BY <3>1, <3>3, <3>4, <3>5
  <2>3. tot' = tot \/ \E run \in Runs : \E primary \in Primaries(run) : CountRun(run, primary)
    BY DEF JobCapacity, SkipSession, ReadRun, Refuse, EndWindow, Summarise
  <2> QED
    BY <2>1, <2>2, <2>3
<1>4. job'.util \in Utils /\ job'.write \in Int /\ job'.disk \in Nat /\ job'.link \in Nat
  <2>1. CASE job' = job
    BY <2>1 DEF IInv, Types
  <2>2. ASSUME NEW site \in Sites, NEW primary, NEW order, Summarise(site, primary, order)
        PROVE  job'.util \in Utils /\ job'.write \in Int /\ job'.disk \in Nat /\ job'.link \in Nat
    <3> DEFINE write == IF tot.dataDur = 0 THEN 0 ELSE Tenths(tot.xfer, tot.dataDur)
               disk == BestDisk(site.repos)
               link == Bigger(site.send, site.recv)
    <3>1. job'.util = Average /\ job'.write = write /\ job'.disk = disk /\ job'.link = link
      BY <2>2 DEF Summarise
    <3>2. Average \in Utils
      BY <1>2 DEF Average, Utils
    <3>3. write \in Int
      BY <1>2 DEF Tenths
    <3>4. disk \in Nat /\ link \in Nat
      BY DEF ConstantsOK, Bigger
    <3> QED
      BY <3>1, <3>2, <3>3, <3>4
  <2>3. job' = job \/ \E site \in Sites, primary \in MostVoted(tot.votes) : \E order \in Orders(site.repos) :
                          Summarise(site, primary, order)
    BY DEF JobCapacity, SkipSession, ReadRun, CountRun, Refuse, EndWindow
  <2> QED
    BY <2>1, <2>2, <2>3
<1>5. DOMAIN tot'.votes = Bottlenecks /\ job'.primary \in StageNames
  <2>1. DOMAIN tot.votes = Bottlenecks /\ job.primary \in StageNames
    BY DEF IInv, Types
  <2>2. ASSUME NEW run, NEW primary, CountRun(run, primary)
        PROVE  DOMAIN tot'.votes = Bottlenecks /\ job' = job
    BY <2>2 DEF CountRun
  <2>3. ASSUME NEW site, NEW primary \in MostVoted(tot.votes), NEW order, Summarise(site, primary, order)
        PROVE  tot' = tot /\ job'.primary \in StageNames
    <3>1. primary \in StageNames
      BY <2>1, Zenon DEF MostVoted, StageNames
    <3> QED
      BY <2>3, <3>1 DEF Summarise
  <2> QED
    BY <2>1, <2>2, <2>3, Zenon DEF JobCapacity, SkipSession, ReadRun, Refuse, EndWindow
<1> QED
  BY <1>1, <1>3, <1>4, <1>5 DEF IInv, Types, CauseInv

\* An action that is added leaves a settled cause settled.
LEMMA LooseSettled ==
    ASSUME NEW c, Settled, Loose(v, c), v' = c, job' = job
    PROVE  Settled'
<1>1. v'.locked /\ v'.known /\ v'.cause = v.cause
  BY DEF Settled, Loose, Same
<1>2. TheCause' = TheCause
  BY JobKept
<1> QED
  BY <1>1, <1>2 DEF Settled

\* BuildVerdict up to the rules.
LEMMA JudgeStep == ASSUME IInv, Insufficient \/ Balanced \/ Limited PROVE IInv'
<1>1. Builder(v) /\ ~ v.locked /\ pc = "judge"
  BY DEF IInv, Types, CauseInv, Insufficient, Balanced, Limited, Judging
<1>2. job' = job /\ tot' = tot
  BY DEF Insufficient, Balanced, Limited
<1>3. Measured' = Measured /\ Judged' = Judged
  BY <1>2, JobKept
<1>4. CASE Insufficient
  <2> DEFINE d == Severity(v, "unknown")
             e == Cause(d, FALSE, "noop")
  <2>1. Builder(d)
    BY <1>1, Judgements, SeverityLoose DEF Loose
  <2>2. Builder(e)
    BY <2>1, CauseLoose DEF Loose
  <2>3. Builder(v')
    BY <1>4, <2>2, AddLoose DEF Insufficient, Loose
  <2>4. Measured = {}
    BY <1>4 DEF Insufficient, Measured, Judged
  <2> QED
    BY <1>2, <1>3, <1>4, <2>3, <2>4 DEF Insufficient, IInv, Types, CauseInv
<1>5. CASE Balanced
  <2> DEFINE d == Severity(v, "ok")
             e == Cause(d, TRUE, "balanced")
  <2>1. Builder(d)
    BY <1>1, Judgements, SeverityLoose DEF Loose
  <2>2. Builder(e)
    BY <2>1, CauseLoose DEF Loose
  <2>3. Builder(v')
    BY <1>5, <2>2, AddLoose DEF Balanced, Loose
  <2>4. Measured = {}
    <3>1. Judged = {job.primary} \cap Stages \/ Judged = {}
      BY <1>5, Zenon DEF Balanced, Judged
    <3>2. job.primary \notin Stages
      BY <1>5 DEF Balanced, Stages
    <3>3. Judged = {}
      BY <3>1, <3>2
    <3> QED
      BY <3>3, MeasuredStages
  <2> QED
    BY <1>2, <1>3, <1>5, <2>3, <2>4 DEF Balanced, IInv, Types, CauseInv
<1>6. CASE Limited
  <2> DEFINE top == Hottest(job.util, Stages)
             severity == IF job.util[top] >= 95 THEN "critical" ELSE "warn"
             d == Severity(v, severity)
  <2>1. v' = [d EXCEPT !.stage = top]
    BY <1>6 DEF Limited
  <2>7. severity \in Severities /\ top \in StageNames
    <3>1. top \in Stages
      BY HottestInside DEF IInv, Types, Stages
    <3> QED
      BY <3>1, Judgements, Zenon
  <2> HIDE DEF severity, top
  <2>2. Loose(v, d) /\ Builder(d)
    BY <1>1, <2>7, SeverityLoose DEF Loose
  <2> HIDE DEF d
  <2>3. Loose(d, v')
    BY <2>1, <2>2, <2>7, OtherField
  <2>4. Builder(v') /\ ~ v'.locked
    BY <1>1, <2>2, <2>3 DEF Loose
  <2>5. Judged = Binding(job.util) /\ Judged \subseteq Stages
    <3>1. Judged = Binding(job.util)
      BY <1>6, Zenon DEF Limited, Judging, Judged
    <3> QED
      BY <3>1 DEF Binding
  <2>6. todo' = Judged' /\ pc' = "rules" /\ Measured' \subseteq Judged'
    BY <1>3, <1>6, <2>5, MeasuredStages DEF Limited
  <2> QED
    BY <1>2, <1>3, <2>4, <2>5, <2>6 DEF IInv, Types, CauseInv
<1> QED
  BY <1>4, <1>5, <1>6

\* Where no stage saturates, the one that dominates is judged.
LEMMA DominatedStep == ASSUME IInv, Dominated PROVE IInv'
<1>1. Builder(v) /\ ~ v.locked /\ job.util \in Utils /\ Measurable
  BY TypesMeasurable DEF IInv, Types, CauseInv, Dominated, Judging
<1>2. job' = job /\ tot' = tot /\ pc' = "space"
  BY DEF Dominated
<1> DEFINE stage == job.primary
           d == Severity(v, "warn")
           e == [d EXCEPT !.stage = stage]
<1>3. v' = StageRules(e, stage)
  BY DEF Dominated
<1>4. Builder(d) /\ ~ d.locked
  BY <1>1, Judgements, SeverityLoose DEF Loose
<1>5. Builder(e) /\ ~ e.locked
  <2>1. stage \in StageNames
    BY DEF IInv, Types
  <2> HIDE DEF d, stage
  <2> QED
    BY <1>4, <2>1, OtherField DEF Loose
<1>6. Judged = {stage} \cap Stages
  BY Zenon DEF Dominated, Judging, Judged
<1> HIDE DEF stage, e
<1>7. CASE stage \notin Stages
  <2>1. StageRules(e, stage) = e
    BY <1>7, Zenon DEF StageRules, Stages
  <2>2. Measured = {}
    BY <1>6, <1>7, MeasuredStages
  <2> QED
    BY <1>2, <1>3, <1>5, <2>1, <2>2, JobKept DEF IInv, Types, CauseInv
<1>8. CASE stage \in Stages /\ ~ HasCeiling(stage)
  <2>1. Builder(v')
    BY <1>1, <1>3, <1>5, <1>8, StageEffect DEF Loose
  <2>2. Measured = {}
    BY <1>6, <1>8, MeasuredStages
  <2> QED
    BY <1>2, <2>1, <2>2, JobKept DEF IInv, Types, CauseInv
<1>9. CASE stage \in Stages /\ HasCeiling(stage)
  <2>1. Final(e, v', MeasuredCause(stage))
    BY <1>1, <1>3, <1>5, <1>9, StageEffect
  <2>2. Measured = {stage}
    BY <1>6, <1>9, MeasuredStages
  <2>3. Hottest(job.util, Measured) = stage
    BY <1>1, <1>9, <2>2, HottestInside
  <2>4. Settled'
    BY <1>2, <1>5, <2>1, <2>3, JobKept DEF Settled, Final, TheCause
  <2> QED
    BY <1>2, <2>1, <2>4 DEF IInv, Types, CauseInv, Final
<1> QED
  BY <1>7, <1>8, <1>9

\* The next rules are those of the busiest stage that is left.
LEMMA ApplyStep == ASSUME IInv, ApplyRules PROVE IInv'
<1> DEFINE stage == Hottest(job.util, todo)
<1>1. /\ Builder(v) /\ job.util \in Utils /\ Measurable /\ pc = "rules" /\ todo # {}
      /\ todo \subseteq Judged /\ Judged \subseteq Stages
      /\ (~ v.locked /\ Measured \subseteq todo) \/ Settled
  BY TypesMeasurable DEF IInv, Types, CauseInv, ApplyRules
<1>2. stage \in todo /\ stage \in Stages
  BY <1>1, HottestInside
<1>3. job' = job /\ tot' = tot /\ pc' = "rules" /\ v' = StageRules(v, stage) /\ todo' = todo \ {stage}
  BY <1>1 DEF ApplyRules
<1>4. Builder(v') /\ (v.locked => Loose(v, v'))
  BY <1>1, <1>2, <1>3, StageEffect DEF Loose, Final, Same
<1>5. (~ v'.locked /\ Measured \subseteq todo') \/ Settled'
  <2>1. CASE Settled
    BY <1>3, <1>4, <2>1, LooseSettled DEF Settled
  <2>2. CASE ~ v.locked /\ Measured \subseteq todo /\ HasCeiling(stage)
    <3>1. stage \in Measured
      BY <1>1, <1>2, <2>2, MeasuredStages
    <3>2. Hottest(job.util, Measured) = stage
      BY <1>1, <2>2, <3>1, HottestOfPart
    <3>3. Final(v, v', MeasuredCause(stage))
      BY <1>1, <1>2, <1>3, <2>2, StageEffect
    <3> QED
      BY <1>3, <2>2, <3>2, <3>3, JobKept DEF Settled, Final, TheCause
  <2>3. CASE ~ v.locked /\ Measured \subseteq todo /\ ~ HasCeiling(stage)
    <3>1. stage \notin Measured
      BY <1>1, <1>2, <2>3, MeasuredStages
    <3>2. Loose(v, v')
      BY <1>1, <1>2, <1>3, <2>3, StageEffect
    <3> QED
      BY <1>3, <2>3, <3>1, <3>2 DEF Loose
  <2> QED
    BY <1>1, <2>1, <2>2, <2>3
<1>6. todo' \subseteq Judged
  BY <1>1, <1>3
<1> HIDE DEF stage
<1> QED
  BY <1>1, <1>3, <1>4, <1>5, <1>6, JobKept DEF IInv, Types, CauseInv

\* What follows the rules only adds actions.
LEMMA LaterStep == ASSUME IInv, RulesApplied \/ CheckSpace \/ CrossCut \/ Finish PROVE IInv'
<1>1. Builder(v) /\ job' = job /\ tot' = tot
  BY DEF IInv, Types, RulesApplied, CheckSpace, CrossCut, Finish
<1>2. Measured = {} \/ Settled
  BY DEF IInv, CauseInv, RulesApplied, CheckSpace, CrossCut, Finish
<1>3. pc' \in {"space", "finish", "done"}
  BY DEF RulesApplied, CheckSpace, CrossCut, Finish
<1>4. Loose(v, v')
  <2>1. CASE RulesApplied \/ Finish
    BY <1>1, <2>1, LooseSelf DEF RulesApplied, Finish
  <2>2. CASE CheckSpace
    <3>1. v' = v \/ \E impact : v' = Add(v, impact, "repoFree")
      BY <2>2, Zenon DEF CheckSpace
    <3> QED
      BY <1>1, <3>1, LooseSelf, AddLoose
  <2>3. CASE CrossCut
    <3> DEFINE widened == IF job.confidence = "low" THEN Add(v, "verify", "window") ELSE v
    <3>1. Loose(v, widened) /\ Builder(widened)
      <4>1. Loose(v, Add(v, "verify", "window")) /\ Loose(v, v)
        BY <1>1, LooseSelf, AddLoose
      <4> QED
        BY <4>1, Zenon DEF Loose
    <3>2. v' = Add(widened, "verify", "deep") \/ v' = widened
      BY <2>3, Zenon DEF CrossCut
    <3> HIDE DEF widened
    <3> QED
      BY <3>1, <3>2, AddLoose, LooseTwice
  <2> QED
    BY <2>1, <2>2, <2>3, SMTT(30)
<1>5. Measured' = {} \/ Settled'
  BY <1>1, <1>2, <1>4, JobKept, LooseSettled
<1> QED
  BY <1>1, <1>3, <1>4, <1>5 DEF IInv, Types, CauseInv, Loose

LEMMA StepInv == ASSUME ConstantsOK, IInv, [Next]_vars PROVE IInv'
<1>1. CASE UNCHANGED vars
  <2>1. job' = job /\ v' = v /\ pc' = pc /\ todo' = todo /\ tot' = tot
    BY <1>1 DEF vars
  <2>2. Measured' = Measured /\ Judged' = Judged /\ (Settled' <=> Settled)
    BY <2>1, JobKept DEF Settled
  <2> QED
    BY <2>1, <2>2 DEF IInv, Types, CauseInv
<1>2. CASE JobCapacity
  BY <1>2, CapacityStep
<1>3. CASE BuildVerdict
  BY <1>3, JudgeStep, DominatedStep, ApplyStep, LaterStep DEF BuildVerdict
<1> QED
  BY <1>1, <1>2, <1>3 DEF Next

\* verdict.go:144-149: whichever stages saturate together, in whatever order, and
\* whatever the task slots, the deep logs and the free space add, the verdict ends
\* with what was measured at the busiest stage whose ceiling was measured.
THEOREM MeasuredCauseStandsHolds == ASSUME ConstantsOK PROVE Spec => []MeasuredCauseStands
<1>1. Init => IInv
  BY InitInv
<1>2. IInv /\ [Next]_vars => IInv'
  BY StepInv
<1>3. IInv => MeasuredCauseStands
  BY DEF IInv, CauseInv, Settled, TheCause, MeasuredCauseStands
<1> QED
  BY <1>1, <1>2, <1>3, PTL DEF Spec

------------------------------------------------------------------------------
(* The actions that a rule adds.                                           *)

\* What the rules say, and what they may ask for if it is not storage.
Codes == {"window", "balanced", "repoFree", "deep", "iperf", "fio", "srcStorage", "hotadd",
          "slotsUnknown", "scaleHost", "slots", "atCapacity", "compression", "skew", "serial",
          "feedNet", "netUpgrade", "feedTarget", "noBuyStorage"}
Ways == {"", "host", "concurrency", "link"}

LEMMA Vocabulary ==
    /\ "high" \in Impacts /\ "hygiene" \in Impacts /\ "medium" \in Impacts
    /\ "verify" \in Impacts /\ "info" \in Impacts
    /\ "" \in Ways /\ "host" \in Ways /\ "concurrency" \in Ways /\ "link" \in Ways
    /\ "window" \in Codes /\ "balanced" \in Codes /\ "repoFree" \in Codes
    /\ "deep" \in Codes /\ "iperf" \in Codes /\ "fio" \in Codes
    /\ "srcStorage" \in Codes /\ "hotadd" \in Codes /\ "slotsUnknown" \in Codes
    /\ "scaleHost" \in Codes /\ "slots" \in Codes /\ "atCapacity" \in Codes
    /\ "compression" \in Codes /\ "skew" \in Codes /\ "serial" \in Codes
    /\ "feedNet" \in Codes /\ "netUpgrade" \in Codes /\ "feedTarget" \in Codes
    /\ "noBuyStorage" \in Codes
  BY DEF Impacts, Ways, Codes

\* The host of the job's proxy or of its repository takes no more tasks.
HostFull == \E hosts \in {job.proxies, job.repos} : hosts # <<>> /\ AtCapacity(hosts[1])

ScaleOut == Action("atCapacity", "scaleOut", job.gain)

\* What a starved disk may be told: scaling out only where a host is full.
Free == [code : Codes, way : Ways, gain : {0, job.gain}] \cup {a \in {ScaleOut} : HostFull}

\* A builder all of whose actions are such actions, and that holds on to storage.
Clean(b) == DOMAIN b = Fields /\ b.acts \in [Impacts -> Seq(Free)]
Told(b) == \E i \in DOMAIN b.acts["info"] : b.acts["info"][i].code = "noBuyStorage"

\* What was clean stays clean, and what was told stays told.
Kept(b, c) == Clean(c) /\ (Told(b) => Told(c))

LEMMA KeptTwice == ASSUME NEW b, NEW c, NEW d, Kept(b, c), Kept(c, d) PROVE Kept(b, d)
  BY DEF Kept

LEMMA KeptSelf == ASSUME NEW b, Clean(b) PROVE Kept(b, b)
  BY DEF Kept

\* One more action.
LEMMA AppendKept ==
    ASSUME NEW b, Clean(b), NEW impact \in Impacts, NEW a \in Free
    PROVE  LET c == [b EXCEPT !.acts = [b.acts EXCEPT ![impact] = Append(b.acts[impact], a)]]
           IN  Kept(b, c) /\ (impact = "info" /\ a.code = "noBuyStorage" => Told(c))
<1> DEFINE acts == [b.acts EXCEPT ![impact] = Append(b.acts[impact], a)]
           c == [b EXCEPT !.acts = acts]
<1>1. \A i \in Impacts : b.acts[i] \in Seq(Free)
  BY DEF Clean
<1>2. /\ acts[impact] = Append(b.acts[impact], a)
      /\ \A i \in Impacts : i # impact => acts[i] = b.acts[i]
      /\ DOMAIN acts = Impacts
      /\ acts = [i \in Impacts |-> acts[i]]
  BY DEF Clean
<1>3. \A i \in Impacts : acts[i] \in Seq(Free)
  BY <1>1, <1>2, AppendProperties
<1>4. acts \in [Impacts -> Seq(Free)]
  BY <1>2, <1>3
<1> HIDE DEF acts
<1>5. DOMAIN c = Fields /\ c.acts = acts
  BY DEF Clean, Fields
<1>6. ASSUME NEW i \in DOMAIN b.acts["info"]
      PROVE  i \in DOMAIN acts["info"] /\ acts["info"][i] = b.acts["info"][i]
  <2>1. "info" \in Impacts
    BY DEF Impacts
  <2>2. CASE impact # "info"
    BY <1>2, <1>6, <2>1, <2>2
  <2>3. CASE impact = "info"
    <3>1. acts["info"] = Append(b.acts["info"], a) /\ b.acts["info"] \in Seq(Free)
      BY <1>1, <1>2, <2>1, <2>3
    <3> QED
      BY <1>6, <3>1, AppendProperties
  <2> QED
    BY <2>2, <2>3
<1>7. ASSUME impact = "info", a.code = "noBuyStorage" PROVE Told(c)
  <2>1. acts["info"] = Append(b.acts["info"], a) /\ b.acts["info"] \in Seq(Free)
    BY <1>1, <1>2, <1>7
  <2>2. Len(acts["info"]) \in DOMAIN acts["info"] /\ acts["info"][Len(acts["info"])] = a
    BY <2>1, AppendProperties
  <2> QED
    BY <1>5, <1>7, <2>2 DEF Told
<1>8. Clean(c) /\ (Told(b) => Told(c))
  BY <1>4, <1>5, <1>6 DEF Clean, Told
<1> QED
  BY <1>7, <1>8 DEF Kept, acts

LEMMA AddKept ==
    ASSUME NEW b, Clean(b), NEW impact \in Impacts, NEW code \in Codes
    PROVE  /\ Kept(b, Add(b, impact, code))
           /\ impact = "info" /\ code = "noBuyStorage" => Told(Add(b, impact, code))
<1> DEFINE a == Action(code, "", 0)
           c == [b EXCEPT !.acts = [b.acts EXCEPT ![impact] = Append(b.acts[impact], a)]]
<1>1. a \in Free /\ a.code = code
  BY Vocabulary DEF Action, Free
<1>2. Add(b, impact, code) = c
  BY DEF Add
<1> HIDE DEF a
<1>3. Kept(b, c) /\ (impact = "info" /\ a.code = "noBuyStorage" => Told(c))
  BY <1>1, AppendKept
<1> HIDE DEF c
<1> QED
  BY <1>1, <1>2, <1>3

LEMMA AddGainKept ==
    ASSUME NEW b, Clean(b), NEW code \in Codes, NEW way \in Ways
    PROVE  Kept(b, AddGain(b, code, way))
<1> DEFINE a == Action(code, way, job.gain)
           c == [b EXCEPT !.acts = [b.acts EXCEPT !["high"] = Append(b.acts["high"], a)]]
<1>1. a \in Free /\ "high" \in Impacts
  BY Vocabulary DEF Action, Free
<1>2. AddGain(b, code, way) = c
  BY DEF AddGain
<1> HIDE DEF a
<1>3. Kept(b, c)
  BY <1>1, AppendKept
<1> HIDE DEF c
<1> QED
  BY <1>2, <1>3

\* The cause, the severity and the stage are no actions.
LEMMA OtherKept ==
    ASSUME NEW b, Clean(b), NEW x
    PROVE  /\ Kept(b, [b EXCEPT !.severity = x])
           /\ Kept(b, [b EXCEPT !.stage = x])
           /\ Kept(b, [b EXCEPT !.locked = x])
  BY DEF Clean, Fields, Kept, Told

LEMMA CauseKept ==
    ASSUME NEW b, Clean(b), NEW known, NEW code
    PROVE  /\ Kept(b, Cause(b, known, code))
           /\ Kept(b, CauseIfUnknown(b, code))
           /\ Kept(b, CauseFinal(b, code))
<1>1. \A x : Kept(b, Cause(b, x, code))
  BY DEF Clean, Fields, Kept, Told, Cause
<1>2. Kept(b, CauseFinal(b, code))
  BY <1>1, OtherKept, KeptTwice DEF CauseFinal, Kept
<1>3. Kept(b, CauseIfUnknown(b, code))
  BY <1>1, KeptSelf, Zenon DEF CauseIfUnknown
<1> QED
  BY <1>1, <1>2, <1>3

\* To scale out is told where a host is full.
LEMMA ScaleOutKept ==
    ASSUME NEW b, Clean(b), HostFull
    PROVE  Kept(b, AddGain(b, "atCapacity", "scaleOut"))
<1> DEFINE a == Action("atCapacity", "scaleOut", job.gain)
           c == [b EXCEPT !.acts = [b.acts EXCEPT !["high"] = Append(b.acts["high"], a)]]
<1>1. a \in Free /\ "high" \in Impacts
  BY Vocabulary DEF ScaleOut, Free
<1>2. AddGain(b, "atCapacity", "scaleOut") = c
  BY DEF AddGain
<1> HIDE DEF a
<1>3. Kept(b, c)
  BY <1>1, AppendKept
<1> HIDE DEF c
<1> QED
  BY <1>2, <1>3

LEMMA SlotsKept ==
    ASSUME NEW b, Clean(b), NEW resources \in {job.proxies, job.repos}
    PROVE  Kept(b, SlotsRules(b, resources))
<1> DEFINE c == SlotsRules(b, resources)
           out == AddGain(b, "atCapacity", "scaleOut")
           full == resources # <<>> /\ AtCapacity(resources[1])
<1>1. \/ c = b \/ c = Add(b, "verify", "slotsUnknown") \/ c = AddGain(b, "scaleHost", "host")
      \/ c = Cause(AddGain(b, "slots", ""), TRUE, "slots") \/ (c = out /\ full)
  BY SlotsCases, Zenon
<1>2. Kept(b, AddGain(b, "slots", "")) /\ Clean(AddGain(b, "slots", ""))
  BY Vocabulary, AddGainKept DEF Kept
<1>3. Kept(b, Cause(AddGain(b, "slots", ""), TRUE, "slots"))
  BY <1>2, CauseKept, KeptTwice
<1>4. full => HostFull
  BY Zenon DEF HostFull
<1>5. full => Kept(b, out)
  BY <1>4, ScaleOutKept
<1> HIDE DEF c, out, full
<1>6. Kept(b, c)
  BY Vocabulary, <1>1, <1>3, <1>5, KeptSelf, AddKept, AddGainKept
<1> QED
  BY <1>6 DEF c

LEMMA CompressionKept == ASSUME NEW b, Clean(b) PROVE Kept(b, CompressionRule(b))
<1>1. CompressionRule(b) = b \/ CompressionRule(b) = Add(b, "medium", "compression")
  BY Zenon DEF CompressionRule
<1> QED
  BY Vocabulary, <1>1, KeptSelf, AddKept

LEMMA SourceKept == ASSUME NEW b, Clean(b) PROVE Kept(b, SourceRules(b))
<1> DEFINE unread == Add(Add(Cause(b, FALSE, "srcunknown"), "verify", "deep"), "verify", "srcStorage")
           c == SourceRules(b)
<1>1. \A known, code : Kept(b, Cause(b, known, code)) /\ Clean(Cause(b, known, code))
  BY CauseKept DEF Kept
<1>2. Kept(b, unread)
  <2> DEFINE d == Cause(b, FALSE, "srcunknown")
             e == Add(d, "verify", "deep")
  <2>1. Kept(d, e) /\ Clean(e)
    BY Vocabulary, <1>1, AddKept DEF Kept
  <2>2. Kept(e, unread)
    BY Vocabulary, <2>1, AddKept
  <2> QED
    BY <1>1, <2>1, <2>2, KeptTwice
<1>3. \A d \in SourceKnown(b) : Kept(b, d) /\ Clean(d)
  <2>1. \A code : \A what \in Codes :
           /\ Kept(b, Add(Cause(b, TRUE, code), "verify", what))
           /\ Kept(b, AddGain(Cause(b, TRUE, code), what, ""))
    BY Vocabulary, <1>1, AddKept, AddGainKept, KeptTwice
  <2>2. \A d \in SourceKnown(b) : Kept(b, d)
    BY <2>1, Vocabulary DEF SourceKnown
  <2> QED
    BY <2>2 DEF Kept
<1>4. \A d : Clean(d) => Kept(d, SkewRules(d))
  BY Vocabulary, SkewCases, KeptSelf, AddKept
<1>5. c = unread \/ \E d \in SourceKnown(b) : c = SkewRules(d)
  BY SourceCases, Zenon
<1> HIDE DEF c, unread
<1>6. Kept(b, c)
  BY <1>2, <1>3, <1>4, <1>5, KeptTwice
<1> QED
  BY <1>6 DEF c

LEMMA ProxyKept == ASSUME NEW b, Clean(b) PROVE Kept(b, ProxyRules(b))
<1> DEFINE c == CauseIfUnknown(b, "proxyproc")
<1>1. Kept(b, c) /\ Clean(c)
  BY CauseKept DEF Kept
<1>2. Kept(c, SlotsRules(c, job.proxies))
  BY Vocabulary, <1>1, SlotsKept
<1> QED
  BY <1>1, <1>2, KeptTwice DEF ProxyRules

LEMMA NetworkKept == ASSUME NEW b, Clean(b), Measurable PROVE Kept(b, NetworkRules(b))
<1> DEFINE starved == AddGain(Severity(CauseFinal(b, "starvedNet"), "warn"), "feedNet", "concurrency")
           maxed == AddGain(Severity(CauseFinal(b, "maxedNet"), "critical"), "netUpgrade", "link")
           guessed == Add(AddGain(CauseIfUnknown(b, "netlink"), "netUpgrade", "link"), "verify", "iperf")
           c == NetworkRules(b)
<1>1. ASSUME NEW cause, NEW severity, NEW code \in Codes, NEW way \in Ways
      PROVE  Kept(b, AddGain(Severity(CauseFinal(b, cause), severity), code, way))
  <2> DEFINE d == CauseFinal(b, cause)
             e == Severity(d, severity)
  <2>1. Kept(b, d) /\ Clean(d)
    BY CauseKept DEF Kept
  <2>2. Kept(d, e) /\ Clean(e)
    BY <2>1, OtherKept DEF Kept, Severity
  <2>3. Kept(e, AddGain(e, code, way))
    BY Vocabulary, <1>1, <2>2, AddGainKept
  <2> QED
    BY <2>1, <2>2, <2>3, KeptTwice
<1>2. Kept(b, starved) /\ Kept(b, maxed)
  BY <1>1, Vocabulary
<1>3. Kept(b, guessed)
  <2> DEFINE d == CauseIfUnknown(b, "netlink")
             e == AddGain(d, "netUpgrade", "link")
  <2>1. Kept(b, d) /\ Clean(d)
    BY CauseKept DEF Kept
  <2>2. Kept(d, e) /\ Clean(e)
    BY Vocabulary, <2>1, AddGainKept DEF Kept
  <2>3. Kept(e, guessed)
    BY Vocabulary, <2>2, AddKept
  <2> QED
    BY <2>1, <2>2, <2>3, KeptTwice
<1> DEFINE below == LinkMeasured /\ LinkUsed < starvedPct
           above == LinkMeasured /\ LinkUsed >= starvedPct
<1>4. ~ (below /\ above) /\ below \in BOOLEAN /\ above \in BOOLEAN
  BY DEF Measurable, starvedPct
<1>5. c = CASE below -> starved [] above -> maxed [] OTHER -> guessed
  BY Zenon DEF NetworkRules
<1> HIDE DEF starved, maxed, guessed, below, above, c
<1>6. c = starved \/ c = maxed \/ c = guessed
  BY <1>4, <1>5
<1>7. Kept(b, c)
  BY <1>2, <1>3, <1>6
<1> QED
  BY <1>7 DEF c

\* What is left to say of a starved disk: that storage is not the way, and that.
LEMMA TargetKept ==
    ASSUME NEW b, Clean(b), Measurable, DiskMeasured, DiskUsed < starvedPct
    PROVE  Clean(TargetRules(b)) /\ Told(TargetRules(b))
<1> DEFINE c == CauseIfUnknown(b, "repowrite")
           d == CauseFinal(c, "starvedTarget")
           judged == Severity(d, "warn")
           slots == SlotsRules(judged, job.repos)
           feed == AddGain(judged, "feedTarget", "concurrency")
           fed == IF job.repos # <<>> /\ job.repos[1].cores > 0 THEN slots ELSE feed
           e == Add(fed, "info", "noBuyStorage")
<1>1. TargetRules(b) = CompressionRule(e)
  <2> DEFINE known == ~ DiskMeasured
             below == DiskMeasured /\ DiskUsed < starvedPct
             above == DiskMeasured /\ DiskUsed >= maxedPct
             v1 == UnmeasuredTarget(c)
             v2 == StarvedTarget(c)
             v3 == MaxedTarget(c)
             v4 == PartialTarget(c)
             rules == TargetRules(b)
  <2>1. known = FALSE /\ below = TRUE /\ above = FALSE
    BY DEF Measurable, starvedPct, maxedPct
  <2>2. rules = CASE known -> v1 [] below -> v2 [] above -> v3 [] OTHER -> v4
    BY Zenon DEF TargetRules
  <2>3. v2 = CompressionRule(e)
    BY DEF StarvedTarget
  <2> HIDE DEF known, below, above, v1, v2, v3, v4, rules
  <2>4. rules = v2
    BY <2>1, <2>2
  <2> QED
    BY <2>3, <2>4, Zenon DEF rules
<1>3. Clean(c)
  BY CauseKept DEF Kept
<1>4. Clean(d)
  BY <1>3, CauseKept DEF Kept
<1>5. Clean(judged)
  BY <1>4, OtherKept DEF Kept, Severity
<1>6. Clean(slots) /\ Clean(feed)
  BY Vocabulary, <1>5, SlotsKept, AddGainKept DEF Kept
<1>7. Clean(fed)
  BY <1>6, Zenon
<1> HIDE DEF fed
<1>8. Clean(e) /\ Told(e)
  BY Vocabulary, <1>7, AddKept DEF Kept
<1> HIDE DEF e
<1> QED
  BY <1>1, <1>8, CompressionKept DEF Kept

LEMMA StageKept ==
    ASSUME NEW b, Clean(b), Measurable, NEW stage \in Stages,
           stage = "Target" => DiskMeasured /\ DiskUsed < starvedPct
    PROVE  Kept(b, StageRules(b, stage)) /\ (stage = "Target" => Told(StageRules(b, stage)))
<1>1. CASE stage = "Source"
  <2>1. StageRules(b, stage) = SourceRules(b)
    BY <1>1, Zenon DEF StageRules
  <2> QED
    BY <1>1, <2>1, SourceKept
<1>2. CASE stage = "Proxy"
  <2>1. StageRules(b, stage) = ProxyRules(b)
    BY <1>2, Zenon DEF StageRules
  <2> QED
    BY <1>2, <2>1, ProxyKept
<1>3. CASE stage = "Network"
  <2>1. StageRules(b, stage) = NetworkRules(b)
    BY <1>3, Zenon DEF StageRules
  <2> QED
    BY <1>3, <2>1, NetworkKept
<1>4. CASE stage = "Target"
  <2>1. StageRules(b, stage) = TargetRules(b)
    BY <1>4, Zenon DEF StageRules
  <2> QED
    BY <1>4, <2>1, TargetKept DEF Kept
<1> QED
  BY <1>1, <1>2, <1>3, <1>4 DEF Stages

------------------------------------------------------------------------------
(* The invariant of the advice.                                            *)

\* A disk that is judged, and was measured to be idle most of the time.
Starved == "Target" \in Measured /\ DiskUsed < starvedPct

\* What the property says of the advice.
HoldsOn == /\ \E i \in DOMAIN advice : advice[i].code = "noBuyStorage"
           /\ \A i \in DOMAIN advice :
                 advice[i].way \in {"storage", "scaleOut"} => advice[i].code = "atCapacity" /\ HostFull

\* The rules of the repository tell it, and no rule asks for storage.
StorageInv ==
    /\ pc \in {"loop", "judge"} => v.acts = NoActions
    /\ Starved =>
          /\ pc \in {"rules", "space", "finish"} => Clean(v)
          /\ pc = "rules" => "Target" \in todo \/ Told(v)
          /\ pc \in {"space", "finish"} => Told(v)
          /\ pc = "done" => HoldsOn

LEMMA StarvedKept == ASSUME job' = job PROVE Starved' = Starved /\ Free' = Free /\ HostFull' = HostFull
  BY DEF Starved, Free, ScaleOut, HostFull, Measured, Judged, DiskMeasured, LinkMeasured, DiskUsed

LEMMA StarvedDisk == Starved => DiskMeasured /\ DiskUsed < starvedPct
  BY DEF Starved, Measured

LEMMA EmptyClean ==
    ASSUME NEW b, DOMAIN b = Fields, b.acts = NoActions
    PROVE  Clean(b)
<1>1. <<>> \in Seq(Free)
  BY EmptySeq
<1> QED
  BY <1>1 DEF Clean, NoActions

\* Clean, Told and Kept of the next state are those of this one: they speak of
\* the job only through the gain.
LEMMA NextClean ==
    ASSUME job' = job, NEW c, v' = c
    PROVE  (Clean(v)' <=> Clean(c)) /\ (Told(v)' <=> Told(c))
  BY StarvedKept DEF Clean, Told

LEMMA StorageJudge ==
    ASSUME IInv, StorageInv, Insufficient \/ Balanced \/ Limited \/ Dominated
    PROVE  StorageInv'
<1>1. pc = "judge" /\ job' = job /\ v.acts = NoActions /\ Builder(v) /\ Measurable
  BY TypesMeasurable DEF Insufficient, Balanced, Limited, Dominated, Judging, StorageInv, IInv, Types
<1>2. Clean(v)
  BY <1>1, EmptyClean DEF Builder
<1>3. Starved' = Starved
  BY <1>1, StarvedKept
<1>4. CASE Insufficient
  <2>1. ~ Starved
    BY <1>4 DEF Insufficient, Starved, Measured, Judged
  <2> QED
    BY <1>3, <1>4, <2>1 DEF StorageInv, Insufficient
<1>5. CASE Balanced
  <2>1. Judged = {job.primary} \cap Stages \/ Judged = {}
    BY <1>5, Zenon DEF Balanced, Judged
  <2>2. job.primary \notin Stages
    BY <1>5 DEF Balanced, Stages
  <2>3. ~ Starved
    BY <2>1, <2>2 DEF Starved, Measured
  <2> QED
    BY <1>3, <1>5, <2>3 DEF StorageInv, Balanced
<1>6. CASE Limited
  <2> DEFINE top == Hottest(job.util, Stages)
             severity == IF job.util[top] >= 95 THEN "critical" ELSE "warn"
             d == Severity(v, severity)
             e == [d EXCEPT !.stage = top]
  <2>1. v' = e
    BY <1>6 DEF Limited
  <2> HIDE DEF severity, top
  <2>2. Clean(d)
    BY <1>2, OtherKept DEF Kept, Severity
  <2> HIDE DEF d
  <2>3. Clean(e)
    BY <2>2, OtherKept DEF Kept
  <2> HIDE DEF e
  <2>4. Clean(v)'
    BY <1>1, <2>1, <2>3, NextClean
  <2>5. Starved => "Target" \in todo'
    <3>1. Judged = Binding(job.util) /\ todo' = Binding(job.util)
      BY <1>6, Zenon DEF Limited, Judging, Judged
    <3> QED
      BY <3>1 DEF Starved, Measured
  <2> QED
    BY <1>3, <1>6, <2>4, <2>5 DEF StorageInv, Limited
<1>7. CASE Dominated
  <2> DEFINE stage == job.primary
             d == Severity(v, "warn")
             e == [d EXCEPT !.stage = stage]
             f == StageRules(e, stage)
  <2>1. v' = f /\ pc' = "space"
    BY <1>7 DEF Dominated
  <2>2. Clean(d)
    BY <1>2, OtherKept DEF Kept, Severity
  <2> HIDE DEF d
  <2>3. Clean(e)
    BY <2>2, OtherKept DEF Kept
  <2> HIDE DEF e
  <2>4. ASSUME Starved PROVE stage = "Target" /\ DiskMeasured /\ DiskUsed < starvedPct
    <3>1. Judged = {stage} \cap Stages
      BY <1>7, Zenon DEF Dominated, Judging, Judged
    <3> QED
      BY <2>4, <3>1, StarvedDisk DEF Starved, Measured
  <2>5. Starved => Clean(f) /\ Told(f)
    BY <1>1, <2>3, <2>4, StageKept DEF Stages, Kept
  <2> HIDE DEF f
  <2> QED
    BY <1>1, <1>3, <2>1, <2>5, NextClean DEF StorageInv
<1> QED
  BY <1>4, <1>5, <1>6, <1>7

LEMMA StorageApply == ASSUME IInv, StorageInv, ApplyRules PROVE StorageInv'
<1> DEFINE stage == Hottest(job.util, todo)
           c == StageRules(v, stage)
<1>1. /\ job.util \in Utils /\ Measurable /\ pc = "rules" /\ todo # {}
      /\ todo \subseteq Judged /\ Judged \subseteq Stages
  BY TypesMeasurable DEF IInv, Types, CauseInv, ApplyRules
<1>2. stage \in todo /\ stage \in Stages
  BY <1>1, HottestInside
<1>3. job' = job /\ pc' = "rules" /\ v' = c /\ todo' = todo \ {stage}
  BY <1>1 DEF ApplyRules
<1>4. Starved' = Starved
  BY <1>3, StarvedKept
<1> HIDE DEF stage
<1>5. ASSUME Starved PROVE Clean(c) /\ ("Target" \in todo' \/ Told(c))
  <2>1. Clean(v) /\ ("Target" \in todo \/ Told(v))
    BY <1>1, <1>5 DEF StorageInv
  <2>2. Kept(v, c) /\ (stage = "Target" => Told(c))
    BY <1>1, <1>2, <1>5, <2>1, StarvedDisk, StageKept, SMTT(30)
  <2> QED
    BY <1>3, <2>1, <2>2 DEF Kept
<1> HIDE DEF c
<1> QED
  BY <1>3, <1>4, <1>5, NextClean DEF StorageInv

\* The elements of the second of two lists, in the list of both.
LEMMA SecondPart ==
    ASSUME NEW T, NEW p \in Seq(T), NEW q \in Seq(T), NEW i \in DOMAIN q
    PROVE  p \o q \in Seq(T) /\ Len(p) + i \in DOMAIN (p \o q) /\ (p \o q)[Len(p) + i] = q[i]
<1>1. Len(p) \in Nat /\ Len(q) \in Nat /\ i \in 1 .. Len(q)
  BY LenProperties
<1> QED
  BY <1>1, ConcatProperties, SMTT(30)

\* finish: the actions of all impacts in one list, with that of the disk in it.
LEMMA AllInOneList ==
    ASSUME NEW b, Clean(b), Told(b),
           job' = job,
           advice' = b.acts["high"] \o b.acts["hygiene"] \o b.acts["medium"] \o b.acts["verify"] \o b.acts["info"]
    PROVE  HoldsOn'
<1> DEFINE first == b.acts["high"] \o b.acts["hygiene"] \o b.acts["medium"] \o b.acts["verify"]
           info == b.acts["info"]
<1>1. \A i \in Impacts : b.acts[i] \in Seq(Free)
  BY DEF Clean
<1>2. first \in Seq(Free) /\ info \in Seq(Free)
  BY <1>1, Vocabulary, ConcatProperties
<1> HIDE DEF first
<1>3. advice' = first \o info
  BY DEF first
<1>4. PICK i \in DOMAIN info : info[i].code = "noBuyStorage"
  BY DEF Told
<1> HIDE DEF info
<1>5. /\ advice' \in Seq(Free)
      /\ Len(first) + i \in DOMAIN advice' /\ advice'[Len(first) + i] = info[i]
  <2>1. info \in Seq(Free) /\ first \in Seq(Free) /\ i \in DOMAIN info
    BY <1>2
  <2>2. /\ first \o info \in Seq(Free) /\ Len(first) + i \in DOMAIN (first \o info)
        /\ (first \o info)[Len(first) + i] = info[i]
    BY <2>1, SecondPart, SMTT(30)
  <2> QED
    BY <1>3, <2>2, Zenon
<1>6. \A k \in DOMAIN advice' :
          advice'[k].way \in {"storage", "scaleOut"} => advice'[k].code = "atCapacity" /\ HostFull
  <2>1. \A k \in DOMAIN advice' : advice'[k] \in Free
    <3>1. \A q \in Seq(Free) : \A k \in DOMAIN q : q[k] \in Free
      OBVIOUS
    <3> QED
      BY <1>5, <3>1
  <2>2. ASSUME NEW a \in Free PROVE a.way \in {"storage", "scaleOut"} => a.code = "atCapacity" /\ HostFull
    <3>1. CASE a \in [code : Codes, way : Ways, gain : {0, job.gain}]
      <4>1. a.way \in Ways
        BY <3>1
      <4> QED
        BY <4>1 DEF Ways
    <3>2. CASE a = ScaleOut /\ HostFull
      <4>1. a.code = "atCapacity"
        BY <3>2 DEF ScaleOut, Action
      <4> QED
        BY <3>2, <4>1
    <3> QED
      BY <2>2, <3>1, <3>2, Zenon DEF Free
  <2> QED
    BY <2>1, <2>2
<1>7. HostFull' = HostFull
  BY StarvedKept
<1> QED
  BY <1>4, <1>5, <1>6, <1>7 DEF HoldsOn

\* The free space and the doubts add actions of their own.
LEMMA StorageLater ==
    ASSUME IInv, StorageInv, RulesApplied \/ CheckSpace \/ CrossCut \/ Finish
    PROVE  StorageInv'
<1>1. job' = job /\ pc \in {"rules", "space", "finish"} /\ pc' \in {"space", "finish", "done"}
  BY DEF RulesApplied, CheckSpace, CrossCut, Finish
<1>2. Starved' = Starved
  BY <1>1, StarvedKept
<1>3. ASSUME Starved PROVE Clean(v) /\ Told(v)
  <2>1. Clean(v) /\ (pc # "rules" => Told(v))
    BY <1>1, <1>3 DEF StorageInv
  <2>2. pc = "rules" => todo = {}
    BY DEF RulesApplied, CheckSpace, CrossCut, Finish
  <2> QED
    BY <1>3, <2>1, <2>2 DEF StorageInv
<1>4. CASE Finish
  <2>1. Starved => HoldsOn'
    BY <1>3, <1>4, AllInOneList DEF Finish
  <2>2. pc' \notin {"loop", "judge"} /\ pc' \notin {"rules", "space", "finish"} /\ pc' # "rules"
        /\ pc' \notin {"space", "finish"}
    BY <1>4 DEF Finish
  <2>3. Starved' => HoldsOn'
    BY <1>2, <2>1
  <2> QED
    BY <2>2, <2>3, ZenonT(30) DEF StorageInv
<1>5. ASSUME NEW c, v' = c, pc' \in {"space", "finish"}, Starved => Kept(v, c)
      PROVE  StorageInv'
  <2>1. Starved => Clean(c) /\ Told(c)
    BY <1>3, <1>5 DEF Kept
  <2> QED
    BY <1>1, <1>2, <1>5, <2>1, NextClean DEF StorageInv
<1>6. CASE RulesApplied
  BY <1>3, <1>5, <1>6, KeptSelf DEF RulesApplied
<1>7. CASE CheckSpace
  <2>1. v' = v \/ \E impact \in {"high", "hygiene"} : v' = Add(v, impact, "repoFree")
    BY <1>7, Zenon DEF CheckSpace
  <2>2. Starved => Kept(v, v')
    BY <1>3, <2>1, Vocabulary, KeptSelf, AddKept
  <2> QED
    BY <1>5, <1>7, <2>2 DEF CheckSpace
<1>8. CASE CrossCut
  <2> DEFINE widened == IF job.confidence = "low" THEN Add(v, "verify", "window") ELSE v
  <2>1. v' = Add(widened, "verify", "deep") \/ v' = widened
    BY <1>8, Zenon DEF CrossCut
  <2>2. widened = v \/ widened = Add(v, "verify", "window")
    BY Zenon
  <2> HIDE DEF widened
  <2>3. Starved => Kept(v, widened) /\ Clean(widened)
    BY <1>3, <2>2, Vocabulary, KeptSelf, AddKept DEF Kept
  <2>4. Starved => Kept(v, v')
    BY <2>1, <2>3, Vocabulary, AddKept, KeptTwice
  <2> QED
    BY <1>5, <1>8, <2>4 DEF CrossCut
<1> QED
  BY <1>4, <1>6, <1>7, <1>8

LEMMA StorageStep == ASSUME IInv, StorageInv, [Next]_vars PROVE StorageInv'
<1>1. CASE UNCHANGED vars
  <2>1. job' = job /\ v' = v /\ pc' = pc /\ todo' = todo /\ advice' = advice
    BY <1>1 DEF vars
  <2>2. (Clean(v)' <=> Clean(v)) /\ (Told(v)' <=> Told(v)) /\ (HoldsOn' <=> HoldsOn)
    BY <2>1, NextClean, StarvedKept DEF HoldsOn
  <2> QED
    BY <2>1, <2>2, StarvedKept DEF StorageInv
<1>2. CASE JobCapacity
  BY <1>2 DEF JobCapacity, SkipSession, ReadRun, CountRun, Refuse, EndWindow, Summarise, StorageInv
<1>3. CASE BuildVerdict
  BY <1>3, StorageJudge, StorageApply, StorageLater DEF BuildVerdict
<1> QED
  BY <1>1, <1>2, <1>3 DEF Next

\* verdict.go:278-285: whatever else saturates, and however few tasks its host
\* could take, a repository whose disk is measured to be starved is told so, and
\* is told to scale only where a host of the job takes no more tasks.
THEOREM NoStorageForStarvedDiskHolds == ASSUME ConstantsOK PROVE Spec => []NoStorageForStarvedDisk
<1>1. Init => IInv /\ StorageInv
  <2>1. Init => StorageInv
    <3>1. Init => pc = "loop" /\ v = NoVerdict
      BY DEF Init
    <3>2. NoVerdict.acts = NoActions
      BY DEF NoVerdict
    <3>3. pc = "loop" /\ v = NoVerdict => StorageInv
      BY <3>2 DEF StorageInv
    <3> QED
      BY <3>1, <3>3
  <2> QED
    BY <2>1, InitInv
<1>2. IInv /\ StorageInv /\ [Next]_vars => IInv' /\ StorageInv'
  BY StepInv, StorageStep
<1>3. StorageInv => NoStorageForStarvedDisk
  BY DEF StorageInv, Starved, HoldsOn, HostFull, NoStorageForStarvedDisk
<1> QED
  BY <1>1, <1>2, <1>3, PTL DEF Spec

------------------------------------------------------------------------------
(* Type correctness.                                                       *)

Grades == {"", "observed", "low", "insufficient"}

\* What is left of TypeOK: the counters of the loop and what follows it.
CounterInv ==
    /\ listed \in 0 .. MaxListed
    /\ tot.runs \in 0 .. maxWindowRuns
    /\ tot.data \in 0 .. tot.runs /\ tot.loads \in 0 .. tot.runs
    /\ job.confidence \in Grades
    /\ job.gain \in 0 .. maxCredibleGain
    /\ todo \subseteq Stages
    /\ Len(job.repos) \in Nat /\ space \in 0 .. Len(job.repos)
    /\ pc \in {"loop", "judge"} => space = 0

LEMMA TypesImplied == ASSUME IInv, CounterInv PROVE TypeOK
<1>1. pc \in {"loop", "judge", "rules", "space", "finish", "done", "refused"}
  BY DEF IInv, CauseInv
<1>2. v.severity \in Severities /\ v.stage \in StageNames /\ (v.locked => v.known) /\ DOMAIN v.acts = Impacts
  BY DEF IInv, Types, Builder
<1>3. job.primary \in StageNames
  BY DEF IInv, Types
<1> QED
  BY <1>1, <1>2, <1>3, Zenon DEF CounterInv, TypeOK, Severities, StageNames, Grades

LEMMA CounterInit == ASSUME ConstantsOK, Init PROVE CounterInv
<1>1. tot.runs = 0 /\ tot.data = 0 /\ tot.loads = 0
  BY DEF Init, NoTotals
<1>2. job.confidence \in Grades /\ job.gain = 0 /\ Len(job.repos) = 0
  BY DEF Init, NoJob, Grades
<1>4. maxWindowRuns \in Nat /\ 0 \in 0 .. maxCredibleGain
  BY DEF ConstantsOK, maxCredibleGain
<1>5. tot.runs \in 0 .. maxWindowRuns /\ tot.data \in 0 .. tot.runs /\ tot.loads \in 0 .. tot.runs
  BY <1>1, <1>4
<1> QED
  BY <1>2, <1>4, <1>5 DEF Init, CounterInv

\* The bound that is put on the projection leaves a percentage, because the
\* ceiling that binds is not below the next one.
LEMMA GainBound ==
    ASSUME NEW util \in Utils
    PROVE  Gain(util) \in 0 .. maxCredibleGain
<1> DEFINE top == Hottest(util, Stages)
           rest == Stages \ Binding(util)
           nextUtil == IF Binding(util) = Stages THEN 0 ELSE util[Hottest(util, rest)]
           gain == ((util[top] - nextUtil) * 100) \div util[top]
<1>1. Projected(util) \in Nat
  <2>1. CASE Binding(util) = {} \/ nextUtil = 0
    BY <2>1 DEF Projected
  <2>2. CASE Binding(util) # {} /\ nextUtil # 0
    <3>1. top \in Stages /\ \A s \in Stages : util[s] <= util[top]
      BY HottestIsFirst DEF First, Top, Stages
    <3>2. PICK s \in Stages : util[s] >= bindThreshold
      BY <2>2 DEF Binding
    <3>3. util[top] \in Int /\ util[s] \in Int
      BY <3>1 DEF Utils
    <3>4. util[top] > 0
      BY <3>1, <3>2, <3>3 DEF bindThreshold
    <3>5. nextUtil \in Int /\ nextUtil <= util[top]
      <4>1. Binding(util) # Stages
        BY <2>2
      <4>2. Hottest(util, rest) \in Stages
        BY <4>1, HottestInside DEF Binding
      <4> QED
        BY <3>1, <4>1, <4>2 DEF Utils
    <3> DEFINE amount == (util[top] - nextUtil) * 100
    <3>6. amount \in Nat
      BY <3>3, <3>5
    <3>7. gain \in Nat
      <4> DEFINE bind == util[top]
      <4>1. bind \in Nat \ {0} /\ gain = amount \div bind
        BY <3>3, <3>4
      <4> HIDE DEF amount, bind, gain
      <4> QED
        BY <3>6, <4>1
    <3>8. Projected(util) = 0 \/ Projected(util) = gain
      BY Zenon DEF Projected
    <3> HIDE DEF gain
    <3> QED
      BY <3>7, <3>8
  <2> QED
    BY <2>1, <2>2
<1> HIDE DEF gain
<1> QED
  BY <1>1 DEF Gain, Smaller, maxCredibleGain

LEMMA OrderLength ==
    ASSUME NEW S, IsFiniteSet(S), NEW order \in Orders(S)
    PROVE  Len(order) \in Nat
<1>1. Cardinality(S) \in Nat
  BY FS_CardinalityType
<1>2. order \in [1 .. Cardinality(S) -> S]
  BY DEF Orders
<1> QED
  BY <1>1, <1>2

LEMMA CounterLoop == ASSUME ConstantsOK, IInv, CounterInv, JobCapacity PROVE CounterInv'
<1>1. CASE SkipSession \/ Refuse
  <2>1. (listed' = listed \/ (listed > 0 /\ listed' = listed - 1)) /\ UNCHANGED <<tot, job, todo, space>>
    BY <1>1 DEF SkipSession, Refuse
  <2>2. listed' \in 0 .. MaxListed
    BY <2>1 DEF CounterInv, ConstantsOK
  <2>3. pc' \in {"loop", "judge"} => space' = 0
    BY <1>1 DEF CounterInv, SkipSession, Refuse
  <2> QED
    BY <2>1, <2>2, <2>3 DEF CounterInv
<1>2. CASE ReadRun
  <2>1. PICK run \in Runs : \E primary \in Primaries(run) : CountRun(run, primary)
    BY <1>2 DEF ReadRun
  <2> DEFINE big == IF Bigger(run.read, run.xfer) >= lowFloor THEN 1 ELSE 0
             some == IF run.loads = {} THEN 0 ELSE 1
  <2>2. /\ tot'.runs = tot.runs + 1 /\ tot'.data = tot.data + big /\ tot'.loads = tot.loads + some
        /\ listed' = listed - 1 /\ UNCHANGED <<pc, job, todo, space>>
    BY <2>1 DEF CountRun
  <2>3. big \in {0, 1} /\ some \in {0, 1} /\ listed > 0 /\ tot.runs < maxWindowRuns /\ maxWindowRuns \in Nat
    BY <1>2 DEF ReadRun, ConstantsOK
  <2> HIDE DEF big, some
  <2>4. tot'.runs \in 0 .. maxWindowRuns /\ tot'.data \in 0 .. tot'.runs /\ tot'.loads \in 0 .. tot'.runs
    BY <2>2, <2>3, SMTT(30) DEF CounterInv
  <2>5. listed' \in 0 .. MaxListed
    BY <2>2, <2>3 DEF CounterInv, ConstantsOK
  <2> QED
    BY <2>2, <2>4, <2>5 DEF CounterInv
<1>3. CASE EndWindow
  <2>1. PICK site \in Sites, primary \in MostVoted(tot.votes) :
            \E order \in Orders(site.repos) : Summarise(site, primary, order)
    BY <1>3 DEF EndWindow
  <2> PICK order \in Orders(site.repos) : Summarise(site, primary, order)
    BY <2>1
  <2>2. /\ job'.confidence = Confidence /\ job'.gain = Gain(Average) /\ job'.repos = order
        /\ UNCHANGED <<listed, tot, todo, space>>
    BY DEF Summarise
  <2>3. Confidence \in Grades
    BY Zenon DEF Confidence, Grades
  <2>4. Average \in Utils
    BY DEF IInv, Types, Average, Utils
  <2>5. Len(order) \in Nat
    BY OrderLength DEF ConstantsOK
  <2>6. space = 0
    BY <1>3 DEF EndWindow, CounterInv
  <2> QED
    BY <2>2, <2>3, <2>4, <2>5, <2>6, GainBound DEF CounterInv
<1> QED
  BY <1>1, <1>2, <1>3 DEF JobCapacity

LEMMA CounterVerdict == ASSUME CounterInv, BuildVerdict PROVE CounterInv'
<1>1. listed' = listed /\ tot' = tot /\ job' = job
  BY DEF BuildVerdict, Insufficient, Balanced, Dominated, Limited, ApplyRules, RulesApplied,
         CheckSpace, CrossCut, Finish
<1>2. todo' \subseteq Stages
  <2>1. Binding(job.util) \subseteq Stages /\ todo \subseteq Stages
    BY DEF Binding, CounterInv
  <2> QED
    BY <2>1 DEF BuildVerdict, Insufficient, Balanced, Dominated, Limited, ApplyRules, RulesApplied,
                CheckSpace, CrossCut, Finish
<1>3. space' \in 0 .. Len(job.repos)
  <2>1. space' = space \/ (space < Len(job.repos) /\ space' = space + 1)
    BY DEF BuildVerdict, Insufficient, Balanced, Dominated, Limited, ApplyRules, RulesApplied,
           CheckSpace, CrossCut, Finish
  <2> QED
    BY <2>1 DEF CounterInv
<1>4. pc' \notin {"loop", "judge"}
  BY DEF BuildVerdict, Insufficient, Balanced, Dominated, Limited, ApplyRules, RulesApplied,
         CheckSpace, CrossCut, Finish
<1> QED
  BY <1>1, <1>2, <1>3, <1>4 DEF CounterInv

LEMMA CounterStep == ASSUME ConstantsOK, IInv, CounterInv, [Next]_vars PROVE CounterInv'
<1>1. CASE UNCHANGED vars
  BY <1>1 DEF vars, CounterInv
<1> QED
  BY <1>1, CounterLoop, CounterVerdict DEF Next

\* verdict.go and capacity.go: the counters of the loop stay within the window, the
\* projected gain within 0 and 75 per cent, and a cause is locked only if known.
THEOREM TypeCorrect == ASSUME ConstantsOK PROVE Spec => []TypeOK
<1>1. Init => IInv /\ CounterInv
  BY InitInv, CounterInit
<1>2. (IInv /\ CounterInv) /\ [Next]_vars => (IInv /\ CounterInv)'
  BY StepInv, CounterStep
<1>3. IInv /\ CounterInv => TypeOK
  BY TypesImplied
<1> QED
  BY <1>1, <1>2, <1>3, PTL DEF Spec
==============================================================================
