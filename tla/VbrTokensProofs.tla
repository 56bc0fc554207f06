---------------------------- MODULE VbrTokensProofs ----------------------------
(***************************************************************************)
(* Proofs about VbrTokens, for every number of callers and of grants.      *)
(***************************************************************************)
EXTENDS VbrTokens, TLAPS

LEMMA InitTypeOK == Init => TypeOK
<1> SUFFICES ASSUME Init PROVE TypeOK
  OBVIOUS
<1> USE MaxGrantsAssumption DEF Init
<1>1. NoGrant \in Grants
  BY DEF Grants, NoGrant, MaybeToken, Expiries
<1>2. got \in [Callers -> Grants]
  BY <1>1
<1>3. /\ issued \in Tokens /\ access \in MaybeToken
      /\ honoured \in SUBSET Tokens /\ redeemable \in SUBSET Tokens
      /\ refresh \in MaybeToken
  BY DEF Tokens, MaybeToken
<1>4. /\ pc \in [Callers -> PCs] /\ late \in [Callers -> BOOLEAN]
      /\ tok \in [Callers -> MaybeToken] /\ rt \in [Callers -> MaybeToken]
  BY DEF PCs, MaybeToken
<1>5. \A c \in Callers : (mutex = c) <=> (pc[c] \in Renewing)
  BY NobodyAssumption DEF Renewing
<1> QED
  BY <1>2, <1>3, <1>4, <1>5 DEF TypeOK

\* Every step keeps every variable in its type, and renewMu with its holder.
LEMMA NextTypeOK == TypeOK /\ [Next]_vars => TypeOK'
<1> SUFFICES ASSUME TypeOK, [Next]_vars PROVE TypeOK'
  OBVIOUS
<1> USE NobodyAssumption, MaxGrantsAssumption
    DEF TypeOK, Tokens, MaybeToken, NoToken, Expiries, Grants, NoGrant, PCs, Renewing,
        vbr, session, Goto
<1>1. ASSUME NEW c \in Callers, Begin(c)
      PROVE TypeOK'
  BY <1>1 DEF Begin
<1>2. ASSUME NEW c \in Callers, Answered(c)
      PROVE TypeOK'
  BY <1>2 DEF Answered, Leave
<1>3. ASSUME NEW c \in Callers, Rejected(c)
      PROVE TypeOK'
  BY <1>3 DEF Rejected
<1>4. ASSUME NEW c \in Callers, Acquire(c)
      PROVE TypeOK'
  BY <1>4, SMTT(30) DEF Acquire, MutexFree, AlreadyRenewed
<1>5. ASSUME NEW c \in Callers, Grant(c)
      PROVE TypeOK'
  <2> PICK keep \in BOOLEAN, bring \in BOOLEAN, e \in Expiries :
          /\ redeemable' = (IF keep THEN redeemable ELSE redeemable \ {rt[c]})
                              \cup (IF bring THEN {issued + 1} ELSE {})
          /\ got' = [got EXCEPT ![c] = [access |-> issued + 1,
                                        refresh |-> IF bring THEN issued + 1 ELSE NoToken,
                                        expiry |-> e]]
    BY <1>5 DEF Grant
  <2>1. issued + 1 \in Tokens
    BY <1>5 DEF Grant
  <2>2. redeemable' \in SUBSET Tokens
    BY <2>1
  <2>3. got' \in [Callers -> Grants]
    BY <2>1
  <2> QED
    BY <1>5, <2>1, <2>2, <2>3 DEF Grant
<1>6. ASSUME NEW c \in Callers, Refused(c)
      PROVE TypeOK'
  BY <1>6 DEF Refused, GrantFails, Renewed, Unlocked
<1>7. ASSUME NEW c \in Callers, Unanswered(c)
      PROVE TypeOK'
  BY <1>7 DEF Unanswered, GrantFails, Renewed, Unlocked
<1>8. ASSUME NEW c \in Callers, Store(c)
      PROVE TypeOK'
  BY <1>8 DEF Store, Renewed, Unlocked
<1>9. ASSUME NEW c \in Callers, Reread(c)
      PROVE TypeOK'
  BY <1>9 DEF Reread
<1>10. ASSUME NEW c \in Callers, Report(c)
       PROVE TypeOK'
  BY <1>10 DEF Report, Leave
<1>11. ASSUME NEW t \in Tokens, Expire(t)
       PROVE TypeOK'
  BY <1>11 DEF Expire
<1>12. ASSUME NEW t \in Tokens, Revoke(t)
       PROVE TypeOK'
  BY <1>12 DEF Revoke
<1>13. CASE ComesDue
  BY <1>13 DEF ComesDue
<1>14. CASE UNCHANGED vars
  BY <1>14 DEF vars
<1> QED
  BY <1>1, <1>2, <1>3, <1>4, <1>5, <1>6, <1>7,
     <1>8, <1>9, <1>10, <1>11, <1>12, <1>13, <1>14 DEF Next, Step

\* Every reachable state is well typed, and renewMu is held exactly by the
\* caller that is renewing: no return of renewToken keeps it.
THEOREM TypeCorrect == Safety => []TypeOK
<1> QED
  BY InitTypeOK, NextTypeOK, PTL DEF Safety

------------------------------------------------------------------------------
LEMMA InitPairInv == Init => PairInv
BY NobodyAssumption, MaxGrantsAssumption
   DEF Init, PairInv, OrderInv, GrantInv, RenewsCurrentPair, HoldsNewestPair,
       ExpiredOnlyAfterRetry, Renewing, NoToken

LEMMA NextPairInv == TypeOK /\ TypeOK' /\ PairInv /\ [Next]_vars => PairInv'
<1> SUFFICES ASSUME TypeOK, TypeOK', PairInv, [Next]_vars PROVE PairInv'
  OBVIOUS
<1> USE NobodyAssumption, MaxGrantsAssumption
    DEF TypeOK, Tokens, MaybeToken, NoToken, Expiries, Grants, NoGrant, PCs, Renewing,
        vbr, session, Goto, PairInv, OrderInv, GrantInv, RenewsCurrentPair,
        HoldsNewestPair, ExpiredOnlyAfterRetry
<1>1. ASSUME NEW c \in Callers, Begin(c)
      PROVE PairInv'
  BY <1>1 DEF Begin
<1>2. ASSUME NEW c \in Callers, Answered(c)
      PROVE PairInv'
  BY <1>2 DEF Answered, Leave
<1>3. ASSUME NEW c \in Callers, Rejected(c)
      PROVE PairInv'
  BY <1>3 DEF Rejected
<1>4. ASSUME NEW c \in Callers, Acquire(c)
      PROVE PairInv'
  <2>1. CASE AlreadyRenewed(c)
    <3>1. /\ pc' = [pc EXCEPT ![c] = "reread"]
          /\ UNCHANGED <<vbr, session, mutex, late, tok, rt, got, trouble>>
      BY <1>4, <2>1 DEF Acquire
    <3>2. tok[c] < access
      <4>1. tok[c] <= access /\ tok[c] # access
        BY <2>1 DEF AlreadyRenewed
      <4>2. tok[c] \in Nat /\ access \in Nat
        OBVIOUS
      <4> HIDE DEF TypeOK, PairInv
      <4> QED
        BY <4>1, <4>2
    <3> QED
      BY <1>4, <3>1, <3>2
  <2>2. CASE ~ AlreadyRenewed(c) /\ refresh = NoToken
    BY <1>4, <2>2 DEF Acquire, MutexFree, AlreadyRenewed
  <2>3. CASE ~ AlreadyRenewed(c) /\ refresh # NoToken
    BY <1>4, <2>3 DEF Acquire, MutexFree, AlreadyRenewed
  <2> QED
    BY <2>1, <2>2, <2>3
<1>5. ASSUME NEW c \in Callers, Grant(c)
      PROVE PairInv'
  BY <1>5 DEF Grant
<1>6. ASSUME NEW c \in Callers, Refused(c)
      PROVE PairInv'
  BY <1>6 DEF Refused, GrantFails, Renewed, Unlocked
<1>7. ASSUME NEW c \in Callers, Unanswered(c)
      PROVE PairInv'
  BY <1>7 DEF Unanswered, GrantFails, Renewed, Unlocked
<1>8. ASSUME NEW c \in Callers, Store(c)
      PROVE PairInv'
  <2>1. OrderInv'
    BY <1>8 DEF Store, Renewed, Unlocked
  <2>2. GrantInv' /\ RenewsCurrentPair'
    BY <1>8 DEF Store, Renewed, Unlocked
  <2>3. HoldsNewestPair'
    <3>1. ~ trouble' => ~ trouble /\ got[c].refresh # NoToken
      BY <1>8 DEF Store
    <3>2. /\ pc[c] = "store"
          /\ access' = got[c].access /\ refresh' = got[c].refresh
          /\ UNCHANGED <<issued, redeemable>>
      BY <1>8 DEF Store, Renewed
    <3> QED
      BY <3>1, <3>2
  <2>4. ExpiredOnlyAfterRetry'
    BY <1>8 DEF Store, Renewed, Unlocked
  <2> QED
    BY <2>1, <2>2, <2>3, <2>4
<1>9. ASSUME NEW c \in Callers, Reread(c)
      PROVE PairInv'
  BY <1>9 DEF Reread
<1>10. ASSUME NEW c \in Callers, Report(c)
       PROVE PairInv'
  BY <1>10 DEF Report, Leave
<1>11. ASSUME NEW t \in Tokens, Expire(t)
       PROVE PairInv'
  BY <1>11 DEF Expire
<1>12. ASSUME NEW t \in Tokens, Revoke(t)
       PROVE PairInv'
  BY <1>12 DEF Revoke
<1>13. CASE ComesDue
  BY <1>13 DEF ComesDue
<1>14. CASE UNCHANGED vars
  BY <1>14 DEF vars
<1> QED
  BY <1>1, <1>2, <1>3, <1>4, <1>5, <1>6, <1>7,
     <1>8, <1>9, <1>10, <1>11, <1>12, <1>13, <1>14 DEF Next, Step

LEMMA Invariants == Safety => [](TypeOK /\ PairInv)
<1>1. Init => TypeOK /\ PairInv
  BY InitTypeOK, InitPairInv
<1>2. (TypeOK /\ PairInv) /\ [Next]_vars => (TypeOK /\ PairInv)'
  BY NextTypeOK, NextPairInv
<1> QED
  BY <1>1, <1>2, PTL DEF Safety

\* A renewal under way always renews the pair the session holds.
THEOREM RenewsCurrentPairHolds == Safety => []RenewsCurrentPair
<1>1. PairInv => RenewsCurrentPair
  BY DEF PairInv
<1> QED
  BY <1>1, Invariants, PTL

\* As long as VBR answers, the session ends up with the newest pair.
THEOREM HoldsNewestPairHolds == Safety => []HoldsNewestPair
<1>1. PairInv => HoldsNewestPair
  BY DEF PairInv
<1> QED
  BY <1>1, Invariants, PTL

\* As long as VBR answers, nobody is told that the session expired before VBR
\* rejected a renewed token.
THEOREM ExpiredOnlyAfterRetryHolds == Safety => []ExpiredOnlyAfterRetry
<1>1. PairInv => ExpiredOnlyAfterRetry
  BY DEF PairInv
<1> QED
  BY <1>1, Invariants, PTL
================================================================================
