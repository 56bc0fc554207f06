------------------------------- MODULE VbrTokens -------------------------------
(***************************************************************************)
(* The tokens of one Veeam session: fetchOnce and renewToken               *)
(* (internal/vbr/client.go) over the token pair of vbr.Session             *)
(* (internal/vbr/session.go), against a VBR that may reject an access      *)
(* token at any time, that may redeem a refresh token only once, and whose *)
(* replies may be lost.                                                    *)
(*                                                                         *)
(* The n-th grant VBR makes issues access token n and, unless its reply    *)
(* has none, refresh token n.  Grant 1 is the login.                       *)
(***************************************************************************)
EXTENDS Naturals

CONSTANTS
    Callers,    \* goroutines that call fetchOnce on the session
    MaxGrants,  \* bound on the grants VBR makes
    Nobody      \* renewMu is free

ASSUME NobodyAssumption == Nobody \notin Callers
ASSUME MaxGrantsAssumption == MaxGrants \in Nat \ {0}

VARIABLES
    \* VBR
    issued,     \* number of grants made
    honoured,   \* access tokens VBR accepts
    redeemable, \* refresh tokens VBR accepts
    \* Session
    access,     \* accessToken
    refresh,    \* refreshToken, NoToken for ""
    expiry,     \* expiresAt: "unknown" (zero), "later", or "due" within a minute
    mutex,      \* the caller that holds renewMu
    \* the locals of each caller
    pc,         \* where it is
    late,       \* VBR already answered its first GET with 401
    tok,        \* the access token it uses
    rt,         \* the refresh token it presents
    got,        \* the grant it was answered with
    \* history, which no guard reads
    trouble     \* a renewal was revoked, lost, or brought no refresh token

vars == <<issued, honoured, redeemable, access, refresh, expiry, mutex,
          pc, late, tok, rt, got, trouble>>
vbr == <<issued, honoured, redeemable>>
session == <<access, refresh, expiry>>

Tokens == 1 .. MaxGrants
NoToken == 0
MaybeToken == Tokens \cup {NoToken}

Expiries == {"unknown", "later", "due"}
Grants == [access : MaybeToken, refresh : MaybeToken, expiry : Expiries]
NoGrant == [access |-> NoToken, refresh |-> NoToken, expiry |-> "unknown"]

Renewing == {"grant", "store"}
PCs == {"idle", "get", "lock", "reread", "expired"} \cup Renewing

\* The type of every variable; renewMu is held exactly during a renewal.
TypeOK ==
    /\ issued \in Tokens
    /\ honoured \in SUBSET Tokens
    /\ redeemable \in SUBSET Tokens
    /\ access \in MaybeToken
    /\ refresh \in MaybeToken
    /\ expiry \in Expiries
    /\ mutex \in Callers \cup {Nobody}
    /\ pc \in [Callers -> PCs]
    /\ late \in [Callers -> BOOLEAN]
    /\ tok \in [Callers -> MaybeToken]
    /\ rt \in [Callers -> MaybeToken]
    /\ got \in [Callers -> Grants]
    /\ trouble \in BOOLEAN
    /\ \A c \in Callers : (mutex = c) <=> (pc[c] \in Renewing)

\* A session that connect has just made: SetTokens with the login's grant.
Init ==
    /\ issued = 1
    /\ honoured = {1}
    /\ redeemable = {1}
    /\ access = 1
    /\ refresh = 1
    /\ expiry \in Expiries
    /\ mutex = Nobody
    /\ pc = [c \in Callers |-> "idle"]
    /\ late = [c \in Callers |-> FALSE]
    /\ tok = [c \in Callers |-> NoToken]
    /\ rt = [c \in Callers |-> NoToken]
    /\ got = [c \in Callers |-> NoGrant]
    /\ trouble = FALSE

------------------------------------------------------------------------------
(* Faulty variants, which the properties are shown to reject.              *)

\* renewToken without renewMu.
NoMutex == TRUE

\* renewToken returns without unlocking when the grant fails.
KeepMutex(c) == c

\* renewToken does not look whether somebody else has renewed.
NeverRenewed(c) == FALSE

------------------------------------------------------------------------------
MutexFree == mutex = Nobody

\* Every return of renewToken runs its deferred Unlock.
Unlocked(c) == Nobody

\* The session has another token than the one that failed: somebody renewed.
AlreadyRenewed(c) == access # tok[c]

Goto(c, to) == pc' = [pc EXCEPT ![c] = to]

\* fetchOnce reads the token, and renews it first if it is about to expire.
Begin(c) ==
    /\ pc[c] = "idle"
    /\ Goto(c, IF expiry = "due" THEN "lock" ELSE "get")
    /\ tok' = [tok EXCEPT ![c] = access]
    /\ late' = [late EXCEPT ![c] = FALSE]
    /\ UNCHANGED <<vbr, session, mutex, rt, got, trouble>>

\* The caller forgets its locals when fetchOnce returns.
Leave(c) ==
    /\ Goto(c, "idle")
    /\ tok' = [tok EXCEPT ![c] = NoToken]
    /\ late' = [late EXCEPT ![c] = FALSE]
    /\ UNCHANGED <<vbr, session, mutex, rt, got, trouble>>

\* doGet ends with anything but a 401: a body, another status, no answer.
Answered(c) == pc[c] = "get" /\ Leave(c)

\* VBR answers 401: renew and try once more, or give up the second time.
Rejected(c) ==
    /\ pc[c] = "get"
    /\ tok[c] \notin honoured
    /\ Goto(c, IF late[c] THEN "expired" ELSE "lock")
    /\ late' = [late EXCEPT ![c] = TRUE]
    /\ UNCHANGED <<vbr, session, mutex, tok, rt, got, trouble>>

\* renewToken takes renewMu.  Only the holder writes the tokens, so what it
\* reads of them before the grant is read here.
Acquire(c) ==
    /\ pc[c] = "lock"
    /\ MutexFree
    /\ \/ /\ AlreadyRenewed(c)
          /\ Goto(c, "reread")
          /\ UNCHANGED <<mutex, rt>>
       \/ /\ ~ AlreadyRenewed(c)
          /\ refresh = NoToken
          /\ Goto(c, "expired")
          /\ UNCHANGED <<mutex, rt>>
       \/ /\ ~ AlreadyRenewed(c)
          /\ refresh # NoToken
          /\ Goto(c, "grant")
          /\ mutex' = c
          /\ rt' = [rt EXCEPT ![c] = refresh]
    /\ UNCHANGED <<vbr, session, late, tok, got, trouble>>

\* VBR redeems the refresh token.  It may go on accepting the old one, and its
\* reply may have no new one.
Grant(c) ==
    /\ pc[c] = "grant"
    /\ rt[c] \in redeemable
    /\ issued < MaxGrants
    /\ \E keep, bring \in BOOLEAN, e \in Expiries :
          LET n == issued + 1
          IN  /\ redeemable' = (IF keep THEN redeemable ELSE redeemable \ {rt[c]})
                                  \cup (IF bring THEN {n} ELSE {})
              /\ got' = [got EXCEPT ![c] = [access |-> n,
                                            refresh |-> IF bring THEN n ELSE NoToken,
                                            expiry |-> e]]
    /\ issued' = issued + 1
    /\ honoured' = honoured \cup {issued + 1}
    /\ Goto(c, "store")
    /\ UNCHANGED <<session, mutex, late, tok, rt, trouble>>

\* renewToken returns: renewMu is released, its locals are gone.
Renewed(c, to) ==
    /\ Goto(c, to)
    /\ mutex' = Unlocked(c)
    /\ rt' = [rt EXCEPT ![c] = NoToken]
    /\ got' = [got EXCEPT ![c] = NoGrant]
    /\ UNCHANGED <<vbr, late, tok>>

\* tokenGrant fails: the caller is told that the session expired.
GrantFails(c) ==
    /\ Renewed(c, "expired")
    /\ UNCHANGED session

\* VBR refuses the refresh token.
Refused(c) ==
    /\ pc[c] = "grant"
    /\ rt[c] \notin redeemable
    /\ GrantFails(c)
    /\ UNCHANGED trouble

\* The request or its reply is lost, or the context of the caller's own
\* request is cancelled; VBR may or may not have redeemed the token.
Unanswered(c) ==
    /\ pc[c] \in Renewing
    /\ GrantFails(c)
    /\ trouble' = TRUE

\* SetTokens, and renewToken returns nil.
Store(c) ==
    /\ pc[c] = "store"
    /\ access' = got[c].access
    /\ refresh' = got[c].refresh
    /\ expiry' = got[c].expiry
    /\ Renewed(c, "reread")
    /\ trouble' = (trouble \/ got[c].refresh = NoToken)

\* fetchOnce reads the token again and sends its GET with it; after a 401, only
\* if it is another token.
Reread(c) ==
    /\ pc[c] = "reread"
    /\ Goto(c, IF late[c] /\ access = tok[c] THEN "expired" ELSE "get")
    /\ tok' = [tok EXCEPT ![c] = access]
    /\ UNCHANGED <<vbr, session, mutex, late, rt, got, trouble>>

\* fetchOnce returns "Session expired. Reconnect."
Report(c) == pc[c] = "expired" /\ Leave(c)

\* VBR stops accepting an access token.
Expire(t) ==
    /\ t \in honoured
    /\ honoured' = honoured \ {t}
    /\ UNCHANGED <<issued, redeemable, session, mutex, pc, late, tok, rt, got, trouble>>

\* VBR stops accepting a refresh token that was not redeemed.
Revoke(t) ==
    /\ t \in redeemable
    /\ redeemable' = redeemable \ {t}
    /\ trouble' = TRUE
    /\ UNCHANGED <<issued, honoured, session, mutex, pc, late, tok, rt, got>>

\* The access token has less than a minute left on the session's clock.
ComesDue ==
    /\ expiry = "later"
    /\ expiry' = "due"
    /\ UNCHANGED <<vbr, access, refresh, mutex, pc, late, tok, rt, got, trouble>>

Step(c) ==
    \/ Answered(c)
    \/ Rejected(c)
    \/ Acquire(c)
    \/ Grant(c)
    \/ Refused(c)
    \/ Unanswered(c)
    \/ Store(c)
    \/ Reread(c)
    \/ Report(c)

Next ==
    \/ \E c \in Callers : Begin(c) \/ Step(c)
    \/ \E t \in Tokens : Expire(t) \/ Revoke(t)
    \/ ComesDue

\* A caller inside fetchOnce runs on: an HTTP exchange ends within its budget,
\* and sync.Mutex hands the lock to a waiter that has starved for long.
Fairness ==
    \A c \in Callers :
        /\ WF_vars(Step(c))
        /\ SF_vars(Acquire(c))

Safety == Init /\ [][Next]_vars

Spec == Safety /\ Fairness

------------------------------------------------------------------------------
\* client.go:103, "una sola vez aunque varios GET en paralelo se topen con el
\* mismo 401": a renewal under way renews the very pair the session holds, so
\* no token is renewed twice and no redeemed refresh token is presented again.
RenewsCurrentPair ==
    \A c \in Callers :
        pc[c] \in Renewing => access = tok[c] /\ refresh = rt[c] /\ refresh # NoToken

\* As long as VBR answers, the session holds the newest pair VBR issued, and
\* VBR still takes its refresh token, whatever the callers interleave.
HoldsNewestPair ==
    (~ trouble /\ \A c \in Callers : pc[c] # "store") =>
        access = issued /\ refresh = issued /\ refresh \in redeemable

\* session.go:19, the user need not reconnect when a token expires: as long as
\* VBR answers renewals, a caller is told that the session expired only after
\* VBR rejected a second, renewed token as well.
ExpiredOnlyAfterRetry ==
    \A c \in Callers :
        pc[c] = "expired" /\ ~ trouble => late[c] /\ tok[c] \notin honoured

\* Every fetch ends, and so no caller keeps renewMu.
EveryFetchEnds == \A c \in Callers : (pc[c] # "idle") ~> (pc[c] = "idle")

------------------------------------------------------------------------------
\* The inductive strengthening of the properties above.

\* Token numbers grow: from what a caller uses to what VBR issued last.
OrderInv ==
    /\ access <= issued
    /\ \A t \in honoured \cup redeemable : t <= issued
    /\ \A c \in Callers :
          /\ tok[c] <= access
          /\ pc[c] = "reread" => tok[c] < access

\* The grant that is about to be stored is the newest one.
GrantInv ==
    \A c \in Callers :
        pc[c] = "store" =>
            /\ got[c].access = issued
            /\ access < issued
            /\ got[c].refresh \in {NoToken, issued}
            /\ ~ trouble /\ got[c].refresh # NoToken => issued \in redeemable

PairInv ==
    /\ OrderInv
    /\ GrantInv
    /\ RenewsCurrentPair
    /\ HoldsNewestPair
    /\ ExpiredOnlyAfterRetry
==============================================================================
