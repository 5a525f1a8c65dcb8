-------------------------- MODULE AuthTokensProofs --------------------------
(* Proofs about AuthTokens, for every number of tokens and concurrent calls,   *)
(* every lifetime and any length of time.                                      *)
(*                                                                             *)
(* The argument: a revoked token whose kind is in LastingKinds is covered by   *)
(* its blacklist entry until it expires, because every write of the entry is   *)
(* made with the token's own remaining life and no jti is issued twice; a call *)
(* that begins after the revocation therefore finds the entry, or the token    *)
(* has run out meanwhile. Access tokens are always such; refresh tokens are as *)
(* long as clients do not present them to /auth/logout, whose 20 minutes are   *)
(* less than they live: then EntryCoversToken is false.                        *)
EXTENDS AuthTokens, TLAPS

USE DEF RefreshSteps, Steps, Valid, Listed, Lasting, Covered, tokenVars, callVars,
  redisVars

\* The server starts with no token and no entry.
LEMMA InitIInv == Init => IInv
BY MaxTimeAssumption
DEF Init, IInv, TypeOK, Issued, LateIsRevoked, KindsMatch, RevokedIsCovered, IssueCovered,
    FixedOnlyExpired, LogoutTakesEffect, LateRefreshExpires

\* Every step keeps the types, whatever kind of token clients log out with.
LEMMA StepTypeOK == TypeOK /\ [Next]_vars => TypeOK'
<1> SUFFICES ASSUME TypeOK, [Next]_vars PROVE TypeOK'
  OBVIOUS
<1>1. ASSUME Login PROVE TypeOK'
  BY <1>1, TTLAssumption DEF TypeOK, Login, GeneratePair
<1>2. ASSUME Tick PROVE TypeOK'
  BY <1>2 DEF TypeOK, Tick
<1>3. ASSUME RedisToggles PROVE TypeOK'
  BY <1>3 DEF TypeOK, RedisToggles
<1>4. ASSUME NEW c \in Calls, NEW t \in Tokens, BeginRefresh(c, t) PROVE TypeOK'
  BY <1>4 DEF TypeOK, BeginRefresh, Begin
<1>5. ASSUME NEW c \in Calls, NEW t \in Tokens, BeginLogout(c, t) PROVE TypeOK'
  BY <1>5 DEF TypeOK, BeginLogout, Begin
<1>6. ASSUME NEW c \in Calls, NEW t \in Tokens, BeginRequest(c, t) PROVE TypeOK'
  BY <1>6 DEF TypeOK, BeginRequest, Begin
<1>7. ASSUME NEW c \in Calls, CheckRefresh(c) PROVE TypeOK'
  BY <1>7 DEF TypeOK, CheckRefresh, Goto, Return
<1>8. ASSUME NEW c \in Calls, LookupUser(c) PROVE TypeOK'
  BY <1>8 DEF TypeOK, LookupUser, Goto, Return
<1>9. ASSUME NEW c \in Calls, RevokeOld(c) PROVE TypeOK'
  <2>1. tok[c] \in Tokens /\ exp[tok[c]] \in Nat /\ now \in Nat
    BY <1>9 DEF TypeOK, RevokeOld
  <2>2. entry' \in [Tokens -> Nat]
    BY <1>9, <2>1 DEF TypeOK, RevokeOld, Blacklist, BlacklistFails
  <2> QED BY <1>9, <2>2 DEF TypeOK, RevokeOld, Goto, Return
<1>10. ASSUME NEW c \in Calls, IssuePair(c) PROVE TypeOK'
  BY <1>10, TTLAssumption DEF TypeOK, IssuePair, GeneratePair, Return
<1>11. ASSUME NEW c \in Calls, RevokeLogout(c) PROVE TypeOK'
  BY <1>11, TTLAssumption DEF TypeOK, RevokeLogout, Blacklist, BlacklistFails, Return
<1>12. ASSUME NEW c \in Calls, CheckRequest(c) PROVE TypeOK'
  BY <1>12 DEF TypeOK, CheckRequest, Goto, Return
<1>13. ASSUME NEW c \in Calls, FinishRequest(c) PROVE TypeOK'
  BY <1>13 DEF TypeOK, FinishRequest, Return
<1>14. CASE UNCHANGED vars
  BY <1>14 DEF TypeOK, vars
<1> QED BY <1>1, <1>2, <1>3, <1>4, <1>5, <1>6, <1>7, <1>8,
    <1>9, <1>10, <1>11, <1>12, <1>13, <1>14
  DEF Next

\* Every step of a handler, of the clock and of Redis keeps IInv: first the parts
\* the step leaves as they were or keeps by themselves, then those it disturbs.
LEMMA StepIInv == IInv /\ [Next]_vars => IInv'
<1> SUFFICES ASSUME IInv, [Next]_vars PROVE IInv'
  OBVIOUS
<1>1. ASSUME Login PROVE IInv'
  <2>1. LateIsRevoked'
    BY <1>1 DEF IInv, Issued, LateIsRevoked, Login, GeneratePair
  <2>2. Issued'
    BY <1>1 DEF IInv, Issued, TypeOK, Login, GeneratePair
  <2>3. KindsMatch'
    BY <1>1 DEF IInv, KindsMatch, TypeOK, Login, GeneratePair
  <2>4. RevokedIsCovered'
    BY <1>1
    DEF IInv, Issued, KindsMatch, RevokedIsCovered, IssueCovered,
        FixedOnlyExpired, TypeOK, Login, GeneratePair
  <2>5. IssueCovered'
    BY <1>1
    DEF IInv, Issued, IssueCovered, FixedOnlyExpired, TypeOK, Login,
        GeneratePair
  <2>6. FixedOnlyExpired'
    BY <1>1 DEF IInv, Issued, FixedOnlyExpired, TypeOK, Login, GeneratePair
  <2>7. LogoutTakesEffect'
    BY <1>1
    DEF IInv, Issued, LateIsRevoked, KindsMatch, RevokedIsCovered,
        LogoutTakesEffect, TypeOK, Login, GeneratePair
  <2>8. LateRefreshExpires'
    BY <1>1
    DEF IInv, Issued, LateIsRevoked, KindsMatch, RevokedIsCovered,
        LateRefreshExpires, TypeOK, Login, GeneratePair
  <2>9. TypeOK'
    BY StepTypeOK DEF IInv
  <2> QED BY <2>1, <2>2, <2>3, <2>4, <2>5, <2>6, <2>7, <2>8, <2>9 DEF IInv
<1>2. ASSUME Tick PROVE IInv'
  <2>1. /\ Issued' /\ LateIsRevoked' /\ KindsMatch'
    BY <1>2 DEF IInv, Issued, LateIsRevoked, KindsMatch, Tick
  <2>2. RevokedIsCovered'
    BY <1>2 DEF IInv, RevokedIsCovered, TypeOK, Tick
  <2>3. IssueCovered'
    BY <1>2 DEF IInv, IssueCovered, TypeOK, Tick
  <2>4. FixedOnlyExpired'
    BY <1>2 DEF IInv, FixedOnlyExpired, TypeOK, Tick
  <2>5. LogoutTakesEffect'
    BY <1>2 DEF IInv, LogoutTakesEffect, TypeOK, Tick
  <2>6. LateRefreshExpires'
    BY <1>2 DEF IInv, LateRefreshExpires, TypeOK, Tick
  <2>7. TypeOK'
    BY StepTypeOK DEF IInv
  <2> QED BY <2>1, <2>2, <2>3, <2>4, <2>5, <2>6, <2>7 DEF IInv
<1>3. ASSUME RedisToggles PROVE IInv'
  <2>1. /\ Issued' /\ LateIsRevoked' /\ KindsMatch' /\ RevokedIsCovered'
       /\ IssueCovered' /\ FixedOnlyExpired' /\ LogoutTakesEffect'
       /\ LateRefreshExpires'
    BY <1>3
    DEF IInv, Issued, LateIsRevoked, KindsMatch, RevokedIsCovered,
        IssueCovered, FixedOnlyExpired, LogoutTakesEffect, LateRefreshExpires,
        RedisToggles
  <2>2. TypeOK'
    BY StepTypeOK DEF IInv
  <2> QED BY <2>1, <2>2 DEF IInv
<1>4. ASSUME NEW c \in Calls, NEW t \in Tokens, BeginRefresh(c, t) PROVE IInv'
  <2>1. /\ RevokedIsCovered' /\ IssueCovered' /\ FixedOnlyExpired'
       /\ LogoutTakesEffect' /\ LateRefreshExpires'
    BY <1>4
    DEF IInv, Issued, RevokedIsCovered, IssueCovered, FixedOnlyExpired,
        LogoutTakesEffect, LateRefreshExpires, BeginRefresh, Begin
  <2>2. Issued'
    BY <1>4 DEF IInv, Issued, TypeOK, BeginRefresh, Begin
  <2>3. LateIsRevoked'
    BY <1>4 DEF IInv, LateIsRevoked, TypeOK, BeginRefresh, Begin
  <2>4. KindsMatch'
    BY <1>4 DEF IInv, KindsMatch, TypeOK, BeginRefresh, Begin
  <2>5. TypeOK'
    BY StepTypeOK DEF IInv
  <2> QED BY <2>1, <2>2, <2>3, <2>4, <2>5 DEF IInv
<1>5. ASSUME NEW c \in Calls, NEW t \in Tokens, BeginLogout(c, t) PROVE IInv'
  <2>1. /\ KindsMatch' /\ RevokedIsCovered' /\ IssueCovered'
       /\ LogoutTakesEffect' /\ LateRefreshExpires'
    BY <1>5
    DEF IInv, Issued, KindsMatch, RevokedIsCovered, IssueCovered,
        LogoutTakesEffect, LateRefreshExpires, BeginLogout, Begin
  <2>2. Issued'
    BY <1>5, LogoutKindsAssumption DEF IInv, TypeOK, Issued, BeginLogout, Begin
  <2>3. LateIsRevoked'
    BY <1>5 DEF IInv, LateIsRevoked, TypeOK, BeginLogout, Begin
  <2>4. FixedOnlyExpired'
    BY <1>5
    DEF IInv, FixedOnlyExpired, TypeOK, BeginLogout, Begin, LastingKinds
  <2>5. TypeOK'
    BY StepTypeOK DEF IInv
  <2> QED BY <2>1, <2>2, <2>3, <2>4, <2>5 DEF IInv
<1>6. ASSUME NEW c \in Calls, NEW t \in Tokens, BeginRequest(c, t) PROVE IInv'
  <2>1. /\ RevokedIsCovered' /\ IssueCovered' /\ FixedOnlyExpired'
       /\ LogoutTakesEffect' /\ LateRefreshExpires'
    BY <1>6
    DEF IInv, Issued, RevokedIsCovered, IssueCovered, FixedOnlyExpired,
        LogoutTakesEffect, LateRefreshExpires, BeginRequest, Begin
  <2>2. Issued'
    BY <1>6 DEF IInv, Issued, TypeOK, BeginRequest, Begin
  <2>3. LateIsRevoked'
    BY <1>6 DEF IInv, LateIsRevoked, TypeOK, BeginRequest, Begin
  <2>4. KindsMatch'
    BY <1>6 DEF IInv, KindsMatch, TypeOK, BeginRequest, Begin
  <2>5. TypeOK'
    BY StepTypeOK DEF IInv
  <2> QED BY <2>1, <2>2, <2>3, <2>4, <2>5 DEF IInv
<1>7. ASSUME NEW c \in Calls, CheckRefresh(c) PROVE IInv'
  <2>1. RevokedIsCovered'
    BY <1>7 DEF IInv, Issued, RevokedIsCovered, CheckRefresh, Goto, Return
  <2>2. Issued'
    BY <1>7 DEF IInv, Issued, TypeOK, CheckRefresh, Goto, Return
  <2>3. LateIsRevoked'
    BY <1>7 DEF IInv, LateIsRevoked, TypeOK, CheckRefresh, Goto, Return
  <2>4. KindsMatch'
    BY <1>7 DEF IInv, KindsMatch, TypeOK, CheckRefresh, Goto, Return
  <2>5. IssueCovered'
    BY <1>7 DEF IInv, IssueCovered, TypeOK, CheckRefresh, Goto, Return
  <2>6. FixedOnlyExpired'
    BY <1>7 DEF IInv, FixedOnlyExpired, TypeOK, CheckRefresh, Goto, Return
  <2>7. LogoutTakesEffect'
    BY <1>7 DEF IInv, LogoutTakesEffect, TypeOK, CheckRefresh, Goto, Return
  <2>8. LateRefreshExpires'
    BY <1>7
    DEF IInv, Issued, LateIsRevoked, KindsMatch, RevokedIsCovered,
        LateRefreshExpires, TypeOK, CheckRefresh, Goto, Return
  <2>9. TypeOK'
    BY StepTypeOK DEF IInv
  <2> QED BY <2>1, <2>2, <2>3, <2>4, <2>5, <2>6, <2>7, <2>8, <2>9 DEF IInv
<1>8. ASSUME NEW c \in Calls, LookupUser(c) PROVE IInv'
  <2>1. RevokedIsCovered'
    BY <1>8 DEF IInv, Issued, RevokedIsCovered, LookupUser, Goto, Return
  <2>2. Issued'
    BY <1>8 DEF IInv, Issued, TypeOK, LookupUser, Goto, Return
  <2>3. LateIsRevoked'
    BY <1>8 DEF IInv, LateIsRevoked, TypeOK, LookupUser, Goto, Return
  <2>4. KindsMatch'
    BY <1>8 DEF IInv, KindsMatch, TypeOK, LookupUser, Goto, Return
  <2>5. IssueCovered'
    BY <1>8 DEF IInv, IssueCovered, TypeOK, LookupUser, Goto, Return
  <2>6. FixedOnlyExpired'
    BY <1>8 DEF IInv, FixedOnlyExpired, TypeOK, LookupUser, Goto, Return
  <2>7. LogoutTakesEffect'
    BY <1>8 DEF IInv, LogoutTakesEffect, TypeOK, LookupUser, Goto, Return
  <2>8. LateRefreshExpires'
    BY <1>8 DEF IInv, LateRefreshExpires, TypeOK, LookupUser, Goto, Return
  <2>9. TypeOK'
    BY StepTypeOK DEF IInv
  <2> QED BY <2>1, <2>2, <2>3, <2>4, <2>5, <2>6, <2>7, <2>8, <2>9 DEF IInv
<1>9. ASSUME NEW c \in Calls, RevokeOld(c) PROVE IInv'
  <2>1. Issued'
    BY <1>9
    DEF IInv, Issued, TypeOK, RevokeOld, Blacklist, BlacklistFails, Goto,
        Return
  <2>2. LateIsRevoked'
    BY <1>9
    DEF IInv, LateIsRevoked, TypeOK, RevokeOld, Blacklist, BlacklistFails,
        Goto, Return
  <2>3. KindsMatch'
    BY <1>9
    DEF IInv, KindsMatch, TypeOK, RevokeOld, Blacklist, BlacklistFails, Goto,
        Return
  <2>4. RevokedIsCovered'
    BY <1>9
    DEF IInv, RevokedIsCovered, TypeOK, RevokeOld, Blacklist, BlacklistFails,
        Goto, Return
  <2>5. IssueCovered'
    BY <1>9
    DEF IInv, IssueCovered, TypeOK, RevokeOld, Blacklist, BlacklistFails,
        Goto, Return
  <2>6. FixedOnlyExpired'
    BY <1>9
    DEF IInv, FixedOnlyExpired, TypeOK, RevokeOld, Blacklist, BlacklistFails,
        Goto, Return
  <2>7. LogoutTakesEffect'
    BY <1>9
    DEF IInv, LogoutTakesEffect, TypeOK, RevokeOld, Blacklist, BlacklistFails,
        Goto, Return
  <2>8. LateRefreshExpires'
    BY <1>9
    DEF IInv, LateRefreshExpires, TypeOK, RevokeOld, Blacklist,
        BlacklistFails, Goto, Return
  <2>9. TypeOK'
    BY StepTypeOK DEF IInv
  <2> QED BY <2>1, <2>2, <2>3, <2>4, <2>5, <2>6, <2>7, <2>8, <2>9 DEF IInv
<1>10. ASSUME NEW c \in Calls, IssuePair(c) PROVE IInv'
  <2>1. Issued'
    BY <1>10 DEF IInv, Issued, TypeOK, IssuePair, GeneratePair, Return
  <2>2. LateIsRevoked'
    BY <1>10 DEF IInv, LateIsRevoked, TypeOK, IssuePair, GeneratePair, Return
  <2>3. KindsMatch'
    BY <1>10 DEF IInv, KindsMatch, TypeOK, IssuePair, GeneratePair, Return
  <2>4. RevokedIsCovered'
    BY <1>10
    DEF IInv, Issued, KindsMatch, RevokedIsCovered, IssueCovered,
        FixedOnlyExpired, TypeOK, IssuePair, GeneratePair, Return
  <2>5. IssueCovered'
    BY <1>10
    DEF IInv, Issued, IssueCovered, FixedOnlyExpired, TypeOK, IssuePair,
        GeneratePair, Return
  <2>6. FixedOnlyExpired'
    BY <1>10
    DEF IInv, Issued, FixedOnlyExpired, TypeOK, IssuePair, GeneratePair,
        Return
  <2>7. LogoutTakesEffect'
    BY <1>10
    DEF IInv, Issued, LateIsRevoked, KindsMatch, RevokedIsCovered,
        LogoutTakesEffect, TypeOK, IssuePair, GeneratePair, Return
  <2>8. LateRefreshExpires'
    BY <1>10
    DEF IInv, Issued, LateIsRevoked, KindsMatch, RevokedIsCovered,
        LateRefreshExpires, TypeOK, IssuePair, GeneratePair, Return
  <2>9. TypeOK'
    BY StepTypeOK DEF IInv
  <2> QED BY <2>1, <2>2, <2>3, <2>4, <2>5, <2>6, <2>7, <2>8, <2>9 DEF IInv
<1>11. ASSUME NEW c \in Calls, RevokeLogout(c) PROVE IInv'
  <2>1. /\ KindsMatch' /\ LogoutTakesEffect' /\ LateRefreshExpires'
    BY <1>11
    DEF IInv, Issued, KindsMatch, LogoutTakesEffect, LateRefreshExpires,
        RevokeLogout, Blacklist, BlacklistFails, Return
  <2>2. Issued'
    BY <1>11
    DEF IInv, Issued, TypeOK, RevokeLogout, Blacklist, BlacklistFails, Return
  <2>3. LateIsRevoked'
    BY <1>11
    DEF IInv, LateIsRevoked, TypeOK, RevokeLogout, Blacklist, BlacklistFails,
        Return
  <2>4. RevokedIsCovered'
    BY <1>11
    DEF IInv, Issued, KindsMatch, RevokedIsCovered, IssueCovered,
        FixedOnlyExpired, TypeOK, RevokeLogout, Blacklist, BlacklistFails,
        Return
  <2>5. IssueCovered'
    BY <1>11
    DEF IInv, Issued, IssueCovered, FixedOnlyExpired, TypeOK, RevokeLogout,
        Blacklist, BlacklistFails, Return
  <2>6. FixedOnlyExpired'
    BY <1>11
    DEF IInv, FixedOnlyExpired, TypeOK, RevokeLogout, Blacklist,
        BlacklistFails, Return
  <2>7. TypeOK'
    BY StepTypeOK DEF IInv
  <2> QED BY <2>1, <2>2, <2>3, <2>4, <2>5, <2>6, <2>7 DEF IInv
<1>12. ASSUME NEW c \in Calls, CheckRequest(c) PROVE IInv'
  <2>1. RevokedIsCovered'
    BY <1>12 DEF IInv, Issued, RevokedIsCovered, CheckRequest, Goto, Return
  <2>2. Issued'
    BY <1>12 DEF IInv, Issued, TypeOK, CheckRequest, Goto, Return
  <2>3. LateIsRevoked'
    BY <1>12 DEF IInv, LateIsRevoked, TypeOK, CheckRequest, Goto, Return
  <2>4. KindsMatch'
    BY <1>12 DEF IInv, KindsMatch, TypeOK, CheckRequest, Goto, Return
  <2>5. IssueCovered'
    BY <1>12 DEF IInv, IssueCovered, TypeOK, CheckRequest, Goto, Return
  <2>6. FixedOnlyExpired'
    BY <1>12 DEF IInv, FixedOnlyExpired, TypeOK, CheckRequest, Goto, Return
  <2>7. LogoutTakesEffect'
    <3>1. pc[c] = "mCheck" /\ tok[c] \in Tokens /\ kind[tok[c]] \in LastingKinds
      BY <1>12 DEF IInv, TypeOK, KindsMatch, LastingKinds, CheckRequest
    <3>2. late[c] => connected /\ Covered(tok[c])
      BY <3>1 DEF IInv, LateIsRevoked, RevokedIsCovered
    <3>3. ASSUME late[c], pc'[c] = "authorized" PROVE exp[tok[c]] <= now
      BY <1>12, <3>1, <3>2, <3>3 DEF IInv, TypeOK, CheckRequest, Goto, Return
    <3> QED
      BY <1>12, <3>3 DEF IInv, TypeOK, LogoutTakesEffect, CheckRequest, Goto, Return
  <2>8. LateRefreshExpires'
    BY <1>12 DEF IInv, LateRefreshExpires, TypeOK, CheckRequest, Goto, Return
  <2>9. TypeOK'
    BY StepTypeOK DEF IInv
  <2> QED BY <2>1, <2>2, <2>3, <2>4, <2>5, <2>6, <2>7, <2>8, <2>9 DEF IInv
<1>13. ASSUME NEW c \in Calls, FinishRequest(c) PROVE IInv'
  <2>1. /\ RevokedIsCovered' /\ IssueCovered' /\ FixedOnlyExpired'
       /\ LateRefreshExpires'
    BY <1>13
    DEF IInv, Issued, RevokedIsCovered, IssueCovered, FixedOnlyExpired,
        LateRefreshExpires, FinishRequest, Return
  <2>2. Issued'
    BY <1>13 DEF IInv, Issued, TypeOK, FinishRequest, Return
  <2>3. LateIsRevoked'
    BY <1>13 DEF IInv, LateIsRevoked, TypeOK, FinishRequest, Return
  <2>4. KindsMatch'
    BY <1>13 DEF IInv, KindsMatch, TypeOK, FinishRequest, Return
  <2>5. LogoutTakesEffect'
    BY <1>13 DEF IInv, LogoutTakesEffect, TypeOK, FinishRequest, Return
  <2>6. TypeOK'
    BY StepTypeOK DEF IInv
  <2> QED BY <2>1, <2>2, <2>3, <2>4, <2>5, <2>6 DEF IInv
<1>14. CASE UNCHANGED vars
  BY <1>14
  DEF IInv, TypeOK, Issued, LateIsRevoked, KindsMatch, RevokedIsCovered, IssueCovered,
      FixedOnlyExpired, LogoutTakesEffect, LateRefreshExpires, vars
<1> QED BY <1>1, <1>2, <1>3, <1>4, <1>5, <1>6, <1>7, <1>8, <1>9, <1>10, <1>11,
    <1>12, <1>13, <1>14
  DEF Next

\* IInv holds in every reachable state.
LEMMA Inductive == Spec => []IInv
<1> QED
  BY InitIInv, StepIInv, PTL DEF Spec

\* The variables keep their types.
THEOREM TypeCorrect == Spec => []TypeOK
<1>1. Init => TypeOK
  BY InitIInv DEF IInv
<1> QED
  BY <1>1, StepTypeOK, PTL DEF Spec

\* After a logout the middleware lets the access token in only blindly or dying, also
\* if clients present refresh tokens to /auth/logout (JWTAuth, authService.Logout).
THEOREM LogoutHolds == Spec => []LogoutTakesEffect
<1>1. IInv => LogoutTakesEffect
  BY DEF IInv
<1> QED
  BY <1>1, Inductive, PTL

\* Whatever was issued is an access or a refresh token.
LEMMA EveryKindLasts ==
  ASSUME "refresh" \notin LogoutKinds, TypeOK, NEW t \in Tokens, kind[t] # "none"
  PROVE  Lasting(t)
BY DEF TypeOK, Lasting, LastingKinds

\* A revoked token stays blacklisted for the rest of its life, if no refresh token is
\* presented to /auth/logout (authService.Logout, Refresh, TokenStore.Blacklist).
THEOREM RevokedStaysListed ==
  ASSUME "refresh" \notin LogoutKinds
  PROVE  Spec => []EntryCoversToken
<1>1. IInv => EntryCoversToken
  <2> SUFFICES ASSUME IInv, NEW t \in revoked PROVE connected /\ Covered(t)
    BY DEF EntryCoversToken
  <2>1. Lasting(t)
    BY EveryKindLasts DEF IInv, TypeOK, Issued
  <2> QED
    BY <2>1 DEF IInv, RevokedIsCovered
<1> QED
  BY <1>1, Inductive, PTL

\* A refresh token that was exchanged is refused to every later call, if none is
\* presented to /auth/logout: a logout would shorten the life of its entry.
THEOREM UsedRefreshIsRefused ==
  ASSUME "refresh" \notin LogoutKinds
  PROVE  Spec => []LateRefreshRefused
<1>1. IInv => LateRefreshRefused
  <2> SUFFICES ASSUME IInv, NEW c \in Calls, late[c], pc[c] \in RefreshSteps
               PROVE  exp[tok[c]] <= now
    BY DEF LateRefreshRefused
  <2>1. tok[c] \in Tokens /\ kind[tok[c]] # "none"
    BY DEF IInv, TypeOK, Issued
  <2>2. Lasting(tok[c])
    BY <2>1, EveryKindLasts DEF IInv
  <2> QED
    BY <2>2 DEF IInv, LateRefreshExpires
<1> QED
  BY <1>1, Inductive, PTL
=============================================================================
