----------------------------- MODULE AuthTokens -----------------------------
(* The life of JWT pairs: Login and Refresh issue them (pkg/jwt, service/auth), *)
(* Logout and Refresh revoke them in the Redis blacklist (token_store), and the *)
(* middleware consults the blacklist on every protected request. Requests run   *)
(* concurrently; each call of Redis is a step of its own, and time passes       *)
(* between the steps of a request.                                              *)
(*                                                                              *)
(* A token is a model value standing for its jti; signatures and claims are its *)
(* kind and its expiry.                                                         *)
EXTENDS Integers

CONSTANTS Tokens,       \* jti values; Login and Refresh take two fresh ones
          Calls,        \* request goroutines that may run at the same time
          NoToken,      \* what an idle call holds
          AccessTTL,    \* JWT_ACCESS_TTL
          RefreshTTL,   \* JWT_REFRESH_TTL
          LogoutTTL,    \* the 20 minutes in authService.Logout
          LogoutKinds,  \* kinds of token that clients present to /auth/logout
          MaxTime       \* bound on the clock

ASSUME TTLAssumption ==
  AccessTTL \in Nat \ {0} /\ RefreshTTL \in Nat \ {0} /\ LogoutTTL \in Nat \ {0}
ASSUME MaxTimeAssumption == MaxTime \in Nat
ASSUME NoTokenAssumption == NoToken \notin Tokens
ASSUME LogoutKindsAssumption == LogoutKinds \subseteq {"access", "refresh"}

VARIABLES
  now,        \* the clock
  connected,  \* NewClient's PING succeeded: Client.rdb is not nil
  redisUp,    \* Redis answers at the moment
  kind,       \* claim "type" of each token, "none" while it is not issued
  exp,        \* claim "exp"
  entry,      \* when the key blacklist:<jti> expires; 0 if it was never set
  pc,         \* what each call is about to do
  tok,        \* the token it carries
  late,       \* history: the token was revoked before the call began
  revoked,    \* history: tokens whose Logout or Refresh returned success
  uses        \* history: pairs issued in exchange for each refresh token

tokenVars == <<kind, exp>>
callVars  == <<pc, tok, late>>
redisVars == <<connected, redisUp>>
vars == <<now, redisVars, tokenVars, entry, callVars, revoked, uses>>

Init ==
  /\ now = 0
  /\ connected \in BOOLEAN
  /\ redisUp = TRUE
  /\ kind = [t \in Tokens |-> "none"]
  /\ exp = [t \in Tokens |-> 0]
  /\ entry = [t \in Tokens |-> 0]
  /\ pc = [c \in Calls |-> "idle"]
  /\ tok = [c \in Calls |-> NoToken]
  /\ late = [c \in Calls |-> FALSE]
  /\ revoked = {}
  /\ uses = [t \in Tokens |-> 0]

-----------------------------------------------------------------------------
(* The token manager and the token store.                                      *)

\* validate: signature, expiry, then the claim "type".
Valid(t, k) == kind[t] = k /\ now < exp[t]

\* EXISTS blacklist:<jti>
Listed(t) == now < entry[t]

\* Two fresh tokens, signed now.
GeneratePair(a, r) ==
  /\ a # r /\ kind[a] = "none" /\ kind[r] = "none"
  /\ kind' = [kind EXCEPT ![a] = "access", ![r] = "refresh"]
  /\ exp' = [exp EXCEPT ![a] = now + AccessTTL, ![r] = now + RefreshTTL]

\* mutant: the key expires one tick before the token
BlacklistShort(t, ttl) ==
  \/ (~connected \/ ttl <= 0) /\ UNCHANGED entry
  \/ /\ connected /\ redisUp /\ ttl > 0
     /\ entry' = [entry EXCEPT ![t] = now + ttl - 1]

\* Blacklist returns nil: a no-op without a client or with nothing left to live.
Blacklist(t, ttl) ==
  \/ (~connected \/ ttl <= 0) /\ UNCHANGED entry
  \/ /\ connected /\ redisUp /\ ttl > 0
     /\ entry' = [entry EXCEPT ![t] = now + ttl]

\* Blacklist returns an error: Redis is down, or its reply was lost.
BlacklistFails(t, ttl) ==
  /\ connected /\ ttl > 0
  /\ \/ UNCHANGED entry
     \/ redisUp /\ entry' = [entry EXCEPT ![t] = now + ttl]

Goto(c, step) ==
  /\ pc' = [pc EXCEPT ![c] = step]
  /\ UNCHANGED <<tok, late>>

\* mutant: the token is not put into the request's context
BeginWithoutToken(c, t, step) ==
  /\ pc[c] = "idle"
  /\ pc' = [pc EXCEPT ![c] = step]
  /\ UNCHANGED <<tok, late>>

Begin(c, t, step) ==
  /\ pc[c] = "idle"
  /\ pc' = [pc EXCEPT ![c] = step]
  /\ tok' = [tok EXCEPT ![c] = t]
  /\ late' = [late EXCEPT ![c] = t \in revoked]

Return(c) ==
  /\ pc' = [pc EXCEPT ![c] = "idle"]
  /\ tok' = [tok EXCEPT ![c] = NoToken]
  /\ late' = [late EXCEPT ![c] = FALSE]

-----------------------------------------------------------------------------
(* Handlers.                                                                   *)

\* A correct password: the answer is a fresh pair.
Login ==
  /\ \E a, r \in Tokens : GeneratePair(a, r)
  /\ UNCHANGED <<now, redisVars, entry, callVars, revoked, uses>>

\* Refresh: ValidateRefresh.
BeginRefresh(c, t) ==
  /\ Valid(t, "refresh")
  /\ Begin(c, t, "rCheck")
  /\ UNCHANGED <<now, redisVars, tokenVars, entry, revoked, uses>>

\* mutant: an error of Redis lets the refresh through, as in the middleware
CheckRefreshOpen(c) ==
  /\ pc[c] = "rCheck"
  /\ \/ ~connected \/ ~redisUp \/ ~Listed(tok[c])
     /\ Goto(c, "rLookup")
  /\ UNCHANGED <<now, redisVars, tokenVars, entry, revoked, uses>>

\* IsBlacklisted: an error or a hit ends the call.
CheckRefresh(c) ==
  /\ pc[c] = "rCheck"
  /\ \/ (~connected \/ (redisUp /\ ~Listed(tok[c]))) /\ Goto(c, "rLookup")
     \/ connected /\ (~redisUp \/ Listed(tok[c])) /\ Return(c)
  /\ UNCHANGED <<now, redisVars, tokenVars, entry, revoked, uses>>

\* users.GetByID finds the user, or PostgreSQL fails (no code deletes users).
LookupUser(c) ==
  /\ pc[c] = "rLookup"
  /\ Goto(c, "rRevoke") \/ Return(c)
  /\ UNCHANGED <<now, redisVars, tokenVars, entry, revoked, uses>>

\* Blacklist(jti, time.Until(exp))
RevokeOld(c) ==
  /\ pc[c] = "rRevoke"
  /\ \/ /\ Blacklist(tok[c], exp[tok[c]] - now)
        /\ Goto(c, "rIssue")
        /\ UNCHANGED revoked
     \/ /\ BlacklistFails(tok[c], exp[tok[c]] - now)
        /\ Return(c)
        /\ UNCHANGED revoked
  /\ UNCHANGED <<now, redisVars, tokenVars, uses>>

\* The pair is the answer; from here on the old token counts as used.
IssuePair(c) ==
  /\ pc[c] = "rIssue"
  /\ \E a, r \in Tokens : GeneratePair(a, r)
  /\ uses' = [uses EXCEPT ![tok[c]] = @ + 1]
  /\ revoked' = IF connected THEN revoked \cup {tok[c]} ELSE revoked
  /\ Return(c)
  /\ UNCHANGED <<now, redisVars, entry>>

\* Logout: a valid access token is revoked for the rest of its life, any other
\* token whose jti can be read for a fixed time.
BeginLogout(c, t) ==
  /\ kind[t] \in LogoutKinds
  /\ Begin(c, t, IF Valid(t, "access") THEN "lRevoke" ELSE "lRevokeFixed")
  /\ UNCHANGED <<now, redisVars, tokenVars, entry, revoked, uses>>

\* mutant: the hard-coded time for every token
RevokeLogoutFixed(c) ==
  /\ pc[c] \in {"lRevoke", "lRevokeFixed"}
  /\ \/ /\ Blacklist(tok[c], 1)
        /\ revoked' = IF connected THEN revoked \cup {tok[c]} ELSE revoked
     \/ BlacklistFails(tok[c], 1) /\ UNCHANGED revoked
  /\ Return(c)
  /\ UNCHANGED <<now, redisVars, tokenVars, uses>>

RevokeLogout(c) ==
  /\ pc[c] \in {"lRevoke", "lRevokeFixed"}
  /\ LET ttl == IF pc[c] = "lRevoke" THEN exp[tok[c]] - now ELSE LogoutTTL
     IN  \/ /\ Blacklist(tok[c], ttl)
            /\ revoked' = IF connected THEN revoked \cup {tok[c]} ELSE revoked
         \/ BlacklistFails(tok[c], ttl) /\ UNCHANGED revoked
  /\ Return(c)
  /\ UNCHANGED <<now, redisVars, tokenVars, uses>>

\* JWTAuth: ValidateAccess.
BeginRequest(c, t) ==
  /\ Valid(t, "access")
  /\ Begin(c, t, "mCheck")
  /\ UNCHANGED <<now, redisVars, tokenVars, entry, revoked, uses>>

\* IsBlacklisted: a hit is a 401, an error lets the request through.
CheckRequest(c) ==
  /\ pc[c] = "mCheck"
  /\ \/ (~connected \/ (redisUp /\ ~Listed(tok[c]))) /\ Goto(c, "authorized")
     \/ connected /\ ~redisUp /\ Goto(c, "authorizedBlind")
     \/ connected /\ redisUp /\ Listed(tok[c]) /\ Return(c)
  /\ UNCHANGED <<now, redisVars, tokenVars, entry, revoked, uses>>

FinishRequest(c) ==
  /\ pc[c] \in {"authorized", "authorizedBlind"}
  /\ Return(c)
  /\ UNCHANGED <<now, redisVars, tokenVars, entry, revoked, uses>>

-----------------------------------------------------------------------------
Tick ==
  /\ now < MaxTime
  /\ now' = now + 1
  /\ UNCHANGED <<redisVars, tokenVars, entry, callVars, revoked, uses>>

\* Redis is cut off and comes back with its keys.
RedisToggles ==
  /\ connected
  /\ redisUp' = ~redisUp
  /\ UNCHANGED <<now, connected, tokenVars, entry, callVars, revoked, uses>>

Next ==
  \/ Login \/ Tick \/ RedisToggles
  \/ \E c \in Calls :
       \/ \E t \in Tokens : BeginRefresh(c, t) \/ BeginLogout(c, t) \/ BeginRequest(c, t)
       \/ CheckRefresh(c) \/ LookupUser(c) \/ RevokeOld(c) \/ IssuePair(c)
       \/ RevokeLogout(c) \/ CheckRequest(c) \/ FinishRequest(c)

Spec == Init /\ [][Next]_vars

-----------------------------------------------------------------------------
(* Safety.                                                                     *)

RefreshSteps == {"rLookup", "rRevoke", "rIssue"}
Steps == {"idle", "rCheck", "lRevoke", "lRevokeFixed", "mCheck", "authorized",
          "authorizedBlind"} \cup RefreshSteps

\* Types; only a call that runs carries a token.
TypeOK ==
  /\ now \in Nat
  /\ connected \in BOOLEAN /\ redisUp \in BOOLEAN
  /\ kind \in [Tokens -> {"none", "access", "refresh"}]
  /\ exp \in [Tokens -> Nat]
  /\ entry \in [Tokens -> Nat]
  /\ pc \in [Calls -> Steps]
  /\ tok \in [Calls -> Tokens \cup {NoToken}]
  /\ late \in [Calls -> BOOLEAN]
  /\ revoked \subseteq Tokens
  /\ uses \in [Tokens -> Nat]
  /\ \A c \in Calls : pc[c] # "idle" => tok[c] \in Tokens

\* auth.go: a revoked token stays in the blacklist for the rest of its life.
EntryCoversToken ==
  \A t \in revoked : connected /\ (exp[t] <= entry[t] \/ exp[t] <= now)

\* A request that begins after its token's logout was answered is not let in,
\* except blindly (Redis failed) or if the token, valid when the request began,
\* and its key ran out before the blacklist was asked.
LogoutTakesEffect ==
  \A c \in Calls : late[c] /\ pc[c] = "authorized" => exp[tok[c]] <= now

\* A refresh that begins after the same token was exchanged or logged out gets no
\* further than the blacklist, with the same exception for a token running out.
LateRefreshRefused ==
  \A c \in Calls : late[c] /\ pc[c] \in RefreshSteps => exp[tok[c]] <= now

\* auth.go: every refresh token is used once.
RefreshOnce == connected => \A t \in Tokens : uses[t] <= 1

-----------------------------------------------------------------------------
(* The inductive invariant behind the safety properties.                       *)

\* What is carried or revoked was issued, so that no login reuses its jti.
Issued ==
  /\ \A t \in revoked : kind[t] # "none"
  /\ \A c \in Calls : pc[c] # "idle" => kind[tok[c]] # "none"

\* A call that began late carries a revoked token.
LateIsRevoked == \A c \in Calls : late[c] => tok[c] \in revoked

\* Handlers work on one kind of token, as the claim "type" says.
KindsMatch ==
  \A c \in Calls :
    /\ pc[c] \in {"mCheck", "authorized", "authorizedBlind"} => kind[tok[c]] = "access"
    /\ pc[c] \in {"rCheck"} \cup RefreshSteps => kind[tok[c]] = "refresh"

\* The kinds whose revocation lasts: a logout revokes an access token for the rest of
\* its life, a refresh token for LogoutTTL.
LastingKinds == IF "refresh" \in LogoutKinds THEN {"access"} ELSE {"access", "refresh"}
Lasting(t) == kind[t] \in LastingKinds

Covered(t) == exp[t] <= entry[t] \/ exp[t] <= now

\* Only with a client is anything revoked, and while it lives it is in the blacklist.
RevokedIsCovered == \A t \in revoked : connected /\ (Lasting(t) => Covered(t))

\* Between Blacklist and GeneratePair the old token is already covered.
IssueCovered ==
  \A c \in Calls : pc[c] = "rIssue" /\ connected /\ Lasting(tok[c]) => Covered(tok[c])

\* The fixed time is for dead tokens and those whose revocation does not last.
FixedOnlyExpired ==
  \A c \in Calls : pc[c] = "lRevokeFixed" /\ Lasting(tok[c]) => exp[tok[c]] <= now

LateRefreshExpires ==
  \A c \in Calls :
    late[c] /\ pc[c] \in RefreshSteps /\ Lasting(tok[c]) => exp[tok[c]] <= now

IInv ==
  /\ TypeOK
  /\ Issued
  /\ LateIsRevoked
  /\ KindsMatch
  /\ RevokedIsCovered
  /\ IssueCovered
  /\ FixedOnlyExpired
  /\ LogoutTakesEffect
  /\ LateRefreshExpires
=============================================================================
