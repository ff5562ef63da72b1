--------------------------------- MODULE Access ---------------------------------
(***************************************************************************)
(* Who a request is: a signed cookie that a login through Keycloak leaves  *)
(* in the browser and that lives Ttl hours, or an API token.  A cookie     *)
(* cannot be taken back, so a session that ends at Keycloak is remembered  *)
(* by its sid, for as long as a cookie could live.  A callback that fails  *)
(* sends the browser round again, a counted number of times.               *)
(***************************************************************************)
EXTENDS Naturals, FiniteSets

CONSTANTS
  Browsers,     \* browsers, all behind one address
  Tokens,       \* API tokens
  Claims,       \* the sets of client roles Keycloak may answer with
  Granted,      \* the roles tokens are made with
  Ttl,          \* SESSION_TTL_HOURS
  MaxRetries,   \* MAX_LOGIN_RETRIES: 2
  PerMinute,    \* callbacks per address and minute: 10
  MaxTime,      \* bound on time
  MaxSids,      \* bound: sessions at Keycloak
  MaxFailures   \* bound: restarts

NoHeader == "no header"  \* a request without a token
AccessAssumption == {Ttl, MaxRetries, MaxTime} \subseteq Nat /\ NoHeader \notin Tokens

VARIABLES
  now,
  flow,         \* per browser: where its login is
  retries,      \* its LOGIN_RETRY_COOKIE
  cookie,       \* its session
  sso,          \* its session at Keycloak
  sids,         \* sessions at Keycloak so far
  told,         \* those whose end this process was told of
  revoked,      \* _revoked_sids: who, and when
  attempts,     \* _auth_attempts of the address: callbacks in this unit of time
  token,        \* rows of api_tokens
  failures      \* restarts so far
accessVars == <<now, flow, retries, cookie, sso, sids, told, revoked, attempts, token, failures>>

Roles == {"viewer", "operator", "admin"}
Rank(role) == CASE role = "viewer" -> 0 [] role = "operator" -> 1 [] role = "admin" -> 2
NoRole == "none"
NoSession == [sid |-> 0, role |-> NoRole, expires |-> 0]
NoToken == [role |-> NoRole, expires |-> 0, live |-> FALSE]

Init ==
  /\ now = 0
  /\ flow = [b \in Browsers |-> "none"] /\ retries = [b \in Browsers |-> 0]
  /\ cookie = [b \in Browsers |-> NoSession] /\ sso = [b \in Browsers |-> 0]
  /\ sids = 0 /\ told = {} /\ revoked = {} /\ attempts = 0
  /\ token = [t \in Tokens |-> NoToken] /\ failures = 0

-----------------------------------------------------------------------------
(* require_auth and what is built on it.                                   *)

\* role_from_claims: the highest of the roles this client knows, or none.
RoleFrom(claims) ==
  IF claims \cap Roles = {} THEN NoRole
  ELSE CHOOSE r \in claims \cap Roles : \A q \in claims \cap Roles : Rank(q) <= Rank(r)
RoleMeets(role, floor) == role # NoRole /\ Rank(role) >= Rank(floor)

SessionExpired(s) == now > s.expires
IsSidRevoked(sid) == \E r \in revoked : r.sid = sid
LoggedIn(b) == cookie[b] # NoSession /\ ~SessionExpired(cookie[b]) /\ ~IsSidRevoked(cookie[b].sid)

\* verify: a token that exists, is not revoked, and has not expired.
Verify(t) == token[t].live /\ now < token[t].expires

\* What a request is answered: it is judged by the token it presents, if any, and
\* the routes that repair the database do not need one.
Presented(b, t) == IF t \in Tokens THEN (IF Verify(t) THEN token[t].role ELSE NoRole)
                   ELSE IF LoggedIn(b) THEN cookie[b].role ELSE NoRole
Status(b, t, floor, needsDb, dbUp) ==
  CASE Presented(b, t) = NoRole -> 401
    [] Presented(b, t) # NoRole /\ needsDb /\ ~dbUp -> 503
    [] Presented(b, t) # NoRole /\ (needsDb => dbUp) /\ ~RoleMeets(Presented(b, t), floor) -> 403
    [] OTHER -> 200

-----------------------------------------------------------------------------
(* The login.                                                              *)

UnchangedByLogin == UNCHANGED <<now, told, revoked, token>>
Goto(b, at) == flow' = [flow EXCEPT ![b] = at]

StartLogin(b) ==
  /\ flow[b] \in {"none", "page"} /\ Goto(b, "keycloak")
  /\ UNCHANGED <<retries, cookie, sso, sids, attempts, failures>> /\ UnchangedByLogin

\* Keycloak knows the browser, or asks for a password, or lets nobody in.
AtKeycloak(b) ==
  /\ flow[b] = "keycloak"
  /\ CASE sso[b] \notin {0} \cup told -> Goto(b, "callback") /\ UNCHANGED <<sids, sso>>
       [] sso[b] \in {0} \cup told /\ sids < MaxSids -> /\ Goto(b, "callback")
                                         /\ sids' = sids + 1 /\ sso' = [sso EXCEPT ![b] = sids']
       [] OTHER -> Goto(b, "page") /\ UNCHANGED <<sids, sso>>
  /\ UNCHANGED <<retries, cookie, attempts, failures>> /\ UnchangedByLogin

\* _check_callback_rate_limit counts the refused ones too; here up to one too many.
CheckRateLimit(b) ==
  /\ attempts' = IF attempts > PerMinute THEN attempts ELSE attempts + 1
Throttled(b) ==
  /\ flow[b] = "callback" /\ CheckRateLimit(b) /\ attempts' > PerMinute /\ Goto(b, "page")
  /\ UNCHANGED <<retries, cookie, sso, sids, failures>> /\ UnchangedByLogin

Retry(b) == retries' = [retries EXCEPT ![b] = @ + 1]
ClearRetries(b) == retries' = [retries EXCEPT ![b] = 0]

\* The exchange raises: once more through Keycloak, or a page that says so.
ExchangeFails(b) ==
  /\ flow[b] = "callback" /\ CheckRateLimit(b) /\ attempts' <= PerMinute
  /\ IF retries[b] < MaxRetries THEN Retry(b) /\ Goto(b, "keycloak")
     ELSE ClearRetries(b) /\ Goto(b, "page")
  /\ UNCHANGED <<cookie, sso, sids, failures>> /\ UnchangedByLogin

LogIn(b) ==
  /\ flow[b] = "callback" /\ CheckRateLimit(b) /\ attempts' <= PerMinute
  /\ ClearRetries(b)
  /\ \E claims \in Claims :
       LET role == RoleFrom(claims)
       IN IF role = NoRole THEN Goto(b, "page") /\ UNCHANGED cookie
          ELSE /\ Goto(b, "none")
               /\ cookie' = [cookie EXCEPT ![b] = [sid |-> sso[b], role |-> role, expires |-> now + Ttl]]
  /\ UNCHANGED <<sso, sids, failures>> /\ UnchangedByLogin

\* Our cookie goes first, then the browser is sent to end the session at Keycloak.
LogOut(b) ==
  /\ cookie' = [cookie EXCEPT ![b] = NoSession]
  /\ sso' \in {sso, [sso EXCEPT ![b] = 0]}
  /\ UNCHANGED <<flow, retries, sids, attempts, failures>> /\ UnchangedByLogin

-----------------------------------------------------------------------------
(* Keycloak ends a session and says so; a session it ended does not come   *)
(* back, and a callback that is under way was for the one that ended.      *)

\* Whoever is older than any cookie can be is dropped when another is added.
PruneEarly(rs) == {r \in rs : r.at + Ttl > now + 1}
Prune(rs) == {r \in rs : r.at + Ttl >= now}

BackchannelLogout(sid) ==
  /\ sid \in 1..sids \ told
  /\ sso' = [b \in Browsers |-> IF sso[b] = sid /\ flow[b] # "callback" THEN 0 ELSE sso[b]]
  /\ told' = told \cup {sid}
  /\ revoked' = Prune({r \in revoked : r.sid # sid} \cup {[sid |-> sid, at |-> now]})
  /\ UNCHANGED <<now, flow, retries, cookie, sids, attempts, token, failures>>

\* An admin makes a token, for a time or for good, and revokes it.
CreateToken(t) ==
  /\ token[t] = NoToken
  /\ \E role \in Granted, life \in {1, MaxTime + 1} :
       token' = [token EXCEPT ![t] = [role |-> role, expires |-> now + life, live |-> TRUE]]
  /\ UNCHANGED <<now, flow, retries, cookie, sso, sids, told, revoked, attempts, failures>>

RevokeToken(t) ==
  /\ token[t].live
  /\ token' = [token EXCEPT ![t].live = FALSE]
  /\ UNCHANGED <<now, flow, retries, cookie, sso, sids, told, revoked, attempts, failures>>

\* On the scale of hours a callback takes no time, and a count of retries does
\* not last: who is still at Keycloak then was asked for a password there.
Tick ==
  /\ now < MaxTime /\ now' = now + 1 /\ attempts' = 0
  /\ \A b \in Browsers : flow[b] # "callback"
  /\ retries' = [b \in Browsers |-> 0]
  /\ UNCHANGED <<flow, cookie, sso, sids, told, revoked, token, failures>>

\* What was revoked is forgotten, the cookies are not, if the key is configured.
Restart ==
  /\ failures < MaxFailures /\ failures' = failures + 1
  /\ told' = {} /\ revoked' = {} /\ attempts' = 0
  /\ sso' = [b \in Browsers |-> IF sso[b] \in told THEN 0 ELSE sso[b]]
  /\ cookie' \in {cookie, [b \in Browsers |-> NoSession]}
  /\ UNCHANGED <<now, flow, retries, sids, token>>

Callback(b) == Throttled(b) \/ ExchangeFails(b) \/ LogIn(b)

Next ==
  \/ \E b \in Browsers : StartLogin(b) \/ AtKeycloak(b) \/ Callback(b) \/ LogOut(b)
  \/ \E sid \in 1..MaxSids : BackchannelLogout(sid)
  \/ \E t \in Tokens : CreateToken(t) \/ RevokeToken(t)
  \/ Tick \/ Restart

Spec == Init /\ [][Next]_accessVars

-----------------------------------------------------------------------------
(* Properties.                                                             *)

TypeOK ==
  /\ now \in 0..MaxTime /\ attempts \in Nat /\ told \subseteq 1..sids
  /\ \A b \in Browsers : retries[b] \in 0..MaxRetries /\ sso[b] \in 0..sids /\ cookie[b].role \in Roles \cup {NoRole}

\* A session Keycloak has told this process the end of stays ended, although the
\* record of it is pruned and a login under way may set its cookie again; and no
\* request gets anywhere with a token that is over, whatever cookie comes along.
EndedStaysOut ==
  \A b \in Browsers, t \in Tokens \cup {NoHeader}, dbUp \in BOOLEAN :
    Status(b, t, "viewer", FALSE, dbUp) = 200 =>
      IF t = NoHeader THEN cookie[b].sid \notin told ELSE token[t].live
=============================================================================
