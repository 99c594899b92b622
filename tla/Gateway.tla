-------------------------------- MODULE Gateway --------------------------------
(***************************************************************************)
(* The routes of gateway/main.py that issue tokens, create and drive       *)
(* sessions and read the audit log: who gets what, and what is on record   *)
(* before.                                                                 *)
(*                                                                         *)
(* A call of a route is a sequence of steps, one per await; the code       *)
(* before the first await runs with the arrival of the request.  Calls     *)
(* interleave at every await.  Meanwhile tokens expire and are revoked,    *)
(* and session keys expire.                                                *)
(*                                                                         *)
(* Abstractions.  A JWT is the set of its claims, its signature is good    *)
(* unless it is Forged; jti and session ids are uuids, named after the     *)
(* call that drew them.  Tokenization is one step here (TokenVault has its *)
(* awaits), and so is log_event (AuditChain).  Passwords are right or      *)
(* wrong.                                                                  *)
(***************************************************************************)
EXTENDS Naturals, FiniteSets

CONSTANTS
    Calls,          \* calls of routes
    Routes,         \* the routes that are called
    Emails,         \* email addresses, the subjects of tokens
    Roles,          \* ROLE_PERMISSIONS
    PRIVILEGED_ROLES,
    ADMIN,          \* the role _require_admin asks for
    DEFAULT,        \* the tenant of tokens issued without one
    Minted,         \* tokens issued elsewhere with issue_token
    Granted,        \* users in the database at the start: email |-> role or NoRole
    TokenEndpoint,  \* settings.allow_insecure_token_endpoint
    NoRole, NoToken, Forged, NoOwner

TokenOf(Id, Tenant) ==
    [jti : Id, sub : Emails, role : Roles, tenant : Tenant]

Tenants == {DEFAULT} \cup {t.tenant : t \in Minted}
Jtis == Calls \cup {t.jti : t \in Minted}
Token == TokenOf(Jtis, Tenants)
Owner == [sub : Emails, tenant : Tenants]

ASSUME GatewayAssumption ==
    /\ PRIVILEGED_ROLES \subseteq Roles
    /\ ADMIN \in PRIVILEGED_ROLES
    /\ NoRole \notin Roles
    /\ Granted \in [Emails -> Roles \cup {NoRole}]
    /\ Minted \subseteq Token
    /\ {t.jti : t \in Minted} \cap Calls = {}
    /\ TokenEndpoint \in BOOLEAN
    /\ {NoToken, Forged} \cap Token = {}
    /\ NoOwner \notin Owner

VARIABLES
    users,     \* the users table
    expired,   \* the jtis whose exp has passed
    revoked,   \* the jtis on the denylist
    provider,  \* the sessions with a provider key
    owner,     \* session:{id}:owner
    audit,     \* the entries of the audit log
    at,        \* where each call is
    call       \* what each call is about

redis == <<revoked, provider, owner, audit>>
vars == <<users, expired, redis, at, call>>

-------------------------------------------------------------------------------
(* Calls. *)

RouteNames == {"token", "register", "login", "configure", "audit", "chat"}

Events == {"auth_failure", "auth_token_issued", "session_create", "admin_access",
           "pii_detected", "chat_request"}
Entry == [event : Events, call : Calls, tenant : Tenants]
NoEntry == [event |-> "none"]

\* Where a call goes on: at an await; over, with a status; or at log_event, and after
\* it there.
At(label) == [pc |-> label, status |-> 0, entry |-> NoEntry, next |-> "none"]
Done(status) == [pc |-> "done", status |-> status, entry |-> NoEntry, next |-> "none"]
Log(c, event, tenant, where) ==
    [pc |-> "log", status |-> where.status, next |-> where.pc,
     entry |-> [event |-> event, call |-> c, tenant |-> tenant]]

Idle == At("idle")
Blank == [route |-> "none", tok |-> NoToken, sess |-> "none", barred |-> FALSE,
          made |-> {}, pii |-> FALSE, sent |-> FALSE, page |-> {}]

Moves(c, where) == at' = [at EXCEPT ![c] = where]
Goes(c, where) == Moves(c, where) /\ UNCHANGED call

Init ==
    /\ users = Granted
    /\ expired = {}
    /\ revoked = {}
    /\ provider = {}
    /\ owner = [s \in Calls |-> NoOwner]
    /\ audit = {}
    /\ at = [c \in Calls |-> Idle]
    /\ call = [c \in Calls |-> Blank]

Active(c) == at[c].pc \notin {"idle", "done"}
Ended(c) == at[c].pc = "done"

\* What clients hold: the tokens and session ids of calls that returned.
Succeeded(c) == Ended(c) /\ at[c].status \in {200, 201}
Held == Minted \cup UNION {call[c].made : c \in {d \in Calls : Succeeded(d)}}
Known == {c \in Calls : call[c].route = "configure" /\ Succeeded(c)}

Presented(t) == t \notin {NoToken, Forged}
Valid(t) == Presented(t) /\ t.jti \notin expired
Identity(t) == [sub |-> t.sub, tenant |-> t.tenant]

\* The first step: c arrives at a route with t as its bearer, names session s and
\* goes where the code before the first await leads.
Arrives(c, route, t, s, where, made) ==
    /\ call' = [call EXCEPT ![c] =
          [Blank EXCEPT !.route = route, !.tok = t, !.sess = s, !.made = made,
                        !.barred = Presented(t) /\ t.jti \in revoked]]
    /\ Moves(c, where)

Bearer == Held \cup {NoToken, Forged}

-------------------------------------------------------------------------------
(* Tokens: /api/auth/token, /api/users/register, /api/users/login. *)

issue_token(c, role, sub) ==
    {[jti |-> c, sub |-> sub, role |-> role, tenant |-> DEFAULT]}

Refuses(c, route, status) ==
    Arrives(c, route, NoToken, "none",
            Log(c, "auth_failure", DEFAULT, Done(status)), {})
Issues(c, route, role, sub, status) ==
    Arrives(c, route, NoToken, "none",
            Log(c, "auth_token_issued", DEFAULT, Done(status)), issue_token(c, role, sub))
Fails(c, route, status) == Arrives(c, route, NoToken, "none", Done(status), {})

get_auth_token(c) ==
    /\ \E role \in Roles \cup {NoRole}, sub \in Emails :
          IF ~TokenEndpoint \/ role \in PRIVILEGED_ROLES
            THEN Refuses(c, "token", 403)
          ELSE IF role \notin Roles
            THEN Fails(c, "token", 400)
            ELSE Issues(c, "token", role, sub, 200)
    /\ UNCHANGED <<users, expired, redis>>

\* create_user with an email and a username that nobody has, which commits before the
\* event is logged.
Creates(c, email, role) ==
    /\ role \in Roles
    /\ users[email] = NoRole
    /\ users' = [users EXCEPT ![email] = role]
    /\ Issues(c, "register", role, email, 201)

\* A user has the email asked for, or the username, which is not in users.
Taken == \E e \in Emails : users[e] # NoRole

\* Neither is taken, and create_user does not know the role.
Unknown(email, role) == users[email] = NoRole /\ role \notin Roles

\* Mutant: any known role can be registered.
register_any(c) ==
    /\ \E role \in Roles \cup {NoRole}, email \in Emails :
          \/ Creates(c, email, role)
          \/ Taken /\ Fails(c, "register", 409) /\ UNCHANGED users
          \/ Unknown(email, role) /\ Fails(c, "register", 400) /\ UNCHANGED users
    /\ UNCHANGED <<expired, redis>>

register(c) ==
    /\ \E role \in Roles \cup {NoRole}, email \in Emails :
          \/ role \in PRIVILEGED_ROLES /\ Refuses(c, "register", 403) /\ UNCHANGED users
          \/ role \notin PRIVILEGED_ROLES /\ Creates(c, email, role)
          \/ /\ role \notin PRIVILEGED_ROLES
             /\ \/ Taken /\ Fails(c, "register", 409)
                \/ Unknown(email, role) /\ Fails(c, "register", 400)
             /\ UNCHANGED users
    /\ UNCHANGED <<expired, redis>>

login(c) ==
    /\ \E email \in Emails, password \in {"right", "wrong"} :
          IF users[email] # NoRole /\ password = "right"
            THEN Issues(c, "login", users[email], email, 200)
            ELSE Refuses(c, "login", 401)
    /\ UNCHANGED <<users, expired, redis>>

-------------------------------------------------------------------------------
(* /api/session/configure and /api/audit/logs, behind _require_auth. *)

Protected(c, route) ==
    /\ \E t \in Bearer :
          Arrives(c, route, t, "none",
                  IF Valid(t) THEN At("require_auth") ELSE Done(401), {})
    /\ UNCHANGED <<users, expired, redis>>

configure_session(c) == Protected(c, "configure")
get_audit_logs(c) == Protected(c, "audit")

\* The synchronous start of a protected route.
Enters(c, t) ==
    CASE call[c].route = "configure" -> At("set_provider")
      [] call[c].route = "audit" /\ t.role # ADMIN -> Done(403)
      [] OTHER -> Log(c, "admin_access", t.tenant, At("get_logs"))

\* Mutant: the denylist is not consulted.
RequireAuthUnlisted(c) ==
    /\ at[c].pc = "require_auth"
    /\ Goes(c, Enters(c, call[c].tok))
    /\ UNCHANGED <<users, expired, redis>>

\* is_revoked in the dependency.
RequireAuth(c) ==
    LET t == call[c].tok
    IN /\ at[c].pc = "require_auth"
       /\ Goes(c, IF t.jti \in revoked THEN Done(401) ELSE Enters(c, t))
       /\ UNCHANGED <<users, expired, redis>>

SetProviderConfig(c) ==
    /\ at[c].pc = "set_provider"
    /\ provider' = provider \cup {c}
    /\ Goes(c, At("set_owner"))
    /\ UNCHANGED <<users, expired, revoked, owner, audit>>

SetSessionOwner(c) ==
    /\ at[c].pc = "set_owner"
    /\ owner' = [owner EXCEPT ![c] = Identity(call[c].tok)]
    /\ Goes(c, Log(c, "session_create", call[c].tok.tenant, Done(200)))
    /\ UNCHANGED <<users, expired, revoked, provider, audit>>

get_logs(tenant) == {e \in audit : e.tenant = tenant}

GetLogs(c) ==
    /\ at[c].pc = "get_logs"
    /\ call' = [call EXCEPT ![c].page = get_logs(call[c].tok.tenant)]
    /\ Moves(c, Done(200))
    /\ UNCHANGED <<users, expired, redis>>

-------------------------------------------------------------------------------
(* /v1/chat/completions *)

\* A request names a session of some client, or one that does not exist.
chat_completions(c) ==
    /\ \E t \in Bearer, s \in Known \cup {c} :
          Arrives(c, "chat", t, s,
                  IF t = NoToken THEN Done(401)
                  ELSE IF Valid(t) THEN At("is_revoked")
                  ELSE Log(c, "auth_failure", DEFAULT, Done(401)), {})
    /\ UNCHANGED <<users, expired, redis>>

\* Mutant: the refusal is logged before the tenant is looked up.
IsRevokedUntenanted(c) ==
    LET t == call[c].tok
    IN /\ at[c].pc = "is_revoked"
       /\ Goes(c, IF t.jti \in revoked
                    THEN Log(c, "auth_failure", DEFAULT, Done(401))
                    ELSE At("get_config"))
       /\ UNCHANGED <<users, expired, redis>>

IsRevoked(c) ==
    LET t == call[c].tok
    IN /\ at[c].pc = "is_revoked"
       /\ Goes(c, IF t.jti \in revoked
                    THEN Log(c, "auth_failure", t.tenant, Done(401))
                    ELSE At("get_config"))
       /\ UNCHANGED <<users, expired, redis>>

GetProviderConfig(c) ==
    /\ at[c].pc = "get_config"
    /\ Goes(c, IF call[c].sess \in provider THEN At("get_owner") ELSE Done(404))
    /\ UNCHANGED <<users, expired, redis>>

\* Mutant: the tenant is not compared.
MatchesSub(o, t) == o # NoOwner /\ o.sub = t.sub
Matches(o, t) == o # NoOwner /\ o.sub = t.sub /\ o.tenant = t.tenant

GetSessionOwner(c) ==
    LET t == call[c].tok
    IN /\ at[c].pc = "get_owner"
       /\ Goes(c, IF Matches(owner[call[c].sess], t)
                    THEN At("tokenize")
                    ELSE Log(c, "auth_failure", t.tenant, Done(403)))
       /\ UNCHANGED <<users, expired, redis>>

\* Mutant: what was found is not logged.
TokenizeUnlogged(c) ==
    /\ at[c].pc = "tokenize"
    /\ \E found \in BOOLEAN :
          call' = [call EXCEPT ![c].pii = found]
    /\ Moves(c, At("llm"))
    /\ UNCHANGED <<users, expired, redis>>

\* The loop over the messages; what was found is logged before the prompt is sent.
Tokenize(c) ==
    /\ at[c].pc = "tokenize"
    /\ \/ Goes(c, At("llm"))
       \/ /\ call' = [call EXCEPT ![c].pii = TRUE]
          /\ Moves(c, Log(c, "pii_detected", call[c].tok.tenant, At("llm")))
    /\ UNCHANGED <<users, expired, redis>>

\* route_to_llm sends the prompt; the answer comes with the next step.
RouteToLlm(c) ==
    /\ at[c].pc = "llm"
    /\ call' = [call EXCEPT ![c].sent = TRUE]
    /\ Moves(c, At("get_token_map"))
    /\ UNCHANGED <<users, expired, redis>>

GetTokenMap(c) ==
    /\ at[c].pc = "get_token_map"
    /\ Goes(c, Log(c, "chat_request", call[c].tok.tenant, Done(200)))
    /\ UNCHANGED <<users, expired, redis>>

-------------------------------------------------------------------------------
(* All routes. *)

After(c) ==
    [pc |-> at[c].next, status |-> at[c].status, entry |-> NoEntry, next |-> "none"]

\* log_event returns.
LogEvent(c) ==
    /\ at[c].pc = "log"
    /\ audit' = audit \cup {at[c].entry}
    /\ Goes(c, After(c))
    /\ UNCHANGED <<users, expired, revoked, provider, owner>>

\* Mutant: an audit log that fails does not fail the request.
RaiseExceptLog(c) ==
    /\ Active(c)
    /\ IF at[c].pc = "log" THEN Goes(c, After(c))
                             ELSE Goes(c, Done(500))
    /\ UNCHANGED <<users, expired, redis>>

\* What the client is told: the answer of the LLM may fail to come where the token
\* map is read next.
Failures(label) ==
    CASE label = "tokenize" -> {422}
      [] label = "llm" -> {502}
      [] label = "get_token_map" -> {500, 502}
      [] OTHER -> {500}

\* The await of the call raises, or its process dies.  An event that was being
\* logged may be on record or not.
Raise(c) ==
    /\ Active(c)
    /\ \E status \in Failures(at[c].pc) : Goes(c, Done(status))
    /\ \/ UNCHANGED audit
       \/ at[c].pc = "log" /\ audit' = audit \cup {at[c].entry}
    /\ UNCHANGED <<users, expired, revoked, provider, owner>>

Arrive(c) ==
    /\ at[c].pc = "idle"
    /\ \/ "token" \in Routes /\ get_auth_token(c)
       \/ "register" \in Routes /\ register(c)
       \/ "login" \in Routes /\ login(c)
       \/ "configure" \in Routes /\ configure_session(c)
       \/ "audit" \in Routes /\ get_audit_logs(c)
       \/ "chat" \in Routes /\ chat_completions(c)

Step(c) ==
    \/ RequireAuth(c) \/ SetProviderConfig(c) \/ SetSessionOwner(c) \/ GetLogs(c)
    \/ IsRevoked(c) \/ GetProviderConfig(c) \/ GetSessionOwner(c) \/ Tokenize(c)
    \/ RouteToLlm(c) \/ GetTokenMap(c) \/ LogEvent(c)

-------------------------------------------------------------------------------
(* The environment. *)

Expires(t) ==
    /\ expired' = expired \cup {t.jti}
    /\ UNCHANGED <<users, redis, at, call>>

\* revocation.revoke, called by an operator.
Revoke(t) ==
    /\ revoked' = revoked \cup {t.jti}
    /\ UNCHANGED <<users, expired, provider, owner, audit, at, call>>

\* The denylist entry ends with the TTL the operator gave it, which need not reach to
\* the token's exp.  Calls under way are no longer barred.
Lapse(t) ==
    /\ t.jti \in revoked
    /\ revoked' = revoked \ {t.jti}
    /\ call' = [c \in Calls |->
          [call[c] EXCEPT !.barred = @ /\ (Active(c) => call[c].tok.jti # t.jti)]]
    /\ UNCHANGED <<users, expired, provider, owner, audit, at>>

\* The owner key can be gone while the provider key is still there (SessionTtl).
KeyExpires(s) ==
    /\ \/ provider' = provider \ {s} /\ UNCHANGED owner
       \/ owner' = [owner EXCEPT ![s] = NoOwner] /\ UNCHANGED provider
    /\ UNCHANGED <<users, expired, revoked, audit, at, call>>

Next ==
    \/ \E c \in Calls : Arrive(c) \/ Step(c) \/ Raise(c)
    \/ \E t \in Held : Expires(t) \/ Revoke(t) \/ Lapse(t)
    \/ \E s \in Calls : KeyExpires(s)

Spec == Init /\ [][Next]_vars

-------------------------------------------------------------------------------
Labels == {"none", "idle", "done", "log", "require_auth", "set_provider", "set_owner",
           "get_logs", "is_revoked", "get_config", "get_owner", "tokenize", "llm",
           "get_token_map"}
Statuses == {0, 200, 201, 400, 401, 403, 404, 409, 422, 500, 502}

Place == [pc : Labels, status : Statuses, entry : Entry \cup {NoEntry}, next : Labels]
CallState ==
    [route : {"none"} \cup RouteNames, tok : Token \cup {NoToken, Forged},
     sess : Calls \cup {"none"}, barred : BOOLEAN, made : SUBSET Token,
     pii : BOOLEAN, sent : BOOLEAN, page : SUBSET Entry]

\* Type correctness of the stores and of every call.
TypeOK ==
    /\ users \in [Emails -> Roles \cup {NoRole}]
    /\ expired \subseteq Jtis /\ revoked \subseteq Jtis
    /\ provider \subseteq Calls
    /\ owner \in [Calls -> Owner \cup {NoOwner}]
    /\ audit \subseteq Entry
    /\ at \in [Calls -> Place]
    /\ call \in [Calls -> CallState]

-------------------------------------------------------------------------------
(* Properties. *)

\* chat_completions, DB3: the session's creator is the only identity whose messages
\* meet its vault and its API key, whatever became of the session's keys meanwhile.
OnlyOwners ==
    \A c \in Calls : call[c].sent =>
        LET creator == call[call[c].sess]
        IN creator.route = "configure" /\ Identity(creator.tok) = Identity(call[c].tok)

\* The tenant an entry is filed under: that of the token, and the default one for who
\* has none, or only a forged one.  main.py also files the refusal of an expired token
\* under the default tenant, whatever tenant the token names.
Belongs(e) ==
    LET t == call[e.call].tok
    IN \/ e.tenant = IF Presented(t) THEN t.tenant ELSE DEFAULT
       \/ /\ e.event = "auth_failure" /\ e.tenant = DEFAULT
          /\ Presented(t) /\ t.jti \in expired

OnRecord(c, event) ==
    \E e \in audit : e.event = event /\ e.call = c /\ Belongs(e)

SuccessEvent == [route \in RouteNames |->
    CASE route \in {"token", "register", "login"} -> "auth_token_issued"
      [] route = "configure" -> "session_create"
      [] route = "audit" -> "admin_access"
      [] route = "chat" -> "chat_request"]

\* No token, session id, page or answer leaves the gateway before it is on record
\* where it belongs, and no refusal of a login, a grant or a bearer of chat.  The
\* refusals of _require_auth and _require_admin, that of a chat without a bearer, and
\* failures (4xx and 5xx other than 401 and 403) are not recorded by the code.
LoggedFirst ==
    \A c \in Calls : Ended(c) =>
        /\ at[c].status \in {200, 201} => OnRecord(c, SuccessEvent[call[c].route])
        /\ at[c].status \in {401, 403} /\ call[c].route \notin {"configure", "audit"}
              => OnRecord(c, "auth_failure") \/ (call[c].route = "chat" /\ call[c].tok = NoToken)

\* A prompt with PII in it is sent only after the finding is on record.
PiiLogged ==
    \A c \in Calls : call[c].sent /\ call[c].pii => OnRecord(c, "pii_detected")

\* rbac.PRIVILEGED_ROLES: a token with a privileged role was minted by an operator or
\* belongs to a user who was granted that role, whatever was registered and requested.
PrivilegeGranted ==
    \A c \in Calls : \A t \in call[c].made :
        t.role \in PRIVILEGED_ROLES => Granted[t.sub] = t.role

\* A token on the denylist when its request arrives, and as long as it is looked at,
\* gets nothing and leaves nothing.
RevokedShutOut ==
    \A c \in Calls : call[c].barred =>
        ~Succeeded(c) /\ ~call[c].sent /\ c \notin provider /\ owner[c] = NoOwner

\* An admin reads the entries filed under the tenant of the token, and those are of
\* the users of that tenant: what the default tenant's admin also reads is of callers
\* without a valid token, refusals of other tenants' expired tokens among them.
TenantScoped ==
    \A c \in Calls : \A e \in call[c].page :
        call[c].tok.role = ADMIN /\ e.tenant = call[c].tok.tenant /\ Belongs(e)
===============================================================================
