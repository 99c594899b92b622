----------------------------- MODULE GatewayProofs -----------------------------
(***************************************************************************)
(* Theorems about Gateway, for any calls, users, roles, tenants and tokens *)
(* in circulation.                                                         *)
(***************************************************************************)
EXTENDS Gateway, TLAPS

USE GatewayAssumption

-------------------------------------------------------------------------------
(* Types, and where a call can be. *)

\* The label a call is at, or goes to when its event is logged.
Heading(c) == IF at[c].pc = "log" THEN at[c].next ELSE at[c].pc

ChatLabels == {"is_revoked", "get_config", "get_owner", "tokenize", "llm",
               "get_token_map"}
ConfigureLabels == {"set_provider", "set_owner"}
AuthLabels == {"require_auth", "get_logs"} \cup ChatLabels \cup ConfigureLabels

\* A call between two awaits has a route, a token that was valid and, in a chat, a
\* session.
Located(c) ==
    /\ at[c].pc = "idle" => call[c] = Blank
    /\ at[c].pc # "idle" => call[c].route # "none" /\ Heading(c) # "idle"
    /\ at[c].pc = "log" => at[c].entry \in Entry /\ at[c].entry.call = c
    /\ Heading(c) \in {"idle", "done"} \cup AuthLabels
    /\ Heading(c) \in ChatLabels => call[c].route = "chat"
    /\ call[c].route = "chat" => call[c].sess \in Calls
    /\ Heading(c) \in ConfigureLabels => call[c].route = "configure"
    /\ Heading(c) = "require_auth" => call[c].route \in {"configure", "audit"}
    /\ Heading(c) = "get_logs" => call[c].route = "audit" /\ call[c].tok.role = ADMIN
    /\ Heading(c) \in AuthLabels => call[c].tok \in Token

Types == TypeOK /\ \A c \in Calls : Located(c)

LEMMA TypesInit == Init => Types
<1> SUFFICES ASSUME Init PROVE Types
  OBVIOUS
<1>1. Idle \in Place /\ Blank \in CallState
  BY DEF Idle, At, Blank, Place, CallState, Labels, Statuses
<1>2. /\ at \in [Calls -> Place] /\ \A c \in Calls : at[c] = Idle
      /\ call \in [Calls -> CallState] /\ \A c \in Calls : call[c] = Blank
  BY <1>1 DEF Init
<1>3. TypeOK
  BY <1>2 DEF Init, TypeOK
<1>4. ASSUME NEW c \in Calls PROVE Located(c)
  <2>1. at[c].pc = "idle" /\ call[c].route = "none"
    BY <1>2 DEF Idle, At, Blank
  <2> QED
    BY <1>2, <2>1 DEF Located, Heading, ChatLabels, ConfigureLabels, AuthLabels
<1> QED
  BY <1>3, <1>4 DEF Types

-------------------------------------------------------------------------------
(* What a step changes in a call. *)

\* The places a call goes to.
LEMMA Places ==
    ASSUME NEW c \in Calls
    PROVE  /\ \A label \in Labels : At(label) \in Place
           /\ \A status \in Statuses : Done(status) \in Place
           /\ \A event \in Events, tenant \in Tenants, where \in Place :
                 Log(c, event, tenant, where) \in Place
<1>1. 0 \in Statuses /\ {"none", "done", "log"} \subseteq Labels
  BY DEF Statuses, Labels
<1> QED
  BY <1>1 DEF At, Done, Log, Place, Entry

\* Moves: the call is elsewhere.
LEMMA MovesShape ==
    ASSUME TypeOK, NEW c \in Calls, NEW where \in Place, Moves(c, where)
    PROVE  /\ at' \in [Calls -> Place]
           /\ at'[c] = where
           /\ \A d \in Calls : d # c => at'[d] = at[d]
BY DEF TypeOK, Moves

\* Arrives: a fresh call.
LEMMA ArrivesShape ==
    ASSUME TypeOK, NEW c \in Calls, NEW route, NEW t, NEW s, NEW where, NEW made,
           Arrives(c, route, t, s, where, made)
    PROVE  /\ at'[c] = where
           /\ call'[c].route = route /\ call'[c].tok = t /\ call'[c].sess = s
           /\ call'[c].made = made
           /\ call'[c].barred => Presented(t) /\ t.jti \in revoked
           /\ call'[c].pii = FALSE /\ call'[c].sent = FALSE /\ call'[c].page = {}
           /\ \A d \in Calls : d # c => at'[d] = at[d] /\ call'[d] = call[d]
<1> DEFINE b == Presented(t) /\ t.jti \in revoked
           k == [Blank EXCEPT !.route = route, !.tok = t, !.sess = s,
                              !.made = made, !.barred = b]
<1>1. call' = [call EXCEPT ![c] = k] /\ at' = [at EXCEPT ![c] = where]
  BY DEF Arrives, Moves
<1>2. /\ k.route = route /\ k.tok = t /\ k.sess = s /\ k.made = made /\ k.barred = b
      /\ k.pii = FALSE /\ k.sent = FALSE /\ k.page = {}
  <2> HIDE DEF b
  <2> QED
    BY DEF Blank
<1> HIDE DEF k
<1>3. /\ call'[c] = k /\ at'[c] = where
      /\ \A d \in Calls : d # c => at'[d] = at[d] /\ call'[d] = call[d]
  BY <1>1 DEF TypeOK
<1> HIDE DEF b
<1>4. call'[c].barred => b
  BY <1>2, <1>3
<1> QED
  BY <1>2, <1>3, <1>4 DEF b

LEMMA ArrivesTypes ==
    ASSUME TypeOK, NEW c \in Calls, NEW route \in RouteNames,
           NEW t \in Token \cup {NoToken, Forged}, NEW s \in Calls \cup {"none"},
           NEW where \in Place, NEW made \in SUBSET Token,
           Arrives(c, route, t, s, where, made)
    PROVE  at' \in [Calls -> Place] /\ call' \in [Calls -> CallState]
<1> DEFINE b == Presented(t) /\ t.jti \in revoked
           k == [Blank EXCEPT !.route = route, !.tok = t, !.sess = s,
                              !.made = made, !.barred = b]
<1>1. call' = [call EXCEPT ![c] = k] /\ at' = [at EXCEPT ![c] = where]
  BY DEF Arrives, Moves
<1>2. k \in CallState
  <2>1. b \in BOOLEAN
    OBVIOUS
  <2> HIDE DEF b
  <2> QED
    BY <2>1 DEF Blank, CallState
<1> HIDE DEF k
<1> QED
  BY <1>1, <1>2 DEF TypeOK

\* The tokens clients hold are tokens.
LEMMA HeldTokens == TypeOK => Held \subseteq Token
BY DEF TypeOK, Held, CallState

-------------------------------------------------------------------------------
(* How a call begins. *)

AccountRoutes == {"token", "register", "login"}

\* It fails; it refuses, which is logged; it issues a token, which is logged; or it
\* has a valid token and awaits the denylist.
Fails401(route, t, where) ==
    /\ where = Done(401)
    /\ route \in {"configure", "audit"} \/ (route = "chat" /\ t = NoToken)
FailsEarly(route, where) == where \in {Done(400), Done(409)} /\ route \in AccountRoutes
RefusesFirst(c, route, t, where) ==
    /\ ~Valid(t)
    /\ \E status \in {401, 403} :
          where = Log(c, "auth_failure", DEFAULT, Done(status))
    /\ route \notin {"configure", "audit"}
IssuesFirst(c, route, t, where) ==
    /\ route \in AccountRoutes /\ t = NoToken
    /\ \E status \in {200, 201} :
          where = Log(c, "auth_token_issued", DEFAULT, Done(status))
Enrols(route, t, where) ==
    /\ Valid(t)
    /\ \/ route \in {"configure", "audit"} /\ where = At("require_auth")
       \/ route = "chat" /\ where = At("is_revoked")

Begins(c, route, t, s, where, made) ==
    /\ Arrives(c, route, t, s, where, made)
    /\ route = "chat" => s \in Calls
    /\ \/ Fails401(route, t, where) /\ made = {}
       \/ FailsEarly(route, where) /\ made = {}
       \/ RefusesFirst(c, route, t, where) /\ made = {}
       \/ IssuesFirst(c, route, t, where)
       \/ Enrols(route, t, where) /\ made = {}

\* The routes that answer with a token.
LEMMA AccountArrivals ==
    ASSUME TypeOK, NEW c \in Calls, get_auth_token(c) \/ register(c) \/ login(c)
    PROVE  /\ \E route \in AccountRoutes, where \in Place, made \in SUBSET Token :
                 Begins(c, route, NoToken, "none", where, made)
           /\ users' \in [Emails -> Roles \cup {NoRole}]
<1> USE DEF AccountRoutes
<1> DEFINE Goal == \E route \in AccountRoutes, where \in Place, made \in SUBSET Token :
                      Begins(c, route, NoToken, "none", where, made)
<1>1. ASSUME NEW route \in AccountRoutes, NEW status \in {401, 403},
             Refuses(c, route, status)
      PROVE  Goal
  <2> DEFINE where == Log(c, "auth_failure", DEFAULT, Done(status))
  <2>1. where \in Place
    BY Places DEF Statuses, Events, Tenants
  <2>2. Begins(c, route, NoToken, "none", where, {})
    BY <1>1 DEF Begins, Refuses, RefusesFirst, Valid, Presented
  <2> QED
    BY <2>1, <2>2
<1>2. ASSUME NEW route \in AccountRoutes, NEW role \in Roles, NEW sub \in Emails,
             NEW status \in {200, 201}, Issues(c, route, role, sub, status)
      PROVE  Goal
  <2> DEFINE where == Log(c, "auth_token_issued", DEFAULT, Done(status))
  <2>1. where \in Place
    BY Places DEF Statuses, Events, Tenants
  <2>2. issue_token(c, role, sub) \in SUBSET Token
    BY DEF issue_token, Token, TokenOf, Jtis, Tenants
  <2>3. Begins(c, route, NoToken, "none", where, issue_token(c, role, sub))
    BY <1>2 DEF Begins, Issues, IssuesFirst
  <2> QED
    BY <2>1, <2>2, <2>3
<1>3. ASSUME NEW route \in AccountRoutes, NEW status \in {400, 409},
             Fails(c, route, status)
      PROVE  Goal
  <2>1. Done(status) \in Place
    BY Places DEF Statuses
  <2>2. Begins(c, route, NoToken, "none", Done(status), {})
    BY <1>3 DEF Begins, Fails, FailsEarly
  <2> QED
    BY <2>1, <2>2
<1> DEFINE Typed == users' \in [Emails -> Roles \cup {NoRole}]
<1> HIDE DEF Goal
<1>4. ASSUME get_auth_token(c) PROVE Goal /\ Typed
  <2>1. PICK role \in Roles \cup {NoRole}, sub \in Emails :
          \/ Refuses(c, "token", 403)
          \/ role \in Roles /\ Issues(c, "token", role, sub, 200)
          \/ Fails(c, "token", 400)
    BY <1>4, SMTT(20) DEF get_auth_token
  <2> QED
    BY <1>1, <1>2, <1>3, <1>4, <2>1 DEF get_auth_token, TypeOK
<1>5. ASSUME register(c) PROVE Goal /\ Typed
  <2>1. PICK role \in Roles \cup {NoRole}, email \in Emails :
          \/ Refuses(c, "register", 403) /\ UNCHANGED users
          \/ Creates(c, email, role)
          \/ Fails(c, "register", 409) /\ UNCHANGED users
          \/ Fails(c, "register", 400) /\ UNCHANGED users
    BY <1>5 DEF register
  <2>2. CASE Creates(c, email, role)
    <3>1. role \in Roles /\ Issues(c, "register", role, email, 201)
          /\ users' = [users EXCEPT ![email] = role]
      BY <2>2 DEF Creates
    <3> QED
      BY <1>2, <3>1 DEF TypeOK
  <2> QED
    BY <1>1, <1>3, <2>1, <2>2 DEF TypeOK
<1>6. ASSUME login(c) PROVE Goal /\ Typed
  <2>1. PICK email \in Emails :
          \/ Refuses(c, "login", 401)
          \/ users[email] # NoRole /\ Issues(c, "login", users[email], email, 200)
    BY <1>6 DEF login
  <2>2. users[email] # NoRole => users[email] \in Roles
    BY DEF TypeOK
  <2> QED
    BY <1>1, <1>2, <1>6, <2>1, <2>2 DEF login, TypeOK
<1> QED
  BY <1>4, <1>5, <1>6 DEF Goal

\* Any route.
LEMMA Arrivals ==
    ASSUME TypeOK, NEW c \in Calls, Arrive(c)
    PROVE  /\ at[c].pc = "idle"
           /\ \E route \in RouteNames, t \in Token \cup {NoToken, Forged},
                 s \in Calls \cup {"none"}, where \in Place, made \in SUBSET Token :
                 Begins(c, route, t, s, where, made)
           /\ users' \in [Emails -> Roles \cup {NoRole}]
           /\ UNCHANGED <<expired, redis>>
<1> DEFINE Goal == \E route \in RouteNames, t \in Token \cup {NoToken, Forged},
                      s \in Calls \cup {"none"}, where \in Place, made \in SUBSET Token :
                      Begins(c, route, t, s, where, made)
<1>1. Bearer \subseteq Token \cup {NoToken, Forged}
  BY HeldTokens DEF Bearer
<1>2. ASSUME get_auth_token(c) \/ register(c) \/ login(c)
      PROVE  /\ Goal /\ UNCHANGED <<expired, redis>>
             /\ users' \in [Emails -> Roles \cup {NoRole}]
  <2>1. PICK route \in AccountRoutes, where \in Place, made \in SUBSET Token :
           Begins(c, route, NoToken, "none", where, made)
    BY <1>2, AccountArrivals
  <2>2. route \in RouteNames
    BY DEF AccountRoutes, RouteNames
  <2>3. Goal
    BY <2>1, <2>2
  <2>4. UNCHANGED <<expired, redis>>
    BY <1>2 DEF get_auth_token, register, login
  <2> QED
    BY <1>2, <2>3, <2>4, AccountArrivals
<1>3. ASSUME NEW route \in {"configure", "audit"}, Protected(c, route) PROVE Goal
  <2>1. PICK t \in Bearer, where \in {At("require_auth"), Done(401)} :
          /\ Arrives(c, route, t, "none", where, {})
          /\ Valid(t) \/ where = Done(401)
          /\ Valid(t) => where = At("require_auth")
    BY <1>3 DEF Protected
  <2>2. where \in Place
    BY Places DEF Statuses, Labels
  <2>3. Begins(c, route, t, "none", where, {})
    BY <2>1 DEF Begins, Enrols, Fails401
  <2> QED
    BY <1>1, <2>2, <2>3 DEF RouteNames
<1>4. ASSUME chat_completions(c) PROVE Goal
  <2> DEFINE refusal == Log(c, "auth_failure", DEFAULT, Done(401))
  <2>0. PICK t \in Bearer, s \in Known \cup {c} :
          Arrives(c, "chat", t, s,
                  IF t = NoToken THEN Done(401)
                  ELSE IF Valid(t) THEN At("is_revoked") ELSE refusal, {})
    BY <1>4 DEF chat_completions
  <2>1. PICK where \in {Done(401), At("is_revoked"), refusal} :
          /\ Arrives(c, "chat", t, s, where, {})
          /\ \/ t = NoToken /\ where = Done(401)
             \/ Valid(t) /\ where = At("is_revoked")
             \/ ~Valid(t) /\ where = refusal
    <3>1. CASE t = NoToken
      BY <2>0, <3>1
    <3>2. CASE t # NoToken /\ Valid(t)
      BY <2>0, <3>2
    <3>3. CASE t # NoToken /\ ~Valid(t)
      BY <2>0, <3>3
    <3> QED
      BY <3>1, <3>2, <3>3
  <2>2. where \in Place
    BY Places DEF Statuses, Labels, Events, Tenants
  <2>3. s \in Calls
    BY DEF Known
  <2>4. Begins(c, "chat", t, s, where, {})
    BY <2>1, <2>3 DEF Begins, Enrols, Fails401, RefusesFirst
  <2> QED
    BY <1>1, <2>2, <2>3, <2>4 DEF RouteNames
<1>5. ASSUME NEW route \in {"configure", "audit"}, Protected(c, route)
      PROVE  users' \in [Emails -> Roles \cup {NoRole}] /\ UNCHANGED <<expired, redis>>
  BY <1>5 DEF Protected, TypeOK
<1>6. chat_completions(c)
        => users' \in [Emails -> Roles \cup {NoRole}] /\ UNCHANGED <<expired, redis>>
  BY DEF chat_completions, TypeOK
<1> HIDE DEF Goal
<1>7. Goal /\ UNCHANGED <<expired, redis>>
      /\ users' \in [Emails -> Roles \cup {NoRole}]
  BY <1>2, <1>3, <1>4, <1>5, <1>6 DEF configure_session, get_audit_logs, Arrive
<1> QED
  BY <1>7 DEF Arrive, Goal

-------------------------------------------------------------------------------
(* How a call goes on. *)

\* Goes: only the place changes.
LEMMA GoesShape ==
    ASSUME TypeOK, NEW c \in Calls, NEW where \in Place, Goes(c, where)
    PROVE  /\ at' \in [Calls -> Place] /\ at'[c] = where
           /\ \A d \in Calls : d # c => at'[d] = at[d]
           /\ call' = call
BY MovesShape DEF Goes

\* The places of the steps of a call.
LEMMA StepPlaces ==
    ASSUME Types, NEW c \in Calls, Heading(c) \in AuthLabels, NEW event \in Events
    PROVE  /\ call[c].tok.tenant \in Tenants
           /\ \A status \in Statuses :
                 Log(c, event, call[c].tok.tenant, Done(status)) \in Place
           /\ \A label \in Labels :
                 Log(c, event, call[c].tok.tenant, At(label)) \in Place
<1>1. call[c].tok.tenant \in Tenants
  BY DEF Types, Located, Token, TokenOf
<1> QED
  BY <1>1, Places

\* Where a call at an await goes, and what it notes.
Notes(c, k) ==
    /\ call' \in [Calls -> CallState]
    /\ \A d \in Calls : d # c => call'[d] = call[d]
    /\ call'[c].route = call[c].route /\ call'[c].tok = call[c].tok
    /\ call'[c].sess = call[c].sess /\ call'[c].barred = call[c].barred
    /\ call'[c].made = call[c].made
    /\ call'[c].pii = k.pii /\ call'[c].sent = k.sent /\ call'[c].page = k.page
Now(c) == [pii |-> call[c].pii, sent |-> call[c].sent, page |-> call[c].page]
Finds(c) == [Now(c) EXCEPT !.pii = TRUE]
Sends(c) == [Now(c) EXCEPT !.sent = TRUE]
Reads(c, page) == [Now(c) EXCEPT !.page = page]

Turns(c, from, where, k) ==
    /\ at[c].pc = from
    /\ where \in Place
    /\ at' \in [Calls -> Place] /\ at'[c] = where
    /\ \A d \in Calls : d # c => at'[d] = at[d]
    /\ Notes(c, k)

LEMMA GoesTurns ==
    ASSUME Types, NEW c \in Calls, NEW where \in Place, Goes(c, where)
    PROVE  Turns(c, at[c].pc, where, Now(c))
BY GoesShape DEF Types, TypeOK, Turns, Notes, Now

\* A flag of a call is set.
LEMMA FlagShape ==
    ASSUME Types, NEW c \in Calls, NEW b \in BOOLEAN
    PROVE  /\ call' = [call EXCEPT ![c].pii = b] => Notes(c, [Now(c) EXCEPT !.pii = b])
           /\ call' = [call EXCEPT ![c].sent = b] => Notes(c, [Now(c) EXCEPT !.sent = b])
BY DEF Notes, Now, Types, TypeOK, CallState

\* One lemma per action.
Tenant(c) == call[c].tok.tenant

USE DEF Events, Statuses, Labels, Tenant

LEMMA TurnRequireAuth ==
    ASSUME Types, NEW c \in Calls, RequireAuth(c)
    PROVE  \/ call[c].tok.jti \in revoked /\ Turns(c, "require_auth", Done(401), Now(c))
           \/ /\ call[c].tok.jti \notin revoked
              /\ \/ /\ call[c].route = "configure"
                    /\ Turns(c, "require_auth", At("set_provider"), Now(c))
                 \/ Turns(c, "require_auth", Done(403), Now(c))
                 \/ /\ call[c].route = "audit" /\ call[c].tok.role = ADMIN
                    /\ Turns(c, "require_auth",
                             Log(c, "admin_access", Tenant(c), At("get_logs")), Now(c))
<1>1. at[c].pc = "require_auth" /\ Heading(c) \in AuthLabels
  BY DEF RequireAuth, Heading, AuthLabels
<1>2. call[c].route \in {"configure", "audit"}
  BY <1>1 DEF Types, Located, Heading
<1>3. CASE call[c].tok.jti \in revoked
  BY <1>1, <1>3, Places, GoesTurns DEF RequireAuth
<1>4. CASE call[c].tok.jti \notin revoked
  <2>1. Goes(c, Enters(c, call[c].tok))
    BY <1>4 DEF RequireAuth
  <2>2. CASE call[c].route = "configure"
    <3>1. Enters(c, call[c].tok) = At("set_provider")
      BY <2>2 DEF Enters
    <3> QED
      BY <1>1, <1>4, <2>1, <2>2, <3>1, Places, GoesTurns
  <2>3. CASE call[c].route = "audit" /\ call[c].tok.role # ADMIN
    <3>1. Enters(c, call[c].tok) = Done(403)
      BY <2>3 DEF Enters
    <3> QED
      BY <1>1, <1>4, <2>1, <3>1, Places, GoesTurns
  <2>4. CASE call[c].route = "audit" /\ call[c].tok.role = ADMIN
    <3>1. Enters(c, call[c].tok) = Log(c, "admin_access", Tenant(c), At("get_logs"))
      BY <2>4 DEF Enters
    <3>2. Enters(c, call[c].tok) \in Place
      BY <1>1, <3>1, StepPlaces
    <3> QED
      BY <1>1, <1>4, <2>1, <2>4, <3>1, <3>2, GoesTurns
  <2> QED
    BY <1>2, <2>2, <2>3, <2>4
<1> QED
  BY <1>3, <1>4

LEMMA TurnSetProvider ==
    ASSUME Types, NEW c \in Calls, SetProviderConfig(c)
    PROVE  Turns(c, "set_provider", At("set_owner"), Now(c))
BY Places, GoesTurns DEF SetProviderConfig

LEMMA TurnSetOwner ==
    ASSUME Types, NEW c \in Calls, SetSessionOwner(c)
    PROVE  Turns(c, "set_owner", Log(c, "session_create", Tenant(c), Done(200)), Now(c))
<1>1. Heading(c) \in AuthLabels
  BY DEF SetSessionOwner, Heading, AuthLabels, ConfigureLabels
<1> QED
  BY <1>1, StepPlaces, GoesTurns DEF SetSessionOwner

LEMMA TurnGetLogs ==
    ASSUME Types, NEW c \in Calls, GetLogs(c)
    PROVE  Turns(c, "get_logs", Done(200), Reads(c, get_logs(Tenant(c))))
<1>1. get_logs(Tenant(c)) \subseteq Entry
  BY DEF get_logs, Types, TypeOK
<1>2. call' = [call EXCEPT ![c].page = get_logs(Tenant(c))] /\ Moves(c, Done(200))
      /\ at[c].pc = "get_logs"
  BY DEF GetLogs
<1>3. Notes(c, Reads(c, get_logs(Tenant(c))))
  <2> HIDE DEF Tenant
  <2> QED
    BY <1>1, <1>2 DEF Notes, Now, Reads, Types, TypeOK, CallState
<1> QED
  BY <1>2, <1>3, Places, MovesShape DEF Turns, Types

LEMMA TurnIsRevoked ==
    ASSUME Types, NEW c \in Calls, IsRevoked(c)
    PROVE  \/ call[c].tok.jti \in revoked
              /\ Turns(c, "is_revoked",
                       Log(c, "auth_failure", Tenant(c), Done(401)), Now(c))
           \/ call[c].tok.jti \notin revoked /\ Turns(c, "is_revoked", At("get_config"), Now(c))
<1>1. at[c].pc = "is_revoked" /\ Heading(c) \in AuthLabels
  BY DEF IsRevoked, Heading, AuthLabels, ChatLabels
<1>2. CASE call[c].tok.jti \in revoked
  <2>1. Goes(c, Log(c, "auth_failure", Tenant(c), Done(401)))
    BY <1>2 DEF IsRevoked
  <2>2. Log(c, "auth_failure", Tenant(c), Done(401)) \in Place
    BY <1>1, StepPlaces
  <2>3. Turns(c, at[c].pc, Log(c, "auth_failure", Tenant(c), Done(401)), Now(c))
    BY <2>1, <2>2, GoesTurns
  <2> QED
    BY <1>1, <1>2, <2>3
<1>3. CASE call[c].tok.jti \notin revoked
  BY <1>1, <1>3, Places, GoesTurns DEF IsRevoked
<1> QED
  BY <1>2, <1>3

LEMMA TurnGetConfig ==
    ASSUME Types, NEW c \in Calls, GetProviderConfig(c)
    PROVE  \E where \in {At("get_owner"), Done(404)} : Turns(c, "get_config", where, Now(c))
BY Places, GoesTurns DEF GetProviderConfig

LEMMA TurnGetOwner ==
    ASSUME Types, NEW c \in Calls, GetSessionOwner(c)
    PROVE  \/ /\ Matches(owner[call[c].sess], call[c].tok)
              /\ Turns(c, "get_owner", At("tokenize"), Now(c))
           \/ Turns(c, "get_owner", Log(c, "auth_failure", Tenant(c), Done(403)), Now(c))
<1>1. at[c].pc = "get_owner" /\ Heading(c) \in AuthLabels
  BY DEF GetSessionOwner, Heading, AuthLabels, ChatLabels
<1>2. CASE Matches(owner[call[c].sess], call[c].tok)
  BY <1>1, <1>2, Places, GoesTurns DEF GetSessionOwner
<1>3. CASE ~Matches(owner[call[c].sess], call[c].tok)
  <2>1. Goes(c, Log(c, "auth_failure", Tenant(c), Done(403)))
    BY <1>3 DEF GetSessionOwner
  <2> QED
    BY <1>1, <2>1, StepPlaces, GoesTurns
<1> QED
  BY <1>2, <1>3

LEMMA TurnTokenize ==
    ASSUME Types, NEW c \in Calls, Tokenize(c)
    PROVE  \/ Turns(c, "tokenize", At("llm"), Now(c))
           \/ Turns(c, "tokenize", Log(c, "pii_detected", Tenant(c), At("llm")),
                    Finds(c))
<1>1. at[c].pc = "tokenize" /\ Heading(c) \in AuthLabels
  BY DEF Tokenize, Heading, AuthLabels, ChatLabels
<1>2. CASE Goes(c, At("llm"))
  BY <1>1, <1>2, Places, GoesTurns
<1>3. CASE /\ call' = [call EXCEPT ![c].pii = TRUE]
           /\ Moves(c, Log(c, "pii_detected", Tenant(c), At("llm")))
  <2>1. Notes(c, Finds(c))
    BY <1>3, FlagShape DEF Finds
  <2>2. Log(c, "pii_detected", Tenant(c), At("llm")) \in Place
    BY <1>1, StepPlaces
  <2> QED
    BY <1>1, <1>3, <2>1, <2>2, MovesShape DEF Turns, Types
<1> QED
  BY <1>2, <1>3 DEF Tokenize

LEMMA TurnRouteToLlm ==
    ASSUME Types, NEW c \in Calls, RouteToLlm(c)
    PROVE  Turns(c, "llm", At("get_token_map"), Sends(c))
<1>1. Notes(c, Sends(c))
  BY FlagShape DEF RouteToLlm, Sends
<1> QED
  BY <1>1, Places, MovesShape DEF RouteToLlm, Turns, Types

LEMMA TurnGetTokenMap ==
    ASSUME Types, NEW c \in Calls, GetTokenMap(c)
    PROVE  Turns(c, "get_token_map", Log(c, "chat_request", Tenant(c), Done(200)), Now(c))
<1>1. Heading(c) \in AuthLabels
  BY DEF GetTokenMap, Heading, AuthLabels, ChatLabels
<1> QED
  BY <1>1, StepPlaces, GoesTurns DEF GetTokenMap

LEMMA TurnLogEvent ==
    ASSUME Types, NEW c \in Calls, LogEvent(c)
    PROVE  Turns(c, "log", After(c), Now(c))
<1>1. After(c) \in Place
  BY DEF After, Place, Types, TypeOK
<1> QED
  BY <1>1, GoesTurns DEF LogEvent

LEMMA TurnRaise ==
    ASSUME Types, NEW c \in Calls, Raise(c)
    PROVE  \E status \in {422, 500, 502} : Turns(c, at[c].pc, Done(status), Now(c))
<1>1. PICK status \in {422, 500, 502} : Goes(c, Done(status))
  BY DEF Raise, Failures
<1> QED
  BY <1>1, Places, GoesTurns
HIDE DEF Events, Statuses, Labels, Tenant

-------------------------------------------------------------------------------
(* Type correctness. *)

\* Every step of a call in progress is a turn.
LEMMA StepTurns ==
    ASSUME Types, NEW c \in Calls, Step(c) \/ Raise(c)
    PROVE  \E where, k : Turns(c, at[c].pc, where, k)
<1> DEFINE Goal == \E where, k : Turns(c, at[c].pc, where, k)
<1>1. ASSUME NEW from, NEW where, NEW k, Turns(c, from, where, k) PROVE Goal
  BY <1>1 DEF Turns
<1> HIDE DEF Goal
<1>2. RequireAuth(c) => Goal
  BY <1>1, TurnRequireAuth
<1>3. SetProviderConfig(c) => Goal
  BY <1>1, TurnSetProvider
<1>4. SetSessionOwner(c) => Goal
  BY <1>1, TurnSetOwner
<1>5. GetLogs(c) => Goal
  BY <1>1, TurnGetLogs
<1>6. IsRevoked(c) => Goal
  BY <1>1, TurnIsRevoked
<1>7. GetProviderConfig(c) => Goal
  BY <1>1, TurnGetConfig
<1>8. GetSessionOwner(c) => Goal
  BY <1>1, TurnGetOwner
<1>9. Tokenize(c) => Goal
  BY <1>1, TurnTokenize
<1>10. RouteToLlm(c) => Goal
  BY <1>1, TurnRouteToLlm
<1>11. GetTokenMap(c) => Goal
  BY <1>1, TurnGetTokenMap
<1>12. LogEvent(c) => Goal
  BY <1>1, TurnLogEvent
<1>13. Raise(c) => Goal
  BY <1>1, TurnRaise
<1> QED
  BY <1>2, <1>3, <1>4, <1>5, <1>6, <1>7, <1>8, <1>9, <1>10, <1>11, <1>12, <1>13 DEF Step, Goal

\* What is logged is an entry, and what is an owner an identity.
LEMMA StepStores ==
    ASSUME Types, NEW c \in Calls, Step(c) \/ Raise(c)
    PROVE  /\ UNCHANGED <<users, expired, revoked>>
           /\ provider' \subseteq Calls
           /\ owner' \in [Calls -> Owner \cup {NoOwner}]
           /\ audit' \subseteq Entry
<1> USE DEF Types, TypeOK, redis
<1>1. at[c].pc = "log" => at[c].entry \in Entry
  BY DEF Located
<1>2. CASE LogEvent(c) \/ Raise(c)
  BY <1>1, <1>2 DEF LogEvent, Raise
<1>3. CASE SetProviderConfig(c)
  BY <1>3 DEF SetProviderConfig
<1>4. CASE SetSessionOwner(c)
  <2>1. call[c].tok \in Token
    BY <1>4 DEF SetSessionOwner, Located, Heading, AuthLabels, ConfigureLabels
  <2>2. Identity(call[c].tok) \in Owner
    BY <2>1 DEF Identity, Owner, Token, TokenOf
  <2> QED
    BY <1>4, <2>2 DEF SetSessionOwner
<1>5. CASE /\ UNCHANGED <<users, expired, revoked, provider, owner, audit>>
  BY <1>5
<1> QED
  BY <1>2, <1>3, <1>4, <1>5 DEF Step, RequireAuth, GetLogs, IsRevoked,
     GetProviderConfig, GetSessionOwner, Tokenize, RouteToLlm, GetTokenMap

\* The end of a denylist entry: only what is barred changes, for less.
LEMMA LapseEffect ==
    ASSUME TypeOK, NEW t, Lapse(t)
    PROVE  /\ UNCHANGED <<users, expired, provider, owner, audit, at>>
           /\ revoked' = revoked \ {t.jti}
           /\ call' \in [Calls -> CallState]
           /\ \A c \in Calls :
                 /\ call'[c].route = call[c].route /\ call'[c].tok = call[c].tok
                 /\ call'[c].sess = call[c].sess /\ call'[c].made = call[c].made
                 /\ call'[c].pii = call[c].pii /\ call'[c].sent = call[c].sent
                 /\ call'[c].page = call[c].page
                 /\ call'[c].barred
                       => call[c].barred /\ (Active(c) => call[c].tok.jti # t.jti)
                 /\ ~call[c].barred => call'[c] = call[c]
<1> DEFINE b(c) == call[c].barred /\ (Active(c) => call[c].tok.jti # t.jti)
           k(c) == [call[c] EXCEPT !.barred = b(c)]
<1>1. /\ UNCHANGED <<users, expired, provider, owner, audit, at>>
      /\ revoked' = revoked \ {t.jti}
      /\ call' = [c \in Calls |-> k(c)]
  BY DEF Lapse
<1>2. \A c \in Calls : b(c) \in BOOLEAN /\ (~call[c].barred => b(c) = FALSE)
                      /\ (b(c) => call[c].barred /\ (Active(c) => call[c].tok.jti # t.jti))
  OBVIOUS
<1> HIDE DEF b
<1>3. ASSUME NEW c \in Calls
      PROVE  /\ k(c) \in CallState
             /\ k(c).route = call[c].route /\ k(c).tok = call[c].tok
             /\ k(c).sess = call[c].sess /\ k(c).made = call[c].made
             /\ k(c).pii = call[c].pii /\ k(c).sent = call[c].sent
             /\ k(c).page = call[c].page /\ k(c).barred = b(c)
             /\ ~call[c].barred => k(c) = call[c]
  <2>1. call[c] \in CallState
    BY DEF TypeOK
  <2>2. ~call[c].barred => call[c].barred = b(c)
    BY <1>2, <2>1 DEF CallState
  <2> QED
    BY <1>2, <2>1, <2>2 DEF CallState
<1> HIDE DEF k
<1>4. \A c \in Calls : call'[c] = k(c)
  BY <1>1
<1> QED
  BY <1>1, <1>2, <1>3, <1>4

LEMMA TypeNext == Types /\ [Next]_vars => TypeOK'
<1> SUFFICES ASSUME Types, [Next]_vars PROVE TypeOK'
  OBVIOUS
<1>0. TypeOK
  BY DEF Types
<1>1. ASSUME NEW c \in Calls, Arrive(c) PROVE TypeOK'
  <2>1. PICK route \in RouteNames, t \in Token \cup {NoToken, Forged},
             s \in Calls \cup {"none"}, where \in Place, made \in SUBSET Token :
             Begins(c, route, t, s, where, made)
    BY <1>0, <1>1, Arrivals
  <2>2. at' \in [Calls -> Place] /\ call' \in [Calls -> CallState]
    BY <1>0, <2>1, ArrivesTypes DEF Begins
  <2> QED
    BY <1>0, <1>1, <2>2, Arrivals DEF TypeOK, redis
<1>2. ASSUME NEW c \in Calls, Step(c) \/ Raise(c) PROVE TypeOK'
  <2>1. at' \in [Calls -> Place] /\ call' \in [Calls -> CallState]
    BY <1>2, StepTurns DEF Turns, Notes
  <2> QED
    BY <1>0, <1>2, <2>1, StepStores DEF TypeOK
<1>3. ASSUME NEW t \in Held, Expires(t) \/ Revoke(t) PROVE TypeOK'
  <2>1. t.jti \in Jtis
    BY <1>0, HeldTokens DEF Token, TokenOf
  <2> QED
    BY <1>0, <1>3, <2>1 DEF TypeOK, Expires, Revoke, redis
<1>4. ASSUME NEW s \in Calls, KeyExpires(s) PROVE TypeOK'
  BY <1>0, <1>4 DEF TypeOK, KeyExpires
<1>5. CASE UNCHANGED vars
  BY <1>0, <1>5 DEF TypeOK, vars, redis
<1>6. ASSUME NEW t \in Held, Lapse(t) PROVE TypeOK'
  BY <1>0, <1>6, LapseEffect DEF TypeOK
<1> QED
  BY <1>1, <1>2, <1>3, <1>4, <1>5, <1>6 DEF Next

-------------------------------------------------------------------------------
(* Where every call can be. *)

\* A call that is left alone stays where it is.
LEMMA LocatedStays ==
    ASSUME NEW d \in Calls, Located(d), at'[d] = at[d], call'[d] = call[d]
    PROVE  Located(d)'
BY DEF Located, Heading

\* Where a place leads.
LEMMA Headings ==
    ASSUME NEW c \in Calls
    PROVE  /\ \A label \in AuthLabels :
                 at'[c] = At(label) => Heading(c)' = label /\ at'[c].pc = label
           /\ \A status \in Statuses :
                 at'[c] = Done(status) => Heading(c)' = "done" /\ at'[c].pc = "done"
           /\ \A event \in Events, tenant \in Tenants, where \in Place :
                 at'[c] = Log(c, event, tenant, where) =>
                    /\ Heading(c)' = where.pc /\ at'[c].pc = "log"
                    /\ at'[c].entry \in Entry /\ at'[c].entry.call = c
BY DEF Heading, At, Done, Log, AuthLabels, ChatLabels, ConfigureLabels, Entry

\* The first place of a call, and what it knows there.
LEMMA Arrived ==
    ASSUME Types, NEW c \in Calls, Arrive(c)
    PROVE  /\ at[c].pc = "idle"
           /\ \A d \in Calls : d # c => at'[d] = at[d] /\ call'[d] = call[d]
           /\ call'[c].sent = FALSE /\ call'[c].pii = FALSE /\ call'[c].page = {}
           /\ \E where \in Place, made \in SUBSET Token :
                 /\ at'[c] = where
                 /\ Begins(c, call'[c].route, call'[c].tok, call'[c].sess, where, made)
                 /\ call'[c].made = made
           /\ call'[c].route \in RouteNames
           /\ call'[c].barred => Presented(call'[c].tok) /\ call'[c].tok.jti \in revoked
           /\ UNCHANGED <<expired, redis>>
<1>0. TypeOK
  BY DEF Types
<1>1. PICK route \in RouteNames, t \in Token \cup {NoToken, Forged},
           s \in Calls \cup {"none"}, where \in Place, made \in SUBSET Token :
           Begins(c, route, t, s, where, made)
  BY <1>0, Arrivals
<1>2. Arrives(c, route, t, s, where, made)
  BY <1>1 DEF Begins
<1>3. /\ at'[c] = where
      /\ \A d \in Calls : d # c => at'[d] = at[d] /\ call'[d] = call[d]
      /\ call'[c].route = route /\ call'[c].tok = t /\ call'[c].sess = s
      /\ call'[c].made = made
      /\ call'[c].sent = FALSE /\ call'[c].pii = FALSE /\ call'[c].page = {}
      /\ call'[c].barred => Presented(t) /\ t.jti \in revoked
  BY <1>0, <1>2, ArrivesShape, ZenonT(60)
<1>4. at[c].pc = "idle" /\ UNCHANGED <<expired, redis>>
  BY <1>0, Arrivals
<1> QED
  BY <1>1, <1>3, <1>4

\* Where that leads.
LEMMA ArrivedHeading ==
    ASSUME Types, NEW c \in Calls, Arrive(c)
    PROVE  /\ Heading(c)' \in {"done", "require_auth", "is_revoked"}
           /\ at'[c].pc # "idle"
           /\ at'[c].pc = "log" => at'[c].entry \in Entry /\ at'[c].entry.call = c
           /\ Heading(c)' = "require_auth" =>
                 call'[c].route \in {"configure", "audit"} /\ call'[c].tok \in Token
           /\ Heading(c)' = "is_revoked" =>
                 call'[c].route = "chat" /\ call'[c].tok \in Token
<1> USE DEF Statuses, Events, Labels
<1> DEFINE route == call'[c].route
           t == call'[c].tok
<1>1. PICK where \in Place, made \in SUBSET Token :
         at'[c] = where /\ Begins(c, route, t, call'[c].sess, where, made)
  BY Arrived
<1>2. t \in Token \cup {NoToken, Forged}
  BY TypeNext DEF TypeOK, CallState, Next
<1> HIDE DEF route, t
<1>3. CASE Fails401(route, t, where) \/ FailsEarly(route, where)
  BY <1>1, <1>3, Headings DEF Fails401, FailsEarly
<1>4. CASE RefusesFirst(c, route, t, where) \/ IssuesFirst(c, route, t, where)
  <2>1. PICK event \in Events, status \in Statuses :
           where = Log(c, event, DEFAULT, Done(status))
    BY <1>4 DEF RefusesFirst, IssuesFirst
  <2>2. DEFAULT \in Tenants /\ Done(status) \in Place /\ Done(status).pc = "done"
    BY Places DEF Tenants, Done
  <2> QED
    BY <1>1, <2>1, <2>2, Headings
<1>5. CASE Enrols(route, t, where)
  <2>1. t \in Token
    BY <1>2, <1>5 DEF Enrols, Valid, Presented
  <2>2. {"require_auth", "is_revoked"} \subseteq AuthLabels
    BY DEF AuthLabels, ChatLabels
  <2> QED
    BY <1>1, <1>5, <2>1, <2>2, Headings DEF Enrols, route, t
<1> QED
  BY <1>1, <1>3, <1>4, <1>5 DEF Begins

LEMMA LocatedArrive ==
    ASSUME Types, NEW c \in Calls, Arrive(c)
    PROVE  \A d \in Calls : Located(d)'
<1>1. call'[c].route # "none" /\ (call'[c].route = "chat" => call'[c].sess \in Calls)
  BY Arrived DEF Begins, RouteNames
<1>2. Located(c)'
  BY <1>1, ArrivedHeading DEF Located, AuthLabels, ChatLabels, ConfigureLabels
<1> QED
  BY <1>2, Arrived, LocatedStays DEF Types

\* A turn leaves a call with the same route, token and session in a place of them.
LEMMA LocatedTurn ==
    ASSUME Types, NEW c \in Calls, NEW where, NEW k, Turns(c, at[c].pc, where, k),
           at'[c].pc # "idle", at[c].pc # "idle",
           at'[c].pc = "log" => at'[c].entry \in Entry /\ at'[c].entry.call = c,
           Heading(c) \in AuthLabels \/ Heading(c)' = "done",
           \/ Heading(c)' \in {"done", Heading(c)}
           \/ Heading(c)' \in ChatLabels /\ Heading(c) \in ChatLabels
           \/ Heading(c)' \in ConfigureLabels /\ call[c].route = "configure"
           \/ Heading(c)' = "get_logs" /\ call[c].route = "audit"
              /\ call[c].tok.role = ADMIN
    PROVE  \A d \in Calls : Located(d)'
<1>1. /\ \A d \in Calls : d # c => at'[d] = at[d] /\ call'[d] = call[d]
      /\ call'[c].route = call[c].route /\ call'[c].tok = call[c].tok
      /\ call'[c].sess = call[c].sess
  BY DEF Turns, Notes
<1>2. Located(c)
  BY DEF Types
<1>3. Located(c)'
  BY <1>1, <1>2 DEF Located, AuthLabels, ChatLabels, ConfigureLabels
<1> QED
  BY <1>1, <1>3, LocatedStays DEF Types

\* A step of a route that logs, ends or goes on, and where that leads.
LEMMA LocatedStep ==
    ASSUME Types, NEW c \in Calls, Step(c) \/ Raise(c)
    PROVE  \A d \in Calls : Located(d)'
<1> DEFINE Goal == \A d \in Calls : Located(d)'
<1> DEFINE tenant == call[c].tok.tenant
<1>1. ASSUME NEW from \in AuthLabels, NEW label \in AuthLabels, NEW k,
             Turns(c, from, At(label), k),
             \/ from \in ChatLabels /\ label \in ChatLabels
             \/ label \in ConfigureLabels /\ call[c].route = "configure"
      PROVE  Goal
  <2>1. Heading(c) = from /\ at[c].pc = from /\ from # "log" /\ from # "idle"
    BY <1>1 DEF Turns, Heading, AuthLabels, ChatLabels, ConfigureLabels
  <2>2. at'[c] = At(label)
    BY <1>1 DEF Turns
  <2>3. Heading(c)' = label /\ at'[c].pc = label /\ label # "log" /\ label # "idle"
    BY <2>2, Headings DEF AuthLabels, ChatLabels, ConfigureLabels
  <2>5. Turns(c, at[c].pc, At(label), k)
    BY <1>1, <2>1
  <2> QED
    BY <1>1, <2>1, <2>3, <2>5, LocatedTurn
<1>2. ASSUME NEW from \in Labels \ {"idle"}, NEW status \in Statuses, NEW k,
             Turns(c, from, Done(status), k)
      PROVE  Goal
  <2>1. at[c].pc = from /\ at'[c] = Done(status)
    BY <1>2 DEF Turns
  <2>2. Heading(c)' = "done" /\ at'[c].pc = "done"
    BY <2>1, Headings
  <2> QED
    BY <1>2, <2>1, <2>2, LocatedTurn
<1>3. ASSUME NEW from \in AuthLabels, NEW event \in Events, NEW status \in Statuses,
             NEW k, Turns(c, from, Log(c, event, tenant, Done(status)), k)
      PROVE  Goal
  <2>1. Heading(c) = from /\ at[c].pc = from /\ from # "idle"
    BY <1>3 DEF Turns, Heading, AuthLabels, ChatLabels, ConfigureLabels
  <2>2. at'[c] = Log(c, event, tenant, Done(status))
    BY <1>3 DEF Turns
  <2>3. tenant \in Tenants /\ Done(status) \in Place /\ Done(status).pc = "done"
    BY <2>1, Places DEF Types, Located, Token, TokenOf, Done
  <2>4. Heading(c)' = "done" /\ at'[c].pc = "log"
        /\ at'[c].entry \in Entry /\ at'[c].entry.call = c
    BY <2>2, <2>3, Headings
  <2>5. Turns(c, at[c].pc, Log(c, event, tenant, Done(status)), k)
    BY <1>3, <2>1
  <2> QED
    BY <1>3, <2>1, <2>4, <2>5, LocatedTurn
<1>4. ASSUME NEW from \in AuthLabels, NEW event \in Events, NEW label \in AuthLabels,
             NEW k, Turns(c, from, Log(c, event, tenant, At(label)), k),
             \/ from \in ChatLabels /\ label \in ChatLabels
             \/ label = "get_logs" /\ call[c].route = "audit" /\ call[c].tok.role = ADMIN
      PROVE  Goal
  <2>1. Heading(c) = from /\ at[c].pc = from /\ from # "idle"
    BY <1>4 DEF Turns, Heading, AuthLabels, ChatLabels, ConfigureLabels
  <2>2. at'[c] = Log(c, event, tenant, At(label))
    BY <1>4 DEF Turns
  <2>3. /\ tenant \in Tenants /\ At(label) \in Place /\ At(label).pc = label
        /\ label \in Labels
    BY <2>1, Places DEF Types, Located, Token, TokenOf, At, Labels, AuthLabels,
       ChatLabels, ConfigureLabels
  <2>4. Heading(c)' = label /\ at'[c].pc = "log"
        /\ at'[c].entry \in Entry /\ at'[c].entry.call = c
    BY <2>2, <2>3, Headings
  <2>5. Turns(c, at[c].pc, Log(c, event, tenant, At(label)), k)
    BY <1>4, <2>1
  <2> QED
    BY <1>4, <2>1, <2>4, <2>5, LocatedTurn
<1>5. LogEvent(c) => Goal
  <2> SUFFICES ASSUME LogEvent(c) PROVE Goal
    OBVIOUS
  <2>1. Turns(c, at[c].pc, After(c), Now(c)) /\ at[c].pc = "log"
    BY TurnLogEvent DEF LogEvent
  <2>2. at'[c] = After(c) /\ After(c).pc = at[c].next /\ Heading(c) = at[c].next
    BY <2>1 DEF Turns, After, Heading
  <2>3. Heading(c) \in {"done"} \cup AuthLabels
    BY <2>1 DEF Types, Located, Heading, AuthLabels, ChatLabels, ConfigureLabels
  <2>4. Heading(c)' = Heading(c) /\ at'[c].pc # "log" /\ at'[c].pc # "idle"
    BY <2>2, <2>3 DEF Heading, AuthLabels, ChatLabels, ConfigureLabels
  <2> QED
    BY <2>1, <2>3, <2>4, LocatedTurn
<1> HIDE DEF Goal
<1> USE DEF AuthLabels, ChatLabels, ConfigureLabels, Events, Statuses, Tenant
<1>6. RequireAuth(c) => Goal
  BY <1>1, <1>2, <1>4, TurnRequireAuth DEF Labels
<1>7. SetProviderConfig(c) => Goal
  <2> SUFFICES ASSUME SetProviderConfig(c) PROVE Goal
    OBVIOUS
  <2>1. call[c].route = "configure"
    BY DEF SetProviderConfig, Types, Located, Heading
  <2> QED
    BY <1>1, <2>1, TurnSetProvider
<1>8. SetSessionOwner(c) => Goal
  BY <1>3, TurnSetOwner
<1>9. GetLogs(c) => Goal
  <2>1. GetLogs(c) => \E k : Turns(c, "get_logs", Done(200), k)
    BY TurnGetLogs
  <2> QED
    BY <1>2, <2>1 DEF Labels
<1>10. IsRevoked(c) => Goal
  BY <1>1, <1>3, TurnIsRevoked
<1>11. GetProviderConfig(c) => Goal
  BY <1>1, <1>2, TurnGetConfig DEF Labels
<1>12. GetSessionOwner(c) => Goal
  BY <1>1, <1>3, TurnGetOwner
<1>13. Tokenize(c) => Goal
  BY <1>1, <1>4, TurnTokenize
<1>14. RouteToLlm(c) => Goal
  BY <1>1, TurnRouteToLlm
<1>15. GetTokenMap(c) => Goal
  BY <1>3, TurnGetTokenMap
<1>16. Raise(c) => Goal
  <2> SUFFICES ASSUME Raise(c) PROVE Goal
    OBVIOUS
  <2>1. at[c].pc \in Labels \ {"idle"}
    BY DEF Raise, Active, Types, TypeOK, Place
  <2> QED
    BY <1>2, <2>1, TurnRaise
<1> QED
  BY <1>5, <1>6, <1>7, <1>8, <1>9, <1>10, <1>11, <1>12, <1>13, <1>14, <1>15, <1>16
     DEF Step, Goal

LEMMA TypesNext == Types /\ [Next]_vars => Types'
<1> SUFFICES ASSUME Types, [Next]_vars PROVE Types'
  OBVIOUS
<1>1. TypeOK'
  BY TypeNext
<1>2. CASE UNCHANGED <<at, call>>
  BY <1>1, <1>2, LocatedStays DEF Types
<1>3. ASSUME NEW c \in Calls, Arrive(c) \/ Step(c) \/ Raise(c) PROVE Types'
  BY <1>1, <1>3, LocatedArrive, LocatedStep DEF Types
<1>4. ASSUME NEW t \in Held, Lapse(t) PROVE Types'
  <2> SUFFICES ASSUME NEW c \in Calls PROVE Located(c)'
    BY <1>1 DEF Types
  <2>1. /\ at' = at /\ call'[c].route = call[c].route
        /\ call'[c].tok = call[c].tok /\ call'[c].sess = call[c].sess
        /\ ~call[c].barred => call'[c] = call[c]
    BY <1>4, LapseEffect DEF Types
  <2>2. at[c].pc = "idle" => call'[c] = Blank
    <3>1. Blank.barred = FALSE
      BY DEF Blank
    <3> QED
      BY <2>1, <3>1 DEF Types, Located
  <2>3. Located(c) /\ Heading(c)' = Heading(c)
    BY <2>1 DEF Types, Heading
  <2> QED
    BY <2>1, <2>2, <2>3 DEF Located
<1> QED
  BY <1>2, <1>3, <1>4 DEF Next, Expires, Revoke, KeyExpires, vars

\* The stores and the state of every call always have their types.
THEOREM TypeCorrect == Spec => []TypeOK
<1>1. Types => TypeOK
  BY DEF Types
<1> QED
  BY <1>1, TypesInit, TypesNext, PTL DEF Spec

LEMMA TypesCorrect == Spec => []Types
BY TypesInit, TypesNext, PTL DEF Spec

-------------------------------------------------------------------------------
(* A call keeps its route, token and session, and is barred no more than it was. *)

Kept(d) ==
    /\ call'[d].route = call[d].route /\ call'[d].tok = call[d].tok
    /\ call'[d].sess = call[d].sess /\ (call'[d].barred => call[d].barred)
    /\ call'[d].made = call[d].made /\ at'[d].pc # "idle"

LEMMA CallKept ==
    ASSUME Types, [Next]_vars, NEW d \in Calls, at[d].pc # "idle"
    PROVE  Kept(d)
<1>1. CASE UNCHANGED <<at, call>>
  BY <1>1 DEF Kept
<1>2. ASSUME NEW c \in Calls, Arrive(c) PROVE Kept(d)
  <2>1. at[c].pc = "idle"
    BY <1>2, Arrived
  <2>2. at'[d] = at[d] /\ call'[d] = call[d]
    BY <1>2, <2>1, Arrived
  <2> QED
    BY <2>2 DEF Kept
<1>3. ASSUME NEW c \in Calls, Step(c) \/ Raise(c) PROVE Kept(d)
  <2>1. PICK where, k : Turns(c, at[c].pc, where, k)
    BY <1>3, StepTurns
  <2>2. CASE d = c
    <3>1. Located(c)'
      BY <1>3, LocatedStep
    <3>2. call'[c].route = call[c].route
      BY <2>1 DEF Turns, Notes
    <3>3. call[c].route # "none"
      BY <2>2 DEF Types, Located
    <3>4. at'[c].pc # "idle"
      BY <3>1, <3>2, <3>3 DEF Located, Blank
    <3> QED
      BY <2>1, <2>2, <3>4 DEF Turns, Notes, Kept
  <2>3. CASE d # c
    <3>1. at'[d] = at[d] /\ call'[d] = call[d]
      BY <2>1, <2>3 DEF Turns, Notes
    <3> QED
      BY <3>1 DEF Kept
  <2> QED
    BY <2>2, <2>3
<1>4. ASSUME NEW t \in Held, Lapse(t) PROVE Kept(d)
  BY <1>4, LapseEffect DEF Types, Kept
<1> QED
  BY <1>1, <1>2, <1>3, <1>4 DEF Next, Expires, Revoke, KeyExpires, vars

\* A step leaves the other calls.
LEMMA OthersStay ==
    ASSUME Types, NEW c \in Calls, Arrive(c) \/ Step(c) \/ Raise(c),
           NEW d \in Calls, d # c
    PROVE  at'[d] = at[d] /\ call'[d] = call[d] /\ Heading(d)' = Heading(d)
<1>1. CASE Arrive(c)
  BY <1>1, Arrived DEF Heading
<1>2. CASE Step(c) \/ Raise(c)
  <2>1. PICK where, k : Turns(c, at[c].pc, where, k)
    BY <1>2, StepTurns
  <2> QED
    BY <2>1 DEF Turns, Notes, Heading
<1> QED
  BY <1>1, <1>2

-------------------------------------------------------------------------------
(* Whose messages are sent. *)

\* An owner record is that of the call that created the session.
Owned(s) ==
    owner[s] # NoOwner =>
        /\ call[s].route = "configure"
        /\ owner[s] = Identity(call[s].tok)

Owns(c) ==
    LET creator == call[call[c].sess]
    IN /\ call[c].sess \in Calls
       /\ creator.route = "configure" /\ Identity(creator.tok) = Identity(call[c].tok)

\* A chat that is past the check has its creator's identity.
ClearedLabels == {"tokenize", "llm", "get_token_map"}
Cleared(c) == Heading(c) \in ClearedLabels \/ call[c].sent => Owns(c)

Ownership == \A c \in Calls : Owned(c) /\ Cleared(c)

LEMMA OwnsKept ==
    ASSUME Types, [Next]_vars, NEW c \in Calls, at[c].pc # "idle", Owns(c)
    PROVE  Owns(c)'
<1> DEFINE s == call[c].sess
<1>1. s \in Calls /\ at[s].pc # "idle"
  BY DEF Owns, Types, Located, Blank
<1>2. Kept(s) /\ Kept(c)
  BY <1>1, CallKept
<1> QED
  BY <1>2 DEF Owns, Kept

\* The owner records.
LEMMA OwnedNext ==
    ASSUME Types, Ownership, [Next]_vars, NEW s \in Calls
    PROVE  Owned(s)'
<1>1. ASSUME owner'[s] \in {owner[s], NoOwner} PROVE Owned(s)'
  <2>1. CASE owner'[s] = NoOwner
    BY <2>1 DEF Owned
  <2>2. CASE owner[s] # NoOwner /\ owner'[s] = owner[s]
    <3>1. call[s].route = "configure" /\ owner[s] = Identity(call[s].tok)
      BY <2>2 DEF Ownership, Owned
    <3>2. at[s].pc # "idle"
      BY <3>1 DEF Types, Located, Blank
    <3>3. Kept(s)
      BY <3>2, CallKept
    <3> QED
      BY <2>2, <3>1, <3>3 DEF Owned, Kept
  <2> QED
    BY <1>1, <2>1, <2>2
<1>2. ASSUME NEW c \in Calls, SetSessionOwner(c) PROVE Owned(s)'
  <2>1. owner' = [owner EXCEPT ![c] = Identity(call[c].tok)] /\ at[c].pc = "set_owner"
    BY <1>2 DEF SetSessionOwner
  <2>2. CASE s # c
    BY <1>1, <2>1, <2>2 DEF Types, TypeOK
  <2>3. CASE s = c
    <3>1. call[c].route = "configure"
      BY <2>1 DEF Types, Located, Heading, ConfigureLabels
    <3>2. Kept(c)
      BY <2>1, CallKept
    <3>3. owner'[c] = Identity(call[c].tok)
      BY <2>1 DEF Types, TypeOK
    <3> QED
      BY <2>3, <3>1, <3>2, <3>3 DEF Owned, Kept
  <2> QED
    BY <2>2, <2>3
<1>3. ASSUME NEW c \in Calls, KeyExpires(c) PROVE Owned(s)'
  BY <1>1, <1>3 DEF KeyExpires, Types, TypeOK
<1>4. CASE UNCHANGED owner
  BY <1>1, <1>4
<1>5. ASSUME NEW c \in Calls, Arrive(c) PROVE Owned(s)'
  BY <1>4, <1>5, Arrived DEF redis
<1> QED
  BY <1>2, <1>3, <1>4, <1>5 DEF Next, Step, RequireAuth, SetProviderConfig, GetLogs,
     IsRevoked, GetProviderConfig, GetSessionOwner, Tokenize, RouteToLlm, GetTokenMap,
     LogEvent, Raise, Expires, Revoke, Lapse, vars, redis

\* Turns to each kind of place.
LEMMA TurnsAt ==
    ASSUME NEW c, NEW from, NEW label, NEW k, Turns(c, from, At(label), k)
    PROVE  /\ at[c].pc = from /\ at'[c].pc = label
           /\ from # "log" => Heading(c) = from
           /\ label # "log" => Heading(c)' = label
           /\ call'[c].pii = k.pii /\ call'[c].sent = k.sent /\ call'[c].page = k.page
BY DEF Turns, Notes, Heading, At

LEMMA TurnsDone ==
    ASSUME NEW c, NEW from, NEW status, NEW k, Turns(c, from, Done(status), k)
    PROVE  /\ at[c].pc = from /\ at'[c].pc = "done" /\ at'[c].status = status
           /\ from # "log" => Heading(c) = from
           /\ Heading(c)' = "done"
           /\ call'[c].pii = k.pii /\ call'[c].sent = k.sent /\ call'[c].page = k.page
BY DEF Turns, Notes, Heading, Done

LEMMA TurnsLog ==
    ASSUME NEW c, NEW from, NEW event, NEW tenant, NEW where, NEW k,
           Turns(c, from, Log(c, event, tenant, where), k)
    PROVE  /\ at[c].pc = from /\ at'[c].pc = "log" /\ at'[c].status = where.status
           /\ from # "log" => Heading(c) = from
           /\ Heading(c)' = where.pc
           /\ at'[c].entry.event = event /\ at'[c].entry.tenant = tenant
           /\ call'[c].pii = k.pii /\ call'[c].sent = k.sent /\ call'[c].page = k.page
BY DEF Turns, Notes, Heading, Log

LEMMA PlaceFields ==
    /\ \A label : At(label).pc = label /\ At(label).status = 0
    /\ \A status : Done(status).pc = "done" /\ Done(status).status = status
BY DEF At, Done

LEMMA NowFields ==
    ASSUME NEW c
    PROVE  /\ Now(c).pii = call[c].pii /\ Now(c).sent = call[c].sent
           /\ Now(c).page = call[c].page
BY DEF Now

LEMMA FindsFields ==
    ASSUME NEW c
    PROVE  /\ Finds(c).pii = TRUE /\ Finds(c).sent = call[c].sent
           /\ Finds(c).page = call[c].page
BY DEF Now, Finds

LEMMA SendsFields ==
    ASSUME NEW c
    PROVE  /\ Sends(c).pii = call[c].pii /\ Sends(c).sent = TRUE
           /\ Sends(c).page = call[c].page
BY DEF Now, Sends

LEMMA ReadsFields ==
    ASSUME NEW c, NEW page
    PROVE  /\ Reads(c, page).pii = call[c].pii /\ Reads(c, page).sent = call[c].sent
           /\ Reads(c, page).page = page
BY DEF Now, Reads

LEMMA TurnsAfter ==
    ASSUME Types, NEW c \in Calls, Turns(c, "log", After(c), Now(c))
    PROVE  /\ at[c].pc = "log" /\ at'[c].pc = at[c].next
           /\ at'[c].status = at[c].status
           /\ Heading(c) = at[c].next /\ Heading(c)' = at[c].next
           /\ at[c].next \notin {"log", "idle"}
           /\ call'[c].pii = call[c].pii /\ call'[c].sent = call[c].sent
           /\ call'[c].page = call[c].page
<1>1. at[c].pc = "log" /\ Heading(c) = at[c].next
  BY DEF Turns, Heading
<1>2. at[c].next \notin {"log", "idle"}
  BY <1>1 DEF Types, Located, AuthLabels, ChatLabels, ConfigureLabels
<1> QED
  BY <1>1, <1>2 DEF Turns, Notes, Now, After, Heading

\* The check of the owner is the only way past it.
LEMMA CheckedFirst ==
    ASSUME Types, NEW c \in Calls, Step(c) \/ Raise(c), ~GetSessionOwner(c)
    PROVE  /\ Heading(c)' \in ClearedLabels => Heading(c) \in ClearedLabels
           /\ call'[c].sent => call[c].sent \/ Heading(c) \in ClearedLabels
<1> DEFINE Goal == /\ Heading(c)' \in ClearedLabels => Heading(c) \in ClearedLabels
                   /\ call'[c].sent => call[c].sent \/ Heading(c) \in ClearedLabels
<1> USE DEF ClearedLabels
<1>1. RequireAuth(c) => Goal
  BY TurnRequireAuth, TurnsAt, TurnsDone, TurnsLog, PlaceFields, NowFields
<1>2. SetProviderConfig(c) => Goal
  BY TurnSetProvider, TurnsAt, NowFields
<1>3. SetSessionOwner(c) => Goal
  BY TurnSetOwner, TurnsLog, PlaceFields, NowFields
<1>4. GetLogs(c) => Goal
  BY TurnGetLogs, TurnsDone, ReadsFields
<1>5. IsRevoked(c) => Goal
  BY TurnIsRevoked, TurnsAt, TurnsLog, PlaceFields, NowFields
<1>6. GetProviderConfig(c) => Goal
  BY TurnGetConfig, TurnsAt, TurnsDone, NowFields
<1>7. Tokenize(c) => Goal
  BY TurnTokenize, TurnsAt, TurnsLog, PlaceFields, NowFields, FindsFields
<1>8. RouteToLlm(c) => Goal
  BY TurnRouteToLlm, TurnsAt, SendsFields
<1>9. GetTokenMap(c) => Goal
  BY TurnGetTokenMap, TurnsLog, PlaceFields, NowFields
<1>10. LogEvent(c) => Goal
  BY TurnLogEvent, TurnsAfter
<1>11. Raise(c) => Goal
  BY TurnRaise, TurnsDone, NowFields
<1> QED
  BY <1>1, <1>2, <1>3, <1>4, <1>5, <1>6, <1>7, <1>8, <1>9, <1>10, <1>11 DEF Step

LEMMA ClearedNext ==
    ASSUME Types, Ownership, [Next]_vars, NEW d \in Calls
    PROVE  Cleared(d)'
<1>1. at[d].pc = "idle" => ~call[d].sent /\ Heading(d) = "idle"
  BY DEF Types, Located, Blank, Heading
<1>2. ASSUME Heading(d)' \in ClearedLabels => Heading(d) \in ClearedLabels,
             call'[d].sent => call[d].sent \/ Heading(d) \in ClearedLabels
      PROVE  Cleared(d)'
  <2> SUFFICES ASSUME Heading(d) \in ClearedLabels \/ call[d].sent PROVE Owns(d)'
    BY <1>2 DEF Cleared
  <2>1. Owns(d)
    BY DEF Ownership, Cleared
  <2>2. at[d].pc # "idle"
    BY <1>1 DEF ClearedLabels
  <2> QED
    BY <2>1, <2>2, OwnsKept
<1>3. CASE UNCHANGED <<at, call>>
  BY <1>2, <1>3 DEF Heading
<1>4. ASSUME Arrive(d) PROVE Cleared(d)'
  BY <1>4, Arrived, ArrivedHeading DEF Cleared, ClearedLabels
<1>5. ASSUME GetSessionOwner(d) PROVE Cleared(d)'
  <2> DEFINE o == owner[call[d].sess]
  <2>1. CASE /\ Matches(o, call[d].tok)
             /\ Turns(d, "get_owner", At("tokenize"), Now(d))
    <3>1. at[d].pc = "get_owner"
      BY <2>1, TurnsAt
    <3>2. call[d].sess \in Calls /\ call[d].tok \in Token
      BY <3>1 DEF Types, Located, Heading, ChatLabels, AuthLabels
    <3>3. /\ call[call[d].sess].route = "configure"
          /\ o = Identity(call[call[d].sess].tok)
      BY <2>1, <3>2 DEF Ownership, Owned, Matches
    <3>4. o = Identity(call[d].tok)
      BY <2>1, <3>3 DEF Matches, Identity
    <3>5. Owns(d)
      BY <3>2, <3>3, <3>4 DEF Owns
    <3> QED
      BY <3>1, <3>5, OwnsKept DEF Cleared
  <2>2. CASE Turns(d, "get_owner", Log(d, "auth_failure", Tenant(d), Done(403)), Now(d))
    <3>1. Heading(d)' = "done" /\ call'[d].sent = call[d].sent
      BY <2>2, TurnsLog, PlaceFields, NowFields
    <3> QED
      BY <1>2, <3>1 DEF ClearedLabels
  <2> QED
    BY <1>5, <2>1, <2>2, TurnGetOwner
<1>6. ASSUME Step(d) \/ Raise(d), ~GetSessionOwner(d) PROVE Cleared(d)'
  BY <1>2, <1>6, CheckedFirst
<1>7. ASSUME NEW c \in Calls, Arrive(c) \/ Step(c) \/ Raise(c), c # d PROVE Cleared(d)'
  <2>1. call'[d] = call[d] /\ Heading(d)' = Heading(d)
    BY <1>7, OthersStay
  <2> QED
    BY <1>2, <2>1
<1>8. ASSUME NEW t \in Held, Lapse(t) PROVE Cleared(d)'
  <2>1. call'[d].sent = call[d].sent /\ Heading(d)' = Heading(d)
    BY <1>8, LapseEffect DEF Types, Heading
  <2> QED
    BY <1>2, <2>1
<1> QED
  BY <1>3, <1>4, <1>5, <1>6, <1>7, <1>8 DEF Next, Expires, Revoke, KeyExpires, vars

\* Only messages of the identity that created a session are sent in it, whatever
\* expires, is revoked or fails in between.
THEOREM SentByOwner == Spec => []OnlyOwners
<1>1. Init => Ownership
  BY DEF Init, Ownership, Owned, Cleared, Heading, Idle, At, Blank, ClearedLabels
<1>2. Types /\ Ownership /\ [Next]_vars => Ownership'
  BY OwnedNext, ClearedNext DEF Ownership
<1>3. Ownership => OnlyOwners
  BY DEF Ownership, Cleared, Owns, OnlyOwners
<1> QED
  BY <1>1, <1>2, <1>3, TypesCorrect, PTL DEF Spec

-------------------------------------------------------------------------------
(* Privileges. *)

\* A token is for a role that is not privileged, or that its user was granted.
Rightful(t) == t.role \in PRIVILEGED_ROLES => Granted[t.sub] = t.role
MadeRightly(c) == \A t \in call[c].made : Rightful(t)

\* No privileged role gets into the users table.
UsersGranted == \A e \in Emails : users[e] \in PRIVILEGED_ROLES => Granted[e] = users[e]
Privileges == UsersGranted /\ \A c \in Calls : MadeRightly(c)

LEMMA IssuedRightly ==
    ASSUME TypeOK, NEW c \in Calls, NEW route, NEW role, NEW sub, NEW status,
           Issues(c, route, role, sub, status),
           role \in PRIVILEGED_ROLES => Granted[sub] = role
    PROVE  MadeRightly(c)'
<1>1. call'[c].made = issue_token(c, role, sub)
  BY ArrivesShape, ZenonT(60) DEF Issues
<1>2. \A t \in issue_token(c, role, sub) : t.role = role /\ t.sub = sub
  BY DEF issue_token
<1> QED
  BY <1>1, <1>2 DEF MadeRightly, Rightful

LEMMA NothingIssued ==
    ASSUME TypeOK, NEW c \in Calls, NEW route, NEW t, NEW s, NEW where,
           Arrives(c, route, t, s, where, {})
    PROVE  MadeRightly(c)'
<1> DEFINE none == {}
<1>1. Arrives(c, route, t, s, where, none)
  OBVIOUS
<1> HIDE DEF none
<1>2. call'[c].made = none
  BY <1>1, ArrivesShape, ZenonT(60)
<1> QED
  BY <1>2 DEF MadeRightly, none

\* Every arrival leaves the table and the call with what was granted.
LEMMA PrivilegesArrive ==
    ASSUME Types, Privileges, NEW c \in Calls, Arrive(c)
    PROVE  UsersGranted' /\ MadeRightly(c)'
<1> USE DEF Types
<1>1. ASSUME NEW route, NEW status, Refuses(c, route, status) \/ Fails(c, route, status)
      PROVE  MadeRightly(c)'
  BY <1>1, NothingIssued DEF Refuses, Fails
<1>2. UNCHANGED users => UsersGranted'
  BY DEF Privileges, UsersGranted
<1>3. ASSUME get_auth_token(c) PROVE UsersGranted' /\ MadeRightly(c)'
  <2>1. PICK role \in Roles \cup {NoRole}, sub \in Emails :
          \/ Refuses(c, "token", 403) \/ Fails(c, "token", 400)
          \/ role \notin PRIVILEGED_ROLES /\ Issues(c, "token", role, sub, 200)
    BY <1>3 DEF get_auth_token
  <2> QED
    BY <1>1, <1>2, <1>3, <2>1, IssuedRightly DEF get_auth_token
<1>4. ASSUME register(c) PROVE UsersGranted' /\ MadeRightly(c)'
  <2>1. PICK role \in Roles \cup {NoRole}, email \in Emails :
          \/ UNCHANGED users /\ Refuses(c, "register", 403)
          \/ role \notin PRIVILEGED_ROLES /\ Creates(c, email, role)
          \/ UNCHANGED users /\ Fails(c, "register", 409)
          \/ UNCHANGED users /\ Fails(c, "register", 400)
    BY <1>4 DEF register
  <2>2. CASE role \notin PRIVILEGED_ROLES /\ Creates(c, email, role)
    <3>1. users' = [users EXCEPT ![email] = role] /\ Issues(c, "register", role, email, 201)
      BY <2>2 DEF Creates
    <3>2. UsersGranted'
      BY <2>2, <3>1 DEF Privileges, UsersGranted, TypeOK
    <3> QED
      BY <2>2, <3>1, <3>2, IssuedRightly
  <2> QED
    BY <1>1, <1>2, <2>1, <2>2
<1>5. ASSUME login(c) PROVE UsersGranted' /\ MadeRightly(c)'
  <2>1. PICK email \in Emails :
          Refuses(c, "login", 401) \/ Issues(c, "login", users[email], email, 200)
    BY <1>5 DEF login
  <2>2. users[email] \in PRIVILEGED_ROLES => Granted[email] = users[email]
    BY DEF Privileges, UsersGranted
  <2> QED
    BY <1>1, <1>2, <1>5, <2>1, <2>2, IssuedRightly DEF login
<1>6. ASSUME configure_session(c) \/ get_audit_logs(c) \/ chat_completions(c)
      PROVE  UsersGranted' /\ MadeRightly(c)'
  BY <1>2, <1>6, NothingIssued DEF configure_session, get_audit_logs, chat_completions,
     Protected
<1> QED
  BY <1>3, <1>4, <1>5, <1>6 DEF Arrive

\* A privileged role is only in tokens of users who were granted it, whatever is
\* registered, requested and logged in, by any calls.
THEOREM PrivilegesGranted == Spec => []PrivilegeGranted
<1>1. Init => Privileges
  BY DEF Init, Privileges, UsersGranted, MadeRightly, Blank
<1>2. Types /\ Privileges /\ [Next]_vars => Privileges'
  <2> SUFFICES ASSUME Types, Privileges, [Next]_vars PROVE Privileges'
    OBVIOUS
  <2>1. ASSUME UNCHANGED users PROVE UsersGranted'
    BY <2>1 DEF Privileges, UsersGranted
  <2>2. ASSUME NEW d \in Calls, call'[d].made = call[d].made PROVE MadeRightly(d)'
    BY <2>2 DEF Privileges, MadeRightly
  <2>3. ASSUME NEW c \in Calls, Arrive(c) PROVE Privileges'
    BY <2>2, <2>3, PrivilegesArrive, OthersStay DEF Privileges
  <2>4. ASSUME NEW c \in Calls, Step(c) \/ Raise(c) PROVE Privileges'
    <3>1. PICK where, k : Turns(c, at[c].pc, where, k)
      BY <2>4, StepTurns
    <3>2. \A d \in Calls : call'[d].made = call[d].made
      BY <3>1 DEF Turns, Notes
    <3> QED
      BY <2>1, <2>2, <2>4, <3>2, StepStores DEF Privileges
  <2>5. CASE UNCHANGED <<users, call>>
    BY <2>1, <2>2, <2>5 DEF Privileges
  <2>6. ASSUME NEW t \in Held, Lapse(t) PROVE Privileges'
    BY <2>1, <2>2, <2>6, LapseEffect DEF Types, Privileges
  <2> QED
    BY <2>3, <2>4, <2>5, <2>6 DEF Next, Expires, Revoke, KeyExpires, vars
<1>3. Privileges => PrivilegeGranted
  BY DEF Privileges, MadeRightly, Rightful, PrivilegeGranted
<1> QED
  BY <1>1, <1>2, <1>3, TypesCorrect, PTL DEF Spec

-------------------------------------------------------------------------------
(* What is on record, and in which tenant. *)

\* An entry is of a call that has begun, and filed where it belongs.
Placed(e) == at[e.call].pc # "idle" /\ Belongs(e)
AuditPlaced == \A e \in audit : Placed(e)

\* The entry a call is about to log.
PendingPlaced(c) == at[c].pc = "log" => Placed(at[c].entry)

LEMMA ExpiredGrows == ASSUME Types, [Next]_vars PROVE expired \subseteq expired'
<1>1. ASSUME NEW c \in Calls, Arrive(c) PROVE expired' = expired
  BY <1>1, Arrived
<1>2. ASSUME NEW c \in Calls, Step(c) \/ Raise(c) PROVE expired' = expired
  BY <1>2, StepStores
<1> QED
  BY <1>1, <1>2 DEF Next, Expires, Revoke, Lapse, KeyExpires, vars

\* It stays there.
LEMMA PlacedKept ==
    ASSUME Types, [Next]_vars, NEW e \in Entry, Placed(e)
    PROVE  Placed(e)'
<1>1. e.call \in Calls
  BY DEF Entry
<1>2. Kept(e.call)
  BY <1>1, CallKept DEF Placed
<1>3. call'[e.call].tok = call[e.call].tok /\ at'[e.call].pc # "idle"
  BY <1>2 DEF Kept
<1>4. expired \subseteq expired'
  BY ExpiredGrows
<1> QED
  BY <1>3, <1>4 DEF Placed, Belongs

\* Entries are only added, by the call that logs them.
LEMMA AuditGrows ==
    ASSUME Types, [Next]_vars
    PROVE  \/ audit' = audit
           \/ \E c \in Calls : at[c].pc = "log" /\ audit' = audit \cup {at[c].entry}
<1>1. ASSUME NEW c \in Calls, Arrive(c) PROVE audit' = audit
  BY <1>1, Arrived DEF redis
<1>2. ASSUME NEW c \in Calls, LogEvent(c) \/ Raise(c)
      PROVE  audit' = audit \/ (at[c].pc = "log" /\ audit' = audit \cup {at[c].entry})
  BY <1>2 DEF LogEvent, Raise
<1>3. ASSUME NEW c \in Calls, Step(c), ~LogEvent(c) PROVE audit' = audit
  BY <1>3 DEF Step, RequireAuth, SetProviderConfig, SetSessionOwner, GetLogs, IsRevoked,
     GetProviderConfig, GetSessionOwner, Tokenize, RouteToLlm, GetTokenMap, redis
<1> QED
  BY <1>1, <1>2, <1>3 DEF Next, Expires, Revoke, Lapse, KeyExpires, vars, redis

\* What a step logs is in the tenant of its token.
LEMMA StepLogs ==
    ASSUME Types, NEW c \in Calls, Step(c) \/ Raise(c), at'[c].pc = "log"
    PROVE  at'[c].entry.tenant = Tenant(c) /\ call[c].tok \in Token
<1> DEFINE Goal == at'[c].pc # "log" \/ at'[c].entry.tenant = Tenant(c)
<1>1. RequireAuth(c) => Goal
  BY TurnRequireAuth, TurnsAt, TurnsDone, TurnsLog
<1>2. SetProviderConfig(c) => Goal
  BY TurnSetProvider, TurnsAt
<1>3. SetSessionOwner(c) => Goal
  BY TurnSetOwner, TurnsLog
<1>4. GetLogs(c) => Goal
  BY TurnGetLogs, TurnsDone
<1>5. IsRevoked(c) => Goal
  BY TurnIsRevoked, TurnsAt, TurnsLog
<1>6. GetProviderConfig(c) => Goal
  BY TurnGetConfig, TurnsAt, TurnsDone
<1>7. GetSessionOwner(c) => Goal
  BY TurnGetOwner, TurnsAt, TurnsLog
<1>8. Tokenize(c) => Goal
  BY TurnTokenize, TurnsAt, TurnsLog
<1>9. RouteToLlm(c) => Goal
  BY TurnRouteToLlm, TurnsAt
<1>10. GetTokenMap(c) => Goal
  BY TurnGetTokenMap, TurnsLog
<1>11. LogEvent(c) => Goal
  BY TurnLogEvent, TurnsAfter
<1>12. Raise(c) => Goal
  BY TurnRaise, TurnsDone
<1>13. ~LogEvent(c) /\ ~Raise(c)
  BY TurnLogEvent, TurnsAfter, TurnRaise, TurnsDone
<1>14. at[c].pc \in AuthLabels
  BY <1>13 DEF Step, RequireAuth, SetProviderConfig, SetSessionOwner, GetLogs, IsRevoked,
     GetProviderConfig, GetSessionOwner, Tokenize, RouteToLlm, GetTokenMap, AuthLabels,
     ChatLabels, ConfigureLabels
<1>15. call[c].tok \in Token
  <2>1. at[c].pc # "log"
    BY <1>14 DEF AuthLabels, ChatLabels, ConfigureLabels
  <2> QED
    BY <1>14, <2>1 DEF Types, Located, Heading
<1>16. Goal
  BY <1>1, <1>2, <1>3, <1>4, <1>5, <1>6, <1>7, <1>8, <1>9, <1>10, <1>11, <1>12 DEF Step
<1> QED
  BY <1>15, <1>16

\* What an arrival logs is in the default tenant, of a call without a token that is
\* still good.
LEMMA ArrivalLogs ==
    ASSUME Types, NEW c \in Calls, Arrive(c), at'[c].pc = "log"
    PROVE  /\ at'[c].entry.tenant = DEFAULT
           /\ \/ ~Presented(call'[c].tok)
              \/ at'[c].entry.event = "auth_failure" /\ call'[c].tok.jti \in expired
<1>1. PICK where \in Place, made \in SUBSET Token :
         /\ at'[c] = where
         /\ Begins(c, call'[c].route, call'[c].tok, call'[c].sess, where, made)
  BY Arrived
<1>2. \/ RefusesFirst(c, call'[c].route, call'[c].tok, where)
      \/ IssuesFirst(c, call'[c].route, call'[c].tok, where)
  BY <1>1 DEF Begins, Fails401, FailsEarly, Enrols, Done, At
<1> QED
  BY <1>1, <1>2 DEF RefusesFirst, IssuesFirst, Log, Presented, Valid

LEMMA PendingNext ==
    ASSUME Types, \A c \in Calls : PendingPlaced(c), [Next]_vars, NEW c \in Calls
    PROVE  PendingPlaced(c)'
<1> SUFFICES ASSUME at'[c].pc = "log" PROVE Placed(at[c].entry)'
  BY DEF PendingPlaced
<1>1. at'[c].entry \in Entry /\ at'[c].entry.call = c
  BY TypesNext DEF Types, Located
<1>2. ASSUME at'[c] = at[c] PROVE Placed(at[c].entry)'
  <2>1. PICK e \in Entry : e = at[c].entry
    BY <1>1, <1>2
  <2>2. Placed(e)
    BY <1>2, <2>1 DEF PendingPlaced
  <2>3. Placed(e)'
    BY <2>2, PlacedKept
  <2> QED
    BY <1>2, <2>1, <2>3 DEF Placed
<1>3. ASSUME Arrive(c) PROVE Placed(at[c].entry)'
  <2>1. expired' = expired
    BY <1>3, Arrived
  <2> QED
    BY <1>1, <1>3, <2>1, ArrivalLogs DEF Placed, Belongs
<1>4. ASSUME Step(c) \/ Raise(c) PROVE Placed(at[c].entry)'
  <2>1. call'[c].tok = call[c].tok
    <3>1. PICK where, k : Turns(c, at[c].pc, where, k)
      BY <1>4, StepTurns
    <3> QED
      BY <3>1 DEF Turns, Notes
  <2> QED
    BY <1>1, <1>4, <2>1, StepLogs DEF Placed, Belongs, Presented, Tenant
<1>5. ASSUME NEW d \in Calls, Arrive(d) \/ Step(d) \/ Raise(d), d # c
      PROVE  Placed(at[c].entry)'
  BY <1>2, <1>5, OthersStay
<1> QED
  BY <1>2, <1>3, <1>4, <1>5 DEF Next, Expires, Revoke, Lapse, KeyExpires, vars

LEMMA AuditPlacedNext ==
    ASSUME Types, AuditPlaced, \A c \in Calls : PendingPlaced(c), [Next]_vars
    PROVE  AuditPlaced'
<1>1. audit \subseteq Entry
  BY DEF Types, TypeOK
<1>2. ASSUME NEW e \in audit' PROVE e \in Entry /\ Placed(e)
  <2>1. CASE e \in audit
    BY <1>1, <2>1 DEF AuditPlaced
  <2>2. CASE e \notin audit
    <3>1. PICK c \in Calls : at[c].pc = "log" /\ e = at[c].entry
      BY <2>2, AuditGrows
    <3> QED
      BY <3>1 DEF PendingPlaced, Types, Located
  <2> QED
    BY <2>1, <2>2
<1>3. ASSUME NEW e \in audit' PROVE Placed(e)'
  BY <1>2, PlacedKept
<1> QED
  BY <1>3 DEF AuditPlaced

-------------------------------------------------------------------------------
(* What an administrator reads. *)

PagePlaced(c) ==
    \A e \in call[c].page :
        e \in Entry /\ Placed(e) /\ call[c].tok.role = ADMIN /\ e.tenant = call[c].tok.tenant

Tenancy ==
    /\ AuditPlaced
    /\ \A c \in Calls : PendingPlaced(c) /\ PagePlaced(c)

\* Only get_logs fills a page.
LEMMA PageStays ==
    ASSUME Types, NEW c \in Calls, Step(c) \/ Raise(c), ~GetLogs(c)
    PROVE  call'[c].page = call[c].page
<1> DEFINE Goal == call'[c].page = call[c].page
<1>1. RequireAuth(c) => Goal
  BY TurnRequireAuth, TurnsAt, TurnsDone, TurnsLog, NowFields
<1>2. SetProviderConfig(c) => Goal
  BY TurnSetProvider, TurnsAt, NowFields
<1>3. SetSessionOwner(c) => Goal
  BY TurnSetOwner, TurnsLog, NowFields
<1>4. IsRevoked(c) => Goal
  BY TurnIsRevoked, TurnsAt, TurnsLog, NowFields
<1>5. GetProviderConfig(c) => Goal
  BY TurnGetConfig, TurnsAt, TurnsDone, NowFields
<1>6. GetSessionOwner(c) => Goal
  BY TurnGetOwner, TurnsAt, TurnsLog, NowFields
<1>7. Tokenize(c) => Goal
  <2>1. ASSUME NEW k, NEW where, Turns(c, "tokenize", where, k), k.page = call[c].page
        PROVE  Goal
    BY <2>1 DEF Turns, Notes
  <2> QED
    BY <2>1, TurnTokenize, NowFields, FindsFields
<1>8. RouteToLlm(c) => Goal
  <2>1. RouteToLlm(c) => call'[c].page = Sends(c).page
    BY TurnRouteToLlm, TurnsAt
  <2> QED
    BY <2>1, SendsFields
<1>9. GetTokenMap(c) => Goal
  BY TurnGetTokenMap, TurnsLog, NowFields
<1>10. LogEvent(c) => Goal
  BY TurnLogEvent, TurnsAfter
<1>11. Raise(c) => Goal
  BY TurnRaise, TurnsDone, NowFields
<1> QED
  BY <1>1, <1>2, <1>3, <1>4, <1>5, <1>6, <1>7, <1>8, <1>9, <1>10, <1>11 DEF Step

LEMMA PageNext ==
    ASSUME Types, Tenancy, [Next]_vars, NEW c \in Calls
    PROVE  PagePlaced(c)'
<1>1. ASSUME call'[c].page = call[c].page PROVE PagePlaced(c)'
  <2> SUFFICES ASSUME NEW e \in call[c].page
               PROVE  /\ e \in Entry /\ Placed(e)'
                      /\ call'[c].tok.role = ADMIN /\ e.tenant = call'[c].tok.tenant
    BY <1>1 DEF PagePlaced
  <2>1. /\ e \in Entry /\ Placed(e)
        /\ call[c].tok.role = ADMIN /\ e.tenant = call[c].tok.tenant
    BY DEF Tenancy, PagePlaced
  <2>2. at[c].pc # "idle"
    BY DEF Types, Located, Blank
  <2>3. call'[c].tok = call[c].tok
    BY <2>2, CallKept DEF Kept
  <2> QED
    BY <2>1, <2>3, PlacedKept
<1>2. ASSUME GetLogs(c) PROVE PagePlaced(c)'
  <2>1. at[c].pc = "get_logs" /\ audit' = audit
    BY <1>2 DEF GetLogs, redis
  <2>2. call'[c].page = {e \in audit : e.tenant = call[c].tok.tenant}
    <3> DEFINE page == get_logs(Tenant(c))
    <3>1. call'[c].page = Reads(c, page).page
      BY <1>2, TurnGetLogs, TurnsDone
    <3>2. Reads(c, page).page = page
      BY ReadsFields
    <3> QED
      BY <3>1, <3>2 DEF get_logs, Tenant
  <2>3. call[c].tok.role = ADMIN /\ call'[c].tok = call[c].tok
    BY <2>1, CallKept DEF Types, Located, Heading, Kept
  <2>4. AuditPlaced' /\ audit \subseteq Entry
    BY AuditPlacedNext DEF Tenancy, Types, TypeOK
  <2> QED
    BY <2>1, <2>2, <2>3, <2>4 DEF PagePlaced, AuditPlaced
<1>3. ASSUME Arrive(c) PROVE PagePlaced(c)'
  BY <1>3, Arrived DEF PagePlaced
<1>4. ASSUME Step(c) \/ Raise(c), ~GetLogs(c) PROVE PagePlaced(c)'
  BY <1>1, <1>4, PageStays
<1>5. ASSUME NEW d \in Calls, Arrive(d) \/ Step(d) \/ Raise(d), d # c PROVE PagePlaced(c)'
  BY <1>1, <1>5, OthersStay
<1>6. ASSUME NEW t \in Held, Lapse(t) PROVE PagePlaced(c)'
  BY <1>1, <1>6, LapseEffect DEF Types
<1> QED
  BY <1>1, <1>2, <1>3, <1>4, <1>5, <1>6 DEF Next, Expires, Revoke, KeyExpires, vars

LEMMA TenancyInit == Init => Tenancy
BY DEF Init, Tenancy, AuditPlaced, PendingPlaced, PagePlaced, Idle, At, Blank

LEMMA TenancyNext == Types /\ Tenancy /\ [Next]_vars => Tenancy'
BY AuditPlacedNext, PendingNext, PageNext DEF Tenancy

\* An administrator reads the entries filed under the tenant of the token, and those
\* are of that tenant's users, however the appends of several tenants interleave.  Only
\* the default tenant's administrator reads more: refusals of callers without a token
\* or with a forged one, and of expired tokens of any tenant.
THEOREM TenantsApart == Spec => []TenantScoped
<1>1. Tenancy => TenantScoped
  BY DEF Tenancy, PagePlaced, Placed, TenantScoped
<1> QED
  BY <1>1, TenancyInit, TenancyNext, TypesCorrect, PTL DEF Spec

-------------------------------------------------------------------------------
(* What is on record before what. *)

\* On record, or about to be.
Recorded(c, event) ==
    OnRecord(c, event) \/ (at[c].pc = "log" /\ at[c].entry.event = event)

LEMMA RecordKept ==
    ASSUME Types, [Next]_vars, NEW c \in Calls, at[c].pc # "idle", NEW event,
           OnRecord(c, event)
    PROVE  OnRecord(c, event)'
<1>1. audit \subseteq audit' /\ audit \subseteq Entry
  BY AuditGrows DEF Types, TypeOK
<1>2. PICK e \in audit : e.event = event /\ e.call = c /\ Belongs(e)
  BY DEF OnRecord
<1>3. Placed(e)
  BY <1>2 DEF Placed
<1>4. Placed(e)'
  BY <1>1, <1>3, PlacedKept
<1> QED
  BY <1>1, <1>2, <1>4 DEF OnRecord, Placed

\* What is about to be logged is on record when log_event returns.
LEMMA LoggedThen ==
    ASSUME Types, NEW c \in Calls, PendingPlaced(c), LogEvent(c),
           NEW event, at[c].entry.event = event
    PROVE  OnRecord(c, event)'
<1>1. at[c].pc = "log" /\ audit' = audit \cup {at[c].entry} /\ UNCHANGED <<expired, call>>
  BY DEF LogEvent, Goes
<1>2. PICK e \in Entry : e = at[c].entry
  BY <1>1 DEF Types, Located
<1>3. e \in audit' /\ e.call = c /\ Placed(e)
  BY <1>1, <1>2 DEF PendingPlaced, Types, Located
<1>4. Belongs(e)'
  BY <1>1, <1>3 DEF Placed, Belongs
<1> QED
  BY <1>1, <1>2, <1>3, <1>4 DEF OnRecord

LEMMA RecordedKept ==
    ASSUME Types, \A d \in Calls : PendingPlaced(d), [Next]_vars, NEW c \in Calls,
           at[c].pc # "idle", NEW event, Recorded(c, event), ~Raise(c)
    PROVE  Recorded(c, event)'
<1>1. CASE OnRecord(c, event)
  BY <1>1, RecordKept DEF Recorded
<1>2. CASE at[c].pc = "log" /\ at[c].entry.event = event
  <2>1. CASE at'[c] = at[c]
    BY <1>2, <2>1 DEF Recorded
  <2>2. CASE LogEvent(c)
    BY <1>2, <2>2, LoggedThen DEF Recorded
  <2>3. ASSUME Step(c) PROVE LogEvent(c)
    BY <1>2, <2>3 DEF Step, RequireAuth, SetProviderConfig, SetSessionOwner, GetLogs,
       IsRevoked, GetProviderConfig, GetSessionOwner, Tokenize, RouteToLlm, GetTokenMap
  <2>4. ASSUME NEW d \in Calls, Arrive(d) \/ Step(d) \/ Raise(d), d # c
        PROVE  at'[c] = at[c]
    BY <2>4, OthersStay
  <2>5. ~Arrive(c)
    BY <1>2 DEF Arrive
  <2> QED
    BY <2>1, <2>2, <2>3, <2>4, <2>5 DEF Next, Expires, Revoke, Lapse, KeyExpires, vars
<1> QED
  BY <1>1, <1>2 DEF Recorded

\* PII is on record, or about to be, until the call fails; and is when the prompt is sent.
PiiKnown(c) ==
    /\ call[c].sent => Heading(c) \in {"get_token_map", "done"}
    /\ call[c].pii /\ Heading(c) # "done" => Recorded(c, "pii_detected")
    /\ call[c].pii /\ call[c].sent => OnRecord(c, "pii_detected")

\* So is the outcome of a call.
OutcomeKnown(c) ==
    /\ Heading(c) = "get_logs" => Recorded(c, "admin_access")
    /\ Heading(c) = "done" /\ at[c].status \in {200, 201}
          => Recorded(c, SuccessEvent[call[c].route])
    /\ Heading(c) = "done" /\ at[c].status \in {401, 403}
            /\ call[c].route \notin {"configure", "audit"}
          => \/ Recorded(c, "auth_failure")
             \/ call[c].route = "chat" /\ call[c].tok = NoToken

Logging ==
    \A c \in Calls : PendingPlaced(c) /\ PiiKnown(c) /\ OutcomeKnown(c)

\* A call that is left alone.
LEMMA KnownStays ==
    ASSUME Types, Logging, [Next]_vars, NEW c \in Calls, at'[c] = at[c],
           call'[c].route = call[c].route, call'[c].tok = call[c].tok,
           call'[c].pii = call[c].pii, call'[c].sent = call[c].sent
    PROVE  PiiKnown(c)' /\ OutcomeKnown(c)'
<1>1. ASSUME at[c].pc # "idle", NEW event, OnRecord(c, event) PROVE OnRecord(c, event)'
  BY <1>1, RecordKept
<1>2. ASSUME at[c].pc # "idle", NEW event, Recorded(c, event) PROVE Recorded(c, event)'
  BY <1>1, <1>2 DEF Recorded
<1>3. CASE at[c].pc = "idle"
  BY <1>3 DEF Types, Located, Blank, Heading, PiiKnown, OutcomeKnown
<1>4. CASE at[c].pc # "idle"
  <2>1. Heading(c)' = Heading(c)
    BY DEF Heading
  <2>2. PiiKnown(c) /\ OutcomeKnown(c)
    BY DEF Logging
  <2> QED
    BY <1>1, <1>2, <1>4, <2>1, <2>2 DEF PiiKnown, OutcomeKnown
<1> QED
  BY <1>3, <1>4

\* A new call.
LEMMA KnownArrive ==
    ASSUME Types, NEW c \in Calls, Arrive(c)
    PROVE  PiiKnown(c)' /\ OutcomeKnown(c)'
<1> DEFINE route == call'[c].route
           t == call'[c].tok
<1>1. PICK where \in Place, made \in SUBSET Token :
         /\ at'[c] = where
         /\ Begins(c, route, t, call'[c].sess, where, made)
  BY Arrived
<1>2. PiiKnown(c)'
  BY Arrived DEF PiiKnown
<1>3. Heading(c)' # "get_logs"
  BY ArrivedHeading
<1> HIDE DEF route, t
<1>4. CASE Fails401(route, t, where)
  <2>1. at'[c].status = 401 /\ (route \in {"configure", "audit"} \/ (route = "chat" /\ t = NoToken))
    BY <1>1, <1>4 DEF Fails401, Done
  <2> QED
    BY <1>2, <1>3, <2>1 DEF OutcomeKnown, route, t
<1>5. CASE FailsEarly(route, where)
  <2>1. at'[c].status \in {400, 409}
    BY <1>1, <1>5 DEF FailsEarly, Done
  <2> QED
    BY <1>2, <1>3, <2>1 DEF OutcomeKnown
<1>6. CASE RefusesFirst(c, route, t, where)
  <2>1. at'[c].status \in {401, 403} /\ at'[c].pc = "log"
        /\ at'[c].entry.event = "auth_failure"
    BY <1>1, <1>6 DEF RefusesFirst, Log, Done
  <2> QED
    BY <1>2, <1>3, <2>1 DEF OutcomeKnown, Recorded
<1>7. CASE IssuesFirst(c, route, t, where)
  <2>1. at'[c].status \in {200, 201} /\ at'[c].pc = "log"
        /\ at'[c].entry.event = "auth_token_issued"
    BY <1>1, <1>7 DEF IssuesFirst, Log, Done
  <2>2. SuccessEvent[route] = "auth_token_issued"
    BY <1>7 DEF IssuesFirst, AccountRoutes, SuccessEvent, RouteNames
  <2> QED
    BY <1>2, <1>3, <2>1, <2>2 DEF OutcomeKnown, Recorded, route
<1>8. CASE Enrols(route, t, where)
  <2>1. Heading(c)' \in {"require_auth", "is_revoked"}
    BY <1>1, <1>8 DEF Enrols, At, Heading
  <2> QED
    BY <1>2, <2>1 DEF OutcomeKnown
<1> QED
  BY <1>1, <1>4, <1>5, <1>6, <1>7, <1>8 DEF Begins

\* A step that finds and sends nothing.
LEMMA PiiQuiet ==
    ASSUME Types, Logging, [Next]_vars, NEW c \in Calls, ~Raise(c), at[c].pc # "idle",
           call'[c].pii = call[c].pii, call'[c].sent = call[c].sent,
           Heading(c) = "done" => Heading(c)' = "done",
           Heading(c) = "get_token_map" => Heading(c)' \in {"get_token_map", "done"}
    PROVE  PiiKnown(c)'
<1>1. PiiKnown(c) /\ \A d \in Calls : PendingPlaced(d)
  BY DEF Logging
<1>2. Recorded(c, "pii_detected") => Recorded(c, "pii_detected")'
  BY <1>1, RecordedKept
<1>3. OnRecord(c, "pii_detected") => OnRecord(c, "pii_detected")'
  BY RecordKept
<1> QED
  BY <1>1, <1>2, <1>3 DEF PiiKnown

\* A step that ends in a place that says nothing of the outcome.
LEMMA OutcomeOpen ==
    ASSUME NEW c \in Calls, Heading(c)' # "get_logs",
           Heading(c)' = "done" => at'[c].status \in {400, 404, 409, 422, 500, 502}
    PROVE  OutcomeKnown(c)'
BY DEF OutcomeKnown

\* The steps of a call.
LEMMA KnownRequireAuth ==
    ASSUME Types, Logging, [Next]_vars, NEW c \in Calls, RequireAuth(c), ~Raise(c)
    PROVE  PiiKnown(c)' /\ OutcomeKnown(c)'
<1>1. at[c].pc = "require_auth"
  BY DEF RequireAuth
<1>2. Heading(c) = "require_auth" /\ call[c].route \in {"configure", "audit"}
  BY <1>1 DEF Heading, Types, Located
<1>3. call'[c].route = call[c].route
  BY <1>1, CallKept DEF Kept
<1>4. /\ call'[c].pii = call[c].pii /\ call'[c].sent = call[c].sent
      /\ \/ Heading(c)' = "done" /\ at'[c].status \in {401, 403}
         \/ Heading(c)' = "set_provider"
         \/ Heading(c)' = "get_logs" /\ at'[c].pc = "log"
            /\ at'[c].entry.event = "admin_access"
  BY TurnRequireAuth, TurnsAt, TurnsDone, TurnsLog, PlaceFields, NowFields
<1>5. PiiKnown(c)'
  BY <1>1, <1>2, <1>4, PiiQuiet
<1>6. OutcomeKnown(c)'
  BY <1>2, <1>3, <1>4 DEF OutcomeKnown, Recorded
<1> QED
  BY <1>5, <1>6

LEMMA KnownConfigure ==
    ASSUME Types, Logging, [Next]_vars, NEW c \in Calls, ~Raise(c),
           SetProviderConfig(c) \/ SetSessionOwner(c)
    PROVE  PiiKnown(c)' /\ OutcomeKnown(c)'
<1>1. at[c].pc \in {"set_provider", "set_owner"}
  BY DEF SetProviderConfig, SetSessionOwner
<1>2. Heading(c) = at[c].pc /\ call[c].route = "configure"
  BY <1>1 DEF Heading, Types, Located, ConfigureLabels
<1>3. call'[c].route = call[c].route
  BY <1>1, CallKept DEF Kept
<1>4. /\ call'[c].pii = call[c].pii /\ call'[c].sent = call[c].sent
      /\ \/ Heading(c)' = "set_owner"
         \/ Heading(c)' = "done" /\ at'[c].status = 200 /\ at'[c].pc = "log"
            /\ at'[c].entry.event = "session_create"
  BY TurnSetProvider, TurnSetOwner, TurnsAt, TurnsLog, PlaceFields, NowFields
<1>5. PiiKnown(c)'
  BY <1>1, <1>2, <1>4, PiiQuiet
<1>6. SuccessEvent["configure"] = "session_create"
  BY DEF SuccessEvent, RouteNames
<1>7. OutcomeKnown(c)'
  BY <1>2, <1>3, <1>4, <1>6 DEF OutcomeKnown, Recorded
<1> QED
  BY <1>5, <1>7

LEMMA KnownGetLogs ==
    ASSUME Types, Logging, [Next]_vars, NEW c \in Calls, GetLogs(c), ~Raise(c)
    PROVE  PiiKnown(c)' /\ OutcomeKnown(c)'
<1>1. at[c].pc = "get_logs"
  BY DEF GetLogs
<1>2. Heading(c) = "get_logs" /\ call[c].route = "audit"
  BY <1>1 DEF Heading, Types, Located
<1>3. call'[c].route = call[c].route
  BY <1>1, CallKept DEF Kept
<1>4. Recorded(c, "admin_access")'
  BY <1>1, <1>2, RecordedKept DEF Logging, OutcomeKnown
<1>5. Heading(c)' = "done" /\ at'[c].status = 200
  BY TurnGetLogs, TurnsDone
<1>6. call'[c].pii = call[c].pii /\ call'[c].sent = call[c].sent
  <2> DEFINE page == get_logs(Tenant(c))
  <2>1. call'[c].pii = Reads(c, page).pii /\ call'[c].sent = Reads(c, page).sent
    BY TurnGetLogs, TurnsDone
  <2> QED
    BY <2>1, ReadsFields
<1>7. PiiKnown(c)'
  BY <1>1, <1>2, <1>5, <1>6, PiiQuiet
<1>8. SuccessEvent["audit"] = "admin_access"
  BY DEF SuccessEvent, RouteNames
<1>9. OutcomeKnown(c)'
  BY <1>2, <1>3, <1>4, <1>5, <1>8 DEF OutcomeKnown
<1> QED
  BY <1>7, <1>9

LEMMA KnownChecks ==
    ASSUME Types, Logging, [Next]_vars, NEW c \in Calls, ~Raise(c),
           IsRevoked(c) \/ GetProviderConfig(c) \/ GetSessionOwner(c)
    PROVE  PiiKnown(c)' /\ OutcomeKnown(c)'
<1>1. at[c].pc \in {"is_revoked", "get_config", "get_owner"}
  BY DEF IsRevoked, GetProviderConfig, GetSessionOwner
<1>2. Heading(c) = at[c].pc
  BY <1>1 DEF Heading
<1>3. /\ call'[c].pii = call[c].pii /\ call'[c].sent = call[c].sent
      /\ \/ Heading(c)' \in {"get_config", "get_owner", "tokenize"}
         \/ Heading(c)' = "done" /\ at'[c].status = 404
         \/ Heading(c)' = "done" /\ at'[c].status \in {401, 403} /\ at'[c].pc = "log"
            /\ at'[c].entry.event = "auth_failure"
  BY TurnIsRevoked, TurnGetConfig, TurnGetOwner, TurnsAt, TurnsDone, TurnsLog,
     PlaceFields, NowFields
<1>4. PiiKnown(c)'
  BY <1>1, <1>2, <1>3, PiiQuiet
<1>5. OutcomeKnown(c)'
  BY <1>3 DEF OutcomeKnown, Recorded
<1> QED
  BY <1>4, <1>5

LEMMA KnownTokenize ==
    ASSUME Types, Logging, [Next]_vars, NEW c \in Calls, Tokenize(c), ~Raise(c)
    PROVE  PiiKnown(c)' /\ OutcomeKnown(c)'
<1>1. at[c].pc = "tokenize" /\ Heading(c) = "tokenize"
  BY DEF Tokenize, Heading
<1>2. CASE Turns(c, "tokenize", At("llm"), Now(c))
  <2>1. Heading(c)' = "llm" /\ call'[c].pii = call[c].pii /\ call'[c].sent = call[c].sent
    BY <1>2, TurnsAt, NowFields
  <2> QED
    BY <1>1, <2>1, PiiQuiet, OutcomeOpen
<1>3. CASE Turns(c, "tokenize", Log(c, "pii_detected", Tenant(c), At("llm")), Finds(c))
  <2>1. /\ Heading(c)' = "llm" /\ at'[c].pc = "log"
        /\ at'[c].entry.event = "pii_detected"
    BY <1>3, TurnsLog, PlaceFields
  <2>2. call'[c].sent = Finds(c).sent
    BY <1>3, TurnsLog
  <2>3. call'[c].sent = call[c].sent
    BY <2>2, FindsFields
  <2>4. ~call[c].sent
    BY <1>1 DEF Logging, PiiKnown
  <2> QED
    BY <2>1, <2>3, <2>4, OutcomeOpen DEF PiiKnown, Recorded
<1> QED
  BY <1>2, <1>3, TurnTokenize

LEMMA KnownRouteToLlm ==
    ASSUME Types, Logging, [Next]_vars, NEW c \in Calls, RouteToLlm(c), ~Raise(c)
    PROVE  PiiKnown(c)' /\ OutcomeKnown(c)'
<1>1. at[c].pc = "llm" /\ Heading(c) = "llm"
  BY DEF RouteToLlm, Heading
<1>2. Heading(c)' = "get_token_map" /\ call'[c].pii = Sends(c).pii
  BY TurnRouteToLlm, TurnsAt
<1>3. call'[c].pii = call[c].pii
  BY <1>2, SendsFields
<1>4. call[c].pii => OnRecord(c, "pii_detected")
  BY <1>1 DEF Logging, PiiKnown, Recorded
<1>5. call[c].pii => OnRecord(c, "pii_detected")'
  BY <1>1, <1>4, RecordKept
<1> QED
  BY <1>2, <1>3, <1>5, OutcomeOpen DEF PiiKnown, Recorded

LEMMA KnownGetTokenMap ==
    ASSUME Types, Logging, [Next]_vars, NEW c \in Calls, GetTokenMap(c), ~Raise(c)
    PROVE  PiiKnown(c)' /\ OutcomeKnown(c)'
<1>1. at[c].pc = "get_token_map"
  BY DEF GetTokenMap
<1>2. Heading(c) = "get_token_map" /\ call[c].route = "chat"
  BY <1>1 DEF Heading, Types, Located, ChatLabels
<1>3. call'[c].route = call[c].route
  BY <1>1, CallKept DEF Kept
<1>4. /\ call'[c].pii = call[c].pii /\ call'[c].sent = call[c].sent
      /\ Heading(c)' = "done" /\ at'[c].status = 200 /\ at'[c].pc = "log"
      /\ at'[c].entry.event = "chat_request"
  BY TurnGetTokenMap, TurnsLog, PlaceFields, NowFields
<1>5. PiiKnown(c)'
  BY <1>1, <1>2, <1>4, PiiQuiet
<1>6. SuccessEvent["chat"] = "chat_request"
  BY DEF SuccessEvent, RouteNames
<1>7. OutcomeKnown(c)'
  BY <1>2, <1>3, <1>4, <1>6 DEF OutcomeKnown, Recorded
<1> QED
  BY <1>5, <1>7

LEMMA KnownLogEvent ==
    ASSUME Types, Logging, [Next]_vars, NEW c \in Calls, LogEvent(c), ~Raise(c)
    PROVE  PiiKnown(c)' /\ OutcomeKnown(c)'
<1>1. /\ at[c].pc = "log"
      /\ Heading(c)' = Heading(c) /\ at'[c].status = at[c].status
      /\ call'[c].pii = call[c].pii /\ call'[c].sent = call[c].sent
  BY TurnLogEvent, TurnsAfter
<1>2. PiiKnown(c)'
  BY <1>1, PiiQuiet
<1>3. call'[c].route = call[c].route /\ call'[c].tok = call[c].tok
  BY <1>1, CallKept DEF Kept
<1>4. ASSUME NEW event, Recorded(c, event) PROVE Recorded(c, event)'
  BY <1>1, <1>4, RecordedKept DEF Logging
<1>5. OutcomeKnown(c)'
  <2>1. OutcomeKnown(c)
    BY DEF Logging
  <2> QED
    BY <1>1, <1>3, <1>4, <2>1 DEF OutcomeKnown
<1> QED
  BY <1>2, <1>5

LEMMA KnownRaise ==
    ASSUME Types, Logging, [Next]_vars, NEW c \in Calls, Raise(c)
    PROVE  PiiKnown(c)' /\ OutcomeKnown(c)'
<1>1. /\ Heading(c)' = "done" /\ at'[c].status \in {422, 500, 502}
      /\ call'[c].pii = call[c].pii /\ call'[c].sent = call[c].sent
  BY TurnRaise, TurnsDone, NowFields
<1>2. at[c].pc # "idle"
  BY DEF Raise, Active
<1>3. PiiKnown(c)'
  BY <1>1, <1>2, RecordKept DEF Logging, PiiKnown
<1> QED
  BY <1>1, <1>3, OutcomeOpen

LEMMA LoggingInit == Init => Logging
BY DEF Init, Logging, PendingPlaced, PiiKnown, OutcomeKnown, Heading, Idle, At, Blank

LEMMA LoggingNext == Types /\ Logging /\ [Next]_vars => Logging'
<1> SUFFICES ASSUME Types, Logging, [Next]_vars, NEW c \in Calls
             PROVE  PendingPlaced(c)' /\ PiiKnown(c)' /\ OutcomeKnown(c)'
  BY DEF Logging
<1>1. PendingPlaced(c)'
  BY PendingNext DEF Logging
<1>2. CASE UNCHANGED <<at, call>>
  BY <1>1, <1>2, KnownStays
<1>3. CASE Arrive(c)
  BY <1>1, <1>3, KnownArrive
<1>4. CASE Raise(c)
  BY <1>1, <1>4, KnownRaise
<1>5. CASE Step(c) /\ ~Raise(c)
  BY <1>1, <1>5, KnownRequireAuth, KnownConfigure, KnownGetLogs, KnownChecks,
     KnownTokenize, KnownRouteToLlm, KnownGetTokenMap, KnownLogEvent DEF Step
<1>6. ASSUME NEW d \in Calls, Arrive(d) \/ Step(d) \/ Raise(d), d # c
      PROVE  PiiKnown(c)' /\ OutcomeKnown(c)'
  BY <1>6, OthersStay, KnownStays
<1>7. ASSUME NEW t \in Held, Lapse(t) PROVE PiiKnown(c)' /\ OutcomeKnown(c)'
  BY <1>7, LapseEffect, KnownStays DEF Types
<1> QED
  BY <1>1, <1>2, <1>3, <1>4, <1>5, <1>6, <1>7 DEF Next, Expires, Revoke, KeyExpires, vars

\* No token, session id, page or answer leaves the gateway before it is on record where
\* it belongs, whatever raises in between; nor does a 401 or 403 of the routes that
\* issue tokens or of chat, but for a chat without a bearer.  The 401 and 403 of
\* _require_auth and _require_admin, and other failures, are not recorded.
THEOREM RecordFirst == Spec => []LoggedFirst
<1>1. Types /\ Logging => LoggedFirst
  BY DEF Logging, OutcomeKnown, Recorded, LoggedFirst, Ended, Heading
<1> QED
  BY <1>1, LoggingInit, LoggingNext, TypesCorrect, PTL DEF Spec

\* A prompt with PII in it is sent only after the finding is on record.
THEOREM FindingFirst == Spec => []PiiLogged
<1>1. Logging => PiiLogged
  BY DEF Logging, PiiKnown, PiiLogged
<1> QED
  BY <1>1, LoggingInit, LoggingNext, TypesCorrect, PTL DEF Spec

-------------------------------------------------------------------------------
(* What a revoked token gets. *)

\* A call whose token was on the denylist when it came, and still is, is at the check,
\* or over without success; and it has stored nothing.
ShutOut(c) ==
    call[c].barred =>
        /\ Active(c) => call[c].tok.jti \in revoked
        /\ Heading(c) \in {"require_auth", "is_revoked", "done"}
        /\ Heading(c) = "done" => at[c].status \notin {200, 201}
        /\ ~call[c].sent
        /\ c \notin provider /\ owner[c] = NoOwner

\* Only a call that has begun has keys.
KeysOf(c) ==
    at[c].pc = "idle" => c \notin provider /\ owner[c] = NoOwner

Denylist == \A c \in Calls : ShutOut(c) /\ KeysOf(c)

\* Keys are written by their own call only, when it configures.
LEMMA KeysWritten ==
    ASSUME Types, [Next]_vars, NEW c \in Calls, c \notin provider, owner[c] = NoOwner,
           at[c].pc \notin {"set_provider", "set_owner"}
    PROVE  c \notin provider' /\ owner'[c] = NoOwner
<1> USE DEF Types, TypeOK
<1>1. ASSUME NEW d \in Calls, SetProviderConfig(d) PROVE c \notin provider' /\ owner'[c] = NoOwner
  BY <1>1 DEF SetProviderConfig
<1>2. ASSUME NEW d \in Calls, SetSessionOwner(d) PROVE c \notin provider' /\ owner'[c] = NoOwner
  BY <1>2 DEF SetSessionOwner
<1>3. ASSUME NEW d \in Calls, KeyExpires(d) PROVE c \notin provider' /\ owner'[c] = NoOwner
  BY <1>3 DEF KeyExpires
<1>4. CASE UNCHANGED <<provider, owner>>
  BY <1>4
<1>5. ASSUME NEW d \in Calls, Arrive(d) PROVE UNCHANGED <<provider, owner>>
  BY <1>5, Arrived DEF redis
<1> QED
  BY <1>1, <1>2, <1>3, <1>4, <1>5 DEF Next, Step, RequireAuth, GetLogs, IsRevoked,
     GetProviderConfig, GetSessionOwner, Tokenize, RouteToLlm, GetTokenMap, LogEvent,
     Raise, Expires, Revoke, Lapse, vars, redis

\* An arrival with a revoked token does not succeed.
LEMMA BarredArrives ==
    ASSUME Types, NEW c \in Calls, Arrive(c), call'[c].barred
    PROVE  /\ call'[c].tok.jti \in revoked /\ ~call'[c].sent
           /\ Heading(c)' \in {"require_auth", "is_revoked", "done"}
           /\ Heading(c)' = "done" => at'[c].status \notin {200, 201}
<1> DEFINE route == call'[c].route
           t == call'[c].tok
<1>1. PICK where \in Place, made \in SUBSET Token :
         /\ at'[c] = where
         /\ Begins(c, route, t, call'[c].sess, where, made)
  BY Arrived
<1>2. Presented(t) /\ t.jti \in revoked /\ ~call'[c].sent
  BY Arrived
<1> HIDE DEF route, t
<1>3. ~IssuesFirst(c, route, t, where)
  BY <1>2 DEF IssuesFirst, Presented
<1>4. at'[c].status \notin {200, 201}
  BY <1>1, <1>3 DEF Begins, Fails401, FailsEarly, RefusesFirst, Enrols, Done, Log, At
<1> QED
  BY <1>2, <1>4, ArrivedHeading DEF t

\* The check turns it away.
LEMMA BarredSteps ==
    ASSUME Types, NEW c \in Calls, Step(c) \/ Raise(c), ShutOut(c), call[c].barred
    PROVE  /\ Heading(c)' \in {"require_auth", "is_revoked", "done"}
           /\ Heading(c)' = "done" => at'[c].status \notin {200, 201}
           /\ call'[c].sent = call[c].sent
<1> DEFINE Goal == /\ Heading(c)' \in {"require_auth", "is_revoked", "done"}
                   /\ Heading(c)' = "done" => at'[c].status \notin {200, 201}
                   /\ call'[c].sent = call[c].sent
<1>1. /\ Active(c) => call[c].tok.jti \in revoked
      /\ Heading(c) \in {"require_auth", "is_revoked", "done"}
      /\ Heading(c) = "done" => at[c].status \notin {200, 201}
  BY DEF ShutOut
<1>2. CASE RequireAuth(c)
  <2>1. Active(c)
    BY <1>2 DEF RequireAuth, Active
  <2> QED
    BY <1>1, <1>2, <2>1, TurnRequireAuth, TurnsDone, NowFields
<1>3. CASE IsRevoked(c)
  <2>1. Active(c)
    BY <1>3 DEF IsRevoked, Active
  <2> QED
    BY <1>1, <1>3, <2>1, TurnIsRevoked, TurnsLog, PlaceFields, NowFields
<1>4. CASE LogEvent(c)
  BY <1>1, <1>4, TurnLogEvent, TurnsAfter
<1>5. CASE Raise(c)
  BY <1>5, TurnRaise, TurnsDone, NowFields
<1>6. ~(\/ SetProviderConfig(c) \/ SetSessionOwner(c) \/ GetLogs(c)
        \/ GetProviderConfig(c) \/ GetSessionOwner(c) \/ Tokenize(c) \/ RouteToLlm(c)
        \/ GetTokenMap(c))
  BY <1>1 DEF Heading, SetProviderConfig, SetSessionOwner, GetLogs, GetProviderConfig,
     GetSessionOwner, Tokenize, RouteToLlm, GetTokenMap
<1> QED
  BY <1>2, <1>3, <1>4, <1>5, <1>6 DEF Step

LEMMA ShutOutNext ==
    ASSUME Types, Denylist, [Next]_vars, NEW c \in Calls
    PROVE  ShutOut(c)'
<1> SUFFICES ASSUME call'[c].barred PROVE ShutOut(c)'
  BY DEF ShutOut
<1>1. ASSUME Arrive(c) PROVE ShutOut(c)'
  <2>1. at[c].pc = "idle" /\ revoked' = revoked
    BY <1>1, Arrived DEF redis
  <2>2. c \notin provider' /\ owner'[c] = NoOwner
    BY <2>1, KeysWritten DEF Denylist, KeysOf
  <2> QED
    BY <1>1, <2>1, <2>2, BarredArrives DEF ShutOut
<1>2. ASSUME call[c].barred,
             Heading(c)' \in {"require_auth", "is_revoked", "done"},
             Heading(c)' = "done" => at'[c].status \notin {200, 201},
             call'[c].sent = call[c].sent,
             Active(c)' => Active(c),
             Active(c) /\ call[c].tok.jti \in revoked => call[c].tok.jti \in revoked'
      PROVE  ShutOut(c)'
  <2>1. /\ Active(c) => call[c].tok.jti \in revoked
        /\ ~call[c].sent /\ c \notin provider /\ owner[c] = NoOwner
        /\ Heading(c) \in {"require_auth", "is_revoked", "done"}
    BY <1>2 DEF Denylist, ShutOut
  <2>2. at[c].pc \notin {"idle", "set_provider", "set_owner"}
    BY <1>2, <2>1 DEF Heading, Types, Located, Blank
  <2>3. call'[c].tok = call[c].tok
    BY <2>2, CallKept DEF Kept
  <2>4. Active(c)' => call'[c].tok.jti \in revoked'
    BY <1>2, <2>1, <2>3
  <2> QED
    BY <1>2, <2>1, <2>2, <2>4, KeysWritten DEF ShutOut
<1>3. ASSUME Step(c) \/ Raise(c) PROVE ShutOut(c)'
  <2>1. Active(c)
    BY <1>3 DEF Step, Raise, Active, RequireAuth, SetProviderConfig, SetSessionOwner,
       GetLogs, IsRevoked, GetProviderConfig, GetSessionOwner, Tokenize, RouteToLlm,
       GetTokenMap, LogEvent
  <2>2. call[c].barred
    BY <2>1, CallKept DEF Kept, Active
  <2>3. revoked' = revoked
    BY <1>3, StepStores
  <2> QED
    BY <1>2, <1>3, <2>1, <2>2, <2>3, BarredSteps DEF Denylist
<1>4. ASSUME at'[c] = at[c], call[c].barred, call'[c].sent = call[c].sent,
             Active(c) /\ call[c].tok.jti \in revoked => call[c].tok.jti \in revoked'
      PROVE  ShutOut(c)'
  <2>1. Heading(c)' = Heading(c) /\ (Active(c)' <=> Active(c))
    BY <1>4 DEF Heading, Active
  <2>2. /\ Heading(c) \in {"require_auth", "is_revoked", "done"}
        /\ Heading(c) = "done" => at[c].status \notin {200, 201}
    BY <1>4 DEF Denylist, ShutOut
  <2> QED
    BY <1>2, <1>4, <2>1, <2>2
<1>5. ASSUME NEW d \in Calls, Arrive(d) \/ Step(d) \/ Raise(d), d # c PROVE ShutOut(c)'
  <2>1. revoked' = revoked
    BY <1>5, Arrived, StepStores DEF redis
  <2> QED
    BY <1>4, <1>5, <2>1, OthersStay
<1>6. ASSUME UNCHANGED <<at, call>>, revoked \subseteq revoked' PROVE ShutOut(c)'
  BY <1>4, <1>6
<1>7. ASSUME NEW t \in Held, Lapse(t) PROVE ShutOut(c)'
  <2>1. /\ at' = at /\ revoked' = revoked \ {t.jti} /\ call'[c].sent = call[c].sent
        /\ call[c].barred /\ (Active(c) => call[c].tok.jti # t.jti)
    BY <1>7, LapseEffect DEF Types
  <2> QED
    BY <1>4, <2>1
<1>8. CASE \E t \in Held : Lapse(t)
  BY <1>7, <1>8
<1>9. CASE \A t \in Held : ~Lapse(t)
  BY <1>1, <1>3, <1>5, <1>6, <1>9 DEF Next, Expires, Revoke, KeyExpires, vars, redis
<1> QED
  BY <1>8, <1>9

LEMMA KeysNext ==
    ASSUME Types, Denylist, [Next]_vars, NEW c \in Calls
    PROVE  KeysOf(c)'
<1> SUFFICES ASSUME at'[c].pc = "idle" PROVE c \notin provider' /\ owner'[c] = NoOwner
  BY DEF KeysOf
<1>1. at[c].pc = "idle"
  BY CallKept DEF Kept
<1> QED
  BY <1>1, KeysWritten DEF Denylist, KeysOf

\* A token on the denylist when its request arrives, whose entry there does not end
\* while the request is under way, gets nothing and leaves nothing, whatever other calls
\* store, and whatever expires meanwhile.
THEOREM RevokedGetsNothing == Spec => []RevokedShutOut
<1>1. Init => Denylist
  BY DEF Init, Denylist, ShutOut, KeysOf, Blank
<1>2. Types /\ Denylist /\ [Next]_vars => Denylist'
  BY ShutOutNext, KeysNext DEF Denylist
<1>3. Denylist => RevokedShutOut
  BY DEF Denylist, ShutOut, RevokedShutOut, Succeeded, Ended, Heading
<1> QED
  BY <1>1, <1>2, <1>3, TypesCorrect, PTL DEF Spec
===============================================================================
