-------------------------------- MODULE SignIn --------------------------------
(***************************************************************************)
(* Signing in to the Admin UI: AuthController, AuthService,                *)
(* OidcAuthService, SamlAuthService and AdminAuthMiddleware, with one      *)
(* browser whose tabs share the cookies and the identity provider behind   *)
(* them.  A request carries the cookies the browser had when it was sent;  *)
(* the answer's Set-Cookie counts when it arrives.                         *)
(***************************************************************************)
EXTENDS Integers, FiniteSets

CONSTANTS
  Tabs, Users,
  Configs,      \* the settings of ADMIN_AUTH_* to check
  SessionTtl,   \* ADMIN_AUTH_SESSION_TTL_SECONDS
  StateTtl,     \* OIDC_STATE_TTL_SECONDS and SAML_REQUEST_ID_TTL_MS
  MaxTime, MaxSessions, MaxFlows,   \* bounds
  MaxMishaps,   \* bound: faults, restarts and reloads in a behaviour
  Nobody,       \* the user "auth-disabled"
  None,
  Same          \* an answer that leaves a cookie alone

Sso == {"header", "oidc", "saml"}

\* proxied: the user in the headers of a trusted proxy, if any; allowed: the users
\* that ADMIN_AUTH_ALLOWLIST and ADMIN_AUTH_ALLOWED_GROUPS let in.
ConfigRows == [enabled : BOOLEAN, mode : {"local", "sso", "both"}, providers : SUBSET Sso,
               local : Users, proxied : Users \cup {None}, allowed : SUBSET Users]

FlowIds  == 1 .. MaxFlows
Sessions == [id : 1 .. MaxSessions, user : Users, until : Nat]
Crumbs   == [flow : FlowIds, until : Nat]       \* the cookie idmmw_oidc_state
Flows    == [by : {"oidc", "saml"}, began : Nat, user : Users \cup {None}, redeemed : BOOLEAN]

ASSUME SignInAssumption ==
  /\ Configs \subseteq ConfigRows
  /\ {SessionTtl, StateTtl, MaxTime, MaxSessions, MaxFlows, MaxMishaps} \subseteq Nat
  /\ {None, Same, Nobody} \cap (Users \cup Sessions \cup Crumbs \cup Flows) = {}
  /\ None # Same /\ None # Nobody

Kinds == {"session", "local", "header", "oidc", "callback", "saml", "acs", "read", "write",
          "logout"}
Calls == [kind : Kinds, tab : Tabs, front : BOOLEAN, user : Users \cup {None, Nobody},
          flow : FlowIds \cup {None}, csrf : 0 .. MaxSessions,
          session : Sessions \cup {None}, crumb : Crumbs \cup {None},
          stage : {"sent", "config", "grant", "answered"}, good : BOOLEAN,
          sets : Sessions \cup {None, Same}, drops : Crumbs \cup {None, Same}]

VARIABLES
  config, now,
  jar,       \* the browser's cookies: session and OIDC state
  page,      \* per tab: "load", "login", "app", "leaving", "idp", "failed"
  visit,     \* per tab: the flow that took it to the identity provider
  shown,     \* per tab: the user it shows
  csrf,      \* per tab: the token of its api client; that of session n is n
  calls,     \* requests under way; those whose tab has moved on are not `front`
  discovery, \* OidcAuthService.configuration: "none", "pending", "ready", "failed"
  used,      \* SignedSamlRequestCacheProvider.used
  flow,      \* logins begun at the identity provider
  sessions,  \* sessions opened so far
  mishaps,   \* faults, restarts and reloads so far
  acted,     \* history: who a write was shown as, and who it was made as
  marks      \* history: what befell a flow

vars == <<config, now, jar, page, visit, shown, csrf, calls, discovery, used, flow, sessions,
          mishaps, acted, marks>>
browser == <<jar, page, visit, shown, csrf>>
server  == <<discovery, used, flow, sessions>>

Begun == {f \in FlowIds : flow[f] # None}

TypeOK ==
  /\ config \in Configs /\ now \in 0 .. MaxTime
  /\ jar \in [session : Sessions \cup {None}, crumb : Crumbs \cup {None}]
  /\ page \in [Tabs -> {"load", "login", "app", "leaving", "idp", "failed"}]
  /\ visit \in [Tabs -> FlowIds \cup {None}]
  /\ shown \in [Tabs -> Users \cup {None, Nobody}] /\ csrf \in [Tabs -> 0 .. MaxSessions]
  /\ calls \subseteq Calls
  /\ \A c, d \in calls : c.front /\ d.front /\ c.tab = d.tab => c = d
  /\ discovery \in {"none", "pending", "ready", "failed"}
  /\ used \subseteq Begun /\ flow \in [FlowIds -> Flows \cup {None}]
  /\ sessions \in 0 .. MaxSessions /\ mishaps \in 0 .. MaxMishaps
  /\ acted \subseteq [shown : Users \cup {None, Nobody}, as : Users \cup {Nobody}]
  /\ marks \in [FlowIds -> SUBSET {"opened", "again", "restarted", "overlapped", "refused",
                                   "crossed", "late", "failed", "repeated"}]

Init ==
  /\ config \in Configs /\ now = 0
  /\ jar = [session |-> None, crumb |-> None]
  /\ page = [t \in Tabs |-> "load"] /\ visit = [t \in Tabs |-> None]
  /\ shown = [t \in Tabs |-> None] /\ csrf = [t \in Tabs |-> 0]
  /\ calls = {}
  /\ discovery = "none" /\ used = {} /\ flow = [f \in FlowIds |-> None]
  /\ sessions = 0 /\ mishaps = 0
  /\ acted = {} /\ marks = [f \in FlowIds |-> {}]

-----------------------------------------------------------------------------
(***************************************************************************)
(* AuthService                                                             *)
(***************************************************************************)
\* ssoProviders
Providers == CASE config.mode = "local" -> {}
               [] config.mode # "local" /\ config.providers = {} -> {"header"}
               [] OTHER -> config.providers

\* readSession: signed, and not expired.
Held(c) == IF c.session # None /\ c.session.until >= now THEN c.session ELSE None

\* createSession
NewSession(u) == [id |-> sessions + 1, user |-> u, until |-> now + SessionTtl]

\* authenticateRequest, as far as the request had no session: the headers of the proxy.
HeaderUser ==
  IF /\ config.mode # "local" /\ "header" \in Providers
     /\ config.proxied \in config.allowed
    THEN config.proxied ELSE None

-----------------------------------------------------------------------------
(***************************************************************************)
(* Requests and answers                                                    *)
(***************************************************************************)
Idle(t)  == \A c \in calls : c.tab = t => ~c.front
Mishap   == mishaps < MaxMishaps /\ mishaps' = mishaps + 1
Marks(f, words) == marks' = [marks EXCEPT ![f] = @ \cup words]

\* The cookie of the OIDC state has the path /auth/oidc.
NewCall(kind, t, u, f) ==
  [kind |-> kind, tab |-> t, front |-> TRUE, user |-> u, flow |-> f,
   csrf    |-> IF kind \in {"write", "logout"} THEN csrf[t] ELSE 0,
   session |-> IF kind \in {"session", "read", "write", "logout"} THEN jar.session ELSE None,
   crumb   |-> IF kind = "callback" THEN jar.crumb ELSE None,
   stage |-> "sent", good |-> FALSE, sets |-> Same, drops |-> Same]
Sends(kind, t, u, f) == calls' = calls \cup {NewCall(kind, t, u, f)}

Becomes(c, d)    == calls' = (calls \ {c}) \cup {d}
Waiting(c, kind) == c.kind = kind /\ c.stage = "sent"
Answered(c, good) ==
  [c EXCEPT !.stage = "answered", !.good = good, !.user = None, !.csrf = 0,
            !.session = None, !.crumb = None]
Fails(c)  == Becomes(c, Answered(c, FALSE))
Passes(c) == Becomes(c, Answered(c, TRUE))

\* The answer is that u is signed in, with session s if there is one.
Shows(c, u, s) ==
  Becomes(c, [Answered(c, TRUE) EXCEPT !.user = u, !.csrf = IF s = None THEN 0 ELSE s.id])

\* writeSessionCookie: the Set-Cookie replaces the one written before it.
Opens(c, u, good) ==
  /\ sessions < MaxSessions /\ sessions' = sessions + 1
  /\ Becomes(c, [Answered(c, good) EXCEPT !.user = u, !.csrf = sessions + 1,
                                          !.sets = NewSession(u), !.drops = Same])

-----------------------------------------------------------------------------
(***************************************************************************)
(* The browser                                                             *)
(***************************************************************************)
\* fetchAuthSession, when the page is loaded and after a logout.
Loads(t) == page[t] \in {"load", "leaving"} /\ Sends("session", t, None, None)

\* The login screen; OIDC and SAML are navigations.
SignsIn(t) ==
  /\ page[t] = "login"
  /\ \/ config.mode # "sso" /\ \E u \in Users : Sends("local", t, u, None)
     \/ \E kind \in Providers : Sends(kind, t, None, None)

Works(t) ==
  /\ page[t] = "app"
  /\ \E kind \in {"read", "write", "logout"} : Sends(kind, t, shown[t], None)

\* The identity provider knows the user, or turns it away, and sends the browser back.
IdpAnswers(t) ==
  LET f == visit[t]
  IN /\ page[t] = "idp"
     /\ \E u \in Users \cup {None} :
          /\ flow' = [flow EXCEPT ![f].user = u]
          /\ Sends(IF flow[f].by = "oidc" THEN "callback" ELSE "acs", t, u, f)

Asks(t) ==
  /\ Idle(t)
  /\ \/ (Loads(t) \/ SignsIn(t) \/ Works(t)) /\ UNCHANGED flow
     \/ IdpAnswers(t)
  /\ UNCHANGED <<config, now, browser, discovery, used, sessions, mishaps, acted, marks>>

\* The answer of the identity provider is submitted once more while it is under way.
Resubmits(c) ==
  /\ c.front /\ c.kind \in {"callback", "acs"} /\ c.stage # "answered"
  /\ Mishap
  /\ calls' = (calls \ {c}) \cup {[c EXCEPT !.front = FALSE],
                                  NewCall(c.kind, c.tab, c.user, c.flow)}
  /\ Marks(c.flow, {"repeated"})
  /\ UNCHANGED <<config, now, jar, page, visit, shown, csrf, server, acted>>

Reloads(t) ==
  /\ page[t] \notin {"load", "idp"} /\ Idle(t) /\ Mishap
  /\ page' = [page EXCEPT ![t] = "load"]
  /\ shown' = [shown EXCEPT ![t] = None] /\ csrf' = [csrf EXCEPT ![t] = 0]
  /\ UNCHANGED <<config, now, jar, visit, calls, server, acted, marks>>

-----------------------------------------------------------------------------
(***************************************************************************)
(* AuthController: the handlers that answer at once                        *)
(***************************************************************************)
\* sessionStatus
Status(c) ==
  /\ Waiting(c, "session") /\ UNCHANGED <<sessions, acted>>
  /\ IF ~config.enabled THEN Shows(c, Nobody, None)
     ELSE Shows(c, IF Held(c) = None THEN None ELSE Held(c).user, Held(c))

\* loginLocal
LocalLogin(c) ==
  /\ Waiting(c, "local") /\ UNCHANGED acted
  /\ \/ ~config.enabled /\ Shows(c, Nobody, None) /\ UNCHANGED sessions
     \/ config.enabled /\ config.mode # "sso" /\ c.user = config.local /\ Opens(c, c.user, TRUE)
     \/ /\ config.enabled /\ (config.mode = "sso" \/ c.user # config.local)
        /\ Fails(c) /\ UNCHANGED sessions

\* loginSso
HeaderLogin(c) ==
  /\ Waiting(c, "header") /\ UNCHANGED acted
  /\ \/ ~config.enabled /\ Shows(c, Nobody, None) /\ UNCHANGED sessions
     \/ config.enabled /\ HeaderUser # None /\ Opens(c, HeaderUser, TRUE)
     \/ config.enabled /\ HeaderUser = None /\ Fails(c) /\ UNCHANGED sessions

\* Variant: verifyCsrf is not asked.
VerifiesAny(c, s) == TRUE

\* verifyCsrf
Verifies(c, s) == c.kind = "read" \/ c.csrf = s.id

\* What a request that passed the middleware does, as user u.
Carried(c, u) ==
  /\ acted' = acted \cup IF c.kind = "write" THEN {[shown |-> c.user, as |-> u]} ELSE {}
  /\ Becomes(c, [Answered(c, TRUE) EXCEPT !.sets = IF c.kind = "logout" THEN None ELSE @])

\* AdminAuthMiddleware.use; /auth/logout is behind it too.  A session that the headers
\* of the proxy open has a token of its own, so that no write comes with it.
Guards(c) ==
  /\ c.kind \in {"read", "write", "logout"} /\ c.stage = "sent"
  /\ \/ ~config.enabled /\ Carried(c, Nobody) /\ UNCHANGED sessions
     \/ /\ config.enabled /\ Held(c) # None /\ UNCHANGED sessions
        /\ IF Verifies(c, Held(c)) THEN Carried(c, Held(c).user)
           ELSE Fails(c) /\ UNCHANGED acted
     \/ /\ config.enabled /\ Held(c) = None /\ UNCHANGED acted
        /\ IF HeaderUser # None THEN Opens(c, HeaderUser, c.kind = "read")
           ELSE Fails(c) /\ UNCHANGED sessions

Replies(c) ==
  /\ Status(c) \/ LocalLogin(c) \/ HeaderLogin(c) \/ Guards(c)
  /\ UNCHANGED <<config, now, browser, discovery, used, flow, mishaps, marks>>

-----------------------------------------------------------------------------
(***************************************************************************)
(* OidcAuthService                                                         *)
(***************************************************************************)
NextFlow == Cardinality(Begun) + 1
Late(f)  == now > flow[f].began + StateTtl

\* The answer of the identity provider for c.flow is not taken.
Refuses(c, words) ==
  /\ Fails(c)
  /\ Marks(c.flow, words \cup (IF c.user \in config.allowed THEN {"refused"} ELSE {})
                         \cup (IF Late(c.flow) THEN {"late"} ELSE {}))

\* Variant: the TTL is not counted from now.
StateUntilTtl == StateTtl

StateUntil == now + StateTtl

\* clientConfiguration: the promise of the first discovery is kept, a rejected one too.
AsksConfiguration == discovery' = IF discovery = "none" THEN "pending" ELSE discovery

\* startLogin up to its wait for the configuration.
StartsOidc(c) ==
  /\ Waiting(c, "oidc")
  /\ IF "oidc" \in Providers
       THEN Becomes(c, [c EXCEPT !.stage = "config"]) /\ AsksConfiguration
       ELSE Fails(c) /\ UNCHANGED discovery
  /\ UNCHANGED <<config, now, browser, used, flow, sessions, mishaps, acted, marks>>

Discovers ==
  /\ discovery = "pending"
  /\ \/ discovery' = "ready" /\ UNCHANGED mishaps
     \/ discovery' = "failed" /\ Mishap
  /\ UNCHANGED <<config, now, browser, calls, used, flow, sessions, acted, marks>>

\* Every request that waits for the configuration, or comes later, fails with it.
LacksConfiguration(c) ==
  /\ c.stage = "config" /\ discovery = "failed"
  /\ \/ c.kind = "oidc" /\ Fails(c) /\ UNCHANGED marks
     \/ c.kind = "callback" /\ Refuses(c, {"failed"})
  /\ UNCHANGED <<config, now, browser, server, mishaps, acted>>

BeginsFlow(c, by) ==
  /\ NextFlow \in FlowIds
  /\ flow' = [flow EXCEPT ![NextFlow] = [by |-> by, began |-> now, user |-> None,
                                         redeemed |-> FALSE]]

\* The rest of startLogin: state, nonce and verifier go into the cookie.
RedirectsOidc(c) ==
  /\ c.kind = "oidc" /\ c.stage = "config" /\ discovery = "ready"
  /\ BeginsFlow(c, "oidc")
  /\ Becomes(c, [Answered(c, TRUE) EXCEPT !.flow = NextFlow,
                          !.drops = [flow |-> NextFlow, until |-> StateUntil]])
  /\ UNCHANGED <<config, now, browser, discovery, used, sessions, mishaps, acted, marks>>

\* readStateCookie: signed, and not expired.
StateRead(c) == c.crumb # None /\ c.crumb.until >= now

\* completeCallback: the state is read and its cookie cleared before anything else.
ReadsState(c) ==
  LET d == [c EXCEPT !.drops = None]
  IN /\ Waiting(c, "callback")
     /\ \/ /\ StateRead(c)
           /\ Becomes(c, [d EXCEPT !.stage = "config"]) /\ AsksConfiguration /\ UNCHANGED marks
        \/ /\ ~StateRead(c)
           /\ Becomes(c, Answered(d, FALSE))
           /\ Marks(c.flow, (IF c.user \in config.allowed THEN {"refused"} ELSE {})
                              \cup (IF Late(c.flow) THEN {"late"} ELSE {}))
           /\ UNCHANGED discovery
     /\ UNCHANGED <<config, now, browser, used, flow, sessions, mishaps, acted>>

\* authorizationCodeGrant, as used: the state must be the stored one, and a code is
\* redeemed once.
Redeems(c) ==
  /\ c.kind = "callback" /\ c.stage = "config" /\ discovery = "ready"
  /\ \/ /\ c.crumb.flow = c.flow /\ c.user # None /\ ~flow[c.flow].redeemed
        /\ flow' = [flow EXCEPT ![c.flow].redeemed = TRUE]
        /\ Becomes(c, [c EXCEPT !.stage = "grant"]) /\ UNCHANGED marks
     \/ /\ c.crumb.flow # c.flow \/ c.user = None \/ flow[c.flow].redeemed
        /\ Refuses(c, {}) /\ UNCHANGED flow
  /\ UNCHANGED <<config, now, browser, discovery, used, sessions, mishaps, acted>>

LosesTokens(c) ==
  /\ c.kind = "callback" /\ c.stage = "grant" /\ Mishap /\ Refuses(c, {"failed"})
  /\ UNCHANGED <<config, now, browser, server, acted>>

\* loginExternal: the flow's user is let in.
Enters(c) ==
  \/ /\ ~config.enabled
     /\ Passes(c) /\ Marks(c.flow, {"opened"}) /\ UNCHANGED sessions
  \/ /\ config.enabled /\ c.user \in config.allowed
     /\ Opens(c, c.user, TRUE)
     /\ Marks(c.flow, IF "opened" \in marks[c.flow] THEN {"again"} ELSE {"opened"})
  \/ /\ config.enabled /\ c.user \notin config.allowed
     /\ Fails(c) /\ UNCHANGED <<sessions, marks>>

EntersOidc(c) ==
  /\ c.kind = "callback" /\ c.stage = "grant" /\ Enters(c)
  /\ UNCHANGED <<config, now, browser, discovery, used, flow, mishaps, acted>>

-----------------------------------------------------------------------------
(***************************************************************************)
(* SamlAuthService.  The library asks getAsync for the request that an     *)
(* answer is for, checks the signature, and calls removeAsync; it does so  *)
(* for an answer that it refuses as well.                                  *)
(***************************************************************************)
StartsSaml(c) ==
  /\ Waiting(c, "saml")
  /\ \/ /\ "saml" \in Providers /\ BeginsFlow(c, "saml")
        /\ Becomes(c, [Answered(c, TRUE) EXCEPT !.flow = NextFlow])
     \/ "saml" \notin Providers /\ Fails(c) /\ UNCHANGED flow
  /\ UNCHANGED <<config, now, browser, discovery, used, sessions, mishaps, acted, marks>>

\* verify: a request id proves itself by its signature, whichever process issued it.
Verified(f) == ~Late(f)

\* prune
Pruned == {f \in used : ~Late(f)}

\* Variant: the ids that were answered are not asked for.
GetsVerified(f) == Verified(f)

\* getAsync
Gets(f) == Verified(f) /\ f \notin Pruned

Removed(f) == Pruned \cup IF Verified(f) THEN {f} ELSE {}

ChecksRequest(c) ==
  /\ Waiting(c, "acs")
  /\ \/ /\ Gets(c.flow) /\ c.user # None
        /\ Becomes(c, [c EXCEPT !.stage = "grant"]) /\ UNCHANGED used
        /\ Marks(c.flow, IF \E d \in calls : d.flow = c.flow /\ d.stage = "grant"
                           THEN {"overlapped"} ELSE {})
     \/ /\ ~Gets(c.flow) \/ c.user = None
        /\ Refuses(c, {}) /\ used' = Removed(c.flow)
  /\ UNCHANGED <<config, now, browser, discovery, flow, sessions, mishaps, acted>>

EntersSaml(c) ==
  /\ c.kind = "acs" /\ c.stage = "grant"
  /\ used' = Removed(c.flow) /\ Enters(c)
  /\ UNCHANGED <<config, now, browser, discovery, flow, mishaps, acted>>

-----------------------------------------------------------------------------
(***************************************************************************)
(* Answers, time and restarts                                              *)
(***************************************************************************)
Kept(cookie, new) == IF new = Same THEN cookie ELSE new

\* The pages an answer leads to.
Turns(c, to) == page' = [page EXCEPT ![c.tab] = to]
Displays(c, u, n) ==
  /\ shown' = [shown EXCEPT ![c.tab] = u] /\ csrf' = [csrf EXCEPT ![c.tab] = n]

Arrives(c) ==
  LET lost == jar.crumb # None /\ c.drops # Same /\ (c.drops = None \/ c.drops # jar.crumb)
  IN /\ c.front /\ c.stage = "answered" /\ calls' = calls \ {c}
     /\ jar' = [session |-> Kept(jar.session, c.sets), crumb |-> Kept(jar.crumb, c.drops)]
     /\ IF lost /\ jar.crumb.flow # c.flow THEN Marks(jar.crumb.flow, {"crossed"})
        ELSE UNCHANGED marks
     /\ visit' = [visit EXCEPT ![c.tab] = IF c.good /\ c.kind \in {"oidc", "saml"}
                                            THEN c.flow ELSE None]
     /\ CASE c.kind = "session" /\ c.good ->
               Turns(c, IF c.user = None THEN "login" ELSE "app")
               /\ Displays(c, c.user, c.csrf)
          [] c.kind = "session" /\ ~c.good ->
               Turns(c, IF page[c.tab] = "load" THEN "login" ELSE "app")
               /\ UNCHANGED <<shown, csrf>>
          [] c.kind \in {"local", "header"} /\ c.good ->
               Turns(c, "app") /\ Displays(c, c.user, c.csrf)
          [] c.kind \in {"oidc", "saml"} ->
               Turns(c, IF c.good THEN "idp" ELSE "failed") /\ Displays(c, None, 0)
          [] c.kind \in {"callback", "acs"} ->
               Turns(c, IF c.good THEN "load" ELSE "failed") /\ UNCHANGED <<shown, csrf>>
          [] c.kind = "logout" /\ c.good -> Turns(c, "leaving") /\ UNCHANGED <<shown, csrf>>
          [] OTHER -> UNCHANGED <<page, shown, csrf>>
     /\ UNCHANGED <<config, now, server, mishaps, acted>>

\* The answer to a request whose tab has moved on is dropped.
Vanishes(c) ==
  /\ ~c.front /\ c.stage = "answered" /\ calls' = calls \ {c}
  /\ UNCHANGED <<config, now, browser, server, mishaps, acted, marks>>

Tick ==
  /\ now < MaxTime /\ now' = now + 1
  /\ UNCHANGED <<config, browser, calls, server, mishaps, acted, marks>>

\* What the process kept in memory is gone, and the requests it had.
Restart ==
  /\ Mishap /\ discovery' = "none" /\ used' = {}
  /\ calls' = {IF c.stage = "answered" THEN c ELSE [Answered(c, FALSE) EXCEPT !.drops = Same] :
                 c \in calls}
  /\ marks' = [f \in FlowIds |->
       marks[f] \cup (IF f \in Begun THEN {"restarted"} ELSE {})
                \cup (IF \E c \in calls : c.flow = f /\ c.kind \in {"callback", "acs"}
                                          /\ c.stage # "answered"
                        THEN {"failed"} ELSE {})]
  /\ UNCHANGED <<config, now, browser, flow, sessions, acted>>

Serves(c) ==
  \/ Replies(c) \/ StartsOidc(c) \/ LacksConfiguration(c) \/ RedirectsOidc(c) \/ ReadsState(c)
  \/ Redeems(c) \/ LosesTokens(c) \/ EntersOidc(c) \/ StartsSaml(c) \/ ChecksRequest(c)
  \/ EntersSaml(c)

Next ==
  \/ \E t \in Tabs : Asks(t) \/ Reloads(t)
  \/ \E c \in calls : Resubmits(c) \/ Serves(c) \/ Arrives(c) \/ Vanishes(c)
  \/ Discovers \/ Tick \/ Restart

Spec == Init /\ [][Next]_vars

-----------------------------------------------------------------------------
(***************************************************************************)
(* Properties                                                              *)
(***************************************************************************)
\* A write is made as the user that its tab shows, whoever has signed in or out in
\* another tab since, and although all tabs send the same cookie.
ActsAsShown == \A d \in acted : d.shown = d.as

\* One answer of the identity provider opens one session, however often it is submitted,
\* unless the process has forgotten it or two submissions overlap at the service.
OpenedOnce ==
  \A f \in Begun : "again" \in marks[f] => {"restarted", "overlapped"} \cap marks[f] # {}

\* A user who may come in, and whom the identity provider has confirmed, is let in unless
\* there is a cause: the state expired, a login in another tab replaced or cleared it, the
\* answer was submitted before, or the provider could not be reached - for OIDC at any
\* earlier time since the process started.
RefusedForCause ==
  \A f \in Begun : "refused" \in marks[f] =>
    {"late", "crossed", "repeated", "failed"} \cap marks[f] # {}
=============================================================================
