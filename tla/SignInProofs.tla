---------------------------- MODULE SignInProofs ----------------------------
(***************************************************************************)
(* Theorems of SignIn.  The invariant Ind joins what each property needs:  *)
(*   - Owners: whatever is known of a session - in a cookie, a request, an *)
(*     answer on its way or a tab - names the same user;                   *)
(*   - OpensOnce: a flow whose user is being let in was not let in before, *)
(*     and once it was, its code or its request id is spent;               *)
(*   - Travels, Alone: a flow is in one place, and until its answer is     *)
(*     submitted, but for a repeated submission, nothing of it is spent;   *)
(*   - Cookies: the state of a flow is in the cookie, or was crossed there.*)
(* The steps of the service are first brought to one form, Handled(c, d):  *)
(* what becomes of request c, as to its session and as to its flow.        *)
(***************************************************************************)
EXTENDS SignIn, FiniteSetTheorems, TLAPS

(***************************************************************************)
(* The inductive invariant                                                 *)
(***************************************************************************)
Shown     == Users \cup {None, Nobody}
Returns   == {"callback", "acs"}     \* requests with an answer of the identity provider
Redirects(c) == c.kind \in {"oidc", "saml"} /\ c.stage = "answered" /\ c.good
By(kind)  == IF kind \in {"oidc", "callback"} THEN "oidc" ELSE "saml"

\* What holds of a request by itself.
ShapeOK(c) ==
  /\ ~c.front => c.kind \in Returns
  /\ c.stage = "config" => c.kind \in {"oidc", "callback"}
  /\ c.stage = "grant" => c.kind \in Returns
  /\ c.stage # "answered" => c.sets = Same /\ c.drops \in {Same, None}
  /\ c.drops = None => c.kind = "callback"
  /\ c.drops \in Crumbs => c.kind = "oidc" /\ Redirects(c)
  /\ Redirects(c) /\ c.kind = "oidc" => c.drops \in Crumbs
  /\ c.kind = "callback" /\ c.stage \in {"config", "grant"} => c.crumb # None

\* Where a tab stands while it waits for the answer to a request.
StandsAt(kind) ==
  CASE kind = "session" -> {"load", "leaving"}
    [] kind \in {"local", "header", "oidc", "saml"} -> {"login"}
    [] kind \in {"read", "write", "logout"} -> {"app"}
    [] OTHER -> {"idp"}

\* The cookie that startLogin set for flow f.
CrumbOf(f) == [flow |-> f, until |-> flow[f].began + StateTtl]

CallsOK ==
  \A c \in calls :
    /\ ShapeOK(c)
    /\ c.front => page[c.tab] \in StandsAt(c.kind)
    /\ Redirects(c) \/ c.kind \in Returns => c.flow \in Begun /\ flow[c.flow].by = By(c.kind)
    /\ c.drops \in Crumbs => c.drops = CrumbOf(c.flow)

FlowsOK ==
  /\ Begun = 1 .. Cardinality(Begun)
  /\ \A f \in FlowIds \ Begun : marks[f] = {}
  /\ \A t \in Tabs : page[t] = "idp" => visit[t] \in Begun
  /\ jar.crumb # None => jar.crumb.flow \in Begun

\* What is known of session n says that it is u's.
Says(n, u) ==
  \/ jar.session \in Sessions /\ jar.session.id = n /\ jar.session.user = u
  \/ \E c \in calls : \/ c.session \in Sessions /\ c.session.id = n /\ c.session.user = u
                      \/ c.sets \in Sessions /\ c.sets.id = n /\ c.sets.user = u
                      \/ c.csrf = n /\ c.user = u
  \/ \E t \in Tabs : csrf[t] = n /\ shown[t] = u

SessionsAgree ==
  \A n \in 1 .. MaxSessions : \A u, v \in Shown :
    /\ Says(n, u) => n <= sessions
    /\ Says(n, u) /\ Says(n, v) => u = v

NobodyShown ==
  ~config.enabled =>
    /\ \A t \in Tabs : page[t] \in {"app", "leaving"} => shown[t] = Nobody
    /\ \A c \in calls :
         /\ c.kind = "write" /\ c.stage = "sent" => c.user = Nobody
         /\ c.kind \in {"session", "local", "header"} /\ c.stage = "answered" /\ c.good
              => c.user = Nobody

Lapsed(f)  == {"restarted", "overlapped"} \cap marks[f] # {}
Granted(f) == {c \in calls : c.stage = "grant" /\ c.flow = f}

\* A flow whose user is being let in has not let it in before, and once it has, the
\* code or the request id is spent.
OpensOnce ==
  \A f \in Begun : ~Lapsed(f) =>
    /\ \A c, d \in Granted(f) : c = d
    /\ Granted(f) # {} => "opened" \notin marks[f]
    /\ "again" \notin marks[f]
    /\ flow[f].by = "oidc" /\ (Granted(f) # {} \/ "opened" \in marks[f]) => flow[f].redeemed
    /\ flow[f].by = "saml" /\ "opened" \in marks[f] => f \in used \/ Late(f)

\* A flow is in one place: in the answer that takes a tab to the identity provider, or
\* in one tab that is there and its requests.
Travels ==
  /\ \A c, d \in calls : Redirects(c) /\ Redirects(d) /\ c.flow = d.flow => c = d
  /\ \A c, d \in calls : Redirects(c) /\ d.kind \in Returns => d.flow # c.flow
  /\ \A c \in calls, t \in Tabs : Redirects(c) /\ page[t] = "idp" => visit[t] # c.flow
  /\ \A s, t \in Tabs : page[s] = "idp" /\ page[t] = "idp" /\ visit[s] = visit[t] => s = t
  /\ \A c \in calls : c.kind \in Returns /\ c.front => visit[c.tab] = c.flow

Taken(f) == flow[f].redeemed \/ f \in used

\* Until its answer is submitted, and but for a repeated submission, nothing is spent.
Alone ==
  /\ \A c \in calls : c.kind \in Returns /\ "repeated" \notin marks[c.flow] =>
       c.front /\ (c.stage \in {"sent", "config"} => ~Taken(c.flow))
  /\ \A c \in calls : Redirects(c) => ~Taken(c.flow) /\ "repeated" \notin marks[c.flow]
  /\ \A t \in Tabs : page[t] = "idp" /\ Idle(t) =>
       ~Taken(visit[t]) /\ "repeated" \notin marks[visit[t]]

\* The state of a flow is in the cookie, or was crossed there.
CrumbsKept ==
  /\ \A t \in Tabs : page[t] = "idp" /\ flow[visit[t]].by = "oidc" =>
       jar.crumb = CrumbOf(visit[t]) \/ "crossed" \in marks[visit[t]]
  /\ \A c \in calls : c.kind = "callback" /\ c.stage # "answered" =>
       c.crumb = CrumbOf(c.flow) \/ "crossed" \in marks[c.flow]

-----------------------------------------------------------------------------
(***************************************************************************)
(* What a step of the service does with a request c, that becomes d        *)
(***************************************************************************)
Turned(c, d) ==
  /\ c \in calls /\ c.stage # "answered"
  /\ d \in Calls /\ ShapeOK(d) /\ d.stage # "sent" /\ d.kind = c.kind /\ d.tab = c.tab /\ d.front = c.front
  /\ calls' = (calls \ {c}) \cup {d}
  /\ UNCHANGED <<config, now, jar, page, visit, shown, csrf>>
  /\ discovery' \in {"none", "pending", "ready", "failed"} /\ mishaps' \in 0 .. MaxMishaps

\* As to the session.
Acts(c, u) ==
  /\ c.kind = "write" /\ c.stage = "sent" /\ u \in Users \cup {Nobody}
  /\ acted' = acted \cup {[shown |-> c.user, as |-> u]}
  /\ IF config.enabled THEN c.session \in Sessions /\ c.csrf = c.session.id /\ u = c.session.user
                       ELSE u = Nobody

Owned(c, d) ==
  /\ acted' = acted \/ \E u \in Users \cup {Nobody} : Acts(c, u)
  /\ \/ /\ sessions' = sessions + 1 /\ sessions < MaxSessions
        /\ config.enabled /\ d.session = None /\ d.csrf = sessions + 1
        /\ d.sets \in Sessions /\ d.sets.id = sessions + 1 /\ d.sets.user = d.user
     \/ /\ sessions' = sessions
        /\ d.session \in {None, c.session} /\ d.sets \in {None, Same}
        /\ \/ d.csrf = 0 \/ (d.csrf = c.csrf /\ d.user = c.user)
           \/ c.session \in Sessions /\ d.csrf = c.session.id /\ d.user = c.session.user
  /\ ~config.enabled /\ d.kind \in {"session", "local", "header"} /\ d.good => d.user = Nobody

\* As to the flow.
Quiet(c, d) ==
  /\ c.kind \notin Returns /\ ~Redirects(d) /\ d.drops = Same /\ UNCHANGED <<flow, used, marks>>

Begins(c, d) ==
  /\ c.kind \in {"oidc", "saml"} /\ BeginsFlow(c, c.kind) /\ d.flow = NextFlow
  /\ Redirects(d) /\ (d.kind = "oidc" => d.drops = [flow |-> NextFlow, until |-> now + StateTtl])
  /\ UNCHANGED <<used, marks>>

Proceeds(c, d) ==
  /\ c.kind = "callback" /\ c.stage = "sent" /\ d.stage = "config"
  /\ d.flow = c.flow /\ d.crumb = c.crumb /\ UNCHANGED <<flow, used, marks>>

Redeemed(c, d) ==
  /\ c.kind = "callback" /\ c.stage = "config" /\ d.stage = "grant"
  /\ d.flow = c.flow /\ d.crumb = c.crumb
  /\ ~flow[c.flow].redeemed /\ flow' = [flow EXCEPT ![c.flow].redeemed = TRUE]
  /\ UNCHANGED <<used, marks>>

Accepts(c, d) ==
  /\ c.kind = "acs" /\ c.stage = "sent" /\ d.stage = "grant" /\ d.flow = c.flow /\ Gets(c.flow)
  /\ Marks(c.flow, IF \E e \in calls : e.flow = c.flow /\ e.stage = "grant"
                     THEN {"overlapped"} ELSE {})
  /\ UNCHANGED <<flow, used>>

\* An answer of the identity provider is answered: not taken, for a cause, or taken.
Spends(c) == used' = IF c.kind = "acs" THEN Removed(c.flow) ELSE used

Refused(c, d) ==
  /\ c.kind \in Returns /\ d.stage = "answered" /\ d.flow = c.flow
  /\ UNCHANGED flow /\ Spends(c)
  /\ \E words \in SUBSET {"refused", "late", "failed"} :
       /\ Marks(c.flow, words)
       /\ "refused" \in words =>
            {"late", "failed"} \cap words # {} \/ {"crossed", "repeated"} \cap marks[c.flow] # {}

Entered(c, d) ==
  /\ c.kind \in Returns /\ c.stage = "grant" /\ d.stage = "answered" /\ d.flow = c.flow
  /\ UNCHANGED flow /\ Spends(c)
  /\ \/ UNCHANGED marks
     \/ Marks(c.flow, {"opened"})
     \/ Marks(c.flow, IF "opened" \in marks[c.flow] THEN {"again"} ELSE {"opened"})

Handled(c, d) ==
  /\ Turned(c, d) /\ Owned(c, d)
  /\ \/ Quiet(c, d) \/ Begins(c, d) \/ Proceeds(c, d) \/ Redeemed(c, d) \/ Accepts(c, d)
     \/ Refused(c, d) \/ Entered(c, d)

LEMMA Bounds ==
  /\ SessionTtl \in Nat /\ StateTtl \in Nat /\ MaxTime \in Nat /\ MaxSessions \in Nat
  /\ MaxFlows \in Nat /\ MaxMishaps \in Nat /\ 0 \in 0 .. MaxSessions
  BY SignInAssumption

LEMMA AnswerFields ==
  ASSUME NEW c \in Calls, NEW good \in BOOLEAN
  PROVE  /\ Answered(c, good) \in Calls
         /\ Answered(c, good).kind = c.kind /\ Answered(c, good).tab = c.tab
         /\ Answered(c, good).front = c.front /\ Answered(c, good).flow = c.flow
         /\ Answered(c, good).stage = "answered" /\ Answered(c, good).good = good
         /\ Answered(c, good).user = None /\ Answered(c, good).csrf = 0
         /\ Answered(c, good).session = None /\ Answered(c, good).crumb = None
         /\ Answered(c, good).sets = c.sets /\ Answered(c, good).drops = c.drops
  BY Bounds DEF Answered, Calls

LEMMA NewFields ==
  ASSUME NEW kind \in Kinds, NEW t \in Tabs, NEW u \in Users \cup {None, Nobody},
         NEW f \in FlowIds \cup {None}, TypeOK, NEW d, d = NewCall(kind, t, u, f)
  PROVE  /\ d \in Calls /\ d.kind = kind /\ d.tab = t
         /\ d.flow = f /\ d.user = u /\ d.stage = "sent"
         /\ d.csrf = (IF kind \in {"write", "logout"} THEN csrf[t] ELSE 0)
         /\ d.session = (IF kind \in {"session", "read", "write", "logout"} THEN jar.session ELSE None)
         /\ d.crumb = (IF kind = "callback" THEN jar.crumb ELSE None)
         /\ d.sets = Same /\ d.drops = Same
<1> csrf[t] \in 0 .. MaxSessions /\ jar.session \in Sessions \cup {None}
    /\ jar.crumb \in Crumbs \cup {None} /\ 0 \in 0 .. MaxSessions
  BY Bounds DEF TypeOK
<1> QED BY DEF NewCall, Calls

LEMMA NewIsFront ==
  ASSUME NEW kind, NEW t, NEW u, NEW f
  PROVE  NewCall(kind, t, u, f).front /\ ~NewCall(kind, t, u, f).good
  BY DEF NewCall

Tokens == 0 .. MaxSessions

\* The answers of Shows and of Opens.
Telling(c, u, n) == [Answered(c, TRUE) EXCEPT !.user = u, !.csrf = n]
Opening(c, good, u) ==
  [Answered(c, good) EXCEPT !.user = u, !.csrf = sessions + 1, !.sets = NewSession(u),
                            !.drops = Same]

LEMMA ShownFields ==
  ASSUME NEW c \in Calls, NEW u \in Shown, NEW n \in Tokens,
         NEW d, d = Telling(c, u, n)
  PROVE  /\ d \in Calls /\ d.kind = c.kind /\ d.tab = c.tab /\ d.front = c.front
         /\ d.flow = c.flow /\ d.stage = "answered"
         /\ d.user = u /\ d.csrf = n /\ d.session = None /\ d.crumb = None
         /\ d.sets = c.sets /\ d.drops = c.drops
<1>1. PICK a : a = Answered(c, TRUE)
  OBVIOUS
<1>2. /\ a \in Calls /\ a.kind = c.kind /\ a.tab = c.tab /\ a.front = c.front
      /\ a.flow = c.flow /\ a.stage = "answered" /\ a.good = TRUE
      /\ a.session = None /\ a.crumb = None /\ a.sets = c.sets /\ a.drops = c.drops
  BY <1>1, AnswerFields
<1>3. d = [a EXCEPT !.user = u, !.csrf = n]
  BY <1>1 DEF Telling
<1>4. d \in Calls
  BY <1>2, <1>3, Bounds DEF Calls, Shown, Tokens
<1>5. /\ d.kind = a.kind /\ d.tab = a.tab /\ d.front = a.front
      /\ d.flow = a.flow /\ d.stage = a.stage /\ d.good = a.good
      /\ d.user = u /\ d.csrf = n /\ d.session = a.session /\ d.crumb = a.crumb
      /\ d.sets = a.sets /\ d.drops = a.drops
  BY <1>2, <1>3 DEF Calls
<1> QED BY <1>2, <1>4, <1>5

LEMMA OpenFields ==
  ASSUME NEW c \in Calls, NEW good \in BOOLEAN, NEW u \in Users, TypeOK, sessions < MaxSessions,
         NEW d, d = Opening(c, good, u)
  PROVE  /\ d \in Calls /\ d.kind = c.kind /\ d.tab = c.tab /\ d.front = c.front
         /\ d.flow = c.flow /\ d.stage = "answered" /\ d.good = good
         /\ d.user = u /\ d.csrf = sessions + 1 /\ d.session = None /\ d.crumb = None
         /\ d.drops = Same
         /\ d.sets \in Sessions /\ d.sets.id = sessions + 1 /\ d.sets.user = u
<1>1. NewSession(u) \in Sessions /\ NewSession(u).id = sessions + 1 /\ NewSession(u).user = u
  BY Bounds DEF NewSession, Sessions, TypeOK
<1>2. sessions + 1 \in 0 .. MaxSessions
  BY Bounds DEF TypeOK
<1>3. PICK a, s, n : a = Answered(c, good) /\ s = NewSession(u) /\ n = sessions + 1
  OBVIOUS
<1>4. /\ a \in Calls /\ a.kind = c.kind /\ a.tab = c.tab /\ a.front = c.front
      /\ a.flow = c.flow /\ a.stage = "answered" /\ a.good = good
      /\ a.session = None /\ a.crumb = None
      /\ s \in Sessions /\ s.id = n /\ s.user = u /\ n \in 0 .. MaxSessions
  BY <1>1, <1>2, <1>3, AnswerFields
<1>5. d = [a EXCEPT !.user = u, !.csrf = n, !.sets = s, !.drops = Same]
  BY <1>3 DEF Opening
<1>6. d \in Calls
  BY <1>4, <1>5, Bounds DEF Calls
<1>7. /\ d.kind = a.kind /\ d.tab = a.tab /\ d.front = a.front
      /\ d.flow = a.flow /\ d.stage = a.stage /\ d.good = a.good
      /\ d.user = u /\ d.csrf = n /\ d.session = a.session /\ d.crumb = a.crumb
      /\ d.sets = s /\ d.drops = Same
  BY <1>4, <1>5 DEF Calls
<1> QED BY <1>3, <1>4, <1>6, <1>7

-----------------------------------------------------------------------------
Distinct == None # Same /\ None # Nobody /\ None \notin Users /\ Nobody \notin Users
            /\ {None, Same} \cap (Sessions \cup Crumbs \cup Flows) = {}

LEMMA Sentinels == Distinct
  BY SignInAssumption DEF Distinct

LEMMA Typed ==
  ASSUME TypeOK, NEW c \in calls
  PROVE  /\ c \in Calls /\ c.kind \in Kinds /\ c.tab \in Tabs /\ c.front \in BOOLEAN
         /\ c.user \in Users \cup {None, Nobody} /\ c.flow \in FlowIds \cup {None}
         /\ c.csrf \in 0 .. MaxSessions /\ c.session \in Sessions \cup {None}
         /\ c.crumb \in Crumbs \cup {None} /\ c.good \in BOOLEAN
         /\ c.stage \in {"sent", "config", "grant", "answered"}
         /\ c.sets \in Sessions \cup {None, Same} /\ c.drops \in Crumbs \cup {None, Same}
<1> c \in Calls
  BY DEF TypeOK
<1> QED BY DEF Calls

\* A request that is not part of an identity provider's flow, and is answered at once.
LEMMA Direct ==
  ASSUME TypeOK, CallsOK, NEW c \in calls, NEW d \in Calls, c.stage = "sent",
         c.kind \in {"session", "local", "header", "read", "write", "logout"},
         d.kind = c.kind, d.tab = c.tab, d.front = c.front, d.stage = "answered",
         d.drops = Same, Becomes(c, d),
         UNCHANGED <<config, now, browser, discovery, used, flow, mishaps, marks>>
  PROVE  Turned(c, d) /\ Quiet(c, d)
<1>1. c.sets = Same /\ c.drops = Same /\ c.front
  BY DEF CallsOK, ShapeOK, Returns
<1>2. ShapeOK(d) /\ ~Redirects(d) /\ c.kind \notin Returns
  BY <1>1, Sentinels DEF ShapeOK, Returns, Redirects, Distinct
<1> QED BY <1>2 DEF Turned, Quiet, Becomes, browser, TypeOK

\* A refusal or a bare success says nothing of a session.
LEMMA BareIsOwned ==
  ASSUME TypeOK, CallsOK, NEW c \in calls, NEW d, c.stage = "sent", c.kind # "write" \/ ~d.good,
         NEW good \in BOOLEAN, d = Answered(c, good), sessions' = sessions, acted' = acted,
         ~(c.kind \in {"session", "local", "header"} /\ good)
  PROVE  Owned(c, d)
<1>1. d.csrf = 0 /\ d.session = None /\ d.sets = c.sets /\ d.kind = c.kind /\ d.good = good
  BY Typed, AnswerFields
<1>2. c.sets = Same
  BY DEF CallsOK, ShapeOK
<1> QED BY <1>1, <1>2 DEF Owned

LEMMA FailIsHandled ==
  ASSUME TypeOK, CallsOK, NEW c \in calls, c.stage = "sent",
         c.kind \in {"session", "local", "header", "read", "write", "logout"}, Fails(c),
         UNCHANGED <<config, now, browser, discovery, used, flow, mishaps, marks, sessions, acted>>
  PROVE  \E d : Handled(c, d)
<1>1. PICK d : d = Answered(c, FALSE)
  OBVIOUS
<1>2. /\ d \in Calls /\ d.kind = c.kind /\ d.tab = c.tab /\ d.front = c.front
      /\ d.stage = "answered" /\ d.drops = c.drops /\ d.good = FALSE
  BY <1>1, Typed, AnswerFields
<1>3. c.drops = Same
  BY DEF CallsOK, ShapeOK, Returns
<1>4. Turned(c, d) /\ Quiet(c, d)
  BY <1>1, <1>2, <1>3, Direct DEF Fails
<1>5. Owned(c, d)
  BY <1>1, <1>2, BareIsOwned
<1> QED BY <1>4, <1>5 DEF Handled

LEMMA ShowIsHandled ==
  ASSUME TypeOK, CallsOK, NEW c \in calls, c.stage = "sent",
         c.kind \in {"session", "local", "header"},
         NEW u \in Shown, NEW s \in Sessions \cup {None}, Shows(c, u, s),
         s # None => s = c.session /\ u = s.user, ~config.enabled => u = Nobody,
         UNCHANGED <<config, now, browser, discovery, used, flow, mishaps, marks, sessions, acted>>
  PROVE  \E d : Handled(c, d)
<1>1. PICK n \in Tokens : n = IF s = None THEN 0 ELSE s.id
  BY Bounds DEF Sessions, Tokens
<1>2. n = 0 \/ (s \in Sessions /\ n = s.id)
  BY <1>1
<1>3. PICK d : d = Telling(c, u, n)
  OBVIOUS
<1>4. /\ d \in Calls /\ d.kind = c.kind /\ d.tab = c.tab /\ d.front = c.front
      /\ d.stage = "answered" /\ d.drops = c.drops /\ d.user = u /\ d.csrf = n
      /\ d.session = None /\ d.sets = c.sets
  <2>1. c \in Calls
    BY Typed
  <2> QED BY <1>2, <1>3, <2>1, ShownFields
<1>5. c.drops = Same /\ c.sets = Same
  BY DEF CallsOK, ShapeOK, Returns
<1>6. Becomes(c, d)
  BY <1>1, <1>3 DEF Shows, Telling
<1>7. Turned(c, d) /\ Quiet(c, d)
  BY <1>4, <1>5, <1>6, Direct
<1>8. s # None => s \in Sessions
  OBVIOUS
<1>9. Owned(c, d)
  BY <1>2, <1>4, <1>5, <1>8, Sentinels DEF Owned, Distinct
<1> QED BY <1>7, <1>9 DEF Handled

LEMMA OpenIsOwned ==
  ASSUME TypeOK, NEW c \in calls, NEW u \in Users, NEW good \in BOOLEAN, config.enabled,
         Opens(c, u, good), acted' = acted
  PROVE  \E d \in Calls :
           /\ Becomes(c, d) /\ Owned(c, d)
           /\ d.kind = c.kind /\ d.tab = c.tab /\ d.front = c.front /\ d.flow = c.flow
           /\ d.stage = "answered" /\ d.drops = Same /\ d.good = good
<1>1. PICK d : d = Opening(c, good, u)
  OBVIOUS
<1>2. sessions < MaxSessions /\ sessions' = sessions + 1 /\ Becomes(c, d)
  BY <1>1 DEF Opens, Opening
<1>3. /\ d \in Calls /\ d.kind = c.kind /\ d.tab = c.tab /\ d.front = c.front
      /\ d.flow = c.flow /\ d.stage = "answered" /\ d.good = good
      /\ d.user = u /\ d.csrf = sessions + 1 /\ d.session = None /\ d.drops = Same
      /\ d.sets \in Sessions /\ d.sets.id = sessions + 1 /\ d.sets.user = u
  BY <1>1, <1>2, Typed, OpenFields
<1>4. Owned(c, d)
  <2>1. acted' = acted
    OBVIOUS
  <2>2. ~(~config.enabled /\ d.kind \in {"session", "local", "header"} /\ d.good)
    OBVIOUS
  <2> QED BY <1>2, <1>3, <2>1, <2>2 DEF Owned
<1> QED BY <1>2, <1>3, <1>4

LEMMA OpenIsHandled ==
  ASSUME TypeOK, CallsOK, NEW c \in calls, c.stage = "sent",
         c.kind \in {"session", "local", "header", "read", "write", "logout"},
         NEW u \in Users, NEW good \in BOOLEAN, config.enabled, Opens(c, u, good),
         UNCHANGED <<config, now, browser, discovery, used, flow, mishaps, marks, acted>>
  PROVE  \E d : Handled(c, d)
  BY OpenIsOwned, Direct DEF Handled

LEMMA HeldSession ==
  ASSUME TypeOK, NEW c \in calls
  PROVE  Held(c) = None \/ (Held(c) \in Sessions /\ Held(c) = c.session)
  BY Typed DEF Held

LEMMA ConfigTyped ==
  ASSUME TypeOK
  PROVE  /\ config.enabled \in BOOLEAN /\ config.local \in Users
         /\ config.proxied \in Users \cup {None} /\ config.allowed \subseteq Users
         /\ config.providers \subseteq Sso
         /\ HeaderUser \in Users \cup {None} /\ Providers \subseteq Sso
<1>1. config \in ConfigRows
  BY SignInAssumption DEF TypeOK
<1>2. config.proxied \in Users \cup {None} /\ config.allowed \subseteq Users
      /\ config.providers \subseteq Sso /\ config.enabled \in BOOLEAN /\ config.local \in Users
  BY <1>1 DEF ConfigRows
<1>3. HeaderUser \in Users \cup {None}
  BY <1>2 DEF HeaderUser
<1>4. Providers \subseteq Sso
  BY <1>2 DEF Providers, Sso
<1> QED BY <1>2, <1>3, <1>4

LEMMA StatusIsHandled ==
  ASSUME TypeOK, CallsOK, NEW c \in calls, Status(c),
         UNCHANGED <<config, now, browser, discovery, used, flow, mishaps, marks>>
  PROVE  \E d : Handled(c, d)
<1>1. c.stage = "sent" /\ c.kind = "session" /\ sessions' = sessions /\ acted' = acted
  BY DEF Status, Waiting
<1>2. CASE ~config.enabled
  <2>1. Shows(c, Nobody, None) /\ Nobody \in Shown
    BY <1>2 DEF Status, Shown
  <2> QED BY <1>1, <2>1, ShowIsHandled
<1>3. CASE config.enabled /\ Held(c) = None
  <2>1. Shows(c, None, None) /\ None \in Shown
    BY <1>3 DEF Status, Shown
  <2> QED BY <1>1, <1>3, <2>1, ShowIsHandled
<1>4. CASE config.enabled /\ Held(c) # None
  <2>1. Held(c) \in Sessions /\ Held(c) = c.session /\ Held(c).user \in Shown
    BY <1>4, HeldSession DEF Shown, Sessions
  <2>2. Shows(c, Held(c).user, Held(c))
    BY <1>4 DEF Status
  <2> QED BY <1>1, <1>4, <2>1, <2>2, ShowIsHandled
<1> QED BY <1>2, <1>3, <1>4

LEMMA LoginIsHandled ==
  ASSUME TypeOK, CallsOK, NEW c \in calls, LocalLogin(c) \/ HeaderLogin(c),
         UNCHANGED <<config, now, browser, discovery, used, flow, mishaps, marks>>
  PROVE  \E d : Handled(c, d)
<1>1. c.stage = "sent" /\ c.kind \in {"local", "header"} /\ acted' = acted
  BY DEF LocalLogin, HeaderLogin, Waiting
<1>2. CASE ~config.enabled /\ Shows(c, Nobody, None) /\ UNCHANGED sessions
  <2> Nobody \in Shown
    BY DEF Shown
  <2> QED BY <1>1, <1>2, ShowIsHandled
<1>3. ASSUME NEW u \in Users, config.enabled, Opens(c, u, TRUE) PROVE \E d : Handled(c, d)
  BY <1>1, <1>3, OpenIsHandled
<1>4. CASE Fails(c) /\ UNCHANGED sessions
  BY <1>1, <1>4, FailIsHandled
<1>5. config.local \in Users /\ HeaderUser \in Users \cup {None}
  BY ConfigTyped
<1>6. CASE LocalLogin(c)
  BY <1>2, <1>3, <1>4, <1>5, <1>6 DEF LocalLogin
<1>7. CASE HeaderLogin(c)
  BY <1>2, <1>3, <1>4, <1>5, <1>7 DEF HeaderLogin
<1> QED BY <1>6, <1>7

\* The answer of Carried.
Carrying(c) == [Answered(c, TRUE) EXCEPT !.sets = IF c.kind = "logout" THEN None ELSE @]

LEMMA CarriedFields ==
  ASSUME NEW c \in Calls, NEW d, d = Carrying(c)
  PROVE  /\ d \in Calls /\ d.kind = c.kind /\ d.tab = c.tab /\ d.front = c.front
         /\ d.stage = "answered" /\ d.csrf = 0 /\ d.session = None
         /\ d.drops = c.drops /\ d.sets \in {None, c.sets}
<1>1. PICK a : a = Answered(c, TRUE)
  OBVIOUS
<1>2. /\ a \in Calls /\ a.kind = c.kind /\ a.tab = c.tab /\ a.front = c.front
      /\ a.stage = "answered" /\ a.csrf = 0
      /\ a.session = None /\ a.sets = c.sets /\ a.drops = c.drops
  BY <1>1, AnswerFields
<1>3. PICK s : s = IF c.kind = "logout" THEN None ELSE a.sets
  OBVIOUS
<1>4. d = [a EXCEPT !.sets = s]
  BY <1>1, <1>3 DEF Carrying
<1>5. a.sets \in Sessions \cup {None, Same} /\ s \in Sessions \cup {None, Same}
  BY <1>2, <1>3 DEF Calls
<1>6. d \in Calls
  BY <1>2, <1>4, <1>5 DEF Calls
<1>7. /\ d.kind = a.kind /\ d.tab = a.tab /\ d.front = a.front /\ d.stage = a.stage
      /\ d.csrf = a.csrf /\ d.session = a.session /\ d.drops = a.drops /\ d.sets = s
  BY <1>2, <1>4 DEF Calls
<1> QED BY <1>2, <1>3, <1>6, <1>7

LEMMA CarriedIsHandled ==
  ASSUME TypeOK, CallsOK, NEW c \in calls, c.kind \in {"read", "write", "logout"},
         c.stage = "sent", NEW u \in Users \cup {Nobody}, Carried(c, u), UNCHANGED sessions,
         c.kind = "write" =>
           IF config.enabled THEN c.session \in Sessions /\ c.csrf = c.session.id /\ u = c.session.user
                             ELSE u = Nobody,
         UNCHANGED <<config, now, browser, discovery, used, flow, mishaps, marks>>
  PROVE  \E d : Handled(c, d)
<1>1. PICK d : d = Carrying(c)
  OBVIOUS
<1>2. /\ d \in Calls /\ d.kind = c.kind /\ d.tab = c.tab /\ d.front = c.front
      /\ d.stage = "answered" /\ d.csrf = 0 /\ d.session = None
      /\ d.drops = c.drops /\ d.sets \in {None, c.sets}
  BY <1>1, Typed, CarriedFields
<1>3. c.drops = Same /\ c.sets = Same
  BY DEF CallsOK, ShapeOK, Returns
<1>4. Becomes(c, d)
  BY <1>1 DEF Carried, Carrying
<1>5. Turned(c, d) /\ Quiet(c, d)
  BY <1>2, <1>3, <1>4, Direct
<1>6. acted' = acted \/ Acts(c, u)
  BY DEF Carried, Acts
<1>7. Owned(c, d)
  BY <1>2, <1>3, <1>6 DEF Owned
<1> QED BY <1>5, <1>7 DEF Handled

LEMMA GuardIsHandled ==
  ASSUME TypeOK, CallsOK, NEW c \in calls, Guards(c),
         UNCHANGED <<config, now, browser, discovery, used, flow, mishaps, marks>>
  PROVE  \E d : Handled(c, d)
<1>1. c.stage = "sent" /\ c.kind \in {"read", "write", "logout"}
  BY DEF Guards
<1>2. CASE ~config.enabled /\ Carried(c, Nobody) /\ UNCHANGED sessions
  BY <1>1, <1>2, CarriedIsHandled
<1>3. CASE Fails(c) /\ UNCHANGED <<sessions, acted>>
  BY <1>1, <1>3, FailIsHandled
<1>4. CASE /\ config.enabled /\ Held(c) # None /\ UNCHANGED sessions
           /\ Verifies(c, Held(c)) /\ Carried(c, Held(c).user)
  <2>1. Held(c) \in Sessions /\ Held(c) = c.session /\ Held(c).user \in Users
    BY <1>4, HeldSession DEF Sessions
  <2>2. c.kind = "write" => c.csrf = c.session.id
    BY <1>4, <2>1 DEF Verifies
  <2> QED BY <1>1, <1>4, <2>1, <2>2, CarriedIsHandled
<1>5. CASE config.enabled /\ HeaderUser # None /\ Opens(c, HeaderUser, c.kind = "read")
           /\ acted' = acted
  <2>1. HeaderUser \in Users /\ (c.kind = "read") \in BOOLEAN
    BY <1>5, ConfigTyped
  <2> QED BY <1>1, <1>5, <2>1, OpenIsHandled
<1> QED BY <1>2, <1>3, <1>4, <1>5 DEF Guards

LEMMA ReplyIsHandled ==
  ASSUME TypeOK, CallsOK, NEW c \in calls, Replies(c) PROVE \E d : Handled(c, d)
  BY StatusIsHandled, LoginIsHandled, GuardIsHandled DEF Replies

-----------------------------------------------------------------------------
(***************************************************************************)
(* The handlers of the flows                                               *)
(***************************************************************************)
\* A request turned into an answer without a session.
LEMMA AnswerIsTurned ==
  ASSUME TypeOK, CallsOK, NEW c \in calls, c.stage # "answered", NEW d \in Calls,
         d.kind = c.kind, d.tab = c.tab, d.front = c.front, d.stage = "answered",
         d.drops \in {Same, None}, d.drops = None => c.kind = "callback",
         d.kind \in Returns \/ ~d.good \/ d.kind = "saml",
         Becomes(c, d), UNCHANGED <<config, now, browser>>,
         discovery' \in {"none", "pending", "ready", "failed"}, mishaps' \in 0 .. MaxMishaps
  PROVE  Turned(c, d)
<1>1. c.front \/ c.kind \in Returns
  BY DEF CallsOK, ShapeOK
<1>2. d.drops \notin Crumbs
  BY Sentinels DEF Distinct
<1>3. ShapeOK(d)
  BY <1>1, <1>2 DEF ShapeOK, Returns, Redirects
<1> QED BY <1>3 DEF Turned, Becomes, browser

LEMMA PlainIsOwned ==
  ASSUME TypeOK, CallsOK, NEW c \in calls, c.stage # "answered", NEW d,
         d.session = None \/ d.session = c.session, d.sets = Same,
         d.csrf = 0 \/ (d.csrf = c.csrf /\ d.user = c.user), d.kind = c.kind,
         c.kind \in {"oidc", "saml"} \cup Returns,
         sessions' = sessions, acted' = acted
  PROVE  Owned(c, d)
  BY DEF Owned, Returns

LEMMA RefusalIsHandled ==
  ASSUME TypeOK, CallsOK, NEW c \in calls, c.kind \in Returns, c.stage # "answered",
         NEW d \in Calls, d.kind = c.kind, d.tab = c.tab, d.front = c.front, d.flow = c.flow,
         d.stage = "answered", d.drops \in {Same, None}, d.drops = None => c.kind = "callback",
         d.session = None, d.csrf = 0, d.sets = Same, Becomes(c, d),
         NEW words \in SUBSET {"failed"},
         Marks(c.flow, words \cup (IF c.user \in config.allowed THEN {"refused"} ELSE {})
                             \cup (IF Late(c.flow) THEN {"late"} ELSE {})),
         c.user \in config.allowed =>
           Late(c.flow) \/ words # {} \/ {"crossed", "repeated"} \cap marks[c.flow] # {},
         Spends(c), UNCHANGED <<config, now, browser, flow, sessions, acted>>,
         discovery' \in {"none", "pending", "ready", "failed"}, mishaps' \in 0 .. MaxMishaps
  PROVE  Handled(c, d)
<1>1. Turned(c, d)
  BY AnswerIsTurned
<1>2. Owned(c, d)
  BY PlainIsOwned DEF Returns
<1>3. PICK ws \in SUBSET {"refused", "late", "failed"} :
        ws = words \cup (IF c.user \in config.allowed THEN {"refused"} ELSE {})
                   \cup (IF Late(c.flow) THEN {"late"} ELSE {})
  OBVIOUS
<1>4. "refused" \in ws =>
        {"late", "failed"} \cap ws # {} \/ {"crossed", "repeated"} \cap marks[c.flow] # {}
  BY <1>3
<1>5. Marks(c.flow, ws)
  BY <1>3
<1>6. Refused(c, d)
  BY <1>4, <1>5 DEF Refused
<1> QED BY <1>1, <1>2, <1>6 DEF Handled

LEMMA FailFields ==
  ASSUME TypeOK, CallsOK, NEW c \in calls, c.stage # "answered", NEW d, d = Answered(c, FALSE)
  PROVE  /\ d \in Calls /\ d.kind = c.kind /\ d.tab = c.tab /\ d.front = c.front
         /\ d.flow = c.flow /\ d.stage = "answered" /\ ~d.good /\ d.csrf = 0
         /\ d.session = None /\ d.sets = Same /\ d.drops = c.drops
         /\ d.drops \in {Same, None} /\ (d.drops = None => c.kind = "callback")
<1>1. PICK b \in BOOLEAN : b = FALSE
  OBVIOUS
<1>2. /\ d \in Calls /\ d.kind = c.kind /\ d.tab = c.tab /\ d.front = c.front
      /\ d.flow = c.flow /\ d.stage = "answered" /\ d.good = b /\ d.csrf = 0
      /\ d.session = None /\ d.sets = c.sets /\ d.drops = c.drops
  BY <1>1, Typed, AnswerFields
<1>3. c.sets = Same /\ c.drops \in {Same, None} /\ (c.drops = None => c.kind = "callback")
  BY DEF CallsOK, ShapeOK
<1> QED BY <1>1, <1>2, <1>3

LEMMA RefuseIsHandled ==
  ASSUME TypeOK, CallsOK, NEW c \in calls, c.kind \in Returns, c.stage # "answered",
         NEW words \in SUBSET {"failed"}, Refuses(c, words),
         c.user \in config.allowed =>
           Late(c.flow) \/ words # {} \/ {"crossed", "repeated"} \cap marks[c.flow] # {},
         Spends(c), UNCHANGED <<config, now, browser, flow, sessions, acted>>,
         discovery' \in {"none", "pending", "ready", "failed"}, mishaps' \in 0 .. MaxMishaps
  PROVE  \E d : Handled(c, d)
<1>1. PICK d : d = Answered(c, FALSE)
  OBVIOUS
<1>2. Becomes(c, d)
  BY <1>1 DEF Refuses, Fails
<1>3. Marks(c.flow, words \cup (IF c.user \in config.allowed THEN {"refused"} ELSE {})
                          \cup (IF Late(c.flow) THEN {"late"} ELSE {}))
  BY DEF Refuses
<1>4. /\ d \in Calls /\ d.kind = c.kind /\ d.tab = c.tab /\ d.front = c.front
      /\ d.flow = c.flow /\ d.stage = "answered" /\ d.csrf = 0
      /\ d.session = None /\ d.sets = Same
      /\ d.drops \in {Same, None} /\ (d.drops = None => c.kind = "callback")
  BY <1>1, FailFields
<1> QED BY <1>2, <1>3, <1>4, RefusalIsHandled

\* The answers of startLogin, and of SamlAuthService's.
RedirectingOidc(c) ==
  [Answered(c, TRUE) EXCEPT !.flow = NextFlow, !.drops = [flow |-> NextFlow, until |-> StateUntil]]
RedirectingSaml(c) == [Answered(c, TRUE) EXCEPT !.flow = NextFlow]

LEMMA RedirectFields ==
  ASSUME TypeOK, NEW c \in Calls, NextFlow \in FlowIds, c.kind \in {"oidc", "saml"},
         NEW d, d = IF c.kind = "oidc" THEN RedirectingOidc(c) ELSE RedirectingSaml(c)
  PROVE  /\ d \in Calls /\ d.kind = c.kind /\ d.tab = c.tab /\ d.front = c.front
         /\ d.stage = "answered" /\ d.flow = NextFlow /\ d.csrf = 0 /\ d.session = None
         /\ d.sets = c.sets /\ Redirects(d)
         /\ d.drops = IF c.kind = "oidc" THEN [flow |-> NextFlow, until |-> now + StateTtl]
                                         ELSE c.drops
<1>1. PICK a : a = Answered(c, TRUE)
  OBVIOUS
<1>2. /\ a \in Calls /\ a.kind = c.kind /\ a.tab = c.tab /\ a.front = c.front
      /\ a.stage = "answered" /\ a.csrf = 0
      /\ a.session = None /\ a.sets = c.sets /\ a.drops = c.drops
  BY <1>1, AnswerFields
<1>3. a.good
  BY <1>1, AnswerFields
<1>4. PICK f, crumb : f = NextFlow /\ crumb = [flow |-> NextFlow, until |-> now + StateTtl]
  OBVIOUS
<1>5. now + StateTtl \in Nat
  BY Bounds DEF TypeOK
<1>6. f \in FlowIds /\ crumb \in Crumbs
  BY <1>4, <1>5 DEF Crumbs
<1>7. CASE c.kind = "oidc"
  <2>1. d = [a EXCEPT !.flow = f, !.drops = crumb]
    BY <1>1, <1>4, <1>7 DEF RedirectingOidc, StateUntil
  <2>2. d \in Calls
    BY <1>2, <1>6, <2>1 DEF Calls
  <2>3. /\ d.kind = a.kind /\ d.tab = a.tab /\ d.front = a.front /\ d.stage = a.stage
        /\ d.flow = f /\ d.csrf = a.csrf /\ d.session = a.session /\ d.sets = a.sets
        /\ d.good = a.good /\ d.drops = crumb
    BY <1>2, <2>1 DEF Calls
  <2> QED BY <1>2, <1>3, <1>4, <1>7, <2>2, <2>3 DEF Redirects
<1>8. CASE c.kind = "saml"
  <2>1. d = [a EXCEPT !.flow = f]
    BY <1>1, <1>4, <1>8 DEF RedirectingSaml
  <2>2. d \in Calls
    BY <1>2, <1>6, <2>1 DEF Calls
  <2>3. /\ d.kind = a.kind /\ d.tab = a.tab /\ d.front = a.front /\ d.stage = a.stage
        /\ d.flow = f /\ d.csrf = a.csrf /\ d.session = a.session /\ d.sets = a.sets
        /\ d.good = a.good /\ d.drops = a.drops
    BY <1>2, <2>1 DEF Calls
  <2> QED BY <1>2, <1>3, <1>4, <1>8, <2>2, <2>3 DEF Redirects
<1> QED BY <1>7, <1>8

LEMMA RedirectIsHandled ==
  ASSUME TypeOK, CallsOK, NEW c \in calls, c.kind \in {"oidc", "saml"}, c.stage # "answered",
         NEW d, d = (IF c.kind = "oidc" THEN RedirectingOidc(c) ELSE RedirectingSaml(c)),
         Becomes(c, d), BeginsFlow(c, c.kind),
         UNCHANGED <<config, now, browser, discovery, used, sessions, mishaps, acted, marks>>
  PROVE  Handled(c, d)
<1>1. NextFlow \in FlowIds
  BY DEF BeginsFlow
<1>2. /\ d \in Calls /\ d.kind = c.kind /\ d.tab = c.tab /\ d.front = c.front
      /\ d.stage = "answered" /\ d.flow = NextFlow /\ d.csrf = 0 /\ d.session = None
      /\ d.sets = c.sets /\ Redirects(d)
      /\ d.drops = IF c.kind = "oidc" THEN [flow |-> NextFlow, until |-> now + StateTtl]
                                      ELSE c.drops
  BY <1>1, Typed, RedirectFields
<1>3. c.sets = Same /\ c.drops = Same /\ c.front
  BY DEF CallsOK, ShapeOK, Returns
<1>4. c.kind = "oidc" => d.drops \in Crumbs
  <2>1. now + StateTtl \in Nat
    BY Bounds DEF TypeOK
  <2> QED BY <1>1, <1>2, <2>1 DEF Crumbs
<1>5. ShapeOK(d)
  BY <1>2, <1>3, <1>4, Sentinels DEF ShapeOK, Returns, Distinct
<1>6. Turned(c, d)
  BY <1>2, <1>5 DEF Turned, Becomes, browser, TypeOK
<1>7. Owned(c, d)
  BY <1>2, <1>3, PlainIsOwned
<1>8. Begins(c, d)
  BY <1>2 DEF Begins
<1> QED BY <1>6, <1>7, <1>8 DEF Handled

\* A request that goes on to a later stage.
LEMMA MoveIsTurned ==
  ASSUME TypeOK, CallsOK, NEW c \in calls, c.stage # "answered",
         c.kind \in {"oidc"} \cup Returns, NEW s \in {"config", "grant"},
         s = "config" => c.kind \in {"oidc", "callback"}, s = "grant" => c.kind \in Returns,
         c.kind = "callback" => c.crumb # None,
         NEW e, e = (IF c.kind = "callback" /\ s = "config" THEN [c EXCEPT !.drops = None] ELSE c),
         NEW d, d = [e EXCEPT !.stage = s], Becomes(c, d),
         UNCHANGED <<config, now, browser, sessions, acted>>,
         discovery' \in {"none", "pending", "ready", "failed"}, mishaps' \in 0 .. MaxMishaps
  PROVE  /\ Turned(c, d) /\ Owned(c, d) /\ d.stage = s /\ d.flow = c.flow /\ d.crumb = c.crumb
         /\ (c.kind = "oidc" => d.drops = Same)
<1>1. /\ e \in Calls /\ e.kind = c.kind /\ e.tab = c.tab /\ e.front = c.front
      /\ e.flow = c.flow /\ e.user = c.user /\ e.csrf = c.csrf /\ e.session = c.session
      /\ e.crumb = c.crumb /\ e.sets = c.sets /\ e.drops \in {c.drops, None}
      /\ (e.drops = None => c.drops = None \/ c.kind = "callback")
  BY Typed DEF Calls
<1>2. /\ d \in Calls /\ d.kind = e.kind /\ d.tab = e.tab /\ d.front = e.front
      /\ d.flow = e.flow /\ d.user = e.user /\ d.csrf = e.csrf /\ d.session = e.session
      /\ d.crumb = e.crumb /\ d.stage = s /\ d.sets = e.sets /\ d.drops = e.drops
  BY <1>1 DEF Calls
<1>3. /\ c.sets = Same /\ c.drops \in {Same, None} /\ (c.drops = None => c.kind = "callback")
      /\ (c.front \/ c.kind \in Returns)
  BY DEF CallsOK, ShapeOK
<1>4. ShapeOK(d)
  BY <1>1, <1>2, <1>3, Sentinels DEF ShapeOK, Returns, Redirects, Distinct
<1>5. Turned(c, d)
  BY <1>1, <1>2, <1>4 DEF Turned, Becomes, browser
<1>6. Owned(c, d)
  BY <1>1, <1>2, <1>3, PlainIsOwned
<1> QED BY <1>1, <1>2, <1>3, <1>5, <1>6 DEF Returns

LEMMA PassIsTurned ==
  ASSUME TypeOK, CallsOK, NEW c \in calls, c.kind \in Returns, c.stage # "answered",
         Passes(c) \/ Fails(c), UNCHANGED <<config, now, browser, sessions, acted>>,
         discovery' \in {"none", "pending", "ready", "failed"}, mishaps' \in 0 .. MaxMishaps
  PROVE  \E d : Turned(c, d) /\ Owned(c, d) /\ d.stage = "answered" /\ d.flow = c.flow
<1>0. PICK good \in BOOLEAN : Becomes(c, Answered(c, good))
  BY DEF Passes, Fails
<1>1. PICK d : d = Answered(c, good) /\ Becomes(c, d)
  BY <1>0
<1>2. /\ d \in Calls /\ d.kind = c.kind /\ d.tab = c.tab /\ d.front = c.front
      /\ d.flow = c.flow /\ d.stage = "answered" /\ d.csrf = 0
      /\ d.session = None /\ d.sets = c.sets /\ d.drops = c.drops
  BY <1>1, Typed, AnswerFields
<1>3. c.sets = Same /\ c.drops \in {Same, None} /\ (c.drops = None => c.kind = "callback")
  BY DEF CallsOK, ShapeOK
<1>4. Turned(c, d)
  BY <1>1, <1>2, <1>3, AnswerIsTurned
<1>5. Owned(c, d)
  BY <1>1, <1>2, <1>3, PlainIsOwned DEF Returns
<1> QED BY <1>2, <1>4, <1>5

LEMMA EnterIsHandled ==
  ASSUME TypeOK, CallsOK, NEW c \in calls, c.kind \in Returns, c.stage = "grant", Enters(c),
         Spends(c), UNCHANGED <<config, now, browser, discovery, flow, mishaps, acted>>
  PROVE  \E d : Handled(c, d)
<1>t. discovery' \in {"none", "pending", "ready", "failed"} /\ mishaps' \in 0 .. MaxMishaps
  BY DEF TypeOK
<1>1. ASSUME NEW d, Turned(c, d), Owned(c, d), d.stage = "answered", d.flow = c.flow
      PROVE  Handled(c, d)
  <2>1. Entered(c, d)
    BY <1>1 DEF Entered, Enters
  <2> QED BY <1>1, <2>1 DEF Handled
<1>2. CASE (Passes(c) \/ Fails(c)) /\ UNCHANGED sessions
  BY <1>t, <1>1, <1>2, PassIsTurned
<1>3. CASE config.enabled /\ c.user \in config.allowed /\ Opens(c, c.user, TRUE)
  <2>1. c.user \in Users
    BY <1>3, ConfigTyped
  <2>2. PICK d \in Calls :
          /\ Becomes(c, d) /\ Owned(c, d)
          /\ d.kind = c.kind /\ d.tab = c.tab /\ d.front = c.front /\ d.flow = c.flow
          /\ d.stage = "answered" /\ d.drops = Same
    BY <1>3, <2>1, OpenIsOwned
  <2>3. Turned(c, d)
    BY <1>t, <2>2, Sentinels, AnswerIsTurned DEF Distinct
  <2> QED BY <1>1, <2>2, <2>3
<1> QED BY <1>2, <1>3 DEF Enters

\* The state that a callback brings is its flow's, unless another login crossed it.
LEMMA CrumbOrCrossed ==
  ASSUME TypeOK, CallsOK, CrumbsKept, NEW c \in calls, c.kind = "callback", c.stage # "answered",
         "crossed" \notin marks[c.flow]
  PROVE  /\ c.crumb # None /\ c.crumb.flow = c.flow
         /\ c.crumb.until = flow[c.flow].began + StateTtl
<1>1. c.crumb = CrumbOf(c.flow)
  BY DEF CrumbsKept
<1>2. c.flow \in Begun
  BY DEF CallsOK, Returns
<1>3. flow[c.flow] \in Flows
  BY <1>2 DEF TypeOK, Begun
<1>4. CrumbOf(c.flow) \in Crumbs
  <2>1. flow[c.flow].began + StateTtl \in Nat /\ c.flow \in FlowIds
    BY <1>2, <1>3, Bounds DEF Flows, Begun
  <2> QED BY <2>1 DEF CrumbOf, Crumbs
<1> QED BY <1>1, <1>4, Sentinels DEF CrumbOf, Distinct

LEMMA OidcIsHandled ==
  ASSUME TypeOK, CallsOK, Alone, CrumbsKept, NEW c \in calls,
         \/ StartsOidc(c) \/ LacksConfiguration(c) \/ RedirectsOidc(c) \/ ReadsState(c)
         \/ Redeems(c) \/ LosesTokens(c) \/ EntersOidc(c)
  PROVE  \E d : Handled(c, d)
<1> USE DEF Waiting
<1>1. CASE StartsOidc(c)
  <2>1. c.kind = "oidc" /\ c.stage = "sent" /\ discovery' \in {"none", "pending", "ready", "failed"}
        /\ UNCHANGED <<config, now, browser, sessions, acted>> /\ mishaps' \in 0 .. MaxMishaps
        /\ UNCHANGED <<used, flow, marks>>
    BY <1>1 DEF StartsOidc, AsksConfiguration, TypeOK
  <2>2. CASE Becomes(c, [c EXCEPT !.stage = "config"])
    <3>1. PICK d : d = [c EXCEPT !.stage = "config"]
      OBVIOUS
    <3>2. Becomes(c, d)
      BY <2>2, <3>1
    <3>3. Turned(c, d) /\ Owned(c, d) /\ d.stage = "config" /\ d.drops = Same
      BY <2>1, <3>1, <3>2, MoveIsTurned DEF Returns
    <3>4. Quiet(c, d)
      BY <2>1, <3>3 DEF Quiet, Returns, Redirects
    <3> QED BY <3>3, <3>4 DEF Handled
  <2>3. CASE Fails(c)
    <3>1. PICK d : d = Answered(c, FALSE)
      OBVIOUS
    <3>2. Becomes(c, d)
      BY <2>3, <3>1 DEF Fails
    <3>3. /\ d \in Calls /\ d.kind = c.kind /\ d.tab = c.tab /\ d.front = c.front
          /\ d.flow = c.flow /\ d.stage = "answered" /\ ~d.good /\ d.csrf = 0
          /\ d.session = None /\ d.sets = Same /\ d.drops = Same
      BY <2>1, <3>1, FailFields
    <3>4. Turned(c, d)
      BY <2>1, <3>2, <3>3, Sentinels, AnswerIsTurned DEF Distinct
    <3>5. Owned(c, d)
      BY <2>1, <3>3, PlainIsOwned
    <3>6. Quiet(c, d)
      BY <2>1, <3>3 DEF Quiet, Returns, Redirects
    <3> QED BY <3>4, <3>5, <3>6 DEF Handled
  <2> QED BY <1>1, <2>2, <2>3 DEF StartsOidc
<1>2. CASE LacksConfiguration(c) /\ c.kind = "oidc"
  <2>1. c.stage = "config" /\ Fails(c) /\ UNCHANGED <<marks, config, now, browser, server, mishaps, acted>>
    BY <1>2 DEF LacksConfiguration
  <2>2. PICK d : d = Answered(c, FALSE)
    OBVIOUS
  <2>3. Becomes(c, d)
    BY <2>1, <2>2 DEF Fails
  <2>4. /\ d \in Calls /\ d.kind = c.kind /\ d.tab = c.tab /\ d.front = c.front
        /\ d.flow = c.flow /\ d.stage = "answered" /\ ~d.good /\ d.csrf = 0
        /\ d.session = None /\ d.sets = Same /\ d.drops = Same
    BY <1>2, <2>1, <2>2, FailFields
  <2>5. /\ discovery' \in {"none", "pending", "ready", "failed"} /\ mishaps' \in 0 .. MaxMishaps
        /\ UNCHANGED <<used, flow, marks>> /\ sessions' = sessions /\ acted' = acted
        /\ UNCHANGED <<config, now, browser>>
    BY <2>1 DEF TypeOK, server
  <2>6. Turned(c, d)
    BY <2>1, <2>3, <2>4, <2>5, Sentinels, AnswerIsTurned DEF Distinct
  <2>7. Owned(c, d)
    BY <1>2, <2>1, <2>4, <2>5, PlainIsOwned
  <2>8. Quiet(c, d)
    BY <1>2, <2>4, <2>5 DEF Quiet, Returns, Redirects
  <2> QED BY <2>6, <2>7, <2>8 DEF Handled
<1>3. CASE LacksConfiguration(c) /\ c.kind # "oidc"
  <2>1. c.stage = "config" /\ c.kind = "callback" /\ Refuses(c, {"failed"})
        /\ UNCHANGED <<config, now, browser, server, mishaps, acted>>
    BY <1>3 DEF LacksConfiguration
  <2>2. Spends(c) /\ UNCHANGED <<config, now, browser, flow, sessions, acted>>
        /\ discovery' \in {"none", "pending", "ready", "failed"} /\ mishaps' \in 0 .. MaxMishaps
    BY <2>1 DEF TypeOK, server, Spends
  <2>3. {"failed"} \in SUBSET {"failed"}
    OBVIOUS
  <2> QED BY <2>1, <2>2, <2>3, RefuseIsHandled DEF Returns
<1>4. CASE RedirectsOidc(c)
  <2>1. PICK d : d = RedirectingOidc(c)
    OBVIOUS
  <2>2. Becomes(c, d) /\ BeginsFlow(c, c.kind) /\ c.kind = "oidc" /\ c.stage = "config"
        /\ UNCHANGED <<config, now, browser, discovery, used, sessions, mishaps, acted, marks>>
    BY <1>4, <2>1 DEF RedirectsOidc, RedirectingOidc
  <2> QED BY <2>1, <2>2, RedirectIsHandled
<1>5. CASE ReadsState(c)
  <2>1. c.kind = "callback" /\ c.stage = "sent"
        /\ UNCHANGED <<config, now, browser, used, flow, sessions, mishaps, acted>>
    BY <1>5 DEF ReadsState
  <2>2. discovery' \in {"none", "pending", "ready", "failed"} /\ mishaps' \in 0 .. MaxMishaps
        /\ UNCHANGED <<config, now, browser, sessions, acted>> /\ UNCHANGED flow /\ Spends(c)
    BY <1>5, <2>1 DEF ReadsState, AsksConfiguration, TypeOK, Spends
  <2>3. PICK e : e = [c EXCEPT !.drops = None]
    OBVIOUS
  <2>4. CASE StateRead(c)
    <3>1. PICK d : d = [e EXCEPT !.stage = "config"]
      OBVIOUS
    <3>2. Becomes(c, d) /\ UNCHANGED marks
      BY <1>5, <2>3, <2>4, <3>1 DEF ReadsState
    <3>3. c.crumb # None
      BY <2>4 DEF StateRead
    <3>4. Turned(c, d) /\ Owned(c, d) /\ d.stage = "config" /\ d.flow = c.flow /\ d.crumb = c.crumb
      BY <2>1, <2>2, <2>3, <3>1, <3>2, <3>3, MoveIsTurned DEF Returns
    <3>5. Proceeds(c, d)
      BY <2>1, <2>2, <3>2, <3>4 DEF Proceeds, Spends
    <3> QED BY <3>4, <3>5 DEF Handled
  <2>5. CASE ~StateRead(c)
    <3>1. PICK d : d = Answered(e, FALSE)
      OBVIOUS
    <3>2. Becomes(c, d)
          /\ Marks(c.flow, {} \cup (IF c.user \in config.allowed THEN {"refused"} ELSE {})
                              \cup (IF Late(c.flow) THEN {"late"} ELSE {}))
      BY <1>5, <2>3, <2>5, <3>1 DEF ReadsState
    <3>3. /\ e \in Calls /\ e.kind = c.kind /\ e.tab = c.tab /\ e.front = c.front
          /\ e.flow = c.flow /\ e.sets = c.sets /\ e.drops = None
      BY <2>3, Typed DEF Calls
    <3>4. c.sets = Same
      BY <2>1 DEF CallsOK, ShapeOK
    <3>5. /\ d \in Calls /\ d.kind = e.kind /\ d.tab = e.tab /\ d.front = e.front
          /\ d.flow = e.flow /\ d.stage = "answered" /\ d.csrf = 0
          /\ d.session = None /\ d.sets = e.sets /\ d.drops = None
      <4>1. PICK b \in BOOLEAN : b = FALSE
        OBVIOUS
      <4> QED BY <3>1, <3>3, <4>1, AnswerFields
    <3>6. ASSUME "crossed" \notin marks[c.flow] PROVE Late(c.flow)
      <4>1. c.crumb # None /\ c.crumb.until = flow[c.flow].began + StateTtl
        BY <2>1, <3>6, CrumbOrCrossed
      <4>2. ~(flow[c.flow].began + StateTtl >= now)
        BY <2>5, <4>1 DEF StateRead
      <4>3. flow[c.flow] \in Flows
        BY <2>1 DEF CallsOK, Returns, TypeOK, Begun
      <4>4. flow[c.flow].began \in Nat
        BY <4>3 DEF Flows
      <4> QED BY <4>2, <4>4, Bounds DEF Late, TypeOK
    <3>7. {} \in SUBSET {"failed"}
      OBVIOUS
    <3> QED BY <2>1, <2>2, <3>2, <3>3, <3>4, <3>5, <3>6, <3>7, RefusalIsHandled DEF Returns
  <2> QED BY <2>4, <2>5
<1>6. CASE Redeems(c)
  <2>1. c.kind = "callback" /\ c.stage = "config"
        /\ UNCHANGED <<config, now, browser, discovery, used, sessions, mishaps, acted>>
    BY <1>6 DEF Redeems
  <2>2. discovery' \in {"none", "pending", "ready", "failed"} /\ mishaps' \in 0 .. MaxMishaps
        /\ UNCHANGED <<config, now, browser, sessions, acted>>
    BY <2>1 DEF TypeOK
  <2>3. CASE /\ c.crumb.flow = c.flow /\ c.user # None /\ ~flow[c.flow].redeemed
             /\ flow' = [flow EXCEPT ![c.flow].redeemed = TRUE]
             /\ Becomes(c, [c EXCEPT !.stage = "grant"]) /\ UNCHANGED marks
    <3>1. PICK d : d = [c EXCEPT !.stage = "grant"]
      OBVIOUS
    <3>2. Becomes(c, d)
      BY <2>3, <3>1
    <3>3. c.crumb # None
      BY <2>1 DEF CallsOK, ShapeOK
    <3>4. Turned(c, d) /\ Owned(c, d) /\ d.stage = "grant" /\ d.flow = c.flow /\ d.crumb = c.crumb
      BY <2>1, <2>2, <3>1, <3>2, <3>3, MoveIsTurned DEF Returns
    <3>5. Redeemed(c, d)
      BY <2>1, <2>3, <3>4 DEF Redeemed
    <3> QED BY <3>4, <3>5 DEF Handled
  <2>4. CASE /\ c.crumb.flow # c.flow \/ c.user = None \/ flow[c.flow].redeemed
             /\ Refuses(c, {}) /\ UNCHANGED flow
    <3>1. c.user = None => c.user \notin config.allowed
      BY ConfigTyped, Sentinels DEF Distinct
    <3>2. c.crumb.flow # c.flow => "crossed" \in marks[c.flow]
      BY <2>1, CrumbOrCrossed
    <3>3. flow[c.flow].redeemed => "repeated" \in marks[c.flow]
      BY <2>1 DEF Alone, Taken, Returns
    <3>4. Spends(c) /\ {} \in SUBSET {"failed"} /\ UNCHANGED flow
      BY <2>1, <2>4 DEF Spends
    <3>5. c.user \in config.allowed => {"crossed", "repeated"} \cap marks[c.flow] # {}
      BY <2>4, <3>1, <3>2, <3>3
    <3> QED BY <2>1, <2>2, <2>4, <3>4, <3>5, RefuseIsHandled DEF Returns
  <2> QED BY <1>6, <2>3, <2>4 DEF Redeems
<1>7. CASE LosesTokens(c)
  <2>1. c.kind = "callback" /\ c.stage = "grant" /\ Refuses(c, {"failed"}) /\ Mishap
        /\ UNCHANGED <<config, now, browser, server, acted>>
    BY <1>7 DEF LosesTokens
  <2>2. Spends(c) /\ UNCHANGED <<config, now, browser, flow, sessions, acted>>
        /\ discovery' \in {"none", "pending", "ready", "failed"}
    BY <2>1 DEF TypeOK, server, Spends
  <2>3. mishaps' \in 0 .. MaxMishaps
    BY <2>1, Bounds DEF TypeOK, Mishap
  <2>4. {"failed"} \in SUBSET {"failed"}
    OBVIOUS
  <2> QED BY <2>1, <2>2, <2>3, <2>4, RefuseIsHandled DEF Returns
<1>8. CASE EntersOidc(c)
  <2>1. c.kind = "callback" /\ c.stage = "grant" /\ Enters(c) /\ Spends(c)
        /\ UNCHANGED <<config, now, browser, discovery, flow, mishaps, acted>>
    BY <1>8 DEF EntersOidc, Spends
  <2> QED BY <2>1, EnterIsHandled DEF Returns
<1> QED BY <1>1, <1>2, <1>3, <1>4, <1>5, <1>6, <1>7, <1>8

LEMMA SamlIsHandled ==
  ASSUME TypeOK, CallsOK, Alone, NEW c \in calls,
         StartsSaml(c) \/ ChecksRequest(c) \/ EntersSaml(c)
  PROVE  \E d : Handled(c, d)
<1> USE DEF Waiting
<1>1. CASE StartsSaml(c)
  <2>1. c.kind = "saml" /\ c.stage = "sent"
        /\ UNCHANGED <<config, now, browser, discovery, used, sessions, mishaps, acted, marks>>
    BY <1>1 DEF StartsSaml
  <2>2. CASE BeginsFlow(c, "saml") /\ Becomes(c, [Answered(c, TRUE) EXCEPT !.flow = NextFlow])
    <3>1. PICK d : d = RedirectingSaml(c)
      OBVIOUS
    <3>2. Becomes(c, d) /\ BeginsFlow(c, c.kind)
      BY <2>1, <2>2, <3>1 DEF RedirectingSaml
    <3> QED BY <2>1, <3>1, <3>2, RedirectIsHandled
  <2>3. CASE Fails(c) /\ UNCHANGED flow
    <3>1. PICK d : d = Answered(c, FALSE)
      OBVIOUS
    <3>2. Becomes(c, d)
      BY <2>3, <3>1 DEF Fails
    <3>3. /\ d \in Calls /\ d.kind = c.kind /\ d.tab = c.tab /\ d.front = c.front
          /\ d.flow = c.flow /\ d.stage = "answered" /\ ~d.good /\ d.csrf = 0
          /\ d.session = None /\ d.sets = Same /\ d.drops = Same
      BY <2>1, <3>1, FailFields
    <3>4. discovery' \in {"none", "pending", "ready", "failed"} /\ mishaps' \in 0 .. MaxMishaps
          /\ UNCHANGED <<config, now, browser>> /\ sessions' = sessions /\ acted' = acted
      BY <2>1 DEF TypeOK
    <3>5. Turned(c, d)
      BY <2>1, <3>2, <3>3, <3>4, Sentinels, AnswerIsTurned DEF Distinct
    <3>6. Owned(c, d)
      BY <2>1, <3>3, <3>4, PlainIsOwned
    <3>7. Quiet(c, d)
      BY <2>1, <2>3, <3>3 DEF Quiet, Returns, Redirects
    <3> QED BY <3>5, <3>6, <3>7 DEF Handled
  <2> QED BY <1>1, <2>2, <2>3 DEF StartsSaml
<1>2. CASE ChecksRequest(c)
  <2>1. c.kind = "acs" /\ c.stage = "sent"
        /\ UNCHANGED <<config, now, browser, discovery, flow, sessions, mishaps, acted>>
    BY <1>2 DEF ChecksRequest
  <2>2. discovery' \in {"none", "pending", "ready", "failed"} /\ mishaps' \in 0 .. MaxMishaps
        /\ UNCHANGED <<config, now, browser, flow, sessions, acted>>
    BY <2>1 DEF TypeOK
  <2>3. CASE /\ Gets(c.flow) /\ c.user # None
             /\ Becomes(c, [c EXCEPT !.stage = "grant"]) /\ UNCHANGED used
             /\ Marks(c.flow, IF \E e \in calls : e.flow = c.flow /\ e.stage = "grant"
                                THEN {"overlapped"} ELSE {})
    <3>1. PICK d : d = [c EXCEPT !.stage = "grant"]
      OBVIOUS
    <3>2. Becomes(c, d)
      BY <2>3, <3>1
    <3>3. Turned(c, d) /\ Owned(c, d) /\ d.stage = "grant" /\ d.flow = c.flow
      BY <2>1, <2>2, <3>1, <3>2, MoveIsTurned DEF Returns
    <3>4. Accepts(c, d)
      BY <2>1, <2>3, <3>3 DEF Accepts
    <3> QED BY <3>3, <3>4 DEF Handled
  <2>4. CASE /\ ~Gets(c.flow) \/ c.user = None
             /\ Refuses(c, {}) /\ used' = Removed(c.flow)
    <3>1. c.user = None => c.user \notin config.allowed
      BY ConfigTyped, Sentinels DEF Distinct
    <3>2. ~Gets(c.flow) => Late(c.flow) \/ c.flow \in used
      BY DEF Gets, Verified, Pruned
    <3>3. c.flow \in used => "repeated" \in marks[c.flow]
      BY <2>1 DEF Alone, Taken, Returns
    <3>4. Spends(c) /\ {} \in SUBSET {"failed"}
      BY <2>1, <2>4 DEF Spends
    <3>5. c.user \in config.allowed => Late(c.flow) \/ {"crossed", "repeated"} \cap marks[c.flow] # {}
      BY <2>4, <3>1, <3>2, <3>3
    <3> QED BY <2>1, <2>2, <2>4, <3>4, <3>5, RefuseIsHandled DEF Returns
  <2> QED BY <1>2, <2>3, <2>4 DEF ChecksRequest
<1>3. CASE EntersSaml(c)
  <2>1. c.kind = "acs" /\ c.stage = "grant" /\ Enters(c) /\ Spends(c)
        /\ UNCHANGED <<config, now, browser, discovery, flow, mishaps, acted>>
    BY <1>3 DEF EntersSaml, Spends
  <2> QED BY <2>1, EnterIsHandled DEF Returns
<1> QED BY <1>1, <1>2, <1>3

LEMMA ServedIsHandled ==
  ASSUME TypeOK, CallsOK, Alone, CrumbsKept, NEW c \in calls, Serves(c)
  PROVE  \E d : Handled(c, d)
  BY ReplyIsHandled, OidcIsHandled, SamlIsHandled DEF Serves

-----------------------------------------------------------------------------
(***************************************************************************)
(* What a step does to the flows                                           *)
(***************************************************************************)
\* Nothing that tells one flow from another changes.
SameFlows ==
  /\ Begun' = Begun /\ flow' \in [FlowIds -> Flows \cup {None}]
  /\ \A f \in Begun : flow'[f].by = flow[f].by /\ flow'[f].began = flow[f].began
                      /\ (flow[f].redeemed => flow'[f].redeemed)

LEMMA BegunTyped ==
  ASSUME TypeOK, NEW f \in Begun
  PROVE  f \in FlowIds /\ flow[f] \in Flows /\ flow[f].began \in Nat
         /\ flow[f].by \in {"oidc", "saml"} /\ flow[f].redeemed \in BOOLEAN
  BY DEF TypeOK, Begun, Flows

LEMMA KeptFlows ==
  ASSUME TypeOK, flow' = flow
  PROVE  SameFlows
  BY DEF TypeOK, SameFlows, Begun

LEMMA RedeemedFlows ==
  ASSUME TypeOK, NEW f \in Begun, flow' = [flow EXCEPT ![f].redeemed = TRUE]
  PROVE  SameFlows /\ (\A g \in Begun \ {f} : flow'[g] = flow[g]) /\ flow'[f].redeemed
<1>1. PICK r : r = flow[f]
  OBVIOUS
<1>2. r \in Flows /\ f \in FlowIds /\ flow \in [FlowIds -> Flows \cup {None}]
  BY <1>1, BegunTyped DEF TypeOK
<1>3. PICK s : s = [r EXCEPT !.redeemed = TRUE]
  OBVIOUS
<1>4. s \in Flows /\ s.by = r.by /\ s.began = r.began /\ s.redeemed
  BY <1>2, <1>3 DEF Flows
<1>5. flow' = [flow EXCEPT ![f] = s]
  BY <1>1, <1>3
<1>6. s # None
  BY <1>4, Sentinels DEF Distinct
<1> QED BY <1>1, <1>2, <1>4, <1>5, <1>6 DEF SameFlows, Begun

LEMMA AnsweredFlows ==
  ASSUME TypeOK, NEW f \in Begun, NEW u \in Users \cup {None},
         flow' = [flow EXCEPT ![f].user = u]
  PROVE  SameFlows /\ \A g \in Begun : flow'[g].redeemed = flow[g].redeemed
<1>1. PICK r : r = flow[f]
  OBVIOUS
<1>2. r \in Flows /\ f \in FlowIds /\ flow \in [FlowIds -> Flows \cup {None}]
  BY <1>1, BegunTyped DEF TypeOK
<1>3. PICK s : s = [r EXCEPT !.user = u]
  OBVIOUS
<1>4. s \in Flows /\ s.by = r.by /\ s.began = r.began /\ s.redeemed = r.redeemed
  BY <1>2, <1>3 DEF Flows
<1>5. flow' = [flow EXCEPT ![f] = s]
  BY <1>1, <1>3
<1>6. s # None
  BY <1>4, Sentinels DEF Distinct
<1> QED BY <1>1, <1>2, <1>4, <1>5, <1>6 DEF SameFlows, Begun

\* A flow that begins is a new one.
LEMMA BegunFlows ==
  ASSUME TypeOK, FlowsOK, NEW c, NEW by \in {"oidc", "saml"}, BeginsFlow(c, by)
  PROVE  /\ NextFlow \in FlowIds \ Begun /\ Begun' = Begun \cup {NextFlow}
         /\ Begun' = 1 .. Cardinality(Begun')
         /\ flow' \in [FlowIds -> Flows \cup {None}]
         /\ \A f \in Begun : flow'[f] = flow[f]
         /\ flow'[NextFlow].by = by /\ flow'[NextFlow].began = now
         /\ ~flow'[NextFlow].redeemed
<1>1. PICK n : n = Cardinality(Begun)
  OBVIOUS
<1>2. Begun \subseteq 1 .. MaxFlows
  BY DEF Begun, FlowIds
<1>3. IsFiniteSet(Begun) /\ n \in Nat
  <2>1. IsFiniteSet(1 .. MaxFlows)
    BY Bounds, FS_Interval
  <2>2. IsFiniteSet(Begun)
    BY <1>2, <2>1, FS_Subset
  <2> QED BY <1>1, <2>2, FS_CardinalityType
<1>4. Begun = 1 .. n /\ NextFlow = n + 1
  BY <1>1 DEF FlowsOK, NextFlow
<1>5. NextFlow \in FlowIds \ Begun
  BY <1>3, <1>4 DEF BeginsFlow
<1>6. PICK r : r = [by |-> by, began |-> now, user |-> None, redeemed |-> FALSE]
  OBVIOUS
<1>7. r \in Flows /\ r.by = by /\ r.began = now /\ ~r.redeemed
  BY <1>6, Bounds DEF TypeOK, Flows
<1>8. flow' = [flow EXCEPT ![NextFlow] = r]
  BY <1>6 DEF BeginsFlow
<1>9. r # None
  BY <1>7, Sentinels DEF Distinct
<1>10. /\ Begun' = Begun \cup {NextFlow} /\ flow' \in [FlowIds -> Flows \cup {None}]
       /\ (\A f \in Begun : flow'[f] = flow[f]) /\ flow'[NextFlow] = r
  BY <1>5, <1>7, <1>8, <1>9 DEF Begun, TypeOK
<1>11. Cardinality(Begun') = n + 1
  BY <1>1, <1>3, <1>5, <1>10, FS_AddElement
<1>12. Begun' = 1 .. (n + 1)
  BY <1>3, <1>4, <1>10
<1> QED BY <1>5, <1>7, <1>10, <1>11, <1>12

-----------------------------------------------------------------------------
(***************************************************************************)
(* What a step of the browser does                                         *)
(***************************************************************************)
\* A tab sends a request d.
Asked(t, d) ==
  /\ Idle(t) /\ d \in Calls /\ d.tab = t /\ d.front /\ ~d.good /\ d.stage = "sent"
  /\ page[t] \in StandsAt(d.kind) /\ d.sets = Same /\ d.drops = Same
  /\ d.session \in {None, jar.session}
  /\ d.csrf = 0 \/ (d.csrf = csrf[t] /\ d.user = shown[t])
  /\ d.kind = "write" => d.user = shown[t]
  /\ d.kind = "callback" => d.crumb = jar.crumb
  /\ calls' = calls \cup {d}
  /\ \/ d.kind \notin Returns /\ flow' = flow
     \/ /\ d.kind \in Returns /\ d.flow = visit[t] /\ d.kind = IF flow[d.flow].by = "oidc" THEN "callback" ELSE "acs"
        /\ \E u \in Users \cup {None} : flow' = [flow EXCEPT ![d.flow].user = u]
  /\ UNCHANGED <<config, now, browser, discovery, used, sessions, mishaps, acted, marks>>

LEMMA AskIsAsked ==
  ASSUME TypeOK, FlowsOK, NEW t \in Tabs, Asks(t)
  PROVE  \E d : Asked(t, d)
<1> USE DEF Kinds
<1>1. shown[t] \in Users \cup {None, Nobody} /\ visit[t] \in FlowIds \cup {None}
      /\ Providers \subseteq {"header", "oidc", "saml"}
  BY ConfigTyped DEF TypeOK, Providers, Sso
<1>2. Idle(t) /\ UNCHANGED <<config, now, browser, discovery, used, sessions, mishaps, acted, marks>>
  BY DEF Asks
<1>3. ASSUME NEW kind \in Kinds \ Returns, NEW u \in Users \cup {None, Nobody}, flow' = flow,
             Sends(kind, t, u, None), page[t] \in StandsAt(kind),
             kind \in {"write", "logout"} => u = shown[t]
      PROVE  \E d : Asked(t, d)
  <2>1. PICK d : d = NewCall(kind, t, u, None)
    OBVIOUS
  <2>2. /\ d \in Calls /\ d.kind = kind /\ d.tab = t /\ d.user = u /\ d.stage = "sent"
        /\ d.csrf = (IF kind \in {"write", "logout"} THEN csrf[t] ELSE 0)
        /\ d.session = (IF kind \in {"session", "read", "write", "logout"} THEN jar.session ELSE None)
        /\ d.sets = Same /\ d.drops = Same
    BY <2>1, NewFields
  <2>3. d.front /\ ~d.good
    BY <2>1, NewIsFront
  <2>4. calls' = calls \cup {d}
    BY <1>3, <2>1 DEF Sends
  <2>5. Asked(t, d)
    BY <1>2, <1>3, <2>2, <2>3, <2>4 DEF Asked, Returns
  <2> QED BY <2>5
<1>4. CASE Loads(t) /\ flow' = flow
  <2>1. page[t] \in StandsAt("session") /\ Sends("session", t, None, None)
    BY <1>4 DEF Loads, StandsAt
  <2> QED BY <1>3, <1>4, <2>1 DEF Returns
<1>5. CASE SignsIn(t) /\ flow' = flow
  <2>1. page[t] \in StandsAt("local") /\ page[t] \in StandsAt("header")
        /\ page[t] \in StandsAt("oidc") /\ page[t] \in StandsAt("saml")
    BY <1>5 DEF SignsIn, StandsAt
  <2>2. CASE \E u \in Users : Sends("local", t, u, None)
    BY <1>3, <1>5, <2>1, <2>2 DEF Returns
  <2>3. CASE \E kind \in Providers : Sends(kind, t, None, None)
    <3>1. PICK kind \in Providers : Sends(kind, t, None, None)
      BY <2>3
    <3>2. kind \in {"header", "oidc", "saml"}
      BY <1>1
    <3>3. kind \in Kinds \ Returns /\ page[t] \in StandsAt(kind) /\ kind \notin {"write", "logout"}
      BY <2>1, <3>2 DEF Returns
    <3> QED BY <1>3, <1>5, <3>1, <3>3
  <2> QED BY <1>5, <2>2, <2>3 DEF SignsIn
<1>6. CASE Works(t) /\ flow' = flow
  <2>1. PICK kind \in {"read", "write", "logout"} : Sends(kind, t, shown[t], None)
    BY <1>6 DEF Works
  <2>2. page[t] \in StandsAt(kind) /\ kind \in Kinds \ Returns
    BY <1>6 DEF Works, StandsAt, Returns
  <2> QED BY <1>1, <1>3, <1>6, <2>1, <2>2
<1>7. CASE IdpAnswers(t)
  <2>1. PICK f : f = visit[t]
    OBVIOUS
  <2>2. PICK kind : kind = IF flow[f].by = "oidc" THEN "callback" ELSE "acs"
    OBVIOUS
  <2>3. page[t] = "idp" /\ \E u \in Users \cup {None} :
          flow' = [flow EXCEPT ![f].user = u] /\ Sends(kind, t, u, f)
    BY <1>7, <2>1, <2>2 DEF IdpAnswers
  <2>4. PICK u \in Users \cup {None} : flow' = [flow EXCEPT ![f].user = u] /\ Sends(kind, t, u, f)
    BY <2>3
  <2>5. f \in Begun /\ kind \in Returns /\ kind \in Kinds /\ page[t] \in StandsAt(kind)
        /\ f \in FlowIds \cup {None} /\ kind \notin {"write", "logout", "session", "read"}
    BY <1>1, <2>1, <2>2, <2>3 DEF FlowsOK, Returns, StandsAt
  <2>6. PICK d : d = NewCall(kind, t, u, f)
    OBVIOUS
  <2>7. /\ d \in Calls /\ d.kind = kind /\ d.tab = t /\ d.flow = f /\ d.stage = "sent"
        /\ d.csrf = 0 /\ d.session = None /\ d.sets = Same /\ d.drops = Same
        /\ d.crumb = (IF kind = "callback" THEN jar.crumb ELSE None)
    BY <2>5, <2>6, NewFields
  <2>8. d.front /\ ~d.good
    BY <2>6, NewIsFront
  <2>9. calls' = calls \cup {d}
    BY <2>4, <2>6 DEF Sends
  <2>10. Asked(t, d)
    BY <1>2, <2>1, <2>2, <2>3, <2>4, <2>5, <2>7, <2>8, <2>9 DEF Asked
  <2> QED BY <2>10
<1> QED BY <1>4, <1>5, <1>6, <1>7 DEF Asks

\* An asked request has the shape of a request.
LEMMA AskedShape ==
  ASSUME NEW t, NEW d, Asked(t, d)
  PROVE  ShapeOK(d) /\ ~Redirects(d)
  BY Sentinels DEF Asked, ShapeOK, Redirects, Distinct

-----------------------------------------------------------------------------
(***************************************************************************)
(* Types                                                                   *)
(***************************************************************************)
Words == {"opened", "again", "restarted", "overlapped", "refused", "crossed", "late", "failed",
          "repeated"}

LEMMA MarksTyped ==
  ASSUME TypeOK, NEW f \in FlowIds, NEW words \in SUBSET Words, Marks(f, words)
  PROVE  /\ marks' \in [FlowIds -> SUBSET Words]
         /\ \A g \in FlowIds : marks'[g] = IF g = f THEN marks[g] \cup words ELSE marks[g]
  BY DEF TypeOK, Marks, Words

\* A request that returns from the identity provider is for a flow that has begun.
LEMMA ReturnsOfBegun ==
  ASSUME TypeOK, CallsOK, NEW c \in calls, c.kind \in Returns
  PROVE  c.flow \in Begun /\ c.flow \in FlowIds /\ flow[c.flow].by = By(c.kind)
  BY DEF CallsOK, Begun

LEMMA HandledFlows ==
  ASSUME TypeOK, CallsOK, FlowsOK, NEW c \in calls, NEW d, Handled(c, d)
  PROVE  /\ Begins(c, d) \/ SameFlows
         /\ Begun \subseteq Begun' /\ flow' \in [FlowIds -> Flows \cup {None}]
         /\ Begun' = 1 .. Cardinality(Begun')
         /\ \A f \in Begun : flow'[f].by = flow[f].by /\ flow'[f].began = flow[f].began
                             /\ (flow[f].redeemed => flow'[f].redeemed)
<1>1. CASE flow' = flow
  <2>1. SameFlows
    BY <1>1, KeptFlows
  <2> QED BY <2>1 DEF SameFlows, FlowsOK
<1>2. CASE Redeemed(c, d)
  <2>1. c.flow \in Begun
    BY <1>2, ReturnsOfBegun DEF Redeemed, Returns
  <2>2. SameFlows
    BY <1>2, <2>1, RedeemedFlows DEF Redeemed
  <2> QED BY <2>2 DEF SameFlows, FlowsOK
<1>3. CASE Begins(c, d)
  <2>1. c.kind \in {"oidc", "saml"} /\ BeginsFlow(c, c.kind)
    BY <1>3 DEF Begins
  <2>2. /\ Begun' = Begun \cup {NextFlow} /\ Begun' = 1 .. Cardinality(Begun')
        /\ flow' \in [FlowIds -> Flows \cup {None}] /\ \A f \in Begun : flow'[f] = flow[f]
    BY <2>1, BegunFlows
  <2> QED BY <1>3, <2>2
<1> QED BY <1>1, <1>2, <1>3 DEF Handled, Quiet, Proceeds, Accepts, Refused, Entered

LEMMA HandledMarks ==
  ASSUME TypeOK, CallsOK, NEW c \in calls, NEW d, Handled(c, d)
  PROVE  /\ marks' \in [FlowIds -> SUBSET Words]
         /\ \A f \in FlowIds : marks[f] \subseteq marks'[f]
         /\ \A f \in FlowIds : marks'[f] # marks[f] => c.kind \in Returns /\ f = c.flow
<1>1. CASE marks' = marks
  BY <1>1 DEF TypeOK, Words
<1>2. CASE c.kind \in Returns /\ \E words \in SUBSET Words : Marks(c.flow, words)
  <2>1. c.flow \in FlowIds
    BY <1>2, ReturnsOfBegun
  <2> QED BY <1>2, <2>1, MarksTyped
<1>3. CASE Accepts(c, d)
  <2>1. (IF \E e \in calls : e.flow = c.flow /\ e.stage = "grant" THEN {"overlapped"} ELSE {})
          \in SUBSET Words
    BY DEF Words
  <2> QED BY <1>2, <1>3, <2>1 DEF Accepts, Returns
<1>4. CASE Refused(c, d)
  <2>1. SUBSET {"refused", "late", "failed"} \subseteq SUBSET Words
    BY DEF Words
  <2> QED BY <1>2, <1>4, <2>1 DEF Refused
<1>5. CASE Entered(c, d)
  <2>1. {"opened"} \in SUBSET Words /\ {"again"} \in SUBSET Words
    BY DEF Words
  <2> QED BY <1>1, <1>2, <1>5, <2>1 DEF Entered
<1> QED BY <1>1, <1>3, <1>4, <1>5 DEF Handled, Quiet, Begins, Proceeds, Redeemed

LEMMA HandledUsed ==
  ASSUME TypeOK, CallsOK, NEW c \in calls, NEW d, Handled(c, d)
  PROVE  used' \subseteq used \cup (IF c.kind = "acs" THEN {c.flow} ELSE {})
         /\ (\A f \in used : f \in used' \/ Late(f))
<1>1. Spends(c) \/ used' = used
  BY DEF Handled, Quiet, Begins, Proceeds, Redeemed, Accepts, Refused, Entered
<1> QED BY <1>1 DEF Spends, Removed, Pruned

LEMMA HandledTyped ==
  ASSUME TypeOK, CallsOK, FlowsOK, NEW c \in calls, NEW d, Handled(c, d)
  PROVE  TypeOK'
<1>1. /\ d \in Calls /\ d.tab = c.tab /\ d.front = c.front
      /\ calls' = (calls \ {c}) \cup {d}
      /\ UNCHANGED <<config, now, jar, page, visit, shown, csrf>>
      /\ discovery' \in {"none", "pending", "ready", "failed"} /\ mishaps' \in 0 .. MaxMishaps
  BY DEF Handled, Turned
<1>2. calls' \subseteq Calls /\ \A a, b \in calls' : a.front /\ b.front /\ a.tab = b.tab => a = b
  BY <1>1 DEF TypeOK
<1>3. used' \subseteq Begun'
  <2>1. c.kind = "acs" => c.flow \in Begun
    BY ReturnsOfBegun DEF Returns
  <2> QED BY <2>1, HandledUsed, HandledFlows DEF TypeOK
<1>4. sessions' \in 0 .. MaxSessions
  BY Bounds DEF Handled, Owned, TypeOK
<1>5. acted' \subseteq [shown : Users \cup {None, Nobody}, as : Users \cup {Nobody}]
  <2>1. ASSUME NEW u \in Users \cup {Nobody}, Acts(c, u)
        PROVE  acted' \subseteq [shown : Users \cup {None, Nobody}, as : Users \cup {Nobody}]
    BY <2>1, Typed DEF Acts, TypeOK
  <2> QED BY <2>1 DEF Handled, Owned, TypeOK
<1> QED BY <1>1, <1>2, <1>3, <1>4, <1>5, HandledMarks, HandledFlows DEF TypeOK, Words

LEMMA AskedFlows ==
  ASSUME TypeOK, FlowsOK, NEW t \in Tabs, NEW d, Asked(t, d)
  PROVE  SameFlows /\ (\A f \in Begun : flow'[f].redeemed = flow[f].redeemed)
         /\ (d.kind \in Returns => d.flow \in Begun /\ page[t] = "idp")
<1>1. CASE d.kind \notin Returns /\ flow' = flow
  BY <1>1, KeptFlows
<1>2. CASE d.kind \in Returns
  <2>1. page[t] = "idp"
    BY <1>2 DEF Asked, StandsAt, Returns
  <2>2. d.flow \in Begun
    BY <1>2, <2>1 DEF Asked, FlowsOK
  <2> QED BY <1>2, <2>1, <2>2, AnsweredFlows DEF Asked
<1> QED BY <1>1, <1>2 DEF Asked

LEMMA AskedTyped ==
  ASSUME TypeOK, FlowsOK, NEW t \in Tabs, NEW d, Asked(t, d)
  PROVE  TypeOK'
<1>1. calls' \subseteq Calls /\ \A a, b \in calls' : a.front /\ b.front /\ a.tab = b.tab => a = b
  BY DEF TypeOK, Asked, Idle
<1> QED BY <1>1, AskedFlows DEF Asked, browser, TypeOK, SameFlows

LEMMA ReloadsTyped ==
  ASSUME TypeOK, NEW t \in Tabs, Reloads(t)
  PROVE  TypeOK' /\ SameFlows
<1>1. SameFlows
  BY KeptFlows DEF Reloads, server
<1> QED BY <1>1, Bounds DEF Reloads, TypeOK, Mishap, server, SameFlows

\* The pages on which the answer to a request leaves its tab.
Landed(c) ==
  /\ page' \in [Tabs -> {"load", "login", "app", "leaving", "idp", "failed"}]
  /\ shown' \in [Tabs -> Shown] /\ csrf' \in [Tabs -> 0 .. MaxSessions]
  /\ visit' \in [Tabs -> FlowIds \cup {None}]
  /\ \A t \in Tabs \ {c.tab} : /\ page'[t] = page[t] /\ visit'[t] = visit[t]
                               /\ shown'[t] = shown[t] /\ csrf'[t] = csrf[t]
  /\ page'[c.tab] = "idp" <=> Redirects(c)
  /\ Redirects(c) => visit'[c.tab] = c.flow
  /\ \/ shown'[c.tab] = None /\ csrf'[c.tab] = 0
     \/ shown'[c.tab] = shown[c.tab] /\ csrf'[c.tab] = csrf[c.tab]
     \/ shown'[c.tab] = c.user /\ csrf'[c.tab] = c.csrf
  /\ page'[c.tab] \in {"app", "leaving"} =>
       \/ c.kind \in {"session", "local", "header"} /\ c.good /\ shown'[c.tab] = c.user
       \/ page[c.tab] \in {"app", "leaving"} /\ shown'[c.tab] = shown[c.tab]

LEMMA ArrivesLanded ==
  ASSUME TypeOK, CallsOK, NEW c \in calls, Arrives(c)
  PROVE  Landed(c)
<1>1. /\ c.front /\ c.stage = "answered" /\ page[c.tab] \in StandsAt(c.kind)
      /\ c.tab \in Tabs /\ c.kind \in Kinds /\ c.good \in BOOLEAN
  BY Typed DEF Arrives, CallsOK
<1>2. /\ page \in [Tabs -> {"load", "login", "app", "leaving", "idp", "failed"}]
      /\ shown \in [Tabs -> Shown] /\ csrf \in [Tabs -> 0 .. MaxSessions]
      /\ visit \in [Tabs -> FlowIds \cup {None}]
      /\ c.user \in Shown /\ c.csrf \in 0 .. MaxSessions /\ c.flow \in FlowIds \cup {None}
      /\ None \in Shown /\ 0 \in 0 .. MaxSessions
  BY Typed, Bounds DEF TypeOK, Shown
<1>3. /\ visit' \in [Tabs -> FlowIds \cup {None}]
      /\ \A t \in Tabs \ {c.tab} : visit'[t] = visit[t]
      /\ Redirects(c) => visit'[c.tab] = c.flow
  BY <1>1, <1>2 DEF Arrives, Redirects
<1> DEFINE Moves(to)   == page' = [page EXCEPT ![c.tab] = to]
           Stays       == UNCHANGED <<shown, csrf>>
           Tells(u, n) == shown' = [shown EXCEPT ![c.tab] = u] /\ csrf' = [csrf EXCEPT ![c.tab] = n]
<1> USE <1>1, <1>2, <1>3 DEF Landed, Redirects, StandsAt, Turns, Displays
<1>4. CASE c.kind = "session" /\ c.good
  <2>1. Moves(IF c.user = None THEN "login" ELSE "app") /\ Tells(c.user, c.csrf)
    BY <1>4 DEF Arrives
  <2> QED BY <1>4, <2>1
<1>5. CASE c.kind = "session" /\ ~c.good
  <2>1. Moves(IF page[c.tab] = "load" THEN "login" ELSE "app") /\ Stays
    BY <1>5 DEF Arrives
  <2> QED BY <1>5, <2>1
<1>6. CASE c.kind \in {"local", "header"} /\ c.good
  <2>1. Moves("app") /\ Tells(c.user, c.csrf)
    BY <1>6 DEF Arrives
  <2> QED BY <1>6, <2>1
<1>7. CASE c.kind \in {"oidc", "saml"}
  <2>1. Moves(IF c.good THEN "idp" ELSE "failed") /\ Tells(None, 0)
    BY <1>7 DEF Arrives
  <2> QED BY <1>7, <2>1
<1>8. CASE c.kind \in {"callback", "acs"}
  <2>1. Moves(IF c.good THEN "load" ELSE "failed") /\ Stays
    BY <1>8 DEF Arrives
  <2> QED BY <1>8, <2>1
<1>9. CASE c.kind = "logout" /\ c.good
  <2>1. Moves("leaving") /\ Stays
    BY <1>9 DEF Arrives
  <2> QED BY <1>9, <2>1
<1>10. CASE c.kind \in {"read", "write"} \/ (c.kind \in {"local", "header", "logout"} /\ ~c.good)
  <2>1. page' = page /\ Stays
    BY <1>10 DEF Arrives
  <2> QED BY <1>10, <2>1
<1> QED BY <1>4, <1>5, <1>6, <1>7, <1>8, <1>9, <1>10 DEF Kinds

LEMMA ArrivesTyped ==
  ASSUME TypeOK, CallsOK, NEW c \in calls, Arrives(c)
  PROVE  TypeOK' /\ SameFlows
<1>1. /\ calls' = calls \ {c} /\ UNCHANGED <<config, now, discovery, used, flow, sessions, mishaps, acted>>
      /\ jar' = [session |-> Kept(jar.session, c.sets), crumb |-> Kept(jar.crumb, c.drops)]
  BY DEF Arrives, server
<1>2. SameFlows
  BY <1>1, KeptFlows
<1>3. jar' \in [session : Sessions \cup {None}, crumb : Crumbs \cup {None}]
  <2>1. Kept(jar.session, c.sets) \in Sessions \cup {None}
    BY Typed DEF Kept, TypeOK
  <2>2. Kept(jar.crumb, c.drops) \in Crumbs \cup {None}
    BY Typed DEF Kept, TypeOK
  <2> QED BY <1>1, <2>1, <2>2
<1>4. marks' \in [FlowIds -> SUBSET Words]
  <2>1. CASE marks' = marks
    BY <2>1 DEF TypeOK, Words
  <2>2. CASE Marks(jar.crumb.flow, {"crossed"})
    BY <2>2 DEF Marks, TypeOK, Words
  <2> QED BY <2>1, <2>2 DEF Arrives
<1> QED BY <1>1, <1>2, <1>3, <1>4, ArrivesLanded DEF Landed, TypeOK, SameFlows, Shown, Words

\* A second submission of an answer of the identity provider: the first, e, is the tab's no
\* more, and d is another.
Resubmitted(c, d, e) ==
  /\ c.front /\ c.kind \in Returns /\ c.stage # "answered"
  /\ d \in Calls /\ d.kind = c.kind /\ d.tab = c.tab /\ d.flow = c.flow /\ d.stage = "sent"
  /\ d.front /\ ~d.good /\ d.csrf = 0 /\ d.session = None /\ d.sets = Same /\ d.drops = Same
  /\ d.kind = "callback" => d.crumb = jar.crumb
  /\ e \in Calls /\ e.kind = c.kind /\ e.tab = c.tab /\ e.flow = c.flow /\ e.stage = c.stage
  /\ ~e.front /\ e.csrf = c.csrf /\ e.session = c.session /\ e.user = c.user
  /\ e.crumb = c.crumb /\ e.sets = c.sets /\ e.drops = c.drops
  /\ calls' = (calls \ {c}) \cup {d, e} /\ Marks(c.flow, {"repeated"})
  /\ UNCHANGED <<config, now, jar, page, visit, shown, csrf, discovery, used, flow, sessions, acted>>
  /\ mishaps' \in 0 .. MaxMishaps

LEMMA ResubmitIsResubmitted ==
  ASSUME TypeOK, CallsOK, NEW c \in calls, Resubmits(c)
  PROVE  \E d, e : Resubmitted(c, d, e)
<1>1. c.front /\ c.kind \in Returns /\ c.stage # "answered"
  BY DEF Resubmits, Returns
<1>2. PICK d : d = NewCall(c.kind, c.tab, c.user, c.flow)
  OBVIOUS
<1>3. PICK e : e = [c EXCEPT !.front = FALSE]
  OBVIOUS
<1>4. /\ d \in Calls /\ d.kind = c.kind /\ d.tab = c.tab /\ d.flow = c.flow /\ d.stage = "sent"
      /\ d.csrf = 0 /\ d.session = None /\ d.sets = Same /\ d.drops = Same
      /\ d.kind = "callback" => d.crumb = jar.crumb
  <2>1. c.kind \notin {"session", "read", "write", "logout"}
    BY <1>1 DEF Returns
  <2>2. PICK k, t, u, f : k = c.kind /\ t = c.tab /\ u = c.user /\ f = c.flow
    OBVIOUS
  <2>3. k \in Kinds /\ t \in Tabs /\ u \in Users \cup {None, Nobody} /\ f \in FlowIds \cup {None}
    BY <2>2, Typed
  <2>4. d = NewCall(k, t, u, f)
    BY <1>2, <2>2
  <2>5. /\ d \in Calls /\ d.kind = k /\ d.tab = t /\ d.flow = f /\ d.stage = "sent"
        /\ d.csrf = (IF k \in {"write", "logout"} THEN csrf[t] ELSE 0)
        /\ d.session = (IF k \in {"session", "read", "write", "logout"} THEN jar.session ELSE None)
        /\ d.crumb = (IF k = "callback" THEN jar.crumb ELSE None)
        /\ d.sets = Same /\ d.drops = Same
    BY <2>3, <2>4, NewFields
  <2> QED BY <2>1, <2>2, <2>5
<1>5. d.front /\ ~d.good
  BY <1>2, NewIsFront
<1>6. c \in Calls
  BY Typed
<1>7. e \in Calls
  BY <1>3, <1>6 DEF Calls
<1>8. /\ e.kind = c.kind /\ e.tab = c.tab /\ e.flow = c.flow /\ e.stage = c.stage
      /\ e.csrf = c.csrf /\ e.session = c.session /\ e.user = c.user
      /\ e.crumb = c.crumb /\ e.sets = c.sets /\ e.drops = c.drops
  BY <1>3, <1>6 DEF Calls
<1>9. ~e.front
  BY <1>3, <1>6 DEF Calls
<1>10. calls' = (calls \ {c}) \cup {d, e}
  BY <1>2, <1>3 DEF Resubmits
<1>11. mishaps' \in 0 .. MaxMishaps
  BY Bounds DEF Resubmits, Mishap, TypeOK
<1>12. Marks(c.flow, {"repeated"})
       /\ UNCHANGED <<config, now, jar, page, visit, shown, csrf, discovery, used, flow, sessions, acted>>
  BY DEF Resubmits, server
<1> QED BY <1>1, <1>4, <1>5, <1>7, <1>8, <1>9, <1>10, <1>11, <1>12 DEF Resubmitted

LEMMA ResubmittedTyped ==
  ASSUME TypeOK, CallsOK, NEW c \in calls, NEW d, NEW e, Resubmitted(c, d, e)
  PROVE  TypeOK' /\ SameFlows
         /\ (\A f \in FlowIds : marks'[f] = marks[f] \/ (f = c.flow /\ marks'[f] = marks[f] \cup {"repeated"}))
<1>1. SameFlows
  BY KeptFlows DEF Resubmitted
<1>2. calls' \subseteq Calls /\ \A a, b \in calls' : a.front /\ b.front /\ a.tab = b.tab => a = b
  BY DEF TypeOK, Resubmitted
<1>3. {"repeated"} \in SUBSET Words /\ c.flow \in FlowIds
  BY ReturnsOfBegun DEF Words, Resubmitted
<1>4. /\ marks' \in [FlowIds -> SUBSET Words]
      /\ \A g \in FlowIds : marks'[g] = IF g = c.flow THEN marks[g] \cup {"repeated"} ELSE marks[g]
  BY <1>3, MarksTyped DEF Resubmitted
<1> QED BY <1>1, <1>2, <1>4 DEF TypeOK, SameFlows, Words, Resubmitted

\* What becomes of a request when the process restarts.
Dropped(c) == IF c.stage = "answered" THEN c ELSE [Answered(c, FALSE) EXCEPT !.drops = Same]

LEMMA DroppedFields ==
  ASSUME TypeOK, CallsOK, NEW c \in calls, NEW d, d = Dropped(c)
  PROVE  /\ d \in Calls /\ d.kind = c.kind /\ d.tab = c.tab /\ d.front = c.front
         /\ d.flow = c.flow /\ d.stage = "answered"
         /\ c.stage = "answered" => d = c
         /\ c.stage # "answered" => /\ ~d.good /\ d.csrf = 0 /\ d.session = None
                                    /\ d.sets = Same /\ d.drops = Same
<1>1. CASE c.stage = "answered"
  BY <1>1, Typed DEF Dropped
<1>2. CASE c.stage # "answered"
  <2>1. PICK a : a = Answered(c, FALSE)
    OBVIOUS
  <2>2. PICK good \in BOOLEAN : good = FALSE
    OBVIOUS
  <2>3. c \in Calls /\ c.sets = Same
    BY <1>2, Typed DEF CallsOK, ShapeOK
  <2>4. /\ a \in Calls /\ a.kind = c.kind /\ a.tab = c.tab /\ a.front = c.front
        /\ a.flow = c.flow /\ a.stage = "answered" /\ a.good = good /\ a.csrf = 0
        /\ a.session = None /\ a.sets = Same
    BY <2>1, <2>2, <2>3, AnswerFields
  <2>5. d = [a EXCEPT !.drops = Same]
    BY <1>2, <2>1 DEF Dropped
  <2>6. d \in Calls
    BY <2>4, <2>5 DEF Calls
  <2>7. /\ d.kind = a.kind /\ d.tab = a.tab /\ d.front = a.front
        /\ d.flow = a.flow /\ d.stage = a.stage /\ d.good = a.good /\ d.csrf = a.csrf
        /\ d.session = a.session /\ d.sets = a.sets /\ d.drops = Same
    BY <2>4, <2>5 DEF Calls
  <2>8. ~d.good
    BY <2>2, <2>4, <2>7
  <2> QED BY <1>2, <2>4, <2>6, <2>7, <2>8
<1> QED BY <1>1, <1>2

\* The process restarts: a is what becomes of each request.
Restarted(a) ==
  /\ DOMAIN a = calls
  /\ \A c \in calls :
       /\ a[c] \in Calls /\ ShapeOK(a[c]) /\ a[c].kind = c.kind /\ a[c].tab = c.tab
       /\ a[c].front = c.front /\ a[c].flow = c.flow /\ a[c].stage = "answered"
       /\ c.stage = "answered" => a[c] = c
       /\ c.stage # "answered" => /\ ~a[c].good /\ a[c].csrf = 0 /\ a[c].session = None
                                  /\ a[c].sets = Same /\ a[c].drops = Same
  /\ calls' = {a[c] : c \in calls}
  /\ discovery' = "none" /\ used' = {} /\ mishaps' \in 0 .. MaxMishaps
  /\ marks' \in [FlowIds -> SUBSET Words]
  /\ \A f \in FlowIds : /\ marks[f] \subseteq marks'[f]
                        /\ marks'[f] \subseteq marks[f] \cup {"restarted", "failed"}
                        /\ f \in Begun => "restarted" \in marks'[f]
  /\ \A f \in FlowIds \ Begun : marks'[f] = marks[f]
  /\ UNCHANGED <<config, now, jar, page, visit, shown, csrf, flow, sessions, acted>>

LEMMA RestartIsRestarted ==
  ASSUME TypeOK, CallsOK, Restart
  PROVE  \E a : Restarted(a)
<1>1. PICK a : a = [c \in calls |-> Dropped(c)]
  OBVIOUS
<1>2. ASSUME NEW c \in calls
      PROVE  /\ a[c] \in Calls /\ ShapeOK(a[c]) /\ a[c].kind = c.kind /\ a[c].tab = c.tab
             /\ a[c].front = c.front /\ a[c].flow = c.flow /\ a[c].stage = "answered"
             /\ c.stage = "answered" => a[c] = c
             /\ c.stage # "answered" => /\ ~a[c].good /\ a[c].csrf = 0 /\ a[c].session = None
                                        /\ a[c].sets = Same /\ a[c].drops = Same
  <2>1. PICK d : d = a[c]
    OBVIOUS
  <2>2. d = Dropped(c)
    BY <1>1, <2>1
  <2>3. /\ d \in Calls /\ d.kind = c.kind /\ d.tab = c.tab /\ d.front = c.front
        /\ d.flow = c.flow /\ d.stage = "answered"
        /\ c.stage = "answered" => d = c
        /\ c.stage # "answered" => /\ ~d.good /\ d.csrf = 0 /\ d.session = None
                                   /\ d.sets = Same /\ d.drops = Same
    BY <2>2, DroppedFields
  <2>4. ShapeOK(c)
    BY DEF CallsOK
  <2>5. ShapeOK(d)
    <3>1. CASE c.stage = "answered"
      BY <2>3, <2>4, <3>1
    <3>2. CASE c.stage # "answered"
      BY <2>3, <2>4, <3>2, Sentinels DEF ShapeOK, Redirects, Distinct
    <3> QED BY <3>1, <3>2
  <2> QED BY <2>1, <2>3, <2>5
<1>3. calls' = {a[c] : c \in calls} /\ DOMAIN a = calls
  BY <1>1 DEF Restart, Dropped
<1>4. discovery' = "none" /\ used' = {} /\ mishaps' \in 0 .. MaxMishaps
      /\ UNCHANGED <<config, now, jar, page, visit, shown, csrf, flow, sessions, acted>>
  BY Bounds DEF Restart, Mishap, TypeOK, browser
<1> DEFINE New(f) == (IF f \in Begun THEN {"restarted"} ELSE {})
                     \cup (IF \E c \in calls : c.flow = f /\ c.kind \in {"callback", "acs"}
                                               /\ c.stage # "answered"
                             THEN {"failed"} ELSE {})
<1>5. marks' = [f \in FlowIds |-> marks[f] \cup New(f)]
  BY DEF Restart
<1>6. ASSUME NEW f \in FlowIds
      PROVE  /\ New(f) \subseteq {"restarted", "failed"} /\ (f \in Begun => "restarted" \in New(f))
             /\ (f \notin Begun => New(f) = {})
  <2>1. \A c \in calls : c.kind \in {"callback", "acs"} => c.flow \in Begun
    BY ReturnsOfBegun DEF Returns
  <2> QED BY <2>1
<1> HIDE DEF New
<1>7. marks' \in [FlowIds -> SUBSET Words]
  BY <1>5, <1>6 DEF TypeOK, Words
<1> QED BY <1>2, <1>3, <1>4, <1>5, <1>6, <1>7 DEF Restarted

LEMMA RestartedTyped ==
  ASSUME TypeOK, CallsOK, NEW a, Restarted(a)
  PROVE  TypeOK' /\ SameFlows
<1>1. SameFlows
  BY KeptFlows DEF Restarted
<1>2. calls' \subseteq Calls
  BY DEF Restarted
<1>3. ASSUME NEW c \in calls, NEW d \in calls, a[c].front, a[d].front, a[c].tab = a[d].tab
      PROVE  a[c] = a[d]
  BY <1>3 DEF Restarted, TypeOK
<1>4. \A c, d \in calls' : c.front /\ d.front /\ c.tab = d.tab => c = d
  BY <1>3 DEF Restarted
<1> QED BY <1>1, <1>2, <1>4 DEF Restarted, TypeOK, SameFlows, Words

LEMMA OthersTyped ==
  ASSUME TypeOK, (\E c \in calls : Vanishes(c)) \/ Discovers \/ Tick \/ UNCHANGED vars
  PROVE  TypeOK' /\ SameFlows /\ UNCHANGED <<config, browser, used, flow, sessions, acted, marks>>
         /\ calls' \subseteq calls /\ now' \in Nat /\ now' >= now
<1> USE Bounds DEF TypeOK, browser, server, SameFlows, Begun
<1>1. CASE \E c \in calls : Vanishes(c)
  BY <1>1 DEF Vanishes
<1>2. CASE Discovers
  BY <1>2 DEF Discovers, Mishap
<1>3. CASE Tick
  BY <1>3 DEF Tick
<1>4. CASE UNCHANGED vars
  BY <1>4 DEF vars
<1> QED BY <1>1, <1>2, <1>3, <1>4

-----------------------------------------------------------------------------
(***************************************************************************)
(* Requests and the flows they are for                                     *)
(***************************************************************************)
OneOK(c) ==
  /\ ShapeOK(c)
  /\ c.front => page[c.tab] \in StandsAt(c.kind)
  /\ Redirects(c) \/ c.kind \in Returns => c.flow \in Begun /\ flow[c.flow].by = By(c.kind)
  /\ c.drops \in Crumbs => c.drops = CrumbOf(c.flow)

LEMMA EachOK == CallsOK <=> \A c \in calls : OneOK(c)
  BY DEF CallsOK, OneOK

LEMMA EachStillOK ==
  ASSUME \A c \in calls' : OneOK(c)'
  PROVE  CallsOK'
  BY DEF CallsOK, OneOK

OldFlows ==
  Begun \subseteq Begun' /\ \A f \in Begun : flow'[f].by = flow[f].by /\ flow'[f].began = flow[f].began

LEMMA StillOK ==
  ASSUME CallsOK, NEW c \in calls, OldFlows, c.front => page'[c.tab] = page[c.tab]
  PROVE  OneOK(c)'
<1>1. OneOK(c) /\ (c.drops \in Crumbs => Redirects(c))
  BY EachOK DEF OneOK, ShapeOK
<1> QED BY <1>1 DEF OneOK, OldFlows, CrumbOf, Redirects, ShapeOK

LEMMA SameIsOld ==
  ASSUME SameFlows
  PROVE  OldFlows
  BY DEF SameFlows, OldFlows

LEMMA HandledCalls ==
  ASSUME TypeOK, CallsOK, FlowsOK, NEW c \in calls, NEW d, Handled(c, d)
  PROVE  CallsOK' /\ FlowsOK'
<1>1. /\ d \in Calls /\ ShapeOK(d) /\ d.kind = c.kind /\ d.tab = c.tab /\ d.front = c.front
      /\ calls' = (calls \ {c}) \cup {d} /\ page' = page /\ visit' = visit /\ jar' = jar
  BY DEF Handled, Turned
<1>2. OldFlows /\ Begun' = 1 .. Cardinality(Begun')
  BY HandledFlows DEF OldFlows
<1>3. OneOK(c)
  BY EachOK
<1>4. OneOK(d)'
  <2>1. CASE Begins(c, d)
    <3>1. c.kind \in {"oidc", "saml"} /\ BeginsFlow(c, c.kind) /\ d.flow = NextFlow /\ Redirects(d)
          /\ (d.kind = "oidc" => d.drops = [flow |-> NextFlow, until |-> now + StateTtl])
      BY <2>1 DEF Begins
    <3>2. NextFlow \in Begun' /\ flow'[NextFlow].by = c.kind /\ flow'[NextFlow].began = now
      BY <3>1, BegunFlows
    <3>3. d.drops \in Crumbs => d.kind = "oidc"
      BY <1>1 DEF ShapeOK
    <3>4. By(d.kind) = c.kind
      BY <1>1, <3>1 DEF By
    <3> QED BY <1>1, <1>3, <3>1, <3>2, <3>3, <3>4 DEF OneOK, CrumbOf
  <2>2. CASE Quiet(c, d)
    <3>1. c.kind \notin Returns /\ ~Redirects(d) /\ d.drops \notin Crumbs
      BY <2>2, Sentinels DEF Quiet, Distinct
    <3> QED BY <1>1, <1>3, <3>1 DEF OneOK, CrumbOf
  <2>3. CASE c.kind \in Returns /\ d.flow = c.flow
    <3>1. d.drops \notin Crumbs
      BY <1>1, <2>3 DEF ShapeOK, Returns
    <3>2. c.flow \in Begun /\ flow[c.flow].by = By(c.kind)
      BY <1>3, <2>3 DEF OneOK
    <3> QED BY <1>1, <1>2, <1>3, <2>3, <3>1, <3>2 DEF OneOK, CrumbOf, OldFlows
  <2> QED BY <2>1, <2>2, <2>3 DEF Handled, Proceeds, Redeemed, Accepts, Refused, Entered, Returns
<1>5. \A x \in calls \ {c} : OneOK(x)'
  BY <1>1, <1>2, StillOK
<1>6. CallsOK'
  BY <1>1, <1>4, <1>5, EachStillOK
<1>7. ASSUME NEW f \in FlowIds \ Begun'
      PROVE  marks'[f] = {}
  <2>1. f \in FlowIds \ Begun
    BY <1>2 DEF OldFlows
  <2>2. c.kind \in Returns => c.flow # f
    BY <2>1, ReturnsOfBegun
  <2>3. marks'[f] = marks[f]
    BY <2>1, <2>2, HandledMarks
  <2> QED BY <2>1, <2>3 DEF FlowsOK
<1>8. /\ \A t \in Tabs : page'[t] = "idp" => visit'[t] \in Begun'
      /\ jar'.crumb # None => jar'.crumb.flow \in Begun'
  BY <1>1, <1>2 DEF FlowsOK, OldFlows
<1> QED BY <1>2, <1>6, <1>7, <1>8 DEF FlowsOK

LEMMA AskedCalls ==
  ASSUME TypeOK, CallsOK, FlowsOK, NEW t \in Tabs, NEW d, Asked(t, d)
  PROVE  CallsOK' /\ FlowsOK'
<1>1. OldFlows /\ Begun' = Begun
  BY AskedFlows, SameIsOld DEF SameFlows
<1>2. page' = page /\ visit' = visit /\ marks' = marks /\ calls' = calls \cup {d} /\ jar' = jar
  BY DEF Asked, browser
<1>3. ShapeOK(d) /\ ~Redirects(d) /\ d.tab = t /\ page[t] \in StandsAt(d.kind)
  BY AskedShape DEF Asked
<1>4. OneOK(d)'
  <2>1. d.drops \notin Crumbs
    BY Sentinels DEF Asked, Distinct
  <2>2. d.kind \in Returns => d.flow \in Begun /\ flow[d.flow].by = By(d.kind)
    <3>1. d.kind \in Returns => d.flow \in Begun
      BY AskedFlows
    <3> QED BY <3>1, BegunTyped DEF Asked, By, Returns
  <2> QED BY <1>1, <1>2, <1>3, <2>1, <2>2 DEF OneOK, OldFlows, CrumbOf
<1>5. \A x \in calls : OneOK(x)'
  BY <1>1, <1>2, StillOK
<1>6. CallsOK'
  BY <1>2, <1>4, <1>5, EachStillOK
<1> QED BY <1>1, <1>2, <1>6 DEF FlowsOK

LEMMA ResubmittedCalls ==
  ASSUME TypeOK, CallsOK, FlowsOK, NEW c \in calls, NEW d, NEW e, Resubmitted(c, d, e)
  PROVE  CallsOK' /\ FlowsOK'
<1>1. OldFlows /\ Begun' = Begun
  BY ResubmittedTyped, SameIsOld DEF SameFlows
<1>2. page' = page /\ visit' = visit /\ jar' = jar /\ calls' = (calls \ {c}) \cup {d, e}
      /\ c.front /\ c.kind \in Returns
  BY DEF Resubmitted
<1>3. OneOK(c) /\ c.flow \in Begun
  BY <1>2, ReturnsOfBegun, EachOK
<1>4. OneOK(d)' /\ OneOK(e)'
  <2>1. ShapeOK(d) /\ d.drops \notin Crumbs
    BY <1>2, Sentinels DEF Resubmitted, ShapeOK, Redirects, Returns, Distinct
  <2>2. ShapeOK(e)
    BY <1>2, <1>3 DEF Resubmitted, OneOK, ShapeOK, Redirects, Returns
  <2>3. c.drops \notin Crumbs
    BY <1>2, <1>3 DEF OneOK, ShapeOK, Returns
  <2> QED BY <1>1, <1>2, <1>3, <2>1, <2>2, <2>3 DEF OneOK, OldFlows, CrumbOf, Resubmitted
<1>5. \A x \in calls \ {c} : OneOK(x)'
  BY <1>1, <1>2, StillOK
<1>6. CallsOK'
  BY <1>2, <1>4, <1>5, EachStillOK
<1>7. \A f \in FlowIds \ Begun : marks'[f] = marks[f]
  BY <1>3, ResubmittedTyped
<1> QED BY <1>1, <1>2, <1>6, <1>7 DEF FlowsOK, Resubmitted

LEMMA ReloadsCalls ==
  ASSUME TypeOK, CallsOK, FlowsOK, NEW t \in Tabs, Reloads(t)
  PROVE  CallsOK' /\ FlowsOK'
<1>1. OldFlows /\ Begun' = Begun
  BY ReloadsTyped, SameIsOld DEF SameFlows
<1>2. page' = [page EXCEPT ![t] = "load"] /\ visit' = visit /\ calls' = calls /\ Idle(t)
      /\ marks' = marks /\ jar' = jar
  BY DEF Reloads
<1>3. \A x \in calls : x.front => page'[x.tab] = page[x.tab]
  BY <1>2, Typed DEF Idle, TypeOK
<1>4. CallsOK'
  BY <1>1, <1>2, <1>3, StillOK, EachStillOK
<1> QED BY <1>1, <1>2, <1>4 DEF FlowsOK, TypeOK

LEMMA ArrivesCalls ==
  ASSUME TypeOK, CallsOK, FlowsOK, NEW c \in calls, Arrives(c)
  PROVE  CallsOK' /\ FlowsOK'
<1>1. OldFlows /\ Begun' = Begun
  BY ArrivesTyped, SameIsOld DEF SameFlows
<1>2. Landed(c) /\ calls' = calls \ {c} /\ c.front
  BY ArrivesLanded DEF Arrives
<1>3. \A x \in calls \ {c} : x.front => page'[x.tab] = page[x.tab]
  BY <1>2, Typed DEF TypeOK, Landed
<1>4. CallsOK'
  BY <1>1, <1>2, <1>3, StillOK, EachStillOK
<1>5. \A t \in Tabs : page'[t] = "idp" => visit'[t] \in Begun
  BY <1>2 DEF Landed, FlowsOK, CallsOK
<1>6. \A f \in FlowIds \ Begun : marks'[f] = {}
  <2>1. CASE marks' = marks
    BY <2>1 DEF FlowsOK
  <2>2. CASE Marks(jar.crumb.flow, {"crossed"}) /\ jar.crumb.flow \in Begun
    BY <2>2 DEF FlowsOK, Marks, TypeOK, Begun
  <2> QED BY <2>1, <2>2 DEF Arrives, FlowsOK
<1>7. jar'.crumb = Kept(jar.crumb, c.drops)
  BY DEF Arrives
<1>8. c.drops \in Crumbs => c.drops.flow \in Begun
  <2>1. OneOK(c)
    BY EachOK
  <2> QED BY <2>1 DEF OneOK, CrumbOf, ShapeOK
<1>9. jar'.crumb # None => jar'.crumb.flow \in Begun
  BY <1>7, <1>8, Typed DEF Kept, FlowsOK
<1> QED BY <1>1, <1>4, <1>5, <1>6, <1>9 DEF FlowsOK

LEMMA RestartedCalls ==
  ASSUME TypeOK, CallsOK, FlowsOK, NEW a, Restarted(a)
  PROVE  CallsOK' /\ FlowsOK'
<1>1. OldFlows /\ Begun' = Begun /\ calls' = {a[c] : c \in calls}
      /\ UNCHANGED <<jar, page, visit>>
  BY RestartedTyped, SameIsOld DEF SameFlows, Restarted
<1>2. ASSUME NEW c \in calls
      PROVE  OneOK(a[c])'
  <2>1. CASE c.stage = "answered"
    <3>1. OneOK(c)'
      BY <1>1, StillOK
    <3> QED BY <2>1, <3>1 DEF Restarted
  <2>2. CASE c.stage # "answered"
    <3>1. OneOK(c)
      BY EachOK
    <3>2. /\ ShapeOK(a[c]) /\ a[c].kind = c.kind /\ a[c].tab = c.tab /\ a[c].front = c.front
          /\ a[c].flow = c.flow /\ ~Redirects(a[c]) /\ a[c].drops \notin Crumbs
      BY <2>2, Sentinels DEF Restarted, Redirects, Distinct
    <3> QED BY <1>1, <3>1, <3>2 DEF OneOK, OldFlows
  <2> QED BY <2>1, <2>2
<1>3. CallsOK'
  BY <1>1, <1>2, EachStillOK
<1>4. \A f \in FlowIds \ Begun : marks'[f] = marks[f]
  BY DEF Restarted
<1> QED BY <1>1, <1>3, <1>4 DEF FlowsOK

LEMMA OthersCalls ==
  ASSUME TypeOK, CallsOK, FlowsOK,
         (\E c \in calls : Vanishes(c)) \/ Discovers \/ Tick \/ UNCHANGED vars
  PROVE  CallsOK' /\ FlowsOK'
<1>1. OldFlows /\ Begun' = Begun /\ calls' \subseteq calls /\ UNCHANGED <<jar, page, visit, marks>>
  BY OthersTyped, SameIsOld DEF SameFlows, browser
<1>2. CallsOK'
  BY <1>1, StillOK, EachStillOK
<1> QED BY <1>1, <1>2 DEF FlowsOK

-----------------------------------------------------------------------------
(***************************************************************************)
(* Sessions, and who a tab shows                                           *)
(***************************************************************************)
\* What a request says.
SaysIn(c, n, u) ==
  \/ c.session \in Sessions /\ c.session.id = n /\ c.session.user = u
  \/ c.sets \in Sessions /\ c.sets.id = n /\ c.sets.user = u
  \/ c.csrf = n /\ c.user = u

Owners == SessionsAgree /\ NobodyShown /\ ActsAsShown

LEMMA AgreeKept ==
  ASSUME TypeOK, SessionsAgree, sessions' = sessions,
         \A n \in 1 .. MaxSessions : \A u \in Shown : Says(n, u)' => Says(n, u)
  PROVE  SessionsAgree'
  BY DEF SessionsAgree

LEMMA AgreeNew ==
  ASSUME TypeOK, SessionsAgree, sessions' = sessions + 1, NEW w,
         \A n \in 1 .. MaxSessions : \A u \in Shown :
           Says(n, u)' => Says(n, u) \/ (n = sessions + 1 /\ u = w)
  PROVE  SessionsAgree'
<1> SUFFICES ASSUME NEW n \in 1 .. MaxSessions, NEW u \in Shown, NEW v \in Shown
             PROVE  /\ Says(n, u)' => n <= sessions'
                    /\ Says(n, u)' /\ Says(n, v)' => u = v
  BY DEF SessionsAgree
<1>1. sessions \in Nat /\ n \in Nat
  BY Bounds DEF TypeOK
<1>2. (Says(n, u) => n <= sessions) /\ (Says(n, v) => n <= sessions)
      /\ (Says(n, u) /\ Says(n, v) => u = v)
  BY DEF SessionsAgree
<1>3. (Says(n, u)' => Says(n, u) \/ (n = sessions + 1 /\ u = w))
      /\ (Says(n, v)' => Says(n, v) \/ (n = sessions + 1 /\ v = w))
  OBVIOUS
<1> HIDE DEF Says
<1> QED BY <1>1, <1>2, <1>3

LEMMA HandledOwners ==
  ASSUME TypeOK, CallsOK, Owners, NEW c \in calls, NEW d, Handled(c, d)
  PROVE  Owners'
<1>1. /\ d \in Calls /\ d.stage # "sent" /\ d.kind = c.kind /\ c.stage # "answered"
      /\ calls' = (calls \ {c}) \cup {d} /\ UNCHANGED <<config, jar, page, shown, csrf>>
      /\ Owned(c, d)
  BY DEF Handled, Turned
<1>2. ASSUME NEW n \in 1 .. MaxSessions, NEW u \in Shown, Says(n, u)'
      PROVE  Says(n, u) \/ SaysIn(d, n, u)
  BY <1>1, <1>2 DEF Says, SaysIn
<1>3. SessionsAgree'
  <2>1. CASE /\ sessions' = sessions + 1 /\ d.session = None /\ d.csrf = sessions + 1
             /\ d.sets \in Sessions /\ d.sets.id = sessions + 1 /\ d.sets.user = d.user
    <3>1. ASSUME NEW n \in 1 .. MaxSessions, NEW u \in Shown, SaysIn(d, n, u)
          PROVE  n = sessions + 1 /\ u = d.user
      BY <2>1, <3>1, Sentinels DEF SaysIn, Distinct
    <3> QED BY <1>2, <2>1, <3>1, AgreeNew DEF Owners
  <2>2. CASE /\ sessions' = sessions
             /\ d.session \in {None, c.session} /\ d.sets \in {None, Same}
             /\ \/ d.csrf = 0 \/ (d.csrf = c.csrf /\ d.user = c.user)
                \/ c.session \in Sessions /\ d.csrf = c.session.id /\ d.user = c.session.user
    <3>1. ASSUME NEW n \in 1 .. MaxSessions, NEW u \in Shown, SaysIn(d, n, u)
          PROVE  SaysIn(c, n, u)
      <4>1. n # 0 /\ None \notin Sessions /\ Same \notin Sessions
        BY Sentinels, Bounds DEF Distinct
      <4> QED BY <2>2, <3>1, <4>1 DEF SaysIn
    <3>2. ASSUME NEW n \in 1 .. MaxSessions, NEW u \in Shown, SaysIn(d, n, u)
          PROVE  Says(n, u)
      BY <3>1, <3>2 DEF Says, SaysIn
    <3> QED BY <1>2, <2>2, <3>2, AgreeKept DEF Owners
  <2> QED BY <1>1, <2>1, <2>2 DEF Owned
<1>4. NobodyShown'
  BY <1>1 DEF Owners, NobodyShown, Owned
<1>5. ActsAsShown'
  <2>1. CASE acted' = acted
    BY <2>1 DEF Owners, ActsAsShown
  <2>2. ASSUME NEW u \in Users \cup {Nobody}, Acts(c, u)
        PROVE  c.user = u
    <3>1. CASE ~config.enabled
      BY <2>2, <3>1 DEF Acts, Owners, NobodyShown
    <3>2. CASE config.enabled
      <4>1. c.session \in Sessions /\ c.csrf = c.session.id /\ u = c.session.user
        BY <2>2, <3>2 DEF Acts
      <4>2. PICK n : n = c.session.id
        OBVIOUS
      <4>3. n \in 1 .. MaxSessions /\ u \in Shown /\ c.user \in Shown
        BY <4>1, <4>2, Typed DEF Sessions, Shown
      <4>4. Says(n, c.user) /\ Says(n, u)
        BY <4>1, <4>2 DEF Says
      <4> QED BY <4>3, <4>4 DEF Owners, SessionsAgree
    <3> QED BY <3>1, <3>2
  <2>3. ASSUME NEW u \in Users \cup {Nobody}, Acts(c, u)
        PROVE  ActsAsShown'
    <3>1. acted' = acted \cup {[shown |-> c.user, as |-> u]} /\ c.user = u
      BY <2>2, <2>3 DEF Acts
    <3> QED BY <3>1 DEF Owners, ActsAsShown
  <2> QED BY <1>1, <2>1, <2>3 DEF Owned
<1> QED BY <1>3, <1>4, <1>5 DEF Owners

LEMMA AskedOwners ==
  ASSUME TypeOK, CallsOK, Owners, NEW t \in Tabs, NEW d, Asked(t, d)
  PROVE  Owners'
<1>1. /\ calls' = calls \cup {d} /\ UNCHANGED <<config, jar, page, shown, csrf, sessions, acted>>
      /\ d.stage = "sent" /\ d.sets \notin Sessions /\ d.session \in {None, jar.session}
      /\ d.csrf = 0 \/ (d.csrf = csrf[t] /\ d.user = shown[t])
      /\ page[t] \in StandsAt(d.kind) /\ (d.kind = "write" => d.user = shown[t])
  BY Sentinels DEF Asked, browser, Distinct
<1>2. ASSUME NEW n \in 1 .. MaxSessions, NEW u \in Shown, Says(n, u)'
      PROVE  Says(n, u) \/ SaysIn(d, n, u)
  BY <1>1, <1>2 DEF Says, SaysIn
<1>3. ASSUME NEW n \in 1 .. MaxSessions, NEW u \in Shown, SaysIn(d, n, u)
      PROVE  Says(n, u)
  <2>1. n # 0 /\ None \notin Sessions
    BY Sentinels, Bounds DEF Distinct
  <2> QED BY <1>1, <1>3, <2>1 DEF Says, SaysIn
<1>4. SessionsAgree'
  BY <1>1, <1>2, <1>3, AgreeKept DEF Owners
<1>5. NobodyShown'
  BY <1>1 DEF Owners, NobodyShown, StandsAt
<1> QED BY <1>1, <1>4, <1>5 DEF Owners, ActsAsShown

LEMMA ResubmittedOwners ==
  ASSUME TypeOK, CallsOK, Owners, NEW c \in calls, NEW d, NEW e, Resubmitted(c, d, e)
  PROVE  Owners'
<1>1. /\ calls' = (calls \ {c}) \cup {d, e}
      /\ UNCHANGED <<config, jar, page, shown, csrf, sessions, acted>>
      /\ d.kind \in Returns /\ d.session = None /\ d.sets = Same /\ d.csrf = 0
      /\ e.kind \in Returns /\ e.csrf = c.csrf /\ e.session = c.session /\ e.user = c.user
      /\ e.sets = c.sets
  BY DEF Resubmitted
<1>2. ASSUME NEW n \in 1 .. MaxSessions, NEW u \in Shown, Says(n, u)'
      PROVE  Says(n, u)
  <2>1. n # 0 /\ None \notin Sessions /\ Same \notin Sessions
    BY Sentinels, Bounds DEF Distinct
  <2>2. ~SaysIn(d, n, u) /\ (SaysIn(e, n, u) => SaysIn(c, n, u))
    BY <1>1, <2>1 DEF SaysIn
  <2>3. Says(n, u) \/ SaysIn(d, n, u) \/ SaysIn(e, n, u)
    BY <1>1, <1>2 DEF Says, SaysIn
  <2>4. SaysIn(c, n, u) => Says(n, u)
    BY DEF Says, SaysIn
  <2> QED BY <2>2, <2>3, <2>4
<1>3. SessionsAgree'
  BY <1>1, <1>2, AgreeKept DEF Owners
<1>4. NobodyShown'
  BY <1>1 DEF Owners, NobodyShown, Returns
<1> QED BY <1>1, <1>3, <1>4 DEF Owners, ActsAsShown

LEMMA ReloadsOwners ==
  ASSUME TypeOK, Owners, NEW t \in Tabs, Reloads(t)
  PROVE  Owners'
<1>1. /\ page' = [page EXCEPT ![t] = "load"]
      /\ shown' = [shown EXCEPT ![t] = None] /\ csrf' = [csrf EXCEPT ![t] = 0]
      /\ UNCHANGED <<config, jar, calls, sessions, acted>>
  BY DEF Reloads, server
<1>2. ASSUME NEW n \in 1 .. MaxSessions, NEW u \in Shown, Says(n, u)'
      PROVE  Says(n, u)
  <2>1. n # 0
    BY Bounds
  <2>2. \A s \in Tabs : csrf'[s] = n /\ shown'[s] = u => csrf[s] = n /\ shown[s] = u
    BY <1>1, <2>1 DEF TypeOK
  <2> QED BY <1>1, <1>2, <2>2 DEF Says
<1>3. SessionsAgree'
  BY <1>1, <1>2, AgreeKept DEF Owners
<1>4. NobodyShown'
  BY <1>1 DEF Owners, NobodyShown, TypeOK
<1> QED BY <1>1, <1>3, <1>4 DEF Owners, ActsAsShown

LEMMA ArrivesOwners ==
  ASSUME TypeOK, CallsOK, Owners, NEW c \in calls, Arrives(c)
  PROVE  Owners'
<1>1. /\ calls' = calls \ {c} /\ UNCHANGED <<config, sessions, acted>>
      /\ jar'.session = Kept(jar.session, c.sets) /\ Landed(c) /\ c.stage = "answered"
  BY ArrivesLanded DEF Arrives, server
<1>2. ASSUME NEW n \in 1 .. MaxSessions, NEW u \in Shown, Says(n, u)'
      PROVE  Says(n, u)
  <2>1. n # 0
    BY Bounds
  <2>2. CASE jar'.session \in Sessions /\ jar'.session.id = n /\ jar'.session.user = u
    BY <1>1, <2>2 DEF Kept, Says
  <2>3. CASE \E t \in Tabs : csrf'[t] = n /\ shown'[t] = u
    BY <1>1, <2>1, <2>3 DEF Landed, Says
  <2> QED BY <1>1, <1>2, <2>2, <2>3 DEF Says
<1>3. SessionsAgree'
  BY <1>1, <1>2, AgreeKept DEF Owners
<1>4. NobodyShown'
  <2> SUFFICES ASSUME ~config.enabled, NEW t \in Tabs, page'[t] \in {"app", "leaving"}
               PROVE  shown'[t] = Nobody
    BY <1>1 DEF Owners, NobodyShown
  <2>1. CASE t # c.tab
    BY <1>1, <2>1 DEF Landed, Owners, NobodyShown
  <2>2. CASE t = c.tab
    BY <1>1, <2>2 DEF Landed, Owners, NobodyShown
  <2> QED BY <2>1, <2>2
<1> QED BY <1>1, <1>3, <1>4 DEF Owners, ActsAsShown

LEMMA RestartedOwners ==
  ASSUME TypeOK, Owners, NEW a, Restarted(a)
  PROVE  Owners'
<1>1. calls' = {a[c] : c \in calls}
      /\ UNCHANGED <<config, jar, page, shown, csrf, sessions, acted>>
  BY DEF Restarted
<1>2. ASSUME NEW c \in calls
      PROVE  a[c] = c \/ (~a[c].good /\ a[c].csrf = 0 /\ a[c].session = None /\ a[c].sets = Same)
  BY DEF Restarted
<1>3. ASSUME NEW n \in 1 .. MaxSessions, NEW u \in Shown, Says(n, u)'
      PROVE  Says(n, u)
  <2>1. n # 0 /\ None \notin Sessions /\ Same \notin Sessions
    BY Sentinels, Bounds DEF Distinct
  <2>2. ASSUME NEW c \in calls, SaysIn(a[c], n, u)
        PROVE  Says(n, u)
    <3>1. a[c] = c
      BY <1>2, <2>1, <2>2 DEF SaysIn
    <3> QED BY <2>2, <3>1 DEF Says, SaysIn
  <2>3. Says(n, u) \/ \E c \in calls : SaysIn(a[c], n, u)
    BY <1>1, <1>3 DEF Says, SaysIn
  <2> QED BY <2>2, <2>3
<1>4. SessionsAgree'
  BY <1>1, <1>3, AgreeKept DEF Owners
<1>5. NobodyShown'
  <2>1. ASSUME NEW c \in calls
        PROVE  a[c].stage = "answered" /\ (a[c] = c \/ ~a[c].good)
    BY <1>2 DEF Restarted
  <2> QED BY <1>1, <2>1 DEF Owners, NobodyShown
<1> QED BY <1>1, <1>4, <1>5 DEF Owners, ActsAsShown

LEMMA OthersOwners ==
  ASSUME TypeOK, Owners, (\E c \in calls : Vanishes(c)) \/ Discovers \/ Tick \/ UNCHANGED vars
  PROVE  Owners'
<1>1. calls' \subseteq calls /\ UNCHANGED <<config, jar, page, shown, csrf, sessions, acted>>
  BY OthersTyped DEF browser
<1>2. ASSUME NEW n \in 1 .. MaxSessions, NEW u \in Shown, Says(n, u)'
      PROVE  Says(n, u)
  BY <1>1, <1>2 DEF Says
<1>3. SessionsAgree'
  BY <1>1, <1>2, AgreeKept DEF Owners
<1> QED BY <1>1, <1>3 DEF Owners, NobodyShown, ActsAsShown

-----------------------------------------------------------------------------
(***************************************************************************)
(* One answer of the identity provider opens one session                   *)
(***************************************************************************)
OneOpens(f) ==
  ~Lapsed(f) =>
    /\ \A c, d \in Granted(f) : c = d
    /\ Granted(f) # {} => "opened" \notin marks[f]
    /\ "again" \notin marks[f]
    /\ flow[f].by = "oidc" /\ (Granted(f) # {} \/ "opened" \in marks[f]) => flow[f].redeemed
    /\ flow[f].by = "saml" /\ "opened" \in marks[f] => f \in used \/ Late(f)

LEMMA EachOpens ==
  ASSUME OpensOnce, NEW f \in Begun
  PROVE  OneOpens(f)
  BY DEF OpensOnce, OneOpens

LEMMA EachStillOpens ==
  ASSUME \A f \in Begun' : OneOpens(f)'
  PROVE  OpensOnce'
  BY DEF OpensOnce, OneOpens

LEMMA Clock ==
  ASSUME TypeOK
  PROVE  now \in Nat
  BY Bounds DEF TypeOK

LEMMA LateStays ==
  ASSUME TypeOK, NEW f \in Begun, flow'[f].began = flow[f].began, now' \in Nat, now' >= now, Late(f)
  PROVE  Late(f)'
<1>1. flow[f].began \in Nat /\ now \in Nat /\ StateTtl \in Nat
  BY BegunTyped, Bounds DEF TypeOK
<1> QED BY <1>1 DEF Late

\* Nobody new is being let in, and what was spent stays spent.
LEMMA OpensStill ==
  ASSUME TypeOK, NEW f \in Begun, OneOpens(f),
         flow'[f].by = flow[f].by, flow'[f].began = flow[f].began,
         flow[f].redeemed => flow'[f].redeemed, now' \in Nat, now' >= now,
         f \in used => f \in used' \/ Late(f),
         marks[f] \subseteq marks'[f],
         \A w \in {"opened", "again"} : w \in marks'[f] => w \in marks[f],
         (\A c, d \in Granted(f) : c = d) => \A c, d \in Granted(f)' : c = d,
         Granted(f)' # {} => Granted(f) # {}
  PROVE  OneOpens(f)'
<1>1. Lapsed(f) => Lapsed(f)'
  BY DEF Lapsed
<1>2. Late(f) => Late(f)'
  BY LateStays
<1> QED BY <1>1, <1>2 DEF OneOpens

LEMMA HandledOpens ==
  ASSUME TypeOK, CallsOK, FlowsOK, OpensOnce, NEW c \in calls, NEW d, Handled(c, d)
  PROVE  OpensOnce'
<1>1. /\ ShapeOK(d) /\ d.kind = c.kind /\ calls' = (calls \ {c}) \cup {d} /\ now' = now
      /\ now' \in Nat /\ now' >= now
  BY Bounds DEF Handled, Turned, TypeOK
<1>2. \A e \in calls : e.stage = "grant" => e.kind \in Returns /\ e.flow \in Begun
  BY ReturnsOfBegun DEF CallsOK, ShapeOK
<1> SUFFICES ASSUME NEW f \in Begun'
             PROVE  OneOpens(f)'
  BY EachStillOpens
<1>3. CASE f \notin Begun
  <2>1. Begins(c, d) /\ d.stage = "answered" /\ f \in FlowIds
    BY <1>3, HandledFlows DEF SameFlows, Begins, Redirects, Begun
  <2>2. marks'[f] = {}
    BY <1>3, <2>1 DEF Begins, FlowsOK
  <2>3. Granted(f)' = {}
    BY <1>1, <1>2, <1>3, <2>1 DEF Granted
  <2> QED BY <2>2, <2>3 DEF OneOpens
<1>4. CASE f \in Begun /\ ~(d.stage = "grant" /\ f = c.flow)
           /\ ~(Entered(c, d) /\ f = c.flow)
  <2>1. d.flow = c.flow \/ d.stage # "grant"
    BY <1>1 DEF Handled, Quiet, Begins, Proceeds, Redeemed, Accepts, Refused, Entered, ShapeOK, Redirects
  <2>2. Granted(f)' \subseteq Granted(f)
    BY <1>1, <1>4, <2>1 DEF Granted
  <2>3. marks[f] \subseteq marks'[f]
    BY <1>4, BegunTyped, HandledMarks
  <2>4. \A w \in {"opened", "again"} : w \in marks'[f] => w \in marks[f]
    <3>1. f \in FlowIds /\ f \in DOMAIN marks
      BY <1>4, BegunTyped DEF TypeOK
    <3>2. CASE marks'[f] = marks[f]
      BY <3>2
    <3>3. CASE marks'[f] # marks[f]
      <4>1. f = c.flow
        BY <3>1, <3>3, HandledMarks
      <4>2. Accepts(c, d) \/ Refused(c, d)
        BY <1>4, <3>3, <4>1 DEF Handled, Quiet, Begins, Proceeds, Redeemed
      <4>3. CASE Accepts(c, d)
        BY <3>1, <4>3, <4>1 DEF Accepts, Marks
      <4>4. CASE Refused(c, d)
        <5>1. PICK words \in SUBSET {"refused", "late", "failed"} : Marks(c.flow, words)
          BY <4>4 DEF Refused
        <5> QED BY <3>1, <4>1, <5>1 DEF Marks
      <4> QED BY <4>2, <4>3, <4>4
    <3> QED BY <3>2, <3>3
  <2>5. f \in used => f \in used' \/ Late(f)
    BY HandledUsed
  <2>6. OneOpens(f)
    BY <1>4, EachOpens
  <2> QED BY <1>1, <1>4, <2>2, <2>3, <2>4, <2>5, <2>6, HandledFlows, OpensStill
<1>5. CASE f \in Begun /\ d.stage = "grant" /\ f = c.flow
  <2>1. OneOpens(f) /\ f \in FlowIds /\ f \in DOMAIN marks
    BY <1>5, EachOpens, BegunTyped DEF TypeOK
  <2>2. Redeemed(c, d) \/ Accepts(c, d)
    BY <1>1, <1>5 DEF Handled, Quiet, Begins, Proceeds, Refused, Entered, Redirects, ShapeOK
  <2>3. CASE Redeemed(c, d)
    <3>1. c.kind = "callback" /\ c.stage = "config" /\ ~flow[f].redeemed /\ marks' = marks
      BY <1>5, <2>3 DEF Redeemed
    <3>2. flow[f].by = "oidc" /\ flow'[f].by = "oidc" /\ flow'[f].redeemed
      <4>1. flow[f].by = "oidc"
        BY <1>5, <3>1, ReturnsOfBegun DEF Returns, By
      <4>2. SameFlows /\ flow'[f].redeemed
        BY <1>5, <2>3, RedeemedFlows DEF Redeemed
      <4> QED BY <1>5, <4>1, <4>2 DEF SameFlows
    <3>3. ~Lapsed(f) => Granted(f) = {} /\ "opened" \notin marks[f] /\ "again" \notin marks[f]
      BY <2>1, <3>1, <3>2 DEF OneOpens
    <3>4. Granted(f)' \subseteq Granted(f) \cup {d}
      BY <1>1 DEF Granted
    <3> QED BY <3>1, <3>2, <3>3, <3>4 DEF OneOpens, Lapsed
  <2>4. CASE Accepts(c, d)
    <3>1. c.kind = "acs" /\ Gets(f) /\ flow' = flow /\ used' = used
          /\ Marks(f, IF Granted(f) # {} THEN {"overlapped"} ELSE {})
      BY <1>5, <2>4 DEF Accepts, Granted
    <3>2. flow[f].by = "saml" /\ flow'[f].by = "saml"
      BY <1>5, <3>1, ReturnsOfBegun DEF Returns, By
    <3>3. f \notin used /\ ~Late(f)
      BY <3>1 DEF Gets, Verified, Pruned
    <3>4. CASE Granted(f) # {}
      <4>1. "overlapped" \in marks'[f]
        BY <2>1, <3>1, <3>4 DEF Marks
      <4> QED BY <4>1 DEF OneOpens, Lapsed
    <3>5. CASE Granted(f) = {}
      <4>1. marks'[f] = marks[f]
        BY <2>1, <3>1, <3>5 DEF Marks
      <4>2. ~Lapsed(f) => "opened" \notin marks[f] /\ "again" \notin marks[f]
        BY <2>1, <3>2, <3>3 DEF OneOpens
      <4>3. Granted(f)' \subseteq {d}
        BY <1>1, <3>5 DEF Granted
      <4> QED BY <3>2, <4>1, <4>2, <4>3 DEF OneOpens, Lapsed
    <3> QED BY <3>4, <3>5
  <2> QED BY <2>2, <2>3, <2>4
<1>6. CASE f \in Begun /\ Entered(c, d) /\ f = c.flow
  <2>1. OneOpens(f) /\ f \in FlowIds /\ f \in DOMAIN marks
    BY <1>6, EachOpens, BegunTyped DEF TypeOK
  <2>2. /\ c.kind \in Returns /\ c \in Granted(f) /\ d.stage = "answered"
        /\ flow' = flow /\ Spends(c)
    BY <1>6 DEF Entered, Granted
  <2>3. ~Lapsed(f) => /\ Granted(f) = {c} /\ "opened" \notin marks[f] /\ "again" \notin marks[f]
                      /\ (flow[f].by = "oidc" => flow[f].redeemed)
    BY <2>1, <2>2 DEF OneOpens
  <2>4. ~Lapsed(f) => Granted(f)' = {}
    BY <1>1, <2>2, <2>3 DEF Granted
  <2>5. ~Lapsed(f) => "again" \notin marks'[f]
    <3>1. CASE marks' = marks
      BY <2>3, <3>1
    <3>2. CASE Marks(c.flow, {"opened"})
      BY <1>6, <2>1, <2>3, <3>2 DEF Marks
    <3>3. CASE Marks(c.flow, IF "opened" \in marks[c.flow] THEN {"again"} ELSE {"opened"})
      BY <1>6, <2>1, <2>3, <3>3 DEF Marks
    <3> QED BY <1>6, <3>1, <3>2, <3>3 DEF Entered
  <2>6. Lapsed(f) => Lapsed(f)'
    BY <2>1, HandledMarks DEF Lapsed
  <2>7. flow'[f].by = "saml" => f \in used' \/ Late(f)'
    <3>1. flow'[f].by = "saml" => c.kind = "acs"
      BY <1>6, <2>2, ReturnsOfBegun DEF Returns, By
    <3>2. Late(f) <=> Late(f)'
      BY <1>1, <2>2 DEF Late
    <3> QED BY <1>6, <2>2, <3>1, <3>2 DEF Spends, Removed, Verified
  <2> QED BY <2>2, <2>3, <2>4, <2>5, <2>6, <2>7 DEF OneOpens
<1> QED BY <1>3, <1>4, <1>5, <1>6

LEMMA AskedOpens ==
  ASSUME TypeOK, FlowsOK, OpensOnce, NEW t \in Tabs, NEW d, Asked(t, d)
  PROVE  OpensOnce'
<1>1. /\ calls' = calls \cup {d} /\ d.stage = "sent" /\ UNCHANGED <<now, used, marks>>
      /\ SameFlows /\ now \in Nat
  BY AskedFlows, Clock DEF Asked
<1> SUFFICES ASSUME NEW f \in Begun
             PROVE  OneOpens(f)'
  BY <1>1, EachStillOpens DEF SameFlows
<1>2. Granted(f)' = Granted(f)
  BY <1>1 DEF Granted
<1> QED BY <1>1, <1>2, EachOpens, OpensStill DEF SameFlows

LEMMA ResubmittedOpens ==
  ASSUME TypeOK, CallsOK, OpensOnce, NEW c \in calls, NEW d, NEW e, Resubmitted(c, d, e)
  PROVE  OpensOnce'
<1>1. /\ calls' = (calls \ {c}) \cup {d, e} /\ d.stage = "sent" /\ e.stage = c.stage
      /\ e.flow = c.flow /\ UNCHANGED <<now, used>> /\ SameFlows /\ now \in Nat
      /\ \A f \in FlowIds : marks'[f] = marks[f] \/ marks'[f] = marks[f] \cup {"repeated"}
  BY ResubmittedTyped, Bounds DEF Resubmitted, TypeOK
<1> SUFFICES ASSUME NEW f \in Begun
             PROVE  OneOpens(f)'
  BY <1>1, EachStillOpens DEF SameFlows
<1>2. Granted(f)' = IF c \in Granted(f) THEN (Granted(f) \ {c}) \cup {e} ELSE Granted(f)
  BY <1>1 DEF Granted
<1>3. (\A x, y \in Granted(f) : x = y) => \A x, y \in Granted(f)' : x = y
  BY <1>2
<1>4. Granted(f)' # {} => Granted(f) # {}
  BY <1>2
<1>5. marks[f] \subseteq marks'[f] /\ \A w \in {"opened", "again"} : w \in marks'[f] => w \in marks[f]
  BY <1>1, BegunTyped
<1> HIDE DEF Granted
<1> QED BY <1>1, <1>3, <1>4, <1>5, EachOpens, OpensStill DEF SameFlows

LEMMA ReloadsOpens ==
  ASSUME TypeOK, OpensOnce, NEW t \in Tabs, Reloads(t)
  PROVE  OpensOnce'
<1>1. UNCHANGED <<now, calls, used, flow, marks>>
  BY DEF Reloads, server
<1> QED BY <1>1 DEF OpensOnce, Granted, Lapsed, Late, Begun

LEMMA ArrivesOpens ==
  ASSUME TypeOK, CallsOK, FlowsOK, OpensOnce, NEW c \in calls, Arrives(c)
  PROVE  OpensOnce'
<1>1. calls' = calls \ {c} /\ UNCHANGED <<now, used>> /\ SameFlows /\ now \in Nat
  BY ArrivesTyped, Clock DEF Arrives, server
<1> SUFFICES ASSUME NEW f \in Begun
             PROVE  OneOpens(f)'
  BY <1>1, EachStillOpens DEF SameFlows
<1>2. Granted(f)' \subseteq Granted(f)
  BY <1>1 DEF Granted
<1>3. marks[f] \subseteq marks'[f] /\ \A w \in {"opened", "again"} : w \in marks'[f] => w \in marks[f]
  <2>1. f \in FlowIds /\ f \in DOMAIN marks
    BY BegunTyped DEF TypeOK
  <2> QED BY <2>1 DEF Arrives, Marks
<1> QED BY <1>1, <1>2, <1>3, EachOpens, OpensStill DEF SameFlows

LEMMA RestartedOpens ==
  ASSUME TypeOK, CallsOK, NEW a, Restarted(a)
  PROVE  OpensOnce'
<1>1. Begun' = Begun
  BY RestartedTyped DEF SameFlows
<1>2. \A f \in Begun : "restarted" \in marks'[f]
  BY BegunTyped DEF Restarted
<1> QED BY <1>1, <1>2 DEF OpensOnce, Lapsed

LEMMA OthersOpens ==
  ASSUME TypeOK, OpensOnce, (\E c \in calls : Vanishes(c)) \/ Discovers \/ Tick \/ UNCHANGED vars
  PROVE  OpensOnce'
<1>1. calls' \subseteq calls /\ now' \in Nat /\ now' >= now /\ UNCHANGED <<used, flow, marks>> /\ SameFlows
  BY OthersTyped
<1> SUFFICES ASSUME NEW f \in Begun
             PROVE  OneOpens(f)'
  BY <1>1, EachStillOpens DEF SameFlows
<1>2. Granted(f)' \subseteq Granted(f)
  BY <1>1 DEF Granted
<1> QED BY <1>1, <1>2, EachOpens, OpensStill DEF SameFlows

-----------------------------------------------------------------------------
(***************************************************************************)
(* A flow is in one place                                                  *)
(***************************************************************************)
LEMMA FrontOnce ==
  ASSUME TypeOK, NEW c \in calls, NEW d \in calls, c.front, d.front, c.tab = d.tab
  PROVE  c = d
  BY DEF TypeOK

\* What a step of the service makes of a request stays in the flow that it was in, unless
\* it begins one.
LEMMA HandledStays ==
  ASSUME NEW c \in calls, NEW d, Handled(c, d)
  PROVE  \/ Begins(c, d)
         \/ c.kind \in Returns /\ d.flow = c.flow /\ ~Redirects(d)
         \/ c.kind \notin Returns /\ ~Redirects(d)
<1>1. d.kind = c.kind
  BY DEF Handled, Turned
<1> QED BY <1>1 DEF Handled, Quiet, Proceeds, Redeemed, Accepts, Refused, Entered, Returns, Redirects

LEMMA HandledTravels ==
  ASSUME TypeOK, CallsOK, FlowsOK, Travels, NEW c \in calls, NEW d, Handled(c, d)
  PROVE  Travels'
<1>1. /\ d.kind = c.kind /\ d.tab = c.tab /\ d.front = c.front
      /\ calls' = (calls \ {c}) \cup {d} /\ UNCHANGED <<page, visit>>
  BY DEF Handled, Turned
<1>2. CASE ~Redirects(d) /\ (c.kind \in Returns => d.flow = c.flow)
  <2>1. \A x \in calls' : Redirects(x) => x \in calls
    BY <1>1, <1>2
  <2>2. ASSUME NEW y \in calls', y.kind \in Returns
        PROVE  \E z \in calls : z.kind \in Returns /\ z.flow = y.flow /\ z.tab = y.tab /\ z.front = y.front
    BY <1>1, <1>2, <2>2
  <2>3. \A x, y \in calls' : Redirects(x) /\ Redirects(y) /\ x.flow = y.flow => x = y
    BY <2>1 DEF Travels
  <2>4. \A x, y \in calls' : Redirects(x) /\ y.kind \in Returns => y.flow # x.flow
    BY <2>1, <2>2 DEF Travels
  <2>5. \A x \in calls' : x.kind \in Returns /\ x.front => visit[x.tab] = x.flow
    BY <2>2 DEF Travels
  <2> QED BY <1>1, <2>1, <2>3, <2>4, <2>5 DEF Travels, Redirects
<1>3. CASE Begins(c, d)
  <2>1. c.kind \in {"oidc", "saml"} /\ BeginsFlow(c, c.kind) /\ d.flow = NextFlow
    BY <1>3 DEF Begins
  <2>2. d.flow \notin Begun /\ d.kind \notin Returns
    BY <1>1, <2>1, BegunFlows DEF Returns
  <2>3. \A x \in calls : Redirects(x) \/ x.kind \in Returns => x.flow \in Begun
    BY DEF CallsOK
  <2>4. \A t \in Tabs : page[t] = "idp" => visit[t] \in Begun
    BY DEF FlowsOK
  <2>5. \A x, y \in calls' : Redirects(x) /\ Redirects(y) /\ x.flow = y.flow => x = y
    BY <1>1, <2>2, <2>3 DEF Travels
  <2>6. \A x, y \in calls' : Redirects(x) /\ y.kind \in Returns => y.flow # x.flow
    BY <1>1, <2>2, <2>3 DEF Travels
  <2>7. \A x \in calls', t \in Tabs : Redirects(x) /\ page[t] = "idp" => visit[t] # x.flow
    BY <1>1, <2>2, <2>4 DEF Travels
  <2>8. \A x \in calls' : x.kind \in Returns /\ x.front => visit[x.tab] = x.flow
    BY <1>1, <2>2 DEF Travels
  <2> QED BY <1>1, <2>5, <2>6, <2>7, <2>8 DEF Travels, Redirects
<1> QED BY <1>2, <1>3, HandledStays

LEMMA AskedTravels ==
  ASSUME TypeOK, FlowsOK, Travels, NEW t \in Tabs, NEW d, Asked(t, d)
  PROVE  Travels'
<1>1. /\ calls' = calls \cup {d} /\ UNCHANGED <<page, visit>> /\ ~Redirects(d) /\ d.tab = t
      /\ (d.kind \in Returns => d.flow = visit[t] /\ page[t] = "idp")
  BY AskedShape, AskedFlows DEF Asked, browser
<1>2. \A x, y \in calls' : Redirects(x) /\ Redirects(y) /\ x.flow = y.flow => x = y
  BY <1>1 DEF Travels
<1>3. \A x, y \in calls' : Redirects(x) /\ y.kind \in Returns => y.flow # x.flow
  BY <1>1 DEF Travels
<1>4. \A x \in calls' : x.kind \in Returns /\ x.front => visit[x.tab] = x.flow
  BY <1>1 DEF Travels
<1> QED BY <1>1, <1>2, <1>3, <1>4 DEF Travels, Redirects

LEMMA ResubmittedTravels ==
  ASSUME TypeOK, Travels, NEW c \in calls, NEW d, NEW e, Resubmitted(c, d, e)
  PROVE  Travels'
<1>1. /\ calls' = (calls \ {c}) \cup {d, e} /\ UNCHANGED <<page, visit>> /\ c.kind \in Returns
      /\ c.front /\ d.kind = c.kind /\ e.kind = c.kind /\ d.flow = c.flow /\ e.flow = c.flow
      /\ d.tab = c.tab /\ ~e.front
  BY DEF Resubmitted
<1>2. ~Redirects(d) /\ ~Redirects(e)
  BY <1>1 DEF Redirects, Returns
<1>3. \A x, y \in calls' : Redirects(x) /\ Redirects(y) /\ x.flow = y.flow => x = y
  BY <1>1, <1>2 DEF Travels
<1>4. \A x, y \in calls' : Redirects(x) /\ y.kind \in Returns => y.flow # x.flow
  BY <1>1, <1>2 DEF Travels
<1>5. \A x \in calls' : x.kind \in Returns /\ x.front => visit[x.tab] = x.flow
  BY <1>1 DEF Travels
<1> QED BY <1>1, <1>2, <1>3, <1>4, <1>5 DEF Travels, Redirects

LEMMA ReloadsTravels ==
  ASSUME TypeOK, Travels, NEW t \in Tabs, Reloads(t)
  PROVE  Travels'
<1>1. page' = [page EXCEPT ![t] = "load"] /\ UNCHANGED <<visit, calls>>
  BY DEF Reloads
<1>2. \A s \in Tabs : page'[s] = "idp" => page[s] = "idp"
  BY <1>1 DEF TypeOK
<1> QED BY <1>1, <1>2 DEF Travels, Redirects

LEMMA ArrivesTravels ==
  ASSUME TypeOK, CallsOK, Travels, NEW c \in calls, Arrives(c)
  PROVE  Travels'
<1>1. Landed(c) /\ calls' = calls \ {c} /\ c.front /\ c.tab \in Tabs
  BY ArrivesLanded, Typed DEF Arrives
<1>2. \A x, y \in calls' : Redirects(x) /\ Redirects(y) /\ x.flow = y.flow => x = y
  BY <1>1 DEF Travels
<1>3. \A x, y \in calls' : Redirects(x) /\ y.kind \in Returns => y.flow # x.flow
  BY <1>1 DEF Travels
<1>4. ASSUME NEW x \in calls', NEW t \in Tabs, Redirects(x), page'[t] = "idp"
      PROVE  visit'[t] # x.flow
  <2>1. CASE t = c.tab
    BY <1>1, <1>4, <2>1 DEF Landed, Travels
  <2>2. CASE t # c.tab
    BY <1>1, <1>4, <2>2 DEF Landed, Travels
  <2> QED BY <2>1, <2>2
<1>5. ASSUME NEW s \in Tabs, NEW t \in Tabs, page'[s] = "idp", page'[t] = "idp",
             visit'[s] = visit'[t]
      PROVE  s = t
  <2>1. CASE s # c.tab /\ t # c.tab
    BY <1>1, <1>5, <2>1 DEF Landed, Travels
  <2>2. CASE s = c.tab /\ t # c.tab
    BY <1>1, <1>5, <2>2 DEF Landed, Travels
  <2>3. CASE s # c.tab /\ t = c.tab
    BY <1>1, <1>5, <2>3 DEF Landed, Travels
  <2> QED BY <2>1, <2>2, <2>3
<1>6. ASSUME NEW x \in calls', x.kind \in Returns, x.front
      PROVE  visit'[x.tab] = x.flow
  <2>1. x.tab \in Tabs /\ x.tab # c.tab
    BY <1>1, <1>6, Typed, FrontOnce
  <2> QED BY <1>1, <1>6, <2>1 DEF Landed, Travels
<1> QED BY <1>2, <1>3, <1>4, <1>5, <1>6 DEF Travels, Redirects

LEMMA RestartedTravels ==
  ASSUME Travels, NEW a, Restarted(a)
  PROVE  Travels'
<1>1. calls' = {a[c] : c \in calls} /\ UNCHANGED <<page, visit>>
  BY DEF Restarted
<1>2. ASSUME NEW x \in calls'
      PROVE  /\ Redirects(x) => x \in calls
             /\ \E c \in calls : c.kind = x.kind /\ c.flow = x.flow /\ c.tab = x.tab /\ c.front = x.front
  BY <1>1 DEF Restarted, Redirects
<1>3. \A x, y \in calls' : Redirects(x) /\ Redirects(y) /\ x.flow = y.flow => x = y
  BY <1>2 DEF Travels
<1>4. \A x, y \in calls' : Redirects(x) /\ y.kind \in Returns => y.flow # x.flow
  BY <1>2 DEF Travels
<1>5. \A x \in calls' : x.kind \in Returns /\ x.front => visit[x.tab] = x.flow
  BY <1>2 DEF Travels
<1> QED BY <1>1, <1>2, <1>3, <1>4, <1>5 DEF Travels, Redirects

LEMMA OthersTravels ==
  ASSUME TypeOK, Travels, (\E c \in calls : Vanishes(c)) \/ Discovers \/ Tick \/ UNCHANGED vars
  PROVE  Travels'
<1>1. calls' \subseteq calls /\ UNCHANGED <<page, visit>>
  BY OthersTyped DEF browser
<1> QED BY <1>1 DEF Travels, Redirects

-----------------------------------------------------------------------------
(***************************************************************************)
(* What is spent, and the cookies of the flows                             *)
(***************************************************************************)
LEMMA HandledTaken ==
  ASSUME TypeOK, CallsOK, FlowsOK, NEW c \in calls, NEW d, Handled(c, d), NEW f \in Begun,
         flow'[f].redeemed \/ f \in used', ~Taken(f)
  PROVE  f = c.flow /\ c.kind \in Returns /\ d.stage \in {"grant", "answered"}
<1>1. flow' = flow \/ Redeemed(c, d) \/ Begins(c, d)
  BY DEF Handled, Quiet, Proceeds, Accepts, Refused, Entered
<1>2. used' = used \/ (Spends(c) /\ c.kind \in Returns /\ d.stage = "answered")
  BY DEF Handled, Quiet, Begins, Proceeds, Redeemed, Accepts, Refused, Entered
<1>3. CASE Redeemed(c, d)
  <2>1. c.flow \in Begun /\ c.kind \in Returns /\ d.stage = "grant" /\ used' = used
    BY <1>3, ReturnsOfBegun DEF Redeemed, Returns, Handled
  <2>2. \A g \in Begun \ {c.flow} : flow'[g] = flow[g]
    BY <1>3, <2>1, RedeemedFlows DEF Redeemed
  <2> QED BY <2>1, <2>2 DEF Taken
<1>4. CASE Begins(c, d)
  <2>1. c.kind \in {"oidc", "saml"} /\ BeginsFlow(c, c.kind) /\ used' = used
    BY <1>4 DEF Begins
  <2>3. flow'[f] = flow[f]
    BY <2>1, BegunFlows
  <2> QED BY <2>1, <2>3 DEF Taken
<1>5. CASE flow' = flow
  <2>1. f \in used' /\ f \notin used
    BY <1>5 DEF Taken
  <2>2. Spends(c) /\ c.kind \in Returns /\ d.stage = "answered"
    BY <1>2, <2>1
  <2> QED BY <2>1, <2>2 DEF Spends, Removed, Pruned
<1> QED BY <1>1, <1>3, <1>4, <1>5

\* A flow of which nothing was submitted twice is in the hands of one request.
LEMMA OneRequest ==
  ASSUME TypeOK, CallsOK, Travels, Alone, NEW c \in calls, c.kind \in Returns,
         "repeated" \notin marks[c.flow]
  PROVE  /\ c.front /\ page[c.tab] = "idp" /\ visit[c.tab] = c.flow
         /\ \A x \in calls : x.kind \in Returns /\ x.flow = c.flow => x = c
         /\ \A t \in Tabs : page[t] = "idp" /\ visit[t] = c.flow => t = c.tab /\ ~Idle(t)
         /\ \A x \in calls : Redirects(x) => x.flow # c.flow
<1>1. ASSUME NEW x \in calls, x.kind \in Returns, x.flow = c.flow
      PROVE  x.front /\ page[x.tab] = "idp" /\ visit[x.tab] = c.flow /\ x.tab \in Tabs
  <2>1. x.front
    BY <1>1 DEF Alone
  <2>2. page[x.tab] = "idp"
    BY <1>1, <2>1 DEF CallsOK, StandsAt, Returns
  <2> QED BY <1>1, <2>1, <2>2, Typed DEF Travels
<1>2. c.front /\ page[c.tab] = "idp" /\ visit[c.tab] = c.flow /\ c.tab \in Tabs
  BY <1>1
<1>3. \A t \in Tabs : page[t] = "idp" /\ visit[t] = c.flow => t = c.tab /\ ~Idle(t)
  BY <1>2 DEF Travels, Idle
<1>4. \A x \in calls : x.kind \in Returns /\ x.flow = c.flow => x = c
  BY <1>1, <1>2, <1>3, FrontOnce
<1> QED BY <1>2, <1>3, <1>4 DEF Travels

LEMMA HandledRepeats ==
  ASSUME TypeOK, CallsOK, NEW c \in calls, NEW d, Handled(c, d), NEW f \in FlowIds
  PROVE  "repeated" \in marks'[f] <=> "repeated" \in marks[f]
<1>1. CASE marks'[f] = marks[f]
  BY <1>1
<1>2. CASE marks'[f] # marks[f]
  <2>1. f = c.flow /\ f \in DOMAIN marks
    BY <1>2, HandledMarks DEF TypeOK
  <2>2. Accepts(c, d) \/ Refused(c, d) \/ Entered(c, d)
    BY <1>2 DEF Handled, Quiet, Begins, Proceeds, Redeemed
  <2>3. CASE Accepts(c, d)
    BY <2>1, <2>3 DEF Accepts, Marks
  <2>4. CASE Refused(c, d)
    <3>1. PICK words \in SUBSET {"refused", "late", "failed"} : Marks(c.flow, words)
      BY <2>4 DEF Refused
    <3> QED BY <2>1, <3>1 DEF Marks
  <2>5. CASE Entered(c, d)
    BY <2>1, <2>5 DEF Entered, Marks
  <2> QED BY <2>2, <2>3, <2>4, <2>5
<1> QED BY <1>1, <1>2

LEMMA HandledAlone ==
  ASSUME TypeOK, CallsOK, FlowsOK, Travels, Alone, NEW c \in calls, NEW d, Handled(c, d)
  PROVE  Alone'
<1>1. /\ d.kind = c.kind /\ d.tab = c.tab /\ d.front = c.front /\ d.stage # "sent"
      /\ calls' = (calls \ {c}) \cup {d} /\ UNCHANGED <<page, visit>>
  BY DEF Handled, Turned
<1>2. \A x \in calls : Redirects(x) \/ x.kind \in Returns => x.flow \in Begun /\ x.flow \in FlowIds
  BY DEF CallsOK, Begun
<1>3. \A f \in FlowIds : "repeated" \in marks'[f] <=> "repeated" \in marks[f]
  BY HandledRepeats
<1>4. ASSUME NEW f \in Begun, Taken(f)', ~Taken(f)
      PROVE  f = c.flow /\ c.kind \in Returns /\ d.stage \in {"grant", "answered"}
  BY <1>4, HandledTaken DEF Taken
<1>5. ASSUME NEW x \in calls', x.kind \in Returns, "repeated" \notin marks'[x.flow]
      PROVE  x.front /\ (x.stage \in {"sent", "config"} => ~Taken(x.flow)')
  <2>1. CASE x = d
    <3>1. d.flow = c.flow /\ c.kind \in Returns
      BY <1>1, <1>5, <2>1, HandledStays DEF Begins, Returns
    <3>2. "repeated" \notin marks[c.flow] /\ c.flow \in Begun
      BY <1>2, <1>3, <1>5, <2>1, <3>1
    <3>3. d.stage = "config" => c.stage = "sent"
      BY <1>1, <3>1 DEF Handled, Quiet, Begins, Proceeds, Redeemed, Accepts, Refused, Entered, Returns
    <3>4. c.front /\ (c.stage = "sent" => ~Taken(c.flow))
      BY <3>1, <3>2 DEF Alone
    <3> QED BY <1>1, <1>4, <2>1, <3>1, <3>2, <3>3, <3>4
  <2>2. CASE x \in calls \ {c}
    <3>1. "repeated" \notin marks[x.flow] /\ x.flow \in Begun
      BY <1>2, <1>3, <1>5, <2>2
    <3>2. c.kind \in Returns => c.flow # x.flow
      BY <1>5, <2>2, <3>1, OneRequest
    <3> QED BY <1>4, <1>5, <2>2, <3>1, <3>2 DEF Alone
  <2> QED BY <1>1, <2>1, <2>2
<1>6. ASSUME NEW x \in calls', Redirects(x)
      PROVE  ~Taken(x.flow)' /\ "repeated" \notin marks'[x.flow]
  <2>1. CASE x = d
    <3>1. Begins(c, d)
      BY <1>6, <2>1, HandledStays
    <3>2. c.kind \in {"oidc", "saml"} /\ BeginsFlow(c, c.kind) /\ d.flow = NextFlow
          /\ used' = used /\ marks' = marks
      BY <3>1 DEF Begins
    <3>3. NextFlow \in FlowIds \ Begun /\ ~flow'[NextFlow].redeemed
      BY <3>2, BegunFlows
    <3> QED BY <2>1, <3>2, <3>3 DEF Taken, FlowsOK, TypeOK
  <2>2. CASE x \in calls \ {c}
    <3>1. c.kind \in Returns => c.flow # x.flow
      BY <1>6, <2>2 DEF Travels
    <3> QED BY <1>2, <1>3, <1>4, <1>6, <2>2, <3>1 DEF Alone
  <2> QED BY <1>1, <2>1, <2>2
<1>7. ASSUME NEW t \in Tabs, page[t] = "idp", Idle(t)'
      PROVE  ~Taken(visit[t])' /\ "repeated" \notin marks'[visit[t]]
  <2>1. Idle(t) /\ visit[t] \in Begun /\ visit[t] \in FlowIds
    BY <1>1, <1>7 DEF Idle, FlowsOK, Begun
  <2>2. ~Taken(visit[t]) /\ "repeated" \notin marks[visit[t]]
    BY <1>7, <2>1 DEF Alone
  <2>3. c.kind \in Returns => c.flow # visit[t]
    BY <1>7, <2>1, <2>2, OneRequest
  <2> QED BY <1>1, <1>3, <1>4, <2>1, <2>2, <2>3
<1> QED BY <1>1, <1>5, <1>6, <1>7 DEF Alone, Redirects

LEMMA AskedAlone ==
  ASSUME TypeOK, CallsOK, FlowsOK, Alone, NEW t \in Tabs, NEW d, Asked(t, d)
  PROVE  Alone'
<1>1. /\ calls' = calls \cup {d} /\ UNCHANGED <<page, visit, marks, used>> /\ ~Redirects(d)
      /\ Idle(t) /\ d.front /\ d.tab = t
      /\ (d.kind \in Returns => d.flow = visit[t] /\ page[t] = "idp" /\ d.flow \in Begun)
  BY AskedShape, AskedFlows DEF Asked, browser
<1>2. \A f \in Begun : Taken(f)' <=> Taken(f)
  BY <1>1, AskedFlows DEF Taken
<1>3. \A x \in calls : Redirects(x) \/ x.kind \in Returns => x.flow \in Begun
  BY DEF CallsOK
<1>4. \A x \in calls' : x.kind \in Returns /\ "repeated" \notin marks[x.flow] =>
        x.front /\ (x.stage \in {"sent", "config"} => ~Taken(x.flow)')
  BY <1>1, <1>2, <1>3 DEF Alone
<1>5. \A x \in calls' : Redirects(x) => ~Taken(x.flow)' /\ "repeated" \notin marks[x.flow]
  BY <1>1, <1>2, <1>3 DEF Alone
<1>6. ASSUME NEW s \in Tabs, page[s] = "idp", Idle(s)'
      PROVE  ~Taken(visit[s])' /\ "repeated" \notin marks[visit[s]]
  <2>1. Idle(s) /\ visit[s] \in Begun
    BY <1>1, <1>6 DEF Idle, FlowsOK
  <2> QED BY <1>1, <1>2, <1>6, <2>1 DEF Alone
<1> QED BY <1>1, <1>4, <1>5, <1>6 DEF Alone, Redirects

LEMMA ResubmittedAlone ==
  ASSUME TypeOK, CallsOK, Travels, Alone, NEW c \in calls, NEW d, NEW e, Resubmitted(c, d, e)
  PROVE  Alone'
<1>1. /\ calls' = (calls \ {c}) \cup {d, e} /\ UNCHANGED <<page, visit, flow, used>>
      /\ c.kind \in Returns /\ c.front /\ d.kind = c.kind /\ e.kind = c.kind
      /\ d.flow = c.flow /\ e.flow = c.flow /\ d.front /\ d.tab = c.tab
      /\ ~Redirects(d) /\ ~Redirects(e)
  BY DEF Resubmitted, Returns, Redirects
<1>2. c.flow \in FlowIds /\ "repeated" \in marks'[c.flow]
      /\ \A f \in FlowIds \ {c.flow} : marks'[f] = marks[f]
  <2>1. c.flow \in FlowIds /\ c.flow \in DOMAIN marks
    BY <1>1, ReturnsOfBegun DEF TypeOK
  <2> QED BY <2>1 DEF Resubmitted, Marks, TypeOK
<1>3. \A x \in calls : Redirects(x) \/ x.kind \in Returns => x.flow \in FlowIds
  BY DEF CallsOK, Begun
<1>4. \A f : Taken(f)' <=> Taken(f)
  BY <1>1 DEF Taken
<1>5. \A x \in calls' : x.kind \in Returns /\ "repeated" \notin marks'[x.flow] =>
        x.front /\ (x.stage \in {"sent", "config"} => ~Taken(x.flow)')
  BY <1>1, <1>2, <1>3, <1>4 DEF Alone
<1>6. \A x \in calls' : Redirects(x) => ~Taken(x.flow)' /\ "repeated" \notin marks'[x.flow]
  <2>1. \A x \in calls' : Redirects(x) => x \in calls /\ x.flow # c.flow
    BY <1>1 DEF Travels
  <2> QED BY <1>2, <1>3, <1>4, <2>1 DEF Alone
<1>7. ASSUME NEW s \in Tabs, page[s] = "idp", Idle(s)'
      PROVE  ~Taken(visit[s])' /\ "repeated" \notin marks'[visit[s]]
  <2>1. s # c.tab /\ Idle(s)
    BY <1>1, <1>7 DEF Idle
  <2>2. page[c.tab] = "idp" /\ visit[c.tab] = c.flow /\ c.tab \in Tabs
    BY <1>1, Typed DEF CallsOK, StandsAt, Returns, Travels
  <2>3. visit[s] # c.flow
    BY <1>7, <2>1, <2>2 DEF Travels
  <2>4. ~Taken(visit[s]) /\ "repeated" \notin marks[visit[s]]
    BY <1>7, <2>1 DEF Alone
  <2>5. marks'[visit[s]] = marks[visit[s]]
    BY <2>3 DEF Resubmitted, Marks, TypeOK
  <2> QED BY <1>1, <2>4, <2>5 DEF Taken
<1> QED BY <1>1, <1>5, <1>6, <1>7 DEF Alone, Redirects

LEMMA ReloadsAlone ==
  ASSUME TypeOK, Alone, NEW t \in Tabs, Reloads(t)
  PROVE  Alone'
<1>1. page' = [page EXCEPT ![t] = "load"] /\ UNCHANGED <<visit, calls, flow, used, marks>>
  BY DEF Reloads, server
<1>2. \A s \in Tabs : page'[s] = "idp" => page[s] = "idp"
  BY <1>1 DEF TypeOK
<1> QED BY <1>1, <1>2 DEF Alone, Redirects, Taken, Idle

LEMMA ArrivesMarks ==
  ASSUME TypeOK, NEW c \in calls, Arrives(c), NEW f \in FlowIds
  PROVE  marks[f] \subseteq marks'[f] /\ marks'[f] \subseteq marks[f] \cup {"crossed"}
<1>1. f \in DOMAIN marks
  BY DEF TypeOK
<1> QED BY <1>1 DEF Arrives, Marks

LEMMA ArrivesAlone ==
  ASSUME TypeOK, CallsOK, FlowsOK, Alone, NEW c \in calls, Arrives(c)
  PROVE  Alone'
<1>1. Landed(c) /\ calls' = calls \ {c} /\ c.front /\ c.tab \in Tabs /\ UNCHANGED <<flow, used>>
  BY ArrivesLanded, Typed DEF Arrives, server
<1>2. \A f \in FlowIds : "repeated" \in marks'[f] <=> "repeated" \in marks[f]
  BY ArrivesMarks
<1>3. \A x \in calls : Redirects(x) \/ x.kind \in Returns => x.flow \in FlowIds
  BY DEF CallsOK, Begun
<1>4. \A f : Taken(f)' <=> Taken(f)
  BY <1>1 DEF Taken
<1>5. \A x \in calls' : x.kind \in Returns /\ "repeated" \notin marks'[x.flow] =>
        x.front /\ (x.stage \in {"sent", "config"} => ~Taken(x.flow)')
  BY <1>1, <1>2, <1>3, <1>4 DEF Alone
<1>6. \A x \in calls' : Redirects(x) => ~Taken(x.flow)' /\ "repeated" \notin marks'[x.flow]
  BY <1>1, <1>2, <1>3, <1>4 DEF Alone
<1>7. ASSUME NEW t \in Tabs, page'[t] = "idp", Idle(t)'
      PROVE  ~Taken(visit'[t]) /\ "repeated" \notin marks'[visit'[t]]
  <2>1. CASE t = c.tab
    <3>1. Redirects(c) /\ visit'[t] = c.flow
      BY <1>1, <1>7, <2>1 DEF Landed
    <3> QED BY <1>2, <1>3, <3>1 DEF Alone
  <2>2. CASE t # c.tab
    <3>1. page[t] = "idp" /\ Idle(t) /\ visit'[t] = visit[t]
      BY <1>1, <1>7, <2>2 DEF Landed, Idle
    <3>2. visit[t] \in FlowIds
      BY <3>1 DEF FlowsOK, Begun
    <3> QED BY <1>2, <3>1, <3>2 DEF Alone
  <2> QED BY <2>1, <2>2
<1>8. \A t \in Tabs : Taken(visit[t])' <=> Taken(visit'[t])
  BY <1>1 DEF Taken
<1> QED BY <1>1, <1>5, <1>6, <1>7, <1>8 DEF Alone, Redirects

LEMMA RestartedAlone ==
  ASSUME TypeOK, CallsOK, FlowsOK, Alone, NEW a, Restarted(a)
  PROVE  Alone'
<1>1. calls' = {a[c] : c \in calls} /\ UNCHANGED <<page, visit, flow>> /\ used' = {}
  BY DEF Restarted
<1>2. ASSUME NEW x \in calls'
      PROVE  /\ x.stage = "answered" /\ (Redirects(x) => x \in calls)
             /\ \E c \in calls : c.kind = x.kind /\ c.flow = x.flow /\ c.tab = x.tab /\ c.front = x.front
  BY <1>1 DEF Restarted, Redirects
<1>3. \A f \in FlowIds : "repeated" \in marks'[f] <=> "repeated" \in marks[f]
  BY DEF Restarted
<1>4. \A x \in calls : Redirects(x) \/ x.kind \in Returns => x.flow \in FlowIds
  BY DEF CallsOK, Begun
<1>5. \A f : flow'[f].redeemed \/ f \in used' => Taken(f)
  BY <1>1 DEF Taken
<1>6. \A x \in calls' : x.kind \in Returns /\ "repeated" \notin marks'[x.flow] => x.front
  BY <1>2, <1>3, <1>4 DEF Alone
<1>7. \A x \in calls' : Redirects(x) => ~Taken(x.flow)' /\ "repeated" \notin marks'[x.flow]
  BY <1>2, <1>3, <1>4, <1>5 DEF Alone, Taken
<1>8. ASSUME NEW t \in Tabs, page[t] = "idp", Idle(t)'
      PROVE  ~Taken(visit[t])' /\ "repeated" \notin marks'[visit[t]]
  <2>1. Idle(t)
    <3> SUFFICES ASSUME NEW c \in calls, c.tab = t
                 PROVE  ~c.front
      BY DEF Idle
    <3>1. a[c] \in calls' /\ a[c].tab = t /\ a[c].front = c.front
      BY <1>1 DEF Restarted
    <3> QED BY <1>8, <3>1 DEF Idle
  <2>2. ~Taken(visit[t]) /\ "repeated" \notin marks[visit[t]] /\ visit[t] \in FlowIds
    BY <1>8, <2>1 DEF Alone, FlowsOK, Begun
  <2> QED BY <1>1, <1>3, <2>2 DEF Taken
<1> QED BY <1>1, <1>2, <1>6, <1>7, <1>8 DEF Alone, Redirects

LEMMA OthersAlone ==
  ASSUME TypeOK, Alone, (\E c \in calls : Vanishes(c)) \/ Discovers \/ Tick \/ UNCHANGED vars
  PROVE  Alone'
<1>1. calls' \subseteq calls /\ UNCHANGED <<page, visit, flow, used, marks>>
  BY OthersTyped DEF browser
<1>2. calls' = calls \/ \E c \in calls : ~c.front /\ calls' = calls \ {c}
  BY DEF Vanishes, Discovers, Tick, vars
<1>3. \A t \in Tabs : Idle(t)' => Idle(t)
  BY <1>2 DEF Idle
<1>4. \A f : (flow'[f].redeemed \/ f \in used') <=> Taken(f)
  BY <1>1 DEF Taken
<1> QED BY <1>1, <1>3, <1>4 DEF Alone, Redirects, Taken

Cookies == CrumbsKept /\ RefusedForCause

\* The cookie of a flow stays where it is, and what is known of the flow with it.
LEMMA CrumbStays ==
  ASSUME SameFlows \/ OldFlows, NEW f \in Begun
  PROVE  CrumbOf(f)' = CrumbOf(f) /\ flow'[f].by = flow[f].by
<1>1. OldFlows
  BY SameIsOld
<1> QED BY <1>1 DEF OldFlows, CrumbOf

\* What a step adds to the marks of a flow is no refusal, or a refusal for a cause.
LEMMA CauseStays ==
  ASSUME TypeOK, RefusedForCause,
         \A f \in Begun : marks[f] \subseteq marks'[f],
         \A f \in Begun' : "refused" \in marks'[f] =>
           \/ f \in Begun /\ "refused" \in marks[f]
           \/ {"late", "crossed", "repeated", "failed"} \cap marks'[f] # {}
  PROVE  RefusedForCause'
  BY DEF RefusedForCause

LEMMA HandledCookies ==
  ASSUME TypeOK, CallsOK, FlowsOK, Cookies, NEW c \in calls, NEW d, Handled(c, d)
  PROVE  Cookies'
<1>1. /\ d.kind = c.kind /\ c.stage # "answered" /\ calls' = (calls \ {c}) \cup {d}
      /\ UNCHANGED <<jar, page, visit>> /\ d.stage # "sent"
  BY DEF Handled, Turned
<1>2. OldFlows
  BY HandledFlows DEF OldFlows
<1>3. \A f \in Begun : marks[f] \subseteq marks'[f] /\ f \in FlowIds
  BY HandledMarks, BegunTyped
<1>4. ASSUME NEW t \in Tabs, page[t] = "idp", flow'[visit[t]].by = "oidc"
      PROVE  jar.crumb = CrumbOf(visit[t])' \/ "crossed" \in marks'[visit[t]]
  <2>1. PICK f \in Begun : f = visit[t]
    BY <1>4 DEF FlowsOK
  <2>2. CrumbOf(f)' = CrumbOf(f) /\ flow[f].by = "oidc"
    BY <1>2, <1>4, <2>1, CrumbStays
  <2>3. jar.crumb = CrumbOf(f) \/ "crossed" \in marks[f]
    BY <1>4, <2>1, <2>2 DEF Cookies, CrumbsKept
  <2>4. CrumbOf(visit[t])' = CrumbOf(f)'
    BY <1>1, <2>1 DEF CrumbOf
  <2> QED BY <1>3, <2>1, <2>2, <2>3, <2>4
<1>5. ASSUME NEW x \in calls, x.kind = "callback", x.stage # "answered"
      PROVE  x.crumb = CrumbOf(x.flow)' \/ "crossed" \in marks'[x.flow]
  <2>1. x.flow \in Begun
    BY <1>5, ReturnsOfBegun DEF Returns
  <2> QED BY <1>2, <1>3, <1>5, <2>1, CrumbStays DEF Cookies, CrumbsKept
<1>6. d.kind = "callback" /\ d.stage # "answered" => d.crumb = c.crumb /\ d.flow = c.flow
  BY <1>1 DEF Handled, Quiet, Begins, Proceeds, Redeemed, Accepts, Refused, Entered, Returns
<1>7. \A x \in calls' : x.kind = "callback" /\ x.stage # "answered" =>
        x.crumb = CrumbOf(x.flow)' \/ "crossed" \in marks'[x.flow]
  BY <1>1, <1>5, <1>6 DEF CrumbOf
<1>8. CrumbsKept'
  BY <1>1, <1>4, <1>7 DEF CrumbsKept, CrumbOf
<1>9. ASSUME NEW f \in Begun', "refused" \in marks'[f]
      PROVE  \/ f \in Begun /\ "refused" \in marks[f]
             \/ {"late", "crossed", "repeated", "failed"} \cap marks'[f] # {}
  <2>1. f \in FlowIds /\ f \in DOMAIN marks
    BY DEF Begun, TypeOK
  <2>2. CASE marks'[f] = marks[f]
    BY <1>9, <2>1, <2>2 DEF FlowsOK
  <2>3. CASE marks'[f] # marks[f]
    <3>1. f = c.flow /\ f \in Begun
      BY <2>1, <2>3, HandledMarks, ReturnsOfBegun
    <3>2. Accepts(c, d) \/ Refused(c, d) \/ Entered(c, d)
      BY <2>3 DEF Handled, Quiet, Begins, Proceeds, Redeemed
    <3>3. CASE Accepts(c, d)
      BY <1>9, <2>1, <3>1, <3>3 DEF Accepts, Marks
    <3>4. CASE Entered(c, d)
      BY <1>9, <2>1, <3>1, <3>4 DEF Entered, Marks
    <3>5. CASE Refused(c, d)
      <4>1. PICK words \in SUBSET {"refused", "late", "failed"} :
              /\ Marks(f, words)
              /\ "refused" \in words =>
                   {"late", "failed"} \cap words # {} \/ {"crossed", "repeated"} \cap marks[f] # {}
        BY <3>1, <3>5 DEF Refused
      <4>2. marks'[f] = marks[f] \cup words
        BY <2>1, <4>1 DEF Marks
      <4> QED BY <1>9, <3>1, <4>1, <4>2
    <3> QED BY <3>2, <3>3, <3>4, <3>5
  <2> QED BY <2>2, <2>3
<1> QED BY <1>3, <1>8, <1>9, CauseStays DEF Cookies

\* A step that leaves the cookies alone, asks for nothing and refuses nobody.
LEMMA CookiesStay ==
  ASSUME TypeOK, CallsOK, FlowsOK, Cookies, SameFlows, jar'.crumb = jar.crumb,
         \A t \in Tabs : page'[t] = "idp" => page[t] = "idp" /\ visit'[t] = visit[t],
         \A f \in FlowIds : marks[f] \subseteq marks'[f]
                            /\ ("refused" \in marks'[f] => "refused" \in marks[f]),
         \A x \in calls' : x.kind = "callback" /\ x.stage # "answered" =>
           \/ x \in calls
           \/ x.flow \in Begun /\ (x.crumb = CrumbOf(x.flow) \/ "crossed" \in marks[x.flow])
  PROVE  Cookies'
<1>1. Begun' = Begun
  BY DEF SameFlows
<1>2. \A f \in Begun : f \in FlowIds /\ CrumbOf(f)' = CrumbOf(f) /\ flow'[f].by = flow[f].by
  BY CrumbStays, BegunTyped
<1>3. ASSUME NEW t \in Tabs, page'[t] = "idp", flow'[visit'[t]].by = "oidc"
      PROVE  jar'.crumb = [flow |-> visit'[t], until |-> flow'[visit'[t]].began + StateTtl]
             \/ "crossed" \in marks'[visit'[t]]
  <2>1. PICK f \in Begun : f = visit[t]
    BY <1>3 DEF FlowsOK
  <2>2. f = visit'[t] /\ page[t] = "idp"
    BY <1>3, <2>1
  <2>3. CrumbOf(f)' = CrumbOf(f) /\ flow[f].by = "oidc" /\ f \in FlowIds
    BY <1>2, <1>3, <2>2
  <2>4. jar.crumb = CrumbOf(f) \/ "crossed" \in marks[f]
    BY <2>1, <2>2, <2>3 DEF Cookies, CrumbsKept
  <2> QED BY <2>2, <2>3, <2>4 DEF CrumbOf
<1>4. ASSUME NEW x \in calls', x.kind = "callback", x.stage # "answered"
      PROVE  x.crumb = CrumbOf(x.flow)' \/ "crossed" \in marks'[x.flow]
  <2>1. x.flow \in Begun /\ (x.crumb = CrumbOf(x.flow) \/ "crossed" \in marks[x.flow])
    <3>1. CASE x \in calls
      BY <1>4, <3>1, ReturnsOfBegun DEF Cookies, CrumbsKept, Returns
    <3> QED BY <1>4, <3>1
  <2> QED BY <1>2, <2>1
<1>5. CrumbsKept'
  BY <1>3, <1>4 DEF CrumbsKept, CrumbOf
<1>6. RefusedForCause'
  BY <1>1, <1>2, CauseStays DEF Cookies
<1> QED BY <1>5, <1>6 DEF Cookies

LEMMA AskedCookies ==
  ASSUME TypeOK, CallsOK, FlowsOK, Cookies, NEW t \in Tabs, NEW d, Asked(t, d)
  PROVE  Cookies'
<1>1. /\ calls' = calls \cup {d} /\ UNCHANGED <<jar, page, visit, marks>> /\ SameFlows
      /\ (d.kind = "callback" => d.crumb = jar.crumb)
      /\ (d.kind \in Returns => d.flow = visit[t] /\ page[t] = "idp" /\ d.flow \in Begun)
  BY AskedFlows DEF Asked, browser
<1>2. d.kind = "callback" =>
        d.flow \in Begun /\ (d.crumb = CrumbOf(d.flow) \/ "crossed" \in marks[d.flow])
  <2>1. d.kind = "callback" => flow[d.flow].by = "oidc"
    BY DEF Asked, Returns
  <2> QED BY <1>1, <2>1 DEF Cookies, CrumbsKept, Returns
<1> QED BY <1>1, <1>2, CookiesStay

LEMMA ResubmittedCookies ==
  ASSUME TypeOK, CallsOK, FlowsOK, Travels, Cookies, NEW c \in calls, NEW d, NEW e,
         Resubmitted(c, d, e)
  PROVE  Cookies'
<1>1. /\ calls' = (calls \ {c}) \cup {d, e} /\ UNCHANGED <<jar, page, visit>> /\ SameFlows
      /\ c.front /\ c.kind \in Returns /\ c.stage # "answered" /\ d.kind = c.kind /\ e.kind = c.kind
      /\ d.flow = c.flow /\ e.flow = c.flow /\ e.crumb = c.crumb
      /\ (d.kind = "callback" => d.crumb = jar.crumb)
  BY ResubmittedTyped DEF Resubmitted
<1>2. c.flow \in Begun /\ flow[c.flow].by = By(c.kind) /\ page[c.tab] = "idp"
      /\ visit[c.tab] = c.flow /\ c.tab \in Tabs
  BY <1>1, Typed, ReturnsOfBegun DEF CallsOK, StandsAt, Returns, Travels
<1>3. c.kind = "callback" => c.crumb = CrumbOf(c.flow) \/ "crossed" \in marks[c.flow]
  BY <1>1 DEF Cookies, CrumbsKept
<1>4. c.kind = "callback" => jar.crumb = CrumbOf(c.flow) \/ "crossed" \in marks[c.flow]
  BY <1>2 DEF Cookies, CrumbsKept, By
<1>5. \A x \in calls' : x.kind = "callback" /\ x.stage # "answered" =>
        \/ x \in calls
        \/ x.flow \in Begun /\ (x.crumb = CrumbOf(x.flow) \/ "crossed" \in marks[x.flow])
  <2>1. d.kind = "callback" => d.crumb = CrumbOf(d.flow) \/ "crossed" \in marks[d.flow]
    BY <1>1, <1>4 DEF CrumbOf
  <2>2. e.kind = "callback" => e.crumb = CrumbOf(e.flow) \/ "crossed" \in marks[e.flow]
    BY <1>1, <1>3 DEF CrumbOf
  <2> QED BY <1>1, <1>2, <2>1, <2>2
<1>6. \A f \in FlowIds : marks[f] \subseteq marks'[f]
                         /\ ("refused" \in marks'[f] => "refused" \in marks[f])
  BY ResubmittedTyped
<1> QED BY <1>1, <1>5, <1>6, CookiesStay

LEMMA ReloadsCookies ==
  ASSUME TypeOK, CallsOK, FlowsOK, Cookies, NEW t \in Tabs, Reloads(t)
  PROVE  Cookies'
<1>1. page' = [page EXCEPT ![t] = "load"] /\ UNCHANGED <<jar, visit, calls, marks>> /\ SameFlows
  BY ReloadsTyped DEF Reloads
<1>2. \A s \in Tabs : page'[s] = "idp" => page[s] = "idp"
  BY <1>1 DEF TypeOK
<1> QED BY <1>1, <1>2, CookiesStay

LEMMA RestartedCookies ==
  ASSUME TypeOK, CallsOK, FlowsOK, Cookies, NEW a, Restarted(a)
  PROVE  Cookies'
<1>1. calls' = {a[c] : c \in calls} /\ UNCHANGED <<jar, page, visit>> /\ SameFlows
  BY RestartedTyped DEF Restarted
<1>2. \A x \in calls' : x.stage = "answered"
  BY <1>1 DEF Restarted
<1>3. \A f \in FlowIds : marks[f] \subseteq marks'[f]
                         /\ ("refused" \in marks'[f] => "refused" \in marks[f])
  BY DEF Restarted
<1> QED BY <1>1, <1>2, <1>3, CookiesStay

LEMMA OthersCookies ==
  ASSUME TypeOK, CallsOK, FlowsOK, Cookies,
         (\E c \in calls : Vanishes(c)) \/ Discovers \/ Tick \/ UNCHANGED vars
  PROVE  Cookies'
<1>1. calls' \subseteq calls /\ UNCHANGED <<jar, page, visit, marks>> /\ SameFlows
  BY OthersTyped DEF browser
<1> QED BY <1>1, CookiesStay

LEMMA ArrivesCookies ==
  ASSUME TypeOK, CallsOK, FlowsOK, Travels, Cookies, NEW c \in calls, Arrives(c)
  PROVE  Cookies'
<1>1. /\ Landed(c) /\ calls' = calls \ {c} /\ c.front /\ c.tab \in Tabs /\ c.stage = "answered"
      /\ flow' = flow /\ SameFlows /\ jar'.crumb = Kept(jar.crumb, c.drops) /\ c \in Calls
  BY ArrivesLanded, ArrivesTyped, Typed DEF Arrives, server
<1>2. \A f \in Begun : f \in FlowIds /\ marks[f] \subseteq marks'[f]
                       /\ marks'[f] \subseteq marks[f] \cup {"crossed"}
  BY ArrivesMarks, BegunTyped
<1>3. \A f : CrumbOf(f)' = CrumbOf(f)
  BY <1>1 DEF CrumbOf
<1>4. OneOK(c)
  BY EachOK
<1>5. ASSUME NEW t \in Tabs, page'[t] = "idp", flow[visit'[t]].by = "oidc"
      PROVE  jar'.crumb = CrumbOf(visit'[t]) \/ "crossed" \in marks'[visit'[t]]
  <2>1. CASE t = c.tab
    <3>1. Redirects(c) /\ visit'[t] = c.flow
      BY <1>1, <1>5, <2>1 DEF Landed
    <3>2. c.kind = "oidc" /\ c.drops \in Crumbs /\ c.drops = CrumbOf(c.flow)
      BY <1>4, <1>5, <3>1 DEF OneOK, ShapeOK, Redirects, By
    <3>3. jar'.crumb = c.drops
      BY <1>1, <3>2, Sentinels DEF Kept, Distinct
    <3> QED BY <3>1, <3>2, <3>3
  <2>2. CASE t # c.tab
    <3>1. page[t] = "idp" /\ visit'[t] = visit[t]
      BY <1>1, <1>5, <2>2 DEF Landed
    <3>2. PICK f \in Begun : f = visit[t]
      BY <3>1 DEF FlowsOK
    <3>3. jar.crumb = CrumbOf(f) \/ "crossed" \in marks[f]
      BY <1>5, <3>1, <3>2 DEF Cookies, CrumbsKept
    <3>4. CASE "crossed" \in marks[f]
      BY <1>2, <3>1, <3>2, <3>4
    <3>5. CASE jar.crumb = CrumbOf(f) /\ jar'.crumb = jar.crumb
      BY <3>1, <3>2, <3>5
    <3>6. CASE jar.crumb = CrumbOf(f) /\ jar'.crumb # jar.crumb
      <4>1. jar.crumb # None /\ jar.crumb.flow = f
        BY <3>6, BegunTyped, Bounds, Sentinels DEF CrumbOf, Crumbs, Distinct
      <4>2. c.drops # Same /\ c.drops # jar.crumb
        BY <1>1, <3>6 DEF Kept
      <4>3. f # c.flow
        <5>1. CASE c.drops = None
          <6>1. c.kind = "callback"
            BY <1>4, <5>1 DEF OneOK, ShapeOK
          <6>2. page[c.tab] = "idp" /\ visit[c.tab] = c.flow
            BY <1>1, <1>4, <6>1 DEF OneOK, StandsAt, Returns, Travels
          <6> QED BY <1>1, <2>2, <3>1, <3>2, <6>2 DEF Travels
        <5>2. CASE c.drops \in Crumbs
          <6>1. Redirects(c)
            BY <1>4, <5>2 DEF OneOK, ShapeOK
          <6> QED BY <3>1, <3>2, <6>1 DEF Travels
        <5> QED BY <4>2, <5>1, <5>2, Typed
      <4>4. Marks(f, {"crossed"})
        BY <4>1, <4>2, <4>3 DEF Arrives
      <4>5. "crossed" \in marks'[f]
        BY <1>2, <4>4 DEF Marks, TypeOK
      <4> QED BY <3>1, <3>2, <4>5
    <3> QED BY <3>3, <3>4, <3>5, <3>6
  <2> QED BY <2>1, <2>2
<1>6. ASSUME NEW x \in calls', x.kind = "callback", x.stage # "answered"
      PROVE  x.crumb = CrumbOf(x.flow) \/ "crossed" \in marks'[x.flow]
  <2>1. x \in calls /\ x.flow \in Begun
    BY <1>1, <1>6, ReturnsOfBegun DEF Returns
  <2> QED BY <1>2, <1>6, <2>1 DEF Cookies, CrumbsKept
<1>7. CrumbsKept'
  BY <1>1, <1>5, <1>6 DEF CrumbsKept, CrumbOf
<1>8. RefusedForCause'
  BY <1>1, <1>2, CauseStays DEF Cookies, SameFlows
<1> QED BY <1>7, <1>8 DEF Cookies

-----------------------------------------------------------------------------
(***************************************************************************)
(* The theorems                                                            *)
(***************************************************************************)
Ind ==
  TypeOK /\ CallsOK /\ FlowsOK /\ Owners /\ OpensOnce /\ Travels /\ Alone /\ Cookies

LEMMA InitInd == Init => Ind
<1> SUFFICES ASSUME Init PROVE Ind
  OBVIOUS
<1> USE DEF Init
<1>1. Begun = {}
  BY DEF Begun
<1>2. TypeOK
  BY <1>1, Bounds DEF TypeOK
<1>3. FlowsOK
  <2>1. Begun = 1 .. Cardinality(Begun)
    BY <1>1, FS_EmptySet
  <2> QED BY <2>1 DEF FlowsOK
<1>4. Owners
  <2>1. \A n \in 1 .. MaxSessions : \A u \in Shown : ~Says(n, u)
    BY Bounds, Sentinels DEF Says, Distinct
  <2> QED BY <2>1 DEF Owners, SessionsAgree, NobodyShown, ActsAsShown
<1>5. CallsOK /\ OpensOnce /\ Travels /\ Alone /\ Cookies
  BY <1>1 DEF CallsOK, OpensOnce, Travels, Alone, Cookies, CrumbsKept, RefusedForCause
<1> QED BY <1>2, <1>3, <1>4, <1>5 DEF Ind

LEMMA NextInd == Ind /\ [Next]_vars => Ind'
<1> SUFFICES ASSUME Ind, [Next]_vars PROVE Ind'
  OBVIOUS
<1> USE DEF Ind
<1>1. CASE \E c \in calls : Serves(c)
  <2>1. PICK c \in calls : Serves(c)
    BY <1>1
  <2>2. PICK d : Handled(c, d)
    BY <2>1, ServedIsHandled DEF Cookies
  <2> QED BY <2>2, HandledTyped, HandledCalls, HandledOwners, HandledOpens, HandledTravels,
             HandledAlone, HandledCookies
<1>2. CASE \E t \in Tabs : Asks(t)
  <2>1. PICK t \in Tabs : Asks(t)
    BY <1>2
  <2>2. PICK d : Asked(t, d)
    BY <2>1, AskIsAsked
  <2> QED BY <2>2, AskedTyped, AskedCalls, AskedOwners, AskedOpens, AskedTravels, AskedAlone,
             AskedCookies
<1>3. CASE \E t \in Tabs : Reloads(t)
  BY <1>3, ReloadsTyped, ReloadsCalls, ReloadsOwners, ReloadsOpens, ReloadsTravels,
     ReloadsAlone, ReloadsCookies
<1>4. CASE \E c \in calls : Resubmits(c)
  <2>1. PICK c \in calls : Resubmits(c)
    BY <1>4
  <2>2. PICK d, e : Resubmitted(c, d, e)
    BY <2>1, ResubmitIsResubmitted
  <2> QED BY <2>2, ResubmittedTyped, ResubmittedCalls, ResubmittedOwners, ResubmittedOpens,
             ResubmittedTravels, ResubmittedAlone, ResubmittedCookies
<1>5. CASE \E c \in calls : Arrives(c)
  BY <1>5, ArrivesTyped, ArrivesCalls, ArrivesOwners, ArrivesOpens, ArrivesTravels,
     ArrivesAlone, ArrivesCookies
<1>6. CASE Restart
  <2>1. PICK a : Restarted(a)
    BY <1>6, RestartIsRestarted
  <2> QED BY <2>1, RestartedTyped, RestartedCalls, RestartedOwners, RestartedOpens,
             RestartedTravels, RestartedAlone, RestartedCookies
<1>7. CASE (\E c \in calls : Vanishes(c)) \/ Discovers \/ Tick \/ UNCHANGED vars
  BY <1>7, OthersTyped, OthersCalls, OthersOwners, OthersOpens, OthersTravels, OthersAlone,
     OthersCookies
<1> QED BY <1>1, <1>2, <1>3, <1>4, <1>5, <1>6, <1>7 DEF Next

LEMMA Invariance == Spec => []Ind
  BY InitInd, NextInd, PTL DEF Spec

\* Whatever the tabs, the service and the identity provider do, the state is well typed: a
\* tab waits for one answer at a time, and the request cache keeps ids of flows only.
THEOREM TypeCorrect == Spec => []TypeOK
  BY Invariance, PTL DEF Ind

\* AdminAuthMiddleware compares the token of the tab with the session of the cookie, and
\* the token is the session's: a write is made as the user that the tab shows, whatever
\* the cookies of other tabs have done to the session since.
THEOREM WritesAsShown == Spec => []ActsAsShown
  BY Invariance, PTL DEF Ind, Owners

\* OidcAuthService and SamlAuthService let an answer of the identity provider in once:
\* a session opened again for it needs a restart, or two submissions that overlap between
\* getAsync and removeAsync.
THEOREM OpenedOnceOnly == Spec => []OpenedOnce
<1>1. Ind => OpenedOnce
  BY DEF Ind, OpensOnce, OpenedOnce, Lapsed
<1> QED BY <1>1, Invariance, PTL

\* A user whom the identity provider confirms and the allowlist lets in is refused only
\* for a cause that happened to the login.
THEOREM RefusalsHaveCause == Spec => []RefusedForCause
  BY Invariance, PTL DEF Ind, Cookies
=============================================================================
