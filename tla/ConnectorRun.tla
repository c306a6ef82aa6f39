----------------------------- MODULE ConnectorRun -----------------------------
(***************************************************************************)
(* Connector.execute for events that reach one target system at the same   *)
(* time: what each connector sends (its Plan), the steps between which     *)
(* others act, the faults of the way there and back, CMDBuild's session    *)
(* cache, PostgreSQL's transactions, the pools closed in `finally`, and    *)
(* the repeats that processRetry and the IDM make of an event that failed. *)
(***************************************************************************)
EXTENDS CmdbuildConnector, ZabbixConnector, PassworkConnector, PostgresRole, MssqlLogin,
        LinuxConnector, ConsultantPlus

CONSTANTS Workers,
          Deployments, \* [target, store, job]: a target system and the events sent to it
          MaxFaults,   \* bound: faults in a behaviour
          None

ASSUME RunAssumption ==
  /\ Deployments \subseteq [target : Targets, store : SUBSET Facts, job : [Workers -> Events]]
  /\ \A d \in Deployments : Whole(d.store)
  /\ MaxFaults \in Nat
  /\ None \notin [add : SUBSET Facts, del : SUBSET Facts]

VARIABLES
  target,
  store,    \* the facts that hold in the target system
  job,      \* per worker: its event
  plan, at, \* per worker: its requests, and the next one
  phase,    \* per worker: "idle", "open", "auth", "login", "send", "closing", "done", "stuck"
  seen,     \* per worker: what its last read of a card or a list returned
  draft,    \* per worker: the changes of its open transaction, or None
  outcome,  \* per worker: "none", "ok", "refused" (success: false), "threw"
  cached,   \* sessionTokens of CmdbuildConnectorService; 0: no entry
  issued,   \* sessions CMDBuild has opened: 1 .. issued
  dead,     \* those it no longer accepts
  token,    \* per worker: the session it sends
  rejected, \* per worker: the session its current request was first refused with, or 0
  faults,   \* faults so far
  fit,      \* history, per worker: the target could do what the run asks when it began
  made,     \* history, per worker: facts its run has changed
  excused,  \* history, per worker: facts others changed since the run began, and those
            \* of a write its connector took for done by mistake (see Supposes)
  hit       \* history, per worker: a fault befell the run

session == <<cached, issued, dead, token, rejected>>
history == <<fit, made, excused, hit>>
vars    == <<target, store, job, plan, at, phase, seen, draft, outcome, session, faults,
             history>>

Drafts == [add : SUBSET Facts, del : SUBSET Facts]

TypeOK ==
  /\ target \in Targets /\ store \subseteq Facts /\ job \in [Workers -> Events]
  /\ plan \in [Workers -> Seq(RequestsOn(Facts))] /\ at \in [Workers -> Nat \ {0}]
  /\ phase \in [Workers -> {"idle", "open", "auth", "login", "send", "closing", "done", "stuck"}]
  /\ seen \in [Workers -> SUBSET Facts] /\ draft \in [Workers -> Drafts \cup {None}]
  /\ outcome \in [Workers -> {"none", "ok", "refused", "threw"}]
  /\ issued \in Nat /\ dead \subseteq 1 .. issued /\ cached \in 0 .. issued
  /\ token \in [Workers -> 0 .. issued] /\ rejected \in [Workers -> 0 .. issued]
  /\ faults \in 0 .. MaxFaults
  /\ fit \in [Workers -> BOOLEAN] /\ hit \in [Workers -> BOOLEAN]
  /\ made \in [Workers -> SUBSET Facts] /\ excused \in [Workers -> SUBSET Facts]

Init ==
  /\ \E d \in Deployments : target = d.target /\ store = d.store /\ job = d.job
  /\ plan = [w \in Workers |-> <<>>] /\ at = [w \in Workers |-> 1]
  /\ phase = [w \in Workers |-> "idle"]
  /\ seen = [w \in Workers |-> {}] /\ draft = [w \in Workers |-> None]
  /\ outcome = [w \in Workers |-> "none"]
  /\ cached = 0 /\ issued = 0 /\ dead = {}
  /\ token = [w \in Workers |-> 0] /\ rejected = [w \in Workers |-> 0]
  /\ faults = 0
  /\ fit = [w \in Workers |-> FALSE] /\ hit = [w \in Workers |-> FALSE]
  /\ made = [w \in Workers |-> {}] /\ excused = [w \in Workers |-> {}]

-----------------------------------------------------------------------------
Plan(t, e) ==
  CASE t.kind = "cmdbuild" -> CmdbuildPlan(t, e)
    [] t.kind = "zabbix"   -> ZabbixPlan(t, e)
    [] t.kind = "passwork" -> PassworkPlan(t, e)
    [] t.kind = "postgres" -> PostgresRolePlan(t, e)
    [] t.kind = "mssql"    -> MssqlLoginPlan(t, e)
    [] t.kind = "ssh"      -> SshPlan(t, e)
    [] t.kind = "agent"    -> AgentPlan(t, e)
    [] OTHER               -> ConsultantPlan(t, e)

(***************************************************************************)
(* What an event asks for, whatever the connector; what the connector of a *)
(* target leaves out of it; and what it requires.                          *)
(***************************************************************************)
Sql(t) == t.kind \in {"postgres", "mssql"}

\* An account is removed where the target has a DELETE or the config allows it, else
\* it is blocked.
Removes(t, e) == e.op = "delete" /\ (t.physical \/ t.kind \in {"zabbix", "passwork", "consultant"})
                                 /\ t.kind # "cmdbuild"
Blocks(t, e)  == e.op = "disable" \/ (e.op = "delete" /\ ~Removes(t, e))
Entry(t, u)   == IF t.kind = "ssh" THEN {Active(u), Valid(u)} ELSE {Active(u)}

Wanted(t, e) ==
  LET u == e.user
      described == {Attrs(u)} \cup On(e) \cup Joined(u, e.rights)
                     \cup IF e.permission = "grant" THEN {Permit(u)} ELSE {}
  IN CASE e.op = "create" -> {Account(u), Password(u)} \cup described
       [] e.op \in {"update", "addAttributes"} -> described
       [] e.op = "enable" -> Entry(t, u)
       [] e.op = "changePassword" -> {Password(u)}
       [] e.op = "addMember"   -> {Right(u, e.group)}
       [] e.op = "groupCreate" -> {Group(e.group)}
       [] OTHER -> {}

Unwanted(t, e) ==
  LET u == e.user
  IN CASE Removes(t, e) -> {Account(u)}
       [] Blocks(t, e) -> Entry(t, u)
       [] e.op \in Describing ->
            Off(e) \cup IF e.permission \in {"revoke", "deny"} THEN {Permit(u)} ELSE {}
       [] e.op = "removeAttributes" -> {Attrs(u)}
       [] e.op = "removeMember" -> {Right(u, e.group)}
       [] e.op = "groupDelete" -> {Open(e.group)}
       [] OTHER -> {}

\* The groups of an event that its connector puts the user in.
Refers(t, e) ==
  CASE t.kind = "ssh" \/ (t.kind \in {"zabbix", "agent"} /\ e.op \in Describing) -> e.rights
    [] Sql(t) \/ (t.kind \in {"cmdbuild", "passwork"} /\ e.op = "create") -> Asked(t, e)
    [] OTHER -> <<>>

\* Known limits: what an event may name and its connector leaves as it is, while it
\* answers success.  PostgreSQL's createRole does not read the flag; an update of
\* CMDBuild and Passwork, and ConsultantPlus, know no groups; only the SQL connectors
\* know permissions, and they no attributes.
Flagged(t, e) == \/ t.kind \in {"mssql", "cmdbuild", "agent"}
                 \/ t.kind = "postgres" /\ e.op # "create"
LeavesOut(t, e) ==
  LET u == e.user
  IN IF e.op \notin Describing THEN {}
     ELSE (IF Flagged(t, e) THEN {} ELSE {Active(u)})
            \cup (IF Sql(t) THEN {Attrs(u)} ELSE {Permit(u)})
            \cup (IF Refers(t, e) = e.rights THEN {} ELSE RightsOf(u))

\* What an event is due after success.
Due(t, e)    == Wanted(t, e) \ LeavesOut(t, e)
Barred(t, e) == Unwanted(t, e) \ LeavesOut(t, e)

\* The operations on one account and its memberships that the connector of t has.
Served(t) ==
  CASE t.kind = "consultant" -> {"create", "update", "delete", "disable", "changePassword"}
    [] t.kind \in {"ssh", "agent"} ->
         {"create", "update", "delete", "disable", "enable", "changePassword"}
    [] t.kind = "passwork" ->
         {"create", "update", "delete", "disable", "enable", "addMember", "removeMember"}
    [] OTHER -> {"create", "update", "delete", "disable", "enable", "changePassword",
                 "addMember", "removeMember"}

\* A well-formed event that the target can carry out as things stand.  `passwd -u` needs
\* a hash, DROP ROLE an account nothing depends on.
Fits(t, e, s) ==
  LET u == e.user
      known  == s \ {Group(Malformed)}
      groups == Required(Refers(t, e)) \cup
                  IF e.op = "create" \/ t.kind = "ssh" THEN Required(t.defaults) ELSE {}
      there == IF t.kind = "mssql" THEN {Account(u), Mapped(u)} ELSE {Account(u)}
      hash  == IF t.kind = "ssh" THEN {Password(u)} ELSE {}
  IN /\ e.op \in Served(t) /\ e.permission # "outside"
     /\ t.kind = "postgres" => e.permission # "deny"
     /\ e.given = IF t.kind = "consultant" THEN "no password" ELSE "all"
     /\ t.kind = "consultant" => t.session /\ u # Operator
     /\ CASE e.op = "create" -> Account(u) \notin s /\ groups \subseteq known
          [] e.op = "delete" -> Account(u) \in s /\ Permit(u) \notin s
          [] e.op = "enable" -> {Account(u)} \cup hash \subseteq s
          [] e.op \in {"addMember", "removeMember"} -> there \cup {Group(e.group)} \subseteq known
          [] OTHER -> there \cup groups \subseteq known

\* Known limit: a group by name that is not among the 500 rows looked through.
Overlooks(t, e) ==
  /\ t.byName /\ e.op = "create"
  /\ \/ t.kind = "cmdbuild" /\ Named(CmdbuildGroups(t, e)) \cap Unlisted # {}
     \/ t.kind = "passwork" /\ Named(PassworkGroups(t, e)) \cap Unlisted # {}

-----------------------------------------------------------------------------
(***************************************************************************)
(* One run of execute                                                      *)
(***************************************************************************)
Request(w) == plan[w][at[w]]
Sending(w) == phase[w] = "send" /\ at[w] \in DOMAIN plan[w]
Pooled     == target.kind \in {"postgres", "mssql"}
Keyed      == target.kind = "cmdbuild" /\ target.session
Fault      == faults < MaxFaults /\ faults' = faults + 1

\* CMDBuild's call asks for the session first; validation comes before the call.
Ready(p, i) ==
  IF Keyed /\ i \in DOMAIN p /\ p[i].kind # "reject" THEN "auth" ELSE "send"

Differs(s, r) == (s \ r) \cup (r \ s)

\* Worker w leaves the target with the facts s.
Changes(w, s) ==
  /\ store' = s
  /\ made' = [made EXCEPT ![w] = @ \cup Differs(store, s)]
  /\ excused' = [v \in Workers |->
                   IF v = w THEN excused[v] ELSE excused[v] \cup Differs(store, s)]
Leaves == UNCHANGED <<store, made, excused>>

\* The first call of an event, and its repeats: by the retry loop and the DLQ after a
\* throw, by an operator or the IDM after a refusal.
Start(w) ==
  /\ phase[w] \in {"idle", "done"} /\ outcome[w] # "ok"
  /\ plan' = [plan EXCEPT ![w] = Plan(target, job[w])]
  /\ at' = [at EXCEPT ![w] = 1]
  /\ phase' = [phase EXCEPT ![w] = IF target.kind = "mssql" THEN "open" ELSE Ready(plan'[w], 1)]
  /\ outcome' = [outcome EXCEPT ![w] = "none"]
  /\ token' = [token EXCEPT ![w] = 0] /\ rejected' = [rejected EXCEPT ![w] = 0]
  /\ seen' = [seen EXCEPT ![w] = {}]
  /\ fit' = [fit EXCEPT ![w] = Fits(target, job[w], store)]
  /\ made' = [made EXCEPT ![w] = {}] /\ excused' = [excused EXCEPT ![w] = {}]
  /\ hit' = [hit EXCEPT ![w] = FALSE]
  /\ UNCHANGED <<target, store, job, draft, cached, issued, dead, faults>>

\* The run ends; a pool is closed first.  A transaction is rolled back.
Ends(w, how) ==
  /\ outcome' = [outcome EXCEPT ![w] = how]
  /\ phase' = [phase EXCEPT ![w] = IF Pooled THEN "closing" ELSE "done"]
  /\ draft' = [draft EXCEPT ![w] = None]
  /\ UNCHANGED <<target, job, plan, at, seen, session, fit>>

\* The next request.
Goes(w, i) ==
  /\ at' = [at EXCEPT ![w] = i]
  /\ phase' = [phase EXCEPT ![w] = Ready(plan[w], i)]
  /\ rejected' = [rejected EXCEPT ![w] = 0]
  /\ UNCHANGED <<target, job, plan, outcome, cached, issued, dead, token, fit>>

Unharmed  == UNCHANGED <<faults, hit>>
Harmed(w) == Fault /\ hit' = [hit EXCEPT ![w] = TRUE]

\* MssqlLoginConnectorService.connect, outside the try of execute.
Connects(w) ==
  /\ phase[w] = "open"
  /\ phase' = [phase EXCEPT ![w] = "send"]
  /\ UNCHANGED <<target, store, job, plan, at, seen, draft, outcome, session, faults, history>>

ConnectFails(w) ==
  /\ phase[w] = "open" /\ Harmed(w)
  /\ phase' = [phase EXCEPT ![w] = "done"] /\ outcome' = [outcome EXCEPT ![w] = "threw"]
  /\ UNCHANGED <<target, store, job, plan, at, seen, draft, session, fit, made, excused>>

\* pool.end() or pool.close() in the finally of execute.
Close(w) ==
  /\ phase[w] = "closing"
  /\ phase' = [phase EXCEPT ![w] = "done"]
  /\ UNCHANGED <<target, store, job, plan, at, seen, draft, outcome, session, faults, history>>

CloseFails(w) ==
  /\ phase[w] = "closing" /\ Harmed(w)
  /\ phase' = [phase EXCEPT ![w] = "done"] /\ outcome' = [outcome EXCEPT ![w] = "threw"]
  /\ UNCHANGED <<target, store, job, plan, at, seen, draft, session, fit, made, excused>>

-----------------------------------------------------------------------------
(***************************************************************************)
(* CMDBuild's session: getSessionId, and the one retry of call             *)
(***************************************************************************)
TakeSession(w) ==
  /\ phase[w] = "auth" /\ cached # 0
  /\ token' = [token EXCEPT ![w] = cached] /\ phase' = [phase EXCEPT ![w] = "send"]
  /\ UNCHANGED <<target, store, job, plan, at, seen, draft, outcome, cached, issued, dead,
                 rejected, faults, history>>

\* POST /sessions; the session exists before its answer is cached.
Login(w) ==
  /\ phase[w] = "auth" /\ cached = 0
  /\ issued' = issued + 1
  /\ token' = [token EXCEPT ![w] = issued + 1] /\ phase' = [phase EXCEPT ![w] = "login"]
  /\ UNCHANGED <<target, store, job, plan, at, seen, draft, outcome, cached, dead, rejected,
                 faults, history>>

LoginAnswered(w) ==
  /\ phase[w] = "login"
  /\ cached' = token[w] /\ phase' = [phase EXCEPT ![w] = "send"]
  /\ UNCHANGED <<target, store, job, plan, at, seen, draft, outcome, issued, dead, token,
                 rejected, faults, history>>

LoginFails(w) ==
  /\ phase[w] = "login" /\ Harmed(w) /\ Ends(w, "refused") /\ Leaves

\* CMDBuild forgets a session.
Expire ==
  /\ Fault
  /\ \E s \in 1 .. issued \ dead : dead' = dead \cup {s}
  /\ UNCHANGED <<target, store, job, plan, at, phase, seen, draft, outcome, cached, issued,
                 token, rejected, history>>

Accepted(w) == ~Keyed \/ token[w] \notin dead \/ Request(w).kind = "reject"
Sent(w)     == Sending(w) /\ Request(w).kind # "reject" /\ Accepted(w)

\* Variant: the rejected session stays in the cache.
RenewKeeping(w) ==
  /\ Sending(w) /\ ~Accepted(w) /\ rejected[w] = 0
  /\ rejected' = [rejected EXCEPT ![w] = token[w]]
  /\ phase' = [phase EXCEPT ![w] = "auth"]
  /\ UNCHANGED <<target, store, job, plan, at, seen, draft, outcome, cached, issued, dead,
                 token, faults, history>>

\* A 401 or 403: the cached session is dropped, whichever it is, and the request is
\* made once more.
Renew(w) ==
  /\ Sending(w) /\ ~Accepted(w) /\ rejected[w] = 0
  /\ cached' = 0
  /\ rejected' = [rejected EXCEPT ![w] = token[w]]
  /\ phase' = [phase EXCEPT ![w] = "auth"]
  /\ UNCHANGED <<target, store, job, plan, at, seen, draft, outcome, issued, dead, token,
                 faults, history>>

\* A 403 of a session that lives, for a right it lacks, is taken for the same.
Forbidden(w) ==
  /\ Sent(w) /\ Keyed /\ rejected[w] = 0 /\ Harmed(w)
  /\ cached' = 0
  /\ rejected' = [rejected EXCEPT ![w] = token[w]]
  /\ phase' = [phase EXCEPT ![w] = "auth"]
  /\ UNCHANGED <<target, store, job, plan, at, seen, draft, outcome, issued, dead, token,
                 fit, made, excused>>

GiveUp(w) ==
  /\ Sending(w) /\ ~Accepted(w) /\ rejected[w] # 0
  /\ hit' = [hit EXCEPT ![w] = TRUE] /\ UNCHANGED faults
  /\ Ends(w, "refused") /\ Leaves

-----------------------------------------------------------------------------
(***************************************************************************)
(* Requests                                                                *)
(***************************************************************************)
View(w) == IF draft[w] = None THEN store ELSE (store \ draft[w].del) \cup draft[w].add

\* PostgreSQL: a statement waits for the open transactions that changed its rows.
Touches(r) == r.add \cup r.del
Waits(w) ==
  \E v \in Workers \ {w} :
    draft[v] # None /\ Touches(Request(w)) \cap Touches(draft[v]) # {}

Ask(w, kind) == Sending(w) /\ Request(w).kind = kind /\ Accepted(w)
Result(w)    == Effect(Request(w), store, IF Request(w).of = {} THEN {} ELSE seen[w])

\* The connector throws, or the target refuses.
Refused(w) ==
  /\ \/ Ask(w, "reject")
     \/ \E kind \in {"read", "write"} :
          Ask(w, kind) /\ ~Waits(w) /\ ~Stands(Request(w), View(w), seen[w])
  /\ Ends(w, "refused") /\ Leaves /\ Unharmed

Reads(w) ==
  /\ Ask(w, "read") /\ Stands(Request(w), View(w), seen[w])
  /\ seen' = [seen EXCEPT ![w] = store \cap Request(w).of]
  /\ Goes(w, at[w] + 1) /\ Leaves /\ Unharmed /\ UNCHANGED draft

Writes(w) ==
  /\ Ask(w, "write") /\ draft[w] = None /\ ~Waits(w)
  /\ Stands(Request(w), store, seen[w])
  /\ Changes(w, Result(w))
  /\ Goes(w, at[w] + 1) /\ Unharmed /\ UNCHANGED <<seen, draft>>

\* withTransaction
Begins(w) ==
  /\ Ask(w, "begin")
  /\ draft' = [draft EXCEPT ![w] = [add |-> {}, del |-> {}]]
  /\ Goes(w, at[w] + 1) /\ Leaves /\ Unharmed /\ UNCHANGED seen

Drafted(w) ==
  /\ Ask(w, "write") /\ draft[w] # None /\ ~Waits(w)
  /\ Stands(Request(w), View(w), seen[w])
  /\ draft' = [draft EXCEPT ![w] =
                 [add |-> (@.add \ Request(w).del) \cup Request(w).add,
                  del |-> (@.del \ Request(w).add) \cup Request(w).del]]
  /\ Goes(w, at[w] + 1) /\ Leaves /\ Unharmed /\ UNCHANGED seen

Commits(w) ==
  /\ Ask(w, "commit") /\ Changes(w, View(w))
  /\ draft' = [draft EXCEPT ![w] = None]
  /\ Goes(w, at[w] + 1) /\ Unharmed /\ UNCHANGED seen

\* statement_timeout, or the victim of a deadlock
WaitTimesOut(w) ==
  /\ Ask(w, "write") /\ Waits(w)
  /\ hit' = [hit EXCEPT ![w] = TRUE] /\ UNCHANGED faults
  /\ Ends(w, "refused") /\ Leaves

\* resolveAuthStatus of ConsultantPlus: "started" means to ask again, at once, until
\* the polls are used up; "successful" and "redirect" end the login.
PollStarted(w) ==
  /\ Ask(w, "poll") /\ Harmed(w) /\ Leaves
  /\ IF at[w] = LastPoll THEN Ends(w, "refused")
     ELSE Goes(w, at[w] + 1) /\ UNCHANGED <<seen, draft>>

PollSettled(w) ==
  /\ Ask(w, "poll") /\ Unharmed /\ Leaves
  /\ \E skipped \in {1, 2} : Goes(w, LastPoll + skipped)
  /\ UNCHANGED <<seen, draft>>

Follows(w) ==
  /\ Ask(w, "follow") /\ Goes(w, at[w] + 1) /\ Unharmed /\ Leaves /\ UNCHANGED <<seen, draft>>

\* All requests were answered.
Succeeds(w) ==
  /\ phase[w] = "send" /\ at[w] \notin DOMAIN plan[w]
  /\ Ends(w, "ok") /\ Leaves /\ Unharmed

-----------------------------------------------------------------------------
(***************************************************************************)
(* Faults                                                                  *)
(***************************************************************************)
\* An error before the request took effect: the connection, a 5xx, the timeout.
LosesRequest(w) == Sent(w) /\ Harmed(w) /\ Ends(w, "refused") /\ Leaves

\* The change is made, and its answer lost.
Lands(w) ==
  /\ Ask(w, "write") /\ draft[w] = None /\ ~Waits(w)
  /\ Stands(Request(w), store, seen[w]) /\ Changes(w, Result(w))

\* An SSH command of two halves that ends after the first.
Halves(w) ==
  /\ target.kind = "ssh" /\ Ask(w, "write") /\ Chained(Request(w))
  /\ Stands(Request(w), store, seen[w])
Half(w) == LET r == Halved(Request(w)) IN (store \ r.del) \cup r.add

\* Passwork's answer to a creation, when it has no id, counts as a lost one.
LosesAnswer(w) ==
  /\ \/ Lands(w)
     \/ Halves(w) /\ Changes(w, Half(w))
     \/ Ask(w, "commit") /\ Changes(w, View(w))
  /\ Harmed(w) /\ Ends(w, "refused")

\* execSshWithInput has no deadline for the command, only for the connection, and the
\* PostgreSQL pool leaves the deadline to the server.  An open transaction is rolled
\* back there.
Hangs(w) ==
  /\ target.kind \in {"ssh", "postgres"} /\ Sent(w) /\ Harmed(w)
  /\ \/ Lands(w) \/ Leaves
     \/ Halves(w) /\ Changes(w, Half(w))
     \/ Ask(w, "commit") /\ Changes(w, View(w))
  /\ phase' = [phase EXCEPT ![w] = "stuck"]
  /\ draft' = [draft EXCEPT ![w] = None]
  /\ UNCHANGED <<target, job, plan, at, seen, outcome, session, fit>>

\* Worker w leaves the target with the facts s, and goes on as if its request were done.
Supposes(w, s) ==
  /\ store' = s
  /\ made' = [made EXCEPT ![w] = @ \cup Differs(store, s)]
  /\ excused' = [v \in Workers |-> excused[v] \cup
                   IF v = w THEN Touches(Request(w)) ELSE Differs(store, s)]
  /\ Goes(w, at[w] + 1) /\ Harmed(w) /\ UNCHANGED <<seen, draft>>

\* `close` without an exit code - the command was killed - resolves like a success.
CutOff(w) ==
  /\ target.kind = "ssh" /\ Ask(w, "write")
  /\ Supposes(w, store) \/ (Halves(w) /\ Supposes(w, Half(w)))

\* ConsultantPlus: a page with status 2xx and no error marker is a success, whatever
\* it says.
Misreads(w) == target.kind = "consultant" /\ Ask(w, "write") /\ Supposes(w, store)

-----------------------------------------------------------------------------
Step(w) ==
  \/ Connects(w) \/ Close(w) \/ TakeSession(w) \/ Login(w) \/ LoginAnswered(w)
  \/ Renew(w) \/ GiveUp(w)
  \/ Refused(w) \/ Reads(w) \/ Writes(w) \/ Begins(w) \/ Drafted(w) \/ Commits(w)
  \/ WaitTimesOut(w) \/ PollSettled(w) \/ Follows(w) \/ Succeeds(w)

Fails(w) ==
  \/ ConnectFails(w) \/ CloseFails(w) \/ LoginFails(w) \/ PollStarted(w)
  \/ LosesRequest(w) \/ LosesAnswer(w) \/ Hangs(w) \/ CutOff(w) \/ Misreads(w) \/ Forbidden(w)

Next == Expire \/ \E w \in Workers : Start(w) \/ Step(w) \/ Fails(w)

Spec == Init /\ [][Next]_vars

\* An answer comes or the request times out, unless it Hangs.  The code itself repeats
\* only what threw: that an event answered success: false is sent again is what is
\* assumed of the IDM or the operator.
FairSpec == Spec /\ \A w \in Workers : WF_vars(Start(w)) /\ WF_vars(Step(w))

-----------------------------------------------------------------------------
(***************************************************************************)
(* Properties                                                              *)
(***************************************************************************)
\* execute answers success only when what the event asks for holds in the target,
\* except for the parts its connector leaves out (LeavesOut names them), for what
\* others changed meanwhile, and for a write its connector took for done by mistake: an
\* SSH command that was killed, a page of ConsultantPlus without an error marker.
OkMeansDone ==
  \A w \in Workers : phase[w] = "done" /\ outcome[w] = "ok" =>
    /\ Due(target, job[w]) \ excused[w] \subseteq store
    /\ (Barred(target, job[w]) \ excused[w]) \cap store = {}

\* A run changes the facts its event names and no others, but for those that somebody
\* changed since it began: the CMDBuild card and the Zabbix member list are written
\* back as they were read, and undo such a change.  The protected operator of
\* ConsultantPlus is nobody's to change.
OnlyAsked == \A w \in Workers : made[w] \subseteq Names(target, job[w]) \cup excused[w]

\* The operations that change their target in several steps, or by a command of two.
Piecewise(t, e) ==
  \/ t.kind = "mssql" /\ e.op \in {"create", "update", "delete"}
  \/ t.kind = "passwork" /\ e.op = "create"
  \/ t.kind = "ssh" /\ e.op \in {"create", "enable", "disable", "delete"}

\* Every other operation happens as a whole or not at all, whatever is refused, lost
\* or repeated.
AllOrNothing ==
  \A w \in Workers : ~Piecewise(target, job[w]) /\ phase[w] = "done" /\ made[w] # {} =>
    /\ Due(target, job[w]) \ excused[w] \subseteq store
    /\ (Barred(target, job[w]) \ excused[w]) \cap store = {}

\* A run that nothing befell and nobody crossed is refused only when the event was not
\* one the target could carry out when the run began - the connector sends its requests
\* in an order the target accepts - or names a group its lookup overlooks.
RefusedForCause ==
  \A w \in Workers : phase[w] = "done" /\ outcome[w] = "refused" =>
    ~fit[w] \/ hit[w] \/ excused[w] # {} \/ Overlooks(target, job[w])

\* CMDBuild: a request refused for its session is repeated with another one, whatever
\* the other workers do to the cache.
SessionRenewed ==
  \A w \in Workers : phase[w] = "send" /\ rejected[w] # 0 => token[w] # rejected[w]

\* An event that names no new account is answered with success in the end, when it is
\* repeated while the target can carry it out - or its SSH command or its statement
\* hangs, and is never repeated.  A creation whose answer was lost is refused when it is
\* repeated, and a removal is no longer one the target can carry out.
Settles ==
  \A w \in Workers : job[w].op # "create" =>
    []<>(outcome[w] = "ok" \/ phase[w] = "stuck" \/ ~Fits(target, job[w], store))
=============================================================================
