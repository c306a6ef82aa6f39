------------------------------ MODULE LiveScript ------------------------------
(***************************************************************************)
(* scripts/consultant-browser.mjs: one run of the script that works on a   *)
(* real ConsultantPlus tenant - the login, the single operations, the      *)
(* cycle of two users, and the bulk creation with its cleanup - while the  *)
(* tenant's own administrators go on, and requests fail, break the script  *)
(* or never return.                                                        *)
(***************************************************************************)
EXTENDS Integers, Sequences, FiniteSets

CONSTANTS
  BulkLogins,    \* generatedBulkTarget: as many as CONSULTANT_BULK_USER_COUNT
  DeleteLogin, KeepLogin,       \* generatedCycleTarget
  Neighbour,     \* an account of the tenant that is none of the script's
  Operator,      \* CONSULTANT_PROTECTED_OPERATOR_LOGIN
  PageSize,      \* CONSULTANT_BULK_PAGE_SIZE
  MaxFurther,    \* bound: accounts of the tenant that are not modelled one by one
  Tenants,       \* the tenants to start from
  MaxMishaps, MaxEdits,          \* bounds
  Nil

Count   == Len(BulkLogins)
Bulk    == {BulkLogins[i] : i \in 1 .. Count}
Logins  == Bulk \cup {DeleteLogin, KeepLogin, Neighbour, Operator}

Singles == {"create", "update", "password", "block", "delete"}   \* live-create and so on
Modes   == {"discover", "cycle", "bulk"} \cup Singles

\* The environment: whether the origins, the credentials and the mode pass the
\* checks made before anything else; a single operation's target, and the account
\* that its payload and its endpoint name, which are settings of their own;
\* whether its endpoint is given; the operations whose endpoint has a host or a
\* placeholder that throws, or whose payload has password fields;
\* CONSULTANT_ALLOW_ANY_DELETE.
Envs == [mode : Modes, configured : BOOLEAN, target : Logins, named : Logins,
         given : BOOLEAN, broken : SUBSET Singles, anyDelete : BOOLEAN]

Accounts   == [fio : {"given", "updated"}, blocked : BOOLEAN]
TenantRows == [users : [Logins -> Accounts \cup {Nil}], further : 0 .. MaxFurther, allowed : Nat]

ASSUME ScriptAssumption ==
  /\ BulkLogins \in Seq(Logins) /\ Cardinality(Bulk) = Count /\ Count > 0
  /\ Cardinality({DeleteLogin, KeepLogin, Neighbour, Operator} \cup Bulk) = Count + 4
  /\ {PageSize, MaxFurther, MaxMishaps, MaxEdits} \subseteq Nat /\ PageSize > 0
  /\ Tenants \subseteq TenantRows
  /\ Nil \notin Accounts \cup Logins /\ Nil \notin 0 .. 2

\* One request of the script: its operation, its account, the name it gives the
\* account, and how the step that sends it reads the user list afterwards.
Step(op, login, fio, check) == [op |-> op, login |-> login, fio |-> fio, check |-> check]
NoStep == Step("none", Operator, "given", "none")

VARIABLES
  env,
  tenant,
  at,       \* where the script stands; "stuck": at an answer that never comes
  auth,     \* report.auth: its success, and whether it has an error
  stage,    \* cycle: the name of the step; otherwise "none"
  step,     \* the request of the step under way
  good,     \* every step so far succeeded
  thrown,   \* bulk: an exception is on its way out through the finally block
  created,  \* bulk: createdTargets
  paged,    \* bulk: paginationVerified, or page one's part in it
  code,     \* Nil, or what the process exits with: 0, 1, 2
  mishaps, edits,
  before,   \* history: the tenant when the run began
  hit       \* history: what befell the run, of Hits

scriptVars == <<env, tenant, at, auth, stage, step, good, thrown, created, paged, code, mishaps, edits,
          before, hit>>
script == <<env, auth, before>>

Hits == {"auth", "fault", "garbled", "misread", "edit"}

ScriptTypeOK ==
  /\ env \in Envs /\ tenant \in TenantRows /\ before \in Tenants
  /\ at \in {"login", "begin", "gate", "send", "check", "page1", "page2", "clean", "exit", "stuck"}
  /\ auth \in [success : BOOLEAN, error : BOOLEAN]
  /\ stage \in {"none", "create", "update", "password", "block", "delete", "keep", "keepPassword",
               "keepCleanup"}
  /\ step \in [op : Singles \cup {"none"}, login : Logins, fio : {"given", "updated"},
               check : {"none", "present", "absent"}]
  /\ {good, thrown, paged} \subseteq BOOLEAN /\ hit \subseteq Hits
  /\ created \in Seq(Bulk)
  /\ code \in {Nil, 0, 1, 2}
  /\ mishaps \in 0 .. MaxMishaps /\ edits \in 0 .. MaxEdits

-----------------------------------------------------------------------------
(***************************************************************************)
(* The tenant (external): op=admadd, admupd, admdismiss, admdel and        *)
(* admusrlist of /cloud/cgi/online.cgi.                                    *)
(***************************************************************************)
There(t)    == {l \in Logins : t.users[l] # Nil}
existing(t) == Cardinality(There(t)) + t.further

\* What the tenant takes: a new login while the licence has room, and the rest
\* for a login it has.
Takes(t, s) == IF s.op = "create" THEN s.login \notin There(t) /\ existing(t) < t.allowed
                                  ELSE s.login \in There(t)

Applied(t, s) ==
  [t EXCEPT !.users[s.login] =
     CASE s.op = "create" -> [fio |-> s.fio, blocked |-> FALSE]
       [] s.op \in {"update", "password"} -> [@ EXCEPT !.fio = s.fio]
       [] s.op = "block"  -> [@ EXCEPT !.blocked = TRUE]
       [] s.op = "delete" -> Nil]

Others ==   \* the tenant's administrators add and remove accounts of their own
  /\ edits < MaxEdits /\ at # "exit"
  /\ \E n \in {tenant.further - 1, tenant.further + 1} :
       /\ n \in 0 .. MaxFurther
       /\ existing([tenant EXCEPT !.further = n]) <= tenant.allowed
       /\ tenant' = [tenant EXCEPT !.further = n]
  /\ edits' = edits + 1 /\ hit' = hit \cup {"edit"}
  /\ UNCHANGED <<script, at, stage, step, good, thrown, created, paged, code, mishaps>>

-----------------------------------------------------------------------------
(***************************************************************************)
(* Login and the choice of the mode.                                       *)
(***************************************************************************)
\* The operations whose endpoint a mode reads: the cycle and the bulk creation
\* take cloudEndpoints, which are the settings of the single operations or the
\* cloud's own.
Uses(mode) == CASE mode = "cycle" -> Singles
                [] mode = "bulk"  -> {"create", "delete"}
                [] OTHER          -> Singles \cap {mode}

\* The settings that a mode does not read are fixed.
ReadBy(mode) == [mode : {mode}, configured : BOOLEAN,
                 target    : IF mode \in Singles THEN Logins ELSE {Operator},
                 named     : IF mode \in Singles THEN Logins ELSE {Operator},
                 given     : IF mode \in Singles THEN BOOLEAN ELSE {TRUE},
                 broken    : SUBSET Uses(mode),
                 anyDelete : IF mode = "delete" THEN BOOLEAN ELSE {FALSE}]

ScriptInit ==
  /\ env \in UNION {ReadBy(mode) : mode \in Modes} /\ tenant \in Tenants /\ before = tenant
  /\ at = "login" /\ auth = [success |-> FALSE, error |-> FALSE]
  /\ stage = "none" /\ step = NoStep
  /\ good = TRUE /\ thrown = FALSE /\ created = <<>> /\ paged = FALSE
  /\ code = Nil /\ mishaps = 0 /\ edits = 0 /\ hit = {}

\* What the browser shows after the login form is sent: a wrong password, an
\* agreement to sign, a captcha, an address outside the base URL, a failing
\* cloud, a session that is still a guest's, an authorization begun; and an
\* exception before or after they are classified.
Signs == [wrong : BOOLEAN, agreement : BOOLEAN, captcha : BOOLEAN, left : BOOLEAN,
          cloudFailed : BOOLEAN, guest : BOOLEAN, started : BOOLEAN]

classifyAuth(s) ==
  CASE s.wrong       -> "fault"
    [] ~s.wrong /\ (s.agreement \/ s.captcha) -> "blocked"
    [] ~(s.wrong \/ s.agreement \/ s.captcha) /\ s.left ->
         IF s.cloudFailed THEN "blocked" ELSE "authenticated"
    [] OTHER -> IF s.guest THEN "guest" ELSE IF s.started THEN "timeout" ELSE "unknown"

\* loginAndCollect: an exception leaves an error in report.auth, and after the
\* classification it leaves the success there as well.
LogsIn(broke, signs) ==
  LET entered == broke # "early" /\ classifyAuth(signs) = "authenticated"
      error   == broke # "no" \/ ~entered
  IN  /\ auth' = [success |-> entered, error |-> error]
      /\ hit' = IF error THEN hit \cup {"auth"} ELSE hit

Mishap(kind) == mishaps < MaxMishaps /\ mishaps' = mishaps + 1 /\ hit' = hit \cup kind
Calm         == UNCHANGED <<mishaps, hit>>

ExitWith(c) == at' = "exit" /\ code' = c /\ stage' = "none" /\ step' = NoStep

\* The end of main: 2 unless the login and the mode's report are free of error.
Ends(success) == ExitWith(IF success /\ ~auth.error THEN 0 ELSE 2)

Login ==
  /\ at = "login"
  /\ \/ /\ env.configured
        /\ \E broke \in {"no", "early", "late"}, signs \in Signs : LogsIn(broke, signs)
        /\ at' = "begin"
        /\ UNCHANGED <<stage, step, code, mishaps>>
     \/ \* the checks fail, or the browser does not start
        /\ ExitWith(1) /\ UNCHANGED auth
        /\ IF env.configured THEN Mishap({"fault"}) ELSE Calm
  /\ UNCHANGED <<env, before, tenant, good, thrown, created, paged, edits>>

\* writeReport in main's finally block throws, whatever the report says.
ReportThrows ==
  /\ at = "exit" /\ code \in {0, 2}
  /\ code' = 1 /\ Mishap({"fault"})
  /\ UNCHANGED <<script, tenant, at, stage, step, good, thrown, created, paged, edits>>

\* assertDeleteAllowed
DeleteAllowed(login, expected) == login = expected \/ env.anyDelete

\* assertTargetNotProtected, which throws
Protected(login) == login = Operator

Sends(s, name) == at' = "send" /\ step' = s /\ stage' = name /\ UNCHANGED code

\* liveDelete asks first whether the target may be deleted.
Deletes == env.mode = "delete" => DeleteAllowed(env.target, DeleteLogin)

\* liveCreate, liveBlock, liveUpdate, liveChangePassword, and the rest of liveDelete:
\* the target is checked, the account the payload names is changed.
Single ==
  IF env.given /\ Deletes
    THEN IF Protected(env.target) \/ env.mode \in env.broken
           THEN ExitWith(1)
           ELSE Sends(Step(env.mode, env.named, "given", "none"), "none")
    ELSE Ends(FALSE)

\* liveCycle: the delete-user goes through everything, the keep-user stays.
CycleSteps ==
  [create   |-> Step("create",   DeleteLogin, "given",   "present"),
   update   |-> Step("update",   DeleteLogin, "updated", "present"),
   password |-> Step("password", DeleteLogin, "updated", "none"),
   block    |-> Step("block",    DeleteLogin, "updated", "none"),
   delete   |-> Step("delete",   DeleteLogin, "given",   "absent"),
   keep     |-> Step("create",   KeepLogin,   "given",   "present"),
   keepPassword |-> Step("password", KeepLogin, "given", "present"),
   keepCleanup  |-> Step("delete",   KeepLogin, "given", "absent")]

CycleNext(name, ok) ==
  CASE name = "create"   -> IF ok THEN "update" ELSE "keep"
    [] name = "update"   -> "password"
    [] name = "password" -> "block"
    [] name = "block"    -> "delete"
    [] name = "delete"   -> "keep"
    [] name = "keep"     -> IF ok THEN "keepPassword" ELSE "none"
    [] name = "keepPassword" -> IF ok THEN "none" ELSE "keepCleanup"
    [] OTHER -> "none"

Begin ==
  /\ at = "begin"
  /\ IF ~auth.success \/ env.mode = "discover" THEN Ends(auth.success)
     ELSE CASE env.mode = "cycle" -> Sends(CycleSteps.create, "create")
            [] env.mode = "bulk"  -> at' = "gate" /\ UNCHANGED <<stage, step, code>>
            [] OTHER              -> Single
  /\ UNCHANGED <<script, tenant, good, thrown, created, paged, mishaps, edits, hit>>

-----------------------------------------------------------------------------
(***************************************************************************)
(* One step: fetchLiveOperation, and the user list read to verify it.      *)
(***************************************************************************)
BulkStep(n)  == Step("create", BulkLogins[n], "given", "present")
Cleanup(c)   == Step("delete", c[Len(c)], "given", "absent")

\* Variant: the cleanup's outcomes do not count.
CleansLightly(c, ok) ==
  IF c # <<>> THEN at' = "clean" /\ step' = Cleanup(c) /\ UNCHANGED <<stage, code>>
              ELSE IF thrown' THEN ExitWith(1) ELSE Ends(paged')

\* The finally block of liveBulkPagination: createdTargets in reverse, then the
\* exception on its way, or the report.
Cleans(c, ok) ==
  IF c # <<>> THEN at' = "clean" /\ step' = Cleanup(c) /\ UNCHANGED <<stage, code>>
              ELSE IF thrown' THEN ExitWith(1) ELSE Ends(ok /\ paged')

\* Variant: a target is remembered before its creation is known to be good.
RememberedAtOnce(ok) == Append(created, step.login)

\* createdTargets after a step of the bulk creation.
Remembered(ok) == IF ok THEN Append(created, step.login) ELSE created

StepDone(ok) ==
  /\ good' = (good /\ ok)
  /\ UNCHANGED <<thrown, paged>>
  /\ CASE env.mode \in Singles -> Ends(ok) /\ UNCHANGED created
       [] env.mode = "cycle" ->
            /\ LET next == CycleNext(stage, ok)
               IN  IF next = "none" THEN Ends(good') ELSE Sends(CycleSteps[next], next)
            /\ UNCHANGED created
       [] env.mode = "bulk" /\ step.op = "create" ->
            /\ created' = Remembered(ok)
            /\ IF ~ok THEN Cleans(created', good')
               ELSE IF Len(created') < Count THEN Sends(BulkStep(Len(created') + 1), "none")
               ELSE at' = "page1" /\ step' = NoStep /\ UNCHANGED <<stage, code>>
       [] env.mode = "bulk" /\ step.op = "delete" ->
            /\ created' = SubSeq(created, 1, Len(created) - 1)
            /\ Cleans(created', good')

\* An exception ends the run, in the bulk creation after the cleanup that
\* follows it; one in the cleanup ends that too.
Throws ==
  /\ UNCHANGED <<good, created, paged>>
  /\ IF env.mode = "bulk" /\ step.op # "delete"
       THEN thrown' = TRUE /\ Cleans(created, FALSE)
       ELSE UNCHANGED thrown /\ ExitWith(1)

\* fetchLiveOperation: the request, its effect, and what comes of the answer.
Answered(ok) ==
  IF ok /\ step.check # "none"
    THEN at' = "check" /\ UNCHANGED <<stage, step, code, good, thrown, created, paged>>
    ELSE StepDone(ok)

Request ==
  /\ at \in {"send", "clean"}
  /\ \/ /\ step.op \in env.broken   \* before it is sent
        /\ Throws /\ Calm /\ UNCHANGED tenant
     \/ /\ step.op \notin env.broken
        /\ tenant' = IF Takes(tenant, step) THEN Applied(tenant, step) ELSE tenant
        /\ Answered(Takes(tenant, step))
        /\ Calm
     \/ \* the answer is not what the tenant did: lost, late, or a page without a
        \* mark of an error, which is read as success also for a request that the
        \* tenant has refused
        /\ step.op \notin env.broken
        /\ \E done \in {TRUE, FALSE}, answer \in {"ok", "failed", "threw", "never"} :
             /\ IF answer = "ok" /\ ~Takes(tenant, step)
                  THEN Mishap({"fault", "misread"}) ELSE Mishap({"fault"})
             /\ tenant' = IF done /\ Takes(tenant, step) THEN Applied(tenant, step) ELSE tenant
             /\ CASE answer = "ok"     -> Answered(TRUE)
                  [] answer = "failed" -> Answered(FALSE)
                  [] answer = "threw"  -> Throws
                  [] answer = "never"  ->    \* $.ajax has no timeout
                       at' = "stuck" /\ UNCHANGED <<stage, step, code, good, thrown, created, paged>>
  /\ UNCHANGED <<script, edits>>

\* fetchAdminUserList: the list, a refusal, an exception, or a page that is none.
Lists == {"list", "failed", "garbled"}
ListRead(answer) ==
  IF answer = "list" THEN Calm
  ELSE Mishap(IF answer = "garbled" THEN {"fault", "garbled"} ELSE {"fault"})

\* verifyUserPresent and verifyUserAbsent
Verified(answer) ==
  /\ answer # "failed"
  /\ LET found == answer = "list" /\ step.login \in There(tenant)
     IN  IF step.check = "present" THEN found /\ tenant.users[step.login].fio = step.fio
                                   ELSE ~found

Verify ==
  /\ at = "check"
  /\ \/ \E answer \in Lists : ListRead(answer) /\ StepDone(Verified(answer))
     \/ Mishap({"fault"}) /\ Throws
  /\ UNCHANGED <<script, tenant, edits>>

-----------------------------------------------------------------------------
(***************************************************************************)
(* liveBulkPagination: the capacity gate and the two pages.                *)
(***************************************************************************)
\* Variant: one slot more must be free than is asked for.
HasSpareRoom(t) ==
  /\ t.allowed > PageSize
  /\ t.allowed - existing(t) > Count
  /\ existing(t) + Count > PageSize

HasRoom(t) ==
  /\ t.allowed > PageSize
  /\ t.allowed - existing(t) >= Count
  /\ existing(t) + Count > PageSize

Gate ==
  /\ at = "gate"
  /\ \/ \E answer \in Lists :
          /\ ListRead(answer)
          /\ IF answer = "list" /\ HasRoom(tenant) THEN Sends(BulkStep(1), "none") ELSE Ends(FALSE)
     \/ Mishap({"fault"}) /\ ExitWith(1)
  /\ UNCHANGED <<script, tenant, good, thrown, created, paged, edits>>

\* The list has a second page when it is longer than one; the first page is then
\* full and begins at one.
Long(answer) == answer = "list" /\ existing(tenant) > PageSize

PageOne ==
  /\ at = "page1"
  /\ \/ \E answer \in Lists :
          /\ ListRead(answer)
          /\ paged' = Long(answer) /\ at' = "page2"
          /\ UNCHANGED <<stage, step, code, good, thrown, created>>
     \/ Mishap({"fault"}) /\ Throws
  /\ UNCHANGED <<script, tenant, edits>>

PageTwo ==
  /\ at = "page2"
  /\ \/ \E answer \in Lists :
          /\ ListRead(answer)
          /\ paged' = (paged /\ Long(answer))
          /\ UNCHANGED <<good, thrown, created>>
          /\ Cleans(created, good)
     \/ Mishap({"fault"}) /\ Throws
  /\ UNCHANGED <<script, tenant, edits>>

ScriptNext == \/ Login \/ Begin \/ Request \/ Verify \/ Gate \/ PageOne \/ PageTwo
              \/ ReportThrows \/ Others

ScriptSpec == ScriptInit /\ [][ScriptNext]_scriptVars

-----------------------------------------------------------------------------
(***************************************************************************)
(* What the operator who reads the exit code counts on.                    *)
(***************************************************************************)

\* When the script exits with 0 after a bulk creation or a cycle, the tenant has
\* none of the bulk users and no delete-user, and the keep-user is there as it was
\* created, unless the list read to verify was a page that is no list at all:
\* verifyUserAbsent takes that for an account that is gone (main's exit code,
\* liveBulkPagination's finally block, liveCycle's steps).  Where a refused
\* creation was read as success, the keep-user may be a leftover that is blocked.
ExitZeroMeansClean ==
  code = 0 /\ "garbled" \notin hit =>
    /\ env.mode = "bulk"  => There(tenant) \cap Bulk = {}
    /\ env.mode = "cycle" =>
         /\ DeleteLogin \notin There(tenant)
         /\ "misread" \notin hit => tenant.users[KeepLogin] = [fio |-> "given", blocked |-> FALSE]

\* The logins a run generates (generatedBulkTarget, generatedCycleTarget).
Generates(l) == \/ env.mode = "bulk" /\ l \in Bulk
                \/ env.mode = "cycle" /\ l \in {DeleteLogin, KeepLogin}

\* What a single operation may work on: the account its payload names.  The checks
\* are made on the target, so they hold for that account where the two are one:
\* it is not the protected operator, and live-delete keeps to the delete-user of
\* its slug (assertTargetNotProtected, assertDeleteAllowed).
Commanded(l) ==
  /\ env.mode \in Singles /\ l = env.named
  /\ env.named = env.target =>
       /\ l # Operator
       /\ env.mode = "delete" => l = DeleteLogin \/ env.anyDelete

\* However a run goes, an account that the tenant had before it, and that is not
\* what a single operation was told to work on, stays as it was.  A login the
\* script generates again (CONSULTANT_RUN_SLUG) and the tenant has already is not
\* cleaned up as if it were the run's own (createdTargets), unless the refusal to
\* create it was a page without a mark of an error: fetchLiveOperation reads that
\* as success, the account is found in the list, remembered, and deleted.
SparesOthers ==
  \A l \in There(before) :
    \/ tenant.users[l] = before.users[l]
    \/ Commanded(l)
    \/ "misread" \in hit /\ Generates(l)

\* What is asked for can be done from the tenant the run began with.
Possible ==
  /\ env.configured /\ env.broken = {}
  /\ env.mode \in Singles =>
       /\ env.given /\ env.target # Operator
       /\ Takes(before, Step(env.mode, env.named, "given", "none"))
       /\ env.mode = "delete" => env.target = DeleteLogin \/ env.anyDelete
  /\ env.mode = "cycle" => /\ {DeleteLogin, KeepLogin} \cap There(before) = {}
                           /\ existing(before) < before.allowed
  /\ env.mode = "bulk"  => /\ Bulk \cap There(before) = {}
                           /\ existing(before) + Count \in PageSize + 1 .. before.allowed

\* The script exits with 1 or 2 for a cause: the browser, the login, a request, a
\* reading or the report failed, another administrator was at work, or the
\* environment and the tenant never allowed what was asked (the capacity gate, the
\* steps' order).
FailsForCause == code \in {1, 2} => hit # {} \/ ~Possible

=============================================================================
