# idmMw: a formal model

TLA+ models, TLC checks and TLAPS proofs of idmMw, the middleware between Avanpost IDM and its target
systems. Every definition is translated from the TypeScript under `src/src/`; `PROJECT.json` maps each one
to its lines.

idmMw receives an event over HTTP, deduplicates it by an idempotency key, executes it against a connector
with retries, and keeps the failed ones in a dead-letter queue (DLQ) from which an operator retries them,
directly or through Kafka. A connector turns an event into the requests, statements or commands of its
target system. Administrators sign in to a UI and edit target systems, rights and the inventory of Linux
hosts. What is hard here is not any one of these steps but their combination: every `await` is a place
where another request, another node, a crash or a failed write may come in between.

## 1. Inventory

| Component | State | Operations | Correct when | Module |
| --- | --- | --- | --- | --- |
| `WebhookService`, `IdempotencyService` (Redis or PostgreSQL store) | the held keys | `processWebhook`, `checkAndLock`, `release` | a delivery is dispatched once; an event told to be done is done, queued or dead-lettered | `EventPipeline` |
| `DispatcherService`, `ProcessingService` | none of their own; they decide about key, DLQ and status messages | `dispatch`, `process`, `processRetry`, `processWithResult` | every failure ends in either a release or a durable acceptance, never both or none | `EventPipeline`, `DlqLease` |
| `RetryService`, `RetryPolicyService` | the loop's counter; the policy in the target system's row | `execute`, `forTarget` | calls and waits follow the policy that was read | `RetryLoop` |
| `DlqService`, `AdminService` | `DlqItem` rows: status, `lockedAt`, `lockedBy` | `add`, `retry` (claim), `skip`, `resolve`, `markRetryFailed`; `retry`, `retryMany` | one attempt per row; resolved means applied; nothing stranded | `DlqLease` |
| `KafkaConsumerService`, `KafkaProducerService` | topics `idm.events.in`, `idm.dlq.retry`, `idm.events.out` | `eachMessage`, `send` | redelivery and lost sends do not corrupt the above | `EventPipeline`, `DlqLease` |
| `ConnectorRegistry`, `TargetSystemController` | the connector map, `reloadInFlight`, `lastRegistryVersion` | `reload`, `reloadIfChanged`, CRUD | the map follows the table and never goes back | `ConnectorRegistry` |
| `EncryptionService`, `EncryptionRotationService`, `PrismaService` | `EncryptionState`, the key id of every row | `rotateToActiveKey`, start-up check | every row stays readable under the runtime keyring | `KeyRotation` |
| CMDBuild, Zabbix, Passwork, PostgreSQL role, MSSQL login, Linux, ConsultantPlus connectors | CMDBuild's `sessionTokens`; a pool or a transaction per event | `execute` | success means done; nothing else changes; what failed may be repeated | `TargetRequests`, one module each, `ConnectorRun` |
| `LinuxFleetController`, `LinuxFleetService`, the fleet of the Linux connector | hosts, profiles, groups, memberships | CRUD, `setGroupHosts`, `executeFleetUserOperation` | checks still hold after the write; partial failures are reported; a repetition converges | `LinuxFleet`, `FleetRun` |
| `AdminRbacService` | roles, permissions, group mappings | `effectivePermissions`, CRUD | write implies read; a disabled role grants nothing; a decision is that of some moment | `AdminRbac`, `FleetRun` |
| `AuthController`, `AuthService`, `OidcAuthService`, `SamlAuthService`, `AdminAuthMiddleware`, the UI's login screen | cookies, the OIDC configuration, used SAML requests, CSRF tokens | login, callback, ACS, session, logout, check | one answer opens one session; a write is done as the user the page shows | `SignIn` |
| `scripts/consultant-browser.mjs` | its report, the accounts it has created | eight live modes, verification, cleanup, exit code | exit 0 means a clean tenant; nobody else's account is touched | `LiveScript` |
| REST, DB and fake connectors; integration auth, read API, secrets, diagnostics, metrics, audit, configuration; the pages of the UI; mock IDM | none, buffers, counters | output, or one call each | | not modelled, see section 5 |

Interactions: the webhook request calls the stores, the dispatcher, processing, the connector and the DLQ
in one asynchronous call chain; in async mode the chain is cut by a Kafka topic; the admin requests and
the consumer meet in the DLQ row; CRUD requests, the timer and the event path meet in the registry;
administrators and the event path meet in the fleet inventory; the tabs of a browser meet in its cookies.
All of it shares PostgreSQL, one statement at a time, and a target system knows nothing of any of it: two
events, a repetition and a person at the target all look alike to it.

## 2. Modules

| Module | Models | Composed with |
| --- | --- | --- |
| `EventPipeline` | an event's way from IDM through key, dispatch, processing, DLQ write, status messages and the consumer | takes `ExecuteOk`, `ExecuteFail`, `ExecuteOutcomeLost` from `Execution` |
| `DlqLease` | the DLQ row afterwards: claim, lease, retry, skip, resolve | the same |
| `Execution` | abstract: what `executeWithRetry` promises its callers | implemented by `RetryLoop` |
| `RetryLoop` | lookup, policy, loop, waits, while an administrator edits the row | `Promise == INSTANCE Execution WITH ...` |
| `ConnectorRegistry` | target-system writes, reloads and polls | `Edit` of `RetryLoop` is a write here |
| `KeyRotation` | the key-rotation CLI, nodes that encrypt meanwhile, choice and removal of keys, restart and rerun | stands alone; its rows are those the other modules write |
| `TargetRequests` | events, facts of a target system, requests, and the reference `Names`: what an event may change | |
| `CmdbuildConnector`, `ZabbixConnector`, `PassworkConnector`, `PostgresRole`, `MssqlLogin`, `LinuxConnector`, `ConsultantPlus` | per connector: the sequence of requests for an event | extend `TargetRequests` |
| `ConnectorRun` | `execute` running these sequences against a target others change, with faults and repeats | extends the seven; one call of `Execution` is one run here |
| `AdminRbac` | rights: rows, edits, `effectivePermissions`, the gate's four queries | |
| `LinuxFleet` | the inventory and every handler of its controller | extends `AdminRbac` |
| `FleetRun` | the same with an event on the fleet and with edits of rights and target systems | extends `LinuxFleet` |
| `SignIn` | the sign-in handlers, the middleware, one browser with tabs, the identity provider | stands alone |
| `LiveScript` | one run of the live check script against a tenant | stands alone |
| `EventPipelineProofs`, `DlqLeaseProofs`, `RetryLoopProofs`, `ConnectorRegistryProofs`, `ToolProofs`, `ConnectorRunProofs`, `FleetRunProofs`, `SignInProofs` | the theorems | `ToolProofs` is about `KeyRotation` and `LiveScript`, whose definitions therefore have different names |
| `MC...` | TLC instances | |

**How actions correspond to code.** A worker (a request, a consumer callback, a reload) has a program
counter whose values are the places between two awaits; an action is the code between them. A failing
await is an action of its own (`...Throws`, `...Fails`), placed where the code's `catch` would see it.
Definitions whose comment says *Variant* are wrong versions of the definition that follows them; the
`mutants` of `PROJECT.json` put them in its place to show that a property notices.

**`EventPipeline`.** `locked` is the set of unexpired keys, `idm` and `asked` are IDM's side of the HTTP
exchange, `mishaps[e]` records which failure has touched an event. The configuration (`mode`, `store`) is
chosen in `Init`. The Redis `SET NX` is one step, the PostgreSQL transaction two: at READ COMMITTED its
read and its upsert do not exclude another's. The actions whose names end in `Throws` follow what the
error carries: only a `ProcessingFailureError` with `durableAccepted` keeps the key. A failing call has
either not taken effect (`StoreError`, `DispatchThrows`) or it has and only its answer is lost:
`LockReplyLost` holds the key for an event nobody works on (ioredis may even send the command again and
read "held"), `DispatchAckLost` has the message on the topic once or, when kafkajs sends it again, twice,
and a status whose send throws may have been published all the same (`MayPublish`). `Hangs` is a connector
call that never settles; no code limits its time.

**`DlqLease`.** Time is `lockAge`, the age of `lockedAt` in ticks, saturated where the where-clause no
longer tells values apart. `lockedBy` is the process id in the code and read by no guard; the model stores
the worker. `skip`, `resolve` and `markRetryFailed` are unconditional updates, as in the code.
`RetryResent` is a message the client sends twice after a lost acknowledgement. An attempt that `Hangs`
keeps its row until the lease ends and the row is claimed beside it.

**`RetryLoop`.** `stored` is the `retryPolicy` of the row, any object; a field that `Number()` does not
map to a positive integer falls back to the default. `ForTarget` is a set because the query may fail and
then yields the defaults. `Math.random()` takes the values `r / JitterSteps`. `Timer` is what `setTimeout`
makes of a delay: above `TimerMax`, 2^31 - 1 ms in Node.js, it fires after one millisecond. A call of the
connector may hang (`CallHangs`); for the callers that is the `Hang` of `Execution`.

**`ConnectorRegistry`.** `log` is the sequence of committed tables; a node's map is identified with the
index of the table it was built from. The two queries of `registryVersion` run side by side and may see
different tables. `snap[n]` keeps what `findMany` returned until it is installed.

**`KeyRotation`.** A row is the id of the key it is under. The CLI's program counter follows
`rotateToActiveKey`; a statement that throws before the `try` ends the run, one inside it leads to
`markRotation('failed')`, and `completeRotation` may take effect although it throws. `todo` and `sealed`
are the rows `findMany` returned and those of them the keyring cannot decrypt. The operator (`Choose`,
`RemoveKey`, and running the CLI) follows `docs/SECURITY_TLS_ENCRYPTION.md`: a key is removed only after a
completed rotation and when no message or idempotency key is under it. `strayed` holds the rows last
written by a node while the CLI was in its `try`, or by a node that still has a former key as its active
one; the documented procedure stops such nodes, the code does not enforce it. The three counts of
`assertNoActiveProcessing` are two here: `IdempotencyKey` and Kafka lag are both `work`. Idempotency keys
in Redis, which the CLI does not count, are `unseen`. `halted` remembers what has left the state
unfinished with nothing for the CLI to do.

**`TargetRequests` and the connectors.** A target system is the set of facts that hold in it: there is an
account, it is active, it has this group. A request names the facts it needs, those it refuses, and those
it adds and removes; `Put` writes back what an earlier `Read` saw. A `Plan` is the sequence of requests
`execute` sends for an event; a `Reject` in it is an exception of the connector's own validation, at the
place where the code throws it, between requests already sent. A group's code stands for the group, a
granted permission for all of them. What the code ignores is ignored: `update` of CMDBuild and Passwork
leaves groups alone, a Zabbix user is blocked by moving it to another group, `usermod -G` replaces the
list of groups. What is sent whole is applied whole: `usrgrps` in the data of a Zabbix update replace the
user's groups, the agent gets groups and flag with the rest, and an update and a password change of
ConsultantPlus are the same request, whatever it does there. A lookup of groups by name sees 500 rows; the
groups beyond these are `Unlisted`.

**`ConnectorRun`.** Two events run against one target. `LosesRequest` and `LosesAnswer` are the two sides
of a timeout, `Expire` ends a CMDBuild session (401 or 403), `Renew` is the one repetition of `call`,
`draft` is an open PostgreSQL transaction whose rows make the other wait up to `statement_timeout`,
`closing` is the pool closed in `finally`, whose failure replaces a success. `Forbidden` is a 403 that has
nothing to do with the session and renews it all the same. `Hangs` is the SSH command without a deadline
and the PostgreSQL statement whose deadline the server alone knows. A write may be taken for done by
mistake (`Supposes`): `CutOff` is the `close` event without an exit code, which resolves, and `Misreads` a
page of ConsultantPlus with status 2xx and no mark of an error. `passwd -l && chage -E 0` is one command
that may end after its first half (`Halves`). ConsultantPlus polls its login without a pause, up to a
number of polls. `Start` repeats what did not succeed.

What an event asks for is stated without looking at the connector (`Wanted`, `Unwanted`): a creation has
an account with its password, its attributes, its flag, its groups and its permission; and so on. What a
connector leaves out of that while it answers success is listed once, by name, in `LeavesOut`; section 5
has it in words.

**`AdminRbac`, `LinuxFleet`, `FleetRun`.** Each query is a step, each RBAC change one commit. The gate
reads the type of the target system, the mappings, the roles and their permissions in four queries, three
of them Prisma's for one `findMany` with `include`. A group is called by its code, which is unique in its
target system and may be changed. `setGroupHosts` is a transaction under READ COMMITTED, PostgreSQL's
default, which the code does not change: its `DELETE` sees the rows committed before it, its inserts wait
for another's uncommitted row of the same key. Prisma's `include` reads members, hosts and profiles in
queries of their own. The fleet's loop takes hosts in any order. An event creates, changes or deletes an
account, and `accounts` is the set of hosts that have it: `useradd` refuses where there is one, `usermod`,
`passwd` and `userdel` where there is none, and `chpasswd` follows `useradd` as a command of its own,
whose password is read only then.

**`SignIn`.** A request carries the cookies the browser had when it was sent, an answer sets cookies when
it arrives. Tabs share the cookies and nothing else; each has one request under way at a time. The promise
of the OIDC configuration is kept, also when it was rejected. The check and the removal of a SAML request
are two steps (they are two calls of the library). Signatures hold: a browser sends what it was given.

**`LiveScript`.** The tenant's accounts the script may touch are modelled one by one, the others are a
number. A request fails, breaks the script or never returns (`$.ajax` has no timeout), and its answer need
not be what the tenant did: a page without a mark of an error is read as success also for a request that
was refused (`misread`). A single operation checks its *target* and sends its *payload*, which is a
setting of its own and may name another account (`env.named`). An endpoint that cannot be used throws in
every mode that reads it (`Uses`). A reading of the user list is the list, another page, or no list at
all. Others add and remove accounts between requests. The browser may not start, and writing the report
may throw. The tenant refuses to add a login it has; this is assumed of ConsultantPlus.

## 3. Runs

| Run | Expect | Shows |
| --- | --- | --- |
| `pipeline` | pass | handled at most once, nothing lost, statuses true, accounted for in the end, unless a *named* failure hit the event |
| `dlq_lease` | pass | one attempt per row, resolved only when applied, applied twice only after a mishap, no row stranded |
| `retry_loop` | pass | call count and waits follow the policy, up to the limit of a timer; implements `Execution`; ends, unless a call hangs |
| `registry` | pass | reloads never go back, answers only with the change installed, no request left waiting, convergence unless the version was read late |
| `key_rotation` | pass | a completed rotation covers its tables, the state names every key in use, documented removal is safe, a rerun converges but for two states no run completes |
| `connectors` | pass | success means done; only what is asked changes; operations not listed as piecewise are all or nothing; a refusal has a cause; a rejected session is never sent again; what failed is done in the end |
| `fleet` | pass | groups, hosts and profiles stay in one target system; the gate decides as at one moment; an event succeeds only when all its hosts did, killed commands excepted, and touches no other; a repeated change converges |
| `sign_in` | pass | a write is done as the user its page shows, an answer opens one session, an allowed user is refused only for a cause |
| `live_script` | pass | exit 0 means the tenant is as documented, other accounts are spared, a failure has a cause |
| `pipeline_publish` | violation | a failed success publication makes the event run again |
| `dlq_settled` | violation | a skipped row is retried |
| `key_hosts` | violation | `LinuxHost.metadata` stays under the old key after a completed rotation |

The form *unless a mishap* is deliberate: the code cannot promise exactly-once over HTTP, Kafka and two
databases. The properties say which failures, named one by one, are the only ways to handle an event twice
(`TwiceMishaps`), to lose it (`LossMishaps`), to turn a user away (`RefusedForCause` of `SignIn`) or to
change a target in part (`Piecewise`); every interleaving and every other failure *of the model* is
covered by the promise, that is, every failing `await` in the code mapped, before and after its effect. A
change to the code that adds another way is a violation.

**What the properties excuse.** `excused` holds the facts another event or person changed while a run was
under way; CMDBuild's cards and Zabbix's member list are read, changed and written back, and undo such a
change. It also holds what a write taken for done by mistake should have changed, and `LeavesOut` what a
connector leaves out. `Piecewise` lists MSSQL's create, update and delete (no transaction), Passwork's
create (the memberships follow the account) and the Linux operations of two commands or of a command of
two halves. `RefusedForCause` of `ConnectorRun` excuses a group beyond the rows of a lookup (`Overlooks`).
`FleetOkMeansAll` leaves out the hosts where a command was killed before it had an effect (`cut`): the
code takes it for a success. Two `setGroupHosts` that overlap on a group merge (`exact`). Two edits of
rights between the gate's queries may give a decision that was right at no moment (`crossings`).
`ExitZeroMeansClean` excuses a "garbled" page, and it and `SparesOthers` a refused creation that was read
as success ("misread"), see section 5. `RerunConverges` names the two states no run completes (`halted`),
`WaitWithinPolicy` the delays longer than a timer, `EventuallyAccounted`, `Ends`, `Settles` and
`FleetSettles` a call that hangs.

**Bounds.** `MaxFaults` bounds the failures in a behaviour: 3 in the pipeline (a hazard there takes at
most a repetition by IDM and two failures), 2 in the lease protocol, 1 in the registry. Two requests and
one consumer are enough because every guard compares a worker with at most one other; events and rows do
not interact, the second event of `pipeline` is there to have a read beside a write. `MaxQueue` bounds the
sends of one row, `Lease = 1` makes a lease of two ticks. `MaxCommits = 3` (an initial table and two
writes) lets a version be read across two writes. `MaxEdits = 2` changes the policy before and during the
loop; `TimerMax = 20000` lies below the longest of the run's delays, as 2^31 - 1 ms does below what a
policy may say. In `key_rotation` three keys allow two rotations in a row or a failed one followed by
another target; two writes are a row before the rotation and a stray one in it, or rows in two tables; two
failures are a broken run and a broken rerun, or a failing `markRotation('failed')`. Two registry nodes
exceed the time limit; other nodes' writes are `WriteElsewhere`.

In `connectors` a pair of events meets at each target; `MCDeployments` lists the targets' settings and the
pairs: each operation of each connector, and those that share a card, a list, a row or a session. Two
faults are a failure and one of the repetition, or two expiries of a session; `PollAttempts` takes the
login through "started" to its end; the group `far` is the one beyond the 500 rows. In `fleet` each
scenario is a pair of administrators, or an administrator and an event, that touch the same rows; two
target systems, three hosts, two profiles, two groups and three codes give every check something of
another system to confuse and every name something to clash with; one SSH fault is enough, since the next
run starts afresh. In `sign_in` two tabs are needed for what one does to the other's cookies, and the tabs
are symmetric; two flows and two sessions let one replace the other; `MaxTime = 1` with lifetimes of zero
makes a state and a session expire at once or not at all; one mishap is a restart, a lost answer or a
repeated one. In `live_script` two bulk users are the first and the last of the loop, the tenants lie on
both sides of the capacity gate and of a full page; three faults are one in a request, one in its
verification and one in the cleanup, two edits an account added and removed by others.

**Deadlock** is checked for `dlq_lease`, `registry` and `key_rotation`. In `pipeline` IDM stops when all
its events are answered, in `retry_loop`, `connectors` and `fleet` the work ends, in `sign_in` time does,
and the script of `live_script` exits.

**Fairness.** Weak fairness of each handler's own steps (Node.js runs a resumed promise), of delivery (the
broker), of the timer, and, in `EventPipeline`, of IDM sending an event that is due; in `DlqLease`, of an
operator who asks again for a row that may be claimed; in `KeyRotation`, of an operator who runs the CLI
until it has nothing to do. In `ConnectorRun` and `FleetRun` a request is answered or times out, and what
failed is repeated: what threw by the code (retry loop, DLQ), what was answered `success: false` by nobody
but IDM or an operator who sends it again, which is assumed of them. The clients of Redis, Kafka and the
application's own PostgreSQL answer or fail in the end. A connector's call need not: it may hang wherever
the code sets it no deadline (`Hangs`, `CallHangs`, `stuck`), and the liveness properties say so.
Failures, edits and crashes have none. `SignIn` and `LiveScript` have safety properties only: a browser
owes nobody a next request, and the script's requests may never return.

## 4. Proofs

All for arbitrary constants, by an inductive invariant each; type correctness first, then the rest. Of the
type invariants that are proved the runs check only that of `FleetRun`.

* `EventPipelineProofs`: `IInv` adds to the four properties the *token* argument: as long as no
  `TwiceMishaps` hit it, an event has one token, which is with a request inside `checkAndLock`, on the
  topic, with a consumer, or spent. The key is held while the token exists. The properties alone are not
  inductive: a request about to execute says nothing about the topic.
* `DlqLeaseProofs`: an undisturbed row with a live attempt is `retrying` within its lease, or was skipped
  or resolved, so that no claim can succeed beside it; and an applied, unsettled attempt is the only one.
* `RetryLoopProofs`: the counter of the loop is the number of calls that threw. `RefinesExecution` shows
  that each step is a step of `Execution` or a stutter. `WaitsWithinPolicy` needs that `2 ^ n` is a
  positive number: it is the number of subsets of `1 .. n`, which the library's theorems on finite sets
  give without an induction. The cap and the halving of the delay then fit the policy by arithmetic on a
  quotient (`Share`), and a timer that overflows waits no longer than any policy's maximum (`TimersFit`).
* `ConnectorRegistryProofs`: a node has at most one reload in flight, whose rows are no older than the
  map; a request waits only for a reload, and the one it started *covers* its commit: it has yet to read
  the table, or has read it after the commit. `Shape` is `TypeOK` without the version strings, whose type
  needs an induction over the rows.
* `ToolProofs`, on `KeyRotation`: what the CLI loaded stays what the database says (nobody else writes
  `EncryptionState`), no key in use is removed, whatever a node writes is under a recorded key, and the
  rows the CLI is done with are under the target key. `CompletedMeansActive` alone says nothing about a
  rotation in progress.
* `ToolProofs`, on `LiveScript`: for any logins, tenants and bounds. `Base` says where the script stands:
  the request under way is one of the mode's (`Asks`), and `createdTargets` is the beginning of the list
  of bulk users, in order (`Bulks`). `OthersSpared` (`SparesOthers`) needs `SafeSteps`: whatever is
  remembered, or about to be changed by a request that is no creation, was not in the tenant before the
  run, is what a single operation was told to work on, or is a login the run generates after a misread; it
  is kept because a creation is taken only where nobody is. `CleanExit` (`ExitZeroMeansClean`) needs,
  while all steps succeeded and no page was garbled, that the bulk users no longer remembered are gone
  once page one was read (`CleanBulk`), and that the delete-user is gone and the keep-user new when the
  cycle comes to them (`CleanCycle`). `FailuresHaveCause` (`FailsForCause`) needs the tenant step by step
  (`Smooth`): an undisturbed run of what is possible finds it as `CycleAdds` and `Filled` say, so that the
  tenant takes each request and each reading verifies it. The capacity gate is then enough because
  `Filled` counts the accounts: no two bulk users have one login (`LoginsDiffer`).
* `ConnectorRunProofs`: for every set of users, groups, workers and deployments. `Plans` is the lemma all
  rests on: each plan of each connector is a sequence of requests that touch no more than `Names` lets the
  event touch, or a read of a card or list with the write that puts it back (`Rewrites`); it is proved
  connector by connector from the requests' own definitions. `ChangesOnlyWhatIsAsked` (the run's
  `OnlyAsked`) then needs that what a worker last saw of a card differs from the card only in what is
  `excused`, and that an open transaction has changed only its own. `SessionsRenewed` needs that a refused
  session is out of the cache for good and that one being opened is nobody else's. `SuccessMeansDone`
  (`OkMeansDone`) and `WholeOrNothing` (`AllOrNothing`) rest on a second lemma about plans,
  `PlansDevised`, shown for every operation of each of the eight kinds of target: sent to the end, a plan
  without a rejection has added all that is `Due` and removed all that is `Barred` - `Wanted` and
  `Unwanted` without `LeavesOut` - no later request undoing an earlier one; it is one transaction, a login
  with one write, or plain requests; and it writes in one place unless the operation is `Piecewise`.
  Neither property is inductive: a run that is under way has answered nothing yet. `Obtained` says that
  what the requests sent so far have changed still holds in what the worker would read (`View`), but for
  what is `excused`; `Opened` that a transaction is open exactly between the `BEGIN` and the `COMMIT` of a
  plan; `Atomic` that an operation that is not piecewise has changed nothing or all. `RefusalsHaveCause`
  (`RefusedForCause`) rests on a third, `PlansPass`: where the event `Fits` and no group of it is
  overlooked, the plan has a *course*, a sequence of states of the target in each of which the next
  request finds what it needs, and which the request leads to the next; none leaves a membership of a
  group or an account that is not there (`Sound`), and nothing changes between the polls of a login and
  its end (`Level`). `CauseInv` then says that a run to which nothing has happened stands on its course.
  Two things make that inductive. A write that puts back a card must put back what is there (`Fresh`, with
  nothing excused). And the target must stay sound under the statements and commits of *others*:
  `SoundInv` says that it is sound now and would be after the commit of each open transaction, which holds
  because these touch disjoint rows and one that drops a group or an account touches its memberships
  (`Linked`), so that no other can be adding one.
* `FleetRunProofs`: for every inventory, every assignment of rights and every number of administrators;
  `ScenarioAssumption` says only that the tables begin as the services leave them (a reference has its
  row, an absent role has no mapping). `SameTarget` is not inductive: a request that has checked a
  profile, a host or a group writes several steps later. `Found` says what such a request has read and
  still relies on - rows of its target system, or rows deleted since, never rows of another one - and
  `Referred` that what an open transaction inserts has its rows. `Keeps` says how any step other than the
  commit of a `setGroupHosts` changes the inventory, so that each part is shown once for all of them.
  `AsOneAsked` needs `Clears`: a `DELETE` covers the whole group unless another commit came between its
  snapshot and its own. `DecisionHolds` needs `Judges`, which says for each of the gate's queries what it
  has read and which decision, right at some moment of the request, it leads to as long as fewer than two
  edits fell between. `Runs` and `Touched` tell where the loop over the hosts stands: what is due is
  served, still to come, was cut off, or has failed.
* `SignInProofs`: for any number of tabs, flows and sessions. Every step of the service is brought to one
  form, `Handled(c, d)`: request `c` becomes `d`, with what that does to its session and to its flow; each
  part of the invariant is then shown for that form. `ActsAsShown` needs that all that is known of a
  session - in the cookie, in a request, in an answer on its way, in a tab - names one user
  (`SessionsAgree`). `OpenedOnce` needs that two submissions of one answer are not both about to open a
  session, and that the code or the SAML request is spent once one did (`OpensOnce`). `RefusedForCause`
  needs that a flow is in one place (`Travels`), that nothing of it is spent before its answer is
  submitted (`Alone`), and that its state is in the cookie or was crossed there (`CrumbsKept`).

Each invariant was first checked by TLC on the instance of its run: 469,726 states for `FleetRun`,
1,502,746 for `SignIn`, 249,227 for `ConnectorRun`, 1,164,238 for `LiveScript`, 1,026,614 for
`EventPipeline`, 981,440 for `KeyRotation`, 136,119 for `DlqLease`, 12,330 for `RetryLoop`.

Liveness (`EventuallyAccounted`, `EventuallySettled`, `Ends`, `CurrentUnlessMissed`, `RerunConverges`,
`Settles`, `FleetSettles`, the fairness part of `ImplementsExecution`) is out of the provers' reach, and
the type of the registry's version strings needs an induction over the rows. Of the properties of passing
runs, every invariant is proved.

## 5. Not modelled, known limits, and the plan

**Left out on purpose.** Message formats, validation of DTOs, TLS, cryptography, logging; listings and
searches, which change nothing. REST and DB connectors send one request or statement per operation, the
fake connector is an in-memory map for tests. Integration auth, the read API and secrets are a stateless
check or lookup per call; audit is one write nobody waits for; metrics and diagnostics are output;
configuration is read once. The pages of the admin UI and the mock IDM are not modelled; of the UI only
the login and what a page does with its session are. Names in the inventory are not modelled: a write may
fail because one is taken (`WriteFails`).

**Known limits of the code, as the models have them.**

* Two deliveries may both pass the PostgreSQL idempotency store, although the comment at
  `webhook.service.ts:19` names an advisory lock; this is the mishap `race` of `EventPipeline`.
* The registry's version string is read after the rows, so that a write between the two is not picked up
  until the next one; `missed` in `ConnectorRegistry`.
* Redis may hold a key whose `SET NX` seemed to fail, and Kafka a message whose send seemed to: the
  repetition is then a duplicate that nobody works on, or a second execution. These are the mishaps
  `lockLost` and `ackLost`; the producer is not idempotent, and the consumer does not look at the key.
* "Max 3 attempts" (`processing.service.ts:42`, `README.md:103`) are four calls under the default policy;
  `retry.service.spec.ts:34-40` has it as the code does, `maxRetries` retries after the first call.
* A policy may ask for a delay above 2^31 - 1 ms, and `setTimeout` then fires at once.
* The retry loop has no deadline for a call, it leaves that to the connector. The HTTP requests and MSSQL
  have one; an SSH command has none, and a PostgreSQL statement only the server's, which does not help
  when the server is gone. Whoever waits for such a call waits for good.
* Key rotation: after a `completeRotation` whose answer was lost the state says "failed" under the new
  key, and after the operator went back to the old key in the middle "running" or "failed" under the old
  one. The CLI finds nothing to do in either case, so the state stays. The CLI does not count idempotency
  keys in Redis.
* A creation that succeeded on some hosts of a fleet, or whose answer was lost, cannot succeed when it is
  repeated: `useradd` and its like refuse an account that exists. A deletion cannot either: `userdel`
  refuses one that does not. `Settles` and `FleetSettles` leave both out. A creation without a password
  leaves the account without one and fails.
* A killed SSH command counts as done (`execSshWithInput` resolves on `close` without a code), and so does
  a page of ConsultantPlus with status 2xx and no mark of an error.
* What connectors leave out, while they answer success (`LeavesOut`): PostgreSQL's `createRole` does not
  read `enabled`, and Zabbix, Passwork, ConsultantPlus and SSH do not know it in a creation or an update;
  CMDBuild and Passwork ignore groups in an update, ConsultantPlus always; the SQL connectors have no
  attributes, the others no permissions.
* CMDBuild and Passwork look a group up by name among 500 rows; one beyond these is "not found".
* Over SSH the default groups are part of each update that names groups or not, and replace those the
  account has; `chpasswd` sets a hash and so unlocks a locked account. Update and password change of
  ConsultantPlus send one body, which the models take to do both.
* A host without an enabled profile ends a fleet operation between the hosts served and those to come.
* An OIDC configuration that could not be fetched is not fetched again until a restart. Of two tabs that
  begin an OIDC login one loses its state cookie to the other; both may fail.
* Live script: a refused creation whose page has no mark of an error counts as done; the account that was
  there is verified, remembered and deleted in the cleanup. The payload of a single operation may name an
  account other than the target that was checked.
* Live script: `verifyUserAbsent` takes a page with status 2xx that is no list for an account that is
  gone; a bulk account that was created and not verified is never cleaned up, though
  `docs/IDM_ADMIN_DEPLOYMENT.md:737-740` says that all created users are removed; an exception in the
  cleanup ends it; one after the login was classified leaves `success` beside an error, and the exit code
  is 2.

**Plan.** In order: the several HMAC keys of `checkAndLock` under a keyring, beside `KeyRotation`; the
merge of masked secrets in `TargetSystemService.update`; the target-system page of the UI, whose answers
may arrive out of order; expiry of a debug session and the log buffer.
