-------------------------- MODULE ConnectorRegistry --------------------------
(***************************************************************************)
(* TargetSystem rows and the ConnectorRegistry of every node that serves   *)
(* from them: CRUD requests with the reload that follows, the single       *)
(* reloadInFlight promise, the version string count:max(updatedAt), and    *)
(* the polling timer.  Every await is a step boundary; the two queries of  *)
(* registryVersion run side by side and may see different tables.          *)
(*                                                                         *)
(* What a row says is reduced to the commit that wrote it; the proxies of  *)
(* a node to the commit whose table findMany returned.                     *)
(***************************************************************************)
EXTENDS Integers, Sequences, FiniteSets

CONSTANTS Nodes,      \* processes with a registry
          Requests,   \* CRUD requests in progress, over all nodes
          Systems,    \* TargetSystem names
          None,
          Stamps,     \* updatedAt values, taken from the writing node's clock
          MaxCommits, \* bound: committed writes, the initial table included
          MaxFaults   \* bound: failed queries and crashes

ASSUME RegistryAssumption ==
  /\ None \notin Nodes
  /\ Stamps \subseteq Nat \ {0}
  /\ MaxCommits \in Nat \ {0} /\ MaxFaults \in Nat

VARIABLES
  log,       \* the committed tables, oldest first; the last one is the database
  up,        \* node: "down", "booting", "up"
  reload,    \* node: reloadInFlight: "none", "loading", "installing", "versioning"
  snap,      \* node: the commits findMany returned to reloads that have not installed them
  installed, \* node: the commit whose proxies are in the map
  version,   \* node: lastRegistryVersion
  seen,      \* node: what the reload's registryVersion has read
  poll,      \* node: "idle" or "reading": reloadIfChanged
  polled,    \* node: what the poll's registryVersion has read
  missed,    \* history: nodes whose stored version may not be that of their map
  at,        \* request: the node that serves it
  req,       \* request: "idle", "waiting", "answered", "failed"
  commit,    \* request: the commit of its write
  joined,    \* requests that found a reload already in flight
  faults     \* failures so far

nodeVars == <<up, reload, snap, installed, version, seen, poll, polled>>
reqVars  == <<at, req, commit, joined>>
vars     == <<log, nodeVars, missed, reqVars, faults>>

Row    == [gen : 1 .. MaxCommits, stamp : Stamps]
Tables == [Systems -> Row \cup {None}]
Latest   == Len(log)

\* registryVersion: the parts read so far, None while a query is open.
Count(t)   == Cardinality({s \in Systems : t[s] # None})
Newest(t)  == LET stamps == {t[s].stamp : s \in {x \in Systems : t[x] # None}}
              IN  IF stamps = {} THEN 0 ELSE CHOOSE m \in stamps : \A k \in stamps : k <= m
Version(t) == [count |-> Count(t), max |-> Newest(t)]
Unread     == [count |-> None, max |-> None]
Complete(v) == v.count # None /\ v.max # None

\* Every variable but the version strings in its type.
Shape ==
  /\ log \in Seq(Tables) /\ Latest \in 1 .. MaxCommits
  /\ up \in [Nodes -> {"down", "booting", "up"}]
  /\ reload \in [Nodes -> {"none", "loading", "installing", "versioning"}]
  /\ snap \in [Nodes -> SUBSET (1 .. Latest)]
  /\ installed \in [Nodes -> 0 .. Latest]
  /\ poll \in [Nodes -> {"idle", "reading"}]
  /\ missed \subseteq Nodes
  /\ at \in [Requests -> Nodes \cup {None}]
  /\ req \in [Requests -> {"idle", "waiting", "answered", "failed"}]
  /\ \A r \in Requests : req[r] # "idle" => at[r] \in Nodes
  /\ commit \in [Requests -> 0 .. Latest]
  /\ joined \subseteq Requests
  /\ faults \in 0 .. MaxFaults

TypeOK ==
  /\ Shape
  /\ \A n \in Nodes : \A v \in {version[n], seen[n], polled[n]} :
       v.count \in Nat \cup {None} /\ v.max \in Nat \cup {None}

Init ==
  /\ log = << [s \in Systems |-> None] >>
  /\ up = [n \in Nodes |-> "down"]
  /\ reload = [n \in Nodes |-> "none"]
  /\ snap = [n \in Nodes |-> {}] /\ installed = [n \in Nodes |-> 0]
  /\ version = [n \in Nodes |-> Unread]
  /\ seen = [n \in Nodes |-> Unread] /\ polled = [n \in Nodes |-> Unread]
  /\ poll = [n \in Nodes |-> "idle"]
  /\ missed = {}
  /\ at = [r \in Requests |-> None]
  /\ req = [r \in Requests |-> "idle"]
  /\ commit = [r \in Requests |-> 0]
  /\ joined = {}
  /\ faults = 0

-----------------------------------------------------------------------------
Fault == faults < MaxFaults /\ faults' = faults + 1

\* Variant: reload() always starts a reload of its own.
StartOrJoinAlways(n) == reload' = [reload EXCEPT ![n] = "loading"]

\* reload(): join the reload in flight, or start one.
StartOrJoin(n) ==
  IF reload[n] # "none" THEN UNCHANGED reload
  ELSE reload' = [reload EXCEPT ![n] = "loading"]

\* Variant: a failing reload leaves those who joined it waiting.
SettleSilently(n, answer) ==
  /\ reload' = [reload EXCEPT ![n] = "none"]
  /\ req' = [r \in Requests |-> IF /\ at[r] = n /\ req[r] = "waiting"
                                  /\ (answer = "answered" \/ r \notin joined)
                               THEN answer ELSE req[r]]

\* The reload of n ends: every request that awaits it goes on.
Settle(n, answer) ==
  /\ reload' = [reload EXCEPT ![n] = "none"]
  /\ req' = [r \in Requests |-> IF at[r] = n /\ req[r] = "waiting" THEN answer ELSE req[r]]

(***************************************************************************)
(* Admin CRUD: the write commits, then the controller awaits reload().     *)
(***************************************************************************)
\* The tables one create, update or delete may leave; updatedAt is the
\* writing node's time.
Written(t) ==
  LET row == [gen : {Latest + 1}, stamp : Stamps]
  IN  UNION {{[t EXCEPT ![s] = x] : x \in row \cup IF t[s] = None THEN {} ELSE {None}}
              : s \in Systems}

\* Request r's write commits on n and its reload() is called.
Committed(r, n) ==
  /\ req[r] # "waiting" /\ up[n] = "up"
  /\ Latest < MaxCommits
  /\ \E t \in Written(log[Latest]) : log' = Append(log, t)
  /\ commit' = [commit EXCEPT ![r] = Latest + 1]
  /\ joined' = IF reload[n] = "none" THEN joined \ {r} ELSE joined \cup {r}
  /\ StartOrJoin(n)
  /\ UNCHANGED <<up, snap, installed, version, seen, poll, polled, missed, faults>>

\* Variant: reload() is not awaited.
WriteUnawaited(r, n) ==
  /\ Committed(r, n)
  /\ at' = [at EXCEPT ![r] = n] /\ req' = [req EXCEPT ![r] = "answered"]

Write(r, n) ==
  /\ Committed(r, n)
  /\ at' = [at EXCEPT ![r] = n] /\ req' = [req EXCEPT ![r] = "waiting"]

\* The same on a node outside Nodes, or any other writer of the table.
WriteElsewhere ==
  /\ Latest < MaxCommits
  /\ \E t \in Written(log[Latest]) : log' = Append(log, t)
  /\ UNCHANGED <<nodeVars, missed, reqVars, faults>>

(***************************************************************************)
(* reloadInternal                                                          *)
(***************************************************************************)
\* findMany.
Load(n) ==
  /\ reload[n] = "loading"
  /\ snap' = [snap EXCEPT ![n] = @ \cup {Latest}]
  /\ reload' = [reload EXCEPT ![n] = "installing"]
  /\ UNCHANGED <<log, up, installed, version, seen, poll, polled, missed, reqVars, faults>>

\* Its rows arrive: the new map replaces the old one in one assignment.
Install(n) ==
  /\ reload[n] = "installing"
  /\ \E k \in snap[n] : /\ installed' = [installed EXCEPT ![n] = k]
                        /\ snap' = [snap EXCEPT ![n] = @ \ {k}]
  /\ reload' = [reload EXCEPT ![n] = "versioning"]
  /\ missed' = missed \ {n}
  /\ UNCHANGED <<log, up, version, seen, poll, polled, reqVars, faults>>

\* One of the two queries of registryVersion returns.
Read(v, t) == (IF v.count = None THEN {[v EXCEPT !.count = Count(t)]} ELSE {})
              \cup (IF v.max = None THEN {[v EXCEPT !.max = Newest(t)]} ELSE {})

ReadVersion(n) ==
  /\ reload[n] = "versioning"
  /\ \E v \in Read(seen[n], log[Latest]) : seen' = [seen EXCEPT ![n] = v]
  /\ missed' = IF installed[n] # Latest THEN missed \cup {n} ELSE missed
  /\ UNCHANGED <<log, up, reload, snap, installed, version, poll, polled, reqVars, faults>>

\* The version is stored, the reload is over.
Reloaded(n) ==
  /\ reload[n] = "versioning" /\ Complete(seen[n])
  /\ version' = [version EXCEPT ![n] = seen[n]]
  /\ seen' = [seen EXCEPT ![n] = Unread]
  /\ Settle(n, "answered")
  /\ up' = [up EXCEPT ![n] = "up"]
  /\ UNCHANGED <<log, snap, installed, poll, polled, missed, at, commit, joined, faults>>

\* findMany, fromJson or registryVersion throws, the last with the new map
\* already in place; at startup the node goes down.
ReloadFails(n) ==
  /\ reload[n] # "none"
  /\ Fault
  /\ Settle(n, "failed")
  /\ up' = [up EXCEPT ![n] = IF @ = "booting" THEN "down" ELSE @]
  /\ missed' = IF reload[n] = "versioning" THEN missed \cup {n} ELSE missed
  /\ snap' = [snap EXCEPT ![n] = {}] /\ seen' = [seen EXCEPT ![n] = Unread]
  /\ UNCHANGED <<log, installed, version, poll, polled, at, commit, joined>>

(***************************************************************************)
(* The timer: reloadIfChanged                                              *)
(***************************************************************************)
Poll(n) ==
  /\ up[n] = "up" /\ poll[n] = "idle"
  /\ poll' = [poll EXCEPT ![n] = "reading"]
  /\ UNCHANGED <<log, up, reload, snap, installed, version, seen, polled, missed, reqVars, faults>>

PollReads(n) ==
  /\ poll[n] = "reading"
  /\ \E v \in Read(polled[n], log[Latest]) : polled' = [polled EXCEPT ![n] = v]
  /\ UNCHANGED <<log, up, reload, snap, installed, version, seen, poll, missed, reqVars, faults>>

\* Variant: only a larger row count counts as a change.
PollComparesCount(n) ==
  /\ poll[n] = "reading" /\ Complete(polled[n])
  /\ IF polled[n].count # version[n].count THEN StartOrJoin(n) ELSE UNCHANGED reload
  /\ poll' = [poll EXCEPT ![n] = "idle"]
  /\ polled' = [polled EXCEPT ![n] = Unread]
  /\ UNCHANGED <<log, up, snap, installed, version, seen, missed, reqVars, faults>>

PollCompares(n) ==
  /\ poll[n] = "reading" /\ Complete(polled[n])
  /\ IF polled[n] # version[n] THEN StartOrJoin(n) ELSE UNCHANGED reload
  /\ poll' = [poll EXCEPT ![n] = "idle"]
  /\ polled' = [polled EXCEPT ![n] = Unread]
  /\ UNCHANGED <<log, up, snap, installed, version, seen, missed, reqVars, faults>>

PollFails(n) ==
  /\ poll[n] = "reading"
  /\ Fault
  /\ poll' = [poll EXCEPT ![n] = "idle"]
  /\ polled' = [polled EXCEPT ![n] = Unread]
  /\ UNCHANGED <<log, up, reload, snap, installed, version, seen, missed, reqVars>>

(***************************************************************************)
(* Startup and crashes.                                                    *)
(***************************************************************************)
\* onModuleInit: the first reload, with an empty map.
Boot(n) ==
  /\ up[n] = "down"
  /\ up' = [up EXCEPT ![n] = "booting"]
  /\ installed' = [installed EXCEPT ![n] = 0]
  /\ version' = [version EXCEPT ![n] = Unread]
  /\ StartOrJoin(n)
  /\ UNCHANGED <<log, snap, seen, poll, polled, missed, reqVars, faults>>

Crash(n) ==
  /\ up[n] # "down"
  /\ Fault
  /\ up' = [up EXCEPT ![n] = "down"]
  /\ poll' = [poll EXCEPT ![n] = "idle"]
  /\ snap' = [snap EXCEPT ![n] = {}] /\ seen' = [seen EXCEPT ![n] = Unread]
  /\ polled' = [polled EXCEPT ![n] = Unread]
  /\ Settle(n, "failed")
  /\ UNCHANGED <<log, installed, version, missed, at, commit, joined>>

-----------------------------------------------------------------------------
NodeStep(n)   == Boot(n) \/ Load(n) \/ Install(n) \/ ReadVersion(n) \/ Reloaded(n)
PollStep(n)   == Poll(n) \/ PollReads(n) \/ PollCompares(n)
Failure(n)    == ReloadFails(n) \/ PollFails(n) \/ Crash(n)

Next ==
  \/ \E r \in Requests, n \in Nodes : Write(r, n)
  \/ WriteElsewhere
  \/ \E n \in Nodes : NodeStep(n) \/ PollStep(n) \/ Failure(n)

Spec == Init /\ [][Next]_vars

\* Queries return, the timer fires, a node that is down is started again.
FairSpec == Spec /\ \A n \in Nodes : WF_vars(NodeStep(n)) /\ WF_vars(PollStep(n))

-----------------------------------------------------------------------------
(***************************************************************************)
(* The invariant behind NeverBack, AnsweredIsInstalled, WaitersHaveReload. *)
(***************************************************************************)
\* A node has at most one reload, with rows no older than its map; a node
\* that is not up neither polls nor, when down, reloads.
OneReload(n) ==
  /\ reload[n] # "installing" => snap[n] = {}
  /\ \A j, k \in snap[n] : j = k
  /\ \A k \in snap[n] : installed[n] <= k
  /\ up[n] # "up" => poll[n] = "idle"
  /\ up[n] = "down" => reload[n] = "none"

\* The reload in progress on n has or will have commit c.
Covers(n, c) == \/ reload[n] = "loading"
                \/ reload[n] = "installing" /\ \A k \in snap[n] : c <= k
                \/ reload[n] = "versioning" /\ c <= installed[n]

\* A request waits for a reload; the reload it started, or the one that starts
\* its node again, covers its commit, and so does the map afterwards.
Served(r) ==
  /\ req[r] = "waiting" => up[at[r]] = "up" /\ reload[at[r]] # "none"
  /\ r \notin joined =>
       /\ req[r] = "waiting" \/ (req[r] = "answered" /\ up[at[r]] = "booting")
            => Covers(at[r], commit[r])
       /\ req[r] = "answered" /\ up[at[r]] = "up" => commit[r] <= installed[at[r]]

IInv ==
  /\ Shape
  /\ \A n \in Nodes : OneReload(n)
  /\ \A r \in Requests : Served(r)

-----------------------------------------------------------------------------
(***************************************************************************)
(* Properties.                                                             *)
(***************************************************************************)
\* While a node is up its map never goes back to an older table, however
\* reloads of requests and polls overlap.
NeverBack ==
  [][\A n \in Nodes : up[n] = "up" /\ up'[n] = "up" => installed'[n] >= installed[n]]_vars

\* A CRUD request whose own reload succeeded is answered with its change (or a
\* later one) in the map of the node that served it.
AnsweredIsInstalled ==
  \A r \in Requests : req[r] = "answered" /\ r \notin joined /\ up[at[r]] = "up"
                        => installed[at[r]] >= commit[r]

\* A CRUD request that waits has a reload to wait for, however reloads fail,
\* overlap and are joined: none is left hanging.
WaitersHaveReload == \A r \in Requests : req[r] = "waiting" => reload[at[r]] # "none"

\* Two tables the version string does not tell apart: equal time stamps, or
\* a clock that is behind.
Ambiguous == \E j, k \in 1 .. Latest : log[j] # log[k] /\ Version(log[j]) = Version(log[k])

Current(n) == up[n] = "up" /\ installed[n] > 0 /\ log[installed[n]] = log[Latest]

\* Once writes and failures stop, polling brings every node to the last table,
\* unless the version string was read after a write its map does not have, was
\* not read at all, or cannot tell two tables apart.
CurrentUnlessMissed == <>[](\A n \in Nodes : Current(n) \/ n \in missed \/ Ambiguous)
=============================================================================
