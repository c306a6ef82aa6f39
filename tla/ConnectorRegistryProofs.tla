----------------------- MODULE ConnectorRegistryProofs -----------------------
(***************************************************************************)
(* Proofs about ConnectorRegistry, for any nodes, requests, systems, time  *)
(* stamps and bounds.                                                      *)
(***************************************************************************)
EXTENDS ConnectorRegistry, TLAPS

\* A create, update or delete turns a table into a table.
LEMMA WrittenIsTable ==
  ASSUME NEW t \in Tables, Latest + 1 \in 1 .. MaxCommits
  PROVE  Written(t) \subseteq Tables
<1> SUFFICES ASSUME NEW s \in Systems,
                    NEW x \in [gen : {Latest + 1}, stamp : Stamps] \cup {None}
             PROVE  [t EXCEPT ![s] = x] \in Tables
  BY DEF Written
<1>1. x \in Row \cup {None}
  BY DEF Row
<1> QED BY <1>1 DEF Tables

\* A write appends one table to the log.
LEMMA AppendStep ==
  ASSUME Shape, Latest < MaxCommits, NEW t \in Written(log[Latest]), log' = Append(log, t)
  PROVE  log' \in Seq(Tables) /\ Latest' = Latest + 1 /\ Latest' \in 1 .. MaxCommits
<1>1. Latest \in Nat /\ Latest + 1 \in 1 .. MaxCommits
  BY RegistryAssumption DEF Shape, Latest
<1>2. log[Latest] \in Tables
  BY DEF Shape, Latest
<1>3. t \in Tables
  BY <1>1, <1>2, WrittenIsTable
<1>4. log' \in Seq(Tables) /\ Len(log') = Len(log) + 1
  BY <1>3 DEF Shape
<1> QED BY <1>1, <1>4 DEF Latest

\* After reload(), the node has the reload it had, or a new one.
LEMMA JoinStep ==
  ASSUME Shape, NEW n \in Nodes, StartOrJoin(n)
  PROVE  /\ reload' \in [Nodes -> {"none", "loading", "installing", "versioning"}]
         /\ reload[n] = "none" => reload'[n] = "loading"
         /\ \A m \in Nodes : m # n \/ reload[n] # "none" => reload'[m] = reload[m]
<1>1. CASE reload[n] = "none"
  BY <1>1 DEF StartOrJoin, Shape
<1>2. CASE reload[n] # "none"
  BY <1>2 DEF StartOrJoin, Shape
<1> QED BY <1>1, <1>2

\* Every action keeps every variable of Shape in its type.
LEMMA ShapeStep == Shape /\ [Next]_vars => Shape'
<1> SUFFICES ASSUME Shape, [Next]_vars PROVE Shape'
  OBVIOUS
<1>0. Latest \in Nat /\ Latest \in 1 .. MaxCommits
  BY RegistryAssumption DEF Shape
<1> USE RegistryAssumption DEF nodeVars, reqVars
<1>1. CASE UNCHANGED vars
  BY <1>1 DEF vars, Shape, Latest
<1>2. ASSUME NEW r \in Requests, NEW n \in Nodes, Write(r, n) PROVE Shape'
  <2>1. log' \in Seq(Tables) /\ Latest' = Latest + 1 /\ Latest' \in 1 .. MaxCommits
    BY <1>2, AppendStep DEF Write, Committed
  <2>2. StartOrJoin(n)
    BY <1>2 DEF Write, Committed
  <2>3. reload' \in [Nodes -> {"none", "loading", "installing", "versioning"}]
    BY <2>2, JoinStep
  <2>4. /\ at' \in [Requests -> Nodes \cup {None}]
        /\ req' \in [Requests -> {"idle", "waiting", "answered", "failed"}]
        /\ \A q \in Requests : req'[q] # "idle" => at'[q] \in Nodes
        /\ commit' \in [Requests -> 0 .. Latest']
        /\ joined' \subseteq Requests
    BY <1>0, <1>2, <2>1 DEF Write, Committed, Shape
  <2>5. snap' \in [Nodes -> SUBSET (1 .. Latest')] /\ installed' \in [Nodes -> 0 .. Latest']
    BY <1>0, <1>2, <2>1 DEF Write, Committed, Shape
  <2>6. UNCHANGED <<up, poll, missed, faults>>
    BY <1>2 DEF Write, Committed
  <2> QED BY <2>1, <2>3, <2>4, <2>5, <2>6 DEF Shape
<1>3. CASE WriteElsewhere
  <2>1. log' \in Seq(Tables) /\ Latest' = Latest + 1 /\ Latest' \in 1 .. MaxCommits
    BY <1>3, AppendStep DEF WriteElsewhere
  <2> QED BY <1>0, <1>3, <2>1 DEF WriteElsewhere, Shape
<1>4. ASSUME NEW n \in Nodes, NodeStep(n) PROVE Shape'
  <2>0. Latest' = Latest
    BY <1>4 DEF NodeStep, Boot, Load, Install, ReadVersion, Reloaded, Latest
  <2>1. CASE Boot(n)
    <3>1. reload' \in [Nodes -> {"none", "loading", "installing", "versioning"}]
      BY <2>1, JoinStep DEF Boot, Shape
    <3>2. UNCHANGED <<log, snap, poll, missed, reqVars, faults>>
      BY <2>1 DEF Boot
    <3>3. /\ up' \in [Nodes -> {"down", "booting", "up"}]
          /\ installed' \in [Nodes -> 0 .. Latest]
      BY <1>0, <2>1 DEF Boot, Shape
    <3> QED BY <2>0, <3>1, <3>2, <3>3 DEF Shape
  <2>2. CASE Load(n)
    BY <1>0, <2>0, <2>2 DEF Load, Shape
  <2>3. CASE Install(n)
    BY <1>0, <2>0, <2>3 DEF Install, Shape
  <2>4. CASE ReadVersion(n)
    BY <1>0, <2>0, <2>4 DEF ReadVersion, Shape
  <2>5. CASE Reloaded(n)
    BY <1>0, <2>0, <2>5 DEF Reloaded, Settle, Shape
  <2> QED BY <1>4, <2>1, <2>2, <2>3, <2>4, <2>5 DEF NodeStep
<1>5. ASSUME NEW n \in Nodes, PollStep(n) PROVE Shape'
  <2>0. Latest' = Latest
    BY <1>5 DEF PollStep, Poll, PollReads, PollCompares, Latest
  <2>1. CASE Poll(n) \/ PollReads(n)
    BY <1>0, <2>0, <2>1 DEF Poll, PollReads, Shape
  <2>2. CASE PollCompares(n)
    <3>1. reload' \in [Nodes -> {"none", "loading", "installing", "versioning"}]
      BY <2>2, JoinStep DEF PollCompares, Shape
    <3> QED BY <1>0, <2>0, <2>2, <3>1 DEF PollCompares, Shape
  <2> QED BY <1>5, <2>1, <2>2 DEF PollStep
<1>6. ASSUME NEW n \in Nodes, Failure(n) PROVE Shape'
  <2>0. Latest' = Latest
    BY <1>6 DEF Failure, ReloadFails, PollFails, Crash, Latest
  <2>1. CASE ReloadFails(n)
    BY <1>0, <2>0, <2>1 DEF ReloadFails, Settle, Fault, Shape
  <2>2. CASE PollFails(n)
    BY <1>0, <2>0, <2>2 DEF PollFails, Fault, Shape
  <2>3. CASE Crash(n)
    BY <1>0, <2>0, <2>3 DEF Crash, Settle, Fault, Shape
  <2> QED BY <1>6, <2>1, <2>2, <2>3 DEF Failure
<1> QED BY <1>1, <1>2, <1>3, <1>4, <1>5, <1>6 DEF Next

LEMMA InitShape == Init => Shape
<1> SUFFICES ASSUME Init PROVE Shape
  OBVIOUS
<1>1. log \in Seq(Tables) /\ Latest = 1
  <2>1. [s \in Systems |-> None] \in Tables
    BY DEF Tables
  <2> QED BY <2>1 DEF Init, Latest
<1> QED BY <1>1, RegistryAssumption DEF Init, Shape

\* The table log, the reloads, polls and requests of ConnectorRegistry keep
\* their types.
THEOREM ShapeCorrect == Spec => []Shape
<1> QED BY InitShape, ShapeStep, PTL DEF Spec

\* Every action keeps the invariant: nodes first, then requests.
LEMMA Inductive == IInv /\ [Next]_vars => IInv'
<1> SUFFICES ASSUME IInv, [Next]_vars PROVE IInv'
  OBVIOUS
<1>0. Shape'
  BY ShapeStep DEF IInv
<1>t. Latest \in Nat /\ Latest \in 1 .. MaxCommits
  BY RegistryAssumption DEF IInv, Shape
<1> SUFFICES /\ \A m \in Nodes : OneReload(m)'
             /\ \A q \in Requests : Served(q)'
  BY <1>0 DEF IInv
<1> USE RegistryAssumption, <1>t DEF nodeVars, reqVars, IInv
<1>1. CASE UNCHANGED vars
  BY <1>1 DEF vars, OneReload, Served, Covers
<1>2. ASSUME NEW r \in Requests, NEW n \in Nodes, Write(r, n)
      PROVE  /\ \A m \in Nodes : OneReload(m)'
             /\ \A q \in Requests : Served(q)'
  <2>1. \A m \in Nodes : OneReload(m)'
    BY <1>2, JoinStep DEF Write, Committed, OneReload, Shape
  <2>2. ASSUME NEW q \in Requests PROVE Served(q)'
    <3>1. CASE q = r
      BY <1>2, JoinStep, <3>1 DEF Write, Committed, OneReload, Served, Covers, Shape
    <3>2. CASE q # r
      <4>1. /\ req'[q] = req[q] /\ at'[q] = at[q] /\ commit'[q] = commit[q]
            /\ q \in joined' <=> q \in joined
            /\ UNCHANGED <<up, snap, installed>>
        BY <1>2, <3>2 DEF Write, Committed, Shape
      <4>2. \A m \in Nodes : reload[m] # "none" => reload'[m] = reload[m]
        BY <1>2, JoinStep DEF Write, Committed
      <4>3. \A m \in Nodes : up[m] = "booting" /\ reload[m] = "none" => reload'[m] = "none"
        BY <1>2, JoinStep DEF Write, Committed
      <4> QED BY <4>1, <4>2, <4>3 DEF Served, Covers, Shape
    <3> QED BY <3>1, <3>2
  <2> QED BY <2>1, <2>2
<1>3. CASE WriteElsewhere
  BY <1>3 DEF WriteElsewhere, OneReload, Served, Covers
<1>4. ASSUME NEW n \in Nodes, NodeStep(n)
      PROVE  /\ \A m \in Nodes : OneReload(m)'
             /\ \A q \in Requests : Served(q)'
  <2>1. CASE Boot(n)
    <3>1. \A m \in Nodes : OneReload(m)'
      BY <2>1, JoinStep DEF Boot, OneReload, Shape
    <3>2. \A q \in Requests : Served(q)'
      BY <2>1, JoinStep DEF Boot, OneReload, Served, Covers, Shape
    <3> QED BY <3>1, <3>2
  <2>2. CASE Load(n)
    <3>1. \A m \in Nodes : OneReload(m)'
      BY <2>2 DEF Load, OneReload, Shape
    <3>2. \A q \in Requests : Served(q)'
      BY <2>2 DEF Load, OneReload, Served, Covers, Shape
    <3> QED BY <3>1, <3>2
  <2>3. CASE Install(n)
    <3>1. \A m \in Nodes : OneReload(m)'
      BY <2>3 DEF Install, OneReload, Shape
    <3>2. \A q \in Requests : Served(q)'
      BY <2>3 DEF Install, OneReload, Served, Covers, Shape
    <3> QED BY <3>1, <3>2
  <2>4. CASE ReadVersion(n)
    <3>1. \A m \in Nodes : OneReload(m)'
      BY <2>4 DEF ReadVersion, OneReload, Shape
    <3>2. \A q \in Requests : Served(q)'
      BY <2>4 DEF ReadVersion, OneReload, Served, Covers, Shape
    <3> QED BY <3>1, <3>2
  <2>5. CASE Reloaded(n)
    <3>1. \A m \in Nodes : OneReload(m)'
      BY <2>5 DEF Reloaded, Settle, OneReload, Shape
    <3>2. \A q \in Requests : Served(q)'
      BY <2>5 DEF Reloaded, Settle, OneReload, Served, Covers, Shape
    <3> QED BY <3>1, <3>2
  <2> QED BY <1>4, <2>1, <2>2, <2>3, <2>4, <2>5 DEF NodeStep
<1>5. ASSUME NEW n \in Nodes, PollStep(n)
      PROVE  /\ \A m \in Nodes : OneReload(m)'
             /\ \A q \in Requests : Served(q)'
  <2>1. CASE Poll(n) \/ PollReads(n)
    <3>1. \A m \in Nodes : OneReload(m)'
      BY <2>1 DEF Poll, PollReads, OneReload, Shape
    <3>2. \A q \in Requests : Served(q)'
      BY <2>1 DEF Poll, PollReads, OneReload, Served, Covers, Shape
    <3> QED BY <3>1, <3>2
  <2>2. CASE PollCompares(n)
    <3>1. \A m \in Nodes : OneReload(m)'
      BY <2>2, JoinStep DEF PollCompares, OneReload, Shape
    <3>2. \A q \in Requests : Served(q)'
      <4>1. UNCHANGED <<up, snap, installed, req, at, commit, joined>>
        BY <2>2 DEF PollCompares
      <4>2. \A m \in Nodes : reload[m] # "none" => reload'[m] = reload[m]
        BY <2>2, JoinStep DEF PollCompares
      <4> QED BY <4>1, <4>2 DEF Served, Covers, Shape
    <3> QED BY <3>1, <3>2
  <2> QED BY <1>5, <2>1, <2>2 DEF PollStep
<1>6. ASSUME NEW n \in Nodes, Failure(n)
      PROVE  /\ \A m \in Nodes : OneReload(m)'
             /\ \A q \in Requests : Served(q)'
  <2>1. CASE ReloadFails(n)
    <3>1. \A m \in Nodes : OneReload(m)'
      BY <2>1 DEF ReloadFails, Settle, OneReload, Shape
    <3>2. \A q \in Requests : Served(q)'
      BY <2>1 DEF ReloadFails, Settle, OneReload, Served, Covers, Shape
    <3> QED BY <3>1, <3>2
  <2>2. CASE PollFails(n)
    <3>1. \A m \in Nodes : OneReload(m)'
      BY <2>2 DEF PollFails, OneReload, Shape
    <3>2. \A q \in Requests : Served(q)'
      BY <2>2 DEF PollFails, OneReload, Served, Covers, Shape
    <3> QED BY <3>1, <3>2
  <2>3. CASE Crash(n)
    <3>1. \A m \in Nodes : OneReload(m)'
      BY <2>3 DEF Crash, Settle, OneReload, Shape
    <3>2. \A q \in Requests : Served(q)'
      BY <2>3 DEF Crash, Settle, OneReload, Served, Covers, Shape
    <3> QED BY <3>1, <3>2
  <2> QED BY <1>6, <2>1, <2>2, <2>3 DEF Failure
<1> QED BY <1>1, <1>2, <1>3, <1>4, <1>5, <1>6 DEF Next

LEMMA InvariantHolds == Spec => []IInv
<1>1. Init => IInv
  BY InitShape DEF Init, IInv, OneReload, Served, Covers
<1> QED BY <1>1, Inductive, PTL DEF Spec

\* While a node is up its map never goes back to an older table: the rows a
\* reload installs are no older than the map they replace.
THEOREM MapNeverGoesBack == Spec => NeverBack
<1>1. ASSUME IInv, [Next]_vars, NEW n \in Nodes, up[n] = "up", up'[n] = "up"
      PROVE  installed'[n] >= installed[n]
  <2>0. installed[n] \in Nat
    BY <1>1 DEF IInv, Shape
  <2>1. CASE \E m \in Nodes : Install(m)
    <3>1. PICK m \in Nodes : Install(m)
      BY <2>1
    <3>2. CASE m = n
      BY <1>1, <3>1, <3>2 DEF Install, IInv, OneReload, Shape
    <3>3. CASE m # n
      BY <2>0, <3>1, <3>3, <1>1 DEF Install, IInv, Shape
    <3> QED BY <3>2, <3>3
  <2>2. CASE \E m \in Nodes : Boot(m)
    <3>1. PICK m \in Nodes : Boot(m) /\ m # n
      BY <1>1, <2>2 DEF Boot
    <3> QED BY <2>0, <3>1, <1>1 DEF Boot, IInv, Shape
  <2>3. CASE ~(\E m \in Nodes : Install(m) \/ Boot(m))
    <3>1. UNCHANGED installed
      BY <1>1, <2>3 DEF Next, vars, nodeVars, NodeStep, PollStep, Failure, Write, Committed,
         WriteElsewhere, Load, ReadVersion, Reloaded, Poll, PollReads, PollCompares,
         ReloadFails, PollFails, Crash
    <3> QED BY <2>0, <3>1
  <2> QED BY <2>1, <2>2, <2>3
<1>2. IInv /\ [Next]_vars =>
        [\A n \in Nodes : up[n] = "up" /\ up'[n] = "up" => installed'[n] >= installed[n]]_vars
  BY <1>1
<1> QED BY <1>2, InvariantHolds, PTL DEF Spec, NeverBack

\* A CRUD request whose own reload succeeded is answered with its change, or a
\* later one, in the map of the node that served it.
THEOREM AnswersAreInstalled == Spec => []AnsweredIsInstalled
<1>1. IInv => AnsweredIsInstalled
  BY DEF IInv, Shape, Served, AnsweredIsInstalled
<1> QED BY <1>1, InvariantHolds, PTL

\* A CRUD request that waits always has a reload to wait for.
THEOREM NobodyLeftWaiting == Spec => []WaitersHaveReload
<1>1. IInv => WaitersHaveReload
  BY DEF IInv, Served, WaitersHaveReload
<1> QED BY <1>1, InvariantHolds, PTL
=============================================================================
