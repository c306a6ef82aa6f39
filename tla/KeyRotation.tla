----------------------------- MODULE KeyRotation -----------------------------
(***************************************************************************)
(* Encryption keys: EncryptionRotationService.rotateToActiveKey (the CLI), *)
(* the start-up check of PrismaService.validateEncryptionState, the nodes  *)
(* that encrypt rows under their active key, and the operator who follows  *)
(* docs/SECURITY_TLS_ENCRYPTION.md.                                        *)
(*                                                                         *)
(* A row is reduced to the id of the key it is encrypted under, Kafka      *)
(* messages and idempotency keys to the set of keys they exist under.      *)
(* Every await of the CLI is a step boundary; each row is read with its    *)
(* table and written back alone.                                           *)
(***************************************************************************)
EXTENDS Integers, FiniteSets

CONSTANTS Audits, Dlqs, Targets, \* rows of AuditLog, DlqItem, TargetSystem
          Hosts,                 \* rows of LinuxHost
          Keys,                  \* key ids
          FirstKey,              \* the key encryption was enabled with
          Nodes,                 \* idmMw processes
          None,
          MaxWrites,  \* bound: rows and messages written by nodes, rows deleted
          MaxChoices, \* bound: changes of ENCRYPTION_ACTIVE_KEY_ID
          MaxFaults   \* bound: failed statements and crashes of the CLI

Rotated == Audits \cup Dlqs \cup Targets
Rows    == Rotated \cup Hosts

ASSUME RotationAssumption ==
  /\ Audits \cap Dlqs = {} /\ Audits \cap Targets = {} /\ Dlqs \cap Targets = {}
  /\ Rotated \cap Hosts = {}
  /\ FirstKey \in Keys /\ None \notin Keys
  /\ MaxWrites \in Nat /\ MaxChoices \in Nat /\ MaxFaults \in Nat

VARIABLES
  active, previous, rotation, \* the EncryptionState row
  halted,     \* history: what has left the state unfinished with nothing to run
  kid,        \* the key each row is encrypted under; None: no such row
  open,       \* DLQ rows pending or retrying
  work,       \* the keys of Kafka messages and idempotency keys not yet gone
  unseen,     \* those of idempotency keys in Redis, which the CLI does not count
  available,  \* ENCRYPTION_KEYS
  chosen,     \* ENCRYPTION_ACTIVE_KEY_ID
  act, ring,  \* node: its active key, None when down, and its keyring
  pc,         \* where the CLI is
  target,     \* the CLI's active key, None when it does not run
  from, prev, \* the EncryptionState the CLI loaded
  checked,    \* the counts of assertNoActiveProcessing that were zero
  table,      \* 1 AuditLog, 2 DlqItem, 3 TargetSystem
  todo,       \* rows of the table still to be written back
  sealed,     \* those of them that were read under a key the keyring does not have
  strayed,    \* history: rows last written while the CLI was rotating, or by a
              \* node whose active key is no longer the database's
  writes, choices, faults \* counters of the bounds

stateVars == <<active, previous, rotation, halted>>
dataVars  == <<kid, open, work, unseen, strayed>>
envVars   == <<available, chosen, act, ring>>
cliVars   == <<pc, target, from, prev, checked, table, todo, sealed>>
bounds    == <<writes, choices, faults>>
vars == <<stateVars, dataVars, envVars, cliVars, bounds>>

\* The CLI has marked the state as running and not left the try block.
InTry == {"reading", "rewriting", "completing"}
PCs   == InTry \cup {"idle", "checking", "marking", "failing"}
Counts == {"dlq", "work"}
Halts  == {"answerLost", "turnedBack"}

TypeOK ==
  /\ active \in Keys /\ previous \subseteq Keys
  /\ rotation \in {"completed", "running", "failed"}
  /\ halted \subseteq Halts
  /\ kid \in [Rows -> Keys \cup {None}]
  /\ open \subseteq Dlqs /\ work \subseteq Keys /\ unseen \subseteq Keys /\ strayed \subseteq Rows
  /\ available \subseteq Keys /\ chosen \in Keys
  /\ act \in [Nodes -> Keys \cup {None}] /\ ring \in [Nodes -> SUBSET Keys]
  /\ pc \in PCs
  /\ target \in Keys \cup {None} /\ from \in Keys \cup {None} /\ prev \subseteq Keys
  /\ pc # "idle" => target \in Keys /\ from \in Keys
  /\ checked \subseteq Counts /\ table \in 1 .. 3
  /\ todo \subseteq Rotated /\ sealed \subseteq Rotated
  /\ writes \in 0 .. MaxWrites /\ choices \in 0 .. MaxChoices /\ faults \in 0 .. MaxFaults

Init ==
  /\ active = FirstKey /\ previous = {} /\ rotation = "completed" /\ halted = {}
  /\ kid = [r \in Rows |-> None]
  /\ open = {} /\ work = {} /\ unseen = {} /\ strayed = {}
  /\ available = Keys /\ chosen = FirstKey
  /\ act = [n \in Nodes |-> None] /\ ring = [n \in Nodes |-> {}]
  /\ pc = "idle" /\ target = None /\ from = None /\ prev = {}
  /\ checked = {} /\ table = 1 /\ todo = {} /\ sealed = {}
  /\ writes = 0 /\ choices = 0 /\ faults = 0

Budget == writes < MaxWrites /\ writes' = writes + 1
Fault  == faults < MaxFaults /\ faults' = faults + 1

\* The CLI ends, and with it what it had in memory.
Exit == /\ pc' = "idle" /\ target' = None /\ from' = None /\ prev' = {}
        /\ checked' = {} /\ table' = 1 /\ todo' = {} /\ sealed' = {}

-----------------------------------------------------------------------------
(***************************************************************************)
(* Nodes.                                                                  *)
(***************************************************************************)
\* validateConfiguration and validateEncryptionState: the keyring has the
\* configured key and the database's, and the two are the same.
Boot(n) ==
  /\ act[n] = None
  /\ chosen \in available /\ active \in available /\ chosen = active
  /\ act' = [act EXCEPT ![n] = chosen]
  /\ ring' = [ring EXCEPT ![n] = available]
  /\ UNCHANGED <<stateVars, dataVars, available, chosen, cliVars, bounds>>

Stop(n) ==
  /\ act[n] # None
  /\ act' = [act EXCEPT ![n] = None]
  /\ ring' = [ring EXCEPT ![n] = {}]
  /\ UNCHANGED <<stateVars, dataVars, available, chosen, cliVars, bounds>>

\* JsonHelper.toJson: node n writes row r under its active key.
Encrypt(n, r) ==
  /\ act[n] # None
  /\ Budget
  /\ kid' = [kid EXCEPT ![r] = act[n]]
  /\ strayed' = IF pc \in InTry \/ act[n] # active THEN strayed \cup {r} ELSE strayed \ {r}
  /\ UNCHANGED <<stateVars, work, unseen, envVars, cliVars, choices, faults>>

\* The audit row of a request, written after its answer.
AuditRequest(n, r) == kid[r] = None /\ Encrypt(n, r) /\ UNCHANGED open

AddDlqItem(n, r) == kid[r] = None /\ Encrypt(n, r) /\ open' = open \cup {r}

\* The update of a target system decrypts the stored config, that of a host
\* does not look at the stored metadata.
SaveTarget(n, r) == kid[r] \in ring[n] \cup {None} /\ Encrypt(n, r) /\ UNCHANGED open
SaveHost(n, r)   == Encrypt(n, r) /\ UNCHANGED open

\* A target system or a host is deleted.
DeleteRow(n, r) ==
  /\ act[n] # None
  /\ kid[r] # None
  /\ Budget
  /\ kid' = [kid EXCEPT ![r] = None]
  /\ UNCHANGED <<stateVars, open, work, unseen, strayed, envVars, cliVars, choices, faults>>

\* A DLQ row is resolved or skipped.
Settle(n, r) ==
  /\ act[n] # None /\ r \in open
  /\ open' = open \ {r}
  /\ UNCHANGED <<stateVars, kid, work, unseen, strayed, envVars, cliVars, bounds>>

\* An event goes to a topic or takes an idempotency key, in PostgreSQL or in
\* Redis, under the node's key.
Accept(n) ==
  /\ act[n] # None
  /\ Budget
  /\ \/ act[n] \notin work /\ work' = work \cup {act[n]} /\ UNCHANGED unseen
     \/ act[n] \notin unseen /\ unseen' = unseen \cup {act[n]} /\ UNCHANGED work
  /\ UNCHANGED <<stateVars, kid, open, strayed, envVars, cliVars, choices, faults>>

\* The messages under k are consumed, the idempotency keys expire.
Drain(k) ==
  /\ \/ k \in work /\ work' = work \ {k} /\ UNCHANGED unseen
     \/ k \in unseen /\ unseen' = unseen \ {k} /\ UNCHANGED work
  /\ UNCHANGED <<stateVars, kid, open, strayed, envVars, cliVars, bounds>>

-----------------------------------------------------------------------------
(***************************************************************************)
(* The operator: a new active key, or back to an old one; removal of a key *)
(* under the documented conditions.                                        *)
(***************************************************************************)
Choose(k) ==
  /\ k \in available \ {chosen}
  /\ choices < MaxChoices /\ choices' = choices + 1
  /\ chosen' = k
  /\ halted' = IF k = active THEN halted \cup {"turnedBack"} ELSE halted
  /\ UNCHANGED <<active, previous, rotation, dataVars, available, act, ring, cliVars,
                 writes, faults>>

RemoveKey(k) ==
  /\ k \in available \ {active, chosen}
  /\ rotation = "completed" /\ pc = "idle"
  /\ k \notin work \cup unseen
  /\ available' = available \ {k}
  /\ UNCHANGED <<stateVars, dataVars, chosen, act, ring, cliVars, bounds>>

-----------------------------------------------------------------------------
(***************************************************************************)
(* rotateToActiveKey                                                       *)
(***************************************************************************)
\* previousKeyIds: variant that forgets the stored ones, and the code.
PreviousKeyIdsLast(k, stored) == {k}
PreviousKeyIds(k, stored) == {k} \cup stored

\* Variant: a run that finds a rotation running goes away.
StartUnlessRunning ==
  /\ pc = "idle" /\ chosen \in available /\ active \in available
  /\ chosen # active /\ rotation # "running"
  /\ target' = chosen /\ from' = active /\ prev' = previous
  /\ pc' = "checking" /\ checked' = {}
  /\ UNCHANGED <<stateVars, dataVars, envVars, table, todo, sealed, bounds>>

\* The CLI starts in rotation mode, where the two keys may differ, and loads
\* the state; when they do not differ it returns.
Start ==
  /\ pc = "idle" /\ chosen \in available /\ active \in available
  /\ chosen # active
  /\ target' = chosen /\ from' = active /\ prev' = previous
  /\ pc' = "checking" /\ checked' = {}
  /\ UNCHANGED <<stateVars, dataVars, envVars, table, todo, sealed, bounds>>

\* assertNoActiveProcessing: its queries run side by side, one that does not
\* find zero ends the run.  Idempotency keys are counted in PostgreSQL only.
NoneActive(c) == IF c = "dlq" THEN open = {} ELSE work = {}
Check(c) ==
  /\ pc = "checking" /\ c \notin checked
  /\ IF NoneActive(c)
     THEN /\ checked' = checked \cup {c}
          /\ pc' = IF checked \cup {c} = Counts THEN "marking" ELSE "checking"
          /\ UNCHANGED <<target, from, prev, table, todo, sealed>>
     ELSE Exit
  /\ UNCHANGED <<stateVars, dataVars, envVars, bounds>>

\* markRotation('running')
Mark ==
  /\ pc = "marking"
  /\ rotation' = "running" /\ previous' = PreviousKeyIds(from, prev)
  /\ pc' = "reading" /\ table' = 1 /\ todo' = {} /\ sealed' = {}
  /\ UNCHANGED <<active, halted, dataVars, envVars, target, from, prev, checked, bounds>>

\* findMany of one table: variant that takes the open DLQ rows only, and the code.
RowsOfOpen(t) == {r \in (IF t = 1 THEN Audits ELSE IF t = 2 THEN open ELSE Targets) : kid[r] # None}
RowsOf(t) == {r \in (IF t = 1 THEN Audits ELSE IF t = 2 THEN Dlqs ELSE Targets) : kid[r] # None}

ReadTable ==
  /\ pc = "reading"
  /\ todo' = RowsOf(table)
  /\ sealed' = {r \in RowsOf(table) : kid[r] \notin available}
  /\ pc' = "rewriting"
  /\ UNCHANGED <<stateVars, dataVars, envVars, target, from, prev, checked, table, bounds>>

\* toJson(fromJson(row)), written back.
Rewrite(r) ==
  /\ pc = "rewriting" /\ r \in todo \ sealed
  /\ kid[r] # None
  /\ kid' = [kid EXCEPT ![r] = target]
  /\ todo' = todo \ {r}
  /\ strayed' = strayed \ {r}
  /\ UNCHANGED <<stateVars, open, work, unseen, envVars, pc, target, from, prev, checked, table, sealed, bounds>>

\* The row was deleted since, or read under a key the keyring does not have.
RewriteThrows(r) ==
  /\ pc = "rewriting" /\ r \in todo
  /\ r \in sealed \/ kid[r] = None
  /\ pc' = "failing"
  /\ UNCHANGED <<stateVars, dataVars, envVars, target, from, prev, checked, table, todo, sealed, bounds>>

TableDone ==
  /\ pc = "rewriting" /\ todo = {}
  /\ IF table = 3 THEN pc' = "completing" /\ UNCHANGED table
     ELSE pc' = "reading" /\ table' = table + 1
  /\ UNCHANGED <<stateVars, dataVars, envVars, target, from, prev, checked, todo, sealed, bounds>>

\* completeRotation
Complete ==
  /\ pc = "completing"
  /\ active' = target /\ previous' = PreviousKeyIds(from, prev) /\ rotation' = "completed"
  /\ halted' = {}
  /\ Exit
  /\ UNCHANGED <<dataVars, envVars, bounds>>

\* A statement throws: before the try block the run just ends, in it the
\* rotation is marked as failed.  completeRotation may have taken effect.
StatementThrows ==
  /\ pc \in {"checking", "marking"} \cup InTry
  /\ Fault
  /\ IF pc \in InTry
     THEN pc' = "failing" /\ UNCHANGED <<target, from, prev, checked, table, todo, sealed>>
     ELSE Exit
  /\ \/ UNCHANGED stateVars
     \/ /\ pc = "completing"
        /\ active' = target /\ previous' = PreviousKeyIds(from, prev)
        /\ rotation' = "completed" /\ halted' = {"answerLost"}
  /\ UNCHANGED <<dataVars, envVars, writes, choices>>

\* Variant: the finally block marks the rotation as completed.
MarkFailedAsCompleted ==
  /\ pc = "failing"
  /\ rotation' = "completed" /\ previous' = PreviousKeyIds(from, prev)
  /\ Exit
  /\ UNCHANGED <<active, halted, dataVars, envVars, bounds>>

\* markRotation('failed')
MarkFailed ==
  /\ pc = "failing"
  /\ rotation' = "failed" /\ previous' = PreviousKeyIds(from, prev)
  /\ Exit
  /\ UNCHANGED <<active, halted, dataVars, envVars, bounds>>

\* The process dies, or markRotation('failed') throws.
Crash ==
  /\ pc # "idle"
  /\ Fault
  /\ Exit
  /\ UNCHANGED <<stateVars, dataVars, envVars, writes, choices>>

CliStep == \/ Start \/ (\E c \in Counts : Check(c)) \/ Mark \/ ReadTable
           \/ (\E r \in Rotated : Rewrite(r) \/ RewriteThrows(r))
           \/ TableDone \/ Complete \/ MarkFailed

NodeStep(n) == \/ Boot(n) \/ Stop(n) \/ Accept(n)
               \/ \E r \in Audits : AuditRequest(n, r)
               \/ \E r \in Dlqs : AddDlqItem(n, r) \/ Settle(n, r)
               \/ \E r \in Targets : SaveTarget(n, r)
               \/ \E r \in Hosts : SaveHost(n, r)
               \/ \E r \in Targets \cup Hosts : DeleteRow(n, r)

Next ==
  \/ \E n \in Nodes : NodeStep(n)
  \/ \E k \in Keys : Drain(k) \/ Choose(k) \/ RemoveKey(k)
  \/ CliStep \/ StatementThrows \/ Crash

Spec == Init /\ [][Next]_vars

\* The operator runs the CLI, again after a failure, until it has nothing to
\* do; statements return.
FairSpec == Spec /\ WF_vars(CliStep)

-----------------------------------------------------------------------------
(***************************************************************************)
(* The invariant behind the safety properties.                             *)
(***************************************************************************)
Recorded == {active, None} \cup previous
Loose    == Rotated \ strayed

\* What the CLI loaded is what the database says, and no key in use is removed.
CliIsCurrent ==
  /\ active \in available /\ chosen \in available
  /\ pc # "idle" => target \in available
  /\ pc \in {"checking", "marking"} => from = active /\ prev = previous
  /\ pc \in InTry => from = active /\ rotation = "running"
  /\ pc \in InTry \cup {"failing"} => previous = {from} \cup prev

\* Whatever nodes write is under a recorded key.
NodesRecorded ==
  /\ \A n \in Nodes : act[n] \in Recorded
  /\ \A r \in strayed \cup Hosts : kid[r] \in Recorded
  /\ work \cup unseen \subseteq {active} \cup previous

\* The rows the rotation is done with are under the new key.
Place(r) == IF r \in Audits THEN 1 ELSE IF r \in Dlqs THEN 2 ELSE 3
Done(r)  == \/ pc = "completing"
            \/ pc \in {"reading", "rewriting"} /\ Place(r) < table
            \/ pc = "rewriting" /\ Place(r) = table /\ r \notin todo
RowsFollow ==
  /\ \A r \in Loose : kid[r] \in available \cup {None}
  /\ rotation = "completed" => \A r \in Loose : kid[r] \in {active, None}
  /\ \A r \in Loose : Done(r) => kid[r] \in {target, None}

IInv == TypeOK /\ CliIsCurrent /\ NodesRecorded /\ RowsFollow

-----------------------------------------------------------------------------
(***************************************************************************)
(* Properties.                                                             *)
(***************************************************************************)
\* A completed rotation left every row of the three tables under the active
\* key, whatever failed, was rerun or rolled back before, except rows written
\* by a node that ran through it.
CompletedMeansActive ==
  rotation = "completed" =>
    \A r \in Rotated \ strayed : kid[r] \in {active, None}

\* EncryptionState names every key a row, a message or an idempotency key is
\* still under, hosts included, over any number of rotations.
KeysRecorded ==
  rotation = "completed" =>
    /\ \A r \in Rows : kid[r] \in {active, None} \cup previous
    /\ work \cup unseen \subseteq {active} \cup previous

\* Removing keys as documented leaves every row of the three tables readable,
\* also when a rotation fails half-way and another is begun.
Readable == \A r \in Rotated \ strayed : kid[r] \in available \cup {None}

\* An interrupted or failed rotation is completed by running the CLI again,
\* once the DLQ, the topics and the counted keys are empty: the chosen key
\* becomes the database's and the state says completed.  The CLI decides by the
\* active key alone whether there is anything to do, so two states are left
\* that no run completes, and they are the only ones: completeRotation took
\* effect, its answer was lost and the catch marked the rotation as failed; the
\* operator went back to the database's key in the middle.  A stray row whose
\* key is gone fails every run.
RerunConverges ==
  <>[](open = {} /\ work = {} =>
         \/ active = chosen /\ (rotation = "completed" \/ halted # {})
         \/ \E r \in strayed : kid[r] \notin available \cup {None})

\* "re-encrypts DB storage fields with the new active key": all of them.
HostsRotated ==
  rotation = "completed" => \A r \in Hosts \ strayed : kid[r] \in {active, None}
=============================================================================
