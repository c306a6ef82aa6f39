------------------------------ MODULE ToolProofs ------------------------------
(***************************************************************************)
(* Proofs about the two programs that an operator runs from the command    *)
(* line: the key rotation CLI (KeyRotation), for any rows, keys, nodes and *)
(* bounds, and the live check script (LiveScript), for any logins, tenants *)
(* and bounds.                                                             *)
(***************************************************************************)
EXTENDS KeyRotation, LiveScript, FiniteSetTheorems, FunctionTheorems, TLAPS

-----------------------------------------------------------------------------
(***************************************************************************)
(* KeyRotation                                                             *)
(***************************************************************************)
\* Every action keeps every variable in its type.
LEMMA TypeStep == TypeOK /\ [Next]_vars => TypeOK'
<1> SUFFICES ASSUME TypeOK, [Next]_vars PROVE TypeOK'
  OBVIOUS
<1> USE RotationAssumption
    DEF TypeOK, stateVars, dataVars, envVars, cliVars, bounds, PCs, InTry, Counts, Halts, Rows, Rotated,
        Budget, Fault, Exit, PreviousKeyIds
<1>1. CASE UNCHANGED vars
  BY <1>1 DEF vars
<1>2. ASSUME NEW n \in Nodes, Boot(n) PROVE TypeOK'
  BY <1>2 DEF Boot
<1>3. ASSUME NEW n \in Nodes, Stop(n) PROVE TypeOK'
  BY <1>3 DEF Stop
<1>4. ASSUME NEW n \in Nodes, Accept(n) PROVE TypeOK'
  BY <1>4 DEF Accept
<1>5. ASSUME NEW n \in Nodes, NEW r \in Audits, AuditRequest(n, r) PROVE TypeOK'
  BY <1>5 DEF AuditRequest, Encrypt
<1>6. ASSUME NEW n \in Nodes, NEW r \in Dlqs, AddDlqItem(n, r) PROVE TypeOK'
  BY <1>6 DEF AddDlqItem, Encrypt
<1>7. ASSUME NEW n \in Nodes, NEW r \in Targets, SaveTarget(n, r) PROVE TypeOK'
  BY <1>7 DEF SaveTarget, Encrypt
<1>8. ASSUME NEW n \in Nodes, NEW r \in Hosts, SaveHost(n, r) PROVE TypeOK'
  BY <1>8 DEF SaveHost, Encrypt
<1>9. ASSUME NEW n \in Nodes, NEW r \in Targets \cup Hosts, DeleteRow(n, r) PROVE TypeOK'
  BY <1>9 DEF DeleteRow
<1>10. ASSUME NEW n \in Nodes, NEW r \in Dlqs, Settle(n, r) PROVE TypeOK'
  BY <1>10 DEF Settle
<1>11. ASSUME NEW k \in Keys, Drain(k) PROVE TypeOK'
  BY <1>11 DEF Drain
<1>12. ASSUME NEW k \in Keys, Choose(k) PROVE TypeOK'
  BY <1>12 DEF Choose
<1>13. ASSUME NEW k \in Keys, RemoveKey(k) PROVE TypeOK'
  BY <1>13 DEF RemoveKey
<1>14. CASE Start
  BY <1>14 DEF Start
<1>15. ASSUME NEW c \in Counts, Check(c) PROVE TypeOK'
  <2>1. CASE NoneActive(c)
    BY <1>15, <2>1 DEF Check
  <2>2. CASE ~NoneActive(c)
    BY <1>15, <2>2 DEF Check
  <2> QED BY <2>1, <2>2
<1>16. CASE Mark
  BY <1>16 DEF Mark
<1>17. CASE ReadTable
  BY <1>17 DEF ReadTable, RowsOf
<1>18. ASSUME NEW r \in Rotated, Rewrite(r) PROVE TypeOK'
  BY <1>18 DEF Rewrite
<1>19. ASSUME NEW r \in Rotated, RewriteThrows(r) PROVE TypeOK'
  BY <1>19 DEF RewriteThrows
<1>20. CASE TableDone
  BY <1>20 DEF TableDone
<1>21. CASE Complete
  BY <1>21 DEF Complete
<1>22. CASE StatementThrows
  <2>1. /\ active' \in Keys /\ previous' \subseteq Keys
        /\ rotation' \in {"completed", "running", "failed"} /\ halted' \subseteq Halts
    <3>1. CASE UNCHANGED stateVars
      BY <3>1
    <3>2. CASE pc = "completing" /\ active' = target
                 /\ previous' = PreviousKeyIds(from, prev) /\ rotation' = "completed"
                 /\ halted' = {"answerLost"}
      BY <3>2
    <3> QED BY <1>22, <3>1, <3>2 DEF StatementThrows
  <2>2. CASE pc \in InTry
    <3>1. pc' = "failing" /\ UNCHANGED <<target, from, prev, checked, table, todo, sealed>>
      BY <1>22, <2>2 DEF StatementThrows
    <3>2. UNCHANGED <<dataVars, envVars, writes, choices>> /\ Fault
      BY <1>22 DEF StatementThrows
    <3> QED BY <2>1, <2>2, <3>1, <3>2
  <2>3. CASE pc \notin InTry
    BY <1>22, <2>1, <2>3 DEF StatementThrows
  <2> QED BY <2>2, <2>3
<1>23. CASE MarkFailed
  BY <1>23 DEF MarkFailed
<1>24. CASE Crash
  BY <1>24 DEF Crash
<1> QED BY <1>1, <1>2, <1>3, <1>4, <1>5, <1>6, <1>7, <1>8, <1>9, <1>10, <1>11, <1>12, <1>13,
       <1>14, <1>15, <1>16, <1>17, <1>18, <1>19, <1>20, <1>21, <1>22, <1>23, <1>24
   DEF Next, NodeStep, CliStep

\* The encryption state, rows, keyrings and the CLI of KeyRotation keep their
\* types.
THEOREM TypeCorrect == Spec => []TypeOK
<1>1. Init => TypeOK
  BY RotationAssumption DEF Init, TypeOK, PCs, InTry, Halts, Rows
<1> QED BY <1>1, TypeStep, PTL DEF Spec

\* A key that was recorded stays recorded.
LEMMA RecordedGrows ==
  ASSUME TypeOK, CliIsCurrent,
         \/ UNCHANGED stateVars
         \/ previous' = {from} \cup prev /\ active' \in {active, target}
              /\ (active' # active => from = active)
              /\ (pc = "marking" \/ previous = {from} \cup prev)
  PROVE  Recorded \subseteq Recorded'
BY DEF CliIsCurrent, Recorded, stateVars, TypeOK

\* What the CLI loaded stays what the database says.
LEMMA CliStepKeeps ==
  ASSUME TypeOK, TypeOK', CliIsCurrent, [Next]_vars
  PROVE  CliIsCurrent'
<1> USE RotationAssumption
    DEF TypeOK, stateVars, dataVars, envVars, cliVars, bounds, InTry, Exit, PreviousKeyIds, CliIsCurrent
<1>1. CASE UNCHANGED vars
  BY <1>1 DEF vars
<1>2. ASSUME NEW n \in Nodes, Boot(n) PROVE CliIsCurrent'
  BY <1>2 DEF Boot
<1>3. ASSUME NEW n \in Nodes, Stop(n) PROVE CliIsCurrent'
  BY <1>3 DEF Stop
<1>4. ASSUME NEW n \in Nodes, Accept(n) PROVE CliIsCurrent'
  BY <1>4 DEF Accept
<1>5. ASSUME NEW n \in Nodes, NEW r \in Audits, AuditRequest(n, r) PROVE CliIsCurrent'
  BY <1>5 DEF AuditRequest, Encrypt
<1>6. ASSUME NEW n \in Nodes, NEW r \in Dlqs, AddDlqItem(n, r) PROVE CliIsCurrent'
  BY <1>6 DEF AddDlqItem, Encrypt
<1>7. ASSUME NEW n \in Nodes, NEW r \in Targets, SaveTarget(n, r) PROVE CliIsCurrent'
  BY <1>7 DEF SaveTarget, Encrypt
<1>8. ASSUME NEW n \in Nodes, NEW r \in Hosts, SaveHost(n, r) PROVE CliIsCurrent'
  BY <1>8 DEF SaveHost, Encrypt
<1>9. ASSUME NEW n \in Nodes, NEW r \in Targets \cup Hosts, DeleteRow(n, r) PROVE CliIsCurrent'
  BY <1>9 DEF DeleteRow
<1>10. ASSUME NEW n \in Nodes, NEW r \in Dlqs, Settle(n, r) PROVE CliIsCurrent'
  BY <1>10 DEF Settle
<1>11. ASSUME NEW k \in Keys, Drain(k) PROVE CliIsCurrent'
  BY <1>11 DEF Drain
<1>12. ASSUME NEW k \in Keys, Choose(k) PROVE CliIsCurrent'
  BY <1>12 DEF Choose
<1>13. ASSUME NEW k \in Keys, RemoveKey(k) PROVE CliIsCurrent'
  BY <1>13 DEF RemoveKey
<1>14. CASE Start
  BY <1>14 DEF Start
<1>15. ASSUME NEW c \in Counts, Check(c) PROVE CliIsCurrent'
  <2>1. CASE NoneActive(c)
    BY <1>15, <2>1 DEF Check
  <2>2. CASE ~NoneActive(c)
    BY <1>15, <2>2 DEF Check
  <2> QED BY <2>1, <2>2
<1>16. CASE Mark
  BY <1>16 DEF Mark
<1>17. CASE ReadTable
  BY <1>17 DEF ReadTable, RowsOf
<1>18. ASSUME NEW r \in Rotated, Rewrite(r) PROVE CliIsCurrent'
  BY <1>18 DEF Rewrite
<1>19. ASSUME NEW r \in Rotated, RewriteThrows(r) PROVE CliIsCurrent'
  BY <1>19 DEF RewriteThrows
<1>20. CASE TableDone
  BY <1>20 DEF TableDone
<1>21. CASE Complete
  BY <1>21 DEF Complete
<1>22. CASE StatementThrows
  <2>1. CASE pc \in InTry
    <3>1. pc' = "failing" /\ UNCHANGED <<target, from, prev>>
      BY <1>22, <2>1 DEF StatementThrows
    <3>2. active' \in {active, target} /\ previous' = {from} \cup prev
      BY <1>22, <2>1 DEF StatementThrows
    <3>3. UNCHANGED <<available, chosen>>
      BY <1>22 DEF StatementThrows
    <3> QED BY <2>1, <3>1, <3>2, <3>3
  <2>2. CASE pc \notin InTry
    <3>1. pc' = "idle" /\ UNCHANGED stateVars
      BY <1>22, <2>2 DEF StatementThrows
    <3>2. UNCHANGED <<available, chosen>>
      BY <1>22 DEF StatementThrows
    <3> QED BY <3>1, <3>2
  <2> QED BY <2>1, <2>2
<1>23. CASE MarkFailed
  BY <1>23 DEF MarkFailed
<1>24. CASE Crash
  BY <1>24 DEF Crash
<1> QED BY <1>1, <1>2, <1>3, <1>4, <1>5, <1>6, <1>7, <1>8, <1>9, <1>10, <1>11, <1>12, <1>13,
       <1>14, <1>15, <1>16, <1>17, <1>18, <1>19, <1>20, <1>21, <1>22, <1>23, <1>24
   DEF Next, NodeStep, CliStep

\* Whatever nodes write stays under a recorded key.
LEMMA NodesRecordedKeeps ==
  ASSUME TypeOK, TypeOK', CliIsCurrent, NodesRecorded, [Next]_vars
  PROVE  NodesRecorded'
<1> USE RotationAssumption
    DEF TypeOK, stateVars, dataVars, envVars, cliVars, bounds, InTry, Exit, PreviousKeyIds
<1>1. CASE UNCHANGED vars
  BY <1>1 DEF vars, NodesRecorded, Recorded
<1>2. ASSUME NEW n \in Nodes, Boot(n) PROVE NodesRecorded'
  BY <1>2 DEF Boot, NodesRecorded, Recorded
<1>3. ASSUME NEW n \in Nodes, Stop(n) PROVE NodesRecorded'
  BY <1>3 DEF Stop, NodesRecorded, Recorded
<1>4. ASSUME NEW n \in Nodes, Accept(n) PROVE NodesRecorded'
  BY <1>4 DEF Accept, NodesRecorded, Recorded
<1>5. ASSUME NEW n \in Nodes, NEW r \in Audits, AuditRequest(n, r) PROVE NodesRecorded'
  BY <1>5 DEF AuditRequest, Encrypt, NodesRecorded, Recorded
<1>6. ASSUME NEW n \in Nodes, NEW r \in Dlqs, AddDlqItem(n, r) PROVE NodesRecorded'
  BY <1>6 DEF AddDlqItem, Encrypt, NodesRecorded, Recorded
<1>7. ASSUME NEW n \in Nodes, NEW r \in Targets, SaveTarget(n, r) PROVE NodesRecorded'
  BY <1>7 DEF SaveTarget, Encrypt, NodesRecorded, Recorded
<1>8. ASSUME NEW n \in Nodes, NEW r \in Hosts, SaveHost(n, r) PROVE NodesRecorded'
  BY <1>8 DEF SaveHost, Encrypt, NodesRecorded, Recorded
<1>9. ASSUME NEW n \in Nodes, NEW r \in Targets \cup Hosts, DeleteRow(n, r) PROVE NodesRecorded'
  BY <1>9 DEF DeleteRow, NodesRecorded, Recorded
<1>10. ASSUME NEW n \in Nodes, NEW r \in Dlqs, Settle(n, r) PROVE NodesRecorded'
  BY <1>10 DEF Settle, NodesRecorded, Recorded
<1>11. ASSUME NEW k \in Keys, Drain(k) PROVE NodesRecorded'
  BY <1>11 DEF Drain, NodesRecorded, Recorded
<1>12. ASSUME NEW k \in Keys, Choose(k) PROVE NodesRecorded'
  BY <1>12 DEF Choose, NodesRecorded, Recorded
<1>13. ASSUME NEW k \in Keys, RemoveKey(k) PROVE NodesRecorded'
  BY <1>13 DEF RemoveKey, NodesRecorded, Recorded
<1>14. CASE Start
  BY <1>14 DEF Start, NodesRecorded, Recorded
<1>15. ASSUME NEW c \in Counts, Check(c) PROVE NodesRecorded'
  BY <1>15 DEF Check, NodesRecorded, Recorded
<1>16. CASE Mark
  <2>1. Recorded \subseteq Recorded'
    BY <1>16, RecordedGrows DEF Mark, CliIsCurrent
  <2>2. UNCHANGED <<act, kid, work, unseen, strayed>>
    BY <1>16 DEF Mark
  <2> QED BY <2>1, <2>2 DEF NodesRecorded, Recorded
<1>17. CASE ReadTable
  BY <1>17 DEF ReadTable, RowsOf, NodesRecorded, Recorded
<1>18. ASSUME NEW r \in Rotated, Rewrite(r) PROVE NodesRecorded'
  BY <1>18 DEF Rewrite, NodesRecorded, Recorded
<1>19. ASSUME NEW r \in Rotated, RewriteThrows(r) PROVE NodesRecorded'
  BY <1>19 DEF RewriteThrows, NodesRecorded, Recorded
<1>20. CASE TableDone
  BY <1>20 DEF TableDone, NodesRecorded, Recorded
<1>21. CASE Complete
  <2>1. Recorded \subseteq Recorded'
    BY <1>21, RecordedGrows DEF Complete, CliIsCurrent
  <2>2. UNCHANGED <<act, kid, work, unseen, strayed>>
    BY <1>21 DEF Complete
  <2> QED BY <2>1, <2>2 DEF NodesRecorded, Recorded
<1>22. CASE StatementThrows
  <2>1. Recorded \subseteq Recorded'
    <3>1. CASE UNCHANGED stateVars
      BY <3>1 DEF Recorded
    <3>2. CASE pc = "completing" /\ active' = target /\ previous' = PreviousKeyIds(from, prev)
      BY <3>2, RecordedGrows DEF CliIsCurrent
    <3> QED BY <1>22, <3>1, <3>2 DEF StatementThrows
  <2>2. UNCHANGED <<act, kid, work, unseen, strayed>>
    BY <1>22 DEF StatementThrows
  <2> QED BY <2>1, <2>2 DEF NodesRecorded, Recorded
<1>23. CASE MarkFailed
  <2>1. Recorded \subseteq Recorded'
    BY <1>23, RecordedGrows DEF MarkFailed, CliIsCurrent
  <2>2. UNCHANGED <<act, kid, work, unseen, strayed>>
    BY <1>23 DEF MarkFailed
  <2> QED BY <2>1, <2>2 DEF NodesRecorded, Recorded
<1>24. CASE Crash
  BY <1>24 DEF Crash, NodesRecorded, Recorded
<1> QED BY <1>1, <1>2, <1>3, <1>4, <1>5, <1>6, <1>7, <1>8, <1>9, <1>10, <1>11, <1>12, <1>13,
       <1>14, <1>15, <1>16, <1>17, <1>18, <1>19, <1>20, <1>21, <1>22, <1>23, <1>24
   DEF Next, NodeStep, CliStep

\* The rotation leaves no row behind.
LEMMA RowsFollowKeeps ==
  ASSUME TypeOK, TypeOK', CliIsCurrent, CliIsCurrent', NodesRecorded, RowsFollow, [Next]_vars
  PROVE  RowsFollow'
<1> USE RotationAssumption
    DEF TypeOK, stateVars, dataVars, envVars, cliVars, bounds, InTry, Exit, PreviousKeyIds
<1>1. CASE UNCHANGED vars
  BY <1>1 DEF vars, CliIsCurrent, RowsFollow, Loose, Done
<1>2. ASSUME NEW n \in Nodes, Boot(n) PROVE RowsFollow'
  BY <1>2 DEF Boot, CliIsCurrent, RowsFollow, Loose, Done
<1>3. ASSUME NEW n \in Nodes, Stop(n) PROVE RowsFollow'
  BY <1>3 DEF Stop, CliIsCurrent, RowsFollow, Loose, Done
<1>4. ASSUME NEW n \in Nodes, Accept(n) PROVE RowsFollow'
  BY <1>4 DEF Accept, CliIsCurrent, RowsFollow, Loose, Done
<1>5. ASSUME NEW n \in Nodes, NEW r \in Audits, AuditRequest(n, r) PROVE RowsFollow'
  BY <1>5 DEF AuditRequest, Encrypt, CliIsCurrent, RowsFollow, Loose, Done
<1>6. ASSUME NEW n \in Nodes, NEW r \in Dlqs, AddDlqItem(n, r) PROVE RowsFollow'
  BY <1>6 DEF AddDlqItem, Encrypt, CliIsCurrent, RowsFollow, Loose, Done
<1>7. ASSUME NEW n \in Nodes, NEW r \in Targets, SaveTarget(n, r) PROVE RowsFollow'
  BY <1>7 DEF SaveTarget, Encrypt, CliIsCurrent, RowsFollow, Loose, Done
<1>8. ASSUME NEW n \in Nodes, NEW r \in Hosts, SaveHost(n, r) PROVE RowsFollow'
  BY <1>8 DEF SaveHost, Encrypt, CliIsCurrent, RowsFollow, Loose, Done
<1>9. ASSUME NEW n \in Nodes, NEW r \in Targets \cup Hosts, DeleteRow(n, r) PROVE RowsFollow'
  BY <1>9 DEF DeleteRow, CliIsCurrent, RowsFollow, Loose, Done
<1>10. ASSUME NEW n \in Nodes, NEW r \in Dlqs, Settle(n, r) PROVE RowsFollow'
  BY <1>10 DEF Settle, CliIsCurrent, RowsFollow, Loose, Done
<1>11. ASSUME NEW k \in Keys, Drain(k) PROVE RowsFollow'
  BY <1>11 DEF Drain, CliIsCurrent, RowsFollow, Loose, Done
<1>12. ASSUME NEW k \in Keys, Choose(k) PROVE RowsFollow'
  BY <1>12 DEF Choose, CliIsCurrent, RowsFollow, Loose, Done
<1>13. ASSUME NEW k \in Keys, RemoveKey(k) PROVE RowsFollow'
  BY <1>13 DEF RemoveKey, CliIsCurrent, RowsFollow, Loose, Done
<1>14. CASE Start
  BY <1>14 DEF Start, CliIsCurrent, RowsFollow, Loose, Done
<1>15. ASSUME NEW c \in Counts, Check(c) PROVE RowsFollow'
  BY <1>15 DEF Check, CliIsCurrent, RowsFollow, Loose, Done
<1>16. CASE Mark
  BY <1>16 DEF Mark, CliIsCurrent, RowsFollow, Loose, Done, Place
<1>17. CASE ReadTable
  <2>1. /\ \A r \in Rotated : Place(r) = table /\ r \notin todo' => kid[r] = None
        /\ UNCHANGED <<stateVars, dataVars, available, target, table>> /\ pc' = "rewriting"
    BY <1>17 DEF ReadTable, RowsOf, Place, Rotated
  <2>2. ASSUME NEW r \in Loose, Done(r)' PROVE kid[r] \in {target, None}
    BY <1>17, <2>1, <2>2 DEF ReadTable, RowsFollow, Loose, Done
  <2> QED BY <2>1, <2>2 DEF RowsFollow, Loose
<1>18. ASSUME NEW r \in Rotated, Rewrite(r) PROVE RowsFollow'
  BY <1>18 DEF Rewrite, CliIsCurrent, RowsFollow, Loose, Done
<1>19. ASSUME NEW r \in Rotated, RewriteThrows(r) PROVE RowsFollow'
  BY <1>19 DEF RewriteThrows, CliIsCurrent, RowsFollow, Loose, Done
<1>20. CASE TableDone
  <2>1. ASSUME NEW r \in Loose, Done(r)' PROVE Done(r)
    BY <1>20, <2>1 DEF TableDone, Done, Place, Loose, Rotated
  <2>2. UNCHANGED <<stateVars, dataVars, available, target>>
    BY <1>20 DEF TableDone
  <2> QED BY <2>1, <2>2 DEF RowsFollow, Loose
<1>21. CASE Complete
  BY <1>21 DEF Complete, CliIsCurrent, RowsFollow, Loose, Done
<1>22. CASE StatementThrows
  BY <1>22 DEF StatementThrows, CliIsCurrent, RowsFollow, Loose, Done
<1>23. CASE MarkFailed
  BY <1>23 DEF MarkFailed, CliIsCurrent, RowsFollow, Loose, Done
<1>24. CASE Crash
  BY <1>24 DEF Crash, CliIsCurrent, RowsFollow, Loose, Done
<1> QED BY <1>1, <1>2, <1>3, <1>4, <1>5, <1>6, <1>7, <1>8, <1>9, <1>10, <1>11, <1>12, <1>13,
       <1>14, <1>15, <1>16, <1>17, <1>18, <1>19, <1>20, <1>21, <1>22, <1>23, <1>24
   DEF Next, NodeStep, CliStep

\* The invariant of KeyRotation.
LEMMA InvariantHolds == Spec => []IInv
<1>1. Init => IInv
  <2> SUFFICES ASSUME Init PROVE IInv
    OBVIOUS
  <2>1. TypeOK
    BY RotationAssumption DEF Init, TypeOK, PCs, InTry, Halts, Rows
  <2>2. CliIsCurrent
    BY RotationAssumption DEF Init, CliIsCurrent, InTry
  <2>3. NodesRecorded
    BY DEF Init, NodesRecorded, Recorded, Rows
  <2>4. RowsFollow
    BY DEF Init, RowsFollow, Loose, Done, Rows, Rotated
  <2> QED BY <2>1, <2>2, <2>3, <2>4 DEF IInv
<1>2. IInv /\ [Next]_vars => IInv'
  BY TypeStep, CliStepKeeps, NodesRecordedKeeps, RowsFollowKeeps DEF IInv
<1> QED BY <1>1, <1>2, PTL DEF Spec

\* A completed rotation left every row of the three tables under the active
\* key, except rows written by a node that ran through it, after any number of
\* failures, crashes and repetitions.
THEOREM RotationIsComplete == Spec => []CompletedMeansActive
<1>1. IInv => CompletedMeansActive
  BY DEF IInv, RowsFollow, Loose, CompletedMeansActive
<1> QED BY <1>1, InvariantHolds, PTL

\* EncryptionState names every key a row or a message is under once a rotation
\* is completed.
THEOREM NoKeyForgotten == Spec => []KeysRecorded
<1>1. IInv => KeysRecorded
  BY DEF IInv, RowsFollow, NodesRecorded, Recorded, Loose, Rows, KeysRecorded
<1> QED BY <1>1, InvariantHolds, PTL

\* Keys removed under the documented conditions were no longer needed by the
\* three tables.
THEOREM RemovalIsSafe == Spec => []Readable
<1>1. IInv => Readable
  BY DEF IInv, RowsFollow, Loose, Readable
<1> QED BY <1>1, InvariantHolds, PTL

-----------------------------------------------------------------------------
(***************************************************************************)
(* LiveScript: the accounts and the tenant                                 *)
(***************************************************************************)
StepKinds == [op : Singles \cup {"none"}, login : Logins, fio : {"given", "updated"},
              check : {"none", "present", "absent"}]

\* The logins of the script are finitely many.
LEMMA SetOfLogins ==
  /\ Count \in Nat \ {0} /\ DOMAIN BulkLogins = 1 .. Count /\ Bulk \subseteq Logins
  /\ \A i \in 1 .. Count : BulkLogins[i] \in Bulk
  /\ {DeleteLogin, KeepLogin, Neighbour, Operator} \subseteq Logins
  /\ IsFiniteSet(Bulk) /\ IsFiniteSet(Logins)
<1>1. Count \in Nat \ {0} /\ DOMAIN BulkLogins = 1 .. Count
  BY ScriptAssumption DEF Count
<1>2. /\ Bulk \subseteq Logins /\ \A i \in 1 .. Count : BulkLogins[i] \in Bulk
      /\ {DeleteLogin, KeepLogin, Neighbour, Operator} \subseteq Logins
  BY DEF Bulk, Logins
<1>3. IsFiniteSet(1 .. Count) /\ Cardinality(1 .. Count) = Count
  BY <1>1, FS_Interval
<1>4. BulkLogins \in Surjection(1 .. Count, Bulk)
  <2>1. BulkLogins \in [1 .. Count -> Bulk]
    BY <1>1, <1>2, ScriptAssumption DEF Count
  <2> QED BY <2>1 DEF Surjection, Bulk
<1>5. IsFiniteSet(Bulk)
  BY <1>3, <1>4, FS_Surjection
<1>6. IsFiniteSet(Bulk \cup {DeleteLogin})
  BY <1>5, FS_AddElement
<1>7. IsFiniteSet((Bulk \cup {DeleteLogin}) \cup {KeepLogin})
  BY <1>6, FS_AddElement
<1>8. IsFiniteSet(((Bulk \cup {DeleteLogin}) \cup {KeepLogin}) \cup {Neighbour})
  BY <1>7, FS_AddElement
<1>9. IsFiniteSet((((Bulk \cup {DeleteLogin}) \cup {KeepLogin}) \cup {Neighbour}) \cup {Operator})
  BY <1>8, FS_AddElement
<1>10. (((Bulk \cup {DeleteLogin}) \cup {KeepLogin}) \cup {Neighbour}) \cup {Operator} = Logins
  BY DEF Logins
<1> QED BY <1>1, <1>2, <1>5, <1>9, <1>10

\* No login is generated twice.
LEMMA LoginsDiffer ==
  /\ \A i, j \in 1 .. Count : BulkLogins[i] = BulkLogins[j] => i = j
  /\ DeleteLogin # KeepLogin
<1>1. BulkLogins \in Injection(1 .. Count, Bulk)
  <2>1. BulkLogins \in [1 .. Count -> Bulk]
    BY SetOfLogins, ScriptAssumption DEF Count
  <2>2. BulkLogins \in Surjection(1 .. Count, Bulk)
    BY <2>1 DEF Surjection, Bulk
  <2>3. IsFiniteSet(1 .. Count) /\ Cardinality(1 .. Count) = Count
    BY SetOfLogins, FS_Interval
  <2>4. Cardinality(Bulk) = Cardinality(1 .. Count)
    BY <2>3, ScriptAssumption
  <2> QED BY <2>2, <2>3, <2>4, FS_SurjSameCardinalityImpliesInj
<1>2. DeleteLogin # KeepLogin
  <2> SUFFICES ASSUME DeleteLogin = KeepLogin PROVE FALSE
    OBVIOUS
  <2> DEFINE a == Bulk \cup {DeleteLogin}
             b == a \cup {Neighbour}
             c == b \cup {Operator}
  <2>1. IsFiniteSet(a) /\ Cardinality(a) <= Count + 1
    <3>1. IsFiniteSet(Bulk) /\ Cardinality(Bulk) = Count /\ Count \in Nat
      BY SetOfLogins, ScriptAssumption
    <3>2. IsFiniteSet(a) /\ Cardinality(a) =
              IF DeleteLogin \in Bulk THEN Cardinality(Bulk) ELSE Cardinality(Bulk) + 1
      BY <3>1, FS_AddElement
    <3> QED BY <3>1, <3>2
  <2>2. Cardinality(a) \in Nat
    BY <2>1, FS_CardinalityType
  <2> HIDE DEF a
  <2>3. IsFiniteSet(b) /\ Cardinality(b) <= Cardinality(a) + 1
    <3>1. IsFiniteSet(b) /\ Cardinality(b) = IF Neighbour \in a THEN Cardinality(a) ELSE Cardinality(a) + 1
      BY <2>1, FS_AddElement
    <3> QED BY <2>2, <3>1
  <2>4. Cardinality(b) \in Nat
    BY <2>3, FS_CardinalityType
  <2> HIDE DEF b
  <2>5. IsFiniteSet(c) /\ Cardinality(c) <= Cardinality(b) + 1
    <3>1. IsFiniteSet(c) /\ Cardinality(c) = IF Operator \in b THEN Cardinality(b) ELSE Cardinality(b) + 1
      BY <2>3, FS_AddElement
    <3> QED BY <2>4, <3>1
  <2>6. c = {DeleteLogin, KeepLogin, Neighbour, Operator} \cup Bulk
    BY DEF a, b, c
  <2>7. Cardinality(c) \in Nat
    BY <2>5, FS_CardinalityType
  <2> HIDE DEF c
  <2> QED BY <2>1, <2>2, <2>3, <2>4, <2>5, <2>6, <2>7, SetOfLogins, ScriptAssumption
<1> QED BY <1>1, <1>2 DEF Injection, IsInjective

\* The accounts of a tenant can be counted.
LEMMA SomeOf ==
  ASSUME NEW t \in TenantRows
  PROVE  There(t) \subseteq Logins /\ IsFiniteSet(There(t)) /\ Cardinality(There(t)) \in Nat /\ existing(t) \in Nat
<1>1. There(t) \subseteq Logins
  BY DEF There
<1>2. IsFiniteSet(There(t))
  BY <1>1, SetOfLogins, FS_Subset
<1>3. Cardinality(There(t)) \in Nat
  BY <1>2, FS_CardinalityType
<1>4. t.further \in Nat
  BY ScriptAssumption DEF TenantRows
<1> QED BY <1>1, <1>2, <1>3, <1>4 DEF existing

\* What a request that the tenant takes makes of it.
Makes(t, s, n) ==
  /\ n \in TenantRows /\ n.further = t.further /\ n.allowed = t.allowed
  /\ \A l \in Logins : l # s.login => n.users[l] = t.users[l]
  /\ s.op = "create" => /\ s.login \notin There(t) /\ There(n) = There(t) \cup {s.login}
                        /\ n.users[s.login] = [fio |-> s.fio, blocked |-> FALSE]
  /\ s.op \in {"update", "password"} =>
       /\ n.users[s.login].fio = s.fio /\ There(n) = There(t)
       /\ n.users[s.login] = [fio |-> s.fio, blocked |-> t.users[s.login].blocked]
  /\ s.op = "block" => There(n) = There(t)
  /\ s.op = "delete" => There(n) = There(t) \ {s.login} /\ n.users[s.login] = Nil
  /\ s.op # "create" => s.login \in There(t)

LEMMA AppliedIs ==
  ASSUME NEW t \in TenantRows, NEW s \in StepKinds, s.op \in Singles, Takes(t, s)
  PROVE  Makes(t, s, Applied(t, s))
<1> SUFFICES ASSUME NEW n, n = Applied(t, s) PROVE Makes(t, s, n)
  OBVIOUS
<1> DEFINE old == t.users[s.login]
           x == CASE s.op = "create" -> [fio |-> s.fio, blocked |-> FALSE]
                  [] s.op \in {"update", "password"} -> [old EXCEPT !.fio = s.fio]
                  [] s.op = "block"  -> [old EXCEPT !.blocked = TRUE]
                  [] s.op = "delete" -> Nil
<1>1. /\ t.users \in [Logins -> Accounts \cup {Nil}] /\ s.login \in Logins /\ s.fio \in {"given", "updated"}
      /\ s.op \in {"create", "update", "password", "block", "delete"} /\ t.further \in 0 .. MaxFurther
      /\ t.allowed \in Nat
  BY DEF TenantRows, StepKinds, Singles
<1>2. Nil \notin Accounts
  BY ScriptAssumption
<1>3. s.op # "create" => s.login \in There(t) /\ old \in Accounts
  BY <1>1 DEF Takes, There
<1>4. s.op = "create" => s.login \notin There(t)
  BY DEF Takes
<1>5. n = [t EXCEPT !.users = [t.users EXCEPT ![s.login] = x]]
  BY DEF Applied
<1>6. n.users = [t.users EXCEPT ![s.login] = x] /\ n.further = t.further /\ n.allowed = t.allowed
  BY <1>5 DEF TenantRows
<1>7. /\ s.op = "create" => x = [fio |-> s.fio, blocked |-> FALSE] /\ x \in Accounts
      /\ s.op \in {"update", "password"} =>
           x = [fio |-> s.fio, blocked |-> old.blocked] /\ x \in Accounts /\ x.fio = s.fio
      /\ s.op = "block" => x \in Accounts
      /\ s.op = "delete" => x = Nil
  <2>1. CASE s.op = "create"
    <3>1. x = [fio |-> s.fio, blocked |-> FALSE]
      BY <2>1
    <3> QED BY <1>1, <2>1, <3>1 DEF Accounts
  <2>2. CASE s.op \in {"update", "password"}
    <3>1. x = [old EXCEPT !.fio = s.fio] /\ old \in Accounts
      BY <1>3, <2>2
    <3> QED BY <1>1, <2>2, <3>1 DEF Accounts
  <2>3. CASE s.op = "block"
    <3>1. x = [old EXCEPT !.blocked = TRUE] /\ old \in Accounts
      BY <1>3, <2>3
    <3> QED BY <1>1, <2>3, <3>1 DEF Accounts
  <2>4. CASE s.op = "delete"
    BY <2>4
  <2> QED BY <1>1, <2>1, <2>2, <2>3, <2>4
<1> HIDE DEF x
<1>8. n.users[s.login] = x /\ \A l \in Logins : l # s.login => n.users[l] = t.users[l]
  BY <1>1, <1>6
<1>9. x \in Accounts \cup {Nil}
  BY <1>1, <1>7
<1>10. n \in TenantRows
  <2>1. n.users \in [Logins -> Accounts \cup {Nil}]
    BY <1>1, <1>6, <1>9
  <2>2. n = [users |-> n.users, further |-> t.further, allowed |-> t.allowed]
    BY <1>5 DEF TenantRows
  <2> QED BY <1>1, <2>1, <2>2 DEF TenantRows
<1>11. There(n) = IF x = Nil THEN There(t) \ {s.login} ELSE There(t) \cup {s.login}
  BY <1>1, <1>8 DEF There
<1>12. s.op # "delete" => There(n) = There(t) \cup {s.login}
  BY <1>1, <1>2, <1>7, <1>11
<1>13. s.op = "delete" => There(n) = There(t) \ {s.login}
  BY <1>7, <1>11
<1>14. s.op \in {"update", "password"} =>
        n.users[s.login].fio = s.fio /\ n.users[s.login] = [fio |-> s.fio, blocked |-> t.users[s.login].blocked]
  BY <1>7, <1>8
<1>15. s.op \in {"update", "password", "block"} => There(n) = There(t)
  BY <1>1, <1>3, <1>12
<1> QED BY <1>3, <1>4, <1>6, <1>7, <1>8, <1>10, <1>12, <1>13, <1>14, <1>15 DEF Makes

-----------------------------------------------------------------------------
(***************************************************************************)
(* LiveScript: where the script stands                                     *)
(***************************************************************************)
Working == at \in {"send", "check"}

\* The request under way is one of the mode's.
Asks ==
  /\ at \in {"send", "check", "clean"} => step.op \in Singles
  /\ at = "check" => step.check # "none"
  /\ Working => env.mode # "discover"
  /\ Working /\ env.mode \in Singles =>
       at = "send" /\ step = Step(env.mode, env.named, "given", "none") /\ Commanded(env.named)
  /\ Working /\ env.mode = "cycle" => stage \in DOMAIN CycleSteps /\ step = CycleSteps[stage]

\* The bulk users are created in their order and removed from the last.
Creating == env.mode = "bulk" /\ Working /\ step.op = "create"
Cleaning == env.mode = "bulk" /\ (at = "clean" \/ (at = "check" /\ step.op # "create"))
InOrder(c) == c \in Seq(Bulk) /\ Len(c) <= Count /\ \A i \in DOMAIN c : c[i] = BulkLogins[i]
Bulks ==
  /\ at \in {"gate", "page1", "page2", "clean"} => env.mode = "bulk"
  /\ at = "send" /\ env.mode = "bulk" => step.op = "create"
  /\ InOrder(created)
  /\ Creating => Len(created) < Count /\ step = BulkStep(Len(created) + 1)
  /\ Cleaning => created # <<>> /\ step = Cleanup(created)
  /\ at \in {"page1", "page2"} => Len(created) = Count
  /\ at \in {"login", "begin", "gate"} => created = <<>>
  /\ Creating \/ at \in {"login", "begin", "gate", "page1"} => ~paged

Shape ==
  /\ at \in {"login", "begin", "gate", "send", "check", "page1", "page2", "clean", "exit", "stuck"}
  /\ stage \in DOMAIN CycleSteps \cup {"none"} /\ step \in StepKinds /\ {good, thrown, paged} \subseteq BOOLEAN
  /\ code \in {Nil, 0, 1, 2} /\ (at # "exit" => code = Nil)
  /\ Asks /\ Bulks

\* The steps of the cycle, one by one.
LEMMA CycleKnown ==
  /\ DOMAIN CycleSteps =
       {"create", "update", "password", "block", "delete", "keep", "keepPassword", "keepCleanup"}
  /\ CycleSteps["create"]   = Step("create",   DeleteLogin, "given",   "present")
  /\ CycleSteps["update"]   = Step("update",   DeleteLogin, "updated", "present")
  /\ CycleSteps["password"] = Step("password", DeleteLogin, "updated", "none")
  /\ CycleSteps["block"]    = Step("block",    DeleteLogin, "updated", "none")
  /\ CycleSteps["delete"]   = Step("delete",   DeleteLogin, "given",   "absent")
  /\ CycleSteps["keep"]     = Step("create",   KeepLogin,   "given",   "present")
  /\ CycleSteps["keepPassword"] = Step("password", KeepLogin, "given", "present")
  /\ CycleSteps["keepCleanup"]  = Step("delete",   KeepLogin, "given", "absent")
  BY DEF CycleSteps

\* A step of the cycle is a request, and what follows it is a step of the cycle or its end.
LEMMA CycleTyped ==
  /\ \A name \in DOMAIN CycleSteps : CycleSteps[name] \in StepKinds /\ CycleSteps[name].op \in Singles
  /\ \A name \in DOMAIN CycleSteps, ok \in BOOLEAN :
       CycleNext(name, ok) = "none" \/ CycleNext(name, ok) \in DOMAIN CycleSteps
<1>1. DeleteLogin \in Logins /\ KeepLogin \in Logins
  BY SetOfLogins
<1>2. \A name \in DOMAIN CycleSteps : CycleSteps[name] \in StepKinds /\ CycleSteps[name].op \in Singles
  <2>1. ASSUME NEW op \in Singles, NEW l \in Logins, NEW f \in {"given", "updated"},
               NEW k \in {"none", "present", "absent"}
        PROVE  Step(op, l, f, k) \in StepKinds /\ Step(op, l, f, k).op = op
    BY <2>1 DEF Step, StepKinds
  <2>2. {"create", "update", "password", "block", "delete"} = Singles
    BY DEF Singles
  <2>4. ASSUME NEW name \in DOMAIN CycleSteps
        PROVE  \E op \in Singles, l \in Logins, f \in {"given", "updated"}, k \in {"none", "present", "absent"} :
                 CycleSteps[name] = Step(op, l, f, k)
    BY <1>1, <2>2, CycleKnown
  <2> QED BY <2>1, <2>4
<1>3. \A name \in DOMAIN CycleSteps, ok \in BOOLEAN :
        CycleNext(name, ok) = "none" \/ CycleNext(name, ok) \in DOMAIN CycleSteps
  BY CycleKnown DEF CycleNext
<1> QED BY <1>2, <1>3

\* The requests of the bulk creation and of its cleanup.
LEMMA BulkTyped ==
  /\ \A n \in 1 .. Count : BulkStep(n) \in StepKinds /\ BulkStep(n).op = "create" /\ BulkStep(n).check = "present"
                           /\ BulkStep(n).login = BulkLogins[n] /\ BulkStep(n).fio = "given"
  /\ \A c : InOrder(c) /\ c # <<>> =>
       /\ Cleanup(c) \in StepKinds /\ Cleanup(c).op = "delete" /\ Cleanup(c).check = "absent"
       /\ Cleanup(c).login = BulkLogins[Len(c)] /\ Len(c) \in 1 .. Count
<1>1. ASSUME NEW n \in 1 .. Count PROVE BulkLogins[n] \in Logins
  BY SetOfLogins
<1>2. ASSUME NEW c, InOrder(c), c # <<>>
      PROVE  /\ Cleanup(c) \in StepKinds /\ Cleanup(c).op = "delete" /\ Cleanup(c).check = "absent"
             /\ Cleanup(c).login = BulkLogins[Len(c)] /\ Len(c) \in 1 .. Count
  <2>1. Len(c) \in DOMAIN c /\ Len(c) \in 1 .. Count
    BY <1>2, SetOfLogins DEF InOrder
  <2>2. c[Len(c)] = BulkLogins[Len(c)]
    BY <1>2, <2>1 DEF InOrder
  <2> QED BY <1>1, <2>1, <2>2 DEF Cleanup, Step, StepKinds, Singles
<1> QED BY <1>1, <1>2 DEF BulkStep, Step, StepKinds, Singles

\* createdTargets stays in the order of creation when it grows and when it shrinks.
LEMMA OrderKept ==
  ASSUME NEW c, InOrder(c)
  PROVE  /\ Len(c) < Count => /\ InOrder(Append(c, BulkLogins[Len(c) + 1]))
                              /\ Len(Append(c, BulkLogins[Len(c) + 1])) = Len(c) + 1
         /\ c # <<>> => /\ InOrder(SubSeq(c, 1, Len(c) - 1))
                        /\ Len(SubSeq(c, 1, Len(c) - 1)) = Len(c) - 1
<1>1. c \in Seq(Bulk) /\ Len(c) \in Nat /\ DOMAIN c = 1 .. Len(c)
  BY DEF InOrder
<1>2. ASSUME Len(c) < Count
      PROVE  /\ InOrder(Append(c, BulkLogins[Len(c) + 1]))
             /\ Len(Append(c, BulkLogins[Len(c) + 1])) = Len(c) + 1
  <2>1. BulkLogins[Len(c) + 1] \in Bulk
    BY <1>1, <1>2, SetOfLogins
  <2>2. /\ Append(c, BulkLogins[Len(c) + 1]) \in Seq(Bulk)
        /\ Len(Append(c, BulkLogins[Len(c) + 1])) = Len(c) + 1
    BY <1>1, <2>1
  <2>3. \A i \in 1 .. Len(c) + 1 : Append(c, BulkLogins[Len(c) + 1])[i] = BulkLogins[i]
    BY <1>1, <2>1 DEF InOrder
  <2> QED BY <1>1, <1>2, <2>2, <2>3, SetOfLogins DEF InOrder
<1>3. ASSUME c # <<>>
      PROVE  /\ InOrder(SubSeq(c, 1, Len(c) - 1))
             /\ Len(SubSeq(c, 1, Len(c) - 1)) = Len(c) - 1
  <2>1. Len(c) > 0
    BY <1>1, <1>3
  <2>2. /\ SubSeq(c, 1, Len(c) - 1) \in Seq(Bulk) /\ Len(SubSeq(c, 1, Len(c) - 1)) = Len(c) - 1
        /\ \A i \in 1 .. Len(c) - 1 : SubSeq(c, 1, Len(c) - 1)[i] = c[i]
    BY <1>1, <2>1
  <2> QED BY <1>1, <2>1, <2>2, SetOfLogins DEF InOrder
<1> QED BY <1>2, <1>3

\* The end of a run keeps its shape.
LEMMA ShapeExit ==
  ASSUME UNCHANGED env, NEW c \in 0 .. 2, ExitWith(c), InOrder(created'),
         {good', thrown', paged'} \subseteq BOOLEAN
  PROVE  Shape'
<1>1. at' = "exit" /\ code' \in {0, 1, 2} /\ stage' = "none" /\ step' = NoStep
  BY DEF ExitWith
<1>2. step' \in StepKinds
  BY <1>1, SetOfLogins DEF NoStep, Step, StepKinds
<1>3. Asks' /\ Bulks'
  BY <1>1 DEF Asks, Bulks, Creating, Cleaning, Working
<1> QED BY <1>1, <1>2, <1>3 DEF Shape

\* The end of main keeps the shape.
LEMMA ShapeEnds ==
  ASSUME UNCHANGED env, NEW ok, Ends(ok), InOrder(created'), {good', thrown', paged'} \subseteq BOOLEAN
  PROVE  Shape'
  BY ShapeExit DEF Ends

\* The finally block keeps the shape.
LEMMA ShapeCleans ==
  ASSUME Shape, UNCHANGED env, env.mode = "bulk", code = Nil, NEW ok, Cleans(created', ok),
         InOrder(created'), {good', thrown', paged'} \subseteq BOOLEAN
  PROVE  Shape'
<1>1. CASE created' # <<>>
  <2>1. at' = "clean" /\ step' = Cleanup(created') /\ stage' = stage /\ code' = code
    BY <1>1 DEF Cleans
  <2>2. step' \in StepKinds /\ step'.op = "delete"
    BY <1>1, <2>1, BulkTyped
  <2>3. Asks' /\ Bulks'
    BY <1>1, <2>1, <2>2 DEF Asks, Bulks, Creating, Cleaning, Working, Singles
  <2> QED BY <2>1, <2>2, <2>3 DEF Shape
<1>2. CASE created' = <<>>
  <2>1. ExitWith(1) \/ \E x \in BOOLEAN : Ends(x)
    BY <1>2 DEF Cleans
  <2> QED BY <2>1, ShapeExit, ShapeEnds
<1> QED BY <1>1, <1>2

\* The end of a step keeps the shape.
LEMMA ShapeStepDone ==
  ASSUME Shape, UNCHANGED env, env.mode \in Modes, at \in {"send", "check", "clean"}, NEW ok \in BOOLEAN,
         StepDone(ok)
  PROVE  Shape'
<1>1. /\ good' \in BOOLEAN /\ thrown' = thrown /\ paged' = paged /\ {good', thrown', paged'} \subseteq BOOLEAN
      /\ code = Nil /\ InOrder(created)
  BY DEF StepDone, Shape, Bulks
<1>2. env.mode \in Singles \cup {"cycle", "bulk"}
  BY DEF Modes, Shape, Asks, Bulks, Working
<1>3. CASE env.mode \in Singles
  <2>1. Ends(ok) /\ created' = created
    BY <1>3 DEF StepDone, Singles
  <2> QED BY <1>1, <2>1, ShapeEnds
<1>4. CASE env.mode = "cycle"
  <2> DEFINE next == CycleNext(stage, ok)
  <2>1. at \in {"send", "check"} /\ stage \in DOMAIN CycleSteps
    BY <1>4 DEF Shape, Asks, Bulks, Working
  <2>2. next = "none" \/ next \in DOMAIN CycleSteps
    BY <2>1, CycleTyped
  <2>3. created' = created /\ IF next = "none" THEN Ends(good') ELSE Sends(CycleSteps[next], next)
    BY <1>4 DEF StepDone, Singles
  <2> HIDE DEF next
  <2>4. CASE next = "none"
    BY <1>1, <2>3, <2>4, ShapeEnds
  <2>5. CASE next # "none"
    <3>1. at' = "send" /\ step' = CycleSteps[next] /\ stage' = next /\ code' = code
      BY <2>3, <2>5 DEF Sends
    <3>2. step' \in StepKinds /\ step'.op \in Singles /\ next \in DOMAIN CycleSteps
      BY <2>2, <2>5, <3>1, CycleTyped
    <3>3. Asks' /\ Bulks'
      BY <1>1, <1>4, <2>3, <3>1, <3>2 DEF Asks, Bulks, Creating, Cleaning, Working, Singles
    <3> QED BY <1>1, <3>1, <3>2, <3>3 DEF Shape
  <2> QED BY <2>4, <2>5
<1>5. CASE env.mode = "bulk" /\ step.op = "create"
  <2>1. Creating /\ Len(created) < Count /\ step = BulkStep(Len(created) + 1) /\ ~paged
    <3>1. at # "clean"
      BY <1>5, BulkTyped DEF Shape, Bulks, Cleaning
    <3> QED BY <1>5, <3>1 DEF Shape, Bulks, Creating, Working
  <2>2. /\ created' = Remembered(ok)
        /\ IF ~ok THEN Cleans(created', good')
           ELSE IF Len(created') < Count THEN Sends(BulkStep(Len(created') + 1), "none")
           ELSE at' = "page1" /\ step' = NoStep /\ UNCHANGED <<stage, code>>
    BY <1>5 DEF StepDone, Singles
  <2>3. CASE ~ok
    BY <1>1, <1>5, <2>2, <2>3, ShapeCleans DEF Remembered
  <2>4. CASE ok
    <3>1. Len(created) \in Nat /\ Len(created) + 1 \in 1 .. Count /\ Count \in Nat
      BY <1>1, <2>1, SetOfLogins DEF InOrder
    <3>2. step.login = BulkLogins[Len(created) + 1]
      BY <2>1, <3>1, BulkTyped
    <3>3. InOrder(created') /\ Len(created') = Len(created) + 1
      BY <1>1, <2>1, <2>2, <2>4, <3>2, OrderKept DEF Remembered
    <3>4. CASE Len(created') < Count
      <4>1. at' = "send" /\ step' = BulkStep(Len(created') + 1) /\ stage' = "none" /\ code' = code
        BY <2>2, <2>4, <3>4 DEF Sends
      <4>2. Len(created') + 1 \in 1 .. Count
        BY <3>1, <3>3, <3>4
      <4>3. step' \in StepKinds /\ step'.op = "create"
        BY <4>1, <4>2, BulkTyped
      <4>4. Asks' /\ Bulks'
        BY <1>1, <1>5, <2>1, <3>3, <3>4, <4>1, <4>3 DEF Asks, Bulks, Creating, Cleaning, Working, Singles
      <4> QED BY <1>1, <4>1, <4>3, <4>4 DEF Shape
    <3>5. CASE ~(Len(created') < Count)
      <4>1. at' = "page1" /\ step' = NoStep /\ stage' = stage /\ code' = code
        BY <2>2, <2>4, <3>5
      <4>2. step' \in StepKinds
        BY <4>1, SetOfLogins DEF NoStep, Step, StepKinds
      <4>3. Len(created') = Count
        BY <3>1, <3>3, <3>5
      <4>4. Asks' /\ Bulks'
        BY <1>1, <1>5, <2>1, <3>3, <4>1, <4>3 DEF Asks, Bulks, Creating, Cleaning, Working, Singles
      <4> QED BY <1>1, <4>1, <4>2, <4>4 DEF Shape
    <3> QED BY <3>4, <3>5
  <2> QED BY <2>3, <2>4
<1>6. CASE env.mode = "bulk" /\ step.op # "create"
  <2>1. Cleaning /\ created # <<>> /\ step = Cleanup(created)
    BY <1>6 DEF Shape, Bulks, Cleaning
  <2>2. step.op = "delete"
    BY <1>1, <2>1, BulkTyped
  <2>3. created' = SubSeq(created, 1, Len(created) - 1) /\ Cleans(created', good')
    BY <1>6, <2>2 DEF StepDone, Singles
  <2>4. InOrder(created')
    BY <1>1, <2>1, <2>3, OrderKept
  <2> QED BY <1>1, <1>6, <2>3, <2>4, ShapeCleans
<1> QED BY <1>2, <1>3, <1>4, <1>5, <1>6

\* An exception keeps the shape.
LEMMA ShapeThrows ==
  ASSUME Shape, UNCHANGED env, code = Nil, Throws, at \in {"send", "check", "clean", "page1", "page2"}
  PROVE  Shape'
<1>1. /\ good' = good /\ created' = created /\ paged' = paged /\ InOrder(created)
      /\ thrown' \in {TRUE, thrown}
  BY DEF Throws, Shape, Bulks
<1>2. {good', thrown', paged'} \subseteq BOOLEAN /\ InOrder(created')
  BY <1>1 DEF Shape
<1>3. ExitWith(1) \/ (env.mode = "bulk" /\ Cleans(created', FALSE))
  BY <1>1 DEF Throws
<1>4. CASE ExitWith(1)
  <2>1. 1 \in 0 .. 2
    OBVIOUS
  <2> QED BY <1>2, <1>4, <2>1, ShapeExit
<1>5. CASE env.mode = "bulk" /\ Cleans(created', FALSE)
  BY <1>2, <1>5, ShapeCleans
<1> QED BY <1>3, <1>4, <1>5

\* The answer to a request keeps the shape.
LEMMA ShapeAnswered ==
  ASSUME Shape, UNCHANGED env, env.mode \in Modes, at \in {"send", "clean"}, NEW ok \in BOOLEAN, Answered(ok)
  PROVE  Shape'
<1>1. CASE ok /\ step.check # "none"
  <2>1. at' = "check" /\ UNCHANGED <<stage, step, code, good, thrown, created, paged>>
    BY <1>1 DEF Answered
  <2>2. ~(Working /\ env.mode \in Singles)
    BY <1>1 DEF Shape, Asks, Step
  <2>3. at = "clean" => step.op # "create"
    BY BulkTyped DEF Shape, Bulks, Cleaning
  <2>4. Asks' /\ Bulks'
    BY <1>1, <2>1, <2>2, <2>3 DEF Shape, Asks, Bulks, Creating, Cleaning, Working, Singles
  <2> QED BY <2>1, <2>4 DEF Shape
<1>2. CASE ~(ok /\ step.check # "none")
  BY <1>2, ShapeStepDone DEF Answered
<1> QED BY <1>1, <1>2

Backdrop ==
  /\ env \in Envs /\ tenant \in TenantRows /\ before \in Tenants
  /\ auth \in [success : BOOLEAN, error : BOOLEAN]
  /\ hit \subseteq Hits
  /\ mishaps \in 0 .. MaxMishaps /\ edits \in 0 .. MaxEdits
  /\ tenant.allowed = before.allowed

Base == Shape /\ Backdrop

LEMMA BaseTyped == Base => ScriptTypeOK /\ env.mode \in Modes /\ before \in TenantRows
<1> SUFFICES ASSUME Base PROVE ScriptTypeOK /\ env.mode \in Modes /\ before \in TenantRows
  OBVIOUS
<1>1. created \in Seq(Bulk)
  BY DEF Base, Shape, Bulks, InOrder
<1>2. env.mode \in Modes
  BY DEF Base, Backdrop, Envs
<1>3. before \in TenantRows
  BY ScriptAssumption DEF Base, Backdrop
<1> QED BY <1>1, <1>2, <1>3, CycleKnown DEF Base, Shape, Backdrop, ScriptTypeOK, StepKinds

\* A mode reads the endpoints of operations only.
LEMMA UsesSingles == \A mode : Uses(mode) \subseteq Singles
  BY DEF Uses, Singles

LEMMA BaseInit == ScriptInit => Base
<1> SUFFICES ASSUME ScriptInit PROVE Base
  OBVIOUS
<1>1. PICK mode \in Modes : env \in ReadBy(mode)
  BY DEF ScriptInit
<1>2. env \in Envs
  <2>1. Operator \in Logins
    BY SetOfLogins
  <2> QED BY <1>1, <2>1, UsesSingles DEF ReadBy, Envs
<1>3. tenant \in TenantRows /\ before = tenant
  BY ScriptAssumption DEF ScriptInit
<1>4. NoStep \in StepKinds
  BY SetOfLogins DEF NoStep, Step, StepKinds
<1>5. InOrder(<<>>)
  BY SetOfLogins DEF InOrder
<1>6. Asks /\ Bulks
  BY <1>5 DEF ScriptInit, Asks, Bulks, Creating, Cleaning, Working
<1>7. Shape
  BY <1>4, <1>6 DEF ScriptInit, Shape
<1>8. Backdrop
  <2>1. 0 \in 0 .. MaxMishaps /\ 0 \in 0 .. MaxEdits
    BY ScriptAssumption
  <2> QED BY <1>2, <1>3, <2>1 DEF ScriptInit, Backdrop
<1> QED BY <1>7, <1>8 DEF Base

\* Reading the list changes no account.
LEMMA ReadsOnly ==
  ASSUME Backdrop, UNCHANGED <<script, tenant, edits>>,
         Calm \/ Mishap({"fault"}) \/ \E answer \in Lists : ListRead(answer)
  PROVE  Backdrop'
<1>1. Calm \/ \E kind \in {{"fault"}, {"fault", "garbled"}} : Mishap(kind)
  BY DEF ListRead
<1>2. CASE Calm
  BY <1>2 DEF Calm, Backdrop, script
<1>3. ASSUME NEW kind \in {{"fault"}, {"fault", "garbled"}}, Mishap(kind) PROVE Backdrop'
  <2>1. mishaps' \in 0 .. MaxMishaps /\ hit' \subseteq Hits
    BY <1>3, ScriptAssumption DEF Mishap, Backdrop, Hits
  <2> QED BY <2>1 DEF Backdrop, script
<1> QED BY <1>1, <1>2, <1>3

\* A request changes one account of the tenant, or none.
LEMMA Changed ==
  ASSUME Base, Request
  PROVE  /\ at \in {"send", "clean"} /\ UNCHANGED <<script, edits>>
         /\ tenant' = tenant \/ (Takes(tenant, step) /\ Makes(tenant, step, tenant'))
         /\ step \in StepKinds /\ step.op \in Singles /\ tenant \in TenantRows /\ tenant' \in TenantRows
         /\ Calm \/ Mishap({"fault"}) \/ Mishap({"fault", "misread"})
         /\ tenant'.further = tenant.further /\ tenant'.allowed = tenant.allowed
         /\ \A l \in Logins : l # step.login => tenant'.users[l] = tenant.users[l]
<1>1. /\ at \in {"send", "clean"} /\ UNCHANGED <<script, edits>>
      /\ tenant' \in {tenant} \/ (Takes(tenant, step) /\ tenant' = Applied(tenant, step))
      /\ Calm \/ Mishap({"fault"}) \/ Mishap({"fault", "misread"})
  BY DEF Request
<1>2. step \in StepKinds /\ step.op \in Singles /\ tenant \in TenantRows
  BY <1>1 DEF Base, Shape, Asks, Backdrop
<1>3. CASE tenant' \in {tenant}
  BY <1>1, <1>2, <1>3
<1>4. CASE Takes(tenant, step) /\ tenant' = Applied(tenant, step)
  <2>1. Makes(tenant, step, tenant')
    BY <1>2, <1>4, AppliedIs
  <2> QED BY <1>1, <1>2, <2>1 DEF Makes
<1> QED BY <1>1, <1>3, <1>4

\* What comes of a request: its answer, right or wrong, an exception, or nothing.
LEMMA Comes ==
  ASSUME Base, Request
  PROVE  \/ Answered(TRUE) /\ (Takes(tenant, step) \/ "misread" \in hit')
         \/ Answered(FALSE)
         \/ Throws
         \/ at' = "stuck" /\ UNCHANGED <<stage, step, code, good, thrown, created, paged>>
<1>1. Takes(tenant, step) = TRUE \/ Takes(tenant, step) = FALSE
  <2>1. CASE step.op = "create"
    BY <2>1 DEF Takes
  <2>2. CASE step.op # "create"
    BY <2>2 DEF Takes
  <2> QED BY <2>1, <2>2
<1>2. CASE step.op \in env.broken /\ Throws
  BY <1>2
<1>3. CASE Answered(Takes(tenant, step))
  BY <1>1, <1>3
<1>4. ASSUME NEW done \in {TRUE, FALSE}, NEW answer \in {"ok", "failed", "threw", "never"},
             IF answer = "ok" /\ ~Takes(tenant, step)
               THEN Mishap({"fault", "misread"}) ELSE Mishap({"fault"}),
             CASE answer = "ok"     -> Answered(TRUE)
               [] answer = "failed" -> Answered(FALSE)
               [] answer = "threw"  -> Throws
               [] answer = "never"  ->
                    at' = "stuck" /\ UNCHANGED <<stage, step, code, good, thrown, created, paged>>
      PROVE  \/ Answered(TRUE) /\ (Takes(tenant, step) \/ "misread" \in hit')
             \/ Answered(FALSE)
             \/ Throws
             \/ at' = "stuck" /\ UNCHANGED <<stage, step, code, good, thrown, created, paged>>
  <2>1. answer = "ok" => Takes(tenant, step) \/ "misread" \in hit'
    BY <1>4 DEF Mishap
  <2> QED BY <1>4, <2>1
<1> QED BY <1>2, <1>3, <1>4 DEF Request

\* Without a mishap, what the tenant takes it does, and says so.
LEMMA CalmRequest ==
  ASSUME Base, Request, Calm, Takes(tenant, step), step.op \notin env.broken
  PROVE  Answered(TRUE) /\ Makes(tenant, step, tenant')
<1>1. ~Mishap({"fault"}) /\ ~Mishap({"fault", "misread"})
  BY DEF Mishap, Calm, Base, Backdrop
<1>2. /\ tenant' = IF Takes(tenant, step) THEN Applied(tenant, step) ELSE tenant
      /\ Answered(Takes(tenant, step))
  BY <1>1 DEF Request
<1>3. tenant' = Applied(tenant, step) /\ Answered(TRUE)
  <2>1. Takes(tenant, step) = TRUE
    <3>1. CASE step.op = "create"
      BY <3>1 DEF Takes
    <3>2. CASE step.op # "create"
      BY <3>2 DEF Takes
    <3> QED BY <3>1, <3>2
  <2> QED BY <1>2, <2>1
<1>4. Makes(tenant, step, tenant')
  BY <1>3, Changed, AppliedIs
<1> QED BY <1>3, <1>4

\* Every step of the script, of the tenant and of its administrators keeps it.
LEMMA BaseStep == Base /\ [ScriptNext]_scriptVars => Base'
<1> SUFFICES ASSUME Base, [ScriptNext]_scriptVars PROVE Base'
  OBVIOUS
<1>1. CASE UNCHANGED scriptVars
  BY <1>1 DEF scriptVars, Base, Shape, Asks, Bulks, Creating, Cleaning, Working, Commanded, Backdrop
<1>2. CASE Others
  <2>1. Backdrop'
    <3>1. PICK n \in 0 .. MaxFurther : tenant' = [tenant EXCEPT !.further = n]
      BY <1>2 DEF Others
    <3>2. tenant' \in TenantRows /\ tenant'.allowed = tenant.allowed
      BY <3>1 DEF Base, Backdrop, TenantRows
    <3>3. edits' \in 0 .. MaxEdits /\ hit' \subseteq Hits
      BY <1>2, ScriptAssumption DEF Others, Base, Backdrop, Hits
    <3> QED BY <1>2, <3>2, <3>3 DEF Others, script, Base, Backdrop
  <2>2. Shape'
    BY <1>2 DEF Others, script, Base, Shape, Asks, Bulks, Creating, Cleaning, Working, Commanded
  <2> QED BY <2>1, <2>2 DEF Base
<1>3. CASE Login
  <2>1. /\ at = "login" /\ UNCHANGED <<env, before, tenant, good, thrown, created, paged, edits>>
    BY <1>3 DEF Login
  <2>2. InOrder(created') /\ {good', thrown', paged'} \subseteq BOOLEAN
    BY <2>1 DEF Base, Shape, Bulks
  <2>3. CASE /\ \E broke \in {"no", "early", "late"}, signs \in Signs : LogsIn(broke, signs)
             /\ at' = "begin" /\ UNCHANGED <<stage, step, code, mishaps>>
    <3>1. PICK broke \in {"no", "early", "late"}, signs \in Signs : LogsIn(broke, signs)
      BY <2>3
    <3>2. auth' \in [success : BOOLEAN, error : BOOLEAN] /\ hit' \in {hit, hit \cup {"auth"}}
      BY <3>1 DEF LogsIn
    <3>3. Backdrop'
      BY <2>1, <2>3, <3>2 DEF Base, Backdrop, Hits
    <3>4. Asks' /\ Bulks'
      BY <2>1, <2>2, <2>3 DEF Base, Shape, Asks, Bulks, Creating, Cleaning, Working
    <3> QED BY <2>1, <2>3, <3>3, <3>4 DEF Base, Shape
  <2>4. CASE ExitWith(1) /\ UNCHANGED auth /\ (Calm \/ Mishap({"fault"}))
    <3>1. 1 \in 0 .. 2
      OBVIOUS
    <3>2. Shape'
      BY <2>1, <2>2, <2>4, <3>1, ShapeExit
    <3>3. Backdrop'
      <4>1. UNCHANGED <<script, tenant, edits>>
        BY <2>1, <2>4 DEF script
      <4> QED BY <2>4, <4>1, ReadsOnly DEF Base
    <3> QED BY <3>2, <3>3 DEF Base
  <2> QED BY <1>3, <2>3, <2>4 DEF Login
<1>4. CASE Begin
  <2>1. at = "begin" /\ UNCHANGED <<script, tenant, good, thrown, created, paged, mishaps, edits, hit>>
    BY <1>4 DEF Begin
  <2>2. /\ InOrder(created') /\ {good', thrown', paged'} \subseteq BOOLEAN /\ UNCHANGED env /\ 1 \in 0 .. 2
        /\ created' = <<>> /\ ~paged' /\ code = Nil
    BY <2>1 DEF Base, Shape, Bulks, script
  <2>3. Backdrop'
    BY <2>1 DEF Base, Backdrop, script
  <2>4. \/ \E x : Ends(x)
        \/ ExitWith(1)
        \/ env.mode = "cycle" /\ Sends(CycleSteps["create"], "create")
        \/ env.mode = "bulk" /\ at' = "gate" /\ UNCHANGED <<stage, step, code>>
        \/ /\ env.mode \in Singles /\ Commanded(env.named)
           /\ Sends(Step(env.mode, env.named, "given", "none"), "none")
    <3>1. CASE ~auth.success \/ env.mode = "discover"
      BY <1>4, <3>1 DEF Begin
    <3>2. CASE ~(~auth.success \/ env.mode = "discover") /\ env.mode = "cycle"
      BY <1>4, <3>2 DEF Begin
    <3>3. CASE ~(~auth.success \/ env.mode = "discover") /\ env.mode = "bulk"
      BY <1>4, <3>3 DEF Begin
    <3>4. CASE ~(~auth.success \/ env.mode = "discover") /\ env.mode \notin {"cycle", "bulk"}
      <4>1. Single
        BY <1>4, <3>4 DEF Begin
      <4>2. env.mode \in Singles
        BY <3>4, BaseTyped DEF Modes
      <4> QED BY <4>1, <4>2 DEF Single, Deletes, DeleteAllowed, Protected, Commanded
    <3> QED BY <3>1, <3>2, <3>3, <3>4
  <2>5. CASE \E x : Ends(x)
    BY <2>2, <2>3, <2>5, ShapeEnds DEF Base
  <2>6. CASE ExitWith(1)
    BY <2>2, <2>3, <2>6, ShapeExit DEF Base
  <2>7. CASE env.mode = "cycle" /\ Sends(CycleSteps["create"], "create")
    <3>1. /\ at' = "send" /\ step' = CycleSteps["create"] /\ stage' = "create" /\ code' = code
          /\ "create" \in DOMAIN CycleSteps
      BY <2>7, CycleKnown DEF Sends
    <3>2. step' \in StepKinds /\ step'.op \in Singles
      BY <3>1, CycleTyped
    <3>3. Asks' /\ Bulks'
      BY <2>2, <2>7, <3>1, <3>2 DEF Asks, Bulks, Creating, Cleaning, Working, Singles
    <3> QED BY <2>1, <2>2, <2>3, <3>1, <3>2, <3>3 DEF Base, Shape
  <2>8. CASE env.mode = "bulk" /\ at' = "gate" /\ UNCHANGED <<stage, step, code>>
    <3>1. Asks' /\ Bulks'
      BY <2>2, <2>8 DEF Asks, Bulks, Creating, Cleaning, Working
    <3> QED BY <2>1, <2>2, <2>3, <2>8, <3>1 DEF Base, Shape
  <2>9. CASE /\ env.mode \in Singles /\ Commanded(env.named)
             /\ Sends(Step(env.mode, env.named, "given", "none"), "none")
    <3>1. at' = "send" /\ step' = Step(env.mode, env.named, "given", "none") /\ stage' = "none" /\ code' = code
      BY <2>9 DEF Sends
    <3>2. step' \in StepKinds /\ step'.op \in Singles
      BY <2>9, <3>1 DEF Base, Backdrop, Envs, Step, StepKinds
    <3>3. Commanded(env.named)'
      BY <2>2, <2>9 DEF Commanded
    <3>4. Asks' /\ Bulks'
      BY <2>2, <2>9, <3>1, <3>2, <3>3 DEF Asks, Bulks, Creating, Cleaning, Working, Singles
    <3> QED BY <2>1, <2>2, <2>3, <3>1, <3>2, <3>4 DEF Base, Shape
  <2> QED BY <2>4, <2>5, <2>6, <2>7, <2>8, <2>9
<1>5. CASE Request
  <2>1. Backdrop'
    <3>1. /\ tenant' \in TenantRows /\ tenant'.allowed = tenant.allowed /\ UNCHANGED <<script, edits>>
          /\ Calm \/ Mishap({"fault"}) \/ Mishap({"fault", "misread"})
      BY <1>5, Changed
    <3>2. CASE Calm
      BY <3>1, <3>2 DEF Calm, Base, Backdrop, script
    <3>3. ASSUME NEW kind \in {{"fault"}, {"fault", "misread"}}, Mishap(kind) PROVE Backdrop'
      <4>1. mishaps' \in 0 .. MaxMishaps /\ hit' \subseteq Hits
        BY <3>3, ScriptAssumption DEF Mishap, Base, Backdrop, Hits
      <4> QED BY <3>1, <4>1 DEF Base, Backdrop, script
    <3> QED BY <3>1, <3>2, <3>3
  <2>2. at \in {"send", "clean"} /\ UNCHANGED env /\ env.mode \in Modes /\ Shape /\ code = Nil
    BY <1>5, BaseTyped DEF Request, script, Base, Shape
  <2>3. Shape'
    <3>1. CASE Answered(TRUE) \/ Answered(FALSE)
      BY <2>2, <3>1, ShapeAnswered
    <3>2. CASE Throws
      BY <2>2, <3>2, ShapeThrows
    <3>3. CASE at' = "stuck" /\ UNCHANGED <<stage, step, code, good, thrown, created, paged>>
      <4>1. Asks' /\ Bulks'
        BY <2>2, <3>3 DEF Shape, Asks, Bulks, Creating, Cleaning, Working
      <4> QED BY <2>2, <3>3, <4>1 DEF Shape
    <3> QED BY <1>5, <3>1, <3>2, <3>3, Comes
  <2> QED BY <2>1, <2>3 DEF Base
<1>6. CASE Verify
  <2>1. Backdrop'
    BY <1>6, ReadsOnly DEF Verify, Base
  <2>2. at = "check" /\ UNCHANGED env /\ env.mode \in Modes /\ Shape /\ code = Nil
    BY <1>6, BaseTyped DEF Verify, script, Base, Shape
  <2>3. \A answer : Verified(answer) \in BOOLEAN
    BY DEF Verified
  <2>4. Throws \/ \E ok \in BOOLEAN : StepDone(ok)
    BY <1>6, <2>3 DEF Verify
  <2>5. Shape'
    BY <2>2, <2>4, ShapeThrows, ShapeStepDone
  <2> QED BY <2>1, <2>5 DEF Base
<1>7. CASE Gate
  <2>1. Backdrop'
    BY <1>7, ReadsOnly DEF Gate, Base
  <2>2. /\ at = "gate" /\ UNCHANGED env /\ Shape /\ code = Nil /\ env.mode = "bulk" /\ created = <<>> /\ ~paged
        /\ UNCHANGED <<good, thrown, created, paged>> /\ 1 \in 0 .. 2
    BY <1>7 DEF Gate, script, Base, Shape, Bulks
  <2>3. InOrder(created') /\ {good', thrown', paged'} \subseteq BOOLEAN
    BY <2>2 DEF Shape, Bulks
  <2>4. ExitWith(1) \/ Ends(FALSE) \/ Sends(BulkStep(1), "none")
    BY <1>7 DEF Gate
  <2>5. CASE ExitWith(1)
    BY <2>1, <2>2, <2>3, <2>5, ShapeExit DEF Base
  <2>6. CASE Ends(FALSE)
    BY <2>1, <2>2, <2>3, <2>6, ShapeEnds DEF Base
  <2>7. CASE Sends(BulkStep(1), "none")
    <3>1. at' = "send" /\ step' = BulkStep(1) /\ stage' = "none" /\ code' = code
      BY <2>7 DEF Sends
    <3>2. 1 \in 1 .. Count
      BY SetOfLogins
    <3>3. step' \in StepKinds /\ step'.op = "create"
      BY <3>1, <3>2, BulkTyped
    <3>4. Len(created') = 0 /\ 0 < Count /\ step' = BulkStep(Len(created') + 1)
      BY <2>2, <3>1, SetOfLogins
    <3>5. Asks' /\ Bulks'
      BY <2>2, <2>3, <3>1, <3>3, <3>4 DEF Asks, Bulks, Creating, Cleaning, Working, Singles
    <3>6. Shape'
      BY <2>2, <2>3, <3>1, <3>3, <3>5 DEF Shape
    <3> QED BY <2>1, <3>6 DEF Base
  <2> QED BY <2>4, <2>5, <2>6, <2>7
<1>8. CASE PageOne \/ PageTwo
  <2>1. Backdrop'
    BY <1>8, ReadsOnly DEF PageOne, PageTwo, Base
  <2>2. /\ at \in {"page1", "page2"} /\ UNCHANGED env /\ Shape /\ code = Nil /\ env.mode = "bulk"
        /\ InOrder(created) /\ Len(created) = Count
    BY <1>8 DEF PageOne, PageTwo, script, Base, Shape, Bulks
  <2>3. CASE Throws
    BY <2>1, <2>2, <2>3, ShapeThrows DEF Base
  <2>4. CASE at' = "page2" /\ UNCHANGED <<stage, step, code, good, thrown, created>> /\ paged' \in BOOLEAN
    <3>1. Asks' /\ Bulks'
      BY <2>2, <2>4 DEF Shape, Asks, Bulks, Creating, Cleaning, Working
    <3>2. Shape'
      BY <2>2, <2>4, <3>1 DEF Shape
    <3> QED BY <2>1, <3>2 DEF Base
  <2>5. CASE Cleans(created, good) /\ UNCHANGED <<good, thrown, created>> /\ paged' \in BOOLEAN
    <3>1. Cleans(created', good) /\ InOrder(created') /\ {good', thrown', paged'} \subseteq BOOLEAN
      BY <2>2, <2>5 DEF Shape
    <3>2. Shape'
      BY <2>2, <3>1, ShapeCleans
    <3> QED BY <2>1, <3>2 DEF Base
  <2>6. \A answer : Long(answer) \in BOOLEAN
    BY DEF Long
  <2> QED BY <1>8, <2>3, <2>4, <2>5, <2>6 DEF PageOne, PageTwo
<1>9. CASE ReportThrows
  <2>1. /\ at = "exit" /\ code' = 1 /\ UNCHANGED <<script, tenant, at, stage, step, good, thrown, created, paged, edits>>
        /\ Mishap({"fault"})
    BY <1>9 DEF ReportThrows
  <2>2. Backdrop'
    BY <2>1, ReadsOnly DEF Base
  <2>3. Asks' /\ Bulks'
    BY <2>1 DEF script, Base, Shape, Asks, Bulks, Creating, Cleaning, Working, Commanded
  <2>4. Shape'
    BY <2>1, <2>3 DEF Base, Shape
  <2> QED BY <2>2, <2>4 DEF Base
<1> QED BY <1>1, <1>2, <1>3, <1>4, <1>5, <1>6, <1>7, <1>8, <1>9 DEF ScriptNext

\* Every variable of the script and of the tenant stays in its type, and the licence is the
\* tenant's own.
THEOREM ScriptTypeCorrect == ScriptSpec => []ScriptTypeOK
<1>1. Base => ScriptTypeOK
  BY BaseTyped
<1> QED BY <1>1, BaseInit, BaseStep, PTL DEF ScriptSpec

-----------------------------------------------------------------------------
(***************************************************************************)
(* LiveScript: the accounts of others                                      *)
(***************************************************************************)
\* What a run may change of what it found, when h has befallen it.
MayTouch(l, h) == Commanded(l) \/ ("misread" \in h /\ Generates(l))
Safe(l, h)     == l \notin There(before) \/ MayTouch(l, h)

\* What the script goes on to change, or to remember, is its own.
SafeSteps ==
  /\ at \in {"send", "clean"} /\ step.op # "create" => Safe(step.login, hit)
  /\ at = "check" => Safe(step.login, hit)
  /\ \A i \in DOMAIN created : Safe(created[i], hit)

Spared == \A l \in There(before) : tenant.users[l] = before.users[l] \/ MayTouch(l, hit)

SparesInv == Base /\ SafeSteps /\ Spared

\* Whose account is whose does not change during a run, unless a page is misread.
LEMMA SafeStays ==
  ASSUME env' = env, before' = before, hit \subseteq hit'
  PROVE  /\ There(before)' = There(before)
         /\ \A l : MayTouch(l, hit) => MayTouch(l, hit)'
         /\ \A l : Safe(l, hit) => Safe(l, hit)'
         /\ \A l : Safe(l, hit) => Safe(l, hit')
         /\ \A l : Safe(l, hit') => Safe(l, hit)'
<1>1. There(before)' = There(before)
  BY DEF There
<1>2. \A l : (Commanded(l)' <=> Commanded(l)) /\ (Generates(l)' <=> Generates(l))
  BY DEF Commanded, Generates
<1>3. \A l : MayTouch(l, hit) => MayTouch(l, hit)'
  BY <1>2 DEF MayTouch
<1>4. \A l : MayTouch(l, hit) => MayTouch(l, hit')
  BY DEF MayTouch
<1>5. \A l : MayTouch(l, hit') => MayTouch(l, hit)'
  BY <1>2 DEF MayTouch
<1> QED BY <1>1, <1>3, <1>4, <1>5 DEF Safe

\* A request of the script is about a login that it generates or was told.
LEMMA OwnLogin ==
  ASSUME Base, at \in {"send", "check", "clean"}
  PROVE  Generates(step.login) \/ Commanded(step.login)
<1>1. env.mode \in Modes \ {"discover"} /\ InOrder(created)
  BY BaseTyped DEF Base, Shape, Asks, Bulks, Working
<1>2. CASE env.mode \in Singles
  <2>1. at \in {"send", "check"}
    BY <1>2 DEF Base, Shape, Bulks, Singles
  <2> QED BY <1>2, <2>1 DEF Base, Shape, Asks, Working, Step
<1>3. CASE env.mode = "cycle"
  <2>1. stage \in DOMAIN CycleSteps /\ step = CycleSteps[stage]
    BY <1>3 DEF Base, Shape, Asks, Bulks, Working
  <2>2. step.login \in {DeleteLogin, KeepLogin}
    BY <2>1, CycleKnown DEF Step
  <2> QED BY <1>3, <2>2 DEF Generates
<1>4. CASE env.mode = "bulk"
  <2>1. \/ Creating /\ Len(created) < Count /\ step = BulkStep(Len(created) + 1)
        \/ Cleaning /\ created # <<>> /\ step = Cleanup(created)
    BY <1>4 DEF Base, Shape, Bulks, Creating, Cleaning, Working
  <2>2. step.login \in Bulk
    <3>1. CASE Len(created) < Count /\ step = BulkStep(Len(created) + 1)
      <4>1. Len(created) + 1 \in 1 .. Count
        BY <1>1, <3>1, SetOfLogins DEF InOrder
      <4> QED BY <3>1, <4>1, BulkTyped, SetOfLogins
    <3>2. CASE created # <<>> /\ step = Cleanup(created)
      BY <1>1, <3>2, BulkTyped, SetOfLogins
    <3> QED BY <2>1, <3>1, <3>2
  <2> QED BY <1>4, <2>2 DEF Generates
<1> QED BY <1>1, <1>2, <1>3, <1>4 DEF Modes

\* The cleanup goes on with a remembered account.
LEMMA SafeCleans ==
  ASSUME UNCHANGED script, hit \subseteq hit', NEW ok, Cleans(created', ok), created' \in Seq(Bulk),
         \A i \in DOMAIN created' : Safe(created'[i], hit')
  PROVE  SafeSteps'
<1> DEFINE c == created'
<1>1. \A l : Safe(l, hit') => Safe(l, hit)'
  BY SafeStays DEF script
<1>2. CASE c = <<>>
  <2>1. at' = "exit"
    BY <1>2 DEF Cleans, Ends, ExitWith
  <2> QED BY <1>1, <2>1 DEF SafeSteps
<1>3. CASE c # <<>>
  <2>1. at' = "clean" /\ step' = Cleanup(created')
    BY <1>3 DEF Cleans
  <2>2. step'.login = c[Len(c)] /\ Len(c) \in DOMAIN c
    BY <1>3, <2>1 DEF Cleanup, Step
  <2>3. Safe(step'.login, hit')
    BY <2>2
  <2>4. at' # "check" /\ Safe(step.login, hit)' /\ \A i \in DOMAIN created' : Safe(created[i], hit)'
    BY <1>1, <2>1, <2>3
  <2> QED BY <2>4 DEF SafeSteps
<1> QED BY <1>2, <1>3

\* The step after this one works on a new login, or on the one this step has proved its own.
LEMMA SafeStepDone ==
  ASSUME Base, SafeSteps, UNCHANGED script, hit \subseteq hit', at \in {"send", "check", "clean"},
         NEW ok \in BOOLEAN, StepDone(ok), ok => Safe(step.login, hit')
  PROVE  SafeSteps'
<1>1. \A l : Safe(l, hit') => Safe(l, hit)'
  BY SafeStays DEF script
<1>2. (at = "check" \/ step.op # "create") => Safe(step.login, hit')
  BY SafeStays DEF SafeSteps, script
<1>8. \A i \in DOMAIN created : Safe(created[i], hit')
  BY SafeStays DEF SafeSteps, script
<1>3. /\ env.mode \in Modes \ {"discover"} /\ \A i \in DOMAIN created : Safe(created[i], hit')
      /\ created \in Seq(Bulk) /\ step \in StepKinds
  BY <1>8, BaseTyped DEF Base, Shape, Asks, Bulks, InOrder, Working
<1>4. CASE env.mode \in Singles
  <2>1. at' = "exit" /\ created' = created
    BY <1>4 DEF StepDone, Ends, ExitWith, Singles
  <2> QED BY <1>1, <1>3, <2>1 DEF SafeSteps
<1>5. CASE env.mode = "cycle"
  <2> DEFINE next == CycleNext(stage, ok)
  <2>1. created' = created /\ IF next = "none" THEN Ends(good') ELSE Sends(CycleSteps[next], next)
    BY <1>5 DEF StepDone, Singles
  <2>2. CASE next = "none"
    <3>1. at' = "exit"
      BY <2>1, <2>2 DEF Ends, ExitWith
    <3> QED BY <1>1, <1>3, <2>1, <3>1 DEF SafeSteps
  <2>3. CASE next # "none"
    <3>1. at' = "send" /\ step' = CycleSteps[next]
      BY <2>1, <2>3 DEF Sends
    <3>2. stage \in DOMAIN CycleSteps /\ step = CycleSteps[stage]
      BY <1>5 DEF Base, Shape, Asks, Bulks, Working
    <3>3. CASE step.op = "create" /\ ~ok
      <4>1. stage \in {"create", "keep"}
        BY <3>2, <3>3, CycleKnown DEF Step
      <4>2. next = "keep"
        BY <2>3, <3>3, <4>1 DEF CycleNext
      <4>3. step'.op = "create"
        BY <3>1, <4>2, CycleKnown DEF Step
      <4> QED BY <1>1, <1>3, <2>1, <3>1, <4>3 DEF SafeSteps
    <3>4. CASE ~(step.op = "create" /\ ~ok)
      <4>1. Safe(step.login, hit')
        BY <1>2, <3>4
      <4>2. stage \in {"create", "update", "password", "block", "delete", "keep", "keepPassword"}
        BY <2>3, <3>2, CycleKnown DEF CycleNext
      <4>3. step'.op = "create" \/ step'.login = step.login
        <5>1. stage \in {"create", "update", "password", "block"} => step.login = DeleteLogin
          BY <3>2, CycleKnown DEF Step
        <5>2. stage \in {"create", "update", "password", "block"} =>
                next \in {"update", "password", "block", "delete", "keep"}
          BY DEF CycleNext
        <5>3. next \in {"update", "password", "block", "delete"} => step'.login = DeleteLogin
          BY <3>1, CycleKnown DEF Step
        <5>4. next = "keep" => step'.op = "create"
          BY <3>1, CycleKnown DEF Step
        <5>5. stage = "delete" => next = "keep"
          BY DEF CycleNext
        <5>6. stage \in {"keep", "keepPassword"} =>
                next \in {"keepPassword", "keepCleanup"} /\ step.login = KeepLogin
          BY <2>3, <3>2, CycleKnown DEF CycleNext, Step
        <5>7. next \in {"keepPassword", "keepCleanup"} => step'.login = KeepLogin
          BY <3>1, CycleKnown DEF Step
        <5> HIDE DEF next
        <5> QED BY <4>2, <5>1, <5>2, <5>3, <5>4, <5>5, <5>6, <5>7
      <4> HIDE DEF next
      <4> QED BY <1>1, <1>3, <2>1, <3>1, <4>1, <4>3 DEF SafeSteps
    <3> QED BY <3>3, <3>4
  <2> QED BY <2>2, <2>3
<1>6. CASE env.mode = "bulk" /\ step.op = "create"
  <2>1. /\ created' = Remembered(ok)
        /\ IF ~ok THEN Cleans(created', good')
           ELSE IF Len(created') < Count THEN Sends(BulkStep(Len(created') + 1), "none")
           ELSE at' = "page1" /\ step' = NoStep /\ UNCHANGED <<stage, code>>
    BY <1>6 DEF StepDone, Singles
  <2>2. CASE ~ok
    BY <1>3, <2>1, <2>2, SafeCleans DEF Remembered
  <2>3. CASE ok
    <3>1. created' = Append(created, step.login)
      BY <2>1, <2>3 DEF Remembered
    <3>2. \A i \in DOMAIN created' : Safe(created'[i], hit')
      <4>1. created \in Seq(Logins) /\ step.login \in Logins
        BY <1>3, SetOfLogins DEF StepKinds
      <4>2. \A i \in DOMAIN created' : (i \in DOMAIN created /\ created'[i] = created[i]) \/ created'[i] = step.login
        BY <3>1, <4>1
      <4> QED BY <1>3, <2>3, <4>2
    <3>3. at' \in {"send", "page1"}
      BY <2>1, <2>3 DEF Sends
    <3>4. at' = "send" => step'.op = "create"
      <4>1. at' = "send" => step' = BulkStep(Len(created') + 1)
        BY <2>1, <2>3 DEF Sends
      <4>2. BulkStep(Len(created') + 1).op = "create"
        BY DEF BulkStep, Step
      <4> QED BY <4>1, <4>2
    <3> QED BY <1>1, <3>2, <3>3, <3>4 DEF SafeSteps
  <2> QED BY <2>2, <2>3
<1>7. CASE env.mode = "bulk" /\ step.op # "create"
  <2>1. created # <<>> /\ step = Cleanup(created)
    BY <1>7 DEF Base, Shape, Bulks, Cleaning
  <2>2. step.op = "delete"
    BY <2>1 DEF Cleanup, Step
  <2>3. created' = SubSeq(created, 1, Len(created) - 1) /\ Cleans(created', good')
    BY <1>7, <2>2 DEF StepDone, Singles
  <2>4. created' \in Seq(Bulk) /\ \A i \in DOMAIN created' : i \in DOMAIN created /\ created'[i] = created[i]
    BY <1>3, <2>1, <2>3
  <2> QED BY <1>3, <2>3, <2>4, SafeCleans
<1> QED BY <1>3, <1>4, <1>5, <1>6, <1>7 DEF Modes

\* An exception goes on to the cleanup only.
LEMMA SafeThrows ==
  ASSUME Base, SafeSteps, UNCHANGED script, hit \subseteq hit', Throws
  PROVE  SafeSteps'
<1>4. \A i \in DOMAIN created : Safe(created[i], hit')
  BY SafeStays DEF SafeSteps, script
<1>1. /\ created' = created /\ created \in Seq(Bulk) /\ \A i \in DOMAIN created : Safe(created[i], hit')
  BY <1>4 DEF Throws, Base, Shape, Bulks, InOrder
<1>2. CASE env.mode = "bulk" /\ step.op # "delete"
  <2>1. Cleans(created', FALSE)
    BY <1>1, <1>2 DEF Throws
  <2> QED BY <1>1, <2>1, SafeCleans
<1>3. CASE ~(env.mode = "bulk" /\ step.op # "delete")
  <2>1. at' = "exit"
    BY <1>3 DEF Throws, ExitWith
  <2>2. \A l : Safe(l, hit') => Safe(l, hit)'
    BY SafeStays DEF script
  <2> QED BY <1>1, <2>1, <2>2 DEF SafeSteps
<1> QED BY <1>2, <1>3

\* A creation is taken only where nobody is, so what a request changes is the script's own.
LEMMA SafeRequest ==
  ASSUME SparesInv, Request
  PROVE  Spared' /\ SafeSteps'
<1>1. /\ at \in {"send", "clean"} /\ UNCHANGED script
      /\ tenant' = tenant \/ (Takes(tenant, step) /\ Makes(tenant, step, tenant'))
      /\ step \in StepKinds /\ tenant \in TenantRows
  BY Changed DEF SparesInv
<1>6. hit \subseteq hit'
  BY Changed DEF SparesInv, Calm, Mishap
<1>7. /\ env' = env /\ before' = before /\ Base
      /\ \A l : Safe(l, hit) => Safe(l, hit')
      /\ \A l : Safe(l, hit') => Safe(l, hit)'
      /\ \A l : Safe(l, hit) => Safe(l, hit)'
  BY <1>1, <1>6, SafeStays DEF script, SparesInv
<1>2. /\ There(before)' = There(before) /\ before' = before
      /\ \A l : MayTouch(l, hit) => MayTouch(l, hit)'
  BY <1>6, <1>7, SafeStays
<1>3. Takes(tenant, step) => Safe(step.login, hit)
  <2>1. CASE step.op = "create"
    BY <2>1 DEF Takes, There, Safe, SparesInv, Spared
  <2>2. CASE step.op # "create"
    BY <1>1, <2>2 DEF SparesInv, SafeSteps
  <2> QED BY <2>1, <2>2
<1>8. "misread" \in hit' => Safe(step.login, hit')
  <2>1. Generates(step.login) \/ Commanded(step.login)
    BY <1>1, <1>7, OwnLogin
  <2> QED BY <2>1 DEF Safe, MayTouch
<1>4. Spared'
  <2>1. \A l \in There(before) : tenant'.users[l] = tenant.users[l] \/ MayTouch(l, hit)
    <3>1. CASE tenant' = tenant
      BY <3>1
    <3>2. CASE Takes(tenant, step) /\ Makes(tenant, step, tenant')
      BY <1>3, <3>2 DEF Makes, Safe, There
    <3> QED BY <1>1, <3>1, <3>2
  <2>2. \A l \in There(before) : tenant.users[l] = before.users[l] \/ MayTouch(l, hit)
    BY DEF SparesInv, Spared
  <2>3. \A l \in There(before)' : tenant'.users[l] = before'.users[l] \/ MayTouch(l, hit)'
    BY <1>2, <2>1, <2>2
  <2> QED BY <2>3 DEF Spared
<1>5. SafeSteps'
  <2>1. CASE Answered(TRUE) /\ (Takes(tenant, step) \/ "misread" \in hit')
    <3>1. Safe(step.login, hit')
      BY <1>3, <1>7, <1>8, <2>1
    <3>2. CASE step.check # "none"
      <4>1. at' = "check" /\ step' = step /\ created' = created
        BY <2>1, <3>2 DEF Answered
      <4>2. Safe(step.login, hit)'
        BY <1>7, <3>1, <4>1
      <4> QED BY <1>7, <4>1, <4>2 DEF SparesInv, SafeSteps
    <3>3. CASE step.check = "none"
      <4>1. StepDone(TRUE)
        BY <2>1, <3>3 DEF Answered
      <4> QED BY <1>1, <1>6, <3>1, <4>1, SafeStepDone DEF SparesInv
    <3> QED BY <3>2, <3>3
  <2>2. CASE Answered(FALSE)
    <3>1. StepDone(FALSE)
      BY <2>2 DEF Answered
    <3> QED BY <1>1, <1>6, <3>1, SafeStepDone DEF SparesInv
  <2>3. CASE Throws
    BY <1>1, <1>6, <2>3, SafeThrows DEF SparesInv
  <2>4. CASE at' = "stuck" /\ UNCHANGED <<stage, step, code, good, thrown, created, paged>>
    BY <1>1, <1>7, <2>4 DEF SparesInv, SafeSteps
  <2> QED BY <2>1, <2>2, <2>3, <2>4, Comes DEF SparesInv
<1> QED BY <1>4, <1>5

LEMMA SparesInit == ScriptInit => SparesInv
  BY BaseInit DEF ScriptInit, SparesInv, SafeSteps, Spared

\* A run never forgets what befell it, what it was told and what it found.
LEMMA ScriptKeeps ==
  ASSUME [ScriptNext]_scriptVars
  PROVE  hit \subseteq hit' /\ env' = env /\ before' = before
<1>1. CASE UNCHANGED scriptVars
  BY <1>1 DEF scriptVars
<1>2. CASE Login
  BY <1>2 DEF Login, LogsIn, Calm, Mishap
<1>3. CASE Begin
  BY <1>3 DEF Begin, script
<1>4. CASE Request
  BY <1>4 DEF Request, script, Calm, Mishap
<1>5. CASE Verify \/ Gate \/ PageOne \/ PageTwo
  BY <1>5 DEF Verify, Gate, PageOne, PageTwo, ListRead, script, Calm, Mishap
<1>6. CASE ReportThrows \/ Others
  BY <1>6 DEF ReportThrows, Others, script, Mishap
<1> QED BY <1>1, <1>2, <1>3, <1>4, <1>5, <1>6 DEF ScriptNext

LEMMA SparesStep == SparesInv /\ [ScriptNext]_scriptVars => SparesInv'
<1> SUFFICES ASSUME SparesInv, [ScriptNext]_scriptVars PROVE SparesInv'
  OBVIOUS
<1>1. Base /\ SafeSteps /\ Spared /\ Base'
  BY BaseStep DEF SparesInv
<1>12. hit \subseteq hit' /\ env' = env /\ before' = before
  BY ScriptKeeps
<1>13. /\ There(before)' = There(before)
       /\ \A l : MayTouch(l, hit) => MayTouch(l, hit)'
       /\ \A l : Safe(l, hit) => Safe(l, hit)'
       /\ \A l : Safe(l, hit) => Safe(l, hit')
       /\ \A i \in DOMAIN created : Safe(created[i], hit) /\ Safe(created[i], hit')
  BY <1>1, <1>12, SafeStays DEF SafeSteps
<1>2. ASSUME tenant'.users = tenant.users PROVE Spared'
  BY <1>1, <1>2, <1>12, <1>13 DEF Spared
<1>3. ASSUME created' = created, at' \notin {"send", "clean", "check"} PROVE SafeSteps'
  BY <1>3, <1>13 DEF SafeSteps
<1>14. ASSUME UNCHANGED <<at, step, created>> PROVE SafeSteps'
  BY <1>1, <1>13, <1>14 DEF SafeSteps
<1>4. CASE UNCHANGED scriptVars
  <2>1. UNCHANGED tenant /\ UNCHANGED <<at, step, created>>
    BY <1>4 DEF scriptVars
  <2> QED BY <1>1, <1>2, <1>14, <2>1 DEF SparesInv
<1>5. CASE Others
  <2>1. UNCHANGED <<at, step, created>>
    BY <1>5 DEF Others
  <2>2. tenant'.users = tenant.users
    BY <1>1, <1>5 DEF Others, Base, Backdrop, TenantRows
  <2> QED BY <1>1, <1>2, <1>14, <2>1, <2>2 DEF SparesInv
<1>6. CASE Login
  <2>1. tenant' = tenant /\ created' = created /\ at' \in {"begin", "exit"}
    BY <1>6 DEF Login, ExitWith
  <2> QED BY <1>1, <1>2, <1>3, <2>1 DEF SparesInv
<1>15. CASE ReportThrows
  BY <1>1, <1>2, <1>14, <1>15 DEF ReportThrows, SparesInv
<1>7. CASE Begin
  <2>1. UNCHANGED script /\ UNCHANGED <<tenant, created>> /\ env.mode \in Modes
    BY <1>1, <1>7, BaseTyped DEF Begin
  <2>2. \/ at' \in {"exit", "gate"}
        \/ at' = "send" /\ step' = CycleSteps["create"]
        \/ at' = "send" /\ step' = Step(env.mode, env.named, "given", "none") /\ Commanded(env.named)
    <3>1. CASE ~auth.success \/ env.mode = "discover"
      BY <1>7, <3>1 DEF Begin, Ends, ExitWith
    <3>2. CASE ~(~auth.success \/ env.mode = "discover") /\ env.mode = "cycle"
      BY <1>7, <3>2 DEF Begin, Sends
    <3>3. CASE ~(~auth.success \/ env.mode = "discover") /\ env.mode = "bulk"
      BY <1>7, <3>3 DEF Begin
    <3>4. CASE ~(~auth.success \/ env.mode = "discover") /\ env.mode \notin {"cycle", "bulk"}
      <4>1. Single
        BY <1>7, <3>4 DEF Begin
      <4>2. env.mode \in Singles
        BY <2>1, <3>4 DEF Modes
      <4> QED BY <4>1, <4>2 DEF Single, Sends, Ends, ExitWith, Deletes, DeleteAllowed, Protected, Commanded
    <3> QED BY <3>1, <3>2, <3>3, <3>4
  <2>3. at' = "send" => step'.op = "create" \/ Safe(step.login, hit)'
    <3>1. CASE step' = CycleSteps["create"]
      BY <3>1, CycleKnown DEF Step
    <3>2. CASE step' = Step(env.mode, env.named, "given", "none") /\ Commanded(env.named)
      <4>1. step'.login = env.named /\ Safe(env.named, hit)
        BY <3>2 DEF Step, Safe, MayTouch
      <4> QED BY <1>13, <4>1
    <3> QED BY <2>2, <3>1, <3>2
  <2>4. SafeSteps'
    BY <1>13, <2>1, <2>2, <2>3 DEF SafeSteps
  <2> QED BY <1>1, <1>2, <2>1, <2>4 DEF SparesInv
<1>8. CASE Request
  BY <1>1, <1>8, SafeRequest DEF SparesInv
<1>9. CASE Verify
  <2>1. at = "check" /\ UNCHANGED script /\ UNCHANGED tenant
    BY <1>9 DEF Verify
  <2>2. \A answer : Verified(answer) \in BOOLEAN
    BY DEF Verified
  <2>3. Throws \/ \E ok \in BOOLEAN : StepDone(ok)
    BY <1>9, <2>2 DEF Verify
  <2>4. Safe(step.login, hit')
    BY <1>1, <1>13, <2>1 DEF SafeSteps
  <2>5. SafeSteps'
    BY <1>1, <1>12, <2>1, <2>3, <2>4, SafeStepDone, SafeThrows
  <2> QED BY <1>1, <1>2, <2>1, <2>5 DEF SparesInv
<1>10. CASE Gate
  <2>1. UNCHANGED script /\ UNCHANGED <<tenant, created>>
    BY <1>10 DEF Gate
  <2>2. at' = "exit" \/ (at' = "send" /\ step'.op = "create")
    BY <1>10 DEF Gate, Ends, ExitWith, Sends, BulkStep, Step
  <2>3. SafeSteps'
    BY <1>13, <2>1, <2>2 DEF SafeSteps
  <2> QED BY <1>1, <1>2, <2>1, <2>3 DEF SparesInv
<1>11. CASE PageOne \/ PageTwo
  <2>1. UNCHANGED script /\ UNCHANGED tenant
    BY <1>11 DEF PageOne, PageTwo
  <2>2. Throws \/ (at' = "page2" /\ created' = created) \/ (Cleans(created, good) /\ created' = created)
    BY <1>11 DEF PageOne, PageTwo
  <2>3. CASE Throws
    BY <1>1, <1>2, <1>12, <2>1, <2>3, SafeThrows DEF SparesInv
  <2>4. CASE at' = "page2" /\ created' = created
    BY <1>1, <1>2, <1>3, <2>1, <2>4 DEF SparesInv
  <2>5. CASE Cleans(created, good) /\ created' = created
    <3>1. Cleans(created', good) /\ created' \in Seq(Bulk) /\ \A i \in DOMAIN created' : Safe(created'[i], hit')
      BY <1>1, <1>13, <2>5 DEF Base, Shape, Bulks, InOrder
    <3>2. SafeSteps'
      BY <1>12, <2>1, <3>1, SafeCleans
    <3> QED BY <1>1, <1>2, <2>1, <3>2 DEF SparesInv
  <2> QED BY <2>2, <2>3, <2>4, <2>5
<1> QED BY <1>4, <1>5, <1>6, <1>7, <1>8, <1>9, <1>10, <1>11, <1>15 DEF ScriptNext

\* Whatever the run meets, it leaves the accounts of others as they were: it changes what a
\* single operation's payload names, and a login that it generates where nobody has it - or
\* anybody, once the refusal to create it was read as success.
THEOREM OthersSpared == ScriptSpec => []SparesOthers
<1>1. SparesInv => SparesOthers
  BY DEF SparesInv, Spared, SparesOthers, MayTouch
<1> QED BY <1>1, SparesInit, SparesStep, PTL DEF ScriptSpec

-----------------------------------------------------------------------------
(***************************************************************************)
(* LiveScript: what the exit with 0 says of the tenant                     *)
(***************************************************************************)
NewAccount == [fio |-> "given", blocked |-> FALSE]
Legible    == "garbled" \notin hit
Honest     == "misread" \notin hit      \* no refusal was read as success
Gone(t, n) == \A i \in n + 1 .. Count : BulkLogins[i] \notin There(t)

\* The bulk users that are no longer remembered are gone, once the pages were read.
CleanBulk ==
  /\ paged /\ good /\ Legible => Gone(tenant, Len(created))
  /\ code = 0 => paged /\ good /\ created = <<>>

\* The delete-user is gone by the time the keep-user comes, and the keep-user is new.
CleanCycle ==
  /\ good /\ Legible /\ stage \in {"keep", "keepPassword"} => DeleteLogin \notin There(tenant)
  /\ Honest /\ at = "check" /\ stage = "keep" => tenant.users[KeepLogin] \in {Nil, NewAccount}
  /\ Honest /\ Working /\ stage = "keepPassword" => tenant.users[KeepLogin] = NewAccount
  /\ stage = "keepCleanup" => ~good
  /\ code = 0 /\ Legible => DeleteLogin \notin There(tenant)
  /\ code = 0 /\ Legible /\ Honest => tenant.users[KeepLogin] = NewAccount

CleanInv ==
  /\ Base
  /\ env.mode = "bulk"  => CleanBulk
  /\ env.mode = "cycle" => CleanCycle

\* Nil is none of the exit codes.
LEMMA NotZero == Nil # 0 /\ Nil # 1 /\ Nil # 2
  BY ScriptAssumption

\* main exits with 0 only for a report that is good.
LEMMA EndsCode ==
  ASSUME NEW ok, Ends(ok)
  PROVE  at' = "exit" /\ stage' = "none" /\ (code' = 0 => ok /\ ~auth.error) /\ code' \in {0, 2}
  BY DEF Ends, ExitWith

\* The finally block leads to 0 only when nothing is left to clean and both pages were read.
LEMMA CleansCode ==
  ASSUME code = Nil, NEW ok, Cleans(created', ok), code' = 0
  PROVE  ok /\ paged' /\ created' = <<>>
<1>1. created' = <<>>
  BY NotZero DEF Cleans
<1>2. ~ExitWith(1)
  BY DEF ExitWith
<1>3. Ends(ok /\ paged')
  BY <1>1, <1>2 DEF Cleans
<1> QED BY <1>1, <1>3, EndsCode

\* A good answer to a cleanup step has shown that the account is gone.
LEMMA BulkStepDone ==
  ASSUME Base, env.mode = "bulk", UNCHANGED script, at \in {"send", "check", "clean"}, NEW ok \in BOOLEAN,
         StepDone(ok),
         paged /\ good /\ Legible' => Gone(tenant', Len(created)),
         step.op = "delete" /\ ok /\ Legible' => step.login \notin There(tenant')
  PROVE  CleanBulk'
<1>1. /\ good' = (good /\ ok) /\ paged' = paged /\ code = Nil /\ InOrder(created)
      /\ good \in BOOLEAN /\ paged \in BOOLEAN
  BY DEF StepDone, Base, Shape, Bulks
<1>2. CASE step.op = "create"
  <2>1. ~paged
    <3>1. at # "clean"
      BY <1>2, BulkTyped DEF Base, Shape, Bulks, Cleaning
    <3> QED BY <1>2, <3>1 DEF Base, Shape, Bulks, Creating, Working
  <2>2. code' # 0
    <3>1. IF ~ok THEN Cleans(created', good')
           ELSE IF Len(created') < Count THEN Sends(BulkStep(Len(created') + 1), "none")
           ELSE at' = "page1" /\ step' = NoStep /\ UNCHANGED <<stage, code>>
      BY <1>2 DEF StepDone, Singles
    <3>2. CASE ~ok
      BY <1>1, <2>1, <3>1, <3>2, CleansCode
    <3>3. CASE ok
      <4>1. code' = code
        BY <3>1, <3>3 DEF Sends
      <4> QED BY <1>1, <4>1, NotZero
    <3> QED BY <3>2, <3>3
  <2> QED BY <1>1, <2>1, <2>2 DEF CleanBulk
<1>3. CASE step.op # "create"
  <2>1. created # <<>> /\ step = Cleanup(created)
    BY <1>3 DEF Base, Shape, Bulks, Cleaning
  <2>2. step.op = "delete" /\ step.login = BulkLogins[Len(created)] /\ Len(created) \in 1 .. Count
    BY <1>1, <2>1, BulkTyped
  <2>3. created' = SubSeq(created, 1, Len(created) - 1) /\ Cleans(created', good')
    BY <2>2 DEF StepDone, Singles
  <2>4. Len(created') = Len(created) - 1
    BY <1>1, <2>1, <2>3, OrderKept
  <2>5. code' = 0 => paged' /\ good' /\ created' = <<>>
    BY <1>1, <2>3, CleansCode
  <2>6. ASSUME paged', good', Legible' PROVE Gone(tenant', Len(created'))
    <3>1. Gone(tenant', Len(created)) /\ step.login \notin There(tenant')
      BY <1>1, <2>2, <2>6
    <3>2. \A i \in Len(created') + 1 .. Count : i = Len(created) \/ i \in Len(created) + 1 .. Count
      BY <2>2, <2>4, SetOfLogins
    <3> QED BY <2>2, <3>1, <3>2 DEF Gone
  <2>7. (Gone(tenant, Len(created)))' <=> Gone(tenant', Len(created'))
    BY DEF Gone, There
  <2> QED BY <2>5, <2>6, <2>7 DEF CleanBulk
<1> QED BY <1>2, <1>3

\* A good step of the cycle has shown what the next one relies on.
LEMMA CycleStepDone ==
  ASSUME Base, env.mode = "cycle", UNCHANGED script, at \in {"send", "check", "clean"}, NEW ok \in BOOLEAN,
         StepDone(ok),
         good /\ Legible' /\ stage \in {"keep", "keepPassword"} => DeleteLogin \notin There(tenant'),
         Honest' /\ ok /\ stage = "keep" => tenant'.users[KeepLogin] = NewAccount,
         Honest' /\ stage = "keepPassword" => tenant'.users[KeepLogin] = NewAccount,
         stage = "keepCleanup" => ~good,
         ok /\ Legible' /\ stage = "delete" => DeleteLogin \notin There(tenant')
  PROVE  CleanCycle'
<1> DEFINE next == CycleNext(stage, ok)
<1>1. /\ good' = (good /\ ok) /\ code = Nil /\ good \in BOOLEAN /\ stage \in DOMAIN CycleSteps
      /\ There(tenant)' = There(tenant')
  BY DEF StepDone, Base, Shape, Bulks, Asks, Working, There
<1>2. IF next = "none" THEN Ends(good') ELSE Sends(CycleSteps[next], next)
  BY DEF StepDone, Singles
<1>3. CASE next = "none"
  <2>1. Ends(good')
    BY <1>2, <1>3
  <2>2. at' = "exit" /\ stage' = "none" /\ (code' = 0 => good')
    BY <2>1, EndsCode
  <2>3. stage \in {"keep", "keepPassword", "keepCleanup"} /\ (stage = "keep" => ~ok)
    BY <1>1, <1>3, CycleKnown DEF CycleNext
  <2>4. /\ code' = 0 /\ Legible' => DeleteLogin \notin There(tenant')
        /\ code' = 0 /\ Legible' /\ Honest' => tenant'.users[KeepLogin] = NewAccount
    BY <1>1, <2>2, <2>3
  <2>5. ~Working' /\ stage' \notin {"keep", "keepPassword", "keepCleanup"} /\ at' # "check"
    BY <2>2 DEF Working
  <2>6. (code = 0 /\ Legible => DeleteLogin \notin There(tenant))'
    BY <1>1, <2>4
  <2>7. (code = 0 /\ Legible /\ Honest => tenant.users[KeepLogin] = NewAccount)'
    BY <1>1, <2>4 DEF NewAccount
  <2> QED BY <2>5, <2>6, <2>7 DEF CleanCycle
<1>4. CASE next # "none"
  <2>1. at' = "send" /\ stage' = next /\ code' = Nil
    BY <1>1, <1>2, <1>4 DEF Sends
  <2>2. next = "keep" => (stage = "create" /\ ~ok) \/ stage = "delete"
    BY <1>1, CycleKnown DEF CycleNext
  <2>3. next = "keepPassword" => stage = "keep" /\ ok
    BY <1>1, CycleKnown DEF CycleNext
  <2>4. next = "keepCleanup" => stage = "keepPassword" /\ ~ok
    BY <1>1, CycleKnown DEF CycleNext
  <2> HIDE DEF next
  <2>5. good' /\ Legible' /\ next \in {"keep", "keepPassword"} => DeleteLogin \notin There(tenant')
    BY <1>1, <2>2, <2>3
  <2>6. Honest' /\ next = "keepPassword" => tenant'.users[KeepLogin] = NewAccount
    BY <2>3
  <2>7. next = "keepCleanup" => ~good'
    BY <1>1, <2>4
  <2> QED BY <1>1, <2>1, <2>5, <2>6, <2>7, NotZero DEF CleanCycle, Working
<1> QED BY <1>3, <1>4

\* An exception leaves nothing to claim.
LEMMA CleanThrows ==
  ASSUME Base, UNCHANGED script, code = Nil, Throws, at \in {"send", "check", "clean", "page1", "page2"},
         paged /\ good /\ Legible' /\ env.mode = "bulk" => Gone(tenant', Len(created))
  PROVE  (env.mode = "bulk" => CleanBulk') /\ (env.mode = "cycle" => CleanCycle')
<1>1. good' = good /\ created' = created /\ paged' = paged /\ There(tenant)' = There(tenant')
  BY DEF Throws, There
<1>2. code' # 0
  <2>1. ExitWith(1) => code' # 0
    BY DEF ExitWith
  <2>2. Cleans(created', FALSE) => code' # 0
    BY CleansCode
  <2> QED BY <1>1, <2>1, <2>2 DEF Throws
<1>3. ASSUME env.mode = "bulk" PROVE CleanBulk'
  BY <1>1, <1>2, <1>3 DEF CleanBulk, Gone
<1>4. ASSUME env.mode = "cycle" PROVE CleanCycle'
  <2>1. ExitWith(1)
    BY <1>4 DEF Throws
  <2> QED BY <1>2, <2>1 DEF CleanCycle, ExitWith, Working
<1> QED BY <1>3, <1>4

LEMMA CleanInit == ScriptInit => CleanInv
<1> SUFFICES ASSUME ScriptInit PROVE CleanInv
  OBVIOUS
<1>1. CleanBulk /\ CleanCycle
  BY NotZero DEF ScriptInit, CleanBulk, CleanCycle, Working
<1> QED BY <1>1, BaseInit DEF CleanInv

\* A request, whatever comes of it, leaves what is known of the tenant true.
LEMMA CleanRequest ==
  ASSUME CleanInv, Request
  PROVE  (env.mode = "bulk" => CleanBulk') /\ (env.mode = "cycle" => CleanCycle')
<1>1. /\ at \in {"send", "clean"} /\ UNCHANGED script /\ code = Nil /\ Base
      /\ tenant' = tenant \/ (Takes(tenant, step) /\ Makes(tenant, step, tenant'))
      /\ step \in StepKinds /\ tenant \in TenantRows /\ There(tenant)' = There(tenant')
      /\ \A l \in Logins : l # step.login => tenant'.users[l] = tenant.users[l]
  BY Changed DEF CleanInv, Base, Shape, There
<1>2. (Legible' => Legible) /\ (Honest' => Honest)
  <2>1. hit \subseteq hit'
    BY Changed DEF CleanInv, Calm, Mishap
  <2> QED BY <2>1 DEF Legible, Honest
<1>3. \A l \in Logins : l # step.login => (l \in There(tenant') <=> l \in There(tenant))
  BY <1>1 DEF There
<1>4. ASSUME env.mode = "bulk" PROVE CleanBulk'
  <2>1. CASE at = "send"
    <3>1. ~paged /\ step.op = "create"
      BY <1>1, <1>4, <2>1 DEF Base, Shape, Bulks, Creating, Working
    <3>2. CASE Answered(TRUE) \/ Answered(FALSE)
      <4>1. CASE \E ok \in BOOLEAN : StepDone(ok)
        BY <1>1, <1>4, <3>1, <4>1, BulkStepDone
      <4>2. CASE UNCHANGED <<code, paged>>
        BY <1>1, <3>1, <4>2, NotZero DEF CleanBulk
      <4> QED BY <3>2, <4>1, <4>2 DEF Answered
    <3>3. CASE Throws
      BY <1>1, <1>4, <3>1, <3>3, CleanThrows
    <3>4. CASE UNCHANGED <<code, paged>>
      BY <1>1, <3>1, <3>4, NotZero DEF CleanBulk
    <3> QED BY <1>1, <3>2, <3>3, <3>4, Comes
  <2>2. CASE at = "clean"
    <3>1. created # <<>> /\ step = Cleanup(created) /\ InOrder(created)
      BY <1>1, <1>4, <2>2 DEF Base, Shape, Bulks, Cleaning
    <3>2. step.op = "delete" /\ step.check = "absent" /\ Len(created) \in 1 .. Count
      BY <3>1, BulkTyped
    <3>3. There(tenant') \subseteq There(tenant)
      BY <1>1, <3>2 DEF Makes
    <3>4. paged /\ good /\ Legible' => Gone(tenant', Len(created))
      BY <1>2, <1>4, <3>3 DEF CleanInv, CleanBulk, Gone
    <3>5. CASE Answered(TRUE)
      <4>1. UNCHANGED <<code, paged, good, created>>
        BY <3>2, <3>5 DEF Answered
      <4> QED BY <1>1, <3>4, <4>1, NotZero DEF CleanBulk, Gone
    <3>6. CASE Answered(FALSE)
      <4>1. StepDone(FALSE)
        BY <3>6 DEF Answered
      <4> QED BY <1>1, <1>4, <3>4, <4>1, BulkStepDone
    <3>7. CASE Throws
      BY <1>1, <1>4, <3>4, <3>7, CleanThrows
    <3>8. CASE UNCHANGED <<stage, step, code, good, thrown, created, paged>>
      BY <1>1, <3>4, <3>8, NotZero DEF CleanBulk, Gone
    <3> QED BY <1>1, <3>5, <3>6, <3>7, <3>8, Comes
  <2> QED BY <1>1, <2>1, <2>2
<1>5. ASSUME env.mode = "cycle" PROVE CleanCycle'
  <2>1. at = "send" /\ stage \in DOMAIN CycleSteps /\ step = CycleSteps[stage]
    BY <1>1, <1>5 DEF Base, Shape, Asks, Bulks, Working
  <2>2. CleanCycle
    BY <1>5 DEF CleanInv
  <2>3. DeleteLogin # KeepLogin /\ DeleteLogin \in Logins /\ KeepLogin \in Logins
    BY LoginsDiffer, SetOfLogins
  <2>4. good /\ Legible' /\ stage \in {"keep", "keepPassword"} => DeleteLogin \notin There(tenant')
    <3>1. stage \in {"keep", "keepPassword"} => step.login = KeepLogin
      BY <2>1, CycleKnown DEF Step
    <3> QED BY <1>2, <1>3, <2>2, <2>3, <3>1 DEF CleanCycle
  <2>5. Honest' /\ stage = "keepPassword" => tenant'.users[KeepLogin] = NewAccount
    <3> SUFFICES ASSUME Honest', stage = "keepPassword" PROVE tenant'.users[KeepLogin] = NewAccount
      OBVIOUS
    <3>1. step.op = "password" /\ step.login = KeepLogin /\ step.fio = "given"
      BY <2>1, CycleKnown DEF Step
    <3>2. tenant.users[KeepLogin] = NewAccount
      BY <1>2, <2>1, <2>2 DEF CleanCycle, Working
    <3>3. Makes(tenant, step, tenant') =>
            tenant'.users[KeepLogin] = [fio |-> "given", blocked |-> tenant.users[KeepLogin].blocked]
      BY <3>1 DEF Makes
    <3> QED BY <1>1, <3>2, <3>3 DEF NewAccount
  <2>6. stage = "keepCleanup" => ~good
    BY <2>2 DEF CleanCycle
  <2>7. CASE Answered(TRUE) /\ (Takes(tenant, step) \/ "misread" \in hit')
    <3>1. CASE step.check # "none"
      <4>1. at' = "check" /\ UNCHANGED <<stage, step, code, good, thrown, created, paged>>
        BY <2>7, <3>1 DEF Answered
      <4>2. Honest' /\ stage = "keep" => tenant'.users[KeepLogin] \in {Nil, NewAccount}
        <5> SUFFICES ASSUME Honest', stage = "keep" PROVE tenant'.users[KeepLogin] \in {Nil, NewAccount}
          OBVIOUS
        <5>1. step.op = "create" /\ step.login = KeepLogin /\ step.fio = "given"
          BY <2>1, CycleKnown DEF Step
        <5>2. tenant.users[KeepLogin] = Nil
          BY <2>3, <2>7, <5>1 DEF Takes, There, Honest
        <5>3. Makes(tenant, step, tenant') => tenant'.users[KeepLogin] = NewAccount
          BY <5>1 DEF Makes, NewAccount
        <5> QED BY <1>1, <5>2, <5>3
      <4> QED BY <1>1, <2>4, <2>5, <2>6, <4>1, <4>2, NotZero DEF CleanCycle, Working
    <3>2. CASE step.check = "none"
      <4>1. StepDone(TRUE)
        BY <2>7, <3>2 DEF Answered
      <4>2. stage \notin {"keep", "delete"}
        BY <2>1, <3>2, CycleKnown DEF Step
      <4> QED BY <1>1, <1>5, <2>4, <2>5, <2>6, <4>1, <4>2, CycleStepDone
    <3> QED BY <3>1, <3>2
  <2>8. CASE Answered(FALSE)
    <3>1. StepDone(FALSE)
      BY <2>8 DEF Answered
    <3> QED BY <1>1, <1>5, <2>4, <2>5, <2>6, <3>1, CycleStepDone
  <2>9. CASE Throws
    BY <1>1, <1>5, <2>9, CleanThrows
  <2>10. CASE at' = "stuck" /\ UNCHANGED <<stage, step, code, good, thrown, created, paged>>
    BY <1>1, <2>4, <2>5, <2>6, <2>10, NotZero DEF CleanCycle, Working
  <2> QED BY <2>7, <2>8, <2>9, <2>10, Comes, <1>1
<1> QED BY <1>4, <1>5

\* A good reading says what the tenant has.
LEMMA CleanVerify ==
  ASSUME CleanInv, Verify
  PROVE  (env.mode = "bulk" => CleanBulk') /\ (env.mode = "cycle" => CleanCycle')
<1>1. /\ at = "check" /\ UNCHANGED script /\ tenant' = tenant /\ code = Nil /\ Base
      /\ There(tenant)' = There(tenant)
      /\ step \in StepKinds
  BY DEF Verify, CleanInv, Base, Shape, There
<1>2. (Legible' => Legible) /\ (Honest' => Honest)
  <2>1. hit \subseteq hit'
    BY DEF Verify, ListRead, Calm, Mishap
  <2> QED BY <2>1 DEF Legible, Honest
<1>3. paged /\ good /\ Legible' /\ env.mode = "bulk" => Gone(tenant', Len(created))
  BY <1>1, <1>2 DEF CleanInv, CleanBulk
<1>4. CASE Throws
  BY <1>1, <1>3, <1>4, CleanThrows
<1>5. ASSUME NEW answer \in Lists, ListRead(answer), StepDone(Verified(answer))
      PROVE  (env.mode = "bulk" => CleanBulk') /\ (env.mode = "cycle" => CleanCycle')
  <2>1. Verified(answer) \in BOOLEAN
    BY DEF Verified
  <2>2. Legible' => answer # "garbled"
    BY <1>5 DEF ListRead, Mishap, Legible
  <2>3. Verified(answer) /\ Legible' => answer = "list"
    BY <1>5, <2>2 DEF Verified, Lists
  <2>4. Verified(answer) /\ Legible' /\ step.check # "present" => step.login \notin There(tenant)
    BY <2>3 DEF Verified
  <2>5. Verified(answer) /\ step.check = "present" => step.login \in There(tenant)
    BY DEF Verified
  <2>6. ASSUME env.mode = "bulk" PROVE CleanBulk'
    <3>1. step.op = "delete" => step.check = "absent"
      <4> SUFFICES ASSUME step.op = "delete" PROVE step.check = "absent"
        OBVIOUS
      <4>1. created # <<>> /\ step = Cleanup(created)
        BY <1>1, <2>6 DEF Base, Shape, Bulks, Cleaning
      <4> QED BY <4>1 DEF Cleanup, Step
    <3>2. step.op = "delete" /\ Verified(answer) /\ Legible' => step.login \notin There(tenant')
      BY <1>1, <2>4, <3>1
    <3> QED BY <1>1, <1>3, <1>5, <2>1, <2>6, <3>2, BulkStepDone
  <2>7. ASSUME env.mode = "cycle" PROVE CleanCycle'
    <3>1. stage \in DOMAIN CycleSteps /\ step = CycleSteps[stage] /\ CleanCycle
      BY <1>1, <2>7 DEF Base, Shape, Asks, Working, CleanInv
    <3>2. good /\ Legible' /\ stage \in {"keep", "keepPassword"} => DeleteLogin \notin There(tenant')
      BY <1>1, <1>2, <3>1 DEF CleanCycle
    <3>3. Honest' /\ Verified(answer) /\ stage = "keep" => tenant'.users[KeepLogin] = NewAccount
      <4> SUFFICES ASSUME Honest', Verified(answer), stage = "keep" PROVE tenant'.users[KeepLogin] = NewAccount
        OBVIOUS
      <4>1. step.login = KeepLogin /\ step.check = "present"
        BY <3>1, CycleKnown DEF Step
      <4>2. tenant.users[KeepLogin] # Nil
        BY <2>5, <4>1 DEF There
      <4> QED BY <1>1, <1>2, <3>1, <4>2 DEF CleanCycle
    <3>4. Honest' /\ stage = "keepPassword" => tenant'.users[KeepLogin] = NewAccount
      BY <1>1, <1>2, <3>1 DEF CleanCycle, Working
    <3>5. stage = "keepCleanup" => ~good
      BY <3>1 DEF CleanCycle
    <3>6. Verified(answer) /\ Legible' /\ stage = "delete" => DeleteLogin \notin There(tenant')
      <4>1. stage = "delete" => step.login = DeleteLogin /\ step.check = "absent"
        BY <3>1, CycleKnown DEF Step
      <4> QED BY <1>1, <2>4, <4>1
    <3> QED BY <1>1, <1>5, <2>1, <2>7, <3>2, <3>3, <3>4, <3>5, <3>6, CycleStepDone
  <2> QED BY <2>6, <2>7
<1> QED BY <1>4, <1>5 DEF Verify

LEMMA CleanStep == CleanInv /\ [ScriptNext]_scriptVars => CleanInv'
<1> SUFFICES ASSUME CleanInv, [ScriptNext]_scriptVars PROVE CleanInv'
  OBVIOUS
<1>1. Base /\ Base' /\ (env.mode = "bulk" => CleanBulk) /\ (env.mode = "cycle" => CleanCycle)
  BY BaseStep DEF CleanInv
<1>2. at # "exit" => code = Nil
  BY <1>1 DEF Base, Shape
<1>3. CASE UNCHANGED scriptVars
  BY <1>1, <1>3 DEF CleanInv, CleanBulk, CleanCycle, Gone, There, Legible, Honest, Working, scriptVars
<1>4. CASE Others
  <2>1. /\ UNCHANGED <<env, at, stage, good, created, paged, code>>
        /\ hit' = hit \cup {"edit"} /\ tenant'.users = tenant.users
    BY <1>1, <1>4 DEF Others, Base, Backdrop, TenantRows, script
  <2>2. There(tenant)' = There(tenant) /\ (Legible' <=> Legible) /\ (Honest' <=> Honest)
    BY <2>1 DEF There, Legible, Honest
  <2> QED BY <1>1, <2>1, <2>2 DEF CleanInv, CleanBulk, CleanCycle, Gone, Working
<1>5. CASE Login
  <2>1. env' = env /\ UNCHANGED <<paged, good>> /\ at = "login" /\ ~paged /\ code = Nil
    BY <1>1, <1>2, <1>5 DEF Login, Base, Shape, Bulks
  <2>2. code' # 0 /\ at' \in {"begin", "exit"} /\ stage' \in {stage, "none"}
    BY <1>5, <2>1, NotZero DEF Login, ExitWith
  <2>3. tenant' = tenant /\ (Legible' <=> Legible) /\ (Honest' <=> Honest)
    BY <1>5 DEF Login, LogsIn, Calm, Mishap, Legible, Honest
  <2> QED BY <1>1, <2>1, <2>2, <2>3 DEF CleanInv, CleanBulk, CleanCycle, Working, There
<1>6. CASE Begin
  <2>1. /\ env' = env /\ UNCHANGED <<paged, good, tenant, hit>> /\ at = "begin" /\ ~paged /\ code = Nil
        /\ auth.success \in BOOLEAN
    BY <1>1, <1>2, <1>6 DEF Begin, script, Base, Shape, Bulks, Backdrop
  <2>2. ASSUME env.mode \in {"bulk", "cycle"}
        PROVE  code' # 0 /\ at' \in {"exit", "gate", "send"} /\ stage' \in {stage, "none", "create"}
    <3>1. CASE ~auth.success
      <4>1. Ends(auth.success)
        BY <1>6, <3>1 DEF Begin
      <4> QED BY <3>1, <4>1, EndsCode
    <3>2. CASE auth.success /\ env.mode = "bulk"
      BY <1>6, <2>1, <3>2, NotZero DEF Begin
    <3>3. CASE auth.success /\ env.mode = "cycle"
      BY <1>6, <2>1, <3>3, NotZero DEF Begin, Sends
    <3> QED BY <2>1, <2>2, <3>1, <3>2, <3>3
  <2>3. ASSUME env.mode = "bulk" PROVE CleanBulk'
    BY <2>1, <2>2, <2>3 DEF CleanBulk
  <2>4. ASSUME env.mode = "cycle" PROVE CleanCycle'
    <3>1. stage = "keepPassword" => at' # "check"
      BY <2>2, <2>4
    <3>2. stage' = stage => at' \in {"exit", "gate"} \/ stage = "create"
      <4>1. at' = "send" => stage' = "create"
        <5>1. CASE ~auth.success
          <6>1. Ends(auth.success)
            BY <1>6, <5>1 DEF Begin
          <6> QED BY <6>1, EndsCode
        <5>2. CASE auth.success
          BY <1>6, <2>4, <5>2 DEF Begin, Sends
        <5> QED BY <2>1, <5>1, <5>2
      <4> QED BY <2>2, <2>4, <4>1
    <3> QED BY <1>1, <2>1, <2>2, <2>4, <3>2 DEF CleanCycle, Working, There, Legible, Honest
  <2> QED BY <1>1, <2>1, <2>3, <2>4 DEF CleanInv
<1>7. CASE Request
  <2>1. env' = env
    BY <1>7 DEF Request, script
  <2> QED BY <1>1, <1>7, <2>1, CleanRequest DEF CleanInv
<1>8. CASE Verify
  <2>1. env' = env
    BY <1>8 DEF Verify, script
  <2> QED BY <1>1, <1>8, <2>1, CleanVerify DEF CleanInv
<1>9. CASE Gate
  <2>1. env' = env /\ env.mode = "bulk" /\ ~paged /\ paged' = paged /\ code = Nil
    BY <1>1, <1>2, <1>9 DEF Gate, script, Base, Shape, Bulks
  <2>2. ExitWith(1) \/ Ends(FALSE) \/ code' = code
    BY <1>9 DEF Gate, Sends
  <2>3. code' # 0
    <3>1. ExitWith(1) => code' # 0
      BY DEF ExitWith
    <3>2. Ends(FALSE) => code' # 0
      BY DEF Ends, ExitWith
    <3> QED BY <2>1, <2>2, <3>1, <3>2, NotZero
  <2> QED BY <1>1, <2>1, <2>3 DEF CleanInv, CleanBulk
<1>10. CASE PageOne \/ PageTwo
  <2>1. /\ UNCHANGED script /\ env' = env /\ env.mode = "bulk" /\ Len(created) = Count
        /\ at \in {"page1", "page2"}
        /\ code = Nil
    BY <1>1, <1>2, <1>10 DEF PageOne, PageTwo, script, Base, Shape, Bulks
  <2>2. \A t : Gone(t, Count)
    BY SetOfLogins DEF Gone
  <2>3. \/ Throws
        \/ UNCHANGED <<code, created>>
        \/ Cleans(created, good) /\ UNCHANGED <<good, thrown, created>>
    BY <1>10 DEF PageOne, PageTwo
  <2>4. CASE Throws
    BY <1>1, <2>1, <2>2, <2>4, CleanThrows DEF CleanInv
  <2>5. CASE UNCHANGED <<code, created>>
    BY <1>1, <2>1, <2>2, <2>5, NotZero DEF CleanInv, CleanBulk, Gone
  <2>6. CASE Cleans(created, good) /\ UNCHANGED <<good, thrown, created>>
    <3>1. code' = 0 => good' /\ paged' /\ created' = <<>>
      BY <2>1, <2>6, CleansCode
    <3> QED BY <1>1, <2>1, <2>2, <2>6, <3>1 DEF CleanInv, CleanBulk, Gone
  <2> QED BY <2>3, <2>4, <2>5, <2>6
<1>11. CASE ReportThrows
  <2>1. /\ UNCHANGED <<env, at, stage, good, created, paged, tenant>> /\ code' = 1 /\ at = "exit"
        /\ hit' = hit \cup {"fault"}
    BY <1>11 DEF ReportThrows, Mishap, script
  <2>2. There(tenant)' = There(tenant) /\ (Legible' <=> Legible) /\ (Honest' <=> Honest)
    BY <2>1 DEF There, Legible, Honest
  <2> QED BY <1>1, <2>1, <2>2 DEF CleanInv, CleanBulk, CleanCycle, Gone, Working
<1> QED BY <1>3, <1>4, <1>5, <1>6, <1>7, <1>8, <1>9, <1>10, <1>11 DEF ScriptNext

\* An exit with 0 is kept: the bulk users and the delete-user are gone, and the keep-user is
\* as it was created, unless a page that is no list was taken for one, or, as to the
\* keep-user, the refusal to create it for success.
THEOREM CleanExit == ScriptSpec => []ExitZeroMeansClean
<1>1. CleanInv => ExitZeroMeansClean
  <2> SUFFICES ASSUME CleanInv, code = 0, "garbled" \notin hit
               PROVE  /\ env.mode = "bulk"  => There(tenant) \cap Bulk = {}
                      /\ env.mode = "cycle" =>
                           /\ DeleteLogin \notin There(tenant)
                           /\ "misread" \notin hit =>
                                tenant.users[KeepLogin] = [fio |-> "given", blocked |-> FALSE]
    BY DEF ExitZeroMeansClean
  <2>1. ASSUME env.mode = "bulk" PROVE There(tenant) \cap Bulk = {}
    <3>1. created = <<>> /\ Gone(tenant, Len(created))
      BY <2>1 DEF CleanInv, CleanBulk, Legible
    <3>2. \A i \in 1 .. Count : BulkLogins[i] \notin There(tenant)
      BY <3>1, SetOfLogins DEF Gone
    <3> QED BY <3>2 DEF Bulk
  <2>2. ASSUME env.mode = "cycle"
        PROVE  /\ DeleteLogin \notin There(tenant)
               /\ "misread" \notin hit => tenant.users[KeepLogin] = [fio |-> "given", blocked |-> FALSE]
    BY <2>2 DEF CleanInv, CleanCycle, Legible, Honest, NewAccount
  <2> QED BY <2>1, <2>2
<1> QED BY <1>1, CleanInit, CleanStep, PTL DEF ScriptSpec

-----------------------------------------------------------------------------
(***************************************************************************)
(* LiveScript: a run that nothing disturbs                                 *)
(***************************************************************************)
BulkThere(n) == {BulkLogins[i] : i \in 1 .. n}

\* The tenant has what it had and the first bulk users.
Filled(t, b, n) == There(t) = There(b) \cup BulkThere(n) /\ existing(t) = existing(b) + n

\* The cycle's user that is there before a step is sent and when it has answered.
CycleAdds(name, sent) ==
  CASE name = "create" -> IF sent THEN {DeleteLogin} ELSE {}
    [] name = "delete" -> IF sent THEN {} ELSE {DeleteLogin}
    [] name = "keep"   -> IF sent THEN {KeepLogin} ELSE {}
    [] name = "keepPassword" -> {KeepLogin}
    [] OTHER -> {DeleteLogin}

\* The list shows what the step expects.
Seen(t, s) ==
  IF s.check = "present" THEN s.login \in There(t) /\ t.users[s.login].fio = s.fio
                         ELSE s.login \notin There(t)

Smooth ==
  /\ good /\ ~thrown /\ code \notin {1, 2}
  /\ at # "login" => auth.success /\ ~auth.error
  /\ tenant.further = before.further
  /\ at \in {"login", "begin", "gate"} => tenant = before
  /\ at \in {"send", "clean"} => Takes(tenant, step)
  /\ at = "check" => Seen(tenant, step)
  /\ Working /\ env.mode = "cycle" =>
       stage # "keepCleanup" /\ There(tenant) = There(before) \cup CycleAdds(stage, at = "check")
  /\ Creating => Filled(tenant, before, Len(created) + (IF at = "check" THEN 1 ELSE 0))
  /\ at \in {"page1", "page2"} => Filled(tenant, before, Count)
  /\ Cleaning \/ at = "page2" => paged
  /\ at = "clean" => BulkThere(Len(created)) \subseteq There(tenant)
  /\ Cleaning /\ at = "check" => BulkThere(Len(created) - 1) \subseteq There(tenant)

SmoothInv == Base /\ (hit = {} /\ Possible => Smooth)

\* Smooth of the next state, part by part.
LEMMA SmoothNext ==
  ASSUME env' = env, before' = before,
         good', ~thrown', code' \notin {1, 2},
         at' # "login" => auth'.success /\ ~auth'.error,
         tenant'.further = before.further,
         at' \in {"login", "begin", "gate"} => tenant' = before,
         at' \in {"send", "clean"} => Takes(tenant', step'),
         at' = "check" => Seen(tenant', step'),
         at' \in {"send", "check"} /\ env.mode = "cycle" =>
           stage' # "keepCleanup" /\ There(tenant') = There(before) \cup CycleAdds(stage', at' = "check"),
         env.mode = "bulk" /\ at' \in {"send", "check"} /\ step'.op = "create" =>
           Filled(tenant', before, Len(created') + (IF at' = "check" THEN 1 ELSE 0)),
         at' \in {"page1", "page2"} => Filled(tenant', before, Count),
         at' = "page2" \/ (env.mode = "bulk" /\ (at' = "clean" \/ (at' = "check" /\ step'.op # "create"))) =>
           paged',
         at' = "clean" => BulkThere(Len(created')) \subseteq There(tenant'),
         env.mode = "bulk" /\ at' = "check" /\ step'.op # "create" =>
           BulkThere(Len(created') - 1) \subseteq There(tenant')
  PROVE  Smooth'
<1>1. /\ There(tenant)' = There(tenant') /\ There(before)' = There(before)
      /\ existing(tenant)' = existing(tenant') /\ existing(before)' = existing(before)
  BY DEF There, existing
<1>2. \A n : BulkThere(n)' = BulkThere(n)
  BY DEF BulkThere
<1>3. at' \in {"send", "clean"} => Takes(tenant, step)'
  BY <1>1 DEF Takes
<1>4. at' = "check" => Seen(tenant, step)'
  BY <1>1 DEF Seen
<1>5. (Working /\ env.mode = "cycle" =>
        stage # "keepCleanup" /\ There(tenant) = There(before) \cup CycleAdds(stage, at = "check"))'
  BY <1>1 DEF Working, CycleAdds
<1>6. (Creating => Filled(tenant, before, Len(created) + (IF at = "check" THEN 1 ELSE 0)))'
  BY <1>1 DEF Creating, Working, Filled, BulkThere
<1>7. (at \in {"page1", "page2"} => Filled(tenant, before, Count))'
  BY <1>1 DEF Filled, BulkThere
<1>8. (Cleaning \/ at = "page2" => paged)'
  BY DEF Cleaning
<1>9. /\ (at = "clean" => BulkThere(Len(created)) \subseteq There(tenant))'
      /\ (Cleaning /\ at = "check" => BulkThere(Len(created) - 1) \subseteq There(tenant))'
  BY <1>1 DEF Cleaning, BulkThere
<1> QED BY <1>3, <1>4, <1>5, <1>6, <1>7, <1>8, <1>9 DEF Smooth

\* What is possible is settled when the run begins.
LEMMA PossibleStays ==
  ASSUME env' = env, before' = before
  PROVE  Possible' <=> Possible
  BY DEF Possible, Takes, existing, There, Step

\* The run is over and went well.
LEMMA SmoothEnds ==
  ASSUME env' = env, before' = before, auth' = auth, NEW ok, Ends(ok), ok, auth.success, ~auth.error,
         good', ~thrown',
         tenant'.further = before.further
  PROVE  Smooth'
<1>1. at' = "exit" /\ code' = 0
  BY DEF Ends, ExitWith
<1> QED BY <1>1, SmoothNext

\* One bulk user more.
LEMMA BulkThereIs ==
  /\ BulkThere(0) = {} /\ BulkThere(Count) = Bulk
  /\ \A n \in 0 .. Count - 1 : /\ BulkThere(n + 1) = BulkThere(n) \cup {BulkLogins[n + 1]}
                               /\ BulkLogins[n + 1] \notin BulkThere(n)
<1>1. BulkThere(0) = {} /\ BulkThere(Count) = Bulk
  BY DEF BulkThere, Bulk
<1>2. ASSUME NEW n \in 0 .. Count - 1
      PROVE  BulkThere(n + 1) = BulkThere(n) \cup {BulkLogins[n + 1]} /\ BulkLogins[n + 1] \notin BulkThere(n)
  <2>1. /\ Count \in Nat /\ n + 1 \in 1 .. Count /\ 1 .. n + 1 = (1 .. n) \cup {n + 1}
        /\ 1 .. n \subseteq 1 .. Count
    BY SetOfLogins
  <2>2. BulkThere(n + 1) = BulkThere(n) \cup {BulkLogins[n + 1]}
    BY <2>1 DEF BulkThere
  <2>3. ASSUME NEW i \in 1 .. n PROVE BulkLogins[i] # BulkLogins[n + 1]
    BY <2>1, <2>3, LoginsDiffer
  <2> QED BY <2>2, <2>3 DEF BulkThere
<1> QED BY <1>1, <1>2

\* One more account.
LEMMA OneMore ==
  ASSUME NEW t \in TenantRows, NEW u \in TenantRows, NEW l, l \notin There(t), There(u) = There(t) \cup {l},
         u.further = t.further
  PROVE  existing(u) = existing(t) + 1
<1>1. IsFiniteSet(There(t)) /\ Cardinality(There(t)) \in Nat /\ t.further \in Nat
  BY SomeOf, ScriptAssumption DEF TenantRows
<1>2. Cardinality(There(t) \cup {l}) = Cardinality(There(t)) + 1
  BY <1>1, FS_AddElement
<1> QED BY <1>1, <1>2 DEF existing

\* What the bulk creation can count on.
LEMMA BulkPossible ==
  ASSUME Base, Possible, env.mode = "bulk"
  PROVE  /\ tenant.allowed = before.allowed /\ before.allowed \in Nat /\ existing(before) \in Nat
         /\ existing(before) + Count > PageSize /\ existing(before) + Count <= before.allowed
         /\ PageSize \in Nat
         /\ Count \in Nat \ {0}
         /\ \A i \in 1 .. Count : BulkLogins[i] \notin There(before)
<1>1. before \in TenantRows /\ tenant.allowed = before.allowed
  BY BaseTyped DEF Base, Backdrop
<1>2. existing(before) \in Nat /\ before.allowed \in Nat
  BY <1>1, SomeOf DEF TenantRows
<1>3. Count \in Nat \ {0} /\ PageSize \in Nat
  BY SetOfLogins, ScriptAssumption
<1>4. existing(before) + Count \in PageSize + 1 .. before.allowed /\ Bulk \cap There(before) = {}
  BY DEF Possible
<1>5. existing(before) + Count > PageSize /\ existing(before) + Count <= before.allowed
  BY <1>2, <1>3, <1>4
<1> QED BY <1>1, <1>2, <1>3, <1>4, <1>5, SetOfLogins

\* There is room for the next bulk user.
LEMMA BulkTakes ==
  ASSUME Base, Possible, env.mode = "bulk", NEW n \in 0 .. Count - 1, NEW t, t.allowed = before.allowed,
         Filled(t, before, n)
  PROVE  Takes(t, BulkStep(n + 1))
<1>1. n + 1 \in 1 .. Count
  BY SetOfLogins
<1>2. BulkStep(n + 1).op = "create" /\ BulkStep(n + 1).login = BulkLogins[n + 1]
  BY <1>1, BulkTyped
<1>3. BulkLogins[n + 1] \notin There(t)
  BY <1>1, BulkPossible, BulkThereIs DEF Filled
<1>4. existing(t) < t.allowed
  BY <1>1, BulkPossible DEF Filled
<1> QED BY <1>2, <1>3, <1>4 DEF Takes

\* What the cycle can count on.
LEMMA CyclePossible ==
  ASSUME Base, Possible, env.mode = "cycle"
  PROVE  /\ tenant.allowed = before.allowed /\ existing(before) < before.allowed
         /\ DeleteLogin \notin There(before) /\ KeepLogin \notin There(before) /\ DeleteLogin # KeepLogin
         /\ DeleteLogin \in Logins /\ KeepLogin \in Logins
  BY SetOfLogins, LoginsDiffer DEF Possible, Base, Backdrop

\* The user that a step of the cycle adds or removes.
LEMMA CycleMakes ==
  ASSUME Base, Possible, env.mode = "cycle", NEW name \in DOMAIN CycleSteps, name # "keepCleanup",
         NEW t \in TenantRows, NEW u, Makes(t, CycleSteps[name], u),
         There(t) = There(before) \cup CycleAdds(name, FALSE)
  PROVE  /\ There(u) = There(before) \cup CycleAdds(name, TRUE)
         /\ CycleSteps[name].check # "none" => Seen(u, CycleSteps[name])
<1>1. DeleteLogin \notin There(before) /\ KeepLogin \notin There(before)
  BY CyclePossible
<1>9. PICK s : s = CycleSteps[name]
  OBVIOUS
<1>10. Makes(t, s, u)
  BY <1>9
<1>2. CASE name = "create"
  <2>1. s.op = "create" /\ s.login = DeleteLogin /\ s.fio = "given" /\ s.check = "present"
    BY <1>9, <1>2, CycleKnown DEF Step
  <2>2. There(u) = There(t) \cup {DeleteLogin} /\ u.users[DeleteLogin].fio = "given"
    <3>1. There(u) = There(t) \cup {s.login} /\ u.users[s.login] = [fio |-> s.fio, blocked |-> FALSE]
      BY <1>10, <2>1 DEF Makes
    <3> QED BY <2>1, <3>1
  <2> QED BY <1>1, <1>9, <1>2, <2>1, <2>2 DEF Seen, CycleAdds
<1>3. CASE name = "update"
  <2>1. s.op = "update" /\ s.login = DeleteLogin /\ s.fio = "updated" /\ s.check = "present"
    BY <1>9, <1>3, CycleKnown DEF Step
  <2>2. There(u) = There(t) /\ u.users[DeleteLogin].fio = "updated"
    BY <1>10, <2>1 DEF Makes
  <2> QED BY <1>1, <1>9, <1>3, <2>1, <2>2 DEF Seen, CycleAdds
<1>4. CASE name = "password"
  <2>1. s.op = "password" /\ s.login = DeleteLogin /\ s.fio = "updated" /\ s.check = "none"
    BY <1>9, <1>4, CycleKnown DEF Step
  <2>2. There(u) = There(t) /\ u.users[DeleteLogin].fio = "updated"
    BY <1>10, <2>1 DEF Makes
  <2> QED BY <1>1, <1>9, <1>4, <2>1, <2>2 DEF Seen, CycleAdds
<1>5. CASE name = "block"
  <2>1. s.op = "block" /\ s.login = DeleteLogin /\ s.fio = "updated" /\ s.check = "none"
    BY <1>9, <1>5, CycleKnown DEF Step
  <2>2. There(u) = There(t)
    BY <1>10, <2>1 DEF Makes
  <2> QED BY <1>1, <1>9, <1>5, <2>1, <2>2 DEF Seen, CycleAdds
<1>6. CASE name = "delete"
  <2>1. s.op = "delete" /\ s.login = DeleteLogin /\ s.fio = "given" /\ s.check = "absent"
    BY <1>9, <1>6, CycleKnown DEF Step
  <2>2. There(u) = There(t) \ {DeleteLogin}
    BY <1>10, <2>1 DEF Makes
  <2> QED BY <1>1, <1>9, <1>6, <2>1, <2>2 DEF Seen, CycleAdds
<1>7. CASE name = "keep"
  <2>1. s.op = "create" /\ s.login = KeepLogin /\ s.fio = "given" /\ s.check = "present"
    BY <1>9, <1>7, CycleKnown DEF Step
  <2>2. There(u) = There(t) \cup {KeepLogin} /\ u.users[KeepLogin].fio = "given"
    <3>1. There(u) = There(t) \cup {s.login} /\ u.users[s.login] = [fio |-> s.fio, blocked |-> FALSE]
      BY <1>10, <2>1 DEF Makes
    <3> QED BY <2>1, <3>1
  <2> QED BY <1>1, <1>9, <1>7, <2>1, <2>2 DEF Seen, CycleAdds
<1>8. CASE name = "keepPassword"
  <2>1. s.op = "password" /\ s.login = KeepLogin /\ s.fio = "given" /\ s.check = "present"
    BY <1>9, <1>8, CycleKnown DEF Step
  <2>2. There(u) = There(t) /\ u.users[KeepLogin].fio = "given"
    BY <1>10, <2>1 DEF Makes
  <2> QED BY <1>1, <1>9, <1>8, <2>1, <2>2 DEF Seen, CycleAdds
<1> QED BY <1>2, <1>3, <1>4, <1>5, <1>6, <1>7, <1>8, CycleKnown

\* The step after a good one finds the tenant as it needs it.
LEMMA CycleGoesOn ==
  ASSUME Base, Possible, env.mode = "cycle", NEW name \in DOMAIN CycleSteps, name # "keepCleanup",
         NEW next, next = CycleNext(name, TRUE), next # "none",
         NEW t, There(t) = There(before) \cup CycleAdds(name, TRUE),
         t.further = before.further, t.allowed = before.allowed
  PROVE  /\ next \in DOMAIN CycleSteps /\ next # "keepCleanup"
         /\ There(t) = There(before) \cup CycleAdds(next, FALSE) /\ Takes(t, CycleSteps[next])
<1>1. DeleteLogin \notin There(before) /\ KeepLogin \notin There(before) /\ DeleteLogin # KeepLogin
  BY CyclePossible
<1>2. CASE name = "create"
  BY <1>2, CycleKnown DEF CycleNext, CycleAdds, Takes, Step
<1>3. CASE name = "update"
  BY <1>3, CycleKnown DEF CycleNext, CycleAdds, Takes, Step
<1>4. CASE name = "password"
  BY <1>4, CycleKnown DEF CycleNext, CycleAdds, Takes, Step
<1>5. CASE name = "block"
  BY <1>5, CycleKnown DEF CycleNext, CycleAdds, Takes, Step
<1>6. CASE name = "delete"
  <2>1. next = "keep"
    BY <1>6 DEF CycleNext
  <2>2. There(t) = There(before) /\ CycleAdds(next, FALSE) = {}
    BY <1>6, <2>1 DEF CycleAdds
  <2>3. existing(t) < t.allowed
    BY <2>2, CyclePossible DEF existing
  <2>4. CycleSteps[next].op = "create" /\ CycleSteps[next].login = KeepLogin /\ next \in DOMAIN CycleSteps
    <3>1. CycleSteps["keep"] = Step("create", KeepLogin, "given", "present") /\ "keep" \in DOMAIN CycleSteps
      BY CycleKnown
    <3>2. CycleSteps[next] = Step("create", KeepLogin, "given", "present") /\ next \in DOMAIN CycleSteps
      BY <2>1, <3>1
    <3>3. /\ Step("create", KeepLogin, "given", "present").op = "create"
          /\ Step("create", KeepLogin, "given", "present").login = KeepLogin
      BY DEF Step
    <3> QED BY <3>2, <3>3
  <2> QED BY <1>1, <2>1, <2>2, <2>3, <2>4 DEF Takes
<1>7. CASE name = "keep"
  BY <1>7, CycleKnown DEF CycleNext, CycleAdds, Takes, Step
<1>8. CASE name = "keepPassword"
  BY <1>8 DEF CycleNext
<1> QED BY <1>2, <1>3, <1>4, <1>5, <1>6, <1>7, <1>8, CycleKnown

\* The cycle goes on to a step that the tenant takes, or ends well.
LEMMA SmoothCycleDone ==
  ASSUME Base, Possible, Smooth, env.mode = "cycle", UNCHANGED script, at \in {"send", "check"}, StepDone(TRUE),
         tenant' \in TenantRows, There(tenant') = There(before) \cup CycleAdds(stage, TRUE),
         tenant'.further = before.further, tenant'.allowed = before.allowed
  PROVE  Smooth'
<1>1. env' = env /\ before' = before /\ auth' = auth
  BY DEF script
<1>2. /\ stage \in DOMAIN CycleSteps /\ stage # "keepCleanup" /\ auth.success /\ ~auth.error
      /\ good' /\ ~thrown' /\ code = Nil
  BY DEF Base, Shape, Asks, Working, Smooth, StepDone
<1>3. PICK next : next = CycleNext(stage, TRUE)
  OBVIOUS
<1>4. IF next = "none" THEN Ends(good') ELSE Sends(CycleSteps[next], next)
  BY <1>3 DEF StepDone, Singles
<1>5. CASE next = "none"
  BY <1>1, <1>2, <1>4, <1>5, SmoothEnds
<1>6. CASE next # "none"
  <2>1. at' = "send" /\ step' = CycleSteps[next] /\ stage' = next /\ code' = Nil
    BY <1>2, <1>4, <1>6 DEF Sends
  <2>2. /\ next \in DOMAIN CycleSteps /\ next # "keepCleanup"
        /\ There(tenant') = There(before) \cup CycleAdds(next, FALSE) /\ Takes(tenant', CycleSteps[next])
    BY <1>2, <1>3, <1>6, CycleGoesOn
  <2>3. /\ There(tenant') = There(before) \cup CycleAdds(stage', at' = "check")
        /\ stage' # "keepCleanup" /\ Takes(tenant', step')
    <3>1. (at' = "check") = FALSE
      BY <2>1
    <3> QED BY <2>1, <2>2, <3>1
  <2> QED BY <1>1, <1>2, <2>1, <2>3, SmoothNext, NotZero
<1> QED BY <1>5, <1>6

\* The cleanup takes the last of the remembered users, or the run is over.
LEMMA SmoothCleans ==
  ASSUME Base, Possible, env.mode = "bulk", UNCHANGED script, NEW ok, ok, Cleans(created', ok),
         InOrder(created'),
         good', ~thrown', paged', code = Nil, auth.success, ~auth.error, tenant'.further = before.further,
         BulkThere(Len(created')) \subseteq There(tenant')
  PROVE  Smooth'
<1>1. env' = env /\ before' = before /\ auth' = auth
  BY DEF script
<1>2. CASE created' = <<>>
  <2>1. Ends(ok /\ paged')
    BY <1>2 DEF Cleans
  <2> QED BY <1>1, <2>1, SmoothEnds
<1>3. CASE created' # <<>>
  <2>1. at' = "clean" /\ step' = Cleanup(created') /\ code' = Nil
    BY <1>3 DEF Cleans
  <2>2. step'.op = "delete" /\ step'.login = BulkLogins[Len(created')] /\ Len(created') \in 1 .. Count
    BY <1>3, <2>1, BulkTyped
  <2>3. BulkLogins[Len(created')] \in BulkThere(Len(created'))
    BY <2>2 DEF BulkThere
  <2>4. Takes(tenant', step')
    BY <2>2, <2>3 DEF Takes
  <2> QED BY <1>1, <2>1, <2>4, SmoothNext, NotZero
<1> QED BY <1>2, <1>3

\* The bulk creation goes on to a user for whom there is room, or to the pages.
LEMMA SmoothBulkDone ==
  ASSUME Base, Possible, Smooth, env.mode = "bulk", UNCHANGED script, at = "check", StepDone(TRUE),
         tenant' = tenant
  PROVE  Smooth'
<1>1. env' = env /\ before' = before /\ auth' = auth
  BY DEF script
<1>2. /\ auth.success /\ ~auth.error /\ good' /\ ~thrown' /\ code = Nil /\ paged' = paged /\ InOrder(created)
      /\ tenant'.further = before.further
  BY DEF Base, Shape, Bulks, Smooth, StepDone
<1>3. CASE step.op = "create"
  <2>1. Len(created) < Count /\ step = BulkStep(Len(created) + 1) /\ Filled(tenant, before, Len(created) + 1)
    BY <1>3 DEF Base, Shape, Bulks, Creating, Working, Smooth
  <2>2. Len(created) \in Nat /\ Count \in Nat /\ Len(created) + 1 \in 1 .. Count
    BY <1>2, <2>1, SetOfLogins DEF InOrder
  <2>3. step.login = BulkLogins[Len(created) + 1]
    BY <2>1, <2>2, BulkTyped
  <2>4. created' = Append(created, BulkLogins[Len(created) + 1])
    BY <1>3, <2>3 DEF StepDone, Remembered, Singles
  <2>5. Len(created') = Len(created) + 1
    BY <1>2, <2>1, <2>4, OrderKept
  <2>6. IF Len(created') < Count THEN Sends(BulkStep(Len(created') + 1), "none")
        ELSE at' = "page1" /\ step' = NoStep /\ UNCHANGED <<stage, code>>
    BY <1>3 DEF StepDone, Singles
  <2>7. CASE Len(created') < Count
    <3>1. at' = "send" /\ step' = BulkStep(Len(created') + 1) /\ code' = Nil
      BY <1>2, <2>6, <2>7 DEF Sends
    <3>2. Len(created') \in 0 .. Count - 1
      BY <2>2, <2>5, <2>7
    <3>3. Filled(tenant', before, Len(created'))
      BY <2>1, <2>5
    <3>4. tenant'.allowed = before.allowed
      BY BulkPossible
    <3>5. Takes(tenant', step')
      BY <3>1, <3>2, <3>3, <3>4, BulkTakes
    <3>6. Filled(tenant', before, Len(created') + 0) /\ (IF at' = "check" THEN 1 ELSE 0) = 0
      BY <2>2, <2>5, <3>1, <3>3
    <3> QED BY <1>1, <1>2, <3>1, <3>5, <3>6, SmoothNext, NotZero
  <2>8. CASE ~(Len(created') < Count)
    <3>1. at' = "page1" /\ step' = NoStep /\ code' = Nil
      BY <1>2, <2>6, <2>8
    <3>2. Filled(tenant', before, Count)
      BY <2>1, <2>2, <2>5, <2>8
    <3> QED BY <1>1, <1>2, <3>1, <3>2, SmoothNext, NotZero
  <2> QED BY <2>7, <2>8
<1>4. CASE step.op # "create"
  <2>1. created # <<>> /\ step = Cleanup(created)
    BY <1>4 DEF Base, Shape, Bulks, Cleaning
  <2>2. step.op = "delete"
    BY <1>2, <2>1, BulkTyped
  <2>3. created' = SubSeq(created, 1, Len(created) - 1) /\ Cleans(created', good')
    BY <2>2 DEF StepDone, Singles
  <2>4. InOrder(created') /\ Len(created') = Len(created) - 1
    BY <1>2, <2>1, <2>3, OrderKept
  <2>5. Cleaning
    BY <1>4 DEF Cleaning
  <2>6. paged' /\ BulkThere(Len(created')) \subseteq There(tenant')
    BY <1>2, <2>4, <2>5 DEF Smooth
  <2> QED BY <1>2, <2>3, <2>4, <2>6, SmoothCleans
<1> QED BY <1>3, <1>4

\* A request that the tenant takes leaves what the verification looks for.
LEMMA SmoothRequest ==
  ASSUME Base, Possible, Smooth, Request, hit' = {}
  PROVE  Smooth'
<1>1. /\ at \in {"send", "clean"} /\ UNCHANGED script /\ step \in StepKinds /\ step.op \in Singles
      /\ tenant \in TenantRows /\ tenant' \in TenantRows /\ tenant'.further = tenant.further
      /\ tenant'.allowed = tenant.allowed
  BY Changed
<1>2. Calm
  BY Changed DEF Mishap
<1>3. Answered(TRUE) /\ Makes(tenant, step, tenant') /\ Takes(tenant, step)
  <2>1. Takes(tenant, step) /\ step.op \notin env.broken
    BY <1>1 DEF Smooth, Possible
  <2> QED BY <1>2, <2>1, CalmRequest
<1>4. env' = env /\ before' = before /\ auth' = auth
  BY <1>1 DEF script
<1>5. /\ auth.success /\ ~auth.error /\ good /\ ~thrown /\ code = Nil /\ InOrder(created)
      /\ tenant'.further = before.further /\ tenant'.allowed = before.allowed
      /\ env.mode \in Modes \ {"discover"}
  BY <1>1, BaseTyped DEF Base, Shape, Asks, Bulks, Backdrop, Smooth, Working
<1>6. step.check # "none" => at' = "check" /\ UNCHANGED <<stage, step, code, good, thrown, created, paged>>
  BY <1>3 DEF Answered
<1>7. step.check = "none" => StepDone(TRUE)
  BY <1>3 DEF Answered
<1>8. CASE env.mode \in Singles
  <2>1. step.check = "none"
    BY <1>1, <1>8 DEF Base, Shape, Asks, Bulks, Working, Step, Singles
  <2>2. Ends(TRUE) /\ good' /\ ~thrown'
    <3>1. StepDone(TRUE)
      BY <1>7, <2>1
    <3>2. Ends(TRUE)
      BY <1>8, <3>1 DEF StepDone, Singles
    <3>3. good' = (good /\ TRUE) /\ thrown' = thrown
      BY <3>1 DEF StepDone
    <3> QED BY <1>5, <3>2, <3>3
  <2> QED BY <1>4, <1>5, <2>2, SmoothEnds
<1>9. CASE env.mode = "cycle"
  <2>1. at = "send" /\ stage \in DOMAIN CycleSteps /\ step = CycleSteps[stage]
    BY <1>1, <1>9 DEF Base, Shape, Asks, Bulks, Working
  <2>2. stage # "keepCleanup" /\ There(tenant) = There(before) \cup CycleAdds(stage, FALSE)
    <3>1. (at = "check") = FALSE
      BY <2>1
    <3> QED BY <1>9, <2>1, <3>1 DEF Smooth, Working
  <2>3. /\ There(tenant') = There(before) \cup CycleAdds(stage, TRUE)
        /\ step.check # "none" => Seen(tenant', step)
    BY <1>1, <1>3, <1>9, <2>1, <2>2, CycleMakes
  <2>4. CASE step.check # "none"
    <3>1. /\ at' = "check" /\ UNCHANGED <<stage, step, code, good, thrown, created, paged>>
          /\ (at' = "check") = TRUE
      BY <1>6, <2>4
    <3> QED BY <1>4, <1>5, <1>9, <2>2, <2>3, <2>4, <3>1, SmoothNext, NotZero
  <2>5. CASE step.check = "none"
    BY <1>1, <1>5, <1>7, <1>9, <2>1, <2>3, <2>5, SmoothCycleDone
  <2> QED BY <2>4, <2>5
<1>10. CASE env.mode = "bulk" /\ at = "send"
  <2>1. Len(created) < Count /\ step = BulkStep(Len(created) + 1) /\ step.op = "create"
    BY <1>10 DEF Base, Shape, Bulks, Creating, Working
  <2>2. Len(created) \in 0 .. Count - 1 /\ Len(created) + 1 \in 1 .. Count /\ Len(created) \in Nat
    BY <1>5, <2>1, SetOfLogins DEF InOrder
  <2>3. step.login = BulkLogins[Len(created) + 1] /\ step.check = "present" /\ step.fio = "given"
    BY <2>1, <2>2, BulkTyped
  <2>4. Filled(tenant, before, Len(created))
    <3>1. Filled(tenant, before, Len(created) + (IF at = "check" THEN 1 ELSE 0))
      BY <1>10, <2>1 DEF Smooth, Creating, Working
    <3>2. Len(created) + (IF at = "check" THEN 1 ELSE 0) = Len(created)
      BY <1>10, <2>2
    <3> QED BY <3>1, <3>2
  <2>5. /\ There(tenant') = There(tenant) \cup {step.login} /\ step.login \notin There(tenant)
        /\ tenant'.users[step.login].fio = step.fio
    BY <1>3, <2>1 DEF Makes
  <2>6. Filled(tenant', before, Len(created) + 1)
    <3>1. existing(tenant') = existing(tenant) + 1
      BY <1>1, <2>5, OneMore
    <3>2. BulkThere(Len(created) + 1) = BulkThere(Len(created)) \cup {step.login}
      BY <2>2, <2>3, BulkThereIs
    <3>3. existing(before) \in Nat
      BY <1>10, BulkPossible
    <3>4. /\ There(tenant) = There(before) \cup BulkThere(Len(created))
          /\ existing(tenant) = existing(before) + Len(created)
      BY <2>4 DEF Filled
    <3>5. There(tenant') = There(before) \cup BulkThere(Len(created) + 1)
      BY <2>5, <3>2, <3>4
    <3>6. existing(tenant') = existing(before) + (Len(created) + 1)
      BY <2>2, <3>1, <3>3, <3>4
    <3> QED BY <3>5, <3>6 DEF Filled
  <2>7. Seen(tenant', step)
    BY <2>3, <2>5 DEF Seen
  <2>8. at' = "check" /\ UNCHANGED <<stage, step, code, good, thrown, created, paged>>
    BY <1>6, <2>3
  <2>9. Filled(tenant', before, Len(created') + (IF at' = "check" THEN 1 ELSE 0))
    BY <2>6, <2>8
  <2> QED BY <1>4, <1>5, <1>10, <2>1, <2>7, <2>8, <2>9, SmoothNext, NotZero
<1>11. CASE env.mode = "bulk" /\ at = "clean"
  <2>1. created # <<>> /\ step = Cleanup(created)
    BY <1>11 DEF Base, Shape, Bulks, Cleaning
  <2>2. /\ step.op = "delete" /\ step.check = "absent" /\ step.login = BulkLogins[Len(created)]
        /\ Len(created) \in 1 .. Count
    BY <1>5, <2>1, BulkTyped
  <2>3. There(tenant') = There(tenant) \ {step.login}
    BY <1>3, <2>2 DEF Makes
  <2>4. BulkThere(Len(created)) \subseteq There(tenant) /\ paged
    BY <1>11 DEF Smooth, Cleaning
  <2>5. BulkThere(Len(created) - 1) \subseteq There(tenant')
    <3>1. Len(created) - 1 \in 0 .. Count - 1 /\ (Len(created) - 1) + 1 = Len(created)
      BY <2>2, SetOfLogins
    <3>2. /\ BulkThere(Len(created)) = BulkThere(Len(created) - 1) \cup {BulkLogins[Len(created)]}
          /\ BulkLogins[Len(created)] \notin BulkThere(Len(created) - 1)
      BY <3>1, BulkThereIs
    <3> QED BY <2>2, <2>3, <2>4, <3>2
  <2>6. Seen(tenant', step)
    BY <2>2, <2>3 DEF Seen
  <2>7. at' = "check" /\ UNCHANGED <<stage, step, code, good, thrown, created, paged>>
    BY <1>6, <2>2
  <2> QED BY <1>4, <1>5, <1>11, <2>2, <2>4, <2>5, <2>6, <2>7, SmoothNext, NotZero
<1> QED BY <1>1, <1>5, <1>8, <1>9, <1>10, <1>11 DEF Modes

\* The verification after it is good.
LEMMA SmoothVerify ==
  ASSUME Base, Possible, Smooth, Verify, hit' = {}
  PROVE  Smooth'
<1>1. /\ at = "check" /\ UNCHANGED script /\ tenant' = tenant /\ env.mode \in Modes \ {"discover"}
      /\ tenant \in TenantRows /\ tenant.allowed = before.allowed /\ tenant.further = before.further
      /\ step.check # "none"
  BY BaseTyped DEF Verify, Base, Shape, Asks, Working, Backdrop, Smooth
<1>2. ~Mishap({"fault"}) /\ ~Mishap({"fault", "garbled"})
  BY DEF Mishap
<1>3. PICK answer \in Lists : ListRead(answer) /\ StepDone(Verified(answer))
  BY <1>2 DEF Verify
<1>4. answer = "list"
  BY <1>2, <1>3 DEF ListRead, Lists
<1>5. Verified("list") = TRUE
  <2>1. Seen(tenant, step)
    BY <1>1 DEF Smooth
  <2> QED BY <2>1 DEF Seen, Verified
<1>6. StepDone(TRUE)
  BY <1>3, <1>4, <1>5
<1>7. env.mode \notin Singles
  BY <1>1 DEF Base, Shape, Asks, Working
<1>8. CASE env.mode = "cycle"
  <2>1. There(tenant) = There(before) \cup CycleAdds(stage, at = "check") /\ (at = "check") = TRUE
    BY <1>1, <1>8 DEF Smooth, Working
  <2>2. There(tenant') = There(before) \cup CycleAdds(stage, TRUE)
    BY <1>1, <2>1
  <2>3. tenant' \in TenantRows /\ tenant'.further = before.further /\ tenant'.allowed = before.allowed
    BY <1>1
  <2> QED BY <1>1, <1>6, <1>8, <2>2, <2>3, SmoothCycleDone
<1>9. CASE env.mode = "bulk"
  BY <1>1, <1>6, <1>9, SmoothBulkDone
<1> QED BY <1>1, <1>7, <1>8, <1>9 DEF Modes

\* The first request is one that the tenant takes.
LEMMA SmoothBegin ==
  ASSUME Base, Possible, Smooth, Begin
  PROVE  Smooth'
<1>1. /\ at = "begin" /\ env' = env /\ before' = before /\ auth' = auth
      /\ UNCHANGED <<tenant, good, thrown, created, paged>>
      /\ tenant = before /\ code = Nil /\ auth.success /\ ~auth.error /\ good /\ ~thrown /\ env.mode \in Modes
      /\ There(tenant') = There(before) /\ tenant'.further = before.further
  BY BaseTyped DEF Begin, script, Base, Shape, Smooth
<1>2. CASE env.mode = "discover"
  <2>1. Ends(auth.success)
    BY <1>1, <1>2 DEF Begin
  <2> QED BY <1>1, <2>1, SmoothEnds
<1>3. CASE env.mode = "cycle"
  <2>1. Sends(CycleSteps.create, "create")
    BY <1>1, <1>3 DEF Begin
  <2>2. at' = "send" /\ step' = CycleSteps["create"] /\ stage' = "create" /\ code' = Nil
    BY <1>1, <2>1 DEF Sends
  <2>3. step'.op = "create" /\ step'.login = DeleteLogin
    BY <2>2, CycleKnown DEF Step
  <2>4. Takes(tenant', step')
    BY <1>1, <1>3, <2>3, CyclePossible DEF Takes
  <2>5. stage' # "keepCleanup" /\ There(tenant') = There(before) \cup CycleAdds(stage', at' = "check")
    <3>1. (at' = "check") = FALSE /\ CycleAdds("create", FALSE) = {}
      BY <2>2 DEF CycleAdds
    <3> QED BY <1>1, <2>2, <3>1
  <2> QED BY <1>1, <1>3, <2>2, <2>4, <2>5, SmoothNext, NotZero
<1>4. CASE env.mode = "bulk"
  <2>1. at' = "gate" /\ code' = Nil
    BY <1>1, <1>4 DEF Begin
  <2> QED BY <1>1, <1>4, <2>1, SmoothNext, NotZero
<1>5. CASE env.mode \in Singles
  <2>1. Single
    BY <1>1, <1>5 DEF Begin, Singles
  <2>2. /\ env.given /\ env.broken = {} /\ env.target # Operator
        /\ Takes(before, Step(env.mode, env.named, "given", "none"))
        /\ env.mode = "delete" => env.target = DeleteLogin \/ env.anyDelete
    BY <1>5 DEF Possible
  <2>3. Sends(Step(env.mode, env.named, "given", "none"), "none")
    BY <2>1, <2>2 DEF Single, Deletes, DeleteAllowed, Protected
  <2>4. at' = "send" /\ step' = Step(env.mode, env.named, "given", "none") /\ code' = Nil
    BY <1>1, <2>3 DEF Sends
  <2>5. Takes(tenant', step')
    BY <1>1, <2>2, <2>4
  <2>6. env.mode \notin {"cycle", "bulk"}
    BY <1>5 DEF Singles
  <2> QED BY <1>1, <2>4, <2>5, <2>6, SmoothNext, NotZero
<1> QED BY <1>1, <1>2, <1>3, <1>4, <1>5 DEF Modes

\* The capacity gate is open.
LEMMA SmoothGate ==
  ASSUME Base, Possible, Smooth, Gate, hit' = {}
  PROVE  Smooth'
<1>1. /\ at = "gate" /\ env' = env /\ before' = before /\ auth' = auth
      /\ UNCHANGED <<tenant, good, thrown, created, paged>>
      /\ tenant = before /\ code = Nil /\ auth.success /\ ~auth.error /\ good /\ ~thrown /\ env.mode = "bulk"
      /\ created = <<>> /\ tenant'.further = before.further
  BY DEF Gate, script, Base, Shape, Bulks, Smooth
<1>2. ~Mishap({"fault"}) /\ ~Mishap({"fault", "garbled"})
  BY DEF Mishap
<1>3. HasRoom(tenant)
  <2>1. /\ before.allowed \in Nat /\ existing(before) \in Nat /\ PageSize \in Nat /\ Count \in Nat
        /\ existing(before) + Count > PageSize /\ existing(before) + Count <= before.allowed
    BY <1>1, BulkPossible
  <2> QED BY <1>1, <2>1 DEF HasRoom
<1>4. Sends(BulkStep(1), "none")
  BY <1>2, <1>3 DEF Gate, ListRead, Lists
<1>5. at' = "send" /\ step' = BulkStep(1) /\ code' = Nil
  BY <1>1, <1>4 DEF Sends
<1>6. Filled(tenant', before, 0)
  <2>1. existing(before) \in Nat
    BY <1>1, BulkPossible
  <2>2. BulkThere(0) = {}
    BY BulkThereIs
  <2> QED BY <1>1, <2>1, <2>2 DEF Filled
<1>7. Takes(tenant', step')
  <2>1. 0 \in 0 .. Count - 1 /\ BulkStep(0 + 1) = BulkStep(1)
    BY SetOfLogins
  <2>2. tenant'.allowed = before.allowed
    BY <1>1
  <2>3. Takes(tenant', BulkStep(0 + 1))
    BY <1>1, <1>6, <2>1, <2>2, BulkTakes
  <2> QED BY <1>5, <2>1, <2>3
<1>8. Filled(tenant', before, Len(created') + (IF at' = "check" THEN 1 ELSE 0))
  <2>1. Len(created') + (IF at' = "check" THEN 1 ELSE 0) = 0
    BY <1>1, <1>5
  <2> QED BY <1>6, <2>1
<1> QED BY <1>1, <1>5, <1>7, <1>8, SmoothNext, NotZero

\* The list has a second page.
LEMMA SmoothPages ==
  ASSUME Base, Possible, Smooth, PageOne \/ PageTwo, hit' = {}
  PROVE  Smooth'
<1>1. /\ at \in {"page1", "page2"} /\ UNCHANGED script /\ env' = env /\ before' = before /\ auth' = auth
      /\ tenant' = tenant
      /\ code = Nil /\ auth.success /\ ~auth.error /\ good /\ ~thrown /\ env.mode = "bulk"
      /\ InOrder(created) /\ Len(created) = Count /\ tenant'.further = before.further
      /\ Filled(tenant, before, Count)
  BY DEF PageOne, PageTwo, script, Base, Shape, Bulks, Smooth
<1>2. ~Mishap({"fault"}) /\ ~Mishap({"fault", "garbled"})
  BY DEF Mishap
<1>3. Long("list") = TRUE
  <2>1. existing(tenant) > PageSize
    BY <1>1, BulkPossible DEF Filled
  <2> QED BY <2>1 DEF Long
<1>4. CASE PageOne
  <2>1. paged' /\ at' = "page2" /\ UNCHANGED <<stage, step, code, good, thrown, created>>
    BY <1>2, <1>3, <1>4 DEF PageOne, ListRead, Lists
  <2> QED BY <1>1, <2>1, SmoothNext, NotZero
<1>5. CASE PageTwo
  <2>1. paged' = (paged /\ Long("list")) /\ UNCHANGED <<good, thrown, created>> /\ Cleans(created, good)
    BY <1>2, <1>5 DEF PageTwo, ListRead, Lists
  <2>2. paged
    BY <1>5 DEF PageTwo, Smooth
  <2>3. BulkThere(Len(created')) \subseteq There(tenant')
    BY <1>1, <2>1 DEF Filled
  <2>4. Cleans(created', good) /\ InOrder(created') /\ good' /\ ~thrown' /\ paged'
    BY <1>1, <1>3, <2>1, <2>2
  <2> QED BY <1>1, <2>3, <2>4, SmoothCleans
<1> QED BY <1>4, <1>5

\* The login was good.
LEMMA SmoothLogin ==
  ASSUME Base, Possible, Smooth, Login, hit' = {}
  PROVE  Smooth'
<1>1. /\ env' = env /\ before' = before /\ UNCHANGED <<tenant, good, thrown>>
      /\ env.configured /\ at = "login" /\ code = Nil
  BY DEF Login, Base, Shape, Possible
<1>2. /\ at' = "begin" /\ code' = Nil
      /\ \E broke \in {"no", "early", "late"}, signs \in Signs : LogsIn(broke, signs)
  <2>1. ~Mishap({"fault"})
    BY DEF Mishap
  <2> QED BY <1>1, <2>1 DEF Login
<1>3. auth'.success /\ ~auth'.error
  <2>1. PICK broke \in {"no", "early", "late"}, signs \in Signs : LogsIn(broke, signs)
    BY <1>2
  <2> DEFINE entered == broke # "early" /\ classifyAuth(signs) = "authenticated"
             error   == broke # "no" \/ ~entered
  <2>2. auth' = [success |-> entered, error |-> error] /\ hit' = IF error THEN hit \cup {"auth"} ELSE hit
    BY <2>1 DEF LogsIn
  <2>3. ~error
    BY <2>2
  <2>4. entered
    BY <2>3
  <2> QED BY <2>2, <2>3, <2>4
<1>4. tenant' = before /\ tenant'.further = before.further /\ good' /\ ~thrown'
  BY <1>1 DEF Smooth
<1> QED BY <1>1, <1>2, <1>3, <1>4, SmoothNext, NotZero

LEMMA SmoothInit == ScriptInit => SmoothInv
<1> SUFFICES ASSUME ScriptInit PROVE SmoothInv
  OBVIOUS
<1>1. Smooth
  BY NotZero DEF ScriptInit, Smooth, Working, Creating, Cleaning
<1> QED BY <1>1, BaseInit DEF SmoothInv

LEMMA SmoothStep == SmoothInv /\ [ScriptNext]_scriptVars => SmoothInv'
<1> SUFFICES ASSUME SmoothInv, [ScriptNext]_scriptVars PROVE SmoothInv'
  OBVIOUS
<1>1. Base /\ Base'
  BY BaseStep DEF SmoothInv
<1> SUFFICES ASSUME hit' = {}, Possible' PROVE Smooth'
  BY <1>1 DEF SmoothInv
<1>2. env' = env /\ before' = before /\ hit \subseteq hit'
  BY ScriptKeeps
<1>3. Possible /\ Smooth
  BY <1>2, PossibleStays DEF SmoothInv
<1>4. CASE UNCHANGED scriptVars
  BY <1>3, <1>4 DEF scriptVars, Smooth, Takes, Seen, Filled, There, existing, BulkThere, CycleAdds,
     Working, Creating, Cleaning
<1>5. ~Others /\ ~ReportThrows
  BY DEF Others, ReportThrows, Mishap
<1> QED BY <1>1, <1>3, <1>4, <1>5, SmoothLogin, SmoothBegin, SmoothRequest, SmoothVerify, SmoothGate,
           SmoothPages DEF ScriptNext

\* A run of what is possible, on a tenant nobody else works on, whose login and requests go
\* well, exits with 0: neither the capacity gate nor the order of the steps fails it.
THEOREM FailuresHaveCause == ScriptSpec => []FailsForCause
<1>1. SmoothInv => FailsForCause
  BY DEF SmoothInv, Smooth, FailsForCause
<1> QED BY <1>1, SmoothInit, SmoothStep, PTL DEF ScriptSpec

=============================================================================
