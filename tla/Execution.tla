------------------------------ MODULE Execution ------------------------------
(***************************************************************************)
(* What one ProcessingService.executeWithRetry promises its callers: it    *)
(* ends ok after the target applied the change once more than it was lost, *)
(* or failed, or stays in a connector call that never settles.             *)
(* EventPipeline and DlqLease take their ExecuteOk, ExecuteOutcomeLost,    *)
(* ExecuteFail and Hangs from here; RetryLoop implements it.               *)
(***************************************************************************)
EXTENDS Naturals

VARIABLES phase,    \* "running", "hung", "ok" or "failed"
          applied,  \* connector writes that took effect
          lost      \* attempts that failed although their write took effect

vars == <<phase, applied, lost>>

Init == phase = "running" /\ applied = 0 /\ lost = 0

\* An attempt that is not the last throws although the target applied the change.
Lose == /\ phase = "running"
        /\ applied' = applied + 1 /\ lost' = lost + 1
        /\ UNCHANGED phase

\* A call never settles; the target may have applied the change.
Hang == /\ phase = "running"
        /\ phase' = "hung"
        /\ \E effect \in {0, 1} : applied' = applied + effect /\ lost' = lost + effect

\* The connector returns success.
Succeed == /\ phase = "running"
           /\ phase' = "ok" /\ applied' = applied + 1
           /\ UNCHANGED lost

\* A refusal, the last attempt's error, or no connector.
Fail == /\ phase = "running"
        /\ phase' = "failed"
        /\ UNCHANGED <<applied, lost>>

\* The last attempt is itself a lost one: it threw, or answered success = false.
FailLost == /\ phase = "running"
            /\ phase' = "failed"
            /\ applied' = applied + 1 /\ lost' = lost + 1

Next == Lose \/ Hang \/ Succeed \/ Fail \/ FailLost

Spec == Init /\ [][Next]_vars /\ WF_vars(Hang \/ Succeed \/ Fail \/ FailLost)
=============================================================================
