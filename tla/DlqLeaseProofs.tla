--------------------------- MODULE DlqLeaseProofs ---------------------------
(***************************************************************************)
(* Proofs about DlqLease, for any sets of rows, admin requests and         *)
(* consumers, any lease, and any bounds.                                   *)
(***************************************************************************)
EXTENDS DlqLease, TLAPS

\* Every action keeps every variable in its type.
LEMMA TypeStep == TypeOK /\ [Next]_vars => TypeOK'
<1> SUFFICES ASSUME TypeOK, [Next]_vars PROVE TypeOK'
  OBVIOUS
<1> USE LeaseAssumption DEF TypeOK, Statuses, PCs, InFlight, Mishaps, Expired,
        row
<1>1. CASE UNCHANGED vars
  BY <1>1 DEF vars
<1>2. ASSUME NEW i \in Items, Add(i) \/ Skip(i) PROVE TypeOK'
  BY <1>2 DEF Add, Skip, Unlocked
<1>3. ASSUME NEW w \in Admins, NEW i \in Items, Claim(w, i) PROVE TypeOK'
  BY <1>3 DEF Claim, Workers
<1>4. ASSUME NEW w \in Consumers, NEW i \in Items, Deliver(w, i) PROVE TypeOK'
  BY <1>4 DEF Deliver, Workers
<1>5. ASSUME NEW w \in Workers, Progress(w) PROVE TypeOK'
  <2>1. CASE RetryDirect(w)
    BY <2>1 DEF RetryDirect, Goto
  <2>2. CASE RetrySend(w)
    BY <2>2 DEF RetrySend, Finish
  <2>3. CASE ExecuteOk(w)
    BY <2>3 DEF ExecuteOk, Goto
  <2>4. CASE Resolve(w)
    BY <2>4 DEF Resolve, Unlocked, Goto
  <2>5. CASE ResolveDone(w)
    BY <2>5 DEF ResolveDone, Return, Goto, Finish
  <2>6. CASE MarkRetryFailed(w)
    BY <2>6 DEF MarkRetryFailed, Unlocked, Return, Goto, Finish
  <2>7. CASE ReportSuccess(w)
    BY <2>7 DEF ReportSuccess, Finish
  <2>8. CASE ReportFailed(w)
    BY <2>8 DEF ReportFailed, Fault, Finish
  <2> QED BY <1>5, <2>1, <2>2, <2>3, <2>4, <2>5, <2>6, <2>7, <2>8 DEF Progress
<1>6. ASSUME NEW w \in Workers, Failure(w) PROVE TypeOK'
  <2>1. CASE AbandonClaim(w)
    BY <2>1 DEF AbandonClaim, Fault, Finish
  <2>9. CASE Hangs(w)
    BY <2>9 DEF Hangs, Fault, Goto
  <2>10. CASE RetryResent(w)
    BY <2>10 DEF RetryResent, Fault, Finish, Mishap
  <2>2. CASE ExecuteFail(w)
    BY <2>2 DEF ExecuteFail, Fault, Goto
  <2>3. CASE ExecuteOutcomeLost(w)
    BY <2>3 DEF ExecuteOutcomeLost, Fault, Goto, Mishap
  <2>4. CASE ResolveThrows(w)
    BY <2>4 DEF ResolveThrows, Fault, Goto, Mishap
  <2>5. CASE MarkRetryFailedThrows(w)
    BY <2>5 DEF MarkRetryFailedThrows, Fault, Return, Goto, Finish
  <2>6. CASE ReportSuccessThrows(w)
    BY <2>6 DEF ReportSuccessThrows, Fault, Goto
  <2>7. CASE Crash(w)
    BY <2>7 DEF Crash, CrashMishaps, Fault, Finish
  <2>8. CASE Rebalance(w)
    BY <2>8 DEF Rebalance, Fault
  <2> QED BY <1>6, <2>1, <2>2, <2>3, <2>4, <2>5, <2>6, <2>7, <2>8, <2>9, <2>10
     DEF Failure
<1>7. CASE Tick
  BY <1>7 DEF Tick
<1> QED BY <1>1, <1>2, <1>3, <1>4, <1>5, <1>6, <1>7 DEF Next

\* The rows, workers, queue and histories of DlqLease keep their types.
THEOREM TypeCorrect == Spec => []TypeOK
<1>1. Init => TypeOK
  BY LeaseAssumption DEF Init, TypeOK, Expired, Statuses, PCs, InFlight, Mishaps
<1> QED BY <1>1, TypeStep, PTL DEF Spec

\* No step of a worker, the operator, the clock or the environment breaks a
\* part of the invariant on any row.
LEMMA RowStep ==
  ASSUME IInv, [Next]_vars, NEW i \in Items
  PROVE  LockedIffRetrying(i)' /\ LeaseProtects(i)' /\ OutcomeKept(i)' /\ AppliedSettles(i)'
<1> DEFINE Goal == /\ LockedIffRetrying(i)' /\ LeaseProtects(i)'
                   /\ OutcomeKept(i)' /\ AppliedSettles(i)'
<1>0. TypeOK /\ TypeOK'
  BY TypeStep DEF IInv
<1>a. LockedIffRetrying(i) /\ LeaseProtects(i) /\ OutcomeKept(i) /\ AppliedSettles(i)
  BY DEF IInv
<1> USE <1>0, <1>a, LeaseAssumption
    DEF TypeOK, Statuses, PCs, InFlight, Mishaps, Expired, row,
        LockedIffRetrying, LeaseProtects, OutcomeKept, AppliedSettles, HoldsAttempt
<1>1. CASE UNCHANGED vars
  BY <1>1 DEF vars
<1>2. ASSUME NEW j \in Items, Add(j) \/ Skip(j) PROVE Goal
  BY <1>2 DEF Add, Skip, Unlocked
<1>3. ASSUME NEW w \in Admins, NEW j \in Items, Claim(w, j) PROVE Goal
  BY <1>3 DEF Claim, Claimable, Workers
<1>4. ASSUME NEW w \in Consumers, NEW j \in Items, Deliver(w, j) PROVE Goal
  BY <1>4 DEF Deliver, Workers
<1>5. ASSUME NEW w \in Workers, Progress(w) PROVE Goal
  <2> USE DEF Goto, Finish
  <2>1. CASE RetryDirect(w)
    BY <2>1 DEF RetryDirect
  <2>2. CASE RetrySend(w)
    BY <2>2 DEF RetrySend
  <2>3. CASE ExecuteOk(w)
    BY <2>3 DEF ExecuteOk
  <2>4. CASE Resolve(w)
    BY <2>4 DEF Resolve, Unlocked
  <2>5. CASE ResolveDone(w)
    BY <2>5 DEF ResolveDone, Return
  <2>6. CASE MarkRetryFailed(w)
    BY <2>6 DEF MarkRetryFailed, Unlocked, Return
  <2>7. CASE ReportSuccess(w)
    BY <2>7 DEF ReportSuccess
  <2>8. CASE ReportFailed(w)
    BY <2>8 DEF ReportFailed, Fault
  <2> QED BY <1>5, <2>1, <2>2, <2>3, <2>4, <2>5, <2>6, <2>7, <2>8 DEF Progress
<1>6. ASSUME NEW w \in Workers, Failure(w) PROVE Goal
  <2> USE DEF Goto, Finish
  <2>1. CASE AbandonClaim(w)
    BY <2>1 DEF AbandonClaim, Fault
  <2>9. CASE Hangs(w)
    BY <2>9 DEF Hangs, Fault
  <2>10. CASE RetryResent(w)
    <3> USE <2>10 DEF RetryResent, Fault, Mishap
    <3>0. mishaps[i] \subseteq mishaps'[i]
      OBVIOUS
    <3>1. LockedIffRetrying(i)'
      OBVIOUS
    <3>2. LeaseProtects(i)'
      BY <3>0
    <3>3. OutcomeKept(i)'
      OBVIOUS
    <3>4. AppliedSettles(i)'
      BY <3>0
    <3> QED BY <3>1, <3>2, <3>3, <3>4
  <2>2. CASE ExecuteFail(w)
    BY <2>2 DEF ExecuteFail, Fault
  <2>3. CASE ExecuteOutcomeLost(w)
    <3> USE <2>3 DEF ExecuteOutcomeLost, Fault, Mishap
    <3>0. mishaps[i] \subseteq mishaps'[i]
      OBVIOUS
    <3>a. on[w] = i => "lostOutcome" \in mishaps'[i]
      OBVIOUS
    <3>1. LockedIffRetrying(i)'
      OBVIOUS
    <3>2. LeaseProtects(i)'
      BY <3>0
    <3>3. OutcomeKept(i)'
      OBVIOUS
    <3>4. AppliedSettles(i)'
      <4>1. CASE on[w] # i
        <5>1. /\ mishaps'[i] = mishaps[i] /\ applied'[i] = applied[i]
              /\ \A v \in Workers : HoldsAttempt(v, i)' <=> HoldsAttempt(v, i)
              /\ \A v \in Workers : HoldsAttempt(v, i) => pc'[v] = pc[v]
          BY <4>1
        <5> QED BY <5>1
      <4>2. CASE on[w] = i
        BY <3>a, <4>2
      <4> QED BY <4>1, <4>2
    <3> QED BY <3>1, <3>2, <3>3, <3>4
  <2>4. CASE ResolveThrows(w)
    <3> USE <2>4 DEF ResolveThrows, Fault, Mishap
    <3>0. mishaps[i] \subseteq mishaps'[i]
      OBVIOUS
    <3>1. LockedIffRetrying(i)'
      OBVIOUS
    <3>2. LeaseProtects(i)'
      BY <3>0
    <3>3. OutcomeKept(i)'
      OBVIOUS
    <3>4. AppliedSettles(i)'
      <4>1. CASE on[w] # i
        <5>1. /\ mishaps'[i] = mishaps[i] /\ applied'[i] = applied[i]
              /\ \A v \in Workers : HoldsAttempt(v, i)' <=> HoldsAttempt(v, i)
              /\ \A v \in Workers : HoldsAttempt(v, i) => pc'[v] = pc[v]
          BY <4>1
        <5> QED BY <5>1
      <4>2. CASE on[w] = i
        BY <4>2
      <4> QED BY <4>1, <4>2
    <3> QED BY <3>1, <3>2, <3>3, <3>4
  <2>5. CASE MarkRetryFailedThrows(w)
    BY <2>5 DEF MarkRetryFailedThrows, Fault, Return
  <2>6. CASE ReportSuccessThrows(w)
    BY <2>6 DEF ReportSuccessThrows, Fault
  <2>7. CASE Crash(w)
    <3> USE <2>7 DEF Crash, Fault
    <3>0. /\ mishaps[i] \subseteq mishaps'[i]
          /\ on[w] = i => CrashMishaps(pc[w]) \subseteq mishaps'[i]
      OBVIOUS
    <3>a. /\ pc[w] \in {"reportSuccess", "reportFailed"} => "redelivery" \in CrashMishaps(pc[w])
          /\ pc[w] \in {"applied", "resolved"} => "lostOutcome" \in CrashMishaps(pc[w])
      BY DEF CrashMishaps
    <3>1. LockedIffRetrying(i)'
      OBVIOUS
    <3>2. LeaseProtects(i)'
      <4>1. CASE on[w] # i
        BY <3>0, <3>a, <4>1
      <4>2. CASE on[w] = i /\ pc[w] \in {"reportSuccess", "reportFailed"}
        BY <3>0, <3>a, <4>2
      <4>3. CASE on[w] = i /\ HoldsAttempt(w, i)
        BY <3>0, <3>a, <4>3
      <4> QED BY <4>1, <4>2, <4>3
    <3>3. OutcomeKept(i)'
      OBVIOUS
    <3>4. AppliedSettles(i)'
      <4>1. CASE on[w] # i
        BY <3>0, <3>a, <4>1
      <4>2. CASE on[w] = i /\ pc[w] \in {"reportSuccess", "reportFailed"}
        BY <3>0, <3>a, <4>2
      <4>3. CASE on[w] = i /\ HoldsAttempt(w, i)
        BY <3>0, <3>a, <4>3
      <4> QED BY <4>1, <4>2, <4>3
    <3> QED BY <3>1, <3>2, <3>3, <3>4
  <2>8. CASE Rebalance(w)
    BY <2>8 DEF Rebalance, Fault
  <2> QED BY <1>6, <2>1, <2>2, <2>3, <2>4, <2>5, <2>6, <2>7, <2>8, <2>9, <2>10
     DEF Failure
<1>7. CASE Tick
  <2> USE <1>7 DEF Tick
  <2>0. mishaps[i] \subseteq mishaps'[i]
    OBVIOUS
  <2>1. LockedIffRetrying(i)'
    OBVIOUS
  <2>2. LeaseProtects(i)'
    <3>1. ASSUME mishaps'[i] \cap {"overrun", "redelivery"} = {}, Live(i)
          PROVE  lockAge'[i] <= Lease
      <4>1. lockAge'[i] \in 0 .. Lease + 1
        OBVIOUS
      <4>2. mishaps'[i] = IF lockAge'[i] = Lease + 1 /\ Live(i)
                          THEN mishaps[i] \cup {"overrun"} ELSE mishaps[i]
        OBVIOUS
      <4>3. lockAge'[i] # Lease + 1
        BY <3>1, <4>2
      <4> QED BY <4>1, <4>3
    <3>2. ASSUME NEW v \in Workers, HoldsAttempt(v, i) PROVE Live(i)
      BY <3>2 DEF Live, Attempts
    <3>3. queue[i] > 0 => Live(i)
      BY DEF Live
    <3> QED BY <2>0, <3>1, <3>2, <3>3
  <2>3. OutcomeKept(i)'
    OBVIOUS
  <2>4. AppliedSettles(i)'
    BY <2>0
  <2> QED BY <2>1, <2>2, <2>3, <2>4
<1> QED BY <1>1, <1>2, <1>3, <1>4, <1>5, <1>6, <1>7 DEF Next

LEMMA InvariantStep == IInv /\ [Next]_vars => IInv'
<1> SUFFICES ASSUME IInv, [Next]_vars PROVE IInv'
  OBVIOUS
<1>1. TypeOK'
  BY TypeStep DEF IInv
<1>2. ASSUME NEW i \in Items
      PROVE  /\ LockedIffRetrying(i)' /\ LeaseProtects(i)'
             /\ OutcomeKept(i)' /\ AppliedSettles(i)'
  BY RowStep
<1> QED BY <1>1, <1>2 DEF IInv

LEMMA InvariantInit == Init => IInv
<1> SUFFICES ASSUME Init PROVE IInv
  OBVIOUS
<1>1. TypeOK
  BY LeaseAssumption
     DEF Init, TypeOK, Expired, Statuses, PCs, InFlight, Mishaps
<1>2. ASSUME NEW i \in Items
      PROVE  /\ LockedIffRetrying(i) /\ LeaseProtects(i)
             /\ OutcomeKept(i) /\ AppliedSettles(i)
  BY LeaseAssumption
     DEF Init, LockedIffRetrying, LeaseProtects, OutcomeKept, AppliedSettles,
         HoldsAttempt, InFlight
<1> QED BY <1>1, <1>2 DEF IInv

LEMMA Invariance == Spec => []IInv
BY InvariantInit, InvariantStep, PTL DEF Spec

\* The lease of DlqService.retry admits one attempt per row at a time while no
\* attempt outlives its lease and no settled message is redelivered.
THEOREM LeaseExclusion == Spec => []OneAttemptPerRow
<1>1. IInv => OneAttemptPerRow
  BY DEF IInv, TypeOK, LeaseProtects, HoldsAttempt, OneAttemptPerRow, Attempts
<1> QED BY <1>1, Invariance, PTL

\* resolved rows and published success statuses stand for applied events,
\* whatever fails or overlaps.
THEOREM ResolvedWasApplied == Spec => []OutcomeIsReal
<1>1. IInv => OutcomeIsReal
  BY DEF IInv, OutcomeKept, OutcomeIsReal
<1> QED BY <1>1, Invariance, PTL

\* A second application of a retried event needs one of the three mishaps.
THEOREM SecondApplicationNeedsMishap == Spec => []AppliedOnceUnlessMishap
<1>1. IInv => AppliedOnceUnlessMishap
  BY DEF IInv, TypeOK, AppliedSettles, AppliedOnceUnlessMishap
<1> QED BY <1>1, Invariance, PTL
=============================================================================
