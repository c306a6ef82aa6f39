------------------------------ MODULE DlqLease ------------------------------
(***************************************************************************)
(* The life of a dead-letter-queue row: DlqService (add, claim with a      *)
(* lease, skip, resolve, markRetryFailed), the AdminService handlers that  *)
(* drive it, ProcessingService.processRetry, and the Kafka consumer of the *)
(* retry topic.                                                            *)
(*                                                                         *)
(* A worker is one asynchronous handler: an Admin HTTP request             *)
(* (AdminService.retry / retryMany), or, when Kafka is enabled, one        *)
(* eachMessage callback.  Every await is a step boundary.  Time enters     *)
(* only through the lease: lockAge is the age of lockedAt, saturated one   *)
(* tick beyond Lease, where the claim guard stops telling values apart.    *)
(* retryCount and the error text are written by the code and read by no    *)
(* guard; they are left out.                                               *)
(***************************************************************************)
EXTENDS Integers, FiniteSets

CONSTANTS Items,      \* DLQ rows
          Admins,     \* admin requests
          Consumers,  \* members of the Kafka consumer group
          None,       \* a null lockedAt/lockedBy, an idle worker's item
          Lease,      \* dlqLeaseSeconds, in ticks
          MaxQueue,   \* bound: messages per row waiting on the retry topic
          MaxFaults   \* bound: failures of the environment in a behaviour

Workers == Admins \cup Consumers

ASSUME LeaseAssumption == /\ Lease \in Nat
                          /\ MaxQueue \in Nat
                          /\ MaxFaults \in Nat
                          /\ None \notin Workers
                          /\ None \notin Items

VARIABLES
  kafkaEnabled,  \* KAFKA_ENABLED, fixed at start
  status,        \* DlqItem.status, "absent" before add
  lockedBy,      \* DlqItem.lockedBy (lockedAt is null exactly when this is None)
  lockAge,       \* now - lockedAt, saturated at Lease + 1
  pc, on,        \* where each worker is, and the row it works on
  queue,         \* messages per row on idm.dlq.retry not yet delivered
  eventsOut,     \* statuses on idm.events.out: the row of a success status,
                 \* None for a failed status (it carries no event id)
  applied,       \* history: connector successes per row, saturated at 2
  mishaps,       \* history: what disturbed the attempts on a row
  faults         \* failures so far, at most MaxFaults

row == <<status, lockedBy, lockAge>>
vars == <<kafkaEnabled, status, lockedBy, lockAge, pc, on, queue, eventsOut,
          applied, mishaps, faults>>

Statuses == {"pending", "retrying", "skipped", "resolved"}
Expired  == Lease + 1
Mishaps  == {"overrun", "redelivery", "lostOutcome"}

\* The program counters of a worker inside processRetry.
InFlight == {"executing", "hung", "applied", "resolved", "failed"}
PCs == InFlight \cup {"idle", "claimed", "reportSuccess", "reportFailed"}

\* Worker w holds an attempt on row i: claimed and not yet settled.
Attempts(i) == {w \in Workers : on[w] = i /\ pc[w] \in InFlight \cup {"claimed"}}
Live(i)     == Attempts(i) # {} \/ queue[i] > 0

TypeOK ==
  /\ kafkaEnabled \in BOOLEAN
  /\ status \in [Items -> Statuses \cup {"absent"}]
  /\ lockedBy \in [Items -> Workers \cup {None}]
  /\ lockAge \in [Items -> 0 .. Expired]
  /\ pc \in [Workers -> PCs]
  /\ on \in [Workers -> Items \cup {None}]
  /\ \A w \in Workers : pc[w] # "idle" => on[w] \in Items
  /\ queue \in [Items -> Nat]
  /\ eventsOut \in SUBSET (Items \cup {None})
  /\ applied \in [Items -> 0 .. 2]
  /\ mishaps \in [Items -> SUBSET Mishaps]
  /\ faults \in 0 .. MaxFaults

Init ==
  /\ kafkaEnabled \in BOOLEAN
  /\ status = [i \in Items |-> "absent"]
  /\ lockedBy = [i \in Items |-> None]
  /\ lockAge = [i \in Items |-> 0]
  /\ pc = [w \in Workers |-> "idle"]
  /\ on = [w \in Workers |-> None]
  /\ queue = [i \in Items |-> 0]
  /\ eventsOut = {}
  /\ applied = [i \in Items |-> 0]
  /\ mishaps = [i \in Items |-> {}]
  /\ faults = 0

-----------------------------------------------------------------------------
(***************************************************************************)
(* Row updates (each is one SQL statement).                                *)
(***************************************************************************)
Unlocked(i, s) ==
  /\ status' = [status EXCEPT ![i] = s]
  /\ lockedBy' = [lockedBy EXCEPT ![i] = None]
  /\ lockAge' = [lockAge EXCEPT ![i] = 0]

Goto(w, l) == pc' = [pc EXCEPT ![w] = l] /\ UNCHANGED on
Finish(w)  == pc' = [pc EXCEPT ![w] = "idle"] /\ on' = [on EXCEPT ![w] = None]
Fault      == faults < MaxFaults /\ faults' = faults + 1
Mishap(i, m) == mishaps' = [mishaps EXCEPT ![i] = @ \cup {m}]

\* DlqService.add: ProcessingService.process persists the failed event.
Add(i) ==
  /\ status[i] = "absent"
  /\ Unlocked(i, "pending")
  /\ UNCHANGED <<kafkaEnabled, pc, on, queue, eventsOut, applied, mishaps, faults>>

\* Variants of the claim that the checks must reject: no lease clause, no
\* expiry, no exclusion of resolved rows.
ClaimableIgnoringLease(i) == status[i] \notin {"absent", "skipped", "resolved"}
ClaimableNeverExpiring(i) ==
  status[i] \notin {"absent", "skipped", "resolved", "retrying"}
ClaimableResolved(i) ==
  /\ status[i] \notin {"absent", "skipped"}
  /\ status[i] # "retrying" \/ lockedBy[i] = None \/ lockAge[i] = Expired

\* The where clause of the claiming updateMany.
Claimable(i) ==
  /\ status[i] \notin {"absent", "skipped", "resolved"}
  /\ \/ status[i] # "retrying"
     \/ lockedBy[i] = None
     \/ lockAge[i] = Expired

\* DlqService.retry, called by AdminService.retry and for each row of
\* AdminService.retryMany; a refused claim changes nothing.
Claim(w, i) ==
  /\ pc[w] = "idle"
  /\ Claimable(i)
  /\ status' = [status EXCEPT ![i] = "retrying"]
  /\ lockedBy' = [lockedBy EXCEPT ![i] = w]
  /\ lockAge' = [lockAge EXCEPT ![i] = 0]
  /\ pc' = [pc EXCEPT ![w] = "claimed"]
  /\ on' = [on EXCEPT ![w] = i]
  /\ UNCHANGED <<kafkaEnabled, queue, eventsOut, applied, mishaps, faults>>

\* AdminService.retryItem, Kafka disabled: processRetry in the request.
RetryDirect(w) ==
  /\ pc[w] = "claimed"
  /\ ~kafkaEnabled
  /\ Goto(w, "executing")
  /\ UNCHANGED <<kafkaEnabled, row, queue, eventsOut, applied, mishaps, faults>>

\* AdminService.retryItem, Kafka enabled: send to the retry topic and return.
RetrySend(w) ==
  /\ pc[w] = "claimed"
  /\ kafkaEnabled
  /\ queue[on[w]] < MaxQueue
  /\ queue' = [queue EXCEPT ![on[w]] = @ + 1]
  /\ Finish(w)
  /\ UNCHANGED <<kafkaEnabled, row, eventsOut, applied, mishaps, faults>>

\* The broker stored the message but its acknowledgement is lost, and the
\* client sends it once more: the retry topic holds it twice.
RetryResent(w) ==
  /\ pc[w] = "claimed"
  /\ kafkaEnabled
  /\ Fault
  /\ queue' = [queue EXCEPT ![on[w]] = @ + 2]
  /\ Mishap(on[w], "redelivery")
  /\ Finish(w)
  /\ UNCHANGED <<kafkaEnabled, row, eventsOut, applied>>

\* After the claim, updateMetrics, findUnique, the payload's decryption or the
\* Kafka send throws: the request ends and the row keeps its lease.
AbandonClaim(w) ==
  /\ pc[w] = "claimed"
  /\ Fault
  /\ Finish(w)
  /\ UNCHANGED <<kafkaEnabled, row, queue, eventsOut, applied, mishaps>>

\* AdminService.skip -> DlqService.skip: an unconditional update by id.
Skip(i) ==
  /\ status[i] # "absent"
  /\ Unlocked(i, "skipped")
  /\ UNCHANGED <<kafkaEnabled, pc, on, queue, eventsOut, applied, mishaps, faults>>

-----------------------------------------------------------------------------
(***************************************************************************)
(* KafkaConsumerService.eachMessage for a message with a dlqItemId: no     *)
(* look at the row's status or lease.                                      *)
(***************************************************************************)
Deliver(w, i) ==
  /\ kafkaEnabled
  /\ pc[w] = "idle"
  /\ queue[i] > 0
  /\ queue' = [queue EXCEPT ![i] = @ - 1]
  /\ pc' = [pc EXCEPT ![w] = "executing"]
  /\ on' = [on EXCEPT ![w] = i]
  /\ UNCHANGED <<kafkaEnabled, row, eventsOut, applied, mishaps, faults>>

\* processRetry: executeWithRetry returned.
ExecuteOk(w) ==
  /\ pc[w] = "executing"
  /\ applied' = [applied EXCEPT ![on[w]] = IF @ < 2 THEN @ + 1 ELSE 2]
  /\ Goto(w, "applied")
  /\ UNCHANGED <<kafkaEnabled, row, queue, eventsOut, mishaps, faults>>

\* Variant: the failed result is not noticed.
ExecuteFailUnnoticed(w) ==
  /\ pc[w] = "executing"
  /\ Fault
  /\ Goto(w, "applied")
  /\ UNCHANGED <<kafkaEnabled, row, queue, eventsOut, applied, mishaps>>

\* processRetry: executeWithRetry threw (retries exhausted or a refusal).
ExecuteFail(w) ==
  /\ pc[w] = "executing"
  /\ Fault
  /\ Goto(w, "failed")
  /\ UNCHANGED <<kafkaEnabled, row, queue, eventsOut, applied, mishaps>>

\* One attempt throws although the target has applied the change (a timeout, a
\* lost response); executeWithRetry may go on.
ExecuteOutcomeLost(w) ==
  /\ pc[w] = "executing"
  /\ Fault
  /\ applied' = [applied EXCEPT ![on[w]] = IF @ < 2 THEN @ + 1 ELSE 2]
  /\ Mishap(on[w], "lostOutcome")
  /\ UNCHANGED <<kafkaEnabled, row, pc, on, queue, eventsOut>>

\* The connector's call never settles, and neither does processRetry.
Hangs(w) ==
  /\ pc[w] = "executing"
  /\ Fault
  /\ Goto(w, "hung")
  /\ UNCHANGED <<kafkaEnabled, row, queue, eventsOut, applied, mishaps>>

\* What the handler does once processRetry has returned or thrown.
Return(w, report) ==
  IF kafkaEnabled THEN Goto(w, report) ELSE Finish(w)

\* processRetry: dlq.resolve's update, unconditional by id.
Resolve(w) ==
  /\ pc[w] = "applied"
  /\ Unlocked(on[w], "resolved")
  /\ Goto(w, "resolved")
  /\ UNCHANGED <<kafkaEnabled, queue, eventsOut, applied, mishaps, faults>>

\* ... followed by its updateMetrics.
ResolveDone(w) ==
  /\ pc[w] = "resolved"
  /\ Return(w, "reportSuccess")
  /\ UNCHANGED <<kafkaEnabled, row, queue, eventsOut, applied, mishaps, faults>>

\* dlq.resolve throws, in its update or in updateMetrics after it: the catch
\* block treats the applied event as a failed retry.
ResolveThrows(w) ==
  /\ pc[w] \in {"applied", "resolved"}
  /\ Fault
  /\ Mishap(on[w], "lostOutcome")
  /\ Goto(w, "failed")
  /\ UNCHANGED <<kafkaEnabled, row, queue, eventsOut, applied>>

\* processRetry's catch: dlq.markRetryFailed, unconditional by id, and rethrow.
MarkRetryFailed(w) ==
  /\ pc[w] = "failed"
  /\ Unlocked(on[w], "pending")
  /\ Return(w, "reportFailed")
  /\ UNCHANGED <<kafkaEnabled, queue, eventsOut, applied, mishaps, faults>>

\* markRetryFailed's update throws: the row stays as it is.
MarkRetryFailedThrows(w) ==
  /\ pc[w] = "failed"
  /\ Fault
  /\ Return(w, "reportFailed")
  /\ UNCHANGED <<kafkaEnabled, row, queue, eventsOut, applied, mishaps>>

\* The consumer publishes status "success" with the event's id ...
ReportSuccess(w) ==
  /\ pc[w] = "reportSuccess"
  /\ eventsOut' = eventsOut \cup {on[w]}
  /\ Finish(w)
  /\ UNCHANGED <<kafkaEnabled, row, queue, applied, mishaps, faults>>

\* ... and if that send throws, stored by the broker or not, falls into the
\* catch block.
ReportSuccessThrows(w) ==
  /\ pc[w] = "reportSuccess"
  /\ Fault
  /\ eventsOut' \in {eventsOut, eventsOut \cup {on[w]}}
  /\ Goto(w, "reportFailed")
  /\ UNCHANGED <<kafkaEnabled, row, queue, applied, mishaps>>

\* Status "failed" carries no event id; a failing send is logged and dropped.
ReportFailed(w) ==
  /\ pc[w] = "reportFailed"
  /\ \/ eventsOut' = eventsOut \cup {None} /\ UNCHANGED faults
     \/ Fault /\ UNCHANGED eventsOut
  /\ Finish(w)
  /\ UNCHANGED <<kafkaEnabled, row, queue, applied, mishaps>>

-----------------------------------------------------------------------------
(***************************************************************************)
(* The environment: crashes, consumer-group rebalances, time.              *)
(***************************************************************************)
\* What a crash at l costs: a settled message comes back, an outcome is lost.
CrashMishaps(l) ==
  (IF l \in {"reportSuccess", "reportFailed"} THEN {"redelivery"} ELSE {})
  \cup (IF l \in {"applied", "resolved", "reportSuccess", "reportFailed"}
        THEN {"lostOutcome"} ELSE {})

\* The process of a worker dies.  A consumer's message was not committed, so
\* the broker delivers it again; an admin request is simply gone.
Crash(w) ==
  /\ pc[w] # "idle"
  /\ Fault
  /\ queue' = IF kafkaEnabled /\ pc[w] # "claimed"
              THEN [queue EXCEPT ![on[w]] = @ + 1] ELSE queue
  /\ mishaps' = [mishaps EXCEPT ![on[w]] = @ \cup CrashMishaps(pc[w])]
  /\ Finish(w)
  /\ UNCHANGED <<kafkaEnabled, row, eventsOut, applied>>

\* The consumer group gives a slow consumer's partition to another member:
\* the message is delivered again while the first callback still runs.
Rebalance(w) ==
  /\ kafkaEnabled
  /\ pc[w] \in InFlight \cup {"reportSuccess", "reportFailed"}
  /\ Fault
  /\ queue' = [queue EXCEPT ![on[w]] = @ + 1]
  /\ mishaps' = [mishaps EXCEPT ![on[w]] = @ \cup {"redelivery", "lostOutcome"}]
  /\ UNCHANGED <<kafkaEnabled, row, pc, on, eventsOut, applied>>

\* One tick of the clock; a live attempt whose lease runs out is an overrun.
Tick ==
  /\ \E i \in Items : lockedBy[i] # None /\ lockAge[i] < Expired
  /\ lockAge' = [i \in Items |-> IF lockedBy[i] # None /\ lockAge[i] < Expired
                                 THEN lockAge[i] + 1 ELSE lockAge[i]]
  /\ mishaps' = [i \in Items |-> IF lockAge'[i] = Expired /\ Live(i)
                                 THEN mishaps[i] \cup {"overrun"} ELSE mishaps[i]]
  /\ UNCHANGED <<kafkaEnabled, status, lockedBy, pc, on, queue, eventsOut,
                 applied, faults>>

-----------------------------------------------------------------------------
Progress(w) ==
  \/ RetryDirect(w) \/ RetrySend(w)
  \/ ExecuteOk(w) \/ Resolve(w) \/ ResolveDone(w)
  \/ MarkRetryFailed(w) \/ ReportSuccess(w) \/ ReportFailed(w)

Failure(w) ==
  \/ AbandonClaim(w) \/ RetryResent(w) \/ ExecuteFail(w) \/ ExecuteOutcomeLost(w)
  \/ Hangs(w) \/ ResolveThrows(w) \/ MarkRetryFailedThrows(w) \/ ReportSuccessThrows(w)
  \/ Crash(w) \/ Rebalance(w)

Next ==
  \/ \E i \in Items : Add(i) \/ Skip(i)
  \/ \E w \in Admins, i \in Items : Claim(w, i)
  \/ \E w \in Consumers, i \in Items : Deliver(w, i)
  \/ \E w \in Workers : Progress(w) \/ Failure(w)
  \/ Tick

Spec == Init /\ [][Next]_vars

\* Handlers run to completion, the broker delivers, time passes, and the
\* operator asks again for a row that may be claimed.
Fairness ==
  /\ WF_vars(Tick)
  /\ \A w \in Workers : WF_vars(Progress(w))
  /\ \A i \in Items : WF_vars(\E w \in Consumers : Deliver(w, i))
  /\ \A i \in Items : WF_vars(\E w \in Admins : Claim(w, i))

FairSpec == Spec /\ Fairness

-----------------------------------------------------------------------------
(***************************************************************************)
(* Properties.                                                             *)
(***************************************************************************)
\* The lease keeps a row with one attempt at a time (claimed, queued, or
\* executing), as long as no attempt outlives its lease and no message of it is
\* stored twice or delivered again.  DlqService.retry, skip, resolve and
\* markRetryFailed interleave freely.
OneAttemptPerRow ==
  \A i \in Items : mishaps[i] \cap {"overrun", "redelivery"} = {} =>
    /\ \A v, w \in Attempts(i) : v = w
    /\ queue[i] <= 1
    /\ queue[i] = 1 => Attempts(i) = {}

\* Whatever is lost, redelivered or overrun, a row is resolved and a success
\* status published only for an event the connector really applied.
OutcomeIsReal ==
  \A i \in Items :
    status[i] = "resolved" \/ i \in eventsOut => applied[i] > 0

\* A retried event is applied twice only after one of the named mishaps: an
\* attempt outlived its lease, a message was sent or delivered twice, or the
\* outcome of a successful attempt was lost before the row recorded it.
AppliedOnceUnlessMishap ==
  \A i \in Items : applied[i] > 1 => mishaps[i] # {}

\* The strengthening that makes the three above inductive.  Parts, per row:
\* the lock columns are set exactly while the row is retrying; an undisturbed
\* row with a live attempt is not open to a claim; an applied, unsettled
\* attempt is the only one.
HoldsAttempt(w, i) == on[w] = i /\ pc[w] \in InFlight \cup {"claimed"}

LockedIffRetrying(i) == lockedBy[i] # None <=> status[i] = "retrying"

LeaseProtects(i) ==
  mishaps[i] \cap {"overrun", "redelivery"} = {} =>
    /\ queue[i] <= 1
    /\ \A w \in Workers : HoldsAttempt(w, i) =>
         /\ queue[i] = 0
         /\ \A v \in Workers : HoldsAttempt(v, i) => v = w
         /\ status[i] \in {"retrying", "skipped", "resolved"}
         /\ status[i] = "retrying" => lockAge[i] <= Lease
    /\ queue[i] > 0 =>
         /\ status[i] \in {"retrying", "skipped", "resolved"}
         /\ status[i] = "retrying" => lockAge[i] <= Lease

OutcomeKept(i) ==
  /\ \A w \in Workers :
       on[w] = i /\ pc[w] \in {"applied", "resolved", "reportSuccess"} => applied[i] > 0
  /\ status[i] = "resolved" \/ i \in eventsOut => applied[i] > 0

AppliedSettles(i) ==
  mishaps[i] = {} /\ applied[i] > 0 =>
    /\ applied[i] = 1
    /\ queue[i] = 0
    /\ \A w \in Workers : HoldsAttempt(w, i) =>
         /\ pc[w] \in {"applied", "resolved"}
         /\ pc[w] = "resolved" => status[i] \in {"resolved", "skipped"}
    /\ (\A w \in Workers : ~HoldsAttempt(w, i)) => status[i] \in {"resolved", "skipped"}

IInv ==
  /\ TypeOK
  /\ \A i \in Items : /\ LockedIffRetrying(i) /\ LeaseProtects(i)
                      /\ OutcomeKept(i) /\ AppliedSettles(i)

\* Once failures stop and the operator keeps retrying, no interleaving of
\* crashes, lost sends and failed updates strands a row: a pending row is
\* resolved or skipped in the end.  An abandoned lease expires, also that of an
\* attempt that hangs; only where every request, or every consumer, hangs is
\* there nobody left to claim the row again.
EventuallySettled ==
  \A i \in Items :
    status[i] = "pending" ~> \/ status[i] \in {"resolved", "skipped"}
                             \/ \A w \in Admins : pc[w] = "hung"
                             \/ \A w \in Consumers : pc[w] = "hung"

\* "DLQ item in state skipped or resolved cannot be sent to retry again": no
\* later step of another worker makes such a row retryable.
SettledNeverRetried ==
  \A i \in Items : [](status[i] \in {"skipped", "resolved"} => [](status[i] # "retrying"))
=============================================================================
