------------------------------ MODULE RetryLoop ------------------------------
(***************************************************************************)
(* One event inside ProcessingService.process or processRetry: the lookup  *)
(* in ConnectorRegistry, RetryPolicyService.forTarget, the loop of         *)
(* RetryService.execute around the connector, and the second forTarget     *)
(* whose maxRetries the DLQ row records.  Every await is a step boundary:  *)
(* between steps an administrator may edit or remove the target system.    *)
(***************************************************************************)
EXTENDS Integers

CONSTANTS RawPolicies,  \* the retryPolicy objects an administrator may store
          Unreadable,   \* a stored config that fromJson throws on
          None,
          JitterSteps,  \* bound: Math.random() takes the values r \div JitterSteps
          TimerMax,     \* the longest timer of Node.js, 2^31 - 1 ms
          MaxEdits      \* bound: edits of the target system in a behaviour

\* DEFAULT_RETRY_POLICY
Defaults == [maxRetries |-> 3, baseDelayMs |-> 1000, maxDelayMs |-> 30000, jitter |-> TRUE]

Positive == Nat \ {0}
Options  == [maxRetries : Positive, baseDelayMs : Positive, maxDelayMs : Positive,
             jitter : BOOLEAN]

\* A field of a raw policy is any JSON value; what Number() does not map to an
\* integer is represented by values outside Int.
ASSUME RetryAssumption ==
  /\ None \notin RawPolicies /\ Unreadable \notin RawPolicies /\ Unreadable # None
  /\ None \notin Options
  /\ JitterSteps \in Positive /\ TimerMax \in Positive
  /\ MaxEdits \in Nat

VARIABLES
  registered, \* the connector map has the target's name
  stored,     \* the row's retryPolicy; None: no row, no policy, or not an object
  edits,      \* edits so far
  job,        \* "process" or "processRetry"
  pc,
  opts,       \* the RetryOptions of the loop, None before they are read
  attempt,
  delay,      \* the milliseconds until the timer of sleep fires
  answer,     \* of the last connector call: "none", "ok", "refused", "threw"
  calls,      \* history: connector calls
  phase,      \* "running", "hung", "ok", "failed": what executeWithRetry came to
  applied,    \* history: calls whose write took effect
  lost,       \* history: those among them that failed, for the caller
  recorded    \* retryCount handed to dlq.add, None before or without it

target  == <<registered, stored, edits>>
history == <<calls, applied, lost>>
vars    == <<target, job, pc, opts, attempt, delay, answer, history, phase, recorded>>

TypeOK ==
  /\ registered \in BOOLEAN
  /\ stored \in RawPolicies \cup {None, Unreadable}
  /\ edits \in 0 .. MaxEdits
  /\ job \in {"process", "processRetry"}
  /\ pc \in {"lookup", "policy", "call", "hung", "sleep", "record", "done"}
  /\ opts \in Options \cup {None}
  /\ attempt \in Nat
  /\ answer \in {"none", "ok", "refused", "threw"}
  /\ calls \in Nat /\ applied \in Nat /\ lost \in Nat
  /\ phase \in {"running", "hung", "ok", "failed"}
  /\ recorded \in Positive \cup {None}

Init ==
  /\ registered = TRUE
  /\ stored \in RawPolicies \cup {None, Unreadable}
  /\ edits = 0
  /\ job \in {"process", "processRetry"}
  /\ pc = "lookup" /\ opts = None
  /\ attempt = 0 /\ delay = 0 /\ answer = "none"
  /\ calls = 0 /\ applied = 0 /\ lost = 0
  /\ phase = "running" /\ recorded = None

-----------------------------------------------------------------------------
(***************************************************************************)
(* RetryPolicyService.forTarget                                            *)
(***************************************************************************)
\* positiveInteger, and the default that fills a rejected field.
OrDefault(v, d) == IF v \in Positive THEN v ELSE d

Effective(raw) ==
  IF raw = None THEN Defaults
  ELSE [maxRetries  |-> OrDefault(raw.maxRetries, Defaults.maxRetries),
        baseDelayMs |-> OrDefault(raw.baseDelayMs, Defaults.baseDelayMs),
        maxDelayMs  |-> OrDefault(raw.maxDelayMs, Defaults.maxDelayMs),
        jitter      |-> IF raw.jitter \in BOOLEAN THEN raw.jitter ELSE Defaults.jitter]

\* The policies one call of forTarget may return: the stored one, or the
\* defaults when the query fails.
ForTarget == {Defaults} \cup IF stored = Unreadable THEN {} ELSE {Effective(stored)}

-----------------------------------------------------------------------------
(***************************************************************************)
(* The administrator, and the registry reload that follows.                *)
(***************************************************************************)
Edit(raw, known) ==
  /\ pc # "done" /\ edits < MaxEdits
  /\ edits' = edits + 1
  /\ stored' = raw /\ registered' = known
  /\ UNCHANGED <<job, pc, opts, attempt, delay, answer, history, phase, recorded>>

(***************************************************************************)
(* executeWithRetry and RetryService.execute                               *)
(***************************************************************************)
\* executeWithRetry throws.  process goes on to write the DLQ row, processRetry
\* to markRetryFailed (module DlqLease).
Fail ==
  /\ phase' = "failed"
  /\ pc' = IF job = "process" THEN "record" ELSE "done"

\* Variant: an unknown target is waited for.
LookupWaits ==
  /\ pc = "lookup" /\ registered
  /\ pc' = "policy"
  /\ UNCHANGED <<target, job, opts, attempt, delay, answer, history, phase, recorded>>

Lookup ==
  /\ pc = "lookup"
  /\ IF registered THEN pc' = "policy" /\ UNCHANGED phase ELSE Fail
  /\ UNCHANGED <<target, job, opts, attempt, delay, answer, history, recorded>>

ReadPolicy ==
  /\ pc = "policy"
  /\ opts' \in ForTarget
  /\ pc' = "call"
  /\ UNCHANGED <<target, job, attempt, delay, answer, history, phase, recorded>>

\* fromJson throws on what is stored.
PolicyUnreadable ==
  /\ pc = "policy" /\ stored = Unreadable
  /\ Fail
  /\ UNCHANGED <<target, job, opts, attempt, delay, answer, history, recorded>>

CallOk ==
  /\ pc = "call"
  /\ answer' = "ok"
  /\ calls' = calls + 1 /\ applied' = applied + 1
  /\ phase' = "ok" /\ pc' = "done"
  /\ UNCHANGED <<target, job, opts, attempt, delay, lost, recorded>>

\* Variant: a refusal is retried like an error.
CallRefusedRetried ==
  /\ pc = "call"
  /\ answer' = "refused"
  /\ calls' = calls + 1
  /\ UNCHANGED <<target, job, pc, opts, attempt, delay, applied, lost, phase, recorded>>

\* Variant: result.success is not looked at.
CallRefusedUnnoticed ==
  /\ pc = "call"
  /\ answer' = "refused"
  /\ calls' = calls + 1
  /\ phase' = "ok" /\ pc' = "done"
  /\ UNCHANGED <<target, job, opts, attempt, delay, applied, lost, recorded>>

\* success = false is an answer: execute returns it, executeWithRetry throws.
CallRefused ==
  /\ pc = "call"
  /\ answer' = "refused"
  /\ calls' = calls + 1
  /\ Fail
  /\ UNCHANGED <<target, job, opts, attempt, delay, applied, lost, recorded>>

\* ... although the target has applied the change: the connectors answer success =
\* false to a timeout and to an error after their first request (module ConnectorRun).
CallRefusedLate ==
  /\ pc = "call"
  /\ answer' = "refused"
  /\ calls' = calls + 1 /\ applied' = applied + 1 /\ lost' = lost + 1
  /\ Fail
  /\ UNCHANGED <<target, job, opts, attempt, delay, recorded>>

Least(a, b) == IF a <= b THEN a ELSE b
\* Variant: the cap is applied before the exponential.
CappedEarly(o, k) == Least(o.baseDelayMs, o.maxDelayMs) * 2 ^ k

\* calculateDelay without jitter, and with Math.random() = r / JitterSteps.
Capped(o, k) == Least(o.baseDelayMs * 2 ^ k, o.maxDelayMs)
Delays(o, k) ==
  IF o.jitter
  THEN {(Capped(o, k) * (JitterSteps + r)) \div (2 * JitterSteps) : r \in 0 .. JitterSteps - 1}
  ELSE {Capped(o, k)}

\* setTimeout: below 1 and above TimerMax it fires after 1 ms.
Timer(ms) == IF ms \in 1 .. TimerMax THEN ms ELSE 1

\* The catch block of the loop: the last attempt rethrows.
Caught(effect) ==
  /\ pc = "call"
  /\ answer' = "threw"
  /\ calls' = calls + 1
  /\ applied' = applied + effect /\ lost' = lost + effect
  /\ IF attempt = opts.maxRetries
     THEN Fail /\ UNCHANGED delay
     ELSE /\ \E ms \in Delays(opts, attempt) : delay' = Timer(ms)
          /\ pc' = "sleep" /\ UNCHANGED phase
  /\ UNCHANGED <<target, job, opts, attempt, recorded>>

CallThrows == Caught(0)

\* ... although the target has applied the change.
CallOutcomeLost == Caught(1)

\* The call never settles, whether or not the target has applied the change:
\* nothing limits its time.
CallHangs ==
  /\ pc = "call"
  /\ \E effect \in {0, 1} : applied' = applied + effect /\ lost' = lost + effect
  /\ calls' = calls + 1
  /\ phase' = "hung" /\ pc' = "hung"
  /\ UNCHANGED <<target, job, opts, attempt, delay, answer, recorded>>

\* Variant: the first retry is not counted.
WakeLate ==
  /\ pc = "sleep"
  /\ attempt' = IF calls = 1 THEN 0 ELSE attempt + 1
  /\ pc' = "call" /\ delay' = 0
  /\ UNCHANGED <<target, job, opts, answer, history, phase, recorded>>

Wake ==
  /\ pc = "sleep"
  /\ attempt' = attempt + 1
  /\ pc' = "call" /\ delay' = 0
  /\ UNCHANGED <<target, job, opts, answer, history, phase, recorded>>

(***************************************************************************)
(* process's catch: forTarget once more, for dlq.add's retryCount; when it *)
(* throws nothing is recorded (durableAccepted = false).                   *)
(***************************************************************************)
Record ==
  /\ pc = "record"
  /\ recorded' \in {o.maxRetries : o \in ForTarget} \cup (IF stored = Unreadable THEN {None} ELSE {})
  /\ pc' = "done"
  /\ UNCHANGED <<target, job, opts, attempt, delay, answer, history, phase>>

-----------------------------------------------------------------------------
Step == \/ Lookup \/ ReadPolicy \/ PolicyUnreadable
        \/ CallOk \/ CallRefused \/ CallRefusedLate \/ CallThrows \/ CallOutcomeLost
        \/ Wake \/ Record

Next == Step \/ CallHangs
        \/ \E raw \in RawPolicies \cup {None, Unreadable}, known \in BOOLEAN : Edit(raw, known)

\* The timer and the queries return, and so does a connector call that does not
\* hang; edits need not happen.
Spec     == Init /\ [][Next]_vars
FairSpec == Spec /\ WF_vars(Step)

-----------------------------------------------------------------------------
(***************************************************************************)
(* Properties.                                                             *)
(***************************************************************************)
\* maxRetries counts the calls after the first, as retry.service.spec.ts:34-40
\* has it: at most maxRetries + 1 calls under the policy that was read, whatever
\* the administrator stores meanwhile, and exactly so many before an error ends
\* the loop.  (The "max 3 attempts" of processing.service.ts:42 and README.md:103
\* are four calls under the default policy.)
CallsMatchPolicy ==
  /\ opts # None => calls <= opts.maxRetries + 1
  /\ phase = "failed" /\ answer = "threw" => calls = opts.maxRetries + 1

\* No call follows an answer: a refused or successful change is not tried again.
AnswerIsFinal == [][(answer \in {"ok", "refused"}) => calls' = calls]_vars

\* What the timer waits is never more than the policy's maximum, and no less
\* than half of the capped doubling of the base delay, for every stored policy,
\* the invalid ones included; but for one whose capped delay is longer than any
\* timer, which may be retried at once.
WaitWithinPolicy ==
  pc = "sleep" =>
    /\ delay \in Positive
    /\ delay <= opts.maxDelayMs
    /\ \/ 2 * delay + 1 >= opts.maxDelayMs
       \/ 2 * delay + 1 >= opts.baseDelayMs * 2 ^ attempt
       \/ opts.maxDelayMs > TimerMax /\ opts.baseDelayMs * 2 ^ attempt > TimerMax

\* Callers see what module Execution promises; the loop always ends, or hangs in
\* a call.
Promise == INSTANCE Execution WITH phase <- phase, applied <- applied, lost <- lost
ImplementsExecution == Promise!Spec

\* process and processRetry end, whatever is stored and however often it is
\* edited, unless a call of the connector never settles.
Ends == <>(pc \in {"done", "hung"})

-----------------------------------------------------------------------------
\* The strengthening of CallsMatchPolicy, with the applied changes accounted
\* for: the counter is the number of calls that threw.
LoopInv ==
  /\ pc \in {"lookup", "policy"} =>
       calls = 0 /\ attempt = 0 /\ opts = None /\ answer = "none"
  /\ pc \in {"call", "sleep"} => opts \in Options /\ attempt <= opts.maxRetries
  /\ pc = "call" => calls = attempt /\ answer \in {"none", "threw"}
  /\ pc = "sleep" => calls = attempt + 1 /\ attempt < opts.maxRetries /\ answer = "threw"
  /\ pc \in {"record", "done"} =>
       /\ opts = None => calls = 0 /\ answer = "none"
       /\ opts # None => calls <= opts.maxRetries + 1
       /\ answer = "threw" => opts # None /\ calls = opts.maxRetries + 1
  /\ pc \in {"lookup", "policy", "call", "sleep"} => phase = "running"
  /\ pc = "hung" => phase = "hung" /\ opts \in Options /\ calls <= opts.maxRetries + 1
  /\ pc \in {"record", "done"} => phase \in {"ok", "failed"}
  /\ applied = lost + IF phase = "ok" THEN 1 ELSE 0
  /\ lost <= calls

IInv == TypeOK /\ LoopInv
=============================================================================
