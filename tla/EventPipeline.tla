---------------------------- MODULE EventPipeline ----------------------------
(***************************************************************************)
(* The path of an Avanpost event: WebhookService.processWebhook, the       *)
(* idempotency key (Redis or PostgreSQL), DispatcherService.dispatch,      *)
(* ProcessingService.process / processWithResult, the DLQ write, and the   *)
(* Kafka consumer of idm.events.in in async mode.                          *)
(*                                                                         *)
(* A request is one POST from IDM, a consumer one eachMessage callback;    *)
(* every await is a step boundary.  IDM itself is external: it waits for   *)
(* an answer, gives up on a slow one, and sends an event again after an    *)
(* error.  Retries inside executeWithRetry are module RetryLoop, what      *)
(* happens to a DLQ row afterwards is module DlqLease.                     *)
(***************************************************************************)
EXTENDS Integers, FiniteSets

CONSTANTS Events,     \* (targetSystem, eventId) pairs: one idempotency key each
          Reads,      \* the events whose operation is a read operation
          Requests,   \* webhook requests in progress
          Consumers,  \* members of the Kafka consumer group
          None,
          Modes,      \* IDMMW_PROCESSING_MODE with KAFKA_ENABLED, see AllModes
          Stores,     \* REDIS_ENABLED: the idempotency stores considered
          MaxFaults   \* bound: failures of the environment in a behaviour

AllModes  == {"sync", "syncKafka", "async", "asyncNoKafka"}
AllStores == {"redis", "pg"}
Workers   == Requests \cup Consumers

ASSUME PipelineAssumption ==
  /\ Reads \subseteq Events
  /\ Modes \subseteq AllModes /\ Stores \subseteq AllStores
  /\ None \notin Events /\ None \notin Workers
  /\ Requests \cap Consumers = {}
  /\ MaxFaults \in Nat

VARIABLES
  mode, store,  \* configuration, fixed at start
  locked,       \* the events whose idempotency key is held (unexpired)
  pc, on,       \* where each request or consumer is, and its event
  idm,          \* IDM's view of an event: "toSend", "waiting", "done"
  asked,        \* the request whose answer IDM waits for
  queue,        \* messages on idm.events.in not yet committed or taken
  applied,      \* history: connector writes that took effect, saturated at 2
  dlq,          \* DLQ rows of the event, saturated at 2
  statusOut,    \* statuses on idm.events.out that name the event
  mishaps,      \* history: the failures that touched the event
  faults        \* failures so far

vars == <<mode, store, locked, pc, on, idm, asked, queue, applied, dlq,
          statusOut, mishaps, faults>>
config == <<mode, store>>
work   == <<applied, dlq>>
ext    == <<idm, asked>>

\* Failures after which an event may be handled twice, or not at all, or stay
\* where it is.
TwiceMishaps == {"ttl", "race", "publish", "outcomeLost", "dlqMetrics",
                 "redelivery", "ackLost"}
LossMishaps  == {"storeError", "lockLost", "crash", "release", "ackedLoss",
                 "duplicateFirst"}
Mishaps      == TwiceMishaps \cup LossMishaps \cup {"dlqWrite", "hang"}

\* Inside ProcessingService.process.
Processing == {"executing", "hung", "dlqAdd", "dlqMetrics"}
\* A request between a successful checkAndLock and its answer.
Inside == Processing \cup {"dispatch", "reading", "publishSuccess",
                           "publishFailedDurable", "publishFailed", "releasing"}
PCs == Inside \cup {"idle", "locking", "upserting", "statusSuccess", "statusFailed"}

TypeOK ==
  /\ mode \in AllModes /\ store \in AllStores
  /\ locked \in SUBSET Events
  /\ pc \in [Workers -> PCs]
  /\ on \in [Workers -> Events \cup {None}]
  /\ \A w \in Workers : pc[w] # "idle" => on[w] \in Events
  /\ idm \in [Events -> {"toSend", "waiting", "done"}]
  /\ asked \in [Events -> Requests \cup {None}]
  /\ queue \in [Events -> Nat]
  /\ applied \in [Events -> 0 .. 2]
  /\ dlq \in [Events -> 0 .. 2]
  /\ statusOut \in [Events -> SUBSET {"success", "failed"}]
  /\ mishaps \in [Events -> SUBSET Mishaps]
  /\ faults \in 0 .. MaxFaults

Init ==
  /\ mode \in Modes /\ store \in Stores
  /\ locked = {}
  /\ pc = [w \in Workers |-> "idle"]
  /\ on = [w \in Workers |-> None]
  /\ idm = [e \in Events |-> "toSend"]
  /\ asked = [e \in Events |-> None]
  /\ queue = [e \in Events |-> 0]
  /\ applied = [e \in Events |-> 0]
  /\ dlq = [e \in Events |-> 0]
  /\ statusOut = [e \in Events |-> {}]
  /\ mishaps = [e \in Events |-> {}]
  /\ faults = 0

-----------------------------------------------------------------------------
Inc(n)       == IF n < 2 THEN n + 1 ELSE 2
Goto(w, l)   == pc' = [pc EXCEPT ![w] = l] /\ UNCHANGED on
Finish(w)    == pc' = [pc EXCEPT ![w] = "idle"] /\ on' = [on EXCEPT ![w] = None]
Fault        == faults < MaxFaults /\ faults' = faults + 1
Mishap(e, m) == mishaps' = [mishaps EXCEPT ![e] = @ \cup {m}]
NoMishap     == UNCHANGED <<mishaps, faults>>

\* The HTTP answer of request r: IDM is done after a success, sends the event
\* again after an error, and does not hear an answer it no longer waits for.
Answer(r, then) ==
  /\ Finish(r)
  /\ IF asked[on[r]] = r
     THEN /\ idm' = [idm EXCEPT ![on[r]] = then]
          /\ asked' = [asked EXCEPT ![on[r]] = None]
     ELSE UNCHANGED ext

-----------------------------------------------------------------------------
(***************************************************************************)
(* IDM and the clock.                                                      *)
(***************************************************************************)
\* POST /webhooks/avanpost: the request reaches checkAndLock.
Receive(r, e) ==
  /\ pc[r] = "idle" /\ idm[e] = "toSend"
  /\ pc' = [pc EXCEPT ![r] = "locking"]
  /\ on' = [on EXCEPT ![r] = e]
  /\ idm' = [idm EXCEPT ![e] = "waiting"]
  /\ asked' = [asked EXCEPT ![e] = r]
  /\ UNCHANGED <<config, locked, queue, work, statusOut>> /\ NoMishap

\* IDM gives up waiting, or sends an answered event once more.
SendAgain(e) ==
  /\ idm[e] # "toSend"
  /\ Fault
  /\ idm' = [idm EXCEPT ![e] = "toSend"]
  /\ asked' = [asked EXCEPT ![e] = None]
  /\ UNCHANGED <<config, locked, pc, on, queue, work, statusOut, mishaps>>

\* The 3600 seconds of the key are over.
KeyExpires(e) ==
  /\ e \in locked
  /\ Fault
  /\ locked' = locked \ {e}
  /\ Mishap(e, "ttl")
  /\ UNCHANGED <<config, pc, on, ext, queue, work, statusOut>>

-----------------------------------------------------------------------------
(***************************************************************************)
(* IdempotencyService.checkAndLock                                         *)
(***************************************************************************)
Locked(r) == Goto(r, IF on[r] \in Reads THEN "reading" ELSE "dispatch")

\* Variant: SET without NX.
LockRedisAlways(r) ==
  /\ pc[r] = "locking" /\ store = "redis"
  /\ locked' = locked \cup {on[r]}
  /\ Locked(r)
  /\ UNCHANGED <<config, ext, queue, work, statusOut>> /\ NoMishap

\* Redis: SET key EX ttl NX, one command.
LockRedis(r) ==
  /\ pc[r] = "locking" /\ store = "redis"
  /\ on[r] \notin locked
  /\ locked' = locked \cup {on[r]}
  /\ Locked(r)
  /\ UNCHANGED <<config, ext, queue, work, statusOut>> /\ NoMishap

\* PostgreSQL: the transaction reads no unexpired row ...
LockPgRead(r) ==
  /\ pc[r] = "locking" /\ store = "pg"
  /\ on[r] \notin locked
  /\ Goto(r, "upserting")
  /\ UNCHANGED <<config, locked, ext, queue, work, statusOut>> /\ NoMishap

\* ... and upserts it.  READ COMMITTED: the upsert also succeeds on a row
\* another transaction has put there since.
LockPgUpsert(r) ==
  /\ pc[r] = "upserting"
  /\ locked' = locked \cup {on[r]}
  /\ IF on[r] \in locked THEN Mishap(on[r], "race") ELSE UNCHANGED mishaps
  /\ Locked(r)
  /\ UNCHANGED <<config, ext, queue, work, statusOut, faults>>

\* The key is held: processed = false, whatever becomes of the first delivery.
Duplicate(r) ==
  /\ pc[r] = "locking"
  /\ on[r] \in locked
  /\ Answer(r, "done")
  /\ UNCHANGED <<config, locked, queue, work, statusOut>> /\ NoMishap

\* The store fails.  Redis: the request fails.  PostgreSQL: setIfNotExists
\* catches the error and returns false, so the event counts as a duplicate;
\* the commit may have taken effect.
StoreError(r) ==
  /\ pc[r] \in {"locking", "upserting"}
  /\ Fault
  /\ \/ store = "redis" /\ Answer(r, "toSend") /\ UNCHANGED <<locked, mishaps>>
     \/ /\ store = "pg" /\ Answer(r, "done") /\ Mishap(on[r], "storeError")
        /\ \/ UNCHANGED locked
           \/ pc[r] = "upserting" /\ locked' = locked \cup {on[r]}
  /\ UNCHANGED <<config, queue, work, statusOut>>

\* Redis has set the key, but the reply is lost: the command fails, or ioredis
\* sends it again on its next connection and finds the key held.
LockReplyLost(r) ==
  /\ pc[r] = "locking" /\ store = "redis"
  /\ on[r] \notin locked
  /\ Fault
  /\ locked' = locked \cup {on[r]}
  /\ Mishap(on[r], "lockLost")
  /\ Answer(r, "toSend") \/ Answer(r, "done")
  /\ UNCHANGED <<config, queue, work, statusOut>>

\* The catch block of processWebhook: the error was not durably accepted.
\* Both stores delete by key, whoever set it.  When IDM has meanwhile been
\* told that its second delivery is a duplicate, it does not send the event
\* again.
Release(r) ==
  /\ pc[r] = "releasing"
  /\ locked' = locked \ {on[r]}
  /\ IF idm[on[r]] = "done" THEN Mishap(on[r], "duplicateFirst") ELSE UNCHANGED mishaps
  /\ Answer(r, "toSend")
  /\ UNCHANGED <<config, queue, work, statusOut, faults>>

\* The delete fails: ignored by the PostgreSQL store, thrown by the Redis one;
\* either way the key stays and the request fails.
ReleaseFails(r) ==
  /\ pc[r] = "releasing"
  /\ Fault
  /\ Mishap(on[r], "release")
  /\ Answer(r, "toSend")
  /\ UNCHANGED <<config, locked, queue, work, statusOut>>

-----------------------------------------------------------------------------
(***************************************************************************)
(* Read events: processWithResult, no retry and no DLQ.                    *)
(***************************************************************************)
ReadOk(r) ==
  /\ pc[r] = "reading"
  /\ Answer(r, "done")
  /\ UNCHANGED <<config, locked, queue, work, statusOut>> /\ NoMishap

ReadFails(r) ==
  /\ pc[r] = "reading"
  /\ Fault
  /\ Goto(r, "releasing")
  /\ UNCHANGED <<config, locked, ext, queue, work, statusOut, mishaps>>

(***************************************************************************)
(* DispatcherService.dispatch, up to ProcessingService.process.            *)
(***************************************************************************)
DispatchSync(r) ==
  /\ pc[r] = "dispatch" /\ mode \in {"sync", "syncKafka"}
  /\ Goto(r, "executing")
  /\ UNCHANGED <<config, locked, ext, queue, work, statusOut>> /\ NoMishap

\* Async: the event goes to idm.events.in and the request succeeds.
DispatchAsync(r) ==
  /\ pc[r] = "dispatch" /\ mode = "async"
  /\ queue' = [queue EXCEPT ![on[r]] = @ + 1]
  /\ Answer(r, "done")
  /\ UNCHANGED <<config, locked, work, statusOut>> /\ NoMishap

\* Async: the broker has the message, but its acknowledgement is lost.  The send
\* throws, or kafkajs sends the message again; its producer is not idempotent.
DispatchAckLost(r) ==
  /\ pc[r] = "dispatch" /\ mode = "async"
  /\ Fault
  /\ Mishap(on[r], "ackLost")
  /\ \/ /\ queue' = [queue EXCEPT ![on[r]] = @ + 1]
        /\ Goto(r, "releasing") /\ UNCHANGED ext
     \/ /\ queue' = [queue EXCEPT ![on[r]] = @ + 2]
        /\ Answer(r, "done")
  /\ UNCHANGED <<config, locked, work, statusOut>>

\* Variant: a failed send is swallowed and the event reported as accepted.
DispatchThrowsSwallowed(r) ==
  /\ pc[r] = "dispatch"
  /\ \/ mode = "async" /\ Fault
     \/ mode = "asyncNoKafka" /\ UNCHANGED faults
  /\ Answer(r, "done")
  /\ UNCHANGED <<config, locked, queue, work, statusOut, mishaps>>

\* Async: the send throws and the broker has nothing, or Kafka is disabled.
DispatchThrows(r) ==
  /\ pc[r] = "dispatch"
  /\ \/ mode = "async" /\ Fault
     \/ mode = "asyncNoKafka" /\ UNCHANGED faults
  /\ Goto(r, "releasing")
  /\ UNCHANGED <<config, locked, ext, queue, work, statusOut, mishaps>>

-----------------------------------------------------------------------------
(***************************************************************************)
(* ProcessingService.process, in a request or in a consumer.               *)
(***************************************************************************)
\* process resolves.
Processed(w) ==
  IF w \in Consumers THEN Goto(w, "statusSuccess") /\ UNCHANGED ext
  ELSE IF mode = "syncKafka" THEN Goto(w, "publishSuccess") /\ UNCHANGED ext
  ELSE Answer(w, "done")

\* Variants: an error that was not durably accepted keeps its key; every
\* error releases it.
ThrewKeepsKey(w, durable) ==
  IF w \in Consumers THEN Goto(w, "statusFailed") /\ UNCHANGED ext
  ELSE IF mode = "syncKafka"
       THEN Goto(w, "publishFailedDurable") /\ UNCHANGED ext
  ELSE Answer(w, "toSend")
ThrewReleases(w, durable) ==
  IF w \in Consumers THEN Goto(w, "statusFailed") /\ UNCHANGED ext
  ELSE IF mode = "syncKafka" THEN Goto(w, "publishFailed") /\ UNCHANGED ext
  ELSE Goto(w, "releasing") /\ UNCHANGED ext

\* process throws a ProcessingFailureError.
Threw(w, durable) ==
  IF w \in Consumers THEN Goto(w, "statusFailed") /\ UNCHANGED ext
  ELSE IF mode = "syncKafka"
       THEN Goto(w, IF durable THEN "publishFailedDurable" ELSE "publishFailed")
            /\ UNCHANGED ext
  ELSE IF durable THEN Answer(w, "toSend")
  ELSE Goto(w, "releasing") /\ UNCHANGED ext

ExecuteOk(w) ==
  /\ pc[w] = "executing"
  /\ applied' = [applied EXCEPT ![on[w]] = Inc(@)]
  /\ Processed(w)
  /\ UNCHANGED <<config, locked, queue, dlq, statusOut>> /\ NoMishap

\* Variant: result.success is not looked at.
ExecuteFailUnnoticed(w) ==
  /\ pc[w] = "executing"
  /\ Processed(w)
  /\ UNCHANGED <<config, locked, queue, work, statusOut>> /\ NoMishap

\* The target refuses, or every attempt throws.
ExecuteFail(w) ==
  /\ pc[w] = "executing"
  /\ Goto(w, "dlqAdd")
  /\ UNCHANGED <<config, locked, ext, queue, work, statusOut>> /\ NoMishap

\* One attempt throws although the target has applied the change;
\* executeWithRetry may go on.
ExecuteOutcomeLost(w) ==
  /\ pc[w] = "executing"
  /\ Fault
  /\ applied' = [applied EXCEPT ![on[w]] = Inc(@)]
  /\ Mishap(on[w], "outcomeLost")
  /\ UNCHANGED <<config, locked, pc, on, ext, queue, dlq, statusOut>>

\* The connector's call never settles: there is no timeout around execute.
Hangs(w) ==
  /\ pc[w] \in {"executing", "reading"}
  /\ Fault
  /\ Mishap(on[w], "hang")
  /\ Goto(w, "hung")
  /\ UNCHANGED <<config, locked, ext, queue, work, statusOut>>

\* dlq.add: the row is created, then the gauges are refreshed.
DlqAdd(w) ==
  /\ pc[w] = "dlqAdd"
  /\ dlq' = [dlq EXCEPT ![on[w]] = Inc(@)]
  /\ Goto(w, "dlqMetrics")
  /\ UNCHANGED <<config, locked, ext, queue, applied, statusOut>> /\ NoMishap

DlqMetrics(w) ==
  /\ pc[w] = "dlqMetrics"
  /\ Threw(w, TRUE)
  /\ UNCHANGED <<config, locked, queue, work, statusOut>> /\ NoMishap

\* dlq.add throws before or after its row exists: durableAccepted = false.
\* A consumer swallows the error and commits the message.
DlqAddThrows(w) ==
  /\ pc[w] \in {"dlqAdd", "dlqMetrics"}
  /\ Fault
  /\ Mishap(on[w], IF pc[w] = "dlqMetrics" THEN "dlqMetrics"
                   ELSE IF w \in Consumers THEN "ackedLoss" ELSE "dlqWrite")
  /\ Threw(w, FALSE)
  /\ UNCHANGED <<config, locked, queue, work, statusOut>>

-----------------------------------------------------------------------------
(***************************************************************************)
(* The rest of dispatch with Kafka enabled: the status message.            *)
(***************************************************************************)
PublishSuccess(r) ==
  /\ pc[r] = "publishSuccess"
  /\ statusOut' = [statusOut EXCEPT ![on[r]] = @ \cup {"success"}]
  /\ Answer(r, "done")
  /\ UNCHANGED <<config, locked, queue, work>> /\ NoMishap

\* A send that throws may have reached the broker.
MayPublish(w, s) ==
  statusOut' \in {statusOut, [statusOut EXCEPT ![on[w]] = @ \cup {s}]}

\* The send is inside the try: its failure becomes the event's failure.
PublishSuccessThrows(r) ==
  /\ pc[r] = "publishSuccess"
  /\ Fault
  /\ Mishap(on[r], "publish")
  /\ MayPublish(r, "success")
  /\ Goto(r, "publishFailed")
  /\ UNCHANGED <<config, locked, ext, queue, work>>

PublishFailed(r) ==
  /\ pc[r] \in {"publishFailed", "publishFailedDurable"}
  /\ statusOut' = [statusOut EXCEPT ![on[r]] = @ \cup {"failed"}]
  /\ IF pc[r] = "publishFailedDurable" THEN Answer(r, "toSend")
     ELSE Goto(r, "releasing") /\ UNCHANGED ext
  /\ UNCHANGED <<config, locked, queue, work>> /\ NoMishap

\* The send in the catch block throws: the Kafka error replaces the one that
\* said the event was durably accepted.
PublishFailedThrows(r) ==
  /\ pc[r] \in {"publishFailed", "publishFailedDurable"}
  /\ Fault
  /\ Mishap(on[r], "publish")
  /\ MayPublish(r, "failed")
  /\ Goto(r, "releasing")
  /\ UNCHANGED <<config, locked, ext, queue, work>>

-----------------------------------------------------------------------------
(***************************************************************************)
(* KafkaConsumerService.eachMessage for idm.events.in: no look at the      *)
(* idempotency key.  Statuses: success names the event, failed does not.   *)
(***************************************************************************)
Deliver(c, e) ==
  /\ pc[c] = "idle"
  /\ queue[e] > 0
  /\ queue' = [queue EXCEPT ![e] = @ - 1]
  /\ pc' = [pc EXCEPT ![c] = "executing"]
  /\ on' = [on EXCEPT ![c] = e]
  /\ UNCHANGED <<config, locked, ext, work, statusOut>> /\ NoMishap

StatusSuccess(c) ==
  /\ pc[c] = "statusSuccess"
  /\ statusOut' = [statusOut EXCEPT ![on[c]] = @ \cup {"success"}]
  /\ Finish(c)
  /\ UNCHANGED <<config, locked, ext, queue, work>> /\ NoMishap

StatusSuccessThrows(c) ==
  /\ pc[c] = "statusSuccess"
  /\ Fault
  /\ MayPublish(c, "success")
  /\ Goto(c, "statusFailed")
  /\ UNCHANGED <<config, locked, ext, queue, work, mishaps>>

StatusFailed(c) ==
  /\ pc[c] = "statusFailed"
  /\ Finish(c)
  /\ UNCHANGED <<config, locked, ext, queue, work, statusOut>> /\ NoMishap

-----------------------------------------------------------------------------
\* A process dies.  A request's key stays locked and IDM sees a broken
\* connection; a consumer's message, not yet committed, comes back.
Crash(w) ==
  /\ pc[w] # "idle"
  /\ Fault
  /\ Finish(w)
  /\ IF w \in Consumers
     THEN /\ queue' = [queue EXCEPT ![on[w]] = @ + 1]
          /\ Mishap(on[w], "redelivery")
          /\ UNCHANGED ext
     ELSE /\ IF pc[w] \in Inside THEN Mishap(on[w], "crash") ELSE UNCHANGED mishaps
          /\ IF asked[on[w]] = w
             THEN /\ idm' = [idm EXCEPT ![on[w]] = "toSend"]
                  /\ asked' = [asked EXCEPT ![on[w]] = None]
             ELSE UNCHANGED ext
          /\ UNCHANGED queue
  /\ UNCHANGED <<config, locked, work, statusOut>>

\* The consumer group moves a slow consumer's partition: the message is
\* delivered again while the first callback still runs.
Rebalance(c) ==
  /\ pc[c] # "idle"
  /\ Fault
  /\ queue' = [queue EXCEPT ![on[c]] = @ + 1]
  /\ Mishap(on[c], "redelivery")
  /\ UNCHANGED <<config, locked, pc, on, ext, work, statusOut>>

RequestStep(r) ==
  \/ LockRedis(r) \/ LockPgRead(r) \/ LockPgUpsert(r) \/ Duplicate(r)
  \/ Release(r) \/ ReadOk(r)
  \/ DispatchSync(r) \/ DispatchAsync(r)
  \/ PublishSuccess(r) \/ PublishFailed(r)

RequestFailure(r) ==
  \/ StoreError(r) \/ LockReplyLost(r) \/ ReleaseFails(r) \/ ReadFails(r)
  \/ DispatchAckLost(r)
  \/ PublishSuccessThrows(r) \/ PublishFailedThrows(r)

ProcessStep(w)    == ExecuteOk(w) \/ ExecuteFail(w) \/ DlqAdd(w) \/ DlqMetrics(w)
ProcessFailure(w) == ExecuteOutcomeLost(w) \/ Hangs(w) \/ DlqAddThrows(w) \/ Crash(w)

ConsumerStep(c) == StatusSuccess(c) \/ StatusFailed(c)

Next ==
  \/ \E r \in Requests, e \in Events : Receive(r, e)
  \/ \E e \in Events : SendAgain(e) \/ KeyExpires(e)
  \/ \E r \in Requests : RequestStep(r) \/ DispatchThrows(r) \/ RequestFailure(r)
  \/ \E w \in Workers : ProcessStep(w) \/ ProcessFailure(w)
  \/ \E c \in Consumers, e \in Events : Deliver(c, e)
  \/ \E c \in Consumers : ConsumerStep(c) \/ StatusSuccessThrows(c) \/ Rebalance(c)

Spec == Init /\ [][Next]_vars

\* Handlers run on, the broker delivers, IDM sends what it must.  A connector's
\* call settles unless it Hangs; the clients of Redis, Kafka and PostgreSQL give
\* up on a connection that answers no more.
Fairness ==
  /\ \A r \in Requests : WF_vars(RequestStep(r) \/ DispatchThrows(r))
  /\ \A w \in Workers : WF_vars(ProcessStep(w))
  /\ \A c \in Consumers : WF_vars(ConsumerStep(c))
  /\ \A e \in Events : WF_vars(\E c \in Consumers : Deliver(c, e))
  /\ \A e \in Events : WF_vars(\E r \in Requests : Receive(r, e))

FairSpec == Spec /\ Fairness

-----------------------------------------------------------------------------
(***************************************************************************)
(* Properties.                                                             *)
(***************************************************************************)
Handling(e) == {w \in Workers : on[w] = e /\ pc[w] \notin {"idle"}}

\* At most one delivery of an event is past checkAndLock, unless its key
\* expired or two PostgreSQL lock transactions overlapped.
OneInside ==
  \A e \in Events : mishaps[e] \cap {"ttl", "race"} = {} =>
    \A r, s \in Requests :
      on[r] = e /\ on[s] = e /\ pc[r] \in Inside /\ pc[s] \in Inside => r = s

\* Every event is applied or dead-lettered at most once in all, however often
\* IDM repeats it, unless one of the named failures hit it: webhook
\* deduplication, release, DLQ hand-over and acknowledgement together.
HandledOnceUnlessMishap ==
  \A e \in Events : applied[e] + dlq[e] > 1 => mishaps[e] \cap TwiceMishaps # {}

\* An event IDM believes delivered (answered processed or duplicate) is still
\* being handled, applied, or in the DLQ, unless one of the named failures hit
\* it: no interleaving of a duplicate with a failing first delivery drops it.
NothingLostUnlessMishap ==
  \A e \in Events \ Reads :
    idm[e] = "done" => \/ applied[e] + dlq[e] > 0
                       \/ Handling(e) # {} \/ queue[e] > 0
                       \/ mishaps[e] \cap LossMishaps # {}

\* A published success names an applied event; a published failure of an
\* event no failure hit names one that waits in the DLQ.
StatusIsTruthful ==
  \A e \in Events :
    /\ "success" \in statusOut[e] => applied[e] > 0
    /\ "failed" \in statusOut[e] /\ mishaps[e] = {} => dlq[e] > 0

\* An event IDM sends is in the end applied or in the DLQ, in the sync and
\* async modes, unless one of the loss failures hit it or a connector's call
\* never settles: its own, or that of another event, behind which the consumer's
\* partition waits.
EventuallyAccounted ==
  \A e \in Events \ Reads :
    idm[e] = "waiting" ~> \/ applied[e] + dlq[e] > 0
                          \/ mishaps[e] \cap LossMishaps # {}
                          \/ \E f \in Events : "hang" \in mishaps[f]
                          \/ mode = "asyncNoKafka"

-----------------------------------------------------------------------------
(***************************************************************************)
(* The strengthening that makes the four safety properties inductive, per  *)
(* event.                                                                  *)
(***************************************************************************)
IsInside(r, e)   == on[r] = e /\ pc[r] \in Inside
IsConsuming(c, e) == on[c] = e /\ pc[c] \in Processing

\* One delivery holds the key.
KeyExcludes(e) ==
  mishaps[e] \cap {"ttl", "race"} = {} =>
    \A r \in Requests : IsInside(r, e) =>
      e \in locked /\ \A s \in Requests : IsInside(s, e) => s = r

\* The event's single token: with a request inside, on the topic, or with a
\* consumer; spent when the event is applied or dead-lettered.
OneToken(e) ==
  mishaps[e] \cap TwiceMishaps = {} =>
    /\ applied[e] + dlq[e] <= 1
    /\ applied[e] + dlq[e] = 1 => e \in locked
    /\ queue[e] <= 1
    /\ queue[e] = 1 => /\ e \in locked /\ applied[e] + dlq[e] = 0
                       /\ \A c \in Consumers : ~IsConsuming(c, e)
    /\ \A c \in Consumers : IsConsuming(c, e) =>
         /\ e \in locked
         /\ \A d \in Consumers : IsConsuming(d, e) => d = c
         /\ pc[c] # "dlqMetrics" => applied[e] + dlq[e] = 0
    /\ \A r \in Requests : IsInside(r, e) =>
         /\ queue[e] = 0
         /\ \A c \in Consumers : ~IsConsuming(c, e)
         /\ pc[r] \in {"dispatch", "executing", "dlqAdd", "reading", "publishFailed", "releasing"}
              => applied[e] + dlq[e] = 0

\* Past the connector call or the DLQ write, the pc tells what happened.
PcTells(e) ==
  \A w \in Workers : on[w] = e =>
    /\ w \in Consumers => pc[w] \in Processing \cup {"idle", "statusSuccess", "statusFailed"}
    /\ w \in Requests  => pc[w] \notin {"statusSuccess", "statusFailed"}
    /\ pc[w] = "reading" => e \in Reads
    /\ pc[w] \in {"publishSuccess", "statusSuccess"} => applied[e] > 0
    /\ pc[w] \in {"dlqMetrics", "publishFailedDurable"} => dlq[e] > 0
    /\ pc[w] = "publishFailed" => mishaps[e] # {}
    /\ pc[w] = "statusFailed" =>
         applied[e] + dlq[e] > 0 \/ "ackedLoss" \in mishaps[e]

\* A held key, and an answer that satisfied IDM, stand for the event.
InHand(e) == \/ applied[e] + dlq[e] > 0
             \/ queue[e] > 0
             \/ \E r \in Requests : IsInside(r, e)
             \/ \E c \in Consumers : IsConsuming(c, e)
Accounted(e) ==
  e \notin Reads /\ mishaps[e] \cap LossMishaps = {} =>
    (e \in locked \/ idm[e] = "done" => InHand(e))

StatusTells(e) ==
  /\ "success" \in statusOut[e] => applied[e] > 0
  /\ "failed" \in statusOut[e] /\ mishaps[e] = {} => dlq[e] > 0

IInv ==
  /\ TypeOK
  /\ \A e \in Events : /\ KeyExcludes(e) /\ OneToken(e) /\ PcTells(e)
                       /\ Accounted(e) /\ StatusTells(e)

-----------------------------------------------------------------------------
\* The doc comment of WebhookService: of two deliveries of an event the second
\* is answered processed = false and never dispatched. Here: once the first has
\* been applied.
AppliedNeverDispatchedAgain ==
  [][\A r \in Requests :
       pc[r] = "dispatch" /\ pc'[r] = "executing" => applied[on[r]] = 0]_vars
=============================================================================
