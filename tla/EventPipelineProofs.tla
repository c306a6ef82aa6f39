------------------------- MODULE EventPipelineProofs -------------------------
(***************************************************************************)
(* Proofs about EventPipeline, for any sets of events, requests and        *)
(* consumers, in every processing mode and with either store.              *)
(***************************************************************************)
EXTENDS EventPipeline, TLAPS

\* Every action keeps every variable in its type.
LEMMA TypeStep == TypeOK /\ [Next]_vars => TypeOK'
<1> SUFFICES ASSUME TypeOK, [Next]_vars PROVE TypeOK'
  OBVIOUS
<1> USE PipelineAssumption DEF TypeOK, config, work, ext
<1>p. PCs = {"executing", "hung", "dlqAdd", "dlqMetrics", "dispatch", "reading", "publishSuccess",
             "publishFailedDurable", "publishFailed", "releasing", "idle", "locking",
             "upserting", "statusSuccess", "statusFailed"}
  BY DEF PCs, Inside, Processing
<1>m. Mishaps = {"ttl", "race", "publish", "outcomeLost", "dlqMetrics", "redelivery",
                 "ackLost", "storeError", "lockLost", "crash", "release", "ackedLoss",
                 "duplicateFirst", "dlqWrite", "hang"}
  BY DEF Mishaps, TwiceMishaps, LossMishaps
<1> USE <1>p, <1>m DEF Fault, Mishap, NoMishap
<1>1. CASE UNCHANGED vars
  BY <1>1 DEF vars
<1>2. ASSUME NEW r \in Requests, NEW e \in Events, Receive(r, e) PROVE TypeOK'
  BY <1>2 DEF Receive, Workers
<1>3. ASSUME NEW e \in Events, SendAgain(e) \/ KeyExpires(e) PROVE TypeOK'
  BY <1>3 DEF SendAgain, KeyExpires
<1>4. ASSUME NEW r \in Requests, RequestStep(r) PROVE TypeOK'
  <2>w. r \in Workers
    BY DEF Workers
  <2>1. CASE LockRedis(r) \/ LockPgRead(r) \/ LockPgUpsert(r)
    BY <2>w, <2>1 DEF LockRedis, LockPgRead, LockPgUpsert, Locked, Goto
  <2>2. CASE Duplicate(r)
    BY <2>2, <2>w DEF Answer, Finish, Duplicate
  <2>3. CASE Release(r)
    BY <2>3, <2>w DEF Answer, Finish, Release
  <2>4. CASE ReadOk(r)
    BY <2>4, <2>w DEF Answer, Finish, ReadOk
  <2>5. CASE DispatchSync(r)
    BY <2>5, <2>w DEF DispatchSync, Goto
  <2>6. CASE DispatchAsync(r)
    BY <2>6, <2>w DEF Answer, Finish, DispatchAsync
  <2>7. CASE PublishSuccess(r)
    BY <2>7, <2>w DEF Answer, Finish, PublishSuccess
  <2>8. CASE PublishFailed(r)
    BY <2>8, <2>w DEF Answer, Finish, PublishFailed, Goto
  <2> QED BY <1>4, <2>1, <2>2, <2>3, <2>4, <2>5, <2>6, <2>7, <2>8 DEF RequestStep
<1>5. ASSUME NEW r \in Requests, DispatchThrows(r) PROVE TypeOK'
  BY <1>5 DEF DispatchThrows, Goto, Workers
<1>6. ASSUME NEW r \in Requests, RequestFailure(r) PROVE TypeOK'
  <2>w. r \in Workers
    BY DEF Workers
  <2>1. CASE StoreError(r)
    BY <2>1, <2>w DEF Answer, Finish, StoreError
  <2>4. CASE LockReplyLost(r)
    BY <2>4, <2>w DEF Answer, Finish, LockReplyLost
  <2>5. CASE DispatchAckLost(r)
    BY <2>5, <2>w DEF Answer, Finish, DispatchAckLost, Goto
  <2>2. CASE ReleaseFails(r)
    BY <2>2, <2>w DEF Answer, Finish, ReleaseFails
  <2>3. CASE ReadFails(r) \/ PublishSuccessThrows(r) \/ PublishFailedThrows(r)
    BY <2>3, <2>w DEF ReadFails, PublishSuccessThrows, PublishFailedThrows, MayPublish, Goto
  <2> QED BY <1>6, <2>1, <2>2, <2>3, <2>4, <2>5 DEF RequestFailure
<1>7. ASSUME NEW w \in Workers, ProcessStep(w) PROVE TypeOK'
  <2>r. w \in Consumers \/ w \in Requests
    BY DEF Workers
  <2>1. CASE ExecuteOk(w)
    BY <2>1, <2>r DEF Answer, Finish, ExecuteOk, Processed, Goto, Inc
  <2>2. CASE ExecuteFail(w)
    BY <2>2 DEF ExecuteFail, Goto
  <2>3. CASE DlqAdd(w)
    BY <2>3 DEF DlqAdd, Goto, Inc
  <2>4. CASE DlqMetrics(w)
    BY <2>4, <2>r DEF Answer, Finish, DlqMetrics, Threw, Goto
  <2> QED BY <1>7, <2>1, <2>2, <2>3, <2>4 DEF ProcessStep
<1>8. ASSUME NEW w \in Workers, ProcessFailure(w) PROVE TypeOK'
  <2>r. w \in Consumers \/ w \in Requests
    BY DEF Workers
  <2>1. CASE ExecuteOutcomeLost(w) \/ Hangs(w)
    BY <2>1 DEF ExecuteOutcomeLost, Hangs, Goto, Inc
  <2>2. CASE DlqAddThrows(w)
    BY <2>2, <2>r DEF DlqAddThrows, Threw, Goto
  <2>3. CASE Crash(w)
    BY <2>3, <2>r DEF Crash, Finish
  <2> QED BY <1>8, <2>1, <2>2, <2>3 DEF ProcessFailure
<1>9. ASSUME NEW c \in Consumers, NEW e \in Events, Deliver(c, e) PROVE TypeOK'
  BY <1>9 DEF Deliver, Workers
<1>10. ASSUME NEW c \in Consumers, ConsumerStep(c) \/ StatusSuccessThrows(c) \/ Rebalance(c)
       PROVE  TypeOK'
  <2>w. c \in Workers
    BY DEF Workers
  <2>1. CASE StatusSuccess(c) \/ StatusFailed(c)
    BY <2>1, <2>w DEF StatusSuccess, StatusFailed, Finish
  <2>2. CASE StatusSuccessThrows(c) \/ Rebalance(c)
    BY <2>2, <2>w DEF StatusSuccessThrows, Rebalance, MayPublish, Goto
  <2> QED BY <1>10, <2>1, <2>2 DEF ConsumerStep
<1> QED BY <1>1, <1>2, <1>3, <1>4, <1>5, <1>6, <1>7, <1>8, <1>9, <1>10 DEF Next

\* The keys, requests, consumers, topic and histories of EventPipeline keep
\* their types.
THEOREM TypeCorrect == Spec => []TypeOK
<1>1. Init => TypeOK
  BY PipelineAssumption DEF Init, TypeOK, PCs
<1> QED BY <1>1, TypeStep, PTL DEF Spec

Parts(e) == KeyExcludes(e) /\ OneToken(e) /\ PcTells(e) /\ Accounted(e) /\ StatusTells(e)

\* A step that leaves what is known of event e alone keeps its parts.
LEMMA UntouchedEvent ==
  ASSUME TypeOK, NEW e \in Events, Parts(e),
         e \in locked' <=> e \in locked,
         applied'[e] = applied[e], dlq'[e] = dlq[e], queue'[e] = queue[e],
         mishaps'[e] = mishaps[e], statusOut'[e] = statusOut[e], idm'[e] = idm[e],
         \A w \in Workers : on'[w] = e <=> on[w] = e,
         \A w \in Workers : on[w] = e => pc'[w] = pc[w]
  PROVE  Parts(e)'
<1> USE DEF Parts, IsInside, IsConsuming, Workers
<1>1. KeyExcludes(e)'
  BY DEF KeyExcludes
<1>2. OneToken(e)'
  BY DEF OneToken
<1>3. PcTells(e)'
  BY DEF PcTells
<1>4. Accounted(e)'
  BY DEF Accounted, InHand
<1>5. StatusTells(e)'
  BY DEF StatusTells
<1> QED BY <1>1, <1>2, <1>3, <1>4, <1>5

\* A request or a consumer disturbs only the event it works on.
LEMMA OtherEvent ==
  ASSUME TypeOK, NEW e \in Events, Parts(e), NEW w \in Workers, on[w] # e,
         \/ w \in Requests /\ (RequestStep(w) \/ DispatchThrows(w) \/ RequestFailure(w))
         \/ ProcessStep(w) \/ ProcessFailure(w)
         \/ w \in Consumers /\ (ConsumerStep(w) \/ StatusSuccessThrows(w) \/ Rebalance(w))
  PROVE  Parts(e)'
<1> DEFINE Same == /\ e \in locked' <=> e \in locked
                   /\ applied'[e] = applied[e] /\ dlq'[e] = dlq[e] /\ queue'[e] = queue[e]
                   /\ mishaps'[e] = mishaps[e] /\ statusOut'[e] = statusOut[e]
                   /\ idm'[e] = idm[e]
                   /\ \A v \in Workers : on'[v] = e <=> on[v] = e
                   /\ \A v \in Workers : on[v] = e => pc'[v] = pc[v]
<1> USE PipelineAssumption
    DEF TypeOK, config, work, ext, Goto, Finish, Mishap, NoMishap, Answer, MayPublish
<1>0. on[w] \in Events \/ pc[w] = "idle"
  OBVIOUS
<1>1. CASE LockRedis(w) \/ LockPgRead(w) \/ LockPgUpsert(w) \/ Duplicate(w) \/ StoreError(w)
         \/ LockReplyLost(w)
  <2>1. Same
    BY <1>0, <1>1 DEF LockRedis, LockPgRead, LockPgUpsert, Duplicate, StoreError, LockReplyLost, Locked
  <2> QED BY <2>1, UntouchedEvent
<1>2. CASE Release(w) \/ ReleaseFails(w) \/ ReadOk(w) \/ ReadFails(w)
  <2>1. Same
    BY <1>0, <1>2 DEF Release, ReleaseFails, ReadOk, ReadFails
  <2> QED BY <2>1, UntouchedEvent
<1>3. CASE DispatchSync(w) \/ DispatchAsync(w) \/ DispatchThrows(w) \/ DispatchAckLost(w)
  <2>1. Same
    BY <1>0, <1>3 DEF DispatchSync, DispatchAsync, DispatchThrows, DispatchAckLost
  <2> QED BY <2>1, UntouchedEvent
<1>4. CASE ExecuteOk(w) \/ ExecuteFail(w) \/ ExecuteOutcomeLost(w) \/ Hangs(w)
  <2>1. Same
    BY <1>0, <1>4 DEF ExecuteOk, ExecuteFail, ExecuteOutcomeLost, Hangs, Processed
  <2> QED BY <2>1, UntouchedEvent
<1>5. CASE DlqAdd(w) \/ DlqMetrics(w) \/ DlqAddThrows(w)
  <2>1. Same
    BY <1>0, <1>5 DEF DlqAdd, DlqMetrics, DlqAddThrows, Threw
  <2> QED BY <2>1, UntouchedEvent
<1>6. CASE PublishSuccess(w) \/ PublishSuccessThrows(w) \/ PublishFailed(w) \/ PublishFailedThrows(w)
  <2>1. Same
    BY <1>0, <1>6 DEF PublishSuccess, PublishSuccessThrows, PublishFailed, PublishFailedThrows
  <2> QED BY <2>1, UntouchedEvent
<1>7. CASE StatusSuccess(w) \/ StatusFailed(w) \/ StatusSuccessThrows(w) \/ Rebalance(w) \/ Crash(w)
  <2>1. Same
    BY <1>0, <1>7, SMTT(30) DEF StatusSuccess, StatusFailed, StatusSuccessThrows, Rebalance, Crash
  <2> QED BY <2>1, UntouchedEvent
<1> QED BY <1>1, <1>2, <1>3, <1>4, <1>5, <1>6, <1>7
   DEF RequestStep, RequestFailure, ProcessStep, ProcessFailure, ConsumerStep

\* A step of a request or a consumer keeps the parts of the event it works on.
LEMMA OwnEvent ==
  ASSUME TypeOK, TypeOK', NEW e \in Events, Parts(e), NEW w \in Workers, on[w] = e,
         \/ w \in Requests /\ (RequestStep(w) \/ DispatchThrows(w) \/ RequestFailure(w))
         \/ ProcessStep(w) \/ ProcessFailure(w)
         \/ w \in Consumers /\ (ConsumerStep(w) \/ StatusSuccessThrows(w) \/ Rebalance(w))
  PROVE  Parts(e)'
<1>a. StoreError(w) /\ store = "pg" => "storeError" \in mishaps'[e]
  BY DEF TypeOK, StoreError, Mishap
<1>b. Release(w) => /\ idm[e] = "done" => "duplicateFirst" \in mishaps'[e]
                    /\ e \notin locked'
                    /\ idm'[e] = "done" => idm[e] = "done"
  BY DEF TypeOK, Release, Mishap, Answer, ext
<1>c. ReleaseFails(w) => "release" \in mishaps'[e]
  BY DEF TypeOK, ReleaseFails, Mishap
<1> USE PipelineAssumption
    DEF TypeOK, config, work, ext, Goto, Finish, Mishap, NoMishap, Answer, Workers,
        Parts, KeyExcludes, OneToken, PcTells, Accounted, StatusTells, InHand,
        IsInside, IsConsuming, Inside, Processing, TwiceMishaps, LossMishaps, MayPublish
<1>1. CASE LockRedis(w) /\ w \in Requests
  <2> USE <1>1 DEF LockRedis, Locked
  <2>0. mishaps[e] \subseteq mishaps'[e]
    OBVIOUS
  <2>1. KeyExcludes(e)'
    BY <2>0
  <2>2. OneToken(e)'
    BY <2>0
  <2>3. PcTells(e)'
    BY <2>0
  <2>4. Accounted(e)'
    BY <2>0
  <2>5. StatusTells(e)'
    BY <2>0
  <2> HIDE <1>1 DEF LockRedis, Locked
  <2> QED BY <2>1, <2>2, <2>3, <2>4, <2>5
<1>2. CASE LockPgRead(w) /\ w \in Requests
  <2> USE <1>2 DEF LockPgRead
  <2>0. mishaps[e] \subseteq mishaps'[e]
    OBVIOUS
  <2>1. KeyExcludes(e)'
    BY <2>0
  <2>2. OneToken(e)'
    BY <2>0
  <2>3. PcTells(e)'
    BY <2>0
  <2>4. Accounted(e)'
    BY <2>0
  <2>5. StatusTells(e)'
    BY <2>0
  <2> HIDE <1>2 DEF LockPgRead
  <2> QED BY <2>1, <2>2, <2>3, <2>4, <2>5
<1>3. CASE LockPgUpsert(w) /\ w \in Requests
  <2> USE <1>3 DEF LockPgUpsert, Locked
  <2>0. /\ mishaps[e] \subseteq mishaps'[e] /\ e \in locked'
        /\ e \in locked => "race" \in mishaps'[e]
    OBVIOUS
  <2>1. KeyExcludes(e)'
    BY <2>0
  <2>2. OneToken(e)'
    <3>1. CASE e \in locked
      BY <2>0, <3>1
    <3>2. CASE e \notin locked
      BY <2>0, <3>2
    <3> QED BY <3>1, <3>2
  <2>3. PcTells(e)'
    BY <2>0
  <2>4. Accounted(e)'
    BY <2>0
  <2>5. StatusTells(e)'
    BY <2>0
  <2> HIDE <1>3 DEF LockPgUpsert, Locked
  <2> QED BY <2>1, <2>2, <2>3, <2>4, <2>5
<1>4. CASE Duplicate(w) /\ w \in Requests
  <2> USE <1>4 DEF Duplicate
  <2>0. mishaps[e] \subseteq mishaps'[e]
    OBVIOUS
  <2>1. KeyExcludes(e)'
    BY <2>0
  <2>2. OneToken(e)'
    BY <2>0
  <2>3. PcTells(e)'
    BY <2>0
  <2>4. Accounted(e)'
    BY <2>0
  <2>5. StatusTells(e)'
    BY <2>0
  <2> HIDE <1>4 DEF Duplicate
  <2> QED BY <2>1, <2>2, <2>3, <2>4, <2>5
<1>5. CASE StoreError(w) /\ w \in Requests
  <2> USE <1>5 DEF StoreError
  <2>0. mishaps[e] \subseteq mishaps'[e]
    OBVIOUS
  <2>1. KeyExcludes(e)'
    BY <2>0
  <2>2. OneToken(e)'
    BY <2>0
  <2>3. PcTells(e)'
    BY <2>0
  <2>4. Accounted(e)'
    <3>1. CASE store = "pg"
      <4>1. "storeError" \in mishaps'[e]
        BY <1>a, <3>1
      <4> QED BY <4>1
    <3>2. CASE store # "pg"
      <4>1. idm'[e] = "done" => idm[e] = "done"
        BY <3>2
      <4>2. InHand(e) => InHand(e)'
        BY <3>2
      <4> QED BY <3>2, <4>1, <4>2
    <3> QED BY <3>1, <3>2
  <2>5. StatusTells(e)'
    BY <2>0
  <2> HIDE <1>5 DEF StoreError
  <2> QED BY <2>1, <2>2, <2>3, <2>4, <2>5
<1>6. CASE Release(w) /\ w \in Requests
  <2> USE <1>6 DEF Release
  <2>0. mishaps[e] \subseteq mishaps'[e]
    OBVIOUS
  <2>1. KeyExcludes(e)'
    BY <2>0
  <2>2. OneToken(e)'
    BY <2>0
  <2>3. PcTells(e)'
    BY <2>0
  <2>4. Accounted(e)'
    BY <1>b
  <2>5. StatusTells(e)'
    BY <2>0
  <2> HIDE <1>6 DEF Release
  <2> QED BY <2>1, <2>2, <2>3, <2>4, <2>5
<1>7. CASE ReleaseFails(w) /\ w \in Requests
  <2> USE <1>7 DEF ReleaseFails
  <2>0. mishaps[e] \subseteq mishaps'[e]
    OBVIOUS
  <2>1. KeyExcludes(e)'
    BY <2>0
  <2>2. OneToken(e)'
    BY <2>0
  <2>3. PcTells(e)'
    BY <2>0
  <2>4. Accounted(e)'
    BY <1>c
  <2>5. StatusTells(e)'
    BY <2>0
  <2> HIDE <1>7 DEF ReleaseFails
  <2> QED BY <2>1, <2>2, <2>3, <2>4, <2>5
<1>8. CASE ReadOk(w) /\ w \in Requests
  <2> USE <1>8 DEF ReadOk
  <2>1. KeyExcludes(e)'
    OBVIOUS
  <2>2. OneToken(e)'
    OBVIOUS
  <2>3. PcTells(e)'
    OBVIOUS
  <2>4. Accounted(e)'
    OBVIOUS
  <2>5. StatusTells(e)'
    OBVIOUS
  <2> HIDE <1>8 DEF ReadOk
  <2> QED BY <2>1, <2>2, <2>3, <2>4, <2>5
<1>9. CASE ReadFails(w) /\ w \in Requests
  <2> USE <1>9 DEF ReadFails
  <2>0. mishaps[e] \subseteq mishaps'[e]
    OBVIOUS
  <2>1. KeyExcludes(e)'
    BY <2>0
  <2>2. OneToken(e)'
    BY <2>0
  <2>3. PcTells(e)'
    BY <2>0
  <2>4. Accounted(e)'
    BY <2>0
  <2>5. StatusTells(e)'
    BY <2>0
  <2> HIDE <1>9 DEF ReadFails
  <2> QED BY <2>1, <2>2, <2>3, <2>4, <2>5
<1>10. CASE DispatchSync(w) /\ w \in Requests
  <2> USE <1>10 DEF DispatchSync
  <2>0. mishaps[e] \subseteq mishaps'[e]
    OBVIOUS
  <2>1. KeyExcludes(e)'
    BY <2>0
  <2>2. OneToken(e)'
    BY <2>0
  <2>3. PcTells(e)'
    BY <2>0
  <2>4. Accounted(e)'
    BY <2>0
  <2>5. StatusTells(e)'
    BY <2>0
  <2> HIDE <1>10 DEF DispatchSync
  <2> QED BY <2>1, <2>2, <2>3, <2>4, <2>5
<1>11. CASE DispatchAsync(w) /\ w \in Requests
  <2> USE <1>11 DEF DispatchAsync
  <2>0. mishaps[e] \subseteq mishaps'[e]
    OBVIOUS
  <2>1. KeyExcludes(e)'
    BY <2>0
  <2>2. OneToken(e)'
    BY <2>0
  <2>3. PcTells(e)'
    BY <2>0
  <2>4. Accounted(e)'
    BY <2>0
  <2>5. StatusTells(e)'
    BY <2>0
  <2> HIDE <1>11 DEF DispatchAsync
  <2> QED BY <2>1, <2>2, <2>3, <2>4, <2>5
<1>12. CASE DispatchThrows(w) /\ w \in Requests
  <2> USE <1>12 DEF DispatchThrows
  <2>0. mishaps[e] \subseteq mishaps'[e]
    OBVIOUS
  <2>1. KeyExcludes(e)'
    BY <2>0
  <2>2. OneToken(e)'
    BY <2>0
  <2>3. PcTells(e)'
    BY <2>0
  <2>4. Accounted(e)'
    BY <2>0
  <2>5. StatusTells(e)'
    BY <2>0
  <2> HIDE <1>12 DEF DispatchThrows
  <2> QED BY <2>1, <2>2, <2>3, <2>4, <2>5
<1>13. CASE PublishSuccess(w) /\ w \in Requests
  <2> USE <1>13 DEF PublishSuccess
  <2>0. mishaps[e] \subseteq mishaps'[e]
    OBVIOUS
  <2>1. KeyExcludes(e)'
    BY <2>0
  <2>2. OneToken(e)'
    BY <2>0
  <2>3. PcTells(e)'
    BY <2>0
  <2>4. Accounted(e)'
    BY <2>0
  <2>5. StatusTells(e)'
    BY <2>0
  <2> HIDE <1>13 DEF PublishSuccess
  <2> QED BY <2>1, <2>2, <2>3, <2>4, <2>5
<1>14. CASE PublishSuccessThrows(w) /\ w \in Requests
  <2> USE <1>14 DEF PublishSuccessThrows
  <2>0. mishaps[e] \subseteq mishaps'[e] /\ "publish" \in mishaps'[e]
    OBVIOUS
  <2>1. KeyExcludes(e)'
    BY <2>0
  <2>2. OneToken(e)'
    BY <2>0
  <2>3. PcTells(e)'
    BY <2>0
  <2>4. Accounted(e)'
    BY <2>0
  <2>5. StatusTells(e)'
    BY <2>0
  <2> HIDE <1>14 DEF PublishSuccessThrows
  <2> QED BY <2>1, <2>2, <2>3, <2>4, <2>5
<1>15. CASE PublishFailed(w) /\ w \in Requests
  <2> USE <1>15 DEF PublishFailed
  <2>0. mishaps[e] \subseteq mishaps'[e]
    OBVIOUS
  <2>1. KeyExcludes(e)'
    BY <2>0
  <2>2. OneToken(e)'
    BY <2>0
  <2>3. PcTells(e)'
    BY <2>0
  <2>4. Accounted(e)'
    BY <2>0
  <2>5. StatusTells(e)'
    BY <2>0
  <2> HIDE <1>15 DEF PublishFailed
  <2> QED BY <2>1, <2>2, <2>3, <2>4, <2>5
<1>16. CASE PublishFailedThrows(w) /\ w \in Requests
  <2> USE <1>16 DEF PublishFailedThrows
  <2>0. mishaps[e] \subseteq mishaps'[e] /\ "publish" \in mishaps'[e]
    OBVIOUS
  <2>1. KeyExcludes(e)'
    BY <2>0
  <2>2. OneToken(e)'
    BY <2>0
  <2>3. PcTells(e)'
    BY <2>0
  <2>4. Accounted(e)'
    BY <2>0
  <2>5. StatusTells(e)'
    BY <2>0
  <2> HIDE <1>16 DEF PublishFailedThrows
  <2> QED BY <2>1, <2>2, <2>3, <2>4, <2>5
<1>17. CASE ExecuteOk(w)
  <2> USE <1>17 DEF ExecuteOk, Processed, Inc
  <2>0. mishaps[e] \subseteq mishaps'[e]
    OBVIOUS
  <2>1. KeyExcludes(e)'
    BY <2>0
  <2>2. OneToken(e)'
    BY <2>0
  <2>3. PcTells(e)'
    BY <2>0
  <2>4. Accounted(e)'
    BY <2>0
  <2>5. StatusTells(e)'
    BY <2>0
  <2> HIDE <1>17 DEF ExecuteOk, Processed, Inc
  <2> QED BY <2>1, <2>2, <2>3, <2>4, <2>5
<1>18. CASE ExecuteFail(w)
  <2> USE <1>18 DEF ExecuteFail
  <2>0. mishaps[e] \subseteq mishaps'[e]
    OBVIOUS
  <2>1. KeyExcludes(e)'
    BY <2>0
  <2>2. OneToken(e)'
    BY <2>0
  <2>3. PcTells(e)'
    BY <2>0
  <2>4. Accounted(e)'
    BY <2>0
  <2>5. StatusTells(e)'
    BY <2>0
  <2> HIDE <1>18 DEF ExecuteFail
  <2> QED BY <2>1, <2>2, <2>3, <2>4, <2>5
<1>19. CASE ExecuteOutcomeLost(w)
  <2> USE <1>19 DEF ExecuteOutcomeLost, Inc
  <2>0. mishaps[e] \subseteq mishaps'[e] /\ "outcomeLost" \in mishaps'[e]
    OBVIOUS
  <2>1. KeyExcludes(e)'
    BY <2>0
  <2>2. OneToken(e)'
    BY <2>0
  <2>3. PcTells(e)'
    BY <2>0
  <2>4. Accounted(e)'
    BY <2>0
  <2>5. StatusTells(e)'
    BY <2>0
  <2> HIDE <1>19 DEF ExecuteOutcomeLost, Inc
  <2> QED BY <2>1, <2>2, <2>3, <2>4, <2>5
<1>20. CASE DlqAdd(w)
  <2> USE <1>20 DEF DlqAdd, Inc
  <2>0. mishaps[e] \subseteq mishaps'[e]
    OBVIOUS
  <2>1. KeyExcludes(e)'
    BY <2>0
  <2>2. OneToken(e)'
    BY <2>0
  <2>3. PcTells(e)'
    BY <2>0
  <2>4. Accounted(e)'
    BY <2>0
  <2>5. StatusTells(e)'
    BY <2>0
  <2> HIDE <1>20 DEF DlqAdd, Inc
  <2> QED BY <2>1, <2>2, <2>3, <2>4, <2>5
<1>21. CASE DlqMetrics(w)
  <2> USE <1>21 DEF DlqMetrics, Threw
  <2>0. mishaps[e] \subseteq mishaps'[e]
    OBVIOUS
  <2>1. KeyExcludes(e)'
    BY <2>0
  <2>2. OneToken(e)'
    BY <2>0
  <2>3. PcTells(e)'
    BY <2>0
  <2>4. Accounted(e)'
    BY <2>0
  <2>5. StatusTells(e)'
    BY <2>0
  <2> HIDE <1>21 DEF DlqMetrics, Threw
  <2> QED BY <2>1, <2>2, <2>3, <2>4, <2>5
<1>22. CASE DlqAddThrows(w)
  <2> USE <1>22 DEF DlqAddThrows, Threw
  <2>0. mishaps[e] \subseteq mishaps'[e]
    OBVIOUS
  <2>1. KeyExcludes(e)'
    BY <2>0
  <2>2. OneToken(e)'
    <3>1. CASE pc[w] = "dlqMetrics"
      <4>1. "dlqMetrics" \in mishaps'[e]
        BY <3>1
      <4> QED BY <4>1
    <3>2. CASE pc[w] = "dlqAdd"
      <4>1. CASE w \in Consumers
        BY <2>0, <3>2, <4>1
      <4>2. CASE w \in Requests
        BY <2>0, <3>2, <4>2
      <4> QED BY <4>1, <4>2
    <3> QED BY <3>1, <3>2
  <2>3. PcTells(e)'
    <3>1. mishaps'[e] # {}
      OBVIOUS
    <3>2. CASE w \in Consumers
      <4>1. pc[w] = "dlqAdd" => "ackedLoss" \in mishaps'[e]
        BY <3>2
      <4>2. pc[w] = "dlqMetrics" => dlq[e] > 0
        OBVIOUS
      <4> QED BY <2>0, <3>2, <4>1, <4>2
    <3>3. CASE w \in Requests
      BY <2>0, <3>1, <3>3
    <3> QED BY <3>2, <3>3
  <2>4. Accounted(e)'
    BY <2>0
  <2>5. StatusTells(e)'
    BY <2>0
  <2> HIDE <1>22 DEF DlqAddThrows, Threw
  <2> QED BY <2>1, <2>2, <2>3, <2>4, <2>5
<1>23. CASE Crash(w)
  <2> USE <1>23 DEF Crash
  <2>0. mishaps[e] \subseteq mishaps'[e]
    OBVIOUS
  <2>1. KeyExcludes(e)'
    BY <2>0
  <2>2. OneToken(e)'
    <3>1. CASE w \in Consumers
      <4>1. "redelivery" \in mishaps'[e]
        BY <3>1
      <4> QED BY <4>1
    <3>2. CASE w \in Requests
      <4>1. queue'[e] = queue[e]
        BY <3>2
      <4> QED BY <2>0, <3>2, <4>1
    <3> QED BY <3>1, <3>2
  <2>3. PcTells(e)'
    BY <2>0
  <2>4. Accounted(e)'
    <3>1. CASE w \in Consumers
      <4>1. queue'[e] > 0
        BY <3>1
      <4> QED BY <4>1
    <3>2. CASE w \in Requests
      <4>1. queue'[e] = queue[e] /\ (idm'[e] = "done" => idm[e] = "done")
        BY <3>2
      <4>2. CASE pc[w] \in Inside
        <5>1. "crash" \in mishaps'[e]
          BY <3>2, <4>2
        <5> QED BY <5>1
      <4>3. CASE pc[w] \notin Inside
        <5>1. InHand(e) => InHand(e)'
          BY <3>2, <4>1, <4>3
        <5> QED BY <2>0, <3>2, <4>1, <5>1
      <4> QED BY <4>2, <4>3
    <3> QED BY <3>1, <3>2
  <2>5. StatusTells(e)'
    BY <2>0
  <2> HIDE <1>23 DEF Crash
  <2> QED BY <2>1, <2>2, <2>3, <2>4, <2>5
<1>24. CASE StatusSuccess(w) /\ w \in Consumers
  <2> USE <1>24 DEF StatusSuccess
  <2>0. mishaps[e] \subseteq mishaps'[e]
    OBVIOUS
  <2>1. KeyExcludes(e)'
    BY <2>0
  <2>2. OneToken(e)'
    BY <2>0
  <2>3. PcTells(e)'
    BY <2>0
  <2>4. Accounted(e)'
    BY <2>0
  <2>5. StatusTells(e)'
    BY <2>0
  <2> HIDE <1>24 DEF StatusSuccess
  <2> QED BY <2>1, <2>2, <2>3, <2>4, <2>5
<1>25. CASE StatusFailed(w) /\ w \in Consumers
  <2> USE <1>25 DEF StatusFailed
  <2>0. mishaps[e] \subseteq mishaps'[e]
    OBVIOUS
  <2>1. KeyExcludes(e)'
    BY <2>0
  <2>2. OneToken(e)'
    BY <2>0
  <2>3. PcTells(e)'
    BY <2>0
  <2>4. Accounted(e)'
    BY <2>0
  <2>5. StatusTells(e)'
    BY <2>0
  <2> HIDE <1>25 DEF StatusFailed
  <2> QED BY <2>1, <2>2, <2>3, <2>4, <2>5
<1>26. CASE StatusSuccessThrows(w) /\ w \in Consumers
  <2> USE <1>26 DEF StatusSuccessThrows
  <2>0. mishaps[e] \subseteq mishaps'[e]
    OBVIOUS
  <2>1. KeyExcludes(e)'
    BY <2>0
  <2>2. OneToken(e)'
    BY <2>0
  <2>3. PcTells(e)'
    BY <2>0
  <2>4. Accounted(e)'
    BY <2>0
  <2>5. StatusTells(e)'
    BY <2>0
  <2> HIDE <1>26 DEF StatusSuccessThrows
  <2> QED BY <2>1, <2>2, <2>3, <2>4, <2>5
<1>27. CASE Rebalance(w) /\ w \in Consumers
  <2> USE <1>27 DEF Rebalance
  <2>0. mishaps[e] \subseteq mishaps'[e]
    OBVIOUS
  <2>1. KeyExcludes(e)'
    BY <2>0
  <2>2. OneToken(e)'
    BY <2>0
  <2>3. PcTells(e)'
    BY <2>0
  <2>4. Accounted(e)'
    BY <2>0
  <2>5. StatusTells(e)'
    BY <2>0
  <2> HIDE <1>27 DEF Rebalance
  <2> QED BY <2>1, <2>2, <2>3, <2>4, <2>5
<1>28. CASE LockReplyLost(w) /\ w \in Requests
  <2> USE <1>28 DEF LockReplyLost
  <2>0. mishaps[e] \subseteq mishaps'[e] /\ "lockLost" \in mishaps'[e]
    OBVIOUS
  <2>1. KeyExcludes(e)'
    BY <2>0
  <2>2. OneToken(e)'
    BY <2>0
  <2>3. PcTells(e)'
    BY <2>0
  <2>4. Accounted(e)'
    BY <2>0
  <2>5. StatusTells(e)'
    BY <2>0
  <2> HIDE <1>28 DEF LockReplyLost
  <2> QED BY <2>1, <2>2, <2>3, <2>4, <2>5
<1>29. CASE DispatchAckLost(w) /\ w \in Requests
  <2> USE <1>29 DEF DispatchAckLost
  <2>0. mishaps[e] \subseteq mishaps'[e] /\ "ackLost" \in mishaps'[e]
    OBVIOUS
  <2>1. KeyExcludes(e)'
    BY <2>0
  <2>2. OneToken(e)'
    BY <2>0
  <2>3. PcTells(e)'
    BY <2>0
  <2>4. Accounted(e)'
    BY <2>0
  <2>5. StatusTells(e)'
    BY <2>0
  <2> HIDE <1>29 DEF DispatchAckLost
  <2> QED BY <2>1, <2>2, <2>3, <2>4, <2>5
<1>30. CASE Hangs(w)
  <2> USE <1>30 DEF Hangs
  <2>0. mishaps[e] \subseteq mishaps'[e] /\ "hang" \in mishaps'[e]
    OBVIOUS
  <2>1. KeyExcludes(e)'
    BY <2>0
  <2>2. OneToken(e)'
    BY <2>0
  <2>3. PcTells(e)'
    BY <2>0
  <2>4. Accounted(e)'
    BY <2>0
  <2>5. StatusTells(e)'
    BY <2>0
  <2> HIDE <1>30 DEF Hangs
  <2> QED BY <2>1, <2>2, <2>3, <2>4, <2>5
<1> QED BY <1>1, <1>2, <1>3, <1>4, <1>5, <1>6, <1>7, <1>8, <1>9, <1>10, <1>11, <1>12, <1>13, <1>14,
           <1>15, <1>16, <1>17, <1>18, <1>19, <1>20, <1>21, <1>22, <1>23, <1>24, <1>25, <1>26, <1>27,
           <1>28, <1>29, <1>30
   DEF RequestStep, RequestFailure, ProcessStep, ProcessFailure, ConsumerStep

\* No step breaks a part of the invariant on any event.
LEMMA EventStep == ASSUME IInv, [Next]_vars, NEW e \in Events PROVE Parts(e)'
<1>0. TypeOK /\ TypeOK' /\ Parts(e)
  BY TypeStep DEF IInv, Parts
<1>1. CASE UNCHANGED vars
  BY <1>0, <1>1, UntouchedEvent DEF vars
<1>2. ASSUME NEW w \in Workers,
             \/ w \in Requests /\ (RequestStep(w) \/ DispatchThrows(w) \/ RequestFailure(w))
             \/ ProcessStep(w) \/ ProcessFailure(w)
             \/ w \in Consumers /\ (ConsumerStep(w) \/ StatusSuccessThrows(w) \/ Rebalance(w))
      PROVE  Parts(e)'
  BY <1>0, <1>2, OtherEvent, OwnEvent
<1> USE PipelineAssumption
    DEF TypeOK, config, work, ext, Goto, Finish, Mishap, NoMishap, Workers,
        Parts, KeyExcludes, OneToken, PcTells, Accounted, StatusTells, InHand,
        IsInside, IsConsuming, Inside, Processing, TwiceMishaps, LossMishaps
<1>3. ASSUME NEW r \in Requests, NEW f \in Events, Receive(r, f) PROVE Parts(e)'
  BY <1>0, <1>3 DEF Receive
<1>4. ASSUME NEW f \in Events, SendAgain(f) PROVE Parts(e)'
  BY <1>0, <1>4 DEF SendAgain
<1>5. ASSUME NEW f \in Events, KeyExpires(f) PROVE Parts(e)'
  BY <1>0, <1>5, SMTT(30) DEF KeyExpires
<1>6. ASSUME NEW c \in Consumers, NEW f \in Events, Deliver(c, f) PROVE Parts(e)'
  BY <1>0, <1>6 DEF Deliver
<1> QED BY <1>1, <1>2, <1>3, <1>4, <1>5, <1>6 DEF Next

LEMMA InvariantStep == IInv /\ [Next]_vars => IInv'
<1> SUFFICES ASSUME IInv, [Next]_vars PROVE IInv'
  OBVIOUS
<1>1. TypeOK'
  BY TypeStep DEF IInv
<1>2. ASSUME NEW e \in Events PROVE Parts(e)'
  BY EventStep
<1> QED BY <1>1, <1>2 DEF IInv, Parts

LEMMA InvariantInit == Init => IInv
<1> SUFFICES ASSUME Init PROVE IInv
  OBVIOUS
<1>1. TypeOK
  BY PipelineAssumption DEF Init, TypeOK, PCs
<1>2. ASSUME NEW e \in Events PROVE Parts(e)
  BY PipelineAssumption
     DEF Init, Parts, KeyExcludes, OneToken, PcTells, Accounted, StatusTells,
         InHand, IsInside, IsConsuming, Inside, Processing, Workers
<1> QED BY <1>1, <1>2 DEF IInv, Parts

LEMMA Invariance == Spec => []IInv
BY InvariantInit, InvariantStep, PTL DEF Spec

\* The idempotency key admits one delivery of an event at a time unless it
\* expired or two PostgreSQL lock transactions overlapped.
THEOREM KeyExclusion == Spec => []OneInside
<1>1. IInv => OneInside
  BY DEF IInv, TypeOK, KeyExcludes, IsInside, OneInside
<1> QED BY <1>1, Invariance, PTL

\* An event applied or dead-lettered twice was hit by one of the failures of
\* TwiceMishaps.
THEOREM HandledTwiceNeedsMishap == Spec => []HandledOnceUnlessMishap
<1>1. IInv => HandledOnceUnlessMishap
  BY DEF IInv, TypeOK, OneToken, HandledOnceUnlessMishap
<1> QED BY <1>1, Invariance, PTL

\* An event answered to IDM is not lost unless one of the failures of
\* LossMishaps hit it.
THEOREM LossNeedsMishap == Spec => []NothingLostUnlessMishap
<1>1. IInv => NothingLostUnlessMishap
  <2> SUFFICES ASSUME IInv, NEW e \in Events \ Reads, idm[e] = "done",
                      mishaps[e] \cap LossMishaps = {},
                      ~(applied[e] + dlq[e] > 0), ~(queue[e] > 0)
               PROVE  Handling(e) # {}
    BY DEF NothingLostUnlessMishap
  <2>1. InHand(e)
    BY DEF IInv, Accounted
  <2>2. PICK w \in Workers : on[w] = e /\ pc[w] \in Inside
    BY <2>1 DEF InHand, IsInside, IsConsuming, Inside, Workers
  <2> QED BY <2>2 DEF Handling, Inside, Processing
<1> QED BY <1>1, Invariance, PTL

\* A published success names an applied event, and a published failure of an
\* event that no failure hit one that is in the DLQ.
THEOREM StatusTruth == Spec => []StatusIsTruthful
<1>1. IInv => StatusIsTruthful
  BY DEF IInv, StatusTells, StatusIsTruthful
<1> QED BY <1>1, Invariance, PTL
=============================================================================
