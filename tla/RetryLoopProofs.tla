--------------------------- MODULE RetryLoopProofs ---------------------------
(***************************************************************************)
(* Proofs about RetryLoop, for any stored policies and any jitter.         *)
(***************************************************************************)
EXTENDS RetryLoop, FiniteSetTheorems, TLAPS

\* Whatever is stored, forTarget returns options with positive limits.
LEMMA ForTargetValid == ForTarget \subseteq Options
<1>1. Defaults \in Options
  BY DEF Defaults, Options, Positive
<1>2. ASSUME NEW v, NEW d \in Positive PROVE OrDefault(v, d) \in Positive
  BY DEF OrDefault
<1>3. ASSUME NEW m \in Positive, NEW b \in Positive, NEW c \in Positive, NEW j \in BOOLEAN
      PROVE  [maxRetries |-> m, baseDelayMs |-> b, maxDelayMs |-> c, jitter |-> j] \in Options
  BY ZenonT(30) DEF Options
<1>4. Effective(stored) \in Options
  <2>1. CASE stored = None
    BY <1>1, <2>1 DEF Effective
  <2>2. CASE stored # None
    <3>1. /\ OrDefault(stored.maxRetries, Defaults.maxRetries) \in Positive
          /\ OrDefault(stored.baseDelayMs, Defaults.baseDelayMs) \in Positive
          /\ OrDefault(stored.maxDelayMs, Defaults.maxDelayMs) \in Positive
      BY <1>2 DEF Positive, Defaults
    <3>2. (IF stored.jitter \in BOOLEAN THEN stored.jitter ELSE Defaults.jitter) \in BOOLEAN
      <4>1. Defaults.jitter \in BOOLEAN
        BY <1>1 DEF Options
      <4> HIDE DEF Defaults
      <4> QED BY <4>1, Zenon
    <3>3. Effective(stored) =
            [maxRetries  |-> OrDefault(stored.maxRetries, Defaults.maxRetries),
             baseDelayMs |-> OrDefault(stored.baseDelayMs, Defaults.baseDelayMs),
             maxDelayMs  |-> OrDefault(stored.maxDelayMs, Defaults.maxDelayMs),
             jitter |-> IF stored.jitter \in BOOLEAN THEN stored.jitter ELSE Defaults.jitter]
      BY <2>2, Zenon DEF Effective
    <3> HIDE DEF OrDefault
    <3> QED BY <1>3, <3>1, <3>2, <3>3, ZenonT(30)
  <2> QED BY <2>1, <2>2
<1> QED BY <1>1, <1>4 DEF ForTarget

\* Every step keeps the types and the accounting of calls.
LEMMA InvariantStep == IInv /\ [Next]_vars => IInv'
<1> SUFFICES ASSUME IInv, [Next]_vars PROVE IInv'
  OBVIOUS
<1>o. \A o \in Options : o.maxRetries \in Nat /\ o.maxRetries > 0
  BY DEF Options, Positive
<1> USE RetryAssumption, <1>o DEF IInv, TypeOK, LoopInv, target, history, Fail
<1>1. CASE UNCHANGED vars
  BY <1>1 DEF vars
<1>2. ASSUME NEW raw \in RawPolicies \cup {None, Unreadable}, NEW known \in BOOLEAN,
             Edit(raw, known)
      PROVE  IInv'
  BY <1>2 DEF Edit
<1>3. CASE Lookup
  <2> USE <1>3 DEF Lookup
  <2>1. TypeOK'
    OBVIOUS
  <2>2. LoopInv'
    OBVIOUS
  <2> HIDE <1>3 DEF Lookup
  <2> QED BY <2>1, <2>2
<1>4. CASE ReadPolicy
  <2> USE <1>4 DEF ReadPolicy
  <2>0. opts' \in Options
    BY ForTargetValid
  <2>1. TypeOK'
    BY <2>0
  <2>2. LoopInv'
    BY <2>0
  <2> HIDE <1>4 DEF ReadPolicy
  <2> QED BY <2>1, <2>2
<1>5. CASE PolicyUnreadable
  <2> USE <1>5 DEF PolicyUnreadable
  <2>1. TypeOK'
    OBVIOUS
  <2>2. LoopInv'
    OBVIOUS
  <2> HIDE <1>5 DEF PolicyUnreadable
  <2> QED BY <2>1, <2>2
<1>6. CASE CallOk
  BY <1>6 DEF CallOk
<1>7. CASE CallRefused \/ CallRefusedLate
  BY <1>7 DEF CallRefused, CallRefusedLate
<1>8. ASSUME NEW effect \in {0, 1}, Caught(effect) PROVE IInv'
  BY <1>8 DEF Caught
<1>11. CASE CallHangs
  BY <1>11 DEF CallHangs
<1>9. CASE Wake
  BY <1>9 DEF Wake
<1>10. CASE Record
  BY <1>10, ForTargetValid DEF Record, Options
<1> QED BY <1>1, <1>2, <1>3, <1>4, <1>5, <1>6, <1>7, <1>8, <1>9, <1>10, <1>11
        DEF Next, Step, CallThrows, CallOutcomeLost

LEMMA InvariantInit == Init => IInv
BY RetryAssumption DEF Init, IInv, TypeOK, LoopInv

LEMMA Invariance == Spec => []IInv
BY InvariantInit, InvariantStep, PTL DEF Spec

\* Policy, loop and history of RetryLoop keep their types.
THEOREM TypeCorrect == Spec => []TypeOK
BY Invariance, PTL DEF IInv

\* The connector is called at most maxRetries + 1 times, and exactly so often
\* when the loop gives up on an error, for every stored policy and any edits.
THEOREM CallsBounded == Spec => []CallsMatchPolicy
<1>1. IInv => CallsMatchPolicy
  BY DEF IInv, TypeOK, LoopInv, CallsMatchPolicy, Options, Positive
<1> QED BY <1>1, Invariance, PTL

\* No connector call follows one that answered.
THEOREM NoCallAfterAnswer == Spec => AnswerIsFinal
<1>1. IInv /\ [Next]_vars => [(answer \in {"ok", "refused"}) => calls' = calls]_vars
  BY DEF IInv, TypeOK, LoopInv, Next, Step, Edit, Lookup, ReadPolicy, PolicyUnreadable,
         CallOk, CallRefused, CallRefusedLate, CallThrows, CallOutcomeLost, CallHangs, Caught, Wake, Record,
         target, history, vars
<1> QED BY <1>1, Invariance, PTL DEF Spec, AnswerIsFinal

\* Every behaviour of the loop is one that module Execution allows: each step
\* of the loop is a step of the promise or leaves it alone.
THEOREM RefinesExecution == Spec => Promise!Init /\ [][Promise!Next]_Promise!vars
<1>1. Init => Promise!Init
  BY DEF Init, Promise!Init
<1>2. IInv /\ [Next]_vars => [Promise!Next]_Promise!vars
  <2> SUFFICES ASSUME IInv, [Next]_vars PROVE [Promise!Next]_Promise!vars
    OBVIOUS
  <2> USE DEF IInv, TypeOK, LoopInv, target, history, Fail, Promise!vars, Promise!Next,
              Promise!Lose, Promise!Hang, Promise!Succeed, Promise!Fail, Promise!FailLost
  <2>1. CASE UNCHANGED vars
    BY <2>1 DEF vars
  <2>2. CASE Lookup \/ PolicyUnreadable
    BY <2>2 DEF Lookup, PolicyUnreadable
  <2>3. CASE CallOk
    BY <2>3 DEF CallOk
  <2>4. CASE CallRefused
    BY <2>4 DEF CallRefused
  <2>9. CASE CallRefusedLate
    BY <2>9 DEF CallRefusedLate
  <2>5. CASE CallThrows
    BY <2>5 DEF CallThrows, Caught
  <2>6. CASE CallOutcomeLost
    BY <2>6 DEF CallOutcomeLost, Caught
  <2>10. CASE CallHangs
    BY <2>10 DEF CallHangs
  <2>7. CASE ReadPolicy \/ Wake \/ Record
    BY <2>7 DEF ReadPolicy, Wake, Record
  <2>8. ASSUME NEW raw \in RawPolicies \cup {None, Unreadable}, NEW known \in BOOLEAN,
               Edit(raw, known)
        PROVE  [Promise!Next]_Promise!vars
    BY <2>8 DEF Edit
  <2> QED BY <2>1, <2>2, <2>3, <2>4, <2>5, <2>6, <2>7, <2>8, <2>9, <2>10 DEF Next, Step
<1> QED BY <1>1, <1>2, Invariance, PTL DEF Spec

-----------------------------------------------------------------------------
(***************************************************************************)
(* The length of the waits                                                 *)
(***************************************************************************)
\* 2 ^ k counts the subsets of a set of k elements, so it is no less than 1.
LEMMA PowerOfTwo ==
  ASSUME NEW k \in Nat
  PROVE  2 ^ k \in Positive
<1>1. IsFiniteSet(1 .. k) /\ Cardinality(1 .. k) = k
  BY FS_Interval
<1>2. IsFiniteSet(SUBSET (1 .. k)) /\ Cardinality(SUBSET (1 .. k)) = 2 ^ k
  BY <1>1, FS_SUBSET
<1>3. 2 ^ k \in Nat
  BY <1>2, FS_CardinalityType
<1>4. SUBSET (1 .. k) # {}
  OBVIOUS
<1>5. 2 ^ k # 0
  BY <1>2, <1>4, FS_EmptySet
<1> QED BY <1>3, <1>5 DEF Positive

\* Rounded down, the share (n + r) / 2n of c with r < n is c at the most, and half of it
\* at the least.
LEMMA Share ==
  ASSUME NEW c \in Nat, NEW n \in Positive, NEW r \in 0 .. n - 1
  PROVE  /\ (c * (n + r)) \div (2 * n) \in Nat
         /\ (c * (n + r)) \div (2 * n) <= c
         /\ 2 * ((c * (n + r)) \div (2 * n)) + 1 >= c
<1> DEFINE p == c * (n + r)
           m == 2 * n
           d == p \div m
<1>1. /\ p \in Nat /\ m \in Nat /\ m > 0
  BY DEF Positive
<1>2. /\ d \in Int /\ m * d <= p /\ p < m * d + m
  <2> HIDE DEF p, m
  <2> QED BY <1>1
<1>3. c * n <= p /\ p <= c * m
  <2>1. p = c * n + c * r /\ c * m = c * n + c * n
    BY DEF Positive
  <2>2. c * r >= 0 /\ c * r <= c * n
    BY DEF Positive
  <2> QED BY <2>1, <2>2 DEF Positive
<1> HIDE DEF p, d
<1>4. d >= 0
  <2> SUFFICES ASSUME d <= -1 PROVE FALSE
    BY <1>2
  <2>1. m * d <= m * (-1)
    BY <1>1, <1>2
  <2> QED BY <1>1, <1>2, <2>1
<1>5. d <= c
  <2> SUFFICES ASSUME d >= c + 1 PROVE FALSE
    BY <1>2
  <2>1. m * d >= m * (c + 1)
    BY <1>1, <1>2
  <2>2. m * (c + 1) = c * m + m
    BY <1>1
  <2> QED BY <1>1, <1>2, <1>3, <2>1, <2>2
<1>6. 2 * d + 1 >= c
  <2> SUFFICES ASSUME 2 * d + 2 <= c PROVE FALSE
    BY <1>2
  <2>1. n * (2 * d + 2) <= n * c
    BY <1>2 DEF Positive
  <2>2. n * (2 * d + 2) = m * d + m
    BY <1>2 DEF Positive
  <2> QED BY <1>1, <1>2, <1>3, <2>1, <2>2 DEF Positive
<1> QED BY <1>2, <1>4, <1>5, <1>6 DEF p, d

LEMMA DelaysFit ==
  ASSUME NEW o \in Options, NEW k \in Nat, NEW d \in Delays(o, k)
  PROVE  /\ d \in Nat /\ d <= o.maxDelayMs /\ d <= o.baseDelayMs * 2 ^ k
         /\ 2 * d + 1 >= o.maxDelayMs \/ 2 * d + 1 >= o.baseDelayMs * 2 ^ k
<1> DEFINE c == Capped(o, k)
           w == o.baseDelayMs * 2 ^ k
<1>1. w \in Positive /\ o.maxDelayMs \in Positive
  <2>1. ASSUME NEW x \in Positive, NEW y \in Positive PROVE x * y \in Positive
    BY DEF Positive
  <2>2. o.baseDelayMs \in Positive /\ o.maxDelayMs \in Positive
    BY DEF Options
  <2> QED BY <2>1, <2>2, PowerOfTwo
<1> HIDE DEF w
<1>2. /\ c \in Nat /\ c <= o.maxDelayMs /\ c <= w /\ (c = o.maxDelayMs \/ c = w)
  BY <1>1 DEF Capped, Least, Positive, w
<1>3. CASE o.jitter
  <2>1. PICK r \in 0 .. JitterSteps - 1 : d = (c * (JitterSteps + r)) \div (2 * JitterSteps)
    BY <1>3 DEF Delays
  <2> HIDE DEF c
  <2>2. d \in Nat /\ d <= c /\ 2 * d + 1 >= c
    BY <1>2, <2>1, Share, RetryAssumption
  <2> QED BY <1>1, <1>2, <2>2 DEF Positive, w
<1>4. CASE ~o.jitter
  <2>1. d = c
    BY <1>4 DEF Delays
  <2> HIDE DEF c
  <2> QED BY <1>1, <1>2, <2>1 DEF Positive, w
<1> QED BY <1>3, <1>4

\* What the timer waits of a delay that fits.
LEMMA TimersFit ==
  ASSUME NEW o \in Options, NEW k \in Nat, NEW d \in Delays(o, k)
  PROVE  /\ Timer(d) \in Positive /\ Timer(d) <= o.maxDelayMs
         /\ \/ 2 * Timer(d) + 1 >= o.maxDelayMs
            \/ 2 * Timer(d) + 1 >= o.baseDelayMs * 2 ^ k
            \/ o.maxDelayMs > TimerMax /\ o.baseDelayMs * 2 ^ k > TimerMax
<1> DEFINE w == o.baseDelayMs * 2 ^ k
<1>1. o.maxDelayMs \in Positive /\ w \in Nat
  <2>1. ASSUME NEW x \in Positive, NEW y \in Positive PROVE x * y \in Nat
    BY DEF Positive
  <2>2. o.maxDelayMs \in Positive /\ o.baseDelayMs \in Positive
    BY DEF Options
  <2> QED BY <2>1, <2>2, PowerOfTwo
<1>2. /\ d \in Nat /\ d <= o.maxDelayMs /\ d <= w
      /\ 2 * d + 1 >= o.maxDelayMs \/ 2 * d + 1 >= w
  BY DelaysFit
<1> DEFINE t == Timer(d)
<1>3. t = IF d \in 1 .. TimerMax THEN d ELSE 1
  BY DEF Timer
<1>4. /\ t \in Positive /\ t <= o.maxDelayMs
      /\ 2 * t + 1 >= o.maxDelayMs \/ 2 * t + 1 >= w
         \/ (o.maxDelayMs > TimerMax /\ w > TimerMax)
  <2> HIDE DEF w, t
  <2>1. CASE d \in 1 .. TimerMax
    BY <1>1, <1>2, <1>3, <2>1 DEF Positive
  <2>2. CASE d = 0
    BY <1>1, <1>2, <1>3, <2>2 DEF Positive
  <2>3. CASE d > TimerMax
    BY <1>1, <1>2, <1>3, <2>3, RetryAssumption DEF Positive
  <2> QED BY <1>2, <2>1, <2>2, <2>3, RetryAssumption DEF Positive
<1> QED BY <1>4

\* Only the catch block of the loop begins a wait, under the policy it has read.
LEMMA WaitStep == IInv /\ WaitWithinPolicy /\ [Next]_vars => WaitWithinPolicy'
<1> SUFFICES ASSUME IInv, WaitWithinPolicy, [Next]_vars, pc' = "sleep"
             PROVE  /\ delay' \in Positive /\ delay' <= opts'.maxDelayMs
                    /\ \/ 2 * delay' + 1 >= opts'.maxDelayMs
                       \/ 2 * delay' + 1 >= opts'.baseDelayMs * 2 ^ attempt'
                       \/ /\ opts'.maxDelayMs > TimerMax
                          /\ opts'.baseDelayMs * 2 ^ attempt' > TimerMax
  BY DEF WaitWithinPolicy
<1>1. CASE pc = "sleep" /\ UNCHANGED <<pc, delay, opts, attempt>>
  BY <1>1 DEF WaitWithinPolicy
<1>2. ASSUME NEW effect \in {0, 1}, Caught(effect)
      PROVE  /\ delay' \in Positive /\ delay' <= opts'.maxDelayMs
             /\ \/ 2 * delay' + 1 >= opts'.maxDelayMs
                \/ 2 * delay' + 1 >= opts'.baseDelayMs * 2 ^ attempt'
                \/ /\ opts'.maxDelayMs > TimerMax
                   /\ opts'.baseDelayMs * 2 ^ attempt' > TimerMax
  <2>1. /\ \E ms \in Delays(opts, attempt) : delay' = Timer(ms)
        /\ opts' = opts /\ attempt' = attempt
    BY <1>2 DEF Caught, Fail
  <2>2. opts \in Options /\ attempt \in Nat
    BY <1>2 DEF IInv, TypeOK, LoopInv, Caught
  <2> QED BY <2>1, <2>2, TimersFit
<1>3. \/ pc = "sleep" /\ UNCHANGED <<pc, delay, opts, attempt>>
      \/ \E effect \in {0, 1} : Caught(effect)
  BY DEF Next, Step, Edit, Lookup, ReadPolicy, PolicyUnreadable, CallOk, CallRefused,
         CallRefusedLate, CallThrows, CallOutcomeLost, CallHangs, Wake, Record, Fail, target, vars
<1> QED BY <1>1, <1>2, <1>3

\* calculateDelay and sleep under any policy an administrator stored, the invalid ones
\* included: a wait is never longer than maxDelayMs, nor, but for rounding, shorter than
\* half of the doubled base delay it is capped from, unless that is longer than any timer.
THEOREM WaitsWithinPolicy == Spec => []WaitWithinPolicy
<1>1. Init => WaitWithinPolicy
  BY DEF Init, WaitWithinPolicy
<1> QED BY <1>1, Invariance, WaitStep, PTL DEF Spec
=============================================================================
