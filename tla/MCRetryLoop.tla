---------------------------- MODULE MCRetryLoop ----------------------------
(* TLC instance of RetryLoop: a policy whose first wait jitters down to 0,  *)
(* one without jitter whose cap bites, one whose second wait exceeds the    *)
(* longest timer, and one in which every field is invalid.                  *)
EXTENDS RetryLoop

CONSTANT NotANumber

MCRawPolicies ==
  { [maxRetries |-> 1, baseDelayMs |-> 1, maxDelayMs |-> 3, jitter |-> TRUE],
    [maxRetries |-> 2, baseDelayMs |-> 2, maxDelayMs |-> 3, jitter |-> FALSE],
    [maxRetries |-> 2, baseDelayMs |-> 15000, maxDelayMs |-> 40000, jitter |-> FALSE],
    [maxRetries |-> 0, baseDelayMs |-> -1, maxDelayMs |-> NotANumber, jitter |-> NotANumber] }
=============================================================================
