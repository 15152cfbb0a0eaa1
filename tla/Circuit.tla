------------------------------- MODULE Circuit -------------------------------
(***************************************************************************)
(* The circuit breaker of store.RateStore, which its rate checks and the   *)
(* /ready handler share: after Threshold failures in a row Redis is not    *)
(* asked for a while.                                                      *)
(***************************************************************************)
EXTENDS Naturals

CONSTANTS
    Threshold,  \* config.RedisFailureThreshold
    OpenTicks   \* config.RedisCircuitOpenSecs, in ticks

ASSUME CircuitAssumption == Threshold \in Nat \ {0} /\ OpenTicks \in Nat \ {0}

VARIABLES
    failures,  \* redisFailures, counted up to Threshold
    circuit    \* ticks until redisCircuitUntil, 0 when the circuit is closed

CircuitType == failures \in 0 .. Threshold /\ circuit \in 0 .. OpenTicks

CircuitInit == failures = 0 /\ circuit = 0

CircuitOpen == circuit > 0

\* Mutant: a success forgets the failures and leaves the circuit as it is.
MarkRedisSuccessCountOnly == failures' = 0 /\ UNCHANGED circuit

MarkRedisSuccess == failures' = 0 /\ circuit' = 0

MarkRedisFailure ==
    /\ failures' = IF failures < Threshold THEN failures + 1 ELSE failures
    /\ circuit' = IF failures + 1 >= Threshold THEN OpenTicks ELSE circuit

CircuitTick ==
    /\ circuit' = IF CircuitOpen THEN circuit - 1 ELSE 0
    /\ UNCHANGED failures
-----------------------------------------------------------------------------
\* The circuit is open only after Threshold failures with no success since.
CircuitNeedsFailures == CircuitOpen => failures = Threshold
=============================================================================
