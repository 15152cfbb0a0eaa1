------------------------------ MODULE RateStore ------------------------------
(***************************************************************************)
(* The rate limiter store.RateStore: a sliding window kept in Redis by a   *)
(* script, a second one kept in process memory that takes over when Redis  *)
(* fails (module Windows), and the circuit breaker (module Circuit) that   *)
(* decides whom to ask.                                                    *)
(*                                                                         *)
(* A Check is several steps: it reads the circuit and the clock, Redis     *)
(* runs the script some time later, the answer arrives or is lost, and     *)
(* only then is the circuit updated and the local window consulted.  Other *)
(* Checks and the Pings of the /ready handler run in between.              *)
(*                                                                         *)
(* Abstractions.  Time is relative: a window counts its hits by their age  *)
(* in ticks, the circuit the ticks until it closes.  A hit older than      *)
(* Window + CheckDelay is dropped at once; the code drops it when the key  *)
(* is next used, before anything counts it.  Redis is modelled by what the *)
(* script does, and by its expiry of idle keys, which a call that is late  *)
(* by more than a window would notice.                                     *)
(***************************************************************************)
EXTENDS Naturals, FiniteSets, Windows, Circuit

CONSTANTS
    Caller,     \* goroutines that call Check or RedisOK
    HasRedis,   \* Redis answered when the server started
    LocalKeep,  \* what an eviction reduces the map of local windows to (45000 in the code)
    Nil         \* no entry

ASSUME RedisAssumption == HasRedis \in BOOLEAN
ASSUME CapAssumption == LocalCap \in Nat \ {0} /\ LocalKeep \in 1 .. LocalCap
ASSUME NilAssumption == Nil \notin Hits /\ Nil \notin Key

VARIABLE
    call       \* what each goroutine is doing, with which key, since when

vars == <<local, zset, failures, circuit, call, granted>>

Phase == {"idle", "asking", "answered", "local", "pinging"}

\* The keys with a local window.
Present(map) == {k \in Key : map[k] # Nil}

\* Every variable has its type.
TypeOK ==
    /\ local \in [Key -> Hits \cup {Nil}]
    /\ zset \in [Key -> Hits]
    /\ CircuitType
    /\ call \in [Caller -> [phase : Phase, key : Key \cup {Nil}, age : 0 .. CheckDelay, ok : BOOLEAN]]
    /\ granted \in [Key -> Hits]

Idle == [phase |-> "idle", key |-> Nil, age |-> 0, ok |-> FALSE]

Init ==
    /\ local = [k \in Key |-> Nil]
    /\ zset = [k \in Key |-> NoHits]
    /\ CircuitInit
    /\ call = [c \in Caller |-> Idle]
    /\ granted = [k \in Key |-> NoHits]
-----------------------------------------------------------------------------
(* Grants and evictions.                                                   *)

\* The history of granted checks once c's has returned true.
Granted(c) == [granted EXCEPT ![call[c].key] = WithHit(@, call[c].age)]

\* Mutant: the size of the map is looked at before the key is added.
EvictedEarly(map, k) ==
    IF Cardinality(Present(map) \ {k}) <= LocalCap THEN {map}
    ELSE {[j \in Key |-> IF j \in kept THEN map[j] ELSE Nil] :
              kept \in {s \in SUBSET Present(map) : Cardinality(s) = LocalKeep}}

\* The maps an insertion of k may leave: too big a map loses keys in the map's own order,
\* which is any order, until LocalKeep are left.
Evicted(map, k) ==
    IF Cardinality(Present(map)) <= LocalCap THEN {map}
    ELSE {[j \in Key |-> IF j \in kept THEN map[j] ELSE Nil] :
              kept \in {s \in SUBSET Present(map) : Cardinality(s) = LocalKeep}}
-----------------------------------------------------------------------------
(* Check.                                                                  *)

Begin(c, k) ==
    /\ call[c].phase = "idle"
    /\ call' = [call EXCEPT ![c] = [phase |-> IF HasRedis /\ ~CircuitOpen THEN "asking" ELSE "local",
                                    key |-> k, age |-> 0, ok |-> FALSE]]
    /\ UNCHANGED <<local, zset, failures, circuit, granted>>

\* Mutant: the script compares with the limit the wrong way round at the boundary.
EvalOffByOne(c) ==
    LET k == call[c].key
        kept == Kept(zset[k], call[c].age)
        ok == Size(kept) <= Limit IN
    /\ call[c].phase = "asking"
    /\ zset' = [zset EXCEPT ![k] = IF ok THEN WithHit(kept, call[c].age) ELSE kept]
    /\ call' = [call EXCEPT ![c].phase = "answered", ![c].ok = ok]
    /\ UNCHANGED <<local, failures, circuit, granted>>

\* Redis runs the script, with the caller's clock, cutoff and score.
Eval(c) ==
    LET k == call[c].key
        kept == Kept(zset[k], call[c].age)
        ok == Size(kept) < Limit IN
    /\ call[c].phase = "asking"
    /\ zset' = [zset EXCEPT ![k] = IF ok THEN WithHit(kept, call[c].age) ELSE kept]
    /\ call' = [call EXCEPT ![c].phase = "answered", ![c].ok = ok]
    /\ UNCHANGED <<local, failures, circuit, granted>>

\* The script lets a key expire 2 * Window after it last added to it, when every hit in it
\* is as old as that.
Expire(k) ==
    /\ zset[k] # NoHits
    /\ \A a \in Age : zset[k][a] > 0 => a >= 2 * Window
    /\ zset' = [zset EXCEPT ![k] = NoHits]
    /\ UNCHANGED <<local, failures, circuit, call, granted>>

\* The answer arrives.
Answer(c) ==
    /\ call[c].phase = "answered"
    /\ MarkRedisSuccess
    /\ granted' = IF call[c].ok THEN Granted(c) ELSE granted
    /\ call' = [call EXCEPT ![c] = Idle]
    /\ UNCHANGED <<local, zset>>

\* Mutant: a check that Redis does not answer is let through.
FailOpen(c) ==
    /\ call[c].phase \in {"asking", "answered"}
    /\ MarkRedisFailure
    /\ granted' = Granted(c)
    /\ call' = [call EXCEPT ![c] = Idle]
    /\ UNCHANGED <<local, zset>>

\* The request or its answer is lost, times out, or the caller's own client has gone away;
\* checkLocal then reads the clock anew.
Fail(c) ==
    /\ call[c].phase \in {"asking", "answered"}
    /\ MarkRedisFailure
    /\ call' = [call EXCEPT ![c] = [@ EXCEPT !.phase = "local", !.age = 0, !.ok = FALSE]]
    /\ UNCHANGED <<local, zset, granted>>

\* The critical section of checkLocal.
CheckLocal(c) ==
    LET k == call[c].key
        kept == Kept(IF local[k] = Nil THEN NoHits ELSE local[k], call[c].age) IN
    /\ call[c].phase = "local"
    /\ call' = [call EXCEPT ![c] = Idle]
    /\ IF Size(kept) >= Limit
       THEN local' = [local EXCEPT ![k] = kept] /\ UNCHANGED granted
       ELSE /\ local' \in Evicted([local EXCEPT ![k] = WithHit(kept, call[c].age)], k)
            /\ granted' = [j \in Key |-> IF (j = k \/ local[j] # Nil) /\ local'[j] = Nil THEN NoHits
                                         ELSE Granted(c)[j]]
    /\ UNCHANGED <<zset, failures, circuit>>
-----------------------------------------------------------------------------
(* RedisOK, called by the /ready handler.                                  *)

BeginPing(c) ==
    /\ call[c].phase = "idle"
    /\ HasRedis /\ ~CircuitOpen
    /\ call' = [call EXCEPT ![c].phase = "pinging"]
    /\ UNCHANGED <<local, zset, failures, circuit, granted>>

Pong(c) ==
    /\ call[c].phase = "pinging"
    /\ MarkRedisSuccess \/ MarkRedisFailure
    /\ call' = [call EXCEPT ![c] = Idle]
    /\ UNCHANGED <<local, zset, granted>>
-----------------------------------------------------------------------------
\* Time passes, but no call takes longer than CheckDelay.
Tick ==
    /\ \A c \in Caller : call[c].phase # "idle" => call[c].age < CheckDelay
    /\ local' = [k \in Key |-> IF local[k] = Nil THEN Nil ELSE Older(local[k])]
    /\ zset' = [k \in Key |-> Older(zset[k])]
    /\ granted' = [k \in Key |-> Older(granted[k])]
    /\ CircuitTick
    /\ call' = [c \in Caller |-> IF call[c].phase = "idle" THEN call[c]
                                 ELSE [call[c] EXCEPT !.age = @ + 1]]

Next ==
    \/ \E c \in Caller : \/ \E k \in Key : Begin(c, k)
                         \/ Eval(c) \/ Answer(c) \/ Fail(c) \/ CheckLocal(c)
                         \/ BeginPing(c) \/ Pong(c)
    \/ \E k \in Key : Expire(k)
    \/ Tick

Spec == Init /\ [][Next]_vars
=============================================================================
