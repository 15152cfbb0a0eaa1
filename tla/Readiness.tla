------------------------------ MODULE Readiness ------------------------------
(***************************************************************************)
(* The /ready handler: it asks Redis and Supabase how they are and keeps   *)
(* the answers for a while.  The cache is looked at and filled in two      *)
(* critical sections of readyMu with the checks between them, so several   *)
(* requests may miss it and check side by side, and a slow check may       *)
(* overwrite the answer of one that began after it.                        *)
(*                                                                         *)
(* A request that goes away cancels its own checks: they fail, and the     *)
(* handler goes on and keeps that answer for everybody.  Such a failure    *)
(* counts against Redis like any other, and those of the rate checks that  *)
(* run elsewhere (module RateStore) open the same circuit.                 *)
(*                                                                         *)
(* A Redis that is not there when the server starts is never asked again:  *)
(* the limiter has no client for it, and the answer about it stays no.     *)
(*                                                                         *)
(* Abstractions.  Both services are configured.  Time is counted in ticks, *)
(* relative to now.  Of the answer only the two verdicts are kept.         *)
(***************************************************************************)
EXTENDS Integers, Circuit

CONSTANTS
    Request,   \* requests in flight at once
    TTL,       \* config.ReadinessCacheTTL, 0 for no cache
    MaxDelay,  \* bound: ticks the two checks take at most (their timeouts)
    Nil        \* no entry

ASSUME TimeAssumption == TTL \in Nat /\ MaxDelay \in Nat

\* Nobody who asks so long after the last trouble should hear of it.
Memory == OpenTicks + TTL

Entry == [redis : BOOLEAN, supabase : BOOLEAN, age : 0 .. TTL + MaxDelay, left : -MaxDelay .. TTL]

ASSUME NilAssumption == Nil \notin Entry

VARIABLES
    rdb,     \* RateStore.rdb # nil: Redis answered NewRateStore, once and for all
    cached,  \* readyCached: the verdicts, how long ago their checks began (history), and the
             \* ticks until readyExpires
    call,    \* the locals of each request: its clock reading's age, its verdicts, and for how
             \* long nothing had failed when it came
    told,    \* the last verdicts given, and for how long nothing had failed when they were asked
    calm,    \* from now on services answer and clients stay
    quiet    \* for how many ticks that has been so, up to Memory

vars == <<failures, circuit, rdb, cached, call, told, calm, quiet>>

Phase == {"idle", "asking", "redis", "pinging", "supabase", "storing"}

TypeOK ==
    /\ CircuitType
    /\ rdb \in BOOLEAN
    /\ cached \in Entry \cup {Nil}
    /\ call \in [Request -> [phase : Phase, age : 0 .. MaxDelay, redis : BOOLEAN,
                             supabase : BOOLEAN, quiet : 0 .. Memory]]
    /\ told \in [redis : BOOLEAN, supabase : BOOLEAN, quiet : 0 .. Memory]
    /\ calm \in BOOLEAN /\ quiet \in 0 .. Memory /\ (quiet > 0 => calm)

Idle == [phase |-> "idle", age |-> 0, redis |-> FALSE, supabase |-> FALSE, quiet |-> 0]

Init ==
    /\ CircuitInit
    /\ rdb \in BOOLEAN
    /\ cached = Nil
    /\ call = [p \in Request |-> Idle]
    /\ told = [redis |-> rdb, supabase |-> TRUE, quiet |-> 0]
    /\ calm = FALSE /\ quiet = 0
-----------------------------------------------------------------------------
breaker == <<failures, circuit>>
weather == <<calm, quiet, rdb>>

Goto(p, phase) == call' = [call EXCEPT ![p].phase = phase]

Respond(p, redis, supabase) ==
    /\ told' = [redis |-> redis, supabase |-> supabase, quiet |-> call[p].quiet]
    /\ call' = [call EXCEPT ![p] = Idle]

\* The request comes and the clock is read.
Ask(p) ==
    /\ call[p].phase = "idle"
    /\ call' = [call EXCEPT ![p] = [Idle EXCEPT !.phase = "asking", !.quiet = quiet]]
    /\ UNCHANGED <<breaker, cached, told, weather>>

\* now.Before(readyExpires), by the clock the request has read.
Usable(p) == cached # Nil /\ cached.left + call[p].age > 0

\* Mutant: an answer that is used is kept for longer.
HitRenews(p) ==
    /\ call[p].phase = "asking" /\ TTL > 0 /\ Usable(p)
    /\ Respond(p, cached.redis, cached.supabase)
    /\ cached' = [cached EXCEPT !.left = TTL]
    /\ UNCHANGED <<breaker, weather>>

Hit(p) ==
    /\ call[p].phase = "asking" /\ TTL > 0 /\ Usable(p)
    /\ Respond(p, cached.redis, cached.supabase)
    /\ UNCHANGED <<breaker, cached, weather>>

Miss(p) ==
    /\ call[p].phase = "asking" /\ (TTL > 0 => ~Usable(p))
    /\ Goto(p, "redis")
    /\ UNCHANGED <<breaker, cached, told, weather>>

\* RedisOK, whose answer is no without a client, and while the circuit is open.
BeginPing(p) ==
    /\ call[p].phase = "redis"
    /\ Goto(p, IF ~rdb \/ CircuitOpen THEN "supabase" ELSE "pinging")
    /\ UNCHANGED <<breaker, cached, told, weather>>

Pong(p) ==
    /\ call[p].phase = "pinging"
    /\ \E ok \in BOOLEAN :
          /\ calm => ok
          /\ IF ok THEN MarkRedisSuccess ELSE MarkRedisFailure
          /\ call' = [call EXCEPT ![p].phase = "supabase", ![p].redis = ok]
    /\ UNCHANGED <<cached, told, weather>>

Supabase(p) ==
    /\ call[p].phase = "supabase"
    /\ \E ok \in BOOLEAN :
          /\ calm => ok
          /\ call' = [call EXCEPT ![p].phase = "storing", ![p].supabase = ok]
    /\ UNCHANGED <<breaker, cached, told, weather>>

\* Mutant: the time to live is counted from the end of the checks.
StoreFromNow(p) ==
    /\ call[p].phase = "storing"
    /\ Respond(p, call[p].redis, call[p].supabase)
    /\ cached' = IF TTL = 0 THEN cached
                 ELSE [redis |-> call[p].redis, supabase |-> call[p].supabase,
                       age |-> call[p].age, left |-> TTL]
    /\ UNCHANGED <<breaker, weather>>

\* Whatever the checks said is kept, for TTL from the moment the request came.
Store(p) ==
    /\ call[p].phase = "storing"
    /\ Respond(p, call[p].redis, call[p].supabase)
    /\ cached' = IF TTL = 0 THEN cached
                 ELSE [redis |-> call[p].redis, supabase |-> call[p].supabase,
                       age |-> call[p].age, left |-> TTL - call[p].age]
    /\ UNCHANGED <<breaker, weather>>

\* A rate check somewhere else has heard from Redis, or has not.
Check ==
    /\ rdb
    /\ MarkRedisSuccess \/ (~calm /\ MarkRedisFailure)
    /\ UNCHANGED <<cached, call, told, weather>>

CalmDown ==
    /\ ~calm
    /\ calm' = TRUE
    /\ UNCHANGED <<breaker, cached, call, told, quiet, rdb>>

Tick ==
    /\ \A p \in Request : call[p].phase # "idle" => call[p].age < MaxDelay
    /\ call' = [p \in Request |-> IF call[p].phase = "idle" THEN call[p]
                                  ELSE [call[p] EXCEPT !.age = @ + 1]]
    /\ cached' = IF cached = Nil THEN Nil
                 ELSE [cached EXCEPT !.age = IF @ = TTL + MaxDelay THEN @ ELSE @ + 1,
                                     !.left = IF @ = -MaxDelay THEN @ ELSE @ - 1]
    /\ quiet' = IF calm /\ quiet < Memory THEN quiet + 1 ELSE quiet
    /\ CircuitTick
    /\ UNCHANGED <<told, calm, rdb>>

Next ==
    \/ \E p \in Request : \/ Ask(p) \/ Hit(p) \/ Miss(p) \/ BeginPing(p) \/ Pong(p)
                          \/ Supabase(p) \/ Store(p)
    \/ Check \/ CalmDown \/ Tick

Spec == Init /\ [][Next]_vars
-----------------------------------------------------------------------------
\* What the cache would answer a request with was found out by checks that began less than
\* TTL before the request came, however long they took and whichever of several came last.
HitIsRecent == \A p \in Request : call[p].phase = "asking" /\ Usable(p) => cached.age - call[p].age < TTL

\* Trouble is forgotten: a request that comes OpenTicks + TTL after the last failed or
\* cancelled call is told that Supabase is up, and Redis too, although nothing but the
\* passing of time clears the cache and the circuit.  One trouble never is: without a Redis
\* when the server started the answer about Redis is no for as long as it runs.
TroubleForgotten == told.quiet = Memory => (told.redis <=> rdb) /\ told.supabase
=============================================================================
