---------------------------- MODULE CircuitProofs ----------------------------
(***************************************************************************)
(* Proofs about the two modules that share the circuit breaker: Readiness, *)
(* for any number of requests and any times, and RateStore, for any number *)
(* of callers and keys, any limit and any window.                          *)
(*                                                                         *)
(* What falls back doubles at most, because all that has been granted is   *)
(* in one of two windows (Accounted) and each keeps the limit              *)
(* (WithinLimit).  The size of a window is a fold; SizeCounts says that it *)
(* is the number of its hits taken one by one, and after that sizes are    *)
(* compared by the sets they count.                                        *)
(***************************************************************************)
EXTENDS Readiness, Windows, FiniteSetTheorems, TLAPS

\* What RateStore has besides the windows and the circuit.
CONSTANTS Caller, HasRedis, LocalKeep
VARIABLE check

Rate == INSTANCE RateStore WITH call <- check

InFlight(p) == call[p].phase # "idle"

\* Request p has a verdict that something is down which the server could reach.
Bad(p) ==
    \/ rdb /\ call[p].phase \in {"supabase", "storing"} /\ ~call[p].redis
    \/ call[p].phase = "storing" /\ ~call[p].supabase

BadEntry == cached # Nil /\ ((rdb /\ ~cached.redis) \/ ~cached.supabase)

\* An entry too old for any request in flight.
Stale == cached.left = -MaxDelay

\* The two clocks of an entry are one.
OneClock == cached # Nil => cached.age + cached.left = TTL

\* What a request remembers of the quiet.
Remembers(p) == InFlight(p) /\ call[p].quiet > 0

\* It has gone on since.
QuietGoesOn ==
    \A p \in Request : Remembers(p) =>
        calm /\ quiet = IF call[p].quiet + call[p].age < Memory THEN call[p].quiet + call[p].age ELSE Memory

\* What opened the circuit happened before the quiet.
CircuitRunsOut == circuit = 0 \/ quiet + circuit <= OpenTicks

\* A bad verdict comes from a time when it had been quiet for less than OpenTicks, whether
\* that is seen from now or from the time another request came.
VerdictsOld ==
    \A q \in Request : Bad(q) =>
        /\ quiet < OpenTicks + call[q].age
        /\ \A p \in Request : Remembers(p) => call[p].quiet + call[p].age < OpenTicks + call[q].age

\* And so does a bad entry, until it runs out.
EntryOld ==
    BadEntry =>
        \/ Stale
        \/ /\ quiet + cached.left < Memory
           /\ \A p \in Request : Remembers(p) => call[p].quiet + call[p].age + cached.left < Memory

\* Without a client for Redis nobody asks it, and every verdict on it is no.
NoClient ==
    ~rdb => /\ ~told.redis
            /\ cached # Nil => ~cached.redis
            /\ \A p \in Request : call[p].phase # "pinging" /\ ~call[p].redis

IInv ==
    /\ TypeOK /\ OneClock /\ QuietGoesOn /\ CircuitRunsOut
    /\ VerdictsOld /\ EntryOld /\ NoClient /\ TroubleForgotten
-----------------------------------------------------------------------------
LEMMA Sizes ==
    /\ TTL \in Nat /\ MaxDelay \in Nat /\ Threshold \in Nat \ {0} /\ OpenTicks \in Nat \ {0}
    /\ Memory = OpenTicks + TTL /\ Memory \in Nat
  BY TimeAssumption, CircuitAssumption DEF Memory

Call == [phase : Phase, age : 0 .. MaxDelay, redis : BOOLEAN, supabase : BOOLEAN, quiet : 0 .. Memory]
Answer == [redis : BOOLEAN, supabase : BOOLEAN, quiet : 0 .. Memory]

\* The parts of TypeOK.
LEMMA Types ==
    TypeOK <=> /\ failures \in 0 .. Threshold /\ circuit \in 0 .. OpenTicks
               /\ rdb \in BOOLEAN /\ cached \in Entry \cup {Nil}
               /\ call \in [Request -> Call]
               /\ told \in Answer
               /\ calm \in BOOLEAN /\ quiet \in 0 .. Memory /\ (quiet > 0 => calm)
  BY DEF TypeOK, CircuitType, Call, Answer

LEMMA TypesNext ==
    TypeOK' <=> /\ failures' \in 0 .. Threshold /\ circuit' \in 0 .. OpenTicks
                /\ rdb' \in BOOLEAN /\ cached' \in Entry \cup {Nil}
                /\ call' \in [Request -> Call]
                /\ told' \in Answer
                /\ calm' \in BOOLEAN /\ quiet' \in 0 .. Memory /\ (quiet' > 0 => calm')
  BY DEF TypeOK, CircuitType, Call, Answer

LEMMA IdleType == Idle \in Call
  BY Sizes DEF Idle, Call, Phase

LEMMA CallFields ==
    ASSUME NEW c \in Call
    PROVE  /\ c.phase \in Phase /\ c.age \in 0 .. MaxDelay /\ c.redis \in BOOLEAN
           /\ c.supabase \in BOOLEAN /\ c.quiet \in 0 .. Memory
  BY DEF Call

LEMMA EntryFields ==
    ASSUME NEW e \in Entry
    PROVE  e.redis \in BOOLEAN /\ e.supabase \in BOOLEAN /\ e.age \in 0 .. TTL + MaxDelay
           /\ e.left \in -MaxDelay .. TTL
  BY Sizes DEF Entry

\* What an action does to the request it is about, and to the others nothing.
CallIs(p, ph, a, r, s, q) ==
    /\ call' \in [Request -> Call]
    /\ \A x \in Request : x # p => call'[x] = call[x]
    /\ call'[p].phase = ph /\ call'[p].age = a /\ call'[p].redis = r
    /\ call'[p].supabase = s /\ call'[p].quiet = q

LEMMA Asked ==
    ASSUME TypeOK, NEW p \in Request, Ask(p)
    PROVE  CallIs(p, "asking", 0, FALSE, FALSE, quiet)
<1>1. Idle \in Call
  BY IdleType
<1>2. quiet \in 0 .. Memory /\ call \in [Request -> Call]
  BY Types
<1>3. [Idle EXCEPT !.phase = "asking", !.quiet = quiet] \in Call
  BY <1>1, <1>2 DEF Call, Phase
<1> QED
  BY <1>2, <1>3 DEF Ask, CallIs, Idle

LEMMA Moved ==
    ASSUME TypeOK, NEW p \in Request, NEW ph \in Phase, Goto(p, ph)
    PROVE  CallIs(p, ph, call[p].age, call[p].redis, call[p].supabase, call[p].quiet)
<1>0. call[p] \in Call
  BY Types
<1>1. [call[p] EXCEPT !.phase = ph] \in Call
  BY <1>0 DEF Call
<1>2. call' = [call EXCEPT ![p] = [call[p] EXCEPT !.phase = ph]]
  BY DEF Goto
<1> QED
  BY <1>0, <1>1, <1>2, Types DEF CallIs, Call

LEMMA Ponged ==
    ASSUME TypeOK, NEW p \in Request, NEW ok \in BOOLEAN,
           call' = [call EXCEPT ![p].phase = "supabase", ![p].redis = ok]
    PROVE  CallIs(p, "supabase", call[p].age, ok, call[p].supabase, call[p].quiet)
<1>0. call[p] \in Call
  BY Types
<1>1. [call[p] EXCEPT !.phase = "supabase", !.redis = ok] \in Call
  BY <1>0 DEF Call, Phase
<1>2. call' = [call EXCEPT ![p] = [call[p] EXCEPT !.phase = "supabase", !.redis = ok]]
  BY Types
<1> QED
  BY <1>0, <1>1, <1>2, Types DEF CallIs, Call

LEMMA Judged ==
    ASSUME TypeOK, NEW p \in Request, NEW ok \in BOOLEAN,
           call' = [call EXCEPT ![p].phase = "storing", ![p].supabase = ok]
    PROVE  CallIs(p, "storing", call[p].age, call[p].redis, ok, call[p].quiet)
<1>0. call[p] \in Call
  BY Types
<1>1. [call[p] EXCEPT !.phase = "storing", !.supabase = ok] \in Call
  BY <1>0 DEF Call, Phase
<1>2. call' = [call EXCEPT ![p] = [call[p] EXCEPT !.phase = "storing", !.supabase = ok]]
  BY Types
<1> QED
  BY <1>0, <1>1, <1>2, Types DEF CallIs, Call

LEMMA Answered ==
    ASSUME TypeOK, NEW p \in Request, NEW r \in BOOLEAN, NEW s \in BOOLEAN, Respond(p, r, s)
    PROVE  /\ CallIs(p, "idle", 0, FALSE, FALSE, 0)
           /\ told' \in Answer /\ told'.redis = r /\ told'.supabase = s /\ told'.quiet = call[p].quiet
<1>1. call[p].quiet \in 0 .. Memory /\ call \in [Request -> Call]
  BY Types, CallFields
<1>2. told' \in Answer /\ told'.redis = r /\ told'.supabase = s /\ told'.quiet = call[p].quiet
  BY <1>1 DEF Respond, Answer
<1> QED
  BY <1>1, <1>2, IdleType DEF Respond, CallIs, Idle
-----------------------------------------------------------------------------
\* While it has been quiet for less than OpenTicks, every request came less than OpenTicks
\* after the last trouble.
LEMMA QuietSmall ==
    ASSUME TypeOK, QuietGoesOn, quiet < OpenTicks
    PROVE  \A p \in Request : Remembers(p) => call[p].quiet + call[p].age < OpenTicks
<1> SUFFICES ASSUME NEW p \in Request, Remembers(p) PROVE call[p].quiet + call[p].age < OpenTicks
  OBVIOUS
<1>1. call[p].quiet \in Nat /\ call[p].age \in Nat /\ quiet \in Nat
  BY Types, CallFields, Sizes
<1> QED
  BY <1>1, Sizes DEF QuietGoesOn

\* A step of request p on its way, which leaves the cache, the answer and the quiet alone
\* and turns its verdict bad only while it has been quiet for less than OpenTicks.
LEMMA Onward ==
    ASSUME IInv, NEW p \in Request, NEW ph \in Phase, NEW r \in BOOLEAN, NEW s \in BOOLEAN,
           CallIs(p, ph, call[p].age, r, s, call[p].quiet),
           InFlight(p), ph # "idle",
           UNCHANGED <<rdb, cached, told, calm, quiet>>,
           ~rdb => ph # "pinging" /\ ~r,
           failures' \in 0 .. Threshold, circuit' \in 0 .. OpenTicks, CircuitRunsOut',
           Bad(p)' => Bad(p) \/ quiet < OpenTicks
    PROVE  IInv'
<1>0. TypeOK /\ QuietGoesOn /\ VerdictsOld /\ EntryOld /\ OneClock /\ NoClient /\ TroubleForgotten
  BY DEF IInv
<1>1. TypeOK'
  BY <1>0, Types, TypesNext DEF CallIs
<1>2. \A x \in Request : call'[x].age = call[x].age /\ call'[x].quiet = call[x].quiet
  BY DEF CallIs
<1>3. \A x \in Request : Remembers(x)' <=> Remembers(x)
  BY <1>2 DEF Remembers, InFlight, CallIs
<1>4. OneClock' /\ TroubleForgotten'
  BY <1>0 DEF OneClock, TroubleForgotten
<1>5. QuietGoesOn'
  BY <1>0, <1>2, <1>3 DEF QuietGoesOn
<1>6. EntryOld'
  BY <1>0, <1>2, <1>3 DEF EntryOld, BadEntry, Stale
<1>7. ASSUME NEW q \in Request, Bad(q)'
      PROVE  Bad(q) \/ quiet < OpenTicks
  BY <1>7 DEF Bad, CallIs
<1>8. \A x \in Request : call[x].age \in Nat /\ call[x].quiet \in Nat
  BY <1>0, Types, CallFields, Sizes
<1>9. ASSUME NEW q \in Request, Bad(q)'
      PROVE  /\ quiet < OpenTicks + call[q].age
             /\ \A x \in Request : Remembers(x) => call[x].quiet + call[x].age < OpenTicks + call[q].age
  <2>1. CASE Bad(q)
    BY <1>0, <2>1 DEF VerdictsOld
  <2>2. CASE quiet < OpenTicks
    <3>1. \A x \in Request : Remembers(x) => call[x].quiet + call[x].age < OpenTicks
      BY <1>0, <2>2, QuietSmall
    <3>2. quiet \in Nat
      BY <1>0, Types, Sizes
    <3> QED
      BY <1>8, <2>2, <3>1, <3>2, Sizes
  <2> QED
    BY <1>7, <1>9, <2>1, <2>2
<1>10. VerdictsOld'
  BY <1>2, <1>3, <1>9 DEF VerdictsOld
<1>11. NoClient'
  BY <1>0 DEF NoClient, CallIs
<1> QED
  BY <1>1, <1>4, <1>5, <1>6, <1>10, <1>11 DEF IInv

\* A step of request p that answers it, and may fill the cache.
LEMMA Ends ==
    ASSUME IInv, NEW p \in Request, NEW r \in BOOLEAN, NEW s \in BOOLEAN, InFlight(p), Respond(p, r, s),
           UNCHANGED <<failures, circuit, rdb, calm, quiet>>,
           cached' \in Entry \cup {Nil}, OneClock', EntryOld',
           ~rdb => ~r /\ (cached' # Nil => ~cached'.redis),
           call[p].quiet = Memory => (r <=> rdb) /\ s
    PROVE  IInv'
<1>0. TypeOK /\ QuietGoesOn /\ VerdictsOld /\ CircuitRunsOut /\ NoClient
  BY DEF IInv
<1>1. /\ CallIs(p, "idle", 0, FALSE, FALSE, 0)
      /\ told' \in Answer /\ told'.redis = r /\ told'.supabase = s /\ told'.quiet = call[p].quiet
  BY <1>0, Answered
<1>2. TypeOK'
  BY <1>0, <1>1, Types, TypesNext DEF CallIs
<1>3. \A x \in Request : Remembers(x)' => x # p /\ Remembers(x) /\ call'[x] = call[x]
  BY <1>1 DEF Remembers, InFlight, CallIs
<1>4. \A x \in Request : Bad(x)' => x # p /\ Bad(x) /\ call'[x] = call[x]
  BY <1>1 DEF Bad, CallIs
<1>5. QuietGoesOn'
  BY <1>0, <1>3 DEF QuietGoesOn
<1>6. CircuitRunsOut'
  BY <1>0 DEF CircuitRunsOut
<1>7. VerdictsOld'
  BY <1>0, <1>3, <1>4 DEF VerdictsOld
<1>8. TroubleForgotten' /\ NoClient'
  BY <1>0, <1>1 DEF TroubleForgotten, NoClient, CallIs
<1> QED
  BY <1>2, <1>5, <1>6, <1>7, <1>8 DEF IInv
-----------------------------------------------------------------------------
LEMMA StepAsk == ASSUME IInv, NEW p \in Request, Ask(p) PROVE IInv'
<1>0. /\ TypeOK /\ OneClock /\ QuietGoesOn /\ CircuitRunsOut /\ VerdictsOld /\ EntryOld
      /\ NoClient /\ TroubleForgotten
  BY DEF IInv
<1>1. CallIs(p, "asking", 0, FALSE, FALSE, quiet)
  BY <1>0, Asked
<1>2. UNCHANGED <<failures, circuit, rdb, cached, told, calm, quiet>>
  BY DEF Ask, breaker, weather
<1>3. TypeOK'
  BY <1>0, <1>1, <1>2, Types, TypesNext DEF CallIs
<1>4. \A x \in Request : Remembers(x)' =>
          \/ x = p /\ quiet > 0 /\ call'[x].quiet = quiet /\ call'[x].age = 0
          \/ Remembers(x) /\ call'[x] = call[x]
  BY <1>1 DEF Remembers, InFlight, CallIs
<1>5. \A x \in Request : Bad(x)' => Bad(x) /\ call'[x] = call[x]
  BY <1>1, <1>2 DEF Bad, CallIs
<1>6. quiet \in Nat /\ quiet <= Memory /\ (quiet > 0 => calm)
  BY <1>0, Types, Sizes
<1>7. OneClock' /\ CircuitRunsOut' /\ TroubleForgotten'
  BY <1>0, <1>2 DEF OneClock, CircuitRunsOut, TroubleForgotten
<1>8. QuietGoesOn'
  BY <1>0, <1>2, <1>4, <1>6, Sizes DEF QuietGoesOn
<1>9. VerdictsOld'
  BY <1>0, <1>2, <1>4, <1>5, <1>6 DEF VerdictsOld
<1>10. EntryOld'
  <2> SUFFICES ASSUME BadEntry', ~Stale'
               PROVE  /\ quiet' + cached'.left < Memory
                      /\ \A x \in Request : Remembers(x)' =>
                             call'[x].quiet + call'[x].age + cached'.left < Memory
    BY DEF EntryOld
  <2>1. BadEntry /\ ~Stale
    BY <1>2 DEF BadEntry, Stale
  <2>2. cached.left \in Int
    BY <1>0, <2>1, Types, EntryFields, Sizes DEF BadEntry
  <2> QED
    BY <1>0, <1>2, <1>4, <1>6, <2>1, <2>2 DEF EntryOld
<1>11. NoClient'
  BY <1>0, <1>1, <1>2 DEF NoClient, CallIs
<1> QED
  BY <1>3, <1>7, <1>8, <1>9, <1>10, <1>11 DEF IInv

LEMMA StepMiss == ASSUME IInv, NEW p \in Request, Miss(p) PROVE IInv'
<1>0. TypeOK /\ CircuitRunsOut /\ NoClient
  BY DEF IInv
<1>1. CallIs(p, "redis", call[p].age, call[p].redis, call[p].supabase, call[p].quiet)
  BY <1>0, Moved DEF Miss, Phase
<1>2. UNCHANGED <<failures, circuit, rdb, cached, told, calm, quiet>> /\ InFlight(p)
  BY DEF Miss, InFlight, breaker, weather
<1>3. ~Bad(p)'
  BY <1>1 DEF Bad, CallIs
<1>4. CircuitRunsOut' /\ failures' \in 0 .. Threshold /\ circuit' \in 0 .. OpenTicks
  BY <1>0, <1>2, Types DEF CircuitRunsOut
<1>5. call[p].redis \in BOOLEAN /\ call[p].supabase \in BOOLEAN
  BY <1>0, Types, CallFields
<1>6. ~rdb => ~call[p].redis
  BY <1>0 DEF NoClient
<1> QED
  BY <1>1, <1>2, <1>3, <1>4, <1>5, <1>6, Onward DEF Phase

LEMMA StepBeginPing == ASSUME IInv, NEW p \in Request, BeginPing(p) PROVE IInv'
<1>0. TypeOK /\ CircuitRunsOut /\ NoClient
  BY DEF IInv
<1> DEFINE ph == IF ~rdb \/ CircuitOpen THEN "supabase" ELSE "pinging"
<1>1. ph \in Phase /\ ph # "idle"
  BY DEF Phase
<1>2. CallIs(p, ph, call[p].age, call[p].redis, call[p].supabase, call[p].quiet)
  BY <1>0, <1>1, Moved DEF BeginPing
<1>3. UNCHANGED <<failures, circuit, rdb, cached, told, calm, quiet>> /\ InFlight(p)
  BY DEF BeginPing, InFlight, breaker, weather
<1>4. Bad(p)' => quiet < OpenTicks
  <2>1. CASE ~rdb \/ ~CircuitOpen
    BY <1>2, <1>3, <2>1 DEF Bad, CallIs
  <2>2. CASE CircuitOpen
    <3>1. quiet \in Nat /\ circuit \in Nat
      BY <1>0, Types, Sizes
    <3> QED
      BY <1>0, <2>2, <3>1, Sizes DEF CircuitOpen, CircuitRunsOut
  <2> QED
    BY <2>1, <2>2
<1>5. CircuitRunsOut' /\ failures' \in 0 .. Threshold /\ circuit' \in 0 .. OpenTicks
  BY <1>0, <1>3, Types DEF CircuitRunsOut
<1>6. call[p].redis \in BOOLEAN /\ call[p].supabase \in BOOLEAN
  BY <1>0, Types, CallFields
<1>7. ~rdb => ph # "pinging" /\ ~call[p].redis
  BY <1>0 DEF NoClient
<1> HIDE DEF ph
<1> QED
  BY <1>1, <1>2, <1>3, <1>4, <1>5, <1>6, <1>7, Onward

\* What the answers of Redis do to the circuit.
LEMMA Heard ==
    ASSUME TypeOK, CircuitRunsOut, UNCHANGED quiet,
           MarkRedisSuccess \/ (quiet = 0 /\ MarkRedisFailure)
    PROVE  failures' \in 0 .. Threshold /\ circuit' \in 0 .. OpenTicks /\ CircuitRunsOut'
<1>1. failures \in 0 .. Threshold /\ circuit \in 0 .. OpenTicks /\ quiet \in Nat
  BY Types, Sizes
<1>2. CASE MarkRedisSuccess
  BY <1>1, <1>2, Sizes DEF MarkRedisSuccess, CircuitRunsOut
<1>3. CASE quiet = 0 /\ MarkRedisFailure
  BY <1>1, <1>3, Sizes DEF MarkRedisFailure, CircuitRunsOut
<1> QED
  BY <1>2, <1>3

LEMMA StepPong == ASSUME IInv, NEW p \in Request, Pong(p) PROVE IInv'
<1>0. TypeOK /\ CircuitRunsOut /\ NoClient
  BY DEF IInv
<1>1. PICK ok \in BOOLEAN :
          /\ calm => ok
          /\ IF ok THEN MarkRedisSuccess ELSE MarkRedisFailure
          /\ call' = [call EXCEPT ![p].phase = "supabase", ![p].redis = ok]
  BY DEF Pong
<1>2. CallIs(p, "supabase", call[p].age, ok, call[p].supabase, call[p].quiet)
  BY <1>0, <1>1, Ponged
<1>3. UNCHANGED <<rdb, cached, told, calm, quiet>> /\ InFlight(p)
  BY DEF Pong, InFlight, weather
<1>4. ~ok => quiet = 0
  BY <1>0, <1>1, Types
<1>5. failures' \in 0 .. Threshold /\ circuit' \in 0 .. OpenTicks /\ CircuitRunsOut'
  BY <1>0, <1>1, <1>3, <1>4, Heard
<1>6. Bad(p)' => quiet < OpenTicks
  BY <1>2, <1>4, Sizes DEF Bad, CallIs
<1>7. call[p].supabase \in BOOLEAN
  BY <1>0, Types, CallFields
<1>8. rdb
  BY <1>0 DEF NoClient, Pong
<1> QED
  BY <1>2, <1>3, <1>5, <1>6, <1>7, <1>8, Onward DEF Phase

LEMMA StepSupabase == ASSUME IInv, NEW p \in Request, Supabase(p) PROVE IInv'
<1>0. TypeOK /\ CircuitRunsOut /\ NoClient
  BY DEF IInv
<1>1. PICK ok \in BOOLEAN :
          /\ calm => ok
          /\ call' = [call EXCEPT ![p].phase = "storing", ![p].supabase = ok]
  BY DEF Supabase
<1>2. CallIs(p, "storing", call[p].age, call[p].redis, ok, call[p].quiet)
  BY <1>0, <1>1, Judged
<1>3. UNCHANGED <<failures, circuit, rdb, cached, told, calm, quiet>>
  BY DEF Supabase, breaker, weather
<1>4. InFlight(p) /\ call[p].phase = "supabase"
  BY DEF Supabase, InFlight
<1>5. ~ok => quiet = 0
  BY <1>0, <1>1, Types
<1>6. failures' \in 0 .. Threshold /\ circuit' \in 0 .. OpenTicks /\ CircuitRunsOut'
  BY <1>0, <1>3, Types DEF CircuitRunsOut
<1>7. Bad(p)' => Bad(p) \/ quiet < OpenTicks
  BY <1>2, <1>3, <1>4, <1>5, Sizes DEF Bad, CallIs
<1>8. call[p].redis \in BOOLEAN
  BY <1>0, Types, CallFields
<1>9. ~rdb => ~call[p].redis
  BY <1>0 DEF NoClient
<1> QED
  BY <1>2, <1>3, <1>4, <1>6, <1>7, <1>8, <1>9, Onward DEF Phase

LEMMA StepHit == ASSUME IInv, NEW p \in Request, Hit(p) PROVE IInv'
<1>0. TypeOK /\ OneClock /\ EntryOld /\ NoClient
  BY DEF IInv
<1>1. call[p].phase = "asking" /\ cached # Nil /\ cached.left + call[p].age > 0
  BY DEF Hit, Usable
<1>2. Respond(p, cached.redis, cached.supabase) /\ UNCHANGED <<failures, circuit, rdb, cached, calm, quiet>>
  BY DEF Hit, breaker, weather
<1>3. cached \in Entry /\ cached \in Entry \cup {Nil}
  BY <1>0, <1>1, Types
<1>4. cached.redis \in BOOLEAN /\ cached.supabase \in BOOLEAN /\ cached.left \in Int
  BY <1>3, EntryFields, Sizes
<1>5. call[p].age \in 0 .. MaxDelay /\ call[p].quiet \in Nat
  BY <1>0, Types, CallFields, Sizes
<1>6. InFlight(p)
  BY <1>1 DEF InFlight
<1>12. ~rdb => ~cached.redis /\ (cached' # Nil => ~cached'.redis)
  BY <1>0, <1>1, <1>2 DEF NoClient
<1>7. ASSUME call[p].quiet = Memory
      PROVE  (cached.redis <=> rdb) /\ cached.supabase
  <2> SUFFICES ASSUME BadEntry PROVE FALSE
    BY <1>0, <1>1, <1>12 DEF BadEntry
  <2>1. Remembers(p)
    BY <1>6, <1>7, Sizes DEF Remembers
  <2>2. ~Stale
    BY <1>1, <1>4, <1>5, Sizes DEF Stale
  <2>3. call[p].quiet + call[p].age + cached.left < Memory
    BY <1>0, <2>1, <2>2 DEF EntryOld
  <2> QED
    BY <1>1, <1>4, <1>5, <1>7, <2>3, Sizes
<1>8. OneClock'
  BY <1>0, <1>2 DEF OneClock
<1>9. CallIs(p, "idle", 0, FALSE, FALSE, 0)
  BY <1>0, <1>2, <1>4, Answered
<1>10. \A x \in Request : Remembers(x)' => Remembers(x) /\ call'[x] = call[x]
  BY <1>9 DEF Remembers, InFlight, CallIs
<1>11. EntryOld'
  BY <1>0, <1>2, <1>10 DEF EntryOld, BadEntry, Stale
<1> QED
  BY <1>2, <1>3, <1>4, <1>6, <1>7, <1>8, <1>11, <1>12, Ends

LEMMA StepStore == ASSUME IInv, NEW p \in Request, Store(p) PROVE IInv'
<1>0. TypeOK /\ OneClock /\ EntryOld /\ VerdictsOld /\ QuietGoesOn /\ NoClient
  BY DEF IInv
<1> DEFINE new == [redis |-> call[p].redis, supabase |-> call[p].supabase,
                   age |-> call[p].age, left |-> TTL - call[p].age]
<1>1. /\ call[p].phase = "storing" /\ InFlight(p)
      /\ Respond(p, call[p].redis, call[p].supabase)
      /\ cached' = IF TTL = 0 THEN cached ELSE new
      /\ UNCHANGED <<failures, circuit, rdb, calm, quiet>>
  BY DEF Store, InFlight, breaker, weather
<1>2. /\ call[p].redis \in BOOLEAN /\ call[p].supabase \in BOOLEAN
      /\ call[p].age \in 0 .. MaxDelay /\ call[p].quiet \in 0 .. Memory
  BY <1>0, Types, CallFields
<1>3. \A x \in Request : call[x].age \in Nat /\ call[x].quiet \in Nat
  BY <1>0, Types, CallFields, Sizes
<1>4. new \in Entry
  BY <1>2, Sizes DEF Entry
<1>5. cached' \in Entry \cup {Nil}
  BY <1>0, <1>1, <1>4, Types
<1>6. OneClock'
  BY <1>0, <1>1, <1>2, Sizes DEF OneClock
<1>7. CallIs(p, "idle", 0, FALSE, FALSE, 0)
  BY <1>0, <1>1, <1>2, Answered
<1>8. \A x \in Request : Remembers(x)' => Remembers(x) /\ call'[x] = call[x]
  BY <1>7 DEF Remembers, InFlight, CallIs
<1>9. quiet \in Nat
  BY <1>0, Types, Sizes
<1>10. EntryOld'
  <2>1. CASE TTL = 0
    <3>1. cached' = cached /\ quiet' = quiet /\ rdb' = rdb
      BY <1>1, <2>1
    <3> QED
      BY <1>0, <1>8, <3>1 DEF EntryOld, BadEntry, Stale
  <2>2. CASE TTL # 0
    <3>1. cached' = new /\ quiet' = quiet /\ rdb' = rdb
      BY <1>1, <2>2
    <3> SUFFICES ASSUME BadEntry'
                 PROVE  /\ quiet + (TTL - call[p].age) < Memory
                        /\ \A x \in Request : Remembers(x) =>
                               call[x].quiet + call[x].age + (TTL - call[p].age) < Memory
      BY <1>8, <3>1 DEF EntryOld
    <3>2. Bad(p)
      BY <1>1, <3>1 DEF BadEntry, Bad
    <3> QED
      BY <1>0, <1>2, <1>3, <1>9, <3>2, Sizes DEF VerdictsOld
  <2> QED
    BY <2>1, <2>2
<1>12. ~rdb => ~call[p].redis /\ (cached' # Nil => ~cached'.redis)
  BY <1>0, <1>1 DEF NoClient
<1>11. call[p].quiet = Memory => (call[p].redis <=> rdb) /\ call[p].supabase
  <2> SUFFICES ASSUME call[p].quiet = Memory, Bad(p) PROVE FALSE
    BY <1>1, <1>12 DEF Bad
  <2>1. Remembers(p)
    BY <1>1, Sizes DEF Remembers
  <2>2. call[p].quiet + call[p].age < OpenTicks + call[p].age
    BY <1>0, <2>1 DEF VerdictsOld
  <2> QED
    BY <1>2, <2>2, Sizes
<1> HIDE DEF new
<1> QED
  BY <1>1, <1>2, <1>5, <1>6, <1>10, <1>11, <1>12, Ends

LEMMA StepCheck == ASSUME IInv, Check PROVE IInv'
<1>0. /\ TypeOK /\ OneClock /\ QuietGoesOn /\ CircuitRunsOut /\ VerdictsOld /\ EntryOld
      /\ NoClient /\ TroubleForgotten
  BY DEF IInv
<1>1. UNCHANGED <<rdb, cached, call, told, calm, quiet>>
  BY DEF Check, weather
<1>2. ~calm => quiet = 0
  BY <1>0, Types
<1>3. failures' \in 0 .. Threshold /\ circuit' \in 0 .. OpenTicks /\ CircuitRunsOut'
  BY <1>0, <1>1, <1>2, Heard DEF Check
<1>4. TypeOK'
  BY <1>0, <1>1, <1>3, Types, TypesNext
<1>5. OneClock' /\ QuietGoesOn' /\ TroubleForgotten'
  BY <1>0, <1>1 DEF OneClock, QuietGoesOn, TroubleForgotten, Remembers, InFlight
<1>6. VerdictsOld' /\ EntryOld' /\ NoClient'
  BY <1>0, <1>1 DEF VerdictsOld, EntryOld, NoClient, Bad, BadEntry, Stale, Remembers, InFlight
<1> QED
  BY <1>3, <1>4, <1>5, <1>6 DEF IInv

LEMMA StepCalmDown == ASSUME IInv, CalmDown PROVE IInv'
<1>0. /\ TypeOK /\ OneClock /\ QuietGoesOn /\ CircuitRunsOut /\ VerdictsOld /\ EntryOld
      /\ NoClient /\ TroubleForgotten
  BY DEF IInv
<1>1. UNCHANGED <<failures, circuit, rdb, cached, call, told, quiet>> /\ ~calm /\ calm' = TRUE
  BY DEF CalmDown, breaker
<1>2. \A p \in Request : ~Remembers(p)
  BY <1>0, <1>1 DEF QuietGoesOn
<1>3. TypeOK'
  BY <1>0, <1>1, Types, TypesNext
<1>4. OneClock' /\ CircuitRunsOut' /\ NoClient' /\ TroubleForgotten'
  BY <1>0, <1>1 DEF OneClock, CircuitRunsOut, NoClient, TroubleForgotten
<1>5. QuietGoesOn' /\ VerdictsOld' /\ EntryOld'
  BY <1>0, <1>1, <1>2
     DEF QuietGoesOn, VerdictsOld, EntryOld, Bad, BadEntry, Stale, Remembers, InFlight
<1> QED
  BY <1>3, <1>4, <1>5 DEF IInv

LEMMA StepStutter == ASSUME IInv, UNCHANGED vars PROVE IInv'
<1>1. UNCHANGED <<failures, circuit, rdb, cached, call, told, calm, quiet>>
  BY DEF vars
<1>2. TypeOK' /\ OneClock' /\ CircuitRunsOut' /\ NoClient' /\ TroubleForgotten'
  BY <1>1, Types, TypesNext DEF IInv, OneClock, CircuitRunsOut, NoClient, TroubleForgotten
<1>3. QuietGoesOn' /\ VerdictsOld' /\ EntryOld'
  BY <1>1
     DEF IInv, QuietGoesOn, VerdictsOld, EntryOld, Bad, BadEntry, Stale, Remembers, InFlight
<1> QED
  BY <1>2, <1>3 DEF IInv

\* What a tick does to the requests: those in flight grow older.
LEMMA RequestsAge ==
    ASSUME TypeOK, Tick
    PROVE  /\ call' \in [Request -> Call]
           /\ \A x \in Request :
                 /\ call'[x].phase = call[x].phase /\ call'[x].redis = call[x].redis
                 /\ call'[x].supabase = call[x].supabase /\ call'[x].quiet = call[x].quiet
                 /\ InFlight(x) => call'[x].age = call[x].age + 1
<1>1. call' = [x \in Request |-> IF call[x].phase = "idle" THEN call[x]
                                 ELSE [call[x] EXCEPT !.age = @ + 1]]
  BY DEF Tick
<1>2. \A x \in Request : InFlight(x) => call[x].age < MaxDelay
  BY DEF Tick, InFlight
<1>3. ASSUME NEW x \in Request
      PROVE  /\ call'[x] \in Call
             /\ call'[x].phase = call[x].phase /\ call'[x].redis = call[x].redis
             /\ call'[x].supabase = call[x].supabase /\ call'[x].quiet = call[x].quiet
             /\ InFlight(x) => call'[x].age = call[x].age + 1
  <2>0. call[x] \in Call
    BY Types
  <2>1. CASE call[x].phase = "idle"
    BY <1>1, <2>0, <2>1 DEF InFlight
  <2>2. CASE call[x].phase # "idle"
    <3>1. call[x].age \in 0 .. MaxDelay /\ call[x].age < MaxDelay
      BY <1>2, <2>0, <2>2, CallFields DEF InFlight
    <3>2. call[x].age + 1 \in 0 .. MaxDelay
      BY <3>1, Sizes
    <3>3. call'[x] = [call[x] EXCEPT !.age = call[x].age + 1]
      BY <1>1, <2>2
    <3> QED
      BY <2>0, <3>2, <3>3 DEF Call
  <2> QED
    BY <2>1, <2>2
<1>4. call' \in [Request -> Call]
  BY <1>1, <1>3
<1> QED
  BY <1>3, <1>4

\* What it does to the entry, if there is one.
LEMMA EntryAges ==
    ASSUME TypeOK, OneClock, Tick
    PROVE  /\ cached' \in Entry \cup {Nil}
           /\ cached' = Nil <=> cached = Nil
           /\ cached # Nil =>
                 /\ cached.left \in -MaxDelay .. TTL
                 /\ cached'.age + cached'.left = TTL
                 /\ cached'.redis = cached.redis /\ cached'.supabase = cached.supabase
                 /\ cached'.left = IF Stale THEN cached.left ELSE cached.left - 1
<1>1. CASE cached = Nil
  BY <1>1 DEF Tick
<1>2. CASE cached # Nil
  <2>1. cached \in Entry
    BY <1>2, Types
  <2>2. /\ cached.age \in 0 .. TTL + MaxDelay /\ cached.left \in -MaxDelay .. TTL
        /\ cached.age + cached.left = TTL
    BY <1>2, <2>1, EntryFields DEF OneClock
  <2>3. cached' = [cached EXCEPT
                      !.age = IF cached.age = TTL + MaxDelay THEN cached.age ELSE cached.age + 1,
                      !.left = IF cached.left = -MaxDelay THEN cached.left ELSE cached.left - 1]
    BY <1>2 DEF Tick
  <2>4. cached.age = TTL + MaxDelay <=> cached.left = -MaxDelay
    BY <2>2, Sizes
  <2>5. CASE Stale
    <3>1. cached' = cached
      BY <2>1, <2>3, <2>4, <2>5 DEF Stale, Entry
    <3> QED
      BY <1>2, <2>1, <2>2, <2>5, <3>1
  <2>6. CASE ~Stale
    <3>1. cached' = [cached EXCEPT !.age = cached.age + 1, !.left = cached.left - 1]
      BY <2>3, <2>4, <2>6 DEF Stale
    <3>2. cached.age + 1 \in 0 .. TTL + MaxDelay /\ cached.left - 1 \in -MaxDelay .. TTL
      BY <2>2, <2>4, <2>6, Sizes DEF Stale
    <3>3. /\ cached' \in Entry /\ cached'.age = cached.age + 1 /\ cached'.left = cached.left - 1
          /\ cached'.redis = cached.redis /\ cached'.supabase = cached.supabase
      BY <2>1, <3>1, <3>2 DEF Entry
    <3> QED
      BY <1>2, <2>2, <2>6, <3>3, Sizes, NilAssumption
  <2> QED
    BY <2>5, <2>6
<1> QED
  BY <1>1, <1>2

LEMMA StepTick == ASSUME IInv, Tick PROVE IInv'
<1>0. /\ TypeOK /\ OneClock /\ QuietGoesOn /\ CircuitRunsOut /\ VerdictsOld /\ EntryOld
      /\ NoClient /\ TroubleForgotten
  BY DEF IInv
<1>1. UNCHANGED <<failures, rdb, told, calm>>
      /\ quiet' = (IF calm /\ quiet < Memory THEN quiet + 1 ELSE quiet)
      /\ circuit' = IF circuit > 0 THEN circuit - 1 ELSE 0
  BY DEF Tick, CircuitTick, CircuitOpen
<1>2. quiet \in 0 .. Memory /\ circuit \in 0 .. OpenTicks
  BY <1>0, Types
<1>3. quiet' \in 0 .. Memory /\ circuit' \in 0 .. OpenTicks /\ quiet' <= quiet + 1
  BY <1>1, <1>2, Sizes
<1>4. /\ call' \in [Request -> Call]
      /\ \A x \in Request :
            /\ call'[x].phase = call[x].phase /\ call'[x].redis = call[x].redis
            /\ call'[x].supabase = call[x].supabase /\ call'[x].quiet = call[x].quiet
            /\ InFlight(x) => call'[x].age = call[x].age + 1
  BY <1>0, RequestsAge
<1>5. /\ cached' \in Entry \cup {Nil}
      /\ cached' = Nil <=> cached = Nil
      /\ cached # Nil =>
            /\ cached.left \in -MaxDelay .. TTL
            /\ cached'.age + cached'.left = TTL
            /\ cached'.redis = cached.redis /\ cached'.supabase = cached.supabase
            /\ cached'.left = IF Stale THEN cached.left ELSE cached.left - 1
  BY <1>0, EntryAges
<1>6. \A x \in Request : call[x].age \in Nat /\ call[x].quiet \in Nat
  BY <1>0, Types, CallFields, Sizes
<1>7. \A x \in Request : Remembers(x)' => /\ Remembers(x) /\ call'[x].quiet = call[x].quiet
                                          /\ call'[x].age = call[x].age + 1
  BY <1>4 DEF Remembers, InFlight
<1>8. \A x \in Request : Bad(x)' => Bad(x) /\ call'[x].age = call[x].age + 1
  BY <1>1, <1>4 DEF Bad, InFlight
<1>9. TypeOK'
  <2>1. quiet' > 0 => calm'
    BY <1>0, <1>1, <1>2, Types
  <2> QED
    BY <1>0, <1>1, <1>3, <1>4, <1>5, <2>1, Types, TypesNext
<1>10. OneClock' /\ NoClient' /\ TroubleForgotten'
  BY <1>0, <1>1, <1>4, <1>5 DEF OneClock, NoClient, TroubleForgotten
<1>11. QuietGoesOn'
  <2> SUFFICES ASSUME NEW x \in Request, Remembers(x)'
               PROVE  calm' /\ quiet' = IF call'[x].quiet + call'[x].age < Memory
                                        THEN call'[x].quiet + call'[x].age ELSE Memory
    BY DEF QuietGoesOn
  <2>1. /\ call'[x].quiet = call[x].quiet /\ call'[x].age = call[x].age + 1
        /\ calm /\ quiet = IF call[x].quiet + call[x].age < Memory
                           THEN call[x].quiet + call[x].age ELSE Memory
    BY <1>0, <1>7 DEF QuietGoesOn
  <2> QED
    BY <1>1, <1>2, <1>6, <2>1, Sizes
<1>12. CircuitRunsOut'
  BY <1>0, <1>1, <1>2, <1>3, Sizes DEF CircuitRunsOut
<1>13. VerdictsOld'
  <2> SUFFICES ASSUME NEW q \in Request, Bad(q)'
               PROVE  /\ quiet' < OpenTicks + call'[q].age
                      /\ \A x \in Request : Remembers(x)' =>
                             call'[x].quiet + call'[x].age < OpenTicks + call'[q].age
    BY DEF VerdictsOld
  <2>1. /\ call'[q].age = call[q].age + 1 /\ quiet < OpenTicks + call[q].age
        /\ \A x \in Request : Remembers(x) => call[x].quiet + call[x].age < OpenTicks + call[q].age
    BY <1>0, <1>8 DEF VerdictsOld
  <2>2. quiet' < OpenTicks + call'[q].age
    BY <1>2, <1>3, <1>6, <2>1, Sizes
  <2>3. ASSUME NEW x \in Request, Remembers(x)'
        PROVE  call'[x].quiet + call'[x].age < OpenTicks + call'[q].age
    <3>1. call'[x].quiet = call[x].quiet /\ call'[x].age = call[x].age + 1 /\ Remembers(x)
      BY <1>7, <2>3
    <3> QED
      BY <1>6, <2>1, <3>1, Sizes
  <2> QED
    BY <2>2, <2>3
<1>14. EntryOld'
  <2> SUFFICES ASSUME BadEntry', ~Stale'
               PROVE  /\ quiet' + cached'.left < Memory
                      /\ \A x \in Request : Remembers(x)' =>
                             call'[x].quiet + call'[x].age + cached'.left < Memory
    BY DEF EntryOld
  <2>1. BadEntry /\ cached # Nil
    BY <1>1, <1>5 DEF BadEntry
  <2>2. ~Stale
    BY <1>5, <2>1 DEF Stale
  <2>3. cached.left \in Int /\ cached'.left = cached.left - 1
    BY <1>5, <2>1, <2>2, Sizes
  <2>4. /\ quiet + cached.left < Memory
        /\ \A x \in Request : Remembers(x) => call[x].quiet + call[x].age + cached.left < Memory
    BY <1>0, <2>1, <2>2 DEF EntryOld
  <2>5. quiet' + cached'.left < Memory
    BY <1>2, <1>3, <2>3, <2>4, Sizes
  <2>6. ASSUME NEW x \in Request, Remembers(x)'
        PROVE  call'[x].quiet + call'[x].age + cached'.left < Memory
    <3>1. call'[x].quiet = call[x].quiet /\ call'[x].age = call[x].age + 1 /\ Remembers(x)
      BY <1>7, <2>6
    <3> QED
      BY <1>6, <2>3, <2>4, <3>1, Sizes
  <2> QED
    BY <2>5, <2>6
<1> QED
  BY <1>9, <1>10, <1>11, <1>12, <1>13, <1>14 DEF IInv
-----------------------------------------------------------------------------
LEMMA InitIInv == Init => IInv
<1> SUFFICES ASSUME Init PROVE IInv
  OBVIOUS
<1>1. /\ failures = 0 /\ circuit = 0 /\ cached = Nil /\ call = [p \in Request |-> Idle]
      /\ told = [redis |-> rdb, supabase |-> TRUE, quiet |-> 0] /\ rdb \in BOOLEAN
      /\ calm = FALSE /\ quiet = 0
  BY DEF Init, CircuitInit
<1>2. TypeOK
  <2>1. call \in [Request -> Call] /\ told \in Answer
    BY <1>1, IdleType, Sizes DEF Answer
  <2>2. failures \in 0 .. Threshold /\ circuit \in 0 .. OpenTicks /\ quiet \in 0 .. Memory
    BY <1>1, Sizes
  <2>3. cached \in Entry \cup {Nil} /\ calm \in BOOLEAN
    BY <1>1
  <2>4. ~(quiet > 0)
    BY <1>1, SMT
  <2> QED
    BY <1>1, <2>1, <2>2, <2>3, <2>4, Types
<1>3. \A p \in Request : call[p].phase = "idle"
  BY <1>1 DEF Idle
<1>4. OneClock /\ CircuitRunsOut /\ TroubleForgotten
  BY <1>1 DEF OneClock, CircuitRunsOut, TroubleForgotten
<1>6. NoClient
  BY <1>1 DEF NoClient, Idle
<1>5. QuietGoesOn /\ VerdictsOld /\ EntryOld
  BY <1>1, <1>3 DEF QuietGoesOn, VerdictsOld, EntryOld, Remembers, InFlight, Bad, BadEntry
<1> QED
  BY <1>2, <1>4, <1>5, <1>6 DEF IInv

LEMMA Inductive == IInv /\ [Next]_vars => IInv'
<1> SUFFICES ASSUME IInv, [Next]_vars PROVE IInv'
  OBVIOUS
<1>1. ASSUME NEW p \in Request,
             \/ Ask(p) \/ Hit(p) \/ Miss(p) \/ BeginPing(p) \/ Pong(p) \/ Supabase(p) \/ Store(p)
      PROVE  IInv'
  BY <1>1, StepAsk, StepHit, StepMiss, StepBeginPing, StepPong, StepSupabase, StepStore
<1>2. CASE Check
  BY <1>2, StepCheck
<1>3. CASE CalmDown
  BY <1>3, StepCalmDown
<1>4. CASE Tick
  BY <1>4, StepTick
<1>5. CASE UNCHANGED vars
  BY <1>5, StepStutter
<1> QED
  BY <1>1, <1>2, <1>3, <1>4, <1>5 DEF Next

\* The inductive invariant: it holds in every reachable state of the readiness cache.
THEOREM Invariance == Spec => []IInv
<1>1. Init => IInv
  BY InitIInv
<1>2. IInv /\ [Next]_vars => IInv'
  BY Inductive
<1> QED
  BY <1>1, <1>2, PTL DEF Spec

\* Every variable of the cache, the requests and the circuit stays in its range.
THEOREM TypeCorrect == Spec => []TypeOK
<1>1. IInv => TypeOK
  BY DEF IInv
<1> QED
  BY <1>1, Invariance, PTL

\* An answer out of the cache rests on checks that began less than TTL before the request
\* came, for any number of requests and however long their checks take.
THEOREM CacheIsRecent == Spec => []HitIsRecent
<1>1. ASSUME IInv PROVE HitIsRecent
  <2>1. TypeOK /\ OneClock
    BY <1>1 DEF IInv
  <2> SUFFICES ASSUME NEW p \in Request, cached # Nil, cached.left + call[p].age > 0
               PROVE  cached.age - call[p].age < TTL
    BY DEF HitIsRecent, Usable
  <2>2. cached.age \in Int /\ cached.left \in Int
    BY <2>1, Types, EntryFields, Sizes
  <2>3. call[p].age \in Int
    BY <2>1, Types, CallFields
  <2> QED
    BY <2>1, <2>2, <2>3, Sizes DEF OneClock
<1> QED
  BY <1>1, Invariance, PTL

\* A request that comes OpenTicks + TTL after the last trouble hears nothing of it, for any
\* number of requests that overwrite each other's answers, and hears that Redis is up exactly
\* if the server had connected to it at its start.
THEOREM TroubleIsForgotten == Spec => []TroubleForgotten
<1>1. IInv => TroubleForgotten
  BY DEF IInv
<1> QED
  BY <1>1, Invariance, PTL
-----------------------------------------------------------------------------
(* The breaker, which both modules move by its own steps only.             *)

\* The breaker counts no further than Threshold, and is open only when it has got there.
CircuitInv == CircuitType /\ CircuitNeedsFailures

LEMMA CircuitMoves ==
    ASSUME CircuitInv,
           \/ MarkRedisSuccess \/ MarkRedisFailure \/ CircuitTick
           \/ UNCHANGED <<failures, circuit>>
    PROVE  CircuitInv'
<1>1. /\ failures \in 0 .. Threshold /\ circuit \in 0 .. OpenTicks
      /\ circuit > 0 => failures = Threshold
      /\ Threshold \in Nat \ {0} /\ OpenTicks \in Nat \ {0}
  BY CircuitAssumption DEF CircuitInv, CircuitType, CircuitNeedsFailures, CircuitOpen
<1>2. /\ failures' \in 0 .. Threshold /\ circuit' \in 0 .. OpenTicks
      /\ circuit' > 0 => failures' = Threshold
  <2>1. CASE MarkRedisSuccess
    BY <1>1, <2>1 DEF MarkRedisSuccess
  <2>2. CASE MarkRedisFailure
    BY <1>1, <2>2 DEF MarkRedisFailure
  <2>3. CASE CircuitTick
    BY <1>1, <2>3 DEF CircuitTick, CircuitOpen
  <2>4. CASE UNCHANGED <<failures, circuit>>
    BY <1>1, <2>4
  <2>5. QED
    BY <2>1, <2>2, <2>3, <2>4
<1>3. QED
  BY <1>2 DEF CircuitInv, CircuitType, CircuitNeedsFailures, CircuitOpen

LEMMA RateMovesCircuit ==
    ASSUME [Rate!Next]_(Rate!vars)
    PROVE  \/ MarkRedisSuccess \/ MarkRedisFailure \/ CircuitTick
           \/ UNCHANGED <<failures, circuit>>
<1>1. ASSUME NEW c \in Caller, NEW k \in Key, Rate!Begin(c, k) PROVE UNCHANGED <<failures, circuit>>
  BY <1>1 DEF Rate!Begin
<1>2. ASSUME NEW c \in Caller, Rate!Eval(c) \/ Rate!CheckLocal(c) \/ Rate!BeginPing(c)
      PROVE  UNCHANGED <<failures, circuit>>
  BY <1>2 DEF Rate!Eval, Rate!CheckLocal, Rate!BeginPing
<1>3. ASSUME NEW c \in Caller, Rate!Answer(c) \/ Rate!Fail(c) \/ Rate!Pong(c)
      PROVE  MarkRedisSuccess \/ MarkRedisFailure
  BY <1>3 DEF Rate!Answer, Rate!Fail, Rate!Pong, Rate!MarkRedisSuccess, Rate!MarkRedisFailure,
              MarkRedisSuccess, MarkRedisFailure
<1>4. ASSUME Rate!Tick PROVE CircuitTick
  BY <1>4 DEF Rate!Tick, Rate!CircuitTick, Rate!CircuitOpen, CircuitTick, CircuitOpen
<1>5. CASE UNCHANGED Rate!vars
  BY <1>5 DEF Rate!vars
<1>6. ASSUME NEW k \in Key, Rate!Expire(k) PROVE UNCHANGED <<failures, circuit>>
  BY <1>6 DEF Rate!Expire
<1>7. QED
  BY <1>1, <1>2, <1>3, <1>4, <1>5, <1>6 DEF Rate!Next

LEMMA ReadinessMovesCircuit ==
    ASSUME [Next]_vars
    PROVE  \/ MarkRedisSuccess \/ MarkRedisFailure \/ CircuitTick
           \/ UNCHANGED <<failures, circuit>>
<1>1. ASSUME NEW p \in Request,
             Ask(p) \/ Hit(p) \/ Miss(p) \/ BeginPing(p) \/ Supabase(p) \/ Store(p)
      PROVE  UNCHANGED <<failures, circuit>>
  BY <1>1 DEF Ask, Hit, Miss, BeginPing, Supabase, Store, breaker
<1>2. ASSUME NEW p \in Request, Pong(p) PROVE MarkRedisSuccess \/ MarkRedisFailure
  BY <1>2 DEF Pong
<1>3. ASSUME Check PROVE MarkRedisSuccess \/ MarkRedisFailure
  BY <1>3 DEF Check
<1>4. ASSUME Tick PROVE CircuitTick
  BY <1>4 DEF Tick
<1>5. CASE CalmDown \/ UNCHANGED vars
  BY <1>5 DEF CalmDown, breaker, vars
<1>6. QED
  BY <1>1, <1>2, <1>3, <1>4, <1>5 DEF Next

LEMMA RateKeepsCircuit == Rate!Spec => []CircuitInv
<1>1. Rate!Init => CircuitInv
  BY CircuitAssumption DEF Rate!Init, Rate!CircuitInit, CircuitInv, CircuitType, CircuitNeedsFailures,
                           CircuitOpen
<1>2. CircuitInv /\ [Rate!Next]_(Rate!vars) => CircuitInv'
  BY CircuitMoves, RateMovesCircuit
<1>3. QED
  BY <1>1, <1>2, PTL DEF Rate!Spec

LEMMA ReadinessKeepsCircuit == Spec => []CircuitInv
<1>1. Init => CircuitInv
  BY CircuitAssumption DEF Init, CircuitInit, CircuitInv, CircuitType, CircuitNeedsFailures, CircuitOpen
<1>2. CircuitInv /\ [Next]_vars => CircuitInv'
  BY CircuitMoves, ReadinessMovesCircuit
<1>3. QED
  BY <1>1, <1>2, PTL DEF Spec

\* However checks and pings overlap, and whatever late answers do to the breaker, Redis is no
\* longer asked only after Threshold failures with no success since: in RateStore, and in
\* Readiness, where requests of its own move the breaker too.
THEOREM CircuitOpensForAReason ==
    /\ Rate!Spec => []CircuitNeedsFailures
    /\ Spec => []CircuitNeedsFailures
<1>1. CircuitInv => CircuitNeedsFailures
  BY DEF CircuitInv
<1>2. QED
  BY <1>1, RateKeepsCircuit, ReadinessKeepsCircuit, PTL
-----------------------------------------------------------------------------
(* The sizes of windows.                                                   *)

\* The hits of some ages one by one.
OneByOne(h, s) == {hit \in s \X Nat : hit[2] < h[hit[1]]}

\* What RateStore assumes of its constants.
RateAssumptions ==
    /\ Rate!RedisAssumption /\ Rate!LimitAssumption /\ Rate!WindowAssumption
    /\ Rate!CapAssumption /\ Rate!NilAssumption

LEMMA RateConstants ==
    ASSUME RateAssumptions
    PROVE  /\ Window \in Nat \ {0} /\ CheckDelay \in Nat
           /\ IsFiniteSet(Rate!Age) /\ Rate!Age = 0 .. Window + CheckDelay - 1
           /\ Limit \in Nat \ {0} /\ LocalCap \in Nat \ {0} /\ LocalKeep \in 1 .. LocalCap
           /\ Nil \notin Rate!Hits /\ Nil \notin Key
<1>1. Window \in Nat \ {0} /\ CheckDelay \in Nat
  BY DEF RateAssumptions, Rate!WindowAssumption
<1>2. 0 \in Int /\ Window + CheckDelay - 1 \in Int
  BY <1>1
<1>3. IsFiniteSet(0 .. Window + CheckDelay - 1)
  BY <1>2, FS_Interval
<1>4. QED
  BY <1>1, <1>3 DEF RateAssumptions, Rate!LimitAssumption, Rate!CapAssumption,
                    Rate!NilAssumption, Rate!Age

LEMMA ColumnCount ==
    ASSUME NEW a, NEW n \in Nat
    PROVE  IsFiniteSet({a} \X (0 .. n - 1)) /\ Cardinality({a} \X (0 .. n - 1)) = n
<1>1. IsFiniteSet({a}) /\ Cardinality({a}) = 1
  BY FS_Singleton
<1>2. IsFiniteSet(0 .. n - 1) /\ Cardinality(0 .. n - 1) = n
  BY FS_Interval
<1>3. QED
  BY <1>1, <1>2, FS_Product

LEMMA CountFinite ==
    ASSUME NEW A, IsFiniteSet(A), NEW h \in [A -> Nat], NEW s \in SUBSET A
    PROVE  IsFiniteSet(OneByOne(h, s)) /\ Cardinality(OneByOne(h, s)) \in Nat
<1> DEFINE Col(a) == {a} \X (0 .. h[a] - 1)
           cols == {Col(a) : a \in s}
           f == [a \in s |-> Col(a)]
<1>1. IsFiniteSet(s)
  BY FS_Subset
<1>2. f \in Surjection(s, cols)
  BY DEF Surjection
<1>3. IsFiniteSet(cols)
  <2> HIDE DEF f, cols
  <2> QED BY <1>1, <1>2, FS_Surjection
<1>4. \A c \in cols : IsFiniteSet(c)
  <2>1. ASSUME NEW a \in s PROVE IsFiniteSet(Col(a))
    <3>1. h[a] \in Nat
      OBVIOUS
    <3>2. QED
      BY <3>1, ColumnCount
  <2> HIDE DEF Col
  <2>2. QED
    BY <2>1
<1>5. IsFiniteSet(UNION cols)
  <2> HIDE DEF cols
  <2> QED BY <1>3, <1>4, FS_UNION
<1>6. OneByOne(h, s) \subseteq UNION cols
  <2>1. ASSUME NEW u \in OneByOne(h, s) PROVE u \in Col(u[1]) /\ u[1] \in s
    BY <2>1 DEF OneByOne
  <2>2. QED
    BY <2>1
<1>7. QED
  BY <1>5, <1>6, FS_Subset, FS_CardinalityType

LEMMA CountStep ==
    ASSUME NEW A, IsFiniteSet(A), NEW h \in [A -> Nat], NEW s \in SUBSET A, NEW x \in s
    PROVE  Cardinality(OneByOne(h, s)) = h[x] + Cardinality(OneByOne(h, s \ {x}))
<1> DEFINE col == {x} \X (0 .. h[x] - 1)
           rest == OneByOne(h, s \ {x})
<1>1. IsFiniteSet(col) /\ Cardinality(col) = h[x] /\ h[x] \in Nat
  BY ColumnCount
<1>2. IsFiniteSet(rest) /\ Cardinality(rest) \in Nat
  BY CountFinite
<1>3. OneByOne(h, s) = col \cup rest
  BY DEF OneByOne
<1>4. col \cap rest = {}
  BY DEF OneByOne
<1>5. Cardinality({}) = 0
  BY FS_EmptySet
<1>6. Cardinality(col \cup rest) = h[x] + Cardinality(rest)
  <2> HIDE DEF col, rest
  <2> QED BY <1>1, <1>2, <1>4, <1>5, FS_Union
<1>7. QED
  BY <1>3, <1>6

LEMMA SizeCounts ==
    ASSUME NEW A, IsFiniteSet(A), NEW h \in [A -> Nat]
    PROVE  Rate!Size(h) = Cardinality(OneByOne(h, A))
<1> DEFINE Some(s) == CHOOSE x \in s : TRUE
           Rec(g) == [s \in SUBSET A |-> IF s = {} THEN 0 ELSE h[Some(s)] + g[s \ {Some(s)}]]
           iter == CHOOSE g : g = Rec(g)
           count == [s \in SUBSET A |-> Cardinality(OneByOne(h, s))]
<1>1. Rate!Size(h) = iter[A]
  BY DEF Rate!Size, Rate!FoldFunction, Rate!FoldFunctionOnSet, Rate!MapThenFoldSet
<1>2. count = Rec(count)
  <2>1. ASSUME NEW s \in SUBSET A
        PROVE  count[s] = IF s = {} THEN 0 ELSE h[Some(s)] + count[s \ {Some(s)}]
    <3>1. CASE s = {}
      <4>1. OneByOne(h, {}) = {}
        BY DEF OneByOne
      <4>2. QED
        BY <3>1, <4>1, FS_EmptySet
    <3>2. CASE s # {}
      <4>1. Some(s) \in s
        BY <3>2
      <4>2. s \ {Some(s)} \in SUBSET A
        OBVIOUS
      <4> HIDE DEF Some
      <4>3. QED
        BY <3>2, <4>1, <4>2, CountStep
    <3>3. QED
      BY <3>1, <3>2
  <2>2. QED
    BY <2>1
<1>3. iter = Rec(iter)
  <2> HIDE DEF count, Rec
  <2> QED BY <1>2
<1>4. ASSUME NEW s \in SUBSET A
      PROVE  /\ iter[s] = IF s = {} THEN 0 ELSE h[Some(s)] + iter[s \ {Some(s)}]
             /\ count[s] = IF s = {} THEN 0 ELSE h[Some(s)] + count[s \ {Some(s)}]
  <2>1. \A g : g = Rec(g) => g[s] = IF s = {} THEN 0 ELSE h[Some(s)] + g[s \ {Some(s)}]
    <3> HIDE DEF Some
    <3> QED OBVIOUS
  <2> HIDE DEF iter, count, Rec
  <2>2. QED
    BY <1>2, <1>3, <2>1
<1> HIDE DEF iter, count, Rec
<1>5. ASSUME {s \in SUBSET A : iter[s] # count[s]} # {} PROVE FALSE
  <2> DEFINE T == {s \in SUBSET A : iter[s] # count[s]}
  <2>1. PICK s \in T : \A r \in T : <<r, s>> \notin StrictSubsetOrdering(A)
    <3> HIDE DEF T
    <3>1. IsWellFoundedOn(StrictSubsetOrdering(A), SUBSET A)
      BY FS_StrictSubsetOrderingWellFounded, FS_FiniteSubsetsOfFinite
    <3>2. T \subseteq SUBSET A /\ T # {}
      BY <1>5 DEF T
    <3>3. QED
      BY <3>1, <3>2, WFMin
  <2>2. s \in SUBSET A /\ iter[s] # count[s]
    OBVIOUS
  <2>3. s # {}
    BY <1>4, <2>2
  <2>4. Some(s) \in s
    BY <2>3
  <2> HIDE DEF Some
  <2>5. s \ {Some(s)} \in SUBSET A /\ <<s \ {Some(s)}, s>> \in StrictSubsetOrdering(A)
    BY <2>2, <2>4 DEF StrictSubsetOrdering
  <2>6. iter[s \ {Some(s)}] = count[s \ {Some(s)}]
    BY <2>1, <2>5
  <2>7. QED
    BY <1>4, <2>2, <2>3, <2>6
<1>6. A \in SUBSET A /\ iter[A] = count[A]
  BY <1>5
<1>7. QED
  BY <1>1, <1>6 DEF count

LEMMA SizeType ==
    ASSUME RateAssumptions, NEW h \in Rate!Hits
    PROVE  /\ h \in [Rate!Age -> Nat] /\ Rate!Size(h) \in Nat
           /\ Rate!Size(h) = Cardinality(OneByOne(h, Rate!Age)) /\ IsFiniteSet(OneByOne(h, Rate!Age))
<1>1. IsFiniteSet(Rate!Age) /\ h \in [Rate!Age -> Nat]
  BY RateConstants DEF Rate!Hits
<1> HIDE DEF Rate!Age
<1>2. QED
  BY <1>1, SizeCounts, CountFinite

LEMMA SizeOfNone ==
    ASSUME RateAssumptions
    PROVE  Rate!NoHits \in Rate!Hits /\ Rate!Size(Rate!NoHits) = 0
<1>1. Rate!NoHits \in Rate!Hits
  BY DEF Rate!NoHits, Rate!Hits
<1>2. OneByOne(Rate!NoHits, Rate!Age) = {}
  BY DEF Rate!NoHits, OneByOne
<1>3. QED
  BY <1>1, <1>2, SizeType, FS_EmptySet

LEMMA SizeOfHit ==
    ASSUME RateAssumptions, NEW h \in Rate!Hits, NEW a \in Rate!Age
    PROVE  /\ Rate!WithHit(h, a) \in Rate!Hits
           /\ \A b \in Rate!Age : Rate!WithHit(h, a)[b] = IF b = a THEN h[b] + 1 ELSE h[b]
           /\ Rate!Size(Rate!WithHit(h, a)) = Rate!Size(h) + 1
<1> DEFINE g == Rate!WithHit(h, a)
<1>1. h \in [Rate!Age -> Nat]
  BY DEF Rate!Hits
<1>2. g \in Rate!Hits /\ \A b \in Rate!Age : g[b] = IF b = a THEN h[b] + 1 ELSE h[b]
  BY <1>1 DEF Rate!WithHit, Rate!Hits
<1> HIDE DEF g
<1>3. OneByOne(g, Rate!Age) = OneByOne(h, Rate!Age) \cup {<<a, h[a]>>}
  <2>1. ASSUME NEW b \in Rate!Age, NEW n \in Nat
        PROVE  n < g[b] <=> n < h[b] \/ (b = a /\ n = h[a])
    BY <1>1, <1>2
  <2>2. <<a, h[a]>> \in Rate!Age \X Nat
    BY <1>1
  <2>3. QED
    BY <2>1, <2>2 DEF OneByOne
<1>4. <<a, h[a]>> \notin OneByOne(h, Rate!Age)
  BY <1>1 DEF OneByOne
<1>5. Cardinality(OneByOne(g, Rate!Age)) = Cardinality(OneByOne(h, Rate!Age)) + 1
  <2> DEFINE S == OneByOne(h, Rate!Age)
             hit == <<a, h[a]>>
  <2>1. IsFiniteSet(S)
    BY SizeType
  <2> HIDE DEF S, hit
  <2>2. hit \notin S
    BY <1>4 DEF S, hit
  <2>3. Cardinality(S \cup {hit}) = Cardinality(S) + 1
    BY <2>1, <2>2, FS_AddElement
  <2>4. QED
    BY <1>3, <2>3 DEF S, hit
<1>6. QED
  BY <1>2, <1>5, SizeType DEF g

LEMMA SizeAtMost ==
    ASSUME RateAssumptions, NEW h \in Rate!Hits, NEW g \in Rate!Hits,
           \A a \in Rate!Age : h[a] <= g[a]
    PROVE  Rate!Size(h) <= Rate!Size(g)
<1>1. h \in [Rate!Age -> Nat] /\ g \in [Rate!Age -> Nat]
  BY DEF Rate!Hits
<1>2. OneByOne(h, Rate!Age) \subseteq OneByOne(g, Rate!Age)
  <2>1. ASSUME NEW a \in Rate!Age, NEW n \in Nat, n < h[a] PROVE n < g[a]
    BY <1>1, <2>1
  <2>2. QED
    BY <2>1 DEF OneByOne
<1>3. QED
  BY <1>2, SizeType, FS_Subset

LEMMA SizeOfSum ==
    ASSUME RateAssumptions, NEW x \in Rate!Hits, NEW y \in Rate!Hits, NEW z \in Rate!Hits,
           \A a \in Rate!Age : x[a] <= y[a] + z[a]
    PROVE  Rate!Size(x) <= Rate!Size(y) + Rate!Size(z)
<1> DEFINE X == OneByOne(x, Rate!Age)
           Y == OneByOne(y, Rate!Age)
           Z == OneByOne(z, Rate!Age)
           f == [u \in X \ Y |-> <<u[1], u[2] - y[u[1]]>>]
<1>1. x \in [Rate!Age -> Nat] /\ y \in [Rate!Age -> Nat] /\ z \in [Rate!Age -> Nat]
  BY DEF Rate!Hits
<1>2. ASSUME NEW u \in X \ Y
      PROVE  /\ u[1] \in Rate!Age /\ u[2] \in Nat /\ u = <<u[1], u[2]>> /\ u[2] >= y[u[1]]
             /\ <<u[1], u[2] - y[u[1]]>> \in Z
  <2>1. u[1] \in Rate!Age /\ u[2] \in Nat /\ u = <<u[1], u[2]>> /\ u[2] < x[u[1]]
    BY DEF OneByOne
  <2>2. ~(u[2] < y[u[1]])
    BY <2>1 DEF OneByOne
  <2>3. u[2] - y[u[1]] \in Nat /\ u[2] - y[u[1]] < z[u[1]] /\ u[2] >= y[u[1]]
    <3>1. x[u[1]] \in Nat /\ y[u[1]] \in Nat /\ z[u[1]] \in Nat /\ x[u[1]] <= y[u[1]] + z[u[1]]
      BY <1>1, <2>1
    <3>2. QED
      BY <2>1, <2>2, <3>1
  <2>4. QED
    BY <2>1, <2>3 DEF OneByOne
<1>3. f \in Injection(X \ Y, Z)
  <2>1. f \in [X \ Y -> Z]
    BY <1>2
  <2>2. ASSUME NEW u \in X \ Y, NEW v \in X \ Y, f[u] = f[v] PROVE u = v
    <3>1. <<u[1], u[2] - y[u[1]]>> = <<v[1], v[2] - y[v[1]]>>
      BY <2>2
    <3>2. u[1] = v[1] /\ u[2] - y[u[1]] = v[2] - y[u[1]]
      BY <3>1
    <3>3. u[2] \in Nat /\ v[2] \in Nat /\ y[u[1]] \in Nat
      BY <1>1, <1>2
    <3>4. u[2] = v[2]
      BY <3>2, <3>3
    <3>5. QED
      BY <1>2, <3>2, <3>4
  <2>3. QED
    BY <2>1, <2>2 DEF Injection, IsInjective
<1> HIDE DEF X, Y, Z, f
<1>4. /\ IsFiniteSet(X) /\ IsFiniteSet(Y) /\ IsFiniteSet(Z)
      /\ Rate!Size(x) = Cardinality(X) /\ Rate!Size(y) = Cardinality(Y) /\ Rate!Size(z) = Cardinality(Z)
      /\ Cardinality(X) \in Nat /\ Cardinality(Y) \in Nat /\ Cardinality(Z) \in Nat
  BY SizeType DEF X, Y, Z
<1>5. Cardinality(X \ Y) <= Cardinality(Z)
  BY <1>3, <1>4, FS_Injection
<1>6. Cardinality(X \ Y) = Cardinality(X) - Cardinality(X \cap Y)
  BY <1>4, FS_Difference
<1>7. Cardinality(X \cap Y) <= Cardinality(Y) /\ IsFiniteSet(X \cap Y)
  BY <1>4, FS_Intersection
<1>8. Cardinality(X \cap Y) \in Nat
  BY <1>7, FS_CardinalityType
<1>9. QED
  BY <1>4, <1>5, <1>6, <1>7, <1>8

LEMMA SizeOfOlder ==
    ASSUME RateAssumptions, NEW h \in Rate!Hits
    PROVE  /\ Rate!Older(h) \in Rate!Hits
           /\ \A a \in Rate!Age : Rate!Older(h)[a] = IF a = 0 THEN 0 ELSE h[a - 1]
           /\ Rate!Size(Rate!Older(h)) <= Rate!Size(h)
<1> DEFINE g == Rate!Older(h)
           X == OneByOne(g, Rate!Age)
           Y == OneByOne(h, Rate!Age)
           f == [u \in X |-> <<u[1] - 1, u[2]>>]
<1>1. h \in [Rate!Age -> Nat]
  BY DEF Rate!Hits
<1>2. ASSUME NEW a \in Rate!Age, a # 0 PROVE a - 1 \in Rate!Age /\ a \in Nat
  BY <1>2, RateConstants
<1>3. g \in Rate!Hits /\ \A a \in Rate!Age : g[a] = IF a = 0 THEN 0 ELSE h[a - 1]
  BY <1>1, <1>2 DEF Rate!Older, Rate!Hits
<1> HIDE DEF g
<1>4. ASSUME NEW u \in X
      PROVE  u[1] \in Nat /\ u[2] \in Nat /\ u = <<u[1], u[2]>> /\ <<u[1] - 1, u[2]>> \in Y
  <2>1. u[1] \in Rate!Age /\ u[2] \in Nat /\ u = <<u[1], u[2]>> /\ u[2] < g[u[1]]
    BY DEF OneByOne
  <2>2. u[1] # 0
    BY <1>3, <2>1
  <2>3. u[1] - 1 \in Rate!Age /\ u[1] \in Nat /\ u[2] < h[u[1] - 1]
    BY <1>2, <1>3, <2>1, <2>2
  <2>4. QED
    BY <2>1, <2>3 DEF OneByOne
<1>5. f \in Injection(X, Y)
  <2>1. f \in [X -> Y]
    BY <1>4
  <2>2. ASSUME NEW u \in X, NEW v \in X, f[u] = f[v] PROVE u = v
    <3>1. <<u[1] - 1, u[2]>> = <<v[1] - 1, v[2]>>
      BY <2>2
    <3>2. u[1] - 1 = v[1] - 1 /\ u[2] = v[2]
      BY <3>1
    <3>3. u[1] \in Nat /\ v[1] \in Nat
      BY <1>4
    <3>4. u[1] = v[1]
      BY <3>2, <3>3
    <3>5. QED
      BY <1>4, <3>2, <3>4
  <2>3. QED
    BY <2>1, <2>2 DEF Injection, IsInjective
<1> HIDE DEF X, Y, f
<1>6. /\ IsFiniteSet(Y) /\ Rate!Size(g) = Cardinality(X) /\ Rate!Size(h) = Cardinality(Y)
  BY <1>3, SizeType DEF X, Y
<1>7. QED
  BY <1>3, <1>5, <1>6, FS_Injection DEF g

LEMMA SizeOfKept ==
    ASSUME RateAssumptions, NEW h \in Rate!Hits, NEW n \in Nat
    PROVE  /\ Rate!Kept(h, n) \in Rate!Hits
           /\ \A a \in Rate!Age : Rate!Kept(h, n)[a] = IF a < n + Window THEN h[a] ELSE 0
           /\ Rate!Size(Rate!Kept(h, n)) <= Rate!Size(h)
<1>1. h \in [Rate!Age -> Nat]
  BY DEF Rate!Hits
<1>2. /\ Rate!Kept(h, n) \in Rate!Hits
      /\ \A a \in Rate!Age : Rate!Kept(h, n)[a] = IF a < n + Window THEN h[a] ELSE 0
  BY <1>1 DEF Rate!Kept, Rate!Hits
<1>3. \A a \in Rate!Age : Rate!Kept(h, n)[a] <= h[a]
  BY <1>1, <1>2
<1>4. QED
  BY <1>2, <1>3, SizeAtMost
-----------------------------------------------------------------------------
(* The windows.                                                            *)

\* The calls that Redis has admitted and that have not heard of it, by key and age.
Unanswered(calls, k, a) ==
    {c \in Caller : calls[c].phase = "answered" /\ calls[c].ok /\ calls[c].key = k /\ calls[c].age = a}

Recent == 0 .. Window - 1

InMemory(map, k) == IF map[k] = Nil THEN Rate!NoHits ELSE map[k]

\* Finitely many calls are under way, those of Check with a key.
CallsKnown ==
    /\ IsFiniteSet({c \in Caller : check[c].phase # "idle"})
    /\ \A c \in Caller : check[c].phase \in {"asking", "answered", "local"} => check[c].key \in Key

PresentFinite == IsFiniteSet(Rate!Present(local))

\* No window holds more than the limit.
WithinLimit == \A k \in Key : Rate!Size(zset[k]) <= Limit /\ Rate!Size(InMemory(local, k)) <= Limit

\* What Redis has admitted it has in its window.
InRedis == \A k \in Key, a \in Recent : Cardinality(Unanswered(check, k, a)) <= zset[k][a]

\* What has been granted, or will be when the answer comes, is in one of the two windows.
Accounted ==
    \A k \in Key, a \in Recent :
        granted[k][a] + Cardinality(Unanswered(check, k, a)) <= zset[k][a] + InMemory(local, k)[a]

MapTypes ==
    /\ local \in [Key -> Rate!Hits \cup {Nil}]
    /\ zset \in [Key -> Rate!Hits]
    /\ granted \in [Key -> Rate!Hits]

Record == [phase : Rate!Phase, key : Key \cup {Nil}, age : 0 .. CheckDelay, ok : BOOLEAN]

CallTypes == check \in [Caller -> Record] /\ CallsKnown

CapKept == PresentFinite /\ Cardinality(Rate!Present(local)) <= LocalCap

WindowsRight == WithinLimit /\ InRedis /\ Accounted

RateInv == MapTypes /\ CallTypes /\ CapKept /\ WindowsRight

LEMMA RecentAges ==
    ASSUME RateAssumptions
    PROVE  /\ Recent \subseteq Rate!Age /\ Recent \subseteq Nat
           /\ \A g \in 0 .. CheckDelay : g \in Rate!Age /\ g \in Nat
           /\ \A a \in Recent, n \in Nat : a < n + Window
           /\ \A a \in Recent : a # 0 => a - 1 \in Recent
BY RateConstants DEF Recent

LEMMA CountType ==
    ASSUME CallTypes, NEW k, NEW a
    PROVE  IsFiniteSet(Unanswered(check, k, a)) /\ Cardinality(Unanswered(check, k, a)) \in Nat
<1>1. Unanswered(check, k, a) \subseteq {c \in Caller : check[c].phase # "idle"}
  BY DEF Unanswered
<1>2. QED
  BY <1>1, FS_Subset, FS_CardinalityType DEF CallTypes, CallsKnown

LEMMA WindowTypes ==
    ASSUME RateAssumptions, MapTypes, NEW k \in Key
    PROVE  /\ zset[k] \in Rate!Hits /\ granted[k] \in Rate!Hits /\ InMemory(local, k) \in Rate!Hits
           /\ \A a \in Rate!Age : zset[k][a] \in Nat /\ granted[k][a] \in Nat /\ InMemory(local, k)[a] \in Nat
<1>1. zset[k] \in Rate!Hits /\ granted[k] \in Rate!Hits /\ InMemory(local, k) \in Rate!Hits
  BY SizeOfNone DEF MapTypes, InMemory
<1>2. \A h \in Rate!Hits : \A a \in Rate!Age : h[a] \in Nat
  BY DEF Rate!Hits
<1>3. QED
  BY <1>1, <1>2

CallBecomes(c, r) == check' = [check EXCEPT ![c] = r]

\* A call in state r would be one of them.
Admitted(r, k, a) == r.phase = "answered" /\ r.ok /\ r.key = k /\ r.age = a

\* What a step of one call does to the numbers of admitted calls.
LEMMA OneCall ==
    ASSUME CallTypes, NEW c \in Caller, NEW r \in Record,
           r.phase \in {"asking", "answered", "local"} => r.key \in Key,
           CallBecomes(c, r)
    PROVE  /\ CallTypes'
           /\ \A k, a : /\ ~Admitted(r, k, a) => Unanswered(check', k, a) = Unanswered(check, k, a) \ {c}
                        /\ Admitted(r, k, a) => Unanswered(check', k, a) = Unanswered(check, k, a) \cup {c}
<1>1. check' \in [Caller -> Record] /\ check'[c] = r
      /\ \A d \in Caller : d # c => check'[d] = check[d]
  BY DEF CallTypes, CallBecomes
<1>2. IsFiniteSet({d \in Caller : check'[d].phase # "idle"})
  <2> DEFINE busy == {d \in Caller : check[d].phase # "idle"}
  <2>1. {d \in Caller : check'[d].phase # "idle"} \subseteq busy \cup {c}
    BY <1>1
  <2>2. IsFiniteSet(busy \cup {c})
    BY FS_AddElement DEF CallTypes, CallsKnown
  <2> HIDE DEF busy
  <2>3. QED
    BY <2>1, <2>2, FS_Subset
<1>3. \A d \in Caller : check'[d].phase \in {"asking", "answered", "local"} => check'[d].key \in Key
  BY <1>1 DEF CallTypes, CallsKnown
<1>4. CallTypes'
  BY <1>1, <1>2, <1>3 DEF CallTypes, CallsKnown, Record
<1>5. ASSUME NEW k, NEW a
      PROVE  /\ ~Admitted(r, k, a) => Unanswered(check', k, a) = Unanswered(check, k, a) \ {c}
             /\ Admitted(r, k, a) => Unanswered(check', k, a) = Unanswered(check, k, a) \cup {c}
  BY <1>1 DEF Unanswered, Admitted
<1>6. QED
  BY <1>4, <1>5

LEMMA OneMore ==
    ASSUME CallTypes, NEW c \in Caller, NEW k, NEW a
    PROVE  /\ Cardinality(Unanswered(check, k, a) \cup {c}) \in Nat
           /\ Cardinality(Unanswered(check, k, a) \cup {c}) <= Cardinality(Unanswered(check, k, a)) + 1
<1> DEFINE S == Unanswered(check, k, a)
<1>1. IsFiniteSet(S) /\ Cardinality(S) \in Nat
  BY CountType
<1> HIDE DEF S
<1>2. Cardinality(S \cup {c}) = IF c \in S THEN Cardinality(S) ELSE Cardinality(S) + 1
  BY <1>1, FS_AddElement
<1>3. Cardinality(S \cup {c}) \in Nat /\ Cardinality(S \cup {c}) <= Cardinality(S) + 1
  BY <1>1, <1>2
<1>4. QED
  BY <1>3 DEF S

\* The call itself was among them or not.
LEMMA WithoutCall ==
    ASSUME CallTypes, NEW c \in Caller, NEW k, NEW a
    PROVE  /\ Cardinality(Unanswered(check, k, a) \ {c}) \in Nat
           /\ Cardinality(Unanswered(check, k, a) \ {c}) <= Cardinality(Unanswered(check, k, a))
           /\ c \in Unanswered(check, k, a) =>
                  Cardinality(Unanswered(check, k, a) \ {c}) + 1 = Cardinality(Unanswered(check, k, a))
<1>1. IsFiniteSet(Unanswered(check, k, a)) /\ Cardinality(Unanswered(check, k, a)) \in Nat
  BY CountType
<1>2. IsFiniteSet(Unanswered(check, k, a) \ {c})
      /\ Cardinality(Unanswered(check, k, a) \ {c}) =
             IF c \in Unanswered(check, k, a) THEN Cardinality(Unanswered(check, k, a)) - 1
             ELSE Cardinality(Unanswered(check, k, a))
  BY <1>1, FS_RemoveElement
<1>3. Cardinality(Unanswered(check, k, a) \ {c}) \in Nat
  BY <1>2, FS_CardinalityType
<1>4. QED
  BY <1>1, <1>2, <1>3

\* A step that only takes a call away, or begins one, leaves the windows right.
LEMMA WindowsStay ==
    ASSUME RateAssumptions, RateInv, NEW c \in Caller, NEW r \in Record,
           r.phase # "answered",
           r.phase \in {"asking", "local"} => r.key \in Key,
           CallBecomes(c, r),
           UNCHANGED <<local, zset, granted>>
    PROVE  CallTypes' /\ CapKept' /\ WindowsRight'
<1>1. CallTypes' /\ \A k, a : Unanswered(check', k, a) = Unanswered(check, k, a) \ {c}
  <2>1. r.phase \in {"asking", "answered", "local"} => r.key \in Key
    OBVIOUS
  <2>2. \A k, a : ~Admitted(r, k, a)
    BY DEF Admitted
  <2>3. CallTypes
    BY DEF RateInv
  <2>4. /\ CallTypes'
        /\ \A k, a : ~Admitted(r, k, a) => Unanswered(check', k, a) = Unanswered(check, k, a) \ {c}
    BY <2>1, <2>3, OneCall
  <2>5. QED
    BY <2>2, <2>4
<1>2. ASSUME NEW k, NEW a
      PROVE  /\ Cardinality(Unanswered(check', k, a)) \in Nat /\ Cardinality(Unanswered(check, k, a)) \in Nat
             /\ Cardinality(Unanswered(check', k, a)) <= Cardinality(Unanswered(check, k, a))
  <2>1. Unanswered(check', k, a) = Unanswered(check, k, a) \ {c}
    BY <1>1
  <2>2. QED
    BY <2>1, WithoutCall, CountType DEF RateInv
<1>3. CapKept' /\ WithinLimit'
  BY DEF RateInv, CapKept, PresentFinite, Rate!Present, WindowsRight, WithinLimit, InMemory
<1>4. InRedis' /\ Accounted'
  <2>1. ASSUME NEW k \in Key, NEW a \in Recent
        PROVE  /\ Cardinality(Unanswered(check', k, a)) <= zset'[k][a]
               /\ granted'[k][a] + Cardinality(Unanswered(check', k, a)) <= zset'[k][a] + InMemory(local', k)[a]
    <3>1. zset[k][a] \in Nat /\ granted[k][a] \in Nat /\ InMemory(local, k)[a] \in Nat
      BY WindowTypes, RecentAges DEF RateInv
    <3>2. /\ Cardinality(Unanswered(check, k, a)) <= zset[k][a]
          /\ granted[k][a] + Cardinality(Unanswered(check, k, a)) <= zset[k][a] + InMemory(local, k)[a]
      BY DEF RateInv, WindowsRight, InRedis, Accounted
    <3>3. InMemory(local', k) = InMemory(local, k)
      BY DEF InMemory
    <3>4. /\ Cardinality(Unanswered(check', k, a)) \in Nat /\ Cardinality(Unanswered(check, k, a)) \in Nat
          /\ Cardinality(Unanswered(check', k, a)) <= Cardinality(Unanswered(check, k, a))
      BY <1>2
    <3>5. QED
      BY <3>1, <3>2, <3>3, <3>4
  <2>2. QED
    BY <2>1 DEF InRedis, Accounted, Recent
<1>5. QED
  BY <1>1, <1>3, <1>4 DEF WindowsRight

LEMMA CheckFields ==
    ASSUME RateInv, NEW c \in Caller
    PROVE  /\ check[c] \in Record /\ check[c].phase \in Rate!Phase /\ check[c].age \in 0 .. CheckDelay
           /\ check[c].key \in Key \cup {Nil} /\ check[c].ok \in BOOLEAN
           /\ check[c].phase \in {"asking", "answered", "local"} => check[c].key \in Key
<1>1. check[c] \in Record
  BY DEF RateInv, CallTypes
<1>2. QED
  BY <1>1 DEF Record, RateInv, CallTypes, CallsKnown

LEMMA QuietSteps ==
    ASSUME RateAssumptions, RateInv, NEW c \in Caller,
           \/ \E k \in Key : Rate!Begin(c, k)
           \/ Rate!Fail(c) \/ Rate!BeginPing(c) \/ Rate!Pong(c)
    PROVE  RateInv'
<1>1. ASSUME NEW r \in Record, r.phase # "answered",
             r.phase \in {"asking", "local"} => r.key \in Key,
             CallBecomes(c, r), UNCHANGED <<local, zset, granted>>
      PROVE  RateInv'
  <2>1. CallTypes' /\ CapKept' /\ WindowsRight'
    BY <1>1, WindowsStay
  <2>2. MapTypes'
    BY <1>1 DEF RateInv, MapTypes
  <2>3. QED
    BY <2>1, <2>2 DEF RateInv
<1>2. CASE \E k \in Key : Rate!Begin(c, k)
  <2>1. PICK k \in Key : Rate!Begin(c, k)
    BY <1>2
  <2> DEFINE r == [phase |-> IF HasRedis /\ ~Rate!CircuitOpen THEN "asking" ELSE "local",
                   key |-> k, age |-> 0, ok |-> FALSE]
  <2>2. r \in Record /\ r.phase \in {"asking", "local"} /\ r.key = k
    BY RateConstants DEF Record, Rate!Phase
  <2>3. CallBecomes(c, r) /\ UNCHANGED <<local, zset, granted>>
    BY <2>1 DEF Rate!Begin, CallBecomes
  <2> HIDE DEF r
  <2>4. QED
    BY <1>1, <2>2, <2>3
<1>3. CASE Rate!Fail(c)
  <2> DEFINE r == [check[c] EXCEPT !.phase = "local", !.age = 0, !.ok = FALSE]
  <2>1. check[c].key \in Key
    BY <1>3, CheckFields DEF Rate!Fail
  <2>2. r \in Record /\ r.phase = "local" /\ r.key \in Key
    <3>1. check[c] \in Record /\ 0 \in 0 .. CheckDelay
      BY CheckFields, RateConstants
    <3>2. QED
      BY <2>1, <3>1 DEF Record, Rate!Phase
  <2>3. CallBecomes(c, r) /\ UNCHANGED <<local, zset, granted>>
    BY <1>3 DEF Rate!Fail, CallBecomes
  <2> HIDE DEF r
  <2>4. QED
    BY <1>1, <2>2, <2>3
<1>4. CASE Rate!BeginPing(c)
  <2> DEFINE r == [check[c] EXCEPT !.phase = "pinging"]
  <2>1. r \in Record /\ r.phase = "pinging"
    BY CheckFields DEF Record, Rate!Phase
  <2>2. CallBecomes(c, r) /\ UNCHANGED <<local, zset, granted>>
    BY <1>4, CheckFields DEF Rate!BeginPing, CallBecomes, RateInv, CallTypes
  <2> HIDE DEF r
  <2>3. QED
    BY <1>1, <2>1, <2>2
<1>5. CASE Rate!Pong(c)
  <2>1. Rate!Idle \in Record /\ Rate!Idle.phase = "idle"
    BY RateConstants DEF Record, Rate!Phase, Rate!Idle
  <2>2. CallBecomes(c, Rate!Idle) /\ UNCHANGED <<local, zset, granted>>
    BY <1>5 DEF Rate!Pong, CallBecomes
  <2>3. QED
    BY <1>1, <2>1, <2>2
<1>6. QED
  BY <1>2, <1>3, <1>4, <1>5

\* Redis runs the script: the call is among those admitted when its hit is in the window.
LEMMA EvalStep ==
    ASSUME RateAssumptions, RateInv, NEW c \in Caller, Rate!Eval(c)
    PROVE  RateInv'
<1> DEFINE k == check[c].key
           g == check[c].age
           kept == Rate!Kept(zset[k], g)
           ok == Rate!Size(kept) < Limit
           new == IF ok THEN Rate!WithHit(kept, g) ELSE kept
           r == [check[c] EXCEPT !.phase = "answered", !.ok = ok]
<1>1. /\ k \in Key /\ g \in 0 .. CheckDelay /\ g \in Rate!Age /\ g \in Nat
      /\ check[c].phase = "asking"
  BY CheckFields, RecentAges DEF Rate!Eval
<1>2. /\ zset' = [zset EXCEPT ![k] = new]
      /\ UNCHANGED <<local, granted>>
  BY DEF Rate!Eval
<1>3. CallBecomes(c, r)
  BY CheckFields DEF Rate!Eval, CallBecomes, RateInv, CallTypes
<1>4. r \in Record /\ r.phase = "answered" /\ r.key = k /\ r.age = g /\ (r.ok <=> ok)
  <2>1. ok \in BOOLEAN
    OBVIOUS
  <2>2. QED
    BY <1>1, <2>1, CheckFields DEF Record, Rate!Phase
<1>5. zset[k] \in Rate!Hits /\ Rate!Size(zset[k]) <= Limit
  BY <1>1, WindowTypes DEF RateInv, WindowsRight, WithinLimit
<1>6. /\ kept \in Rate!Hits /\ Rate!Size(kept) <= Limit /\ Rate!Size(kept) \in Nat
      /\ \A a \in Recent : kept[a] = zset[k][a]
  <2>1. /\ kept \in Rate!Hits /\ Rate!Size(kept) <= Rate!Size(zset[k])
        /\ \A a \in Rate!Age : kept[a] = IF a < g + Window THEN zset[k][a] ELSE 0
    BY <1>1, <1>5, SizeOfKept
  <2>2. Rate!Size(kept) \in Nat /\ Rate!Size(zset[k]) \in Nat /\ Limit \in Nat
    BY <1>5, <2>1, SizeType, RateConstants
  <2> HIDE DEF kept, k, g
  <2>3. \A a \in Recent : kept[a] = zset[k][a]
    BY <1>1, <2>1, RecentAges
  <2>4. QED
    BY <1>5, <2>1, <2>2, <2>3
<1>7. /\ new \in Rate!Hits /\ Rate!Size(new) <= Limit
      /\ \A a \in Recent : new[a] = IF ok /\ a = g THEN zset[k][a] + 1 ELSE zset[k][a]
  <2> HIDE DEF kept, k, g
  <2>1. CASE ok
    <3>1. /\ Rate!WithHit(kept, g) \in Rate!Hits /\ Rate!Size(Rate!WithHit(kept, g)) = Rate!Size(kept) + 1
          /\ \A a \in Rate!Age : Rate!WithHit(kept, g)[a] = IF a = g THEN kept[a] + 1 ELSE kept[a]
      BY <1>1, <1>6, SizeOfHit
    <3>2. Rate!Size(Rate!WithHit(kept, g)) <= Limit
      <4>1. Rate!Size(kept) < Limit /\ Limit \in Nat
        BY <2>1, RateConstants
      <4>2. QED
        BY <1>6, <3>1, <4>1
    <3>3. new = Rate!WithHit(kept, g)
      BY <2>1
    <3>4. ASSUME NEW a \in Recent
          PROVE  Rate!WithHit(kept, g)[a] = IF a = g THEN zset[k][a] + 1 ELSE zset[k][a]
      BY <1>6, <3>1, RecentAges
    <3>5. QED
      BY <2>1, <3>1, <3>2, <3>3, <3>4
  <2>2. CASE ~ok
    BY <1>6, <2>2
  <2>3. QED
    BY <2>1, <2>2
<1> HIDE DEF k, g, kept, ok, new, r
<1>8. MapTypes' /\ CapKept' /\ \A j \in Key : zset'[j] = IF j = k THEN new ELSE zset[j]
  BY <1>1, <1>2, <1>7 DEF RateInv, MapTypes, CapKept, PresentFinite, Rate!Present
<1>9. /\ CallTypes'
      /\ \A j, a : /\ ~Admitted(r, j, a) => Unanswered(check', j, a) = Unanswered(check, j, a) \ {c}
                   /\ Admitted(r, j, a) => Unanswered(check', j, a) = Unanswered(check, j, a) \cup {c}
  <2>1. CallTypes /\ (r.phase \in {"asking", "answered", "local"} => r.key \in Key)
    BY <1>1, <1>4 DEF RateInv
  <2>2. QED
    BY <1>3, <1>4, <2>1, OneCall
<1>10. WithinLimit'
  BY <1>2, <1>7, <1>8 DEF WithinLimit, InMemory, RateInv, WindowsRight
<1>11. ASSUME NEW j \in Key, NEW a \in Recent
       PROVE  /\ Cardinality(Unanswered(check', j, a)) <= zset'[j][a]
              /\ granted'[j][a] + Cardinality(Unanswered(check', j, a)) <= zset'[j][a] + InMemory(local', j)[a]
  <2>1. zset[j][a] \in Nat /\ granted[j][a] \in Nat /\ InMemory(local, j)[a] \in Nat
    BY WindowTypes, RecentAges DEF RateInv
  <2>2. /\ Cardinality(Unanswered(check, j, a)) \in Nat
        /\ Cardinality(Unanswered(check, j, a)) <= zset[j][a]
        /\ granted[j][a] + Cardinality(Unanswered(check, j, a)) <= zset[j][a] + InMemory(local, j)[a]
    BY CountType DEF RateInv, WindowsRight, InRedis, Accounted
  <2>3. InMemory(local', j) = InMemory(local, j) /\ granted' = granted
    BY <1>2 DEF InMemory
  <2>4. CASE ok /\ j = k /\ a = g
    <3>1. Unanswered(check', j, a) = Unanswered(check, j, a) \cup {c}
      BY <1>4, <1>9, <2>4 DEF Admitted
    <3>2. /\ Cardinality(Unanswered(check', j, a)) \in Nat
          /\ Cardinality(Unanswered(check', j, a)) <= Cardinality(Unanswered(check, j, a)) + 1
      BY <3>1, OneMore DEF RateInv
    <3>3. zset'[j][a] = zset[j][a] + 1
      BY <1>7, <1>8, <2>4
    <3>4. QED
      BY <2>1, <2>2, <2>3, <3>2, <3>3
  <2>5. CASE ~(ok /\ j = k /\ a = g)
    <3>1. Unanswered(check', j, a) = Unanswered(check, j, a) \ {c}
      BY <1>4, <1>9, <2>5 DEF Admitted
    <3>2. /\ Cardinality(Unanswered(check', j, a)) \in Nat
          /\ Cardinality(Unanswered(check', j, a)) <= Cardinality(Unanswered(check, j, a))
      BY <3>1, WithoutCall DEF RateInv
    <3>3. zset'[j][a] = zset[j][a]
      BY <1>7, <1>8, <2>5
    <3>4. QED
      BY <2>1, <2>2, <2>3, <3>2, <3>3
  <2>6. QED
    BY <2>4, <2>5
<1>12. InRedis' /\ Accounted'
  BY <1>11 DEF InRedis, Accounted, Recent
<1>13. QED
  BY <1>8, <1>9, <1>10, <1>12 DEF RateInv, WindowsRight

\* The answer arrives: what was owed is granted.
LEMMA AnswerStep ==
    ASSUME RateAssumptions, RateInv, NEW c \in Caller, Rate!Answer(c)
    PROVE  RateInv'
<1> DEFINE k == check[c].key
           g == check[c].age
<1>1. /\ k \in Key /\ g \in Rate!Age /\ check[c].phase = "answered" /\ check[c].ok \in BOOLEAN
  BY CheckFields, RecentAges DEF Rate!Answer
<1>2. UNCHANGED <<local, zset>>
  BY DEF Rate!Answer
<1>3. granted' = IF check[c].ok THEN [granted EXCEPT ![k] = Rate!WithHit(granted[k], g)] ELSE granted
  BY DEF Rate!Answer, Rate!Granted
<1>4. Rate!Idle \in Record /\ Rate!Idle.phase = "idle" /\ CallBecomes(c, Rate!Idle)
  BY RateConstants DEF Record, Rate!Phase, Rate!Idle, Rate!Answer, CallBecomes
<1>5. /\ CallTypes'
      /\ \A j, a : Unanswered(check', j, a) = Unanswered(check, j, a) \ {c}
  <2>1. CallTypes /\ ~(Rate!Idle.phase \in {"asking", "answered", "local"})
    BY <1>4 DEF RateInv
  <2>2. \A j, a : ~Admitted(Rate!Idle, j, a)
    BY <1>4 DEF Admitted
  <2>3. /\ CallTypes'
        /\ \A j, a : ~Admitted(Rate!Idle, j, a) => Unanswered(check', j, a) = Unanswered(check, j, a) \ {c}
    BY <1>4, <2>1, OneCall
  <2>4. QED
    BY <2>2, <2>3
<1>6. /\ Rate!WithHit(granted[k], g) \in Rate!Hits
      /\ \A a \in Rate!Age : Rate!WithHit(granted[k], g)[a] = IF a = g THEN granted[k][a] + 1 ELSE granted[k][a]
  BY <1>1, WindowTypes, SizeOfHit DEF RateInv
<1> HIDE DEF k, g
<1>7. /\ MapTypes'
      /\ \A j \in Key : granted'[j] = IF check[c].ok /\ j = k THEN Rate!WithHit(granted[k], g) ELSE granted[j]
  <2>1. CASE check[c].ok
    BY <1>1, <1>2, <1>3, <1>6, <2>1 DEF RateInv, MapTypes
  <2>2. CASE ~check[c].ok
    BY <1>1, <1>2, <1>3, <1>6, <2>2 DEF RateInv, MapTypes
  <2>3. QED
    BY <2>1, <2>2
<1>8. CapKept' /\ WithinLimit'
  BY <1>2 DEF RateInv, CapKept, PresentFinite, Rate!Present, WindowsRight, WithinLimit, InMemory
<1>9. ASSUME NEW j \in Key, NEW a \in Recent
      PROVE  /\ Cardinality(Unanswered(check', j, a)) <= zset'[j][a]
             /\ granted'[j][a] + Cardinality(Unanswered(check', j, a)) <= zset'[j][a] + InMemory(local', j)[a]
  <2>1. zset[j][a] \in Nat /\ granted[j][a] \in Nat /\ InMemory(local, j)[a] \in Nat
    BY WindowTypes, RecentAges DEF RateInv
  <2>2. /\ Cardinality(Unanswered(check, j, a)) \in Nat
        /\ Cardinality(Unanswered(check, j, a)) <= zset[j][a]
        /\ granted[j][a] + Cardinality(Unanswered(check, j, a)) <= zset[j][a] + InMemory(local, j)[a]
    BY CountType DEF RateInv, WindowsRight, InRedis, Accounted
  <2>3. InMemory(local', j) = InMemory(local, j) /\ zset' = zset
    BY <1>2 DEF InMemory
  <2>4. Unanswered(check', j, a) = Unanswered(check, j, a) \ {c}
    BY <1>5
  <2>5. /\ Cardinality(Unanswered(check', j, a)) \in Nat
        /\ Cardinality(Unanswered(check', j, a)) <= Cardinality(Unanswered(check, j, a))
        /\ c \in Unanswered(check, j, a) =>
               Cardinality(Unanswered(check', j, a)) + 1 = Cardinality(Unanswered(check, j, a))
    BY <2>4, WithoutCall DEF RateInv
  <2>6. CASE check[c].ok /\ j = k /\ a = g
    <3>1. c \in Unanswered(check, j, a)
      BY <1>1, <2>6 DEF Unanswered, k, g
    <3>2. granted'[j][a] = granted[j][a] + 1
      BY <1>6, <1>7, <2>6, RecentAges
    <3>3. QED
      BY <2>1, <2>2, <2>3, <2>5, <3>1, <3>2
  <2>7. CASE ~(check[c].ok /\ j = k /\ a = g)
    <3>1. granted'[j][a] = granted[j][a]
      BY <1>6, <1>7, <2>7, RecentAges
    <3>2. QED
      BY <2>1, <2>2, <2>3, <2>5, <3>1
  <2>8. QED
    BY <2>6, <2>7
<1>10. InRedis' /\ Accounted'
  BY <1>9 DEF InRedis, Accounted, Recent
<1>11. QED
  BY <1>5, <1>7, <1>8, <1>10 DEF RateInv, WindowsRight

\* Sets are counted here as they are there.
LEMMA SameCount == \A S : Rate!Cardinality(S) = Cardinality(S)
BY DEF Rate!Cardinality, Cardinality

\* What is left after an insertion of k: every window there was or nothing, and not too many.
LEMMA EvictedFacts ==
    ASSUME RateAssumptions, NEW map \in [Key -> Rate!Hits \cup {Nil}], IsFiniteSet(Rate!Present(map)),
           NEW k, NEW left \in Rate!Evicted(map, k)
    PROVE  /\ left \in [Key -> Rate!Hits \cup {Nil}]
           /\ \A j \in Key : left[j] = map[j] \/ left[j] = Nil
           /\ IsFiniteSet(Rate!Present(left)) /\ Cardinality(Rate!Present(left)) <= LocalCap
<1>1. CASE Cardinality(Rate!Present(map)) <= LocalCap
  BY <1>1, SameCount DEF Rate!Evicted
<1>2. CASE ~(Cardinality(Rate!Present(map)) <= LocalCap)
  <2>1. PICK kept \in SUBSET Rate!Present(map) :
            Cardinality(kept) = LocalKeep /\ left = [j \in Key |-> IF j \in kept THEN map[j] ELSE Nil]
    BY <1>2, SameCount DEF Rate!Evicted
  <2>2. Rate!Present(left) = kept
    BY <2>1 DEF Rate!Present
  <2>3. LocalKeep <= LocalCap
    BY RateConstants
  <2>4. QED
    BY <2>1, <2>2, <2>3, FS_Subset
<1>3. QED
  BY <1>1, <1>2

\* The critical section of checkLocal.
LEMMA CheckLocalStep ==
    ASSUME RateAssumptions, RateInv, NEW c \in Caller, Rate!CheckLocal(c)
    PROVE  RateInv'
<1> DEFINE k == check[c].key
           g == check[c].age
           kept == Rate!Kept(InMemory(local, k), g)
           map == [local EXCEPT ![k] = Rate!WithHit(kept, g)]
<1>1. k \in Key /\ g \in Rate!Age /\ g \in Nat /\ check[c].phase = "local"
  BY CheckFields, RecentAges DEF Rate!CheckLocal
<1>2. Rate!Idle \in Record /\ Rate!Idle.phase = "idle" /\ CallBecomes(c, Rate!Idle) /\ zset' = zset
  BY RateConstants DEF Record, Rate!Phase, Rate!Idle, Rate!CheckLocal, CallBecomes
<1>3. \/ Rate!Size(kept) >= Limit /\ local' = [local EXCEPT ![k] = kept] /\ granted' = granted
      \/ /\ ~(Rate!Size(kept) >= Limit) /\ local' \in Rate!Evicted(map, k)
         /\ granted' = [j \in Key |-> IF (j = k \/ local[j] # Nil) /\ local'[j] = Nil THEN Rate!NoHits
                                      ELSE Rate!Granted(c)[j]]
  BY DEF Rate!CheckLocal, InMemory
<1>4. /\ CallTypes'
      /\ \A j, a : Unanswered(check', j, a) = Unanswered(check, j, a) \ {c}
  <2>1. CallTypes /\ ~(Rate!Idle.phase \in {"asking", "answered", "local"})
    BY <1>2 DEF RateInv
  <2>2. \A j, a : ~Admitted(Rate!Idle, j, a)
    BY <1>2 DEF Admitted
  <2>3. /\ CallTypes'
        /\ \A j, a : ~Admitted(Rate!Idle, j, a) => Unanswered(check', j, a) = Unanswered(check, j, a) \ {c}
    BY <1>2, <2>1, OneCall
  <2>4. QED
    BY <2>2, <2>3
<1>5. /\ kept \in Rate!Hits /\ Rate!Size(kept) \in Nat /\ Rate!Size(kept) <= Limit
      /\ \A a \in Recent : kept[a] = InMemory(local, k)[a]
  <2>1. InMemory(local, k) \in Rate!Hits /\ Rate!Size(InMemory(local, k)) <= Limit
    BY <1>1, WindowTypes DEF RateInv, WindowsRight, WithinLimit
  <2>2. /\ kept \in Rate!Hits /\ Rate!Size(kept) <= Rate!Size(InMemory(local, k))
        /\ \A a \in Rate!Age : kept[a] = IF a < g + Window THEN InMemory(local, k)[a] ELSE 0
    BY <1>1, <2>1, SizeOfKept
  <2>3. Rate!Size(kept) \in Nat /\ Rate!Size(InMemory(local, k)) \in Nat /\ Limit \in Nat
    BY <2>1, <2>2, SizeType, RateConstants
  <2> HIDE DEF kept, k, g
  <2>4. \A a \in Recent : kept[a] = InMemory(local, k)[a]
    BY <1>1, <2>2, RecentAges
  <2>5. QED
    BY <2>1, <2>2, <2>3, <2>4
<1>6. local \in [Key -> Rate!Hits \cup {Nil}] /\ zset \in [Key -> Rate!Hits] /\ granted \in [Key -> Rate!Hits]
  BY DEF RateInv, MapTypes
<1>7. ASSUME NEW j \in Key, NEW a \in Recent
      PROVE  /\ zset[j][a] \in Nat /\ granted[j][a] \in Nat /\ InMemory(local, j)[a] \in Nat
             /\ Cardinality(Unanswered(check', j, a)) \in Nat
             /\ Cardinality(Unanswered(check', j, a)) <= zset[j][a]
             /\ granted[j][a] + Cardinality(Unanswered(check', j, a)) <= zset[j][a] + InMemory(local, j)[a]
  <2>1. zset[j][a] \in Nat /\ granted[j][a] \in Nat /\ InMemory(local, j)[a] \in Nat
    BY WindowTypes, RecentAges DEF RateInv
  <2>2. /\ Cardinality(Unanswered(check, j, a)) \in Nat
        /\ Cardinality(Unanswered(check, j, a)) <= zset[j][a]
        /\ granted[j][a] + Cardinality(Unanswered(check, j, a)) <= zset[j][a] + InMemory(local, j)[a]
    BY CountType DEF RateInv, WindowsRight, InRedis, Accounted
  <2>3. Unanswered(check', j, a) = Unanswered(check, j, a) \ {c}
    BY <1>4
  <2>4. /\ Cardinality(Unanswered(check', j, a)) \in Nat
        /\ Cardinality(Unanswered(check', j, a)) <= Cardinality(Unanswered(check, j, a))
    BY <2>3, WithoutCall DEF RateInv
  <2>5. QED
    BY <2>1, <2>2, <2>4
<1>8. ASSUME MapTypes', CapKept', \A j \in Key : Rate!Size(InMemory(local', j)) <= Limit,
             \A j \in Key, a \in Recent :
                 granted'[j][a] + Cardinality(Unanswered(check', j, a)) <= zset[j][a] + InMemory(local', j)[a]
      PROVE  RateInv'
  <2>1. WithinLimit'
    BY <1>2, <1>8 DEF WithinLimit, RateInv, WindowsRight
  <2>2. InRedis' /\ Accounted'
    BY <1>2, <1>7, <1>8 DEF InRedis, Accounted, Recent
  <2>3. QED
    BY <1>4, <1>8, <2>1, <2>2 DEF RateInv, WindowsRight
<1>9. CASE Rate!Size(kept) >= Limit /\ local' = [local EXCEPT ![k] = kept] /\ granted' = granted
  <2>1. local[k] # Nil
    <3>1. SUFFICES ASSUME local[k] = Nil PROVE FALSE
      OBVIOUS
    <3>2. InMemory(local, k) = Rate!NoHits
      BY <3>1 DEF InMemory
    <3>3. kept \in Rate!Hits /\ Rate!Size(kept) <= Rate!Size(Rate!NoHits)
      BY <1>1, <3>2, SizeOfKept, SizeOfNone
    <3> HIDE DEF kept
    <3>4. QED
      BY <1>5, <1>9, <3>3, SizeOfNone, RateConstants
  <2> HIDE DEF k, g, kept, map
  <2>2. /\ local' \in [Key -> Rate!Hits \cup {Nil}]
        /\ \A j \in Key : local'[j] = IF j = k THEN kept ELSE local[j]
    BY <1>1, <1>5, <1>6, <1>9
  <2>3. kept # Nil
    BY <1>5, RateConstants
  <2>4. Rate!Present(local') = Rate!Present(local)
    BY <2>1, <2>2, <2>3 DEF Rate!Present
  <2>5. MapTypes' /\ CapKept'
    BY <1>2, <1>6, <1>9, <2>2, <2>4 DEF MapTypes, RateInv, CapKept, PresentFinite
  <2>6. \A j \in Key : InMemory(local', j) = IF j = k THEN kept ELSE InMemory(local, j)
    BY <2>2, <2>3 DEF InMemory
  <2>7. \A j \in Key : Rate!Size(InMemory(local', j)) <= Limit
    BY <1>5, <2>6 DEF RateInv, WindowsRight, WithinLimit
  <2>8. ASSUME NEW j \in Key, NEW a \in Recent
        PROVE  granted'[j][a] + Cardinality(Unanswered(check', j, a)) <= zset[j][a] + InMemory(local', j)[a]
    <3>1. InMemory(local', j)[a] = InMemory(local, j)[a]
      BY <1>5, <2>6
    <3>2. QED
      BY <1>7, <1>9, <3>1
  <2>9. QED
    BY <1>8, <2>5, <2>7, <2>8
<1>10. CASE /\ ~(Rate!Size(kept) >= Limit) /\ local' \in Rate!Evicted(map, k)
            /\ granted' = [j \in Key |-> IF (j = k \/ local[j] # Nil) /\ local'[j] = Nil THEN Rate!NoHits
                                         ELSE Rate!Granted(c)[j]]
  <2> DEFINE new == Rate!WithHit(kept, g)
             more == Rate!WithHit(granted[k], g)
  <2>1. /\ new \in Rate!Hits /\ Rate!Size(new) = Rate!Size(kept) + 1
        /\ \A a \in Rate!Age : new[a] = IF a = g THEN kept[a] + 1 ELSE kept[a]
    <3> HIDE DEF kept, k, g
    <3> QED BY <1>1, <1>5, SizeOfHit
  <2>2. /\ more \in Rate!Hits
        /\ \A a \in Rate!Age : more[a] = IF a = g THEN granted[k][a] + 1 ELSE granted[k][a]
    <3> HIDE DEF k, g
    <3> QED BY <1>1, <1>6, SizeOfHit
  <2>3. Rate!Granted(c) = [granted EXCEPT ![k] = more]
    BY DEF Rate!Granted
  <2> HIDE DEF k, g, kept, new, more
  <2>4. Rate!Size(new) <= Limit
    <3>1. Rate!Size(kept) \in Nat /\ Limit \in Nat /\ Rate!Size(kept) < Limit
      BY <1>5, <1>10, RateConstants
    <3>2. QED
      BY <2>1, <3>1
  <2>5. map = [local EXCEPT ![k] = new] /\ new # Nil
    BY <2>1, RateConstants DEF new
  <2> HIDE DEF map
  <2>6. map \in [Key -> Rate!Hits \cup {Nil}] /\ \A j \in Key : map[j] = IF j = k THEN new ELSE local[j]
    BY <1>1, <1>6, <2>1, <2>5
  <2>7. IsFiniteSet(Rate!Present(map))
    <3>1. Rate!Present(map) \subseteq Rate!Present(local) \cup {k}
      BY <2>6 DEF Rate!Present
    <3>2. IsFiniteSet(Rate!Present(local) \cup {k})
      BY FS_AddElement DEF RateInv, CapKept, PresentFinite
    <3>3. QED
      BY <3>1, <3>2, FS_Subset
  <2>8. /\ local' \in [Key -> Rate!Hits \cup {Nil}]
        /\ \A j \in Key : local'[j] = map[j] \/ local'[j] = Nil
        /\ CapKept'
    BY <1>10, <2>6, <2>7, EvictedFacts DEF CapKept, PresentFinite
  <2>9. \A j \in Key :
            granted'[j] = IF (j = k \/ local[j] # Nil) /\ local'[j] = Nil THEN Rate!NoHits
                          ELSE IF j = k THEN more ELSE granted[j]
    BY <1>6, <1>10, <2>3
  <2>10. MapTypes'
    <3>1. \A j \in Key : granted'[j] \in Rate!Hits
      BY <1>6, <2>2, <2>9, SizeOfNone
    <3>2. granted' \in [Key -> Rate!Hits]
      BY <1>10, <3>1
    <3>3. QED
      BY <1>2, <1>6, <2>8, <3>2 DEF MapTypes
  <2>11. ASSUME NEW j \in Key
         PROVE  InMemory(local', j) = IF local'[j] = Nil THEN Rate!NoHits
                                      ELSE IF j = k THEN new ELSE InMemory(local, j)
    BY <2>6, <2>8 DEF InMemory
  <2>12. \A j \in Key : Rate!Size(InMemory(local', j)) <= Limit
    <3>1. Rate!Size(Rate!NoHits) <= Limit
      BY SizeOfNone, RateConstants
    <3>2. \A j \in Key : Rate!Size(InMemory(local, j)) <= Limit
      BY DEF RateInv, WindowsRight, WithinLimit
    <3>3. QED
      BY <2>4, <2>11, <3>1, <3>2
  <2>13. ASSUME NEW j \in Key, NEW a \in Recent
         PROVE  granted'[j][a] + Cardinality(Unanswered(check', j, a)) <= zset[j][a] + InMemory(local', j)[a]
    <3>1. Rate!NoHits[a] = 0 /\ a \in Rate!Age
      BY RecentAges DEF Rate!NoHits
    <3>2. CASE (j = k \/ local[j] # Nil) /\ local'[j] = Nil
      <4>1. granted'[j][a] = 0 /\ InMemory(local', j)[a] = 0
        BY <2>9, <2>11, <3>1, <3>2
      <4>2. QED
        BY <1>7, <4>1
    <3>3. CASE j = k /\ local'[j] # Nil
      <4>1. granted'[j][a] = more[a] /\ InMemory(local', j)[a] = new[a]
        BY <2>9, <2>11, <3>3
      <4>2. \/ more[a] = granted[j][a] /\ new[a] = InMemory(local, j)[a]
            \/ more[a] = granted[j][a] + 1 /\ new[a] = InMemory(local, j)[a] + 1
        BY <1>5, <2>1, <2>2, <3>1, <3>3
      <4>3. QED
        BY <1>7, <4>1, <4>2
    <3>4. CASE j # k /\ (local'[j] # Nil \/ local[j] = Nil)
      <4>1. granted'[j] = granted[j] /\ InMemory(local', j) = InMemory(local, j)
        BY <2>6, <2>8, <2>9, <2>11, <3>4 DEF InMemory
      <4>2. QED
        BY <1>7, <4>1
    <3>5. QED
      BY <3>2, <3>3, <3>4
  <2>14. QED
    BY <1>8, <2>8, <2>10, <2>12, <2>13
<1>11. QED
  BY <1>3, <1>9, <1>10

\* Time passes: every window and every call is a tick older.
LEMMA TickStep ==
    ASSUME RateAssumptions, RateInv, Rate!Tick
    PROVE  RateInv'
<1>1. /\ \A c \in Caller : check[c].phase # "idle" => check[c].age < CheckDelay
      /\ local' = [k \in Key |-> IF local[k] = Nil THEN Nil ELSE Rate!Older(local[k])]
      /\ zset' = [k \in Key |-> Rate!Older(zset[k])]
      /\ granted' = [k \in Key |-> Rate!Older(granted[k])]
      /\ check' = [c \in Caller |-> IF check[c].phase = "idle" THEN check[c]
                                    ELSE [check[c] EXCEPT !.age = @ + 1]]
  BY DEF Rate!Tick
<1>2. local \in [Key -> Rate!Hits \cup {Nil}] /\ zset \in [Key -> Rate!Hits] /\ granted \in [Key -> Rate!Hits]
  BY DEF RateInv, MapTypes
<1>3. \A h \in Rate!Hits : Rate!Older(h) \in Rate!Hits /\ Rate!Older(h) # Nil
  BY SizeOfOlder, RateConstants
<1>4. MapTypes'
  BY <1>1, <1>2, <1>3 DEF MapTypes
<1>5. CapKept'
  <2>1. Rate!Present(local') = Rate!Present(local)
    BY <1>1, <1>2, <1>3 DEF Rate!Present
  <2>2. QED
    BY <2>1 DEF RateInv, CapKept, PresentFinite
<1>6. ASSUME NEW k \in Key
      PROVE  InMemory(local', k) = IF local[k] = Nil THEN Rate!NoHits ELSE Rate!Older(local[k])
  BY <1>1, <1>2, <1>3 DEF InMemory
<1>7. WithinLimit'
  <2>1. ASSUME NEW h \in Rate!Hits, Rate!Size(h) <= Limit PROVE Rate!Size(Rate!Older(h)) <= Limit
    <3>1. Rate!Size(Rate!Older(h)) <= Rate!Size(h) /\ Rate!Older(h) \in Rate!Hits
      BY SizeOfOlder
    <3>2. Rate!Size(Rate!Older(h)) \in Nat /\ Rate!Size(h) \in Nat /\ Limit \in Nat
      BY <3>1, SizeType, RateConstants
    <3>3. QED
      BY <2>1, <3>1, <3>2
  <2>2. ASSUME NEW k \in Key
        PROVE  Rate!Size(zset'[k]) <= Limit /\ Rate!Size(InMemory(local', k)) <= Limit
    <3>1. /\ zset[k] \in Rate!Hits /\ Rate!Size(zset[k]) <= Limit
          /\ InMemory(local, k) \in Rate!Hits /\ Rate!Size(InMemory(local, k)) <= Limit
      BY WindowTypes DEF RateInv, WindowsRight, WithinLimit
    <3>2. zset'[k] = Rate!Older(zset[k])
      BY <1>1
    <3>3. CASE local[k] = Nil
      BY <1>6, <2>1, <3>1, <3>2, <3>3 DEF InMemory
    <3>4. CASE local[k] # Nil
      BY <1>6, <2>1, <3>1, <3>2, <3>4 DEF InMemory
    <3>5. QED
      BY <3>3, <3>4
  <2>3. QED
    BY <2>2 DEF WithinLimit
<1>8. ASSUME NEW c \in Caller
      PROVE  /\ check'[c] \in Record /\ check'[c].phase = check[c].phase /\ check'[c].key = check[c].key
             /\ check[c].phase = "answered" => check'[c].age = check[c].age + 1 /\ check'[c].ok = check[c].ok
  <2>1. check[c] \in Record /\ check[c].age \in 0 .. CheckDelay
    BY CheckFields
  <2>2. CASE check[c].phase = "idle"
    BY <1>1, <2>1, <2>2
  <2>3. CASE check[c].phase # "idle"
    <3>1. check'[c] = [check[c] EXCEPT !.age = check[c].age + 1] /\ check[c].age + 1 \in 0 .. CheckDelay
      BY <1>1, <2>1, <2>3, RateConstants
    <3>2. QED
      BY <2>1, <3>1 DEF Record
  <2>4. QED
    BY <2>2, <2>3
<1>9. CallTypes'
  <2>1. check' \in [Caller -> Record]
    BY <1>1, <1>8
  <2>2. {c \in Caller : check'[c].phase # "idle"} = {c \in Caller : check[c].phase # "idle"}
    BY <1>8
  <2>3. \A c \in Caller : check'[c].phase \in {"asking", "answered", "local"} => check'[c].key \in Key
    BY <1>8, CheckFields
  <2>4. QED
    BY <2>1, <2>2, <2>3 DEF RateInv, CallTypes, CallsKnown, Record
<1>10. ASSUME NEW k \in Key, NEW a \in Recent
       PROVE  /\ a = 0 => Unanswered(check', k, a) = {}
              /\ a # 0 => Unanswered(check', k, a) = Unanswered(check, k, a - 1)
  <2>1. ASSUME NEW c \in Caller
        PROVE  c \in Unanswered(check', k, a) <=> a # 0 /\ c \in Unanswered(check, k, a - 1)
    <3>1. check[c].age \in Nat /\ a \in Nat
      BY CheckFields, RecentAges
    <3>2. CASE check[c].phase = "answered"
      <4>1. check'[c].age = check[c].age + 1 /\ check'[c].ok = check[c].ok
        BY <1>8, <3>2
      <4>2. check'[c].age = a <=> a # 0 /\ check[c].age = a - 1
        BY <3>1, <4>1
      <4>3. QED
        BY <1>8, <3>2, <4>1, <4>2 DEF Unanswered
    <3>3. CASE check[c].phase # "answered"
      BY <1>8, <3>3 DEF Unanswered
    <3>4. QED
      BY <3>2, <3>3
  <2>2. Unanswered(check', k, a) \subseteq Caller /\ Unanswered(check, k, a - 1) \subseteq Caller
    BY DEF Unanswered
  <2>3. QED
    BY <2>1, <2>2
<1>11. ASSUME NEW k \in Key, NEW a \in Recent
       PROVE  /\ Cardinality(Unanswered(check', k, a)) <= zset'[k][a]
              /\ granted'[k][a] + Cardinality(Unanswered(check', k, a)) <= zset'[k][a] + InMemory(local', k)[a]
  <2>1. /\ zset'[k] = Rate!Older(zset[k]) /\ granted'[k] = Rate!Older(granted[k])
        /\ zset[k] \in Rate!Hits /\ granted[k] \in Rate!Hits /\ a \in Rate!Age
    BY <1>1, WindowTypes, RecentAges DEF RateInv
  <2>2. /\ zset'[k][a] = IF a = 0 THEN 0 ELSE zset[k][a - 1]
        /\ granted'[k][a] = IF a = 0 THEN 0 ELSE granted[k][a - 1]
    BY <2>1, SizeOfOlder
  <2>3. InMemory(local', k)[a] = IF a = 0 THEN 0 ELSE InMemory(local, k)[a - 1]
    <3>1. CASE local[k] = Nil
      <4>1. InMemory(local', k)[a] = 0
        BY <1>6, <2>1, <3>1 DEF Rate!NoHits
      <4>2. a # 0 => InMemory(local, k)[a - 1] = 0
        BY <3>1, RecentAges DEF InMemory, Rate!NoHits
      <4>3. QED
        BY <4>1, <4>2
    <3>2. CASE local[k] # Nil
      <4>1. local[k] \in Rate!Hits
        BY <1>2, <3>2
      <4>2. Rate!Older(local[k])[a] = IF a = 0 THEN 0 ELSE local[k][a - 1]
        BY <2>1, <4>1, SizeOfOlder
      <4>3. QED
        BY <1>6, <3>2, <4>2 DEF InMemory
    <3>3. QED
      BY <3>1, <3>2
  <2>4. CASE a = 0
    BY <1>10, <2>2, <2>3, <2>4, FS_EmptySet
  <2>5. CASE a # 0
    <3>1. a - 1 \in Recent
      BY <2>5, RecentAges
    <3>2. /\ Cardinality(Unanswered(check, k, a - 1)) <= zset[k][a - 1]
          /\ granted[k][a - 1] + Cardinality(Unanswered(check, k, a - 1))
                 <= zset[k][a - 1] + InMemory(local, k)[a - 1]
      BY <3>1 DEF RateInv, WindowsRight, InRedis, Accounted
    <3>3. QED
      BY <1>10, <2>2, <2>3, <2>5, <3>2
  <2>6. QED
    BY <2>4, <2>5
<1>12. InRedis' /\ Accounted'
  BY <1>11 DEF InRedis, Accounted, Recent
<1>13. QED
  BY <1>4, <1>5, <1>7, <1>9, <1>12 DEF RateInv, WindowsRight

\* A key that expires has no hit that counts for the bound.
LEMMA ExpireStep ==
    ASSUME RateAssumptions, RateInv, NEW k \in Key, Rate!Expire(k)
    PROVE  RateInv'
<1>1. /\ \A a \in Rate!Age : zset[k][a] > 0 => a >= 2 * Window
      /\ zset' = [zset EXCEPT ![k] = Rate!NoHits]
      /\ UNCHANGED <<local, check, granted>>
  BY DEF Rate!Expire
<1>2. MapTypes'
  BY <1>1, SizeOfNone DEF RateInv, MapTypes
<1>3. CallTypes' /\ CapKept'
  BY <1>1 DEF RateInv, CallTypes, CallsKnown, CapKept, PresentFinite, Rate!Present
<1>4. WithinLimit'
  BY <1>1, SizeOfNone, RateConstants DEF RateInv, MapTypes, WindowsRight, WithinLimit, InMemory
<1>5. ASSUME NEW a \in Recent PROVE Rate!NoHits[a] = zset[k][a]
  <2>1. a \in Rate!Age /\ a \in Nat /\ a < Window
    BY RecentAges, RateConstants DEF Recent
  <2>2. zset[k][a] \in Nat
    BY <2>1, WindowTypes DEF RateInv
  <2>3. zset[k][a] = 0
    BY <1>1, <2>1, <2>2, RateConstants
  <2>4. QED
    BY <2>1, <2>3 DEF Rate!NoHits
<1>6. \A j \in Key, a \in Recent : zset'[j][a] = zset[j][a]
  BY <1>1, <1>5 DEF RateInv, MapTypes
<1>7. \A j \in Key, a \in Recent : Unanswered(check', j, a) = Unanswered(check, j, a)
  BY <1>1
<1>8. InRedis' /\ Accounted'
  BY <1>1, <1>6, <1>7 DEF RateInv, WindowsRight, InRedis, Accounted, InMemory
<1>9. QED
  BY <1>2, <1>3, <1>4, <1>8 DEF RateInv, WindowsRight

LEMMA RateStarts ==
    ASSUME RateAssumptions, Rate!Init
    PROVE  RateInv
<1>1. /\ local = [k \in Key |-> Nil] /\ check = [c \in Caller |-> Rate!Idle]
      /\ zset = [k \in Key |-> Rate!NoHits] /\ granted = [k \in Key |-> Rate!NoHits]
  BY DEF Rate!Init
<1>2. MapTypes /\ \A k \in Key : InMemory(local, k) = Rate!NoHits /\ zset[k] = Rate!NoHits
  BY <1>1, SizeOfNone DEF MapTypes, InMemory
<1>3. CallTypes
  <2>1. Rate!Idle \in Record /\ Rate!Idle.phase = "idle"
    BY RateConstants DEF Record, Rate!Phase, Rate!Idle
  <2>2. {c \in Caller : check[c].phase # "idle"} = {}
    BY <1>1, <2>1
  <2>3. QED
    BY <1>1, <2>1, <2>2, FS_EmptySet DEF CallTypes, CallsKnown
<1>4. CapKept
  <2>1. Rate!Present(local) = {}
    BY <1>1 DEF Rate!Present
  <2>2. QED
    BY <2>1, FS_EmptySet, RateConstants DEF CapKept, PresentFinite
<1>5. WithinLimit
  BY <1>2, SizeOfNone, RateConstants DEF WithinLimit
<1>6. ASSUME NEW k \in Key, NEW a \in Recent
      PROVE  /\ Cardinality(Unanswered(check, k, a)) = 0
             /\ zset[k][a] = 0 /\ granted[k][a] = 0 /\ InMemory(local, k)[a] = 0
  <2>1. Unanswered(check, k, a) = {}
    BY <1>1 DEF Unanswered, Rate!Idle
  <2>2. Rate!NoHits[a] = 0
    BY RecentAges DEF Rate!NoHits
  <2>3. QED
    BY <1>1, <1>2, <2>1, <2>2, FS_EmptySet
<1>7. InRedis /\ Accounted
  BY <1>6 DEF InRedis, Accounted
<1>8. QED
  BY <1>2, <1>3, <1>4, <1>5, <1>7 DEF RateInv, WindowsRight

LEMMA RateStep ==
    ASSUME RateAssumptions, RateInv, [Rate!Next]_(Rate!vars)
    PROVE  RateInv'
<1>1. ASSUME NEW c \in Caller,
             \/ \E k \in Key : Rate!Begin(c, k)
             \/ Rate!Fail(c) \/ Rate!BeginPing(c) \/ Rate!Pong(c)
      PROVE  RateInv'
  BY <1>1, QuietSteps
<1>2. ASSUME NEW c \in Caller, Rate!Eval(c) PROVE RateInv'
  BY <1>2, EvalStep
<1>3. ASSUME NEW c \in Caller, Rate!Answer(c) PROVE RateInv'
  BY <1>3, AnswerStep
<1>4. ASSUME NEW c \in Caller, Rate!CheckLocal(c) PROVE RateInv'
  BY <1>4, CheckLocalStep
<1>5. CASE Rate!Tick
  BY <1>5, TickStep
<1>6. CASE UNCHANGED Rate!vars
  BY <1>6 DEF Rate!vars, RateInv, MapTypes, CallTypes, CallsKnown, CapKept, PresentFinite,
              Rate!Present, WindowsRight, WithinLimit, InRedis, Accounted, InMemory, Unanswered
<1>7. ASSUME NEW k \in Key, Rate!Expire(k) PROVE RateInv'
  BY <1>7, ExpireStep
<1>8. QED
  BY <1>1, <1>2, <1>3, <1>4, <1>5, <1>6, <1>7 DEF Rate!Next

LEMMA RateIsInvariant ==
    ASSUME RateAssumptions
    PROVE  Rate!Spec => []RateInv
<1>1. Rate!Init => RateInv
  BY RateStarts
<1>2. RateInv /\ [Rate!Next]_(Rate!vars) => RateInv'
  BY RateStep
<1>3. QED
  BY <1>1, <1>2, PTL DEF Rate!Spec

\* Windows is the same module in the instance.
LEMMA SameWindows ==
    \A h : Kept(h, 0) = Rate!Kept(h, 0) /\ Size(h) = Rate!Size(h)
<1>1. \A h : Kept(h, 0) = Rate!Kept(h, 0)
  BY DEF Kept, Age, Rate!Kept, Rate!Age
<1>2. \A h : Size(h) = Rate!Size(h)
  BY DEF Size, FoldFunction, FoldFunctionOnSet, MapThenFoldSet,
         Rate!Size, Rate!FoldFunction, Rate!FoldFunctionOnSet, Rate!MapThenFoldSet
<1>3. QED
  BY <1>1, <1>2

\* Falling back to memory, and back again, lets a key through at most twice as often as the
\* limit, for any limit, window and number of callers and however late answers come: what has
\* been granted is in one of two windows that each keep the limit.
THEOREM FallbackDoublesAtMost ==
    ASSUME RateAssumptions
    PROVE  Rate!Spec => []FallbackAtMostDoubles
<1>1. RateInv => FallbackAtMostDoubles
  <2>1. ASSUME RateInv, NEW k \in Key
        PROVE  Rate!Size(Rate!Kept(granted[k], 0)) <= 2 * Limit
    <3> DEFINE recent == Rate!Kept(granted[k], 0)
    <3>1. zset[k] \in Rate!Hits /\ granted[k] \in Rate!Hits /\ InMemory(local, k) \in Rate!Hits
      BY <2>1, WindowTypes DEF RateInv
    <3>2. /\ recent \in Rate!Hits
          /\ \A a \in Rate!Age : recent[a] = IF a < 0 + Window THEN granted[k][a] ELSE 0
      BY <3>1, SizeOfKept
    <3> HIDE DEF recent
    <3>3. ASSUME NEW a \in Rate!Age PROVE recent[a] <= zset[k][a] + InMemory(local, k)[a]
      <4>1. a \in Nat /\ zset[k][a] \in Nat /\ granted[k][a] \in Nat /\ InMemory(local, k)[a] \in Nat
        BY <2>1, WindowTypes, RateConstants DEF RateInv
      <4>2. CASE a < Window
        <5>1. a \in Recent
          BY <4>1, <4>2, RateConstants DEF Recent
        <5>2. Cardinality(Unanswered(check, k, a)) \in Nat
          BY <2>1, CountType DEF RateInv
        <5>3. granted[k][a] + Cardinality(Unanswered(check, k, a)) <= zset[k][a] + InMemory(local, k)[a]
          BY <2>1, <5>1 DEF RateInv, WindowsRight, Accounted
        <5>4. recent[a] = granted[k][a]
          BY <3>2, <4>1, <4>2, RateConstants
        <5>5. QED
          BY <4>1, <5>2, <5>3, <5>4
      <4>3. CASE ~(a < Window)
        <5>1. recent[a] = 0
          BY <3>2, <4>1, <4>3, RateConstants
        <5>2. QED
          BY <4>1, <5>1
      <4>4. QED
        BY <4>2, <4>3
    <3>4. Rate!Size(recent) <= Rate!Size(zset[k]) + Rate!Size(InMemory(local, k))
      BY <3>1, <3>2, <3>3, SizeOfSum
    <3>5. Rate!Size(zset[k]) <= Limit /\ Rate!Size(InMemory(local, k)) <= Limit
      BY <2>1 DEF RateInv, WindowsRight, WithinLimit
    <3>6. /\ Rate!Size(recent) \in Nat /\ Rate!Size(zset[k]) \in Nat
          /\ Rate!Size(InMemory(local, k)) \in Nat /\ Limit \in Nat
      BY <3>1, <3>2, SizeType, RateConstants
    <3>7. Rate!Size(recent) <= 2 * Limit
      BY <3>4, <3>5, <3>6
    <3>8. QED
      BY <3>7 DEF recent
  <2>2. \A h : Kept(h, 0) = Rate!Kept(h, 0) /\ Size(h) = Rate!Size(h)
    BY SameWindows
  <2>3. QED
    BY <2>1, <2>2 DEF FallbackAtMostDoubles
<1>2. QED
  BY <1>1, RateIsInvariant, PTL

\* While a key has been counted by one store alone, within the window, the limit is kept exactly,
\* for any limit, window and number of callers and however late answers come.
THEOREM OneStoreIsExact ==
    ASSUME RateAssumptions
    PROVE  Rate!Spec => []OneStoreKeepsLimit
<1>1. RateInv => OneStoreKeepsLimit
  <2>1. ASSUME RateInv, NEW k \in Key, Unused(zset[k]) \/ Unused(local[k])
        PROVE  Rate!Size(Rate!Kept(granted[k], 0)) <= Limit
    <3> DEFINE recent == Rate!Kept(granted[k], 0)
               memory == InMemory(local, k)
    <3>1. zset[k] \in Rate!Hits /\ granted[k] \in Rate!Hits /\ memory \in Rate!Hits
      BY <2>1, WindowTypes DEF RateInv
    <3>2. /\ recent \in Rate!Hits
          /\ \A a \in Rate!Age : recent[a] = IF a < 0 + Window THEN granted[k][a] ELSE 0
      BY <3>1, SizeOfKept
    <3>3. \E full \in {zset[k], memory} : \A a \in Recent : granted[k][a] <= full[a]
      <4>1. ASSUME NEW hits \in Rate!Hits, Unused(hits), NEW a \in Recent PROVE hits[a] = 0
        <5>1. Kept(hits, 0) = NoHits /\ a \in Age
          BY <4>1, RecentAges DEF Unused, Hits, Age, Rate!Hits, Rate!Age
        <5>2. Kept(hits, 0)[a] = IF a < 0 + Window THEN hits[a] ELSE 0
          BY <5>1 DEF Kept
        <5>3. QED
          BY <5>1, <5>2, RecentAges DEF NoHits
      <4>2. Unused(local[k]) => Unused(memory)
        <5>1. CASE local[k] = Nil
          BY <5>1, RecentAges DEF Unused, Kept, NoHits, InMemory, Age, Rate!NoHits, Rate!Age
        <5>2. CASE local[k] # Nil
          BY <5>2 DEF InMemory
        <5>3. QED
          BY <5>1, <5>2
      <4>3. ASSUME NEW a \in Recent PROVE granted[k][a] <= zset[k][a] + memory[a]
        <5>1. /\ Cardinality(Unanswered(check, k, a)) \in Nat
              /\ granted[k][a] + Cardinality(Unanswered(check, k, a)) <= zset[k][a] + memory[a]
          BY <2>1, CountType DEF RateInv, WindowsRight, Accounted
        <5>2. granted[k][a] \in Nat /\ zset[k][a] \in Nat /\ memory[a] \in Nat
          BY <2>1, WindowTypes, RecentAges DEF RateInv
        <5> HIDE DEF memory
        <5>3. QED
          BY <5>1, <5>2
      <4>4. \A a \in Recent : zset[k][a] \in Nat /\ memory[a] \in Nat /\ granted[k][a] \in Nat
        BY <2>1, WindowTypes, RecentAges DEF RateInv
      <4> HIDE DEF memory
      <4>5. CASE Unused(zset[k])
        BY <3>1, <4>1, <4>3, <4>4, <4>5
      <4>6. CASE Unused(memory)
        BY <3>1, <4>1, <4>3, <4>4, <4>6
      <4>7. QED
        BY <2>1, <4>2, <4>5, <4>6
    <3>4. PICK full \in {zset[k], memory} : \A a \in Recent : granted[k][a] <= full[a]
      BY <3>3
    <3>5. full \in Rate!Hits /\ Rate!Size(full) <= Limit
      BY <2>1, <3>1 DEF RateInv, WindowsRight, WithinLimit
    <3> HIDE DEF recent, memory
    <3>6. ASSUME NEW a \in Rate!Age PROVE recent[a] <= full[a]
      <4>1. a \in Nat /\ full[a] \in Nat
        BY <3>5, RateConstants DEF Rate!Hits
      <4>2. a < Window => a \in Recent
        BY <4>1, RateConstants DEF Recent
      <4>3. QED
        BY <3>2, <3>4, <4>1, <4>2, RateConstants
    <3>7. Rate!Size(recent) <= Rate!Size(full)
      BY <3>2, <3>5, <3>6, SizeAtMost
    <3>8. Rate!Size(recent) \in Nat /\ Rate!Size(full) \in Nat /\ Limit \in Nat
      BY <3>2, <3>5, SizeType, RateConstants
    <3>9. QED
      BY <3>5, <3>7, <3>8 DEF recent
  <2>2. \A h : Kept(h, 0) = Rate!Kept(h, 0) /\ Size(h) = Rate!Size(h)
    BY SameWindows
  <2>3. QED
    BY <2>1, <2>2 DEF OneStoreKeepsLimit
<1>2. QED
  BY <1>1, RateIsInvariant, PTL

\* The map of windows in memory never has more than LocalCap keys, for any cap and however many
\* keys and callers: a check that is refused adds no key, since an absent one is under the limit.
THEOREM MapStaysUnderCap ==
    ASSUME RateAssumptions
    PROVE  Rate!Spec => []MapUnderCap
<1>1. RateInv => MapUnderCap
  <2>1. ASSUME RateInv
        PROVE  {k \in Key : local[k] \in Hits} = Rate!Present(local)
    <3>1. \A k \in Key : local[k] \in Rate!Hits \cup {Nil}
      BY <2>1 DEF RateInv, MapTypes
    <3>2. Nil \notin Rate!Hits /\ Hits = Rate!Hits
      BY RateConstants DEF Hits, Rate!Hits, Age, Rate!Age
    <3>3. QED
      BY <3>1, <3>2 DEF Rate!Present
  <2>2. QED
    BY <2>1 DEF RateInv, CapKept, MapUnderCap
<1>2. QED
  BY <1>1, RateIsInvariant, PTL

\* Every variable of RateStore keeps its type.
THEOREM RateTypeCorrect ==
    ASSUME RateAssumptions
    PROVE  Rate!Spec => []Rate!TypeOK
<1>1. RateInv /\ CircuitInv => Rate!TypeOK
  BY DEF RateInv, MapTypes, CallTypes, Record, CircuitInv, CircuitType, Rate!TypeOK,
         Rate!CircuitType
<1>2. Rate!Spec => []CircuitInv
  BY RateKeepsCircuit
<1>3. QED
  BY <1>1, <1>2, RateIsInvariant, PTL
=============================================================================
