----------------------------- MODULE ZonesProofs -----------------------------
(***************************************************************************)
(* Theorems about Zones for any number of requests, zones, devices,        *)
(* payload forms and attempts: type correctness, that nothing is announced *)
(* that has not happened, and that a zone is never saved with a poorer     *)
(* payload than the table has columns for.                                 *)
(*                                                                         *)
(* A request may be handled long after its handler has gone on; what makes *)
(* the last of these inductive is that the payloads a handler goes through *)
(* become poorer only after the table has refused one (PoorerRefused), and *)
(* that a late request is richer than the handler's current one, never     *)
(* poorer (FlightBehind).  An announcement comes a step after the answer   *)
(* it follows, when others may have changed the row again: what is kept    *)
(* from one to the other is SavedHeld.                                     *)
(***************************************************************************)
EXTENDS Zones, TLAPS

\* A payload is given up only when the table has refused it.
PoorerRefused ==
    \A c \in Caller : \A v \in Schema :
        /\ task[c].variant <= v
        /\ task[c].kind = "post" /\ task[c].at = "mismatch" => task[c].variant < v

\* A delete is never refused for a column.
DeletesMatch == \A c \in Caller : task[c].kind = "delete" => task[c].at # "mismatch"

\* No request carries a payload its handler has not come to.
FlightBehind == \A req \in flight : req.variant <= task[req.by].variant

\* A handler that takes its request for carried out has seen the table as it asked.
SavedHeld == \A c \in Caller : task[c].at = "saved" => c \in held

ZonesInv ==
    /\ TypeOK /\ PoorerRefused /\ DeletesMatch /\ FlightBehind /\ SavedHeld
    /\ AnnouncedHasHappened /\ RichestPayload
-----------------------------------------------------------------------------
(* Handlers and requests.                                                  *)

LEMMA TaskFields ==
    ASSUME TypeOK, NEW c \in Caller
    PROVE  /\ task[c] \in Task
           /\ task[c].at \in Stage /\ task[c].kind \in {"post", "delete"} /\ task[c].zone \in Zone
           /\ task[c].device \in Device /\ task[c].variant \in 1 .. Variants
           /\ task[c].attempt \in 1 .. Attempts
           /\ task[c].variant \in Nat /\ task[c].attempt \in Nat
BY DEF TypeOK, Task

LEMMA Requests ==
    ASSUME TypeOK, NEW req \in flight
    PROVE  req \in Request /\ req.by \in Caller /\ req.variant \in 1 .. Variants /\ req.variant \in Nat
BY DEF TypeOK, Request

LEMMA SchemaIsNatural == \A v \in Schema : v \in Nat
BY VariantsAssumption

\* What a handler has asked for may be sent.
LEMMA SentIsRequest ==
    ASSUME TypeOK, NEW c \in Caller
    PROVE  Sent(c) \in Request /\ Sent(c).by = c /\ Sent(c).variant = task[c].variant
BY TaskFields DEF Sent, Request

\* A handler goes on to another stage, or to its next attempt, and nothing else of it changes.
Moves(c, stage) ==
    /\ task' \in [Caller -> Task]
    /\ \A d \in Caller : /\ task'[d].kind = task[d].kind /\ task'[d].variant = task[d].variant
                         /\ task'[d].at = IF d = c THEN stage ELSE task[d].at

LEMMA StageMoves ==
    ASSUME TypeOK, NEW c \in Caller, NEW stage \in Stage, task' = [task EXCEPT ![c].at = stage]
    PROVE  Moves(c, stage)
<1>1. task \in [Caller -> Task] /\ task[c] \in Task
  BY DEF TypeOK
<1>2. [task[c] EXCEPT !.at = stage] \in Task
  BY <1>1 DEF Task
<1>3. task' \in [Caller -> Task]
  BY <1>1, <1>2
<1>4. ASSUME NEW d \in Caller
      PROVE  /\ task'[d].kind = task[d].kind /\ task'[d].variant = task[d].variant
             /\ task'[d].at = IF d = c THEN stage ELSE task[d].at
  BY <1>1 DEF Task
<1>5. QED
  BY <1>3, <1>4 DEF Moves

LEMMA AttemptMoves ==
    ASSUME TypeOK, NEW c \in Caller, NEW stage \in Stage, NEW attempt \in 1 .. Attempts,
           task' = [task EXCEPT ![c].attempt = attempt, ![c].at = stage]
    PROVE  Moves(c, stage)
<1>1. task \in [Caller -> Task] /\ task[c] \in Task
  BY DEF TypeOK
<1>2. [task[c] EXCEPT !.attempt = attempt, !.at = stage] \in Task
  BY <1>1 DEF Task
<1>3. task' \in [Caller -> Task]
  BY <1>1, <1>2
<1>4. ASSUME NEW d \in Caller
      PROVE  /\ task'[d].kind = task[d].kind /\ task'[d].variant = task[d].variant
             /\ task'[d].at = IF d = c THEN stage ELSE task[d].at
  BY <1>1 DEF Task
<1>5. QED
  BY <1>3, <1>4 DEF Moves

\* A step that moves a handler on keeps the invariant, if the requests it adds carry its
\* current payload and it announces only what has happened.
LEMMA MovesOn ==
    ASSUME ZonesInv, NEW c \in Caller, NEW stage \in Stage \ {"saved", "mismatch"},
           Moves(c, stage), UNCHANGED row, told' \subseteq Caller, flight' \subseteq Request,
           \A req \in flight' : req \in flight \/ (req.by = c /\ req.variant = task[c].variant),
           \A d \in told' : d \in told \/ d \in held,
           held \subseteq held', held' \subseteq Caller
    PROVE  ZonesInv'
<1>0. /\ TypeOK /\ PoorerRefused /\ DeletesMatch /\ FlightBehind /\ SavedHeld
      /\ AnnouncedHasHappened /\ RichestPayload
  BY DEF ZonesInv
<1>1. /\ task' \in [Caller -> Task]
      /\ \A d \in Caller : /\ task'[d].kind = task[d].kind /\ task'[d].variant = task[d].variant
                             /\ task'[d].at = IF d = c THEN stage ELSE task[d].at
  BY DEF Moves
<1>2. TypeOK'
  BY <1>0, <1>1 DEF TypeOK
<1>3. PoorerRefused' /\ DeletesMatch' /\ SavedHeld' /\ AnnouncedHasHappened' /\ RichestPayload'
  BY <1>0, <1>1 DEF PoorerRefused, DeletesMatch, SavedHeld, AnnouncedHasHappened, RichestPayload
<1>4. FlightBehind'
  <2>1. ASSUME NEW req \in flight' PROVE req.variant <= task'[req.by].variant
    <3>1. CASE req \in flight
      BY <1>0, <1>1, <3>1, Requests DEF FlightBehind
    <3>2. CASE req.by = c /\ req.variant = task[c].variant
      BY <1>0, <1>1, <3>2, TaskFields
    <3>3. QED
      BY <3>1, <3>2
  <2>2. QED
    BY <2>1 DEF FlightBehind
<1>5. QED
  BY <1>2, <1>3, <1>4 DEF ZonesInv
-----------------------------------------------------------------------------
(* The steps.                                                              *)

LEMMA HandleStep ==
    ASSUME ZonesInv, NEW req \in flight, Handle(req)
    PROVE  ZonesInv'
<1> DEFINE b == req.by
           t == task[b]
<1>0. /\ TypeOK /\ PoorerRefused /\ DeletesMatch /\ FlightBehind /\ SavedHeld
      /\ AnnouncedHasHappened /\ RichestPayload
  BY DEF ZonesInv
<1>1. /\ b \in Caller /\ req \in Request /\ req.variant \in 1 .. Variants
      /\ t \in Task /\ t.at \in Stage /\ t.kind \in {"post", "delete"} /\ t.zone \in Zone
      /\ t.device \in Device /\ t.variant \in 1 .. Variants
      /\ req.variant \in Nat /\ t.variant \in Nat
      /\ req.variant <= t.variant
  BY <1>0, Requests, TaskFields DEF FlightBehind
<1>2. /\ flight' = flight \ {req} /\ told' = told
      /\ row' = IF Accepts(req) THEN [row EXCEPT ![t.zone] = After(req)] ELSE row
  BY DEF Handle
<1>3. PICK arrives \in IF Awaited(req) THEN BOOLEAN ELSE {FALSE} :
          task' = [task EXCEPT ![b].at = IF ~arrives THEN @
                                         ELSE IF Accepts(req) THEN "saved" ELSE "mismatch"]
  BY DEF Handle
<1>4. Accepts(req) \in BOOLEAN /\ arrives \in BOOLEAN
  BY <1>3 DEF Accepts
<1>5. /\ task' \in [Caller -> Task]
      /\ \A c \in Caller : c # b => task'[c] = task[c]
      /\ task'[b].kind = t.kind /\ task'[b].variant = t.variant
      /\ task'[b].zone = t.zone /\ task'[b].device = t.device
      /\ task'[b].at = IF ~arrives THEN t.at ELSE IF Accepts(req) THEN "saved" ELSE "mismatch"
  BY <1>0, <1>1, <1>3, <1>4 DEF TypeOK, Task, Stage
<1>6. ASSUME arrives, ~Accepts(req)
      PROVE  t.kind = "post" /\ t.variant \notin Schema
  <2>1. Awaited(req)
    BY <1>3, <1>6
  <2>2. t.variant = req.variant
    BY <2>1 DEF Awaited, Sent
  <2>3. QED
    BY <1>1, <1>6, <2>2 DEF Accepts
<1>watch. held \subseteq held' /\ held' \subseteq Caller
  BY <1>0 DEF Handle, Watch, TypeOK
<1>7. TypeOK'
  <2>1. After(req) \in Row \cup {Nil}
    BY <1>0, <1>1 DEF After, Row, TypeOK
  <2>2. row' \in [Zone -> Row \cup {Nil}]
    BY <1>0, <1>2, <2>1 DEF TypeOK
  <2>3. QED
    BY <1>0, <1>2, <1>5, <1>watch, <2>2 DEF TypeOK
<1>8. PoorerRefused'
  <2>1. ASSUME NEW v \in Schema
        PROVE  t.variant <= v /\ (task'[b].kind = "post" /\ task'[b].at = "mismatch" => t.variant < v)
    <3>1. v \in Nat /\ t.variant <= v /\ (t.kind = "post" /\ t.at = "mismatch" => t.variant < v)
      BY <1>0, <1>1, SchemaIsNatural DEF PoorerRefused
    <3>2. CASE arrives /\ ~Accepts(req)
      BY <1>1, <1>6, <3>1, <3>2
    <3>3. CASE ~(arrives /\ ~Accepts(req))
      BY <1>4, <1>5, <3>1, <3>3
    <3>4. QED
      BY <3>2, <3>3
  <2>2. QED
    BY <1>0, <1>5, <2>1 DEF PoorerRefused
<1>9. DeletesMatch'
  BY <1>0, <1>1, <1>4, <1>5, <1>6 DEF DeletesMatch
<1>10. FlightBehind'
  <2>1. ASSUME NEW r \in flight' PROVE r.variant <= task'[r.by].variant
    <3>1. r \in flight /\ r.by \in Caller /\ r.variant <= task[r.by].variant
      BY <1>0, <1>2, Requests DEF FlightBehind
    <3>2. QED
      BY <1>5, <3>1
  <2>2. QED
    BY <2>1 DEF FlightBehind
\* A request that has been carried out leaves the table as its handler asked.
<1>asked. ASSUME Accepts(req) PROVE AsAsked(b)'
  <2>1. row'[t.zone] = After(req)
    BY <1>0, <1>1, <1>2, <1>asked DEF TypeOK
  <2>2. CASE t.kind = "post"
    <3>1. [device |-> t.device, by |-> b, variant |-> req.variant] # Nil
      BY <1>1, NilAssumption
    <3>2. After(req) # Nil /\ After(req).by = b
      BY <2>2, <3>1 DEF After
    <3>3. QED
      BY <1>5, <2>1, <2>2, <3>2 DEF AsAsked
  <2>3. CASE t.kind # "post"
    <3>1. After(req) = Nil \/ After(req).device # t.device
      BY <2>3 DEF After
    <3>2. QED
      BY <1>5, <2>1, <2>3, <3>1 DEF AsAsked
  <2>4. QED
    BY <2>2, <2>3
<1>11. SavedHeld' /\ AnnouncedHasHappened'
  <2>1. ASSUME task'[b].at = "saved", task[b].at # "saved" PROVE b \in held'
    <3>1. Accepts(req) /\ UnderWay(b)'
      BY <1>4, <1>5, <2>1 DEF UnderWay
    <3>2. QED
      BY <1>1, <1>asked, <3>1 DEF Handle, Watch
  <2>2. SavedHeld'
    BY <1>0, <1>1, <1>5, <1>watch, <2>1 DEF SavedHeld
  <2>3. QED
    BY <1>0, <1>2, <1>watch, <2>2 DEF AnnouncedHasHappened
<1>12. RichestPayload'
  <2>1. ASSUME NEW z \in Zone, row'[z] # Nil, NEW v \in Schema PROVE row'[z].variant <= v
    <3>1. row[z] # Nil => row[z].variant <= v
      BY <1>0 DEF RichestPayload
    <3>2. CASE row'[z] = row[z]
      BY <2>1, <3>1, <3>2
    <3>3. CASE row'[z] # row[z]
      <4>1. z = t.zone /\ row'[z] = After(req)
        BY <1>0, <1>1, <1>2, <3>3 DEF TypeOK
      <4>2. t.kind = "post"
        BY <1>1, <2>1, <3>3, <4>1 DEF After
      <4>3. row'[z].variant = req.variant
        BY <4>1, <4>2 DEF After
      <4>4. v \in Nat /\ t.variant <= v
        BY <1>0, <1>1, SchemaIsNatural DEF PoorerRefused
      <4>5. QED
        BY <1>1, <4>3, <4>4
    <3>4. QED
      BY <3>2, <3>3
  <2>2. QED
    BY <2>1 DEF RichestPayload
<1>13. QED
  BY <1>7, <1>8, <1>9, <1>10, <1>11, <1>12 DEF ZonesInv

LEMMA NextVariantStep ==
    ASSUME ZonesInv, NEW c \in Caller, NextVariant(c)
    PROVE  ZonesInv'
<1>0. /\ TypeOK /\ PoorerRefused /\ DeletesMatch /\ FlightBehind /\ SavedHeld
      /\ AnnouncedHasHappened /\ RichestPayload
  BY DEF ZonesInv
<1>1. /\ task[c].at = "mismatch" /\ task[c].kind = "post"
      /\ UNCHANGED <<row, flight, told, held>>
  BY <1>0, TaskFields DEF NextVariant, DeletesMatch
<1>2. CASE task[c].variant < Variants
  <2>1. task' = [task EXCEPT ![c].variant = @ + 1, ![c].attempt = 1, ![c].at = "ready"]
    BY <1>2 DEF NextVariant
  <2>2. task[c].variant + 1 \in 1 .. Variants /\ 1 \in 1 .. Attempts /\ task[c].variant \in Nat
    BY <1>0, <1>2, TaskFields, VariantsAssumption, AttemptsAssumption
  <2>3. /\ task' \in [Caller -> Task]
        /\ \A d \in Caller : d # c => task'[d] = task[d]
        /\ task'[c].kind = task[c].kind /\ task'[c].at = "ready"
        /\ task'[c].variant = task[c].variant + 1
    <3>1. task \in [Caller -> Task] /\ task[c] \in Task
      BY <1>0 DEF TypeOK
    <3> DEFINE new == [task[c] EXCEPT !.variant = task[c].variant + 1, !.attempt = 1, !.at = "ready"]
    <3>2. /\ new \in Task /\ new.kind = task[c].kind /\ new.at = "ready"
          /\ new.variant = task[c].variant + 1
      BY <2>2, <3>1 DEF Task, Stage
    <3>3. task' = [task EXCEPT ![c] = new]
      BY <2>1
    <3> HIDE DEF new
    <3>4. QED
      BY <3>1, <3>2, <3>3
  <2>4. TypeOK'
    BY <1>0, <1>1, <2>3 DEF TypeOK
  <2>5. PoorerRefused'
    <3>1. ASSUME NEW v \in Schema PROVE task[c].variant + 1 <= v
      <4>1. v \in Nat /\ task[c].variant < v
        BY <1>0, <1>1, SchemaIsNatural DEF PoorerRefused
      <4>2. QED
        BY <2>2, <4>1
    <3>2. QED
      BY <1>0, <2>3, <3>1 DEF PoorerRefused
  <2>6. FlightBehind'
    <3>1. ASSUME NEW r \in flight PROVE r.variant <= task'[r.by].variant
      <4>1. r.by \in Caller /\ r.variant \in Nat /\ r.variant <= task[r.by].variant
        BY <1>0, Requests DEF FlightBehind
      <4>2. QED
        BY <2>2, <2>3, <4>1
    <3>2. QED
      BY <1>1, <3>1 DEF FlightBehind
  <2>7. DeletesMatch' /\ SavedHeld' /\ AnnouncedHasHappened' /\ RichestPayload'
    BY <1>0, <1>1, <2>3 DEF DeletesMatch, SavedHeld, AnnouncedHasHappened, RichestPayload
  <2>8. QED
    BY <2>4, <2>5, <2>6, <2>7 DEF ZonesInv
<1>3. CASE ~(task[c].variant < Variants)
  <2>1. Moves(c, "failed") /\ "failed" \in Stage \ {"saved", "mismatch"}
    BY <1>0, <1>3, StageMoves DEF NextVariant, Stage
  <2>2. QED
    BY <1>0, <1>1, <2>1, MovesOn DEF TypeOK
<1>4. QED
  BY <1>2, <1>3

LEMMA ZonesStep == ZonesInv /\ [Next]_vars => ZonesInv'
<1> SUFFICES ASSUME ZonesInv, [Next]_vars PROVE ZonesInv'
  OBVIOUS
<1>0. TypeOK
  BY DEF ZonesInv
<1>1. ASSUME NEW c \in Caller, Begin(c) PROVE ZonesInv'
  <2>1. Moves(c, "ready") /\ "ready" \in Stage \ {"saved", "mismatch"} /\ UNCHANGED <<row, flight, told>>
    BY <1>0, <1>1, StageMoves DEF Begin, Stage
  <2>2. held \subseteq held' /\ held' \subseteq Caller
    BY <1>0, <1>1 DEF Begin, Watch, TypeOK
  <2>3. QED
    BY <1>0, <2>1, <2>2, MovesOn DEF TypeOK
<1>2. ASSUME NEW c \in Caller, Send(c) PROVE ZonesInv'
  <2>1. Moves(c, "waiting") /\ "waiting" \in Stage \ {"saved", "mismatch"}
    BY <1>0, <1>2, StageMoves DEF Send, Stage
  <2>2. /\ UNCHANGED <<row, told, held>> /\ flight' = flight \cup {Sent(c)}
        /\ Sent(c) \in Request /\ Sent(c).by = c /\ Sent(c).variant = task[c].variant
    BY <1>0, <1>2, SentIsRequest DEF Send
  <2>3. flight' \subseteq Request
    BY <1>0, <2>2 DEF TypeOK
  <2>4. QED
    BY <1>0, <2>1, <2>2, <2>3, MovesOn DEF TypeOK
<1>3. ASSUME NEW c \in Caller, Unanswered(c) PROVE ZonesInv'
  <2>1. UNCHANGED <<row, flight, told, held>>
    BY <1>3 DEF Unanswered
  <2>2. \E stage \in {"ready", "failed"} : Moves(c, stage)
    <3>1. CASE task[c].attempt < Attempts
      <4>1. task[c].attempt + 1 \in 1 .. Attempts
        BY <1>0, <3>1, TaskFields, AttemptsAssumption
      <4>2. task' = [task EXCEPT ![c].attempt = task[c].attempt + 1, ![c].at = "ready"]
        BY <1>0, <1>3, <3>1 DEF Unanswered, Retry, TypeOK
      <4>3. QED
        BY <1>0, <4>1, <4>2, AttemptMoves DEF Stage
    <3>2. CASE ~(task[c].attempt < Attempts)
      BY <1>0, <1>3, <3>2, StageMoves DEF Unanswered, Retry, Stage
    <3>3. QED
      BY <3>1, <3>2
  <2>3. {"ready", "failed"} \subseteq Stage \ {"saved", "mismatch"}
    BY DEF Stage
  <2>4. QED
    BY <1>0, <2>1, <2>2, <2>3, MovesOn DEF TypeOK
<1>4. ASSUME NEW c \in Caller, Refuse(c) PROVE ZonesInv'
  <2>1. Moves(c, "failed") /\ "failed" \in Stage \ {"saved", "mismatch"}
    BY <1>0, <1>4, StageMoves DEF Refuse, Stage
  <2>2. UNCHANGED <<row, told, held>> /\ flight' \subseteq flight
    BY <1>4 DEF Refuse
  <2>3. flight' \subseteq Request /\ told' \subseteq Caller /\ held' \subseteq Caller
    BY <1>0, <2>2 DEF TypeOK
  <2>4. QED
    BY <2>1, <2>2, <2>3, MovesOn
<1>5. ASSUME NEW c \in Caller, Announce(c) PROVE ZonesInv'
  <2>1. Moves(c, "done") /\ "done" \in Stage \ {"saved", "mismatch"}
    BY <1>0, <1>5, StageMoves DEF Announce, Stage
  <2>2. /\ UNCHANGED <<row, flight, held>> /\ told' = told \cup {c} /\ task[c].at = "saved"
    BY <1>5 DEF Announce
  <2>3. c \in held
    BY <2>2 DEF ZonesInv, SavedHeld
  <2>4. flight' \subseteq Request /\ told' \subseteq Caller /\ held' \subseteq Caller
    BY <1>0, <2>2 DEF TypeOK
  <2>5. QED
    BY <2>1, <2>2, <2>3, <2>4, MovesOn
<1>6. ASSUME NEW c \in Caller, NextVariant(c) PROVE ZonesInv'
  BY <1>6, NextVariantStep
<1>7. ASSUME NEW req \in flight, Handle(req) PROVE ZonesInv'
  BY <1>7, HandleStep
<1>8. ASSUME UNCHANGED <<row, task, told, held>>, flight' \subseteq flight PROVE ZonesInv'
  BY <1>8 DEF ZonesInv, TypeOK, PoorerRefused, DeletesMatch, FlightBehind, SavedHeld,
              AnnouncedHasHappened, RichestPayload
<1>9. ASSUME NEW req \in flight, Lose(req) PROVE ZonesInv'
  BY <1>8, <1>9 DEF Lose
<1>10. CASE UNCHANGED vars
  BY <1>8, <1>10 DEF vars
<1>11. QED
  BY <1>1, <1>2, <1>3, <1>4, <1>5, <1>6, <1>7, <1>9, <1>10 DEF Next

LEMMA ZonesInit == Init => ZonesInv
<1> SUFFICES ASSUME Init PROVE ZonesInv
  OBVIOUS
<1>1. \A c \in Caller : task[c] \in Task /\ task[c].at = "idle" /\ task[c].variant = 1
  BY DEF Init
<1>2. TypeOK
  BY DEF Init, TypeOK
<1>3. PoorerRefused
  BY <1>1, VariantsAssumption DEF PoorerRefused
<1>4. QED
  BY <1>1, <1>2, <1>3
     DEF Init, ZonesInv, DeletesMatch, FlightBehind, SavedHeld, AnnouncedHasHappened, RichestPayload

\* The inductive invariant holds in every reachable state.
LEMMA ZonesInductive == Spec => []ZonesInv
BY ZonesInit, ZonesStep, PTL DEF Spec
-----------------------------------------------------------------------------
(* The theorems.                                                           *)

\* Every variable keeps its type; in particular no call makes more than Attempts requests
\* with a payload, and there is no payload after the last.
THEOREM TypeCorrect == Spec => []TypeOK
BY ZonesInductive, PTL DEF ZonesInv

\* A zone change that is broadcast was true of the table at some moment between the HTTP
\* request and the broadcast: the caller's row was stored, or there was no row of the id and
\* device to be deleted.  It does not say that a row was found to delete.
THEOREM OnlyWhatHappenedIsAnnounced == Spec => []AnnouncedHasHappened
BY ZonesInductive, PTL DEF ZonesInv

\* However requests are delayed, lost, repeated or overtaken, a zone is saved with the
\* richest payload the table has columns for.
THEOREM RichestIsSaved == Spec => []RichestPayload
BY ZonesInductive, PTL DEF ZonesInv

\* What a step does to one handler: it stays where it is, or goes on as the code does.
LEMMA HandlerStep ==
    ASSUME ZonesInv, [Next]_vars, NEW c \in Caller
    PROVE  LET t == task[c]
               u == task'[c]
           IN  \/ u.at = t.at /\ u.variant = t.variant /\ u.attempt = t.attempt
               \/ /\ u.variant = t.variant /\ u.attempt = t.attempt
                  /\ \/ t.at = "idle" /\ u.at = "ready"
                     \/ t.at \in {"ready", "waiting", "mismatch", "saved"}
                        /\ u.at \in {"waiting", "mismatch", "saved", "failed", "done"}
               \/ t.at \in {"waiting", "mismatch"} /\ Later(t, u)
<1> DEFINE t == task[c]
           u == task'[c]
           Stays == u.at = t.at /\ u.variant = t.variant /\ u.attempt = t.attempt
           Advances == /\ u.variant = t.variant /\ u.attempt = t.attempt
                       /\ \/ t.at = "idle" /\ u.at = "ready"
                          \/ t.at \in {"ready", "waiting", "mismatch", "saved"}
                             /\ u.at \in {"waiting", "mismatch", "saved", "failed", "done"}
           Retries == t.at \in {"waiting", "mismatch"} /\ Later(t, u)
<1> SUFFICES Stays \/ Advances \/ Retries
  OBVIOUS
<1>0. /\ task \in [Caller -> Task] /\ t \in Task /\ t.attempt \in Nat /\ t.variant \in Nat
      /\ flight \subseteq Request
  BY TaskFields DEF ZonesInv, TypeOK
<1>1. ASSUME NEW d \in Caller, Begin(d) \/ Send(d) \/ Refuse(d) \/ Announce(d)
      PROVE  Stays \/ Advances
  BY <1>0, <1>1 DEF Begin, Send, Refuse, Announce, Task
<1>2. ASSUME NEW d \in Caller, Unanswered(d) PROVE Stays \/ Advances \/ Retries
  <2>1. CASE d # c
    BY <1>0, <1>2, <2>1 DEF Unanswered, Retry
  <2>2. CASE d = c /\ t.attempt < Attempts
    <3>1. u = [t EXCEPT !.attempt = t.attempt + 1, !.at = "ready"] /\ t.at = "waiting"
      BY <1>0, <1>2, <2>2 DEF Unanswered, Retry
    <3>2. u.variant = t.variant /\ u.attempt = t.attempt + 1
      BY <1>0, <3>1 DEF Task
    <3>3. QED
      BY <1>0, <3>1, <3>2 DEF Later
  <2>3. CASE d = c /\ ~(t.attempt < Attempts)
    BY <1>0, <1>2, <2>3 DEF Unanswered, Retry, Task
  <2>4. QED
    BY <2>1, <2>2, <2>3
<1>3. ASSUME NEW d \in Caller, NextVariant(d) PROVE Stays \/ Advances \/ Retries
  <2>1. CASE d # c
    BY <1>0, <1>3, <2>1 DEF NextVariant
  <2>2. CASE d = c /\ t.variant < Variants
    <3>1. u = [t EXCEPT !.variant = t.variant + 1, !.attempt = 1, !.at = "ready"] /\ t.at = "mismatch"
      BY <1>0, <1>3, <2>2 DEF NextVariant
    <3>2. u.variant = t.variant + 1
      BY <1>0, <3>1 DEF Task
    <3>3. QED
      BY <1>0, <3>1, <3>2 DEF Later
  <2>3. CASE d = c /\ ~(t.variant < Variants)
    BY <1>0, <1>3, <2>3 DEF NextVariant, Task
  <2>4. QED
    BY <2>1, <2>2, <2>3
<1>4. ASSUME NEW req \in flight, Handle(req) PROVE Stays \/ Advances
  <2>1. PICK arrives \in IF Awaited(req) THEN BOOLEAN ELSE {FALSE} :
           task' = [task EXCEPT ![req.by].at = IF ~arrives THEN task[req.by].at
                                               ELSE IF Accepts(req) THEN "saved" ELSE "mismatch"]
    BY <1>4 DEF Handle
  <2>2. CASE req.by # c
    BY <1>0, <2>1, <2>2
  <2>3. CASE req.by = c
    <3>1. u.variant = t.variant /\ u.attempt = t.attempt
          /\ u.at = IF ~arrives THEN t.at ELSE IF Accepts(req) THEN "saved" ELSE "mismatch"
      BY <1>0, <2>1, <2>3 DEF Task
    <3>2. arrives => t.at = "waiting"
      BY <2>1, <2>3 DEF Awaited
    <3>3. QED
      BY <3>1, <3>2
  <2>4. QED
    BY <2>2, <2>3
<1>5. CASE (\E req \in flight : Lose(req)) \/ UNCHANGED vars
  BY <1>5 DEF Lose, vars
<1>6. QED
  BY <1>1, <1>2, <1>3, <1>4, <1>5 DEF Next

\* A handler's requests come in order, none of them twice, and end with its answer: there are at
\* most Attempts * Variants, for any number of either.
THEOREM RequestsAreOrdered == Spec => RequestsOnceInOrder
<1>1. ASSUME ZonesInv, [Next]_vars, NEW c \in Caller
      PROVE  /\ ~Later(task'[c], task[c])
             /\ task[c].at \notin {"idle", "ready"} /\ task'[c].at \in {"idle", "ready"}
                    => Later(task[c], task'[c])
             /\ task[c].at \in {"done", "failed"} => task'[c].at = task[c].at
  <2>1. /\ task[c].variant \in Nat /\ task[c].attempt \in Nat
        /\ task'[c].variant \in Nat /\ task'[c].attempt \in Nat
    <3>1. TypeOK /\ TypeOK'
      BY <1>1, ZonesStep DEF ZonesInv
    <3>2. task[c] \in Task /\ task'[c] \in Task
      BY <3>1 DEF TypeOK
    <3>3. QED
      BY <3>2, VariantsAssumption, AttemptsAssumption DEF Task
  <2>2. QED
    BY <1>1, <2>1, HandlerStep DEF Later
<1>2. ZonesInv /\ [Next]_vars =>
        [\A c \in Caller :
            /\ ~Later(task'[c], task[c])
            /\ task[c].at \notin {"idle", "ready"} /\ task'[c].at \in {"idle", "ready"}
                   => Later(task[c], task'[c])
            /\ task[c].at \in {"done", "failed"} => task'[c].at = task[c].at]_vars
  BY <1>1
<1>3. QED
  BY <1>2, ZonesInductive, PTL DEF Spec, RequestsOnceInOrder
=============================================================================
