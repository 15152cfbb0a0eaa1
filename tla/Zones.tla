-------------------------------- MODULE Zones --------------------------------
(***************************************************************************)
(* Writing geo zones: POST and DELETE /zones, which become requests to     *)
(* Supabase's REST interface, are retried when they fail, and are          *)
(* announced to every client when they succeed.  POST falls back to older  *)
(* forms of the payload when the table lacks a column.                     *)
(*                                                                         *)
(* A request that got no answer may have been handled, may be handled      *)
(* later, also after its retry and after requests of others, or never.     *)
(*                                                                         *)
(* Abstractions.  One caller is one HTTP request.  Validation, rate limit  *)
(* and API key come before anything modelled here: a caller that fails     *)
(* them never begins.  The back-off between attempts is any time.  The     *)
(* table is as upsert by id and delete by id and device leave it.          *)
(***************************************************************************)
EXTENDS Naturals, FiniteSets

CONSTANTS
    Caller,    \* HTTP requests
    Zone,      \* zone ids
    Device,    \* device ids
    Variants,  \* payload forms of zonePayloadVariants (4 in the code), tried in order
    Schema,    \* those of them the table has all columns for
    Attempts,  \* requests per call of supabaseRequestBody (3 in the code)
    Nil        \* no row

ASSUME NilAssumption == Nil \notin [device : Device, by : Caller, variant : 1 .. Variants]
ASSUME VariantsAssumption == Variants \in Nat \ {0} /\ Schema \subseteq 1 .. Variants
ASSUME AttemptsAssumption == Attempts \in Nat \ {0}

VARIABLES
    row,     \* geo_zones: the row of each id
    task,    \* the handler of each HTTP request
    flight,  \* requests on their way to Supabase
    told,    \* callers whose change has been broadcast
    held     \* history: callers that the table has been as they asked while they were under way

vars == <<row, task, flight, told, held>>

Row == [device : Device, by : Caller, variant : 1 .. Variants]

Stage == {"idle", "ready", "waiting", "saved", "mismatch", "done", "failed"}

Task == [at : Stage, kind : {"post", "delete"}, zone : Zone, device : Device,
         variant : 1 .. Variants, attempt : 1 .. Attempts]

Request == [by : Caller, variant : 1 .. Variants, attempt : 1 .. Attempts]

TypeOK ==
    /\ row \in [Zone -> Row \cup {Nil}]
    /\ task \in [Caller -> Task]
    /\ flight \subseteq Request
    /\ told \subseteq Caller /\ held \subseteq Caller

Init ==
    /\ row = [z \in Zone |-> Nil]
    /\ task \in [Caller -> {t \in Task : t.at = "idle" /\ t.variant = 1 /\ t.attempt = 1}]
    /\ flight = {}
    /\ told = {} /\ held = {}

Sent(c) == [by |-> c, variant |-> task[c].variant, attempt |-> task[c].attempt]

Awaited(req) == task[req.by].at = "waiting" /\ Sent(req.by) = req

\* The row is the caller's own, or there is none of its zone and its device.
AsAsked(c) ==
    LET r == row[task[c].zone] IN
    IF task[c].kind = "post" THEN r # Nil /\ r.by = c ELSE r = Nil \/ r.device # task[c].device

UnderWay(c) == task[c].at \in {"ready", "waiting", "saved", "mismatch"}

Watch == held' = held \cup {c \in Caller : (UnderWay(c) /\ AsAsked(c))'}
-----------------------------------------------------------------------------
\* The HTTP request has passed validation.
Begin(c) ==
    /\ task[c].at = "idle"
    /\ task' = [task EXCEPT ![c].at = "ready"]
    /\ UNCHANGED <<row, flight, told>>
    /\ Watch

Send(c) ==
    /\ task[c].at = "ready"
    /\ task' = [task EXCEPT ![c].at = "waiting"]
    /\ flight' = flight \cup {Sent(c)}
    /\ UNCHANGED <<row, told, held>>

\* The table handles an upsert by id, whose device it does not look at, or a delete by id
\* and device, which succeeds also when there is nothing to delete.
Accepts(req) == task[req.by].kind = "delete" \/ req.variant \in Schema

After(req) ==
    LET t == task[req.by] IN
    IF t.kind = "post" THEN [device |-> t.device, by |-> req.by, variant |-> req.variant]
    ELSE IF row[t.zone] # Nil /\ row[t.zone].device = t.device THEN Nil ELSE row[t.zone]

\* Supabase handles a request; its answer arrives if the handler still waits for it, and may
\* be lost even so.
Handle(req) ==
    /\ req \in flight
    /\ flight' = flight \ {req}
    /\ row' = IF Accepts(req) THEN [row EXCEPT ![task[req.by].zone] = After(req)] ELSE row
    /\ \E arrives \in IF Awaited(req) THEN BOOLEAN ELSE {FALSE} :
           task' = [task EXCEPT ![req.by].at = IF ~arrives THEN @
                                               ELSE IF Accepts(req) THEN "saved" ELSE "mismatch"]
    /\ UNCHANGED told
    /\ Watch

\* Mutant: the last failed attempt with one payload is followed by the next payload.
RetryFallsBack(c) ==
    IF task[c].attempt < Attempts
    THEN task' = [task EXCEPT ![c].attempt = @ + 1, ![c].at = "ready"]
    ELSE IF task[c].kind = "post" /\ task[c].variant < Variants
    THEN task' = [task EXCEPT ![c].variant = @ + 1, ![c].attempt = 1, ![c].at = "ready"]
    ELSE task' = [task EXCEPT ![c].at = "failed"]

\* Mutant: attempts are not counted.
RetryForEver(c) == task' = [task EXCEPT ![c].at = "ready"]

\* Mutant: the loop runs once too often.
RetryOnceTooOften(c) ==
    IF task[c].attempt <= Attempts
    THEN task' = [task EXCEPT ![c].attempt = @ + 1, ![c].at = "ready"]
    ELSE task' = [task EXCEPT ![c].at = "failed"]

\* supabaseRequestBody after a transport error or a retryable status.
Retry(c) ==
    IF task[c].attempt < Attempts
    THEN task' = [task EXCEPT ![c].attempt = @ + 1, ![c].at = "ready"]
    ELSE task' = [task EXCEPT ![c].at = "failed"]

\* No answer, or one like 503 that does not say whether the request was handled.
Unanswered(c) ==
    /\ task[c].at = "waiting"
    /\ Retry(c)
    /\ UNCHANGED <<row, flight, told, held>>

\* Mutant: any answer at all is taken for success.
RefuseIgnored(c) ==
    /\ task[c].at = "waiting" /\ Sent(c) \in flight
    /\ flight' = flight \ {Sent(c)}
    /\ task' = [task EXCEPT ![c].at = "saved"]
    /\ UNCHANGED <<row, told, held>>

\* Any other status; the request has not been carried out.
Refuse(c) ==
    /\ task[c].at = "waiting" /\ Sent(c) \in flight
    /\ flight' = flight \ {Sent(c)}
    /\ task' = [task EXCEPT ![c].at = "failed"]
    /\ UNCHANGED <<row, told, held>>

\* A request gets lost on the way.
Lose(req) ==
    /\ req \in flight
    /\ flight' = flight \ {req}
    /\ UNCHANGED <<row, task, told, held>>

\* Mutant: the attempts are counted afresh and the payload stays what it was.
NextVariantSame(c) ==
    /\ task[c].at = "mismatch"
    /\ task' = IF task[c].variant < Variants
               THEN [task EXCEPT ![c].attempt = 1, ![c].at = "ready"]
               ELSE [task EXCEPT ![c].at = "failed"]
    /\ UNCHANGED <<row, flight, told, held>>

\* postZone: the table lacks a column, the next payload is tried.
NextVariant(c) ==
    /\ task[c].at = "mismatch"
    /\ task' = IF task[c].variant < Variants
               THEN [task EXCEPT ![c].variant = @ + 1, ![c].attempt = 1, ![c].at = "ready"]
               ELSE [task EXCEPT ![c].at = "failed"]
    /\ UNCHANGED <<row, flight, told, held>>

\* zone_updated or zone_deleted goes to every client, then the caller is answered.
Announce(c) ==
    /\ task[c].at = "saved"
    /\ told' = told \cup {c}
    /\ task' = [task EXCEPT ![c].at = "done"]
    /\ UNCHANGED <<row, flight, held>>

Next ==
    \/ \E c \in Caller : \/ Begin(c) \/ Send(c) \/ Unanswered(c) \/ Refuse(c)
                         \/ NextVariant(c) \/ Announce(c)
    \/ \E req \in flight : Handle(req) \/ Lose(req)

Spec == Init /\ [][Next]_vars

\* Handlers run, and a request without an answer times out.
Fairness == \A c \in Caller : WF_vars(Send(c)) /\ WF_vars(Unanswered(c)) /\ WF_vars(NextVariant(c) \/ Announce(c))

FairSpec == Spec /\ Fairness
-----------------------------------------------------------------------------
\* What is announced to the clients has happened: for every zone_updated the caller's own
\* zone was in the table, and for every zone_deleted the table had no zone of that id and
\* device, at some moment between the caller's request and the announcement, whatever lost
\* answers, retries and late requests of its own or of others there are.  Not that there was
\* a zone to delete: handleZoneByID does not look whether its result is empty.
AnnouncedHasHappened == told \subseteq held

\* A zone is saved with the richest payload the table has columns for: failures, retries
\* and late requests never make it lose its channel or its auto_join.
RichestPayload ==
    \A z \in Zone : row[z] # Nil => \A v \in Schema : row[z].variant <= v

\* The request of u comes after that of t: a poorer payload, or a later attempt with the same.
Later(t, u) == \/ t.variant < u.variant
               \/ t.variant = u.variant /\ t.attempt < u.attempt

\* A handler makes its requests in order and none of them twice, whatever late requests, lost
\* answers and refusals happen: at most Attempts * Variants reach Supabase, an answer is to the
\* request it is taken for, and a caller that has been answered causes no more requests.
RequestsOnceInOrder ==
    [][\A c \in Caller :
          /\ ~Later(task'[c], task[c])
          /\ task[c].at \notin {"idle", "ready"} /\ task'[c].at \in {"idle", "ready"}
                 => Later(task[c], task'[c])
          /\ task[c].at \in {"done", "failed"} => task'[c].at = task[c].at]_vars

\* Every HTTP request is answered in the end.
EveryCallerAnswered == \A c \in Caller : (task[c].at = "ready") ~> (task[c].at \in {"done", "failed"})
=============================================================================
