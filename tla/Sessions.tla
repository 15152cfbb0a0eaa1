------------------------------ MODULE Sessions ------------------------------
(***************************************************************************)
(* The life of a WebSocket session: the register and unregister queues,    *)
(* the loop of Hub.Run, the map clients, the Send channel of each client,  *)
(* its two pumps, its qualityLoop, and the removal of clients that are     *)
(* gone or too slow.                                                       *)
(*                                                                         *)
(* The unit of atomicity is a critical section of Hub.mu or one channel    *)
(* operation.  A sender (Send, Broadcast, BroadcastAll) looks its clients  *)
(* up under the lock and enqueues after it, so a client may be removed and *)
(* its channel closed in between.                                          *)
(*                                                                         *)
(* Abstractions.  Envelopes are counted, not told apart.  Sets stand for   *)
(* the goroutines that are on their way to a client: senders that have     *)
(* looked it up (targets) and removeClient calls that have not run         *)
(* (doomed); a second one of a kind finds what the first has left.         *)
(* The network is up, lost (reads will fail: peer gone, deadline, protocol *)
(* error) or closed by this server.                                        *)
(* Register reads closed and enqueues in one step; a Close in between      *)
(* would leave the client in the queue of a closed hub, just as one that   *)
(* came right before that Close does.                                      *)
(* Channel membership is in module Channels; Hub puts the two together and *)
(* states the fairness.                                                    *)
(***************************************************************************)
EXTENDS Naturals, Sequences, FiniteSets, SequencesExt

CONSTANTS
    Sid,       \* session ids, never reused
    QueueCap,  \* capacity of Hub.register and of Hub.unregister
    SendCap,   \* capacity of Client.Send
    Nil        \* no client

ASSUME QueueAssumption == QueueCap \in Nat \ {0}
ASSUME SendAssumption == SendCap \in Nat \ {0}
ASSUME NilAssumption == Nil \notin Sid

VARIABLES
    conn,         \* the connection: "none", "up", "lost" or "closed"
    reader,       \* the ReadPump goroutine: "none", "running" or "done"
    writer,       \* the WritePump goroutine
    watch,        \* the qualityLoop goroutine
    registerQ,    \* Hub.register
    unregisterQ,  \* Hub.unregister
    clients,      \* the keys of Hub.clients, which are those of Hub.quality
    open,         \* sids whose Send channel is open
    buffer,       \* envelopes in each Send channel
    targets,      \* clients some sender has looked up and not enqueued to yet
    doomed,       \* sids with a removeClient goroutine that has not run yet
    closing,      \* clients taken out of the map, their Send not closed yet
    greeting,     \* the client Run is in the middle of adding, or Nil
    running,      \* Hub.Run has not returned
    closed        \* Hub.closed

vars == <<conn, reader, writer, watch, registerQ, unregisterQ, clients, open, buffer, targets,
          doomed, closing, greeting, running, closed>>

pumps == <<conn, reader, writer>>
queues == <<registerQ, unregisterQ>>
registry == <<clients, closing>>
traffic == <<buffer, targets, doomed>>
hub == <<greeting, running, closed>>

TypeOK ==
    /\ conn \in [Sid -> {"none", "up", "lost", "closed"}]
    /\ reader \in [Sid -> {"none", "running", "done"}]
    /\ writer \in [Sid -> {"none", "running", "done"}]
    /\ watch \in [Sid -> {"none", "running", "done"}]
    /\ registerQ \in Seq(Sid) /\ Len(registerQ) <= QueueCap
    /\ unregisterQ \in Seq(Sid) /\ Len(unregisterQ) <= QueueCap
    /\ clients \subseteq Sid /\ open \subseteq Sid
    /\ buffer \in [Sid -> 0 .. SendCap]
    /\ targets \subseteq Sid /\ doomed \subseteq Sid /\ closing \subseteq Sid
    /\ greeting \in Sid \cup {Nil}
    /\ running \in BOOLEAN /\ closed \in BOOLEAN

Init ==
    /\ conn = [s \in Sid |-> "none"]
    /\ reader = [s \in Sid |-> "none"]
    /\ writer = [s \in Sid |-> "none"]
    /\ watch = [s \in Sid |-> "none"]
    /\ registerQ = <<>> /\ unregisterQ = <<>>
    /\ clients = {} /\ open = {} /\ closing = {}
    /\ buffer = [s \in Sid |-> 0]
    /\ targets = {} /\ doomed = {}
    /\ greeting = Nil
    /\ running = TRUE /\ closed = FALSE
-----------------------------------------------------------------------------
(* Connecting.                                                             *)

\* handleWS: the client is registered, or its Send channel closed at once when the hub is
\* closed or the queue is full; both pumps start either way.
HandleWS(s) ==
    LET registered == ~closed /\ Len(registerQ) < QueueCap IN
    /\ conn[s] = "none"
    /\ conn' = [conn EXCEPT ![s] = "up"]
    /\ reader' = [reader EXCEPT ![s] = "running"]
    /\ writer' = [writer EXCEPT ![s] = "running"]
    /\ open' = IF registered THEN open \cup {s} ELSE open
    /\ registerQ' = IF registered THEN Append(registerQ, s) ELSE registerQ
    /\ UNCHANGED <<watch, unregisterQ, registry, traffic, hub>>

\* The critical section of addClient, on the goroutine of Hub.Run.
AddClient ==
    /\ running /\ greeting = Nil /\ registerQ # <<>>
    /\ registerQ' = Tail(registerQ)
    /\ IF closed
       THEN /\ open' = open \ {Head(registerQ)}
            /\ UNCHANGED <<clients, greeting>>
       ELSE /\ clients' = clients \cup {Head(registerQ)}
            /\ greeting' = Head(registerQ)
            /\ UNCHANGED open
    /\ UNCHANGED <<pumps, watch, unregisterQ, closing, traffic, running, closed>>

\* Mutant: the loop is started for clients whose connection is still up.
GreetIfUp ==
    /\ greeting # Nil
    /\ targets' = targets \cup (clients \cap {greeting})
    /\ watch' = IF conn[greeting] = "up" THEN [watch EXCEPT ![greeting] = "running"] ELSE watch
    /\ greeting' = Nil
    /\ UNCHANGED <<pumps, queues, registry, open, buffer, doomed, running, closed>>

\* The rest of addClient: Send looks the client up again, which may be gone, and the
\* quality loop is started.
Greet ==
    /\ greeting # Nil
    /\ targets' = targets \cup (clients \cap {greeting})
    /\ watch' = [watch EXCEPT ![greeting] = "running"]
    /\ greeting' = Nil
    /\ UNCHANGED <<pumps, queues, registry, open, buffer, doomed, running, closed>>
-----------------------------------------------------------------------------
(* Sending.                                                                *)

\* Any handler's Send or Broadcast, or the API's BroadcastAll, has read the map.
LookUp(recipients) ==
    /\ recipients # {}
    /\ targets' = targets \cup recipients
    /\ UNCHANGED <<pumps, watch, queues, registry, open, buffer, doomed, hub>>

\* Mutant: the send is not a select with a default, and the buffer is taken to be unbounded.
EnqueueOverCap(s) ==
    /\ s \in targets
    /\ targets' = targets \ {s}
    /\ IF s \in open
       THEN buffer' = [buffer EXCEPT ![s] = @ + 1] /\ UNCHANGED doomed
       ELSE doomed' = doomed \cup {s} /\ UNCHANGED buffer
    /\ UNCHANGED <<pumps, watch, queues, registry, open, hub>>

\* enqueue: a full buffer, or the recovered panic on a closed channel, condemns the client.
Enqueue(s) ==
    /\ s \in targets
    /\ targets' = targets \ {s}
    /\ IF s \in open /\ buffer[s] < SendCap
       THEN buffer' = [buffer EXCEPT ![s] = @ + 1] /\ UNCHANGED doomed
       ELSE doomed' = doomed \cup {s} /\ UNCHANGED buffer
    /\ UNCHANGED <<pumps, watch, queues, registry, open, hub>>

\* One round of qualityLoop: it ends when the client's quality state is gone.
QualityPing(s) ==
    /\ watch[s] = "running"
    /\ IF s \in clients
       THEN targets' = targets \cup {s} /\ UNCHANGED watch
       ELSE watch' = [watch EXCEPT ![s] = "done"] /\ UNCHANGED targets
    /\ UNCHANGED <<pumps, queues, registry, open, buffer, doomed, hub>>
-----------------------------------------------------------------------------
(* Removing.                                                               *)

\* Mutant: removeClient closes the channel of whatever it was called for, found or not.
TakeOutAlways(s) ==
    /\ clients' = clients \ {s}
    /\ closing' = closing \cup {s}

\* The second critical section of removeClient: whoever deletes the client closes its Send.
TakeOut(s) ==
    /\ clients' = clients \ {s}
    /\ closing' = IF s \in clients THEN closing \cup {s} ELSE closing

\* Run takes a client off the unregister queue ...
RemoveUnregistered ==
    /\ running /\ greeting = Nil /\ unregisterQ # <<>>
    /\ unregisterQ' = Tail(unregisterQ)
    /\ TakeOut(Head(unregisterQ))
    /\ UNCHANGED <<pumps, watch, registerQ, open, traffic, hub>>

\* ... and a goroutine removes a client that was too slow, or did not fit the queue.
RemoveDoomed(s) ==
    /\ s \in doomed
    /\ doomed' = doomed \ {s}
    /\ TakeOut(s)
    /\ UNCHANGED <<pumps, watch, queues, open, buffer, targets, hub>>

\* Mutant: the channel is left open for senders that may still hold the client.
CloseSendForgotten(s) ==
    /\ s \in closing
    /\ closing' = closing \ {s}
    /\ UNCHANGED <<pumps, watch, queues, clients, open, traffic, hub>>

CloseSend(s) ==
    /\ s \in closing
    /\ closing' = closing \ {s}
    /\ open' = open \ {s}
    /\ UNCHANGED <<pumps, watch, queues, clients, traffic, hub>>
-----------------------------------------------------------------------------
(* The pumps.                                                              *)

\* WritePump writes the next envelope, which may fail and does on a closed connection.
WriteNext(s) ==
    /\ writer[s] = "running" /\ buffer[s] > 0
    /\ buffer' = [buffer EXCEPT ![s] = @ - 1]
    /\ \/ conn[s] # "closed" /\ UNCHANGED <<conn, writer>>
       \/ /\ conn[s] # "up"
          /\ conn' = [conn EXCEPT ![s] = "closed"]
          /\ writer' = [writer EXCEPT ![s] = "done"]
    /\ UNCHANGED <<reader, watch, queues, registry, open, targets, doomed, hub>>

\* Mutant: WritePump ends without closing the connection.
WriteCloseOnly(s) ==
    /\ writer[s] = "running" /\ s \notin open /\ buffer[s] = 0
    /\ writer' = [writer EXCEPT ![s] = "done"]
    /\ UNCHANGED <<conn, reader, watch, queues, registry, open, traffic, hub>>

\* WritePump has drained a closed Send channel: it says goodbye and closes the connection.
WriteClose(s) ==
    /\ writer[s] = "running" /\ s \notin open /\ buffer[s] = 0
    /\ conn' = [conn EXCEPT ![s] = "closed"]
    /\ writer' = [writer EXCEPT ![s] = "done"]
    /\ UNCHANGED <<reader, watch, queues, registry, open, traffic, hub>>

\* A WebSocket ping fails.
PingFails(s) ==
    /\ writer[s] = "running" /\ conn[s] \in {"lost", "closed"}
    /\ conn' = [conn EXCEPT ![s] = "closed"]
    /\ writer' = [writer EXCEPT ![s] = "done"]
    /\ UNCHANGED <<reader, watch, queues, registry, open, traffic, hub>>

\* ReadPump ends: the client goes to the unregister queue or, when it is full, to a
\* goroutine, and the connection is closed.
ReadPumpExit(s) ==
    /\ reader[s] = "running" /\ conn[s] \in {"lost", "closed"}
    /\ reader' = [reader EXCEPT ![s] = "done"]
    /\ conn' = [conn EXCEPT ![s] = "closed"]
    /\ IF Len(unregisterQ) < QueueCap
       THEN unregisterQ' = Append(unregisterQ, s) /\ UNCHANGED doomed
       ELSE doomed' = doomed \cup {s} /\ UNCHANGED unregisterQ
    /\ UNCHANGED <<writer, watch, registerQ, registry, open, buffer, targets, hub>>

\* The network or the peer fails.
Lose(s) ==
    /\ conn[s] = "up"
    /\ conn' = [conn EXCEPT ![s] = "lost"]
    /\ UNCHANGED <<reader, writer, watch, queues, registry, open, traffic, hub>>
-----------------------------------------------------------------------------
(* Shutdown.                                                               *)

\* Run returns some time after main has cancelled its context; the queues stay as they are.
RunReturns ==
    /\ running /\ greeting = Nil
    /\ running' = FALSE
    /\ UNCHANGED <<pumps, watch, queues, registry, open, traffic, greeting, closed>>

\* The critical section of Close; the channels are closed after it.
Close ==
    /\ ~closed
    /\ closed' = TRUE
    /\ clients' = {}
    /\ closing' = closing \cup clients
    /\ UNCHANGED <<pumps, watch, queues, open, traffic, greeting, running>>

Next ==
    \/ \E s \in Sid : \/ HandleWS(s) \/ Enqueue(s) \/ QualityPing(s) \/ RemoveDoomed(s)
                      \/ CloseSend(s) \/ WriteNext(s) \/ WriteClose(s) \/ PingFails(s)
                      \/ ReadPumpExit(s) \/ Lose(s)
    \/ \E recipients \in SUBSET clients : LookUp(recipients)
    \/ AddClient \/ Greet \/ RemoveUnregistered \/ RunReturns \/ Close

Spec == Init /\ [][Next]_vars
-----------------------------------------------------------------------------
(* Safety.                                                                 *)

Queued == ToSet(registerQ)

\* A Send channel is closed at most once and never while the client can be looked up:
\* whoever may still close it (the register queue, the map, a removeClient or Close between
\* its two halves) is the only one, and finds it open.  The recover in closeClientSend has
\* nothing to recover from.
ClosedAtMostOnce ==
    /\ Queued \cup clients \cup closing \subseteq open
    /\ Queued \cap clients = {} /\ Queued \cap closing = {} /\ clients \cap closing = {}
    /\ IsInjective(registerQ)

\* Every client in the map has a quality loop, or Run is about to start it: even a client
\* whose removal ran before its registration is pinged until its buffer overflows.
EveryClientWatched == \A s \in clients : watch[s] = "running" \/ greeting = s

\* A client is in the map, or on its way into or out of it, for as long as its Send channel
\* is open: while Hub.Run runs, no channel stays open, and no writer blocked on it, with nobody
\* left to close it.
OpenHasCloser == open \subseteq Queued \cup clients \cup closing
=============================================================================
