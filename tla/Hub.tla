---------------------------------- MODULE Hub ----------------------------------
(***************************************************************************)
(* The hub as a whole: Sessions and Channels, which share Hub.Run, the     *)
(* shutdown, the ReadPump and the removal of clients, put together.        *)
(*                                                                         *)
(* A step of the hub is a step of one of them, or of both where one piece  *)
(* of code changes the state of both.  removeClient has two critical       *)
(* sections, and here they are two steps: it takes the user out of its     *)
(* channel (Channels) and then the client out of the map (Sessions).  A    *)
(* handler of the same session, which may be in the middle of a join, runs *)
(* between them.                                                           *)
(***************************************************************************)
EXTENDS Naturals, Sequences, FiniteSets, SequencesExt

CONSTANTS
    Sid, Room, Pin, Code, MaxRoomSize, EmptyTTL,   \* as in Channels
    QueueCap, SendCap,                             \* as in Sessions
    MaxRemovals,  \* bound: removeClient goroutines of one client at once
    Nil

VARIABLES
    conn, reader, writer, watch, registerQ, unregisterQ, clients, open, buffer, targets,
    doomed, closing, greeting,                     \* as in Sessions
    users, rooms, channels, pump, join, removals,  \* as in Channels
    running, closed,                               \* as in both
    halfway,      \* removeClient goroutines of each client between its two sections
    removing      \* the client Hub.Run is between the two sections for, or Nil

sessions == <<conn, reader, writer, watch, registerQ, unregisterQ, clients, open, buffer, targets,
              doomed, closing, greeting>>
members == <<users, rooms, channels, pump, join, removals>>
midway == <<halfway, removing>>

vars == <<sessions, members, running, closed, midway>>

S == INSTANCE Sessions
C == INSTANCE Channels WITH MaxRemovals <- MaxRemovals + 1

ASSUME NilAssumption ==
    Nil \notin Sid \cup Room \cup Pin \cup Code \cup Nat \cup C!Channel \cup C!Join
ASSUME SizeAssumption ==
    /\ MaxRoomSize \in Nat \ {0} /\ EmptyTTL \in Nat \ {0}
    /\ QueueCap \in Nat \ {0} /\ SendCap \in Nat \ {0}
    /\ MaxRemovals \in Nat \ {0}

Init ==
    /\ S!Init /\ C!Init
    /\ halfway = [s \in Sid |-> 0] /\ removing = Nil
-----------------------------------------------------------------------------
(* What only one of the two takes part in.                                 *)

SessionStep(step) == step /\ UNCHANGED <<members, midway>>
MemberStep(step) == step /\ UNCHANGED <<sessions, midway>>

\* Run is in its select, or has returned.
Idle == greeting = Nil /\ removing = Nil

AddClient == Idle /\ SessionStep(S!AddClient)

CleanupExpiredChannels == Idle /\ MemberStep(C!CleanupExpiredChannels)
-----------------------------------------------------------------------------
(* What both take part in.                                                 *)

HandleWS(s) == S!HandleWS(s) /\ C!Connect(s) /\ UNCHANGED midway

ReadPumpExit(s) == S!ReadPumpExit(s) /\ C!ReadPumpExit(s) /\ UNCHANGED midway

RunReturns == Idle /\ S!RunReturns /\ C!RunReturns /\ UNCHANGED midway

Close == S!Close /\ C!Close /\ UNCHANGED midway

\* removeClient goroutines of a client that have not begun.
Waiting(s) == removals[s] - Cardinality({i \in DOMAIN unregisterQ : unregisterQ[i] = s})

\* An enqueue that fails starts a goroutine; beyond the bound, one that exists stands for it.
Enqueue(s) ==
    /\ S!Enqueue(s)
    /\ IF buffer' # buffer \/ Waiting(s) + halfway[s] >= MaxRemovals
       THEN UNCHANGED members
       ELSE /\ removals' = [removals EXCEPT ![s] = @ + 1]
            /\ UNCHANGED <<users, rooms, channels, pump, join>>
    /\ UNCHANGED midway

\* removeClient on a goroutine of its own.
BeginRemoval(s) ==
    /\ Waiting(s) > 0
    /\ C!RemoveClient(s)
    /\ halfway' = [halfway EXCEPT ![s] = @ + 1]
    /\ UNCHANGED <<sessions, removing>>

EndRemoval(s) ==
    /\ halfway[s] > 0
    /\ S!TakeOut(s)
    /\ halfway' = [halfway EXCEPT ![s] = @ - 1]
    /\ doomed' = IF Waiting(s) + halfway[s] = 1 THEN doomed \ {s} ELSE doomed
    /\ UNCHANGED <<conn, reader, writer, watch, registerQ, unregisterQ, open, buffer, targets,
                   greeting, members, running, closed, removing>>

\* Mutant: removeClient returns at once when the client is not in the map.
UnregisterKnown ==
    /\ running /\ Idle /\ unregisterQ # <<>>
    /\ unregisterQ' = Tail(unregisterQ)
    /\ IF Head(unregisterQ) \in clients
       THEN removing' = Head(unregisterQ) /\ C!RemoveClient(Head(unregisterQ))
       ELSE /\ removals' = [removals EXCEPT ![Head(unregisterQ)] = @ - 1]
            /\ UNCHANGED <<removing, users, rooms, channels, pump, join, running, closed>>
    /\ UNCHANGED <<conn, reader, writer, watch, registerQ, clients, open, buffer, targets, doomed,
                   closing, greeting, halfway>>

\* removeClient in the loop of Run.
Unregister ==
    /\ running /\ Idle /\ unregisterQ # <<>>
    /\ unregisterQ' = Tail(unregisterQ)
    /\ removing' = Head(unregisterQ)
    /\ C!RemoveClient(Head(unregisterQ))
    /\ UNCHANGED <<conn, reader, writer, watch, registerQ, clients, open, buffer, targets, doomed,
                   closing, greeting, halfway>>

Unregistered ==
    /\ removing # Nil
    /\ S!TakeOut(removing)
    /\ removing' = Nil
    /\ UNCHANGED <<conn, reader, writer, watch, registerQ, unregisterQ, open, buffer, targets, doomed,
                   greeting, members, running, closed, halfway>>

\* Goroutines: the handlers of ReadPump, WritePump and qualityLoop, senders, removals.
Goroutine(s) ==
    \/ MemberStep(C!JoinLeave(s)) \/ MemberStep(C!JoinEnter(s))
    \/ SessionStep(S!QualityPing(s)) \/ SessionStep(S!CloseSend(s))
    \/ SessionStep(S!WriteNext(s)) \/ SessionStep(S!WriteClose(s)) \/ SessionStep(S!PingFails(s))
    \/ Enqueue(s) \/ BeginRemoval(s) \/ EndRemoval(s)

\* What clients, the network and callers of the API do.  A handler does not look at the
\* connection, and one for a frame read before may begin after it was closed.
Environment(s) ==
    \/ HandleWS(s) \/ SessionStep(S!Lose(s)) \/ MemberStep(C!Leave(s))
    \/ \E q \in C!Request, code \in Code :
           MemberStep(C!JoinAdmit(s, q, code) \/ C!JoinRefuse(s, q, code))

Next ==
    \/ \E s \in Sid : Goroutine(s) \/ ReadPumpExit(s) \/ Environment(s)
    \/ \E recipients \in SUBSET clients : SessionStep(S!LookUp(recipients))
    \/ AddClient \/ SessionStep(S!Greet) \/ Unregister \/ Unregistered
    \/ CleanupExpiredChannels \/ MemberStep(C!Tick) \/ RunReturns \/ Close

Spec == Init /\ [][Next]_vars

\* Goroutines that can run do; the tickers of the pumps and of qualityLoop fire; a read on
\* a lost connection fails by the pong deadline, a write by the write deadline.  Frames that
\* were read before a connection was closed are finitely many, so that ReadPump gets to the
\* failing read however many handlers come first.  Nothing is assumed of the network, of the
\* clients, of main or of anybody who sends.
Fairness ==
    /\ WF_vars(AddClient) /\ WF_vars(SessionStep(S!Greet))
    /\ WF_vars(Unregister) /\ WF_vars(Unregistered)
    /\ WF_vars(MemberStep(C!Tick)) /\ WF_vars(CleanupExpiredChannels)
    /\ \A s \in Sid : /\ WF_vars(MemberStep(C!JoinLeave(s)))
                      /\ WF_vars(MemberStep(C!JoinEnter(s)))
                      /\ WF_vars(SessionStep(S!QualityPing(s)))
                      /\ WF_vars(SessionStep(S!CloseSend(s)))
                      /\ WF_vars(SessionStep(S!WriteNext(s)))
                      /\ WF_vars(SessionStep(S!WriteClose(s)))
                      /\ WF_vars(SessionStep(S!PingFails(s)))
                      /\ WF_vars(Enqueue(s))
                      /\ WF_vars(BeginRemoval(s))
                      /\ WF_vars(EndRemoval(s))
                      /\ SF_vars(ReadPumpExit(s))

FairSpec == Spec /\ Fairness
-----------------------------------------------------------------------------
(* Safety.                                                                 *)

\* A session that has no ReadPump any more and still sits in a channel is in the unregister
\* queue or has a removeClient goroutine, whatever removals ran before its last join: its
\* seat is on its way to being free.
SeatHasRemover ==
    \A s \in Sid : users[s] # Nil /\ reader[s] = "done" => s \in ToSet(unregisterQ) \cup doomed

\* Somebody who sits in a channel without being a client, whom nothing can be sent, is about to
\* become one or on its way out: it is in the register queue, or its Send channel is about to
\* be closed, or its WritePump about to close the connection, or its ReadPump about to fail, or
\* its removal is due.  No removal, refused registration or shutdown in the middle of a join
\* leaves a session seated with none of these to follow.
OutsidersMoveOn ==
    \A s \in Sid : users[s] # Nil /\ s \notin clients =>
        \/ s \in ToSet(registerQ) \cup closing
        \/ s \notin open /\ writer[s] = "running"
        \/ conn[s] = "closed" /\ reader[s] = "running"
        \/ s \in ToSet(unregisterQ) \cup doomed

\* The hub implements Channels, which lets a sender's removal begin at any time and knows
\* nothing of queues, buffers and connections: what holds of Channels holds of the hub.
ImplementsChannels == C!Spec
-----------------------------------------------------------------------------
(* Liveness.                                                               *)

\* A closed connection's client is out of the map for good in the end, also when Run takes
\* the unregister queue first and adds the client after its removal.
DeadClientForgotten == \A s \in Sid : conn[s] = "closed" ~> [](s \notin clients)

\* A client whose Send channel has been closed (too slow, or never registered) has its
\* connection closed and both of its pumps end.
DroppedClientDisconnected ==
    \A s \in Sid : (conn[s] # "none" /\ s \notin open)
                       ~> (conn[s] = "closed" /\ reader[s] = "done" /\ writer[s] = "done")

\* While Run runs, nobody stays in a channel without being a client, whom nothing could be
\* sent: a session that a removal overtakes in the middle of a join, or whose join overtakes
\* its registration, becomes a client or leaves the channel.
MembersAreClients ==
    \A s \in Sid : (users[s] # Nil /\ s \notin clients)
                       ~> (users[s] = Nil \/ s \in clients \/ ~running)

\* The seat of a closed connection is free for good in the end, while Run runs.
SeatFreedForGood == \A s \in Sid : conn[s] = "closed" ~> ([](users[s] = Nil) \/ ~running)

\* "Empty user-created channels expire" (README.md): a listed channel without members is
\* joined by somebody or removed, while Run runs.
EmptyChannelExpires ==
    \A r \in Room : (channels[r] # Nil /\ rooms[r] = {})
                        ~> (channels[r] = Nil \/ rooms[r] # {} \/ ~running)
=============================================================================
