------------------------------ MODULE Delivery ------------------------------
(***************************************************************************)
(* The relay: voice messages, live chunks and stream ends from a session   *)
(* to the others in its channel, and acknowledgements from one session to  *)
(* another.                                                                *)
(*                                                                         *)
(* A handler reads its session's channel in one critical section, checks   *)
(* the size and the rate without the lock, looks the recipients up in a    *)
(* second section and enqueues to them one by one after it.  Everybody may *)
(* move, and recipients may be removed, at each of these points.           *)
(*                                                                         *)
(* Membership moves by the steps of Directory, which Channels implements.  *)
(* A client's removal and its Send channel are here what Sessions makes of *)
(* them: condemned, out of its channel, out of the map.  The channel is    *)
(* closed as the client is deleted: what is put into it between the two    *)
(* could as well have come before the deletion.                            *)
(*                                                                         *)
(* Abstractions.  Audio, names and other payload are left out.  The three  *)
(* voice events differ only in their checks and are one.  Presence events  *)
(* and errors are not in the inboxes, so a buffer is the harder to fill.   *)
(***************************************************************************)
EXTENDS Naturals, Sequences, FiniteSets, SequencesExt

CONSTANTS
    Sid,          \* sessions
    Room,         \* channels
    MaxRoomSize,  \* config.MaxRoomSize
    SendCap,      \* capacity of Client.Send
    Speaker,      \* bound: the sessions that send voice events ...
    MaxVoice,     \* ... and how many each
    Acker,        \* bound: the sessions that acknowledge ...
    MaxAcks,      \* ... and how many times each
    Nil           \* no channel

ASSUME NilAssumption == Nil \notin Sid \cup Room
ASSUME SizeAssumption == MaxRoomSize \in Nat \ {0} /\ SendCap \in Nat \ {0}
ASSUME BoundsAssumption == Speaker \subseteq Sid /\ Acker \subseteq Sid /\ MaxVoice \in Nat /\ MaxAcks \in Nat

VoiceId == Speaker \X (1 .. MaxVoice)

VARIABLES
    where,    \* Hub.users: the channel of each session
    listed,   \* the channels that exist
    client,   \* each session's entry in Hub.clients: "in", "condemned" or "leaving", else "out"
    call,     \* the handler running on each session's ReadPump
    pending,  \* the recipients it has looked up and not enqueued to yet, with what for
    voiced,   \* voice events each session has sent to the server
    acked,    \* acknowledgements it has sent
    inbox,    \* everything ever enqueued to each session
    written,  \* how much of it WritePump has taken out
    audience  \* history: the recipients each relayed voice event was looked up for

vars == <<where, listed, client, call, pending, voiced, acked, inbox, written, audience>>

membership == <<where, listed>>
counters == <<voiced, acked>>

Voice(id) == [type |-> "voice", id |-> id, from |-> id[1], n |-> id[2]]
Ack(s, id, n) == [type |-> "ack", id |-> id, from |-> s, n |-> n]
Envelope == {Voice(id) : id \in VoiceId} \cup {Ack(s, id, n) : s \in Sid, id \in VoiceId, n \in 1 .. MaxAcks}

Idle == [at |-> "idle"]
Checking(r, id) == [at |-> "checking", room |-> r, id |-> id]
Relaying == [at |-> "relaying"]
Acking(r, id, t) == [at |-> "acking", room |-> r, id |-> id, to |-> t]
Forwarding(id, t) == [at |-> "forwarding", id |-> id, to |-> t]

Call == {Idle} \cup {Checking(r, id) : r \in Room, id \in VoiceId}
               \cup {Relaying}
               \cup {Acking(r, id, t) : r \in Room, id \in VoiceId, t \in Sid}
               \cup {Forwarding(id, t) : id \in VoiceId, t \in Sid}

\* A session in a channel that exists; a client that never holds more than its buffer.
TypeOK ==
    /\ where \in [Sid -> listed \cup {Nil}] /\ listed \subseteq Room
    /\ client \in [Sid -> {"in", "condemned", "leaving", "out"}]
    /\ call \in [Sid -> Call]
    /\ pending \in [Sid -> SUBSET (Sid \X VoiceId)]
    /\ voiced \in [Sid -> 0 .. MaxVoice] /\ acked \in [Sid -> 0 .. MaxAcks]
    /\ inbox \in [Sid -> Seq(Envelope)]
    /\ \A s \in Sid : Len(inbox[s]) - written[s] \in 0 .. SendCap
    /\ audience \in [VoiceId -> SUBSET Sid]

Dir == INSTANCE Directory

Init ==
    /\ Dir!Init
    /\ client = [s \in Sid |-> "in"]
    /\ call = [s \in Sid |-> Idle]
    /\ pending = [s \in Sid |-> {}]
    /\ voiced = [s \in Sid |-> 0] /\ acked = [s \in Sid |-> 0]
    /\ inbox = [s \in Sid |-> <<>>] /\ written = [s \in Sid |-> 0]
    /\ audience = [id \in VoiceId |-> {}]

InClients(s) == client[s] # "out"
-----------------------------------------------------------------------------
(* Enqueueing.                                                             *)

HasSpace(t) == InClients(t) /\ Len(inbox[t]) - written[t] < SendCap

\* A client whose Send is full is condemned: a removeClient goroutine starts.
Condemned(t) == [client EXCEPT ![t] = IF @ = "in" THEN "condemned" ELSE @]

\* enqueue, and what its callers do when it fails.
Enqueue(t, env) ==
    IF HasSpace(t) THEN inbox' = [inbox EXCEPT ![t] = Append(@, env)] /\ UNCHANGED client
    ELSE client' = Condemned(t) /\ UNCHANGED inbox

\* WritePump takes the next envelope.
Write(t) ==
    /\ written[t] < Len(inbox[t])
    /\ written' = [written EXCEPT ![t] = @ + 1]
    /\ UNCHANGED <<membership, client, call, pending, counters, inbox, audience>>
-----------------------------------------------------------------------------
(* Voice: handleVoiceMessage, handleVoiceChunk and handleVoiceStreamEnd.   *)

\* The critical section of roomName; a session in no channel is not heard.
VoiceStart(s) ==
    /\ s \in Speaker /\ call[s] = Idle /\ voiced[s] < MaxVoice
    /\ voiced' = [voiced EXCEPT ![s] = @ + 1]
    /\ call' = [call EXCEPT ![s] = IF where[s] = Nil THEN Idle
                                   ELSE Checking(where[s], <<s, voiced[s] + 1>>)]
    /\ UNCHANGED <<membership, client, pending, acked, inbox, written, audience>>

\* Too large, no audio, or over the rate.
VoiceRefuse(s) ==
    /\ call[s].at = "checking"
    /\ call' = [call EXCEPT ![s] = Idle]
    /\ UNCHANGED <<membership, client, pending, counters, inbox, written, audience>>

\* The critical section of Broadcast: whoever is in the channel by now, but the sender.
VoiceLookUp(s) ==
    LET recipients == {t \in Dir!Members(call[s].room) \ {s} : InClients(t)} IN
    /\ call[s].at = "checking"
    /\ pending' = [pending EXCEPT ![s] = @ \cup (recipients \X {call[s].id})]
    /\ audience' = [audience EXCEPT ![call[s].id] = recipients]
    /\ call' = [call EXCEPT ![s] = Relaying]
    /\ UNCHANGED <<membership, client, counters, inbox, written>>

\* Mutant: Broadcast returns at the first recipient it cannot enqueue to.
RelayStopsAtFailure(s, t, id) ==
    /\ <<t, id>> \in pending[s]
    /\ pending' = [pending EXCEPT ![s] = IF HasSpace(t) THEN @ \ {<<t, id>>} ELSE {}]
    /\ Enqueue(t, Voice(id))
    /\ UNCHANGED <<membership, call, counters, written, audience>>

\* One round of the loop of Broadcast, in the order of a Go map, which is any.
Relay(s, t, id) ==
    /\ <<t, id>> \in pending[s]
    /\ pending' = [pending EXCEPT ![s] = @ \ {<<t, id>>}]
    /\ Enqueue(t, Voice(id))
    /\ UNCHANGED <<membership, call, counters, written, audience>>

\* Mutant: the loop of Broadcast runs on a goroutine of its own.
VoiceEndEarly(s) ==
    /\ call[s] = Relaying
    /\ call' = [call EXCEPT ![s] = Idle]
    /\ UNCHANGED <<membership, client, pending, counters, inbox, written, audience>>

VoiceEnd(s) ==
    /\ call[s] = Relaying /\ pending[s] = {}
    /\ call' = [call EXCEPT ![s] = Idle]
    /\ UNCHANGED <<membership, client, pending, counters, inbox, written, audience>>
-----------------------------------------------------------------------------
(* handleMessageAck.                                                       *)

\* The critical section of roomName.  The id is of a voice event the session has got, the
\* target is whom it names.
AckStart(s, id, t) ==
    /\ s \in Acker /\ call[s] = Idle /\ acked[s] < MaxAcks
    /\ Voice(id) \in ToSet(SubSeq(inbox[s], 1, written[s]))
    /\ acked' = [acked EXCEPT ![s] = @ + 1]
    /\ call' = [call EXCEPT ![s] = IF where[s] = Nil \/ t = s THEN Idle ELSE Acking(where[s], id, t)]
    /\ UNCHANGED <<membership, client, pending, voiced, inbox, written, audience>>

\* The section that looks for the target in the channel the first one read.
AckLookUp(s) ==
    /\ call[s].at = "acking"
    /\ call' = [call EXCEPT ![s] = IF where[@.to] = @.room /\ InClients(@.to)
                                   THEN Forwarding(@.id, @.to) ELSE Idle]
    /\ UNCHANGED <<membership, client, pending, counters, inbox, written, audience>>

\* Send looks the target's client up once more.
AckForward(s) ==
    /\ call[s].at = "forwarding"
    /\ IF InClients(call[s].to) THEN Enqueue(call[s].to, Ack(s, call[s].id, acked[s]))
       ELSE UNCHANGED <<inbox, client>>
    /\ call' = [call EXCEPT ![s] = Idle]
    /\ UNCHANGED <<membership, pending, counters, written, audience>>
-----------------------------------------------------------------------------
(* Moving and going, as Channels and Sessions have it.                     *)

Enter(s, r) ==
    /\ call[s] = Idle
    /\ Dir!Enter(s, r)
    /\ UNCHANGED <<client, call, pending, counters, inbox, written, audience>>

Leave(s) ==
    /\ call[s] = Idle
    /\ where[s] # Nil
    /\ Dir!Exit(s)
    /\ UNCHANGED <<client, call, pending, counters, inbox, written, audience>>

\* The connection breaks.
Disconnect(s) ==
    /\ client[s] = "in"
    /\ client' = Condemned(s)
    /\ UNCHANGED <<membership, call, pending, counters, inbox, written, audience>>

\* The two critical sections of removeClient, whatever the session's handler is doing.  A
\* call after the first, say the one ReadPump ends with, may still find the session in a
\* channel it has entered since.
RemoveFromRoom(s) ==
    /\ client[s] = "condemned" \/ (client[s] = "out" /\ where[s] # Nil)
    /\ Dir!Exit(s)
    /\ client' = [client EXCEPT ![s] = IF @ = "out" THEN @ ELSE "leaving"]
    /\ UNCHANGED <<call, pending, counters, inbox, written, audience>>

RemoveFromMap(s) ==
    /\ client[s] = "leaving"
    /\ client' = [client EXCEPT ![s] = "out"]
    /\ UNCHANGED <<membership, call, pending, counters, inbox, written, audience>>

Next ==
    \E s \in Sid :
        \/ VoiceStart(s) \/ VoiceRefuse(s) \/ VoiceLookUp(s) \/ VoiceEnd(s)
        \/ AckLookUp(s) \/ AckForward(s)
        \/ Write(s) \/ Leave(s) \/ Disconnect(s) \/ RemoveFromRoom(s) \/ RemoveFromMap(s)
        \/ \E r \in Room : Enter(s, r)
        \/ \E t \in Sid, id \in VoiceId : Relay(s, t, id) \/ AckStart(s, id, t)

Spec == Init /\ [][Next]_vars
-----------------------------------------------------------------------------
\* What one session sends reaches another in the order it was sent and nothing of it twice:
\* chunks of a stream, and "delivered" before "seen".  A session's handlers run one after
\* another, whatever the handlers of the others do, and Broadcast has enqueued to everybody
\* when it returns.
InOrder ==
    \A t \in Sid : \A i, j \in DOMAIN inbox[t] :
        LET env == inbox[t][i]
            later == inbox[t][j] IN
        i < j /\ env.type = later.type /\ env.from = later.from => env.n < later.n

\* One recipient that is slow or gone takes the voice event from nobody else: when its
\* handler is through, whoever it was looked up for has it or has lost its connection.
NobodySilenced ==
    \A id \in VoiceId : \A t \in audience[id] :
        \/ <<t, id>> \in pending[id[1]]
        \/ Voice(id) \in ToSet(inbox[t])
        \/ client[t] # "in"

\* "Forwarded only to the original sender" (README.md:46): an acknowledgement comes only to
\* the session whose voice event it acknowledges.
AckOnlyToSender ==
    \A t \in Sid : \A env \in ToSet(inbox[t]) : env.type = "ack" => env.id[1] = t
=============================================================================
