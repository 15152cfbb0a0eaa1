------------------------------ MODULE Channels ------------------------------
(***************************************************************************)
(* Who is in which channel, and how channels are created, guarded, put on  *)
(* the expiry clock and removed: the maps users, rooms and channels of     *)
(* realtime.Hub and every handler that changes them.                       *)
(*                                                                         *)
(* The unit of atomicity is the critical section of Hub.mu.  handleJoin is *)
(* three of them (check, leave the old channel, enter the new one), so it  *)
(* is three actions here, and anything may run in between: the joins of    *)
(* other clients, removeClient for the very client that is joining, the    *)
(* sweep of expired channels, the shutdown.                                *)
(*                                                                         *)
(* Abstractions.  Names, PINs and invite codes are opaque, already cleaned *)
(* values; two PINs have equal hashes iff they are equal.  An invite code  *)
(* is drawn at random, so here it is any code.  A channel's EmptySince is  *)
(* kept as an age that stops counting at EmptyTTL: the code only compares  *)
(* the age with the TTL.  rooms[r] = {} stands for an absent key: the code *)
(* deletes a room's key with its last member.                              *)
(*                                                                         *)
(* A definition whose comment starts with "Mutant:" is a plausible bug; it *)
(* takes the place of the definition after it to show that a property can  *)
(* fail, and is used nowhere else.                                         *)
(***************************************************************************)
EXTENDS Naturals, FiniteSets

CONSTANTS
    Sid,           \* session ids, one per WebSocket connection and never reused
    Room,          \* channel names
    Pin,           \* cleaned PINs
    Code,          \* invite codes
    MaxRoomSize,   \* config.MaxRoomSize
    EmptyTTL,      \* config.ChannelEmptyTTL, in ticks of the clock
    MaxRemovals,   \* bound: slow-consumer removals of one client pending at once
    Nil            \* a nil pointer, an empty string, an absent key

Channel == [private : BOOLEAN, owner : Sid \cup {Nil}, code : Code \cup {Nil},
            pin : Pin \cup {Nil}, emptyFor : (0 .. EmptyTTL) \cup {Nil}]

\* What a join_room event asks for.  A missing or unknown visibility is "public".
Request == [room : Room, private : BOOLEAN, pin : Pin \cup {Nil}, code : Code \cup {Nil}]

\* The locals of a handleJoin call that is past its first critical section.
Join == [room : Room, private : BOOLEAN, pin : Pin \cup {Nil}, code : Code \cup {Nil},
         alreadyMember : BOOLEAN]

ASSUME NilAssumption == Nil \notin Sid \cup Room \cup Pin \cup Code \cup Nat \cup Channel \cup Join
ASSUME SizeAssumption == MaxRoomSize \in Nat \ {0}
ASSUME TTLAssumption == EmptyTTL \in Nat \ {0}
ASSUME RemovalsAssumption == MaxRemovals \in Nat

VARIABLES
    users,      \* Hub.users: the channel of each user, Nil for a sid with no User
    rooms,      \* Hub.rooms: the members of each channel
    channels,   \* Hub.channels: the ChannelState of each channel, Nil when absent
    pump,       \* where the ReadPump goroutine of each connection is
    join,       \* the locals of its handleJoin call, Nil when it is not in one
    removals,   \* removeClient calls for the sid that have not run leaveNoBroadcast yet
    running,    \* Hub.Run has not returned
    closed      \* Hub.closed

vars == <<users, rooms, channels, pump, join, removals, running, closed>>

PumpState == {"offline", "reading", "leaving", "entering", "exited"}

TypeOK ==
    /\ users \in [Sid -> Room \cup {Nil}]
    /\ rooms \in [Room -> SUBSET Sid]
    /\ channels \in [Room -> Channel \cup {Nil}]
    /\ pump \in [Sid -> PumpState]
    /\ join \in [Sid -> Join \cup {Nil}]
    /\ removals \in [Sid -> Nat]
    /\ running \in BOOLEAN
    /\ closed \in BOOLEAN

Init ==
    /\ users = [s \in Sid |-> Nil]
    /\ rooms = [r \in Room |-> {}]
    /\ channels = [r \in Room |-> Nil]
    /\ pump = [s \in Sid |-> "offline"]
    /\ join = [s \in Sid |-> Nil]
    /\ removals = [s \in Sid |-> 0]
    /\ running = TRUE
    /\ closed = FALSE
-----------------------------------------------------------------------------
(* A channel's life: created, occupied, empty, expired.                    *)

NewChannel(isPrivate, owner, code, pin, emptyFor) ==
    [private |-> isPrivate, owner |-> owner, code |-> code, pin |-> pin, emptyFor |-> emptyFor]

\* Mutant: the clock of an empty channel is not stopped when somebody enters.
TouchedKeepsClock(ch) == IF ch = Nil THEN NewChannel(FALSE, Nil, Nil, Nil, Nil) ELSE ch

\* touchChannelLocked: a channel somebody is in is off the clock.
Touched(ch) ==
    IF ch = Nil THEN NewChannel(FALSE, Nil, Nil, Nil, Nil) ELSE [ch EXCEPT !.emptyFor = Nil]

\* Mutant: EmptySince is given the value meant for ExpiresAt, a time in the future.
MarkedEmptyInFuture(ch) ==
    IF ch = Nil THEN NewChannel(FALSE, Nil, Nil, Nil, 0 - EmptyTTL)
    ELSE [ch EXCEPT !.emptyFor = IF @ = Nil THEN 0 - EmptyTTL ELSE @]

\* Mutant: the clock is started only for a channel that is already on it.
MarkedEmptyNoStart(ch) ==
    IF ch = Nil THEN NewChannel(FALSE, Nil, Nil, Nil, 0) ELSE ch

\* markChannelEmptyLocked: the clock starts when the last member leaves, and only then.
MarkedEmpty(ch) ==
    IF ch = Nil THEN NewChannel(FALSE, Nil, Nil, Nil, 0)
    ELSE [ch EXCEPT !.emptyFor = IF @ = Nil THEN 0 ELSE @]

\* Mutant: the age must exceed the TTL, which a saturated age never does.
ExpiredLater(r) ==
    channels[r] # Nil /\ channels[r].emptyFor # Nil /\ rooms[r] = {} /\ channels[r].emptyFor > EmptyTTL

Expired(r) ==
    /\ channels[r] # Nil
    /\ channels[r].emptyFor # Nil
    /\ rooms[r] = {}
    /\ channels[r].emptyFor >= EmptyTTL
-----------------------------------------------------------------------------
(* prepareChannelJoinLocked: what a join does to the channel's state.      *)

Created(s, q, code) ==
    NewChannel(q.private, s, IF q.private THEN code ELSE Nil, IF q.private THEN q.pin ELSE Nil, Nil)

\* Mutant: a public channel is claimed by whoever joins it.
ClaimedAnew(ch, s) == IF ch.owner = Nil \/ ~ch.private THEN [ch EXCEPT !.owner = s] ELSE ch

Claimed(ch, s) == IF ch.owner = Nil THEN [ch EXCEPT !.owner = s] ELSE ch

\* Mutant: a channel that is made private later gets no invite code.
MadePrivateOnly(ch, q, code) == IF q.private /\ ~ch.private THEN [ch EXCEPT !.private = TRUE] ELSE ch

MadePrivate(ch, q, code) ==
    IF q.private /\ ~ch.private THEN [ch EXCEPT !.private = TRUE, !.code = code] ELSE ch

\* The owner's PIN is set on a private channel only.
WithPin(ch, q) == IF ch.private /\ q.pin # Nil THEN [ch EXCEPT !.pin = q.pin] ELSE ch

\* Mutant: whoever asks for a channel takes it off the clock, admitted or not.
PreparedTouched(ch, s, q, code) ==
    IF ch = Nil THEN Created(s, q, code)
    ELSE IF Claimed(ch, s).owner = s
         THEN WithPin(MadePrivate(Touched(Claimed(ch, s)), q, code), q)
         ELSE Touched(ch)

Prepared(ch, s, q, code) ==
    IF ch = Nil THEN Created(s, q, code)
    ELSE IF Claimed(ch, s).owner = s
         THEN WithPin(MadePrivate(Claimed(ch, s), q, code), q)
         ELSE ch

Presents(q, ch) == \/ ch.code # Nil /\ q.code = ch.code
                   \/ ch.pin # Nil /\ q.pin = ch.pin

Authorised(ch, s, q) == \/ ch.owner = s
                        \/ ~ch.private
                        \/ s \in rooms[q.room]
                        \/ Presents(q, ch)

HasSpace(r) == Cardinality(rooms[r]) < MaxRoomSize

\* The outcome of the first critical section: neither PRIVATE_CHANNEL nor ROOM_FULL.
Admitted(s, q, ch) == Authorised(ch, s, q) /\ (s \in rooms[q.room] \/ HasSpace(q.room))
-----------------------------------------------------------------------------
(* handleJoin, one action per critical section.                            *)

JoinAdmit(s, q, code) ==
    LET ch == Prepared(channels[q.room], s, q, code) IN
    /\ pump[s] = "reading"
    /\ Admitted(s, q, ch)
    /\ channels' = [channels EXCEPT ![q.room] = ch]
    /\ pump' = [pump EXCEPT ![s] = "leaving"]
    /\ join' = [join EXCEPT ![s] =
                   [room |-> q.room, private |-> q.private, pin |-> q.pin, code |-> q.code,
                    alreadyMember |-> s \in rooms[q.room]]]
    /\ UNCHANGED <<users, rooms, removals, running, closed>>

\* A refused join has changed the channel all the same: its owner may have made it
\* private or set a PIN, and an unowned channel has been claimed.
JoinRefuse(s, q, code) ==
    LET ch == Prepared(channels[q.room], s, q, code) IN
    /\ pump[s] = "reading"
    /\ ~Admitted(s, q, ch)
    /\ channels' = [channels EXCEPT ![q.room] = ch]
    /\ UNCHANGED <<users, rooms, pump, join, removals, running, closed>>

\* Mutant: the user is deleted, its seat in the room is not.
LeaveRoomKeepsSeat(s) ==
    IF users[s] = Nil THEN UNCHANGED <<users, rooms, channels>>
    ELSE users' = [users EXCEPT ![s] = Nil] /\ UNCHANGED <<rooms, channels>>

\* leaveNoBroadcast, which handleJoin, handleLeave and removeClient all run.
LeaveRoom(s) ==
    LET r == users[s] IN
    IF r = Nil THEN UNCHANGED <<users, rooms, channels>>
    ELSE /\ users' = [users EXCEPT ![s] = Nil]
         /\ rooms' = [rooms EXCEPT ![r] = @ \ {s}]
         /\ IF rooms[r] = {} THEN UNCHANGED channels
            ELSE channels' = [channels EXCEPT ![r] =
                                 IF rooms[r] \ {s} = {} THEN MarkedEmpty(@) ELSE Touched(@)]

\* Mutant: a client that moves to another channel stays in the old one.
JoinLeaveSkipped(s) ==
    /\ pump[s] = "leaving"
    /\ IF users[s] = join[s].room THEN LeaveRoom(s) ELSE UNCHANGED <<users, rooms, channels>>
    /\ pump' = [pump EXCEPT ![s] = "entering"]
    /\ UNCHANGED <<join, removals, running, closed>>

JoinLeave(s) ==
    /\ pump[s] = "leaving"
    /\ LeaveRoom(s)
    /\ pump' = [pump EXCEPT ![s] = "entering"]
    /\ UNCHANGED <<join, removals, running, closed>>

\* Mutant: the third section trusts the first one's capacity check.
EnterRoomUnchecked(s, r) ==
    /\ rooms' = [rooms EXCEPT ![r] = @ \cup {s}]
    /\ users' = [users EXCEPT ![s] = r]
    /\ channels' = [channels EXCEPT ![r] = Touched(@)]

EnterRoom(s, r) ==
    IF HasSpace(r)
    THEN /\ rooms' = [rooms EXCEPT ![r] = @ \cup {s}]
         /\ users' = [users EXCEPT ![s] = r]
         /\ channels' = [channels EXCEPT ![r] = Touched(@)]
    ELSE UNCHANGED <<users, rooms, channels>>

\* The third section checks the size again; the channel's state it takes as it finds it,
\* and a channel swept in the meantime comes back public and without an owner.
JoinEnter(s) ==
    /\ pump[s] = "entering"
    /\ EnterRoom(s, join[s].room)
    /\ pump' = [pump EXCEPT ![s] = "reading"]
    /\ join' = [join EXCEPT ![s] = Nil]
    /\ UNCHANGED <<removals, running, closed>>
-----------------------------------------------------------------------------
(* The rest of a connection's life.                                        *)

Connect(s) ==
    /\ pump[s] = "offline"
    /\ pump' = [pump EXCEPT ![s] = "reading"]
    /\ UNCHANGED <<users, rooms, channels, join, removals, running, closed>>

Leave(s) ==
    /\ pump[s] = "reading"
    /\ LeaveRoom(s)
    /\ UNCHANGED <<pump, join, removals, running, closed>>

\* Mutant: the unregister queue is full and the client is dropped.
ReadPumpExitForgotten(s) ==
    /\ pump[s] = "reading"
    /\ pump' = [pump EXCEPT ![s] = "exited"]
    /\ UNCHANGED <<users, rooms, channels, join, removals, running, closed>>

\* The deferred call of ReadPump: the client goes to the unregister queue or, when that
\* is full, to a goroutine of its own; either way one more removeClient call is due.
ReadPumpExit(s) ==
    /\ pump[s] = "reading"
    /\ pump' = [pump EXCEPT ![s] = "exited"]
    /\ removals' = [removals EXCEPT ![s] = @ + 1]
    /\ UNCHANGED <<users, rooms, channels, join, running, closed>>

\* Somebody's Send or Broadcast found the client's buffer full or closed, possibly
\* while the client's own ReadPump is in the middle of a handler.
SlowConsumer(s) ==
    /\ pump[s] # "offline"
    /\ removals[s] < MaxRemovals
    /\ removals' = [removals EXCEPT ![s] = @ + 1]
    /\ UNCHANGED <<users, rooms, channels, pump, join, running, closed>>

\* The first critical section of removeClient.
RemoveClient(s) ==
    /\ removals[s] > 0
    /\ LeaveRoom(s)
    /\ removals' = [removals EXCEPT ![s] = @ - 1]
    /\ UNCHANGED <<pump, join, running, closed>>
-----------------------------------------------------------------------------
(* The clock, the sweep and the shutdown.                                  *)

Tick ==
    /\ channels' = [r \in Room |->
                       IF channels[r] = Nil THEN Nil
                       ELSE [channels[r] EXCEPT !.emptyFor =
                                IF @ = Nil \/ @ = EmptyTTL THEN @ ELSE @ + 1]]
    /\ UNCHANGED <<users, rooms, pump, join, removals, running, closed>>

\* Runs in the loop of Hub.Run.
CleanupExpiredChannels ==
    /\ running
    /\ channels' = [r \in Room |-> IF Expired(r) THEN Nil ELSE channels[r]]
    /\ UNCHANGED <<users, rooms, pump, join, removals, running, closed>>

\* main cancels the context of Hub.Run, which returns when its select notices.
RunReturns ==
    /\ running
    /\ running' = FALSE
    /\ UNCHANGED <<users, rooms, channels, pump, join, removals, closed>>

\* main closes the hub last, without waiting for Run.  Handlers in flight are not stopped
\* and do not look at Hub.closed.
Close ==
    /\ ~closed
    /\ closed' = TRUE
    /\ users' = [s \in Sid |-> Nil]
    /\ rooms' = [r \in Room |-> {}]
    /\ channels' = [r \in Room |-> Nil]
    /\ UNCHANGED <<pump, join, removals, running>>

Next ==
    \/ \E s \in Sid, q \in Request, code \in Code : JoinAdmit(s, q, code) \/ JoinRefuse(s, q, code)
    \/ \E s \in Sid : \/ JoinLeave(s) \/ JoinEnter(s) \/ Connect(s) \/ Leave(s)
                      \/ ReadPumpExit(s) \/ SlowConsumer(s) \/ RemoveClient(s)
    \/ Tick \/ CleanupExpiredChannels \/ RunReturns \/ Close

Spec == Init /\ [][Next]_vars
-----------------------------------------------------------------------------
(* Safety.                                                                 *)

\* A sid is in rooms[r] exactly when its User says r, whatever join, leave and
\* removeClient calls for it are interleaved: nobody is in two channels, and nobody is
\* counted in a channel without being known as its user (leaveNoBroadcast, handleJoin).
MembershipConsistent == \A s \in Sid, r \in Room : s \in rooms[r] <=> users[s] = r

\* No channel ever holds more than MaxRoomSize clients, although the first check of
\* handleJoin is out of date by the time the client enters.
WithinCapacity == \A r \in Room : Cardinality(rooms[r]) <= MaxRoomSize

\* A channel with members is in the channel list and off the expiry clock, so the
\* sweep cannot take it away under them.
OccupiedChannelListed ==
    \A r \in Room : rooms[r] # {} => channels[r] # Nil /\ channels[r].emptyFor = Nil

\* A listed channel without members is on the clock, or a handleJoin for it is under way:
\* no sequence of joins and removals leaves behind a channel that never expires.
EmptyChannelOnClock ==
    \A r \in Room :
        channels[r] # Nil /\ rooms[r] = {} /\ channels[r].emptyFor = Nil
            => \E s \in Sid : join[s] # Nil /\ join[s].room = r

\* Secrets and privacy go together: a private channel has an owner and an invite code,
\* a public one has no code and no PIN (prepareChannelJoinLocked).
SecretsMatchPrivacy ==
    \A r \in Room : channels[r] # Nil =>
        IF channels[r].private THEN channels[r].owner # Nil /\ channels[r].code # Nil
        ELSE channels[r].code = Nil /\ channels[r].pin = Nil

\* A user whose ReadPump has ended still has a removeClient call coming, even if other
\* removals ran before its last join: nobody stays in a channel for ever as a ghost.
NoOrphanMember == \A s \in Sid : pump[s] = "exited" /\ users[s] # Nil => removals[s] > 0

\* While a channel stays listed its owner, its privacy and its invite code are for ever;
\* refused joins, touches and the clock cannot reset them.
ChannelIdentityStable ==
    [][\A r \in Room : channels[r] # Nil /\ channels'[r] # Nil =>
          /\ channels[r].owner # Nil => channels'[r].owner = channels[r].owner
          /\ channels[r].private => channels'[r].private /\ channels'[r].code = channels[r].code]_vars

\* The clock of an empty channel runs until somebody is in it or it is off the list: no
\* refused or half-done join, no late removal and no change of its secrets stops it or sets
\* it back (prepareChannelJoinLocked, markChannelEmptyLocked, leaveNoBroadcast).
EmptyClockRuns ==
    [][\A r \in Room :
          channels[r] # Nil /\ channels[r].emptyFor # Nil /\ channels'[r] # Nil /\ rooms'[r] = {}
              => channels'[r].emptyFor # Nil /\ channels'[r].emptyFor >= channels[r].emptyFor]_vars

\* Between the second and the third section of handleJoin the client sits in no channel,
\* so the capacity check that counts is over the others, and entering never leaves a
\* second seat behind.
EnteringHoldsNoSeat == \A s \in Sid : pump[s] = "entering" => \A r \in Room : s \notin rooms[r]

\* Channels implements Directory: seen from the maps users and channels alone, three
\* critical sections with anything between them look like one session stepping out of one
\* channel and, if there is a seat, into another.
D == INSTANCE Directory WITH where <- users, listed <- {r \in Room : channels[r] # Nil}

ImplementsDirectory == D!Spec

\* What the documentation says and the code does not keep.

\* "Other users must join with either invite_code or pin" (README.md:184): whoever gets
\* into a private channel is its owner, was in it when it asked, or holds a secret of it.
SecretRequired ==
    [][\A s \in Sid, r \in Room :
          s \in rooms'[r] \ rooms[r] /\ channels'[r].private
              => \/ channels'[r].owner = s
                 \/ join[s].alreadyMember
                 \/ Presents(join[s], channels'[r])]_vars

\* A join_room event with visibility private: "The backend creates the channel, generates
\* an invite code" (README.md:184).  A join that asked for a private channel and creates
\* one as it enters creates a private one (while the hub is open).
PrivateRequestNeverCreatesPublic ==
    [][\A s \in Sid, r \in Room :
          ~closed /\ s \in rooms'[r] \ rooms[r] /\ channels[r] = Nil /\ join[s].private
              => channels'[r].private]_vars
=============================================================================
