------------------------------- MODULE Presence -------------------------------
(***************************************************************************)
(* What clients are told about each other: peer_joined, peer_left,         *)
(* peer_name_updated and room_state within a channel, channels_expired and *)
(* the list of all channels, channels_state, to everybody.                 *)
(*                                                                         *)
(* Each change of the maps is made in one critical section and told after  *)
(* it, by a goroutine that then does one thing after another: it looks     *)
(* recipients up, enqueues to them one by one, takes a snapshot of the     *)
(* list, looks everybody up, enqueues.  Others change the maps and tell    *)
(* about it meanwhile.                                                     *)
(*                                                                         *)
(* Membership moves by the steps of Directory, which Channels implements.  *)
(* Abstractions.  A snapshot is the number of the last change it contains. *)
(* An inbox keeps what was enqueued; any enqueue may find its buffer full. *)
(* Error replies are left out.                                             *)
(***************************************************************************)
EXTENDS Naturals, Sequences, FiniteSets, SequencesExt

CONSTANTS
    Sid,          \* sessions
    Room,         \* channels
    MaxRoomSize,  \* config.MaxRoomSize
    MaxCalls,     \* bound: changes begun by handlers, removals and sweeps together
    Nil           \* no channel, no session

ASSUME NilAssumption == Nil \notin Sid \cup Room
ASSUME SizeAssumption == MaxRoomSize \in Nat \ {0} /\ MaxCalls \in Nat

\* The goroutines that tell: the ReadPump of each session, its removals, each a goroutine of
\* its own, and Hub.Run.
Pump(s) == <<s, "pump", 0>>
Remover(s, n) == <<s, "remover", n>>
Sweeper == <<Nil, "run", 0>>
Agent == {Pump(s) : s \in Sid} \cup {Remover(s, n) : s \in Sid, n \in 1 .. MaxCalls} \cup {Sweeper}

VARIABLES
    where,    \* Hub.users: the channel of each session
    listed,   \* the channels that exist
    version,  \* changes of these maps so far
    client,   \* each session's entry in Hub.clients: "queued" to be added, "in" or "out"
    since,    \* the version at which it was added
    pump,     \* what ReadPump is doing: "reading", in a join, or "ended"
    goal,     \* the channel that join is for
    due,      \* removeClient calls for each session that have not begun
    todo,     \* what each agent has still to do
    pending,  \* recipients it has looked up and not enqueued to yet, with what
    owes,     \* the changes it has made and not finished telling
    calls,    \* calls begun, up to MaxCalls
    inbox,    \* everything ever enqueued to each session
    settled,  \* history: the changes made by calls that have returned
    refused,  \* history: those of joins that found the channel full in the end
    slow      \* history: sessions a sender has found too slow

vars == <<where, listed, version, client, since, pump, goal, due, todo, pending, owes,
          calls, inbox, settled, refused, slow>>

membership == <<where, listed>>
history == <<inbox, settled, refused, slow>>

\* A message, about a session or Nil, with the number of the change it tells, or of the
\* last change a snapshot contains.
Msg(what, s, v) == [what |-> what, about |-> s, v |-> v]
What == {"joined", "left", "renamed", "expired", "state", "list"}
Message == [what : What, about : Sid \cup {Nil}, v : Nat]

\* Something to do: enqueue to those in a channel, to one session or to everybody.
Everybody == Nil
Tell(to, msg) == [do |-> "tell", to |-> to, msg |-> msg]
List(to) == [do |-> "list", to |-> to]
TakeOut == [do |-> "take out"]
Job == {TakeOut} \cup [do : {"list"}, to : Sid \cup {Everybody}]
                 \cup [do : {"tell"}, to : Room \cup Sid \cup {Everybody}, msg : Message]

TypeOK ==
    /\ where \in [Sid -> listed \cup {Nil}] /\ listed \subseteq Room
    /\ version \in Nat
    /\ client \in [Sid -> {"queued", "in", "out"}]
    /\ since \in [Sid -> 0 .. version]
    /\ pump \in [Sid -> {"reading", "leaving", "entering", "ended"}]
    /\ goal \in [Sid -> Room \cup {Nil}]
    /\ due \in [Sid -> Nat]
    /\ todo \in [Agent -> Seq(Job)]
    /\ pending \in [Agent -> SUBSET (Sid \X Message)]
    /\ owes \in [Agent -> SUBSET (1 .. version)]
    /\ calls \in 0 .. MaxCalls
    /\ inbox \in [Sid -> Seq(Message)]
    /\ settled \subseteq 1 .. version /\ refused \subseteq settled /\ slow \subseteq Sid

Dir == INSTANCE Directory

\* A hub at rest, a new one or a later one: some channels are listed, some sessions are in
\* them, others connected or about to be added, and those that
\* have gone are about to be removed.
Init ==
    /\ listed \in SUBSET Room /\ where \in [Sid -> listed \cup {Nil}]
    /\ \A r \in Room : Cardinality(Dir!Members(r)) <= MaxRoomSize
    /\ version = 0
    /\ client \in [Sid -> {"queued", "in"}] /\ \A s \in Sid : where[s] # Nil => client[s] = "in"
    /\ since = [s \in Sid |-> 0]
    /\ pump \in [Sid -> {"reading", "ended"}] /\ goal = [s \in Sid |-> Nil]
    /\ due = [s \in Sid |-> IF pump[s] = "ended" THEN 1 ELSE 0]
    /\ todo = [a \in Agent |-> <<>>] /\ pending = [a \in Agent |-> {}]
    /\ owes = [a \in Agent |-> {}]
    /\ calls = 0
    /\ inbox = [s \in Sid |-> <<>>] /\ settled = {} /\ refused = {} /\ slow = {}
-----------------------------------------------------------------------------
(* Telling.                                                                *)

Free(a) == todo[a] = <<>> /\ pending[a] = {} /\ owes[a] = {}

\* An agent begins a call, or goes on with one, that makes the next change and tells it.
Change(a, jobs) ==
    /\ version' = version + 1
    /\ todo' = [todo EXCEPT ![a] = jobs]
    /\ owes' = [owes EXCEPT ![a] = @ \cup {version + 1}]
    /\ UNCHANGED <<client, since, pending, inbox, settled, refused>>

NoChange == UNCHANGED <<version, client, since, todo, pending, owes, inbox, settled, refused>>

Begin == calls < MaxCalls /\ calls' = calls + 1

Told(what, s) == Msg(what, s, version + 1)

\* Whom Broadcast, Send and BroadcastAll look up.
Recipients(a, to) ==
    {t \in Sid : client[t] = "in" /\ (to = Everybody \/ to = t \/ (to = where[t] /\ t # a[1]))}

\* Mutant: only the session that changed something is sent the list.
SnapshotForOne(a) ==
    /\ Head(todo[a]).do = "list"
    /\ todo' = [todo EXCEPT ![a] = <<Tell(a[1], Msg("list", Nil, version))>>]
    /\ UNCHANGED <<client, pending>>

\* channelPayload: the critical section that takes the snapshot.
TakeSnapshot(a) ==
    /\ Head(todo[a]).do = "list"
    /\ todo' = [todo EXCEPT ![a] = <<Tell(Head(@).to, Msg("list", Nil, version))>>]
    /\ UNCHANGED <<client, pending>>

LookUp(a) ==
    LET job == Head(todo[a]) IN
    /\ job.do = "tell"
    /\ pending' = [pending EXCEPT ![a] = Recipients(a, job.to) \X {job.msg}]
    /\ todo' = [todo EXCEPT ![a] = Tail(@)]
    /\ UNCHANGED client

\* The second critical section of removeClient.
Delete(a) ==
    /\ Head(todo[a]) = TakeOut
    /\ client' = [client EXCEPT ![a[1]] = IF @ = "in" THEN "out" ELSE @]
    /\ todo' = [todo EXCEPT ![a] = Tail(@)]
    /\ UNCHANGED pending

NextJob(a) ==
    /\ todo[a] # <<>> /\ pending[a] = {}
    /\ TakeSnapshot(a) \/ LookUp(a) \/ Delete(a)
    /\ UNCHANGED <<membership, version, since, pump, goal, due, owes, calls, history>>

Enqueue(a, t, msg) ==
    /\ pending' = [pending EXCEPT ![a] = @ \ {<<t, msg>>}]
    /\ inbox' = IF client[t] = "in" THEN [inbox EXCEPT ![t] = Append(@, msg)] ELSE inbox
    /\ UNCHANGED <<membership, version, client, since, pump, goal, due, todo, owes, calls, settled, refused, slow>>

\* The buffer is full, or closed: a goroutine of the sender's removes the client.
EnqueueFails(a, t, msg) ==
    /\ Begin
    /\ pending' = [pending EXCEPT ![a] = @ \ {<<t, msg>>}]
    /\ due' = [due EXCEPT ![t] = @ + 1]
    /\ slow' = slow \cup {t}
    /\ UNCHANGED <<membership, version, client, since, pump, goal, todo, owes, inbox, settled, refused>>

\* The call returns.
Finish(a) ==
    /\ todo[a] = <<>> /\ pending[a] = {} /\ owes[a] # {}
    /\ a[2] = "pump" => pump[a[1]] \in {"reading", "ended"}
    /\ settled' = settled \cup owes[a]
    /\ owes' = [owes EXCEPT ![a] = {}]
    /\ UNCHANGED <<membership, version, client, since, pump, goal, due, todo, pending, calls, inbox, refused, slow>>
-----------------------------------------------------------------------------
(* handleJoin, handleLeave, handleUpdateName.                              *)

\* The first critical section lists the channel, which nobody is told.
JoinAdmit(s, r) ==
    /\ pump[s] = "reading" /\ Free(Pump(s)) /\ Begin
    /\ s \in Dir!Members(r) \/ Cardinality(Dir!Members(r)) < MaxRoomSize
    /\ Dir!Create(r)
    /\ version' = IF r \in listed THEN version ELSE version + 1
    /\ pump' = [pump EXCEPT ![s] = "leaving"]
    /\ goal' = [goal EXCEPT ![s] = r]
    /\ UNCHANGED <<client, since, due, todo, pending, owes, history>>

JoinLeave(s) ==
    LET old == where[s] IN
    /\ pump[s] = "leaving"
    /\ Dir!Exit(s)
    /\ IF old = Nil THEN NoChange
       ELSE Change(Pump(s), IF old = goal[s] THEN <<>> ELSE <<Tell(old, Told("left", s))>>)
    /\ pump' = [pump EXCEPT ![s] = "entering"]
    /\ UNCHANGED <<goal, due, calls, slow>>

JoinDone(s) ==
    /\ pump[s] = "entering" /\ todo[Pump(s)] = <<>> /\ pending[Pump(s)] = {}
    /\ pump' = [pump EXCEPT ![s] = "reading"]
    /\ goal' = [goal EXCEPT ![s] = Nil]

JoinEnter(s) ==
    LET r == goal[s] IN
    /\ JoinDone(s)
    /\ Dir!Enter(s, r)
    /\ Change(Pump(s), <<Tell(r, Told("joined", s)), Tell(s, Told("state", Nil)), List(Everybody)>>)
    /\ UNCHANGED <<due, calls, slow>>

\* ROOM_FULL in the third section: the call returns without a list, whatever it has changed
\* and told.
JoinFull(s) ==
    /\ JoinDone(s)
    /\ Cardinality(Dir!Members(goal[s])) >= MaxRoomSize
    /\ owes' = [owes EXCEPT ![Pump(s)] = {}]
    /\ settled' = settled \cup owes[Pump(s)]
    /\ refused' = refused \cup owes[Pump(s)]
    /\ UNCHANGED <<membership, version, client, since, due, todo, pending, calls, inbox, slow>>

\* Mutant: the list is sent before the channel is told.
LeaveListFirst(s) ==
    /\ pump[s] = "reading" /\ Free(Pump(s)) /\ where[s] # Nil /\ Begin
    /\ Dir!Exit(s)
    /\ Change(Pump(s), <<Tell(Everybody, Msg("list", Nil, version + 1)), Tell(where[s], Told("left", s))>>)
    /\ UNCHANGED <<pump, goal, due, slow>>

Leave(s) ==
    /\ pump[s] = "reading" /\ Free(Pump(s)) /\ where[s] # Nil /\ Begin
    /\ Dir!Exit(s)
    /\ Change(Pump(s), <<Tell(where[s], Told("left", s)), List(Everybody)>>)
    /\ UNCHANGED <<pump, goal, due, slow>>

UpdateName(s) ==
    /\ pump[s] = "reading" /\ Free(Pump(s)) /\ where[s] # Nil /\ Begin
    /\ Change(Pump(s), <<Tell(where[s], Told("renamed", s)), List(Everybody)>>)
    /\ UNCHANGED <<membership, pump, goal, due, slow>>
\* channels_list: the session alone is sent the list.
Refresh(s) ==
    /\ pump[s] = "reading" /\ Free(Pump(s)) /\ Begin
    /\ todo' = [todo EXCEPT ![Pump(s)] = <<List(s)>>]
    /\ UNCHANGED <<membership, version, client, since, pump, goal, due, pending, owes, history>>
-----------------------------------------------------------------------------
(* Clients that come and go, and channels that expire.                     *)

AddClient(s) ==
    /\ client[s] = "queued"
    /\ client' = [client EXCEPT ![s] = "in"]
    /\ since' = [since EXCEPT ![s] = version]
    /\ UNCHANGED <<membership, version, pump, goal, due, todo, pending, owes, calls, history>>

\* Mutant: ReadPump runs its handlers in goroutines of their own.
DisconnectMidway(s) ==
    /\ pump[s] = "reading" /\ Begin
    /\ pump' = [pump EXCEPT ![s] = "ended"]
    /\ due' = [due EXCEPT ![s] = @ + 1]
    /\ UNCHANGED <<membership, version, client, since, goal, todo, pending, owes, history>>

\* ReadPump ends, between two handlers.
Disconnect(s) ==
    /\ pump[s] = "reading" /\ Free(Pump(s)) /\ Begin
    /\ pump' = [pump EXCEPT ![s] = "ended"]
    /\ due' = [due EXCEPT ![s] = @ + 1]
    /\ UNCHANGED <<membership, version, client, since, goal, todo, pending, owes, history>>

\* The first critical section of removeClient, on a goroutine of its own, and what it has to
\* do then.
RemoveClient(s, n) ==
    LET a == Remover(s, n) IN
    /\ due[s] > 0 /\ Free(a)
    /\ \A m \in 1 .. n - 1 : ~Free(Remover(s, m))
    /\ due' = [due EXCEPT ![s] = @ - 1]
    /\ Dir!Exit(s)
    /\ IF where[s] = Nil
       THEN /\ todo' = [todo EXCEPT ![a] = <<TakeOut>>]
            /\ UNCHANGED <<version, client, since, pending, owes, inbox, settled, refused>>
       ELSE Change(a, <<TakeOut, Tell(where[s], Told("left", s)), List(Everybody)>>)
    /\ UNCHANGED <<pump, goal, calls, slow>>

CleanupExpiredChannels(gone) ==
    /\ gone # {} /\ Free(Sweeper) /\ Begin
    /\ Dir!Expire(gone)
    /\ Change(Sweeper, <<Tell(Everybody, Told("expired", Nil)), List(Everybody)>>)
    /\ UNCHANGED <<pump, goal, due, slow>>

Next ==
    \/ \E s \in Sid : \/ JoinLeave(s) \/ JoinEnter(s) \/ JoinFull(s) \/ Leave(s) \/ UpdateName(s) \/ Refresh(s)
                      \/ AddClient(s) \/ Disconnect(s)
                      \/ \E n \in 1 .. MaxCalls : RemoveClient(s, n)
                      \/ \E r \in Room : JoinAdmit(s, r)
    \/ \E gone \in SUBSET listed : CleanupExpiredChannels(gone)
    \/ \E a \in Agent : \/ NextJob(a) \/ Finish(a)
                        \/ \E entry \in pending[a] : \/ Enqueue(a, entry[1], entry[2])
                                                     \/ EnqueueFails(a, entry[1], entry[2])

Spec == Init /\ [][Next]_vars
-----------------------------------------------------------------------------
\* A client that has not been found too slow.
Kept(t) == client[t] = "in" /\ t \notin slow

ListAt(t, i, v) == inbox[t][i].what = "list" /\ inbox[t][i].v >= v

\* The changes that call for a list: those of the calls that have returned, but for joins
\* that ended in ROOM_FULL, which have told the old channel and send no list.
Announced == settled \ refused

\* Whatever overtakes it, a message about a change is put right by a list that comes after
\* it: once the call that made the change has returned, each client that was told of it has
\* got, behind the message, a list at least as new.  The departure told by a join that ended
\* in ROOM_FULL is the exception: it waits for the list of some later change.
NewsThenList ==
    \A t \in Sid : Kept(t) =>
        \A i \in DOMAIN inbox[t] : inbox[t][i].v \in Announced =>
            \E j \in i .. Len(inbox[t]) : ListAt(t, j, inbox[t][i].v)

\* Every change reaches every client, in whichever channel or none: once the call that made
\* it has returned, unless it was a join that ended in ROOM_FULL, whoever was a client when
\* the change was made, and still is, has a list at least as new.
ListsReachEverybody ==
    \A t \in Sid : Kept(t) =>
        \A v \in Announced : v > since[t] => \E i \in DOMAIN inbox[t] : ListAt(t, i, v)

\* Joins, departures and names of a session reach the others in the order they happened,
\* unless a sender's goroutine removes the session next to its own handlers.
PeersInOrder ==
    \A t \in Sid : \A i, j \in DOMAIN inbox[t] :
        LET m == inbox[t][i]
            n == inbox[t][j] IN
        i < j /\ m.about = n.about /\ m.about \notin slow \cup {Nil} => m.v < n.v
=============================================================================
