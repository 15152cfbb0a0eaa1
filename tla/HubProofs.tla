------------------------------ MODULE HubProofs ------------------------------
(***************************************************************************)
(* Theorems about Hub for any number of sessions and channels and any      *)
(* capacities: that it implements Channels, that every seat of a session   *)
(* without a ReadPump has a removal on its way, and that Send channels are *)
(* closed as safely as in Sessions although removeClient is two steps      *)
(* here.                                                                   *)
(*                                                                         *)
(* What is known of the two parts by themselves is used through the        *)
(* instances CP and SP of their proofs.                                    *)
(***************************************************************************)
EXTENDS Hub, FiniteSetTheorems, TLAPS

CP == INSTANCE ChannelsProofs WITH MaxRemovals <- MaxRemovals + 1
SP == INSTANCE SessionsProofs

\* The two parts mean the same connection.
PumpsAgree ==
    \A s \in Sid :
        /\ conn[s] = "none" <=> pump[s] = "offline"
        /\ conn[s] = "none" <=> reader[s] = "none"
        /\ reader[s] = "done" <=> pump[s] = "exited"
        /\ conn[s] = "none" => writer[s] = "none" /\ s \notin targets

\* A session unregisters once, when its ReadPump ends, and a removal is due for it.
QueuedOnce ==
    /\ IsInjective(unregisterQ)
    /\ \A s \in ToSet(unregisterQ) : reader[s] = "done" /\ removals[s] > 0

\* The removeClient goroutines of Sessions are those that have not begun and those halfway.
DoomedIsDue == \A s \in Sid : s \in doomed <=> Waiting(s) + halfway[s] > 0

MidwayType == halfway \in [Sid -> Nat] /\ removing \in Sid \cup {Nil}

LinkInv == PumpsAgree /\ QueuedOnce /\ DoomedIsDue /\ MidwayType

HubInv == SP!RegistryInv /\ CP!IInv /\ LinkInv
-----------------------------------------------------------------------------
(* The parts as their proofs see them.                                     *)

LEMMA ChannelsAssumptions ==
    CP!NilAssumption /\ CP!SizeAssumption /\ CP!TTLAssumption /\ CP!RemovalsAssumption
BY NilAssumption, SizeAssumption
   DEF CP!NilAssumption, CP!SizeAssumption, CP!TTLAssumption, CP!RemovalsAssumption,
       C!Channel, C!Join, CP!Channel, CP!Join

LEMMA SessionsAssumptions == SP!QueueAssumption /\ SP!SendAssumption /\ SP!NilAssumption
BY NilAssumption, SizeAssumption DEF SP!QueueAssumption, SP!SendAssumption, SP!NilAssumption


\* Counting is the same in every instance.
LEMMA SameCardinality == \A set : /\ C!Cardinality(set) = Cardinality(set)
                                  /\ CP!Cardinality(set) = Cardinality(set)
BY DEF C!Cardinality, CP!Cardinality, Cardinality

LEMMA SameHasSpace == \A r : C!HasSpace(r) <=> CP!HasSpace(r)
BY SameCardinality DEF C!HasSpace, CP!HasSpace

LEMMA SamePrepared ==
    \A ch, s, q, code : C!Prepared(ch, s, q, code) = CP!Prepared(ch, s, q, code)
BY DEF C!Prepared, CP!Prepared, C!Created, CP!Created, C!NewChannel, CP!NewChannel, C!Claimed,
       CP!Claimed, C!MadePrivate, CP!MadePrivate, C!WithPin, CP!WithPin

LEMMA SameAdmitted == \A s, q, ch : C!Admitted(s, q, ch) <=> CP!Admitted(s, q, ch)
BY SameHasSpace DEF C!Admitted, CP!Admitted, C!Authorised, CP!Authorised, C!Presents, CP!Presents

LEMMA SameLeaveRoom == \A s : C!LeaveRoom(s) <=> CP!LeaveRoom(s)
BY DEF C!LeaveRoom, CP!LeaveRoom, C!MarkedEmpty, CP!MarkedEmpty, C!Touched, CP!Touched,
       C!NewChannel, CP!NewChannel

LEMMA SameEnterRoom == \A s, r : C!EnterRoom(s, r) <=> CP!EnterRoom(s, r)
BY SameHasSpace DEF C!EnterRoom, CP!EnterRoom, C!Touched, CP!Touched, C!NewChannel, CP!NewChannel

\* The steps of the two parts are those their proofs are about.
LEMMA ChannelsStep == [C!Next]_(C!vars) => [CP!Next]_(CP!vars)
BY SMTT(30), SamePrepared, SameAdmitted, SameLeaveRoom, SameEnterRoom
   DEF C!vars, CP!vars, C!Next, CP!Next, C!Request, CP!Request, C!JoinAdmit, CP!JoinAdmit,
       C!JoinRefuse, CP!JoinRefuse, C!JoinLeave, CP!JoinLeave, C!JoinEnter, CP!JoinEnter,
       C!Connect, CP!Connect, C!Leave, CP!Leave, C!ReadPumpExit, CP!ReadPumpExit,
       C!SlowConsumer, CP!SlowConsumer, C!RemoveClient, CP!RemoveClient, C!Tick, CP!Tick,
       C!CleanupExpiredChannels, CP!CleanupExpiredChannels, C!Expired, CP!Expired,
       C!RunReturns, CP!RunReturns, C!Close, CP!Close

LEMMA SessionsStep == [S!Next]_(S!vars) => [SP!Next]_(SP!vars)
BY DEF S!vars, SP!vars, S!Next, SP!Next, S!pumps, SP!pumps, S!queues, SP!queues, S!registry,
       SP!registry, S!traffic, SP!traffic, S!hub, SP!hub, S!HandleWS, SP!HandleWS, S!AddClient,
       SP!AddClient, S!Greet, SP!Greet, S!LookUp, SP!LookUp, S!Enqueue, SP!Enqueue,
       S!QualityPing, SP!QualityPing, S!RemoveUnregistered, SP!RemoveUnregistered,
       S!RemoveDoomed, SP!RemoveDoomed, S!TakeOut, SP!TakeOut, S!CloseSend, SP!CloseSend,
       S!WriteNext, SP!WriteNext, S!WriteClose, SP!WriteClose, S!PingFails, SP!PingFails,
       S!ReadPumpExit, SP!ReadPumpExit, S!Lose, SP!Lose, S!RunReturns, SP!RunReturns, S!Close,
       SP!Close
-----------------------------------------------------------------------------
(* Queues and counts.                                                      *)

LEMMA SameSequenceOperators ==
    /\ \A q : SP!ToSet(q) = ToSet(q)
    /\ \A q : SP!IsInjective(q) <=> IsInjective(q)
BY DEF SP!ToSet, ToSet, SP!IsInjective, IsInjective

\* A session is in a queue without duplicates once or not at all.
LEMMA OccursOnce ==
    ASSUME NEW q \in Seq(Sid), IsInjective(q), NEW s
    PROVE  Cardinality({i \in DOMAIN q : q[i] = s}) = IF s \in ToSet(q) THEN 1 ELSE 0
<1>1. CASE s \in ToSet(q)
  <2>1. PICK i \in DOMAIN q : q[i] = s
    BY <1>1 DEF ToSet
  <2>2. {j \in DOMAIN q : q[j] = s} = {i}
    BY <2>1 DEF IsInjective
  <2>3. QED
    BY <1>1, <2>2, FS_Singleton
<1>2. CASE s \notin ToSet(q)
  <2>1. {j \in DOMAIN q : q[j] = s} = {}
    BY <1>2 DEF ToSet
  <2>2. QED
    BY <1>2, <2>1, FS_EmptySet
<1>3. QED
  BY <1>1, <1>2

\* The removals of a session that are not in the queue.
LEMMA WaitingIs ==
    ASSUME unregisterQ \in Seq(Sid), IsInjective(unregisterQ), NEW s \in Sid
    PROVE  Waiting(s) = removals[s] - IF s \in ToSet(unregisterQ) THEN 1 ELSE 0
BY OccursOnce DEF Waiting

LEMMA WaitingNext ==
    ASSUME unregisterQ' \in Seq(Sid), IsInjective(unregisterQ'), NEW s \in Sid
    PROVE  Waiting(s)' = removals'[s] - IF s \in ToSet(unregisterQ') THEN 1 ELSE 0
BY OccursOnce DEF Waiting

\* The types the proofs below need.
Types ==
    /\ conn \in [Sid -> {"none", "up", "lost", "closed"}]
    /\ reader \in [Sid -> {"none", "running", "done"}]
    /\ writer \in [Sid -> {"none", "running", "done"}]
    /\ unregisterQ \in Seq(Sid) /\ Len(unregisterQ) <= QueueCap
    /\ clients \subseteq Sid /\ targets \subseteq Sid /\ doomed \subseteq Sid
    /\ buffer \in [Sid -> 0 .. SendCap]
    /\ greeting \in Sid \cup {Nil}
    /\ removing \in Sid \cup {Nil} /\ halfway \in [Sid -> Nat]
    /\ users \in [Sid -> Room \cup {Nil}]
    /\ pump \in [Sid -> {"offline", "reading", "leaving", "entering", "exited"}]
    /\ removals \in [Sid -> Nat]

LEMMA Typed == HubInv => Types
BY DEF HubInv, Types, SP!RegistryInv, SP!TypeOK, CP!IInv, CP!TInv, CP!TypeOK, CP!PumpState, LinkInv,
       MidwayType

\* Somebody in the map, or with an open Send channel, has connected.
LEMMA ClientsHaveConnected ==
    ASSUME HubInv, NEW s \in clients
    PROVE  s \in Sid /\ conn[s] # "none"
BY Typed DEF HubInv, Types, SP!RegistryInv, SP!Fresh, SP!ClosedAtMostOnce
-----------------------------------------------------------------------------
(* The hub implements Channels.                                            *)

\* A step that Sessions takes alone changes nothing that Channels knows.
LEMMA SessionsAlone ==
    ASSUME \/ S!AddClient \/ S!Greet
           \/ \E s \in Sid : \/ S!QualityPing(s) \/ S!CloseSend(s) \/ S!WriteNext(s)
                             \/ S!WriteClose(s) \/ S!PingFails(s) \/ S!Lose(s)
           \/ \E recipients \in SUBSET clients : S!LookUp(recipients)
    PROVE  UNCHANGED <<running, closed>>
BY DEF S!AddClient, S!Greet, S!QualityPing, S!CloseSend, S!WriteNext, S!WriteClose, S!PingFails,
       S!Lose, S!LookUp, S!hub

\* A failed enqueue is a slow consumer found by a sender: it is connected, and the bound on
\* goroutines, with the one place in the queue, is the bound of Channels.
LEMMA EnqueueMeans ==
    ASSUME HubInv, NEW s \in Sid, Enqueue(s)
    PROVE  C!SlowConsumer(s) \/ UNCHANGED C!vars
<1>1. Types /\ PumpsAgree /\ QueuedOnce
  BY Typed DEF HubInv, LinkInv
<1>2. UNCHANGED <<running, closed>> /\ s \in targets
  BY DEF Enqueue, S!Enqueue, S!hub
<1>3. CASE buffer' # buffer \/ Waiting(s) + halfway[s] >= MaxRemovals
  BY <1>2, <1>3 DEF Enqueue, members, C!vars
<1>4. CASE ~(buffer' # buffer \/ Waiting(s) + halfway[s] >= MaxRemovals)
  <2>1. /\ removals' = [removals EXCEPT ![s] = @ + 1]
        /\ UNCHANGED <<users, rooms, channels, pump, join>>
    BY <1>4 DEF Enqueue
  <2>2. Waiting(s) = removals[s] - IF s \in ToSet(unregisterQ) THEN 1 ELSE 0
    BY <1>1, WaitingIs DEF Types, QueuedOnce
  <2>3. removals[s] < MaxRemovals + 1
    BY <1>1, <1>4, <2>2, SizeAssumption DEF Types
  <2>4. pump[s] # "offline"
    BY <1>1, <1>2 DEF PumpsAgree
  <2>5. QED
    BY <1>2, <2>1, <2>3, <2>4 DEF C!SlowConsumer
<1>5. QED
  BY <1>3, <1>4

\* Every step of the hub is a step of Channels or changes nothing in it.
LEMMA MembersStep == HubInv /\ [Next]_vars => [C!Next]_(C!vars)
<1> SUFFICES ASSUME HubInv, [Next]_vars PROVE C!Next \/ UNCHANGED C!vars
  OBVIOUS
<1>2. ASSUME NEW s \in Sid, Goroutine(s) PROVE C!Next \/ UNCHANGED C!vars
  <2>1. CASE MemberStep(C!JoinLeave(s)) \/ MemberStep(C!JoinEnter(s))
    BY <2>1 DEF MemberStep, C!Next
  <2>2. CASE \/ SessionStep(S!QualityPing(s)) \/ SessionStep(S!CloseSend(s))
             \/ SessionStep(S!WriteNext(s)) \/ SessionStep(S!WriteClose(s))
             \/ SessionStep(S!PingFails(s))
    BY <2>2, SessionsAlone DEF SessionStep, members, C!vars
  <2>3. CASE Enqueue(s)
    BY <2>3, EnqueueMeans DEF C!Next
  <2>4. CASE BeginRemoval(s)
    BY <2>4 DEF BeginRemoval, C!Next
  <2>5. CASE EndRemoval(s)
    BY <2>5 DEF EndRemoval, members, C!vars
  <2>6. QED
    BY <1>2, <2>1, <2>2, <2>3, <2>4, <2>5 DEF Goroutine
<1>3. ASSUME NEW s \in Sid, Environment(s) PROVE C!Next \/ UNCHANGED C!vars
  <2>1. CASE HandleWS(s)
    BY <2>1 DEF HandleWS, C!Next
  <2>2. CASE SessionStep(S!Lose(s))
    BY <2>2, SessionsAlone DEF SessionStep, members, C!vars
  <2>3. CASE MemberStep(C!Leave(s))
    BY <2>3 DEF MemberStep, C!Next
  <2>4. ASSUME NEW q \in C!Request, NEW code \in Code,
               MemberStep(C!JoinAdmit(s, q, code) \/ C!JoinRefuse(s, q, code))
        PROVE  C!Next
    BY <2>4 DEF MemberStep, C!Next
  <2>5. QED
    BY <1>3, <2>1, <2>2, <2>3, <2>4 DEF Environment
<1>4. ASSUME NEW s \in Sid, ReadPumpExit(s) PROVE C!Next
  BY <1>4 DEF ReadPumpExit, C!Next
<1>5. CASE \/ AddClient \/ SessionStep(S!Greet)
           \/ \E recipients \in SUBSET clients : SessionStep(S!LookUp(recipients))
  BY <1>5, SessionsAlone DEF AddClient, SessionStep, members, C!vars
<1>6. CASE Unregister
  <2>1. Head(unregisterQ) \in Sid
    BY <1>6, Typed DEF Unregister, Types
  <2>2. QED
    BY <1>6, <2>1 DEF Unregister, C!Next
<1>7. CASE Unregistered
  BY <1>7 DEF Unregistered, members, C!vars
<1>8. CASE CleanupExpiredChannels \/ MemberStep(C!Tick) \/ RunReturns \/ Close
  BY <1>8 DEF CleanupExpiredChannels, MemberStep, RunReturns, Close, C!Next
<1>9. CASE UNCHANGED vars
  BY <1>9 DEF vars, members, C!vars
<1>10. QED
  BY <1>2, <1>3, <1>4, <1>5, <1>6, <1>7, <1>8, <1>9 DEF Next
-----------------------------------------------------------------------------
(* Send channels, with removeClient in two steps.                          *)

\* The second section of removeClient does to the registry what it does in Sessions.
LEMMA TakenOut ==
    ASSUME SP!RegistryInv, NEW s \in Sid, S!TakeOut(s), doomed' \subseteq doomed,
           UNCHANGED <<conn, reader, writer, watch, registerQ, unregisterQ, open, buffer, targets,
                       greeting, running, closed>>
    PROVE  SP!RegistryInv'
<1>1. SP!Places' /\ clients' \subseteq clients
  <2>1. SP!Places /\ SP!TakeOut(s)
    BY DEF SP!RegistryInv, SP!Places, SP!TakeOut, S!TakeOut
  <2>2. QED
    BY <2>1, SP!TakeOutFacts, SessionsAssumptions
<1>2. SP!TypeOK'
  BY DEF SP!RegistryInv, SP!TypeOK, S!TakeOut
<1>3. SP!Fresh' /\ SP!EveryClientWatched'
  BY <1>1 DEF SP!RegistryInv, SP!Fresh, SP!EveryClientWatched
<1>4. QED
  BY <1>1, <1>2, <1>3 DEF SP!RegistryInv, SP!Places

\* Its first section, in Run, only shortens the unregister queue.
LEMMA TakenOffQueue ==
    ASSUME SP!RegistryInv, unregisterQ # <<>>, unregisterQ' = Tail(unregisterQ),
           UNCHANGED <<conn, reader, writer, watch, registerQ, clients, open, buffer, targets, doomed,
                       closing, greeting, running, closed>>
    PROVE  SP!RegistryInv'
<1>1. unregisterQ \in Seq(Sid) /\ Len(unregisterQ) <= QueueCap
  BY DEF SP!RegistryInv, SP!TypeOK
<1>2. unregisterQ' \in Seq(Sid) /\ Len(unregisterQ') <= QueueCap
  BY <1>1, SizeAssumption
<1>3. QED
  BY <1>2 DEF SP!RegistryInv, SP!TypeOK, SP!Fresh, SP!ClosedAtMostOnce, SP!OpenHasCloser,
       SP!EveryClientWatched, SP!Queued, SP!ToSet, SP!IsInjective

\* A step of Sessions, whatever else happens in it.
LEMMA SessionsPart == SP!RegistryInv /\ S!Next => SP!RegistryInv'
BY SessionsStep, SP!RegistryStep, SessionsAssumptions

LEMMA RegistryStep == HubInv /\ [Next]_vars => SP!RegistryInv'
<1> SUFFICES ASSUME HubInv, [Next]_vars PROVE SP!RegistryInv'
  OBVIOUS
<1>1. SP!RegistryInv /\ Types
  BY Typed DEF HubInv
<1>2. ASSUME UNCHANGED <<sessions, running, closed>> PROVE SP!RegistryInv'
  BY <1>1, <1>2, SessionsStep, SP!RegistryStep, SessionsAssumptions DEF S!vars, sessions
<1>3. ASSUME NEW s \in Sid, Goroutine(s) PROVE SP!RegistryInv'
  <2>1. CASE MemberStep(C!JoinLeave(s)) \/ MemberStep(C!JoinEnter(s))
    BY <1>2, <2>1 DEF MemberStep, C!JoinLeave, C!JoinEnter
  <2>2. CASE \/ SessionStep(S!QualityPing(s)) \/ SessionStep(S!CloseSend(s))
             \/ SessionStep(S!WriteNext(s)) \/ SessionStep(S!WriteClose(s))
             \/ SessionStep(S!PingFails(s)) \/ Enqueue(s)
    BY <1>1, <2>2, SessionsPart DEF SessionStep, Enqueue, S!Next
  <2>3. CASE BeginRemoval(s)
    BY <1>2, <2>3 DEF BeginRemoval, C!RemoveClient
  <2>4. CASE EndRemoval(s)
    BY <1>1, <2>4, TakenOut DEF EndRemoval
  <2>5. QED
    BY <1>3, <2>1, <2>2, <2>3, <2>4 DEF Goroutine
<1>4. ASSUME NEW s \in Sid, Environment(s) PROVE SP!RegistryInv'
  <2>1. CASE HandleWS(s) \/ SessionStep(S!Lose(s))
    BY <1>1, <2>1, SessionsPart DEF HandleWS, SessionStep, S!Next
  <2>2. CASE MemberStep(C!Leave(s))
    BY <1>2, <2>2 DEF MemberStep, C!Leave
  <2>3. ASSUME NEW q \in C!Request, NEW code \in Code,
               MemberStep(C!JoinAdmit(s, q, code) \/ C!JoinRefuse(s, q, code))
        PROVE  SP!RegistryInv'
    BY <1>2, <2>3 DEF MemberStep, C!JoinAdmit, C!JoinRefuse
  <2>4. QED
    BY <1>4, <2>1, <2>2, <2>3 DEF Environment
<1>5. ASSUME NEW s \in Sid, ReadPumpExit(s) PROVE SP!RegistryInv'
  BY <1>1, <1>5, SessionsPart DEF ReadPumpExit, S!Next
<1>6. CASE \/ AddClient \/ SessionStep(S!Greet) \/ RunReturns \/ Close
           \/ \E recipients \in SUBSET clients : SessionStep(S!LookUp(recipients))
  BY <1>1, <1>6, SessionsPart DEF AddClient, SessionStep, RunReturns, Close, S!Next
<1>7. CASE Unregister
  BY <1>1, <1>7, TakenOffQueue DEF Unregister, C!RemoveClient
<1>8. CASE Unregistered
  BY <1>1, <1>8, TakenOut DEF Unregistered, Types
<1>9. CASE CleanupExpiredChannels \/ MemberStep(C!Tick)
  BY <1>2, <1>9 DEF CleanupExpiredChannels, MemberStep, C!CleanupExpiredChannels, C!Tick
<1>10. CASE UNCHANGED vars
  BY <1>2, <1>10 DEF vars
<1>11. QED
  BY <1>3, <1>4, <1>5, <1>6, <1>7, <1>8, <1>9, <1>10 DEF Next

\* What Channels promises stays true of the hub.
LEMMA ChannelsPart == HubInv /\ [Next]_vars => CP!IInv'
BY MembersStep, ChannelsStep, CP!InvStep, ChannelsAssumptions DEF HubInv
-----------------------------------------------------------------------------
(* What ties the parts together.                                           *)

\* The removals that wait, when neither they nor the queue have changed.
LEMMA WaitingSame ==
    ASSUME UNCHANGED <<removals, unregisterQ>>, NEW s
    PROVE  Waiting(s)' = Waiting(s)
BY DEF Waiting

\* Those in the queue are counted among the removals.
LEMMA WaitingNat ==
    ASSUME Types, LinkInv, NEW s \in Sid
    PROVE  Waiting(s) \in Nat
<1>1. Waiting(s) = removals[s] - IF s \in ToSet(unregisterQ) THEN 1 ELSE 0
  BY WaitingIs DEF Types, LinkInv, QueuedOnce
<1>2. removals[s] \in Nat /\ (s \in ToSet(unregisterQ) => removals[s] > 0)
  BY DEF Types, LinkInv, QueuedOnce
<1>3. QED
  BY <1>1, <1>2

\* A step that none of the links sees.
LEMMA LinksStutter ==
    ASSUME LinkInv,
           UNCHANGED <<reader, unregisterQ, doomed, removals, midway>>,
           \A s \in Sid : /\ conn'[s] = "none" <=> conn[s] = "none"
                          /\ writer'[s] = "none" <=> writer[s] = "none"
                          /\ pump'[s] = "offline" <=> pump[s] = "offline"
                          /\ pump'[s] = "exited" <=> pump[s] = "exited"
                          /\ s \in targets' => s \in targets \/ conn[s] # "none"
    PROVE  LinkInv'
<1>1. PumpsAgree'
  BY DEF LinkInv, PumpsAgree
<1>2. QueuedOnce'
  BY DEF LinkInv, QueuedOnce
<1>3. DoomedIsDue'
  BY WaitingSame DEF LinkInv, DoomedIsDue, midway
<1>4. QED
  BY <1>1, <1>2, <1>3 DEF LinkInv, MidwayType, midway

\* The first section of removeClient leaves everything but a seat and a count alone.
LEMMA RemovalMeans ==
    ASSUME Types, NEW s \in Sid, C!RemoveClient(s)
    PROVE  /\ UNCHANGED <<pump, running, closed>>
           /\ removals[s] > 0 /\ removals' = [removals EXCEPT ![s] = @ - 1]
BY DEF C!RemoveClient

\* A removal on a goroutine of its own goes from waiting to halfway.
LEMMA BeginRemovalLinks ==
    ASSUME Types, LinkInv, NEW s \in Sid, BeginRemoval(s)
    PROVE  LinkInv'
<1>1. /\ UNCHANGED <<sessions, pump, removing>> /\ removals[s] > 0 /\ Waiting(s) > 0
      /\ removals' = [removals EXCEPT ![s] = @ - 1]
      /\ halfway' = [halfway EXCEPT ![s] = @ + 1]
  BY RemovalMeans DEF BeginRemoval
<1>2. /\ unregisterQ \in Seq(Sid) /\ IsInjective(unregisterQ)
      /\ unregisterQ' \in Seq(Sid) /\ IsInjective(unregisterQ')
  BY <1>1 DEF sessions, Types, LinkInv, QueuedOnce
<1>3. PumpsAgree'
  BY <1>1 DEF LinkInv, PumpsAgree, sessions
<1>4. QueuedOnce'
  <2>1. ASSUME NEW t \in ToSet(unregisterQ) PROVE t \in Sid /\ reader[t] = "done" /\ removals'[t] > 0
    <3>1. t \in Sid /\ reader[t] = "done" /\ removals[t] > 0
      BY <1>2 DEF ToSet, LinkInv, QueuedOnce
    <3>2. CASE t = s
      BY <1>1, <1>2, <2>1, <3>1, <3>2, WaitingIs DEF Types
    <3>3. CASE t # s
      BY <1>1, <3>1, <3>3 DEF Types
    <3>4. QED
      BY <3>1, <3>2, <3>3
  <2>2. QED
    BY <1>1, <1>2, <2>1 DEF QueuedOnce, sessions
<1>5. DoomedIsDue'
  <2>1. ASSUME NEW t \in Sid PROVE Waiting(t)' + halfway'[t] = Waiting(t) + halfway[t]
    <3>1. Waiting(t) = removals[t] - IF t \in ToSet(unregisterQ) THEN 1 ELSE 0
      BY <1>2, WaitingIs
    <3>2. Waiting(t)' = removals'[t] - IF t \in ToSet(unregisterQ) THEN 1 ELSE 0
      BY <1>1, <1>2, WaitingNext DEF sessions
    <3>3. /\ removals[t] \in Nat /\ halfway[t] \in Nat
          /\ removals'[t] = IF t = s THEN removals[t] - 1 ELSE removals[t]
          /\ halfway'[t] = IF t = s THEN halfway[t] + 1 ELSE halfway[t]
      BY <1>1 DEF Types
    <3>4. QED
      BY <3>1, <3>2, <3>3
  <2>2. QED
    BY <1>1, <2>1 DEF LinkInv, DoomedIsDue, sessions
<1>6. QED
  BY <1>1, <1>3, <1>4, <1>5 DEF LinkInv, MidwayType

\* Run takes a session off the queue and one off its removals at once.
LEMMA UnregisterLinks ==
    ASSUME Types, LinkInv, Unregister
    PROVE  LinkInv'
<1> DEFINE s == Head(unregisterQ)
<1>1. /\ s \in Sid /\ unregisterQ' \in Seq(Sid) /\ IsInjective(unregisterQ)
      /\ ToSet(unregisterQ) = {s} \cup ToSet(unregisterQ')
      /\ IsInjective(unregisterQ') /\ s \notin ToSet(unregisterQ')
  BY SP!TailFacts, SessionsAssumptions, SameSequenceOperators
     DEF Unregister, Types, LinkInv, QueuedOnce
<1>2. C!RemoveClient(s)
  BY DEF Unregister
<1> HIDE DEF s
<1>3. /\ UNCHANGED pump
      /\ removals[s] > 0 /\ removals' = [removals EXCEPT ![s] = @ - 1]
  BY <1>1, <1>2, RemovalMeans
<1>4. /\ UNCHANGED <<conn, reader, writer, targets, doomed, halfway>>
      /\ removing' = s
  BY DEF Unregister, s
<1>5. PumpsAgree'
  BY <1>3, <1>4 DEF LinkInv, PumpsAgree
<1>6. QueuedOnce'
  BY <1>1, <1>3, <1>4 DEF LinkInv, QueuedOnce, Types
<1>7. DoomedIsDue'
  <2>1. ASSUME NEW t \in Sid PROVE Waiting(t)' = Waiting(t)
    <3>1. Waiting(t) = removals[t] - IF t \in ToSet(unregisterQ) THEN 1 ELSE 0
      BY <1>1, WaitingIs DEF Types
    <3>2. Waiting(t)' = removals'[t] - IF t \in ToSet(unregisterQ') THEN 1 ELSE 0
      BY <1>1, WaitingNext
    <3>3. QED
      BY <1>1, <1>3, <3>1, <3>2 DEF Types
  <2>2. QED
    BY <1>4, <2>1 DEF LinkInv, DoomedIsDue
<1>8. QED
  BY <1>1, <1>4, <1>5, <1>6, <1>7 DEF LinkInv, MidwayType

\* A goroutine between the two sections finishes.
LEMMA EndRemovalLinks ==
    ASSUME Types, LinkInv, NEW s \in Sid, EndRemoval(s)
    PROVE  LinkInv'
<1>1. /\ UNCHANGED <<conn, reader, writer, unregisterQ, targets, pump, removals, removing>>
      /\ halfway[s] > 0 /\ halfway' = [halfway EXCEPT ![s] = @ - 1]
      /\ doomed' = IF Waiting(s) + halfway[s] = 1 THEN doomed \ {s} ELSE doomed
  BY DEF EndRemoval, members
<1>2. PumpsAgree' /\ QueuedOnce'
  BY <1>1 DEF LinkInv, PumpsAgree, QueuedOnce
<1>3. DoomedIsDue'
  <2>1. ASSUME NEW t \in Sid PROVE t \in doomed' <=> Waiting(t)' + halfway'[t] > 0
    <3>1. Waiting(t)' = Waiting(t) /\ Waiting(t) \in Nat
      BY <1>1, WaitingSame, WaitingNat
    <3>2. /\ t \in doomed <=> Waiting(t) + halfway[t] > 0
          /\ halfway[t] \in Nat
          /\ halfway'[t] = IF t = s THEN halfway[t] - 1 ELSE halfway[t]
      BY <1>1 DEF LinkInv, DoomedIsDue, Types
    <3>3. t \in doomed' <=> t \in doomed /\ ~(t = s /\ Waiting(t) + halfway[t] = 1)
      BY <1>1
    <3>4. QED
      BY <1>1, <3>1, <3>2, <3>3
  <2>2. QED
    BY <2>1 DEF DoomedIsDue
<1>4. MidwayType'
  BY <1>1 DEF LinkInv, MidwayType
<1>5. QED
  BY <1>2, <1>3, <1>4 DEF LinkInv

\* A failed enqueue condemns the client, with a goroutine more unless the bound is reached.
LEMMA EnqueueLinks ==
    ASSUME Types, LinkInv, NEW s \in Sid, Enqueue(s)
    PROVE  LinkInv'
<1>1. /\ UNCHANGED <<conn, reader, writer, unregisterQ, pump, halfway, removing>>
      /\ targets' \subseteq targets
  BY DEF Enqueue, S!Enqueue, S!pumps, S!queues, members, midway
<1>2. CASE s \in open /\ buffer[s] < SendCap
  <2>1. buffer' # buffer /\ UNCHANGED doomed
    BY <1>2 DEF Enqueue, S!Enqueue, Types
  <2>2. UNCHANGED removals
    BY <2>1 DEF Enqueue, members
  <2>3. QED
    BY <1>1, <2>1, <2>2, LinksStutter DEF midway
<1>3. CASE ~(s \in open /\ buffer[s] < SendCap)
  <2>1. UNCHANGED buffer /\ doomed' = doomed \cup {s}
    BY <1>3 DEF Enqueue, S!Enqueue
  <2>2. \A t \in Sid : halfway[t] \in Nat /\ Waiting(t) \in Nat
    BY WaitingNat DEF Types
  <2>3. CASE Waiting(s) + halfway[s] >= MaxRemovals
    <3>1. UNCHANGED removals
      BY <2>3 DEF Enqueue, members
    <3>2. PumpsAgree' /\ QueuedOnce' /\ MidwayType'
      BY <1>1, <3>1 DEF LinkInv, PumpsAgree, QueuedOnce, MidwayType
    <3>3. ASSUME NEW t \in Sid PROVE t \in doomed' <=> Waiting(t)' + halfway'[t] > 0
      <4>1. Waiting(t)' = Waiting(t) /\ halfway'[t] = halfway[t]
        BY <1>1, <3>1, WaitingSame
      <4>2. t \in doomed <=> Waiting(t) + halfway[t] > 0
        BY DEF LinkInv, DoomedIsDue
      <4>3. Waiting(s) + halfway[s] > 0
        BY <2>2, <2>3, SizeAssumption
      <4>4. QED
        BY <2>1, <4>1, <4>2, <4>3
    <3>4. QED
      BY <3>2, <3>3 DEF LinkInv, DoomedIsDue
  <2>4. CASE ~(Waiting(s) + halfway[s] >= MaxRemovals)
    <3>1. removals' = [removals EXCEPT ![s] = @ + 1]
      BY <2>1, <2>4 DEF Enqueue
    <3>2. PumpsAgree' /\ QueuedOnce' /\ MidwayType'
      <4>1. \A t \in Sid : removals[t] > 0 => removals'[t] > 0
        BY <3>1 DEF Types
      <4>2. \A t \in ToSet(unregisterQ) : t \in Sid
        BY DEF Types, ToSet
      <4>3. QED
        BY <1>1, <4>1, <4>2 DEF LinkInv, PumpsAgree, QueuedOnce, MidwayType
    <3>3. ASSUME NEW t \in Sid PROVE t \in doomed' <=> Waiting(t)' + halfway'[t] > 0
      <4>1. /\ Waiting(t) = removals[t] - IF t \in ToSet(unregisterQ) THEN 1 ELSE 0
            /\ Waiting(t)' = removals'[t] - IF t \in ToSet(unregisterQ) THEN 1 ELSE 0
        BY <1>1, WaitingIs, WaitingNext DEF LinkInv, QueuedOnce, Types
      <4>2. /\ removals[t] \in Nat
            /\ removals'[t] = IF t = s THEN removals[t] + 1 ELSE removals[t]
        BY <3>1 DEF Types
      <4>3. Waiting(t)' = IF t = s THEN Waiting(t) + 1 ELSE Waiting(t)
        BY <4>1, <4>2
      <4>4. t \in doomed <=> Waiting(t) + halfway[t] > 0
        BY DEF LinkInv, DoomedIsDue
      <4>5. halfway'[t] = halfway[t] /\ halfway[t] \in Nat /\ Waiting(t) \in Nat
        BY <1>1, <2>2
      <4>6. QED
        BY <2>1, <4>3, <4>4, <4>5
    <3>4. QED
      BY <3>2, <3>3 DEF LinkInv, DoomedIsDue
  <2>5. QED
    BY <2>3, <2>4
<1>4. QED
  BY <1>2, <1>3

\* A session ends: it is queued for the first time, or gets a removal on a goroutine.
LEMMA ReadPumpExitLinks ==
    ASSUME Types, LinkInv, NEW s \in Sid, ReadPumpExit(s)
    PROVE  LinkInv'
<1>1. /\ reader[s] = "running" /\ conn[s] # "none"
      /\ reader' = [reader EXCEPT ![s] = "done"]
      /\ conn' = [conn EXCEPT ![s] = "closed"]
      /\ pump' = [pump EXCEPT ![s] = "exited"]
      /\ removals' = [removals EXCEPT ![s] = @ + 1]
      /\ UNCHANGED <<writer, targets, halfway, removing>>
  BY DEF ReadPumpExit, S!ReadPumpExit, C!ReadPumpExit, midway
<1>2. s \notin ToSet(unregisterQ)
  BY <1>1 DEF LinkInv, QueuedOnce
<1>3. PumpsAgree' /\ MidwayType'
  BY <1>1 DEF LinkInv, PumpsAgree, MidwayType, Types
<1>4. /\ unregisterQ' \in Seq(Sid) /\ IsInjective(unregisterQ')
      /\ \/ ToSet(unregisterQ') = ToSet(unregisterQ) \cup {s} /\ UNCHANGED doomed
         \/ ToSet(unregisterQ') = ToSet(unregisterQ) /\ doomed' = doomed \cup {s}
  <2>1. CASE Len(unregisterQ) < QueueCap
    <3>1. unregisterQ' = Append(unregisterQ, s) /\ UNCHANGED doomed
      BY <2>1 DEF ReadPumpExit, S!ReadPumpExit
    <3>2. QED
      BY <1>2, <3>1, SP!AppendFacts, SessionsAssumptions, SameSequenceOperators
         DEF LinkInv, QueuedOnce, Types
  <2>2. CASE ~(Len(unregisterQ) < QueueCap)
    <3>1. UNCHANGED unregisterQ /\ doomed' = doomed \cup {s}
      BY <2>2 DEF ReadPumpExit, S!ReadPumpExit
    <3>2. QED
      BY <3>1 DEF LinkInv, QueuedOnce, Types
  <2>3. QED
    BY <2>1, <2>2
<1>5. \A t \in Sid : removals[t] \in Nat /\ removals'[t] = IF t = s THEN removals[t] + 1 ELSE removals[t]
  BY <1>1 DEF Types
<1>6. QueuedOnce'
  <2>1. ASSUME NEW t \in ToSet(unregisterQ') PROVE reader'[t] = "done" /\ removals'[t] > 0
    <3>1. t \in Sid /\ (t = s \/ t \in ToSet(unregisterQ))
      <4>1. t \in Sid
        BY <1>4, <2>1 DEF ToSet
      <4>2. QED
        BY <1>4, <2>1, <4>1
    <3>2. t \in ToSet(unregisterQ) => reader[t] = "done" /\ removals[t] > 0
      BY DEF LinkInv, QueuedOnce
    <3>3. reader'[t] = IF t = s THEN "done" ELSE reader[t]
      BY <1>1, <3>1 DEF Types
    <3>4. QED
      BY <1>5, <3>1, <3>2, <3>3
  <2>2. QED
    BY <1>4, <2>1 DEF QueuedOnce
<1>7. DoomedIsDue'
  <2>1. ASSUME NEW t \in Sid PROVE t \in doomed' <=> Waiting(t)' + halfway'[t] > 0
    <3>1. Waiting(t) = removals[t] - IF t \in ToSet(unregisterQ) THEN 1 ELSE 0
      BY WaitingIs DEF LinkInv, QueuedOnce, Types
    <3>2. Waiting(t)' = removals'[t] - IF t \in ToSet(unregisterQ') THEN 1 ELSE 0
      BY <1>4, WaitingNext
    <3>3. t \in doomed <=> Waiting(t) + halfway[t] > 0
      BY DEF LinkInv, DoomedIsDue
    <3>4. halfway'[t] = halfway[t] /\ halfway[t] \in Nat /\ Waiting(t) \in Nat
      BY <1>1, WaitingNat DEF Types
    <3>5. CASE t # s
      BY <1>4, <1>5, <3>1, <3>2, <3>3, <3>4, <3>5
    <3>6. CASE t = s /\ ToSet(unregisterQ') = ToSet(unregisterQ) \cup {s} /\ UNCHANGED doomed
      <4>1. Waiting(t)' = Waiting(t)
        BY <1>2, <1>5, <3>1, <3>2, <3>6
      <4>2. QED
        BY <3>3, <3>4, <3>6, <4>1
    <3>7. CASE t = s /\ ToSet(unregisterQ') = ToSet(unregisterQ) /\ doomed' = doomed \cup {s}
      <4>1. Waiting(t)' = Waiting(t) + 1
        BY <1>2, <1>5, <3>1, <3>2, <3>7
      <4>2. QED
        BY <3>4, <3>7, <4>1
    <3>8. QED
      BY <1>4, <3>5, <3>6, <3>7
  <2>2. QED
    BY <2>1 DEF DoomedIsDue
<1>8. QED
  BY <1>3, <1>6, <1>7 DEF LinkInv

\* A session connects in both parts at once.
LEMMA HandleWSLinks ==
    ASSUME Types, LinkInv, NEW s \in Sid, HandleWS(s)
    PROVE  LinkInv'
<1>1. /\ conn[s] = "none"
      /\ conn' = [conn EXCEPT ![s] = "up"]
      /\ reader' = [reader EXCEPT ![s] = "running"]
      /\ writer' = [writer EXCEPT ![s] = "running"]
      /\ pump' = [pump EXCEPT ![s] = "reading"]
      /\ UNCHANGED <<targets, doomed, unregisterQ, removals, halfway, removing>>
  BY DEF HandleWS, S!HandleWS, C!Connect, S!traffic, midway
<1>2. PumpsAgree' /\ MidwayType'
  BY <1>1 DEF LinkInv, PumpsAgree, MidwayType, Types
<1>3. s \notin ToSet(unregisterQ)
  BY <1>1 DEF LinkInv, PumpsAgree, QueuedOnce
<1>4. QueuedOnce'
  <2>1. \A t \in ToSet(unregisterQ) : t \in Sid /\ reader'[t] = reader[t]
    BY <1>1, <1>3 DEF Types, ToSet
  <2>2. QED
    BY <1>1, <2>1 DEF LinkInv, QueuedOnce
<1>5. DoomedIsDue'
  BY <1>1, WaitingSame DEF LinkInv, DoomedIsDue
<1>6. QED
  BY <1>2, <1>4, <1>5 DEF LinkInv

LEMMA LinkStep == HubInv /\ [Next]_vars => LinkInv'
<1> SUFFICES ASSUME HubInv, [Next]_vars PROVE LinkInv'
  OBVIOUS
<1>1. Types /\ LinkInv
  BY Typed DEF HubInv
<1>2. \A s \in clients : s \in Sid /\ conn[s] # "none"
  BY ClientsHaveConnected
<1>3. \A s \in Sid : conn[s] = "none" => writer[s] = "none" /\ s \notin targets
  BY <1>1 DEF LinkInv, PumpsAgree
<1>4. ASSUME UNCHANGED <<sessions, midway, removals>>,
             \A s \in Sid : /\ pump'[s] = "offline" <=> pump[s] = "offline"
                            /\ pump'[s] = "exited" <=> pump[s] = "exited"
      PROVE  LinkInv'
  BY <1>1, <1>4, LinksStutter DEF sessions
<1>5. ASSUME UNCHANGED <<members, midway, reader, unregisterQ, doomed>>,
             \A s \in Sid : /\ conn'[s] = "none" <=> conn[s] = "none"
                            /\ writer'[s] = "none" <=> writer[s] = "none"
                            /\ s \in targets' => s \in targets \/ conn[s] # "none"
      PROVE  LinkInv'
  BY <1>1, <1>5, LinksStutter DEF members
<1>6. ASSUME NEW s \in Sid, Goroutine(s) PROVE LinkInv'
  <2>1. CASE MemberStep(C!JoinLeave(s)) \/ MemberStep(C!JoinEnter(s))
    BY <1>1, <1>4, <2>1 DEF MemberStep, C!JoinLeave, C!JoinEnter, Types
  <2>2. CASE SessionStep(S!QualityPing(s))
    BY <1>2, <1>5, <2>2 DEF SessionStep, S!QualityPing, S!pumps, S!queues
  <2>3. CASE SessionStep(S!CloseSend(s))
    BY <1>5, <2>3 DEF SessionStep, S!CloseSend, S!pumps, S!queues, S!traffic
  <2>4. CASE SessionStep(S!WriteNext(s)) \/ SessionStep(S!WriteClose(s)) \/ SessionStep(S!PingFails(s))
    <3>1. UNCHANGED <<members, midway, reader, unregisterQ, doomed, targets>>
      BY <2>4 DEF SessionStep, S!WriteNext, S!WriteClose, S!PingFails, S!queues, S!traffic
    <3>2. /\ writer[s] = "running"
          /\ \/ UNCHANGED <<conn, writer>>
             \/ conn' = [conn EXCEPT ![s] = "closed"] /\ writer' = [writer EXCEPT ![s] = "done"]
      BY <2>4 DEF SessionStep, S!WriteNext, S!WriteClose, S!PingFails
    <3>3. conn[s] # "none"
      BY <1>3, <3>2
    <3>4. \A t \in Sid : /\ conn'[t] = "none" <=> conn[t] = "none"
                         /\ writer'[t] = "none" <=> writer[t] = "none"
      BY <1>1, <3>2, <3>3 DEF Types
    <3>5. QED
      BY <1>5, <3>1, <3>4
  <2>5. CASE Enqueue(s)
    BY <1>1, <2>5, EnqueueLinks
  <2>6. CASE BeginRemoval(s)
    BY <1>1, <2>6, BeginRemovalLinks
  <2>7. CASE EndRemoval(s)
    BY <1>1, <2>7, EndRemovalLinks
  <2>8. QED
    BY <1>6, <2>1, <2>2, <2>3, <2>4, <2>5, <2>6, <2>7 DEF Goroutine
<1>7. ASSUME NEW s \in Sid, Environment(s) PROVE LinkInv'
  <2>1. CASE HandleWS(s)
    BY <1>1, <2>1, HandleWSLinks
  <2>2. CASE SessionStep(S!Lose(s))
    <3>1. UNCHANGED <<members, midway, reader, writer, unregisterQ, doomed, targets>>
      BY <2>2 DEF SessionStep, S!Lose, S!queues, S!traffic
    <3>2. \A t \in Sid : conn'[t] = "none" <=> conn[t] = "none"
      BY <1>1, <2>2 DEF SessionStep, S!Lose, Types
    <3>3. QED
      BY <1>5, <3>1, <3>2
  <2>3. CASE MemberStep(C!Leave(s))
    BY <1>4, <2>3 DEF MemberStep, C!Leave
  <2>4. ASSUME NEW q \in C!Request, NEW code \in Code,
               MemberStep(C!JoinAdmit(s, q, code) \/ C!JoinRefuse(s, q, code))
        PROVE  LinkInv'
    BY <1>1, <1>4, <2>4 DEF MemberStep, C!JoinAdmit, C!JoinRefuse, Types
  <2>5. QED
    BY <1>7, <2>1, <2>2, <2>3, <2>4 DEF Environment
<1>8. ASSUME NEW s \in Sid, ReadPumpExit(s) PROVE LinkInv'
  BY <1>1, <1>8, ReadPumpExitLinks
<1>9. ASSUME NEW recipients \in SUBSET clients, SessionStep(S!LookUp(recipients)) PROVE LinkInv'
  BY <1>2, <1>5, <1>9 DEF SessionStep, S!LookUp, S!pumps, S!queues
<1>10. CASE AddClient
  BY <1>5, <1>10 DEF AddClient, SessionStep, S!AddClient, S!pumps, S!traffic
<1>11. CASE SessionStep(S!Greet)
  BY <1>2, <1>5, <1>11 DEF SessionStep, S!Greet, S!pumps, S!queues
<1>12. CASE Unregister
  BY <1>1, <1>12, UnregisterLinks
<1>13. CASE Unregistered
  <2>1. UNCHANGED <<reader, conn, writer, targets, pump, unregisterQ, doomed, removals, halfway>>
    BY <1>13 DEF Unregistered, members
  <2>2. removing' = Nil
    BY <1>13 DEF Unregistered
  <2>3. DoomedIsDue'
    BY <1>1, <2>1, WaitingSame DEF LinkInv, DoomedIsDue
  <2>4. QED
    BY <1>1, <2>1, <2>2, <2>3 DEF LinkInv, PumpsAgree, QueuedOnce, MidwayType
<1>14. CASE CleanupExpiredChannels \/ MemberStep(C!Tick)
  BY <1>4, <1>14 DEF CleanupExpiredChannels, MemberStep, C!CleanupExpiredChannels, C!Tick
<1>15. CASE RunReturns
  BY <1>5, <1>15 DEF RunReturns, S!RunReturns, C!RunReturns, S!pumps, S!queues, S!traffic, members
<1>16. CASE Close
  <2>1. /\ UNCHANGED <<conn, reader, writer, targets, pump, unregisterQ, doomed, removals, midway>>
    BY <1>16 DEF Close, S!Close, C!Close, S!pumps, S!queues, S!traffic
  <2>2. QED
    BY <1>1, <2>1, LinksStutter
<1>17. CASE UNCHANGED vars
  BY <1>4, <1>17 DEF vars, members
<1>18. QED
  BY <1>6, <1>7, <1>8, <1>9, <1>10, <1>11, <1>12, <1>13, <1>14, <1>15, <1>16, <1>17 DEF Next
-----------------------------------------------------------------------------
(* The theorems.                                                           *)

\* A new hub satisfies the inductive invariant.
LEMMA HubInit == Init => HubInv
<1> SUFFICES ASSUME Init PROVE HubInv
  OBVIOUS
<1>1. SP!RegistryInv
  BY SP!RegistryInit, SessionsAssumptions DEF Init, S!Init, SP!Init
<1>2. CP!IInv
  BY CP!InvInit, ChannelsAssumptions DEF Init, C!Init, CP!Init
<1>3. unregisterQ = <<>> /\ IsInjective(unregisterQ) /\ ToSet(unregisterQ) = {}
  BY DEF Init, S!Init, IsInjective, ToSet
<1>4. PumpsAgree /\ QueuedOnce /\ MidwayType
  BY <1>3 DEF Init, S!Init, C!Init, PumpsAgree, QueuedOnce, MidwayType
<1>5. DoomedIsDue
  <2>1. ASSUME NEW s \in Sid PROVE s \notin doomed /\ Waiting(s) + halfway[s] = 0
    <3>1. Waiting(s) = removals[s] - IF s \in ToSet(unregisterQ) THEN 1 ELSE 0
      BY <1>3, WaitingIs
    <3>2. QED
      BY <1>3, <3>1 DEF Init, S!Init, C!Init
  <2>2. QED
    BY <2>1 DEF DoomedIsDue
<1>6. QED
  BY <1>1, <1>2, <1>4, <1>5 DEF HubInv, LinkInv

\* Every step preserves it.
LEMMA HubStep == HubInv /\ [Next]_vars => HubInv'
BY RegistryStep, ChannelsPart, LinkStep DEF HubInv

\* The inductive invariant holds in every reachable state.
LEMMA HubInductive == Spec => []HubInv
BY HubInit, HubStep, PTL DEF Spec

\* A session whose ReadPump is done and that is in a channel is in the unregister queue or has
\* a removeClient goroutine, whatever removals ran before its last join.
THEOREM SeatsAreFreed == Spec => []SeatHasRemover
<1>1. HubInv => SeatHasRemover
  <2> SUFFICES ASSUME HubInv, NEW s \in Sid, users[s] # Nil, reader[s] = "done"
               PROVE  s \in ToSet(unregisterQ) \cup doomed
    BY DEF SeatHasRemover
  <2>1. removals[s] > 0
    BY DEF HubInv, LinkInv, PumpsAgree, CP!IInv, CP!NoOrphanMember
  <2>2. CASE s \notin ToSet(unregisterQ)
    <3>1. Types /\ LinkInv
      BY Typed DEF HubInv
    <3>2. Waiting(s) = removals[s] - 0
      BY <2>2, <3>1, WaitingIs DEF LinkInv, QueuedOnce, Types
    <3>3. QED
      BY <2>1, <3>1, <3>2 DEF LinkInv, DoomedIsDue, Types
  <2>3. QED
    BY <2>2
<1>2. QED
  BY <1>1, HubInductive, PTL

\* Every behaviour of the hub is one of Channels: its queues, buffers, connections and two-step
\* removals only decide when a removal of Channels begins.
THEOREM HubImplementsChannels == Spec => ImplementsChannels
<1>1. Init => C!Init
  BY DEF Init
<1>2. QED
  BY <1>1, MembersStep, HubInductive, PTL DEF Spec, ImplementsChannels, C!Spec

\* With removeClient in two steps and all its callers, a Send channel is still closed at most
\* once and never while its client can be looked up (closeClientSend).
THEOREM HubClosesOnce == Spec => []S!ClosedAtMostOnce
<1>1. HubInv => S!ClosedAtMostOnce
  BY DEF HubInv, SP!RegistryInv, SP!ClosedAtMostOnce, S!ClosedAtMostOnce, SP!Queued, S!Queued,
         SP!ToSet, S!ToSet, SP!IsInjective, S!IsInjective
<1>2. QED
  BY <1>1, HubInductive, PTL

\* In the hub, too, no Send channel is open with nobody left to close it.
THEOREM HubLeaksNoChannel == Spec => []S!OpenHasCloser
<1>1. HubInv => S!OpenHasCloser
  BY DEF HubInv, SP!RegistryInv, SP!OpenHasCloser, S!OpenHasCloser, SP!Queued, S!Queued, SP!ToSet,
         S!ToSet
<1>2. QED
  BY <1>1, HubInductive, PTL

\* In the hub, too, no channel ever holds more than MaxRoomSize clients and membership agrees
\* with the users, whatever removals, registrations and shutdowns run between the sections.
THEOREM HubKeepsRooms == Spec => [](C!WithinCapacity /\ C!MembershipConsistent)
<1>1. HubInv => C!WithinCapacity /\ C!MembershipConsistent
  BY SameCardinality DEF HubInv, CP!IInv, CP!WithinCapacity, C!WithinCapacity,
                         CP!MembershipConsistent, C!MembershipConsistent
<1>2. QED
  BY <1>1, HubInductive, PTL
-----------------------------------------------------------------------------
(* Who is left behind.                                                     *)

\* A pump that ends takes the connection with it, so that the other one ends too.
PumpsEndTogether ==
    \A s \in Sid : /\ conn[s] = "none" <=> writer[s] = "none"
                   /\ reader[s] = "done" \/ writer[s] = "done" => conn[s] = "closed"

\* Only connecting, the pumps and the network change what this is about.
LEMMA PumpsStep == HubInv /\ PumpsEndTogether /\ [Next]_vars => PumpsEndTogether'
<1> SUFFICES ASSUME HubInv, PumpsEndTogether, [Next]_vars PROVE PumpsEndTogether'
  OBVIOUS
<1>1. Types /\ PumpsAgree
  BY Typed DEF HubInv, LinkInv
<1>2. ASSUME UNCHANGED <<conn, reader, writer>> PROVE PumpsEndTogether'
  BY <1>2 DEF PumpsEndTogether
<1>3. ASSUME NEW s \in Sid, HandleWS(s) PROVE PumpsEndTogether'
  BY <1>1, <1>3 DEF HandleWS, S!HandleWS, PumpsEndTogether, PumpsAgree, Types
<1>4. ASSUME NEW s \in Sid,
             \/ SessionStep(S!WriteNext(s)) \/ SessionStep(S!WriteClose(s))
             \/ SessionStep(S!PingFails(s))
      PROVE  PumpsEndTogether'
  <2>1. /\ writer[s] = "running" /\ UNCHANGED reader
        /\ \/ UNCHANGED <<conn, writer>>
           \/ conn' = [conn EXCEPT ![s] = "closed"] /\ writer' = [writer EXCEPT ![s] = "done"]
    BY <1>4 DEF SessionStep, S!WriteNext, S!WriteClose, S!PingFails
  <2>2. QED
    BY <1>1, <2>1 DEF PumpsEndTogether, Types
<1>5. ASSUME NEW s \in Sid, SessionStep(S!Lose(s)) PROVE PumpsEndTogether'
  BY <1>1, <1>5 DEF SessionStep, S!Lose, PumpsEndTogether, Types
<1>6. ASSUME NEW s \in Sid, ReadPumpExit(s) PROVE PumpsEndTogether'
  BY <1>1, <1>6 DEF ReadPumpExit, S!ReadPumpExit, PumpsEndTogether, Types
<1>7. ASSUME NEW s \in Sid, Goroutine(s) PROVE PumpsEndTogether'
  <2>1. CASE Enqueue(s) \/ EndRemoval(s)
    BY <1>2, <2>1 DEF Enqueue, S!Enqueue, S!pumps, EndRemoval
  <2>2. CASE BeginRemoval(s) \/ MemberStep(C!JoinLeave(s)) \/ MemberStep(C!JoinEnter(s))
    BY <1>2, <2>2 DEF BeginRemoval, MemberStep, sessions
  <2>3. CASE SessionStep(S!QualityPing(s)) \/ SessionStep(S!CloseSend(s))
    BY <1>2, <2>3 DEF SessionStep, S!QualityPing, S!CloseSend, S!pumps
  <2>4. QED
    BY <1>4, <1>7, <2>1, <2>2, <2>3 DEF Goroutine
<1>8. ASSUME NEW s \in Sid, Environment(s) PROVE PumpsEndTogether'
  <2>1. CASE HandleWS(s) \/ SessionStep(S!Lose(s))
    BY <1>3, <1>5, <2>1
  <2>2. CASE UNCHANGED sessions
    BY <1>2, <2>2 DEF sessions
  <2>3. QED
    BY <1>8, <2>1, <2>2 DEF Environment, MemberStep
<1>9. CASE \/ AddClient \/ SessionStep(S!Greet)
           \/ \E recipients \in SUBSET clients : SessionStep(S!LookUp(recipients))
  BY <1>2, <1>9 DEF AddClient, SessionStep, S!AddClient, S!Greet, S!LookUp, S!pumps
<1>10. CASE Unregister \/ Unregistered
  BY <1>2, <1>10 DEF Unregister, Unregistered
<1>11. CASE RunReturns \/ Close
  BY <1>2, <1>11 DEF RunReturns, Close, S!RunReturns, S!Close, S!pumps
<1>12. CASE CleanupExpiredChannels \/ MemberStep(C!Tick) \/ UNCHANGED vars
  BY <1>2, <1>12 DEF CleanupExpiredChannels, MemberStep, sessions, vars
<1>13. QED
  BY <1>6, <1>7, <1>8, <1>9, <1>10, <1>11, <1>12 DEF Next

\* A session seated without being a client is registering or on its way out, for any number of
\* sessions and channels and however many removals overtake its join: the safety that
\* MembersAreClients rests on.
THEOREM NobodyIsStranded == Spec => []OutsidersMoveOn
<1>1. Init => PumpsEndTogether /\ CP!OfflineHoldsNoSeat
  BY DEF Init, S!Init, C!Init, PumpsEndTogether, CP!OfflineHoldsNoSeat
<1>2. HubInv /\ PumpsEndTogether /\ CP!OfflineHoldsNoSeat /\ SeatHasRemover => OutsidersMoveOn
  <2> SUFFICES ASSUME HubInv, PumpsEndTogether, CP!OfflineHoldsNoSeat, SeatHasRemover, NEW s \in Sid,
                      users[s] # Nil, s \notin clients,
                      s \notin ToSet(registerQ) \cup closing,
                      s \notin ToSet(unregisterQ) \cup doomed
               PROVE  \/ s \notin open /\ writer[s] = "running"
                      \/ conn[s] = "closed" /\ reader[s] = "running"
    BY DEF OutsidersMoveOn
  <2>1. Types /\ PumpsAgree
    BY Typed DEF HubInv, LinkInv
  <2>2. s \notin open
    BY SameSequenceOperators DEF HubInv, SP!RegistryInv, SP!OpenHasCloser, SP!Queued
  <2>3. conn[s] # "none"
    BY <2>1 DEF CP!OfflineHoldsNoSeat, PumpsAgree
  <2>4. reader[s] = "running"
    BY <2>1, <2>3 DEF SeatHasRemover, PumpsAgree, Types
  <2>5. writer[s] = "running" \/ conn[s] = "closed"
    BY <2>1, <2>3 DEF PumpsEndTogether, Types
  <2>6. QED
    BY <2>2, <2>4, <2>5
<1>3. HubInv /\ CP!OfflineHoldsNoSeat /\ [Next]_vars => CP!OfflineHoldsNoSeat'
  BY MembersStep, ChannelsStep, CP!OfflineStep, ChannelsAssumptions DEF HubInv
<1>4. QED
  BY <1>1, <1>2, <1>3, PumpsStep, HubInductive, SeatsAreFreed, PTL DEF Spec
-----------------------------------------------------------------------------
(* What the hub inherits from its parts.                                   *)

\* In the hub, too, every client in the map has a qualityLoop, or addClient is about to start it:
\* nobody stays in the map with nothing to notice that its connection is dead.
THEOREM HubWatchesClients == Spec => []S!EveryClientWatched
<1>1. HubInv => S!EveryClientWatched
  BY DEF HubInv, SP!RegistryInv, SP!EveryClientWatched, S!EveryClientWatched, SP!Queued, S!Queued,
         SP!ToSet, S!ToSet
<1>2. QED
  BY <1>1, HubInductive, PTL

\* In the hub, too, the sweep finds no channel with somebody in it, every empty channel is on the
\* clock or awaited, secrets go with privacy, and a seat without a ReadPump has a removal due.
THEOREM HubKeepsChannels ==
    Spec => [](C!OccupiedChannelListed /\ C!EmptyChannelOnClock /\ C!SecretsMatchPrivacy /\ C!NoOrphanMember)
<1>1. HubInv => C!OccupiedChannelListed /\ C!EmptyChannelOnClock /\ C!SecretsMatchPrivacy /\ C!NoOrphanMember
  BY DEF HubInv, CP!IInv, CP!OccupiedChannelListed, C!OccupiedChannelListed, CP!EmptyChannelOnClock,
         C!EmptyChannelOnClock, CP!SecretsMatchPrivacy, C!SecretsMatchPrivacy, CP!NoOrphanMember,
         C!NoOrphanMember
<1>2. QED
  BY <1>1, HubInductive, PTL

\* In the hub, too, a listed channel keeps its owner, its privacy and its code, and nothing but
\* somebody's entering stops its clock.
THEOREM HubKeepsIdentity == Spec => C!ChannelIdentityStable /\ C!EmptyClockRuns
<1>1. HubInv /\ [Next]_vars =>
        [\A r \in Room : channels[r] # Nil /\ channels'[r] # Nil =>
            /\ channels[r].owner # Nil => channels'[r].owner = channels[r].owner
            /\ channels[r].private => channels'[r].private /\ channels'[r].code = channels[r].code]_(C!vars)
  BY MembersStep, ChannelsStep, CP!IdentityStep, ChannelsAssumptions DEF HubInv
<1>2. HubInv /\ [Next]_vars =>
        [\A r \in Room :
            channels[r] # Nil /\ channels[r].emptyFor # Nil /\ channels'[r] # Nil /\ rooms'[r] = {}
                => channels'[r].emptyFor # Nil /\ channels'[r].emptyFor >= channels[r].emptyFor]_(C!vars)
  BY MembersStep, ChannelsStep, CP!ClockStep, ChannelsAssumptions DEF HubInv
<1>3. QED
  BY <1>1, <1>2, HubInductive, PTL DEF Spec, C!ChannelIdentityStable, C!EmptyClockRuns

\* The directory Channels implements is the one its proofs are about.
LEMMA SameDirectory == [CP!D!Next]_(CP!D!vars) => [C!D!Next]_(C!D!vars)
BY DEF CP!D!vars, C!D!vars, CP!D!Next, C!D!Next, CP!D!Exit, C!D!Exit, CP!D!Enter, C!D!Enter,
       CP!D!Create, C!D!Create, CP!D!Expire, C!D!Expire, CP!D!Reset, C!D!Reset, CP!D!Members,
       C!D!Members, CP!D!Cardinality, C!D!Cardinality

\* Through the queues, buffers and two-step removals of the hub, too, sessions step in and out of
\* channels one seat at a time, as Directory says.
THEOREM HubImplementsDirectory == Spec => C!ImplementsDirectory
<1>1. Init => C!D!Init
  BY DEF Init, C!Init, C!D!Init
<1>2. HubInv /\ [Next]_vars => [C!D!Next]_(C!D!vars)
  BY MembersStep, ChannelsStep, CP!DirectoryStep, ChannelsAssumptions, SameDirectory DEF HubInv
<1>3. QED
  BY <1>1, <1>2, HubInductive, PTL DEF Spec, C!ImplementsDirectory, C!D!Spec
=============================================================================
