--------------------------- MODULE ChannelsProofs ---------------------------
(***************************************************************************)
(* Theorems about Channels for every value of its constants: type          *)
(* correctness, the safety invariants the runs check on small instances,   *)
(* the action property, and that Channels implements Directory.            *)
(*                                                                         *)
(* The inductive invariant IInv joins the safety invariants with two facts *)
(* none of them states: which pump states are inside handleJoin, and that  *)
(* the member sets are finite (so that counting them means something).     *)
(***************************************************************************)
EXTENDS Channels, FiniteSetTheorems, TLAPS

\* The locals of handleJoin exist exactly while the goroutine is between its sections.
JoinLocals == \A s \in Sid : pump[s] \in {"leaving", "entering"} <=> join[s] # Nil

RoomsFinite == \A r \in Room : IsFiniteSet(rooms[r])

TInv == TypeOK /\ JoinLocals

IInv ==
    /\ TInv
    /\ RoomsFinite
    /\ MembershipConsistent
    /\ WithinCapacity
    /\ OccupiedChannelListed
    /\ EmptyChannelOnClock
    /\ SecretsMatchPrivacy
    /\ NoOrphanMember
    /\ EnteringHoldsNoSeat
-----------------------------------------------------------------------------
(* What the operators on channel records return.                           *)

\* Nil is none of the values it is the absence of.
LEMMA NilIsNothing ==
    /\ Nil \notin Sid /\ Nil \notin Room /\ Nil \notin Pin /\ Nil \notin Code
    /\ Nil \notin Nat /\ Nil \notin Channel /\ Nil \notin Join
BY NilAssumption

\* touchChannelLocked returns a channel that is off the clock and otherwise unchanged.
LEMMA TouchedFacts ==
    ASSUME NEW ch \in Channel \cup {Nil}
    PROVE  /\ Touched(ch) \in Channel
           /\ Touched(ch).emptyFor = Nil
           /\ ch # Nil => Touched(ch) = [ch EXCEPT !.emptyFor = Nil]
           /\ ch = Nil => /\ ~Touched(ch).private /\ Touched(ch).owner = Nil
                          /\ Touched(ch).code = Nil /\ Touched(ch).pin = Nil
BY NilIsNothing DEF Touched, NewChannel, Channel

\* markChannelEmptyLocked returns a channel that is on the clock.
LEMMA MarkedEmptyFacts ==
    ASSUME NEW ch \in Channel \cup {Nil}
    PROVE  /\ MarkedEmpty(ch) \in Channel
           /\ MarkedEmpty(ch).emptyFor # Nil
           /\ ch # Nil => /\ MarkedEmpty(ch).private = ch.private
                          /\ MarkedEmpty(ch).owner = ch.owner
                          /\ MarkedEmpty(ch).code = ch.code
                          /\ MarkedEmpty(ch).pin = ch.pin
           /\ ch = Nil => /\ ~MarkedEmpty(ch).private /\ MarkedEmpty(ch).owner = Nil
                          /\ MarkedEmpty(ch).code = Nil /\ MarkedEmpty(ch).pin = Nil
<1>1. 0 \in 0 .. EmptyTTL /\ 0 # Nil
  BY TTLAssumption, NilIsNothing
<1>2. CASE ch = Nil
  BY <1>1, <1>2, NilIsNothing DEF MarkedEmpty, NewChannel, Channel
<1>3. CASE ch # Nil
  <2>1. ch \in Channel
    BY <1>3
  <2>2. MarkedEmpty(ch) = [ch EXCEPT !.emptyFor = IF ch.emptyFor = Nil THEN 0 ELSE ch.emptyFor]
    BY <1>3 DEF MarkedEmpty
  <2>3. QED
    BY <1>1, <1>3, <2>1, <2>2 DEF Channel
<1>4. QED
  BY <1>2, <1>3

\* The clock advances the age of one channel.
Aged(ch) == [ch EXCEPT !.emptyFor = IF @ = Nil \/ @ = EmptyTTL THEN @ ELSE @ + 1]

\* A tick of the clock leaves a channel a channel, on the clock or off it as it was, with the
\* same owner, privacy and secrets.
LEMMA AgedFacts ==
    ASSUME NEW ch \in Channel
    PROVE  /\ Aged(ch) \in Channel
           /\ Aged(ch).emptyFor = Nil <=> ch.emptyFor = Nil
           /\ Aged(ch).private = ch.private /\ Aged(ch).owner = ch.owner
           /\ Aged(ch).code = ch.code /\ Aged(ch).pin = ch.pin
<1>1. ch.emptyFor \in 0 .. EmptyTTL \/ ch.emptyFor = Nil
  BY DEF Channel
<1>2. ch.emptyFor # Nil /\ ch.emptyFor # EmptyTTL => ch.emptyFor + 1 \in 0 .. EmptyTTL
  BY <1>1, TTLAssumption
<1>3. \A n \in 0 .. EmptyTTL : n # Nil
  BY NilIsNothing, TTLAssumption
<1>4. QED
  BY <1>1, <1>2, <1>3 DEF Aged, Channel

\* What SecretsMatchPrivacy says of one channel, but for its owner.
Sealed(ch) == IF ch.private THEN ch.code # Nil ELSE ch.code = Nil /\ ch.pin = Nil

\* Claiming sets the owner of an unowned channel and nothing else.
LEMMA ClaimedFacts ==
    ASSUME NEW ch \in Channel, NEW s \in Sid
    PROVE  /\ Claimed(ch, s) \in Channel
           /\ Claimed(ch, s).owner # Nil
           /\ ch.owner # Nil => Claimed(ch, s).owner = ch.owner
           /\ Claimed(ch, s).private = ch.private
           /\ Claimed(ch, s).code = ch.code
           /\ Claimed(ch, s).pin = ch.pin
           /\ Claimed(ch, s).emptyFor = ch.emptyFor
BY NilIsNothing DEF Claimed, Channel

\* A private channel keeps its code; one that becomes private gets one.
LEMMA MadePrivateFacts ==
    ASSUME NEW ch \in Channel, NEW q \in Request, NEW code \in Code, Sealed(ch)
    PROVE  /\ MadePrivate(ch, q, code) \in Channel
           /\ MadePrivate(ch, q, code).owner = ch.owner
           /\ MadePrivate(ch, q, code).emptyFor = ch.emptyFor
           /\ ch.private => MadePrivate(ch, q, code) = ch
           /\ Sealed(MadePrivate(ch, q, code))
<1>1. CASE q.private /\ ~ch.private
  <2>1. MadePrivate(ch, q, code) = [ch EXCEPT !.private = TRUE, !.code = code]
    BY <1>1 DEF MadePrivate
  <2>2. code # Nil
    BY NilIsNothing
  <2>3. QED
    BY <1>1, <2>1, <2>2 DEF Channel, Sealed
<1>2. CASE ~(q.private /\ ~ch.private)
  BY <1>2 DEF MadePrivate
<1>3. QED
  BY <1>1, <1>2

\* Setting the PIN touches a private channel only, and only its PIN.
LEMMA WithPinFacts ==
    ASSUME NEW ch \in Channel, NEW q \in Request, Sealed(ch)
    PROVE  /\ WithPin(ch, q) \in Channel
           /\ WithPin(ch, q).owner = ch.owner
           /\ WithPin(ch, q).emptyFor = ch.emptyFor
           /\ WithPin(ch, q).private = ch.private
           /\ WithPin(ch, q).code = ch.code
           /\ Sealed(WithPin(ch, q))
<1>1. CASE ch.private /\ q.pin # Nil
  <2>1. WithPin(ch, q) = [ch EXCEPT !.pin = q.pin]
    BY <1>1 DEF WithPin
  <2>2. QED
    BY <1>1, <2>1 DEF Channel, Request, Sealed
<1>2. CASE ~(ch.private /\ q.pin # Nil)
  BY <1>2 DEF WithPin
<1>3. QED
  BY <1>1, <1>2

\* prepareChannelJoinLocked returns a channel, whatever it finds.
LEMMA PreparedType ==
    ASSUME NEW ch \in Channel \cup {Nil}, NEW s \in Sid, NEW q \in Request, NEW code \in Code
    PROVE  Prepared(ch, s, q, code) \in Channel
<1>1. Created(s, q, code) \in Channel
  BY DEF Created, NewChannel, Channel, Request
<1>2. \A c \in Channel : Claimed(c, s) \in Channel
  BY DEF Claimed, Channel
<1>3. \A c \in Channel : MadePrivate(c, q, code) \in Channel
  BY DEF MadePrivate, Channel
<1>4. \A c \in Channel : WithPin(c, q) \in Channel
  BY DEF WithPin, Channel, Request
<1>5. QED
  BY <1>1, <1>2, <1>3, <1>4 DEF Prepared

\* prepareChannelJoinLocked returns an owned channel whose clock, owner and code are the
\* old ones where it had them, and whose secrets match its privacy.
LEMMA PreparedFacts ==
    ASSUME NEW ch \in Channel \cup {Nil}, NEW s \in Sid, NEW q \in Request, NEW code \in Code,
           ch # Nil => Sealed(ch)
    PROVE  /\ Prepared(ch, s, q, code) \in Channel
           /\ Prepared(ch, s, q, code).owner # Nil
           /\ Sealed(Prepared(ch, s, q, code))
           /\ ch = Nil => /\ Prepared(ch, s, q, code).owner = s
                          /\ Prepared(ch, s, q, code).emptyFor = Nil
           /\ ch # Nil => Prepared(ch, s, q, code).emptyFor = ch.emptyFor
           /\ ch # Nil /\ ch.owner # Nil => Prepared(ch, s, q, code).owner = ch.owner
           /\ ch # Nil /\ ch.private => /\ Prepared(ch, s, q, code).private
                                        /\ Prepared(ch, s, q, code).code = ch.code
<1>1. CASE ch = Nil
  <2>1. Prepared(ch, s, q, code) = Created(s, q, code)
    BY <1>1 DEF Prepared
  <2>2. QED
    BY <1>1, <2>1, NilIsNothing DEF Created, NewChannel, Channel, Request, Sealed
<1>2. CASE ch # Nil
  <2> DEFINE c1 == Claimed(ch, s)
             c2 == MadePrivate(c1, q, code)
             c3 == WithPin(c2, q)
  <2>1. ch \in Channel /\ Sealed(ch)
    BY <1>2
  <2>2. /\ c1 \in Channel /\ c1.owner # Nil /\ Sealed(c1)
        /\ ch.owner # Nil => c1.owner = ch.owner
        /\ c1.private = ch.private /\ c1.code = ch.code /\ c1.emptyFor = ch.emptyFor
    BY <2>1, ClaimedFacts DEF Sealed
  <2>3. /\ c2 \in Channel /\ c2.owner = c1.owner /\ c2.emptyFor = c1.emptyFor /\ Sealed(c2)
        /\ c1.private => c2 = c1
    BY <2>2, MadePrivateFacts
  <2>4. /\ c3 \in Channel /\ c3.owner = c2.owner /\ c3.emptyFor = c2.emptyFor /\ Sealed(c3)
        /\ c3.private = c2.private /\ c3.code = c2.code
    BY <2>3, WithPinFacts
  <2>5. \/ Prepared(ch, s, q, code) = c3
        \/ Prepared(ch, s, q, code) = ch /\ ch.owner # Nil
    <3>1. CASE c1.owner = s
      BY <1>2, <3>1 DEF Prepared
    <3>2. CASE c1.owner # s
      BY <1>2, <3>2, NilIsNothing DEF Prepared, Claimed, Channel
    <3>3. QED
      BY <3>1, <3>2
  <2> HIDE DEF c1, c2, c3
  <2>6. QED
    BY <1>2, <2>1, <2>2, <2>3, <2>4, <2>5
<1>3. QED
  BY <1>1, <1>2
-----------------------------------------------------------------------------
(* Type correctness.                                                       *)

\* leaveNoBroadcast forgets the user and keeps the three maps well-typed.
LEMMA LeaveRoomType ==
    ASSUME TypeOK, NEW s \in Sid, LeaveRoom(s)
    PROVE  /\ users' \in [Sid -> Room \cup {Nil}]
           /\ rooms' \in [Room -> SUBSET Sid]
           /\ channels' \in [Room -> Channel \cup {Nil}]
           /\ users' = [users EXCEPT ![s] = Nil]
<1>1. CASE users[s] = Nil
  BY <1>1 DEF LeaveRoom, TypeOK
<1>2. CASE users[s] # Nil
  <2>1. users[s] \in Room /\ channels[users[s]] \in Channel \cup {Nil}
    BY <1>2 DEF TypeOK
  <2>2. /\ MarkedEmpty(channels[users[s]]) \in Channel
        /\ Touched(channels[users[s]]) \in Channel
    BY <2>1, MarkedEmptyFacts, TouchedFacts
  <2>3. QED
    BY <1>2, <2>1, <2>2 DEF LeaveRoom, TypeOK
<1>3. QED
  BY <1>1, <1>2

\* A new hub is well-typed and has no handleJoin call under way.
LEMMA TypeInit == Init => TInv
<1> SUFFICES ASSUME Init PROVE TInv
  OBVIOUS
<1>1. /\ users \in [Sid -> Room \cup {Nil}] /\ rooms \in [Room -> SUBSET Sid]
      /\ channels \in [Room -> Channel \cup {Nil}] /\ join \in [Sid -> Join \cup {Nil}]
      /\ running \in BOOLEAN /\ closed \in BOOLEAN
  BY DEF Init
<1>2. pump \in [Sid -> PumpState] /\ removals \in [Sid -> Nat]
  BY DEF Init, PumpState
<1>3. JoinLocals
  BY DEF Init, JoinLocals
<1>4. QED
  BY <1>1, <1>2, <1>3 DEF TInv, TypeOK

\* Every step keeps the types and the handleJoin locals where they belong.
LEMMA TypeStep == TInv /\ [Next]_vars => TInv'
<1> SUFFICES ASSUME TInv, [Next]_vars PROVE TInv'
  OBVIOUS
<1> USE DEF TInv
<1>1. ASSUME NEW s \in Sid, NEW q \in Request, NEW code \in Code, JoinAdmit(s, q, code)
      PROVE  TInv'
  <2> DEFINE j == [room |-> q.room, private |-> q.private, pin |-> q.pin, code |-> q.code,
                   alreadyMember |-> s \in rooms[q.room]]
  <2>1. q.room \in Room /\ channels[q.room] \in Channel \cup {Nil} /\ j \in Join
    BY DEF Request, Join, TypeOK
  <2>2. Prepared(channels[q.room], s, q, code) \in Channel
    BY <2>1, PreparedType
  <2>3. channels' \in [Room -> Channel \cup {Nil}]
    BY <1>1, <2>1, <2>2 DEF JoinAdmit, TypeOK
  <2>4. join' = [join EXCEPT ![s] = j] /\ pump' = [pump EXCEPT ![s] = "leaving"]
    BY <1>1 DEF JoinAdmit
  <2> HIDE DEF j
  <2>5. TypeOK'
    BY <1>1, <2>1, <2>3, <2>4 DEF JoinAdmit, TypeOK, PumpState
  <2>6. JoinLocals'
    BY <2>1, <2>4, NilIsNothing DEF JoinLocals, TypeOK
  <2>7. QED
    BY <2>5, <2>6
<1>2. ASSUME NEW s \in Sid, NEW q \in Request, NEW code \in Code, JoinRefuse(s, q, code)
      PROVE  TInv'
  <2>1. q.room \in Room /\ channels[q.room] \in Channel \cup {Nil}
    BY DEF Request, TypeOK
  <2>2. Prepared(channels[q.room], s, q, code) \in Channel
    BY <2>1, PreparedType
  <2>3. QED
    BY <1>2, <2>1, <2>2 DEF JoinRefuse, TypeOK, JoinLocals
<1>3. ASSUME NEW s \in Sid, JoinLeave(s) PROVE TInv'
  BY <1>3, LeaveRoomType DEF JoinLeave, TypeOK, JoinLocals, PumpState
<1>4. ASSUME NEW s \in Sid, JoinEnter(s) PROVE TInv'
  <2>1. join[s] \in Join
    BY <1>4 DEF JoinEnter, JoinLocals, TypeOK
  <2>2. join[s].room \in Room
    BY <2>1 DEF Join
  <2>3. Touched(channels[join[s].room]) \in Channel
    BY <2>2, TouchedFacts DEF TypeOK
  <2>4. /\ users' \in [Sid -> Room \cup {Nil}]
        /\ rooms' \in [Room -> SUBSET Sid]
        /\ channels' \in [Room -> Channel \cup {Nil}]
    BY <1>4, <2>2, <2>3 DEF JoinEnter, EnterRoom, TypeOK
  <2>5. QED
    BY <1>4, <2>4 DEF JoinEnter, TypeOK, JoinLocals, PumpState
<1>5. ASSUME NEW s \in Sid, Connect(s) PROVE TInv'
  BY <1>5 DEF Connect, TypeOK, JoinLocals, PumpState
<1>6. ASSUME NEW s \in Sid, Leave(s) PROVE TInv'
  BY <1>6, LeaveRoomType DEF Leave, TypeOK, JoinLocals
<1>7. ASSUME NEW s \in Sid, ReadPumpExit(s) PROVE TInv'
  BY <1>7 DEF ReadPumpExit, TypeOK, JoinLocals, PumpState
<1>8. ASSUME NEW s \in Sid, SlowConsumer(s) PROVE TInv'
  BY <1>8 DEF SlowConsumer, TypeOK, JoinLocals
<1>9. ASSUME NEW s \in Sid, RemoveClient(s) PROVE TInv'
  <2>1. removals[s] - 1 \in Nat
    BY <1>9 DEF RemoveClient, TypeOK
  <2>2. QED
    BY <1>9, <2>1, LeaveRoomType DEF RemoveClient, TypeOK, JoinLocals
<1>10. CASE Tick
  <2>1. \A r \in Room : channels[r] # Nil => Aged(channels[r]) \in Channel
    BY AgedFacts DEF TypeOK
  <2>2. channels' = [r \in Room |-> IF channels[r] = Nil THEN Nil ELSE Aged(channels[r])]
    BY <1>10 DEF Tick, Aged
  <2>3. QED
    BY <1>10, <2>1, <2>2 DEF Tick, TypeOK, JoinLocals
<1>11. CASE CleanupExpiredChannels
  BY <1>11 DEF CleanupExpiredChannels, TypeOK, JoinLocals
<1>12. CASE RunReturns
  BY <1>12 DEF RunReturns, TypeOK, JoinLocals
<1>13. CASE Close
  BY <1>13 DEF Close, TypeOK, JoinLocals
<1>14. CASE UNCHANGED vars
  BY <1>14 DEF vars, TypeOK, JoinLocals
<1>15. QED
  BY <1>1, <1>2, <1>3, <1>4, <1>5, <1>6, <1>7, <1>8, <1>9, <1>10, <1>11, <1>12, <1>13, <1>14
     DEF Next

\* Every variable keeps its type in every reachable state, for any number of sessions,
\* channels, PINs and codes.
THEOREM TypeCorrect == Spec => []TypeOK
<1>1. TInv => TypeOK
  BY DEF TInv
<1>2. QED
  BY <1>1, TypeInit, TypeStep, PTL DEF Spec
-----------------------------------------------------------------------------
(* The three maps: seats, and the channels they are in.                    *)

\* The part of the invariant that speaks of users, rooms and channels only.
MapsInv ==
    /\ RoomsFinite
    /\ MembershipConsistent
    /\ WithinCapacity
    /\ OccupiedChannelListed
    /\ SecretsMatchPrivacy

\* leaveNoBroadcast gives up every seat of the session, leaves a channel on the clock when
\* the last member goes, and unlists nothing.
LEMMA LeaveRoomFacts ==
    ASSUME IInv, NEW s \in Sid, LeaveRoom(s)
    PROVE  /\ MapsInv'
           /\ \A r \in Room : rooms'[r] \subseteq rooms[r] /\ s \notin rooms'[r]
           /\ \A r \in Room : channels'[r] # Nil <=> channels[r] # Nil
           /\ \A r \in Room : channels'[r] # Nil /\ rooms'[r] = {} /\ channels'[r].emptyFor = Nil
                  => rooms[r] = {} /\ channels[r].emptyFor = Nil
           /\ \A r \in Room : channels[r] # Nil => /\ channels'[r].owner = channels[r].owner
                                                 /\ channels'[r].private = channels[r].private
                                                 /\ channels'[r].code = channels[r].code
<1> USE DEF IInv, TInv
<1>1. CASE users[s] = Nil
  <2>1. UNCHANGED <<users, rooms, channels>>
    BY <1>1 DEF LeaveRoom
  <2>2. \A r \in Room : s \notin rooms[r]
    BY <1>1, NilIsNothing DEF MembershipConsistent
  <2>3. MapsInv'
    BY <2>1 DEF MapsInv, RoomsFinite, MembershipConsistent, WithinCapacity,
                OccupiedChannelListed, SecretsMatchPrivacy
  <2>4. QED
    BY <2>1, <2>2, <2>3
<1>2. CASE users[s] # Nil
  <2> DEFINE r0 == users[s]
             ch == channels[r0]
             new == IF rooms[r0] \ {s} = {} THEN MarkedEmpty(ch) ELSE Touched(ch)
  <2>1. r0 \in Room /\ s \in rooms[r0]
    BY <1>2 DEF TypeOK, MembershipConsistent
  <2>2. ch \in Channel /\ ch # Nil /\ ch.emptyFor = Nil
    BY <2>1, NilIsNothing DEF TypeOK, OccupiedChannelListed
  <2>3. /\ users' = [users EXCEPT ![s] = Nil]
        /\ rooms' = [rooms EXCEPT ![r0] = @ \ {s}]
        /\ channels' = [channels EXCEPT ![r0] = new]
    BY <1>2, <2>1 DEF LeaveRoom
  <2>4. /\ new \in Channel /\ new # Nil
        /\ new.owner = ch.owner /\ new.private = ch.private
        /\ new.code = ch.code /\ new.pin = ch.pin
        /\ rooms[r0] \ {s} = {} => new.emptyFor # Nil
        /\ rooms[r0] \ {s} # {} => new.emptyFor = Nil
    <3>1. Touched(ch) = [ch EXCEPT !.emptyFor = Nil]
      BY <2>2, TouchedFacts
    <3>2. CASE rooms[r0] \ {s} = {}
      BY <2>2, <3>2, MarkedEmptyFacts, NilIsNothing
    <3>3. CASE rooms[r0] \ {s} # {}
      BY <2>2, <3>1, <3>3, TouchedFacts, NilIsNothing DEF Channel
    <3>4. QED
      BY <3>2, <3>3
  <2> HIDE DEF new
  <2>5. /\ \A r \in Room : r # r0 => rooms'[r] = rooms[r] /\ channels'[r] = channels[r]
        /\ rooms'[r0] = rooms[r0] \ {s}
        /\ channels'[r0] = new
    BY <2>1, <2>3 DEF TypeOK
  <2>6. \A r \in Room : rooms'[r] \subseteq rooms[r]
    BY <2>5
  <2>7. RoomsFinite'
    BY <2>6, FS_Subset DEF RoomsFinite
  <2>8. MembershipConsistent'
    BY <2>1, <2>3, <2>5, NilIsNothing DEF MembershipConsistent, TypeOK
  <2>9. WithinCapacity'
    <3> SUFFICES ASSUME NEW r \in Room PROVE Cardinality(rooms'[r]) <= MaxRoomSize
      BY DEF WithinCapacity
    <3>1. /\ Cardinality(rooms'[r]) <= Cardinality(rooms[r])
          /\ Cardinality(rooms'[r]) \in Nat /\ Cardinality(rooms[r]) \in Nat
      BY <2>6, <2>7, FS_Subset, FS_CardinalityType DEF RoomsFinite
    <3>2. QED
      BY <3>1, SizeAssumption DEF WithinCapacity
  <2>10. OccupiedChannelListed'
    BY <2>4, <2>5 DEF OccupiedChannelListed
  <2>11. SecretsMatchPrivacy'
    BY <2>2, <2>4, <2>5 DEF SecretsMatchPrivacy
  <2>12. \A r \in Room : s \notin rooms'[r]
    BY <2>5, <2>1 DEF MembershipConsistent
  <2>13. QED
    BY <2>2, <2>4, <2>5, <2>6, <2>7, <2>8, <2>9, <2>10, <2>11, <2>12 DEF MapsInv
<1>3. QED
  BY <1>1, <1>2

\* The third section of handleJoin: a session that sits nowhere takes a free seat, or there
\* is none and nothing changes.
LEMMA EnterRoomFacts ==
    ASSUME IInv, NEW s \in Sid, NEW room \in Room, EnterRoom(s, room),
           \A r \in Room : s \notin rooms[r]
    PROVE  /\ MapsInv'
           /\ \A r \in Room : r # room => rooms'[r] = rooms[r] /\ channels'[r] = channels[r]
           /\ rooms'[room] # {}
           /\ \A r \in Room : channels[r] # Nil =>
                  /\ channels'[r] # Nil
                  /\ channels'[r].owner = channels[r].owner
                  /\ channels'[r].private = channels[r].private
                  /\ channels'[r].code = channels[r].code
<1> USE DEF IInv, TInv
<1>1. CASE HasSpace(room)
  <2> DEFINE ch == channels[room]
             new == Touched(ch)
  <2>1. /\ users' = [users EXCEPT ![s] = room]
        /\ rooms' = [rooms EXCEPT ![room] = @ \cup {s}]
        /\ channels' = [channels EXCEPT ![room] = new]
    BY <1>1 DEF EnterRoom
  <2>2. ch \in Channel \cup {Nil}
    BY DEF TypeOK
  <2>3. /\ new \in Channel /\ new # Nil /\ new.emptyFor = Nil
        /\ ch # Nil => /\ new.owner = ch.owner /\ new.private = ch.private
                       /\ new.code = ch.code /\ new.pin = ch.pin
        /\ ch = Nil => /\ ~new.private /\ new.code = Nil /\ new.pin = Nil
    <3>1. /\ new \in Channel /\ new.emptyFor = Nil
          /\ ch # Nil => new = [ch EXCEPT !.emptyFor = Nil]
          /\ ch = Nil => ~new.private /\ new.code = Nil /\ new.pin = Nil
      BY <2>2, TouchedFacts
    <3> HIDE DEF new
    <3>2. QED
      BY <2>2, <3>1, NilIsNothing DEF Channel
  <2> HIDE DEF new
  <2>4. /\ \A r \in Room : r # room => rooms'[r] = rooms[r] /\ channels'[r] = channels[r]
        /\ rooms'[room] = rooms[room] \cup {s}
        /\ channels'[room] = new
    BY <2>1 DEF TypeOK
  <2>5. IsFiniteSet(rooms'[room]) /\ Cardinality(rooms'[room]) = Cardinality(rooms[room]) + 1
    <3>1. IsFiniteSet(rooms[room]) /\ s \notin rooms[room]
      BY <2>1 DEF RoomsFinite
    <3>2. /\ IsFiniteSet(rooms[room] \cup {s})
          /\ Cardinality(rooms[room] \cup {s}) = Cardinality(rooms[room]) + 1
      BY <3>1, FS_AddElement
    <3>3. QED
      BY <2>4, <3>2
  <2>6. RoomsFinite'
    BY <2>4, <2>5 DEF RoomsFinite
  <2>7. MembershipConsistent'
    BY <2>1, <2>4 DEF MembershipConsistent, TypeOK
  <2>8. WithinCapacity'
    <3>1. Cardinality(rooms[room]) \in Nat /\ Cardinality(rooms[room]) < MaxRoomSize
      BY <1>1, FS_CardinalityType DEF RoomsFinite, HasSpace
    <3>2. Cardinality(rooms'[room]) <= MaxRoomSize
      BY <2>5, <3>1, SizeAssumption
    <3>3. QED
      BY <2>4, <3>2 DEF WithinCapacity
  <2>9. OccupiedChannelListed'
    BY <2>3, <2>4 DEF OccupiedChannelListed
  <2>10. SecretsMatchPrivacy'
    BY <2>3, <2>4 DEF SecretsMatchPrivacy
  <2>11. QED
    BY <2>3, <2>4, <2>6, <2>7, <2>8, <2>9, <2>10 DEF MapsInv
<1>2. CASE ~HasSpace(room)
  <2>1. UNCHANGED <<users, rooms, channels>>
    BY <1>2 DEF EnterRoom
  <2>2. rooms[room] # {}
    BY <1>2, FS_EmptySet, SizeAssumption DEF HasSpace
  <2>3. MapsInv'
    BY <2>1 DEF MapsInv, RoomsFinite, MembershipConsistent, WithinCapacity,
                OccupiedChannelListed, SecretsMatchPrivacy
  <2>4. QED
    BY <2>1, <2>2, <2>3
<1>3. QED
  BY <1>1, <1>2

\* The first section of handleJoin, admitted or refused, moves nobody; it lists the channel
\* and leaves the clock, the owner and the code of a listed channel as they were.
LEMMA PrepareFacts ==
    ASSUME IInv, NEW s \in Sid, NEW q \in Request, NEW code \in Code,
           UNCHANGED <<users, rooms>>,
           channels' = [channels EXCEPT ![q.room] = Prepared(@, s, q, code)]
    PROVE  /\ MapsInv'
           /\ \A r \in Room : r # q.room => channels'[r] = channels[r]
           /\ channels'[q.room] # Nil
           /\ channels[q.room] = Nil => channels'[q.room].owner = s
           /\ \A r \in Room : channels[r] # Nil =>
                  /\ channels'[r] # Nil
                  /\ channels'[r].emptyFor = channels[r].emptyFor
                  /\ channels[r].owner # Nil => channels'[r].owner = channels[r].owner
                  /\ channels[r].private => /\ channels'[r].private
                                            /\ channels'[r].code = channels[r].code
<1> USE DEF IInv, TInv
<1> DEFINE room == q.room
           ch == channels[room]
           new == Prepared(ch, s, q, code)
<1>1. room \in Room /\ ch \in Channel \cup {Nil}
  BY DEF Request, TypeOK
<1>2. ch # Nil => Sealed(ch)
  BY <1>1 DEF SecretsMatchPrivacy, Sealed
<1>3. /\ new \in Channel /\ new # Nil /\ new.owner # Nil /\ Sealed(new)
      /\ ch = Nil => new.owner = s /\ new.emptyFor = Nil
      /\ ch # Nil => new.emptyFor = ch.emptyFor
      /\ ch # Nil /\ ch.owner # Nil => new.owner = ch.owner
      /\ ch # Nil /\ ch.private => new.private /\ new.code = ch.code
  BY <1>1, <1>2, PreparedFacts, NilIsNothing
<1>4. channels' = [channels EXCEPT ![room] = new]
  OBVIOUS
<1> HIDE DEF new
<1>5. /\ \A r \in Room : r # room => channels'[r] = channels[r]
      /\ channels'[room] = new
  BY <1>1, <1>4 DEF TypeOK
<1>6. OccupiedChannelListed'
  BY <1>3, <1>5 DEF OccupiedChannelListed
<1>7. SecretsMatchPrivacy'
  BY <1>3, <1>5 DEF SecretsMatchPrivacy, Sealed
<1>8. RoomsFinite' /\ MembershipConsistent' /\ WithinCapacity'
  BY DEF RoomsFinite, MembershipConsistent, WithinCapacity
<1>9. QED
  BY <1>1, <1>3, <1>5, <1>6, <1>7, <1>8 DEF MapsInv
-----------------------------------------------------------------------------
(* The inductive invariant.                                                *)

\* A new hub satisfies the inductive invariant.
LEMMA InvInit == Init => IInv
<1> SUFFICES ASSUME Init PROVE IInv
  OBVIOUS
<1>1. TInv
  BY TypeInit
<1>2. RoomsFinite /\ WithinCapacity
  BY FS_EmptySet, SizeAssumption DEF Init, RoomsFinite, WithinCapacity
<1>3. MembershipConsistent
  BY NilIsNothing DEF Init, MembershipConsistent
<1>4. QED
  BY <1>1, <1>2, <1>3
     DEF Init, IInv, OccupiedChannelListed, EmptyChannelOnClock, SecretsMatchPrivacy,
         NoOrphanMember, EnteringHoldsNoSeat

\* Every critical section, the clock and the shutdown preserve the inductive invariant.
LEMMA InvStep == IInv /\ [Next]_vars => IInv'
<1> SUFFICES ASSUME IInv, [Next]_vars PROVE IInv'
  OBVIOUS
<1>0. TInv'
  BY TypeStep DEF IInv
<1> SUFFICES MapsInv' /\ EmptyChannelOnClock' /\ NoOrphanMember' /\ EnteringHoldsNoSeat'
  BY <1>0 DEF IInv, MapsInv
<1> USE DEF IInv, TInv
<1>1. ASSUME NEW s \in Sid, NEW q \in Request, NEW code \in Code, JoinAdmit(s, q, code)
      PROVE  MapsInv' /\ EmptyChannelOnClock' /\ NoOrphanMember' /\ EnteringHoldsNoSeat'
  <2>1. /\ UNCHANGED <<users, rooms, removals>>
        /\ channels' = [channels EXCEPT ![q.room] = Prepared(@, s, q, code)]
        /\ pump' = [pump EXCEPT ![s] = "leaving"]
        /\ pump[s] = "reading"
    BY <1>1 DEF JoinAdmit
  <2>2. /\ join'[s] # Nil /\ join'[s].room = q.room
        /\ \A t \in Sid : t # s => join'[t] = join[t]
    <3>1. join'[s] # Nil
      BY <1>0, <2>1 DEF JoinLocals, TypeOK
    <3>2. QED
      BY <1>1, <3>1 DEF JoinAdmit, TypeOK
  <2>3. EmptyChannelOnClock'
    <3> SUFFICES ASSUME NEW r \in Room, channels'[r] # Nil, rooms'[r] = {}, channels'[r].emptyFor = Nil
                 PROVE  \E t \in Sid : join'[t] # Nil /\ join'[t].room = r
      BY DEF EmptyChannelOnClock
    <3>1. CASE r = q.room
      BY <2>2, <3>1
    <3>2. CASE r # q.room
      <4>1. channels'[r] = channels[r]
        BY <2>1, <3>2, PrepareFacts
      <4>2. PICK t \in Sid : join[t] # Nil /\ join[t].room = r
        BY <2>1, <4>1 DEF EmptyChannelOnClock
      <4>3. t # s
        BY <2>1, <4>2 DEF JoinLocals
      <4>4. QED
        BY <2>2, <4>2, <4>3
    <3>3. QED
      BY <3>1, <3>2
  <2>4. NoOrphanMember' /\ EnteringHoldsNoSeat'
    BY <2>1 DEF NoOrphanMember, EnteringHoldsNoSeat, TypeOK
  <2>5. QED
    BY <2>1, <2>3, <2>4, PrepareFacts
<1>2. ASSUME NEW s \in Sid, NEW q \in Request, NEW code \in Code, JoinRefuse(s, q, code)
      PROVE  MapsInv' /\ EmptyChannelOnClock' /\ NoOrphanMember' /\ EnteringHoldsNoSeat'
  <2>1. /\ UNCHANGED <<users, rooms, removals, pump, join>>
        /\ channels' = [channels EXCEPT ![q.room] = Prepared(@, s, q, code)]
        /\ q.room \in Room
    BY <1>2 DEF JoinRefuse, Request
  <2>2. channels[q.room] # Nil
    <3> SUFFICES ASSUME channels[q.room] = Nil PROVE FALSE
      OBVIOUS
    <3>1. rooms[q.room] = {}
      BY <2>1 DEF OccupiedChannelListed
    <3>2. HasSpace(q.room)
      BY <3>1, FS_EmptySet, SizeAssumption DEF HasSpace
    <3>3. Prepared(channels[q.room], s, q, code).owner = s
      BY PreparedFacts
    <3>4. QED
      BY <1>2, <3>2, <3>3 DEF JoinRefuse, Admitted, Authorised
  <2>3. \A r \in Room : channels'[r] # Nil =>
            channels[r] # Nil /\ channels'[r].emptyFor = channels[r].emptyFor
    <3>1. /\ \A r \in Room : r # q.room => channels'[r] = channels[r]
          /\ \A r \in Room : channels[r] # Nil => channels'[r].emptyFor = channels[r].emptyFor
      BY <2>1, PrepareFacts
    <3>2. QED
      BY <2>2, <3>1
  <2>4. EmptyChannelOnClock'
    BY <2>1, <2>3 DEF EmptyChannelOnClock
  <2>5. NoOrphanMember' /\ EnteringHoldsNoSeat'
    BY <2>1 DEF NoOrphanMember, EnteringHoldsNoSeat
  <2>6. QED
    BY <2>1, <2>4, <2>5, PrepareFacts
<1>3. ASSUME NEW s \in Sid, LeaveRoom(s), UNCHANGED join,
             \A t \in Sid \ {s} : pump'[t] = pump[t] /\ removals'[t] = removals[t],
             pump'[s] # "entering" \/ pump[s] \in {"leaving", "entering"}
      PROVE  MapsInv' /\ EmptyChannelOnClock' /\ NoOrphanMember' /\ EnteringHoldsNoSeat'
  <2>1. EmptyChannelOnClock'
    BY <1>3, LeaveRoomFacts DEF EmptyChannelOnClock
  <2>2. users' = [users EXCEPT ![s] = Nil]
    BY <1>3, LeaveRoomType
  <2>3. NoOrphanMember'
    BY <1>3, <2>2 DEF NoOrphanMember, TypeOK
  <2>4. EnteringHoldsNoSeat'
    BY <1>3, LeaveRoomFacts DEF EnteringHoldsNoSeat
  <2>5. QED
    BY <1>3, <2>1, <2>3, <2>4, LeaveRoomFacts
<1>4. ASSUME NEW s \in Sid, JoinLeave(s)
      PROVE  MapsInv' /\ EmptyChannelOnClock' /\ NoOrphanMember' /\ EnteringHoldsNoSeat'
  BY <1>3, <1>4 DEF JoinLeave, TypeOK
<1>5. ASSUME NEW s \in Sid, JoinEnter(s)
      PROVE  MapsInv' /\ EmptyChannelOnClock' /\ NoOrphanMember' /\ EnteringHoldsNoSeat'
  <2> DEFINE room == join[s].room
  <2>1. room \in Room
    BY <1>5 DEF JoinEnter, JoinLocals, TypeOK, Join
  <2>2. EnterRoom(s, room) /\ \A r \in Room : s \notin rooms[r]
    BY <1>5 DEF JoinEnter, EnteringHoldsNoSeat
  <2>3. /\ MapsInv'
        /\ \A r \in Room : r # room => rooms'[r] = rooms[r] /\ channels'[r] = channels[r]
        /\ rooms'[room] # {}
    BY <2>1, <2>2, EnterRoomFacts
  <2>4. EmptyChannelOnClock'
    <3> SUFFICES ASSUME NEW r \in Room, channels'[r] # Nil, rooms'[r] = {}, channels'[r].emptyFor = Nil
                 PROVE  \E t \in Sid : join'[t] # Nil /\ join'[t].room = r
      BY DEF EmptyChannelOnClock
    <3>1. r # room /\ channels'[r] = channels[r] /\ rooms'[r] = rooms[r]
      BY <2>3
    <3>2. PICK t \in Sid : join[t] # Nil /\ join[t].room = r
      BY <3>1 DEF EmptyChannelOnClock
    <3>3. t # s
      BY <3>1, <3>2
    <3>4. QED
      BY <1>5, <3>2, <3>3 DEF JoinEnter, TypeOK
  <2>5. \A t \in Sid : t # s => users'[t] = users[t] /\ \A r \in Room : t \in rooms'[r] => t \in rooms[r]
    BY <2>1, <2>2 DEF EnterRoom, TypeOK
  <2>6. /\ pump' = [pump EXCEPT ![s] = "reading"] /\ UNCHANGED removals
    BY <1>5 DEF JoinEnter
  <2>7. NoOrphanMember' /\ EnteringHoldsNoSeat'
    BY <2>5, <2>6 DEF NoOrphanMember, EnteringHoldsNoSeat, TypeOK
  <2>8. QED
    BY <2>3, <2>4, <2>7
<1>6. ASSUME UNCHANGED <<users, rooms, channels, join>>,
             \A s \in Sid : pump'[s] = "entering" => pump[s] = "entering",
             \A s \in Sid : pump'[s] = "exited" =>
                 removals'[s] > 0 \/ (pump[s] = "exited" /\ removals'[s] = removals[s])
      PROVE  MapsInv' /\ EmptyChannelOnClock' /\ NoOrphanMember' /\ EnteringHoldsNoSeat'
  BY <1>6 DEF MapsInv, RoomsFinite, MembershipConsistent, WithinCapacity, OccupiedChannelListed,
              SecretsMatchPrivacy, EmptyChannelOnClock, NoOrphanMember, EnteringHoldsNoSeat
<1>7. ASSUME NEW s \in Sid, Connect(s)
      PROVE  MapsInv' /\ EmptyChannelOnClock' /\ NoOrphanMember' /\ EnteringHoldsNoSeat'
  BY <1>6, <1>7 DEF Connect, TypeOK
<1>8. ASSUME NEW s \in Sid, Leave(s)
      PROVE  MapsInv' /\ EmptyChannelOnClock' /\ NoOrphanMember' /\ EnteringHoldsNoSeat'
  BY <1>3, <1>8 DEF Leave
<1>9. ASSUME NEW s \in Sid, ReadPumpExit(s)
      PROVE  MapsInv' /\ EmptyChannelOnClock' /\ NoOrphanMember' /\ EnteringHoldsNoSeat'
  BY <1>6, <1>9 DEF ReadPumpExit, TypeOK
<1>10. ASSUME NEW s \in Sid, SlowConsumer(s)
       PROVE  MapsInv' /\ EmptyChannelOnClock' /\ NoOrphanMember' /\ EnteringHoldsNoSeat'
  BY <1>6, <1>10 DEF SlowConsumer, TypeOK
<1>11. ASSUME NEW s \in Sid, RemoveClient(s)
       PROVE  MapsInv' /\ EmptyChannelOnClock' /\ NoOrphanMember' /\ EnteringHoldsNoSeat'
  <2>1. /\ LeaveRoom(s) /\ UNCHANGED <<join, pump>>
        /\ \A t \in Sid \ {s} : removals'[t] = removals[t]
    BY <1>11 DEF RemoveClient, TypeOK
  <2>2. pump'[s] # "entering" \/ pump[s] \in {"leaving", "entering"}
    BY <2>1
  <2>3. QED
    BY <1>3, <2>1, <2>2
<1>12. ASSUME UNCHANGED <<users, rooms, join, pump, removals>>,
              \A r \in Room : channels[r] # Nil /\ rooms[r] # {} => channels'[r] # Nil,
              \A r \in Room : channels'[r] # Nil =>
                  /\ channels[r] # Nil
                  /\ channels'[r].emptyFor = Nil <=> channels[r].emptyFor = Nil
                  /\ channels'[r].private = channels[r].private
                  /\ channels'[r].owner = channels[r].owner
                  /\ channels'[r].code = channels[r].code
                  /\ channels'[r].pin = channels[r].pin
       PROVE  MapsInv' /\ EmptyChannelOnClock' /\ NoOrphanMember' /\ EnteringHoldsNoSeat'
  <2>1. RoomsFinite' /\ MembershipConsistent' /\ WithinCapacity' /\ NoOrphanMember'
        /\ EnteringHoldsNoSeat'
    BY <1>12 DEF RoomsFinite, MembershipConsistent, WithinCapacity, NoOrphanMember, EnteringHoldsNoSeat
  <2>2. OccupiedChannelListed' /\ SecretsMatchPrivacy' /\ EmptyChannelOnClock'
    BY <1>12 DEF OccupiedChannelListed, SecretsMatchPrivacy, EmptyChannelOnClock
  <2>3. QED
    BY <2>1, <2>2 DEF MapsInv
<1>13. CASE Tick
  <2>1. \A r \in Room : channels'[r] = IF channels[r] = Nil THEN Nil ELSE Aged(channels[r])
    BY <1>13 DEF Tick, Aged
  <2>2. \A r \in Room : channels[r] # Nil => channels[r] \in Channel
    BY DEF TypeOK
  <2>3. UNCHANGED <<users, rooms, join, pump, removals>>
    BY <1>13 DEF Tick
  <2>4. QED
    BY <1>12, <2>1, <2>2, <2>3, AgedFacts, NilIsNothing
<1>14. CASE CleanupExpiredChannels
  BY <1>12, <1>14 DEF CleanupExpiredChannels, Expired
<1>15. CASE RunReturns
  BY <1>6, <1>15 DEF RunReturns, NoOrphanMember
<1>16. CASE Close
  <2>1. /\ \A s \in Sid : users'[s] = Nil
        /\ \A r \in Room : rooms'[r] = {} /\ channels'[r] = Nil
        /\ UNCHANGED <<pump, join, removals>>
    BY <1>16 DEF Close
  <2>2. RoomsFinite' /\ WithinCapacity'
    <3>1. IsFiniteSet({}) /\ Cardinality({}) <= MaxRoomSize
      BY FS_EmptySet, SizeAssumption
    <3>2. QED
      BY <2>1, <3>1 DEF RoomsFinite, WithinCapacity
  <2>3. MembershipConsistent'
    BY <2>1, NilIsNothing DEF MembershipConsistent
  <2>4. QED
    BY <2>1, <2>2, <2>3 DEF MapsInv, OccupiedChannelListed, SecretsMatchPrivacy,
                            EmptyChannelOnClock, NoOrphanMember, EnteringHoldsNoSeat
<1>17. CASE UNCHANGED vars
  BY <1>6, <1>17 DEF vars
<1>18. QED
  BY <1>1, <1>2, <1>4, <1>5, <1>7, <1>8, <1>9, <1>10, <1>11, <1>13, <1>14, <1>15, <1>16, <1>17
     DEF Next

\* The inductive invariant holds in every reachable state.
LEMMA Inductive == Spec => []IInv
BY InvInit, InvStep, PTL DEF Spec

\* Nobody is in two channels or counted in one it is not known in, in every reachable state.
THEOREM MembershipIsConsistent == Spec => []MembershipConsistent
BY Inductive, PTL DEF IInv

\* No interleaving of joins takes a channel over MaxRoomSize, whatever its value and
\* however many sessions race for the last seat.
THEOREM CapacityHolds == Spec => []WithinCapacity
BY Inductive, PTL DEF IInv

\* The sweep never finds an occupied channel on the clock.
THEOREM OccupiedStaysListed == Spec => []OccupiedChannelListed
BY Inductive, PTL DEF IInv

\* No listed channel is empty, off the clock and awaited by nobody.
THEOREM EmptyIsOnClock == Spec => []EmptyChannelOnClock
BY Inductive, PTL DEF IInv

\* Private channels have an owner and a code, public ones have neither code nor PIN.
THEOREM SecretsFollowPrivacy == Spec => []SecretsMatchPrivacy
BY Inductive, PTL DEF IInv

\* A user whose connection has ended always has a removal coming.
THEOREM NoGhosts == Spec => []NoOrphanMember
BY Inductive, PTL DEF IInv

\* Between its last two sections a handleJoin call holds no seat.
THEOREM EnteringIsSeatless == Spec => []EnteringHoldsNoSeat
BY Inductive, PTL DEF IInv
-----------------------------------------------------------------------------
(* A listed channel keeps its identity.                                    *)

\* One step of any kind leaves the owner, the privacy and the code of a listed channel.
LEMMA IdentityStep ==
    ASSUME IInv, [Next]_vars, NEW r \in Room, channels[r] # Nil, channels'[r] # Nil
    PROVE  /\ channels[r].owner # Nil => channels'[r].owner = channels[r].owner
           /\ channels[r].private => channels'[r].private /\ channels'[r].code = channels[r].code
<1> DEFINE Same == /\ channels[r].owner # Nil => channels'[r].owner = channels[r].owner
                   /\ channels[r].private => /\ channels'[r].private
                                             /\ channels'[r].code = channels[r].code
<1> SUFFICES Same
  OBVIOUS
<1> USE DEF IInv, TInv
<1>1. ASSUME NEW s \in Sid, NEW q \in Request, NEW code \in Code,
             JoinAdmit(s, q, code) \/ JoinRefuse(s, q, code)
      PROVE  Same
  <2>1. /\ UNCHANGED <<users, rooms>>
        /\ channels' = [channels EXCEPT ![q.room] = Prepared(@, s, q, code)]
    BY <1>1 DEF JoinAdmit, JoinRefuse
  <2>2. QED
    BY <2>1, PrepareFacts
<1>2. ASSUME NEW s \in Sid, LeaveRoom(s) PROVE Same
  BY <1>2, LeaveRoomFacts
<1>3. ASSUME NEW s \in Sid, JoinEnter(s) PROVE Same
  <2>1. join[s].room \in Room
    BY <1>3 DEF JoinEnter, JoinLocals, TypeOK, Join
  <2>2. QED
    BY <1>3, <2>1, EnterRoomFacts DEF JoinEnter, EnteringHoldsNoSeat
<1>4. CASE Tick
  <2>1. channels'[r] = Aged(channels[r]) /\ channels[r] \in Channel
    BY <1>4 DEF Tick, Aged, TypeOK
  <2>2. QED
    BY <2>1, AgedFacts
<1>5. CASE CleanupExpiredChannels \/ Close
  BY <1>5 DEF CleanupExpiredChannels, Close
<1>6. CASE UNCHANGED channels
  BY <1>6
<1>7. QED
  BY <1>1, <1>2, <1>3, <1>4, <1>5, <1>6
     DEF Next, vars, JoinLeave, Connect, Leave, ReadPumpExit, SlowConsumer, RemoveClient, RunReturns

\* While a channel stays listed no step resets its owner, its privacy or its invite code.
THEOREM IdentityIsStable == Spec => ChannelIdentityStable
<1>1. IInv /\ [Next]_vars =>
        [\A r \in Room : channels[r] # Nil /\ channels'[r] # Nil =>
            /\ channels[r].owner # Nil => channels'[r].owner = channels[r].owner
            /\ channels[r].private => channels'[r].private /\ channels'[r].code = channels[r].code]_vars
  BY IdentityStep
<1>2. QED
  BY <1>1, Inductive, PTL DEF Spec, ChannelIdentityStable
-----------------------------------------------------------------------------
(* The clock of an empty channel.                                          *)

\* One step of any kind leaves an empty channel's clock alone or moves it on.
LEMMA ClockStep ==
    ASSUME IInv, [Next]_vars, NEW r \in Room, channels[r] # Nil, channels[r].emptyFor # Nil,
           channels'[r] # Nil, rooms'[r] = {}
    PROVE  channels'[r].emptyFor # Nil /\ channels'[r].emptyFor >= channels[r].emptyFor
<1> DEFINE Runs == channels'[r].emptyFor # Nil /\ channels'[r].emptyFor >= channels[r].emptyFor
<1> SUFFICES Runs
  OBVIOUS
<1> USE DEF IInv, TInv
<1>1. /\ rooms[r] = {} /\ channels[r] \in Channel
      /\ channels[r].emptyFor \in 0 .. EmptyTTL /\ channels[r].emptyFor \in Nat
  BY TTLAssumption DEF OccupiedChannelListed, TypeOK, Channel
<1>2. ASSUME channels'[r].emptyFor = channels[r].emptyFor PROVE Runs
  BY <1>1, <1>2
<1>3. ASSUME NEW s \in Sid, NEW q \in Request, NEW code \in Code,
             JoinAdmit(s, q, code) \/ JoinRefuse(s, q, code)
      PROVE  Runs
  <2>1. /\ UNCHANGED <<users, rooms>>
        /\ channels' = [channels EXCEPT ![q.room] = Prepared(@, s, q, code)]
    BY <1>3 DEF JoinAdmit, JoinRefuse
  <2>2. QED
    BY <1>2, <2>1, PrepareFacts
<1>4. ASSUME NEW s \in Sid, LeaveRoom(s) PROVE Runs
  <2>1. users[s] # r
    BY <1>1 DEF MembershipConsistent
  <2>2. channels'[r] = channels[r]
    BY <1>4, <2>1 DEF LeaveRoom, TypeOK
  <2>3. QED
    BY <1>2, <2>2
<1>5. ASSUME NEW s \in Sid, JoinEnter(s) PROVE Runs
  <2>1. join[s].room \in Room
    BY <1>5 DEF JoinEnter, JoinLocals, TypeOK, Join
  <2>2. rooms'[join[s].room] # {} /\ \A x \in Room : x # join[s].room => channels'[x] = channels[x]
    BY <1>5, <2>1, EnterRoomFacts DEF JoinEnter, EnteringHoldsNoSeat
  <2>3. QED
    BY <1>2, <2>2
<1>6. CASE Tick
  <2>1. channels'[r].emptyFor = IF channels[r].emptyFor = EmptyTTL THEN channels[r].emptyFor
                                ELSE channels[r].emptyFor + 1
    BY <1>1, <1>6 DEF Tick, Channel
  <2>2. channels[r].emptyFor + 1 # Nil
    BY <1>1, NilIsNothing
  <2>3. QED
    BY <1>1, <2>1, <2>2
<1>7. CASE CleanupExpiredChannels \/ Close
  BY <1>2, <1>7 DEF CleanupExpiredChannels, Close
<1>8. CASE UNCHANGED channels
  BY <1>2, <1>8
<1>9. QED
  BY <1>3, <1>4, <1>5, <1>6, <1>7, <1>8
     DEF Next, vars, JoinLeave, Connect, Leave, ReadPumpExit, SlowConsumer, RemoveClient, RunReturns

\* The clock of an empty channel runs until somebody is in it or it is off the list.
THEOREM EmptyClockKeepsRunning == Spec => EmptyClockRuns
<1>1. IInv /\ [Next]_vars =>
        [\A r \in Room :
            channels[r] # Nil /\ channels[r].emptyFor # Nil /\ channels'[r] # Nil /\ rooms'[r] = {}
                => channels'[r].emptyFor # Nil /\ channels'[r].emptyFor >= channels[r].emptyFor]_vars
  BY ClockStep
<1>2. QED
  BY <1>1, Inductive, PTL DEF Spec, EmptyClockRuns
-----------------------------------------------------------------------------
(* Who has not connected.                                                  *)

\* A session that has not connected is in no channel.
OfflineHoldsNoSeat == \A s \in Sid : pump[s] = "offline" => users[s] = Nil

LEMMA OfflineStep == IInv /\ OfflineHoldsNoSeat /\ [Next]_vars => OfflineHoldsNoSeat'
<1> SUFFICES ASSUME IInv, OfflineHoldsNoSeat, [Next]_vars PROVE OfflineHoldsNoSeat'
  OBVIOUS
<1> USE DEF IInv, TInv
<1>1. ASSUME \A t \in Sid : /\ pump'[t] = "offline" => pump[t] = "offline"
                            /\ users'[t] \in {users[t], Nil}
      PROVE  OfflineHoldsNoSeat'
  BY <1>1 DEF OfflineHoldsNoSeat
<1>2. ASSUME NEW s \in Sid, LeaveRoom(s) PROVE \A t \in Sid : users'[t] \in {users[t], Nil}
  BY <1>2, LeaveRoomType DEF TypeOK
<1>3. ASSUME NEW s \in Sid, JoinEnter(s) PROVE OfflineHoldsNoSeat'
  <2>1. pump[s] = "entering" /\ pump' = [pump EXCEPT ![s] = "reading"]
    BY <1>3 DEF JoinEnter
  <2>2. \A t \in Sid : t # s => users'[t] = users[t]
    BY <1>3 DEF JoinEnter, EnterRoom, TypeOK
  <2>3. QED
    BY <2>1, <2>2 DEF OfflineHoldsNoSeat, TypeOK
<1>4. CASE \E s \in Sid : JoinLeave(s) \/ Leave(s) \/ RemoveClient(s)
  BY <1>1, <1>2, <1>4 DEF JoinLeave, Leave, RemoveClient, TypeOK
<1>5. CASE \E s \in Sid, q \in Request, code \in Code : JoinAdmit(s, q, code) \/ JoinRefuse(s, q, code)
  BY <1>1, <1>5 DEF JoinAdmit, JoinRefuse, TypeOK
<1>6. CASE \E s \in Sid : Connect(s) \/ ReadPumpExit(s) \/ SlowConsumer(s)
  BY <1>1, <1>6 DEF Connect, ReadPumpExit, SlowConsumer, TypeOK
<1>7. CASE Tick \/ CleanupExpiredChannels \/ RunReturns \/ Close \/ UNCHANGED vars
  BY <1>1, <1>7 DEF Tick, CleanupExpiredChannels, RunReturns, Close, vars
<1>8. QED
  BY <1>3, <1>4, <1>5, <1>6, <1>7 DEF Next
-----------------------------------------------------------------------------
(* Channels implements Directory.                                          *)

\* The abstract members of a channel are the entries of Hub.rooms.
LEMMA MembersAreRooms ==
    ASSUME IInv, NEW r \in Room
    PROVE  D!Members(r) = rooms[r]
BY DEF IInv, TInv, TypeOK, MembershipConsistent, D!Members

\* Directory counts as Channels does.
LEMMA SameCardinality == \A S : D!Cardinality(S) = Cardinality(S)
BY DEF D!Cardinality, Cardinality

\* Every step of the hub is a step of the directory or changes nothing in it.
LEMMA DirectoryStep == IInv /\ [Next]_vars => [D!Next]_(D!vars)
<1> SUFFICES ASSUME IInv, [Next]_vars PROVE D!Next \/ UNCHANGED D!vars
  OBVIOUS
<1> DEFINE listed == {r \in Room : channels[r] # Nil}
<1> USE DEF IInv, TInv
<1>1. ASSUME NEW s \in Sid, NEW q \in Request, NEW code \in Code,
             JoinAdmit(s, q, code) \/ JoinRefuse(s, q, code)
      PROVE  D!Next
  <2>1. /\ UNCHANGED <<users, rooms>>
        /\ channels' = [channels EXCEPT ![q.room] = Prepared(@, s, q, code)]
        /\ q.room \in Room
    BY <1>1 DEF JoinAdmit, JoinRefuse, Request
  <2>2. listed' = listed \cup {q.room}
    <3>1. channels'[q.room] # Nil /\ \A r \in Room : r # q.room => channels'[r] = channels[r]
      BY <2>1, PrepareFacts
    <3>2. QED
      BY <2>1, <3>1
  <2>3. D!Create(q.room)
    BY <2>1, <2>2 DEF D!Create
  <2>4. QED
    BY <2>1, <2>3 DEF D!Next
<1>2. ASSUME NEW s \in Sid, LeaveRoom(s) PROVE D!Next
  <2>1. listed' = listed
    BY <1>2, LeaveRoomFacts
  <2>2. users' = [users EXCEPT ![s] = Nil]
    BY <1>2, LeaveRoomType
  <2>3. D!Exit(s)
    BY <2>1, <2>2 DEF D!Exit
  <2>4. QED
    BY <2>3 DEF D!Next
<1>3. ASSUME NEW s \in Sid, JoinEnter(s) PROVE D!Next \/ UNCHANGED D!vars
  <2>1. PICK room \in Room : room = join[s].room /\ EnterRoom(s, room)
    BY <1>3 DEF JoinEnter, JoinLocals, TypeOK, Join
  <2>2. CASE HasSpace(room)
    <3>1. users[s] = Nil
      BY <1>3 DEF JoinEnter, EnteringHoldsNoSeat, MembershipConsistent, TypeOK
    <3>2. Cardinality(D!Members(room)) < MaxRoomSize
      BY <2>1, <2>2, MembersAreRooms DEF HasSpace
    <3>3. /\ users' = [users EXCEPT ![s] = room]
          /\ channels' = [channels EXCEPT ![room] = Touched(@)]
      BY <2>1, <2>2 DEF EnterRoom
    <3>4. Touched(channels[room]) # Nil
      BY <2>1, TouchedFacts, NilIsNothing DEF TypeOK
    <3>5. listed' = listed \cup {room}
      BY <2>1, <3>3, <3>4 DEF TypeOK
    <3>6. D!Enter(s, room)
      BY <3>1, <3>2, <3>3, <3>5, SameCardinality DEF D!Enter
    <3>7. QED
      BY <2>1, <3>6 DEF D!Next
  <2>3. CASE ~HasSpace(room)
    BY <2>1, <2>3 DEF EnterRoom, D!vars
  <2>4. QED
    BY <2>2, <2>3
<1>4. CASE Tick
  <2>1. \A r \in Room : channels'[r] = IF channels[r] = Nil THEN Nil ELSE Aged(channels[r])
    BY <1>4 DEF Tick, Aged
  <2>2. \A r \in Room : channels'[r] # Nil <=> channels[r] # Nil
    BY <2>1, AgedFacts, NilIsNothing DEF TypeOK
  <2>3. QED
    BY <1>4, <2>2 DEF Tick, D!vars
<1>5. CASE CleanupExpiredChannels
  <2>0. PICK gone \in SUBSET Room : gone = {r \in Room : Expired(r)}
    OBVIOUS
  <2>1. \A r \in gone : D!Members(r) = {}
    BY <2>0, MembersAreRooms DEF Expired
  <2>2. listed' = listed \ gone
    BY <1>5, <2>0 DEF CleanupExpiredChannels
  <2>3. D!Expire(gone)
    BY <1>5, <2>1, <2>2 DEF D!Expire, CleanupExpiredChannels
  <2>4. QED
    BY <2>3 DEF D!Next
<1>6. CASE Close
  <2>1. D!Reset
    BY <1>6 DEF Close, D!Reset
  <2>2. QED
    BY <2>1 DEF D!Next
<1>7. CASE UNCHANGED <<users, channels>>
  BY <1>7 DEF D!vars
<1>8. QED
  BY <1>1, <1>2, <1>3, <1>4, <1>5, <1>6, <1>7
     DEF Next, vars, JoinLeave, Connect, Leave, ReadPumpExit, SlowConsumer, RemoveClient, RunReturns

\* The hub's maps, under every interleaving of the handlers, behave like the directory.
THEOREM HubImplementsDirectory == Spec => ImplementsDirectory
<1>1. Init => D!Init
  BY DEF Init, D!Init
<1>2. QED
  BY <1>1, DirectoryStep, Inductive, PTL DEF Spec, ImplementsDirectory, D!Spec
=============================================================================
