---------------------------- MODULE DeliveryProofs ----------------------------
(***************************************************************************)
(* Theorems about Delivery for any number of sessions, channels, voice     *)
(* events and acknowledgements and any capacities: type correctness (no    *)
(* Send channel holds more than its buffer), that nothing is delivered out *)
(* of order or twice, and that a recipient that is slow or gone takes      *)
(* nothing from the others.                                                *)
(*                                                                         *)
(* What makes the order inductive is that a session's handlers run one     *)
(* after another and end only when they have enqueued to everybody: all a  *)
(* handler still has to enqueue is about the last event of its session     *)
(* (PendingIds), and whoever it still has to enqueue to has only earlier   *)
(* ones (VoiceHeard).                                                      *)
(***************************************************************************)
EXTENDS Delivery, SequenceTheorems, TLAPS

\* What WritePump has taken out is counted, and an acknowledgement on its way has a number.
CountersOK ==
    /\ written \in [Sid -> Nat]
    /\ \A s \in Sid : call[s].at \in {"acking", "forwarding"} => acked[s] >= 1

\* The event a handler is about is the last one its session has sent.
CallIds == \A s \in Sid : call[s].at = "checking" => call[s].id = <<s, voiced[s]>>

\* So are those it still has to enqueue, and no handler ends before it has.
PendingIds ==
    \A s \in Sid : /\ pending[s] \subseteq Sid \X {<<s, voiced[s]>>}
                   /\ pending[s] # {} => call[s] = Relaying

\* Nobody has a voice event its session has not sent, nor the one it is still checking, nor
\* the one that is still to be enqueued to it.
VoiceHeard ==
    \A t \in Sid : \A env \in ToSet(inbox[t]) : env.type = "voice" =>
        /\ env.n <= voiced[env.from]
        /\ call[env.from].at = "checking" => env.n < voiced[env.from]
        /\ \A id \in VoiceId : <<t, id>> \in pending[env.from] => env.n < voiced[env.from]

\* Nor an acknowledgement that is still on its way.
AckHeard ==
    \A t \in Sid : \A env \in ToSet(inbox[t]) : env.type = "ack" =>
        /\ env.n <= acked[env.from]
        /\ call[env.from].at \in {"acking", "forwarding"} => env.n < acked[env.from]

DeliveryInv ==
    /\ TypeOK /\ CountersOK
    /\ CallIds /\ PendingIds
    /\ VoiceHeard /\ AckHeard
    /\ InOrder /\ NobodySilenced
-----------------------------------------------------------------------------
(* Calls and envelopes.                                                    *)

\* What the locals of a handler are at each of its points.
LEMMA CallShapes ==
    /\ Idle \in Call /\ Idle.at = "idle"
    /\ Relaying \in Call /\ Relaying.at = "relaying"
BY DEF Call, Idle, Relaying

LEMMA CheckingShape ==
    ASSUME NEW r \in Room, NEW id \in VoiceId
    PROVE  Checking(r, id) \in Call /\ Checking(r, id).at = "checking" /\ Checking(r, id).id = id
BY DEF Call, Checking

LEMMA AckingShape ==
    ASSUME NEW r \in Room, NEW id \in VoiceId, NEW t \in Sid
    PROVE  /\ Acking(r, id, t) \in Call /\ Acking(r, id, t).at = "acking"
           /\ Forwarding(id, t) \in Call /\ Forwarding(id, t).at = "forwarding"
BY DEF Call, Acking, Forwarding

LEMMA CallFields ==
    ASSUME NEW c \in Call
    PROVE  /\ c.at = "checking" => c.room \in Room /\ c.id \in VoiceId
           /\ c.at = "acking" => c.room \in Room /\ c.id \in VoiceId /\ c.to \in Sid
           /\ c.at = "forwarding" => c.id \in VoiceId /\ c.to \in Sid
BY DEF Call, Idle, Relaying, Checking, Acking, Forwarding

LEMMA VoiceIds ==
    ASSUME NEW id \in VoiceId
    PROVE  /\ id[1] \in Speaker /\ id[1] \in Sid
           /\ id[2] \in 1 .. MaxVoice /\ id[2] \in Nat /\ id = <<id[1], id[2]>>
BY BoundsAssumption DEF VoiceId

LEMMA VoiceEnvelope ==
    ASSUME NEW id \in VoiceId
    PROVE  /\ Voice(id) \in Envelope
           /\ Voice(id).type = "voice" /\ Voice(id).from = id[1] /\ Voice(id).n = id[2]
BY DEF Envelope, Voice

LEMMA AckEnvelope ==
    ASSUME NEW s \in Sid, NEW id \in VoiceId, NEW n \in 1 .. MaxAcks
    PROVE  /\ Ack(s, id, n) \in Envelope
           /\ Ack(s, id, n).type = "ack" /\ Ack(s, id, n).from = s /\ Ack(s, id, n).n = n
BY DEF Envelope, Ack

LEMMA EnvelopeFields ==
    ASSUME NEW env \in Envelope
    PROVE  env.type \in {"voice", "ack"} /\ env.from \in Sid /\ env.n \in Nat
<1>1. CASE env \in {Voice(id) : id \in VoiceId}
  BY <1>1, VoiceIds DEF Voice
<1>2. CASE env \in {Ack(s, id, n) : s \in Sid, id \in VoiceId, n \in 1 .. MaxAcks}
  BY <1>2, BoundsAssumption DEF Ack
<1>3. QED
  BY <1>1, <1>2 DEF Envelope

LEMMA Heard ==
    ASSUME TypeOK, NEW t \in Sid, NEW env \in ToSet(inbox[t])
    PROVE  env \in Envelope /\ env.type \in {"voice", "ack"} /\ env.from \in Sid /\ env.n \in Nat
<1>1. env \in Envelope
  BY DEF TypeOK, ToSet
<1>2. QED
  BY <1>1, EnvelopeFields
-----------------------------------------------------------------------------
(* Enqueueing.                                                             *)

LEMMA AppendFacts ==
    ASSUME NEW q \in Seq(Envelope), NEW env \in Envelope
    PROVE  /\ Append(q, env) \in Seq(Envelope)
           /\ Len(q) \in Nat /\ Len(Append(q, env)) = Len(q) + 1
           /\ DOMAIN q = 1 .. Len(q) /\ DOMAIN Append(q, env) = 1 .. (Len(q) + 1)
           /\ \A i \in 1 .. Len(q) : Append(q, env)[i] = q[i]
           /\ Append(q, env)[Len(q) + 1] = env
           /\ ToSet(Append(q, env)) = ToSet(q) \cup {env}
<1>1. /\ Append(q, env) \in Seq(Envelope) /\ Len(Append(q, env)) = Len(q) + 1
      /\ \A i \in 1 .. Len(q) : Append(q, env)[i] = q[i]
      /\ Append(q, env)[Len(q) + 1] = env
  BY AppendProperties
<1>2. /\ Len(q) \in Nat /\ DOMAIN q = 1 .. Len(q)
      /\ DOMAIN Append(q, env) = 1 .. (Len(q) + 1)
  BY <1>1
<1>3. ToSet(Append(q, env)) = ToSet(q) \cup {env}
  BY <1>1, <1>2 DEF ToSet
<1>4. QED
  BY <1>1, <1>2, <1>3

LEMMA ToSetGrows ==
    ASSUME NEW q \in Seq(Envelope), NEW env \in Envelope
    PROVE  ToSet(q) \subseteq ToSet(Append(q, env))
BY AppendFacts

\* Enqueueing adds the envelope to one inbox, within the buffer, or condemns the client.
LEMMA EnqueueFacts ==
    ASSUME TypeOK, CountersOK, NEW t \in Sid, NEW env \in Envelope, Enqueue(t, env)
    PROVE  /\ inbox' \in [Sid -> Seq(Envelope)]
           /\ \A u \in Sid : Len(inbox'[u]) - written[u] \in 0 .. SendCap
           /\ client' \in [Sid -> {"in", "condemned", "leaving", "out"}]
           /\ \A u \in Sid : client'[u] = "in" => client[u] = "in"
           /\ \A u \in Sid : \/ inbox'[u] = inbox[u]
                             \/ u = t /\ inbox'[u] = Append(inbox[u], env)
           /\ env \in ToSet(inbox'[t]) \/ client'[t] # "in"
<1>1. inbox[t] \in Seq(Envelope)
  BY DEF TypeOK
<1>2. CASE HasSpace(t)
  <2>1. inbox' = [inbox EXCEPT ![t] = Append(@, env)] /\ client' = client
    BY <1>2 DEF Enqueue
  <2>2. /\ \A u \in Sid : inbox'[u] = IF u = t THEN Append(inbox[t], env) ELSE inbox[u]
        /\ inbox' \in [Sid -> Seq(Envelope)]
    BY <1>1, <2>1, AppendFacts DEF TypeOK
  <2>3. Len(inbox'[t]) - written[t] \in 0 .. SendCap
    <3>1. /\ Len(inbox[t]) - written[t] < SendCap /\ Len(inbox[t]) - written[t] \in 0 .. SendCap
          /\ written[t] \in Nat
      BY <1>2 DEF HasSpace, TypeOK, CountersOK
    <3>2. Len(inbox'[t]) = Len(inbox[t]) + 1 /\ Len(inbox[t]) \in Nat
      BY <1>1, <2>2, AppendFacts
    <3>3. PICK l \in Nat, w \in Nat : l = Len(inbox[t]) /\ w = written[t]
      BY <3>1, <3>2
    <3>4. (l + 1) - w \in 0 .. SendCap
      BY <3>1, <3>3, SizeAssumption
    <3>5. Len(inbox'[t]) - written[t] = (l + 1) - w
      BY <3>2, <3>3
    <3>6. QED
      BY <3>4, <3>5
  <2>4. env \in ToSet(inbox'[t])
    <3>1. ToSet(Append(inbox[t], env)) = ToSet(inbox[t]) \cup {env}
      BY <1>1, AppendFacts
    <3>2. inbox'[t] = Append(inbox[t], env)
      BY <2>2
    <3>3. QED
      BY <3>1, <3>2
  <2>5. QED
    BY <2>1, <2>2, <2>3, <2>4 DEF TypeOK
<1>3. CASE ~HasSpace(t)
  <2>1. client' = Condemned(t) /\ inbox' = inbox
    BY <1>3 DEF Enqueue
  <2>2. QED
    BY <2>1 DEF Condemned, TypeOK
<1>4. QED
  BY <1>2, <1>3

\* What is later than all that a session has from the same sender keeps the order.
LEMMA OrderKept ==
    ASSUME TypeOK, InOrder, NEW t \in Sid, NEW env \in Envelope,
           \A u \in Sid : \/ inbox'[u] = inbox[u]
                          \/ u = t /\ inbox'[u] = Append(inbox[u], env),
           \A e \in ToSet(inbox[t]) : e.type = env.type /\ e.from = env.from => e.n < env.n
    PROVE  InOrder'
<1> SUFFICES ASSUME NEW u \in Sid, NEW i \in DOMAIN inbox'[u], NEW j \in DOMAIN inbox'[u], i < j,
                    inbox'[u][i].type = inbox'[u][j].type, inbox'[u][i].from = inbox'[u][j].from
             PROVE  inbox'[u][i].n < inbox'[u][j].n
  BY DEF InOrder
<1>1. inbox[u] \in Seq(Envelope)
  BY DEF TypeOK
<1>2. CASE inbox'[u] = inbox[u]
  BY <1>2 DEF InOrder
<1>3. CASE u = t /\ inbox'[u] = Append(inbox[u], env)
  <2>1. i \in 1 .. (Len(inbox[u]) + 1) /\ j \in 1 .. (Len(inbox[u]) + 1) /\ Len(inbox[u]) \in Nat
    BY <1>1, <1>3, AppendFacts
  <2>2. i \in 1 .. Len(inbox[u]) /\ i \in DOMAIN inbox[u] /\ inbox'[u][i] = inbox[u][i]
    BY <1>1, <1>3, <2>1, AppendFacts
  <2>3. CASE j = Len(inbox[u]) + 1
    <3>1. inbox'[u][j] = env /\ inbox[u][i] \in ToSet(inbox[u])
      BY <1>1, <1>3, <2>2, <2>3, AppendFacts DEF ToSet
    <3>2. QED
      BY <1>3, <2>2, <3>1
  <2>4. CASE j # Len(inbox[u]) + 1
    <3>1. j \in DOMAIN inbox[u] /\ inbox'[u][j] = inbox[u][j]
      BY <1>1, <1>3, <2>1, <2>4, AppendFacts
    <3>2. QED
      BY <2>2, <3>1 DEF InOrder
  <2>5. QED
    BY <2>3, <2>4
<1>4. QED
  BY <1>2, <1>3
-----------------------------------------------------------------------------
(* Type correctness.                                                       *)

Typed == TypeOK /\ CountersOK

\* Membership moves within the channels that exist.
LEMMA EnterTyped ==
    ASSUME TypeOK, NEW s \in Sid, NEW r \in Room, Dir!Enter(s, r)
    PROVE  where' \in [Sid -> listed' \cup {Nil}] /\ listed' \subseteq Room
BY DEF TypeOK, Dir!Enter

LEMMA ExitTyped ==
    ASSUME TypeOK, NEW s \in Sid, Dir!Exit(s)
    PROVE  where' \in [Sid -> listed' \cup {Nil}] /\ listed' \subseteq Room
BY DEF TypeOK, Dir!Exit

\* A step that only moves a handler on, or a client.
LEMMA TypedStutter ==
    ASSUME Typed,
           UNCHANGED <<membership, pending, counters, inbox, written, audience>>,
           call' \in [Sid -> Call], client' \in [Sid -> {"in", "condemned", "leaving", "out"}],
           \A s \in Sid : call'[s].at \in {"acking", "forwarding"} =>
                              call[s].at \in {"acking", "forwarding"}
    PROVE  Typed'
BY DEF Typed, TypeOK, CountersOK, membership, counters

LEMMA TypeStep == Typed /\ [Next]_vars => Typed'
<1> SUFFICES ASSUME Typed, [Next]_vars PROVE Typed'
  OBVIOUS
<1>0. TypeOK /\ CountersOK
  BY DEF Typed
<1> SUFFICES ASSUME Next PROVE Typed'
  BY DEF vars, Typed, TypeOK, CountersOK
<1> PICK s \in Sid :
        \/ VoiceStart(s) \/ VoiceRefuse(s) \/ VoiceLookUp(s) \/ VoiceEnd(s)
        \/ AckLookUp(s) \/ AckForward(s)
        \/ Write(s) \/ Leave(s) \/ Disconnect(s) \/ RemoveFromRoom(s) \/ RemoveFromMap(s)
        \/ \E r \in Room : Enter(s, r)
        \/ \E t \in Sid, id \in VoiceId : Relay(s, t, id) \/ AckStart(s, id, t)
  BY DEF Next
<1>s. call[s] \in Call
  BY <1>0 DEF TypeOK
<1>1. CASE VoiceStart(s)
  <2>1. /\ s \in Speaker /\ voiced[s] \in Nat /\ voiced[s] + 1 \in 1 .. MaxVoice
        /\ voiced' = [voiced EXCEPT ![s] = @ + 1]
    BY <1>0, <1>1, BoundsAssumption DEF VoiceStart, TypeOK
  <2>2. /\ voiced' \in [Sid -> 0 .. MaxVoice]
    BY <1>0, <2>1, BoundsAssumption DEF TypeOK
  <2>3. <<s, voiced[s] + 1>> \in VoiceId /\ (where[s] # Nil => where[s] \in Room)
    BY <1>0, <2>1 DEF VoiceId, TypeOK
  <2>4. call' \in [Sid -> Call] /\ \A t \in Sid : call'[t].at \in {"acking", "forwarding"} => call'[t] = call[t]
    <3> DEFINE next == IF where[s] = Nil THEN Idle ELSE Checking(where[s], <<s, voiced[s] + 1>>)
    <3>1. next \in Call /\ next.at \notin {"acking", "forwarding"}
      <4>1. CASE where[s] = Nil
        BY <4>1, CallShapes
      <4>2. CASE where[s] # Nil
        BY <2>3, <4>2, CheckingShape
      <4>3. QED
        BY <4>1, <4>2
    <3>2. call' = [call EXCEPT ![s] = next]
      BY <1>1 DEF VoiceStart
    <3> HIDE DEF next
    <3>3. QED
      BY <1>0, <3>1, <3>2 DEF TypeOK
  <2>5. UNCHANGED <<membership, client, pending, acked, inbox, written, audience>>
    BY <1>1 DEF VoiceStart
  <2>6. QED
    BY <1>0, <2>2, <2>4, <2>5 DEF Typed, TypeOK, CountersOK, membership
<1>2. CASE VoiceRefuse(s)
  <2>1. /\ call' = [call EXCEPT ![s] = Idle]
        /\ UNCHANGED <<membership, client, pending, counters, inbox, written, audience>>
    BY <1>2 DEF VoiceRefuse
  <2>2. QED
    BY <1>0, <2>1, TypedStutter, CallShapes DEF TypeOK
<1>3. CASE VoiceLookUp(s)
  <2> DEFINE recipients == {t \in Dir!Members(call[s].room) \ {s} : InClients(t)}
  <2>1. call[s].id \in VoiceId /\ recipients \subseteq Sid
    BY <1>s, <1>3, CallFields DEF VoiceLookUp, Dir!Members
  <2>2. /\ pending' = [pending EXCEPT ![s] = @ \cup (recipients \X {call[s].id})]
        /\ audience' = [audience EXCEPT ![call[s].id] = recipients]
        /\ call' = [call EXCEPT ![s] = Relaying]
        /\ UNCHANGED <<membership, client, counters, inbox, written>>
    BY <1>3 DEF VoiceLookUp
  <2> HIDE DEF recipients
  <2>3. pending' \in [Sid -> SUBSET (Sid \X VoiceId)] /\ audience' \in [VoiceId -> SUBSET Sid]
    BY <1>0, <2>1, <2>2 DEF TypeOK
  <2>4. call' \in [Sid -> Call] /\ \A t \in Sid : call'[t].at \in {"acking", "forwarding"} => call'[t] = call[t]
    BY <1>0, <2>2, CallShapes DEF TypeOK
  <2>5. QED
    BY <1>0, <2>2, <2>3, <2>4 DEF Typed, TypeOK, CountersOK, membership, counters
<1>4. CASE VoiceEnd(s)
  <2>1. /\ call' = [call EXCEPT ![s] = Idle]
        /\ UNCHANGED <<membership, client, pending, counters, inbox, written, audience>>
    BY <1>4 DEF VoiceEnd
  <2>2. QED
    BY <1>0, <2>1, TypedStutter, CallShapes DEF TypeOK
<1>5. CASE AckLookUp(s)
  <2>1. /\ call[s].at = "acking" /\ call[s].id \in VoiceId /\ call[s].to \in Sid
        /\ call' = [call EXCEPT ![s] = IF where[@.to] = @.room /\ InClients(@.to)
                                       THEN Forwarding(@.id, @.to) ELSE Idle]
        /\ UNCHANGED <<membership, client, pending, counters, inbox, written, audience>>
    BY <1>s, <1>5, CallFields DEF AckLookUp
  <2>2. call' \in [Sid -> Call] /\ \A t \in Sid : t # s => call'[t] = call[t]
    <3>1. PICK c \in {Idle, Forwarding(call[s].id, call[s].to)} : call' = [call EXCEPT ![s] = c]
      BY <2>1
    <3>2. c \in Call
      <4>1. Forwarding(call[s].id, call[s].to) \in Call
        BY <2>1 DEF Call
      <4>2. QED
        BY <3>1, <4>1, CallShapes
    <3>3. QED
      BY <1>0, <3>1, <3>2 DEF TypeOK
  <2>3. QED
    BY <1>0, <2>1, <2>2, TypedStutter DEF TypeOK
<1>6. CASE AckForward(s)
  <2>1. /\ call[s].at = "forwarding" /\ call[s].id \in VoiceId /\ call[s].to \in Sid
        /\ call' = [call EXCEPT ![s] = Idle]
        /\ UNCHANGED <<membership, pending, counters, written, audience>>
    BY <1>s, <1>6, CallFields DEF AckForward
  <2>2. Ack(s, call[s].id, acked[s]) \in Envelope
    <3>1. acked[s] \in 1 .. MaxAcks
      BY <1>0, <2>1 DEF TypeOK, CountersOK
    <3>2. QED
      BY <2>1, <3>1, AckEnvelope
  <2>3. /\ inbox' \in [Sid -> Seq(Envelope)]
        /\ \A u \in Sid : Len(inbox'[u]) - written[u] \in 0 .. SendCap
        /\ client' \in [Sid -> {"in", "condemned", "leaving", "out"}]
    <3>1. CASE InClients(call[s].to)
      <4>1. Enqueue(call[s].to, Ack(s, call[s].id, acked[s]))
        BY <1>6, <3>1 DEF AckForward
      <4>2. QED
        BY <1>0, <2>1, <2>2, <4>1, EnqueueFacts
    <3>2. CASE ~InClients(call[s].to)
      BY <1>0, <1>6, <3>2 DEF AckForward, TypeOK
    <3>3. QED
      BY <3>1, <3>2
  <2>4. call' \in [Sid -> Call] /\ \A t \in Sid : call'[t].at \in {"acking", "forwarding"} => call'[t] = call[t]
    BY <1>0, <2>1, CallShapes DEF TypeOK
  <2>5. QED
    BY <1>0, <2>1, <2>3, <2>4 DEF Typed, TypeOK, CountersOK, membership, counters
<1>7. CASE Write(s)
  <2>1. /\ written[s] < Len(inbox[s])
        /\ written' = [written EXCEPT ![s] = @ + 1]
        /\ UNCHANGED <<membership, client, call, pending, counters, inbox, audience>>
    BY <1>7 DEF Write
  <2>2. written' \in [Sid -> Nat]
    BY <1>0, <2>1 DEF CountersOK
  <2>3. ASSUME NEW u \in Sid PROVE Len(inbox[u]) - written'[u] \in 0 .. SendCap
    <3>1. /\ inbox[u] \in Seq(Envelope) /\ written \in [Sid -> Nat]
          /\ Len(inbox[u]) - written[u] \in 0 .. SendCap
      BY <1>0 DEF TypeOK, CountersOK
    <3>2. PICK l \in Nat, w \in Nat : l = Len(inbox[u]) /\ w = written[u]
      BY <3>1, LenProperties
    <3>3. written'[u] = IF u = s THEN w + 1 ELSE w
      BY <2>1, <3>1, <3>2
    <3>4. l - w \in 0 .. SendCap /\ (u = s => w < l)
      BY <2>1, <3>1, <3>2
    <3>5. l - (IF u = s THEN w + 1 ELSE w) \in 0 .. SendCap
      BY <3>4, SizeAssumption
    <3>6. QED
      BY <3>2, <3>3, <3>5
  <2>4. QED
    BY <1>0, <2>1, <2>2, <2>3 DEF Typed, TypeOK, CountersOK, membership, counters
<1>8. CASE Leave(s) \/ \E r \in Room : Enter(s, r)
  <2>1. where' \in [Sid -> listed' \cup {Nil}] /\ listed' \subseteq Room
    BY <1>0, <1>8, EnterTyped, ExitTyped DEF Leave, Enter
  <2>2. UNCHANGED <<client, call, pending, counters, inbox, written, audience>>
    BY <1>8 DEF Leave, Enter
  <2>3. QED
    BY <1>0, <2>1, <2>2 DEF Typed, TypeOK, CountersOK, counters
<1>9. CASE Disconnect(s) \/ RemoveFromMap(s)
  <2>1. UNCHANGED <<membership, call, pending, counters, inbox, written, audience>>
    BY <1>9 DEF Disconnect, RemoveFromMap
  <2>2. client' \in [Sid -> {"in", "condemned", "leaving", "out"}]
    BY <1>0, <1>9 DEF Disconnect, RemoveFromMap, Condemned, TypeOK
  <2>3. QED
    BY <1>0, <2>1, <2>2, TypedStutter DEF TypeOK
<1>10. CASE RemoveFromRoom(s)
  <2>1. /\ UNCHANGED <<call, pending, counters, inbox, written, audience>>
        /\ client' \in [Sid -> {"in", "condemned", "leaving", "out"}]
    BY <1>0, <1>10 DEF RemoveFromRoom, TypeOK
  <2>2. where' \in [Sid -> listed' \cup {Nil}] /\ listed' \subseteq Room
    BY <1>0, <1>10, ExitTyped DEF RemoveFromRoom
  <2>3. QED
    BY <1>0, <2>1, <2>2 DEF Typed, TypeOK, CountersOK, counters
<1>11. ASSUME NEW t \in Sid, NEW id \in VoiceId, Relay(s, t, id) PROVE Typed'
  <2>1. /\ pending' = [pending EXCEPT ![s] = @ \ {<<t, id>>}]
        /\ Enqueue(t, Voice(id))
        /\ UNCHANGED <<membership, call, counters, written, audience>>
    BY <1>11 DEF Relay
  <2>2. /\ inbox' \in [Sid -> Seq(Envelope)]
        /\ \A u \in Sid : Len(inbox'[u]) - written[u] \in 0 .. SendCap
        /\ client' \in [Sid -> {"in", "condemned", "leaving", "out"}]
    BY <1>0, <2>1, EnqueueFacts, VoiceEnvelope
  <2>3. pending' \in [Sid -> SUBSET (Sid \X VoiceId)]
    BY <1>0, <2>1 DEF TypeOK
  <2>4. QED
    BY <1>0, <2>1, <2>2, <2>3 DEF Typed, TypeOK, CountersOK, membership, counters
<1>12. ASSUME NEW t \in Sid, NEW id \in VoiceId, AckStart(s, id, t) PROVE Typed'
  <2>1. /\ acked[s] < MaxAcks /\ acked' = [acked EXCEPT ![s] = @ + 1]
        /\ call' = [call EXCEPT ![s] =
                        IF where[s] = Nil \/ t = s THEN Idle ELSE Acking(where[s], id, t)]
        /\ UNCHANGED <<membership, client, pending, voiced, inbox, written, audience>>
    BY <1>12 DEF AckStart
  <2>2. /\ acked' \in [Sid -> 0 .. MaxAcks]
        /\ \A u \in Sid : acked'[u] >= acked[u] /\ (u = s => acked'[u] >= 1)
    <3>1. acked \in [Sid -> 0 .. MaxAcks] /\ MaxAcks \in Nat
      BY <1>0, BoundsAssumption DEF TypeOK
    <3>2. PICK f : f = acked /\ f \in [Sid -> 0 .. MaxAcks]
      BY <3>1
    <3>3. f[s] < MaxAcks /\ acked' = [f EXCEPT ![s] = f[s] + 1]
      BY <2>1, <3>2
    <3>4. \A u \in Sid : f[u] \in 0 .. MaxAcks /\ f[u] \in Nat
      BY <3>1, <3>2
    <3>5. /\ f[s] + 1 \in 0 .. MaxAcks /\ f[s] + 1 >= 1 /\ f[s] + 1 >= f[s]
          /\ \A u \in Sid : f[u] >= f[u]
      BY <3>1, <3>3, <3>4
    <3>6. acked' \in [Sid -> 0 .. MaxAcks]
      BY <3>2, <3>3, <3>5
    <3>7. \A u \in Sid : acked'[u] = IF u = s THEN f[s] + 1 ELSE f[u]
      BY <3>2, <3>3
    <3>8. QED
      BY <3>2, <3>5, <3>6, <3>7
  <2>3. call' \in [Sid -> Call] /\ \A u \in Sid : u # s => call'[u] = call[u]
    <3>1. where[s] # Nil => where[s] \in Room
      BY <1>0 DEF TypeOK
    <3>2. QED
      BY <1>0, <2>1, <3>1, CallShapes, AckingShape DEF TypeOK
  <2>4. CountersOK'
    <3>1. \A u \in Sid : acked[u] \in Nat /\ acked'[u] \in Nat
      BY <1>0, <2>2, BoundsAssumption DEF TypeOK
    <3>2. QED
      BY <1>0, <2>1, <2>2, <2>3, <3>1 DEF CountersOK
  <2>5. QED
    BY <1>0, <2>1, <2>2, <2>3, <2>4 DEF Typed, TypeOK, membership
<1>13. QED
  BY <1>1, <1>2, <1>3, <1>4, <1>5, <1>6, <1>7, <1>8, <1>9, <1>10, <1>11, <1>12

\* Nobody has been heard, and nobody has connected to a channel.
LEMMA TypeInit == Init => Typed
<1> SUFFICES ASSUME Init PROVE Typed
  OBVIOUS
<1>1. where \in [Sid -> listed \cup {Nil}] /\ listed \subseteq Room
  BY DEF Init, Dir!Init
<1>2. \A s \in Sid : call[s] = Idle
  BY DEF Init
<1>3. call \in [Sid -> Call] /\ \A s \in Sid : call[s].at = "idle"
  BY <1>2, CallShapes DEF Init
<1>4. /\ inbox \in [Sid -> Seq(Envelope)] /\ written \in [Sid -> Nat]
      /\ \A s \in Sid : Len(inbox[s]) - written[s] \in 0 .. SendCap
  BY SizeAssumption DEF Init
<1>5. voiced \in [Sid -> 0 .. MaxVoice] /\ acked \in [Sid -> 0 .. MaxAcks]
  BY BoundsAssumption DEF Init
<1>6. QED
  BY <1>1, <1>3, <1>4, <1>5 DEF Init, Typed, TypeOK, CountersOK

\* Every variable keeps its type: a session is only in a channel that exists, and no Send
\* channel ever holds more than SendCap envelopes.
THEOREM TypeCorrect == Spec => []TypeOK
<1>1. Typed => TypeOK
  BY DEF Typed
<1>2. QED
  BY <1>1, TypeInit, TypeStep, PTL DEF Spec
-----------------------------------------------------------------------------
(* What is still to be enqueued.                                           *)

Pointed == CallIds /\ PendingIds

\* A step that leaves what there is to enqueue alone.
LEMMA PointedStutter ==
    ASSUME Pointed, UNCHANGED <<pending, voiced>>,
           \A s \in Sid : \/ call'[s] = call[s]
                          \/ call'[s].at # "checking" /\ pending[s] = {}
    PROVE  Pointed'
BY DEF Pointed, CallIds, PendingIds

LEMMA PointedStep == Typed /\ Pointed /\ [Next]_vars => Pointed'
<1> SUFFICES ASSUME Typed, Pointed, [Next]_vars PROVE Pointed'
  OBVIOUS
<1>0. TypeOK /\ CallIds /\ PendingIds
  BY DEF Typed, Pointed
<1>i. ASSUME NEW s \in Sid, call[s] # Relaying PROVE pending[s] = {}
  BY <1>0, <1>i DEF PendingIds
<1>c. Idle.at = "idle" /\ Relaying.at = "relaying"
  BY CallShapes
<1>1. ASSUME NEW s \in Sid, VoiceStart(s) PROVE Pointed'
  <2>1. /\ call[s] = Idle /\ pending[s] = {}
        /\ voiced' = [voiced EXCEPT ![s] = @ + 1]
        /\ call' = [call EXCEPT ![s] = IF where[s] = Nil THEN Idle
                                       ELSE Checking(where[s], <<s, voiced[s] + 1>>)]
        /\ UNCHANGED pending
    BY <1>1, <1>i, <1>c DEF VoiceStart
  <2>2. CallIds'
    <3>1. ASSUME NEW t \in Sid, call'[t].at = "checking" PROVE call'[t].id = <<t, voiced'[t]>>
      <4>1. CASE t = s
        <5>1. call'[s] = IF where[s] = Nil THEN Idle ELSE Checking(where[s], <<s, voiced[s] + 1>>)
          BY <1>0, <2>1 DEF TypeOK
        <5>2. call'[s] = Checking(where[s], <<s, voiced[s] + 1>>)
          BY <1>c, <3>1, <4>1, <5>1
        <5>3. voiced'[s] = voiced[s] + 1
          BY <1>0, <2>1 DEF TypeOK
        <5>4. QED
          BY <4>1, <5>2, <5>3 DEF Checking
      <4>2. CASE t # s
        <5>1. call'[t] = call[t] /\ voiced'[t] = voiced[t]
          BY <1>0, <2>1, <4>2 DEF TypeOK
        <5>2. QED
          BY <1>0, <3>1, <5>1 DEF CallIds
      <4>3. QED
        BY <4>1, <4>2
    <3>2. QED
      BY <3>1 DEF CallIds
  <2>3. PendingIds'
    <3>1. ASSUME NEW t \in Sid
          PROVE  /\ pending'[t] \subseteq Sid \X {<<t, voiced'[t]>>}
                 /\ pending'[t] # {} => call'[t] = Relaying
      <4>1. CASE t = s
        BY <2>1, <4>1
      <4>2. CASE t # s
        <5>1. call'[t] = call[t] /\ voiced'[t] = voiced[t]
          BY <1>0, <2>1, <4>2 DEF TypeOK
        <5>2. QED
          BY <1>0, <2>1, <5>1 DEF PendingIds
      <4>3. QED
        BY <4>1, <4>2
    <3>2. QED
      BY <3>1 DEF PendingIds
  <2>4. QED
    BY <2>2, <2>3 DEF Pointed
<1>2. ASSUME NEW s \in Sid, UNCHANGED <<pending, voiced>>, call[s] # Relaying \/ pending[s] = {},
             NEW c, c.at # "checking", call' = [call EXCEPT ![s] = c]
      PROVE  Pointed'
  BY <1>0, <1>2, <1>i, PointedStutter DEF TypeOK
<1>3. ASSUME NEW s \in Sid, VoiceRefuse(s) \/ VoiceEnd(s) \/ AckForward(s) PROVE Pointed'
  <2>1. UNCHANGED <<pending, voiced>> /\ call' = [call EXCEPT ![s] = Idle]
    BY <1>3 DEF VoiceRefuse, VoiceEnd, AckForward, counters
  <2>2. call[s] # Relaying \/ pending[s] = {}
    BY <1>3, <1>c DEF VoiceRefuse, VoiceEnd, AckForward
  <2>3. QED
    BY <1>2, <1>c, <2>1, <2>2
<1>4. ASSUME NEW s \in Sid, VoiceLookUp(s) PROVE Pointed'
  <2> DEFINE recipients == {t \in Dir!Members(call[s].room) \ {s} : InClients(t)}
  <2>1. /\ pending' = [pending EXCEPT ![s] = @ \cup (recipients \X {call[s].id})]
        /\ call' = [call EXCEPT ![s] = Relaying]
        /\ call[s].at = "checking" /\ UNCHANGED voiced
        /\ recipients \subseteq Sid
    BY <1>4 DEF VoiceLookUp, counters, Dir!Members
  <2> HIDE DEF recipients
  <2>2. pending[s] = {} /\ call[s].id = <<s, voiced[s]>>
    BY <1>0, <1>i, <1>c, <2>1 DEF CallIds
  <2>3. /\ \A t \in Sid : call'[t] = IF t = s THEN Relaying ELSE call[t]
        /\ \A t \in Sid : pending'[t] = IF t = s THEN recipients \X {<<s, voiced[s]>>} ELSE pending[t]
    BY <1>0, <2>1, <2>2 DEF TypeOK
  <2>4. CallIds'
    BY <1>0, <1>c, <2>1, <2>3 DEF CallIds
  <2>5. PendingIds'
    BY <1>0, <2>1, <2>3 DEF PendingIds
  <2>6. QED
    BY <2>4, <2>5 DEF Pointed
<1>5. ASSUME NEW s \in Sid, AckLookUp(s) PROVE Pointed'
  <2>1. call[s].at = "acking" /\ UNCHANGED <<pending, voiced>>
    BY <1>5 DEF AckLookUp, counters
  <2>2. PICK c \in {Idle, Forwarding(call[s].id, call[s].to)} : call' = [call EXCEPT ![s] = c]
    BY <1>5 DEF AckLookUp
  <2>3. c.at # "checking"
    BY <1>c, <2>2 DEF Forwarding
  <2>4. QED
    BY <1>2, <1>c, <2>1, <2>2, <2>3
<1>6. ASSUME NEW s \in Sid, NEW t \in Sid, NEW id \in VoiceId, AckStart(s, id, t) PROVE Pointed'
  <2>1. call[s] = Idle /\ UNCHANGED <<pending, voiced>>
    BY <1>6 DEF AckStart
  <2>2. PICK c \in {Idle, Acking(where[s], id, t)} : call' = [call EXCEPT ![s] = c]
    BY <1>6 DEF AckStart
  <2>3. c.at # "checking"
    BY <1>c, <2>2 DEF Acking
  <2>4. QED
    BY <1>2, <1>c, <2>1, <2>2, <2>3
<1>7. ASSUME NEW s \in Sid, NEW t \in Sid, NEW id \in VoiceId, Relay(s, t, id) PROVE Pointed'
  <2>1. /\ pending' = [pending EXCEPT ![s] = @ \ {<<t, id>>}]
        /\ UNCHANGED <<call, voiced>>
    BY <1>7 DEF Relay, counters
  <2>2. \A u \in Sid : pending'[u] \subseteq pending[u]
    BY <1>0, <2>1 DEF TypeOK
  <2>3. QED
    BY <1>0, <2>1, <2>2 DEF Pointed, CallIds, PendingIds
<1>8. ASSUME NEW s \in Sid, \/ Write(s) \/ Leave(s) \/ Disconnect(s) \/ RemoveFromRoom(s)
                            \/ RemoveFromMap(s) \/ \E r \in Room : Enter(s, r)
      PROVE  Pointed'
  <2>1. UNCHANGED <<call, pending, voiced>>
    BY <1>8 DEF Write, Leave, Disconnect, RemoveFromRoom, RemoveFromMap, Enter, counters
  <2>2. QED
    BY <2>1, PointedStutter
<1>9. CASE UNCHANGED vars
  BY <1>9, PointedStutter DEF vars
<1>10. QED
  BY <1>1, <1>3, <1>4, <1>5, <1>6, <1>7, <1>8, <1>9 DEF Next
-----------------------------------------------------------------------------
(* What has been heard, and in which order.                                *)

HeardInv == VoiceHeard /\ AckHeard /\ InOrder

\* A step that enqueues nothing, and by which nothing new becomes due.
LEMMA HeardStutter ==
    ASSUME TypeOK, HeardInv, UNCHANGED inbox,
           \A s \in Sid : /\ voiced'[s] >= voiced[s] /\ voiced'[s] \in Nat
                          /\ acked'[s] >= acked[s] /\ acked'[s] \in Nat
                          /\ call'[s].at = "checking" => voiced'[s] > voiced[s] \/ call[s].at = "checking"
                          /\ call'[s].at \in {"acking", "forwarding"}
                                 => acked'[s] > acked[s] \/ call[s].at \in {"acking", "forwarding"}
                          /\ pending'[s] \subseteq pending[s] \/ call[s].at = "checking"
    PROVE  HeardInv'
<1>1. InOrder'
  BY DEF HeardInv, InOrder
<1>2. ASSUME NEW t \in Sid, NEW env \in ToSet(inbox[t]), env.type = "voice"
      PROVE  /\ env.n <= voiced'[env.from]
             /\ call'[env.from].at = "checking" => env.n < voiced'[env.from]
             /\ \A id \in VoiceId : <<t, id>> \in pending'[env.from] => env.n < voiced'[env.from]
  <2>1. /\ env.from \in Sid /\ env.n \in Nat /\ voiced[env.from] \in Nat
    BY <1>2, Heard, BoundsAssumption DEF TypeOK
  <2>2. /\ env.n <= voiced[env.from]
        /\ call[env.from].at = "checking" => env.n < voiced[env.from]
        /\ \A id \in VoiceId : <<t, id>> \in pending[env.from] => env.n < voiced[env.from]
    BY <1>2 DEF HeardInv, VoiceHeard
  <2>3. voiced'[env.from] >= voiced[env.from] /\ voiced'[env.from] \in Nat
    BY <2>1
  <2>4. call'[env.from].at = "checking" => env.n < voiced'[env.from]
    BY <2>1, <2>2, <2>3
  <2>5. ASSUME NEW id \in VoiceId, <<t, id>> \in pending'[env.from] PROVE env.n < voiced'[env.from]
    BY <2>1, <2>2, <2>3, <2>5
  <2>6. QED
    BY <2>1, <2>2, <2>3, <2>4, <2>5
<1>3. ASSUME NEW t \in Sid, NEW env \in ToSet(inbox[t]), env.type = "ack"
      PROVE  /\ env.n <= acked'[env.from]
             /\ call'[env.from].at \in {"acking", "forwarding"} => env.n < acked'[env.from]
  <2>1. /\ env.from \in Sid /\ env.n \in Nat /\ acked[env.from] \in Nat
    BY <1>3, Heard, BoundsAssumption DEF TypeOK
  <2>2. /\ env.n <= acked[env.from]
        /\ call[env.from].at \in {"acking", "forwarding"} => env.n < acked[env.from]
    BY <1>3 DEF HeardInv, AckHeard
  <2>3. /\ acked'[env.from] >= acked[env.from] /\ acked'[env.from] \in Nat
        /\ call'[env.from].at \in {"acking", "forwarding"}
               => acked'[env.from] > acked[env.from] \/ call[env.from].at \in {"acking", "forwarding"}
    BY <2>1
  <2>4. QED
    BY <2>1, <2>2, <2>3
<1>4. QED
  BY <1>1, <1>2, <1>3 DEF HeardInv, VoiceHeard, AckHeard

\* A step of which only the handler's position is of interest.
LEMMA HeardMoves ==
    ASSUME Typed, HeardInv, UNCHANGED <<inbox, counters, pending>>,
           \A s \in Sid : /\ call'[s].at = "checking" => call[s].at = "checking"
                          /\ call'[s].at \in {"acking", "forwarding"}
                                 => call[s].at \in {"acking", "forwarding"}
    PROVE  HeardInv'
<1>1. UNCHANGED <<inbox, voiced, acked, pending>>
  BY DEF counters
<1>2. \A s \in Sid : voiced[s] \in Nat /\ acked[s] \in Nat
  BY BoundsAssumption DEF Typed, TypeOK
<1>3. \A s \in Sid : voiced'[s] >= voiced[s] /\ voiced'[s] \in Nat /\ acked'[s] >= acked[s] /\ acked'[s] \in Nat
  BY <1>1, <1>2
<1>4. QED
  BY <1>1, <1>3, HeardStutter DEF Typed

\* Enqueueing what is later than all that its recipient has from the same sender, which is
\* the sender's last of its kind and after which nothing is due to that recipient.
LEMMA HeardGrows ==
    ASSUME Typed, HeardInv, NEW t \in Sid, NEW env \in Envelope,
           Enqueue(t, env), UNCHANGED <<counters, written>>,
           \A e \in ToSet(inbox[t]) : e.type = env.type /\ e.from = env.from => e.n < env.n,
           env.type = "voice" => /\ env.n <= voiced[env.from]
                                 /\ call'[env.from].at # "checking"
                                 /\ \A id \in VoiceId : <<t, id>> \notin pending'[env.from],
           env.type = "ack" => /\ env.n <= acked[env.from]
                               /\ call'[env.from].at \notin {"acking", "forwarding"},
           \A s \in Sid : /\ call'[s].at = "checking" => call[s].at = "checking"
                          /\ call'[s].at \in {"acking", "forwarding"}
                                 => call[s].at \in {"acking", "forwarding"}
                          /\ pending'[s] \subseteq pending[s]
    PROVE  HeardInv'
<1>0. TypeOK /\ CountersOK /\ UNCHANGED <<voiced, acked>>
  BY DEF Typed, counters
<1>1. \A u \in Sid : inbox'[u] = inbox[u] \/ (u = t /\ inbox'[u] = Append(inbox[u], env))
  BY <1>0, EnqueueFacts
<1>2. InOrder'
  BY <1>0, <1>1, OrderKept DEF HeardInv
<1>3. ASSUME NEW u \in Sid, NEW e \in ToSet(inbox'[u])
      PROVE  e \in ToSet(inbox[u]) \/ (u = t /\ e = env)
  <2>1. inbox[u] \in Seq(Envelope)
    BY <1>0 DEF TypeOK
  <2>2. CASE inbox'[u] = inbox[u]
    BY <1>3, <2>2
  <2>3. CASE u = t /\ inbox'[u] = Append(inbox[u], env)
    BY <1>3, <2>1, <2>3, AppendFacts
  <2>4. QED
    BY <1>1, <2>2, <2>3
<1>4. VoiceHeard'
  <2>1. ASSUME NEW u \in Sid, NEW e \in ToSet(inbox'[u]), e.type = "voice"
        PROVE  /\ e.n <= voiced[e.from]
               /\ call'[e.from].at = "checking" => e.n < voiced[e.from]
               /\ \A id \in VoiceId : <<u, id>> \in pending'[e.from] => e.n < voiced[e.from]
    <3>1. CASE e \in ToSet(inbox[u])
      <4>1. e.from \in Sid
        BY <1>0, <3>1, Heard
      <4>2. QED
        BY <2>1, <3>1, <4>1 DEF HeardInv, VoiceHeard
    <3>2. CASE u = t /\ e = env
      BY <2>1, <3>2
    <3>3. QED
      BY <1>3, <3>1, <3>2
  <2>2. QED
    BY <1>0, <2>1 DEF VoiceHeard
<1>5. AckHeard'
  <2>1. ASSUME NEW u \in Sid, NEW e \in ToSet(inbox'[u]), e.type = "ack"
        PROVE  /\ e.n <= acked[e.from]
               /\ call'[e.from].at \in {"acking", "forwarding"} => e.n < acked[e.from]
    <3>1. CASE e \in ToSet(inbox[u])
      <4>1. e.from \in Sid
        BY <1>0, <3>1, Heard
      <4>2. QED
        BY <2>1, <3>1, <4>1 DEF HeardInv, AckHeard
    <3>2. CASE u = t /\ e = env
      BY <2>1, <3>2
    <3>3. QED
      BY <1>3, <3>1, <3>2
  <2>2. QED
    BY <1>0, <2>1 DEF AckHeard
<1>6. QED
  BY <1>2, <1>4, <1>5 DEF HeardInv

LEMMA HeardStep == Typed /\ Pointed /\ HeardInv /\ [Next]_vars => HeardInv'
<1> SUFFICES ASSUME Typed, Pointed, HeardInv, [Next]_vars PROVE HeardInv'
  OBVIOUS
<1>0. /\ TypeOK /\ CountersOK /\ CallIds /\ PendingIds
      /\ \A s \in Sid : voiced[s] \in Nat /\ acked[s] \in Nat
      /\ Idle.at = "idle" /\ Relaying.at = "relaying"
  BY BoundsAssumption, CallShapes DEF Typed, TypeOK, Pointed
<1>1. ASSUME NEW s \in Sid, VoiceStart(s) PROVE HeardInv'
  <2>1. /\ call[s] = Idle /\ voiced' = [voiced EXCEPT ![s] = @ + 1]
        /\ \E c \in {Idle, Checking(where[s], <<s, voiced[s] + 1>>)} : call' = [call EXCEPT ![s] = c]
        /\ UNCHANGED <<pending, acked, inbox>>
    BY <1>1 DEF VoiceStart
  <2>2. \A u \in Sid : /\ voiced'[u] = IF u = s THEN voiced[u] + 1 ELSE voiced[u]
                       /\ u # s => call'[u] = call[u]
    BY <1>0, <2>1 DEF TypeOK
  <2>3. call'[s].at \in {"idle", "checking"}
    BY <1>0, <2>1 DEF TypeOK, Checking
  <2>4. QED
    <3>1. ASSUME NEW u \in Sid
          PROVE  /\ voiced'[u] >= voiced[u] /\ voiced'[u] \in Nat
                 /\ acked'[u] >= acked[u] /\ acked'[u] \in Nat
                 /\ u = s => voiced'[u] > voiced[u]
      BY <1>0, <2>1, <2>2
    <3>2. QED
      BY <1>0, <2>1, <2>2, <2>3, <3>1, HeardStutter
<1>2. ASSUME NEW s \in Sid, VoiceRefuse(s) \/ VoiceEnd(s) PROVE HeardInv'
  <2>1. UNCHANGED <<inbox, counters, pending>> /\ call' = [call EXCEPT ![s] = Idle]
    BY <1>2 DEF VoiceRefuse, VoiceEnd
  <2>2. QED
    BY <1>0, <2>1, HeardMoves DEF TypeOK
<1>3. ASSUME NEW s \in Sid, VoiceLookUp(s) PROVE HeardInv'
  <2>1. /\ call[s].at = "checking" /\ call' = [call EXCEPT ![s] = Relaying]
        /\ UNCHANGED <<voiced, acked, inbox>>
        /\ \E new : pending' = [pending EXCEPT ![s] = new]
    BY <1>3 DEF VoiceLookUp, counters
  <2>2. \A u \in Sid : u # s => call'[u] = call[u] /\ pending'[u] = pending[u]
    BY <1>0, <2>1 DEF TypeOK
  <2>3. call'[s].at = "relaying"
    BY <1>0, <2>1 DEF TypeOK
  <2>4. \A u \in Sid : voiced'[u] >= voiced[u] /\ voiced'[u] \in Nat /\ acked'[u] >= acked[u] /\ acked'[u] \in Nat
    BY <1>0, <2>1
  <2>5. QED
    BY <1>0, <2>1, <2>2, <2>3, <2>4, HeardStutter
<1>4. ASSUME NEW s \in Sid, AckLookUp(s) PROVE HeardInv'
  <2>1. /\ call[s].at = "acking" /\ UNCHANGED <<inbox, counters, pending>>
        /\ \E c \in {Idle, Forwarding(call[s].id, call[s].to)} : call' = [call EXCEPT ![s] = c]
    BY <1>4 DEF AckLookUp
  <2>2. \A u \in Sid : u # s => call'[u] = call[u]
    BY <1>0, <2>1 DEF TypeOK
  <2>3. call'[s].at \in {"idle", "forwarding"}
    BY <1>0, <2>1 DEF TypeOK, Forwarding
  <2>4. QED
    BY <2>1, <2>2, <2>3, HeardMoves
<1>5. ASSUME NEW s \in Sid, NEW t \in Sid, NEW id \in VoiceId, AckStart(s, id, t) PROVE HeardInv'
  <2>1. /\ acked' = [acked EXCEPT ![s] = @ + 1]
        /\ \E c \in {Idle, Acking(where[s], id, t)} : call' = [call EXCEPT ![s] = c]
        /\ UNCHANGED <<pending, voiced, inbox>>
    BY <1>5 DEF AckStart
  <2>2. \A u \in Sid : /\ acked'[u] = IF u = s THEN acked[u] + 1 ELSE acked[u]
                       /\ u # s => call'[u] = call[u]
    BY <1>0, <2>1 DEF TypeOK
  <2>3. call'[s].at \in {"idle", "acking"}
    BY <1>0, <2>1 DEF TypeOK, Acking
  <2>4. ASSUME NEW u \in Sid
        PROVE  /\ voiced'[u] >= voiced[u] /\ voiced'[u] \in Nat
               /\ acked'[u] >= acked[u] /\ acked'[u] \in Nat
               /\ u = s => acked'[u] > acked[u]
    BY <1>0, <2>1, <2>2
  <2>5. QED
    BY <1>0, <2>1, <2>2, <2>3, <2>4, HeardStutter
<1>6. ASSUME NEW s \in Sid, NEW t \in Sid, NEW id \in VoiceId, Relay(s, t, id) PROVE HeardInv'
  <2>1. /\ <<t, id>> \in pending[s]
        /\ pending' = [pending EXCEPT ![s] = @ \ {<<t, id>>}]
        /\ Enqueue(t, Voice(id))
        /\ UNCHANGED <<call, counters, written>>
    BY <1>6 DEF Relay
  <2>2. /\ id = <<s, voiced[s]>> /\ id[1] = s /\ id[2] = voiced[s] /\ call[s] = Relaying
    BY <1>0, <2>1 DEF PendingIds
  <2>3. /\ Voice(id) \in Envelope /\ Voice(id).type = "voice" /\ Voice(id).from = s
        /\ Voice(id).n = voiced[s]
    BY <2>2, VoiceEnvelope
  <2>4. ASSUME NEW e \in ToSet(inbox[t]), e.type = "voice", e.from = s PROVE e.n < voiced[s]
    BY <2>1, <2>4 DEF HeardInv, VoiceHeard
  <2>5. \A u \in Sid : pending'[u] \subseteq pending[u]
    BY <1>0, <2>1 DEF TypeOK
  <2>6. \A x \in VoiceId : <<t, x>> \notin pending'[s]
    <3>1. pending[s] \subseteq Sid \X {id} /\ pending'[s] = pending[s] \ {<<t, id>>}
      BY <1>0, <2>1, <2>2 DEF PendingIds, TypeOK
    <3>2. QED
      BY <3>1
  <2>7. call'[s].at # "checking"
    BY <1>0, <2>1, <2>2
  <2>8. voiced[s] <= voiced[s]
    BY <1>0
  <2>9. QED
    BY <2>1, <2>3, <2>4, <2>5, <2>6, <2>7, <2>8, HeardGrows
<1>7. ASSUME NEW s \in Sid, AckForward(s) PROVE HeardInv'
  <2>1. /\ call[s].at = "forwarding" /\ call' = [call EXCEPT ![s] = Idle]
        /\ UNCHANGED <<pending, counters, written>>
    BY <1>7 DEF AckForward
  <2>2. /\ \A u \in Sid : u # s => call'[u] = call[u]
        /\ call'[s].at = "idle"
    BY <1>0, <2>1 DEF TypeOK
  <2>3. CASE InClients(call[s].to)
    <3> DEFINE env == Ack(s, call[s].id, acked[s])
    <3>1. Enqueue(call[s].to, env)
      BY <1>7, <2>3 DEF AckForward
    <3>2. /\ call[s].to \in Sid /\ env \in Envelope /\ env.type = "ack" /\ env.from = s /\ env.n = acked[s]
      <4>1. call[s].id \in VoiceId /\ call[s].to \in Sid
        BY <1>0, <2>1, CallFields DEF TypeOK
      <4>2. acked[s] \in 1 .. MaxAcks
        BY <1>0, <2>1 DEF TypeOK, CountersOK
      <4>3. QED
        BY <4>1, <4>2, AckEnvelope
    <3> HIDE DEF env
    <3>3. ASSUME NEW e \in ToSet(inbox[call[s].to]), e.type = "ack", e.from = s PROVE e.n < acked[s]
      BY <2>1, <3>2, <3>3 DEF HeardInv, AckHeard
    <3>4. acked[s] <= acked[s]
      BY <1>0
    <3>5. QED
      BY <2>1, <2>2, <3>1, <3>2, <3>3, <3>4, HeardGrows
  <2>4. CASE ~InClients(call[s].to)
    <3>1. UNCHANGED inbox
      BY <1>7, <2>4 DEF AckForward
    <3>2. QED
      BY <2>1, <2>2, <3>1, HeardMoves
  <2>5. QED
    BY <2>3, <2>4
<1>8. ASSUME NEW s \in Sid, \/ Write(s) \/ Leave(s) \/ Disconnect(s) \/ RemoveFromRoom(s)
                            \/ RemoveFromMap(s) \/ \E r \in Room : Enter(s, r)
      PROVE  HeardInv'
  <2>1. UNCHANGED <<call, pending, counters, inbox>>
    BY <1>8 DEF Write, Leave, Disconnect, RemoveFromRoom, RemoveFromMap, Enter
  <2>2. QED
    BY <2>1, HeardMoves
<1>9. CASE UNCHANGED vars
  BY <1>9, HeardMoves DEF vars, counters
<1>10. QED
  BY <1>1, <1>2, <1>3, <1>4, <1>5, <1>6, <1>7, <1>8, <1>9 DEF Next
-----------------------------------------------------------------------------
(* Whom a voice event was looked up for.                                   *)

\* A step that looks nobody up, ends no enqueueing and brings no client back.
LEMMA SilencedStutter ==
    ASSUME NobodySilenced, TypeOK, UNCHANGED <<pending, inbox, audience>>,
           \A s \in Sid : client'[s] = "in" => client[s] = "in"
    PROVE  NobodySilenced'
<1>1. \A id \in VoiceId : id[1] \in Sid /\ audience[id] \subseteq Sid
  BY VoiceIds DEF TypeOK
<1>2. QED
  BY <1>1 DEF NobodySilenced

LEMMA SilencedStep == Typed /\ Pointed /\ NobodySilenced /\ [Next]_vars => NobodySilenced'
<1> SUFFICES ASSUME Typed, Pointed, NobodySilenced, [Next]_vars PROVE NobodySilenced'
  OBVIOUS
<1>0. TypeOK /\ CountersOK /\ CallIds /\ PendingIds
  BY DEF Typed, Pointed
<1>1. ASSUME NEW s \in Sid, VoiceLookUp(s) PROVE NobodySilenced'
  <2> DEFINE recipients == {t \in Dir!Members(call[s].room) \ {s} : InClients(t)}
  <2>1. /\ pending' = [pending EXCEPT ![s] = @ \cup (recipients \X {call[s].id})]
        /\ audience' = [audience EXCEPT ![call[s].id] = recipients]
        /\ UNCHANGED <<client, inbox>>
        /\ call[s].at = "checking"
    BY <1>1 DEF VoiceLookUp
  <2> HIDE DEF recipients
  <2>2. call[s].id \in VoiceId /\ call[s].id = <<s, voiced[s]>>
    BY <1>0, <2>1, CallFields DEF TypeOK, CallIds
  <2>3. ASSUME NEW id \in VoiceId, NEW t \in audience'[id]
        PROVE  <<t, id>> \in pending'[id[1]] \/ Voice(id) \in ToSet(inbox[t]) \/ client[t] # "in"
    <3>1. CASE id = call[s].id
      <4>1. t \in recipients /\ id[1] = s
        BY <1>0, <2>1, <2>2, <2>3, <3>1 DEF TypeOK
      <4>2. <<t, id>> \in pending'[s]
        BY <1>0, <2>1, <3>1, <4>1 DEF TypeOK
      <4>3. QED
        BY <4>1, <4>2
    <3>2. CASE id # call[s].id
      <4>1. t \in audience[id]
        BY <1>0, <2>1, <2>3, <3>2 DEF TypeOK
      <4>2. id[1] \in Sid /\ pending[id[1]] \subseteq pending'[id[1]]
        BY <1>0, <2>1, VoiceIds DEF TypeOK
      <4>3. QED
        BY <4>1, <4>2 DEF NobodySilenced
    <3>3. QED
      BY <3>1, <3>2
  <2>4. QED
    BY <2>1, <2>3 DEF NobodySilenced
<1>2. ASSUME NEW t \in Sid, NEW env \in Envelope, Enqueue(t, env), UNCHANGED audience,
             \A id \in VoiceId, u \in Sid :
                 <<u, id>> \in pending[id[1]] => \/ <<u, id>> \in pending'[id[1]]
                                                 \/ u = t /\ env = Voice(id)
      PROVE  NobodySilenced'
  <2>1. /\ \A u \in Sid : client'[u] = "in" => client[u] = "in"
        /\ \A u \in Sid : \/ inbox'[u] = inbox[u]
                          \/ u = t /\ inbox'[u] = Append(inbox[u], env)
        /\ env \in ToSet(inbox'[t]) \/ client'[t] # "in"
    BY <1>0, <1>2, EnqueueFacts
  <2>2. ASSUME NEW u \in Sid PROVE ToSet(inbox[u]) \subseteq ToSet(inbox'[u])
    <3>1. inbox[u] \in Seq(Envelope)
      BY <1>0 DEF TypeOK
    <3>2. QED
      BY <1>2, <2>1, <3>1, ToSetGrows
  <2>3. ASSUME NEW id \in VoiceId, NEW u \in audience[id]
        PROVE  <<u, id>> \in pending'[id[1]] \/ Voice(id) \in ToSet(inbox'[u]) \/ client'[u] # "in"
    <3>1. u \in Sid
      BY <1>0 DEF TypeOK
    <3>2. <<u, id>> \in pending[id[1]] \/ Voice(id) \in ToSet(inbox[u]) \/ client[u] # "in"
      BY DEF NobodySilenced
    <3>3. QED
      BY <1>2, <2>1, <2>2, <3>1, <3>2
  <2>4. QED
    BY <1>2, <2>3 DEF NobodySilenced
<1>3. ASSUME NEW s \in Sid, NEW t \in Sid, NEW id \in VoiceId, Relay(s, t, id) PROVE NobodySilenced'
  <2>1. /\ pending' = [pending EXCEPT ![s] = @ \ {<<t, id>>}]
        /\ Enqueue(t, Voice(id)) /\ UNCHANGED audience
        /\ Voice(id) \in Envelope
    BY <1>3, VoiceEnvelope DEF Relay
  <2>2. \A x \in VoiceId, u \in Sid :
            <<u, x>> \in pending[x[1]] => \/ <<u, x>> \in pending'[x[1]]
                                          \/ u = t /\ Voice(id) = Voice(x)
    BY <1>0, <2>1, VoiceIds DEF TypeOK
  <2>3. QED
    BY <1>2, <2>1, <2>2
<1>4. ASSUME NEW s \in Sid, AckForward(s) PROVE NobodySilenced'
  <2>1. call[s].at = "forwarding" /\ UNCHANGED <<pending, audience>>
    BY <1>4 DEF AckForward
  <2>2. CASE InClients(call[s].to)
    <3>1. call[s].id \in VoiceId /\ call[s].to \in Sid /\ acked[s] \in 1 .. MaxAcks
      BY <1>0, <2>1, CallFields DEF TypeOK, CountersOK
    <3>2. Ack(s, call[s].id, acked[s]) \in Envelope
      BY <3>1, AckEnvelope
    <3>3. Enqueue(call[s].to, Ack(s, call[s].id, acked[s]))
      BY <1>4, <2>2 DEF AckForward
    <3>4. QED
      BY <1>2, <2>1, <3>1, <3>2, <3>3
  <2>3. CASE ~InClients(call[s].to)
    BY <1>0, <1>4, <2>1, <2>3, SilencedStutter DEF AckForward
  <2>4. QED
    BY <2>2, <2>3
<1>5. ASSUME NEW s \in Sid,
             \/ VoiceStart(s) \/ VoiceRefuse(s) \/ VoiceEnd(s) \/ AckLookUp(s) \/ Write(s)
             \/ Leave(s) \/ \E r \in Room : Enter(s, r)
             \/ \E t \in Sid, id \in VoiceId : AckStart(s, id, t)
      PROVE  NobodySilenced'
  <2>1. UNCHANGED <<client, pending, inbox, audience>>
    BY <1>5 DEF VoiceStart, VoiceRefuse, VoiceEnd, AckLookUp, Write, Leave, Enter, AckStart
  <2>2. QED
    BY <1>0, <2>1, SilencedStutter
<1>6. ASSUME NEW s \in Sid, Disconnect(s) \/ RemoveFromRoom(s) \/ RemoveFromMap(s) PROVE NobodySilenced'
  <2>1. UNCHANGED <<pending, inbox, audience>>
    BY <1>6 DEF Disconnect, RemoveFromRoom, RemoveFromMap
  <2>2. \A u \in Sid : client'[u] = "in" => client[u] = "in"
    BY <1>0, <1>6 DEF Disconnect, RemoveFromRoom, RemoveFromMap, Condemned, TypeOK
  <2>3. QED
    BY <1>0, <2>1, <2>2, SilencedStutter
<1>7. CASE UNCHANGED vars
  BY <1>0, <1>7, SilencedStutter DEF vars
<1>8. QED
  BY <1>1, <1>3, <1>4, <1>5, <1>6, <1>7 DEF Next
-----------------------------------------------------------------------------
(* The theorems.                                                           *)

LEMMA DeliveryInit == Init => DeliveryInv
<1> SUFFICES ASSUME Init PROVE DeliveryInv
  OBVIOUS
<1>1. \A s \in Sid : inbox[s] = <<>> /\ ToSet(inbox[s]) = {} /\ pending[s] = {} /\ call[s] = Idle
  BY DEF Init, ToSet
<1>2. CallIds /\ PendingIds
  BY <1>1, CallShapes DEF CallIds, PendingIds
<1>3. VoiceHeard /\ AckHeard
  BY <1>1 DEF VoiceHeard, AckHeard
<1>4. InOrder
  BY <1>1 DEF InOrder
<1>5. NobodySilenced
  BY DEF Init, NobodySilenced
<1>6. QED
  BY <1>2, <1>3, <1>4, <1>5, TypeInit DEF DeliveryInv, Typed

LEMMA DeliveryStep == DeliveryInv /\ [Next]_vars => DeliveryInv'
BY TypeStep, PointedStep, HeardStep, SilencedStep DEF DeliveryInv, Typed, Pointed, HeardInv

\* The inductive invariant holds in every reachable state.
LEMMA DeliveryInductive == Spec => []DeliveryInv
BY DeliveryInit, DeliveryStep, PTL DEF Spec

\* What one session relays or acknowledges reaches another in the order it was sent, and
\* nothing of it twice.
THEOREM DeliveredInOrder == Spec => []InOrder
BY DeliveryInductive, PTL DEF DeliveryInv

\* Whoever a voice event was looked up for is about to get it, has got it or has lost its
\* connection, whatever becomes of the other recipients.
THEOREM NobodyIsSilenced == Spec => []NobodySilenced
BY DeliveryInductive, PTL DEF DeliveryInv
=============================================================================
