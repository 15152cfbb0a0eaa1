--------------------------- MODULE SessionsProofs ---------------------------
(***************************************************************************)
(* Theorems about Sessions for any number of sessions and any capacity of  *)
(* the queues and buffers: type correctness, and that Send channels are    *)
(* closed at most once, that none stays open with nobody to close it, and  *)
(* that every registered client is watched.                                *)
(*                                                                         *)
(* What makes the invariant inductive is that a session id is used once:   *)
(* a session that has not connected has no Send channel (Fresh), so it can *)
(* be in no queue and no map when handleWS registers it.                   *)
(***************************************************************************)
EXTENDS Sessions, SequenceTheorems, TLAPS

Fresh == \A s \in Sid : conn[s] = "none" => s \notin open

RegistryInv ==
    /\ TypeOK
    /\ Fresh
    /\ ClosedAtMostOnce
    /\ OpenHasCloser
    /\ EveryClientWatched
-----------------------------------------------------------------------------
(* Queues without duplicates.                                              *)

\* What a queue holds after an append, and that it still holds nothing twice.
LEMMA AppendFacts ==
    ASSUME NEW q \in Seq(Sid), NEW s \in Sid
    PROVE  /\ Append(q, s) \in Seq(Sid)
           /\ Len(Append(q, s)) = Len(q) + 1
           /\ ToSet(Append(q, s)) = ToSet(q) \cup {s}
           /\ IsInjective(q) /\ s \notin ToSet(q) => IsInjective(Append(q, s))
<1>1. /\ Append(q, s) \in Seq(Sid) /\ Len(Append(q, s)) = Len(q) + 1
      /\ \A i \in 1 .. Len(q) : Append(q, s)[i] = q[i]
      /\ Append(q, s)[Len(q) + 1] = s
  BY AppendProperties
<1>2. /\ Len(q) \in Nat /\ DOMAIN q = 1 .. Len(q)
      /\ DOMAIN Append(q, s) = 1 .. (Len(q) + 1)
  BY <1>1
<1>3. ToSet(Append(q, s)) = ToSet(q) \cup {s}
  BY <1>1, <1>2 DEF ToSet
<1>4. ASSUME IsInjective(q), s \notin ToSet(q) PROVE IsInjective(Append(q, s))
  BY <1>1, <1>2, <1>4 DEF IsInjective, ToSet
<1>5. QED
  BY <1>1, <1>3, <1>4

\* What a queue holds after its head is taken.
LEMMA TailFacts ==
    ASSUME NEW q \in Seq(Sid), q # <<>>
    PROVE  /\ Head(q) \in Sid /\ Tail(q) \in Seq(Sid) /\ Len(Tail(q)) = Len(q) - 1
           /\ Len(q) \in Nat
           /\ ToSet(q) = {Head(q)} \cup ToSet(Tail(q))
           /\ IsInjective(q) => IsInjective(Tail(q)) /\ Head(q) \notin ToSet(Tail(q))
<1>1. /\ Head(q) \in Sid /\ Tail(q) \in Seq(Sid) /\ Len(Tail(q)) = Len(q) - 1
      /\ \A i \in 1 .. Len(Tail(q)) : Tail(q)[i] = q[i + 1]
  BY HeadTailProperties
<1>2. /\ Len(q) \in Nat \ {0} /\ DOMAIN q = 1 .. Len(q)
      /\ DOMAIN Tail(q) = 1 .. (Len(q) - 1)
      /\ Head(q) = q[1]
  BY <1>1
<1>3. ToSet(q) = {Head(q)} \cup ToSet(Tail(q))
  <2>1. ASSUME NEW i \in DOMAIN q PROVE q[i] \in {Head(q)} \cup ToSet(Tail(q))
    <3>1. CASE i = 1
      BY <1>2, <3>1
    <3>2. CASE i # 1
      <4>1. i - 1 \in 1 .. (Len(q) - 1) /\ (i - 1) + 1 = i
        BY <1>2, <3>2
      <4>2. Tail(q)[i - 1] = q[i]
        BY <1>1, <1>2, <4>1
      <4>3. QED
        BY <1>2, <4>1, <4>2 DEF ToSet
    <3>3. QED
      BY <3>1, <3>2
  <2>2. ASSUME NEW i \in DOMAIN Tail(q) PROVE Tail(q)[i] \in ToSet(q)
    BY <1>1, <1>2 DEF ToSet
  <2>3. Head(q) \in ToSet(q)
    BY <1>2 DEF ToSet
  <2>4. QED
    BY <2>1, <2>2, <2>3 DEF ToSet
<1>4. ASSUME IsInjective(q) PROVE IsInjective(Tail(q)) /\ Head(q) \notin ToSet(Tail(q))
  <2>1. ASSUME NEW i \in DOMAIN Tail(q), NEW j \in DOMAIN Tail(q), Tail(q)[i] = Tail(q)[j]
        PROVE  i = j
    <3>1. /\ i + 1 \in DOMAIN q /\ j + 1 \in DOMAIN q /\ i \in Nat /\ j \in Nat
          /\ q[i + 1] = q[j + 1]
      BY <1>1, <1>2, <2>1
    <3>2. i + 1 = j + 1
      BY <1>4, <3>1 DEF IsInjective
    <3>3. QED
      BY <3>1, <3>2
  <2>2. ASSUME NEW i \in DOMAIN Tail(q), Tail(q)[i] = Head(q) PROVE FALSE
    <3>1. i + 1 \in DOMAIN q /\ 1 \in DOMAIN q /\ i + 1 # 1 /\ q[i + 1] = q[1]
      BY <1>1, <1>2, <2>2
    <3>2. QED
      BY <1>4, <3>1 DEF IsInjective
  <2>3. QED
    BY <2>1, <2>2 DEF IsInjective, ToSet
<1>5. QED
  BY <1>1, <1>2, <1>3, <1>4
-----------------------------------------------------------------------------
(* Type correctness.                                                       *)

\* Every step keeps the types and the capacities of the queues and the buffers.
LEMMA TypeStep == TypeOK /\ [Next]_vars => TypeOK'
<1> SUFFICES ASSUME TypeOK, [Next]_vars PROVE TypeOK'
  OBVIOUS
<1> USE DEF TypeOK, pumps, queues, registry, traffic, hub
<1>1. ASSUME NEW s \in Sid, HandleWS(s) PROVE TypeOK'
  <2>1. registerQ' \in Seq(Sid) /\ Len(registerQ') <= QueueCap
    BY <1>1, AppendFacts, QueueAssumption DEF HandleWS
  <2>2. QED
    BY <1>1, <2>1 DEF HandleWS
<1>2. CASE AddClient
  <2>1. Head(registerQ) \in Sid /\ registerQ' \in Seq(Sid) /\ Len(registerQ') <= QueueCap
    BY <1>2, TailFacts, QueueAssumption DEF AddClient
  <2>2. QED
    BY <1>2, <2>1 DEF AddClient
<1>3. CASE Greet
  BY <1>3 DEF Greet
<1>4. ASSUME NEW recipients \in SUBSET clients, LookUp(recipients) PROVE TypeOK'
  BY <1>4 DEF LookUp
<1>5. ASSUME NEW s \in Sid, Enqueue(s) PROVE TypeOK'
  <2>1. buffer' \in [Sid -> 0 .. SendCap]
    <3>1. buffer[s] < SendCap => buffer[s] + 1 \in 0 .. SendCap
      BY SendAssumption
    <3>2. QED
      BY <1>5, <3>1 DEF Enqueue
  <2>2. QED
    BY <1>5, <2>1 DEF Enqueue
<1>6. ASSUME NEW s \in Sid, QualityPing(s) PROVE TypeOK'
  BY <1>6 DEF QualityPing
<1>7. CASE RemoveUnregistered
  <2>1. /\ Head(unregisterQ) \in Sid /\ unregisterQ' \in Seq(Sid) /\ Len(unregisterQ') <= QueueCap
    BY <1>7, TailFacts, QueueAssumption DEF RemoveUnregistered
  <2>2. QED
    BY <1>7, <2>1 DEF RemoveUnregistered, TakeOut
<1>8. ASSUME NEW s \in Sid, RemoveDoomed(s) PROVE TypeOK'
  BY <1>8 DEF RemoveDoomed, TakeOut
<1>9. ASSUME NEW s \in Sid, CloseSend(s) PROVE TypeOK'
  BY <1>9 DEF CloseSend
<1>10. ASSUME NEW s \in Sid, WriteNext(s) PROVE TypeOK'
  <2>1. buffer' \in [Sid -> 0 .. SendCap]
    <3>1. buffer[s] > 0 => buffer[s] - 1 \in 0 .. SendCap
      BY SendAssumption
    <3>2. QED
      BY <1>10, <3>1 DEF WriteNext
  <2>2. QED
    BY <1>10, <2>1 DEF WriteNext
<1>11. ASSUME NEW s \in Sid, WriteClose(s) PROVE TypeOK'
  BY <1>11 DEF WriteClose
<1>12. ASSUME NEW s \in Sid, PingFails(s) PROVE TypeOK'
  BY <1>12 DEF PingFails
<1>13. ASSUME NEW s \in Sid, ReadPumpExit(s) PROVE TypeOK'
  <2>1. unregisterQ' \in Seq(Sid) /\ Len(unregisterQ') <= QueueCap
    <3>1. CASE Len(unregisterQ) < QueueCap
      <4>1. unregisterQ' = Append(unregisterQ, s)
        BY <1>13, <3>1 DEF ReadPumpExit
      <4>2. QED
        BY <3>1, <4>1, AppendFacts, QueueAssumption
    <3>2. CASE ~(Len(unregisterQ) < QueueCap)
      BY <1>13, <3>2 DEF ReadPumpExit
    <3>3. QED
      BY <3>1, <3>2
  <2>2. QED
    BY <1>13, <2>1 DEF ReadPumpExit
<1>14. ASSUME NEW s \in Sid, Lose(s) PROVE TypeOK'
  BY <1>14 DEF Lose
<1>15. CASE RunReturns
  BY <1>15 DEF RunReturns
<1>16. CASE Close
  BY <1>16 DEF Close
<1>17. CASE UNCHANGED vars
  BY <1>17 DEF vars
<1>18. QED
  BY <1>1, <1>2, <1>3, <1>4, <1>5, <1>6, <1>7, <1>8, <1>9, <1>10, <1>11, <1>12, <1>13, <1>14,
     <1>15, <1>16, <1>17 DEF Next

\* A new hub is well-typed.
LEMMA TypeInit == Init => TypeOK
<1> SUFFICES ASSUME Init PROVE TypeOK
  OBVIOUS
<1>1. <<>> \in Seq(Sid) /\ Len(<<>>) <= QueueCap
  BY QueueAssumption
<1>2. 0 \in 0 .. SendCap
  BY SendAssumption
<1>3. buffer \in [Sid -> 0 .. SendCap] /\ registerQ = <<>> /\ unregisterQ = <<>>
  BY <1>2 DEF Init
<1>4. QED
  BY <1>1, <1>3 DEF Init, TypeOK

\* Every variable keeps its type; in particular no queue and no buffer ever holds more than
\* its capacity.
THEOREM TypeCorrect == Spec => []TypeOK
BY TypeInit, TypeStep, PTL DEF Spec
-----------------------------------------------------------------------------
(* Who may close a Send channel.                                           *)

\* The part of the invariant about the four places a client can be in.
Places == /\ ClosedAtMostOnce
          /\ OpenHasCloser

\* A step that leaves the register queue, the map, closing and the channels alone.
LEMMA PlacesStutter ==
    ASSUME Places, UNCHANGED <<registerQ, clients, closing, open>>
    PROVE  Places'
BY DEF Places, ClosedAtMostOnce, OpenHasCloser, Queued

\* removeClient moves a client from the map to closing, or does nothing.
LEMMA TakeOutFacts ==
    ASSUME Places, NEW s \in Sid, TakeOut(s), UNCHANGED <<registerQ, open>>
    PROVE  Places' /\ clients' \subseteq clients
<1>1. Queued' = Queued /\ IsInjective(registerQ')
  BY DEF Places, ClosedAtMostOnce, Queued
<1>2. QED
  BY <1>1 DEF Places, ClosedAtMostOnce, OpenHasCloser, TakeOut

\* A new hub satisfies the inductive invariant.
LEMMA RegistryInit == Init => RegistryInv
<1> SUFFICES ASSUME Init PROVE RegistryInv
  OBVIOUS
<1>1. Queued = {} /\ IsInjective(registerQ)
  BY DEF Init, Queued, ToSet, IsInjective
<1>2. QED
  BY <1>1, TypeInit DEF Init, RegistryInv, Fresh, ClosedAtMostOnce, OpenHasCloser, EveryClientWatched

\* Every step preserves the inductive invariant.
LEMMA RegistryStep == RegistryInv /\ [Next]_vars => RegistryInv'
<1> SUFFICES ASSUME RegistryInv, [Next]_vars PROVE RegistryInv'
  OBVIOUS
<1>0. TypeOK /\ TypeOK' /\ Fresh /\ Places /\ EveryClientWatched
  BY TypeStep DEF RegistryInv, Places
<1> SUFFICES Fresh' /\ Places' /\ EveryClientWatched'
  BY <1>0 DEF RegistryInv, Places
<1> USE DEF pumps, queues, registry, traffic, hub
<1>1. ASSUME NEW s \in Sid, HandleWS(s)
      PROVE  Fresh' /\ Places' /\ EveryClientWatched'
  <2>1. s \notin open /\ s \notin Queued /\ s \notin clients /\ s \notin closing
    BY <1>0, <1>1 DEF HandleWS, Fresh, Places, ClosedAtMostOnce
  <2>2. CASE ~closed /\ Len(registerQ) < QueueCap
    <3>1. open' = open \cup {s} /\ registerQ' = Append(registerQ, s) /\ UNCHANGED <<clients, closing>>
      BY <1>1, <2>2 DEF HandleWS
    <3>2. Queued' = Queued \cup {s} /\ IsInjective(registerQ')
      BY <1>0, <2>1, <3>1, AppendFacts DEF TypeOK, Queued, Places, ClosedAtMostOnce
    <3>3. QED
      BY <1>0, <1>1, <2>1, <3>1, <3>2
         DEF TypeOK, HandleWS, Fresh, Places, ClosedAtMostOnce, OpenHasCloser, EveryClientWatched
  <2>3. CASE ~(~closed /\ Len(registerQ) < QueueCap)
    <3>1. UNCHANGED <<open, registerQ, clients, closing>>
      BY <1>1, <2>3 DEF HandleWS
    <3>2. QED
      BY <1>0, <1>1, <3>1, PlacesStutter DEF TypeOK, HandleWS, Fresh, EveryClientWatched
  <2>4. QED
    BY <2>2, <2>3
<1>2. CASE AddClient
  <2> DEFINE s == Head(registerQ)
  <2>1. /\ s \in Sid /\ Queued = {s} \cup Queued' /\ s \notin Queued' /\ IsInjective(registerQ')
    BY <1>0, <1>2, TailFacts DEF AddClient, TypeOK, Queued, Places, ClosedAtMostOnce
  <2>2. Places'
    <3> HIDE DEF s
    <3>1. CASE closed
      <4>1. open' = open \ {s} /\ UNCHANGED <<clients, closing>>
        BY <1>2, <3>1 DEF AddClient, s
      <4>2. QED
        BY <1>0, <2>1, <4>1 DEF Places, ClosedAtMostOnce, OpenHasCloser
    <3>2. CASE ~closed
      <4>1. clients' = clients \cup {s} /\ UNCHANGED <<open, closing>>
        BY <1>2, <3>2 DEF AddClient, s
      <4>2. QED
        BY <1>0, <2>1, <4>1 DEF Places, ClosedAtMostOnce, OpenHasCloser
    <3>3. QED
      BY <3>1, <3>2
  <2>3. Fresh' /\ EveryClientWatched'
    <3> HIDE DEF s
    <3>1. /\ UNCHANGED <<conn, watch>>
          /\ open' \subseteq open
          /\ \A t \in clients' : t \in clients \/ (t = s /\ greeting' = s)
          /\ \A t \in Sid : greeting # t
      BY <1>2, NilAssumption DEF AddClient, s
    <3>2. Fresh'
      BY <1>0, <3>1 DEF Fresh
    <3>3. \A t \in clients : watch[t] = "running"
      BY <1>0, <3>1 DEF EveryClientWatched, TypeOK
    <3>4. \A t \in clients' : watch'[t] = "running" \/ greeting' = t
      BY <3>1, <3>3
    <3>5. QED
      BY <3>2, <3>4 DEF EveryClientWatched
  <2>4. QED
    BY <2>2, <2>3
<1>3. CASE Greet
  <2>1. Fresh' /\ Places'
    BY <1>0, <1>3, PlacesStutter DEF Greet, Fresh
  <2>2. EveryClientWatched'
    BY <1>0, <1>3 DEF Greet, EveryClientWatched, TypeOK
  <2>3. QED
    BY <2>1, <2>2
<1>4. ASSUME NEW recipients \in SUBSET clients, LookUp(recipients)
      PROVE  Fresh' /\ Places' /\ EveryClientWatched'
  BY <1>0, <1>4, PlacesStutter DEF LookUp, Fresh, EveryClientWatched
<1>5. ASSUME NEW s \in Sid, Enqueue(s)
      PROVE  Fresh' /\ Places' /\ EveryClientWatched'
  BY <1>0, <1>5, PlacesStutter DEF Enqueue, Fresh, EveryClientWatched
<1>6. ASSUME NEW s \in Sid, QualityPing(s)
      PROVE  Fresh' /\ Places' /\ EveryClientWatched'
  <2>1. Fresh' /\ Places'
    BY <1>0, <1>6, PlacesStutter DEF QualityPing, Fresh
  <2>2. EveryClientWatched'
    BY <1>0, <1>6 DEF QualityPing, EveryClientWatched, TypeOK
  <2>3. QED
    BY <2>1, <2>2
<1>7. CASE RemoveUnregistered
  <2>1. Head(unregisterQ) \in Sid
    BY <1>0, <1>7, TailFacts DEF RemoveUnregistered, TypeOK
  <2>2. Places' /\ clients' \subseteq clients
    BY <1>0, <1>7, <2>1, TakeOutFacts DEF RemoveUnregistered
  <2>3. QED
    BY <1>0, <1>7, <2>2 DEF RemoveUnregistered, Fresh, EveryClientWatched
<1>8. ASSUME NEW s \in Sid, RemoveDoomed(s)
      PROVE  Fresh' /\ Places' /\ EveryClientWatched'
  <2>1. Places' /\ clients' \subseteq clients
    BY <1>0, <1>8, TakeOutFacts DEF RemoveDoomed
  <2>2. QED
    BY <1>0, <1>8, <2>1 DEF RemoveDoomed, Fresh, EveryClientWatched
<1>9. ASSUME NEW s \in Sid, CloseSend(s)
      PROVE  Fresh' /\ Places' /\ EveryClientWatched'
  <2>1. Queued' = Queued /\ IsInjective(registerQ')
    BY <1>0, <1>9 DEF CloseSend, Queued, Places, ClosedAtMostOnce
  <2>2. Places'
    BY <1>0, <1>9, <2>1 DEF CloseSend, Places, ClosedAtMostOnce, OpenHasCloser
  <2>3. QED
    BY <1>0, <1>9, <2>2 DEF CloseSend, Fresh, EveryClientWatched
<1>10. ASSUME NEW s \in Sid, UNCHANGED <<registerQ, clients, closing, open, watch, greeting>>,
              \A t \in Sid : conn'[t] = "none" => conn[t] = "none"
       PROVE  Fresh' /\ Places' /\ EveryClientWatched'
  BY <1>0, <1>10, PlacesStutter DEF Fresh, EveryClientWatched
<1>11. ASSUME NEW s \in Sid, WriteNext(s) \/ WriteClose(s) \/ PingFails(s) \/ ReadPumpExit(s) \/ Lose(s)
       PROVE  Fresh' /\ Places' /\ EveryClientWatched'
  <2>1. UNCHANGED <<registerQ, clients, closing, open, watch, greeting>>
    BY <1>11 DEF WriteNext, WriteClose, PingFails, ReadPumpExit, Lose
  <2>2. \A t \in Sid : conn'[t] = "none" => conn[t] = "none"
    BY <1>0, <1>11 DEF WriteNext, WriteClose, PingFails, ReadPumpExit, Lose, TypeOK
  <2>3. QED
    BY <1>10, <2>1, <2>2
<1>12. CASE RunReturns
  BY <1>0, <1>12, PlacesStutter DEF RunReturns, Fresh, EveryClientWatched
<1>13. CASE Close
  <2>1. Queued' = Queued /\ IsInjective(registerQ')
    BY <1>0, <1>13 DEF Close, Queued, Places, ClosedAtMostOnce
  <2>2. Places'
    BY <1>0, <1>13, <2>1 DEF Close, Places, ClosedAtMostOnce, OpenHasCloser
  <2>3. QED
    BY <1>0, <1>13, <2>2 DEF Close, Fresh, EveryClientWatched
<1>14. CASE UNCHANGED vars
  BY <1>0, <1>14, PlacesStutter DEF vars, Fresh, EveryClientWatched
<1>15. QED
  BY <1>1, <1>2, <1>3, <1>4, <1>5, <1>6, <1>7, <1>8, <1>9, <1>11, <1>12, <1>13, <1>14 DEF Next

\* The inductive invariant holds in every reachable state.
LEMMA RegistryInductive == Spec => []RegistryInv
BY RegistryInit, RegistryStep, PTL DEF Spec

\* No Send channel is closed twice or while its client is still in the map or a queue.
THEOREM NeverClosedTwice == Spec => []ClosedAtMostOnce
BY RegistryInductive, PTL DEF RegistryInv

\* No Send channel is open with nobody left to close it.
THEOREM NoLeakedChannel == Spec => []OpenHasCloser
BY RegistryInductive, PTL DEF RegistryInv

\* Every registered client has a quality loop, or is about to get one.
THEOREM ClientsAreWatched == Spec => []EveryClientWatched
BY RegistryInductive, PTL DEF RegistryInv
=============================================================================
