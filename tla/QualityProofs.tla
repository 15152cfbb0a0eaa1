---------------------------- MODULE QualityProofs ----------------------------
(***************************************************************************)
(* Theorems about Quality for windows of any size and any number of pings: *)
(* type correctness, that a ping is answered or dropped once and never     *)
(* both, and that the two windows of the score agree.                      *)
(*                                                                         *)
(* That the windows agree rests on their ages: a round trip time is never  *)
(* followed by more others than the outcome of the same ping is            *)
(* (AnswersKept), so it cannot be the first of the two to drop out of its  *)
(* window.                                                                 *)
(***************************************************************************)
EXTENDS Quality, SequenceTheorems, TLAPS

\* Both windows are about pings that have been sent and are settled; nothing is waited for
\* without an entry in the hub.
SentAndSettled ==
    /\ ~present => waiting = {}
    /\ \A i \in DOMAIN rtts : rtts[i] \in 1 .. sent /\ rtts[i] \notin waiting
    /\ \A i \in DOMAIN cycles : cycles[i].ping \in 1 .. sent

\* The round trip time of an answered ping is followed by no more others than its outcome is.
AnswersKept ==
    \A i \in DOMAIN cycles : cycles[i].ok =>
        \E j \in DOMAIN rtts : rtts[j] = cycles[i].ping /\ Len(rtts) + i <= Len(cycles) + j

DropsHaveNone == \A i \in DOMAIN cycles : ~cycles[i].ok => cycles[i].ping \notin ToSet(rtts)

QualityInv == TypeOK /\ SettledOnce /\ SentAndSettled /\ AnswersKept /\ DropsHaveNone
-----------------------------------------------------------------------------
(* What appendBounded returns.                                             *)

\* A window r is another one, q, with an entry e more and its first k entries gone.
Shifted(r, q, e, k) ==
    /\ k = 1 => Len(q) = Window
    /\ Len(r) + k = Len(q) + 1
    /\ r[Len(r)] = e
    /\ \A i \in 1 .. (Len(r) - 1) : i + k \in 1 .. Len(q) /\ r[i] = q[i + k]

\* The new entry comes last; the others stay, but for the first one when the window is full.
LEMMA AppendBoundedFacts ==
    ASSUME NEW S, NEW q \in Seq(S), Len(q) <= Window, NEW e \in S
    PROVE  /\ AppendBounded(q, e) \in Seq(S)
           /\ Len(q) \in Nat
           /\ Len(AppendBounded(q, e)) \in 1 .. Window
           /\ Shifted(AppendBounded(q, e), q, e, 0) \/ Shifted(AppendBounded(q, e), q, e, 1)
<1> DEFINE all == Append(q, e)
           r == AppendBounded(q, e)
<1>1. /\ all \in Seq(S) /\ Len(all) = Len(q) + 1 /\ Len(q) \in Nat
      /\ \A i \in 1 .. Len(q) : all[i] = q[i]
      /\ all[Len(q) + 1] = e
  BY AppendProperties
<1>2. \A i \in 1 .. (Len(q) + 1) : all[i] \in S
  BY <1>1
<1> HIDE DEF all
<1>3. r = IF Len(all) > Window THEN SubSeq(all, Len(all) - Window + 1, Len(all)) ELSE all
  BY DEF AppendBounded, all
<1> HIDE DEF r
<1>4. CASE Len(q) = Window
  <2>1. r = SubSeq(all, 2, Window + 1)
    BY <1>1, <1>3, <1>4, WindowAssumption
  <2>2. \A i \in 2 .. (Window + 1) : all[i] \in S
    BY <1>2, <1>4, WindowAssumption
  <2>3. /\ r \in Seq(S) /\ Len(r) = IF 2 <= Window + 1 THEN (Window + 1) - 2 + 1 ELSE 0
        /\ \A i \in 1 .. ((Window + 1) - 2 + 1) : r[i] = all[2 + i - 1]
    BY <2>1, <2>2, SubSeqProperties, WindowAssumption
  <2>4. Len(r) = Window /\ \A i \in 1 .. Window : r[i] = all[i + 1]
    BY <2>3, WindowAssumption
  <2>5. r[Window] = e
    BY <1>1, <1>4, <2>4, WindowAssumption
  <2>6. \A i \in 1 .. (Window - 1) : i + 1 \in 1 .. Len(q) /\ r[i] = q[i + 1]
    BY <1>1, <1>4, <2>4, WindowAssumption
  <2>7. Len(r) + 1 = Len(q) + 1 /\ Len(r) \in 1 .. Window
    BY <1>4, <2>4, WindowAssumption
  <2>8. Shifted(r, q, e, 1)
    BY <1>4, <2>4, <2>5, <2>6, <2>7 DEF Shifted
  <2>9. QED
    BY <1>1, <2>3, <2>7, <2>8 DEF r
<1>5. CASE Len(q) # Window
  <2>1. r = all /\ Len(q) < Window
    BY <1>1, <1>3, <1>5, WindowAssumption
  <2>2. /\ r \in Seq(S) /\ Len(r) + 0 = Len(q) + 1 /\ Len(r) \in 1 .. Window /\ r[Len(r)] = e
    BY <1>1, <2>1, WindowAssumption
  <2>3. \A i \in 1 .. (Len(r) - 1) : i + 0 \in 1 .. Len(q) /\ r[i] = q[i + 0]
    BY <1>1, <2>1
  <2>4. Shifted(r, q, e, 0)
    BY <2>2, <2>3 DEF Shifted
  <2>5. QED
    BY <1>1, <2>2, <2>4 DEF r
<1>6. QED
  BY <1>4, <1>5

\* The entries of the new window, by position from its end.
LEMMA NewEntries ==
    ASSUME NEW S, NEW q \in Seq(S), Len(q) <= Window, NEW e \in S,
           NEW i \in DOMAIN AppendBounded(q, e)
    PROVE  \/ i = Len(AppendBounded(q, e)) /\ AppendBounded(q, e)[i] = e
           \/ /\ i # Len(AppendBounded(q, e))
              /\ \E j \in DOMAIN q : /\ AppendBounded(q, e)[i] = q[j]
                                     /\ Len(q) + 1 + i = Len(AppendBounded(q, e)) + j
<1> DEFINE r == AppendBounded(q, e)
<1>1. /\ r \in Seq(S) /\ Len(q) \in Nat /\ Len(r) \in 1 .. Window
      /\ Shifted(r, q, e, 0) \/ Shifted(r, q, e, 1)
  BY AppendBoundedFacts
<1> HIDE DEF r
<1>2. i \in 1 .. Len(r)
  BY <1>1 DEF r
<1>3. CASE i = Len(r)
  BY <1>1, <1>3 DEF r, Shifted
<1>4. CASE i # Len(r)
  <2>1. PICK k \in {0, 1} : Shifted(r, q, e, k)
    BY <1>1
  <2>2. i \in 1 .. (Len(r) - 1)
    BY <1>1, <1>2, <1>4
  <2>3. i + k \in 1 .. Len(q) /\ r[i] = q[i + k] /\ Len(r) + k = Len(q) + 1
    BY <2>1, <2>2 DEF Shifted
  <2>4. Len(q) + 1 + i = Len(r) + (i + k)
    BY <1>1, <1>2, <2>3
  <2>5. QED
    BY <1>4, <2>3, <2>4 DEF r
<1>5. QED
  BY <1>3, <1>4

\* An entry with fewer than Window - 1 after it stays.
LEMMA OldEntries ==
    ASSUME NEW S, NEW q \in Seq(S), Len(q) <= Window, NEW e \in S,
           NEW j \in DOMAIN q, Len(q) + 1 < Window + j
    PROVE  \E i \in DOMAIN AppendBounded(q, e) :
               AppendBounded(q, e)[i] = q[j] /\ Len(q) + 1 + i = Len(AppendBounded(q, e)) + j
<1> DEFINE r == AppendBounded(q, e)
<1>1. /\ r \in Seq(S) /\ Len(q) \in Nat /\ Len(r) \in 1 .. Window
      /\ Shifted(r, q, e, 0) \/ Shifted(r, q, e, 1)
  BY AppendBoundedFacts
<1> HIDE DEF r
<1>2. j \in 1 .. Len(q)
  BY <1>1
<1>3. PICK k \in {0, 1} : Shifted(r, q, e, k)
  BY <1>1
<1>4. Len(r) + k = Len(q) + 1 /\ (k = 1 => Len(q) = Window)
  BY <1>3 DEF Shifted
<1>5. PICK i \in Int : i + k = j
  <2>1. j - k \in Int /\ (j - k) + k = j
    BY <1>2
  <2>2. QED
    BY <2>1
<1>6. i \in 1 .. (Len(r) - 1)
  BY <1>1, <1>2, <1>4, <1>5, WindowAssumption
<1>7. r[i] = q[j]
  BY <1>3, <1>5, <1>6 DEF Shifted
<1>8. i \in DOMAIN r /\ Len(q) + 1 + i = Len(r) + j
  <2>1. i \in DOMAIN r
    BY <1>1, <1>6
  <2>2. PICK lr \in Nat, lq \in Nat : lr = Len(r) /\ lq = Len(q)
    BY <1>1, WindowAssumption
  <2>3. lr + k = lq + 1 /\ i + k = j /\ j \in Int /\ k \in Int
    BY <1>2, <1>4, <1>5, <2>2
  <2>4. lq + 1 + i = lr + j
    BY <2>2, <2>3
  <2>5. QED
    BY <2>1, <2>2, <2>4
<1>9. QED
  BY <1>7, <1>8 DEF r

\* What a window holds after an append, as a set.
LEMMA HeldAfter ==
    ASSUME NEW S, NEW q \in Seq(S), Len(q) <= Window, NEW e \in S
    PROVE  /\ ToSet(AppendBounded(q, e)) \subseteq ToSet(q) \cup {e}
           /\ IsInjective(q) /\ e \notin ToSet(q) => IsInjective(AppendBounded(q, e))
<1> DEFINE r == AppendBounded(q, e)
<1>1. /\ r \in Seq(S) /\ Len(q) \in Nat /\ Len(r) \in 1 .. Window
  BY AppendBoundedFacts
<1>2. ASSUME NEW i \in DOMAIN r
      PROVE  \/ i = Len(r) /\ r[i] = e
             \/ i # Len(r) /\ \E j \in DOMAIN q : r[i] = q[j] /\ Len(q) + 1 + i = Len(r) + j
  BY NewEntries
<1> HIDE DEF r
<1>3. ToSet(r) \subseteq ToSet(q) \cup {e}
  BY <1>2 DEF ToSet
<1>4. ASSUME IsInjective(q), e \notin ToSet(q), NEW i \in DOMAIN r, NEW j \in DOMAIN r, r[i] = r[j]
      PROVE  i = j
  <2>1. i \in Nat /\ j \in Nat
    BY <1>1
  <2>2. CASE i = Len(r) \/ j = Len(r)
    BY <1>2, <1>4, <2>2 DEF ToSet
  <2>3. CASE i # Len(r) /\ j # Len(r)
    <3>1. PICK x \in DOMAIN q : r[i] = q[x] /\ Len(q) + 1 + i = Len(r) + x
      BY <1>2, <2>3
    <3>2. PICK y \in DOMAIN q : r[j] = q[y] /\ Len(q) + 1 + j = Len(r) + y
      BY <1>2, <2>3
    <3>3. x = y
      BY <1>4, <3>1, <3>2 DEF IsInjective
    <3>4. QED
      BY <1>1, <2>1, <3>1, <3>2, <3>3
  <2>4. QED
    BY <2>2, <2>3
<1>5. QED
  BY <1>3, <1>4 DEF r, IsInjective
-----------------------------------------------------------------------------
(* The steps.                                                              *)

\* What the model takes for granted in every state.
LEMMA Typed ==
    ASSUME TypeOK
    PROVE  /\ rtts \in Seq(Ping) /\ Len(rtts) <= Window /\ Len(rtts) \in Nat
           /\ cycles \in Seq(Cycle) /\ Len(cycles) <= Window /\ Len(cycles) \in Nat
           /\ sent \in Nat /\ sent <= MaxPings
           /\ DOMAIN rtts = 1 .. Len(rtts) /\ DOMAIN cycles = 1 .. Len(cycles)
           /\ \A i \in DOMAIN cycles : cycles[i].ok \in BOOLEAN
<1>1. rtts \in Seq(Ping) /\ Len(rtts) <= Window /\ cycles \in Seq(Cycle) /\ Len(cycles) <= Window
  BY DEF TypeOK
<1>2. /\ Len(rtts) \in Nat /\ DOMAIN rtts = 1 .. Len(rtts)
      /\ Len(cycles) \in Nat /\ DOMAIN cycles = 1 .. Len(cycles)
  BY <1>1
<1>3. \A i \in DOMAIN cycles : cycles[i] \in Cycle
  BY <1>1, <1>2
<1>4. \A i \in DOMAIN cycles : cycles[i].ok \in BOOLEAN
  BY <1>3 DEF Cycle
<1>5. sent \in Nat /\ sent <= MaxPings
  BY PingsAssumption DEF TypeOK
<1>6. QED
  BY <1>1, <1>2, <1>4, <1>5

\* A new outcome is about a ping that has none yet.
LEMMA NewOutcome ==
    ASSUME QualityInv, NEW n \in waiting, NEW ok \in BOOLEAN,
           cycles' = AppendBounded(cycles, [ping |-> n, ok |-> ok])
    PROVE  /\ cycles' \in Seq(Cycle) /\ Len(cycles') \in 1 .. Window
           /\ \A i \in DOMAIN cycles' :
                  \/ i = Len(cycles') /\ cycles'[i] = [ping |-> n, ok |-> ok]
                  \/ /\ i # Len(cycles')
                     /\ \E j \in DOMAIN cycles : /\ cycles'[i] = cycles[j]
                                                 /\ Len(cycles) + 1 + i = Len(cycles') + j
           /\ \A i, j \in DOMAIN cycles' : i # j => cycles'[i].ping # cycles'[j].ping
           /\ \A i \in DOMAIN cycles' : /\ cycles'[i].ping \in 1 .. sent
                                        /\ cycles'[i].ping \notin waiting \ {n}
<1>1. n \in 1 .. sent /\ n \in Ping /\ [ping |-> n, ok |-> ok] \in Cycle
  BY PingsAssumption DEF QualityInv, TypeOK, Ping, Cycle
<1>2. /\ cycles \in Seq(Cycle) /\ Len(cycles) <= Window /\ Len(cycles) \in Nat
      /\ \A i \in DOMAIN cycles : cycles[i].ping # n
      /\ \A i \in DOMAIN cycles : cycles[i].ping \in 1 .. sent /\ cycles[i].ping \notin waiting
      /\ \A i, j \in DOMAIN cycles : i # j => cycles[i].ping # cycles[j].ping
  BY Typed DEF QualityInv, SettledOnce, SentAndSettled
<1>3. /\ cycles' \in Seq(Cycle) /\ Len(cycles') \in 1 .. Window
  BY <1>1, <1>2, AppendBoundedFacts
<1>4. ASSUME NEW i \in DOMAIN cycles'
      PROVE  \/ i = Len(cycles') /\ cycles'[i] = [ping |-> n, ok |-> ok]
             \/ /\ i # Len(cycles')
                /\ \E j \in DOMAIN cycles : /\ cycles'[i] = cycles[j]
                                            /\ Len(cycles) + 1 + i = Len(cycles') + j
  BY <1>1, <1>2, <1>4, NewEntries
<1>5. ASSUME NEW i \in DOMAIN cycles', NEW j \in DOMAIN cycles', i # j
      PROVE  cycles'[i].ping # cycles'[j].ping
  <2>1. CASE i = Len(cycles') \/ j = Len(cycles')
    BY <1>2, <1>4, <1>5, <2>1
  <2>2. CASE i # Len(cycles') /\ j # Len(cycles')
    <3>1. PICK x \in DOMAIN cycles : cycles'[i] = cycles[x] /\ Len(cycles) + 1 + i = Len(cycles') + x
      BY <1>4, <2>2
    <3>2. PICK y \in DOMAIN cycles : cycles'[j] = cycles[y] /\ Len(cycles) + 1 + j = Len(cycles') + y
      BY <1>4, <2>2
    <3>3. x # y
      BY <1>2, <1>3, <1>5, <3>1, <3>2
    <3>4. QED
      BY <1>2, <3>1, <3>2, <3>3
  <2>3. QED
    BY <2>1, <2>2
<1>6. \A i \in DOMAIN cycles' : cycles'[i].ping \in 1 .. sent /\ cycles'[i].ping \notin waiting \ {n}
  BY <1>1, <1>2, <1>4
<1>7. QED
  BY <1>3, <1>4, <1>5, <1>6

LEMMA TimeoutStep ==
    ASSUME QualityInv, NEW n \in Ping, Timeout(n)
    PROVE  QualityInv'
<1>0. TypeOK /\ SettledOnce /\ SentAndSettled /\ AnswersKept /\ DropsHaveNone
  BY DEF QualityInv
<1>1. timers' = timers \ {n} /\ UNCHANGED <<present, looping, sent, rtts>>
  BY DEF Timeout
<1>2. CASE present /\ n \in waiting
  <2>1. waiting' = waiting \ {n} /\ cycles' = AppendBounded(cycles, [ping |-> n, ok |-> FALSE])
    BY <1>2 DEF Timeout
  <2>2. /\ cycles' \in Seq(Cycle) /\ Len(cycles') \in 1 .. Window
        /\ \A i \in DOMAIN cycles' :
               \/ i = Len(cycles') /\ cycles'[i] = [ping |-> n, ok |-> FALSE]
               \/ /\ i # Len(cycles')
                  /\ \E j \in DOMAIN cycles : /\ cycles'[i] = cycles[j]
                                              /\ Len(cycles) + 1 + i = Len(cycles') + j
        /\ \A i, j \in DOMAIN cycles' : i # j => cycles'[i].ping # cycles'[j].ping
        /\ \A i \in DOMAIN cycles' : /\ cycles'[i].ping \in 1 .. sent
                                     /\ cycles'[i].ping \notin waiting \ {n}
    BY <1>2, <2>1, NewOutcome
  <2>3. TypeOK'
    <3>1. Len(cycles') <= Window
      BY <2>2, WindowAssumption
    <3>2. QED
      BY <1>0, <1>1, <2>1, <2>2, <3>1 DEF TypeOK
  <2>4. SettledOnce' /\ SentAndSettled'
    BY <1>0, <1>1, <2>1, <2>2 DEF SettledOnce, SentAndSettled, IsInjective
  <2>5. AnswersKept'
    <3>1. ASSUME NEW i \in DOMAIN cycles', cycles'[i].ok
          PROVE  \E j \in DOMAIN rtts : rtts[j] = cycles'[i].ping /\ Len(rtts) + i <= Len(cycles') + j
      <4>1. PICK x \in DOMAIN cycles : cycles'[i] = cycles[x] /\ Len(cycles) + 1 + i = Len(cycles') + x
        BY <2>2, <3>1
      <4>2. PICK j \in DOMAIN rtts : rtts[j] = cycles[x].ping /\ Len(rtts) + x <= Len(cycles) + j
        BY <1>0, <3>1, <4>1 DEF AnswersKept
      <4>3. /\ Len(rtts) \in Nat /\ Len(cycles) \in Nat /\ Len(cycles') \in Nat
            /\ i \in Nat /\ j \in Nat /\ x \in Nat
        BY <1>0, <2>2, Typed
      <4>4. Len(rtts) + i <= Len(cycles') + j
        <5>1. PICK r \in Nat, c \in Nat, c2 \in Nat :
                  r = Len(rtts) /\ c = Len(cycles) /\ c2 = Len(cycles')
          BY <4>3
        <5>2. c + 1 + i = c2 + x /\ r + x <= c + j
          BY <4>1, <4>2, <5>1
        <5>3. r + i <= c2 + j
          BY <4>3, <5>1, <5>2
        <5>4. QED
          BY <5>1, <5>3
      <4>5. QED
        BY <4>1, <4>2, <4>4
    <3>2. QED
      BY <1>1, <3>1 DEF AnswersKept
  <2>6. DropsHaveNone'
    <3>1. n \notin ToSet(rtts)
      BY <1>0, <1>2 DEF SentAndSettled, ToSet
    <3>2. \A i \in DOMAIN cycles' : ~cycles'[i].ok => cycles'[i].ping \notin ToSet(rtts)
      BY <1>0, <2>2, <3>1 DEF DropsHaveNone
    <3>3. QED
      BY <1>1, <3>2 DEF DropsHaveNone
  <2>7. QED
    BY <2>3, <2>4, <2>5, <2>6 DEF QualityInv
<1>3. CASE ~(present /\ n \in waiting)
  <2>1. UNCHANGED <<waiting, cycles>>
    BY <1>3 DEF Timeout
  <2>2. waiting \subseteq timers'
    BY <1>0, <1>1, <1>3, <2>1 DEF SettledOnce, SentAndSettled
  <2>3. QED
    BY <1>0, <1>1, <2>1, <2>2
       DEF QualityInv, TypeOK, SettledOnce, SentAndSettled, AnswersKept, DropsHaveNone
<1>4. QED
  BY <1>2, <1>3

LEMMA PongStep ==
    ASSUME QualityInv, NEW n \in Ping, Pong(n)
    PROVE  QualityInv'
<1>0. TypeOK /\ SettledOnce /\ SentAndSettled /\ AnswersKept /\ DropsHaveNone
  BY DEF QualityInv
<1>1. /\ present /\ n \in waiting /\ waiting' = waiting \ {n}
      /\ rtts' = AppendBounded(rtts, n)
      /\ cycles' = AppendBounded(cycles, [ping |-> n, ok |-> TRUE])
      /\ UNCHANGED <<present, looping, sent, timers>>
  BY DEF Pong
<1>2. /\ cycles' \in Seq(Cycle) /\ Len(cycles') \in 1 .. Window
      /\ \A i \in DOMAIN cycles' :
             \/ i = Len(cycles') /\ cycles'[i] = [ping |-> n, ok |-> TRUE]
             \/ /\ i # Len(cycles')
                /\ \E j \in DOMAIN cycles : /\ cycles'[i] = cycles[j]
                                            /\ Len(cycles) + 1 + i = Len(cycles') + j
      /\ \A i, j \in DOMAIN cycles' : i # j => cycles'[i].ping # cycles'[j].ping
      /\ \A i \in DOMAIN cycles' : /\ cycles'[i].ping \in 1 .. sent
                                   /\ cycles'[i].ping \notin waiting \ {n}
  BY <1>1, NewOutcome
<1>3. /\ rtts \in Seq(Ping) /\ Len(rtts) <= Window /\ Len(rtts) \in Nat /\ Len(cycles) \in Nat
      /\ n \notin ToSet(rtts) /\ n \in 1 .. sent
  BY <1>0, <1>1, Typed DEF SentAndSettled, ToSet, TypeOK
<1>4. /\ rtts' \in Seq(Ping) /\ Len(rtts') \in 1 .. Window /\ rtts'[Len(rtts')] = n
      /\ Len(rtts') \in DOMAIN rtts'
  <2>1. /\ rtts' \in Seq(Ping) /\ Len(rtts') \in 1 .. Window
        /\ Shifted(rtts', rtts, n, 0) \/ Shifted(rtts', rtts, n, 1)
    BY <1>1, <1>3, AppendBoundedFacts
  <2>2. QED
    BY <2>1 DEF Shifted
<1>5. ToSet(rtts') \subseteq ToSet(rtts) \cup {n} /\ IsInjective(rtts')
  BY <1>0, <1>1, <1>3, HeldAfter DEF SettledOnce
<1>6. TypeOK'
  BY <1>0, <1>1, <1>2, <1>4, WindowAssumption DEF TypeOK
<1>7. SettledOnce'
  BY <1>0, <1>1, <1>2, <1>5 DEF SettledOnce
<1>8. SentAndSettled'
  <2>1. ASSUME NEW i \in DOMAIN rtts' PROVE rtts'[i] \in 1 .. sent /\ rtts'[i] \notin waiting \ {n}
    <3>1. rtts'[i] = n \/ \E j \in DOMAIN rtts : rtts'[i] = rtts[j]
      <4>1. rtts'[i] \in ToSet(rtts')
        BY DEF ToSet
      <4>2. rtts'[i] \in ToSet(rtts) \/ rtts'[i] = n
        BY <1>5, <4>1
      <4>3. QED
        BY <4>2 DEF ToSet
    <3>2. QED
      BY <1>0, <1>3, <3>1 DEF SentAndSettled
  <2>2. QED
    BY <1>0, <1>1, <1>2, <2>1 DEF SentAndSettled
<1>9. AnswersKept'
  <2>1. ASSUME NEW i \in DOMAIN cycles', cycles'[i].ok
        PROVE  \E j \in DOMAIN rtts' : rtts'[j] = cycles'[i].ping /\ Len(rtts') + i <= Len(cycles') + j
    <3>1. CASE i = Len(cycles')
      <4>1. cycles'[i].ping = n
        BY <1>2, <3>1
      <4>2. Len(rtts') + i <= Len(cycles') + Len(rtts')
        BY <1>2, <1>4, <3>1
      <4>3. QED
        BY <1>4, <4>1, <4>2
    <3>2. CASE i # Len(cycles')
      <4>1. PICK x \in DOMAIN cycles : cycles'[i] = cycles[x] /\ Len(cycles) + 1 + i = Len(cycles') + x
        BY <1>2, <3>2
      <4>2. PICK y \in DOMAIN rtts : rtts[y] = cycles[x].ping /\ Len(rtts) + x <= Len(cycles) + y
        BY <1>0, <2>1, <4>1 DEF AnswersKept
      <4>3. /\ i \in 1 .. Len(cycles') /\ x \in Nat /\ y \in Nat /\ Len(cycles') \in 1 .. Window
        BY <1>0, <1>2, Typed
      <4>4. Len(rtts) + 1 < Window + y
        <5>1. PICK r \in Nat, c \in Nat, c2 \in Nat :
                  r = Len(rtts) /\ c = Len(cycles) /\ c2 = Len(cycles')
          BY <1>3, <4>3, WindowAssumption
        <5>2. c + 1 + i = c2 + x /\ r + x <= c + y
          BY <4>1, <4>2, <5>1
        <5>3. i < c2 /\ c2 <= Window /\ i \in Nat
          BY <3>2, <4>3, <5>1, WindowAssumption
        <5>4. r + 1 < Window + y
          BY <4>3, <5>1, <5>2, <5>3, WindowAssumption
        <5>5. QED
          BY <5>1, <5>4
      <4>5. PICK j \in DOMAIN rtts' : rtts'[j] = rtts[y] /\ Len(rtts) + 1 + j = Len(rtts') + y
        BY <1>1, <1>3, <4>4, OldEntries
      <4>6. /\ j \in Int /\ Len(rtts') \in Int /\ i \in Int /\ x \in Int /\ y \in Int
            /\ Len(cycles') \in Int /\ Len(rtts) \in Int /\ Len(cycles) \in Int
        <5>1. Len(rtts') \in Int /\ DOMAIN rtts' = 1 .. Len(rtts')
          BY <1>4
        <5>2. Len(rtts) \in Int /\ Len(cycles) \in Int
          BY <1>3
        <5>3. i \in Int /\ x \in Int /\ y \in Int /\ Len(cycles') \in Int
          BY <4>3, WindowAssumption
        <5>4. QED
          BY <5>1, <5>2, <5>3
      <4>7. Len(rtts') + i <= Len(cycles') + j
        <5>1. Len(cycles) + 1 + i = Len(cycles') + x
          BY <4>1
        <5>2. Len(rtts) + 1 + j = Len(rtts') + y
          BY <4>5
        <5>3. Len(rtts) + x <= Len(cycles) + y
          BY <4>2
        <5>4. PICK r \in Int, c \in Int, r2 \in Int, c2 \in Int :
                  r = Len(rtts) /\ c = Len(cycles) /\ r2 = Len(rtts') /\ c2 = Len(cycles')
          BY <4>6
        <5>5. c + 1 + i = c2 + x /\ r + 1 + j = r2 + y /\ r + x <= c + y
          BY <5>1, <5>2, <5>3, <5>4
        <5>6. r2 + i <= c2 + j
          BY <4>6, <5>5
        <5>7. QED
          BY <5>4, <5>6
      <4>8. QED
        BY <4>1, <4>2, <4>5, <4>7
    <3>3. QED
      BY <3>1, <3>2
  <2>2. QED
    BY <2>1 DEF AnswersKept
<1>10. DropsHaveNone'
  <2>1. ASSUME NEW i \in DOMAIN cycles', ~cycles'[i].ok PROVE cycles'[i].ping \notin ToSet(rtts')
    <3>1. PICK x \in DOMAIN cycles : cycles'[i] = cycles[x]
      BY <1>2, <2>1
    <3>2. cycles[x].ping \notin ToSet(rtts) /\ cycles[x].ping # n
      BY <1>0, <1>1, <2>1, <3>1 DEF DropsHaveNone, SettledOnce
    <3>3. QED
      BY <1>5, <3>1, <3>2
  <2>2. QED
    BY <2>1 DEF DropsHaveNone
<1>11. QED
  BY <1>6, <1>7, <1>8, <1>9, <1>10 DEF QualityInv

LEMMA SendPingStep ==
    ASSUME QualityInv, SendPing
    PROVE  QualityInv'
<1>0. TypeOK /\ SettledOnce /\ SentAndSettled /\ AnswersKept /\ DropsHaveNone
  BY DEF QualityInv
<1>1. UNCHANGED <<present, rtts, cycles>> /\ sent < MaxPings
  BY DEF SendPing
<1>2. CASE present
  <2>1. /\ sent' = sent + 1 /\ waiting' = waiting \cup {sent + 1} /\ timers' = timers \cup {sent + 1}
        /\ UNCHANGED looping
    BY <1>2 DEF SendPing
  <2>2. sent \in Nat /\ sent + 1 \in 0 .. MaxPings /\ 1 .. sent \subseteq 1 .. (sent + 1) /\ sent + 1 \notin 1 .. sent
    BY <1>0, <1>1, Typed, PingsAssumption
  <2>3. sent + 1 \in 1 .. (sent + 1)
    BY <2>2
  <2>4. TypeOK'
    BY <1>0, <1>1, <2>1, <2>2, <2>3 DEF TypeOK
  <2>5. SettledOnce' /\ SentAndSettled'
    BY <1>0, <1>1, <1>2, <2>1, <2>2 DEF SettledOnce, SentAndSettled
  <2>6. AnswersKept' /\ DropsHaveNone'
    BY <1>0, <1>1 DEF AnswersKept, DropsHaveNone
  <2>7. QED
    BY <2>4, <2>5, <2>6 DEF QualityInv
<1>3. CASE ~present
  <2>1. looping' = FALSE /\ UNCHANGED <<sent, waiting, timers>>
    BY <1>3 DEF SendPing
  <2>2. QED
    BY <1>0, <1>1, <2>1
       DEF QualityInv, TypeOK, SettledOnce, SentAndSettled, AnswersKept, DropsHaveNone
<1>4. QED
  BY <1>2, <1>3

\* Without entries there is nothing to be wrong.
LEMMA EmptyWindows ==
    rtts = <<>> /\ cycles = <<>> =>
        /\ rtts \in Seq(Ping) /\ Len(rtts) <= Window /\ cycles \in Seq(Cycle) /\ Len(cycles) <= Window
        /\ AnswersKept /\ DropsHaveNone
        /\ DOMAIN rtts = {} /\ DOMAIN cycles = {} /\ IsInjective(rtts)
BY WindowAssumption DEF AnswersKept, DropsHaveNone, IsInjective

LEMMA QualityInit == Init => QualityInv
BY EmptyWindows, PingsAssumption DEF Init, QualityInv, TypeOK, SettledOnce, SentAndSettled

LEMMA QualityStep == QualityInv /\ [Next]_vars => QualityInv'
<1> SUFFICES ASSUME QualityInv, [Next]_vars PROVE QualityInv'
  OBVIOUS
<1>1. CASE SendPing
  BY <1>1, SendPingStep
<1>2. CASE Forget
  <2>1. present' = FALSE /\ waiting' = {} /\ rtts' = <<>> /\ cycles' = <<>> /\ UNCHANGED <<looping, sent, timers>>
    BY <1>2 DEF Forget
  <2>2. /\ rtts' \in Seq(Ping) /\ Len(rtts') <= Window /\ cycles' \in Seq(Cycle) /\ Len(cycles') <= Window
        /\ AnswersKept' /\ DropsHaveNone'
        /\ DOMAIN rtts' = {} /\ DOMAIN cycles' = {} /\ IsInjective(rtts')
    BY <2>1, WindowAssumption DEF AnswersKept, DropsHaveNone, IsInjective
  <2>3. QED
    BY <2>1, <2>2 DEF QualityInv, TypeOK, SettledOnce, SentAndSettled
<1>3. ASSUME NEW n \in Ping, Timeout(n) PROVE QualityInv'
  BY <1>3, TimeoutStep
<1>4. ASSUME NEW n \in Ping, Pong(n) PROVE QualityInv'
  BY <1>4, PongStep
<1>5. CASE UNCHANGED vars
  BY <1>5 DEF vars, QualityInv, TypeOK, SettledOnce, SentAndSettled, AnswersKept, DropsHaveNone
<1>6. QED
  BY <1>1, <1>2, <1>3, <1>4, <1>5 DEF Next

\* The inductive invariant holds in every reachable state.
LEMMA QualityInductive == Spec => []QualityInv
BY QualityInit, QualityStep, PTL DEF Spec
-----------------------------------------------------------------------------
(* The theorems.                                                           *)

\* Every variable keeps its type; neither window ever holds more than Window entries.
THEOREM TypeCorrect == Spec => []TypeOK
BY QualityInductive, PTL DEF QualityInv

\* Whatever order pongs and timers come in, a ping is answered or dropped, once.
THEOREM EveryPingSettledOnce == Spec => []SettledOnce
BY QualityInductive, PTL DEF QualityInv

\* The windows of outcomes and of round trip times, cut independently, agree on the pings
\* that are in the first.
THEOREM ScoreWindowsAgree == Spec => []WindowsAgree
<1>1. QualityInv => WindowsAgree
  <2> SUFFICES ASSUME QualityInv, NEW i \in DOMAIN cycles
               PROVE  cycles[i].ok <=> cycles[i].ping \in ToSet(rtts)
    BY DEF WindowsAgree
  <2>1. cycles[i].ok => cycles[i].ping \in ToSet(rtts)
    BY DEF QualityInv, AnswersKept, ToSet
  <2>2. ~cycles[i].ok => cycles[i].ping \notin ToSet(rtts)
    BY DEF QualityInv, DropsHaveNone
  <2>3. cycles[i].ok \in BOOLEAN
    BY Typed DEF QualityInv
  <2>4. QED
    BY <2>1, <2>2, <2>3
<1>2. QED
  BY <1>1, QualityInductive, PTL
=============================================================================
