------------------------------ MODULE Quality ------------------------------
(***************************************************************************)
(* The connection quality of one session: the pings of qualityLoop, the    *)
(* client's pongs, the timer that counts an unanswered ping as dropped,    *)
(* and the two windows the score is computed from.                         *)
(*                                                                         *)
(* Pong and timer race for the same ping, each in a critical section of    *)
(* Hub.mu; the client may also answer late, twice, or with a nonce that    *)
(* was never sent (which is like one that is settled).                     *)
(*                                                                         *)
(* Abstractions.  Sessions do not touch each other's quality state, so one *)
(* is enough.  Nonces are the numbers of the pings.  Round trip times are  *)
(* not told apart, and the windows name the ping each entry is about, for  *)
(* the properties; the score itself is left out.                           *)
(***************************************************************************)
EXTENDS Naturals, Sequences, FiniteSets, SequencesExt

CONSTANTS
    Window,   \* entries kept of each kind (5 in the code)
    MaxPings  \* bound: pings of the session

ASSUME WindowAssumption == Window \in Nat \ {0}
ASSUME PingsAssumption == MaxPings \in Nat

Ping == 1 .. MaxPings

VARIABLES
    present,  \* the session has an entry in Hub.quality
    looping,  \* its qualityLoop has not returned
    sent,     \* pings sent so far
    waiting,  \* QualityState.Pending
    timers,   \* pings whose AfterFunc has not run
    rtts,     \* QualityState.RTTs: the pings answered in time
    cycles    \* QualityState.Cycles: what became of the last pings

vars == <<present, looping, sent, waiting, timers, rtts, cycles>>

Cycle == [ping : Ping, ok : BOOLEAN]

TypeOK ==
    /\ present \in BOOLEAN /\ looping \in BOOLEAN
    /\ sent \in 0 .. MaxPings
    /\ waiting \subseteq 1 .. sent /\ timers \subseteq 1 .. sent
    /\ rtts \in Seq(Ping) /\ Len(rtts) <= Window
    /\ cycles \in Seq(Cycle) /\ Len(cycles) <= Window

\* addClient has made the entry and started the loop.
Init ==
    /\ present = TRUE /\ looping = TRUE
    /\ sent = 0 /\ waiting = {} /\ timers = {}
    /\ rtts = <<>> /\ cycles = <<>>
-----------------------------------------------------------------------------
\* appendBoundedFloat, appendBoundedBool: the last Window entries.
AppendBounded(items, item) ==
    LET all == Append(items, item) IN
    IF Len(all) > Window THEN SubSeq(all, Len(all) - Window + 1, Len(all)) ELSE all

\* One round of qualityLoop.
SendPing ==
    /\ looping /\ sent < MaxPings
    /\ IF present
       THEN /\ sent' = sent + 1
            /\ waiting' = waiting \cup {sent + 1}
            /\ timers' = timers \cup {sent + 1}
            /\ UNCHANGED looping
       ELSE looping' = FALSE /\ UNCHANGED <<sent, waiting, timers>>
    /\ UNCHANGED <<present, rtts, cycles>>

\* Mutant: a ping is counted as dropped without looking whether it has been answered.
TimeoutAlwaysDrops(n) ==
    /\ n \in timers
    /\ timers' = timers \ {n}
    /\ waiting' = waiting \ {n}
    /\ cycles' = IF present THEN AppendBounded(cycles, [ping |-> n, ok |-> FALSE]) ELSE cycles
    /\ UNCHANGED <<present, looping, sent, rtts>>

\* The AfterFunc of a ping.
Timeout(n) ==
    /\ n \in timers
    /\ timers' = timers \ {n}
    /\ IF present /\ n \in waiting
       THEN /\ waiting' = waiting \ {n}
            /\ cycles' = AppendBounded(cycles, [ping |-> n, ok |-> FALSE])
       ELSE UNCHANGED <<waiting, cycles>>
    /\ UNCHANGED <<present, looping, sent, rtts>>

\* Mutant: a late pong is counted in the round trip times though its ping has been dropped.
PongCountsLate(n) ==
    /\ present /\ n \in 1 .. sent
    /\ rtts' = AppendBounded(rtts, n)
    /\ waiting' = waiting \ {n}
    /\ cycles' = IF n \in waiting THEN AppendBounded(cycles, [ping |-> n, ok |-> TRUE]) ELSE cycles
    /\ UNCHANGED <<present, looping, sent, timers>>

\* handleQualityPong.
Pong(n) ==
    /\ present /\ n \in waiting
    /\ waiting' = waiting \ {n}
    /\ rtts' = AppendBounded(rtts, n)
    /\ cycles' = AppendBounded(cycles, [ping |-> n, ok |-> TRUE])
    /\ UNCHANGED <<present, looping, sent, timers>>

\* removeClient or Close deletes the entry; a sid is never registered again.
Forget ==
    /\ present
    /\ present' = FALSE
    /\ waiting' = {} /\ rtts' = <<>> /\ cycles' = <<>>
    /\ UNCHANGED <<looping, sent, timers>>

Next == SendPing \/ Forget \/ \E n \in Ping : Timeout(n) \/ Pong(n)

Spec == Init /\ [][Next]_vars
-----------------------------------------------------------------------------
\* However pong and timer race, a ping is answered or dropped and never both, counted once,
\* and not before it is settled; and one that is not settled has its timer still to run.
SettledOnce ==
    /\ \A i, j \in DOMAIN cycles : i # j => cycles[i].ping # cycles[j].ping
    /\ IsInjective(rtts)
    /\ \A i \in DOMAIN cycles : cycles[i].ping \notin waiting
    /\ waiting \subseteq timers

\* The two windows the score is computed from agree on what they both still hold: a ping
\* counted as answered has its round trip time in the other window, one counted as dropped
\* has none.
WindowsAgree ==
    \A i \in DOMAIN cycles : cycles[i].ok <=> cycles[i].ping \in ToSet(rtts)
=============================================================================
