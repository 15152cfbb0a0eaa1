------------------------------- MODULE Windows -------------------------------
(***************************************************************************)
(* The sliding windows of store.RateStore, and what the local and the      *)
(* Redis window together may let through.  Time is relative: a window      *)
(* counts its hits by their age in ticks.                                  *)
(***************************************************************************)
EXTENDS Naturals, FiniteSets, Functions

CONSTANTS
    Key,        \* rate keys: "<purpose>:<client IP>" or "<sid>:<purpose>"
    Limit,      \* admissions of a key per window
    Window,     \* length of the window, in ticks
    LocalCap,   \* keys kept in memory (50000 in the code)
    CheckDelay  \* bound: ticks a Check or a Ping takes at most (the client's timeouts)

ASSUME LimitAssumption == Limit \in Nat \ {0}
ASSUME WindowAssumption == Window \in Nat \ {0} /\ CheckDelay \in Nat

Age == 0 .. Window + CheckDelay - 1
Hits == [Age -> Nat]

VARIABLES
    local,   \* RateStore.local: the hits of each key, none of them (Nil) for an absent one
    zset,    \* the sorted sets in Redis
    granted  \* history: checks that returned true, by the age of their timestamp, since
             \* the last eviction of the key's local window

NoHits == [a \in Age |-> 0]

Size(hits) == FoldFunction(+, 0, hits)

WithHit(hits, age) == [hits EXCEPT ![age] = @ + 1]

\* What is left of a window for a caller that read the clock age ticks ago.
Kept(hits, age) == [a \in Age |-> IF a < age + Window THEN hits[a] ELSE 0]

Older(hits) == [a \in Age |-> IF a = 0 THEN 0 ELSE hits[a - 1]]
-----------------------------------------------------------------------------
\* Falling back to memory, and back again, lets a key through at most twice as often as the
\* limit: of the checks stamped within the last Window ticks at most 2 * Limit returned
\* true since the key's local window was last evicted, whatever the circuit did meanwhile
\* and however late the calls acted.
FallbackAtMostDoubles == \A k \in Key : Size(Kept(granted[k], 0)) <= 2 * Limit

\* The map of windows in memory stays under its cap, whoever asks for how many keys: whatever
\* adds a key evicts, and a check that is refused, which does not, finds its key there.
MapUnderCap == Cardinality({k \in Key : local[k] \in Hits}) <= LocalCap

\* No entry, or none of the last Window ticks.
Unused(hits) == hits \in Hits => Kept(hits, 0) = NoHits

\* As long as only one of the two stores has counted a key within the window, the limit is kept
\* exactly: lost answers, late clocks and a circuit that opens for others cost it nothing.
OneStoreKeepsLimit ==
    \A k \in Key : Unused(zset[k]) \/ Unused(local[k]) => Size(Kept(granted[k], 0)) <= Limit
=============================================================================
