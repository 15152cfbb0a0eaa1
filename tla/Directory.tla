------------------------------ MODULE Directory ------------------------------
(***************************************************************************)
(* What the hub promises about channels, without mutexes, goroutines and   *)
(* half-done joins: a session is nowhere or in one channel, it gets in     *)
(* while there is a seat, it gets out at any time, and a channel stays     *)
(* listed for as long as anybody is in it.  Channels implements this.      *)
(***************************************************************************)
EXTENDS Naturals, FiniteSets

CONSTANTS
    Sid,          \* sessions
    Room,         \* channel names
    MaxRoomSize,  \* seats of a channel
    Nil           \* nowhere

VARIABLES
    where,   \* the channel each session is in, or Nil
    listed   \* the channels that exist

vars == <<where, listed>>

Init == where = [s \in Sid |-> Nil] /\ listed = {}

Members(r) == {s \in Sid : where[s] = r}

\* A session gets in from nowhere, one seat at a time; the channel is listed from then on.
Enter(s, r) ==
    /\ where[s] = Nil
    /\ Cardinality(Members(r)) < MaxRoomSize
    /\ where' = [where EXCEPT ![s] = r]
    /\ listed' = listed \cup {r}

\* The channel stays listed when the last session gets out.
Exit(s) ==
    /\ where' = [where EXCEPT ![s] = Nil]
    /\ UNCHANGED listed

\* Asking for a channel lists it, whether or not the session gets in later.
Create(r) ==
    /\ listed' = listed \cup {r}
    /\ UNCHANGED where

\* Only channels that are empty are taken off the list.
Expire(gone) ==
    /\ \A r \in gone : Members(r) = {}
    /\ listed' = listed \ gone
    /\ UNCHANGED where

\* The server stops: everybody is out and every channel is gone, in one step.
Reset ==
    /\ where' = [s \in Sid |-> Nil]
    /\ listed' = {}

Next ==
    \/ \E s \in Sid : Exit(s) \/ \E r \in Room : Enter(s, r)
    \/ \E r \in Room : Create(r)
    \/ \E gone \in SUBSET Room : Expire(gone)
    \/ Reset

Spec == Init /\ [][Next]_vars
=============================================================================
