---------------------------- MODULE PresenceProofs ----------------------------
(***************************************************************************)
(* Theorems about Presence for any number of sessions, channels and calls: *)
(* type correctness, that news is followed by a list that is new enough,   *)
(* that lists reach everybody, and that what is told about one session     *)
(* comes in order.                                                         *)
(*                                                                         *)
(* The first two are promises about the end of a call.  They are kept      *)
(* because, as long as a call owes a change to anybody, a list is still to *)
(* come (Promised), and because every list it still has to send is as new  *)
(* as all the changes the call has made (StillToTell).  The order is kept  *)
(* because one goroutine at a time tells about a session that has not been *)
(* found too slow (OneTeller), and about one change at a time (OwnNews).   *)
(***************************************************************************)
EXTENDS Presence, SequenceTheorems, TLAPS

\* What an agent has still to do, and the messages among it.
Jobs(a) == ToSet(todo[a])
Tells(a) == {job \in Jobs(a) : job.do = "tell"}
News(a) == {job.msg : job \in Tells(a)} \cup {entry[2] : entry \in pending[a]}

\* A join between its last two sections, which the list comes after.
Entering(a) == a[2] = "pump" /\ pump[a[1]] = "entering"

\* An agent will take a snapshot for everybody ...
ListDue(a) == Entering(a) \/ List(Everybody) \in Jobs(a)

\* ... or has one, and t is or will be among the recipients.
ListComing(a, t) ==
    \/ ListDue(a)
    \/ \E job \in Tells(a) : job.to = Everybody /\ job.msg.what = "list"
    \/ \E entry \in pending[a] : entry[1] = t /\ entry[2].what = "list"

\* From its i-th message on, t has got a list that contains change v.
Caught(t, i, v) == \E j \in i .. Len(inbox[t]) : ListAt(t, j, v)

\* What is still to be told is about a change the agent owes, and a list comes after it; a
\* list contains all the changes the agent owes.
StillToTell ==
    \A a \in Agent : \A m \in News(a) :
        /\ m.v <= version
        /\ m.what = "list" => \A v \in owes[a] : v <= m.v
        /\ m.what # "list" => m.v \in owes[a] /\ ListDue(a)

\* Who owes something sends lists to everybody.
ToEverybody ==
    \A a \in Agent : owes[a] # {} =>
        \A job \in Jobs(a) :
            job.do = "list" \/ (job.do = "tell" /\ job.msg.what = "list") => job.to = Everybody

\* A change is owed by who made it, until it is settled.
OwedOnce ==
    \A a \in Agent : /\ owes[a] \cap settled = {}
                     /\ \A b \in Agent : a # b => owes[a] \cap owes[b] = {}

Heard == \A t \in Sid : \A i \in DOMAIN inbox[t] : client[t] # "queued" /\ inbox[t][i].v <= version

\* For what is owed, a client has the list that the properties ask for or is about to get it.
Promised ==
    \A a \in Agent, t \in Sid : Kept(t) => \A v \in owes[a] :
        /\ v > since[t] => Caught(t, 1, v) \/ ListComing(a, t)
        /\ \A i \in DOMAIN inbox[t] : inbox[t][i].v = v => Caught(t, i, v) \/ ListComing(a, t)

\* A connection tells nothing while its join has not changed anything, or when it has ended.
Between ==
    \A s \in Sid : /\ pump[s] \in {"leaving", "ended"} => Free(Pump(s))
                   /\ pump[s] \in {"leaving", "entering"} => goal[s] \in Room

PeerNews(job) == job.do = "tell" /\ job.msg.about # Nil

\* An agent tells about its own session, one message at a time.
OwnNews ==
    \A a \in Agent :
        /\ \A m \in News(a) : m.about # Nil => m.about = a[1]
        /\ \A i, j \in DOMAIN todo[a] : PeerNews(todo[a][i]) /\ PeerNews(todo[a][j]) => i = j
        /\ \A e, f \in pending[a] : e[2] = f[2]
        /\ \A e \in pending[a] : e[2].about # Nil => \A job \in Jobs(a) : ~PeerNews(job)

\* A session that is not slow is removed once, after its connection has ended.
FreeRemovers(s) == \A n \in 1 .. MaxCalls : Free(Remover(s, n))

OneTeller ==
    \A s \in Sid \ slow :
        /\ due[s] <= 1
        /\ due[s] = 1 => FreeRemovers(s)
        /\ pump[s] # "ended" => due[s] = 0 /\ FreeRemovers(s)
        /\ \A n, m \in 1 .. MaxCalls : n = m \/ Free(Remover(s, n)) \/ Free(Remover(s, m))

\* What is still to be told about a session is newer than what has been.
NewsIsNewer ==
    \A a \in Agent : \A t \in Sid : \A i \in DOMAIN inbox[t] :
        inbox[t][i].about \notin slow \cup {Nil} =>
            /\ \A job \in Jobs(a) : job.do = "tell" /\ job.msg.about = inbox[t][i].about =>
                                        inbox[t][i].v < job.msg.v
            /\ \A e \in pending[a] : e[1] = t /\ e[2].about = inbox[t][i].about =>
                                         inbox[t][i].v < e[2].v

ListsInv ==
    /\ StillToTell /\ ToEverybody /\ OwedOnce /\ Heard /\ Promised
    /\ NewsThenList /\ ListsReachEverybody

OrderInv == OwnNews /\ OneTeller /\ NewsIsNewer /\ PeersInOrder

PresenceInv == TypeOK /\ Between /\ ListsInv /\ OrderInv
-----------------------------------------------------------------------------
(* Agents, messages and jobs.                                              *)

LEMMA Agents ==
    /\ \A s \in Sid : /\ Pump(s) \in Agent /\ Pump(s)[1] = s /\ Pump(s)[2] = "pump"
                      /\ \A n \in 1 .. MaxCalls : /\ Remover(s, n) \in Agent
                                                   /\ Remover(s, n)[1] = s /\ Remover(s, n)[2] = "remover"
    /\ Sweeper \in Agent /\ Sweeper[1] = Nil /\ Sweeper[2] = "run"
    /\ \A s \in Sid, u \in Sid, n \in 1 .. MaxCalls : Pump(s) # Remover(u, n)
    /\ \A s \in Sid, u \in Sid, n, m \in 1 .. MaxCalls : Remover(s, n) = Remover(u, m) => s = u /\ n = m
    /\ \A s \in Sid, u \in Sid : Pump(s) = Pump(u) => s = u
    /\ \A s \in Sid : Pump(s) # Sweeper /\ \A n \in 1 .. MaxCalls : Remover(s, n) # Sweeper
    /\ \A a \in Agent : a[1] \in Sid =>
           a = Pump(a[1]) \/ \E n \in 1 .. MaxCalls : a = Remover(a[1], n)
    /\ \A a \in Agent : a[2] = "pump" => a[1] \in Sid /\ a = Pump(a[1])
BY NilAssumption DEF Agent, Pump, Remover, Sweeper

\* The agents of a session.
AgentsOf(s) == {a \in Agent : a[1] = s}

LEMMA MessageFields ==
    /\ \A what \in What, s \in Sid \cup {Nil}, v \in Nat :
           /\ Msg(what, s, v) \in Message
           /\ Msg(what, s, v).what = what /\ Msg(what, s, v).about = s /\ Msg(what, s, v).v = v
    /\ \A m \in Message : m.what \in What /\ m.about \in Sid \cup {Nil} /\ m.v \in Nat
BY DEF Message, Msg

LEMMA TellShape ==
    ASSUME NEW to \in Room \cup Sid \cup {Everybody}, NEW m \in Message
    PROVE  /\ Tell(to, m) \in Job
           /\ Tell(to, m).do = "tell" /\ Tell(to, m).to = to /\ Tell(to, m).msg = m
BY DEF Job, Tell

LEMMA JobShapes ==
    /\ \A to \in Sid \cup {Everybody} :
           List(to) \in Job /\ List(to).do = "list" /\ List(to).to = to
    /\ TakeOut \in Job /\ TakeOut.do = "take out"
BY DEF Job, List, TakeOut

LEMMA JobFields ==
    \A job \in Job :
        /\ job.do = "tell" => job.msg \in Message /\ job.to \in Room \cup Sid \cup {Everybody}
        /\ job.do = "list" => job.to \in Sid \cup {Everybody} /\ job = List(job.to)
<1> SUFFICES ASSUME NEW job \in Job
             PROVE  /\ job.do = "tell" => job.msg \in Message /\ job.to \in Room \cup Sid \cup {Everybody}
                    /\ job.do = "list" => job.to \in Sid \cup {Everybody} /\ job = List(job.to)
  OBVIOUS
<1>1. CASE job = TakeOut
  BY <1>1 DEF TakeOut
<1>2. CASE job \in [do : {"list"}, to : Sid \cup {Everybody}]
  BY <1>2 DEF List
<1>3. CASE job \in [do : {"tell"}, to : Room \cup Sid \cup {Everybody}, msg : Message]
  BY <1>3
<1>4. QED
  BY <1>1, <1>2, <1>3 DEF Job

LEMMA EverybodyIsNobody == Everybody = Nil /\ Nil \notin Sid /\ Nil \notin Room
BY NilAssumption DEF Everybody

\* The first job and the others.
LEMMA FirstAndRest ==
    ASSUME NEW S, NEW q \in Seq(S), q # <<>>
    PROVE  /\ Head(q) \in S /\ Tail(q) \in Seq(S)
           /\ ToSet(q) = {Head(q)} \cup ToSet(Tail(q))
           /\ 1 \in DOMAIN q /\ q[1] = Head(q)
           /\ \A i \in DOMAIN Tail(q) : i \in Nat /\ i + 1 \in DOMAIN q /\ i + 1 # 1 /\ Tail(q)[i] = q[i + 1]
<1>1. /\ Head(q) \in S /\ Tail(q) \in Seq(S) /\ Len(Tail(q)) = Len(q) - 1
      /\ \A i \in 1 .. Len(Tail(q)) : Tail(q)[i] = q[i + 1]
  BY HeadTailProperties
<1>2. Len(q) \in Nat \ {0} /\ DOMAIN q = 1 .. Len(q)
  BY EmptySeq, LenProperties
<1>3. DOMAIN Tail(q) = 1 .. (Len(q) - 1)
  BY <1>1, LenProperties
<1>4. 1 \in DOMAIN q /\ q[1] = Head(q)
  BY <1>2
<1>5. \A i \in DOMAIN Tail(q) : i \in Nat /\ i + 1 \in DOMAIN q /\ i + 1 # 1 /\ Tail(q)[i] = q[i + 1]
  BY <1>1, <1>2, <1>3
<1>6. ASSUME NEW i \in DOMAIN q PROVE q[i] = Head(q) \/ \E j \in DOMAIN Tail(q) : Tail(q)[j] = q[i]
  <2>1. CASE i = 1
    BY <1>4, <2>1
  <2>2. CASE i # 1
    <3>1. i - 1 \in DOMAIN Tail(q) /\ (i - 1) + 1 = i
      BY <1>2, <1>3, <2>2
    <3>2. QED
      BY <1>5, <3>1
  <2>3. QED
    BY <2>1, <2>2
<1>7. ToSet(q) = {Head(q)} \cup ToSet(Tail(q))
  BY <1>4, <1>5, <1>6 DEF ToSet
<1>8. QED
  BY <1>1, <1>4, <1>5, <1>7

LEMMA NoJob == <<>> \in Seq(Job) /\ ToSet(<<>>) = {} /\ DOMAIN <<>> = {}
BY DEF ToSet

LEMMA OneJob ==
    ASSUME NEW x \in Job
    PROVE  <<x>> \in Seq(Job) /\ ToSet(<<x>>) = {x} /\ DOMAIN <<x>> = {1} /\ <<x>>[1] = x
<1>1. <<x>> \in Seq(Job) /\ DOMAIN <<x>> = {1} /\ <<x>>[1] = x
  OBVIOUS
<1>2. QED
  BY <1>1 DEF ToSet

LEMMA TwoJobs ==
    ASSUME NEW x \in Job, NEW y \in Job
    PROVE  /\ <<x, y>> \in Seq(Job) /\ ToSet(<<x, y>>) = {x, y}
           /\ DOMAIN <<x, y>> = {1, 2} /\ <<x, y>>[1] = x /\ <<x, y>>[2] = y
<1>1. /\ <<x, y>> \in Seq(Job)
      /\ DOMAIN <<x, y>> = {1, 2} /\ <<x, y>>[1] = x /\ <<x, y>>[2] = y
  OBVIOUS
<1>2. QED
  BY <1>1 DEF ToSet

LEMMA ThreeJobs ==
    ASSUME NEW x \in Job, NEW y \in Job, NEW z \in Job
    PROVE  /\ <<x, y, z>> \in Seq(Job) /\ ToSet(<<x, y, z>>) = {x, y, z}
           /\ DOMAIN <<x, y, z>> = {1, 2, 3}
           /\ <<x, y, z>>[1] = x /\ <<x, y, z>>[2] = y /\ <<x, y, z>>[3] = z
<1>1. /\ <<x, y, z>> \in Seq(Job)
      /\ DOMAIN <<x, y, z>> = {1, 2, 3}
      /\ <<x, y, z>>[1] = x /\ <<x, y, z>>[2] = y /\ <<x, y, z>>[3] = z
  OBVIOUS
<1>2. QED
  BY <1>1 DEF ToSet
-----------------------------------------------------------------------------
(* Types, and what a connection does between its handlers.                 *)

PlaceType == where \in [Sid -> listed \cup {Nil}] /\ listed \subseteq Room

PumpType ==
    /\ pump \in [Sid -> {"reading", "leaving", "entering", "ended"}]
    /\ goal \in [Sid -> Room \cup {Nil}]
    /\ due \in [Sid -> Nat]
    /\ calls \in 0 .. MaxCalls
    /\ slow \subseteq Sid

NewsType ==
    /\ version \in Nat
    /\ client \in [Sid -> {"queued", "in", "out"}]
    /\ since \in [Sid -> 0 .. version]
    /\ todo \in [Agent -> Seq(Job)]
    /\ pending \in [Agent -> SUBSET (Sid \X Message)]
    /\ owes \in [Agent -> SUBSET (1 .. version)]
    /\ inbox \in [Sid -> Seq(Message)]
    /\ settled \subseteq 1 .. version /\ refused \subseteq settled

LEMMA TypeParts == TypeOK <=> PlaceType /\ PumpType /\ NewsType
BY DEF TypeOK, PlaceType, PumpType, NewsType

\* Who is not a has still the same to do and owes the same.
Others(a) ==
    \A b \in Agent : b # a => todo'[b] = todo[b] /\ pending'[b] = pending[b] /\ owes'[b] = owes[b]

LEMMA ChangeFacts ==
    ASSUME NewsType, NEW a \in Agent, NEW jobs \in Seq(Job), Change(a, jobs)
    PROVE  /\ NewsType' /\ Others(a)
           /\ version' = version + 1 /\ version + 1 \in Nat
           /\ todo'[a] = jobs /\ owes'[a] = owes[a] \cup {version + 1} /\ pending'[a] = pending[a]
           /\ UNCHANGED <<client, since, inbox, settled, refused>>
<1>1. /\ version' = version + 1
      /\ todo' = [todo EXCEPT ![a] = jobs]
      /\ owes' = [owes EXCEPT ![a] = @ \cup {version + 1}]
      /\ UNCHANGED <<client, since, pending, inbox, settled, refused>>
  BY DEF Change
<1>2. /\ version \in Nat /\ version + 1 \in Nat
      /\ 1 .. version \subseteq 1 .. (version + 1) /\ 0 .. version \subseteq 0 .. (version + 1)
      /\ version + 1 \in 1 .. (version + 1)
  BY DEF NewsType
<1>3. owes' \in [Agent -> SUBSET (1 .. (version + 1))]
  BY <1>1, <1>2 DEF NewsType
<1>4. since' \in [Sid -> 0 .. (version + 1)] /\ settled' \subseteq 1 .. (version + 1)
  BY <1>1, <1>2 DEF NewsType
<1>5. todo' \in [Agent -> Seq(Job)]
  BY <1>1 DEF NewsType
<1>6. NewsType'
  BY <1>1, <1>2, <1>3, <1>4, <1>5 DEF NewsType
<1>7. QED
  BY <1>1, <1>2, <1>6 DEF Others, NewsType

\* What a call that changes something has to tell then.
Proper(a, jobs) ==
    /\ jobs \in Seq(Job)
    /\ \A job \in ToSet(jobs) :
           /\ job.do = "tell" => /\ job.msg.v = version + 1 /\ job.msg.what # "list"
                                 /\ job.msg.about # Nil => job.msg.about = a[1]
           /\ job.do = "list" => job.to = Everybody
    /\ \A i, j \in DOMAIN jobs : PeerNews(jobs[i]) /\ PeerNews(jobs[j]) => i = j

LEMMA NewsJob ==
    ASSUME NewsType, NEW what \in What \ {"list"}, NEW s \in Sid \cup {Nil},
           NEW to \in Room \cup Sid \cup {Everybody}
    PROVE  LET job == Tell(to, Told(what, s)) IN
           /\ job \in Job /\ job.do = "tell" /\ job.msg.v = version + 1 /\ job.msg.what # "list"
           /\ job.msg.about = s /\ job.to = to
<1>1. version + 1 \in Nat
  BY DEF NewsType
<1> DEFINE m == Told(what, s)
<1>2. m \in Message /\ m.what = what /\ m.about = s /\ m.v = version + 1
  BY <1>1, MessageFields DEF Told
<1> HIDE DEF m
<1>3. Tell(to, m) \in Job /\ Tell(to, m).do = "tell" /\ Tell(to, m).to = to /\ Tell(to, m).msg = m
  BY <1>2, TellShape
<1>4. QED
  BY <1>2, <1>3 DEF m

LEMMA ProperJobs ==
    ASSUME NewsType, NEW s \in Sid, NEW to \in Room \cup Sid \cup {Everybody},
           NEW what \in What \ {"list"}
    PROVE  /\ \A a \in Agent : Proper(a, <<>>)
           /\ \A a \in AgentsOf(s) :
                  /\ Proper(a, <<Tell(to, Told(what, s))>>)
                  /\ Proper(a, <<Tell(to, Told(what, s)), List(Everybody)>>)
                  /\ Proper(a, <<TakeOut, Tell(to, Told(what, s)), List(Everybody)>>)
                  /\ Proper(a, <<Tell(to, Told(what, s)), Tell(s, Told("state", Nil)), List(Everybody)>>)
           /\ List(Everybody) \in ToSet(<<Tell(to, Told(what, s)), List(Everybody)>>)
           /\ List(Everybody) \in ToSet(<<TakeOut, Tell(to, Told(what, s)), List(Everybody)>>)
           /\ List(Everybody) \in
                  ToSet(<<Tell(to, Told(what, s)), Tell(s, Told("state", Nil)), List(Everybody)>>)
<1> DEFINE x == Tell(to, Told(what, s))
           y == Tell(s, Told("state", Nil))
           l == List(Everybody)
           o == TakeOut
<1>1. /\ x \in Job /\ x.do = "tell" /\ x.msg.v = version + 1 /\ x.msg.what # "list" /\ x.msg.about = s
      /\ s \in Sid
  BY NewsJob
<1>2. /\ y \in Job /\ y.do = "tell" /\ y.msg.v = version + 1 /\ y.msg.what # "list" /\ y.msg.about = Nil
  <2>1. "state" \in What \ {"list"}
    BY DEF What
  <2>2. QED
    BY <2>1, NewsJob
<1>3. l \in Job /\ l.do = "list" /\ l.to = Everybody /\ o \in Job /\ o.do = "take out"
  BY JobShapes
<1>4. (\A a \in AgentsOf(s) : a[1] = s) /\ Pump(s) \in AgentsOf(s)
  BY Agents DEF AgentsOf
<1> HIDE DEF x, y, l, o
<1>5. \A a \in Agent : Proper(a, <<>>)
  BY NoJob DEF Proper
<1>6. \A a \in AgentsOf(s) : Proper(a, <<x>>)
  BY <1>1, <1>4, OneJob DEF Proper
<1>7. \A a \in AgentsOf(s) : Proper(a, <<x, l>>) /\ l \in ToSet(<<x, l>>)
  <2>1. /\ <<x, l>> \in Seq(Job) /\ ToSet(<<x, l>>) = {x, l}
        /\ DOMAIN <<x, l>> = {1, 2} /\ <<x, l>>[1] = x /\ <<x, l>>[2] = l
    BY <1>1, <1>3, TwoJobs
  <2>2. ~PeerNews(l)
    BY <1>3 DEF PeerNews
  <2>3. QED
    BY <1>1, <1>3, <1>4, <2>1, <2>2 DEF Proper
<1>8. \A a \in AgentsOf(s) : Proper(a, <<o, x, l>>) /\ l \in ToSet(<<o, x, l>>)
  <2>1. /\ <<o, x, l>> \in Seq(Job) /\ ToSet(<<o, x, l>>) = {o, x, l}
        /\ DOMAIN <<o, x, l>> = {1, 2, 3}
        /\ <<o, x, l>>[1] = o /\ <<o, x, l>>[2] = x /\ <<o, x, l>>[3] = l
    BY <1>1, <1>3, ThreeJobs
  <2>2. ~PeerNews(l) /\ ~PeerNews(o)
    BY <1>3 DEF PeerNews
  <2>3. \A i, j \in DOMAIN <<o, x, l>> : PeerNews(<<o, x, l>>[i]) /\ PeerNews(<<o, x, l>>[j]) => i = j
    BY <2>1, <2>2
  <2>4. QED
    BY <1>1, <1>3, <1>4, <2>1, <2>3 DEF Proper
<1>9. \A a \in AgentsOf(s) : Proper(a, <<x, y, l>>) /\ l \in ToSet(<<x, y, l>>)
  <2>1. /\ <<x, y, l>> \in Seq(Job) /\ ToSet(<<x, y, l>>) = {x, y, l}
        /\ DOMAIN <<x, y, l>> = {1, 2, 3}
        /\ <<x, y, l>>[1] = x /\ <<x, y, l>>[2] = y /\ <<x, y, l>>[3] = l
    BY <1>1, <1>2, <1>3, ThreeJobs
  <2>2. ~PeerNews(l) /\ ~PeerNews(y)
    BY <1>2, <1>3 DEF PeerNews
  <2>3. \A i, j \in DOMAIN <<x, y, l>> : PeerNews(<<x, y, l>>[i]) /\ PeerNews(<<x, y, l>>[j]) => i = j
    BY <2>1, <2>2
  <2>4. QED
    BY <1>1, <1>2, <1>3, <1>4, <2>1, <2>3 DEF Proper
<1>10. QED
  BY <1>4, <1>5, <1>6, <1>7, <1>8, <1>9 DEF x, y, l, o
-----------------------------------------------------------------------------
(* Where sessions are, and what their connections do.                      *)

LEMMA ExitTyped == ASSUME PlaceType, NEW s \in Sid, Dir!Exit(s) PROVE PlaceType'
BY DEF PlaceType, Dir!Exit

LEMMA EnterTyped == ASSUME PlaceType, NEW s \in Sid, NEW r \in Room, Dir!Enter(s, r) PROVE PlaceType'
<1>1. where' = [where EXCEPT ![s] = r] /\ listed' = listed \cup {r}
  BY DEF Dir!Enter
<1>2. QED
  BY <1>1 DEF PlaceType

LEMMA CreateTyped == ASSUME PlaceType, NEW r \in Room, Dir!Create(r) PROVE PlaceType'
BY DEF PlaceType, Dir!Create

LEMMA ExpireTyped == ASSUME PlaceType, NEW gone \in SUBSET listed, Dir!Expire(gone) PROVE PlaceType'
<1>1. where' = where /\ listed' = listed \ gone
  BY DEF Dir!Expire
<1>2. ASSUME NEW s \in Sid PROVE where[s] \notin gone
  BY <1>2 DEF Dir!Expire, Dir!Members
<1>3. QED
  BY <1>1, <1>2 DEF PlaceType

LEMMA Recipient ==
    ASSUME NewsType, NEW a \in Agent, NEW entry \in pending[a]
    PROVE  entry[1] \in Sid /\ entry[2] \in Message /\ entry = <<entry[1], entry[2]>>
<1>1. entry \in Sid \X Message
  BY DEF NewsType
<1>2. QED
  BY <1>1

LEMMA PlaceStep == TypeOK /\ Between /\ [Next]_vars => PlaceType'
<1> SUFFICES ASSUME TypeOK, Between, [Next]_vars PROVE PlaceType'
  OBVIOUS
<1>0. PlaceType /\ PumpType
  BY TypeParts
<1>1. ASSUME NEW s \in Sid, NEW r \in Room, JoinAdmit(s, r) PROVE PlaceType'
  BY <1>0, <1>1, CreateTyped DEF JoinAdmit
<1>2. ASSUME NEW s \in Sid, JoinLeave(s) \/ Leave(s) \/ \E n \in 1 .. MaxCalls : RemoveClient(s, n)
      PROVE  PlaceType'
  <2>1. Dir!Exit(s)
    BY <1>2 DEF JoinLeave, Leave, RemoveClient
  <2>2. QED
    BY <1>0, <2>1, ExitTyped
<1>3. ASSUME NEW s \in Sid, JoinEnter(s) PROVE PlaceType'
  <2>1. goal[s] \in Room /\ Dir!Enter(s, goal[s])
    BY <1>3 DEF JoinEnter, JoinDone, Between
  <2>2. QED
    BY <1>0, <2>1, EnterTyped
<1>4. ASSUME NEW gone \in SUBSET listed, CleanupExpiredChannels(gone) PROVE PlaceType'
  BY <1>0, <1>4, ExpireTyped DEF CleanupExpiredChannels
<1>5. ASSUME UNCHANGED membership PROVE PlaceType'
  BY <1>0, <1>5 DEF membership, PlaceType
<1>6. ASSUME NEW s \in Sid,
             JoinFull(s) \/ UpdateName(s) \/ Refresh(s) \/ AddClient(s) \/ Disconnect(s)
      PROVE  PlaceType'
  BY <1>5, <1>6 DEF JoinFull, UpdateName, Refresh, AddClient, Disconnect
<1>7. ASSUME NEW a \in Agent, NextJob(a) \/ Finish(a) PROVE PlaceType'
  BY <1>5, <1>7 DEF NextJob, Finish
<1>8. ASSUME NEW a \in Agent, NEW t, NEW msg, Enqueue(a, t, msg) \/ EnqueueFails(a, t, msg) PROVE PlaceType'
  BY <1>5, <1>8 DEF Enqueue, EnqueueFails
<1>9. CASE UNCHANGED vars
  BY <1>5, <1>9 DEF vars, membership
<1>10. QED
  BY <1>1, <1>2, <1>3, <1>4, <1>6, <1>7, <1>8, <1>9 DEF Next

LEMMA PumpStep == TypeOK /\ [Next]_vars => PumpType'
<1> SUFFICES ASSUME TypeOK, [Next]_vars PROVE PumpType'
  OBVIOUS
<1>0. PumpType /\ NewsType
  BY TypeParts
<1>1. Begin => calls' \in 0 .. MaxCalls
  BY <1>0, SizeAssumption DEF PumpType, Begin
<1>2. ASSUME UNCHANGED <<pump, goal, due, slow>>, calls' \in 0 .. MaxCalls PROVE PumpType'
  BY <1>0, <1>2 DEF PumpType
<1>3. calls \in 0 .. MaxCalls
  BY <1>0 DEF PumpType
<1>4. ASSUME NEW s \in Sid, NEW r \in Room, JoinAdmit(s, r) PROVE PumpType'
  BY <1>0, <1>1, <1>4 DEF JoinAdmit, PumpType, history
<1>5. ASSUME NEW s \in Sid, JoinLeave(s) PROVE PumpType'
  BY <1>0, <1>5 DEF JoinLeave, PumpType
<1>6. ASSUME NEW s \in Sid, JoinEnter(s) \/ JoinFull(s) PROVE PumpType'
  BY <1>0, <1>6 DEF JoinEnter, JoinFull, JoinDone, PumpType, history
<1>7. ASSUME NEW s \in Sid, Leave(s) \/ UpdateName(s) \/ Refresh(s) PROVE PumpType'
  BY <1>1, <1>2, <1>7 DEF Leave, UpdateName, Refresh, history
<1>8. ASSUME NEW s \in Sid, AddClient(s) PROVE PumpType'
  BY <1>2, <1>3, <1>8 DEF AddClient, history
<1>9. ASSUME NEW s \in Sid, Disconnect(s) PROVE PumpType'
  BY <1>0, <1>1, <1>9 DEF Disconnect, PumpType, history
<1>10. ASSUME NEW s \in Sid, NEW n \in 1 .. MaxCalls, RemoveClient(s, n) PROVE PumpType'
  BY <1>0, <1>10 DEF RemoveClient, PumpType
<1>11. ASSUME NEW gone \in SUBSET listed, CleanupExpiredChannels(gone) PROVE PumpType'
  BY <1>1, <1>2, <1>11 DEF CleanupExpiredChannels
<1>12. ASSUME NEW a \in Agent, NextJob(a) \/ Finish(a) PROVE PumpType'
  BY <1>2, <1>3, <1>12 DEF NextJob, Finish, history
<1>13. ASSUME NEW a \in Agent, NEW t, NEW msg, Enqueue(a, t, msg) PROVE PumpType'
  BY <1>2, <1>3, <1>13 DEF Enqueue
<1>14. ASSUME NEW a \in Agent, NEW entry \in pending[a], EnqueueFails(a, entry[1], entry[2]) PROVE PumpType'
  <2>1. entry[1] \in Sid
    BY <1>0, Recipient
  <2>2. QED
    BY <1>0, <1>1, <1>14, <2>1 DEF EnqueueFails, PumpType
<1>15. CASE UNCHANGED vars
  BY <1>2, <1>3, <1>15 DEF vars
<1>16. QED
  BY <1>4, <1>5, <1>6, <1>7, <1>8, <1>9, <1>10, <1>11, <1>12, <1>13, <1>14, <1>15 DEF Next
-----------------------------------------------------------------------------
(* What the steps do to jobs, recipients and debts.                        *)

\* a, which is free or between the sections of a join, makes the next change, and a list for
\* everybody will follow.
ChangesOf(a, jobs) ==
    /\ Change(a, jobs) /\ Proper(a, jobs)
    /\ todo[a] = <<>> /\ pending[a] = {} /\ slow' = slow
    /\ Entering(a)' \/ List(Everybody) \in ToSet(jobs)
    /\ \A b \in Agent : b # a => (Entering(b)' <=> Entering(b))

\* What a connection does is nothing to the other agents.
LEMMA OtherPumps ==
    ASSUME NEW s \in Sid, PumpType, \A u \in Sid : u # s => pump'[u] = pump[u]
    PROVE  \A b \in Agent : b # Pump(s) => (Entering(b)' <=> Entering(b))
BY Agents DEF Entering

LEMMA SamePumps ==
    ASSUME pump' = pump
    PROVE  \A b \in Agent : Entering(b)' <=> Entering(b)
BY DEF Entering

LEMMA JoinLeaveChanges ==
    ASSUME TypeOK, Between, NEW s \in Sid, JoinLeave(s), where[s] # Nil
    PROVE  \E jobs : ChangesOf(Pump(s), jobs)
<1> DEFINE jobs == IF where[s] = goal[s] THEN <<>> ELSE <<Tell(where[s], Told("left", s))>>
<1>0. PlaceType /\ PumpType /\ NewsType
  BY TypeParts
<1>1. /\ Change(Pump(s), jobs) /\ slow' = slow /\ pump' = [pump EXCEPT ![s] = "entering"]
      /\ pump[s] = "leaving"
  BY DEF JoinLeave
<1>2. where[s] \in Room /\ "left" \in What \ {"list"}
  BY <1>0 DEF PlaceType, What
<1>3. Proper(Pump(s), jobs)
  BY <1>0, <1>2, Agents, ProperJobs DEF AgentsOf
<1>4. todo[Pump(s)] = <<>> /\ pending[Pump(s)] = {}
  BY <1>1 DEF Between, Free
<1>5. Entering(Pump(s))'
  BY <1>0, <1>1, Agents DEF Entering, PumpType
<1>6. \A b \in Agent : b # Pump(s) => (Entering(b)' <=> Entering(b))
  <2>1. \A u \in Sid : u # s => pump'[u] = pump[u]
    BY <1>0, <1>1 DEF PumpType
  <2>2. QED
    BY <1>0, <2>1, OtherPumps
<1> HIDE DEF jobs
<1>7. QED
  BY <1>1, <1>3, <1>4, <1>5, <1>6 DEF ChangesOf

LEMMA JoinEnterChanges ==
    ASSUME TypeOK, Between, NEW s \in Sid, JoinEnter(s)
    PROVE  \E jobs : ChangesOf(Pump(s), jobs)
<1> DEFINE jobs == <<Tell(goal[s], Told("joined", s)), Tell(s, Told("state", Nil)), List(Everybody)>>
<1>0. PlaceType /\ PumpType /\ NewsType
  BY TypeParts
<1>1. /\ Change(Pump(s), jobs) /\ slow' = slow /\ pump' = [pump EXCEPT ![s] = "reading"]
      /\ todo[Pump(s)] = <<>> /\ pending[Pump(s)] = {} /\ goal[s] \in Room
  BY DEF JoinEnter, JoinDone, Between
<1>2. "joined" \in What \ {"list"}
  BY DEF What
<1>3. Proper(Pump(s), jobs) /\ List(Everybody) \in ToSet(jobs)
  BY <1>0, <1>1, <1>2, Agents, ProperJobs DEF AgentsOf
<1>4. \A b \in Agent : b # Pump(s) => (Entering(b)' <=> Entering(b))
  <2>1. \A u \in Sid : u # s => pump'[u] = pump[u]
    BY <1>0, <1>1 DEF PumpType
  <2>2. QED
    BY <1>0, <2>1, OtherPumps
<1> HIDE DEF jobs
<1>5. QED
  BY <1>1, <1>3, <1>4 DEF ChangesOf

LEMMA LeaveChanges ==
    ASSUME TypeOK, NEW s \in Sid, Leave(s) \/ UpdateName(s)
    PROVE  \E jobs : ChangesOf(Pump(s), jobs)
<1>0. PlaceType /\ PumpType /\ NewsType
  BY TypeParts
<1>1. /\ where[s] # Nil /\ Free(Pump(s)) /\ pump' = pump /\ slow' = slow
      /\ \E what \in {"left", "renamed"} :
             Change(Pump(s), <<Tell(where[s], Told(what, s)), List(Everybody)>>)
  BY DEF Leave, UpdateName
<1>2. PICK what \in {"left", "renamed"} :
          Change(Pump(s), <<Tell(where[s], Told(what, s)), List(Everybody)>>)
  BY <1>1
<1> DEFINE jobs == <<Tell(where[s], Told(what, s)), List(Everybody)>>
<1>3. where[s] \in Room /\ what \in What \ {"list"}
  BY <1>0, <1>1 DEF PlaceType, What
<1>4. Proper(Pump(s), jobs) /\ List(Everybody) \in ToSet(jobs)
  BY <1>0, <1>3, Agents, ProperJobs DEF AgentsOf
<1>5. Change(Pump(s), jobs)
  BY <1>2
<1> HIDE DEF jobs
<1>6. QED
  BY <1>1, <1>4, <1>5, SamePumps DEF ChangesOf, Free

LEMMA RemoveClientChanges ==
    ASSUME TypeOK, NEW s \in Sid, NEW n \in 1 .. MaxCalls, RemoveClient(s, n), where[s] # Nil
    PROVE  \E jobs : ChangesOf(Remover(s, n), jobs)
<1> DEFINE jobs == <<TakeOut, Tell(where[s], Told("left", s)), List(Everybody)>>
<1>0. PlaceType /\ PumpType /\ NewsType
  BY TypeParts
<1>1. Free(Remover(s, n)) /\ pump' = pump /\ slow' = slow /\ Change(Remover(s, n), jobs)
  BY DEF RemoveClient
<1>2. where[s] \in Room /\ "left" \in What \ {"list"}
  BY <1>0 DEF PlaceType, What
<1>3. Proper(Remover(s, n), jobs) /\ List(Everybody) \in ToSet(jobs)
  BY <1>0, <1>2, Agents, ProperJobs DEF AgentsOf
<1> HIDE DEF jobs
<1>4. QED
  BY <1>1, <1>3, SamePumps DEF ChangesOf, Free

LEMMA CleanupChanges ==
    ASSUME TypeOK, NEW gone \in SUBSET listed, CleanupExpiredChannels(gone)
    PROVE  \E jobs : ChangesOf(Sweeper, jobs)
<1> DEFINE jobs == <<Tell(Everybody, Told("expired", Nil)), List(Everybody)>>
<1>1. Free(Sweeper) /\ pump' = pump /\ slow' = slow /\ Change(Sweeper, jobs)
  BY DEF CleanupExpiredChannels
<1>2. Proper(Sweeper, jobs) /\ List(Everybody) \in ToSet(jobs)
  <2>1. Told("expired", Nil) \in Message /\ Told("expired", Nil).what = "expired"
        /\ Told("expired", Nil).about = Nil /\ Told("expired", Nil).v = version + 1
    <3>1. version + 1 \in Nat /\ "expired" \in What
      BY TypeParts DEF NewsType, What
    <3>2. QED
      BY <3>1, MessageFields DEF Told
  <2>2. PICK z \in Job : /\ z = Tell(Everybody, Told("expired", Nil)) /\ z.do = "tell"
                         /\ z.msg = Told("expired", Nil)
    BY <2>1, TellShape
  <2>3. PICK l \in Job : l = List(Everybody) /\ l.do = "list" /\ l.to = Everybody
    BY JobShapes
  <2>4. /\ <<z, l>> \in Seq(Job) /\ ToSet(<<z, l>>) = {z, l}
        /\ DOMAIN <<z, l>> = {1, 2} /\ <<z, l>>[1] = z /\ <<z, l>>[2] = l
    BY TwoJobs
  <2>5. ~PeerNews(l) /\ ~PeerNews(z)
    BY <2>1, <2>2, <2>3 DEF PeerNews
  <2>6. Proper(Sweeper, <<z, l>>) /\ l \in ToSet(<<z, l>>)
    BY <2>1, <2>2, <2>3, <2>4, <2>5 DEF Proper
  <2>7. QED
    BY <2>2, <2>3, <2>6
<1> HIDE DEF jobs
<1>3. QED
  BY <1>1, <1>2, SamePumps DEF ChangesOf, Free

\* The three things an agent may have to do next.
SnapshotTaken(a) ==
    \E to \in Sid \cup {Everybody} :
        /\ List(to) \in Jobs(a)
        /\ todo'[a] = <<Tell(to, Msg("list", Nil, version))>>
        /\ pending'[a] = {} /\ client' = client

LookedUp(a) ==
    /\ Head(todo[a]).do = "tell"
    /\ todo'[a] = Tail(todo[a])
    /\ pending'[a] = Recipients(a, Head(todo[a]).to) \X {Head(todo[a]).msg}
    /\ client' = client

TakenOut(a) ==
    /\ Head(todo[a]) = TakeOut
    /\ todo'[a] = Tail(todo[a])
    /\ pending'[a] = {}
    /\ \A t \in Sid : client'[t] = client[t] \/ (client[t] = "in" /\ client'[t] = "out")

LEMMA NextJobFacts ==
    ASSUME NewsType, NEW a \in Agent, NextJob(a)
    PROVE  /\ NewsType' /\ Others(a)
           /\ todo[a] # <<>> /\ pending[a] = {}
           /\ UNCHANGED <<version, since, pump, goal, due, owes, inbox, settled, refused, slow>>
           /\ SnapshotTaken(a) \/ LookedUp(a) \/ TakenOut(a)
<1>1. /\ todo[a] # <<>> /\ pending[a] = {} /\ todo[a] \in Seq(Job)
      /\ UNCHANGED <<version, since, pump, goal, due, owes, inbox, settled, refused, slow>>
  BY DEF NextJob, history, NewsType
<1>2. /\ Head(todo[a]) \in Job /\ Tail(todo[a]) \in Seq(Job)
      /\ Head(todo[a]) \in Jobs(a)
  BY <1>1, FirstAndRest DEF Jobs
<1>3. CASE TakeSnapshot(a)
  <2> DEFINE to == Head(todo[a]).to
             q == <<Tell(to, Msg("list", Nil, version))>>
  <2>1. /\ Head(todo[a]).do = "list" /\ todo' = [todo EXCEPT ![a] = q]
        /\ client' = client /\ pending' = pending
    BY <1>3 DEF TakeSnapshot
  <2>2. to \in Sid \cup {Everybody} /\ Head(todo[a]) = List(to)
    BY <1>2, <2>1, JobFields
  <2>3. Msg("list", Nil, version) \in Message
    BY MessageFields DEF NewsType, What
  <2>4. q \in Seq(Job)
    BY <2>2, <2>3, TellShape, OneJob
  <2> HIDE DEF q, to
  <2>5. todo' \in [Agent -> Seq(Job)] /\ todo'[a] = q
    BY <2>1, <2>4 DEF NewsType
  <2>6. NewsType'
    BY <1>1, <2>1, <2>5 DEF NewsType
  <2>7. Others(a)
    BY <1>1, <2>1 DEF Others, NewsType
  <2>8. SnapshotTaken(a)
    BY <1>1, <1>2, <2>1, <2>2, <2>5 DEF SnapshotTaken, q
  <2>9. QED
    BY <1>1, <2>6, <2>7, <2>8
<1>4. CASE LookUp(a)
  <2> DEFINE job == Head(todo[a])
             rs == Recipients(a, job.to) \X {job.msg}
  <2>1. /\ job.do = "tell" /\ todo' = [todo EXCEPT ![a] = Tail(todo[a])]
        /\ pending' = [pending EXCEPT ![a] = rs] /\ client' = client
    BY <1>4 DEF LookUp
  <2>2. job.msg \in Message
    BY <1>2, <2>1, JobFields
  <2>3. rs \subseteq Sid \X Message
    BY <2>2 DEF Recipients
  <2> HIDE DEF rs
  <2>4. todo' \in [Agent -> Seq(Job)] /\ todo'[a] = Tail(todo[a])
    BY <1>2, <2>1 DEF NewsType
  <2>5. pending' \in [Agent -> SUBSET (Sid \X Message)] /\ pending'[a] = rs
    BY <2>1, <2>3 DEF NewsType
  <2>6. NewsType'
    BY <1>1, <2>1, <2>4, <2>5 DEF NewsType
  <2>7. Others(a)
    BY <1>1, <2>1 DEF Others, NewsType
  <2>8. LookedUp(a)
    BY <2>1, <2>4, <2>5 DEF LookedUp, rs
  <2>9. QED
    BY <1>1, <2>6, <2>7, <2>8
<1>5. CASE Delete(a)
  <2>1. /\ Head(todo[a]) = TakeOut /\ todo' = [todo EXCEPT ![a] = Tail(todo[a])]
        /\ client' = [client EXCEPT ![a[1]] = IF @ = "in" THEN "out" ELSE @] /\ pending' = pending
    BY <1>5 DEF Delete
  <2>2. todo' \in [Agent -> Seq(Job)] /\ todo'[a] = Tail(todo[a])
    BY <1>2, <2>1 DEF NewsType
  <2>3. /\ client' \in [Sid -> {"queued", "in", "out"}]
        /\ \A t \in Sid : client'[t] = client[t] \/ (client[t] = "in" /\ client'[t] = "out")
    BY <2>1 DEF NewsType
  <2>4. NewsType'
    BY <1>1, <2>1, <2>2, <2>3 DEF NewsType
  <2>5. Others(a)
    BY <1>1, <2>1 DEF Others, NewsType
  <2>6. TakenOut(a)
    BY <1>1, <2>1, <2>2, <2>3 DEF TakenOut
  <2>7. QED
    BY <1>1, <2>4, <2>5, <2>6
<1>6. QED
  BY <1>3, <1>4, <1>5 DEF NextJob

LEMMA EnqueueFacts ==
    ASSUME NewsType, NEW a \in Agent, NEW t \in Sid, NEW msg \in Message, Enqueue(a, t, msg)
    PROVE  /\ NewsType' /\ Others(a)
           /\ pending'[a] = pending[a] \ {<<t, msg>>}
           /\ inbox' = IF client[t] = "in" THEN [inbox EXCEPT ![t] = Append(inbox[t], msg)] ELSE inbox
           /\ UNCHANGED <<version, client, since, pump, goal, due, todo, owes, settled, refused, slow>>
<1>1. /\ pending' = [pending EXCEPT ![a] = @ \ {<<t, msg>>}]
      /\ inbox' = IF client[t] = "in" THEN [inbox EXCEPT ![t] = Append(inbox[t], msg)] ELSE inbox
      /\ UNCHANGED <<version, client, since, pump, goal, due, todo, owes, settled, refused, slow>>
  BY DEF Enqueue
<1>2. inbox' \in [Sid -> Seq(Message)]
  <2>1. inbox \in [Sid -> Seq(Message)] /\ Append(inbox[t], msg) \in Seq(Message)
    BY AppendProperties DEF NewsType
  <2>2. QED
    BY <1>1, <2>1
<1>3. pending' \in [Agent -> SUBSET (Sid \X Message)] /\ pending'[a] = pending[a] \ {<<t, msg>>}
  BY <1>1 DEF NewsType
<1>4. NewsType'
  BY <1>1, <1>2, <1>3 DEF NewsType
<1>5. QED
  BY <1>1, <1>3, <1>4 DEF Others, NewsType

LEMMA EnqueueFailsFacts ==
    ASSUME NewsType, NEW a \in Agent, NEW t \in Sid, NEW msg \in Message, EnqueueFails(a, t, msg)
    PROVE  /\ NewsType' /\ Others(a)
           /\ pending'[a] = pending[a] \ {<<t, msg>>}
           /\ slow' = slow \cup {t} /\ due' = [due EXCEPT ![t] = @ + 1]
           /\ UNCHANGED <<version, client, since, pump, goal, todo, owes, inbox, settled, refused>>
<1>1. /\ pending' = [pending EXCEPT ![a] = @ \ {<<t, msg>>}]
      /\ slow' = slow \cup {t} /\ due' = [due EXCEPT ![t] = @ + 1]
      /\ UNCHANGED <<version, client, since, pump, goal, todo, owes, inbox, settled, refused>>
  BY DEF EnqueueFails
<1>2. pending' \in [Agent -> SUBSET (Sid \X Message)] /\ pending'[a] = pending[a] \ {<<t, msg>>}
  BY <1>1 DEF NewsType
<1>3. NewsType'
  BY <1>1, <1>2 DEF NewsType
<1>4. QED
  BY <1>1, <1>2, <1>3 DEF Others, NewsType

LEMMA FinishFacts ==
    ASSUME TypeOK, NEW a \in Agent, Finish(a)
    PROVE  /\ NewsType' /\ Others(a)
           /\ todo[a] = <<>> /\ pending[a] = {} /\ ~Entering(a)
           /\ settled' = settled \cup owes[a] /\ owes'[a] = {}
           /\ UNCHANGED <<version, client, since, pump, goal, due, todo, pending, inbox, refused, slow>>
<1>0. NewsType /\ PumpType
  BY TypeParts
<1>1. /\ todo[a] = <<>> /\ pending[a] = {}
      /\ a[2] = "pump" => pump[a[1]] \in {"reading", "ended"}
      /\ settled' = settled \cup owes[a] /\ owes' = [owes EXCEPT ![a] = {}]
      /\ UNCHANGED <<version, client, since, pump, goal, due, todo, pending, inbox, refused, slow>>
  BY DEF Finish
<1>2. owes' \in [Agent -> SUBSET (1 .. version)] /\ owes'[a] = {} /\ settled' \subseteq 1 .. version
  BY <1>0, <1>1 DEF NewsType
<1>3. NewsType'
  BY <1>0, <1>1, <1>2 DEF NewsType
<1>4. QED
  BY <1>0, <1>1, <1>2, <1>3 DEF Others, NewsType, Entering

\* A step that tells nothing and owes nothing new.
LEMMA NothingNew ==
    ASSUME NewsType, version' \in {version, version + 1},
           UNCHANGED <<client, since, todo, pending, owes, inbox, settled, refused>>
    PROVE  NewsType' /\ version' \in Nat /\ version <= version'
<1>1. /\ version' \in Nat /\ version <= version'
      /\ 1 .. version \subseteq 1 .. version' /\ 0 .. version \subseteq 0 .. version'
  BY DEF NewsType
<1>2. since' \in [Sid -> 0 .. version'] /\ settled' \subseteq 1 .. version'
  BY <1>1 DEF NewsType
<1>3. owes' \in [Agent -> SUBSET (1 .. version')]
  BY <1>1 DEF NewsType
<1>4. QED
  BY <1>1, <1>2, <1>3 DEF NewsType

LEMMA JoinAdmitFacts ==
    ASSUME NewsType, NEW s \in Sid, NEW r \in Room, JoinAdmit(s, r)
    PROVE  /\ NewsType' /\ version' \in Nat /\ version <= version'
           /\ pump[s] = "reading" /\ Free(Pump(s))
           /\ pump' = [pump EXCEPT ![s] = "leaving"] /\ goal' = [goal EXCEPT ![s] = r]
           /\ UNCHANGED <<client, since, due, todo, pending, owes, inbox, settled, refused, slow>>
<1>1. /\ version' \in {version, version + 1} /\ pump[s] = "reading" /\ Free(Pump(s))
      /\ pump' = [pump EXCEPT ![s] = "leaving"] /\ goal' = [goal EXCEPT ![s] = r]
      /\ UNCHANGED <<client, since, due, todo, pending, owes, inbox, settled, refused, slow>>
  BY DEF JoinAdmit, history
<1>2. QED
  BY <1>1, NothingNew

LEMMA JoinLeaveIdle ==
    ASSUME TypeOK, Between, NEW s \in Sid, JoinLeave(s), where[s] = Nil
    PROVE  /\ NewsType' /\ Free(Pump(s)) /\ pump[s] = "leaving"
           /\ pump' = [pump EXCEPT ![s] = "entering"]
           /\ UNCHANGED <<version, client, since, goal, due, todo, pending, owes, inbox, settled, refused, slow>>
<1>1. /\ pump[s] = "leaving" /\ Free(Pump(s))
      /\ pump' = [pump EXCEPT ![s] = "entering"]
      /\ UNCHANGED <<version, client, since, goal, due, todo, pending, owes, inbox, settled, refused, slow>>
  BY DEF JoinLeave, NoChange, Between
<1>2. QED
  BY <1>1, NothingNew, TypeParts

LEMMA JoinFullFacts ==
    ASSUME NewsType, NEW s \in Sid, JoinFull(s)
    PROVE  /\ NewsType' /\ Others(Pump(s))
           /\ pump[s] = "entering" /\ pump' = [pump EXCEPT ![s] = "reading"]
           /\ goal' = [goal EXCEPT ![s] = Nil]
           /\ todo[Pump(s)] = <<>> /\ pending[Pump(s)] = {} /\ owes'[Pump(s)] = {}
           /\ settled' = settled \cup owes[Pump(s)] /\ refused' = refused \cup owes[Pump(s)]
           /\ UNCHANGED <<version, client, since, due, todo, pending, inbox, slow>>
<1>1. /\ pump[s] = "entering" /\ pump' = [pump EXCEPT ![s] = "reading"]
      /\ goal' = [goal EXCEPT ![s] = Nil]
      /\ todo[Pump(s)] = <<>> /\ pending[Pump(s)] = {} /\ owes' = [owes EXCEPT ![Pump(s)] = {}]
      /\ settled' = settled \cup owes[Pump(s)] /\ refused' = refused \cup owes[Pump(s)]
      /\ UNCHANGED <<version, client, since, due, todo, pending, inbox, slow>>
  BY DEF JoinFull, JoinDone
<1>2. /\ owes' \in [Agent -> SUBSET (1 .. version)] /\ owes'[Pump(s)] = {}
      /\ settled' \subseteq 1 .. version /\ refused' \subseteq settled'
  BY <1>1, Agents DEF NewsType
<1>3. NewsType'
  BY <1>1, <1>2 DEF NewsType
<1>4. QED
  BY <1>1, <1>2, <1>3 DEF Others, NewsType

LEMMA RefreshFacts ==
    ASSUME NewsType, NEW s \in Sid, Refresh(s)
    PROVE  /\ NewsType' /\ Others(Pump(s)) /\ Free(Pump(s)) /\ pump[s] = "reading"
           /\ todo'[Pump(s)] = <<List(s)>>
           /\ UNCHANGED <<version, client, since, pump, goal, due, pending, owes, inbox, settled, refused, slow>>
<1>1. /\ Free(Pump(s)) /\ todo' = [todo EXCEPT ![Pump(s)] = <<List(s)>>] /\ pump[s] = "reading"
      /\ UNCHANGED <<version, client, since, pump, goal, due, pending, owes, inbox, settled, refused, slow>>
  BY DEF Refresh, history
<1>2. <<List(s)>> \in Seq(Job)
  BY JobShapes, OneJob
<1>3. todo' \in [Agent -> Seq(Job)] /\ todo'[Pump(s)] = <<List(s)>>
  BY <1>1, <1>2, Agents DEF NewsType
<1>4. NewsType'
  BY <1>1, <1>3 DEF NewsType
<1>5. QED
  BY <1>1, <1>3, <1>4 DEF Others, NewsType

LEMMA AddClientFacts ==
    ASSUME NewsType, NEW s \in Sid, AddClient(s)
    PROVE  /\ NewsType' /\ client[s] = "queued"
           /\ client' = [client EXCEPT ![s] = "in"] /\ since' = [since EXCEPT ![s] = version]
           /\ UNCHANGED <<version, pump, goal, due, todo, pending, owes, inbox, settled, refused, slow>>
<1>1. /\ client[s] = "queued"
      /\ client' = [client EXCEPT ![s] = "in"] /\ since' = [since EXCEPT ![s] = version]
      /\ UNCHANGED <<version, pump, goal, due, todo, pending, owes, inbox, settled, refused, slow>>
  BY DEF AddClient, history
<1>2. client' \in [Sid -> {"queued", "in", "out"}] /\ version \in 0 .. version
  BY <1>1 DEF NewsType
<1>3. since' \in [Sid -> 0 .. version]
  BY <1>1, <1>2 DEF NewsType
<1>4. QED
  BY <1>1, <1>2, <1>3 DEF NewsType

LEMMA DisconnectFacts ==
    ASSUME NewsType, NEW s \in Sid, Disconnect(s)
    PROVE  /\ NewsType' /\ pump[s] = "reading" /\ Free(Pump(s))
           /\ pump' = [pump EXCEPT ![s] = "ended"] /\ due' = [due EXCEPT ![s] = @ + 1]
           /\ UNCHANGED <<version, client, since, goal, todo, pending, owes, inbox, settled, refused, slow>>
<1>1. /\ pump[s] = "reading" /\ Free(Pump(s))
      /\ pump' = [pump EXCEPT ![s] = "ended"] /\ due' = [due EXCEPT ![s] = @ + 1]
      /\ UNCHANGED <<version, client, since, goal, todo, pending, owes, inbox, settled, refused, slow>>
  BY DEF Disconnect, history
<1>2. QED
  BY <1>1, NothingNew

LEMMA RemoveClientIdle ==
    ASSUME NewsType, NEW s \in Sid, NEW n \in 1 .. MaxCalls, RemoveClient(s, n), where[s] = Nil
    PROVE  /\ NewsType' /\ Others(Remover(s, n)) /\ Free(Remover(s, n))
           /\ todo'[Remover(s, n)] = <<TakeOut>>
           /\ UNCHANGED <<version, client, since, pump, goal, pending, owes, inbox, settled, refused, slow>>
<1>1. /\ Free(Remover(s, n)) /\ todo' = [todo EXCEPT ![Remover(s, n)] = <<TakeOut>>]
      /\ UNCHANGED <<version, client, since, pump, goal, pending, owes, inbox, settled, refused, slow>>
  BY DEF RemoveClient
<1>2. <<TakeOut>> \in Seq(Job)
  BY JobShapes, OneJob
<1>3. todo' \in [Agent -> Seq(Job)] /\ todo'[Remover(s, n)] = <<TakeOut>>
  BY <1>1, <1>2, Agents DEF NewsType
<1>4. NewsType'
  BY <1>1, <1>3 DEF NewsType
<1>5. QED
  BY <1>1, <1>3, <1>4 DEF Others, NewsType

LEMMA ChangesTyped ==
    ASSUME NewsType, NEW a \in Agent, NEW jobs, ChangesOf(a, jobs)
    PROVE  NewsType' /\ Others(a)
BY ChangeFacts DEF ChangesOf, Proper

LEMMA NewsTypeStep == TypeOK /\ Between /\ [Next]_vars => NewsType'
<1> SUFFICES ASSUME TypeOK, Between, [Next]_vars PROVE NewsType'
  OBVIOUS
<1>0. NewsType
  BY TypeParts
<1>1. ASSUME NEW s \in Sid, NEW r \in Room, JoinAdmit(s, r) PROVE NewsType'
  BY <1>0, <1>1, JoinAdmitFacts
<1>2. ASSUME NEW s \in Sid, JoinLeave(s) PROVE NewsType'
  BY <1>0, <1>2, JoinLeaveIdle, JoinLeaveChanges, ChangesTyped, Agents
<1>3. ASSUME NEW s \in Sid, JoinEnter(s) PROVE NewsType'
  BY <1>0, <1>3, JoinEnterChanges, ChangesTyped, Agents
<1>4. ASSUME NEW s \in Sid, JoinFull(s) PROVE NewsType'
  BY <1>0, <1>4, JoinFullFacts
<1>5. ASSUME NEW s \in Sid, Leave(s) \/ UpdateName(s) PROVE NewsType'
  BY <1>0, <1>5, LeaveChanges, ChangesTyped, Agents
<1>6. ASSUME NEW s \in Sid, Refresh(s) PROVE NewsType'
  BY <1>0, <1>6, RefreshFacts
<1>7. ASSUME NEW s \in Sid, AddClient(s) PROVE NewsType'
  BY <1>0, <1>7, AddClientFacts
<1>8. ASSUME NEW s \in Sid, Disconnect(s) PROVE NewsType'
  BY <1>0, <1>8, DisconnectFacts
<1>9. ASSUME NEW s \in Sid, NEW n \in 1 .. MaxCalls, RemoveClient(s, n) PROVE NewsType'
  BY <1>0, <1>9, RemoveClientIdle, RemoveClientChanges, ChangesTyped, Agents
<1>10. ASSUME NEW gone \in SUBSET listed, CleanupExpiredChannels(gone) PROVE NewsType'
  BY <1>0, <1>10, CleanupChanges, ChangesTyped, Agents
<1>11. ASSUME NEW a \in Agent, NextJob(a) PROVE NewsType'
  BY <1>0, <1>11, NextJobFacts
<1>12. ASSUME NEW a \in Agent, Finish(a) PROVE NewsType'
  BY <1>0, <1>12, FinishFacts
<1>13. ASSUME NEW a \in Agent, NEW entry \in pending[a],
              Enqueue(a, entry[1], entry[2]) \/ EnqueueFails(a, entry[1], entry[2])
       PROVE  NewsType'
  BY <1>0, <1>13, Recipient, EnqueueFacts, EnqueueFailsFacts
<1>14. CASE UNCHANGED vars
  BY <1>0, <1>14 DEF vars, NewsType
<1>15. QED
  BY <1>1, <1>2, <1>3, <1>4, <1>5, <1>6, <1>7, <1>8, <1>9, <1>10, <1>11, <1>12, <1>13, <1>14 DEF Next
-----------------------------------------------------------------------------
(* Between: connections that cannot tell have nothing to tell.             *)

\* An agent does something, and its connection, if it is one, goes on as it was.
LEMMA BetweenFrame ==
    ASSUME Between, NEW a \in Agent, Others(a), UNCHANGED <<pump, goal>>,
           a[2] = "pump" /\ pump[a[1]] \in {"leaving", "ended"} => Free(a)'
    PROVE  Between'
<1> SUFFICES ASSUME NEW s \in Sid
             PROVE  /\ pump'[s] \in {"leaving", "ended"} => Free(Pump(s))'
                    /\ pump'[s] \in {"leaving", "entering"} => goal'[s] \in Room
  BY DEF Between
<1>1. CASE a = Pump(s)
  BY <1>1, Agents DEF Between
<1>2. CASE a # Pump(s)
  BY <1>2, Agents DEF Between, Others, Free
<1>3. QED
  BY <1>1, <1>2

\* A connection goes on to something else.
LEMMA BetweenPump ==
    ASSUME Between, NEW s \in Sid, Others(Pump(s)), PumpType,
           NEW now \in {"reading", "leaving", "entering", "ended"}, NEW to,
           pump' = [pump EXCEPT ![s] = now], goal' = [goal EXCEPT ![s] = to],
           now \in {"leaving", "ended"} => Free(Pump(s))',
           now \in {"leaving", "entering"} => to \in Room
    PROVE  Between'
<1> SUFFICES ASSUME NEW u \in Sid
             PROVE  /\ pump'[u] \in {"leaving", "ended"} => Free(Pump(u))'
                    /\ pump'[u] \in {"leaving", "entering"} => goal'[u] \in Room
  BY DEF Between
<1>1. CASE u = s
  BY <1>1 DEF PumpType
<1>2. CASE u # s
  <2>1. Pump(u) # Pump(s) /\ Pump(u) \in Agent
    BY <1>2, Agents
  <2>2. pump'[u] = pump[u] /\ goal'[u] = goal[u]
    BY <1>2 DEF PumpType
  <2>3. QED
    BY <2>1, <2>2 DEF Between, Others, Free
<1>3. QED
  BY <1>1, <1>2

LEMMA BetweenStep == TypeOK /\ Between /\ [Next]_vars => Between'
<1> SUFFICES ASSUME TypeOK, Between, [Next]_vars PROVE Between'
  OBVIOUS
<1>0. PlaceType /\ PumpType /\ NewsType
  BY TypeParts
<1>same. \A s \in Sid : goal' = goal => goal' = [goal EXCEPT ![s] = goal[s]]
  BY <1>0 DEF PumpType
<1>1. ASSUME NEW s \in Sid, NEW r \in Room, JoinAdmit(s, r) PROVE Between'
  <2>1. Others(Pump(s)) /\ Free(Pump(s))'
    BY <1>0, <1>1, JoinAdmitFacts DEF Others, Free
  <2>2. pump' = [pump EXCEPT ![s] = "leaving"] /\ goal' = [goal EXCEPT ![s] = r]
    BY <1>0, <1>1, JoinAdmitFacts
  <2>3. QED
    BY <1>0, <2>1, <2>2, BetweenPump
<1>2. ASSUME NEW s \in Sid, JoinLeave(s) PROVE Between'
  <2>1. /\ pump' = [pump EXCEPT ![s] = "entering"] /\ goal' = goal /\ pump[s] = "leaving"
        /\ goal[s] \in Room
    BY <1>2 DEF JoinLeave, Between
  <2>2. Others(Pump(s))
    <3>1. CASE where[s] = Nil
      BY <1>2, <3>1, JoinLeaveIdle DEF Others
    <3>2. CASE where[s] # Nil
      BY <1>0, <1>2, <3>2, JoinLeaveChanges, ChangesTyped, Agents
    <3>3. QED
      BY <3>1, <3>2
  <2>3. QED
    BY <1>0, <1>same, <2>1, <2>2, BetweenPump
<1>3. ASSUME NEW s \in Sid, JoinEnter(s) \/ JoinFull(s) PROVE Between'
  <2>1. pump' = [pump EXCEPT ![s] = "reading"] /\ goal' = [goal EXCEPT ![s] = Nil]
    BY <1>3 DEF JoinEnter, JoinFull, JoinDone
  <2>2. Others(Pump(s))
    BY <1>0, <1>3, JoinEnterChanges, ChangesTyped, JoinFullFacts, Agents
  <2>3. QED
    BY <1>0, <2>1, <2>2, BetweenPump
<1>4. ASSUME NEW s \in Sid, Leave(s) \/ UpdateName(s) \/ Refresh(s) PROVE Between'
  <2>1. Others(Pump(s))
    BY <1>0, <1>4, LeaveChanges, ChangesTyped, RefreshFacts, Agents
  <2>2. UNCHANGED <<pump, goal>> /\ pump[s] = "reading"
    BY <1>4 DEF Leave, UpdateName, Refresh
  <2>3. QED
    BY <2>1, <2>2, BetweenFrame, Agents
<1>5. ASSUME UNCHANGED <<pump, goal, todo, pending, owes>> PROVE Between'
  BY <1>5 DEF Between, Free
<1>6. ASSUME NEW s \in Sid, AddClient(s) PROVE Between'
  BY <1>0, <1>5, <1>6, AddClientFacts
<1>7. ASSUME NEW s \in Sid, Disconnect(s) PROVE Between'
  <2>1. Others(Pump(s)) /\ Free(Pump(s))'
    BY <1>0, <1>7, DisconnectFacts DEF Others, Free
  <2>2. pump' = [pump EXCEPT ![s] = "ended"] /\ goal' = goal
    BY <1>0, <1>7, DisconnectFacts
  <2>3. QED
    BY <1>0, <1>same, <2>1, <2>2, BetweenPump
<1>8. ASSUME NEW s \in Sid, NEW n \in 1 .. MaxCalls, RemoveClient(s, n) PROVE Between'
  <2>1. Others(Remover(s, n))
    <3>1. CASE where[s] = Nil
      BY <1>0, <1>8, <3>1, RemoveClientIdle
    <3>2. CASE where[s] # Nil
      BY <1>0, <1>8, <3>2, RemoveClientChanges, ChangesTyped, Agents
    <3>3. QED
      BY <3>1, <3>2
  <2>2. UNCHANGED <<pump, goal>>
    BY <1>8 DEF RemoveClient
  <2>3. QED
    BY <2>1, <2>2, BetweenFrame, Agents
<1>9. ASSUME NEW gone \in SUBSET listed, CleanupExpiredChannels(gone) PROVE Between'
  <2>1. Others(Sweeper)
    BY <1>0, <1>9, CleanupChanges, ChangesTyped, Agents
  <2>2. UNCHANGED <<pump, goal>>
    BY <1>9 DEF CleanupExpiredChannels
  <2>3. QED
    BY <2>1, <2>2, BetweenFrame, Agents
<1>10. ASSUME NEW a \in Agent, ~Free(a), Others(a), UNCHANGED <<pump, goal>> PROVE Between'
  <2>1. ~(a[2] = "pump" /\ pump[a[1]] \in {"leaving", "ended"})
    BY <1>10, Agents DEF Between
  <2>2. QED
    BY <1>10, <2>1, BetweenFrame
<1>11. ASSUME NEW a \in Agent, NextJob(a) PROVE Between'
  BY <1>0, <1>10, <1>11, NextJobFacts DEF Free
<1>12. ASSUME NEW a \in Agent, Finish(a) PROVE Between'
  <2>1. ~Free(a)
    BY <1>12 DEF Finish, Free
  <2>2. QED
    BY <1>10, <1>12, <2>1, FinishFacts
<1>13. ASSUME NEW a \in Agent, NEW entry \in pending[a],
              Enqueue(a, entry[1], entry[2]) \/ EnqueueFails(a, entry[1], entry[2])
       PROVE  Between'
  <2>1. ~Free(a)
    BY <1>13 DEF Free
  <2>2. entry[1] \in Sid /\ entry[2] \in Message
    BY <1>0, Recipient
  <2>3. Others(a) /\ UNCHANGED <<pump, goal>>
    BY <1>0, <1>13, <2>2, EnqueueFacts, EnqueueFailsFacts
  <2>4. QED
    BY <1>10, <2>1, <2>3
<1>14. CASE UNCHANGED vars
  BY <1>5, <1>14 DEF vars
<1>15. QED
  BY <1>1, <1>2, <1>3, <1>4, <1>6, <1>7, <1>8, <1>9, <1>11, <1>12, <1>13, <1>14 DEF Next
-----------------------------------------------------------------------------
(* ListsInv: what is owed will be followed by a list.                      *)

LEMMA ListsParts ==
    ListsInv <=> /\ StillToTell /\ ToEverybody /\ OwedOnce /\ Heard
                 /\ Promised /\ NewsThenList /\ ListsReachEverybody
BY DEF ListsInv

\* What a does is nothing to b.
LEMMA SameFor ==
    ASSUME NEW a \in Agent, NEW b \in Agent, b # a, Others(a), Entering(b)' <=> Entering(b)
    PROVE  /\ todo'[b] = todo[b] /\ pending'[b] = pending[b] /\ owes'[b] = owes[b]
           /\ Jobs(b)' = Jobs(b) /\ Tells(b)' = Tells(b) /\ News(b)' = News(b)
           /\ ListDue(b)' <=> ListDue(b)
           /\ \A t \in Sid : ListComing(b, t)' <=> ListComing(b, t)
<1>1. todo'[b] = todo[b] /\ pending'[b] = pending[b] /\ owes'[b] = owes[b]
  BY DEF Others
<1>2. Jobs(b)' = Jobs(b)
  BY <1>1 DEF Jobs
<1>3. Tells(b)' = Tells(b)
  BY <1>2 DEF Tells
<1>4. News(b)' = News(b)
  BY <1>1, <1>3 DEF News
<1>5. ListDue(b)' <=> ListDue(b)
  BY <1>2 DEF ListDue
<1>6. \A t \in Sid : ListComing(b, t)' <=> ListComing(b, t)
  BY <1>1, <1>3, <1>5 DEF ListComing
<1>7. QED
  BY <1>1, <1>2, <1>3, <1>4, <1>5, <1>6

\* Nobody is sent anything, and a owes nothing new and goes on as it has to.
LEMMA ListsFrame ==
    ASSUME NewsType, NewsType', ListsInv, NEW a \in Agent, Others(a),
           \A b \in Agent : b # a => (Entering(b)' <=> Entering(b)),
           version <= version', inbox' = inbox,
           Announced' \subseteq Announced, settled' \subseteq settled \cup (owes[a] \ owes'[a]),
           \A t \in Sid : Kept(t)' => Kept(t) /\ since'[t] = since[t],
           \A t \in Sid : client'[t] = "queued" => client[t] = "queued",
           owes'[a] \subseteq owes[a],
           \A m \in News(a)' : m \in News(a) \/ (m.what = "list" /\ m.v = version),
           \A m \in News(a)' : m.what # "list" => owes'[a] = owes[a] /\ ListDue(a)',
           owes'[a] # {} =>
               \A job \in Jobs(a)' :
                   job.do = "list" \/ (job.do = "tell" /\ job.msg.what = "list") => job.to = Everybody,
           owes'[a] # {} => \A t \in Sid : Kept(t)' /\ ListComing(a, t) => ListComing(a, t)'
    PROVE  ListsInv'
<1>1. /\ StillToTell /\ ToEverybody /\ OwedOnce /\ Heard
      /\ Promised /\ NewsThenList /\ ListsReachEverybody
  BY ListsParts
<1>2. \A b \in Agent : b # a =>
          /\ todo'[b] = todo[b] /\ pending'[b] = pending[b] /\ owes'[b] = owes[b]
          /\ Jobs(b)' = Jobs(b) /\ News(b)' = News(b) /\ (ListDue(b)' <=> ListDue(b))
          /\ \A t \in Sid : ListComing(b, t)' <=> ListComing(b, t)
  BY SameFor
<1>3. version \in Nat /\ version' \in Nat
  BY DEF NewsType
<1>4. StillToTell'
  <2> SUFFICES ASSUME NEW b \in Agent, NEW m \in News(b)'
               PROVE  /\ m.v <= version'
                      /\ m.what = "list" => \A v \in owes'[b] : v <= m.v
                      /\ m.what # "list" => m.v \in owes'[b] /\ ListDue(b)'
    BY DEF StillToTell
  <2>1. CASE b # a
    <3>1. m \in News(b) /\ owes'[b] = owes[b] /\ (ListDue(b)' <=> ListDue(b))
      BY <1>2, <2>1
    <3>2. m.v <= version /\ (m.what # "list" => m.v \in owes[b]) 
      BY <1>1, <3>1 DEF StillToTell
    <3>3. m.v <= version'
      <4>1. m.v \in Nat
        BY <3>1, JobFields, MessageFields DEF News, Tells, Jobs, NewsType, ToSet
      <4>2. QED
        BY <1>3, <3>2, <4>1
    <3>4. QED
      BY <1>1, <3>1, <3>3 DEF StillToTell
  <2>2. CASE b = a /\ m \in News(a)
    <3>1. m.v <= version /\ (m.what # "list" => m.v \in owes[a])
          /\ (m.what = "list" => \A v \in owes[a] : v <= m.v)
      BY <1>1, <2>2 DEF StillToTell
    <3>2. m.v <= version'
      <4>1. m.v \in Nat
        BY <2>2, JobFields, MessageFields DEF News, Tells, Jobs, NewsType, ToSet
      <4>2. QED
        BY <1>3, <3>1, <4>1
    <3>3. QED
      BY <2>2, <3>1, <3>2
  <2>3. CASE b = a /\ m.what = "list" /\ m.v = version
    <3>1. \A v \in owes'[a] : v <= version
      BY <1>3 DEF NewsType
    <3>2. QED
      BY <2>3, <3>1
  <2>4. QED
    BY <2>1, <2>2, <2>3
<1>5. ToEverybody'
  BY <1>1, <1>2 DEF ToEverybody
<1>6. OwedOnce'
  <2>1. \A b \in Agent : owes'[b] \subseteq owes[b]
    BY <1>2
  <2>2. \A b \in Agent : owes[b] \cap settled = {} /\ (b # a => owes[b] \cap owes[a] = {})
    BY <1>1 DEF OwedOnce
  <2>3. \A b \in Agent : owes'[b] \cap settled' = {}
    BY <2>1, <2>2
  <2>4. QED
    BY <1>1, <2>1, <2>3 DEF OwedOnce
<1>7. Heard'
  <2> SUFFICES ASSUME NEW t \in Sid, NEW i \in DOMAIN inbox[t]
               PROVE  client'[t] # "queued" /\ inbox[t][i].v <= version'
    BY DEF Heard
  <2>1. client[t] # "queued" /\ inbox[t][i].v <= version
    BY <1>1 DEF Heard
  <2>2. inbox[t][i].v \in Nat
    BY MessageFields DEF NewsType
  <2>3. QED
    BY <1>3, <2>1, <2>2
<1>8. \A t \in Sid : \A i, v : Caught(t, i, v)' <=> Caught(t, i, v)
  BY DEF Caught, ListAt
<1>9. Promised'
  <2> SUFFICES ASSUME NEW b \in Agent, NEW t \in Sid, Kept(t)', NEW v \in owes'[b]
               PROVE  /\ v > since'[t] => Caught(t, 1, v)' \/ ListComing(b, t)'
                      /\ \A i \in DOMAIN inbox[t] :
                             inbox[t][i].v = v => Caught(t, i, v)' \/ ListComing(b, t)'
    BY DEF Promised
  <2>1. Kept(t) /\ since'[t] = since[t] /\ v \in owes[b]
    BY <1>2
  <2>2. ListComing(b, t) => ListComing(b, t)'
    BY <1>2
  <2>3. QED
    BY <1>1, <1>8, <2>1, <2>2 DEF Promised
<1>10. NewsThenList'
  BY <1>1 DEF NewsThenList, ListAt
<1>11. ListsReachEverybody'
  <2> SUFFICES ASSUME NEW t \in Sid, Kept(t)', NEW v \in Announced, v > since'[t]
               PROVE  \E i \in DOMAIN inbox[t] : ListAt(t, i, v)'
    BY DEF ListsReachEverybody
  <2>1. Kept(t) /\ v > since[t]
    OBVIOUS
  <2>2. QED
    BY <1>1, <2>1 DEF ListsReachEverybody, ListAt
<1>12. QED
  BY <1>4, <1>5, <1>6, <1>7, <1>9, <1>10, <1>11 DEF ListsInv

\* The next change is told, and a list that contains it will be.
LEMMA ListsChange ==
    ASSUME NewsType, ListsInv, NEW a \in Agent, NEW jobs, ChangesOf(a, jobs)
    PROVE  ListsInv'
<1>1. /\ StillToTell /\ ToEverybody /\ OwedOnce /\ Heard
      /\ Promised /\ NewsThenList /\ ListsReachEverybody
  BY ListsParts
<1>2. Proper(a, jobs) /\ Change(a, jobs) /\ pending[a] = {} /\ slow' = slow /\ jobs \in Seq(Job)
  BY DEF ChangesOf, Proper
<1>3. /\ NewsType' /\ Others(a)
      /\ version' = version + 1 /\ version \in Nat /\ version + 1 \in Nat
      /\ todo'[a] = jobs /\ owes'[a] = owes[a] \cup {version + 1} /\ pending'[a] = {}
      /\ UNCHANGED <<client, since, inbox, settled, refused>>
  BY <1>2, ChangeFacts DEF NewsType
<1>4. \A b \in Agent : b # a =>
          /\ todo'[b] = todo[b] /\ pending'[b] = pending[b] /\ owes'[b] = owes[b]
          /\ Jobs(b)' = Jobs(b) /\ News(b)' = News(b) /\ (ListDue(b)' <=> ListDue(b))
          /\ \A t \in Sid : ListComing(b, t)' <=> ListComing(b, t)
  BY <1>3, SameFor DEF ChangesOf
<1>5. Jobs(a)' = ToSet(jobs)
  BY <1>3 DEF Jobs
<1>6. ListDue(a)'
  BY <1>5 DEF ListDue, ChangesOf
<1>7. \A m \in News(a)' : m.v = version + 1 /\ m.what # "list"
  BY <1>2, <1>3, <1>5 DEF News, Tells, Proper
<1>8. StillToTell'
  <2> SUFFICES ASSUME NEW b \in Agent, NEW m \in News(b)'
               PROVE  /\ m.v <= version + 1
                      /\ m.what = "list" => \A v \in owes'[b] : v <= m.v
                      /\ m.what # "list" => m.v \in owes'[b] /\ ListDue(b)'
    BY <1>3 DEF StillToTell
  <2>1. CASE b # a
    <3>1. /\ m.v <= version /\ (m.what # "list" => m.v \in owes[b] /\ ListDue(b))
          /\ m.what = "list" => \A v \in owes[b] : v <= m.v
      BY <1>1, <1>4, <2>1 DEF StillToTell
    <3>2. m.v \in Nat
      BY <1>4, <2>1, JobFields, MessageFields DEF News, Tells, Jobs, NewsType, ToSet
    <3>3. m.v <= version + 1
      BY <1>3, <3>1, <3>2
    <3>4. QED
      BY <1>4, <2>1, <3>1, <3>3
  <2>2. CASE b = a
    BY <1>3, <1>6, <1>7, <2>2
  <2>3. QED
    BY <2>1, <2>2
<1>9. ToEverybody'
  <2>1. \A job \in Jobs(a)' :
            job.do = "list" \/ (job.do = "tell" /\ job.msg.what = "list") => job.to = Everybody
    BY <1>2, <1>5 DEF Proper
  <2>2. QED
    BY <1>1, <1>4, <2>1 DEF ToEverybody
<1>10. OwedOnce'
  <2>1. version + 1 \notin 1 .. version
    BY <1>3
  <2>2. version + 1 \notin settled /\ \A b \in Agent : version + 1 \notin owes[b]
    BY <2>1 DEF NewsType
  <2>3. QED
    BY <1>1, <1>3, <1>4, <2>2 DEF OwedOnce
<1>11. Heard'
  <2> SUFFICES ASSUME NEW t \in Sid, NEW i \in DOMAIN inbox[t]
               PROVE  client[t] # "queued" /\ inbox[t][i].v <= version + 1
    BY <1>3 DEF Heard
  <2>1. client[t] # "queued" /\ inbox[t][i].v <= version
    BY <1>1 DEF Heard
  <2>2. inbox[t][i].v \in Nat
    BY MessageFields DEF NewsType
  <2>3. QED
    BY <1>3, <2>1, <2>2
<1>12. \A t \in Sid : \A i, v : Caught(t, i, v)' <=> Caught(t, i, v)
  BY <1>3 DEF Caught, ListAt
<1>13. \A t \in Sid : Kept(t)' <=> Kept(t)
  BY <1>2, <1>3 DEF Kept
<1>14. Promised'
  <2> SUFFICES ASSUME NEW b \in Agent, NEW t \in Sid, Kept(t)', NEW v \in owes'[b]
               PROVE  /\ v > since'[t] => Caught(t, 1, v)' \/ ListComing(b, t)'
                      /\ \A i \in DOMAIN inbox'[t] :
                             inbox'[t][i].v = v => Caught(t, i, v)' \/ ListComing(b, t)'
    BY DEF Promised
  <2>1. CASE b # a
    BY <1>1, <1>3, <1>4, <1>12, <1>13, <2>1 DEF Promised
  <2>2. CASE b = a
    BY <1>6, <2>2 DEF ListComing
  <2>3. QED
    BY <2>1, <2>2
<1>15. NewsThenList'
  BY <1>1, <1>3, <1>13 DEF NewsThenList, ListAt, Announced
<1>16. ListsReachEverybody'
  BY <1>1, <1>3, <1>13 DEF ListsReachEverybody, ListAt, Announced
<1>17. QED
  BY <1>8, <1>9, <1>10, <1>11, <1>14, <1>15, <1>16 DEF ListsInv

\* The call returns with nothing to come: everybody has its lists.
LEMMA ListsFinish ==
    ASSUME TypeOK, ListsInv, NEW a \in Agent, Finish(a)
    PROVE  ListsInv'
<1>1. /\ StillToTell /\ ToEverybody /\ OwedOnce /\ Heard
      /\ Promised /\ NewsThenList /\ ListsReachEverybody
  BY ListsParts
<1>2. /\ Others(a) /\ todo[a] = <<>> /\ pending[a] = {} /\ ~Entering(a)
      /\ settled' = settled \cup owes[a] /\ owes'[a] = {}
      /\ UNCHANGED <<version, client, since, pump, todo, pending, inbox, refused, slow>>
  BY FinishFacts
<1>3. NewsType
  BY TypeParts
<1>4. \A b \in Agent : Jobs(b)' = Jobs(b) /\ Tells(b)' = Tells(b) /\ News(b)' = News(b)
  BY <1>2 DEF Jobs, Tells, News
<1>5. \A b \in Agent : ListDue(b)' <=> ListDue(b)
  BY <1>2, <1>4 DEF ListDue, Entering
<1>6. \A b \in Agent, t \in Sid : ListComing(b, t)' <=> ListComing(b, t)
  BY <1>2, <1>4, <1>5 DEF ListComing
<1>7. Jobs(a) = {} /\ News(a) = {} /\ \A t \in Sid : ~ListComing(a, t)
  <2>1. Jobs(a) = {}
    BY <1>2, NoJob DEF Jobs
  <2>2. QED
    BY <1>2, <2>1 DEF News, Tells, ListComing, ListDue
<1>8. \A t \in Sid : Kept(t) => \A v \in owes[a] :
          /\ v > since[t] => Caught(t, 1, v)
          /\ \A i \in DOMAIN inbox[t] : inbox[t][i].v = v => Caught(t, i, v)
  BY <1>1, <1>7 DEF Promised
<1>9. \A t \in Sid : Kept(t)' <=> Kept(t)
  BY <1>2 DEF Kept
<1>10. \A b \in Agent : b # a => owes'[b] = owes[b]
  BY <1>2 DEF Others
<1>11. StillToTell'
  BY <1>1, <1>2, <1>4, <1>5, <1>7, <1>10 DEF StillToTell
<1>12. ToEverybody'
  BY <1>1, <1>2, <1>4, <1>10 DEF ToEverybody
<1>13. OwedOnce'
  BY <1>1, <1>2, <1>10 DEF OwedOnce
<1>14. Heard'
  BY <1>1, <1>2 DEF Heard
<1>15. \A t \in Sid : \A i, v : Caught(t, i, v)' <=> Caught(t, i, v)
  BY <1>2 DEF Caught, ListAt
<1>new. Announced' \subseteq Announced \cup owes[a]
  BY <1>2 DEF Announced
<1>16. Promised'
  <2> SUFFICES ASSUME NEW b \in Agent, NEW t \in Sid, Kept(t)', NEW v \in owes'[b]
               PROVE  /\ v > since'[t] => Caught(t, 1, v)' \/ ListComing(b, t)'
                      /\ \A i \in DOMAIN inbox'[t] :
                             inbox'[t][i].v = v => Caught(t, i, v)' \/ ListComing(b, t)'
    BY DEF Promised
  <2>1. b # a /\ v \in owes[b]
    BY <1>2, <1>10
  <2>2. QED
    BY <1>1, <1>2, <1>6, <1>9, <1>15, <2>1 DEF Promised
<1>17. NewsThenList'
  <2> SUFFICES ASSUME NEW t \in Sid, Kept(t), NEW i \in DOMAIN inbox[t],
                      inbox[t][i].v \in Announced \cup owes[a]
               PROVE  \E j \in i .. Len(inbox[t]) : ListAt(t, j, inbox[t][i].v)
    BY <1>2, <1>9, <1>new DEF NewsThenList, ListAt
  <2>1. CASE inbox[t][i].v \in Announced
    BY <1>1, <2>1 DEF NewsThenList
  <2>2. CASE inbox[t][i].v \in owes[a]
    BY <1>8, <2>2 DEF Caught
  <2>3. QED
    BY <2>1, <2>2
<1>18. ListsReachEverybody'
  <2> SUFFICES ASSUME NEW t \in Sid, Kept(t), NEW v \in Announced \cup owes[a], v > since[t]
               PROVE  \E i \in DOMAIN inbox[t] : ListAt(t, i, v)
    BY <1>2, <1>9, <1>new DEF ListsReachEverybody, ListAt
  <2>1. CASE v \in Announced
    BY <1>1, <2>1 DEF ListsReachEverybody
  <2>2. CASE v \in owes[a]
    <3>1. Caught(t, 1, v)
      BY <1>8, <2>2
    <3>2. DOMAIN inbox[t] = 1 .. Len(inbox[t])
      BY <1>3, LenProperties DEF NewsType
    <3>3. QED
      BY <3>1, <3>2 DEF Caught
  <2>3. QED
    BY <2>1, <2>2
<1>19. QED
  BY <1>11, <1>12, <1>13, <1>14, <1>16, <1>17, <1>18 DEF ListsInv

\* Who is added has heard nothing, and is promised nothing older.
LEMMA ListsAddClient ==
    ASSUME NewsType, ListsInv, NEW s \in Sid, AddClient(s)
    PROVE  ListsInv'
<1>1. /\ StillToTell /\ ToEverybody /\ OwedOnce /\ Heard
      /\ Promised /\ NewsThenList /\ ListsReachEverybody
  BY ListsParts
<1>2. /\ client[s] = "queued" /\ client' = [client EXCEPT ![s] = "in"]
      /\ since' = [since EXCEPT ![s] = version]
      /\ UNCHANGED <<version, pump, todo, pending, owes, inbox, settled, refused, slow>>
  BY AddClientFacts
<1>3. DOMAIN inbox[s] = {}
  BY <1>1, <1>2 DEF Heard
<1>4. client'[s] = "in" /\ since'[s] = version
      /\ \A t \in Sid : t # s => client'[t] = client[t] /\ since'[t] = since[t]
  BY <1>2 DEF NewsType
<1>5. \A t \in Sid : t # s => (Kept(t)' <=> Kept(t))
  BY <1>2, <1>4 DEF Kept
<1>6. \A b \in Agent : Jobs(b)' = Jobs(b) /\ Tells(b)' = Tells(b) /\ News(b)' = News(b)
  BY <1>2 DEF Jobs, Tells, News
<1>7. \A b \in Agent : ListDue(b)' <=> ListDue(b)
  BY <1>2, <1>6 DEF ListDue, Entering
<1>8. \A b \in Agent, t \in Sid : ListComing(b, t)' <=> ListComing(b, t)
  BY <1>2, <1>6, <1>7 DEF ListComing
<1>9. \A t \in Sid : \A i, v : Caught(t, i, v)' <=> Caught(t, i, v)
  BY <1>2 DEF Caught, ListAt
<1>10. StillToTell' /\ ToEverybody' /\ OwedOnce'
  BY <1>1, <1>2, <1>6, <1>7 DEF StillToTell, ToEverybody, OwedOnce
<1>11. Heard'
  BY <1>1, <1>2, <1>3, <1>4 DEF Heard
<1>12. \A v \in Announced \cup UNION {owes[b] : b \in Agent} : ~(v > version)
  <2>1. \A v \in 1 .. version : ~(v > version)
    BY DEF NewsType
  <2>2. QED
    BY <2>1 DEF NewsType, Announced
<1>13. Promised'
  <2> SUFFICES ASSUME NEW b \in Agent, NEW t \in Sid, Kept(t)', NEW v \in owes[b]
               PROVE  /\ v > since'[t] => Caught(t, 1, v)' \/ ListComing(b, t)'
                      /\ \A i \in DOMAIN inbox[t] :
                             inbox[t][i].v = v => Caught(t, i, v)' \/ ListComing(b, t)'
    BY <1>2 DEF Promised
  <2>1. CASE t = s
    BY <1>3, <1>4, <1>12, <2>1
  <2>2. CASE t # s
    BY <1>1, <1>4, <1>5, <1>8, <1>9, <2>2 DEF Promised
  <2>3. QED
    BY <2>1, <2>2
<1>same. Announced' = Announced
  BY <1>2 DEF Announced
<1>14. NewsThenList'
  BY <1>1, <1>2, <1>3, <1>5, <1>same DEF NewsThenList, ListAt
<1>15. ListsReachEverybody'
  BY <1>1, <1>2, <1>4, <1>5, <1>12, <1>same DEF ListsReachEverybody, ListAt
<1>16. QED
  BY <1>10, <1>11, <1>13, <1>14, <1>15 DEF ListsInv

\* What an inbox is after one more message.
LEMMA Appended ==
    ASSUME NewsType, NEW t \in Sid, NEW msg \in Message,
           inbox' = [inbox EXCEPT ![t] = Append(inbox[t], msg)]
    PROVE  \E n \in Nat :
               /\ n = Len(inbox[t]) /\ DOMAIN inbox[t] = 1 .. n
               /\ Len(inbox'[t]) = n + 1 /\ DOMAIN inbox'[t] = 1 .. (n + 1)
               /\ inbox'[t][n + 1] = msg
               /\ \A i \in 1 .. n : inbox'[t][i] = inbox[t][i]
               /\ \A u \in Sid : u # t => inbox'[u] = inbox[u]
<1>1. PICK n \in Nat : n = Len(inbox[t]) /\ DOMAIN inbox[t] = 1 .. n
  BY LenProperties DEF NewsType
<1>2. /\ inbox'[t] = Append(inbox[t], msg)
      /\ \A u \in Sid : u # t => inbox'[u] = inbox[u]
  BY DEF NewsType
<1>3. inbox[t] \in Seq(Message)
  BY DEF NewsType
<1>4. /\ Append(inbox[t], msg) \in Seq(Message)
      /\ Len(Append(inbox[t], msg)) = Len(inbox[t]) + 1
      /\ \A i \in 1 .. Len(inbox[t]) : Append(inbox[t], msg)[i] = inbox[t][i]
      /\ Append(inbox[t], msg)[Len(inbox[t]) + 1] = msg
  BY <1>3, AppendProperties
<1>5. DOMAIN Append(inbox[t], msg) = 1 .. Len(Append(inbox[t], msg))
  BY <1>4, LenProperties
<1>6. QED
  BY <1>1, <1>2, <1>4, <1>5

\* A message is enqueued: a list puts right what came before it, and news has a list to come.
LEMMA ListsEnqueue ==
    ASSUME NewsType, ListsInv, NEW a \in Agent, NEW t \in Sid, NEW msg \in Message,
           <<t, msg>> \in pending[a], Enqueue(a, t, msg)
    PROVE  ListsInv'
<1>1. /\ StillToTell /\ ToEverybody /\ OwedOnce /\ Heard
      /\ Promised /\ NewsThenList /\ ListsReachEverybody
  BY ListsParts
<1>2. /\ NewsType' /\ Others(a) /\ pending'[a] = pending[a] \ {<<t, msg>>}
      /\ inbox' = IF client[t] = "in" THEN [inbox EXCEPT ![t] = Append(inbox[t], msg)] ELSE inbox
      /\ UNCHANGED <<version, client, since, pump, todo, owes, settled, refused, slow>>
  BY EnqueueFacts
<1>3. \A b \in Agent : Jobs(b)' = Jobs(b) /\ Tells(b)' = Tells(b)
  BY <1>2 DEF Jobs, Tells
<1>4. \A b \in Agent : ListDue(b)' <=> ListDue(b)
  BY <1>2, <1>3 DEF ListDue, Entering
<1>5. \A b \in Agent : pending'[b] \subseteq pending[b]
  BY <1>2 DEF Others
<1>6. \A b \in Agent : News(b)' \subseteq News(b)
  BY <1>3, <1>5 DEF News
<1>7. \A u \in Sid : Kept(u)' <=> Kept(u)
  BY <1>2 DEF Kept
<1>8. msg \in News(a) /\ msg.v \in Nat
  <2>1. <<t, msg>>[2] = msg
    OBVIOUS
  <2>2. QED
    BY <2>1, MessageFields DEF News
\* The list that was to come, if it was this one, is there.
<1>9. \A b \in Agent, u \in Sid :
          ListComing(b, u) => ListComing(b, u)' \/ (b = a /\ u = t /\ msg.what = "list")
  <2> SUFFICES ASSUME NEW b \in Agent, NEW u \in Sid, ListComing(b, u)
               PROVE  ListComing(b, u)' \/ (b = a /\ u = t /\ msg.what = "list")
    OBVIOUS
  <2>1. ASSUME NEW entry \in pending[b], entry[1] = u, entry[2].what = "list",
               ~(b = a /\ u = t /\ msg.what = "list")
        PROVE  entry \in pending'[b]
    <3>1. entry = <<entry[1], entry[2]>>
      BY Recipient
    <3>2. <<t, msg>>[1] = t /\ <<t, msg>>[2] = msg
      OBVIOUS
    <3>3. QED
      BY <1>2, <2>1, <3>1, <3>2 DEF Others
  <2>2. QED
    BY <1>3, <1>4, <2>1 DEF ListComing
<1>10. StillToTell' /\ ToEverybody' /\ OwedOnce'
  BY <1>1, <1>2, <1>3, <1>4, <1>6 DEF StillToTell, ToEverybody, OwedOnce
<1>11. CASE client[t] # "in"
  <2>1. inbox' = inbox
    BY <1>2, <1>11
  <2>2. Heard' /\ NewsThenList' /\ ListsReachEverybody'
    BY <1>1, <1>2, <1>7, <2>1 DEF Heard, NewsThenList, ListsReachEverybody, ListAt, Announced
  <2>3. \A u \in Sid : \A i, v : Caught(u, i, v)' <=> Caught(u, i, v)
    BY <2>1 DEF Caught, ListAt
  <2>4. ~Kept(t)
    BY <1>11 DEF Kept
  <2>5. Promised'
    BY <1>1, <1>2, <1>7, <1>9, <2>1, <2>3, <2>4 DEF Promised
  <2>6. QED
    BY <1>10, <2>2, <2>5 DEF ListsInv
<1>12. CASE client[t] = "in"
  <2>0. inbox' = [inbox EXCEPT ![t] = Append(inbox[t], msg)]
    BY <1>2, <1>12
  <2>1. PICK n \in Nat :
            /\ n = Len(inbox[t]) /\ DOMAIN inbox[t] = 1 .. n
            /\ Len(inbox'[t]) = n + 1 /\ DOMAIN inbox'[t] = 1 .. (n + 1)
            /\ inbox'[t][n + 1] = msg
            /\ \A i \in 1 .. n : inbox'[t][i] = inbox[t][i]
            /\ \A u \in Sid : u # t => inbox'[u] = inbox[u]
    BY <2>0, Appended
  <2>2. \A u \in Sid : u # t => inbox'[u] = inbox[u]
    BY <2>1
  <2>3. /\ Len(inbox'[t]) = n + 1 /\ DOMAIN inbox'[t] = 1 .. (n + 1)
        /\ inbox'[t][n + 1] = msg
        /\ \A i \in 1 .. n : inbox'[t][i] = inbox[t][i]
    BY <2>1
  <2>4. \A i \in 1 .. n : i \in 1 .. (n + 1)
    OBVIOUS
  <2>5. \A i \in 1 .. (n + 1) : i \in 1 .. n \/ i = n + 1
    OBVIOUS
  <2>6. ASSUME NEW u \in Sid, NEW i \in Nat \ {0}, NEW v, Caught(u, i, v) PROVE Caught(u, i, v)'
    <3>1. PICK j \in i .. Len(inbox[u]) : ListAt(u, j, v)
      BY <2>6 DEF Caught
    <3>2. CASE u # t
      BY <2>2, <3>1, <3>2 DEF Caught, ListAt
    <3>3. CASE u = t
      <4>1. i \in Nat \ {0} /\ j \in i .. n /\ inbox[t][j].what = "list" /\ inbox[t][j].v >= v
        BY <2>1, <3>1, <3>3 DEF ListAt
      <4>2. j \in i .. (n + 1)
        BY <4>1
      <4>3. inbox'[t][j] = inbox[t][j]
        BY <2>3, <4>1
      <4>4. QED
        BY <2>3, <3>3, <4>1, <4>2, <4>3 DEF Caught, ListAt
    <3>4. QED
      BY <3>2, <3>3
  <2>7. msg.what = "list" => \A i \in 1 .. (n + 1), v \in Nat : v <= msg.v => Caught(t, i, v)'
    <3> SUFFICES ASSUME msg.what = "list", NEW i \in 1 .. (n + 1), NEW v \in Nat, v <= msg.v
                 PROVE  Caught(t, i, v)'
      OBVIOUS
    <3>1. n + 1 \in i .. (n + 1) /\ msg.v >= v
      BY <1>8
    <3>2. QED
      BY <2>3, <3>1 DEF Caught, ListAt
  <2>8. 1 \in 1 .. (n + 1) /\ \A b \in Agent : owes[b] \subseteq Nat
    BY DEF NewsType
  <2>9. msg.v <= version /\ (msg.what = "list" => \A v \in owes[a] : v <= msg.v)
        /\ (msg.what # "list" => msg.v \in owes[a] /\ ListDue(a))
    BY <1>1, <1>8 DEF StillToTell
  \* What a owes is in the list that t has got, or another one is to come.
  <2>10. ASSUME NEW b \in Agent, ListComing(b, t), NEW v \in owes[b], NEW i \in 1 .. (n + 1)
         PROVE  Caught(t, i, v)' \/ ListComing(b, t)'
    BY <1>9, <2>7, <2>8, <2>9, <2>10
  <2>11. Heard'
    BY <1>1, <1>2, <1>12, <2>1, <2>2, <2>3, <2>5, <2>9 DEF Heard
  <2>12. Promised'
    <3> SUFFICES ASSUME NEW b \in Agent, NEW u \in Sid, Kept(u), NEW v \in owes[b]
                 PROVE  /\ v > since[u] => Caught(u, 1, v)' \/ ListComing(b, u)'
                        /\ \A i \in DOMAIN inbox'[u] :
                               inbox'[u][i].v = v => Caught(u, i, v)' \/ ListComing(b, u)'
      BY <1>2, <1>7 DEF Promised
    <3>1. /\ v > since[u] => Caught(u, 1, v) \/ ListComing(b, u)
          /\ \A i \in DOMAIN inbox[u] :
                 inbox[u][i].v = v => Caught(u, i, v) \/ ListComing(b, u)
      BY <1>1 DEF Promised
    <3>2. CASE u # t
      <4>1. DOMAIN inbox[u] \subseteq Nat \ {0}
        BY LenProperties DEF NewsType
      <4>2. QED
        BY <1>9, <2>2, <2>6, <3>1, <3>2, <4>1
    <3>3. CASE u = t
      <4>1. v > since[u] => Caught(u, 1, v)' \/ ListComing(b, u)'
        BY <2>6, <2>8, <2>10, <3>1, <3>3
      <4>2. ASSUME NEW i \in 1 .. n, inbox'[t][i].v = v
            PROVE  Caught(t, i, v)' \/ ListComing(b, t)'
        BY <2>1, <2>3, <2>4, <2>6, <2>10, <3>1, <3>3, <4>2
      <4>3. ASSUME msg.v = v PROVE Caught(t, n + 1, v)' \/ ListComing(b, t)'
        <5>1. CASE msg.what = "list"
          <6>1. v \in Nat /\ v <= msg.v /\ n + 1 \in 1 .. (n + 1)
            BY <1>8, <4>3
          <6>2. QED
            BY <2>7, <5>1, <6>1
        <5>2. CASE msg.what # "list"
          <6>1. b = a
            BY <1>1, <2>9, <4>3, <5>2 DEF OwedOnce
          <6>2. QED
            BY <1>4, <2>9, <5>2, <6>1 DEF ListComing
        <5>3. QED
          BY <5>1, <5>2
      <4>4. QED
        BY <2>3, <2>5, <3>3, <4>1, <4>2, <4>3
    <3>4. QED
      BY <3>2, <3>3
  <2>same. Announced' = Announced /\ Announced \subseteq settled
    BY <1>2 DEF Announced
  <2>13. ASSUME NEW u \in Sid, Kept(u), NEW v \in Announced, NEW i \in DOMAIN inbox'[u], inbox'[u][i].v = v
         PROVE  Caught(u, i, v)'
    <3>1. \A k \in DOMAIN inbox[u] : inbox[u][k].v = v => Caught(u, k, v)
      BY <1>1, <2>13 DEF NewsThenList, Caught
    <3>2. DOMAIN inbox[u] \subseteq Nat \ {0}
      BY LenProperties DEF NewsType
    <3>3. CASE u # t
      BY <2>2, <2>6, <2>13, <3>1, <3>2, <3>3
    <3>4. CASE u = t /\ i \in 1 .. n
      BY <2>1, <2>3, <2>6, <2>13, <3>1, <3>2, <3>4
    <3>5. CASE u = t /\ i = n + 1
      <4>1. msg.v = v
        BY <2>3, <2>13, <3>5
      <4>2. msg.what = "list"
        BY <1>1, <2>9, <2>13, <2>same, <4>1 DEF OwedOnce
      <4>3. n + 1 \in 1 .. (n + 1) /\ msg.v <= msg.v
        BY <1>8
      <4>4. QED
        BY <1>8, <2>7, <3>5, <4>1, <4>2, <4>3
    <3>6. QED
      BY <2>3, <2>5, <3>3, <3>4, <3>5
  <2>14. NewsThenList'
    <3> SUFFICES ASSUME NEW u \in Sid, Kept(u), NEW i \in DOMAIN inbox'[u],
                        NEW v \in Announced, inbox'[u][i].v = v
                 PROVE  \E j \in i .. Len(inbox'[u]) : inbox'[u][j].what = "list" /\ inbox'[u][j].v >= v
      BY <1>2, <1>7, <2>same DEF NewsThenList, ListAt
    <3>1. QED
      BY <2>13 DEF Caught, ListAt
  <2>15. ListsReachEverybody'
    <3> SUFFICES ASSUME NEW u \in Sid, Kept(u), NEW v \in Announced, v > since[u]
                 PROVE  \E i \in DOMAIN inbox'[u] : ListAt(u, i, v)'
      BY <1>2, <1>7, <2>same DEF ListsReachEverybody
    <3>1. PICK i \in DOMAIN inbox[u] : ListAt(u, i, v)
      BY <1>1 DEF ListsReachEverybody
    <3>2. i \in DOMAIN inbox'[u] /\ inbox'[u][i] = inbox[u][i]
      BY <2>1, <2>2, <2>3, <2>4
    <3>3. QED
      BY <3>1, <3>2 DEF ListAt
  <2>16. QED
    BY <1>10, <2>11, <2>12, <2>14, <2>15 DEF ListsInv
<1>13. QED
  BY <1>11, <1>12

\* Looking up, taking a snapshot and taking a client out keep the list that is to come.
LEMMA ListsNextJob ==
    ASSUME NewsType, ListsInv, NEW a \in Agent, NextJob(a)
    PROVE  ListsInv'
<1>1. StillToTell /\ ToEverybody
  BY ListsParts
<1>2. /\ NewsType' /\ Others(a) /\ todo[a] # <<>> /\ pending[a] = {} /\ todo[a] \in Seq(Job)
      /\ UNCHANGED <<version, since, pump, owes, inbox, settled, refused, slow>>
      /\ version <= version'
  BY NextJobFacts DEF NewsType
<1>3. \A b \in Agent : Entering(b)' <=> Entering(b)
  BY <1>2, SamePumps
<1>4. \A t \in Sid : client'[t] = client[t] \/ (client[t] = "in" /\ client'[t] = "out")
  BY NextJobFacts DEF SnapshotTaken, LookedUp, TakenOut
<1>5. \A t \in Sid : /\ Kept(t)' => Kept(t) /\ since'[t] = since[t]
                     /\ client'[t] = "queued" => client[t] = "queued"
  BY <1>2, <1>4 DEF Kept
<1> DEFINE head == Head(todo[a])
           rest == ToSet(Tail(todo[a]))
<1>6. Jobs(a) = {head} \cup rest
  BY <1>2, FirstAndRest DEF Jobs
<1> HIDE DEF head, rest
\* What is left for these three to show.
<1> DEFINE Kept1 == \A m \in News(a)' : m \in News(a) \/ (m.what = "list" /\ m.v = version)
           Kept2 == \A m \in News(a)' : m.what # "list" => ListDue(a)'
           Kept3 == owes[a] # {} =>
                        \A job \in Jobs(a)' :
                            job.do = "list" \/ (job.do = "tell" /\ job.msg.what = "list") => job.to = Everybody
           Kept4 == owes[a] # {} => \A t \in Sid : Kept(t)' /\ ListComing(a, t) => ListComing(a, t)'
<1>7. ASSUME SnapshotTaken(a) PROVE Kept1 /\ Kept2 /\ Kept3 /\ Kept4
  <2>0. "list" \in What /\ version \in Nat /\ Nil \in Sid \cup {Nil}
    BY DEF NewsType, What
  <2>1. PICK m : m = Msg("list", Nil, version)
    OBVIOUS
  <2>2. m \in Message /\ m.what = "list" /\ m.v = version
    BY <2>0, <2>1, MessageFields
  <2>taken. PICK to \in Sid \cup {Everybody} : List(to) \in Jobs(a) /\ todo'[a] = <<Tell(to, m)>>
    BY <1>7, <2>1 DEF SnapshotTaken
  <2>3. PICK x \in Job : x = Tell(to, m) /\ x.do = "tell" /\ x.to = to /\ x.msg = m
    BY <2>2, TellShape
  <2>4. Jobs(a)' = {x} /\ pending'[a] = {}
    BY <1>7, <2>taken, <2>3, OneJob DEF Jobs, SnapshotTaken
  <2>5. Tells(a)' = {x} /\ News(a)' = {m}
    BY <2>3, <2>4 DEF Tells, News
  <2>6. owes[a] # {} => to = Everybody
    BY <1>1, <2>taken, JobShapes DEF ToEverybody
  <2>7. Kept1 /\ Kept2
    BY <2>2, <2>5
  <2>8. Kept3
    BY <2>3, <2>4, <2>6
  <2>9. Kept4
    BY <2>2, <2>3, <2>5, <2>6 DEF ListComing
  <2>10. QED
    BY <2>7, <2>8, <2>9
<1>8. ASSUME LookedUp(a) PROVE Kept1 /\ Kept2 /\ Kept3 /\ Kept4
  <2>1. /\ head.do = "tell" /\ Jobs(a)' = rest /\ client' = client
        /\ pending'[a] = Recipients(a, head.to) \X {head.msg}
    BY <1>8 DEF LookedUp, Jobs, head, rest
  <2>2. List(Everybody) # head
    BY <2>1, JobShapes
  <2>3. ListDue(a)' <=> ListDue(a)
    BY <1>3, <1>6, <2>1, <2>2 DEF ListDue
  <2>4. head \in Tells(a) /\ Tells(a) = {head} \cup Tells(a)'
    BY <1>6, <2>1 DEF Tells
  <2>5. ASSUME NEW e \in pending'[a] PROVE e[2] = head.msg
    BY <2>1, <2>5
  <2>6. News(a)' \subseteq News(a)
    BY <2>4, <2>5 DEF News
  <2>7. Kept1 /\ Kept2 /\ Kept3
    BY <1>1, <1>6, <2>1, <2>3, <2>6 DEF StillToTell, ToEverybody
  <2>8. ASSUME NEW t \in Sid, Kept(t)', ListComing(a, t) PROVE ListComing(a, t)'
    <3>1. ASSUME head.to = Everybody, head.msg.what = "list" PROVE ListComing(a, t)'
      <4>1. t \in Recipients(a, head.to)
        BY <2>1, <2>8, <3>1 DEF Recipients, Kept
      <4>2. <<t, head.msg>> \in pending'[a]
        BY <2>1, <4>1
      <4>3. <<t, head.msg>>[1] = t /\ <<t, head.msg>>[2] = head.msg
        OBVIOUS
      <4>4. QED
        BY <3>1, <4>2, <4>3 DEF ListComing
    <3>2. QED
      BY <1>2, <2>3, <2>4, <2>8, <3>1 DEF ListComing
  <2>9. QED
    BY <2>7, <2>8
<1>9. ASSUME TakenOut(a) PROVE Kept1 /\ Kept2 /\ Kept3 /\ Kept4
  <2>1. head.do = "take out" /\ Jobs(a)' = rest /\ pending'[a] = {} /\ List(Everybody) # head
    BY <1>9, JobShapes DEF TakenOut, Jobs, head, rest
  <2>2. ListDue(a)' <=> ListDue(a)
    BY <1>3, <1>6, <2>1 DEF ListDue
  <2>3. Tells(a)' = Tells(a)
    BY <1>6, <2>1 DEF Tells
  <2>4. News(a)' = News(a)
    BY <1>2, <2>1, <2>3 DEF News
  <2>5. Kept1 /\ Kept2 /\ Kept3
    BY <1>1, <1>6, <2>1, <2>2, <2>4 DEF StillToTell, ToEverybody
  <2>6. Kept4
    BY <1>2, <2>2, <2>3 DEF ListComing
  <2>7. QED
    BY <2>5, <2>6
<1>10. Kept1 /\ Kept2 /\ Kept3 /\ Kept4
  BY <1>7, <1>8, <1>9, NextJobFacts
<1>11. Announced' = Announced
  BY <1>2 DEF Announced
<1>12. QED
  BY <1>2, <1>3, <1>5, <1>10, <1>11, ListsFrame

\* A free agent, or one with nothing to do whose join finds the channel full.
LEMMA ListsIdle ==
    ASSUME NewsType, NewsType', ListsInv, NEW a \in Agent, Others(a),
           \A b \in Agent : b # a => (Entering(b)' <=> Entering(b)),
           version <= version', UNCHANGED <<client, since, inbox, slow>>,
           Announced' \subseteq Announced, settled' \subseteq settled \cup owes[a],
           owes'[a] = {}, News(a)' = {}
    PROVE  ListsInv'
<1>1. \A t \in Sid : Kept(t)' => Kept(t) /\ since'[t] = since[t]
  BY DEF Kept
<1>2. QED
  BY <1>1, ListsFrame

\* Nothing changes in what is told.
LEMMA ListsSame ==
    ASSUME NewsType, NewsType', ListsInv, NEW a \in Agent,
           \A b \in Agent : Entering(b)' <=> Entering(b),
           version <= version',
           UNCHANGED <<client, since, todo, pending, owes, inbox, settled, refused, slow>>
    PROVE  ListsInv'
<1>1. \A t \in Sid : Kept(t)' => Kept(t) /\ since'[t] = since[t]
  BY DEF Kept
<1>2. Others(a) /\ Jobs(a)' = Jobs(a) /\ Tells(a)' = Tells(a) /\ News(a)' = News(a)
  BY DEF Others, Jobs, Tells, News
<1>3. ListDue(a)' <=> ListDue(a)
  BY <1>2 DEF ListDue
<1>4. \A t \in Sid : ListComing(a, t)' <=> ListComing(a, t)
  BY <1>2, <1>3 DEF ListComing
<1>5. StillToTell /\ ToEverybody
  BY ListsParts
<1>6. \A m \in News(a)' : m.what # "list" => ListDue(a)'
  BY <1>2, <1>3, <1>5 DEF StillToTell
<1>7. owes'[a] # {} =>
          \A job \in Jobs(a)' :
              job.do = "list" \/ (job.do = "tell" /\ job.msg.what = "list") => job.to = Everybody
  BY <1>2, <1>5 DEF ToEverybody
<1>8. Announced' = Announced
  BY DEF Announced
<1>9. QED
  BY <1>1, <1>2, <1>4, <1>6, <1>7, <1>8, ListsFrame

LEMMA ListsEnqueueFails ==
    ASSUME NewsType, ListsInv, NEW a \in Agent, NEW t \in Sid, NEW msg \in Message,
           EnqueueFails(a, t, msg)
    PROVE  ListsInv'
<1>1. StillToTell /\ ToEverybody
  BY ListsParts
<1>2. /\ NewsType' /\ Others(a) /\ pending'[a] = pending[a] \ {<<t, msg>>} /\ slow' = slow \cup {t}
      /\ UNCHANGED <<version, client, since, pump, todo, owes, inbox, settled, refused>>
      /\ version <= version'
  BY EnqueueFailsFacts DEF NewsType
<1>3. Jobs(a)' = Jobs(a) /\ Tells(a)' = Tells(a) /\ \A b \in Agent : Entering(b)' <=> Entering(b)
  BY <1>2 DEF Jobs, Tells, Entering
<1>4. News(a)' \subseteq News(a) /\ (ListDue(a)' <=> ListDue(a))
  BY <1>2, <1>3 DEF News, ListDue
<1>5. \A u \in Sid : Kept(u)' => u # t /\ Kept(u) /\ since'[u] = since[u]
  BY <1>2 DEF Kept
<1>6. ASSUME NEW u \in Sid, u # t, ListComing(a, u) PROVE ListComing(a, u)'
  <2>1. \A e \in pending[a] : e[1] = u => e \in pending'[a]
    BY <1>2, <1>6
  <2>2. QED
    BY <1>3, <1>4, <1>6, <2>1 DEF ListComing
<1>7. \A m \in News(a)' : m \in News(a) /\ (m.what # "list" => ListDue(a)')
  BY <1>1, <1>4 DEF StillToTell
<1>8. owes'[a] # {} =>
          \A job \in Jobs(a)' :
              job.do = "list" \/ (job.do = "tell" /\ job.msg.what = "list") => job.to = Everybody
  BY <1>1, <1>2, <1>3 DEF ToEverybody
<1>9. Announced' = Announced
  BY <1>2 DEF Announced
<1>10. QED
  BY <1>2, <1>3, <1>5, <1>6, <1>7, <1>8, <1>9, ListsFrame

LEMMA ListsStep == TypeOK /\ Between /\ ListsInv /\ [Next]_vars => ListsInv'
<1> SUFFICES ASSUME TypeOK, Between, ListsInv, [Next]_vars PROVE ListsInv'
  OBVIOUS
<1>0. PlaceType /\ PumpType /\ NewsType /\ NewsType' /\ version <= version
  BY TypeParts, NewsTypeStep DEF NewsType
<1>1. ASSUME NEW s \in Sid, NEW r \in Room, JoinAdmit(s, r) PROVE ListsInv'
  <2>1. /\ version <= version' /\ pump[s] = "reading" /\ pump' = [pump EXCEPT ![s] = "leaving"]
        /\ UNCHANGED <<client, since, todo, pending, owes, inbox, settled, refused, slow>>
    BY <1>0, <1>1, JoinAdmitFacts
  <2>2. \A b \in Agent : Entering(b)' <=> Entering(b)
    <3>1. pump'[s] = "leaving" /\ \A u \in Sid : u # s => pump'[u] = pump[u]
      BY <1>0, <2>1 DEF PumpType
    <3>2. QED
      BY <2>1, <3>1, Agents DEF Entering
  <2>3. QED
    BY <1>0, <2>1, <2>2, ListsSame, Agents
<1>2. ASSUME NEW s \in Sid, JoinLeave(s) PROVE ListsInv'
  <2>1. CASE where[s] = Nil
    <3>1. /\ Free(Pump(s)) /\ pump' = [pump EXCEPT ![s] = "entering"]
          /\ UNCHANGED <<version, client, since, todo, pending, owes, inbox, settled, refused, slow>>
      BY <1>2, <2>1, JoinLeaveIdle
    <3>2. \A b \in Agent : b # Pump(s) => (Entering(b)' <=> Entering(b))
      BY <1>0, <3>1, OtherPumps DEF PumpType
    <3>3. Others(Pump(s)) /\ owes'[Pump(s)] = {} /\ News(Pump(s))' = {} /\ Announced' = Announced
      BY <3>1, NoJob DEF Free, Others, News, Tells, Jobs, Announced
    <3>4. QED
      BY <1>0, <3>1, <3>2, <3>3, ListsIdle, Agents
  <2>2. CASE where[s] # Nil
    BY <1>0, <1>2, <2>2, JoinLeaveChanges, ListsChange, Agents
  <2>3. QED
    BY <2>1, <2>2
<1>3. ASSUME NEW s \in Sid, JoinEnter(s) PROVE ListsInv'
  BY <1>0, <1>3, JoinEnterChanges, ListsChange, Agents
<1>4. ASSUME NEW s \in Sid, JoinFull(s) PROVE ListsInv'
  <2>1. /\ Others(Pump(s)) /\ pump' = [pump EXCEPT ![s] = "reading"]
        /\ todo'[Pump(s)] = <<>> /\ pending'[Pump(s)] = {} /\ owes'[Pump(s)] = {}
        /\ settled' = settled \cup owes[Pump(s)] /\ refused' = refused \cup owes[Pump(s)]
        /\ UNCHANGED <<version, client, since, inbox, slow>>
    BY <1>0, <1>4, JoinFullFacts
  <2>2. \A b \in Agent : b # Pump(s) => (Entering(b)' <=> Entering(b))
    BY <1>0, <2>1, OtherPumps DEF PumpType
  <2>3. News(Pump(s))' = {} /\ Announced' \subseteq Announced
    BY <2>1, NoJob DEF News, Tells, Jobs, Announced
  <2>4. QED
    BY <1>0, <2>1, <2>2, <2>3, ListsIdle, Agents
<1>5. ASSUME NEW s \in Sid, Leave(s) \/ UpdateName(s) PROVE ListsInv'
  BY <1>0, <1>5, LeaveChanges, ListsChange, Agents
<1>6. ASSUME NEW s \in Sid, Refresh(s) PROVE ListsInv'
  <2>1. /\ Others(Pump(s)) /\ Free(Pump(s)) /\ todo'[Pump(s)] = <<List(s)>>
        /\ UNCHANGED <<version, client, since, pump, pending, owes, inbox, settled, refused, slow>>
    BY <1>0, <1>6, RefreshFacts
  <2>2. Jobs(Pump(s))' = {List(s)} /\ List(s).do = "list"
    BY <2>1, OneJob, JobShapes DEF Jobs
  <2>3. News(Pump(s))' = {} /\ owes'[Pump(s)] = {} /\ Announced' = Announced
    BY <2>1, <2>2 DEF News, Tells, Free, Announced
  <2>4. QED
    BY <1>0, <2>1, <2>3, SamePumps, ListsIdle, Agents
<1>7. ASSUME NEW s \in Sid, AddClient(s) PROVE ListsInv'
  BY <1>0, <1>7, ListsAddClient
<1>8. ASSUME NEW s \in Sid, Disconnect(s) PROVE ListsInv'
  <2>1. /\ pump[s] = "reading" /\ pump' = [pump EXCEPT ![s] = "ended"]
        /\ UNCHANGED <<version, client, since, todo, pending, owes, inbox, settled, refused, slow>>
    BY <1>0, <1>8, DisconnectFacts
  <2>2. \A b \in Agent : Entering(b)' <=> Entering(b)
    <3>1. pump'[s] = "ended" /\ \A u \in Sid : u # s => pump'[u] = pump[u]
      BY <1>0, <2>1 DEF PumpType
    <3>2. QED
      BY <2>1, <3>1, Agents DEF Entering
  <2>3. QED
    BY <1>0, <2>1, <2>2, ListsSame, Agents
<1>9. ASSUME NEW s \in Sid, NEW n \in 1 .. MaxCalls, RemoveClient(s, n) PROVE ListsInv'
  <2>1. CASE where[s] = Nil
    <3>1. /\ Others(Remover(s, n)) /\ Free(Remover(s, n)) /\ todo'[Remover(s, n)] = <<TakeOut>>
          /\ UNCHANGED <<version, client, since, pump, pending, owes, inbox, settled, refused, slow>>
      BY <1>0, <1>9, <2>1, RemoveClientIdle
    <3>2. Jobs(Remover(s, n))' = {TakeOut} /\ TakeOut.do = "take out"
      BY <3>1, OneJob, JobShapes DEF Jobs
    <3>3. News(Remover(s, n))' = {} /\ owes'[Remover(s, n)] = {} /\ Announced' = Announced
      BY <3>1, <3>2 DEF News, Tells, Free, Announced
    <3>4. QED
      BY <1>0, <3>1, <3>3, SamePumps, ListsIdle, Agents
  <2>2. CASE where[s] # Nil
    BY <1>0, <1>9, <2>2, RemoveClientChanges, ListsChange, Agents
  <2>3. QED
    BY <2>1, <2>2
<1>10. ASSUME NEW gone \in SUBSET listed, CleanupExpiredChannels(gone) PROVE ListsInv'
  BY <1>0, <1>10, CleanupChanges, ListsChange, Agents
<1>11. ASSUME NEW a \in Agent, NextJob(a) PROVE ListsInv'
  BY <1>0, <1>11, ListsNextJob
<1>12. ASSUME NEW a \in Agent, Finish(a) PROVE ListsInv'
  BY <1>0, <1>12, ListsFinish
<1>13. ASSUME NEW a \in Agent, NEW entry \in pending[a],
              Enqueue(a, entry[1], entry[2]) \/ EnqueueFails(a, entry[1], entry[2])
       PROVE  ListsInv'
  <2>1. entry[1] \in Sid /\ entry[2] \in Message /\ <<entry[1], entry[2]>> \in pending[a]
    BY <1>0, Recipient
  <2>2. QED
    BY <1>0, <1>13, <2>1, ListsEnqueue, ListsEnqueueFails
<1>14. CASE UNCHANGED vars
  <2>1. UNCHANGED <<version, pump, client, since, todo, pending, owes, inbox, settled, refused, slow>>
    BY <1>14 DEF vars
  <2>2. QED
    BY <1>0, <2>1, SamePumps, ListsSame, Agents
<1>15. QED
  BY <1>1, <1>2, <1>3, <1>4, <1>5, <1>6, <1>7, <1>8, <1>9, <1>10, <1>11, <1>12, <1>13, <1>14 DEF Next
-----------------------------------------------------------------------------
(* OrderInv: one goroutine at a time tells about a session, in order.      *)

\* What is about a session, of what a has to tell, is its own, and one message at most.
Own(a) ==
    /\ \A m \in News(a) : m.about # Nil => m.about = a[1]
    /\ \A i, j \in DOMAIN todo[a] : PeerNews(todo[a][i]) /\ PeerNews(todo[a][j]) => i = j
    /\ \A e, f \in pending[a] : e[2] = f[2]
    /\ \A e \in pending[a] : e[2].about # Nil => \A job \in Jobs(a) : ~PeerNews(job)

LEMMA OwnOfAll == OwnNews <=> \A a \in Agent : Own(a)
BY DEF OwnNews, Own

LEMMA OwnKept ==
    ASSUME NEW b \in Agent, Own(b), todo'[b] = todo[b], pending'[b] \subseteq pending[b]
    PROVE  Own(b)'
<1>1. Jobs(b)' = Jobs(b) /\ Tells(b)' = Tells(b)
  BY DEF Jobs, Tells
<1>2. News(b)' \subseteq News(b)
  BY <1>1 DEF News
<1>3. QED
  BY <1>1, <1>2 DEF Own

\* It is enough to look at the agent that does something.
LEMMA OwnFrame ==
    ASSUME OwnNews, NEW a \in Agent, Others(a), Own(a)'
    PROVE  OwnNews'
<1> SUFFICES ASSUME NEW b \in Agent PROVE Own(b)'
  BY DEF OwnNews, Own
<1>1. CASE b # a
  BY <1>1, OwnOfAll, OwnKept DEF Others
<1>2. QED
  BY <1>1

\* An agent that has no news about a session.
LEMMA OwnNothing ==
    ASSUME NEW a \in Agent, NEW x \in Job, todo'[a] = <<x>>, ~PeerNews(x),
           pending'[a] = {}
    PROVE  Own(a)'
<1>1. Jobs(a)' = {x} /\ DOMAIN todo'[a] = {1} /\ todo'[a][1] = x
  BY OneJob DEF Jobs
<1>2. \A m \in News(a)' : m.about = Nil
  BY <1>1 DEF News, Tells, PeerNews
<1>3. QED
  BY <1>1, <1>2 DEF Own

LEMMA OwnChange ==
    ASSUME NewsType, OwnNews, NEW a \in Agent, NEW jobs, ChangesOf(a, jobs)
    PROVE  OwnNews'
<1>1. Proper(a, jobs) /\ Change(a, jobs) /\ pending[a] = {} /\ jobs \in Seq(Job)
  BY DEF ChangesOf, Proper
<1>2. Others(a) /\ todo'[a] = jobs /\ pending'[a] = {}
  BY <1>1, ChangeFacts
<1>3. Jobs(a)' = ToSet(jobs)
  BY <1>2 DEF Jobs
<1>4. \A m \in News(a)' : m.about # Nil => m.about = a[1]
  BY <1>1, <1>2, <1>3 DEF News, Tells, Proper
<1>5. Own(a)'
  BY <1>1, <1>2, <1>4 DEF Own, Proper
<1>6. QED
  BY <1>2, <1>5, OwnFrame

LEMMA OwnNextJob ==
    ASSUME NewsType, OwnNews, NEW a \in Agent, NextJob(a)
    PROVE  OwnNews'
<1>1. /\ Others(a) /\ todo[a] # <<>> /\ pending[a] = {} /\ todo[a] \in Seq(Job)
      /\ SnapshotTaken(a) \/ LookedUp(a) \/ TakenOut(a)
  BY NextJobFacts DEF NewsType
<1>2. Own(a)
  BY OwnOfAll
<1>3. CASE SnapshotTaken(a)
  <2>1. PICK to \in Sid \cup {Everybody} : todo'[a] = <<Tell(to, Msg("list", Nil, version))>>
    BY <1>3 DEF SnapshotTaken
  <2>2. "list" \in What /\ version \in Nat /\ Nil \in Sid \cup {Nil}
    BY DEF NewsType, What
  <2>3. PICK m : m = Msg("list", Nil, version)
    OBVIOUS
  <2>4. m \in Message /\ m.about = Nil
    BY <2>2, <2>3 DEF Msg, Message
  <2>5. PICK x \in Job : x = Tell(to, m) /\ x.msg = m
    BY <2>4, TellShape
  <2>6. ~PeerNews(x) /\ pending'[a] = {}
    BY <1>3, <2>4, <2>5 DEF PeerNews, SnapshotTaken
  <2>7. Own(a)'
    BY <2>1, <2>3, <2>5, <2>6, OwnNothing
  <2>8. QED
    BY <1>1, <2>7, OwnFrame
<1>4. CASE LookedUp(a) \/ TakenOut(a)
  <2>1. todo'[a] = Tail(todo[a])
    BY <1>4 DEF LookedUp, TakenOut
  <2>2. PICK q \in Seq(Job) : q = todo[a] /\ q # <<>>
    BY <1>1
  <2>3. /\ ToSet(q) = {Head(q)} \cup ToSet(Tail(q)) /\ 1 \in DOMAIN q /\ q[1] = Head(q)
        /\ \A i \in DOMAIN Tail(q) : i \in Nat /\ i + 1 \in DOMAIN q /\ i + 1 # 1 /\ Tail(q)[i] = q[i + 1]
    BY <2>2, FirstAndRest
  <2>4. Jobs(a) = {Head(q)} \cup ToSet(Tail(q)) /\ Jobs(a)' = ToSet(Tail(q))
    BY <2>1, <2>2, <2>3 DEF Jobs
  <2>5. \A i, j \in DOMAIN q : PeerNews(q[i]) /\ PeerNews(q[j]) => i = j
    BY <1>2, <2>2 DEF Own
  <2>6. ASSUME NEW i \in DOMAIN Tail(q), NEW j \in DOMAIN Tail(q),
               PeerNews(Tail(q)[i]), PeerNews(Tail(q)[j])
        PROVE  i = j
    <3>1. i \in Nat /\ j \in Nat /\ i + 1 = j + 1
      BY <2>3, <2>5, <2>6
    <3>2. QED
      BY <3>1
  <2>7. PeerNews(Head(q)) => \A job \in ToSet(Tail(q)) : ~PeerNews(job)
    <3>1. ASSUME PeerNews(Head(q)), NEW i \in DOMAIN Tail(q), PeerNews(Tail(q)[i]) PROVE FALSE
      BY <2>3, <2>5, <3>1
    <3>2. QED
      BY <3>1 DEF ToSet
  <2>8. \A e \in pending'[a] : Head(q).do = "tell" /\ e[2] = Head(q).msg
    <3>1. CASE LookedUp(a)
      <4>1. pending'[a] = Recipients(a, Head(q).to) \X {Head(q).msg} /\ Head(q).do = "tell"
        BY <2>2, <3>1 DEF LookedUp
      <4>2. QED
        BY <4>1
    <3>2. CASE TakenOut(a)
      BY <3>2 DEF TakenOut
    <3>3. QED
      BY <1>4, <3>1, <3>2
  <2>9. \A m \in News(a)' : m \in News(a)
    BY <2>4, <2>8 DEF News, Tells
  <2>10. \A e \in pending'[a] : e[2].about # Nil => \A job \in Jobs(a)' : ~PeerNews(job)
    <3>1. \A e \in pending'[a] : e[2].about # Nil => PeerNews(Head(q))
      BY <2>8 DEF PeerNews
    <3>2. QED
      BY <2>4, <2>7, <3>1
  <2>11. Own(a)'
    <3>1. \A m \in News(a)' : m.about # Nil => m.about = a[1]
      BY <1>2, <2>9 DEF Own
    <3>2. \A i, j \in DOMAIN todo'[a] : PeerNews(todo'[a][i]) /\ PeerNews(todo'[a][j]) => i = j
      BY <2>1, <2>2, <2>6
    <3>3. \A e, f \in pending'[a] : e[2] = f[2]
      BY <2>8
    <3>4. QED
      BY <2>10, <3>1, <3>2, <3>3 DEF Own, PeerNews
  <2>12. QED
    BY <1>1, <2>11, OwnFrame
<1>5. QED
  BY <1>1, <1>3, <1>4

LEMMA OwnNewsStep == TypeOK /\ Between /\ OwnNews /\ [Next]_vars => OwnNews'
<1> SUFFICES ASSUME TypeOK, Between, OwnNews, [Next]_vars PROVE OwnNews'
  OBVIOUS
<1>0. NewsType
  BY TypeParts
<1>1. ASSUME UNCHANGED <<todo, pending>> PROVE OwnNews'
  BY <1>1, OwnOfAll, OwnKept DEF OwnNews, Own
<1>2. ASSUME NEW s \in Sid, NEW r \in Room, JoinAdmit(s, r) PROVE OwnNews'
  BY <1>0, <1>1, <1>2, JoinAdmitFacts
<1>3. ASSUME NEW s \in Sid, JoinLeave(s) PROVE OwnNews'
  BY <1>0, <1>1, <1>3, JoinLeaveIdle, JoinLeaveChanges, OwnChange, Agents
<1>4. ASSUME NEW s \in Sid, JoinEnter(s) PROVE OwnNews'
  BY <1>0, <1>4, JoinEnterChanges, OwnChange, Agents
<1>5. ASSUME NEW s \in Sid, JoinFull(s) PROVE OwnNews'
  BY <1>0, <1>1, <1>5, JoinFullFacts
<1>6. ASSUME NEW s \in Sid, Leave(s) \/ UpdateName(s) PROVE OwnNews'
  BY <1>0, <1>6, LeaveChanges, OwnChange, Agents
<1>7. ASSUME NEW s \in Sid, Refresh(s) PROVE OwnNews'
  <2>1. /\ Others(Pump(s)) /\ Free(Pump(s)) /\ todo'[Pump(s)] = <<List(s)>> /\ pending' = pending
    BY <1>0, <1>7, RefreshFacts
  <2>2. List(s) \in Job /\ ~PeerNews(List(s))
    BY JobShapes DEF PeerNews
  <2>3. QED
    BY <2>1, <2>2, OwnNothing, OwnFrame, Agents DEF Free
<1>8. ASSUME NEW s \in Sid, AddClient(s) \/ Disconnect(s) PROVE OwnNews'
  BY <1>0, <1>1, <1>8, AddClientFacts, DisconnectFacts
<1>9. ASSUME NEW s \in Sid, NEW n \in 1 .. MaxCalls, RemoveClient(s, n) PROVE OwnNews'
  <2>1. CASE where[s] = Nil
    <3>1. /\ Others(Remover(s, n)) /\ Free(Remover(s, n)) /\ todo'[Remover(s, n)] = <<TakeOut>>
          /\ pending' = pending
      BY <1>0, <1>9, <2>1, RemoveClientIdle
    <3>2. TakeOut \in Job /\ ~PeerNews(TakeOut)
      BY JobShapes DEF PeerNews
    <3>3. QED
      BY <3>1, <3>2, OwnNothing, OwnFrame, Agents DEF Free
  <2>2. CASE where[s] # Nil
    BY <1>0, <1>9, <2>2, RemoveClientChanges, OwnChange, Agents
  <2>3. QED
    BY <2>1, <2>2
<1>10. ASSUME NEW gone \in SUBSET listed, CleanupExpiredChannels(gone) PROVE OwnNews'
  BY <1>0, <1>10, CleanupChanges, OwnChange, Agents
<1>11. ASSUME NEW a \in Agent, NextJob(a) PROVE OwnNews'
  BY <1>0, <1>11, OwnNextJob
<1>12. ASSUME NEW a \in Agent, Finish(a) PROVE OwnNews'
  BY <1>1, <1>12, FinishFacts
<1>13. ASSUME NEW a \in Agent, NEW entry \in pending[a],
              Enqueue(a, entry[1], entry[2]) \/ EnqueueFails(a, entry[1], entry[2])
       PROVE  OwnNews'
  <2>1. entry[1] \in Sid /\ entry[2] \in Message
    BY <1>0, Recipient
  <2>2. Others(a) /\ pending'[a] \subseteq pending[a] /\ todo' = todo
    BY <1>0, <1>13, <2>1, EnqueueFacts, EnqueueFailsFacts
  <2>3. Own(a)'
    BY <2>2, OwnOfAll, OwnKept
  <2>4. QED
    BY <2>2, <2>3, OwnFrame
<1>14. CASE UNCHANGED vars
  BY <1>1, <1>14 DEF vars
<1>15. QED
  BY <1>2, <1>3, <1>4, <1>5, <1>6, <1>7, <1>8, <1>9, <1>10, <1>11, <1>12, <1>13, <1>14 DEF Next

\* A session's removals are let through only when its connection has ended, and once.
LEMMA TellerFrame ==
    ASSUME OneTeller, slow \subseteq slow',
           \A s \in Sid \ slow' : /\ due'[s] = due[s]
                                  /\ pump[s] = "ended" => pump'[s] = "ended",
           \A s \in Sid, n \in 1 .. MaxCalls : Free(Remover(s, n)) => Free(Remover(s, n))'
    PROVE  OneTeller'
<1> SUFFICES ASSUME NEW s \in Sid \ slow'
             PROVE  /\ due'[s] <= 1
                    /\ due'[s] = 1 => FreeRemovers(s)'
                    /\ pump'[s] # "ended" => due'[s] = 0 /\ FreeRemovers(s)'
                    /\ \A n, m \in 1 .. MaxCalls :
                           n = m \/ Free(Remover(s, n))' \/ Free(Remover(s, m))'
  BY DEF OneTeller
<1>1. /\ due[s] <= 1 /\ (due[s] = 1 => FreeRemovers(s))
      /\ pump[s] # "ended" => due[s] = 0 /\ FreeRemovers(s)
      /\ \A n, m \in 1 .. MaxCalls : n = m \/ Free(Remover(s, n)) \/ Free(Remover(s, m))
  BY DEF OneTeller
<1>2. FreeRemovers(s) => FreeRemovers(s)'
  BY DEF FreeRemovers
<1>3. QED
  BY <1>1, <1>2

\* Who goes on with something is no free remover.
LEMMA TellerSame ==
    ASSUME OneTeller, NEW a \in Agent, Others(a),
           UNCHANGED <<pump, due, slow>>, a[2] = "remover" => ~Free(a)
    PROVE  OneTeller'
<1>1. ASSUME NEW s \in Sid, NEW n \in 1 .. MaxCalls, Free(Remover(s, n)) PROVE Free(Remover(s, n))'
  <2>1. Remover(s, n) # a
    BY <1>1, Agents
  <2>2. QED
    BY <1>1, <2>1, Agents DEF Others, Free
<1>2. QED
  BY <1>1, TellerFrame

\* A connection that has not ended does something.
LEMMA TellerPump ==
    ASSUME OneTeller, NEW s \in Sid, Others(Pump(s)), pump[s] # "ended",
           UNCHANGED <<due, slow>>, \A u \in Sid : u # s => pump'[u] = pump[u]
    PROVE  OneTeller'
<1>1. ASSUME NEW u \in Sid, NEW n \in 1 .. MaxCalls, Free(Remover(u, n)) PROVE Free(Remover(u, n))'
  <2>1. Remover(u, n) # Pump(s) /\ Remover(u, n) \in Agent
    BY Agents
  <2>2. QED
    BY <1>1, <2>1 DEF Others, Free
<1>2. QED
  BY <1>1, TellerFrame

LEMMA OneTellerStep == TypeOK /\ Between /\ OneTeller /\ [Next]_vars => OneTeller'
<1> SUFFICES ASSUME TypeOK, Between, OneTeller, [Next]_vars PROVE OneTeller'
  OBVIOUS
<1>0. NewsType /\ PumpType
  BY TypeParts
<1>1. ASSUME NEW s \in Sid, NEW r \in Room, JoinAdmit(s, r) PROVE OneTeller'
  <2>1. /\ pump[s] = "reading" /\ pump' = [pump EXCEPT ![s] = "leaving"]
        /\ UNCHANGED <<due, todo, pending, owes, slow>>
    BY <1>0, <1>1, JoinAdmitFacts
  <2>2. Others(Pump(s)) /\ \A u \in Sid : u # s => pump'[u] = pump[u]
    BY <1>0, <2>1 DEF Others, PumpType
  <2>3. QED
    BY <2>1, <2>2, TellerPump
<1>2. ASSUME NEW s \in Sid, JoinLeave(s) PROVE OneTeller'
  <2>1. /\ pump' = [pump EXCEPT ![s] = "entering"] /\ pump[s] = "leaving"
        /\ UNCHANGED <<due, slow>>
    BY <1>2 DEF JoinLeave
  <2>2. Others(Pump(s))
    <3>1. CASE where[s] = Nil
      BY <1>2, <3>1, JoinLeaveIdle DEF Others
    <3>2. CASE where[s] # Nil
      BY <1>0, <1>2, <3>2, JoinLeaveChanges, ChangesTyped, Agents
    <3>3. QED
      BY <3>1, <3>2
  <2>3. \A u \in Sid : u # s => pump'[u] = pump[u]
    BY <1>0, <2>1 DEF PumpType
  <2>4. QED
    BY <2>1, <2>2, <2>3, TellerPump
<1>3. ASSUME NEW s \in Sid, JoinEnter(s) \/ JoinFull(s) PROVE OneTeller'
  <2>1. /\ pump' = [pump EXCEPT ![s] = "reading"] /\ pump[s] = "entering"
        /\ UNCHANGED <<due, slow>>
    BY <1>3 DEF JoinEnter, JoinFull, JoinDone, history
  <2>2. Others(Pump(s))
    BY <1>0, <1>3, JoinEnterChanges, ChangesTyped, JoinFullFacts, Agents
  <2>3. \A u \in Sid : u # s => pump'[u] = pump[u]
    BY <1>0, <2>1 DEF PumpType
  <2>4. QED
    BY <2>1, <2>2, <2>3, TellerPump
<1>4. ASSUME NEW s \in Sid, Leave(s) \/ UpdateName(s) \/ Refresh(s) PROVE OneTeller'
  <2>1. Others(Pump(s))
    BY <1>0, <1>4, LeaveChanges, ChangesTyped, RefreshFacts, Agents
  <2>2. UNCHANGED <<pump, due, slow>> /\ pump[s] = "reading"
    BY <1>4 DEF Leave, UpdateName, Refresh, history
  <2>3. QED
    BY <2>1, <2>2, TellerPump
<1>5. ASSUME UNCHANGED <<pump, due, todo, pending, owes, slow>> PROVE OneTeller'
  BY <1>5, TellerFrame DEF Free
<1>6. ASSUME NEW s \in Sid, AddClient(s) PROVE OneTeller'
  BY <1>0, <1>5, <1>6, AddClientFacts
<1>7. ASSUME NEW s \in Sid, Disconnect(s) PROVE OneTeller'
  <2>1. /\ pump[s] = "reading" /\ pump' = [pump EXCEPT ![s] = "ended"]
        /\ due' = [due EXCEPT ![s] = @ + 1] /\ UNCHANGED <<todo, pending, owes, slow>>
    BY <1>0, <1>7, DisconnectFacts
  <2>2. pump'[s] = "ended" /\ due'[s] = due[s] + 1
        /\ \A u \in Sid : u # s => pump'[u] = pump[u] /\ due'[u] = due[u]
    BY <1>0, <2>1 DEF PumpType
  <2>3. /\ \A u \in Sid, n \in 1 .. MaxCalls : Free(Remover(u, n))' <=> Free(Remover(u, n))
        /\ \A u \in Sid : FreeRemovers(u)' <=> FreeRemovers(u)
    BY <2>1 DEF Free, FreeRemovers
  <2>4. ASSUME s \notin slow PROVE due'[s] <= 1 /\ FreeRemovers(s)'
    <3>1. due[s] = 0 /\ FreeRemovers(s)
      BY <2>1, <2>4 DEF OneTeller
    <3>2. QED
      BY <2>2, <2>3, <3>1
  <2>5. QED
    BY <2>1, <2>2, <2>3, <2>4 DEF OneTeller
<1>8. ASSUME NEW s \in Sid, NEW n \in 1 .. MaxCalls, RemoveClient(s, n) PROVE OneTeller'
  <2>1. Others(Remover(s, n))
    <3>1. CASE where[s] = Nil
      BY <1>0, <1>8, <3>1, RemoveClientIdle
    <3>2. CASE where[s] # Nil
      BY <1>0, <1>8, <3>2, RemoveClientChanges, ChangesTyped, Agents
    <3>3. QED
      BY <3>1, <3>2
  <2>2. /\ due[s] > 0 /\ due' = [due EXCEPT ![s] = @ - 1] /\ pump' = pump /\ slow' = slow
    BY <1>8 DEF RemoveClient
  <2>3. due[s] \in Nat /\ due'[s] = due[s] - 1 /\ \A u \in Sid : u # s => due'[u] = due[u]
    BY <1>0, <2>2 DEF PumpType
  <2>4. ASSUME NEW u \in Sid, NEW m \in 1 .. MaxCalls, u # s \/ m # n
        PROVE  Free(Remover(u, m))' <=> Free(Remover(u, m))
    <3>1. Remover(u, m) # Remover(s, n) /\ Remover(u, m) \in Agent
      <4>1. Remover(u, m)[1] = u /\ Remover(s, n)[1] = s
        BY Agents
      <4>2. CASE u # s
        BY <4>1, <4>2, Agents
      <4>3. CASE u = s /\ m # n
        BY <4>3, Agents
      <4>4. QED
        BY <2>4, <4>2, <4>3
    <3>2. QED
      BY <2>1, <3>1 DEF Others, Free
  <2>5. \A u \in Sid : u # s => (FreeRemovers(u)' <=> FreeRemovers(u))
    BY <2>4 DEF FreeRemovers
  <2>6. ASSUME s \notin slow PROVE due'[s] = 0 /\ pump[s] = "ended" /\ FreeRemovers(s)
    <3>1. due[s] = 1 /\ FreeRemovers(s) /\ pump[s] = "ended"
      BY <2>2, <2>3, <2>6 DEF OneTeller
    <3>2. QED
      BY <2>3, <3>1
  <2> SUFFICES ASSUME NEW u \in Sid \ slow
               PROVE  /\ due'[u] <= 1
                      /\ due'[u] = 1 => FreeRemovers(u)'
                      /\ pump[u] # "ended" => due'[u] = 0 /\ FreeRemovers(u)'
                      /\ \A k, m \in 1 .. MaxCalls :
                             k = m \/ Free(Remover(u, k))' \/ Free(Remover(u, m))'
    BY <2>2 DEF OneTeller
  <2>7. CASE u = s
    <3>1. \A m \in 1 .. MaxCalls : m # n => Free(Remover(s, m))'
      BY <2>4, <2>6, <2>7 DEF FreeRemovers
    <3>2. QED
      BY <2>6, <2>7, <3>1
  <2>8. CASE u # s
    <3>1. /\ due[u] <= 1 /\ (due[u] = 1 => FreeRemovers(u))
          /\ pump[u] # "ended" => due[u] = 0 /\ FreeRemovers(u)
          /\ \A k, m \in 1 .. MaxCalls : k = m \/ Free(Remover(u, k)) \/ Free(Remover(u, m))
      BY DEF OneTeller
    <3>2. QED
      BY <2>3, <2>4, <2>5, <2>8, <3>1
  <2>9. QED
    BY <2>7, <2>8
<1>9. ASSUME NEW gone \in SUBSET listed, CleanupExpiredChannels(gone) PROVE OneTeller'
  <2>1. Others(Sweeper)
    BY <1>0, <1>9, CleanupChanges, ChangesTyped, Agents
  <2>2. UNCHANGED <<pump, due, slow>>
    BY <1>9 DEF CleanupExpiredChannels
  <2>3. QED
    BY <2>1, <2>2, TellerSame, Agents
<1>10. ASSUME NEW a \in Agent, NextJob(a) PROVE OneTeller'
  BY <1>0, <1>10, NextJobFacts, TellerSame DEF Free
<1>11. ASSUME NEW a \in Agent, Finish(a) PROVE OneTeller'
  <2>1. ~Free(a)
    BY <1>11 DEF Finish, Free
  <2>2. QED
    BY <1>11, <2>1, FinishFacts, TellerSame
<1>12. ASSUME NEW a \in Agent, NEW entry \in pending[a], Enqueue(a, entry[1], entry[2])
       PROVE  OneTeller'
  <2>1. entry[1] \in Sid /\ entry[2] \in Message /\ ~Free(a)
    BY <1>0, Recipient DEF Free
  <2>2. QED
    BY <1>0, <1>12, <2>1, EnqueueFacts, TellerSame
<1>13. ASSUME NEW a \in Agent, NEW entry \in pending[a], EnqueueFails(a, entry[1], entry[2])
       PROVE  OneTeller'
  <2>1. entry[1] \in Sid /\ entry[2] \in Message /\ ~Free(a)
    BY <1>0, Recipient DEF Free
  <2>2. /\ Others(a) /\ slow' = slow \cup {entry[1]} /\ due' = [due EXCEPT ![entry[1]] = @ + 1]
        /\ pump' = pump
    BY <1>0, <1>13, <2>1, EnqueueFailsFacts
  <2>3. ASSUME NEW s \in Sid \ slow' PROVE due'[s] = due[s]
    BY <1>0, <2>2, <2>3 DEF PumpType
  <2>4. ASSUME NEW s \in Sid, NEW n \in 1 .. MaxCalls, Free(Remover(s, n)) PROVE Free(Remover(s, n))'
    <3>1. Remover(s, n) # a /\ Remover(s, n) \in Agent
      BY <2>1, <2>4, Agents
    <3>2. QED
      BY <2>2, <2>4, <3>1 DEF Others, Free
  <2>5. QED
    BY <2>2, <2>3, <2>4, TellerFrame
<1>14. CASE UNCHANGED vars
  BY <1>5, <1>14 DEF vars
<1>15. QED
  BY <1>1, <1>2, <1>3, <1>4, <1>6, <1>7, <1>8, <1>9, <1>10, <1>11, <1>12, <1>13, <1>14 DEF Next

\* Nobody is sent anything, and what is new to tell is newer than all that has been told.
LEMMA NewerFrame ==
    ASSUME NewsType, Heard, NewsIsNewer, inbox' = inbox, slow \subseteq slow',
           \A b \in Agent : \A job \in Jobs(b)' :
               job.do = "tell" /\ job.msg.about # Nil => job \in Jobs(b) \/ job.msg.v = version + 1,
           \A b \in Agent : \A e \in pending'[b] :
               \/ e \in pending[b]
               \/ \E job \in Jobs(b) : job.do = "tell" /\ job.msg = e[2]
    PROVE  NewsIsNewer'
<1> SUFFICES ASSUME NEW b \in Agent, NEW t \in Sid, NEW i \in DOMAIN inbox[t],
                    inbox[t][i].about \notin slow' \cup {Nil}
             PROVE  /\ \A job \in Jobs(b)' : job.do = "tell" /\ job.msg.about = inbox[t][i].about =>
                                                 inbox[t][i].v < job.msg.v
                    /\ \A e \in pending'[b] : e[1] = t /\ e[2].about = inbox[t][i].about =>
                                                 inbox[t][i].v < e[2].v
  BY DEF NewsIsNewer
<1>1. /\ \A job \in Jobs(b) : job.do = "tell" /\ job.msg.about = inbox[t][i].about =>
                                  inbox[t][i].v < job.msg.v
      /\ \A e \in pending[b] : e[1] = t /\ e[2].about = inbox[t][i].about => inbox[t][i].v < e[2].v
  BY DEF NewsIsNewer
<1>2. inbox[t][i].v < version + 1
  <2>1. inbox[t][i].v \in Nat /\ inbox[t][i].v <= version /\ version \in Nat
    BY MessageFields DEF NewsType, Heard
  <2>2. QED
    BY <2>1
<1>3. inbox[t][i].about # Nil
  OBVIOUS
<1>4. QED
  BY <1>1, <1>2, <1>3

LEMMA NewerChange ==
    ASSUME NewsType, Heard, NewsIsNewer, NEW a \in Agent, NEW jobs, ChangesOf(a, jobs)
    PROVE  NewsIsNewer'
<1>1. Proper(a, jobs) /\ Change(a, jobs) /\ slow' = slow /\ jobs \in Seq(Job)
  BY DEF ChangesOf, Proper
<1>2. Others(a) /\ todo'[a] = jobs /\ pending' = pending /\ inbox' = inbox
  BY <1>1, ChangeFacts DEF Change
<1>3. Jobs(a)' = ToSet(jobs) /\ \A b \in Agent : b # a => Jobs(b)' = Jobs(b)
  BY <1>2 DEF Jobs, Others
<1>4. \A job \in ToSet(jobs) : job.do = "tell" => job.msg.v = version + 1
  BY <1>1 DEF Proper
<1>5. QED
  BY <1>1, <1>2, <1>3, <1>4, NewerFrame

\* An agent has only lists to send, or to take a client out.
LEMMA NewerOneJob ==
    ASSUME NewsType, Heard, NewsIsNewer, NEW a \in Agent, Others(a), NEW x \in Job,
           todo'[a] = <<x>>, ~PeerNews(x), pending'[a] \subseteq pending[a],
           inbox' = inbox, slow' = slow
    PROVE  NewsIsNewer'
<1>1. Jobs(a)' = {x} /\ \A b \in Agent : b # a => Jobs(b)' = Jobs(b) /\ pending'[b] = pending[b]
  BY OneJob DEF Jobs, Others
<1>2. QED
  BY <1>1, NewerFrame DEF PeerNews

LEMMA NewerNextJob ==
    ASSUME NewsType, Heard, NewsIsNewer, NEW a \in Agent, NextJob(a)
    PROVE  NewsIsNewer'
<1>1. /\ Others(a) /\ todo[a] # <<>> /\ pending[a] = {} /\ todo[a] \in Seq(Job)
      /\ inbox' = inbox /\ slow' = slow
      /\ SnapshotTaken(a) \/ LookedUp(a) \/ TakenOut(a)
  BY NextJobFacts DEF NewsType
<1>2. CASE SnapshotTaken(a)
  <2>1. PICK to \in Sid \cup {Everybody} : todo'[a] = <<Tell(to, Msg("list", Nil, version))>>
    BY <1>2 DEF SnapshotTaken
  <2>2. "list" \in What /\ version \in Nat
    BY DEF NewsType, What
  <2>3. PICK m : m = Msg("list", Nil, version)
    OBVIOUS
  <2>4. m \in Message /\ m.about = Nil
    BY <2>2, <2>3 DEF Msg, Message
  <2>5. PICK x \in Job : x = Tell(to, m) /\ x.msg = m
    BY <2>4, TellShape
  <2>6. ~PeerNews(x) /\ pending'[a] = {}
    BY <1>2, <2>4, <2>5 DEF PeerNews, SnapshotTaken
  <2>7. QED
    BY <1>1, <2>1, <2>3, <2>5, <2>6, NewerOneJob
<1>3. CASE LookedUp(a) \/ TakenOut(a)
  <2>1. todo'[a] = Tail(todo[a])
    BY <1>3 DEF LookedUp, TakenOut
  <2>2. Jobs(a) = {Head(todo[a])} \cup Jobs(a)'
    BY <1>1, <2>1, FirstAndRest DEF Jobs
  <2>3. \A b \in Agent : Jobs(b)' \subseteq Jobs(b)
    <3>1. \A b \in Agent : b # a => Jobs(b)' = Jobs(b)
      BY <1>1 DEF Jobs, Others
    <3>2. QED
      BY <2>2, <3>1
  <2>4. \A e \in pending'[a] : Head(todo[a]).do = "tell" /\ e[2] = Head(todo[a]).msg
    <3>1. CASE LookedUp(a)
      <4>1. /\ pending'[a] = Recipients(a, Head(todo[a]).to) \X {Head(todo[a]).msg}
            /\ Head(todo[a]).do = "tell"
        BY <3>1 DEF LookedUp
      <4>2. QED
        BY <4>1
    <3>2. CASE TakenOut(a)
      BY <3>2 DEF TakenOut
    <3>3. QED
      BY <1>3, <3>1, <3>2
  <2>5. \A b \in Agent : \A e \in pending'[b] :
            e \in pending[b] \/ \E job \in Jobs(b) : job.do = "tell" /\ job.msg = e[2]
    BY <1>1, <2>2, <2>4 DEF Others
  <2>6. QED
    BY <1>1, <2>3, <2>5, NewerFrame
<1>4. QED
  BY <1>1, <1>2, <1>3

\* Nobody else has anything to tell about the session that a is telling about.
LEMMA OnlyTeller ==
    ASSUME NewsType, Between, OwnNews, OneTeller, NEW a \in Agent, NEW b \in Agent, b # a,
           NEW m \in News(a), NEW n \in News(b), m.about \in Sid \ slow
    PROVE  n.about # m.about
<1> SUFFICES ASSUME n.about = m.about PROVE FALSE
  OBVIOUS
<1>1. m.about # Nil
  BY EverybodyIsNobody
<1>2. PICK s \in Sid \ slow : s = m.about
  OBVIOUS
<1>3. a[1] = s /\ b[1] = s
  BY <1>1, <1>2 DEF OwnNews
<1>4. /\ a = Pump(s) \/ \E k \in 1 .. MaxCalls : a = Remover(s, k)
      /\ b = Pump(s) \/ \E k \in 1 .. MaxCalls : b = Remover(s, k)
  BY <1>3, Agents
<1>5. ~Free(a) /\ ~Free(b)
  <2>1. \A c \in Agent : Free(c) => News(c) = {}
    BY NoJob DEF Free, News, Tells, Jobs
  <2>2. QED
    BY <2>1
\* One of the two is the connection, since no two removers are busy.
<1>6. ~Free(Pump(s)) /\ ~FreeRemovers(s)
  <2>1. a # b /\ \A k, l \in 1 .. MaxCalls : k = l \/ Free(Remover(s, k)) \/ Free(Remover(s, l))
    BY DEF OneTeller
  <2>2. a = Pump(s) \/ b = Pump(s)
    BY <1>4, <1>5, <2>1
  <2>3. QED
    BY <1>4, <1>5, <2>1, <2>2 DEF FreeRemovers
<1>7. pump[s] = "ended"
  BY <1>6 DEF OneTeller
<1>8. QED
  BY <1>6, <1>7 DEF Between

\* A message about a session is enqueued: it is newer than all others about it that have been,
\* and nothing else is to be told about it.
LEMMA OrderEnqueue ==
    ASSUME TypeOK, Between, OrderInv, NEW a \in Agent, NEW t \in Sid, NEW msg \in Message,
           <<t, msg>> \in pending[a], Enqueue(a, t, msg)
    PROVE  NewsIsNewer' /\ PeersInOrder'
<1>1. NewsType /\ OwnNews /\ OneTeller /\ NewsIsNewer /\ PeersInOrder
  BY TypeParts DEF OrderInv
<1>2. /\ Others(a) /\ pending'[a] = pending[a] \ {<<t, msg>>}
      /\ inbox' = IF client[t] = "in" THEN [inbox EXCEPT ![t] = Append(inbox[t], msg)] ELSE inbox
      /\ todo' = todo /\ slow' = slow
  BY <1>1, EnqueueFacts
<1>3. \A b \in Agent : Jobs(b)' = Jobs(b) /\ pending'[b] \subseteq pending[b]
  BY <1>2 DEF Jobs, Others
<1>4. CASE client[t] # "in"
  <2>1. inbox' = inbox
    BY <1>2, <1>4
  <2>2. NewsIsNewer'
    BY <1>1, <1>2, <1>3, <2>1 DEF NewsIsNewer
  <2>3. PeersInOrder'
    BY <1>1, <1>2, <2>1 DEF PeersInOrder
  <2>4. QED
    BY <2>2, <2>3
<1>5. CASE client[t] = "in"
  <2>0. inbox' = [inbox EXCEPT ![t] = Append(inbox[t], msg)]
    BY <1>2, <1>5
  <2>1. PICK n \in Nat :
            /\ n = Len(inbox[t]) /\ DOMAIN inbox[t] = 1 .. n
            /\ Len(inbox'[t]) = n + 1 /\ DOMAIN inbox'[t] = 1 .. (n + 1)
            /\ inbox'[t][n + 1] = msg
            /\ \A i \in 1 .. n : inbox'[t][i] = inbox[t][i]
            /\ \A u \in Sid : u # t => inbox'[u] = inbox[u]
    BY <1>1, <2>0, Appended
  <2>2. \A i \in 1 .. (n + 1) : i \in 1 .. n \/ i = n + 1
    OBVIOUS
  <2>3. msg \in News(a) /\ <<t, msg>>[1] = t /\ <<t, msg>>[2] = msg
    <3>1. <<t, msg>>[1] = t /\ <<t, msg>>[2] = msg
      OBVIOUS
    <3>2. QED
      BY <3>1 DEF News
  \* Nothing is left to tell t about the session of msg.
  <2>4. ASSUME msg.about \notin slow \cup {Nil}, NEW b \in Agent
        PROVE  /\ \A job \in Jobs(b) : job.do = "tell" => job.msg.about # msg.about
               /\ \A e \in pending'[b] : e[1] = t => e[2].about # msg.about
    <3>1. msg.about \in Sid \ slow
      BY <2>4, MessageFields
    <3>2. CASE b # a
      <4>1. \A m \in News(b) : m.about # msg.about
        BY <1>1, <2>3, <3>1, <3>2, OnlyTeller
      <4>2. QED
        BY <1>3, <4>1 DEF News, Tells
    <3>3. CASE b = a
      <4>1. \A job \in Jobs(a) : job.do = "tell" => job.msg.about = Nil
        BY <1>1, <2>3, <2>4 DEF OwnNews, PeerNews
      <4>2. ASSUME NEW e \in pending'[a], e[1] = t PROVE FALSE
        <5>1. e \in pending[a] /\ e # <<t, msg>>
          BY <1>2
        <5>2. e[2] = msg
          BY <1>1, <2>3, <5>1 DEF OwnNews
        <5>3. e = <<e[1], e[2]>>
          BY <1>1, <5>1, Recipient
        <5>4. QED
          BY <4>2, <5>1, <5>2, <5>3
      <4>3. QED
        BY <2>4, <3>3, <4>1, <4>2
    <3>4. QED
      BY <3>2, <3>3
  <2>5. NewsIsNewer'
    <3> SUFFICES ASSUME NEW b \in Agent, NEW u \in Sid, NEW i \in DOMAIN inbox'[u],
                        inbox'[u][i].about \notin slow \cup {Nil}
                 PROVE  /\ \A job \in Jobs(b) : job.do = "tell" /\ job.msg.about = inbox'[u][i].about =>
                                                    inbox'[u][i].v < job.msg.v
                        /\ \A e \in pending'[b] : e[1] = u /\ e[2].about = inbox'[u][i].about =>
                                                    inbox'[u][i].v < e[2].v
      BY <1>2, <1>3 DEF NewsIsNewer
    <3>1. CASE u = t /\ i = n + 1
      BY <2>1, <2>4, <3>1
    <3>2. CASE i \in DOMAIN inbox[u] /\ inbox'[u][i] = inbox[u][i]
      BY <1>1, <1>3, <3>2 DEF NewsIsNewer
    <3>3. QED
      BY <2>1, <2>2, <3>1, <3>2
  <2>6. PeersInOrder'
    <3> SUFFICES ASSUME NEW u \in Sid, NEW i \in DOMAIN inbox'[u], NEW j \in DOMAIN inbox'[u], i < j,
                        inbox'[u][i].about = inbox'[u][j].about,
                        inbox'[u][i].about \notin slow \cup {Nil}
                 PROVE  inbox'[u][i].v < inbox'[u][j].v
      BY <1>2 DEF PeersInOrder
    <3>1. CASE u # t
      BY <1>1, <2>1, <3>1 DEF PeersInOrder
    <3>2. CASE u = t /\ j \in 1 .. n
      <4>1. i \in 1 .. n
        BY <2>1, <3>2
      <4>2. QED
        BY <1>1, <2>1, <3>2, <4>1 DEF PeersInOrder
    <3>3. CASE u = t /\ j = n + 1
      <4>1. i \in 1 .. n
        BY <2>1, <3>3
      <4>2. /\ i \in DOMAIN inbox[t] /\ inbox'[t][i] = inbox[t][i] /\ inbox'[u][j] = msg
            /\ msg.about = inbox[t][i].about /\ inbox[t][i].about \notin slow \cup {Nil}
        BY <2>1, <3>3, <4>1
      <4>3. inbox[t][i].v < msg.v
        BY <1>1, <2>3, <4>2 DEF NewsIsNewer
      <4>4. QED
        BY <3>3, <4>2, <4>3
    <3>4. QED
      BY <2>1, <2>2, <3>1, <3>2, <3>3
  <2>7. QED
    BY <2>5, <2>6
<1>6. QED
  BY <1>4, <1>5

LEMMA OrderStep == TypeOK /\ Between /\ Heard /\ OrderInv /\ [Next]_vars => OrderInv'
<1> SUFFICES ASSUME TypeOK, Between, Heard, OrderInv, [Next]_vars PROVE OrderInv'
  OBVIOUS
<1>0. NewsType /\ OwnNews /\ OneTeller /\ NewsIsNewer /\ PeersInOrder
  BY TypeParts DEF OrderInv
<1> DEFINE Goal == NewsIsNewer' /\ PeersInOrder'
<1>1. ASSUME inbox' = inbox, slow \subseteq slow', NewsIsNewer' PROVE Goal
  BY <1>0, <1>1 DEF PeersInOrder
<1>2. ASSUME UNCHANGED <<todo, inbox>>, slow \subseteq slow',
             \A b \in Agent : pending'[b] \subseteq pending[b]
      PROVE  Goal
  BY <1>0, <1>1, <1>2, NewerFrame DEF Jobs
<1>3. ASSUME NEW a \in Agent, NEW jobs, ChangesOf(a, jobs) PROVE Goal
  <2>1. inbox' = inbox /\ slow' = slow
    BY <1>3 DEF ChangesOf, Change
  <2>2. QED
    BY <1>0, <1>1, <1>3, <2>1, NewerChange
<1> HIDE DEF Goal
<1>4. ASSUME NEW s \in Sid, NEW r \in Room, JoinAdmit(s, r) PROVE Goal
  BY <1>0, <1>2, <1>4, JoinAdmitFacts
<1>5. ASSUME NEW s \in Sid, JoinLeave(s) PROVE Goal
  BY <1>2, <1>3, <1>5, JoinLeaveIdle, JoinLeaveChanges, Agents
<1>6. ASSUME NEW s \in Sid, JoinEnter(s) PROVE Goal
  BY <1>3, <1>6, JoinEnterChanges, Agents
<1>7. ASSUME NEW s \in Sid, JoinFull(s) PROVE Goal
  BY <1>0, <1>2, <1>7, JoinFullFacts
<1>8. ASSUME NEW s \in Sid, Leave(s) \/ UpdateName(s) PROVE Goal
  BY <1>3, <1>8, LeaveChanges, Agents
<1>9. ASSUME NEW s \in Sid, Refresh(s) PROVE Goal
  <2>1. /\ Others(Pump(s)) /\ todo'[Pump(s)] = <<List(s)>>
        /\ UNCHANGED <<pending, inbox, slow>>
    BY <1>0, <1>9, RefreshFacts
  <2>2. List(s) \in Job /\ ~PeerNews(List(s))
    BY JobShapes DEF PeerNews
  <2>3. NewsIsNewer'
    BY <1>0, <2>1, <2>2, NewerOneJob, Agents
  <2>4. QED
    BY <1>1, <2>1, <2>3
<1>10. ASSUME NEW s \in Sid, AddClient(s) \/ Disconnect(s) PROVE Goal
  BY <1>0, <1>2, <1>10, AddClientFacts, DisconnectFacts
<1>11. ASSUME NEW s \in Sid, NEW n \in 1 .. MaxCalls, RemoveClient(s, n) PROVE Goal
  <2>1. CASE where[s] = Nil
    <3>1. /\ Others(Remover(s, n)) /\ todo'[Remover(s, n)] = <<TakeOut>>
          /\ UNCHANGED <<pending, inbox, slow>>
      BY <1>0, <1>11, <2>1, RemoveClientIdle
    <3>2. TakeOut \in Job /\ ~PeerNews(TakeOut)
      BY JobShapes DEF PeerNews
    <3>3. NewsIsNewer'
      BY <1>0, <3>1, <3>2, NewerOneJob, Agents
    <3>4. QED
      BY <1>1, <3>1, <3>3
  <2>2. CASE where[s] # Nil
    BY <1>3, <1>11, <2>2, RemoveClientChanges, Agents
  <2>3. QED
    BY <2>1, <2>2
<1>12. ASSUME NEW gone \in SUBSET listed, CleanupExpiredChannels(gone) PROVE Goal
  BY <1>3, <1>12, CleanupChanges, Agents
<1>13. ASSUME NEW a \in Agent, NextJob(a) PROVE Goal
  BY <1>0, <1>1, <1>13, NextJobFacts, NewerNextJob
<1>14. ASSUME NEW a \in Agent, Finish(a) PROVE Goal
  BY <1>2, <1>14, FinishFacts
<1>15. ASSUME NEW a \in Agent, NEW entry \in pending[a], Enqueue(a, entry[1], entry[2])
       PROVE  Goal
  <2>1. entry[1] \in Sid /\ entry[2] \in Message /\ <<entry[1], entry[2]>> \in pending[a]
    BY <1>0, Recipient
  <2>2. QED
    BY <1>15, <2>1, OrderEnqueue DEF Goal
<1>16. ASSUME NEW a \in Agent, NEW entry \in pending[a], EnqueueFails(a, entry[1], entry[2])
       PROVE  Goal
  <2>1. entry[1] \in Sid /\ entry[2] \in Message
    BY <1>0, Recipient
  <2>2. /\ Others(a) /\ pending'[a] \subseteq pending[a] /\ slow \subseteq slow'
        /\ UNCHANGED <<todo, inbox>>
    BY <1>0, <1>16, <2>1, EnqueueFailsFacts
  <2>3. QED
    BY <1>2, <2>2 DEF Others
<1>17. CASE UNCHANGED vars
  <2>1. Goal
    BY <1>2, <1>17 DEF vars
  <2>2. QED
    BY <1>0, <2>1, OwnNewsStep, OneTellerStep DEF Goal, OrderInv
<1>18. CASE Next
  <2>1. Goal
    BY <1>4, <1>5, <1>6, <1>7, <1>8, <1>9, <1>10, <1>11, <1>12, <1>13, <1>14, <1>15, <1>16, <1>18 DEF Next
  <2>2. QED
    BY <1>0, <2>1, OwnNewsStep, OneTellerStep DEF Goal, OrderInv
<1>19. QED
  BY <1>17, <1>18
-----------------------------------------------------------------------------
(* The theorems.                                                           *)

LEMMA PresenceInit == Init => PresenceInv
<1> SUFFICES ASSUME Init PROVE PresenceInv
  OBVIOUS
<1>1. /\ version = 0 /\ pump \in [Sid -> {"reading", "ended"}] /\ goal = [s \in Sid |-> Nil]
      /\ since = [s \in Sid |-> 0] /\ due = [s \in Sid |-> IF pump[s] = "ended" THEN 1 ELSE 0]
      /\ todo = [a \in Agent |-> <<>>] /\ pending = [a \in Agent |-> {}] /\ owes = [a \in Agent |-> {}]
      /\ calls = 0 /\ inbox = [s \in Sid |-> <<>>] /\ settled = {} /\ refused = {} /\ slow = {}
      /\ where \in [Sid -> listed \cup {Nil}] /\ listed \subseteq Room
      /\ client \in [Sid -> {"queued", "in"}]
  BY DEF Init
<1>2. TypeOK
  <2>1. PlaceType
    BY <1>1 DEF PlaceType
  <2>2. PumpType
    BY <1>1, SizeAssumption DEF PumpType
  <2>3. client \in [Sid -> {"queued", "in", "out"}] /\ since \in [Sid -> 0 .. version]
    BY <1>1
  <2>4. NewsType
    BY <1>1, <2>3 DEF NewsType
  <2>5. QED
    BY <2>1, <2>2, <2>4, TypeParts
<1>3. \A a \in Agent : Jobs(a) = {} /\ News(a) = {} /\ Free(a) /\ DOMAIN todo[a] = {}
  <2>1. \A a \in Agent : Jobs(a) = {} /\ DOMAIN todo[a] = {}
    BY <1>1, NoJob DEF Jobs
  <2>2. QED
    BY <1>1, <2>1 DEF News, Tells, Free
<1>4. Between
  BY <1>1, <1>3, Agents DEF Between
<1>5. \A t \in Sid : DOMAIN inbox[t] = {}
  BY <1>1, NoJob
<1>6. ListsInv
  <2>1. StillToTell /\ ToEverybody /\ OwedOnce /\ Heard /\ Promised
    BY <1>1, <1>3, <1>5 DEF StillToTell, ToEverybody, OwedOnce, Heard, Promised
  <2>2. NewsThenList /\ ListsReachEverybody
    BY <1>1 DEF NewsThenList, ListsReachEverybody, Announced
  <2>3. QED
    BY <2>1, <2>2 DEF ListsInv
<1>7. OrderInv
  <2>1. OwnNews
    BY <1>1, <1>3 DEF OwnNews
  <2>2. OneTeller
    BY <1>1, <1>3, Agents DEF OneTeller, FreeRemovers
  <2>3. NewsIsNewer /\ PeersInOrder
    BY <1>5 DEF NewsIsNewer, PeersInOrder
  <2>4. QED
    BY <2>1, <2>2, <2>3 DEF OrderInv
<1>8. QED
  BY <1>2, <1>4, <1>6, <1>7 DEF PresenceInv

LEMMA PresenceInductive == PresenceInv /\ [Next]_vars => PresenceInv'
<1> SUFFICES ASSUME PresenceInv, [Next]_vars PROVE PresenceInv'
  OBVIOUS
<1>1. TypeOK /\ Between /\ ListsInv /\ OrderInv /\ Heard
  BY DEF PresenceInv, ListsInv
<1>2. TypeOK'
  <2>1. PlaceType' /\ PumpType' /\ NewsType'
    BY <1>1, PlaceStep, PumpStep, NewsTypeStep
  <2>2. QED
    BY <2>1 DEF TypeOK, PlaceType, PumpType, NewsType
<1>3. Between' /\ ListsInv' /\ OrderInv'
  BY <1>1, BetweenStep, ListsStep, OrderStep
<1>4. QED
  BY <1>2, <1>3 DEF PresenceInv

LEMMA PresenceAlways == Spec => []PresenceInv
BY PresenceInit, PresenceInductive, PTL DEF Spec

\* In every state of Presence the variables have their types, and a message, a debt or a
\* client's beginning is never numbered later than the last change made.
THEOREM TypeCorrect == Spec => []TypeOK
<1>1. PresenceInv => TypeOK
  BY DEF PresenceInv
<1>2. QED
  BY <1>1, PresenceAlways, PTL

\* However calls overlap in telling the others (broadcast to a channel, then BroadcastAll of
\* the channel list), a client that has heard of a change gets, once the call that made it has
\* returned, a list at least as new behind what it heard.  Changes made by a join that ended
\* in ROOM_FULL are not covered: handleJoin returns without a list after it has told the old
\* channel that the session left.
THEOREM NewsIsPutRight == Spec => []NewsThenList
<1>1. PresenceInv => NewsThenList
  BY DEF PresenceInv, ListsInv
<1>2. QED
  BY <1>1, PresenceAlways, PTL

\* Whoever was in Hub.clients when a change was made, and is kept, has a list that contains it
\* when the call that made it has returned: BroadcastAll looks recipients up after the snapshot.
\* It says nothing of the changes of a join that ended in ROOM_FULL, which sends no list.
THEOREM ListsReachAll == Spec => []ListsReachEverybody
<1>1. PresenceInv => ListsReachEverybody
  BY DEF PresenceInv, ListsInv
<1>2. QED
  BY <1>1, PresenceAlways, PTL

\* What the others are told about a session (joined, left, renamed) reaches each of them in the
\* order it happened, unless a sender has found the session too slow: its handlers and its
\* removal tell one after the other.
THEOREM PeersComeInOrder == Spec => []PeersInOrder
<1>1. PresenceInv => PeersInOrder
  BY DEF PresenceInv, OrderInv
<1>2. QED
  BY <1>1, PresenceAlways, PTL
=============================================================================
