------------------------------ MODULE IpcProofs ------------------------------
(***************************************************************************)
(* For any threads, processes, endpoints and limits, as long as one thread *)
(* only yields: the raw pointers between channels are mutual and lead to   *)
(* live endpoints, a thread is Blocked exactly while it is registered as a *)
(* waiter, a reader and a writer never both wait, and every endpoint has   *)
(* one owner.                                                              *)
(***************************************************************************)
EXTENDS Ipc, NumberFacts, FiniteSetTheorems, SequenceTheorems, TLAPS

(* The parts of the invariant take the state they speak of as parameters,  *)
(* since a call goes through several endpoints and tables on its way.      *)

Sides == {"send", "recv"}

\* The waiters on one side of an endpoint.
Queue(ch, e, side) == IF side = "send" THEN ch[e].send ELSE ch[e].recv

\* The types of endpoints; no side has more waiters than there are slots.
ChanType(ch) ==
  /\ ch \in [Endpoints -> Endpoint]
  /\ \A e \in Endpoints, side \in Sides : Len(Queue(ch, e, side)) <= MaxWaiters

\* An endpoint that does not exist has no peer and no waiters.
Empties(ch) ==
  \A e \in Endpoints : ch[e].state \in {"Unborn", "Freed"} =>
    ch[e].peer = None /\ ch[e].send = <<>> /\ ch[e].recv = <<>>

Linked(ch) ==
  \A e \in Endpoints : ch[e].peer # None =>
    /\ ch[e].peer # e /\ ch[ch[e].peer].peer = e
    /\ ch[e].state = "Open" /\ ch[ch[e].peer].state = "Open"

Meeting(ch) ==
  \A e \in Endpoints : ch[e].peer # None =>
    ch[e].recv = <<>> \/ ch[ch[e].peer].send = <<>>

Sound(ch) == ChanType(ch) /\ Empties(ch) /\ Linked(ch) /\ Meeting(ch)

\* Thread t waits in place k on one side of endpoint e.
WaitsAt(ch, t, e, side, k) == k \in 1..Len(Queue(ch, e, side)) /\ Queue(ch, e, side)[k] = t

Waits(ch, t, side) == \E e \in Endpoints : \E k \in Nat : WaitsAt(ch, t, e, side, k)

\* Nobody waits in two places.
Once(ch) ==
  \A t \in Threads : \A e, f \in Endpoints : \A a, b \in Sides : \A k, l \in Nat :
    WaitsAt(ch, t, e, a, k) /\ WaitsAt(ch, t, f, b, l) => e = f /\ a = b /\ k = l

\* A thread with the state r[t] and the call tc[t] waits if and only if it is
\* Blocked, and on the right side.
Matched(ch, r, tc) ==
  \A t \in Threads :
    /\ r[t] = "Blocked" <=> \E side \in Sides : Waits(ch, t, side)
    /\ Waits(ch, t, "recv") => tc[t].call = "read"
    /\ Waits(ch, t, "send") => tc[t].call \in {"write", "lookup"}

\* The owners of endpoints: tables and stashes.
Holders == ({"table"} \X Procs) \cup ({"stash"} \X Threads)

Holds(tab, tc, h, e) == IF h[1] = "table" THEN e \in tab[h[2]] ELSE e \in tc[h[2]].stash

Alive(ch, e) == ch[e].state \in {"Open", "Closed"}

\* What exists has one owner, and what does not exist none.
OwnedOnce(ch, tab, tc) ==
  \A e \in Endpoints :
    /\ Alive(ch, e) <=> \E h \in Holders : Holds(tab, tc, h, e)
    /\ \A g, h \in Holders : Holds(tab, tc, g, e) /\ Holds(tab, tc, h, e) => g = h

Tables(tab) ==
  tab \in [Procs -> SUBSET Endpoints] /\ \A p \in Procs : Cardinality(tab[p]) <= MaxHandles

\* One thread is Running, and the Ready ones are those in the queues.  The
\* threads that only yield are never anything else.
CpuSound(r, q, c) ==
  /\ r \in [Threads -> {"Ready", "Running", "Blocked", "Dead"}]
  /\ c \in Threads
  /\ \A t \in Threads : r[t] = "Running" <=> t = c
  /\ q = {t \in Threads : r[t] = "Ready"}
  /\ \A t \in Idlers : r[t] \in {"Ready", "Running"}

\* All of the above, with ch and tab in the place of chan and table.
Core(ch, tab) ==
  /\ CpuSound(run, ready, cpu) /\ kernel \in {"running", "corrupt"}
  /\ Sound(ch) /\ Once(ch) /\ Matched(ch, run, tcb)
  /\ Tables(tab) /\ OwnedOnce(ch, tab, tcb)
  /\ tcb \in [Threads -> Tcb]

\* The inductive invariant.
IpcInv == Core(chan, table) /\ services \in [Names -> Endpoints \cup {None}]

-----------------------------------------------------------------------------
(* Endpoints and their waiters. *)

\* The fields of an endpoint.
LEMMA ChanFields ==
  ASSUME NEW ch, ChanType(ch), NEW e \in Endpoints
  PROVE  /\ ch[e] \in Endpoint
         /\ ch[e].state \in {"Unborn", "Open", "Closed", "Freed"}
         /\ ch[e].peer \in Endpoints \cup {None}
         /\ ch[e].send \in Seq(Threads) /\ ch[e].recv \in Seq(Threads)
         /\ Len(ch[e].send) <= MaxWaiters /\ Len(ch[e].recv) <= MaxWaiters
         /\ Queue(ch, e, "send") = ch[e].send /\ Queue(ch, e, "recv") = ch[e].recv
         /\ \A side \in Sides : Queue(ch, e, side) \in Seq(Threads)
<1>1. ch[e] \in Endpoint
  BY DEF ChanType
<1>2. Queue(ch, e, "send") = ch[e].send /\ Queue(ch, e, "recv") = ch[e].recv
  BY DEF Queue
<1>3. Len(Queue(ch, e, "send")) <= MaxWaiters /\ Len(Queue(ch, e, "recv")) <= MaxWaiters
  BY DEF ChanType, Sides
<1> QED BY <1>1, <1>2, <1>3 DEF Endpoint, Sides

\* A new endpoint.
LEMMA NewIs ==
  ASSUME NEW st \in {"Unborn", "Open", "Closed", "Freed"}, NEW q \in Endpoints \cup {None}
  PROVE  /\ NewEndpoint(st, q) \in Endpoint
         /\ NewEndpoint(st, q).state = st /\ NewEndpoint(st, q).peer = q
         /\ NewEndpoint(st, q).send = <<>> /\ NewEndpoint(st, q).recv = <<>>
<1>1. <<>> \in Seq(Threads)
  OBVIOUS
<1> QED BY <1>1 DEF NewEndpoint, Endpoint

\* A channel state is well-formed when each endpoint is; an endpoint without
\* waiters is short enough.
LEMMA ChanTypeIs ==
  ASSUME NEW ch, ch = [e \in Endpoints |-> ch[e]],
         \A e \in Endpoints : /\ ch[e] \in Endpoint
                              /\ Len(ch[e].send) <= MaxWaiters /\ Len(ch[e].recv) <= MaxWaiters
  PROVE  ChanType(ch)
  BY DEF ChanType, Queue, Sides

\* The endpoints that dropping D reaches.
LEMMA TouchedIs ==
  ASSUME NEW ch, Sound(ch), NEW D \in SUBSET Endpoints, NEW e \in Endpoints
  PROVE  /\ e \in Touched(ch, D) <=> e \in D \/ (ch[e].peer # None /\ ch[e].peer \in D)
         /\ Touched(ch, D) \subseteq Endpoints
<1>1. \A f \in Endpoints : ch[f].peer \in Endpoints \cup {None}
  BY ChanFields DEF Sound
<1>2. \A f \in Endpoints : ch[f].peer # None => ch[ch[f].peer].peer = f
  BY DEF Sound, Linked
<1>3. Touched(ch, D) \subseteq Endpoints
  BY <1>1 DEF Touched
<1>4. ASSUME e \notin D, e \in Touched(ch, D)
      PROVE  ch[e].peer # None /\ ch[e].peer \in D
  <2>1. PICK f \in D : e = ch[f].peer /\ ch[f].peer # None
    BY <1>4, NoEndpointAssumption DEF Touched
  <2>2. ch[e].peer = f
    BY <1>2, <2>1
  <2> QED BY <2>1, <2>2, NoEndpointAssumption
<1>5. ASSUME ch[e].peer # None, ch[e].peer \in D
      PROVE  e \in Touched(ch, D)
  <2>1. ch[ch[e].peer].peer = e
    BY <1>2, <1>5
  <2>2. e \in {ch[f].peer : f \in D} \ {None}
    BY <1>5, <2>1, NoEndpointAssumption
  <2> QED BY <2>2 DEF Touched
<1>6. e \in D => e \in Touched(ch, D)
  BY DEF Touched
<1> QED BY <1>3, <1>4, <1>5, <1>6

\* Dropping endpoints leaves no pointer to them.
LEMMA DropSound ==
  ASSUME NEW ch, Sound(ch), NEW D \in SUBSET Endpoints,
         \A e \in D : Alive(ch, e)
  PROVE  /\ Sound(Drop(ch, D))
         /\ \A e \in Endpoints :
              /\ Alive(Drop(ch, D), e) <=> Alive(ch, e) /\ e \notin D
              /\ Drop(ch, D)[e].peer = (IF e \in Touched(ch, D) THEN None ELSE ch[e].peer)
              /\ e \notin Touched(ch, D) => Drop(ch, D)[e] = ch[e]
              /\ \A side \in Sides :
                   Queue(Drop(ch, D), e, side) =
                     IF e \in Touched(ch, D) THEN <<>> ELSE Queue(ch, e, side)
<1> DEFINE cd == Drop(ch, D)
<1>1. ASSUME NEW e \in Endpoints
      PROVE  /\ e \in D => cd[e] = NewEndpoint("Freed", None)
             /\ e \notin D /\ e \in Touched(ch, D) => cd[e] = NewEndpoint("Closed", None)
             /\ e \notin D /\ e \notin Touched(ch, D) => cd[e] = ch[e]
  BY DEF Drop
<1>2. cd = [e \in Endpoints |-> cd[e]]
  BY DEF Drop
<1> HIDE DEF cd
<1>3. ChanType(ch)
  BY DEF Sound
<1>4. ASSUME NEW e \in Endpoints
      PROVE  /\ cd[e] \in Endpoint
             /\ e \in Touched(ch, D) => cd[e].peer = None /\ cd[e].send = <<>> /\ cd[e].recv = <<>>
             /\ e \notin Touched(ch, D) => cd[e] = ch[e] /\ e \notin D
             /\ e \in D => cd[e].state = "Freed"
             /\ e \in Touched(ch, D) /\ e \notin D => cd[e].state = "Closed"
             /\ e \in D => e \in Touched(ch, D)
  <2>1. ch[e] \in Endpoint
    BY <1>3, ChanFields
  <2>2. e \in D => e \in Touched(ch, D)
    BY DEF Touched
  <2> QED BY <1>1, <2>1, <2>2, NewIs
<1>5. \A e \in Endpoints : Len(cd[e].send) <= MaxWaiters /\ Len(cd[e].recv) <= MaxWaiters
  <2>1. \A e \in Endpoints : Len(ch[e].send) <= MaxWaiters /\ Len(ch[e].recv) <= MaxWaiters
    BY <1>3, ChanFields
  <2>2. 0 <= MaxWaiters /\ Len(<<>>) = 0
    BY IpcBoundsAssumption
  <2> QED BY <1>4, <2>1, <2>2
<1>6. ChanType(cd)
  BY <1>2, <1>4, <1>5, ChanTypeIs
<1>7. Empties(cd)
  <2>1. Empties(ch)
    BY DEF Sound
  <2> QED BY <1>4, <2>1 DEF Empties
<1>8. ASSUME NEW e \in Endpoints, cd[e].peer # None
      PROVE  /\ cd[e] = ch[e] /\ ch[e].peer \in Endpoints
             /\ cd[ch[e].peer] = ch[ch[e].peer] /\ ch[ch[e].peer].peer = e /\ ch[e].peer # e
             /\ ch[e].state = "Open" /\ ch[ch[e].peer].state = "Open"
  <2>1. e \notin Touched(ch, D) /\ cd[e] = ch[e] /\ ch[e].peer # None
    BY <1>4, <1>8
  <2>2. ch[e].peer \in Endpoints
    BY <1>3, <2>1, ChanFields
  <2>3. /\ ch[ch[e].peer].peer = e /\ ch[e].peer # e
        /\ ch[e].state = "Open" /\ ch[ch[e].peer].state = "Open"
    BY <2>1 DEF Sound, Linked
  <2>4. ch[e].peer \notin Touched(ch, D)
    <3>1. e \notin D /\ ch[e].peer \notin D
      BY <2>1, TouchedIs
    <3> QED BY <2>2, <2>3, <3>1, TouchedIs
  <2> QED BY <1>4, <2>1, <2>2, <2>3, <2>4
<1>9. Linked(cd)
  BY <1>8 DEF Linked
<1>10. Meeting(cd)
  <2>1. \A e \in Endpoints : ch[e].peer # None => ch[e].recv = <<>> \/ ch[ch[e].peer].send = <<>>
    BY DEF Sound, Meeting
  <2> QED BY <1>8, <2>1 DEF Meeting
<1>11. ASSUME NEW e \in Endpoints
       PROVE  Alive(cd, e) <=> Alive(ch, e) /\ e \notin D
  <2>1. CASE e \in D
    BY <1>4, <2>1 DEF Alive
  <2>2. CASE e \notin D /\ e \in Touched(ch, D)
    <3>1. ch[e].peer # None
      BY <2>2, TouchedIs
    <3>2. ch[e].state = "Open"
      BY <3>1 DEF Sound, Linked
    <3> QED BY <1>4, <2>2, <3>2 DEF Alive
  <2>3. CASE e \notin Touched(ch, D)
    BY <1>4, <2>3 DEF Alive
  <2> QED BY <2>1, <2>2, <2>3
<1>12. \A e \in Endpoints, side \in Sides :
         Queue(cd, e, side) = IF e \in Touched(ch, D) THEN <<>> ELSE Queue(ch, e, side)
  BY <1>4 DEF Queue
<1> QED BY <1>4, <1>6, <1>7, <1>9, <1>10, <1>11, <1>12 DEF Sound, cd

\* The waiters of an endpoint.
LEMMA WaitersAre ==
  ASSUME NEW ch, ChanType(ch), NEW e \in Endpoints, NEW t
  PROVE  t \in Waiters(ch, e) <=> \E side \in Sides : \E k \in Nat : WaitsAt(ch, t, e, side, k)
<1>1. /\ ch[e].send \in Seq(Threads) /\ ch[e].recv \in Seq(Threads)
      /\ Queue(ch, e, "send") = ch[e].send /\ Queue(ch, e, "recv") = ch[e].recv
  BY ChanFields
<1>2. t \in ToSet(ch[e].send) <=> \E k \in Nat : WaitsAt(ch, t, e, "send", k)
  BY <1>1 DEF ToSet, WaitsAt
<1>3. t \in ToSet(ch[e].recv) <=> \E k \in Nat : WaitsAt(ch, t, e, "recv", k)
  BY <1>1 DEF ToSet, WaitsAt
<1> QED BY <1>2, <1>3 DEF Waiters, Sides

\* The waiters of some endpoints are forgotten.
LEMMA ClearPlaces ==
  ASSUME NEW ch, ChanType(ch), Once(ch), NEW T \in SUBSET Endpoints,
         NEW cd, \A e \in Endpoints, side \in Sides :
                   Queue(cd, e, side) = IF e \in T THEN <<>> ELSE Queue(ch, e, side)
  PROVE  /\ Once(cd)
         /\ \A t \in Threads, side \in Sides :
              Waits(cd, t, side) <=> Waits(ch, t, side) /\ t \notin UNION {Waiters(ch, e) : e \in T}
<1>1. ASSUME NEW t, NEW e \in Endpoints, NEW side \in Sides, NEW k \in Nat
      PROVE  WaitsAt(cd, t, e, side, k) <=> WaitsAt(ch, t, e, side, k) /\ e \notin T
  <2>1. CASE e \in T
    <3>1. Len(<<>>) = 0 /\ Queue(cd, e, side) = <<>>
      BY <2>1
    <3> QED BY <2>1, <3>1 DEF WaitsAt
  <2>2. CASE e \notin T
    BY <2>2 DEF WaitsAt
  <2> QED BY <2>1, <2>2
<1>2. Once(cd)
  BY <1>1 DEF Once
<1>3. ASSUME NEW t \in Threads, NEW side \in Sides
      PROVE  Waits(cd, t, side) <=> Waits(ch, t, side) /\ t \notin UNION {Waiters(ch, e) : e \in T}
  <2>1. t \in UNION {Waiters(ch, e) : e \in T}
          <=> \E e \in T : \E s \in Sides : \E k \in Nat : WaitsAt(ch, t, e, s, k)
    BY WaitersAre
  <2>2. ASSUME NEW e \in Endpoints, NEW k \in Nat, WaitsAt(ch, t, e, side, k)
        PROVE  t \in UNION {Waiters(ch, f) : f \in T} <=> e \in T
    BY <2>1, <2>2 DEF Once
  <2> QED BY <1>1, <2>2 DEF Waits
<1> QED BY <1>2, <1>3

\* cd is ch without the first waiter on the side a of f, and with w behind
\* the last one.
Popped(cd, ch, f, a) ==
  \A e \in Endpoints, side \in Sides :
    Queue(cd, e, side) = IF e = f /\ side = a THEN Tail(Queue(ch, f, a)) ELSE Queue(ch, e, side)

Added(cd, ch, f, a, w) ==
  \A e \in Endpoints, side \in Sides :
    Queue(cd, e, side) = IF e = f /\ side = a THEN Append(Queue(ch, f, a), w) ELSE Queue(ch, e, side)

\* The first waiter of a side is taken off.
LEMMA PopPlaces ==
  ASSUME NEW ch, ChanType(ch), Once(ch), NEW f \in Endpoints, NEW a \in Sides,
         Queue(ch, f, a) # <<>>,
         NEW cd, Popped(cd, ch, f, a)
  PROVE  /\ Head(Queue(ch, f, a)) \in Threads /\ Waits(ch, Head(Queue(ch, f, a)), a)
         /\ Once(cd)
         /\ \A t \in Threads, side \in Sides :
              Waits(cd, t, side) <=> Waits(ch, t, side) /\ t # Head(Queue(ch, f, a))
<1> DEFINE q == Queue(ch, f, a)
           h == Head(q)
<1>1. /\ q \in Seq(Threads) /\ q # <<>> /\ h \in Threads /\ h = q[1] /\ Len(q) \in Nat \ {0}
      /\ Tail(q) \in Seq(Threads) /\ Len(Tail(q)) = Len(q) - 1
      /\ \A k \in 1..Len(Tail(q)) : Tail(q)[k] = q[k + 1]
  <2>1. q \in Seq(Threads)
    BY ChanFields
  <2> HIDE DEF q
  <2>2. Len(q) \in Nat \ {0}
    BY <2>1 DEF q
  <2> QED BY <2>1, <2>2, HeadTailProperties DEF q
<1>2. WaitsAt(ch, h, f, a, 1)
  BY <1>1 DEF WaitsAt
<1>3. ASSUME NEW t, NEW e \in Endpoints, NEW side \in Sides, NEW k \in Nat
      PROVE  WaitsAt(cd, t, e, side, k) <=> IF e = f /\ side = a THEN k > 0 /\ WaitsAt(ch, t, e, side, k + 1)
                                            ELSE WaitsAt(ch, t, e, side, k)
  <2>1. CASE e = f /\ side = a
    <3>1. Queue(cd, e, side) = Tail(q) /\ Queue(ch, e, side) = q
      BY <2>1 DEF Popped
    <3> HIDE DEF q
    <3> QED BY <1>1, <2>1, <3>1 DEF WaitsAt
  <2>2. CASE ~(e = f /\ side = a)
    BY <2>2 DEF WaitsAt, Popped
  <2> QED BY <2>1, <2>2
<1> HIDE DEF h, q
<1>4. Once(cd)
  <2> SUFFICES ASSUME NEW t \in Threads, NEW e \in Endpoints, NEW g \in Endpoints,
                      NEW b \in Sides, NEW c \in Sides, NEW k \in Nat, NEW l \in Nat,
                      WaitsAt(cd, t, e, b, k), WaitsAt(cd, t, g, c, l)
               PROVE  e = g /\ b = c /\ k = l
    BY DEF Once
  <2> DEFINE kk == IF e = f /\ b = a THEN k + 1 ELSE k
             ll == IF g = f /\ c = a THEN l + 1 ELSE l
  <2>1. WaitsAt(ch, t, e, b, kk) /\ WaitsAt(ch, t, g, c, ll) /\ kk \in Nat /\ ll \in Nat
    BY <1>3
  <2>2. e = g /\ b = c /\ kk = ll
    <3> HIDE DEF kk, ll
    <3> QED BY <2>1 DEF Once
  <2> QED BY <2>2
<1>5. ASSUME NEW t \in Threads, NEW side \in Sides, Waits(cd, t, side)
      PROVE  Waits(ch, t, side) /\ t # h
  <2>1. PICK e \in Endpoints : \E k \in Nat : WaitsAt(cd, t, e, side, k)
    BY <1>5 DEF Waits
  <2>2. PICK k \in Nat : WaitsAt(cd, t, e, side, k)
    BY <2>1
  <2> DEFINE kk == IF e = f /\ side = a THEN k + 1 ELSE k
  <2>3. WaitsAt(ch, t, e, side, kk) /\ kk \in Nat
    BY <1>3, <2>2
  <2>4. t = h => e = f /\ side = a /\ kk = 1
    <3> HIDE DEF kk
    <3> QED BY <1>2, <2>3 DEF Once
  <2>5. t # h
    <3>1. e = f /\ side = a => k > 0
      BY <1>3, <2>2
    <3> QED BY <2>4, <3>1
  <2> HIDE DEF kk
  <2> QED BY <2>3, <2>5 DEF Waits
<1>6. ASSUME NEW t \in Threads, NEW side \in Sides, Waits(ch, t, side), t # h
      PROVE  Waits(cd, t, side)
  <2>1. PICK e \in Endpoints : \E k \in Nat : WaitsAt(ch, t, e, side, k)
    BY <1>6 DEF Waits
  <2>2. PICK k \in Nat : WaitsAt(ch, t, e, side, k)
    BY <2>1
  <2>3. CASE e = f /\ side = a
    <3>1. k # 1 /\ k # 0
      BY <1>1, <1>6, <2>2, <2>3 DEF WaitsAt, q
    <3> DEFINE j == k - 1
    <3>2. j \in Nat /\ j > 0 /\ j + 1 = k
      BY <3>1
    <3>3. WaitsAt(ch, t, e, side, j + 1)
      BY <2>2, <3>2
    <3> HIDE DEF j
    <3>4. WaitsAt(cd, t, e, side, j)
      BY <1>3, <2>3, <3>2, <3>3
    <3> QED BY <3>2, <3>4 DEF Waits
  <2>4. CASE ~(e = f /\ side = a)
    <3>1. WaitsAt(cd, t, e, side, k)
      BY <1>3, <2>2, <2>4
    <3> QED BY <3>1 DEF Waits
  <2> QED BY <2>3, <2>4
<1>7. Waits(ch, h, a)
  BY <1>2 DEF Waits
<1> QED BY <1>1, <1>4, <1>5, <1>6, <1>7 DEF h, q

\* A thread that waits nowhere is added to a side.
LEMMA AppendPlaces ==
  ASSUME NEW ch, ChanType(ch), Once(ch), NEW f \in Endpoints, NEW a \in Sides,
         NEW w \in Threads, \A side \in Sides : ~Waits(ch, w, side),
         NEW cd, Added(cd, ch, f, a, w)
  PROVE  /\ Once(cd)
         /\ \A t \in Threads, side \in Sides :
              Waits(cd, t, side) <=> Waits(ch, t, side) \/ (t = w /\ side = a)
<1> DEFINE q == Queue(ch, f, a)
           m == Len(q) + 1
<1>1. /\ q \in Seq(Threads) /\ m \in Nat /\ m > 0
      /\ Len(Append(q, w)) = m /\ Append(q, w)[m] = w
      /\ \A k \in 1..Len(q) : Append(q, w)[k] = q[k]
  <2>1. q \in Seq(Threads)
    BY ChanFields
  <2> HIDE DEF q
  <2> QED BY <2>1, AppendProperties
<1>2. ASSUME NEW t, NEW e \in Endpoints, NEW side \in Sides, NEW k \in Nat
      PROVE  WaitsAt(cd, t, e, side, k) <=> \/ WaitsAt(ch, t, e, side, k)
                                            \/ e = f /\ side = a /\ k = m /\ t = w
  <2>1. CASE e = f /\ side = a
    <3>1. Queue(cd, e, side) = Append(q, w) /\ Queue(ch, e, side) = q
      BY <2>1 DEF Added
    <3>2. Len(q) \in Nat
      BY <1>1
    <3> HIDE DEF q
    <3> QED BY <1>1, <2>1, <3>1, <3>2 DEF WaitsAt
  <2>2. CASE ~(e = f /\ side = a)
    BY <2>2 DEF WaitsAt, Added
  <2> QED BY <2>1, <2>2
<1> HIDE DEF q, m
<1>3. \A e \in Endpoints : \A side \in Sides : \A k \in Nat : ~WaitsAt(ch, w, e, side, k)
  BY DEF Waits
<1>4. Once(cd)
  BY <1>2, <1>3 DEF Once
<1>5. ASSUME NEW t \in Threads, NEW side \in Sides
      PROVE  Waits(cd, t, side) <=> Waits(ch, t, side) \/ (t = w /\ side = a)
  BY <1>1, <1>2 DEF Waits
<1> QED BY <1>4, <1>5

-----------------------------------------------------------------------------
(* One moment and the next. *)

\* From ch to cd the threads of W cease to wait; from r to s they cease to be
\* Blocked; and w begins to wait on the side a, and becomes Blocked.
Quit(cd, ch, W) ==
  \A t \in Threads, side \in Sides : Waits(cd, t, side) <=> Waits(ch, t, side) /\ t \notin W
Woken(s, r, W) ==
  \A t \in Threads : s[t] = "Blocked" <=> r[t] = "Blocked" /\ t \notin W
Joined(cd, ch, w, a) ==
  \A t \in Threads, side \in Sides : Waits(cd, t, side) <=> Waits(ch, t, side) \/ (t = w /\ side = a)
Stopped(s, r, w) ==
  \A t \in Threads : s[t] = "Blocked" <=> r[t] = "Blocked" \/ t = w

\* The calls of all threads but those of T are the same.
SameCalls(td, tc, T) == \A t \in Threads : t \notin T => td[t].call = tc[t].call

-----------------------------------------------------------------------------
(* The CPU. *)

\* What waking S does.
LEMMA WakeIs ==
  ASSUME NEW r \in [Threads -> {"Ready", "Running", "Blocked", "Dead"}], NEW q, NEW S \in SUBSET Threads
  PROVE  /\ WakeStates(r, S) \in [Threads -> {"Ready", "Running", "Blocked", "Dead"}]
         /\ \A t \in Threads : WakeStates(r, S)[t] = (IF t \in S /\ r[t] = "Blocked" THEN "Ready" ELSE r[t])
         /\ WakeQueue(r, q, S) = q \cup {t \in S : r[t] = "Blocked"}
<1>1. Sleepers(r, S) = {t \in S : r[t] = "Blocked"}
  BY DEF Sleepers, Asleep
<1> QED BY <1>1 DEF WakeStates, WakeQueue

\* The caller wakes S and goes on.
LEMMA NotifySound ==
  ASSUME CpuSound(run, ready, cpu), NEW S \in SUBSET Threads, Notify(S)
  PROVE  /\ CpuSound(run', ready', cpu') /\ kernel' = kernel /\ cpu' = cpu
         /\ Woken(run', run, S)
<1>1. /\ run \in [Threads -> {"Ready", "Running", "Blocked", "Dead"}]
      /\ cpu \in Threads
      /\ \A t \in Threads : run[t] = "Running" <=> t = cpu
      /\ ready = {t \in Threads : run[t] = "Ready"}
      /\ \A t \in Idlers : run[t] \in {"Ready", "Running"}
  BY DEF CpuSound
<1>2. /\ run' \in [Threads -> {"Ready", "Running", "Blocked", "Dead"}]
      /\ \A t \in Threads : run'[t] = IF t \in S /\ run[t] = "Blocked" THEN "Ready" ELSE run[t]
      /\ ready' = ready \cup {t \in S : run[t] = "Blocked"}
      /\ cpu' = cpu /\ kernel' = kernel
  BY <1>1, WakeIs DEF Notify
<1>3. ready' = {t \in Threads : run'[t] = "Ready"}
  BY <1>1, <1>2
<1>4. \A t \in Idlers : run'[t] \in {"Ready", "Running"}
  BY <1>1, <1>2, ProcAssumption
<1> QED BY <1>1, <1>2, <1>3, <1>4 DEF CpuSound, Woken

\* schedule(): somebody else is queued, or the caller still runs.  Then a
\* queued thread gets the CPU, and none that waits.
LEMMA SwitchSound ==
  ASSUME cpu \in Threads, NEW r \in [Threads -> {"Ready", "Running", "Blocked", "Dead"}],
         \A t \in Threads : r[t] = "Running" => t = cpu, r[cpu] # "Ready",
         NEW q, q = {t \in Threads : r[t] = "Ready"},
         \A t \in Idlers : r[t] \in {"Ready", "Running"},
         Switch(r, q)
  PROVE  /\ CpuSound(run', ready', cpu') /\ kernel' = kernel
         /\ \A t \in Threads : run'[t] = "Blocked" <=> r[t] = "Blocked"
<1> DEFINE off == [i \in Threads |-> IF i = cpu /\ r[i] = "Running" THEN "Ready" ELSE r[i]]
           waiting == IF off[cpu] = "Ready" THEN q \cup {cpu} ELSE q
           alive == {i \in Threads : off[i] \notin {"Empty", "Dead"}}
<1>1. /\ off \in [Threads -> {"Ready", "Running", "Blocked", "Dead"}]
      /\ \A t \in Threads : off[t] = IF t = cpu /\ r[t] = "Running" THEN "Ready" ELSE r[t]
  OBVIOUS
<1>2. waiting = {t \in Threads : off[t] = "Ready"}
  <2> HIDE DEF off
  <2> QED BY <1>1
<1>3. \A t \in Threads : off[t] # "Running"
  <2> HIDE DEF off
  <2> QED BY <1>1
<1>4. PICK idler \in Idlers : idler \in Threads
  BY ProcAssumption
<1>5. off[idler] = "Ready"
  <2> HIDE DEF off
  <2> QED BY <1>1, <1>3, <1>4
<1>6. waiting # {}
  <2> HIDE DEF off, waiting
  <2> QED BY <1>2, <1>4, <1>5
<1>7. PICK i \in waiting : /\ run' = [off EXCEPT ![i] = "Running"]
                           /\ ready' = waiting \ {i}
                           /\ cpu' = i /\ kernel' = kernel
  <2>1. \/ \E i \in (IF waiting # {} THEN waiting ELSE alive) :
             /\ run' = [off EXCEPT ![i] = "Running"]
             /\ ready' = waiting \ {i}
             /\ cpu' = i
             /\ UNCHANGED kernel
        \/ waiting \cup alive = {}
    BY DEF Switch
  <2> HIDE DEF off, waiting, alive
  <2> QED BY <1>6, <2>1
<1> HIDE DEF off, waiting, alive
<1>8. /\ i \in Threads /\ off[i] = "Ready"
      /\ run' \in [Threads -> {"Ready", "Running", "Blocked", "Dead"}]
      /\ \A t \in Threads : run'[t] = IF t = i THEN "Running" ELSE off[t]
  BY <1>1, <1>2, <1>7
<1>9. \A t \in Threads : run'[t] = "Running" <=> t = cpu'
  BY <1>3, <1>7, <1>8
<1>10. ready' = {t \in Threads : run'[t] = "Ready"}
  BY <1>2, <1>7, <1>8
<1>11. \A t \in Idlers : run'[t] \in {"Ready", "Running"}
  BY <1>1, <1>8, ProcAssumption
<1>12. \A t \in Threads : run'[t] = "Blocked" <=> r[t] = "Blocked"
  BY <1>1, <1>8
<1> QED BY <1>7, <1>8, <1>9, <1>10, <1>11, <1>12 DEF CpuSound

\* The caller wakes S, blocks and gives the CPU up.
LEMMA SuspendSound ==
  ASSUME CpuSound(run, ready, cpu), cpu \notin Idlers, NEW S \in SUBSET Threads, cpu \notin S, Suspend(S)
  PROVE  /\ CpuSound(run', ready', cpu') /\ kernel' = kernel
         /\ \A t \in Threads : run'[t] = "Blocked" <=> t = cpu \/ (run[t] = "Blocked" /\ t \notin S)
<1>1. /\ run \in [Threads -> {"Ready", "Running", "Blocked", "Dead"}]
      /\ cpu \in Threads
      /\ \A t \in Threads : run[t] = "Running" <=> t = cpu
      /\ ready = {t \in Threads : run[t] = "Ready"}
      /\ \A t \in Idlers : run[t] \in {"Ready", "Running"}
  BY DEF CpuSound
<1> DEFINE off == [run EXCEPT ![cpu] = "Blocked"]
           r == WakeStates(off, S)
           q == WakeQueue(off, ready, S)
<1>2. /\ off \in [Threads -> {"Ready", "Running", "Blocked", "Dead"}]
      /\ \A t \in Threads : off[t] = IF t = cpu THEN "Blocked" ELSE run[t]
  BY <1>1
<1>3. Switch(r, q)
  BY DEF Suspend
<1> HIDE DEF off
<1>4. /\ r \in [Threads -> {"Ready", "Running", "Blocked", "Dead"}]
      /\ \A t \in Threads : r[t] = IF t \in S /\ off[t] = "Blocked" THEN "Ready" ELSE off[t]
      /\ q = ready \cup {t \in S : off[t] = "Blocked"}
  <2>1. Sleepers(off, S) = {t \in S : off[t] = "Blocked"}
    BY <1>2 DEF Sleepers, Asleep
  <2>2. q = ready \cup {t \in S : off[t] = "Blocked"}
    BY <2>1 DEF WakeQueue
  <2>3. r = [t \in Threads |-> IF t \in {u \in S : off[u] = "Blocked"} THEN "Ready" ELSE off[t]]
    BY <2>1 DEF WakeStates
  <2> HIDE DEF r, q
  <2> QED BY <1>2, <2>2, <2>3
<1> HIDE DEF r, q
<1>5. /\ \A t \in Threads : r[t] = "Running" => t = cpu
      /\ r[cpu] # "Ready"
      /\ q = {t \in Threads : r[t] = "Ready"}
  BY <1>1, <1>2, <1>4
<1>6. \A t \in Idlers : r[t] \in {"Ready", "Running"}
  BY <1>1, <1>2, <1>4, ProcAssumption
<1>7. /\ CpuSound(run', ready', cpu') /\ kernel' = kernel
      /\ \A t \in Threads : run'[t] = "Blocked" <=> r[t] = "Blocked"
  BY <1>1, <1>3, <1>4, <1>5, <1>6, SwitchSound
<1> QED BY <1>1, <1>2, <1>4, <1>7

-----------------------------------------------------------------------------
(* Waiting and owning, from one moment to the next. *)

\* The threads of W no longer wait and are no longer Blocked.
LEMMA ReleaseMatched ==
  ASSUME NEW ch, NEW r, NEW tc, Matched(ch, r, tc),
         NEW cd, NEW s, NEW td, NEW W, Quit(cd, ch, W), Woken(s, r, W), SameCalls(td, tc, {})
  PROVE  Matched(cd, s, td)
<1>1. "send" \in Sides /\ "recv" \in Sides
  BY DEF Sides
<1>2. ASSUME NEW t \in Threads
      PROVE  /\ s[t] = "Blocked" <=> \E side \in Sides : Waits(cd, t, side)
             /\ Waits(cd, t, "recv") => td[t].call = "read"
             /\ Waits(cd, t, "send") => td[t].call \in {"write", "lookup"}
  BY <1>1 DEF Matched, Quit, Woken, SameCalls
<1> QED BY <1>2 DEF Matched

\* The thread w, which does not wait, begins to wait.
LEMMA BlockMatched ==
  ASSUME NEW ch, NEW r, NEW tc, Matched(ch, r, tc), NEW w \in Threads, NEW a \in Sides,
         NEW cd, NEW s, NEW td, Joined(cd, ch, w, a), Stopped(s, r, w), SameCalls(td, tc, {w}),
         \A side \in Sides : ~Waits(ch, w, side),
         a = "recv" => td[w].call = "read",
         a = "send" => td[w].call \in {"write", "lookup"}
  PROVE  Matched(cd, s, td)
<1>1. "send" \in Sides /\ "recv" \in Sides
  BY DEF Sides
<1>2. ASSUME NEW t \in Threads
      PROVE  /\ s[t] = "Blocked" <=> \E side \in Sides : Waits(cd, t, side)
             /\ Waits(cd, t, "recv") => td[t].call = "read"
             /\ Waits(cd, t, "send") => td[t].call \in {"write", "lookup"}
  BY <1>1 DEF Matched, Joined, Stopped, SameCalls
<1> QED BY <1>2 DEF Matched

\* From tab and tc to ub and ud the endpoints of S change hands: d gets those
\* of K, and the others have no owner any more, as they are dropped in cd.
Moved(ub, ud, tab, tc, S, d, K) ==
  \A h \in Holders, e \in Endpoints :
    Holds(ub, ud, h, e) <=> \/ Holds(tab, tc, h, e) /\ e \notin S
                            \/ h = d /\ e \in K
Dropped(cd, ch, D) == \A e \in Endpoints : Alive(cd, e) <=> Alive(ch, e) /\ e \notin D

\* One holder had them all.
LEMMA MoveOwned ==
  ASSUME NEW ch, NEW tab, NEW tc, OwnedOnce(ch, tab, tc),
         NEW cd, NEW ub, NEW ud, NEW S \in SUBSET Endpoints, NEW K \in SUBSET S,
         NEW c \in Holders, \A e \in S : Holds(tab, tc, c, e),
         NEW d \in Holders,
         Dropped(cd, ch, S \ K), Moved(ub, ud, tab, tc, S, d, K)
  PROVE  OwnedOnce(cd, ub, ud)
<1>1. ASSUME NEW e \in Endpoints
      PROVE  /\ Alive(cd, e) <=> \E h \in Holders : Holds(ub, ud, h, e)
             /\ \A g, h \in Holders : Holds(ub, ud, g, e) /\ Holds(ub, ud, h, e) => g = h
  <2>1. /\ Alive(ch, e) <=> \E h \in Holders : Holds(tab, tc, h, e)
        /\ \A g, h \in Holders : Holds(tab, tc, g, e) /\ Holds(tab, tc, h, e) => g = h
    BY DEF OwnedOnce
  <2>2. /\ Alive(cd, e) <=> Alive(ch, e) /\ e \notin S \ K
        /\ \A h \in Holders : Holds(ub, ud, h, e) <=> \/ Holds(tab, tc, h, e) /\ e \notin S
                                                      \/ h = d /\ e \in K
    BY DEF Dropped, Moved
  <2>3. CASE e \in S
    BY <2>1, <2>2, <2>3
  <2>4. CASE e \notin S
    BY <2>1, <2>2, <2>4
  <2> QED BY <2>3, <2>4
<1> QED BY <1>1 DEF OwnedOnce

\* The endpoints of N come into being, in the hands of d.
Born(cd, ch, N) == \A e \in Endpoints : Alive(cd, e) <=> Alive(ch, e) \/ e \in N
Given(ub, tab, tc, d, N) ==
  \A h \in Holders, e \in Endpoints : Holds(ub, tc, h, e) <=> Holds(tab, tc, h, e) \/ (h = d /\ e \in N)

\* A new endpoint has one owner too.
LEMMA BearOwned ==
  ASSUME NEW ch, NEW tab, NEW tc, OwnedOnce(ch, tab, tc),
         NEW cd, NEW ub, NEW N \in SUBSET Endpoints, \A e \in N : ~Alive(ch, e),
         NEW d \in Holders, Born(cd, ch, N), Given(ub, tab, tc, d, N)
  PROVE  OwnedOnce(cd, ub, tc)
<1>1. ASSUME NEW e \in Endpoints
      PROVE  /\ Alive(cd, e) <=> \E h \in Holders : Holds(ub, tc, h, e)
             /\ \A g, h \in Holders : Holds(ub, tc, g, e) /\ Holds(ub, tc, h, e) => g = h
  <2>1. /\ Alive(ch, e) <=> \E h \in Holders : Holds(tab, tc, h, e)
        /\ \A g, h \in Holders : Holds(tab, tc, g, e) /\ Holds(tab, tc, h, e) => g = h
    BY DEF OwnedOnce
  <2> QED BY <2>1 DEF Born, Given
<1> QED BY <1>1 DEF OwnedOnce

\* Holders by kind.
LEMMA HoldersAre ==
  ASSUME NEW tab, NEW tc, NEW e
  PROVE  /\ \A p \in Procs : <<"table", p>> \in Holders /\ (Holds(tab, tc, <<"table", p>>, e) <=> e \in tab[p])
         /\ \A t \in Threads : <<"stash", t>> \in Holders /\ (Holds(tab, tc, <<"stash", t>>, e) <=> e \in tc[t].stash)
         /\ \A h \in Holders : \/ \E p \in Procs : h = <<"table", p>>
                               \/ \E t \in Threads : h = <<"stash", t>>
         /\ \A p \in Procs, t \in Threads : <<"table", p>> # <<"stash", t>>
  BY DEF Holders, Holds

\* Moved, table by table and stash by stash.
TablesMoved(ub, tab, S, d, K) ==
  \A p \in Procs, e \in Endpoints :
    e \in ub[p] <=> (e \in tab[p] /\ e \notin S) \/ (d = <<"table", p>> /\ e \in K)
StashesMoved(ud, tc, S, d, K) ==
  \A t \in Threads, e \in Endpoints :
    e \in ud[t].stash <=> (e \in tc[t].stash /\ e \notin S) \/ (d = <<"stash", t>> /\ e \in K)

\* Together they are Moved.
LEMMA MovedIs ==
  ASSUME NEW ub, NEW ud, NEW tab, NEW tc, NEW S, NEW K, NEW d \in Holders,
         TablesMoved(ub, tab, S, d, K), StashesMoved(ud, tc, S, d, K)
  PROVE  Moved(ub, ud, tab, tc, S, d, K)
<1> SUFFICES ASSUME NEW h \in Holders, NEW e \in Endpoints
             PROVE  Holds(ub, ud, h, e) <=> (Holds(tab, tc, h, e) /\ e \notin S) \/ (h = d /\ e \in K)
  BY DEF Moved
<1>1. CASE \E p \in Procs : h = <<"table", p>>
  <2>1. PICK p \in Procs : h = <<"table", p>>
    BY <1>1
  <2> QED BY <2>1, HoldersAre DEF TablesMoved
<1>2. CASE \E t \in Threads : h = <<"stash", t>>
  <2>1. PICK t \in Threads : h = <<"stash", t>>
    BY <1>2
  <2> QED BY <2>1, HoldersAre DEF StashesMoved
<1> QED BY <1>1, <1>2, HoldersAre

\* Sets of endpoints are finite, and so are tables that get a few more.
LEMMA AddFits ==
  ASSUME NEW T \in SUBSET Endpoints, NEW K \in SUBSET Endpoints
  PROVE  /\ IsFiniteSet(T) /\ Cardinality(T) \in Nat /\ Cardinality(T \cup K) \in Nat
         /\ Cardinality(T \cup K) <= Cardinality(T) + Cardinality(K)
         /\ Cardinality(T \ K) <= Cardinality(T)
<1>1. IsFiniteSet(Endpoints)
  <2>1. 1 \in Int /\ MaxEndpoints \in Int
    BY IpcBoundsAssumption
  <2> QED BY <2>1, FS_Interval DEF Endpoints
<1>2. /\ IsFiniteSet(T) /\ Cardinality(T) \in Nat
      /\ IsFiniteSet(K) /\ Cardinality(K) \in Nat
  BY <1>1, FS_Subset, FS_CardinalityType
<1>3. Cardinality(T \cup K) = Cardinality(T) + Cardinality(K) - Cardinality(T \cap K)
  BY <1>2, FS_Union
<1>4. Cardinality(T \cap K) \in Nat
  BY <1>2, FS_Intersection, FS_CardinalityType
<1>5. Cardinality(T \cup K) \in Nat
  BY <1>2, FS_Union, FS_CardinalityType
<1>6. Cardinality(T \ K) <= Cardinality(T)
  BY <1>2, FS_Subset
<1> QED BY <1>2, <1>3, <1>4, <1>5, <1>6

\* Handles that fit.
LEMMA FittingSound ==
  ASSUME NEW T \in SUBSET Endpoints, Cardinality(T) <= MaxHandles, NEW S \in SUBSET Endpoints,
         NEW K \in Fitting(S, MaxHandles - Cardinality(T))
  PROVE  K \in SUBSET S /\ Cardinality(T \cup K) <= MaxHandles
<1> DEFINE room == MaxHandles - Cardinality(T)
<1>1. K \in SUBSET S /\ Cardinality(K) = Min({room, Cardinality(S)})
  BY DEF Fitting, kSubset
<1>2. K \in SUBSET Endpoints
  BY <1>1
<1>3. /\ Cardinality(T) \in Nat /\ Cardinality(K) \in Nat /\ Cardinality(S) \in Nat
      /\ Cardinality(T \cup K) \in Nat /\ Cardinality(T \cup K) <= Cardinality(T) + Cardinality(K)
  BY <1>2, AddFits
<1>4. MaxHandles \in Nat /\ room \in Int
  BY <1>3, IpcBoundsAssumption
<1>5. Cardinality(K) <= room
  <2> HIDE DEF room
  <2>1. Min({room, Cardinality(S)}) = IF room <= Cardinality(S) THEN room ELSE Cardinality(S)
    BY <1>3, <1>4, MinMaxOfTwo
  <2> QED BY <1>1, <1>3, <1>4, <2>1
<1> QED BY <1>1, <1>3, <1>4, <1>5

-----------------------------------------------------------------------------
(* The steps of a call. *)

\* Fewer waiters on the same endpoints.
LEMMA ShrinkSound ==
  ASSUME NEW ch, Sound(ch), NEW cd, ChanType(cd),
         \A e \in Endpoints : /\ cd[e].state = ch[e].state /\ cd[e].peer = ch[e].peer
                              /\ ch[e].send = <<>> => cd[e].send = <<>>
                              /\ ch[e].recv = <<>> => cd[e].recv = <<>>
  PROVE  Sound(cd) /\ \A e \in Endpoints : Alive(cd, e) <=> Alive(ch, e)
<1>1. \A e \in Endpoints : ch[e].peer # None => ch[e].peer \in Endpoints
  BY ChanFields DEF Sound
<1>2. Empties(cd)
  BY DEF Sound, Empties
<1>3. Linked(cd)
  BY <1>1 DEF Sound, Linked
<1>4. Meeting(cd)
  BY <1>1 DEF Sound, Meeting
<1> QED BY <1>2, <1>3, <1>4 DEF Sound, Alive

\* A waiter w more on the side a of f, where nobody can meet it.
LEMMA AppendSound ==
  ASSUME NEW ch, Sound(ch), NEW f \in Endpoints, Alive(ch, f), NEW a \in Sides, NEW w \in Threads,
         Len(Queue(ch, f, a)) < MaxWaiters,
         ch[f].peer # None /\ a = "send" => ch[ch[f].peer].recv = <<>>,
         ch[f].peer # None /\ a = "recv" => ch[ch[f].peer].send = <<>>,
         NEW cd, cd \in [Endpoints -> Endpoint],
         \A e \in Endpoints : cd[e].state = ch[e].state /\ cd[e].peer = ch[e].peer,
         Added(cd, ch, f, a, w)
  PROVE  Sound(cd) /\ \A e \in Endpoints : Alive(cd, e) <=> Alive(ch, e)
<1>1. \A e \in Endpoints : ch[e].peer # None => ch[e].peer \in Endpoints
  BY ChanFields DEF Sound
<1>2. ASSUME NEW e \in Endpoints, NEW side \in Sides
      PROVE  Len(Queue(cd, e, side)) <= MaxWaiters
  <2>1. Queue(ch, e, side) \in Seq(Threads) /\ Queue(ch, f, a) \in Seq(Threads)
    BY ChanFields DEF Sound
  <2>2. Len(Append(Queue(ch, f, a), w)) = Len(Queue(ch, f, a)) + 1 /\ Len(Queue(ch, f, a)) \in Nat
    BY <2>1, AppendProperties
  <2>3. Len(Queue(ch, e, side)) <= MaxWaiters
    BY DEF Sound, ChanType
  <2>4. MaxWaiters \in Nat
    BY IpcBoundsAssumption
  <2>5. CASE e = f /\ side = a
    BY <2>2, <2>4, <2>5 DEF Added
  <2>6. CASE ~(e = f /\ side = a)
    BY <2>3, <2>6 DEF Added
  <2> QED BY <2>5, <2>6
<1>3. ChanType(cd)
  BY <1>2 DEF ChanType
<1>4. ASSUME NEW e \in Endpoints
      PROVE  /\ cd[e].send = IF e = f /\ a = "send" THEN Append(ch[f].send, w) ELSE ch[e].send
             /\ cd[e].recv = IF e = f /\ a = "recv" THEN Append(ch[f].recv, w) ELSE ch[e].recv
  <2>1. "send" \in Sides /\ "recv" \in Sides
    BY DEF Sides
  <2>2. Queue(cd, e, "send") = cd[e].send /\ Queue(cd, e, "recv") = cd[e].recv
    BY DEF Queue
  <2>3. /\ Queue(ch, e, "send") = ch[e].send /\ Queue(ch, e, "recv") = ch[e].recv
        /\ Queue(ch, f, "send") = ch[f].send /\ Queue(ch, f, "recv") = ch[f].recv
    BY DEF Queue
  <2> QED BY <2>1, <2>2, <2>3 DEF Added
<1>5. a = "send" \/ a = "recv"
  BY DEF Sides
<1>6. Empties(cd)
  BY <1>4 DEF Sound, Empties, Alive
<1>7. Linked(cd)
  BY <1>1 DEF Sound, Linked
<1>8. Meeting(cd)
  <2> SUFFICES ASSUME NEW e \in Endpoints, ch[e].peer # None
               PROVE  cd[e].recv = <<>> \/ cd[ch[e].peer].send = <<>>
    BY DEF Meeting
  <2>1. ch[e].peer \in Endpoints /\ ch[ch[e].peer].peer = e /\ ch[e].peer # e
    BY <1>1 DEF Sound, Linked
  <2>2. ch[e].recv = <<>> \/ ch[ch[e].peer].send = <<>>
    BY DEF Sound, Meeting
  <2>3. CASE e = f
    BY <1>4, <1>5, <2>1, <2>2, <2>3
  <2>4. CASE ch[e].peer = f
    <3>1. cd[e].recv = ch[e].recv /\ ch[f].peer = e /\ e # None
      BY <1>4, <2>1, <2>4, NoEndpointAssumption
    <3>2. CASE a = "send"
      BY <3>1, <3>2
    <3>3. CASE a = "recv"
      <4>1. cd[f].send = ch[f].send
        BY <1>4, <3>3
      <4> QED BY <2>2, <2>4, <3>1, <4>1
    <3> QED BY <1>5, <3>2, <3>3
  <2>5. CASE e # f /\ ch[e].peer # f
    BY <1>4, <2>1, <2>2, <2>5
  <2> QED BY <2>3, <2>4, <2>5
<1> QED BY <1>3, <1>6, <1>7, <1>8 DEF Sound, Alive

\* Endpoints are dropped: those who waited there or on a peer wait no more.
LEMMA DropPlaces ==
  ASSUME NEW ch, Sound(ch), Once(ch), NEW D \in SUBSET Endpoints,
         \A e \in D : Alive(ch, e)
  PROVE  /\ Sound(Drop(ch, D)) /\ Once(Drop(ch, D)) /\ Released(ch, D) \subseteq Threads
         /\ Dropped(Drop(ch, D), ch, D) /\ Quit(Drop(ch, D), ch, Released(ch, D))
<1>1. ChanType(ch)
  BY DEF Sound
<1>2. Touched(ch, D) \in SUBSET Endpoints
  <2>1. \A f \in D : ch[f].peer \in Endpoints \cup {None}
    BY <1>1, ChanFields
  <2> QED BY <2>1 DEF Touched
<1>3. /\ Sound(Drop(ch, D))
      /\ \A e \in Endpoints : Alive(Drop(ch, D), e) <=> Alive(ch, e) /\ e \notin D
      /\ \A e \in Endpoints, side \in Sides :
           Queue(Drop(ch, D), e, side) = IF e \in Touched(ch, D) THEN <<>> ELSE Queue(ch, e, side)
  BY DropSound
<1>4. /\ Once(Drop(ch, D))
      /\ \A t \in Threads, side \in Sides :
           Waits(Drop(ch, D), t, side) <=> Waits(ch, t, side) /\ t \notin Released(ch, D)
  BY <1>1, <1>2, <1>3, ClearPlaces DEF Released
<1>5. Released(ch, D) \subseteq Threads
  <2>1. ASSUME NEW e \in Endpoints PROVE Waiters(ch, e) \subseteq Threads
    BY <1>1, ChanFields DEF Waiters, ToSet
  <2> QED BY <1>2, <2>1 DEF Released
<1> QED BY <1>3, <1>4, <1>5 DEF Dropped, Quit

\* The first waiter on the side a of f is served, and some endpoints that the
\* message carried are dropped.
LEMMA ServePlaces ==
  ASSUME NEW ch, Sound(ch), Once(ch), NEW f \in Endpoints, NEW a \in Sides,
         Queue(ch, f, a) # <<>>,
         NEW popped, popped \in [Endpoints -> Endpoint],
         \A e \in Endpoints : popped[e].state = ch[e].state /\ popped[e].peer = ch[e].peer,
         Popped(popped, ch, f, a),
         NEW D \in SUBSET Endpoints, \A e \in D : Alive(ch, e)
  PROVE  LET h == Head(Queue(ch, f, a))
             W == {h} \cup Released(popped, D)
         IN  /\ Sound(Drop(popped, D)) /\ Once(Drop(popped, D))
             /\ h \in Threads /\ W \subseteq Threads /\ Waits(ch, h, a)
             /\ Dropped(Drop(popped, D), ch, D) /\ Quit(Drop(popped, D), ch, W)
<1> DEFINE q == Queue(ch, f, a)
           h == Head(q)
<1>1. ChanType(ch)
  BY DEF Sound
<1>2. /\ h \in Threads /\ Waits(ch, h, a) /\ Once(popped)
      /\ \A t \in Threads, side \in Sides : Waits(popped, t, side) <=> Waits(ch, t, side) /\ t # h
  BY <1>1, PopPlaces
<1>3. q \in Seq(Threads) /\ Len(q) \in Nat /\ Tail(q) \in Seq(Threads) /\ Len(Tail(q)) = Len(q) - 1
  <2>1. q \in Seq(Threads)
    BY <1>1, ChanFields
  <2> HIDE DEF q
  <2> QED BY <2>1, HeadTailProperties DEF q
<1>4. ChanType(popped)
  <2>1. ASSUME NEW e \in Endpoints, NEW side \in Sides
        PROVE  Len(Queue(popped, e, side)) <= MaxWaiters
    <3>1. Len(Queue(ch, e, side)) <= MaxWaiters /\ MaxWaiters \in Nat
      BY <1>1, IpcBoundsAssumption DEF ChanType
    <3>2. CASE e = f /\ side = a
      <4>1. Queue(popped, e, side) = Tail(q) /\ Len(q) <= MaxWaiters
        BY <3>1, <3>2 DEF Popped
      <4> HIDE DEF q
      <4> QED BY <1>3, <3>1, <4>1
    <3>3. CASE ~(e = f /\ side = a)
      BY <3>1, <3>3 DEF Popped
    <3> QED BY <3>2, <3>3
  <2> QED BY <2>1 DEF ChanType
<1>5. ASSUME NEW e \in Endpoints
      PROVE  /\ ch[e].send = <<>> => popped[e].send = <<>>
             /\ ch[e].recv = <<>> => popped[e].recv = <<>>
  <2>1. "send" \in Sides /\ "recv" \in Sides
    BY DEF Sides
  <2>2. /\ Queue(ch, e, "send") = ch[e].send /\ Queue(ch, e, "recv") = ch[e].recv
        /\ Queue(popped, e, "send") = popped[e].send /\ Queue(popped, e, "recv") = popped[e].recv
    BY DEF Queue
  <2>3. /\ Queue(popped, e, "send") # Queue(ch, e, "send") => e = f /\ a = "send"
        /\ Queue(popped, e, "recv") # Queue(ch, e, "recv") => e = f /\ a = "recv"
    BY <2>1 DEF Popped
  <2> QED BY <2>2, <2>3
<1>6. Sound(popped) /\ \A e \in Endpoints : Alive(popped, e) <=> Alive(ch, e)
  BY <1>4, <1>5, ShrinkSound
<1>7. \A e \in D : Alive(popped, e)
  BY <1>6
<1>8. /\ Sound(Drop(popped, D)) /\ Once(Drop(popped, D)) /\ Released(popped, D) \subseteq Threads
      /\ \A e \in Endpoints : Alive(Drop(popped, D), e) <=> Alive(popped, e) /\ e \notin D
      /\ \A t \in Threads, side \in Sides :
           Waits(Drop(popped, D), t, side) <=> Waits(popped, t, side) /\ t \notin Released(popped, D)
  BY <1>2, <1>6, <1>7, DropPlaces DEF Dropped, Quit
<1> HIDE DEF h, q
<1> DEFINE W == {h} \cup Released(popped, D)
<1>9. /\ W \subseteq Threads
      /\ \A t \in Threads : t \notin W <=> t # h /\ t \notin Released(popped, D)
  BY <1>2, <1>8
<1> HIDE DEF W
<1>10. \A t \in Threads, side \in Sides : Waits(Drop(popped, D), t, side) <=> Waits(ch, t, side) /\ t \notin W
  BY <1>2, <1>8, <1>9
<1>11. Dropped(Drop(popped, D), ch, D) /\ Quit(Drop(popped, D), ch, W)
  BY <1>6, <1>8, <1>10 DEF Dropped, Quit
<1> QED BY <1>2, <1>8, <1>9, <1>11 DEF h, q, W

-----------------------------------------------------------------------------
(* The system calls. *)

\* The invariant, for the caller.
LEMMA CoreParts ==
  ASSUME NEW ch, NEW tab, Core(ch, tab)
  PROVE  /\ cpu \in Threads /\ Me \in Procs /\ ProcOf \in [Threads -> Procs]
         /\ \A side \in Sides : ~Waits(ch, cpu, side)
         /\ tab \in [Procs -> SUBSET Endpoints]
         /\ \A p \in Procs : tab[p] \in SUBSET Endpoints /\ Cardinality(tab[p]) <= MaxHandles
         /\ \A t \in Threads : /\ tcb[t] \in Tcb /\ tcb[t].call \in Calls /\ tcb[t].len \in {0, 1}
                               /\ tcb[t].actual \in {0, 1} /\ tcb[t].stash \in SUBSET Endpoints
         /\ \A p \in Procs : \A e \in tab[p] : Alive(ch, e)
         /\ \A t \in Threads : \A e \in tcb[t].stash : Alive(ch, e)
<1>1. cpu \in Threads /\ run[cpu] = "Running" /\ ProcOf \in [Threads -> Procs]
  BY ProcAssumption DEF Core, CpuSound
<1>2. \A side \in Sides : ~Waits(ch, cpu, side)
  BY <1>1 DEF Core, Matched
<1>3. tab \in [Procs -> SUBSET Endpoints] /\ \A p \in Procs : Cardinality(tab[p]) <= MaxHandles
  BY DEF Core, Tables
<1>4. tcb \in [Threads -> Tcb]
  BY DEF Core
<1>5. OwnedOnce(ch, tab, tcb)
  BY DEF Core
<1>6. \A p \in Procs : \A e \in tab[p] : Alive(ch, e)
  BY <1>3, <1>5, HoldersAre DEF OwnedOnce
<1>7. \A t \in Threads : tcb[t].stash \in SUBSET Endpoints
  BY <1>4 DEF Tcb
<1>8. \A t \in Threads : \A e \in tcb[t].stash : Alive(ch, e)
  BY <1>5, <1>7, HoldersAre DEF OwnedOnce
<1> QED BY <1>1, <1>2, <1>3, <1>4, <1>6, <1>7, <1>8 DEF Me, Tcb

\* What one holder has no other one has.
LEMMA HeldApart ==
  ASSUME NEW ch, NEW tab, NEW tc, OwnedOnce(ch, tab, tc), NEW e \in Endpoints
  PROVE  /\ \A p, q \in Procs : e \in tab[p] /\ e \in tab[q] => p = q
         /\ \A t, u \in Threads : e \in tc[t].stash /\ e \in tc[u].stash => t = u
         /\ \A p \in Procs, t \in Threads : ~(e \in tab[p] /\ e \in tc[t].stash)
<1>1. \A g, h \in Holders : Holds(tab, tc, g, e) /\ Holds(tab, tc, h, e) => g = h
  BY DEF OwnedOnce
<1>2. ASSUME NEW p \in Procs, NEW q \in Procs, e \in tab[p], e \in tab[q]
      PROVE  p = q
  <2>1. <<"table", p>> = <<"table", q>>
    BY <1>1, <1>2, HoldersAre
  <2> QED BY <2>1
<1>3. ASSUME NEW t \in Threads, NEW u \in Threads, e \in tc[t].stash, e \in tc[u].stash
      PROVE  t = u
  <2>1. <<"stash", t>> = <<"stash", u>>
    BY <1>1, <1>3, HoldersAre
  <2> QED BY <2>1
<1>4. ASSUME NEW p \in Procs, NEW t \in Threads, e \in tab[p], e \in tc[t].stash
      PROVE  FALSE
  BY <1>1, <1>4, HoldersAre
<1> QED BY <1>2, <1>3, <1>4

\* The shorter of two lengths.
LEMMA MinLen ==
  ASSUME NEW m \in {0, 1}, NEW n \in {0, 1}
  PROVE  Min({m, n}) \in {0, 1}
<1>1. m \in Int /\ n \in Int
  OBVIOUS
<1> QED BY <1>1, MinMaxOfTwo

\* A write that finds a reader.
LEMMA WriteNowKeeps ==
  ASSUME NEW ch, NEW tab, Core(ch, tab), NEW e \in Endpoints, ch[e].peer # None,
         NEW S \in SUBSET tab[Me], NEW n \in {0, 1}, WriteNow(ch, tab, e, S, n)
  PROVE  Core(chan, table)'
<1>1. Sound(ch) /\ Once(ch) /\ ChanType(ch) /\ CpuSound(run, ready, cpu) /\ Matched(ch, run, tcb)
      /\ OwnedOnce(ch, tab, tcb) /\ kernel \in {"running", "corrupt"} /\ tcb \in [Threads -> Tcb]
  BY DEF Core, Sound
<1>2. PICK f \in Endpoints : f = ch[e].peer
  BY <1>1, ChanFields
<1>3. PICK r : r = Head(ch[f].recv)
  OBVIOUS
<1>4. PICK popped : popped = [ch EXCEPT ![f].recv = Tail(@)]
  OBVIOUS
<1>5. PICK me \in Procs : me = Me
  BY CoreParts
<1>6. PICK left : left = [tab EXCEPT ![me] = @ \ S]
  OBVIOUS
<1>7. PICK q : q = ProcOf[r]
  OBVIOUS
<1>8. /\ ch[f].recv # <<>>
      /\ \E kept \in Fitting(S, MaxHandles - Cardinality(left[q])) :
           /\ table' = [left EXCEPT ![q] = @ \cup kept]
           /\ chan' = Drop(popped, S \ kept)
           /\ Notify({r} \cup Released(popped, S \ kept))
      /\ tcb' = [tcb EXCEPT ![r].actual = Min({n, tcb[r].len})]
  BY <1>2, <1>3, <1>4, <1>5, <1>6, <1>7 DEF WriteNow
<1>9. PICK kept \in Fitting(S, MaxHandles - Cardinality(left[q])) :
           /\ table' = [left EXCEPT ![q] = @ \cup kept]
           /\ chan' = Drop(popped, S \ kept)
           /\ Notify({r} \cup Released(popped, S \ kept))
  BY <1>8
<1>10. /\ Queue(ch, f, "recv") = ch[f].recv /\ ch[f] \in Endpoint /\ ch[f].recv \in Seq(Threads)
       /\ ch \in [Endpoints -> Endpoint] /\ Tail(ch[f].recv) \in Seq(Threads) /\ "recv" \in Sides
  <2>1. Queue(ch, f, "recv") = ch[f].recv /\ ch[f] \in Endpoint /\ ch[f].recv \in Seq(Threads)
    BY <1>1, ChanFields
  <2> QED BY <1>1, <1>8, <2>1, HeadTailProperties DEF ChanType, Sides
<1>11. /\ popped \in [Endpoints -> Endpoint]
       /\ \A x \in Endpoints : popped[x].state = ch[x].state /\ popped[x].peer = ch[x].peer
       /\ Popped(popped, ch, f, "recv")
  <2> DEFINE rec == [ch[f] EXCEPT !.recv = Tail(ch[f].recv)]
  <2>1. popped = [ch EXCEPT ![f] = rec]
    BY <1>4, <1>10
  <2>2. /\ rec \in Endpoint /\ rec.state = ch[f].state /\ rec.peer = ch[f].peer
        /\ rec.send = ch[f].send /\ rec.recv = Tail(ch[f].recv)
    BY <1>10 DEF Endpoint
  <2> HIDE DEF rec
  <2>3. popped[f] = rec /\ \A x \in Endpoints : x # f => popped[x] = ch[x]
    BY <1>10, <2>1
  <2> QED BY <1>10, <2>1, <2>2, <2>3 DEF Popped, Queue, Sides
<1>12. S \in SUBSET Endpoints /\ tab[me] \in SUBSET Endpoints /\ \A x \in S : Alive(ch, x)
  BY <1>5, CoreParts
<1> DEFINE D == S \ kept
           W == {r} \cup Released(popped, D)
<1>13. /\ Sound(chan') /\ Once(chan') /\ r \in Threads /\ W \subseteq Threads
       /\ Dropped(chan', ch, D) /\ Quit(chan', ch, W)
  <2>1. D \in SUBSET Endpoints /\ \A x \in D : Alive(ch, x)
    BY <1>12
  <2>2. chan' = Drop(popped, D)
    BY <1>9
  <2>3. r = Head(Queue(ch, f, "recv")) /\ Queue(ch, f, "recv") # <<>>
    BY <1>3, <1>8, <1>10
  <2> HIDE DEF D
  <2> QED BY <1>1, <1>10, <1>11, <2>1, <2>2, <2>3, ServePlaces
<1>14. CpuSound(run', ready', cpu') /\ kernel' = kernel /\ Woken(run', run, W)
  BY <1>1, <1>9, <1>13, NotifySound
<1>15. /\ tcb' \in [Threads -> Tcb]
       /\ \A t \in Threads : tcb'[t].call = tcb[t].call /\ tcb'[t].stash = tcb[t].stash
  <2>1. Min({n, tcb[r].len}) \in {0, 1}
    BY <1>13, CoreParts, MinLen
  <2>2. tcb' = [tcb EXCEPT ![r].actual = Min({n, tcb[r].len})]
    BY <1>8
  <2> DEFINE m == Min({n, tcb[r].len})
             rec == [tcb[r] EXCEPT !.actual = m]
  <2>3. tcb' = [tcb EXCEPT ![r] = rec] /\ m \in {0, 1}
    BY <1>1, <1>13, <2>1, <2>2
  <2> HIDE DEF m
  <2>4. rec \in Tcb /\ rec.call = tcb[r].call /\ rec.stash = tcb[r].stash
    BY <1>1, <1>13, <2>3 DEF Tcb
  <2> HIDE DEF rec
  <2> QED BY <1>1, <1>13, <2>3, <2>4
<1>16. Matched(chan', run', tcb')
  <2> HIDE DEF W
  <2>1. SameCalls(tcb', tcb, {})
    BY <1>15 DEF SameCalls
  <2> QED BY <1>1, <1>13, <1>14, <2>1, ReleaseMatched
<1>17. /\ left \in [Procs -> SUBSET Endpoints] /\ q \in Procs
       /\ \A p \in Procs : left[p] = (IF p = me THEN tab[p] \ S ELSE tab[p])
  BY <1>6, <1>7, <1>13, CoreParts
<1>18. \A p \in Procs : Cardinality(left[p]) <= MaxHandles
  <2>1. ASSUME NEW p \in Procs
        PROVE  Cardinality(left[p]) <= MaxHandles
    <3>1. tab[p] \in SUBSET Endpoints /\ Cardinality(tab[p]) <= MaxHandles
      BY CoreParts
    <3>2. /\ Cardinality(tab[p] \ S) <= Cardinality(tab[p]) /\ Cardinality(tab[p]) \in Nat
          /\ Cardinality(tab[p] \ S) \in Nat
      BY <1>12, <3>1, AddFits
    <3>3. Cardinality(tab[p] \ S) <= MaxHandles
      <4>1. MaxHandles \in Nat
        BY IpcBoundsAssumption
      <4> QED BY <3>1, <3>2, <4>1
    <3> QED BY <1>17, <3>1, <3>3
  <2> QED BY <2>1
<1>19. kept \in SUBSET S /\ Cardinality(left[q] \cup kept) <= MaxHandles
  <2>1. left[q] \in SUBSET Endpoints /\ Cardinality(left[q]) <= MaxHandles
    BY <1>17, <1>18
  <2> QED BY <1>9, <1>12, <2>1, FittingSound
<1>20. /\ table' \in [Procs -> SUBSET Endpoints]
       /\ \A p \in Procs : table'[p] = IF p = q THEN left[p] \cup kept ELSE left[p]
  BY <1>9, <1>12, <1>17, <1>19
<1>21. Tables(table')
  BY <1>18, <1>19, <1>20 DEF Tables
<1>22. OwnedOnce(chan', table', tcb')
  <2> DEFINE c == <<"table", me>>
             d == <<"table", q>>
  <2>1. c \in Holders /\ d \in Holders /\ \A x \in S : Holds(tab, tcb, c, x)
    BY <1>5, <1>17, HoldersAre
  <2>2. ASSUME NEW p \in Procs, NEW x \in Endpoints
        PROVE  x \in table'[p] <=> (x \in tab[p] /\ x \notin S) \/ (p = q /\ x \in kept)
    <3>1. x \in S /\ x \in tab[p] => p = me
      BY <1>1, <1>5, HeldApart
    <3> QED BY <1>17, <1>20, <3>1
  <2>3. ASSUME NEW t \in Threads, NEW x \in Endpoints
        PROVE  x \in tcb'[t].stash <=> x \in tcb[t].stash /\ x \notin S
    <3>1. ~(x \in tab[me] /\ x \in tcb[t].stash)
      BY <1>1, HeldApart
    <3> QED BY <1>5, <1>15, <3>1
  <2>4. \A p \in Procs, t \in Threads : d # <<"stash", t>> /\ (d = <<"table", p>> <=> p = q)
    BY <1>17
  <2>5. D = S \ kept
    OBVIOUS
  <2> HIDE DEF c, d, D
  <2>6. Moved(table', tcb', tab, tcb, S, d, kept)
    <3>1. TablesMoved(table', tab, S, d, kept)
      BY <1>5, <2>2, <2>4, CoreParts DEF TablesMoved
    <3>2. StashesMoved(tcb', tcb, S, d, kept)
      BY <1>5, <2>3, <2>4 DEF StashesMoved
    <3> QED BY <2>1, <3>1, <3>2, MovedIs
  <2> QED BY <1>1, <1>12, <1>13, <1>19, <2>1, <2>5, <2>6, MoveOwned
<1> QED BY <1>1, <1>13, <1>14, <1>15, <1>16, <1>21, <1>22 DEF Core

\* td is tc with nothing in the stash of w.
StashCleared(td, tc, w) == \A t \in Threads : td[t].stash = IF t = w THEN {} ELSE tc[t].stash

\* A caller that has to wait drops what an earlier call left in its stash.
LEMMA ClearStash ==
  ASSUME NEW ch, NEW tab, Core(ch, tab), NEW old, old = tcb[cpu].stash,
         NEW tc, StashCleared(tc, tcb, cpu)
  PROVE  /\ old \in SUBSET Endpoints
         /\ Sound(Drop(ch, old)) /\ Once(Drop(ch, old)) /\ Released(ch, old) \subseteq Threads
         /\ cpu \notin Released(ch, old)
         /\ Dropped(Drop(ch, old), ch, old) /\ Quit(Drop(ch, old), ch, Released(ch, old))
         /\ \A side \in Sides : ~Waits(Drop(ch, old), cpu, side)
         /\ OwnedOnce(Drop(ch, old), tab, tc)
<1>1. /\ Sound(ch) /\ Once(ch) /\ ChanType(ch) /\ OwnedOnce(ch, tab, tcb) /\ cpu \in Threads
  BY CoreParts DEF Core, Sound
<1>2. old \in SUBSET Endpoints /\ \A e \in old : Alive(ch, e)
  BY <1>1, CoreParts
<1>3. /\ Sound(Drop(ch, old)) /\ Once(Drop(ch, old)) /\ Released(ch, old) \subseteq Threads
      /\ Dropped(Drop(ch, old), ch, old) /\ Quit(Drop(ch, old), ch, Released(ch, old))
  BY <1>1, <1>2, DropPlaces
<1>4. \A side \in Sides : ~Waits(ch, cpu, side)
  BY CoreParts
<1>5. \A side \in Sides : ~Waits(Drop(ch, old), cpu, side)
  BY <1>1, <1>3, <1>4 DEF Quit
<1>6. cpu \notin Released(ch, old)
  <2> SUFFICES ASSUME cpu \in Released(ch, old) PROVE FALSE
    OBVIOUS
  <2>1. PICK e \in Touched(ch, old) : cpu \in Waiters(ch, e)
    BY DEF Released
  <2>2. e \in Endpoints
    <3>1. \A f \in old : ch[f].peer \in Endpoints \cup {None}
      BY <1>1, <1>2, ChanFields
    <3> QED BY <1>2, <2>1, <3>1 DEF Touched
  <2>3. \E side \in Sides : \E k \in Nat : WaitsAt(ch, cpu, e, side, k)
    BY <1>1, <2>1, <2>2, WaitersAre
  <2> QED BY <1>4, <2>2, <2>3 DEF Waits
<1>7. OwnedOnce(Drop(ch, old), tab, tc)
  <2> DEFINE c == <<"stash", cpu>>
  <2>1. c \in Holders /\ \A e \in old : Holds(tab, tcb, c, e)
    BY <1>1, HoldersAre
  <2>2. \A t \in Threads, e \in Endpoints : e \in tc[t].stash <=> e \in tcb[t].stash /\ e \notin old
    BY <1>1, HeldApart DEF StashCleared
  <2>3. \A p \in Procs, e \in Endpoints : e \in tab[p] => e \notin old
    BY <1>1, HeldApart
  <2> HIDE DEF c
  <2>4. TablesMoved(tab, tab, old, c, {})
    BY <2>3 DEF TablesMoved
  <2>5. StashesMoved(tc, tcb, old, c, {})
    BY <2>2 DEF StashesMoved
  <2>6. Moved(tab, tc, tab, tcb, old, c, {})
    BY <2>1, <2>4, <2>5, MovedIs
  <2>7. old \ {} = old
    OBVIOUS
  <2> QED BY <1>1, <1>2, <1>3, <2>1, <2>6, <2>7, MoveOwned
<1> QED BY <1>2, <1>3, <1>5, <1>6, <1>7

\* The endpoint with w behind its last waiter on the side a.
LEMMA AddedIs ==
  ASSUME NEW ch, ChanType(ch), NEW e \in Endpoints, NEW w \in Threads, NEW cd, NEW a \in Sides,
         \/ a = "send" /\ cd = [ch EXCEPT ![e].send = Append(@, w)]
         \/ a = "recv" /\ cd = [ch EXCEPT ![e].recv = Append(@, w)]
  PROVE  /\ cd \in [Endpoints -> Endpoint] /\ Added(cd, ch, e, a, w)
         /\ \A x \in Endpoints : cd[x].state = ch[x].state /\ cd[x].peer = ch[x].peer
<1>1. /\ ch \in [Endpoints -> Endpoint] /\ ch[e] \in Endpoint
      /\ ch[e].send \in Seq(Threads) /\ ch[e].recv \in Seq(Threads)
      /\ Append(ch[e].send, w) \in Seq(Threads) /\ Append(ch[e].recv, w) \in Seq(Threads)
  <2>1. ch \in [Endpoints -> Endpoint] /\ ch[e].send \in Seq(Threads) /\ ch[e].recv \in Seq(Threads)
    BY ChanFields DEF ChanType
  <2> QED BY <2>1, AppendProperties
<1> DEFINE rec == IF a = "send" THEN [ch[e] EXCEPT !.send = Append(ch[e].send, w)]
                  ELSE [ch[e] EXCEPT !.recv = Append(ch[e].recv, w)]
<1>2. cd = [ch EXCEPT ![e] = rec]
  BY <1>1
<1>3. /\ rec \in Endpoint /\ rec.state = ch[e].state /\ rec.peer = ch[e].peer
      /\ rec.send = (IF a = "send" THEN Append(ch[e].send, w) ELSE ch[e].send)
      /\ rec.recv = (IF a = "send" THEN ch[e].recv ELSE Append(ch[e].recv, w))
  BY <1>1 DEF Endpoint
<1> HIDE DEF rec
<1>4. cd[e] = rec /\ \A x \in Endpoints : x # e => cd[x] = ch[x]
  BY <1>1, <1>2
<1> QED BY <1>1, <1>2, <1>3, <1>4 DEF Added, Queue, Sides

\* A write that waits.
LEMMA WaitingWriteKeeps ==
  ASSUME NEW ch, NEW tab, Core(ch, tab), NEW e \in Endpoints, ch[e].peer # None,
         NEW S \in SUBSET tab[Me], NEW n \in {0, 1}, NEW call \in {"write", "lookup"},
         cpu \notin Idlers, WriteWait(ch, tab, e, S, n, call)
  PROVE  Core(chan, table)'
<1>1. Sound(ch) /\ Once(ch) /\ ChanType(ch) /\ CpuSound(run, ready, cpu) /\ Matched(ch, run, tcb)
      /\ OwnedOnce(ch, tab, tcb) /\ kernel \in {"running", "corrupt"} /\ tcb \in [Threads -> Tcb]
  BY DEF Core, Sound
<1>2. PICK me \in Procs : me = Me
  BY CoreParts
<1>3. PICK old : old = tcb[cpu].stash
  OBVIOUS
<1>4. PICK cleared : cleared = Drop(ch, old)
  OBVIOUS
<1>5. PICK w \in Threads : w = cpu
  BY CoreParts
<1>6. PICK rel : rel = Released(ch, old)
  OBVIOUS
<1>7. /\ ch[ch[e].peer].recv = <<>> /\ e \notin old
      /\ Len(cleared[e].send) < MaxWaiters
      /\ chan' = [cleared EXCEPT ![e].send = Append(@, w)]
      /\ table' = [tab EXCEPT ![me] = @ \ S]
      /\ tcb' = [tcb EXCEPT ![w] = [call |-> call, len |-> n, actual |-> 0, stash |-> S]]
      /\ Suspend(rel)
  BY <1>2, <1>3, <1>4, <1>5, <1>6 DEF WriteWait
<1>8. PICK tc : tc = [t \in Threads |-> [tcb[t] EXCEPT !.stash = IF t = w THEN {} ELSE tcb[t].stash]]
  OBVIOUS
<1>9. \A t \in Threads : tc[t].stash = IF t = w THEN {} ELSE tcb[t].stash
  BY <1>1, <1>8 DEF Tcb
<1>10. \A t \in Threads : tc[t].call = tcb[t].call
  BY <1>1, <1>8 DEF Tcb
<1>11. /\ old \in SUBSET Endpoints
       /\ Sound(cleared) /\ Once(cleared) /\ rel \subseteq Threads /\ w \notin rel
       /\ Dropped(cleared, ch, old) /\ Quit(cleared, ch, rel)
       /\ \A side \in Sides : ~Waits(cleared, w, side)
       /\ OwnedOnce(cleared, tab, tc)
  <2>1. StashCleared(tc, tcb, cpu)
    BY <1>5, <1>9 DEF StashCleared
  <2> QED BY <1>3, <1>4, <1>5, <1>6, <2>1, ClearStash
<1>12. "send" \in Sides /\ ChanType(cleared) /\ Queue(cleared, e, "send") = cleared[e].send
  BY <1>11 DEF Sides, Queue, Sound
<1>13. /\ chan' \in [Endpoints -> Endpoint] /\ Added(chan', cleared, e, "send", w)
       /\ \A x \in Endpoints : chan'[x].state = cleared[x].state /\ chan'[x].peer = cleared[x].peer
  <2>1. \/ "send" = "send" /\ chan' = [cleared EXCEPT ![e].send = Append(@, w)]
        \/ "send" = "recv" /\ chan' = [cleared EXCEPT ![e].recv = Append(@, w)]
    BY <1>7
  <2> QED BY <1>12, <2>1, AddedIs
<1>14. Alive(cleared, e)
  <2>1. ch[e].state = "Open"
    BY <1>1 DEF Sound, Linked
  <2> QED BY <1>7, <1>11, <2>1 DEF Dropped, Alive
<1>15. cleared[e].peer # None => cleared[cleared[e].peer].recv = <<>>
  <2> SUFFICES ASSUME cleared[e].peer # None PROVE cleared[cleared[e].peer].recv = <<>>
    OBVIOUS
  <2>1. \A x \in Endpoints : \/ cleared[x].peer = None /\ cleared[x].recv = <<>>
                             \/ cleared[x].peer = ch[x].peer /\ cleared[x].recv = ch[x].recv
    <3>1. ASSUME NEW x \in Endpoints
          PROVE  \/ cleared[x].peer = None /\ cleared[x].recv = <<>>
                 \/ cleared[x].peer = ch[x].peer /\ cleared[x].recv = ch[x].recv
      BY <1>4 DEF Drop, NewEndpoint
    <3> QED BY <3>1
  <2>2. ch[e].peer \in Endpoints /\ cleared[e].peer = ch[e].peer
    BY <1>1, <2>1, ChanFields
  <2> QED BY <1>7, <2>1, <2>2
<1>16. Sound(chan') /\ \A x \in Endpoints : Alive(chan', x) <=> Alive(cleared, x)
  <2>1. Len(Queue(cleared, e, "send")) < MaxWaiters
    BY <1>7, <1>12
  <2>2. /\ cleared[e].peer # None /\ "send" = "send" => cleared[cleared[e].peer].recv = <<>>
        /\ cleared[e].peer # None /\ "send" = "recv" => cleared[cleared[e].peer].send = <<>>
    BY <1>15
  <2> QED BY <1>11, <1>12, <1>13, <1>14, <2>1, <2>2, AppendSound
<1>17. Once(chan') /\ Joined(chan', cleared, w, "send")
  <2>1. /\ Once(chan')
        /\ \A t \in Threads, side \in Sides :
             Waits(chan', t, side) <=> Waits(cleared, t, side) \/ (t = w /\ side = "send")
    BY <1>11, <1>12, <1>13, AppendPlaces
  <2> QED BY <2>1 DEF Joined
<1>18. PICK mid : mid = [t \in Threads |-> IF run[t] = "Blocked" /\ t \notin rel THEN "Blocked" ELSE "Ready"]
  OBVIOUS
<1>19. /\ CpuSound(run', ready', cpu') /\ kernel' = kernel
       /\ \A t \in Threads : run'[t] = "Blocked" <=> t = w \/ (run[t] = "Blocked" /\ t \notin rel)
  BY <1>1, <1>5, <1>7, <1>11, SuspendSound
<1>20. Woken(mid, run, rel) /\ Stopped(run', mid, w)
  BY <1>18, <1>19 DEF Woken, Stopped
<1>21. Matched(cleared, mid, tc)
  <2>1. SameCalls(tc, tcb, {})
    BY <1>10 DEF SameCalls
  <2> QED BY <1>1, <1>11, <1>20, <2>1, ReleaseMatched
<1>22. /\ tcb' \in [Threads -> Tcb] /\ tcb'[w].call = call /\ tcb'[w].stash = S
       /\ \A t \in Threads : t # w => tcb'[t] = tcb[t]
  <2> DEFINE rec == [call |-> call, len |-> n, actual |-> 0, stash |-> S]
  <2>1. S \in SUBSET Endpoints
    BY CoreParts
  <2>2. rec \in Tcb /\ rec.call = call /\ rec.stash = S
    BY <2>1 DEF Tcb, Calls
  <2>3. tcb' = [tcb EXCEPT ![w] = rec]
    BY <1>7
  <2> HIDE DEF rec
  <2> QED BY <1>1, <2>2, <2>3
<1>23. Matched(chan', run', tcb')
  <2>1. SameCalls(tcb', tc, {w})
    BY <1>10, <1>22 DEF SameCalls
  <2> QED BY <1>11, <1>12, <1>17, <1>20, <1>21, <1>22, <2>1, BlockMatched
<1>24. /\ table' \in [Procs -> SUBSET Endpoints]
       /\ \A p \in Procs : table'[p] = IF p = me THEN tab[p] \ S ELSE tab[p]
  BY <1>7, CoreParts
<1>25. Tables(table')
  <2>1. ASSUME NEW p \in Procs
        PROVE  Cardinality(table'[p]) <= MaxHandles
    <3>1. /\ tab[p] \in SUBSET Endpoints /\ Cardinality(tab[p]) <= MaxHandles
          /\ S \in SUBSET Endpoints /\ tab[p] \ S \in SUBSET Endpoints
      BY CoreParts
    <3>2. /\ Cardinality(tab[p] \ S) <= Cardinality(tab[p]) /\ Cardinality(tab[p]) \in Nat
          /\ Cardinality(tab[p] \ S) \in Nat /\ MaxHandles \in Nat
      BY <3>1, AddFits, IpcBoundsAssumption
    <3>3. Cardinality(tab[p] \ S) <= MaxHandles
      BY <3>1, <3>2
    <3> QED BY <1>24, <3>1, <3>3
  <2> QED BY <1>24, <2>1 DEF Tables
<1>26. OwnedOnce(chan', table', tcb')
  <2> DEFINE c == <<"table", me>>
             d == <<"stash", w>>
  <2>1. c \in Holders /\ d \in Holders /\ \A x \in S : Holds(tab, tc, c, x)
    BY <1>2, HoldersAre
  <2>2. S \in SUBSET Endpoints /\ S \in SUBSET S
    BY CoreParts
  <2>3. ASSUME NEW p \in Procs, NEW x \in Endpoints
        PROVE  x \in table'[p] <=> x \in tab[p] /\ x \notin S
    <3>1. x \in S /\ x \in tab[p] => p = me
      BY <1>2, <1>11, HeldApart
    <3> QED BY <1>24, <3>1
  <2>4. ASSUME NEW t \in Threads, NEW x \in Endpoints
        PROVE  x \in tcb'[t].stash <=> (x \in tc[t].stash /\ x \notin S) \/ (t = w /\ x \in S)
    <3>1. ~(x \in tab[me] /\ x \in tc[t].stash)
      BY <1>11, HeldApart
    <3>2. x \in S => x \in tab[me]
      BY <1>2
    <3>3. CASE t = w
      BY <1>9, <1>22, <3>3
    <3>4. CASE t # w
      BY <1>9, <1>22, <3>1, <3>2, <3>4
    <3> QED BY <3>3, <3>4
  <2>5. \A p \in Procs : d # <<"table", p>>
    OBVIOUS
  <2>6. \A t \in Threads : d = <<"stash", t>> <=> t = w
    OBVIOUS
  <2> HIDE DEF c, d
  <2>7. TablesMoved(table', tab, S, d, S)
    BY <2>3, <2>5 DEF TablesMoved
  <2>8. StashesMoved(tcb', tc, S, d, S)
    BY <2>4, <2>6 DEF StashesMoved
  <2>9. Moved(table', tcb', tab, tc, S, d, S)
    BY <2>1, <2>7, <2>8, MovedIs
  <2>10. Dropped(chan', cleared, S \ S)
    BY <1>16 DEF Dropped
  <2> QED BY <1>11, <2>1, <2>2, <2>9, <2>10, MoveOwned
<1> QED BY <1>1, <1>16, <1>17, <1>19, <1>22, <1>23, <1>25, <1>26 DEF Core

\* A write that finds no free waiter slot.
LEMMA WriteFullKeeps ==
  ASSUME NEW ch, NEW tab, Core(ch, tab), NEW e \in Endpoints, WriteFull(ch, tab, e)
  PROVE  Core(chan, table)'
<1>1. Sound(ch) /\ Once(ch) /\ ChanType(ch) /\ CpuSound(run, ready, cpu) /\ Matched(ch, run, tcb)
      /\ kernel \in {"running", "corrupt"} /\ tcb \in [Threads -> Tcb] /\ Tables(tab)
  BY DEF Core, Sound
<1>2. PICK old : old = tcb[cpu].stash
  OBVIOUS
<1>3. PICK rel : rel = Released(ch, old)
  OBVIOUS
<1>4. chan' = Drop(ch, old) /\ table' = tab /\ tcb' = [tcb EXCEPT ![cpu].stash = {}] /\ Notify(rel)
  BY <1>2, <1>3 DEF WriteFull
<1>5. cpu \in Threads
  BY CoreParts
<1>6. /\ tcb' \in [Threads -> Tcb]
      /\ \A t \in Threads : /\ tcb'[t].call = tcb[t].call
                            /\ tcb'[t].stash = IF t = cpu THEN {} ELSE tcb[t].stash
  <2> DEFINE rec == [tcb[cpu] EXCEPT !.stash = {}]
  <2>1. tcb' = [tcb EXCEPT ![cpu] = rec]
    BY <1>1, <1>4, <1>5
  <2>2. rec \in Tcb /\ rec.call = tcb[cpu].call /\ rec.stash = {}
    BY <1>1, <1>5 DEF Tcb
  <2> HIDE DEF rec
  <2> QED BY <1>1, <1>5, <2>1, <2>2
<1>7. /\ Sound(chan') /\ Once(chan') /\ rel \subseteq Threads /\ Quit(chan', ch, rel)
      /\ OwnedOnce(chan', tab, tcb')
  <2>1. StashCleared(tcb', tcb, cpu)
    BY <1>6 DEF StashCleared
  <2> QED BY <1>2, <1>3, <1>4, <2>1, ClearStash
<1>8. CpuSound(run', ready', cpu') /\ kernel' = kernel /\ Woken(run', run, rel)
  BY <1>1, <1>4, <1>7, NotifySound
<1>9. Matched(chan', run', tcb')
  <2>1. SameCalls(tcb', tcb, {})
    BY <1>6 DEF SameCalls
  <2> QED BY <1>1, <1>7, <1>8, <2>1, ReleaseMatched
<1> QED BY <1>1, <1>4, <1>6, <1>7, <1>8, <1>9 DEF Core

\* Channel::write in all its cases.
LEMMA WriteKeeps ==
  ASSUME NEW ch, NEW tab, Core(ch, tab), NEW e \in Endpoints, ch[e].peer # None,
         NEW S \in SUBSET tab[Me], NEW n \in {0, 1}, NEW call \in {"write", "lookup"},
         cpu \notin Idlers, Write(ch, tab, e, S, n, call)
  PROVE  Core(chan, table)'
<1>1. CASE WriteFreed(ch, tab, e)
  <2>1. chan' = ch /\ table' = tab /\ kernel' = "corrupt" /\ UNCHANGED <<run, ready, cpu, tcb>>
    BY <1>1 DEF WriteFreed, Corrupt
  <2> QED BY <2>1 DEF Core
<1>2. CASE WriteNow(ch, tab, e, S, n)
  BY <1>2, WriteNowKeeps
<1>3. CASE WriteWait(ch, tab, e, S, n, call)
  BY <1>3, WaitingWriteKeeps
<1>4. CASE WriteFull(ch, tab, e)
  BY <1>4, WriteFullKeeps
<1> QED BY <1>1, <1>2, <1>3, <1>4 DEF Write

\* A read that finds a writer.
LEMMA ReadNowKeeps ==
  ASSUME Core(chan, table), NEW e \in Endpoints, chan[e].peer # None,
         NEW n \in {0, 1}, ReadNow(e, n)
  PROVE  Core(chan, table)'
<1>1. Sound(chan) /\ Once(chan) /\ ChanType(chan) /\ CpuSound(run, ready, cpu) /\ Matched(chan, run, tcb)
      /\ OwnedOnce(chan, table, tcb) /\ kernel \in {"running", "corrupt"} /\ tcb \in [Threads -> Tcb]
  BY DEF Core, Sound
<1>2. PICK f \in Endpoints : f = chan[e].peer
  BY <1>1, ChanFields
<1>3. PICK s : s = Head(chan[f].send)
  OBVIOUS
<1>4. PICK popped : popped = [chan EXCEPT ![f].send = Tail(@)]
  OBVIOUS
<1>5. PICK me \in Procs : me = Me
  BY CoreParts
<1>6. PICK S : S = tcb[s].stash
  OBVIOUS
<1>7. /\ chan[f].send # <<>>
      /\ \E kept \in Fitting(S, MaxHandles - Cardinality(table[me])) :
           /\ table' = [table EXCEPT ![me] = @ \cup kept]
           /\ chan' = Drop(popped, S \ kept)
           /\ Notify({s} \cup Released(popped, S \ kept))
      /\ tcb' = [tcb EXCEPT ![s] = [@ EXCEPT !.actual = Min({tcb[s].len, n}), !.stash = {}]]
  BY <1>2, <1>3, <1>4, <1>5, <1>6 DEF ReadNow, Room
<1>8. PICK kept \in Fitting(S, MaxHandles - Cardinality(table[me])) :
           /\ table' = [table EXCEPT ![me] = @ \cup kept]
           /\ chan' = Drop(popped, S \ kept)
           /\ Notify({s} \cup Released(popped, S \ kept))
  BY <1>7
<1>9. /\ Queue(chan, f, "send") = chan[f].send /\ chan[f] \in Endpoint /\ chan[f].send \in Seq(Threads)
      /\ chan \in [Endpoints -> Endpoint] /\ Tail(chan[f].send) \in Seq(Threads) /\ "send" \in Sides
      /\ s \in Threads
  <2>1. Queue(chan, f, "send") = chan[f].send /\ chan[f] \in Endpoint /\ chan[f].send \in Seq(Threads)
    BY <1>1, ChanFields
  <2> QED BY <1>1, <1>3, <1>7, <2>1, HeadTailProperties DEF ChanType, Sides
<1>10. /\ popped \in [Endpoints -> Endpoint]
       /\ \A x \in Endpoints : popped[x].state = chan[x].state /\ popped[x].peer = chan[x].peer
       /\ Popped(popped, chan, f, "send")
  <2> DEFINE rec == [chan[f] EXCEPT !.send = Tail(chan[f].send)]
  <2>1. popped = [chan EXCEPT ![f] = rec]
    BY <1>4, <1>9
  <2>2. /\ rec \in Endpoint /\ rec.state = chan[f].state /\ rec.peer = chan[f].peer
        /\ rec.send = Tail(chan[f].send) /\ rec.recv = chan[f].recv
    BY <1>9 DEF Endpoint
  <2> HIDE DEF rec
  <2>3. popped[f] = rec /\ \A x \in Endpoints : x # f => popped[x] = chan[x]
    BY <1>9, <2>1
  <2> QED BY <1>9, <2>1, <2>2, <2>3 DEF Popped, Queue, Sides
<1>11. S \in SUBSET Endpoints /\ \A x \in S : Alive(chan, x)
  BY <1>6, <1>9, CoreParts
<1> DEFINE D == S \ kept
           W == {s} \cup Released(popped, D)
<1>12. /\ Sound(chan') /\ Once(chan') /\ W \subseteq Threads
       /\ Dropped(chan', chan, D) /\ Quit(chan', chan, W)
  <2>1. D \in SUBSET Endpoints /\ \A x \in D : Alive(chan, x)
    BY <1>11
  <2>2. chan' = Drop(popped, D)
    BY <1>8
  <2>3. s = Head(Queue(chan, f, "send")) /\ Queue(chan, f, "send") # <<>>
    BY <1>3, <1>7, <1>9
  <2> HIDE DEF D
  <2> QED BY <1>1, <1>9, <1>10, <2>1, <2>2, <2>3, ServePlaces
<1>13. CpuSound(run', ready', cpu') /\ kernel' = kernel /\ Woken(run', run, W)
  BY <1>1, <1>8, <1>12, NotifySound
<1>14. /\ tcb' \in [Threads -> Tcb]
       /\ \A t \in Threads : /\ tcb'[t].call = tcb[t].call
                             /\ tcb'[t].stash = IF t = s THEN {} ELSE tcb[t].stash
  <2> DEFINE m == Min({tcb[s].len, n})
             rec == [tcb[s] EXCEPT !.actual = m, !.stash = {}]
  <2>1. m \in {0, 1}
    BY <1>9, CoreParts, MinLen
  <2>2. tcb' = [tcb EXCEPT ![s] = rec]
    BY <1>1, <1>7, <1>9
  <2> HIDE DEF m
  <2>3. rec \in Tcb /\ rec.call = tcb[s].call /\ rec.stash = {}
    BY <1>1, <1>9, <2>1 DEF Tcb
  <2> HIDE DEF rec
  <2> QED BY <1>1, <1>9, <2>2, <2>3
<1>15. Matched(chan', run', tcb')
  <2> HIDE DEF W
  <2>1. SameCalls(tcb', tcb, {})
    BY <1>14 DEF SameCalls
  <2> QED BY <1>1, <1>12, <1>13, <2>1, ReleaseMatched
<1>16. kept \in SUBSET S /\ Cardinality(table[me] \cup kept) <= MaxHandles
  <2>1. table[me] \in SUBSET Endpoints /\ Cardinality(table[me]) <= MaxHandles
    BY CoreParts
  <2> QED BY <1>8, <1>11, <2>1, FittingSound
<1>17. /\ table' \in [Procs -> SUBSET Endpoints]
       /\ \A p \in Procs : table'[p] = IF p = me THEN table[p] \cup kept ELSE table[p]
  BY <1>8, <1>11, <1>16, CoreParts
<1>18. Tables(table')
  BY <1>16, <1>17, CoreParts DEF Tables
<1>19. OwnedOnce(chan', table', tcb')
  <2> DEFINE c == <<"stash", s>>
             d == <<"table", me>>
  <2>1. c \in Holders /\ d \in Holders /\ \A x \in S : Holds(table, tcb, c, x)
    BY <1>6, <1>9, HoldersAre
  <2>2. ASSUME NEW p \in Procs, NEW x \in Endpoints
        PROVE  x \in table'[p] <=> (x \in table[p] /\ x \notin S) \/ (p = me /\ x \in kept)
    <3>1. x \in S => x \notin table[p]
      BY <1>1, <1>6, <1>9, HeldApart
    <3> QED BY <1>16, <1>17, <3>1
  <2>3. ASSUME NEW t \in Threads, NEW x \in Endpoints
        PROVE  x \in tcb'[t].stash <=> x \in tcb[t].stash /\ x \notin S
    <3>1. x \in tcb[s].stash /\ x \in tcb[t].stash => s = t
      BY <1>1, <1>9, HeldApart
    <3> QED BY <1>6, <1>14, <3>1
  <2>4. \A p \in Procs : d = <<"table", p>> <=> p = me
    OBVIOUS
  <2>5. \A t \in Threads : d # <<"stash", t>>
    OBVIOUS
  <2>6. D = S \ kept
    OBVIOUS
  <2> HIDE DEF c, d, D
  <2>7. TablesMoved(table', table, S, d, kept)
    BY <2>2, <2>4 DEF TablesMoved
  <2>8. StashesMoved(tcb', tcb, S, d, kept)
    BY <2>3, <2>5 DEF StashesMoved
  <2>9. Moved(table', tcb', table, tcb, S, d, kept)
    BY <2>1, <2>7, <2>8, MovedIs
  <2> QED BY <1>1, <1>11, <1>12, <1>16, <2>1, <2>6, <2>9, MoveOwned
<1> QED BY <1>1, <1>12, <1>13, <1>14, <1>15, <1>18, <1>19 DEF Core

\* Tables and stashes as they were, and endpoints that exist as before.
LEMMA SameOwners ==
  ASSUME NEW ch, NEW tab, NEW tc, OwnedOnce(ch, tab, tc), NEW cd, NEW td,
         \A e \in Endpoints : Alive(cd, e) <=> Alive(ch, e),
         \A t \in Threads : td[t].stash = tc[t].stash
  PROVE  OwnedOnce(cd, tab, td)
<1>1. ASSUME NEW h \in Holders, NEW e \in Endpoints
      PROVE  Holds(tab, td, h, e) <=> Holds(tab, tc, h, e)
  <2>1. CASE \E p \in Procs : h = <<"table", p>>
    BY <2>1, HoldersAre
  <2>2. CASE \E t \in Threads : h = <<"stash", t>>
    BY <2>2, HoldersAre
  <2> QED BY <2>1, <2>2, HoldersAre
<1>2. ASSUME NEW e \in Endpoints
      PROVE  /\ Alive(cd, e) <=> \E h \in Holders : Holds(tab, td, h, e)
             /\ \A g, h \in Holders : Holds(tab, td, g, e) /\ Holds(tab, td, h, e) => g = h
  <2>1. /\ Alive(ch, e) <=> \E h \in Holders : Holds(tab, tc, h, e)
        /\ \A g, h \in Holders : Holds(tab, tc, g, e) /\ Holds(tab, tc, h, e) => g = h
    BY DEF OwnedOnce
  <2> QED BY <1>1, <2>1
<1> QED BY <1>2 DEF OwnedOnce

\* A read that waits.
LEMMA ReadWaitKeeps ==
  ASSUME Core(chan, table), NEW e \in Endpoints, chan[e].peer # None, cpu \notin Idlers,
         NEW n \in {0, 1}, ReadWait(e, n)
  PROVE  Core(chan, table)'
<1>1. Sound(chan) /\ Once(chan) /\ ChanType(chan) /\ CpuSound(run, ready, cpu) /\ Matched(chan, run, tcb)
      /\ OwnedOnce(chan, table, tcb) /\ kernel \in {"running", "corrupt"} /\ tcb \in [Threads -> Tcb]
      /\ Tables(table)
  BY DEF Core, Sound
<1>2. PICK w \in Threads : w = cpu
  BY CoreParts
<1>3. \A side \in Sides : ~Waits(chan, w, side)
  BY <1>2, CoreParts
<1>4. /\ chan[chan[e].peer].send = <<>> /\ Len(chan[e].recv) < MaxWaiters
      /\ chan' = [chan EXCEPT ![e].recv = Append(@, w)]
      /\ tcb' = [tcb EXCEPT ![w] = [@ EXCEPT !.call = "read", !.len = n, !.actual = 0]]
      /\ Suspend({}) /\ table' = table
  BY <1>2 DEF ReadWait
<1>5. "recv" \in Sides /\ Queue(chan, e, "recv") = chan[e].recv
  BY DEF Sides, Queue
<1>6. /\ chan' \in [Endpoints -> Endpoint] /\ Added(chan', chan, e, "recv", w)
      /\ \A x \in Endpoints : chan'[x].state = chan[x].state /\ chan'[x].peer = chan[x].peer
  <2>1. \/ "recv" = "send" /\ chan' = [chan EXCEPT ![e].send = Append(@, w)]
        \/ "recv" = "recv" /\ chan' = [chan EXCEPT ![e].recv = Append(@, w)]
    BY <1>4
  <2> QED BY <1>1, <1>5, <2>1, AddedIs
<1>7. Sound(chan') /\ \A x \in Endpoints : Alive(chan', x) <=> Alive(chan, x)
  <2>1. Len(Queue(chan, e, "recv")) < MaxWaiters
    BY <1>4, <1>5
  <2>2. /\ chan[e].peer # None /\ "recv" = "send" => chan[chan[e].peer].recv = <<>>
        /\ chan[e].peer # None /\ "recv" = "recv" => chan[chan[e].peer].send = <<>>
    BY <1>4
  <2>3. Alive(chan, e)
    BY <1>1 DEF Sound, Linked, Alive
  <2> QED BY <1>1, <1>5, <1>6, <2>1, <2>2, <2>3, AppendSound
<1>8. Once(chan') /\ Joined(chan', chan, w, "recv")
  <2>1. /\ Once(chan')
        /\ \A t \in Threads, side \in Sides :
             Waits(chan', t, side) <=> Waits(chan, t, side) \/ (t = w /\ side = "recv")
    BY <1>1, <1>3, <1>5, <1>6, AppendPlaces
  <2> QED BY <2>1 DEF Joined
<1>9. /\ CpuSound(run', ready', cpu') /\ kernel' = kernel /\ Stopped(run', run, w)
  <2>1. /\ CpuSound(run', ready', cpu') /\ kernel' = kernel
        /\ \A t \in Threads : run'[t] = "Blocked" <=> t = cpu \/ (run[t] = "Blocked" /\ t \notin {})
    BY <1>1, <1>4, SuspendSound
  <2> QED BY <1>2, <2>1 DEF Stopped
<1>10. /\ tcb' \in [Threads -> Tcb] /\ tcb'[w].call = "read"
       /\ \A t \in Threads : tcb'[t].stash = tcb[t].stash /\ (t # w => tcb'[t].call = tcb[t].call)
  <2> DEFINE rec == [tcb[w] EXCEPT !.call = "read", !.len = n, !.actual = 0]
  <2>1. tcb' = [tcb EXCEPT ![w] = rec]
    BY <1>1, <1>4
  <2>2. rec \in Tcb /\ rec.call = "read" /\ rec.stash = tcb[w].stash
    BY <1>1 DEF Tcb, Calls
  <2> HIDE DEF rec
  <2> QED BY <1>1, <2>1, <2>2
<1>11. Matched(chan', run', tcb')
  <2>1. SameCalls(tcb', tcb, {w})
    BY <1>10 DEF SameCalls
  <2> QED BY <1>1, <1>3, <1>5, <1>8, <1>9, <1>10, <2>1, BlockMatched
<1>12. OwnedOnce(chan', table', tcb')
  BY <1>1, <1>4, <1>7, <1>10, SameOwners
<1> QED BY <1>1, <1>4, <1>7, <1>8, <1>9, <1>10, <1>11, <1>12 DEF Core

\* HANDLE_CLOSE.
LEMMA CloseKeeps ==
  ASSUME Core(chan, table), NEW e \in Endpoints, sys_handle_close(e)
  PROVE  Core(chan, table)'
<1>1. Sound(chan) /\ Once(chan) /\ ChanType(chan) /\ CpuSound(run, ready, cpu) /\ Matched(chan, run, tcb)
      /\ OwnedOnce(chan, table, tcb) /\ kernel \in {"running", "corrupt"} /\ tcb \in [Threads -> Tcb]
  BY DEF Core, Sound
<1>2. PICK me \in Procs : me = Me
  BY CoreParts
<1>3. PICK D : D = {e}
  OBVIOUS
<1>4. PICK rel : rel = Released(chan, D)
  OBVIOUS
<1>5. /\ e \in table[me] /\ table' = [table EXCEPT ![me] = @ \ {e}]
      /\ chan' = Drop(chan, D) /\ Notify(rel) /\ tcb' = tcb
  BY <1>2, <1>3, <1>4 DEF sys_handle_close
<1>6. D \in SUBSET Endpoints /\ \A x \in D : Alive(chan, x)
  BY <1>3, <1>5, CoreParts
<1>7. /\ Sound(chan') /\ Once(chan') /\ rel \subseteq Threads
      /\ Dropped(chan', chan, D) /\ Quit(chan', chan, rel)
  BY <1>1, <1>4, <1>5, <1>6, DropPlaces
<1>8. CpuSound(run', ready', cpu') /\ kernel' = kernel /\ Woken(run', run, rel)
  BY <1>1, <1>5, <1>7, NotifySound
<1>9. Matched(chan', run', tcb')
  <2>1. SameCalls(tcb', tcb, {})
    BY <1>5 DEF SameCalls
  <2> QED BY <1>1, <1>7, <1>8, <2>1, ReleaseMatched
<1>10. /\ table' \in [Procs -> SUBSET Endpoints]
       /\ \A p \in Procs : table'[p] = IF p = me THEN table[p] \ D ELSE table[p]
  BY <1>3, <1>5, CoreParts
<1>11. Tables(table')
  <2>1. ASSUME NEW p \in Procs
        PROVE  Cardinality(table'[p]) <= MaxHandles
    <3>1. /\ table[p] \in SUBSET Endpoints /\ Cardinality(table[p]) <= MaxHandles
          /\ table[p] \ D \in SUBSET Endpoints
      BY CoreParts
    <3>2. /\ Cardinality(table[p] \ D) <= Cardinality(table[p]) /\ Cardinality(table[p]) \in Nat
          /\ Cardinality(table[p] \ D) \in Nat /\ MaxHandles \in Nat
      BY <1>6, <3>1, AddFits, IpcBoundsAssumption
    <3>3. Cardinality(table[p] \ D) <= MaxHandles
      BY <3>1, <3>2
    <3> QED BY <1>10, <3>1, <3>3
  <2> QED BY <1>10, <2>1 DEF Tables
<1>12. OwnedOnce(chan', table', tcb')
  <2> DEFINE c == <<"table", me>>
  <2>1. c \in Holders /\ \A x \in D : Holds(table, tcb, c, x)
    BY <1>3, <1>5, HoldersAre
  <2>2. ASSUME NEW p \in Procs, NEW x \in Endpoints
        PROVE  x \in table'[p] <=> x \in table[p] /\ x \notin D
    <3>1. e \in table[p] => p = me
      BY <1>1, <1>5, HeldApart
    <3> QED BY <1>3, <1>10, <3>1
  <2>3. \A t \in Threads : e \notin tcb[t].stash
    BY <1>1, <1>5, HeldApart
  <2> HIDE DEF c
  <2>4. TablesMoved(table', table, D, c, {})
    BY <2>2 DEF TablesMoved
  <2>5. StashesMoved(tcb', tcb, D, c, {})
    BY <1>3, <1>5, <2>3 DEF StashesMoved
  <2>6. Moved(table', tcb', table, tcb, D, c, {})
    BY <2>1, <2>4, <2>5, MovedIs
  <2>7. D \ {} = D
    OBVIOUS
  <2> QED BY <1>1, <1>6, <1>7, <2>1, <2>6, <2>7, MoveOwned
<1> QED BY <1>1, <1>5, <1>7, <1>8, <1>9, <1>11, <1>12 DEF Core

\* The two endpoints that a call makes.
LEMMA TwoUnborn ==
  ASSUME NEW a, a = Min(Unborn), NEW b, b = Min(Unborn \ {a}), Cardinality(Unborn) >= 2
  PROVE  /\ a \in Endpoints /\ b \in Endpoints /\ a # b
         /\ chan[a].state = "Unborn" /\ chan[b].state = "Unborn"
<1>1. Unborn \in SUBSET Endpoints /\ Unborn \in SUBSET Nat /\ Unborn \ {a} \in SUBSET Nat
  BY IpcBoundsAssumption DEF Unborn, Endpoints
<1>2. IsFiniteSet(Unborn) /\ Cardinality(Unborn) \in Nat
  <2>1. {} \in SUBSET Endpoints
    OBVIOUS
  <2> QED BY <1>1, <2>1, AddFits
<1>3. Unborn # {}
  BY <1>2, FS_EmptySet
<1>4. a \in Unborn
  BY <1>1, <1>3, LeastNumber
<1>5. Unborn \ {a} # {}
  <2>1. Cardinality(Unborn \ {a}) = Cardinality(Unborn) - 1
    BY <1>2, <1>4, FS_RemoveElement
  <2>2. Cardinality(Unborn \ {a}) # 0
    BY <1>2, <2>1
  <2> QED BY <2>2, FS_EmptySet
<1>6. b \in Unborn \ {a}
  BY <1>1, <1>5, LeastNumber
<1> QED BY <1>4, <1>6 DEF Unborn

\* New endpoints that nobody knows yet: a with its peer, or without one.
LEMMA BirthSound ==
  ASSUME Core(chan, table), NEW a \in Endpoints, NEW b \in Endpoints, a # b,
         chan[a].state = "Unborn", chan[b].state = "Unborn",
         NEW cd, NEW N,
         \/ cd = Pair(chan, a, b) /\ N = {a, b}
         \/ cd = HalfPair(chan, a, b) /\ N = {a}
  PROVE  Sound(cd) /\ Once(cd) /\ Quit(cd, chan, {}) /\ Born(cd, chan, N)
         /\ \A e \in Endpoints : e \notin {a, b} => cd[e] = chan[e]
<1>1. Sound(chan) /\ Once(chan) /\ ChanType(chan) /\ chan \in [Endpoints -> Endpoint]
  BY DEF Core, Sound, ChanType
<1>2. PICK x \in Endpoint : /\ x.state = "Open" /\ x.peer = (IF N = {a, b} THEN b ELSE None)
                            /\ x.send = <<>> /\ x.recv = <<>> /\ cd[a] = x
  <2>1. CASE cd = Pair(chan, a, b) /\ N = {a, b}
    <3>1. cd[a] = NewEndpoint("Open", b)
      BY <1>1, <2>1 DEF Pair
    <3> QED BY <2>1, <3>1, NewIs
  <2>2. CASE cd = HalfPair(chan, a, b) /\ N = {a}
    <3>1. cd[a] = NewEndpoint("Open", None)
      BY <1>1, <2>2 DEF HalfPair
    <3>2. N # {a, b}
      BY <2>2
    <3> QED BY <3>1, <3>2, NewIs
  <2> QED BY <2>1, <2>2
<1>3. PICK y \in Endpoint : /\ y.state = (IF N = {a, b} THEN "Open" ELSE "Freed")
                            /\ y.peer = (IF N = {a, b} THEN a ELSE None)
                            /\ y.send = <<>> /\ y.recv = <<>> /\ cd[b] = y
  <2>1. CASE cd = Pair(chan, a, b) /\ N = {a, b}
    <3>1. cd[b] = NewEndpoint("Open", a)
      BY <1>1, <2>1 DEF Pair
    <3> QED BY <2>1, <3>1, NewIs
  <2>2. CASE cd = HalfPair(chan, a, b) /\ N = {a}
    <3>1. cd[b] = NewEndpoint("Freed", None)
      BY <1>1, <2>2 DEF HalfPair
    <3>2. N # {a, b}
      BY <2>2
    <3> QED BY <3>1, <3>2, NewIs
  <2> QED BY <2>1, <2>2
<1>4. cd = [e \in Endpoints |-> cd[e]] /\ \A e \in Endpoints : e \notin {a, b} => cd[e] = chan[e]
  BY <1>1 DEF Pair, HalfPair
<1>5. /\ chan[a].peer = None /\ chan[a].send = <<>> /\ chan[a].recv = <<>>
      /\ chan[b].peer = None /\ chan[b].send = <<>> /\ chan[b].recv = <<>>
  BY <1>1 DEF Sound, Empties
<1>6. \A e \in Endpoints : cd[e].send = chan[e].send /\ cd[e].recv = chan[e].recv /\ cd[e] \in Endpoint
  BY <1>1, <1>2, <1>3, <1>4, <1>5
<1>7. ChanType(cd)
  <2>1. \A e \in Endpoints : Len(chan[e].send) <= MaxWaiters /\ Len(chan[e].recv) <= MaxWaiters
    BY <1>1, ChanFields
  <2>2. \A e \in Endpoints : Len(cd[e].send) <= MaxWaiters /\ Len(cd[e].recv) <= MaxWaiters
    BY <1>6, <2>1
  <2> QED BY <1>4, <1>6, <2>2, ChanTypeIs
<1>8. Empties(cd)
  BY <1>1, <1>2, <1>3, <1>4 DEF Sound, Empties
<1>9. ASSUME NEW e \in Endpoints, e \notin {a, b}, chan[e].peer # None
      PROVE  chan[e].peer \notin {a, b} /\ chan[e].peer \in Endpoints
  <2>1. chan[chan[e].peer].state = "Open" /\ chan[e].peer \in Endpoints
    BY <1>1, <1>9, ChanFields DEF Sound, Linked
  <2> QED BY <2>1
<1>10. Linked(cd)
  <2> SUFFICES ASSUME NEW e \in Endpoints, cd[e].peer # None
               PROVE  /\ cd[e].peer # e /\ cd[cd[e].peer].peer = e
                      /\ cd[e].state = "Open" /\ cd[cd[e].peer].state = "Open"
    BY DEF Linked
  <2>1. CASE e \in {a, b}
    BY <1>2, <1>3, <2>1
  <2>2. CASE e \notin {a, b}
    BY <1>1, <1>4, <1>9, <2>2 DEF Sound, Linked
  <2> QED BY <2>1, <2>2
<1>11. Meeting(cd)
  <2> SUFFICES ASSUME NEW e \in Endpoints, cd[e].peer # None
               PROVE  cd[e].recv = <<>> \/ cd[cd[e].peer].send = <<>>
    BY DEF Meeting
  <2>1. CASE e \in {a, b}
    BY <1>2, <1>3, <2>1
  <2>2. CASE e \notin {a, b}
    BY <1>1, <1>4, <1>6, <1>9, <2>2 DEF Sound, Meeting
  <2> QED BY <2>1, <2>2
<1>12. Once(cd) /\ Quit(cd, chan, {})
  <2>1. \A e \in Endpoints, side \in Sides :
          Queue(cd, e, side) = IF e \in {} THEN <<>> ELSE Queue(chan, e, side)
    BY <1>6 DEF Queue
  <2>2. {} \in SUBSET Endpoints /\ UNION {Waiters(chan, e) : e \in {}} = {}
    OBVIOUS
  <2>3. /\ Once(cd)
        /\ \A t \in Threads, side \in Sides :
             Waits(cd, t, side) <=> Waits(chan, t, side) /\ t \notin UNION {Waiters(chan, e) : e \in {}}
    BY <1>1, <2>1, <2>2, ClearPlaces
  <2> QED BY <2>2, <2>3 DEF Quit
<1>13. Born(cd, chan, N)
  <2> SUFFICES ASSUME NEW e \in Endpoints
               PROVE  Alive(cd, e) <=> Alive(chan, e) \/ e \in N
    BY DEF Born
  <2>1. N = {a, b} \/ (N = {a} /\ N # {a, b})
    OBVIOUS
  <2> QED BY <1>2, <1>3, <1>4, <2>1 DEF Alive
<1> QED BY <1>4, <1>7, <1>8, <1>10, <1>11, <1>12, <1>13 DEF Sound

\* They go into the caller's table, where there is room for them.
LEMMA BirthKeeps ==
  ASSUME Core(chan, table), NEW a \in Endpoints, NEW b \in Endpoints, a # b,
         chan[a].state = "Unborn", chan[b].state = "Unborn",
         NEW cd, NEW ub, NEW N, ub = [table EXCEPT ![Me] = @ \cup N],
         \/ cd = Pair(chan, a, b) /\ N = {a, b} /\ Room(Me) >= 2
         \/ cd = HalfPair(chan, a, b) /\ N = {a} /\ Room(Me) >= 1
  PROVE  Core(cd, ub)
<1>1. Sound(cd) /\ Once(cd) /\ Quit(cd, chan, {}) /\ Born(cd, chan, N)
  BY BirthSound
<1>2. PICK me \in Procs : me = Me
  BY CoreParts
<1>3. Matched(cd, run, tcb)
  <2>1. Woken(run, run, {}) /\ SameCalls(tcb, tcb, {}) /\ Matched(chan, run, tcb)
    BY DEF Woken, SameCalls, Core
  <2> QED BY <1>1, <2>1, ReleaseMatched
<1>4. N \in SUBSET Endpoints /\ \A e \in N : ~Alive(chan, e)
  BY DEF Alive
<1>5. /\ ub \in [Procs -> SUBSET Endpoints]
      /\ \A p \in Procs : ub[p] = IF p = me THEN table[p] \cup N ELSE table[p]
  BY <1>2, <1>4, CoreParts
<1>6. Cardinality(table[me] \cup N) <= MaxHandles
  <2>1. /\ Cardinality({a}) = 1 /\ IsFiniteSet({a})
        /\ Cardinality({a, b}) = 2
    <3>1. Cardinality({a}) = 1 /\ IsFiniteSet({a})
      BY FS_Singleton
    <3>2. Cardinality({a} \cup {b}) = 1 + 1
      BY <3>1, FS_AddElement
    <3>3. {a} \cup {b} = {a, b}
      OBVIOUS
    <3> QED BY <3>1, <3>2, <3>3
  <2>2. /\ table[me] \in SUBSET Endpoints /\ Cardinality(table[me]) \in Nat
        /\ Cardinality(table[me] \cup N) \in Nat
        /\ Cardinality(table[me] \cup N) <= Cardinality(table[me]) + Cardinality(N)
    <3>1. table[me] \in SUBSET Endpoints
      BY CoreParts
    <3> QED BY <1>4, <3>1, AddFits
  <2>3. MaxHandles \in Nat /\ (Cardinality(N) = 1 \/ Cardinality(N) = 2)
        /\ MaxHandles - Cardinality(table[me]) >= Cardinality(N)
    BY <1>2, <2>1, IpcBoundsAssumption DEF Room
  <2> DEFINE x == Cardinality(table[me])
             y == Cardinality(N)
             z == Cardinality(table[me] \cup N)
  <2>4. /\ x \in Nat /\ y \in Nat /\ z \in Nat /\ MaxHandles \in Nat
        /\ MaxHandles - x >= y /\ z <= x + y
    BY <2>2, <2>3
  <2> HIDE DEF x, y, z
  <2>5. z <= MaxHandles
    BY <2>4
  <2> QED BY <2>5 DEF z
<1>7. Tables(ub)
  BY <1>5, <1>6, CoreParts DEF Tables
<1>8. OwnedOnce(cd, ub, tcb)
  <2> DEFINE d == <<"table", me>>
  <2>1. d \in Holders /\ OwnedOnce(chan, table, tcb)
    BY HoldersAre DEF Core
  <2>2. Given(ub, table, tcb, d, N)
    <3> SUFFICES ASSUME NEW h \in Holders, NEW e \in Endpoints
                 PROVE  Holds(ub, tcb, h, e) <=> Holds(table, tcb, h, e) \/ (h = d /\ e \in N)
      BY DEF Given
    <3>1. CASE \E p \in Procs : h = <<"table", p>>
      <4>1. PICK p \in Procs : h = <<"table", p>>
        BY <3>1
      <4>2. h = d <=> p = me
        BY <4>1
      <4> HIDE DEF d
      <4> QED BY <1>5, <4>1, <4>2, HoldersAre
    <3>2. CASE \E t \in Threads : h = <<"stash", t>>
      <4>1. PICK t \in Threads : h = <<"stash", t>>
        BY <3>2
      <4>2. h # d
        BY <4>1
      <4> HIDE DEF d
      <4> QED BY <4>1, <4>2, HoldersAre
    <3> QED BY <3>1, <3>2, HoldersAre
  <2> HIDE DEF d
  <2> QED BY <1>1, <1>4, <2>1, <2>2, BearOwned
<1> QED BY <1>1, <1>3, <1>7, <1>8 DEF Core

\* sys_channel_create.
LEMMA CreateKeeps ==
  ASSUME Core(chan, table), sys_channel_create
  PROVE  Core(chan, table)'
<1>1. PICK a : a = Min(Unborn)
  OBVIOUS
<1>2. PICK b : b = Min(Unborn \ {a})
  OBVIOUS
<1>3. /\ Cardinality(Unborn) >= 2
      /\ \/ Room(Me) >= 2 /\ chan' = Pair(chan, a, b) /\ table' = [table EXCEPT ![Me] = @ \cup {a, b}]
         \/ Room(Me) = 1 /\ chan' = HalfPair(chan, a, b) /\ table' = [table EXCEPT ![Me] = @ \cup {a}]
      /\ UNCHANGED <<run, ready, cpu, kernel, tcb>>
  BY <1>1, <1>2 DEF sys_channel_create
<1>4. a \in Endpoints /\ b \in Endpoints /\ a # b /\ chan[a].state = "Unborn" /\ chan[b].state = "Unborn"
  BY <1>1, <1>2, <1>3, TwoUnborn
<1>5. PICK cd : cd = chan'
  OBVIOUS
<1>6. PICK ub : ub = table'
  OBVIOUS
<1>7. PICK N : /\ ub = [table EXCEPT ![Me] = @ \cup N]
               /\ \/ cd = Pair(chan, a, b) /\ N = {a, b} /\ Room(Me) >= 2
                  \/ cd = HalfPair(chan, a, b) /\ N = {a} /\ Room(Me) >= 1
  <2>1. Room(Me) = 1 => Room(Me) >= 1
    OBVIOUS
  <2> QED BY <1>3, <1>5, <1>6, <2>1
<1>8. Core(cd, ub)
  BY <1>4, <1>7, BirthKeeps
<1> QED BY <1>3, <1>5, <1>6, <1>8 DEF Core

\* sys_channel_lookup.
LEMMA LookupKeeps ==
  ASSUME IpcInv, NEW n \in Names, sys_channel_lookup(n)
  PROVE  Core(chan, table)'
<1>1. Core(chan, table) /\ services \in [Names -> Endpoints \cup {None}]
  BY DEF IpcInv
<1>2. PICK a : a = Min(Unborn)
  OBVIOUS
<1>3. PICK b : b = Min(Unborn \ {a})
  OBVIOUS
<1>4. PICK s : s = services[n]
  OBVIOUS
<1>5. PICK ch : ch = Pair(chan, a, b)
  OBVIOUS
<1>6. PICK tab : tab = [table EXCEPT ![Me] = @ \cup {a, b}]
  OBVIOUS
<1>7. PICK e : e = chan[s].peer
  OBVIOUS
<1>8. /\ s # None /\ Cardinality(Unborn) >= 2 /\ InProgram
      /\ \/ /\ Room(Me) = 1
            /\ chan' = HalfPair(chan, a, b)
            /\ table' = [table EXCEPT ![Me] = @ \cup {a}]
            /\ UNCHANGED <<run, ready, cpu, kernel, tcb>>
         \/ /\ Room(Me) >= 2
            /\ \/ chan' = ch /\ table' = tab /\ Corrupt /\ UNCHANGED tcb
               \/ chan' = ch /\ table' = tab /\ UNCHANGED <<run, ready, cpu, kernel, tcb>>
               \/ e # None /\ Write(ch, tab, e, {b}, 0, "lookup")
  BY <1>2, <1>3, <1>4, <1>5, <1>6, <1>7 DEF sys_channel_lookup
<1>9. a \in Endpoints /\ b \in Endpoints /\ a # b /\ chan[a].state = "Unborn" /\ chan[b].state = "Unborn"
  BY <1>2, <1>3, <1>8, TwoUnborn
<1>10. CASE /\ Room(Me) = 1
            /\ chan' = HalfPair(chan, a, b)
            /\ table' = [table EXCEPT ![Me] = @ \cup {a}]
            /\ UNCHANGED <<run, ready, cpu, kernel, tcb>>
  <2>1. PICK cd : cd = chan'
    OBVIOUS
  <2>2. PICK ub : ub = table'
    OBVIOUS
  <2>3. PICK N : N = {a}
    OBVIOUS
  <2>4. /\ ub = [table EXCEPT ![Me] = @ \cup N]
        /\ cd = HalfPair(chan, a, b) /\ N = {a} /\ Room(Me) >= 1
    BY <1>10, <2>1, <2>2, <2>3
  <2>5. Core(cd, ub)
    BY <1>1, <1>9, <2>4, BirthKeeps
  <2> QED BY <1>10, <2>1, <2>2, <2>5 DEF Core
<1>11. CASE Room(Me) >= 2
  <2>1. PICK N : N = {a, b}
    OBVIOUS
  <2>2. tab = [table EXCEPT ![Me] = @ \cup N]
    BY <1>6, <2>1
  <2>3. Core(ch, tab)
    BY <1>1, <1>5, <1>9, <1>11, <2>1, <2>2, BirthKeeps
  <2>4. CASE chan' = ch /\ table' = tab /\ Corrupt /\ UNCHANGED tcb
    <3>1. kernel' = "corrupt" /\ UNCHANGED <<run, ready, cpu, tcb>> /\ chan' = ch /\ table' = tab
      BY <2>4 DEF Corrupt
    <3> QED BY <2>3, <3>1 DEF Core
  <2>5. CASE chan' = ch /\ table' = tab /\ UNCHANGED <<run, ready, cpu, kernel, tcb>>
    BY <2>3, <2>5 DEF Core
  <2>6. CASE e # None /\ Write(ch, tab, e, {b}, 0, "lookup")
    <3>1. s \in Endpoints
      BY <1>1, <1>4, <1>8
    <3>2. e \in Endpoints /\ chan[s].state = "Open" /\ chan[e].state = "Open" /\ chan[e].peer = s
      BY <1>1, <1>7, <2>6, <3>1, ChanFields DEF Core, Sound, Linked
    <3>3. ch[e] = chan[e]
      <4>1. e # a /\ e # b /\ e \notin {a, b}
        BY <1>9, <3>2
      <4>2. PICK M : M = {a, b}
        OBVIOUS
      <4> QED BY <1>1, <1>5, <1>9, <3>2, <4>1, <4>2, BirthSound
    <3>4. ch[e].peer # None
      BY <1>8, <3>2, <3>3
    <3>5. {b} \in SUBSET tab[Me]
      BY <1>1, <1>6, CoreParts
    <3>6. cpu \notin Idlers
      BY <1>8 DEF InProgram
    <3>7. 0 \in {0, 1} /\ "lookup" \in {"write", "lookup"}
      OBVIOUS
    <3> QED BY <2>3, <2>6, <3>2, <3>4, <3>5, <3>6, <3>7, WriteKeeps
  <2> QED BY <1>8, <1>11, <2>4, <2>5, <2>6
<1> QED BY <1>8, <1>10, <1>11

\* Return.
LEMMA ReturnKeeps ==
  ASSUME Core(chan, table), Return
  PROVE  Core(chan, table)'
<1>1. /\ CpuSound(run, ready, cpu) /\ kernel \in {"running", "corrupt"}
      /\ Sound(chan) /\ Once(chan) /\ Matched(chan, run, tcb)
      /\ Tables(table) /\ OwnedOnce(chan, table, tcb) /\ tcb \in [Threads -> Tcb]
  BY DEF Core
<1> DEFINE rec == [tcb[cpu] EXCEPT !.call = "user", !.len = 0, !.actual = 0]
<1>2. /\ tcb' = [tcb EXCEPT ![cpu] = rec] /\ cpu \in Threads
      /\ UNCHANGED <<run, ready, cpu, kernel, chan, table>>
  BY CoreParts DEF Return
<1>3. rec \in Tcb /\ rec.call = "user" /\ rec.stash = tcb[cpu].stash
  BY <1>1, CoreParts DEF Tcb, Calls
<1> HIDE DEF rec
<1>4. /\ tcb' \in [Threads -> Tcb]
      /\ \A t \in Threads : tcb'[t] = IF t = cpu THEN rec ELSE tcb[t]
  BY <1>1, <1>2, <1>3
<1>5. Matched(chan', run', tcb')
  <2>1. \A side \in Sides : ~Waits(chan, cpu, side)
    BY CoreParts
  <2>2. "send" \in Sides /\ "recv" \in Sides /\ chan' = chan /\ run' = run
    BY <1>2 DEF Sides
  <2> QED BY <1>1, <1>4, <2>1, <2>2 DEF Matched
<1>6. OwnedOnce(chan', table', tcb')
  <2>1. \A t \in Threads : tcb'[t].stash = tcb[t].stash
    BY <1>3, <1>4
  <2>2. \A e \in Endpoints : Alive(chan', e) <=> Alive(chan, e)
    BY <1>2
  <2> QED BY <1>1, <1>2, <2>1, <2>2, SameOwners
<1> QED BY <1>1, <1>2, <1>4, <1>5, <1>6 DEF Core

\* The caller calls schedule() without waiting: Tick and Exit.
LEMMA YieldKeeps ==
  ASSUME Core(chan, table), NEW r, Switch(r, ready), UNCHANGED ipcVars,
         \/ r = run
         \/ r = [run EXCEPT ![cpu] = "Dead"] /\ cpu \notin Idlers
  PROVE  Core(chan, table)'
<1>1. /\ CpuSound(run, ready, cpu) /\ kernel \in {"running", "corrupt"}
      /\ Sound(chan) /\ Once(chan) /\ Matched(chan, run, tcb)
      /\ Tables(table) /\ OwnedOnce(chan, table, tcb) /\ tcb \in [Threads -> Tcb]
      /\ UNCHANGED <<chan, table, tcb>>
  BY DEF Core, ipcVars
<1>2. /\ run \in [Threads -> {"Ready", "Running", "Blocked", "Dead"}] /\ cpu \in Threads
      /\ \A t \in Threads : run[t] = "Running" <=> t = cpu
      /\ ready = {t \in Threads : run[t] = "Ready"}
      /\ \A t \in Idlers : run[t] \in {"Ready", "Running"}
      /\ Idlers \subseteq Threads
  BY <1>1, ProcAssumption DEF CpuSound
<1>3. /\ r \in [Threads -> {"Ready", "Running", "Blocked", "Dead"}]
      /\ \A t \in Threads : t # cpu => r[t] = run[t]
      /\ r[cpu] \in {"Running", "Dead"}
      /\ \A t \in Idlers : r[t] = run[t]
  BY <1>2
<1>4. \A t \in Threads : r[t] = "Running" => t = cpu
  BY <1>2, <1>3
<1>5. ready = {t \in Threads : r[t] = "Ready"}
  BY <1>2, <1>3
<1>6. \A t \in Idlers : r[t] \in {"Ready", "Running"}
  BY <1>2, <1>3
<1>7. /\ CpuSound(run', ready', cpu') /\ kernel' = kernel
      /\ \A t \in Threads : run'[t] = "Blocked" <=> r[t] = "Blocked"
  <2>1. PICK q : q = ready
    OBVIOUS
  <2>2. Switch(r, q) /\ q = {t \in Threads : r[t] = "Ready"} /\ r[cpu] # "Ready"
    BY <1>3, <1>5, <2>1
  <2> QED BY <1>2, <1>3, <1>4, <1>6, <2>2, SwitchSound
<1>8. Matched(chan', run', tcb')
  <2>1. \A t \in Threads : r[t] = "Blocked" <=> run[t] = "Blocked"
    BY <1>2, <1>3
  <2>2. Quit(chan', chan, {}) /\ Woken(run', run, {}) /\ SameCalls(tcb', tcb, {})
    BY <1>1, <1>7, <2>1 DEF Quit, Woken, SameCalls
  <2> QED BY <1>1, <2>2, ReleaseMatched
<1> QED BY <1>1, <1>7, <1>8 DEF Core

-----------------------------------------------------------------------------
(* The specification. *)

\* The state the loader leaves.
LEMMA InitSound ==
  ASSUME IpcInit
  PROVE  IpcInv
<1>1. PICK c \in Threads : /\ cpu = c
                           /\ run = [i \in Threads |-> IF i = c THEN "Running" ELSE "Ready"]
                           /\ ready = Threads \ {c}
  BY DEF IpcInit
<1>2. /\ kernel = "running"
      /\ chan = [e \in Endpoints |-> NewEndpoint("Unborn", None)]
      /\ table = [p \in Procs |-> {}]
      /\ tcb = [t \in Threads |-> [call |-> "user", len |-> 0, actual |-> 0, stash |-> {}]]
      /\ services = [n \in Names |-> None]
  BY DEF IpcInit
<1>3. CpuSound(run, ready, cpu)
  BY <1>1, ProcAssumption DEF CpuSound
<1>4. \A e \in Endpoints : /\ chan[e] \in Endpoint /\ chan[e].state = "Unborn" /\ chan[e].peer = None
                           /\ chan[e].send = <<>> /\ chan[e].recv = <<>>
  BY <1>2, NewIs
<1>5. Sound(chan)
  <2>1. 0 <= MaxWaiters /\ Len(<<>>) = 0
    BY IpcBoundsAssumption
  <2>2. \A e \in Endpoints : Len(chan[e].send) <= MaxWaiters /\ Len(chan[e].recv) <= MaxWaiters
    BY <1>4, <2>1
  <2>3. chan = [e \in Endpoints |-> chan[e]]
    BY <1>2
  <2>4. ChanType(chan)
    BY <1>4, <2>2, <2>3, ChanTypeIs
  <2> QED BY <1>4, <2>4 DEF Sound, Empties, Linked, Meeting
<1>6. \A t, e, k : \A side \in Sides : e \in Endpoints => ~WaitsAt(chan, t, e, side, k)
  <2>1. Len(<<>>) = 0 /\ 1..0 = {}
    OBVIOUS
  <2>2. \A e \in Endpoints, side \in Sides : Queue(chan, e, side) = <<>>
    BY <1>4 DEF Queue
  <2> QED BY <2>1, <2>2 DEF WaitsAt
<1>7. Once(chan) /\ Matched(chan, run, tcb)
  <2>1. \A t \in Threads, side \in Sides : ~Waits(chan, t, side)
    BY <1>6 DEF Waits
  <2>2. "send" \in Sides /\ "recv" \in Sides /\ \A t \in Threads : run[t] # "Blocked"
    BY <1>1 DEF Sides
  <2> QED BY <1>6, <2>1, <2>2 DEF Once, Matched
<1>8. Tables(table)
  <2>1. Cardinality({}) = 0 /\ 0 <= MaxHandles
    BY FS_EmptySet, IpcBoundsAssumption
  <2> QED BY <1>2, <2>1 DEF Tables
<1>9. tcb \in [Threads -> Tcb]
  BY <1>2 DEF Tcb, Calls
<1>10. OwnedOnce(chan, table, tcb)
  <2>1. \A p \in Procs : table[p] = {}
    BY <1>2
  <2>2. \A t \in Threads : tcb[t].stash = {}
    BY <1>2
  <2>3. \A e \in Endpoints, h \in Holders : ~Holds(table, tcb, h, e)
    BY <2>1, <2>2, HoldersAre
  <2> QED BY <1>4, <2>3 DEF OwnedOnce, Alive
<1> QED BY <1>2, <1>3, <1>5, <1>7, <1>8, <1>9, <1>10 DEF IpcInv, Core

\* Every step keeps the invariant.
LEMMA StepKeeps ==
  ASSUME IpcInv, [IpcNext]_vars
  PROVE  IpcInv'
<1>1. Core(chan, table) /\ services \in [Names -> Endpoints \cup {None}]
  BY DEF IpcInv
<1>2. Lens \subseteq {0, 1}
  BY LensAssumption
<1>3. ASSUME NEW e \in Endpoints, NEW n \in Lens, sys_channel_read(e, n)
      PROVE  IpcInv'
  <2>1. /\ chan[e].peer # None /\ cpu \notin Idlers /\ (ReadNow(e, n) \/ ReadWait(e, n))
        /\ UNCHANGED services /\ n \in {0, 1}
    BY <1>2, <1>3 DEF sys_channel_read, Usable, InProgram
  <2>2. Core(chan, table)'
    BY <1>1, <2>1, ReadNowKeeps, ReadWaitKeeps
  <2> QED BY <1>1, <2>1, <2>2 DEF IpcInv
<1>4. ASSUME NEW e \in Endpoints, NEW n \in Lens, NEW S \in Transfers(Me), sys_channel_write(e, S, n)
      PROVE  IpcInv'
  <2>1. /\ chan[e].peer # None /\ cpu \notin Idlers /\ Write(chan, table, e, S, n, "write")
        /\ UNCHANGED services /\ n \in {0, 1}
    BY <1>2, <1>4 DEF sys_channel_write, Usable, InProgram
  <2>2. PICK ch : ch = chan
    OBVIOUS
  <2>3. PICK tab : tab = table
    OBVIOUS
  <2>4. /\ Core(ch, tab) /\ ch[e].peer # None /\ S \in SUBSET tab[Me]
        /\ "write" \in {"write", "lookup"} /\ Write(ch, tab, e, S, n, "write")
    BY <1>1, <1>4, <2>1, <2>2, <2>3 DEF Transfers
  <2>5. Core(chan, table)'
    BY <2>1, <2>4, WriteKeeps
  <2> QED BY <1>1, <2>1, <2>5 DEF IpcInv
<1>5. ASSUME NEW e \in Endpoints, sys_handle_close(e)
      PROVE  IpcInv'
  <2>1. UNCHANGED services
    BY <1>5 DEF sys_handle_close
  <2> QED BY <1>1, <1>5, <2>1, CloseKeeps DEF IpcInv
<1>6. ASSUME sys_channel_create
      PROVE  IpcInv'
  <2>1. UNCHANGED services
    BY <1>6 DEF sys_channel_create
  <2> QED BY <1>1, <1>6, <2>1, CreateKeeps DEF IpcInv
<1>7. ASSUME NEW n \in Names, NEW e \in Endpoints, sys_channel_register(n, e)
      PROVE  IpcInv'
  <2>1. UNCHANGED <<run, ready, cpu, kernel, chan, table, tcb>> /\ services' = [services EXCEPT ![n] = e]
    BY <1>7 DEF sys_channel_register
  <2>2. services' \in [Names -> Endpoints \cup {None}]
    BY <1>1, <2>1
  <2>3. Core(chan, table)'
    BY <1>1, <2>1 DEF Core
  <2> QED BY <2>2, <2>3 DEF IpcInv
<1>8. ASSUME NEW n \in Names, sys_channel_lookup(n)
      PROVE  IpcInv'
  <2>1. UNCHANGED services
    BY <1>8 DEF sys_channel_lookup
  <2> QED BY <1>1, <1>8, <2>1, LookupKeeps DEF IpcInv
<1>9. ASSUME Return
      PROVE  IpcInv'
  <2>1. UNCHANGED services
    BY <1>9 DEF Return
  <2> QED BY <1>1, <1>9, <2>1, ReturnKeeps DEF IpcInv
<1>10. ASSUME Tick \/ Exit
       PROVE  IpcInv'
  <2>1. PICK r : /\ Switch(r, ready)
                 /\ \/ r = run
                    \/ r = [run EXCEPT ![cpu] = "Dead"] /\ cpu \notin Idlers
    BY <1>10 DEF Tick, Exit, InProgram
  <2>2. UNCHANGED ipcVars
    BY <1>10 DEF Tick, Exit
  <2>3. Core(chan, table)'
    BY <1>1, <2>1, <2>2, YieldKeeps
  <2> QED BY <1>1, <2>2, <2>3 DEF IpcInv, ipcVars
<1>11. ASSUME UNCHANGED vars
       PROVE  IpcInv'
  BY <1>1, <1>11 DEF vars, IpcInv, Core
<1> QED BY <1>3, <1>4, <1>5, <1>6, <1>7, <1>8, <1>9, <1>10, <1>11 DEF IpcNext

\* The inductive invariant holds in every reachable state.
THEOREM IpcInvariant == IpcSpec => []IpcInv
<1>1. IpcInit => IpcInv
  BY InitSound
<1>2. IpcInv /\ [IpcNext]_vars => IpcInv'
  BY StepKeeps
<1> QED BY <1>1, <1>2, PTL DEF IpcSpec

\* The types of the state; no handle table holds more than MAX_HANDLES.
THEOREM IpcTypes == IpcSpec => []IpcTypeOK
<1>1. IpcInv => IpcTypeOK
  <2> SUFFICES ASSUME IpcInv
               PROVE  IpcTypeOK
    OBVIOUS
  <2>1. /\ CpuSound(run, ready, cpu) /\ kernel \in {"running", "corrupt"}
        /\ ChanType(chan) /\ Tables(table) /\ tcb \in [Threads -> Tcb]
        /\ services \in [Names -> Endpoints \cup {None}]
    BY DEF IpcInv, Core, Sound
  <2>2. run \in [Threads -> RunStates] /\ ready \subseteq Threads /\ cpu \in Threads \cup {None}
    BY <2>1 DEF CpuSound, RunStates
  <2>3. chan \in [Endpoints -> Endpoint]
    BY <2>1 DEF ChanType
  <2>4. /\ table \in [Procs -> SUBSET Endpoints]
        /\ \A p \in Procs : Cardinality(table[p]) <= MaxHandles
    BY <2>1 DEF Tables
  <2> QED BY <2>1, <2>2, <2>3, <2>4 DEF IpcTypeOK
<1> QED BY <1>1, IpcInvariant, PTL

\* The raw peer pointer of an endpoint leads to a live, open endpoint that
\* points back.
THEOREM PeersAlwaysLinked == IpcSpec => []PeersLinked
<1>1. IpcInv => PeersLinked
  BY DEF IpcInv, Core, Sound, Linked, PeersLinked
<1> QED BY <1>1, IpcInvariant, PTL

\* A reader and a writer that could meet never both wait.
THEOREM RendezvousNeverMissed == IpcSpec => []NoMissedRendezvous
<1>1. IpcInv => NoMissedRendezvous
  BY DEF IpcInv, Core, Sound, Meeting, NoMissedRendezvous
<1> QED BY <1>1, IpcInvariant, PTL

\* A thread's registrations are the places where it waits.
LEMMA RegistrationsAre ==
  ASSUME ChanType(chan), NEW t \in Threads
  PROVE  /\ \A x \in Registrations(t) :
              /\ x[1] \in Endpoints /\ x[2] \in Sides /\ x[3] \in Nat /\ x = <<x[1], x[2], x[3]>>
              /\ WaitsAt(chan, t, x[1], x[2], x[3])
         /\ \A e \in Endpoints, side \in Sides, k \in Nat :
              WaitsAt(chan, t, e, side, k) => <<e, side, k>> \in Registrations(t)
<1>1. ASSUME NEW e \in Endpoints, NEW side \in Sides
      PROVE  /\ chan[e][side] = Queue(chan, e, side) /\ chan[e][side] \in Seq(Threads)
             /\ Len(chan[e][side]) <= MaxWaiters /\ Len(chan[e][side]) \in Nat
  <2>1. /\ chan[e] \in Endpoint /\ chan[e].send \in Seq(Threads) /\ chan[e].recv \in Seq(Threads)
        /\ Len(chan[e].send) <= MaxWaiters /\ Len(chan[e].recv) <= MaxWaiters
        /\ Queue(chan, e, "send") = chan[e].send /\ Queue(chan, e, "recv") = chan[e].recv
    BY ChanFields
  <2>2. CASE side = "send"
    BY <2>1, <2>2
  <2>3. CASE side = "recv"
    BY <2>1, <2>3
  <2> QED BY <2>2, <2>3 DEF Sides
<1>2. MaxWaiters \in Nat
  BY IpcBoundsAssumption
<1>3. ASSUME NEW x \in Registrations(t)
      PROVE  /\ x[1] \in Endpoints /\ x[2] \in Sides /\ x[3] \in Nat /\ x = <<x[1], x[2], x[3]>>
             /\ WaitsAt(chan, t, x[1], x[2], x[3])
  <2>1. /\ x \in Endpoints \X Sides \X (1..MaxWaiters)
        /\ x[3] <= Len(chan[x[1]][x[2]]) /\ chan[x[1]][x[2]][x[3]] = t
    BY DEF Registrations, Sides
  <2>2. x[1] \in Endpoints /\ x[2] \in Sides /\ x[3] \in 1..MaxWaiters /\ x = <<x[1], x[2], x[3]>>
    BY <2>1
  <2>3. chan[x[1]][x[2]] = Queue(chan, x[1], x[2]) /\ Len(chan[x[1]][x[2]]) \in Nat
    BY <1>1, <2>2
  <2> QED BY <1>2, <2>1, <2>2, <2>3 DEF WaitsAt
<1>4. ASSUME NEW e \in Endpoints, NEW side \in Sides, NEW k \in Nat, WaitsAt(chan, t, e, side, k)
      PROVE  <<e, side, k>> \in Registrations(t)
  <2>1. k \in 1..Len(chan[e][side]) /\ chan[e][side][k] = t
    BY <1>1, <1>4 DEF WaitsAt
  <2>2. k \in 1..MaxWaiters /\ k <= Len(chan[e][side])
    BY <1>1, <1>2, <2>1
  <2>3. <<e, side, k>> \in Endpoints \X Sides \X (1..MaxWaiters)
    BY <2>2
  <2> QED BY <2>1, <2>2, <2>3 DEF Registrations, Sides
<1> QED BY <1>3, <1>4

\* No lost and no stray wake-up: Blocked means registered as a waiter, in one
\* place, on the side the call says.
THEOREM WaitersAlwaysExact == IpcSpec => []WaitersExact
<1>1. IpcInv => WaitersExact
  <2> SUFFICES ASSUME IpcInv, NEW t \in Threads
               PROVE  /\ run[t] = "Blocked" <=> Registrations(t) # {}
                      /\ Cardinality(Registrations(t)) <= 1
                      /\ \A x \in Registrations(t) :
                           IF x[2] = "recv" THEN tcb[t].call = "read"
                           ELSE tcb[t].call \in {"write", "lookup"}
    BY DEF WaitersExact
  <2>1. ChanType(chan) /\ Once(chan) /\ Matched(chan, run, tcb)
    BY DEF IpcInv, Core, Sound
  <2>2. /\ \A x \in Registrations(t) :
             /\ x[1] \in Endpoints /\ x[2] \in Sides /\ x[3] \in Nat /\ x = <<x[1], x[2], x[3]>>
             /\ WaitsAt(chan, t, x[1], x[2], x[3])
        /\ \A e \in Endpoints, side \in Sides, k \in Nat :
             WaitsAt(chan, t, e, side, k) => <<e, side, k>> \in Registrations(t)
    BY <2>1, RegistrationsAre
  <2>3. Registrations(t) # {} <=> \E side \in Sides : Waits(chan, t, side)
    BY <2>2 DEF Waits
  <2>4. run[t] = "Blocked" <=> Registrations(t) # {}
    BY <2>1, <2>3 DEF Matched
  <2>5. \A x, y \in Registrations(t) : x = y
    <3> SUFFICES ASSUME NEW x \in Registrations(t), NEW y \in Registrations(t)
                 PROVE  x = y
      OBVIOUS
    <3>1. x[1] = y[1] /\ x[2] = y[2] /\ x[3] = y[3]
      BY <2>1, <2>2 DEF Once
    <3> QED BY <2>2, <3>1
  <2>6. Cardinality(Registrations(t)) <= 1
    <3>1. CASE Registrations(t) = {}
      BY <3>1, FS_EmptySet
    <3>2. CASE Registrations(t) # {}
      <4>1. PICK x : Registrations(t) = {x}
        BY <2>5, <3>2
      <4> QED BY <4>1, FS_Singleton
    <3> QED BY <3>1, <3>2
  <2>7. ASSUME NEW x \in Registrations(t)
        PROVE  IF x[2] = "recv" THEN tcb[t].call = "read"
               ELSE tcb[t].call \in {"write", "lookup"}
    <3>1. x[2] \in {"send", "recv"} /\ Waits(chan, t, x[2])
      BY <2>2 DEF Waits, Sides
    <3> QED BY <2>1, <3>1 DEF Matched
  <2> QED BY <2>4, <2>6, <2>7
<1> QED BY <1>1, IpcInvariant, PTL

\* An endpoint that exists is in one table or one stash, and one that does
\* not exist in none: no handle is copied or lost on any path.
THEOREM OwnerAlwaysSole == IpcSpec => []SoleOwner
<1>1. IpcInv => SoleOwner
  <2> SUFFICES ASSUME IpcInv, NEW e \in Endpoints
               PROVE  Cardinality(Owners(e)) = IF chan[e].state \in {"Open", "Closed"} THEN 1 ELSE 0
    BY DEF SoleOwner
  <2>1. OwnedOnce(chan, table, tcb)
    BY DEF IpcInv, Core
  <2>2. Alive(chan, e) <=> Owners(e) # {}
    <3>1. Alive(chan, e) <=> \E h \in Holders : Holds(table, tcb, h, e)
      BY <2>1 DEF OwnedOnce
    <3>2. (\E h \in Holders : Holds(table, tcb, h, e))
            <=> (\E p \in Procs : e \in table[p]) \/ (\E t \in Threads : e \in tcb[t].stash)
      <4>1. /\ \A p \in Procs : <<"table", p>> \in Holders /\ (Holds(table, tcb, <<"table", p>>, e) <=> e \in table[p])
            /\ \A t \in Threads : <<"stash", t>> \in Holders /\ (Holds(table, tcb, <<"stash", t>>, e) <=> e \in tcb[t].stash)
            /\ \A h \in Holders : \/ \E p \in Procs : h = <<"table", p>>
                                  \/ \E t \in Threads : h = <<"stash", t>>
        BY HoldersAre
      <4>2. ASSUME NEW h \in Holders, Holds(table, tcb, h, e)
            PROVE  (\E p \in Procs : e \in table[p]) \/ (\E t \in Threads : e \in tcb[t].stash)
        BY <4>1, <4>2
      <4> QED BY <4>1, <4>2
    <3>3. Owners(e) # {}
            <=> (\E p \in Procs : e \in table[p]) \/ (\E t \in Threads : e \in tcb[t].stash)
      BY DEF Owners
    <3> QED BY <3>1, <3>2, <3>3
  <2>3. \A x, y \in Owners(e) : x = y
    BY <2>1, HeldApart DEF Owners
  <2>4. CASE Alive(chan, e)
    <3>1. PICK x : Owners(e) = {x}
      BY <2>2, <2>3, <2>4
    <3> QED BY <2>4, <3>1, FS_Singleton DEF Alive
  <2>5. CASE ~Alive(chan, e)
    <3>1. Owners(e) = {}
      BY <2>2, <2>5
    <3> QED BY <2>5, <3>1, FS_EmptySet DEF Alive
  <2> QED BY <2>4, <2>5
<1> QED BY <1>1, IpcInvariant, PTL
=============================================================================
