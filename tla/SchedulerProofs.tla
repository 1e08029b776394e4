--------------------------- MODULE SchedulerProofs ---------------------------
(***************************************************************************)
(* For any number of slots and any creation priorities, the scheduler      *)
(* keeps its ready queues consistent with the thread table and never hands *)
(* the CPU to nobody, to a dead thread or to a thread that waits.  It      *)
(* implements the arbiter of module Cpu: behind queues, priorities and     *)
(* time slices a switch goes to a queued thread, and a wake-up is never    *)
(* lost in a full queue.  Of two queued threads it takes the more urgent   *)
(* one, and only thread_start leaves a Ready thread outside the queues.    *)
(***************************************************************************)
EXTENDS Scheduler, FiniteSetTheorems, SequenceTheorems,
        WellFoundedInduction, TLAPS

\* Before run() nobody owns the CPU.
BootInv == kernel = "booting" => current = None

\* The inductive invariant.
SchedInv == SchedTypeOK /\ QueuesSound /\ CpuHasLiveOwner /\ BootInv

-----------------------------------------------------------------------------
(* What popping does to well-formed queues. *)

QueueType == [Levels -> Seq(Slots)]
ThreadTable == [Slots -> Thread]

\* The entries of a queue array are slots.
LEMMA EntryIsSlot ==
  ASSUME NEW qs \in QueueType, NEW e \in Entries(qs)
  PROVE  /\ e = <<e[1], e[2]>> /\ e[1] \in Levels /\ e[2] \in 1..Len(qs[e[1]])
         /\ At(qs, e) \in Slots
  BY MaxThreadsAssumption DEF Entries, QueueType, At, Levels

\* Cancellation, stated over integers so that it applies to tuple components.
LEMMA AddCancel ==
  ASSUME NEW a \in Int, NEW b \in Int, NEW c \in Int, a + c = b + c
  PROVE  a = b
  OBVIOUS

\* A non-empty set of slots has a least element.
LEMMA LeastSlot ==
  ASSUME NEW S \in SUBSET Slots, S # {}
  PROVE  \E i \in S : \A j \in S : i <= j
<1> DEFINE less == {ss \in Nat \X Nat : ss[1] < ss[2]}
<1>1. IsWellFoundedOn(less, Nat)
  BY NatLessThanWellFounded DEF OpToRel
<1>2. S \subseteq Nat
  BY MaxThreadsAssumption DEF Slots
<1>3. PICK i \in S : \A j \in S : ~(<<j, i>> \in less)
  <2> HIDE DEF less
  <2> QED BY <1>1, <1>2, WFMin
<1>4. ASSUME NEW j \in S
      PROVE  i <= j
  <2>1. i \in Nat /\ j \in Nat /\ ~(j < i)
    BY <1>2, <1>3
  <2> QED BY <2>1
<1> QED BY <1>4

\* If any thread is queued, the head of the most urgent non-empty queue comes
\* before every other entry, so the first attempt of the pop loop finds it.
LEMMA UrgentHead ==
  ASSUME NEW qs \in QueueType, Entries(qs) # {},
         \A l \in Levels : Len(qs[l]) <= MaxThreads
  PROVE  \E h \in Entries(qs) : /\ \A f \in Entries(qs) : h = f \/ Before(h, f)
                                /\ Rank(qs, h) = 0
<1>1. PICK e \in Entries(qs) : TRUE
  OBVIOUS
<1>2. e[1] \in Levels /\ Len(qs[e[1]]) > 0
  BY <1>1, EntryIsSlot DEF QueueType
<1>3. \E l \in Levels : /\ Len(qs[l]) > 0
                        /\ \A m \in Levels : m < l => ~(Len(qs[m]) > 0)
  <2> DEFINE P(l) == Len(qs[l]) > 0
  <2> HIDE DEF P
  <2>1. \E l \in 0..4 : P(l) /\ \A m \in 0..4 : m < l => ~P(m)
    <3>1. P(0) \/ P(1) \/ P(2) \/ P(3) \/ P(4)
      BY <1>2 DEF P, Levels
    <3> QED BY <3>1
  <2> QED BY <2>1 DEF P, Levels
<1>4. PICK l \in Levels : /\ Len(qs[l]) > 0
                          /\ \A m \in Levels : m < l => ~(Len(qs[m]) > 0)
  BY <1>3
<1> DEFINE h == <<l, 1>>
<1>5. h \in Entries(qs)
  BY <1>4, MaxThreadsAssumption DEF Entries, QueueType
<1>6. ASSUME NEW f \in Entries(qs)
      PROVE  (h = f \/ Before(h, f)) /\ ~Before(f, h)
  <2>1. f = <<f[1], f[2]>> /\ f[1] \in Levels /\ f[2] \in 1..Len(qs[f[1]])
    BY EntryIsSlot
  <2>2. Len(qs[f[1]]) > 0
    BY <2>1 DEF QueueType
  <2>3. f[1] >= l
    BY <2>1, <2>2, <1>4 DEF Levels
  <2>4. f[1] \in Int /\ l \in Int /\ f[2] \in Int /\ f[2] >= 1
    BY <2>1, <1>4 DEF Levels
  <2>5. CASE f[1] = l
    <3>1. f[2] = 1 => f = h
      BY <2>1, <2>5
    <3> QED BY <3>1, <2>4, <2>5 DEF Before
  <2>6. CASE f[1] > l
    BY <2>4, <2>6 DEF Before
  <2> QED BY <2>3, <2>4, <2>5, <2>6
<1>7. {f \in Entries(qs) : Before(f, h)} = {}
  BY <1>6
<1>8. Rank(qs, h) = 0
  BY <1>7, FS_EmptySet DEF Rank
<1> QED BY <1>5, <1>6, <1>8

\* The queues after popping through an entry hold only entries they held
\* before, the popped one not among them.
LEMMA PopThroughSound ==
  ASSUME NEW th \in ThreadTable, NEW qs \in QueueType, QueuesMatch(th, qs),
         NEW e \in Entries(qs)
  PROVE  /\ PopThrough(qs, e) \in QueueType
         /\ QueuesMatch(th, PopThrough(qs, e))
         /\ \A f \in Entries(PopThrough(qs, e)) :
              /\ At(PopThrough(qs, e), f) # At(qs, e)
              /\ \E g \in Entries(qs) : At(PopThrough(qs, e), f) = At(qs, g)
<1> DEFINE ps == PopThrough(qs, e)
<1>1. e[1] \in Levels /\ e[2] \in 1..Len(qs[e[1]])
  BY EntryIsSlot
<1>2. ASSUME NEW l \in Levels
      PROVE  /\ ps[l] \in Seq(Slots)
             /\ Len(ps[l]) <= Len(qs[l])
             /\ Len(ps[l]) > 0 => l >= e[1]
             /\ l = e[1] => Len(ps[l]) = Len(qs[l]) - e[2]
             /\ l > e[1] => ps[l] = qs[l]
             /\ \A i \in 1..Len(ps[l]) :
                  ps[l][i] = IF l = e[1] THEN qs[l][i + e[2]] ELSE qs[l][i]
  <2>0. ps[l] = IF l < e[1] THEN <<>>
                ELSE IF l = e[1] THEN SubSeq(qs[l], e[2] + 1, Len(qs[l]))
                ELSE qs[l]
    BY DEF PopThrough
  <2>a. l \in Int /\ e[1] \in Int /\ qs[l] \in Seq(Slots) /\ Len(qs[l]) \in Nat
    BY <1>1 DEF Levels, QueueType
  <2> HIDE DEF ps
  <2>1. CASE l < e[1]
    <3>1. ps[l] = <<>>
      BY <2>0, <2>1
    <3> QED BY <3>1, <2>1, <2>a
  <2>2. CASE l = e[1]
    <3>0. ~(l < e[1])
      BY <2>2, <2>a
    <3>1. ps[l] = SubSeq(qs[l], e[2] + 1, Len(qs[l]))
      BY <2>0, <2>2, <3>0, Zenon
    <3>2. /\ qs[l] \in Seq(Slots) /\ Len(qs[l]) \in Nat
          /\ e[2] \in 1..Len(qs[l])
          /\ \A i \in (e[2] + 1)..Len(qs[l]) : qs[l][i] \in Slots
      BY <2>2, <1>1 DEF QueueType
    <3>3. /\ ps[l] \in Seq(Slots)
          /\ Len(ps[l]) = IF e[2] + 1 <= Len(qs[l])
                          THEN Len(qs[l]) - (e[2] + 1) + 1 ELSE 0
          /\ \A i \in 1..(Len(qs[l]) - (e[2] + 1) + 1) :
               ps[l][i] = qs[l][(e[2] + 1) + i - 1]
      <4>1. e[2] + 1 \in Int /\ Len(qs[l]) \in Int
        BY <3>2
      <4> DEFINE m == e[2] + 1
                 n == Len(qs[l])
                 q == qs[l]
      <4>2. m \in Int /\ n \in Int /\ \A i \in m..n : q[i] \in Slots
        BY <3>2, <4>1
      <4>3. ps[l] = SubSeq(q, m, n)
        BY <3>1
      <4> HIDE DEF m, n, q
      <4>4. /\ ps[l] \in Seq(Slots)
            /\ Len(ps[l]) = IF m <= n THEN n - m + 1 ELSE 0
            /\ \A i \in 1..(n - m + 1) : ps[l][i] = q[m + i - 1]
        BY <4>2, <4>3, SubSeqProperties
      <4> QED BY <4>4 DEF m, n, q
    <3>4. Len(ps[l]) = Len(qs[l]) - e[2]
      BY <3>2, <3>3
    <3>5. ASSUME NEW i \in 1..Len(ps[l])
          PROVE  ps[l][i] = qs[l][i + e[2]]
      <4>1. i \in 1..(Len(qs[l]) - (e[2] + 1) + 1)
        BY <3>2, <3>4
      <4>2. (e[2] + 1) + i - 1 = i + e[2]
        BY <3>2, <3>4
      <4> QED BY <3>3, <4>1, <4>2
    <3> QED BY <2>2, <3>2, <3>3, <3>4, <3>5 DEF Levels
  <2>3. CASE l > e[1]
    <3>1. ps[l] = qs[l] /\ l # e[1]
      BY <2>0, <2>3, <2>a
    <3>2. qs[l] \in Seq(Slots)
      BY DEF QueueType
    <3> QED BY <3>1, <3>2, <2>3, <1>1 DEF Levels
  <2>4. l < e[1] \/ l = e[1] \/ l > e[1]
    BY <2>a
  <2> QED BY <2>1, <2>2, <2>3, <2>4, Zenon
<1>3. ps \in QueueType
  BY <1>2 DEF PopThrough, QueueType
<1> DEFINE from(f) == <<f[1], IF f[1] = e[1] THEN f[2] + e[2] ELSE f[2]>>
<1>4. ASSUME NEW f \in Entries(ps)
      PROVE  /\ from(f) \in Entries(qs)
             /\ At(qs, from(f)) = At(ps, f)
             /\ from(f) # e
             /\ from(f)[1] = f[1]
  <2>1. f = <<f[1], f[2]>> /\ f[1] \in Levels /\ f[2] \in 1..Len(ps[f[1]])
    BY <1>3, EntryIsSlot
  <2>2. Len(qs[f[1]]) <= MaxThreads /\ Len(qs[f[1]]) \in Nat
    BY <2>1 DEF QueuesMatch, QueueType
  <2>3. Len(ps[f[1]]) \in Nat /\ Len(ps[f[1]]) <= Len(qs[f[1]])
    BY <2>1, <1>2
  <2> HIDE DEF ps
  <2>4. from(f)[1] \in Levels /\ from(f)[2] \in 1..Len(qs[from(f)[1]])
    <3>1. CASE f[1] = e[1]
      BY <3>1, <2>1, <2>2, <2>3, <1>1, <1>2
    <3>2. CASE f[1] # e[1]
      BY <3>2, <2>1, <2>2, <2>3
    <3> QED BY <3>1, <3>2
  <2>5. from(f) \in Entries(qs)
    BY <2>4, <2>2, MaxThreadsAssumption DEF Entries
  <2>6. At(qs, from(f)) = At(ps, f)
    BY <2>1, <1>2 DEF At
  <2>7. from(f) # e
    BY <2>1, <1>1 DEF QueueType
  <2> QED BY <2>5, <2>6, <2>7
<1>5. ASSUME NEW f \in Entries(ps), NEW g \in Entries(ps), from(f) = from(g)
      PROVE  f = g
  <2>1. /\ f = <<f[1], f[2]>> /\ f[1] \in Levels /\ f[2] \in 1..Len(ps[f[1]])
        /\ g = <<g[1], g[2]>> /\ g[1] \in Levels /\ g[2] \in 1..Len(ps[g[1]])
    BY <1>3, EntryIsSlot
  <2>2. f[1] = g[1] /\ f[2] \in Int /\ g[2] \in Int /\ e[2] \in Int
    BY <1>5, <2>1, <1>1
  <2>3. f[2] = g[2]
    <3>1. CASE f[1] = e[1]
      <4>1. from(f) = <<f[1], f[2] + e[2]>> /\ from(g) = <<g[1], g[2] + e[2]>>
        BY <3>1, <2>2
      <4>2. f[2] + e[2] = g[2] + e[2]
        BY <4>1, <1>5
      <4> HIDE DEF from
      <4> QED BY <4>2, <2>2, AddCancel
    <3>2. CASE f[1] # e[1]
      BY <3>2, <1>5, <2>2
    <3> QED BY <3>1, <3>2
  <2> QED BY <2>1, <2>2, <2>3
<1> HIDE DEF ps, from
<1>6. \A l \in Levels : Len(ps[l]) <= MaxThreads
  BY <1>2, MaxThreadsAssumption DEF QueuesMatch, QueueType
<1>7. QueuesMatch(th, ps)
  <2>1. \A f \in Entries(ps) : /\ th[At(ps, f)].state = "Ready"
                               /\ th[At(ps, f)].priority = f[1]
    BY <1>4 DEF QueuesMatch
  <2>2. \A f, g \in Entries(ps) : At(ps, f) = At(ps, g) => f = g
    BY <1>4, <1>5 DEF QueuesMatch
  <2> QED BY <1>6, <2>1, <2>2 DEF QueuesMatch
<1>8. \A f \in Entries(ps) : At(ps, f) # At(qs, e)
  BY <1>4 DEF QueuesMatch
<1> QED BY <1>3, <1>4, <1>7, <1>8 DEF ps

\* A slot waits somewhere in qs.
InQueues(qs, i) == \E e \in Entries(qs) : At(qs, e) = i

\* pop_next_from_all_queues on queues that hold no dead thread: it leaves
\* well-formed queues; the thread it returns is alive and no longer queued;
\* and it returns none only when every thread is dead.
LEMMA PopNextSound ==
  ASSUME NEW th \in ThreadTable, NEW qs \in QueueType, QueuesMatch(th, qs),
         NEW pick, pick = pop_next_from_all_queues(th, qs)
  PROVE  /\ pick.queues \in QueueType
         /\ QueuesMatch(th, pick.queues)
         /\ pick.next # None =>
              /\ pick.next \in Slots
              /\ th[pick.next].state \notin {"Empty", "Dead"}
              /\ ~InQueues(pick.queues, pick.next)
         /\ pick.next = None => AllDead(th)
<1> DEFINE examined == {e \in Entries(qs) : Rank(qs, e) < MaxThreads}
           live == {e \in examined : th[At(qs, e)].state \notin {"Empty", "Dead"}}
           first == CHOOSE e \in live : \A f \in live : e = f \/ Before(e, f)
           last == CHOOSE e \in examined : \A f \in examined : e = f \/ Before(f, e)
<1>1. pick = IF live # {} THEN
               [next |-> At(qs, first), queues |-> PopThrough(qs, first)]
             ELSE IF Cardinality(Entries(qs)) < MaxThreads THEN
               [next |-> first_not_dead(th), queues |-> [l \in Levels |-> <<>>]]
             ELSE
               [next |-> None, queues |-> PopThrough(qs, last)]
  BY DEF pop_next_from_all_queues
<1>2. CASE Entries(qs) # {}
  <2>1. \A l \in Levels : Len(qs[l]) <= MaxThreads
    BY DEF QueuesMatch
  <2>2. PICK h \in Entries(qs) : /\ \A f \in Entries(qs) : h = f \/ Before(h, f)
                                 /\ Rank(qs, h) = 0
    BY <1>2, <2>1, UrgentHead
  <2>3. h \in live
    BY <2>2, MaxThreadsAssumption DEF QueuesMatch
  <2>4. first \in live
    BY <2>2, <2>3
  <2>5. pick = [next |-> At(qs, first), queues |-> PopThrough(qs, first)]
    BY <1>1, <2>3
  <2> HIDE DEF first
  <2>6. first \in Entries(qs) /\ th[At(qs, first)].state \notin {"Empty", "Dead"}
    BY <2>4
  <2>7. At(qs, first) \in Slots
    BY <2>6, EntryIsSlot
  <2>8. /\ PopThrough(qs, first) \in QueueType
        /\ QueuesMatch(th, PopThrough(qs, first))
        /\ \A f \in Entries(PopThrough(qs, first)) :
             At(PopThrough(qs, first), f) # At(qs, first)
    BY <2>6, PopThroughSound
  <2>9. pick.next = At(qs, first) /\ pick.queues = PopThrough(qs, first)
    BY <2>5
  <2> QED BY <2>6, <2>7, <2>8, <2>9, NoneAssumption DEF InQueues
<1>3. CASE Entries(qs) = {}
  <2>1. live = {} /\ Cardinality(Entries(qs)) = 0
    BY <1>3, FS_EmptySet
  <2>2. pick = [next |-> first_not_dead(th), queues |-> [l \in Levels |-> <<>>]]
    BY <1>1, <2>1, MaxThreadsAssumption
  <2>3. pick.next = first_not_dead(th) /\ pick.queues = [l \in Levels |-> <<>>]
    BY <2>2
  <2>4. pick.queues \in QueueType /\ Entries(pick.queues) = {}
    BY <2>3 DEF QueueType, Entries
  <2>5. QueuesMatch(th, pick.queues)
    BY <2>3, <2>4, MaxThreadsAssumption DEF QueuesMatch
  <2>6. /\ pick.next # None => /\ pick.next \in Slots
                              /\ th[pick.next].state \notin {"Empty", "Dead"}
        /\ pick.next = None => AllDead(th)
    <3> DEFINE alive == {i \in Slots : th[i].state \notin {"Empty", "Dead"}}
    <3>1. CASE alive = {}
      <4>1. pick.next = None
        BY <2>3, <3>1 DEF first_not_dead
      <4> QED BY <4>1, <3>1 DEF AllDead
    <3>2. CASE alive # {}
      <4>1. \E i \in alive : \A j \in alive : i <= j
        BY <3>2, LeastSlot
      <4>2. first_not_dead(th) \in alive
        BY <4>1, <3>2 DEF first_not_dead
      <4> QED BY <4>2, <2>3, NoneAssumption
    <3> QED BY <3>1, <3>2
  <2> QED BY <2>4, <2>5, <2>6 DEF InQueues
<1> QED BY <1>2, <1>3

\* Queueing a Ready thread that waits nowhere keeps the queues well-formed.
LEMMA RequeueSound ==
  ASSUME NEW th \in ThreadTable, NEW qs \in QueueType, QueuesMatch(th, qs),
         NEW i \in Slots, th[i].state = "Ready", ~InQueues(qs, i)
  PROVE  /\ requeue_current(th, qs, i) \in QueueType
         /\ QueuesMatch(th, requeue_current(th, qs, i))
         /\ \A j \in Slots : InQueues(requeue_current(th, qs, i), j)
                              => j = i \/ InQueues(qs, j)
<1> DEFINE p == th[i].priority
           rs == requeue_current(th, qs, i)
<1>1. p \in Levels
  BY DEF ThreadTable, Thread
<1>2. rs = [qs EXCEPT ![p] = push(@, i)]
  BY DEF requeue_current
<1>3. CASE Len(qs[p]) >= MaxThreads
  <2>1. rs = qs
    BY <1>1, <1>2, <1>3 DEF push, QueueType
  <2> QED BY <2>1
<1>4. CASE ~(Len(qs[p]) >= MaxThreads)
  <2>0. Len(qs[p]) \in Nat /\ qs[p] \in Seq(Slots)
    BY <1>1 DEF QueueType
  <2>1. rs = [qs EXCEPT ![p] = Append(qs[p], i)]
    BY <1>1, <1>2, <1>4 DEF push, QueueType
  <2>2. rs \in QueueType
    <3>1. Append(qs[p], i) \in Seq(Slots)
      BY <2>0
    <3> QED BY <3>1, <2>1 DEF QueueType
  <2>3. rs[p] = Append(qs[p], i) /\ \A l \in Levels : l # p => rs[l] = qs[l]
    BY <1>1, <2>1 DEF QueueType
  <2>4. /\ Len(rs[p]) = Len(qs[p]) + 1
        /\ rs[p][Len(qs[p]) + 1] = i
        /\ \A k \in 1..Len(qs[p]) : rs[p][k] = qs[p][k]
    BY <2>0, <2>3
  <2> HIDE DEF p, rs
  <2> DEFINE new == <<p, Len(qs[p]) + 1>>
  <2>5. ASSUME NEW e \in Entries(rs)
        PROVE  \/ e = new /\ At(rs, e) = i
               \/ e \in Entries(qs) /\ At(rs, e) = At(qs, e)
    <3>1. e = <<e[1], e[2]>> /\ e[1] \in Levels /\ e[2] \in 1..Len(rs[e[1]])
          /\ e[2] \in 1..MaxThreads
      BY <2>2, EntryIsSlot DEF Entries
    <3>2. CASE e[1] # p
      BY <3>1, <3>2, <2>3 DEF Entries, At
    <3>3. CASE e[1] = p /\ e[2] = Len(qs[p]) + 1
      BY <3>1, <3>3, <2>4 DEF At
    <3>4. CASE e[1] = p /\ e[2] # Len(qs[p]) + 1
      <4>1. e[2] \in 1..Len(qs[p])
        BY <3>1, <3>4, <2>4, <2>0
      <4>2. e \in Entries(qs)
        BY <3>1, <3>4, <4>1 DEF Entries
      <4>3. At(rs, e) = At(qs, e)
        BY <3>4, <4>1, <2>4 DEF At
      <4> QED BY <4>2, <4>3
    <3> QED BY <3>2, <3>3, <3>4
  <2>6. \A l \in Levels : Len(rs[l]) <= MaxThreads
    BY <1>4, <2>0, <2>3, <2>4, <1>1, MaxThreadsAssumption DEF QueuesMatch
  <2> HIDE DEF new
  <2>7. \A e \in Entries(rs) : /\ th[At(rs, e)].state = "Ready"
                               /\ th[At(rs, e)].priority = e[1]
    BY <2>5 DEF QueuesMatch, p, new
  <2>8. \A e, f \in Entries(rs) : At(rs, e) = At(rs, f) => e = f
    BY <2>5 DEF QueuesMatch, InQueues
  <2>9. QueuesMatch(th, rs)
    BY <2>6, <2>7, <2>8 DEF QueuesMatch
  <2>10. \A j \in Slots : InQueues(rs, j) => j = i \/ InQueues(qs, j)
    BY <2>5 DEF InQueues
  <2> QED BY <2>2, <2>9, <2>10 DEF rs
<1> QED BY <1>3, <1>4

-----------------------------------------------------------------------------
(* What a call of schedule() does to a consistent scheduler. *)

\* Queue soundness depends on the table only through the queued threads.
LEMMA MatchCongruence ==
  ASSUME NEW th, NEW uh, NEW qs \in QueueType, QueuesMatch(th, qs),
         \A j \in Slots : InQueues(qs, j) => uh[j] = th[j]
  PROVE  QueuesMatch(uh, qs)
<1>1. ASSUME NEW e \in Entries(qs)
      PROVE  uh[At(qs, e)] = th[At(qs, e)]
  BY EntryIsSlot DEF InQueues
<1> QED BY <1>1 DEF QueuesMatch

(* Charging the outgoing thread in schedule() keeps it a thread, and takes it from
   Running to Ready. *)
LEMMA ChargeType ==
  ASSUME NEW t \in Thread
  PROVE  /\ Charge(t) \in Thread
         /\ Charge(t).state = IF t.state = "Running" THEN "Ready" ELSE t.state
<1> DEFINE left == IF t.ticks = 0 THEN 0 ELSE t.ticks - 1
           off == IF t.state = "Running" THEN "Ready" ELSE t.state
           charged == [t EXCEPT !.state = off, !.ticks = left]
           lower == IF charged.priority < Low THEN charged.priority + 1
                    ELSE charged.priority
<1>1. t.state \in ThreadStates /\ t.ticks \in 0..5
  BY DEF Thread, DefaultTimeSlice
<1>2. off \in ThreadStates /\ left \in 0..DefaultTimeSlice
  BY <1>1 DEF ThreadStates, DefaultTimeSlice
<1>3. Charge(t) = IF left = 0 THEN decay_priority(charged) ELSE charged
  BY DEF Charge
<1> HIDE DEF off, left
<1>4. charged \in Thread /\ charged.state = off
  BY <1>2 DEF Thread
<1> HIDE DEF charged
<1>5. lower \in Levels /\ DefaultTimeSlice \in 0..DefaultTimeSlice
  <2>1. charged.priority \in 0..4
    BY <1>4 DEF Thread, Levels
  <2> QED BY <2>1 DEF Levels, Low, DefaultTimeSlice
<1>6. decay_priority(charged) = [charged EXCEPT !.priority = lower, !.ticks = DefaultTimeSlice]
  BY DEF decay_priority
<1> HIDE DEF lower
<1>7. decay_priority(charged) \in Thread /\ decay_priority(charged).state = off
  BY <1>4, <1>5, <1>6 DEF Thread
<1> QED BY <1>3, <1>4, <1>7 DEF off

(* Dispatch, the last part of schedule() and of run, makes a thread Running. *)
LEMMA DispatchType ==
  ASSUME NEW t \in Thread
  PROVE  Dispatch(t) \in Thread /\ Dispatch(t).state = "Running"
<1>1. /\ "Running" \in ThreadStates /\ Normal \in Levels
      /\ DefaultTimeSlice \in 0..DefaultTimeSlice
  BY DEF ThreadStates, Normal, Levels, DefaultTimeSlice
<1> QED BY <1>1 DEF Dispatch, Thread

\* schedule(), called with a thread table that differs from the consistent
\* one at most in the state of the current thread, re-establishes SchedInv.
LEMMA ScheduleSound ==
  ASSUME SchedInv, OnCpu, NEW s \in ThreadStates \ {"Empty"},
         NEW th, th = [threads EXCEPT ![current].state = s],
         Schedule(th, queues)
  PROVE  SchedInv'
<1>1. /\ threads \in ThreadTable /\ queues \in QueueType /\ current \in Slots
      /\ kernel = "running" /\ current # None
  BY DEF SchedInv, SchedTypeOK, OnCpu, ThreadTable, QueueType
<1>2. /\ th \in ThreadTable /\ th[current].state = s
      /\ \A j \in Slots : j # current => th[j] = threads[j]
  BY <1>1 DEF ThreadTable, Thread
<1>3. QueuesMatch(threads, queues) /\ ~InQueues(queues, current)
  BY DEF SchedInv, QueuesSound, Queued, InQueues
<1>4. \A j \in Slots : threads[j].state = "Running" => j = current
  BY DEF SchedInv, CpuHasLiveOwner
<1> DEFINE out == [th EXCEPT ![current] = Charge(th[current])]
           waiting == IF out[current].state = "Ready"
                      THEN requeue_current(out, queues, current) ELSE queues
           pick == pop_next_from_all_queues(out, waiting)
<1>5. /\ out \in ThreadTable /\ out[current].state # "Running"
      /\ \A j \in Slots : j # current => out[j] = threads[j]
  BY <1>1, <1>2, ChargeType DEF ThreadTable
<1>6. /\ queues' = pick.queues
      /\ IF pick.next # None
         THEN /\ threads' = [out EXCEPT ![pick.next] = Dispatch(out[pick.next])]
              /\ current' = pick.next
              /\ kernel' = kernel
         ELSE /\ threads' = out
              /\ current' = IF AllDead(out) THEN current ELSE None
              /\ kernel' = IF AllDead(out) THEN "halted" ELSE kernel
  <2> DEFINE Outcome(o, p) ==
        /\ queues' = p.queues
        /\ IF p.next # None
           THEN /\ threads' = [o EXCEPT ![p.next] = Dispatch(o[p.next])]
                /\ current' = p.next
                /\ kernel' = kernel
           ELSE /\ threads' = o
                /\ current' = IF AllDead(o) THEN current ELSE None
                /\ kernel' = IF AllDead(o) THEN "halted" ELSE kernel
  <2>1. \E o \in {out} :
          \E w \in {IF o[current].state = "Ready"
                   THEN requeue_current(o, queues, current) ELSE queues} :
            \E p \in {pop_next_from_all_queues(o, w)} : Outcome(o, p)
    BY DEF Schedule
  <2> HIDE DEF Outcome, out
  <2>2. Outcome(out, pick)
    BY <2>1, Zenon
  <2> QED BY <2>2 DEF Outcome
<1>7. \A j \in Slots : out[j].state # "Running"
  BY <1>4, <1>5
<1> HIDE DEF out
<1>8. QueuesMatch(out, queues)
  BY <1>1, <1>3, <1>5, MatchCongruence
<1>9. waiting \in QueueType /\ QueuesMatch(out, waiting)
  BY <1>1, <1>3, <1>5, <1>8, RequeueSound
<1> HIDE DEF waiting
<1>10. /\ pick.queues \in QueueType
       /\ QueuesMatch(out, pick.queues)
       /\ pick.next # None =>
            /\ pick.next \in Slots
            /\ out[pick.next].state \notin {"Empty", "Dead"}
            /\ ~InQueues(pick.queues, pick.next)
       /\ pick.next = None => AllDead(out)
  BY <1>5, <1>9, PopNextSound
<1> HIDE DEF pick
<1>11. CASE pick.next # None
  <2>1. /\ threads' = [out EXCEPT ![pick.next] = Dispatch(out[pick.next])]
        /\ current' = pick.next /\ kernel' = "running" /\ queues' = pick.queues
    BY <1>1, <1>6, <1>11
  <2>2. pick.next \in Slots /\ ~InQueues(pick.queues, pick.next)
    BY <1>10, <1>11
  <2>3. Dispatch(out[pick.next]) \in Thread /\ Dispatch(out[pick.next]).state = "Running"
    BY <2>2, <1>5, DispatchType DEF ThreadTable
  <2>4. /\ threads' \in ThreadTable
        /\ threads'[pick.next].state = "Running"
        /\ \A j \in Slots : j # pick.next => threads'[j] = out[j]
    BY <2>1, <2>2, <2>3, <1>5 DEF ThreadTable
  <2>5. QueuesMatch(threads', queues')
    <3>1. QueuesMatch(threads', pick.queues)
      BY <2>2, <2>4, <1>10, MatchCongruence
    <3> QED BY <3>1, <2>1
  <2>6. SchedTypeOK'
    BY <2>1, <2>2, <2>4, <1>10 DEF SchedTypeOK, ThreadTable, QueueType
  <2>7. QueuesSound'
    BY <2>1, <2>2, <2>5 DEF QueuesSound, Queued, InQueues, QueuesMatch, Entries, At
  <2>8. CpuHasLiveOwner'
    BY <2>1, <2>2, <2>4, <1>7, <1>11 DEF CpuHasLiveOwner
  <2> QED BY <2>1, <2>6, <2>7, <2>8 DEF SchedInv, BootInv
<1>12. CASE pick.next = None
  <2>1. /\ threads' = out /\ current' = current /\ kernel' = "halted"
        /\ queues' = pick.queues
    BY <1>6, <1>10, <1>12
  <2>2. SchedTypeOK'
    BY <2>1, <1>1, <1>5, <1>10 DEF SchedTypeOK, ThreadTable, QueueType
  <2>3. \A e \in Entries(pick.queues) : At(pick.queues, e) \in Slots
                                     /\ out[At(pick.queues, e)].state = "Ready"
    BY <1>10, EntryIsSlot DEF QueuesMatch
  <2>4. Entries(pick.queues) = {}
    BY <2>3, <1>10, <1>12 DEF AllDead
  <2>5. QueuesSound'
    BY <2>1, <2>4, <1>10 DEF QueuesSound, QueuesMatch, Queued, Entries, At
  <2>6. CpuHasLiveOwner'
    BY <2>1, <1>7 DEF CpuHasLiveOwner
  <2> QED BY <2>1, <2>2, <2>5, <2>6 DEF SchedInv, BootInv
<1> QED BY <1>11, <1>12

-----------------------------------------------------------------------------
(* The inductive invariant. *)

(* An empty table with empty queues satisfies the invariant. *)
LEMMA SchedInitInv == SchedInit => SchedInv
<1> SUFFICES ASSUME SchedInit PROVE SchedInv
  OBVIOUS
<1>1. SchedTypeOK
  BY DEF SchedInit, SchedTypeOK, EmptySlot, Thread, ThreadStates, Levels, Normal,
         DefaultTimeSlice
<1>2. Entries(queues) = {}
  BY DEF SchedInit, Entries
<1>3. QueuesSound
  BY <1>2, MaxThreadsAssumption DEF SchedInit, QueuesSound, QueuesMatch, Queued
<1>4. CpuHasLiveOwner /\ BootInv
  BY DEF SchedInit, CpuHasLiveOwner, EmptySlot, BootInv
<1> QED BY <1>1, <1>3, <1>4 DEF SchedInv

\* add() fills an empty slot, which no queue can hold, and queues it.
LEMMA AddSound ==
  ASSUME SchedInv, NEW p \in Levels, add(p), kernel \in {"booting", "running"}
  PROVE  SchedInv'
<1> DEFINE i == find_empty_slot(threads)
           new == [state |-> "Ready", priority |-> p, ticks |-> DefaultTimeSlice]
<1>1. threads \in ThreadTable /\ queues \in QueueType
  BY DEF SchedInv, SchedTypeOK, ThreadTable, QueueType
<1>2. i \in FreeSlots(threads)
  <2>1. \E j \in FreeSlots(threads) : \A k \in FreeSlots(threads) : j <= k
    BY LeastSlot DEF add, FreeSlots
  <2> QED BY <2>1 DEF find_empty_slot
<1>3. /\ threads' = [threads EXCEPT ![i] = new]
      /\ queues' = [queues EXCEPT ![p] = push(@, i)]
      /\ current' = current /\ kernel' = kernel
  BY DEF add
<1> HIDE DEF i
<1>4. i \in Slots /\ threads[i].state = "Empty"
  BY <1>2 DEF FreeSlots
<1>5. new \in Thread /\ new.state = "Ready" /\ new.priority = p
  BY DEF Thread, ThreadStates, DefaultTimeSlice
<1> HIDE DEF new
<1>6. /\ threads' \in ThreadTable /\ threads'[i] = new
      /\ \A j \in Slots : j # i => threads'[j] = threads[j]
  BY <1>1, <1>3, <1>4, <1>5 DEF ThreadTable
<1>7. QueuesMatch(threads, queues) /\ ~InQueues(queues, i) /\ ~InQueues(queues, current)
  BY <1>4 DEF SchedInv, QueuesSound, QueuesMatch, Queued, InQueues
<1>8. QueuesMatch(threads', queues)
  BY <1>1, <1>6, <1>7, MatchCongruence
<1>9. queues' = requeue_current(threads', queues, i)
  BY <1>3, <1>5, <1>6 DEF requeue_current
<1>10. /\ requeue_current(threads', queues, i) \in QueueType
       /\ QueuesMatch(threads', requeue_current(threads', queues, i))
       /\ \A j \in Slots : InQueues(requeue_current(threads', queues, i), j)
                            => j = i \/ InQueues(queues, j)
  BY <1>1, <1>4, <1>5, <1>6, <1>7, <1>8, RequeueSound
<1>11. /\ queues' \in QueueType /\ QueuesMatch(threads', queues')
       /\ \A j \in Slots : InQueues(queues', j) => j = i \/ InQueues(queues, j)
  BY <1>9, <1>10
<1>12. i # current /\ (current \in Slots => threads'[current] = threads[current])
  BY <1>4, <1>6, NoneAssumption DEF SchedInv, CpuHasLiveOwner, BootInv
<1>13. current \in Slots \cup {None}
  BY DEF SchedInv, SchedTypeOK
<1>14. SchedTypeOK'
  BY <1>3, <1>6, <1>11 DEF SchedInv, SchedTypeOK, ThreadTable, QueueType
<1>15. QueuesSound'
  <2>1. ~InQueues(queues', current)
    BY <1>7, <1>11, <1>12, <1>13, EntryIsSlot, NoneAssumption DEF InQueues
  <2> QED BY <2>1, <1>3, <1>11 DEF QueuesSound, Queued, InQueues, QueuesMatch, Entries, At
<1>16. CpuHasLiveOwner'
  BY <1>3, <1>5, <1>6, <1>12, <1>13 DEF SchedInv, CpuHasLiveOwner
<1>17. BootInv'
  BY <1>3 DEF SchedInv, BootInv
<1> QED BY <1>14, <1>15, <1>16, <1>17 DEF SchedInv

(* run(), which takes the first thread off the queues and never returns, keeps the
   invariant. *)
LEMMA RunSound ==
  ASSUME SchedInv, run
  PROVE  SchedInv'
<1> DEFINE pick == pop_next_from_all_queues(threads, queues)
<1>1. threads \in ThreadTable /\ queues \in QueueType
  BY DEF SchedInv, SchedTypeOK, ThreadTable, QueueType
<1>2. kernel = "booting" /\ queues' = pick.queues
  BY DEF run
<1>3. /\ QueuesMatch(threads, queues) /\ current = None
      /\ \A j \in Slots : threads[j].state # "Running"
  BY <1>2, NoneAssumption DEF SchedInv, QueuesSound, BootInv, CpuHasLiveOwner
<1>4. \/ /\ pick.next # None
         /\ current' = pick.next
         /\ threads' = [threads EXCEPT ![pick.next] = Dispatch(threads[pick.next])]
         /\ kernel' = "running"
      \/ /\ kernel' = "panicked"
         /\ threads' = threads /\ current' = current
  BY DEF run
<1>5. /\ pick.queues \in QueueType
      /\ QueuesMatch(threads, pick.queues)
      /\ pick.next # None =>
           /\ pick.next \in Slots
           /\ ~InQueues(pick.queues, pick.next)
  BY <1>1, <1>3, PopNextSound
<1> HIDE DEF pick
<1>6. CASE kernel' = "running"
  <2>1. /\ current' = pick.next /\ pick.next \in Slots /\ ~InQueues(pick.queues, pick.next)
        /\ threads' = [threads EXCEPT ![pick.next] = Dispatch(threads[pick.next])]
    BY <1>4, <1>5, <1>6
  <2>2. Dispatch(threads[pick.next]) \in Thread
        /\ Dispatch(threads[pick.next]).state = "Running"
    BY <2>1, <1>1, DispatchType DEF ThreadTable
  <2>3. /\ threads' \in ThreadTable /\ threads'[pick.next].state = "Running"
        /\ \A j \in Slots : j # pick.next => threads'[j] = threads[j]
    BY <2>1, <2>2, <1>1 DEF ThreadTable
  <2>4. QueuesMatch(threads', pick.queues)
    <3>1. \A j \in Slots : InQueues(pick.queues, j) => threads'[j] = threads[j]
      BY <2>1, <2>3
    <3>2. pick.queues \in QueueType /\ QueuesMatch(threads, pick.queues)
      BY <1>5
    <3> QED BY <3>1, <3>2, MatchCongruence
  <2>5. SchedTypeOK'
    BY <2>1, <2>3, <1>2, <1>5, <1>6 DEF SchedTypeOK, ThreadTable, QueueType
  <2>6. QueuesSound'
    BY <2>1, <2>4, <1>2 DEF QueuesSound, Queued, InQueues, QueuesMatch, Entries, At
  <2>7. CpuHasLiveOwner'
    BY <2>1, <2>3, <1>3, NoneAssumption DEF CpuHasLiveOwner
  <2> QED BY <2>5, <2>6, <2>7, <1>6 DEF SchedInv, BootInv
<1>7. CASE kernel' # "running"
  <2>1. kernel' = "panicked" /\ threads' = threads /\ current' = None
    BY <1>3, <1>4, <1>7
  <2>2. ~InQueues(pick.queues, None)
    BY <1>5, EntryIsSlot, NoneAssumption DEF InQueues
  <2>3. SchedTypeOK'
    BY <2>1, <1>1, <1>2, <1>5 DEF SchedTypeOK, ThreadTable, QueueType
  <2>4. QueuesSound'
    BY <2>1, <2>2, <1>2, <1>5 DEF QueuesSound, Queued, InQueues, QueuesMatch, Entries, At
  <2> QED BY <2>1, <2>3, <2>4, <1>3 DEF SchedInv, BootInv, CpuHasLiveOwner
<1> QED BY <1>6, <1>7

\* Marking a sleeping thread Ready and queueing it, or any thread Ready
\* without queueing it, keeps the scheduler consistent.
LEMMA ReadySound ==
  ASSUME SchedInv, NEW i \in Slots, wake_thread(i) \/ sys_thread_start(i)
  PROVE  SchedInv'
<1>1. threads \in ThreadTable /\ queues \in QueueType /\ current \in Slots
  BY DEF SchedInv, SchedTypeOK, ThreadTable, QueueType, wake_thread, sys_thread_start, OnCpu
<1>2. /\ threads' = [threads EXCEPT ![i].state = "Ready"]
      /\ current' = current /\ kernel' = kernel /\ kernel = "running"
  BY DEF wake_thread, sys_thread_start, OnCpu
<1>3. /\ threads' \in ThreadTable /\ threads'[i].state = "Ready"
      /\ threads'[i].priority = threads[i].priority
      /\ \A j \in Slots : j # i => threads'[j] = threads[j]
  BY <1>1, <1>2 DEF ThreadTable, Thread, ThreadStates
<1>4. QueuesMatch(threads, queues) /\ ~InQueues(queues, current)
  BY DEF SchedInv, QueuesSound, Queued, InQueues
<1>5. QueuesMatch(threads', queues)
  <2>1. ASSUME NEW e \in Entries(queues)
        PROVE  /\ threads'[At(queues, e)].state = "Ready"
               /\ threads'[At(queues, e)].priority = threads[At(queues, e)].priority
    <3>1. At(queues, e) \in Slots /\ threads[At(queues, e)].state = "Ready"
      BY <1>1, <1>4, EntryIsSlot DEF QueuesMatch
    <3> QED BY <3>1, <1>3
  <2> QED BY <2>1, <1>4 DEF QueuesMatch
<1>6. CpuHasLiveOwner'
  BY <1>1, <1>2, <1>3 DEF SchedInv, CpuHasLiveOwner
<1>7. BootInv'
  BY <1>2 DEF BootInv
<1>8. CASE sys_thread_start(i)
  <2>1. queues' = queues
    BY <1>8 DEF sys_thread_start
  <2>2. SchedTypeOK'
    BY <2>1, <1>1, <1>2, <1>3 DEF SchedInv, SchedTypeOK, ThreadTable, QueueType
  <2>3. QueuesSound'
    BY <2>1, <1>2, <1>4, <1>5 DEF QueuesSound, Queued, InQueues, QueuesMatch, Entries, At
  <2> QED BY <2>2, <2>3, <1>6, <1>7 DEF SchedInv
<1>9. CASE wake_thread(i)
  <2>1. /\ threads[i].state \in {"Blocked", "Sleeping"}
        /\ queues' = requeue_current(threads, queues, i)
    BY <1>9 DEF wake_thread
  <2>2. i # current /\ ~InQueues(queues, i)
    BY <2>1, <1>2, <1>4 DEF SchedInv, CpuHasLiveOwner, InQueues, QueuesMatch
  <2>3. queues' = requeue_current(threads', queues, i)
    BY <2>1, <1>3 DEF requeue_current
  <2>4. /\ requeue_current(threads', queues, i) \in QueueType
        /\ QueuesMatch(threads', requeue_current(threads', queues, i))
        /\ \A j \in Slots : InQueues(requeue_current(threads', queues, i), j)
                             => j = i \/ InQueues(queues, j)
    BY <2>2, <1>1, <1>3, <1>5, RequeueSound
  <2>5. queues' \in QueueType /\ QueuesMatch(threads', queues') /\ ~InQueues(queues', current)
    BY <2>2, <2>3, <2>4, <1>1, <1>4
  <2>6. SchedTypeOK'
    BY <2>5, <1>1, <1>2, <1>3 DEF SchedInv, SchedTypeOK, ThreadTable, QueueType
  <2>7. QueuesSound'
    BY <2>5, <1>2 DEF QueuesSound, Queued, InQueues, QueuesMatch, Entries, At
  <2> QED BY <2>6, <2>7, <1>6, <1>7 DEF SchedInv
<1> QED BY <1>8, <1>9

(* Every operation of the scheduler keeps the invariant. *)
LEMMA SchedNextInv == SchedInv /\ [SchedNext]_schedVars => SchedInv'
<1> SUFFICES ASSUME SchedInv, [SchedNext]_schedVars PROVE SchedInv'
  OBVIOUS
<1>0. threads \in ThreadTable
  BY DEF SchedInv, SchedTypeOK, ThreadTable
<1>1. ASSUME NEW p \in SpawnPriorities, Launch(p)
      PROVE  SchedInv'
  BY <1>1, PriorityAssumption, AddSound DEF Launch
<1>2. CASE run
  BY <1>2, RunSound
<1>3. ASSUME NEW p \in SpawnPriorities, Spawn(p)
      PROVE  SchedInv'
  BY <1>3, PriorityAssumption, AddSound DEF Spawn, OnCpu
<1>4. CASE SpawnOverflow
  BY <1>4 DEF SpawnOverflow, SchedInv, SchedTypeOK, QueuesSound, QueuesMatch, Queued,
              Entries, At, CpuHasLiveOwner, BootInv
<1>5. CASE Tick
  <2>1. current \in Slots /\ threads[current].state \in {"Ready", "Running"}
    BY <1>5 DEF Tick, OnCpu, SchedInv, SchedTypeOK, CpuHasLiveOwner
  <2>2. PICK s \in ThreadStates \ {"Empty"} : s = threads[current].state
    BY <2>1 DEF ThreadStates
  <2>3. threads = [threads EXCEPT ![current].state = s]
    BY <2>1, <2>2, <1>0 DEF ThreadTable, Thread
  <2> QED BY <2>2, <2>3, <1>5, ScheduleSound DEF Tick
<1>6. CASE Block
  BY <1>6, ScheduleSound DEF Block, ThreadStates
<1>7. CASE Die
  BY <1>7, ScheduleSound DEF Die, ThreadStates
<1>8. ASSUME NEW i \in Slots, wake_thread(i) \/ sys_thread_start(i)
      PROVE  SchedInv'
  BY <1>8, ReadySound
<1>9. CASE UNCHANGED schedVars
  BY <1>9 DEF schedVars, SchedInv, SchedTypeOK, QueuesSound, QueuesMatch, Queued,
              Entries, At, CpuHasLiveOwner, BootInv
<1> QED BY <1>1, <1>2, <1>3, <1>4, <1>5, <1>6, <1>7, <1>8, <1>9 DEF SchedNext

\* The ready queues stay consistent with the thread table whatever
\* the programs do: no slot is queued twice, no queued thread is dead or
\* asleep, and the owner of the CPU is not queued (push, requeue_current,
\* wake_thread, schedule).
THEOREM QueuesAlwaysSound == SchedSpec => []QueuesSound
<1>1. SchedInv => QueuesSound
  BY DEF SchedInv
<1> QED BY <1>1, SchedInitInv, SchedNextInv, PTL DEF SchedSpec

\* schedule() always finds a live thread or halts: the CPU is never left to a
\* dead or sleeping thread, and at most one thread is Running.
THEOREM CpuAlwaysOwned == SchedSpec => []CpuHasLiveOwner
<1>1. SchedInv => CpuHasLiveOwner
  BY DEF SchedInv
<1> QED BY <1>1, SchedInitInv, SchedNextInv, PTL DEF SchedSpec

\* The thread table and the queues keep their types.
THEOREM SchedTypeCorrect == SchedSpec => []SchedTypeOK
<1>1. SchedInv => SchedTypeOK
  BY DEF SchedInv
<1> QED BY <1>1, SchedInitInv, SchedNextInv, PTL DEF SchedSpec

-----------------------------------------------------------------------------
(* The refinement of Cpu. *)

\* Before run() every thread of the table waits in a queue, so that run()
\* need not look at the table.
BootQueued == kernel = "booting" =>
                \A i \in Slots : threads[i].state = "Empty" \/ InQueues(queues, i)

\* The invariant on which the refinement rests.
RefInv == SchedInv /\ BootQueued

-----------------------------------------------------------------------------
(* What a push and a pop do to the set of queued threads, exactly. *)

\* A queue has room for a thread that is not queued: by the pigeonhole
\* principle, as no thread is in it twice.
LEMMA RoomForOne ==
  ASSUME NEW th, NEW qs \in QueueType, QueuesMatch(th, qs),
         NEW i \in Slots, ~InQueues(qs, i), NEW p \in Levels
  PROVE  Len(qs[p]) < MaxThreads
<1> DEFINE q == qs[p]
           n == Len(qs[p])
<1>1. q \in Seq(Slots) /\ n \in Nat /\ n <= MaxThreads /\ MaxThreads \in Nat \ {0}
  BY MaxThreadsAssumption DEF QueueType, QueuesMatch
<1>2. ASSUME NEW k \in 1..n
      PROVE  /\ <<p, k>> \in Entries(qs) /\ At(qs, <<p, k>>) = q[k]
             /\ q[k] \in Slots /\ q[k] # i
  <2>1. <<p, k>> \in Entries(qs)
    BY <1>1 DEF Entries
  <2>2. At(qs, <<p, k>>) = q[k]
    BY DEF At
  <2> QED BY <1>1, <2>1, <2>2 DEF InQueues
<1> HIDE DEF q, n
<1>3. ASSUME n = MaxThreads
      PROVE  FALSE
  <2> DEFINE S == 1..n
             T == Slots \ {i}
             f == [k \in S |-> q[k]]
  <2>1. IsFiniteSet(S) /\ Cardinality(S) = n
    BY <1>1, <1>3, FS_Interval
  <2>2. IsFiniteSet(Slots) /\ Cardinality(Slots) = MaxThreads
    BY <1>1, FS_Interval DEF Slots
  <2>3. IsFiniteSet(T) /\ Cardinality(T) = MaxThreads - 1
    BY <2>2, FS_RemoveElement
  <2>4. f \in [S -> T]
    BY <1>2
  <2>5. Cardinality(T) < Cardinality(S)
    BY <1>1, <1>3, <2>1, <2>3
  <2> HIDE DEF f, S, T
  <2>6. PICK x \in S, y \in S : x # y /\ f[x] = f[y]
    BY <2>1, <2>3, <2>4, <2>5, FS_PigeonHole
  <2>7. q[x] = q[y] /\ x \in 1..n /\ y \in 1..n
    BY <2>6 DEF f, S
  <2>8. <<p, x>> = <<p, y>>
    <3>1. <<p, x>> \in Entries(qs) /\ <<p, y>> \in Entries(qs)
      BY <1>2, <2>7
    <3>2. At(qs, <<p, x>>) = At(qs, <<p, y>>)
      BY <1>2, <2>7
    <3>3. \A e, g \in Entries(qs) : At(qs, e) = At(qs, g) => e = g
      BY DEF QueuesMatch
    <3> QED BY <3>1, <3>2, <3>3, Zenon
  <2> QED BY <2>6, <2>8
<1>4. n < MaxThreads
  BY <1>1, <1>3
<1> QED BY <1>4 DEF n

\* A requeued thread is in the queues, and every other one stays where it is.
LEMMA RequeueExact ==
  ASSUME NEW th \in ThreadTable, NEW qs \in QueueType, QueuesMatch(th, qs),
         NEW i \in Slots, th[i].state = "Ready", ~InQueues(qs, i),
         NEW rs, rs = requeue_current(th, qs, i)
  PROVE  /\ \A e \in Entries(qs) : e \in Entries(rs) /\ At(rs, e) = At(qs, e)
         /\ \A j \in Slots : InQueues(rs, j) <=> j = i \/ InQueues(qs, j)
<1> DEFINE p == th[i].priority
           n == Len(qs[p])
<1>1. p \in Levels
  BY DEF ThreadTable, Thread
<1>2. n < MaxThreads /\ n \in Nat /\ qs[p] \in Seq(Slots) /\ MaxThreads \in Nat
  BY <1>1, RoomForOne, MaxThreadsAssumption DEF QueueType
<1>3. rs = [qs EXCEPT ![p] = Append(qs[p], i)]
  <2>1. rs = [qs EXCEPT ![p] = push(qs[p], i)]
    BY <1>1 DEF requeue_current, QueueType
  <2>2. ~(Len(qs[p]) >= MaxThreads)
    BY <1>2
  <2>3. push(qs[p], i) = Append(qs[p], i)
    BY <2>2 DEF push
  <2> QED BY <2>1, <2>3
<1>4. rs[p] = Append(qs[p], i) /\ \A l \in Levels : l # p => rs[l] = qs[l]
  BY <1>1, <1>3 DEF QueueType
<1>5. /\ Len(rs[p]) = n + 1 /\ rs[p][n + 1] = i
      /\ \A k \in 1..n : rs[p][k] = qs[p][k]
  BY <1>2, <1>4
<1> HIDE DEF p, n
<1>6. ASSUME NEW e \in Entries(qs)
      PROVE  e \in Entries(rs) /\ At(rs, e) = At(qs, e)
  <2>1. /\ e = <<e[1], e[2]>> /\ e[1] \in Levels /\ e[2] \in 1..Len(qs[e[1]])
        /\ e \in Levels \X (1..MaxThreads)
    BY EntryIsSlot DEF Entries
  <2>2. CASE e[1] = p
    <3>1. e[2] \in 1..n /\ e[2] <= Len(rs[e[1]]) /\ rs[e[1]][e[2]] = qs[e[1]][e[2]]
      BY <1>2, <1>5, <2>1, <2>2 DEF n
    <3> QED BY <2>1, <3>1 DEF Entries, At
  <2>3. CASE e[1] # p
    BY <1>4, <2>1, <2>3 DEF Entries, At
  <2> QED BY <2>2, <2>3
<1>7. InQueues(rs, i)
  <2>1. <<p, n + 1>> \in Entries(rs)
    BY <1>1, <1>2, <1>5 DEF Entries
  <2>2. At(rs, <<p, n + 1>>) = i
    BY <1>5 DEF At
  <2> QED BY <2>1, <2>2 DEF InQueues
<1>8. \A j \in Slots : InQueues(rs, j) => j = i \/ InQueues(qs, j)
  BY RequeueSound
<1>9. \A j \in Slots : InQueues(qs, j) => InQueues(rs, j)
  BY <1>6 DEF InQueues
<1> QED BY <1>6, <1>7, <1>8, <1>9

\* Entries come in one order.
LEMMA BeforeOnce ==
  ASSUME NEW qs \in QueueType, NEW e \in Entries(qs), NEW f \in Entries(qs),
         e = f \/ Before(e, f), f = e \/ Before(f, e)
  PROVE  e = f
<1>1. e[1] \in Int /\ e[2] \in Int /\ f[1] \in Int /\ f[2] \in Int
  BY DEF Entries, Levels
<1>2. ~(Before(e, f) /\ Before(f, e))
  BY <1>1 DEF Before
<1> QED BY <1>2

\* Popping the first entry of all takes only that one off.
LEMMA PopFirst ==
  ASSUME NEW th \in ThreadTable, NEW qs \in QueueType, QueuesMatch(th, qs),
         NEW h \in Entries(qs), \A f \in Entries(qs) : h = f \/ Before(h, f)
  PROVE  \A j \in Slots : InQueues(PopThrough(qs, h), j) <=> InQueues(qs, j) /\ j # At(qs, h)
<1> DEFINE ps == PopThrough(qs, h)
<1>1. \A f \in Entries(ps) : /\ At(ps, f) # At(qs, h)
                             /\ \E g \in Entries(qs) : At(ps, f) = At(qs, g)
  BY PopThroughSound
<1>2. h[1] \in Levels /\ h[2] \in 1..Len(qs[h[1]]) /\ h[2] \in Nat
  BY EntryIsSlot
<1>3. \A l \in Levels : ps[l] = IF l < h[1] THEN <<>>
                                ELSE IF l = h[1] THEN SubSeq(qs[l], h[2] + 1, Len(qs[l]))
                                ELSE qs[l]
  BY DEF PopThrough
<1> HIDE DEF ps
<1>4. ASSUME NEW e \in Entries(qs), e # h
      PROVE  \E f \in Entries(ps) : At(ps, f) = At(qs, e)
  <2>1. /\ e = <<e[1], e[2]>> /\ e[1] \in Levels /\ e[2] \in 1..Len(qs[e[1]])
        /\ e[2] \in 1..MaxThreads /\ MaxThreads \in Nat
    BY EntryIsSlot, MaxThreadsAssumption DEF Entries
  <2>2. h[1] < e[1] \/ (h[1] = e[1] /\ h[2] < e[2])
    BY <1>4 DEF Before
  <2>3. CASE h[1] < e[1]
    <3>1. ps[e[1]] = qs[e[1]]
      <4>1. ~(e[1] < h[1]) /\ e[1] # h[1]
        BY <1>2, <2>1, <2>3 DEF Levels
      <4> QED BY <1>3, <2>1, <4>1
    <3>2. e \in Entries(ps) /\ At(ps, e) = At(qs, e)
      BY <2>1, <3>1 DEF Entries, At
    <3> QED BY <3>2
  <2>4. CASE h[1] = e[1] /\ h[2] < e[2]
    <3> DEFINE l == e[1]
               q == qs[l]
               k == e[2] - h[2]
    <3>1. ps[l] = SubSeq(q, h[2] + 1, Len(q))
      <4>1. ~(l < h[1]) /\ l = h[1] /\ l \in Levels
        BY <1>2, <2>1, <2>4 DEF Levels
      <4> QED BY <1>3, <4>1
    <3>2. q \in Seq(Slots) /\ Len(q) \in Nat
      BY <2>1 DEF QueueType
    <3>3. e[2] \in 1..Len(q) /\ k \in Nat \ {0} /\ k <= Len(q) - h[2] /\ h[2] \in Nat
      BY <1>2, <2>1, <2>4, <3>2
    <3>4. Len(ps[l]) = Len(q) - h[2] /\ ps[l][k] = q[e[2]]
      <4> DEFINE m == h[2] + 1
                 n == Len(q)
      <4>1. m \in Int /\ n \in Int /\ \A x \in m..n : q[x] \in Slots
        BY <3>2, <3>3
      <4>2. ps[l] = SubSeq(q, m, n)
        BY <3>1
      <4> HIDE DEF m, n, q
      <4>3. /\ Len(ps[l]) = IF m <= n THEN n - m + 1 ELSE 0
            /\ \A x \in 1..(n - m + 1) : ps[l][x] = q[m + x - 1]
        BY <4>1, <4>2, SubSeqProperties
      <4> HIDE DEF k, l
      <4>4. m <= n /\ n - m + 1 = n - h[2] /\ k \in 1..(n - m + 1) /\ m + k - 1 = e[2]
        <5> DEFINE a == h[2]
                   b == e[2]
        <5>1. m = a + 1 /\ k = b - a /\ a \in Nat /\ b \in 1..n /\ n \in Nat /\ k \in Nat \ {0}
          BY <3>2, <3>3 DEF m, n, k
        <5> HIDE DEF a, b
        <5>2. m <= n /\ n - m + 1 = n - a /\ k \in 1..(n - m + 1) /\ m + k - 1 = b
          BY <5>1
        <5> QED BY <5>2 DEF a, b
      <4>5. ps[l][k] = q[e[2]]
        BY <4>3, <4>4
      <4> QED BY <4>3, <4>4, <4>5 DEF n
    <3> HIDE DEF q, k
    <3>5. k \in 1..MaxThreads /\ k <= Len(ps[l])
      BY <2>1, <3>3, <3>4 DEF k
    <3>6. <<l, k>> \in Entries(ps)
      BY <2>1, <3>5 DEF Entries
    <3>7. At(ps, <<l, k>>) = At(qs, e)
      BY <3>4 DEF At, q
    <3> QED BY <3>6, <3>7
  <2> QED BY <2>2, <2>3, <2>4
<1>5. ASSUME NEW j \in Slots, InQueues(qs, j), j # At(qs, h)
      PROVE  InQueues(ps, j)
  BY <1>4, <1>5 DEF InQueues
<1>6. ASSUME NEW j \in Slots, InQueues(ps, j)
      PROVE  InQueues(qs, j) /\ j # At(qs, h)
  BY <1>1, <1>6 DEF InQueues
<1> QED BY <1>5, <1>6 DEF ps

\* pop_next_from_all_queues: with queued threads the first entry of all, and
\* only it; without, the scan of the table.
LEMMA PopNextExact ==
  ASSUME NEW th \in ThreadTable, NEW qs \in QueueType, QueuesMatch(th, qs),
         NEW pick, pick = pop_next_from_all_queues(th, qs)
  PROVE  /\ Entries(qs) # {} =>
              \E h \in Entries(qs) : /\ \A f \in Entries(qs) : h = f \/ Before(h, f)
                                     /\ pick.next = At(qs, h)
         /\ \A j \in Slots : InQueues(pick.queues, j) <=> InQueues(qs, j) /\ j # pick.next
<1> DEFINE examined == {e \in Entries(qs) : Rank(qs, e) < MaxThreads}
           live == {e \in examined : th[At(qs, e)].state \notin {"Empty", "Dead"}}
           first == CHOOSE e \in live : \A f \in live : e = f \/ Before(e, f)
           last == CHOOSE e \in examined : \A f \in examined : e = f \/ Before(f, e)
<1>1. pick = IF live # {} THEN
               [next |-> At(qs, first), queues |-> PopThrough(qs, first)]
             ELSE IF Cardinality(Entries(qs)) < MaxThreads THEN
               [next |-> first_not_dead(th), queues |-> [l \in Levels |-> <<>>]]
             ELSE
               [next |-> None, queues |-> PopThrough(qs, last)]
  BY DEF pop_next_from_all_queues
<1>2. CASE Entries(qs) # {}
  <2>1. \A l \in Levels : Len(qs[l]) <= MaxThreads
    BY DEF QueuesMatch
  <2>2. PICK h \in Entries(qs) : /\ \A f \in Entries(qs) : h = f \/ Before(h, f)
                                 /\ Rank(qs, h) = 0
    BY <1>2, <2>1, UrgentHead
  <2>3. h \in live
    BY <2>2, MaxThreadsAssumption DEF QueuesMatch
  <2>4. first \in live /\ \A f \in live : first = f \/ Before(first, f)
    BY <2>2, <2>3
  <2>5. pick = [next |-> At(qs, first), queues |-> PopThrough(qs, first)]
    BY <1>1, <2>3
  <2> HIDE DEF first
  <2>6. first = h
    BY <2>2, <2>3, <2>4, BeforeOnce
  <2>7. pick.next = At(qs, h) /\ pick.queues = PopThrough(qs, h)
    BY <2>5, <2>6
  <2> QED BY <2>2, <2>7, PopFirst
<1>3. CASE Entries(qs) = {}
  <2>1. live = {} /\ Cardinality(Entries(qs)) = 0
    BY <1>3, FS_EmptySet
  <2>2. pick = [next |-> first_not_dead(th), queues |-> [l \in Levels |-> <<>>]]
    BY <1>1, <2>1, MaxThreadsAssumption
  <2>3. pick.queues = [l \in Levels |-> <<>>]
    BY <2>2
  <2>4. Entries(pick.queues) = {}
    BY <2>3 DEF Entries
  <2> QED BY <1>3, <2>4 DEF InQueues
<1> QED BY <1>2, <1>3

-----------------------------------------------------------------------------
(* Steps of the scheduler seen as steps of Cpu. *)

\* The states of the threads, and the set of queued ones.
RunOf(th) == [i \in Slots |-> th[i].state]
ReadyOf(qs) == {i \in Slots : InQueues(qs, i)}

\* The refinement mapping, before and after a step.
LEMMA View ==
  /\ [i \in Slots |-> threads[i].state] = RunOf(threads)
  /\ {i \in Slots : Queued(i)} = ReadyOf(queues)
  /\ [i \in Slots |-> threads[i].state]' = RunOf(threads')
  /\ {i \in Slots : Queued(i)}' = ReadyOf(queues')
  BY DEF RunOf, ReadyOf, Queued, InQueues, Entries, At

\* current' is no queued thread, or none of the queued ones is more urgent.
UrgentChoice ==
  current' # current /\ current' \in Slots /\ InQueues(queues, current') =>
    \A i \in Slots : InQueues(queues, i) => threads[current'].priority <= threads[i].priority

\* schedule() is Switch: the outgoing thread is queued again if it can run,
\* and a queued thread, if there is one, gets the CPU.
LEMMA ScheduleSwitches ==
  ASSUME SchedInv, OnCpu, NEW s \in ThreadStates \ {"Empty"},
         NEW th, th = [threads EXCEPT ![current].state = s],
         Schedule(th, queues)
  PROVE  Promise!Switch(RunOf(th), ReadyOf(queues)) /\ UrgentChoice
<1>1. /\ threads \in ThreadTable /\ queues \in QueueType /\ current \in Slots
      /\ kernel = "running" /\ current # None
  BY DEF SchedInv, SchedTypeOK, OnCpu, ThreadTable, QueueType
<1>2. /\ th \in ThreadTable /\ th[current].state = s
      /\ \A j \in Slots : j # current => th[j] = threads[j]
  BY <1>1 DEF ThreadTable, Thread
<1>3. QueuesMatch(threads, queues) /\ ~InQueues(queues, current)
  BY DEF SchedInv, QueuesSound, Queued, InQueues
<1> DEFINE out == [th EXCEPT ![current] = Charge(th[current])]
           waiting == IF out[current].state = "Ready"
                      THEN requeue_current(out, queues, current) ELSE queues
           pick == pop_next_from_all_queues(out, waiting)
<1>4. /\ out \in ThreadTable
      /\ \A j \in Slots : j # current => out[j] = threads[j]
      /\ \A j \in Slots : out[j].state = IF j = current /\ th[j].state = "Running" THEN "Ready"
                                         ELSE th[j].state
  BY <1>1, <1>2, ChargeType DEF ThreadTable
<1>5. /\ queues' = pick.queues
      /\ IF pick.next # None
         THEN /\ threads' = [out EXCEPT ![pick.next] = Dispatch(out[pick.next])]
              /\ current' = pick.next
              /\ kernel' = kernel
         ELSE /\ threads' = out
              /\ current' = IF AllDead(out) THEN current ELSE None
              /\ kernel' = IF AllDead(out) THEN "halted" ELSE kernel
  <2> DEFINE Outcome(o, p) ==
        /\ queues' = p.queues
        /\ IF p.next # None
           THEN /\ threads' = [o EXCEPT ![p.next] = Dispatch(o[p.next])]
                /\ current' = p.next
                /\ kernel' = kernel
           ELSE /\ threads' = o
                /\ current' = IF AllDead(o) THEN current ELSE None
                /\ kernel' = IF AllDead(o) THEN "halted" ELSE kernel
  <2>1. \E o \in {out} :
          \E w \in {IF o[current].state = "Ready"
                   THEN requeue_current(o, queues, current) ELSE queues} :
            \E p \in {pop_next_from_all_queues(o, w)} : Outcome(o, p)
    BY DEF Schedule
  <2> HIDE DEF Outcome, out
  <2>2. Outcome(out, pick)
    BY <2>1, Zenon
  <2> QED BY <2>2 DEF Outcome
<1> HIDE DEF out
<1>6. QueuesMatch(out, queues)
  BY <1>1, <1>3, <1>4, MatchCongruence
<1>7. /\ waiting \in QueueType /\ QueuesMatch(out, waiting)
      /\ \A e \in Entries(queues) : e \in Entries(waiting) /\ At(waiting, e) = At(queues, e)
      /\ \A j \in Slots : InQueues(waiting, j)
                            <=> (out[current].state = "Ready" /\ j = current) \/ InQueues(queues, j)
  <2>1. CASE out[current].state = "Ready"
    <3>1. waiting = requeue_current(out, queues, current)
      BY <2>1
    <3> HIDE DEF waiting
    <3>2. waiting \in QueueType /\ QueuesMatch(out, waiting)
      BY <1>1, <1>3, <1>4, <1>6, <2>1, <3>1, RequeueSound
    <3>3. /\ \A e \in Entries(queues) : e \in Entries(waiting) /\ At(waiting, e) = At(queues, e)
          /\ \A j \in Slots : InQueues(waiting, j) <=> j = current \/ InQueues(queues, j)
      BY <1>1, <1>3, <1>4, <1>6, <2>1, <3>1, RequeueExact
    <3> QED BY <2>1, <3>2, <3>3
  <2>2. CASE out[current].state # "Ready"
    <3>1. waiting = queues
      BY <2>2
    <3> HIDE DEF waiting
    <3> QED BY <1>1, <1>6, <2>2, <3>1
  <2> QED BY <2>1, <2>2
<1> HIDE DEF waiting
<1>8. /\ pick.next # None => /\ pick.next \in Slots
                             /\ out[pick.next].state \notin {"Empty", "Dead"}
      /\ pick.next = None => AllDead(out)
  BY <1>4, <1>7, PopNextSound
<1>9. /\ Entries(waiting) # {} =>
           \E h \in Entries(waiting) : /\ \A f \in Entries(waiting) : h = f \/ Before(h, f)
                                       /\ pick.next = At(waiting, h)
      /\ \A j \in Slots : InQueues(pick.queues, j) <=> InQueues(waiting, j) /\ j # pick.next
  BY <1>4, <1>7, PopNextExact
<1> HIDE DEF pick
<1>10. Promise!Switch(RunOf(th), ReadyOf(queues))
  <2> DEFINE off == [i \in Slots |-> IF i = current /\ RunOf(th)[i] = "Running" THEN "Ready" ELSE RunOf(th)[i]]
             wait == IF off[current] = "Ready" THEN ReadyOf(queues) \cup {current} ELSE ReadyOf(queues)
             alive == {i \in Slots : off[i] \notin {"Empty", "Dead"}}
  <2>1. off = RunOf(out) /\ \A i \in Slots : off[i] = out[i].state
    BY <1>4 DEF RunOf
  <2>2. wait = ReadyOf(waiting)
    <3>1. off[current] = out[current].state
      BY <1>1, <2>1
    <3> HIDE DEF off
    <3> QED BY <1>1, <1>7, <3>1 DEF ReadyOf
  <2>3. /\ RunOf(threads') = [i \in Slots |-> threads[i].state]'
        /\ ReadyOf(queues') = {i \in Slots : Queued(i)}'
    BY View
  <2>4. CASE pick.next # None
    <3>1. /\ threads' = [out EXCEPT ![pick.next] = Dispatch(out[pick.next])]
          /\ current' = pick.next /\ kernel' = kernel /\ queues' = pick.queues
          /\ pick.next \in Slots
      BY <1>5, <1>8, <2>4
    <3>2. Dispatch(out[pick.next]).state = "Running"
      BY <1>4, <3>1, DispatchType DEF ThreadTable
    <3>3. RunOf(threads') = [RunOf(out) EXCEPT ![pick.next] = "Running"]
      BY <1>4, <3>1, <3>2 DEF RunOf, ThreadTable
    <3>4. ReadyOf(queues') = wait \ {pick.next}
      BY <1>9, <2>2, <3>1 DEF ReadyOf
    <3>5. pick.next \in IF wait # {} THEN wait ELSE alive
      <4>1. CASE wait # {}
        <5>1. Entries(waiting) # {}
          BY <2>2, <4>1 DEF ReadyOf, InQueues
        <5>2. InQueues(waiting, pick.next)
          BY <1>9, <5>1 DEF InQueues
        <5> QED BY <2>2, <3>1, <4>1, <5>2 DEF ReadyOf
      <4>2. CASE wait = {}
        BY <1>8, <2>1, <2>4, <3>1, <4>2
      <4> QED BY <4>1, <4>2
    <3> HIDE DEF off, wait, alive
    <3>6. \E i \in (IF wait # {} THEN wait ELSE alive) :
            /\ RunOf(threads') = [off EXCEPT ![i] = "Running"]
            /\ ReadyOf(queues') = wait \ {i}
            /\ current' = i
            /\ UNCHANGED kernel
      BY <2>1, <3>1, <3>3, <3>4, <3>5
    <3> QED BY <2>3, <3>6 DEF Promise!Switch, off, wait, alive
  <2>5. CASE pick.next = None
    <3>1. AllDead(out) /\ threads' = out /\ current' = current /\ kernel' = "halted" /\ queues' = pick.queues
      BY <1>5, <1>8, <2>5
    <3>2. alive = {}
      BY <2>1, <3>1 DEF AllDead
    <3>3. wait = {}
      <4>1. \A i \in Slots : ~InQueues(waiting, i)
        BY <1>7, <3>1 DEF QueuesMatch, InQueues, AllDead
      <4> QED BY <2>2, <4>1 DEF ReadyOf
    <3>4. ReadyOf(queues') = {} /\ RunOf(threads') = off
      BY <1>9, <2>1, <2>2, <3>1, <3>3 DEF ReadyOf
    <3>5. wait \cup alive = {}
      BY <3>2, <3>3
    <3> HIDE DEF off, wait, alive
    <3> QED BY <2>3, <3>1, <3>4, <3>5 DEF Promise!Switch, off, wait, alive
  <2> QED BY <2>4, <2>5
<1>11. UrgentChoice
  <2> SUFFICES ASSUME current' # current, current' \in Slots, InQueues(queues, current'),
                      NEW i \in Slots, InQueues(queues, i)
               PROVE  threads[current'].priority <= threads[i].priority
    BY DEF UrgentChoice
  <2>1. PICK e \in Entries(queues) : At(queues, e) = i
    BY DEF InQueues
  <2>2. PICK g \in Entries(queues) : At(queues, g) = current'
    BY DEF InQueues
  <2>3. /\ e \in Entries(waiting) /\ At(waiting, e) = i
        /\ g \in Entries(waiting) /\ At(waiting, g) = current'
    BY <1>7, <2>1, <2>2
  <2>4. PICK h \in Entries(waiting) : /\ \A f \in Entries(waiting) : h = f \/ Before(h, f)
                                      /\ pick.next = At(waiting, h)
    BY <1>9, <2>3
  <2>5. current' = pick.next
    BY <1>5, NoneAssumption
  <2>6. h = g
    BY <1>7, <2>3, <2>4, <2>5 DEF QueuesMatch
  <2>7. h[1] \in Int /\ e[1] \in Int
    BY <2>3 DEF Entries, Levels
  <2>8. h[1] <= e[1]
    BY <2>3, <2>4, <2>7 DEF Before
  <2>9. threads[i].priority = e[1] /\ threads[current'].priority = h[1]
    BY <1>3, <2>1, <2>2, <2>6 DEF QueuesMatch
  <2> QED BY <2>8, <2>9
<1> QED BY <1>10, <1>11

\* No thread is left Ready outside the queues that was not there before.
NoneStranded ==
  \A i \in Slots :
    threads'[i].state = "Ready" /\ i # current' /\ ~InQueues(queues', i) =>
      threads[i].state = "Ready" /\ i # current /\ ~InQueues(queues, i)

\* A switch strands nobody.
LEMMA SwitchStrandsNone ==
  ASSUME current \in Slots, NEW r, r \in [Slots -> ThreadStates],
         \A i \in Slots : i # current => r[i] = threads[i].state,
         Promise!Switch(r, ReadyOf(queues))
  PROVE  NoneStranded
<1> DEFINE off == [i \in Slots |-> IF i = current /\ r[i] = "Running" THEN "Ready" ELSE r[i]]
           wait == IF off[current] = "Ready" THEN ReadyOf(queues) \cup {current} ELSE ReadyOf(queues)
           alive == {i \in Slots : off[i] \notin {"Empty", "Dead"}}
<1>1. /\ RunOf(threads') = [i \in Slots |-> threads[i].state]'
      /\ ReadyOf(queues') = {i \in Slots : Queued(i)}'
  BY View
<1>2. \/ \E c \in (IF wait # {} THEN wait ELSE alive) :
           RunOf(threads') = [off EXCEPT ![c] = "Running"] /\ ReadyOf(queues') = wait \ {c} /\ current' = c
      \/ wait \cup alive = {} /\ RunOf(threads') = off /\ ReadyOf(queues') = {}
  BY <1>1 DEF Promise!Switch
<1>3. \A i \in Slots : i # current => off[i] = threads[i].state
  OBVIOUS
<1>4. \A i \in Slots : threads'[i].state = RunOf(threads')[i]
  BY DEF RunOf
<1>5. ASSUME NEW i \in Slots, threads'[i].state = "Ready", i # current', ~InQueues(queues', i)
      PROVE  threads[i].state = "Ready" /\ i # current /\ ~InQueues(queues, i)
  <2>1. i \notin ReadyOf(queues') /\ RunOf(threads')[i] = "Ready"
    BY <1>4, <1>5 DEF ReadyOf
  <2>2. off[i] = "Ready" /\ i \notin wait
    <3>1. CASE \E c \in (IF wait # {} THEN wait ELSE alive) :
                 RunOf(threads') = [off EXCEPT ![c] = "Running"] /\ ReadyOf(queues') = wait \ {c} /\ current' = c
      <4>1. PICK c : RunOf(threads') = [off EXCEPT ![c] = "Running"] /\ ReadyOf(queues') = wait \ {c} /\ current' = c
        BY <3>1
      <4> QED BY <1>5, <2>1, <4>1
    <3>2. CASE wait \cup alive = {} /\ RunOf(threads') = off /\ ReadyOf(queues') = {}
      BY <2>1, <3>2
    <3> QED BY <1>2, <3>1, <3>2
  <2>3. i # current /\ i \notin ReadyOf(queues)
    BY <2>2
  <2> QED BY <1>3, <2>2, <2>3 DEF ReadyOf
<1> QED BY <1>5 DEF NoneStranded

\* Switch of Cpu as a relation between the states before and after it.
Switched(r, q, c, k, rr, qq, cc, kk) ==
  LET off     == [i \in Slots |-> IF i = c /\ r[i] = "Running" THEN "Ready" ELSE r[i]]
      waiting == IF off[c] = "Ready" THEN q \cup {c} ELSE q
      alive   == {i \in Slots : off[i] \notin {"Empty", "Dead"}}
  IN  \/ \E i \in (IF waiting # {} THEN waiting ELSE alive) :
           rr = [off EXCEPT ![i] = "Running"] /\ qq = waiting \ {i} /\ cc = i /\ kk = k
      \/ waiting \cup alive = {} /\ rr = off /\ qq = {} /\ kk = "halted" /\ cc = c

\* Switch depends only on the values of its arguments.
LEMMA SwitchIsSwitched ==
  ASSUME NEW th, Promise!Switch(RunOf(th), ReadyOf(queues))
  PROVE  /\ RunOf(th) = RunOf(threads) => Promise!Switch([i \in Slots |-> threads[i].state], {i \in Slots : Queued(i)})
         /\ \A s : RunOf(th) = [RunOf(threads) EXCEPT ![current] = s] =>
                    Promise!Switch([[i \in Slots |-> threads[i].state] EXCEPT ![current] = s],
                                   {i \in Slots : Queued(i)})
<1> DEFINE R == [i \in Slots |-> threads[i].state]
           Q == {i \in Slots : Queued(i)}
           RR == R'
           QQ == Q'
<1>1. Switched(RunOf(th), ReadyOf(queues), current, kernel, RR, QQ, current', kernel')
  BY DEF Promise!Switch, Switched
<1>2. R = RunOf(threads) /\ Q = ReadyOf(queues)
  BY View
<1> HIDE DEF R, Q, RR, QQ
<1>3. RunOf(th) = RunOf(threads) => Switched(R, Q, current, kernel, RR, QQ, current', kernel')
  BY <1>1, <1>2
<1>4. \A s : RunOf(th) = [RunOf(threads) EXCEPT ![current] = s] =>
              Switched([R EXCEPT ![current] = s], Q, current, kernel, RR, QQ, current', kernel')
  BY <1>1, <1>2
<1>5. RunOf(th) = RunOf(threads) => Promise!Switch(R, Q)
  BY <1>3 DEF Promise!Switch, Switched, RR, QQ, R, Q
<1>6. ASSUME NEW s, RunOf(th) = [RunOf(threads) EXCEPT ![current] = s]
      PROVE  Promise!Switch([R EXCEPT ![current] = s], Q)
  BY <1>4, <1>6 DEF Promise!Switch, Switched, RR, QQ, R, Q
<1> QED BY <1>5, <1>6 DEF R, Q

\* What a step that is not thread_start does.
Mapped == Promise!CpuNext /\ NoneStranded /\ (current # None => UrgentChoice) /\ BootQueued'

\* Tick, Block and Die.
LEMMA ScheduleMapped ==
  ASSUME RefInv, Tick \/ Block \/ Die
  PROVE  Mapped
<1>1. /\ threads \in ThreadTable /\ current \in Slots /\ OnCpu /\ SchedInv
      /\ kernel = "running" /\ current # None /\ threads[current].state \in {"Ready", "Running"}
  BY DEF RefInv, SchedInv, SchedTypeOK, CpuHasLiveOwner, OnCpu, ThreadTable, Tick, Block, Die
<1>2. Promise!Owned
  BY <1>1 DEF Promise!Owned
<1>3. ASSUME NEW s \in ThreadStates \ {"Empty"},
             NEW th, th = [threads EXCEPT ![current].state = s],
             Schedule(th, queues)
      PROVE  /\ Promise!Switch(RunOf(th), ReadyOf(queues)) /\ UrgentChoice /\ NoneStranded
             /\ RunOf(th) = [RunOf(threads) EXCEPT ![current] = s]
  <2>1. Promise!Switch(RunOf(th), ReadyOf(queues)) /\ UrgentChoice
    BY <1>1, <1>3, ScheduleSwitches
  <2>2. RunOf(th) = [RunOf(threads) EXCEPT ![current] = s]
    BY <1>1, <1>3 DEF RunOf, ThreadTable, Thread
  <2>3. /\ RunOf(th) \in [Slots -> ThreadStates]
        /\ \A i \in Slots : i # current => RunOf(th)[i] = threads[i].state
    BY <1>1, <2>2 DEF RunOf, ThreadTable, Thread
  <2> QED BY <1>1, <2>1, <2>2, <2>3, SwitchStrandsNone
<1>4. BootQueued'
  <2>1. kernel' # "booting"
    BY <1>1 DEF Tick, Block, Die, Schedule
  <2> QED BY <2>1 DEF BootQueued
<1>5. CASE Tick
  <2>1. PICK s \in ThreadStates \ {"Empty"} : s = threads[current].state
    BY <1>1 DEF ThreadStates
  <2>2. threads = [threads EXCEPT ![current].state = s]
    BY <1>1, <2>1 DEF ThreadTable, Thread
  <2>3. PICK th : th = threads
    OBVIOUS
  <2>4. Promise!Switch(RunOf(th), ReadyOf(queues)) /\ UrgentChoice /\ NoneStranded
    BY <1>3, <1>5, <2>2, <2>3 DEF Tick
  <2>5. Promise!Preempt
    BY <1>2, <2>3, <2>4, SwitchIsSwitched DEF Promise!Preempt
  <2> QED BY <1>4, <2>4, <2>5 DEF Promise!CpuNext, Mapped
<1>6. CASE Block
  <2>1. PICK th : th = [threads EXCEPT ![current].state = "Blocked"]
    OBVIOUS
  <2>2. "Blocked" \in ThreadStates \ {"Empty"} /\ Schedule(th, queues)
    BY <1>6, <2>1 DEF Block, ThreadStates
  <2>3. /\ Promise!Switch(RunOf(th), ReadyOf(queues)) /\ UrgentChoice /\ NoneStranded
        /\ RunOf(th) = [RunOf(threads) EXCEPT ![current] = "Blocked"]
    BY <1>3, <2>1, <2>2
  <2>4. Promise!Sleep
    BY <1>2, <2>3, SwitchIsSwitched DEF Promise!Sleep
  <2> QED BY <1>4, <2>3, <2>4 DEF Promise!CpuNext, Mapped
<1>7. CASE Die
  <2>1. PICK th : th = [threads EXCEPT ![current].state = "Dead"]
    OBVIOUS
  <2>2. "Dead" \in ThreadStates \ {"Empty"} /\ Schedule(th, queues)
    BY <1>7, <2>1 DEF Die, ThreadStates
  <2>3. /\ Promise!Switch(RunOf(th), ReadyOf(queues)) /\ UrgentChoice /\ NoneStranded
        /\ RunOf(th) = [RunOf(threads) EXCEPT ![current] = "Dead"]
    BY <1>3, <2>1, <2>2
  <2>4. Promise!Finish
    BY <1>2, <2>3, SwitchIsSwitched DEF Promise!Finish
  <2> QED BY <1>4, <2>3, <2>4 DEF Promise!CpuNext, Mapped
<1> QED BY <1>5, <1>6, <1>7

\* Launch and Spawn: the new thread is queued, there is always room.
LEMMA AddMapped ==
  ASSUME RefInv, NEW p \in SpawnPriorities, Launch(p) \/ Spawn(p)
  PROVE  Mapped
<1>0. PICK i : i = find_empty_slot(threads)
  OBVIOUS
<1> DEFINE new == [state |-> "Ready", priority |-> p, ticks |-> DefaultTimeSlice]
<1>1. threads \in ThreadTable /\ queues \in QueueType /\ p \in Levels
  BY PriorityAssumption DEF RefInv, SchedInv, SchedTypeOK, ThreadTable, QueueType
<1>2. i \in FreeSlots(threads)
  <2>1. \E j \in FreeSlots(threads) : \A k \in FreeSlots(threads) : j <= k
    BY LeastSlot DEF Launch, Spawn, add, FreeSlots
  <2> QED BY <1>0, <2>1 DEF find_empty_slot
<1>3. /\ threads' = [threads EXCEPT ![i] = new]
      /\ queues' = [queues EXCEPT ![p] = push(@, i)]
      /\ current' = current /\ kernel' = kernel
  BY <1>0 DEF Launch, Spawn, add
<1>4. kernel = "booting" \/ Promise!Owned
  BY DEF Launch, Spawn, OnCpu, Promise!Owned
<1>5. kernel = "booting" => \A j \in Slots : threads[j].state = "Empty"
  BY DEF Launch, Spawn, OnCpu, FreeSlots
<1>6. i \in Slots /\ threads[i].state = "Empty"
  BY <1>2 DEF FreeSlots
<1>7. new \in Thread /\ new.state = "Ready" /\ new.priority = p
  BY <1>1 DEF Thread, ThreadStates, DefaultTimeSlice
<1> HIDE DEF new
<1>8. /\ threads' \in ThreadTable /\ threads'[i] = new
      /\ \A j \in Slots : j # i => threads'[j] = threads[j]
  BY <1>1, <1>3, <1>6, <1>7 DEF ThreadTable
<1>9. QueuesMatch(threads, queues) /\ ~InQueues(queues, i)
  BY <1>6 DEF RefInv, SchedInv, QueuesSound, QueuesMatch, InQueues
<1>10. QueuesMatch(threads', queues)
  BY <1>1, <1>8, <1>9, MatchCongruence
<1>11. queues' = requeue_current(threads', queues, i)
  BY <1>3, <1>7, <1>8 DEF requeue_current
<1>12. \A j \in Slots : InQueues(queues', j) <=> j = i \/ InQueues(queues, j)
  BY <1>1, <1>6, <1>7, <1>8, <1>9, <1>10, <1>11, RequeueExact
<1>13. Promise!CpuNext
  <2>1. RunOf(threads)[i] = "Empty" /\ RunOf(threads') = [RunOf(threads) EXCEPT ![i] = "Ready"]
    BY <1>6, <1>7, <1>8 DEF RunOf
  <2>2. ReadyOf(queues') = ReadyOf(queues) \cup {i}
    BY <1>6, <1>12 DEF ReadyOf
  <2>3. Promise!Admit(i)
    BY <1>3, <1>4, <2>1, <2>2, View DEF Promise!Admit
  <2> QED BY <1>6, <2>3 DEF Promise!CpuNext
<1>14. NoneStranded
  BY <1>3, <1>8, <1>12 DEF NoneStranded
<1>15. UrgentChoice
  BY <1>3 DEF UrgentChoice
<1>16. BootQueued'
  <2>1. kernel' = "booting" => \A j \in Slots : threads'[j].state = "Empty" \/ InQueues(queues', j)
    BY <1>3, <1>5, <1>8, <1>12
  <2> QED BY <2>1 DEF BootQueued, InQueues, Entries, At
<1> QED BY <1>13, <1>14, <1>15, <1>16 DEF Mapped

\* run(): a thread is queued, or there is none.
LEMMA RunMapped ==
  ASSUME RefInv, run
  PROVE  Mapped
<1> DEFINE pick == pop_next_from_all_queues(threads, queues)
<1>1. threads \in ThreadTable /\ queues \in QueueType /\ QueuesMatch(threads, queues)
  BY DEF RefInv, SchedInv, SchedTypeOK, QueuesSound, ThreadTable, QueueType
<1>2. kernel = "booting" /\ current = None /\ queues' = pick.queues
  BY DEF run, RefInv, SchedInv, BootInv
<1>3. \/ /\ pick.next # None
         /\ current' = pick.next
         /\ threads' = [threads EXCEPT ![pick.next] = Dispatch(threads[pick.next])]
         /\ kernel' = "running"
      \/ /\ pick.next = None /\ kernel' = "panicked"
         /\ threads' = threads /\ current' = current
  BY DEF run
<1>4. /\ pick.next # None => /\ pick.next \in Slots
                             /\ threads[pick.next].state \notin {"Empty", "Dead"}
      /\ pick.next = None => AllDead(threads)
  BY <1>1, PopNextSound
<1>5. \A j \in Slots : InQueues(pick.queues, j) <=> InQueues(queues, j) /\ j # pick.next
  BY <1>1, PopNextExact
<1> HIDE DEF pick
<1>6. \A j \in Slots : threads[j].state = "Empty" \/ InQueues(queues, j)
  BY <1>2 DEF RefInv, BootQueued
<1>7. BootQueued'
  BY <1>3 DEF BootQueued
<1>8. CASE pick.next # None
  <2>1. /\ current' = pick.next /\ kernel' = "running" /\ pick.next \in Slots
        /\ threads' = [threads EXCEPT ![pick.next] = Dispatch(threads[pick.next])]
        /\ InQueues(queues, pick.next)
    BY <1>3, <1>4, <1>6, <1>8
  <2>2. Dispatch(threads[pick.next]).state = "Running"
    BY <1>1, <2>1, DispatchType DEF ThreadTable
  <2>3. /\ threads'[pick.next].state = "Running"
        /\ \A j \in Slots : j # pick.next => threads'[j] = threads[j]
    BY <1>1, <2>1, <2>2 DEF ThreadTable
  <2>4. RunOf(threads') = [RunOf(threads) EXCEPT ![pick.next] = "Running"]
    <3>1. PICK c \in Slots : c = pick.next
      BY <2>1
    <3>2. \A j \in Slots : threads'[j].state = IF j = c THEN "Running" ELSE threads[j].state
      BY <2>3, <3>1
    <3> QED BY <3>1, <3>2 DEF RunOf
  <2>5. ReadyOf(queues') = ReadyOf(queues) \ {pick.next} /\ pick.next \in ReadyOf(queues)
    BY <1>2, <1>5, <2>1 DEF ReadyOf
  <2>6. Promise!Start
    BY <1>2, <2>1, <2>4, <2>5, View DEF Promise!Start
  <2>7. NoneStranded
    BY <1>2, <1>5, <2>1, <2>3, NoneAssumption DEF NoneStranded
  <2> QED BY <1>2, <1>7, <2>6, <2>7 DEF Mapped, Promise!CpuNext
<1>9. CASE pick.next = None
  <2>1. kernel' = "panicked" /\ threads' = threads /\ current' = current /\ AllDead(threads)
    BY <1>3, <1>4, <1>9
  <2>2. \A j \in Slots : ~InQueues(queues, j)
    BY <1>1, <2>1 DEF QueuesMatch, InQueues, AllDead
  <2>3. ReadyOf(queues) = {} /\ ReadyOf(queues') = {} /\ RunOf(threads') = RunOf(threads)
    BY <1>2, <1>5, <2>1, <2>2 DEF ReadyOf
  <2>4. Promise!Start
    BY <1>2, <2>1, <2>3, View DEF Promise!Start
  <2>5. NoneStranded
    BY <2>1 DEF NoneStranded, AllDead
  <2> QED BY <1>2, <1>7, <2>4, <2>5 DEF Mapped, Promise!CpuNext
<1> QED BY <1>8, <1>9

\* wake_thread: the woken thread is queued, there is always room.
LEMMA WakeMapped ==
  ASSUME RefInv, NEW i \in Slots, wake_thread(i)
  PROVE  Mapped
<1>1. threads \in ThreadTable /\ queues \in QueueType /\ QueuesMatch(threads, queues)
  BY DEF RefInv, SchedInv, SchedTypeOK, QueuesSound, ThreadTable, QueueType
<1>2. /\ threads' = [threads EXCEPT ![i].state = "Ready"]
      /\ threads[i].state \in {"Blocked", "Sleeping"}
      /\ queues' = requeue_current(threads, queues, i)
      /\ current' = current /\ kernel' = kernel /\ kernel = "running" /\ current # None
  BY DEF wake_thread, OnCpu
<1>3. /\ threads' \in ThreadTable /\ threads'[i].state = "Ready"
      /\ threads'[i].priority = threads[i].priority
      /\ \A j \in Slots : j # i => threads'[j] = threads[j]
  BY <1>1, <1>2 DEF ThreadTable, Thread, ThreadStates
<1>4. ~InQueues(queues, i)
  BY <1>1, <1>2 DEF InQueues, QueuesMatch
<1>5. QueuesMatch(threads', queues)
  BY <1>1, <1>3, <1>4, MatchCongruence
<1>6. queues' = requeue_current(threads', queues, i)
  BY <1>2, <1>3 DEF requeue_current
<1>7. \A j \in Slots : InQueues(queues', j) <=> j = i \/ InQueues(queues, j)
  BY <1>1, <1>3, <1>4, <1>5, <1>6, RequeueExact
<1>8. Promise!CpuNext
  <2>1. Promise!Sleepers(RunOf(threads), {i}) = {i}
    BY <1>2 DEF Promise!Sleepers, Promise!Asleep, RunOf
  <2>2. RunOf(threads') = Promise!WakeStates(RunOf(threads), {i})
    BY <1>3, <2>1 DEF Promise!WakeStates, RunOf
  <2>3. ReadyOf(queues') = Promise!WakeQueue(RunOf(threads), ReadyOf(queues), {i})
    BY <1>7, <2>1 DEF Promise!WakeQueue, ReadyOf
  <2>4. Promise!Wake({i})
    BY <1>2, <2>2, <2>3, View DEF Promise!Wake, Promise!Owned
  <2> QED BY <2>4 DEF Promise!CpuNext
<1>9. NoneStranded
  BY <1>2, <1>3, <1>7 DEF NoneStranded
<1>10. UrgentChoice /\ BootQueued'
  BY <1>2 DEF UrgentChoice, BootQueued
<1> QED BY <1>8, <1>9, <1>10 DEF Mapped

\* thread_start is Decree.
LEMMA StartMapped ==
  ASSUME RefInv, NEW i \in Slots, sys_thread_start(i)
  PROVE  /\ Promise!CpuNext /\ UrgentChoice /\ BootQueued'
         /\ \A j \in Slots : j # i /\ threads'[j].state = "Ready" => threads[j].state = "Ready"
         /\ queues' = queues /\ current' = current
<1>1. threads \in ThreadTable
  BY DEF RefInv, SchedInv, SchedTypeOK, ThreadTable
<1>2. /\ threads' = [threads EXCEPT ![i].state = "Ready"] /\ threads[i].state # "Empty"
      /\ queues' = queues /\ current' = current /\ kernel' = kernel
      /\ kernel = "running" /\ current # None
  BY DEF sys_thread_start, OnCpu
<1>3. RunOf(threads') = [RunOf(threads) EXCEPT ![i] = "Ready"] /\ RunOf(threads)[i] # "Empty"
  BY <1>1, <1>2 DEF RunOf, ThreadTable, Thread
<1>4. ReadyOf(queues') = ReadyOf(queues)
  BY <1>2
<1>5. Promise!Decree(i)
  BY <1>2, <1>3, <1>4, View DEF Promise!Decree, Promise!Owned
<1>6. \A j \in Slots : j # i => threads'[j] = threads[j]
  BY <1>1, <1>2 DEF ThreadTable
<1> QED BY <1>2, <1>5, <1>6 DEF Promise!CpuNext, UrgentChoice, BootQueued

\* What every step does, a stuttering step included.
LEMMA StepMapped ==
  ASSUME RefInv, [SchedNext]_schedVars
  PROVE  /\ RefInv'
         /\ Promise!CpuNext \/ UNCHANGED <<[i \in Slots |-> threads[i].state], {i \in Slots : Queued(i)}, current, kernel>>
         /\ current # None => UrgentChoice
         /\ \A i \in Slots : Stranded(i)' => Stranded(i) \/ (sys_thread_start(i) /\ queues' = queues /\ current' = current)
<1>1. SchedInv'
  BY SchedNextInv DEF RefInv
<1>2. \A i \in Slots : /\ Stranded(i) <=> (threads[i].state = "Ready" /\ i # current /\ ~InQueues(queues, i))
                       /\ Stranded(i)' <=> (threads'[i].state = "Ready" /\ i # current' /\ ~InQueues(queues', i))
  BY DEF Stranded, Queued, InQueues, Entries, At
<1>3. ASSUME Mapped
      PROVE  /\ RefInv' /\ Promise!CpuNext /\ (current # None => UrgentChoice)
             /\ \A i \in Slots : Stranded(i)' => Stranded(i)
  <2>1. \A i \in Slots : Stranded(i)' => Stranded(i)
    BY <1>2, <1>3 DEF Mapped, NoneStranded
  <2> QED BY <1>1, <1>3, <2>1 DEF Mapped, RefInv
<1>4. CASE \E p \in SpawnPriorities : Launch(p) \/ Spawn(p)
  BY <1>3, <1>4, AddMapped
<1>5. CASE run
  BY <1>3, <1>5, RunMapped
<1>6. CASE Tick \/ Block \/ Die
  BY <1>3, <1>6, ScheduleMapped
<1>7. CASE \E i \in Slots : wake_thread(i)
  BY <1>3, <1>7, WakeMapped
<1>8. CASE SpawnOverflow
  <2>1. /\ kernel = "running" /\ current # None /\ kernel' = "panicked" /\ FreeSlots(threads) = {}
        /\ threads' = threads /\ queues' = queues /\ current' = current
    BY <1>8 DEF SpawnOverflow, OnCpu
  <2>2. Promise!Overflow
    <3>1. \A i \in Slots : RunOf(threads)[i] # "Empty"
      BY <2>1 DEF FreeSlots, RunOf
    <3>2. RunOf(threads') = RunOf(threads) /\ ReadyOf(queues') = ReadyOf(queues)
      BY <2>1
    <3> QED BY <2>1, <3>1, <3>2, View DEF Promise!Overflow, Promise!Owned
  <2>3. Mapped
    BY <2>1, <2>2 DEF Mapped, Promise!CpuNext, NoneStranded, UrgentChoice, BootQueued
  <2> QED BY <1>3, <2>3
<1>9. CASE \E i \in Slots : sys_thread_start(i)
  <2>1. PICK i \in Slots : sys_thread_start(i)
    BY <1>9
  <2>2. /\ Promise!CpuNext /\ UrgentChoice /\ BootQueued'
        /\ \A j \in Slots : j # i /\ threads'[j].state = "Ready" => threads[j].state = "Ready"
        /\ queues' = queues /\ current' = current
    BY <2>1, StartMapped
  <2>3. ASSUME NEW j \in Slots, Stranded(j)', ~Stranded(j)
        PROVE  j = i
    BY <1>2, <2>2, <2>3
  <2> QED BY <1>1, <2>1, <2>2, <2>3 DEF RefInv
<1>10. CASE UNCHANGED schedVars
  <2>1. threads' = threads /\ queues' = queues /\ current' = current /\ kernel' = kernel
    BY <1>10 DEF schedVars
  <2>2. RunOf(threads') = RunOf(threads) /\ ReadyOf(queues') = ReadyOf(queues)
    BY <2>1
  <2>3. UNCHANGED <<[i \in Slots |-> threads[i].state], {i \in Slots : Queued(i)}, current, kernel>>
    BY <2>1, <2>2, View
  <2>4. BootQueued' /\ UrgentChoice
    BY <2>1 DEF RefInv, BootQueued, InQueues, Entries, At, UrgentChoice
  <2> QED BY <1>1, <1>2, <2>1, <2>3, <2>4 DEF RefInv
<1> QED BY <1>4, <1>5, <1>6, <1>7, <1>8, <1>9, <1>10 DEF SchedNext

\* The invariant in every reachable state.
THEOREM RefInvariant == SchedSpec => []RefInv
<1>1. SchedInit => RefInv
  BY SchedInitInv DEF RefInv, BootQueued, SchedInit, EmptySlot
<1>2. RefInv /\ [SchedNext]_schedVars => RefInv'
  BY StepMapped
<1> QED BY <1>1, <1>2, PTL DEF SchedSpec

\* The scheduler implements Cpu: every step of it is a step of the abstract
\* arbiter, or changes nothing that Cpu speaks of.
THEOREM SchedulerImplementsCpu == SchedSpec => ImplementsCpu
<1>1. SchedInit => Promise!CpuInit
  <2> SUFFICES ASSUME SchedInit
               PROVE  Promise!CpuInit
    OBVIOUS
  <2>1. /\ threads = [i \in Slots |-> EmptySlot] /\ queues = [l \in Levels |-> <<>>]
        /\ current = None /\ kernel = "booting"
    BY DEF SchedInit
  <2>2. [i \in Slots |-> threads[i].state] = [i \in Slots |-> "Empty"]
    BY <2>1 DEF EmptySlot
  <2>3. Entries(queues) = {}
    BY <2>1 DEF Entries
  <2>4. {i \in Slots : Queued(i)} = {}
    BY <2>3 DEF Queued
  <2> QED BY <2>1, <2>2, <2>4 DEF Promise!CpuInit
<1>2. RefInv /\ [SchedNext]_schedVars => [Promise!CpuNext]_(Promise!cpuVars)
  BY StepMapped DEF Promise!cpuVars
<1> QED BY <1>1, <1>2, RefInvariant, PTL DEF SchedSpec, ImplementsCpu, Promise!CpuSpec

\* A switch to a queued thread never passes over one of a more urgent level
\* (pop_next_from_all_queues).
THEOREM UrgentAlwaysFirst == SchedSpec => MostUrgentFirst
<1>1. RefInv /\ [SchedNext]_schedVars =>
        [current # None /\ current' # current /\ current' \in Slots /\ Queued(current')
           => \A i \in Slots : Queued(i) =>
                threads[current'].priority <= threads[i].priority]_schedVars
  <2> SUFFICES ASSUME RefInv, [SchedNext]_schedVars, current # None, current' # current,
                      current' \in Slots, Queued(current'), NEW i \in Slots, Queued(i)
               PROVE  threads[current'].priority <= threads[i].priority
    OBVIOUS
  <2>1. UrgentChoice
    BY StepMapped
  <2>2. InQueues(queues, current') /\ InQueues(queues, i)
    BY DEF Queued, InQueues
  <2> QED BY <2>1, <2>2 DEF UrgentChoice
<1> QED BY <1>1, RefInvariant, PTL DEF SchedSpec, MostUrgentFirst

\* add, schedule and wake_thread leave no Ready thread outside the queues;
\* thread_start alone can.
THEOREM OnlyStartStrands == SchedSpec => OnlyThreadStartStrands
<1>1. RefInv /\ [SchedNext]_schedVars =>
        [\A i \in Slots : ~Stranded(i) /\ Stranded(i)' =>
            queues' = queues /\ current' = current /\ sys_thread_start(i)]_schedVars
  BY StepMapped
<1> QED BY <1>1, RefInvariant, PTL DEF SchedSpec, OnlyThreadStartStrands
=============================================================================
