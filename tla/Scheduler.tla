------------------------------ MODULE Scheduler ------------------------------
(***************************************************************************)
(* The kernel's thread scheduler (kernel/src/task/scheduler.rs, the        *)
(* scheduling fields of task/thread.rs, and the timer tick that drives it, *)
(* drivers/timer.rs).                                                      *)
(*                                                                         *)
(* There is one CPU and every trap into the kernel runs with interrupts    *)
(* masked, so a kernel entry is one atomic step up to its call of          *)
(* schedule().  schedule() itself is the action Schedule(th, qs): th and   *)
(* qs are the thread table and the queues as the caller leaves them, so a  *)
(* handler that marks its thread Blocked or Dead and then calls schedule() *)
(* is a single action here, as it is in the code.                          *)
(*                                                                         *)
(* A thread is named by its slot: slots are filled by add() and never      *)
(* emptied, so slots and thread ids correspond one to one.                 *)
(***************************************************************************)
EXTENDS Integers, Sequences, FiniteSets

CONSTANTS
  MaxThreads,       \* MAX_THREADS, the slots of the thread table
  SpawnPriorities,  \* the levels threads are created at
  None              \* Option::None for current_idx

Levels   == 0..4    \* PRIORITY_LEVELS queues, in the order of enum Priority
Realtime == 0
High     == 1
Normal   == 2
Low      == 3
Idle     == 4

DefaultTimeSlice == 5

Slots == 0..(MaxThreads - 1)

ASSUME MaxThreadsAssumption == MaxThreads \in Nat \ {0}
ASSUME PriorityAssumption == SpawnPriorities \subseteq Levels
ASSUME NoneAssumption == None \notin Slots

VARIABLES
  threads,  \* the thread table: state, priority and remaining_ticks of a slot
  queues,   \* one FIFO of slots for each level
  current,  \* current_idx
  kernel    \* "booting" until run(), then "running"; "halted" when schedule()
            \* parks the CPU, "panicked" after a panic!

schedVars == <<threads, queues, current, kernel>>

\* "Empty" stands for threads[i] == None.
ThreadStates == {"Empty", "Ready", "Running", "Blocked", "Sleeping", "Dead"}

Thread == [state : ThreadStates, priority : Levels, ticks : 0..DefaultTimeSlice]

EmptySlot == [state |-> "Empty", priority |-> Normal, ticks |-> 0]

-----------------------------------------------------------------------------
(* The ready queues. *)

\* Mutant: the newest thread goes to the front.
PushFront(q, i) == IF Len(q) >= MaxThreads THEN q ELSE <<i>> \o q

\* Mutant: the last place of a queue is never used.
PushOneShort(q, i) == IF Len(q) >= MaxThreads - 1 THEN q ELSE Append(q, i)

\* ThreadQueue::push: a full queue drops the thread (the result is ignored).
push(q, i) == IF Len(q) >= MaxThreads THEN q ELSE Append(q, i)

requeue_current(th, qs, i) == [qs EXCEPT ![th[i].priority] = push(@, i)]

\* A queue entry is a pair <<level, position>>; pops take them in this order.
Entries(qs) == {e \in Levels \X (1..MaxThreads) : e[2] <= Len(qs[e[1]])}

At(qs, e) == qs[e[1]][e[2]]

\* Mutant: pops the lowest-priority level first.
LowLevelFirst(e, f) == e[1] > f[1] \/ (e[1] = f[1] /\ e[2] < f[2])

Before(e, f) == e[1] < f[1] \/ (e[1] = f[1] /\ e[2] < f[2])

Rank(qs, e) == Cardinality({f \in Entries(qs) : Before(f, e)})

\* Mutant: the entry itself stays queued.
PopBefore(qs, e) ==
  [l \in Levels |-> IF l < e[1] THEN <<>>
                    ELSE IF l = e[1] THEN SubSeq(qs[l], e[2], Len(qs[l]))
                    ELSE qs[l]]

\* The queues once every entry up to and including e has been popped.
PopThrough(qs, e) ==
  [l \in Levels |-> IF l < e[1] THEN <<>>
                    ELSE IF l = e[1] THEN SubSeq(qs[l], e[2] + 1, Len(qs[l]))
                    ELSE qs[l]]

\* Mutant: the scan looks for a runnable thread only.
ScanRunnable(th) ==
  LET able == {i \in Slots : th[i].state \in {"Ready", "Running"}}
  IN  IF able = {} THEN None
      ELSE CHOOSE i \in able : \A j \in able : i <= j

\* The linear scan of the thread table: the first slot that is not Dead,
\* whatever else its state is.
first_not_dead(th) ==
  LET alive == {i \in Slots : th[i].state \notin {"Empty", "Dead"}}
  IN  IF alive = {} THEN None
      ELSE CHOOSE i \in alive : \A j \in alive : i <= j

\* MAX_THREADS attempts, each popping one entry and dropping it if its thread
\* is Dead.  The scan happens only if the queues run dry before the attempts.
pop_next_from_all_queues(th, qs) ==
  LET examined == {e \in Entries(qs) : Rank(qs, e) < MaxThreads}
      live     == {e \in examined : th[At(qs, e)].state \notin {"Empty", "Dead"}}
      first    == CHOOSE e \in live : \A f \in live : e = f \/ Before(e, f)
      last     == CHOOSE e \in examined : \A f \in examined : e = f \/ Before(f, e)
  IN  IF live # {} THEN
        [next |-> At(qs, first), queues |-> PopThrough(qs, first)]
      ELSE IF Cardinality(Entries(qs)) < MaxThreads THEN
        [next |-> first_not_dead(th), queues |-> [l \in Levels |-> <<>>]]
      ELSE
        [next |-> None, queues |-> PopThrough(qs, last)]

-----------------------------------------------------------------------------
(* Time slices and dispatch. *)

decay_priority(t) ==
  [t EXCEPT !.priority = IF @ < Low THEN @ + 1 ELSE @,
            !.ticks    = DefaultTimeSlice]

\* What schedule() does to the outgoing thread before it looks for the next.
Charge(t) ==
  LET left    == IF t.ticks = 0 THEN 0 ELSE t.ticks - 1
      charged == [t EXCEPT !.state = IF @ = "Running" THEN "Ready" ELSE @,
                           !.ticks = left]
  IN  IF left = 0 THEN decay_priority(charged) ELSE charged

\* What run() and schedule() do to the incoming thread.
Dispatch(t) == [t EXCEPT !.state = "Running", !.ticks = DefaultTimeSlice]

AllDead(th) == \A i \in Slots : th[i].state \in {"Empty", "Dead"}

\* Each intermediate value is bound by \E over a singleton, as a `let` of the
\* code would bind it.
Schedule(th, qs) ==
  \E out \in {[th EXCEPT ![current] = Charge(@)]} :
  \E waiting \in {IF out[current].state = "Ready"
                  THEN requeue_current(out, qs, current) ELSE qs} :
  \E pick \in {pop_next_from_all_queues(out, waiting)} :
    /\ queues' = pick.queues
    /\ IF pick.next # None
       THEN /\ threads' = [out EXCEPT ![pick.next] = Dispatch(@)]
            /\ current' = pick.next
            /\ UNCHANGED kernel
       ELSE /\ threads' = out
            /\ current' = IF AllDead(out) THEN current ELSE None
            /\ kernel' = IF AllDead(out) THEN "halted" ELSE kernel

-----------------------------------------------------------------------------
(* Kernel entries.  Those of a running system are made by the current      *)
(* thread, or by the timer interrupting it.                                *)

OnCpu == kernel = "running" /\ current # None

FreeSlots(th) == {i \in Slots : th[i].state = "Empty"}

\* Mutant: the slot after the last occupied one.
SlotAfterLast(th) == Cardinality(Slots \ FreeSlots(th)) + 1

find_empty_slot(th) == CHOOSE i \in FreeSlots(th) : \A j \in FreeSlots(th) : i <= j

add(p) ==
  LET i == find_empty_slot(threads)
  IN  /\ FreeSlots(threads) # {}
      /\ threads' = [threads EXCEPT ![i] =
           [state |-> "Ready", priority |-> p, ticks |-> DefaultTimeSlice]]
      /\ queues' = [queues EXCEPT ![p] = push(@, i)]
      /\ UNCHANGED <<current, kernel>>

\* Boot adds the loader's thread, unless its launch fails, and calls run().
Launch(p) == /\ kernel = "booting"
             /\ FreeSlots(threads) = Slots
             /\ add(p)

run == LET pick == pop_next_from_all_queues(threads, queues)
       IN  /\ kernel = "booting"
           /\ queues' = pick.queues
           /\ \/ /\ pick.next # None
                 /\ current' = pick.next
                 /\ threads' = [threads EXCEPT ![pick.next] = Dispatch(@)]
                 /\ kernel' = "running"
              \/ /\ pick.next = None
                 /\ kernel' = "panicked"
                 /\ UNCHANGED <<threads, current>>

\* A running program creates a thread (spawn, execve, thread_create, ...).
Spawn(p) == OnCpu /\ add(p)

\* add() panics when the table is full; Dead threads still hold their slots.
SpawnOverflow == /\ OnCpu
                 /\ FreeSlots(threads) = {}
                 /\ kernel' = "panicked"
                 /\ UNCHANGED <<threads, queues, current>>

\* The timer interrupt, and the yield system call.
Tick == OnCpu /\ Schedule(threads, queues)

\* A blocking primitive marks its caller Blocked and calls schedule().
Block == OnCpu /\ Schedule([threads EXCEPT ![current].state = "Blocked"], queues)

\* sys_exit and the EL0 fault handlers.
Die == OnCpu /\ Schedule([threads EXCEPT ![current].state = "Dead"], queues)

\* Mutant: wakes without checking that the thread is asleep.
WakeAny(i) ==
  /\ OnCpu
  /\ threads[i].state \notin {"Empty", "Dead"}
  /\ threads' = [threads EXCEPT ![i].state = "Ready"]
  /\ queues' = requeue_current(threads, queues, i)
  /\ UNCHANGED <<current, kernel>>

wake_thread(i) ==
  /\ OnCpu
  /\ threads[i].state \in {"Blocked", "Sleeping"}
  /\ threads' = [threads EXCEPT ![i].state = "Ready"]
  /\ queues' = requeue_current(threads, queues, i)
  /\ UNCHANGED <<current, kernel>>

\* Marks any thread Ready, from any state, and queues nothing.
sys_thread_start(i) ==
  /\ OnCpu
  /\ threads[i].state # "Empty"
  /\ threads' = [threads EXCEPT ![i].state = "Ready"]
  /\ UNCHANGED <<queues, current, kernel>>

-----------------------------------------------------------------------------

SchedInit ==
  /\ threads = [i \in Slots |-> EmptySlot]
  /\ queues = [l \in Levels |-> <<>>]
  /\ current = None
  /\ kernel = "booting"

SchedNext ==
  \/ \E p \in SpawnPriorities : Launch(p)
  \/ run
  \/ \E p \in SpawnPriorities : Spawn(p)
  \/ SpawnOverflow
  \/ Tick
  \/ Block
  \/ Die
  \/ \E i \in Slots : wake_thread(i)
  \/ \E i \in Slots : sys_thread_start(i)

SchedSpec == SchedInit /\ [][SchedNext]_schedVars

\* The generic timer is re-armed on every tick, so ticks never stop.
FairSchedSpec == SchedSpec /\ WF_schedVars(Tick)

-----------------------------------------------------------------------------
(* Properties. *)

SchedTypeOK ==
  /\ threads \in [Slots -> Thread]
  /\ queues \in [Levels -> Seq(Slots)]
  /\ current \in Slots \cup {None}
  /\ kernel \in {"booting", "running", "halted", "panicked"}

Queued(i) == \E e \in Entries(queues) : At(queues, e) = i

QueuesMatch(th, qs) ==
  /\ \A l \in Levels : Len(qs[l]) <= MaxThreads
  /\ \A e \in Entries(qs) : /\ th[At(qs, e)].state = "Ready"
                            /\ th[At(qs, e)].priority = e[1]
  /\ \A e, f \in Entries(qs) : At(qs, e) = At(qs, f) => e = f

\* A slot waits in at most one place of the ready queues; the thread there is
\* Ready, waits at the level of its own priority, and is not the thread that
\* owns the CPU.  push, requeue_current, wake_thread and schedule each rely
\* on it: none of them looks whether the slot is already queued.
QueuesSound == QueuesMatch(threads, queues) /\ ~Queued(current)

\* While the kernel runs, the CPU belongs to some thread, that thread is
\* neither Dead nor waiting, and no other thread believes that it is running.
\* In particular schedule() never takes its "current_idx = None" branch.
CpuHasLiveOwner ==
  /\ kernel = "running" =>
       current # None /\ threads[current].state \in {"Ready", "Running"}
  /\ \A i \in Slots : threads[i].state = "Running" => i = current

\* A context switch to a queued thread never passes over a queued thread of
\* a more urgent level.
MostUrgentFirst ==
  [][current # None /\ current' # current /\ current' \in Slots /\ Queued(current')
       => \A i \in Slots : Queued(i) =>
            threads[current'].priority <= threads[i].priority]_schedVars

Stranded(i) == threads[i].state = "Ready" /\ i # current /\ ~Queued(i)

\* A thread that is Ready and waiting for the CPU is in a queue; the only
\* kernel entry that can leave one outside is thread_start.
OnlyThreadStartStrands ==
  [][\A i \in Slots : ~Stranded(i) /\ Stranded(i)' =>
        queues' = queues /\ current' = current /\ sys_thread_start(i)]_schedVars

\* Levels more urgent than i's that have a thread wanting the CPU.
Outranked(i) ==
  \E j \in Slots : /\ threads[j].state \in {"Ready", "Running"}
                   /\ threads[j].priority < threads[i].priority

\* Round robin: no thread waits in a queue for ever unless threads of a more
\* urgent level keep wanting the CPU.
NoStarvation ==
  \A i \in Slots : []<>~(kernel = "running" /\ Queued(i) /\ ~Outranked(i))

-----------------------------------------------------------------------------
(* The promise to the rest of the kernel. *)

Promise == INSTANCE Cpu WITH
  Threads <- Slots,
  run     <- [i \in Slots |-> threads[i].state],
  ready   <- {i \in Slots : Queued(i)},
  cpu     <- current

\* Behind its queues, priorities and time slices the scheduler is the
\* arbiter that module Cpu describes, the one the blocking services are
\* modelled on: a switch goes to some queued thread, a wake-up always queues,
\* and only an empty ready set lets the fallback scan choose.
ImplementsCpu == Promise!CpuSpec
=============================================================================
