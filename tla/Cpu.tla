--------------------------------- MODULE Cpu ---------------------------------
(***************************************************************************)
(* What the rest of the kernel may rely on from the scheduler: which       *)
(* threads are runnable, who owns the CPU, and how ownership moves.        *)
(* Module Scheduler, which models task/scheduler.rs, implements this       *)
(* specification; the modules of the blocking kernel services are built on *)
(* it.  Which of the queued threads runs next is left open here.           *)
(***************************************************************************)
EXTENDS Integers, FiniteSets

CONSTANTS
  Threads,  \* the slots of the thread table
  None      \* no thread

ASSUME NoThreadAssumption == None \notin Threads

VARIABLES
  run,    \* the state of each thread, "Empty" for an unused slot
  ready,  \* the threads in the ready queues
  cpu,    \* the owner of the CPU
  kernel  \* "booting", "running", "halted" or "panicked"

cpuVars == <<run, ready, cpu, kernel>>

RunStates == {"Empty", "Ready", "Running", "Blocked", "Sleeping", "Dead"}

Asleep == {"Blocked", "Sleeping"}

\* The threads of S that wake_thread would act on.
Sleepers(r, S) == {i \in S : r[i] \in Asleep}

\* The thread table and the queues after wake_thread on each member of S.
WakeStates(r, S) == [i \in Threads |-> IF i \in Sleepers(r, S) THEN "Ready" ELSE r[i]]

\* Mutant: a thread is woken without being queued.
WakeNoQueue(r, q, S) == q

WakeQueue(r, q, S) == q \cup Sleepers(r, S)

\* schedule(), called with the table r and the queues q: the owner goes back
\* to the queues if it is still runnable, and a queued thread gets the CPU.
\* With empty queues any thread that is not dead may be chosen, even one that
\* waits; with none left the machine stops.
Switch(r, q) ==
  LET off     == [i \in Threads |-> IF i = cpu /\ r[i] = "Running" THEN "Ready" ELSE r[i]]
      waiting == IF off[cpu] = "Ready" THEN q \cup {cpu} ELSE q
      alive   == {i \in Threads : off[i] \notin {"Empty", "Dead"}}
  IN  \/ \E i \in (IF waiting # {} THEN waiting ELSE alive) :
           /\ run' = [off EXCEPT ![i] = "Running"]
           /\ ready' = waiting \ {i}
           /\ cpu' = i
           /\ UNCHANGED kernel
      \/ /\ waiting \cup alive = {}
         /\ run' = off
         /\ ready' = {}
         /\ kernel' = "halted"
         /\ UNCHANGED cpu

Owned == kernel = "running" /\ cpu # None

Admit(i) == /\ kernel = "booting" \/ Owned
            /\ run[i] = "Empty"
            /\ run' = [run EXCEPT ![i] = "Ready"]
            /\ ready' = ready \cup {i}
            /\ UNCHANGED <<cpu, kernel>>

Start == /\ kernel = "booting"
         /\ \/ \E i \in ready : /\ run' = [run EXCEPT ![i] = "Running"]
                                /\ ready' = ready \ {i}
                                /\ cpu' = i
                                /\ kernel' = "running"
            \/ /\ ready = {}
               /\ kernel' = "panicked"
               /\ UNCHANGED <<run, ready, cpu>>

Overflow == /\ Owned
            /\ \A i \in Threads : run[i] # "Empty"
            /\ kernel' = "panicked"
            /\ UNCHANGED <<run, ready, cpu>>

Preempt == Owned /\ Switch(run, ready)

Sleep == Owned /\ Switch([run EXCEPT ![cpu] = "Blocked"], ready)

Finish == Owned /\ Switch([run EXCEPT ![cpu] = "Dead"], ready)

Wake(S) == /\ Owned
           /\ run' = WakeStates(run, S)
           /\ ready' = WakeQueue(run, ready, S)
           /\ UNCHANGED <<cpu, kernel>>

\* thread_start: Ready by decree, in no queue unless it was in one.
Decree(i) == /\ Owned
             /\ run[i] # "Empty"
             /\ run' = [run EXCEPT ![i] = "Ready"]
             /\ UNCHANGED <<ready, cpu, kernel>>

CpuInit == /\ run = [i \in Threads |-> "Empty"]
           /\ ready = {}
           /\ cpu = None
           /\ kernel = "booting"

CpuNext == \/ \E i \in Threads : Admit(i) \/ Decree(i)
           \/ Start \/ Overflow \/ Preempt \/ Sleep \/ Finish
           \/ \E i \in Threads : Wake({i})

CpuSpec == CpuInit /\ [][CpuNext]_cpuVars
=============================================================================
