---------------------------- MODULE ProcessProofs ----------------------------
(***************************************************************************)
(* For any number of process slots, threads, pids and signals: a thread of *)
(* a process that exists uses that process's handle table and page table,  *)
(* orphans are never adopted, and a deadly signal is never dropped.        *)
(***************************************************************************)
EXTENDS Process, FiniteSetTheorems, WellFoundedInduction, TLAPS

\* No two slots hold the same pid, and a pid in use was drawn earlier.
PidsDrawn ==
  /\ \A i, j \in Slots : procs[i].pid = procs[j].pid /\ procs[i].pid # 0 => i = j
  /\ \A i \in Slots : procs[i].pid < nextPid

\* A thread that exists carries a pid that was drawn, whether or not its
\* process is still there.
ThreadsOwned == \A t \in Existing : thr[t].pid \in Pids /\ thr[t].pid < nextPid

\* Only threads that exist are queued, are launched or own the CPU.
OnlyExisting == ready \cup fresh \cup {cpu} \subseteq Existing

\* The inductive invariant.
ProcInv ==
  /\ ProcTypeOK /\ PidsDrawn /\ ThreadsOwned /\ OnlyExisting
  /\ TablesMatch /\ OwnSpace

-----------------------------------------------------------------------------
(* What a step does, in terms of the threads it adds and the slot it fills. *)

\* The CPU and the queues; the threads in new are added.
CpuStep(new) ==
  /\ run' \in [Threads -> RunStates]
  /\ kernel' \in {"running", "halted", "panicked", "corrupt"}
  /\ Existing' = Existing \cup new
  /\ ready' \cup {cpu'} \subseteq Existing'

\* The process table: a pid stays where it is until its slot is emptied, and
\* the pid drawn now, if any, goes to the free slot s.
TableStep(s) ==
  /\ procs' \in [Slots -> Process]
  /\ nextPid' \in nextPid..(MaxPid + 1)
  /\ \A i \in Slots : \/ procs'[i].pid \in {procs[i].pid, 0}
                      \/ i = s /\ procs[i].pid = 0 /\ procs'[i].pid = nextPid /\ nextPid < nextPid'

\* The threads: those in new belong to a process that exists and point to its
\* table, the others keep theirs.
ThreadStep(new) ==
  /\ thr' \in [Threads -> ThreadInfo]
  /\ \A t \in Threads \ new : thr'[t].pid = thr[t].pid /\ thr'[t].table = thr[t].table
  /\ \A t \in new : procs'[thr'[t].table].pid = thr'[t].pid /\ thr'[t].pid # 0

\* The signals.
SignalStep ==
  \A i \in Slots :
    Deadly(procs[i]) /\ procs'[i].pid = procs[i].pid =>
      \/ Deadly(procs'[i])
      \/ procs'[i].state = "Zombie"
      \/ procs'[i].ignored # procs[i].ignored

Shape(new, s) ==
  /\ new \in SUBSET Threads /\ s \in Slots
  /\ CpuStep(new) /\ TableStep(s) /\ ThreadStep(new) /\ SignalStep
  /\ \E launched \in SUBSET new : Reload(launched)

-----------------------------------------------------------------------------
(* The operators. *)

\* The first of a set of slots.
LEMMA MinSlot ==
  ASSUME NEW S \in SUBSET Slots, S # {}
  PROVE  Min(S) \in S
<1> DEFINE less == {ss \in Nat \X Nat : ss[1] < ss[2]}
<1>1. IsWellFoundedOn(less, Nat)
  BY NatLessThanWellFounded DEF OpToRel
<1>2. S \subseteq Nat
  BY ProcBoundsAssumption DEF Slots
<1>3. PICK i \in S : \A j \in S : ~(<<j, i>> \in less)
  <2> HIDE DEF less
  <2> QED BY <1>1, <1>2, WFMin
<1>4. ASSUME NEW j \in S
      PROVE  i <= j
  <2>1. i \in Nat /\ j \in Nat /\ ~(j < i)
    BY <1>2, <1>3
  <2> QED BY <2>1
<1> QED BY <1>4 DEF Min

\* schedule() neither creates nor forgets a thread, and only queues and runs
\* threads that exist.
LEMMA SwitchSound ==
  ASSUME NEW r \in [Threads -> RunStates], NEW q \in SUBSET Threads,
         cpu \in Threads, r[cpu] # "Empty",
         \A t \in q : r[t] # "Empty",
         kernel \in {"running", "halted", "panicked", "corrupt"},
         Switch(r, q)
  PROVE  /\ run' \in [Threads -> RunStates]
         /\ kernel' \in {"running", "halted", "panicked", "corrupt"}
         /\ \A t \in Threads : run'[t] = "Empty" <=> r[t] = "Empty"
         /\ ready' \cup {cpu'} \subseteq Threads
         /\ \A t \in ready' \cup {cpu'} : run'[t] # "Empty"
<1> DEFINE off == [i \in Threads |-> IF i = cpu /\ r[i] = "Running" THEN "Ready" ELSE r[i]]
           waiting == IF off[cpu] = "Ready" THEN q \cup {cpu} ELSE q
           alive == {i \in Threads : off[i] \notin {"Empty", "Dead"}}
<1>1. /\ off \in [Threads -> RunStates]
      /\ \A t \in Threads : off[t] = "Empty" <=> r[t] = "Empty"
  BY DEF RunStates
<1>2. waiting \subseteq Threads /\ \A t \in waiting : off[t] # "Empty"
  BY <1>1
<1>3. alive \subseteq Threads /\ \A t \in alive : off[t] # "Empty"
  OBVIOUS
<1>4. \/ \E i \in (IF waiting # {} THEN waiting ELSE alive) :
           /\ run' = [off EXCEPT ![i] = "Running"]
           /\ ready' = waiting \ {i}
           /\ cpu' = i
           /\ UNCHANGED kernel
      \/ /\ waiting \cup alive = {}
         /\ run' = off
         /\ ready' = {}
         /\ kernel' = "halted"
         /\ UNCHANGED cpu
  BY DEF Switch
<1> HIDE DEF off, waiting, alive
<1>5. CASE \E i \in (IF waiting # {} THEN waiting ELSE alive) :
             /\ run' = [off EXCEPT ![i] = "Running"]
             /\ ready' = waiting \ {i}
             /\ cpu' = i
             /\ UNCHANGED kernel
  <2>1. PICK i \in (IF waiting # {} THEN waiting ELSE alive) :
             /\ run' = [off EXCEPT ![i] = "Running"]
             /\ ready' = waiting \ {i}
             /\ cpu' = i
             /\ UNCHANGED kernel
    BY <1>5
  <2>2. i \in Threads /\ off[i] # "Empty"
    BY <1>2, <1>3
  <2> QED BY <2>1, <2>2, <1>1, <1>2 DEF RunStates
<1>6. CASE /\ waiting \cup alive = {}
           /\ run' = off
           /\ ready' = {}
           /\ kernel' = "halted"
           /\ UNCHANGED cpu
  BY <1>6, <1>1
<1> QED BY <1>4, <1>5, <1>6


\* A step of that shape preserves the invariant.
LEMMA ShapePreserves ==
  ASSUME ProcInv, NEW new, NEW s, Shape(new, s)
  PROVE  ProcInv'
<1> USE DEF Slots, Pids
<1>1. /\ ProcTypeOK /\ PidsDrawn /\ ThreadsOwned /\ OnlyExisting
      /\ TablesMatch /\ OwnSpace
  BY DEF ProcInv
<1>2. /\ new \in SUBSET Threads /\ s \in Slots
      /\ CpuStep(new) /\ TableStep(s) /\ ThreadStep(new)
  BY DEF Shape
<1>3. PICK launched \in SUBSET new : Reload(launched)
  BY DEF Shape
<1>4. PidsDrawn'
  BY <1>1, <1>2, SMTT(30) DEF PidsDrawn, TableStep, ProcTypeOK, Process
<1>5. ThreadsOwned'
  <2> SUFFICES ASSUME NEW t \in Existing'
               PROVE  thr'[t].pid \in Pids /\ thr'[t].pid < nextPid'
    BY DEF ThreadsOwned
  <2>1. t \in Threads /\ thr'[t].table \in Slots /\ thr'[t].pid \in Pids \cup {0}
    BY <1>2 DEF Existing, ThreadStep, ThreadInfo
  <2>2. CASE t \in new
    BY <2>1, <2>2, <1>2, <1>4 DEF ThreadStep, PidsDrawn
  <2>3. CASE t \notin new
    BY <2>1, <2>3, <1>1, <1>2
       DEF ThreadsOwned, CpuStep, ThreadStep, TableStep, ProcTypeOK
  <2> QED BY <2>2, <2>3
<1>6. OnlyExisting'
  BY <1>1, <1>2, <1>3 DEF OnlyExisting, CpuStep, Reload
<1>7. ProcTypeOK'
  <2>1. fresh' \subseteq Threads /\ ready' \subseteq Threads /\ cpu' \in Threads
    BY <1>6 DEF OnlyExisting, Existing
  <2>2. space' \in Pids
    <3>1. CASE cpu' \in fresh \cup launched
      <4>1. space' = thr'[cpu'].pid
        BY <1>3, <3>1 DEF Reload
      <4>2. cpu' \in Existing'
        BY <1>6 DEF OnlyExisting
      <4> QED BY <4>1, <4>2, <1>5 DEF ThreadsOwned
    <3>2. CASE cpu' \notin fresh \cup launched /\ HasRoot(thr'[cpu'].pid)
      <4>1. space' = thr'[cpu'].pid /\ thr'[cpu'].pid # 0
        BY <1>3, <3>2 DEF Reload, HasRoot
      <4> QED BY <4>1, <2>1, <1>2 DEF ThreadStep, ThreadInfo
    <3>3. CASE cpu' \notin fresh \cup launched /\ ~HasRoot(thr'[cpu'].pid)
      BY <1>1, <1>3, <3>3 DEF Reload, ProcTypeOK
    <3> QED BY <3>1, <3>2, <3>3
  <2> QED BY <2>1, <2>2, <1>1, <1>2 DEF ProcTypeOK, CpuStep, TableStep, ThreadStep
<1>8. TablesMatch'
  <2> SUFFICES ASSUME NEW t \in Existing', NEW i \in Slots,
                      procs'[i].pid = thr'[t].pid, thr'[t].pid # 0
               PROVE  thr'[t].table = i
    BY DEF TablesMatch, find_process
  <2>1. t \in Threads /\ thr'[t].table \in Slots
    BY <1>7 DEF Existing, ProcTypeOK, ThreadInfo
  <2>2. CASE t \in new
    BY <2>1, <2>2, <1>2, <1>4 DEF ThreadStep, PidsDrawn
  <2>3. CASE t \notin new
    <3>1. t \in Existing /\ thr'[t].pid = thr[t].pid /\ thr'[t].table = thr[t].table
      BY <2>1, <2>3, <1>2 DEF CpuStep, ThreadStep
    <3>2. thr[t].pid \in Nat /\ nextPid \in Nat /\ thr[t].pid < nextPid
      BY <3>1, <1>1 DEF ThreadsOwned, ProcTypeOK
    <3>3. procs[i].pid = thr[t].pid
      BY <3>1, <3>2, <1>2 DEF TableStep
    <3> QED BY <3>1, <3>3, <1>1 DEF TablesMatch, find_process
  <2> QED BY <2>2, <2>3
<1>9. OwnSpace'
  BY <1>3 DEF OwnSpace, Reload, HasRoot, Mine, find_process, Caller, Owned
<1> QED BY <1>4, <1>5, <1>6, <1>7, <1>8, <1>9 DEF ProcInv


-----------------------------------------------------------------------------
(* The parts that the kernel entries are made of. *)

\* The caller is a thread that exists, and its table is a slot.
LEMMA CallerSound ==
  ASSUME ProcInv
  PROVE  /\ cpu \in Threads /\ run[cpu] # "Empty"
         /\ thr[cpu] \in ThreadInfo /\ thr[cpu].table \in Slots
         /\ Caller \in Pids \cup {0}
         /\ \A t \in ready : run[t] # "Empty"
  BY DEF ProcInv, ProcTypeOK, OnlyExisting, Existing, ThreadInfo, Caller

\* A call that comes back to its caller.
LEMMA StayStep ==
  ASSUME ProcInv, Stay
  PROVE  CpuStep({})
  BY DEF ProcInv, ProcTypeOK, OnlyExisting, Existing, Stay, cpuVars, CpuStep

\* The caller gives the CPU up, for the time being or for good.
LEMMA LeaveStep ==
  ASSUME ProcInv, Switch(run, ready) \/ Die(run, ready)
  PROVE  CpuStep({})
<1>1. PICK r \in {run, [run EXCEPT ![cpu] = "Dead"]} : Switch(r, ready)
  BY DEF Die
<1>2. /\ r \in [Threads -> RunStates] /\ r[cpu] # "Empty"
      /\ \A t \in Threads : r[t] = "Empty" <=> run[t] = "Empty"
  BY CallerSound DEF ProcInv, ProcTypeOK, RunStates
<1>3. /\ \A t \in ready : r[t] # "Empty"
      /\ kernel \in {"running", "halted", "panicked", "corrupt"}
      /\ cpu \in Threads /\ ready \in SUBSET Threads
  BY <1>2, CallerSound DEF ProcInv, ProcTypeOK
<1>4. /\ run' \in [Threads -> RunStates]
      /\ kernel' \in {"running", "halted", "panicked", "corrupt"}
      /\ \A t \in Threads : run'[t] = "Empty" <=> r[t] = "Empty"
      /\ ready' \cup {cpu'} \subseteq Threads
      /\ \A t \in ready' \cup {cpu'} : run'[t] # "Empty"
  BY <1>1, <1>2, <1>3, SwitchSound
<1> QED BY <1>2, <1>4 DEF CpuStep, Existing

\* The slot that Scheduler::add takes is unused.
LEMMA NewThreadUnused ==
  ASSUME EmptyThreads # {}
  PROVE  NewThread \in Threads /\ run[NewThread] = "Empty"
  BY DEF EmptyThreads, NewThread

\* A thread is added and the caller carries on, or dies.
LEMMA AddStep ==
  ASSUME ProcInv, EmptyThreads # {}, Alongside \/ Instead
  PROVE  CpuStep({NewThread})
<1>1. /\ NewThread \in Threads /\ run[NewThread] = "Empty" /\ NewThread # cpu
      /\ cpu \in Threads /\ run[cpu] # "Empty" /\ \A t \in ready : run[t] # "Empty"
  BY NewThreadUnused, CallerSound
<1>2. /\ run \in [Threads -> RunStates] /\ ready \subseteq Threads
      /\ kernel \in {"running", "halted", "panicked", "corrupt"}
  BY DEF ProcInv, ProcTypeOK
<1>3. /\ Admitted \in [Threads -> RunStates]
      /\ \A t \in Threads : Admitted[t] = "Empty" <=> run[t] = "Empty" /\ t # NewThread
  BY <1>1, <1>2 DEF Admitted, RunStates
<1>4. CASE Alongside
  BY <1>1, <1>2, <1>3, <1>4 DEF Alongside, CpuStep, Existing
<1>5. CASE Instead
  <2> DEFINE r == [Admitted EXCEPT ![cpu] = "Dead"]
             q == ready \cup {NewThread}
  <2>1. /\ r \in [Threads -> RunStates]
        /\ \A t \in Threads : r[t] = "Empty" <=> run[t] = "Empty" /\ t # NewThread
    BY <1>1, <1>3 DEF RunStates
  <2>2. q \in SUBSET Threads /\ r[cpu] # "Empty" /\ \A t \in q : r[t] # "Empty"
    BY <2>1, <1>1, <1>2
  <2>3. Switch(r, q)
    BY <1>5 DEF Instead, Die
  <2> HIDE DEF r, q
  <2>4. /\ run' \in [Threads -> RunStates]
        /\ kernel' \in {"running", "halted", "panicked", "corrupt"}
        /\ \A t \in Threads : run'[t] = "Empty" <=> r[t] = "Empty"
        /\ ready' \cup {cpu'} \subseteq Threads
        /\ \A t \in ready' \cup {cpu'} : run'[t] # "Empty"
    BY <2>1, <2>2, <2>3, <1>1, <1>2, SwitchSound
  <2> QED BY <1>1, <2>1, <2>4 DEF CpuStep, Existing
<1> QED BY <1>4, <1>5

\* allocate_process fills a free slot and touches no other.
LEMMA AllocateSound ==
  ASSUME ProcInv, CanAllocate, NEW parent \in Pids \cup {0}, NEW root \in BOOLEAN
  PROVE  /\ Min(FreeSlots) \in Slots /\ procs[Min(FreeSlots)].pid = 0
         /\ nextPid \in Pids /\ nextPid + 1 \in nextPid..(MaxPid + 1)
         /\ allocate_process(parent, root) \in [Slots -> Process]
         /\ allocate_process(parent, root)[Min(FreeSlots)].pid = nextPid
         /\ \A i \in Slots : i # Min(FreeSlots) => allocate_process(parent, root)[i] = procs[i]
<1>1. Min(FreeSlots) \in FreeSlots
  BY MinSlot DEF CanAllocate, FreeSlots
<1>2. Min(FreeSlots) \in Slots /\ procs[Min(FreeSlots)].pid = 0
  BY <1>1 DEF FreeSlots
<1>3. nextPid \in Pids /\ nextPid + 1 \in nextPid..(MaxPid + 1)
  BY ProcBoundsAssumption DEF ProcInv, ProcTypeOK, CanAllocate, Pids
<1>4. NewProcess(nextPid, parent, root) \in Process /\ NewProcess(nextPid, parent, root).pid = nextPid
  BY <1>3 DEF NewProcess, Process
<1> DEFINE s == Min(FreeSlots)
           new == NewProcess(nextPid, parent, root)
<1>5. allocate_process(parent, root) = [procs EXCEPT ![s] = new] /\ procs \in [Slots -> Process]
  BY DEF allocate_process, ProcInv, ProcTypeOK
<1>6. s \in Slots /\ new \in Process /\ new.pid = nextPid
  BY <1>2, <1>4
<1> HIDE DEF s, new
<1>7. /\ allocate_process(parent, root) \in [Slots -> Process]
      /\ allocate_process(parent, root)[s].pid = nextPid
      /\ \A i \in Slots : i # s => allocate_process(parent, root)[i] = procs[i]
  BY <1>5, <1>6
<1> QED BY <1>2, <1>3, <1>7 DEF s


\* A handle is added to the caller's table, and nothing else changes.
LEMMA HoldSound ==
  ASSUME ProcInv, NEW ps \in [Slots -> Process], NEW p \in Pids
  PROVE  /\ Hold(ps, p) \in [Slots -> Process]
         /\ \A i \in Slots : /\ Hold(ps, p)[i].pid = ps[i].pid
                             /\ Hold(ps, p)[i].pending = ps[i].pending
                             /\ Hold(ps, p)[i].ignored = ps[i].ignored
  BY CallerSound DEF Hold, Process

\* A pid is drawn, and the caller may get a handle to its process.
LEMMA DrawStep ==
  ASSUME ProcInv, CanAllocate, NEW parent \in Pids \cup {0}, NEW root \in BOOLEAN,
         nextPid' = nextPid + 1,
         \/ procs' = allocate_process(parent, root)
         \/ procs' = Hold(allocate_process(parent, root), nextPid)
  PROVE  /\ TableStep(Min(FreeSlots)) /\ SignalStep
         /\ Min(FreeSlots) \in Slots /\ procs'[Min(FreeSlots)].pid = nextPid /\ nextPid \in Pids
<1> DEFINE s == Min(FreeSlots)
           ps == allocate_process(parent, root)
<1>1. /\ s \in Slots /\ procs[s].pid = 0
      /\ nextPid \in Pids /\ nextPid + 1 \in nextPid..(MaxPid + 1)
      /\ ps \in [Slots -> Process]
      /\ ps[s].pid = nextPid
      /\ \A i \in Slots : i # s => ps[i] = procs[i]
  BY AllocateSound
<1>2. procs' = ps \/ procs' = Hold(ps, nextPid)
  OBVIOUS
<1> HIDE DEF s, ps
<1>3. /\ procs' \in [Slots -> Process]
      /\ \A i \in Slots : /\ procs'[i].pid = ps[i].pid
                          /\ procs'[i].pending = ps[i].pending
                          /\ procs'[i].ignored = ps[i].ignored
  BY <1>1, <1>2, HoldSound
<1>4. nextPid \in Nat \ {0} /\ nextPid < nextPid'
  BY <1>1 DEF Pids
<1>5. TableStep(s)
  BY <1>1, <1>3, <1>4 DEF TableStep
<1>6. SignalStep
  BY <1>1, <1>3, <1>4 DEF SignalStep, Deadly
<1> QED BY <1>1, <1>3, <1>5, <1>6 DEF s

\* No pid is drawn, and pids and signals stay as they are, slot by slot.
LEMMA KeepStep ==
  ASSUME ProcInv, nextPid' = nextPid, procs' \in [Slots -> Process],
         \A i \in Slots : \/ procs[i].pid # 0 /\ procs'[i].pid = 0
                          \/ procs'[i].pid = procs[i].pid /\ procs'[i].state = "Zombie"
                          \/ /\ procs'[i].pid = procs[i].pid
                             /\ procs[i].pending \subseteq procs'[i].pending
                             /\ procs'[i].ignored = procs[i].ignored
                          \/ /\ procs'[i].pid = procs[i].pid
                             /\ Deadly(procs[i]) => procs'[i].ignored # procs[i].ignored
  PROVE  TableStep(1) /\ SignalStep /\ 1 \in Slots
<1>1. 1 \in Slots /\ nextPid \in nextPid..(MaxPid + 1)
  BY ProcBoundsAssumption DEF Slots, ProcInv, ProcTypeOK
<1>2. TableStep(1)
  BY <1>1 DEF TableStep
<1>3. SignalStep
  BY DEF SignalStep, Deadly
<1> QED BY <1>1, <1>2, <1>3

\* Scheduler::add gives the new thread the pid and the table of process p.
LEMMA AddThreadStep ==
  ASSUME ProcInv, EmptyThreads # {}, NEW p \in Pids, NEW s \in Slots, AddThread(p, s),
         procs'[s].pid = p
  PROVE  ThreadStep({NewThread})
<1>1. NewThread \in Threads
  BY NewThreadUnused
<1>2. [pid |-> p, table |-> s, call |-> "user", polls |-> 0] \in ThreadInfo
  <2>1. 0 \in 0..(MaxPolls + 1)
    BY ProcBoundsAssumption
  <2> QED BY <2>1 DEF ThreadInfo
<1>3. p # 0 /\ thr \in [Threads -> ThreadInfo]
  BY DEF Pids, ProcInv, ProcTypeOK
<1> QED BY <1>1, <1>2, <1>3 DEF AddThread, ThreadStep

\* The threads are left alone, or the caller's pause() goes on or ends.
LEMMA SameThreads ==
  ASSUME ProcInv,
         \/ UNCHANGED thr
         \/ \E c \in {"user", "pause"}, n \in 0..(MaxPolls + 1) :
              thr' = [thr EXCEPT ![cpu].call = c, ![cpu].polls = n]
  PROVE  ThreadStep({})
<1>1. thr \in [Threads -> ThreadInfo] /\ cpu \in Threads
  BY DEF ProcInv, ProcTypeOK
<1>2. CASE UNCHANGED thr
  BY <1>1, <1>2 DEF ThreadStep
<1>3. ASSUME NEW c \in {"user", "pause"}, NEW n \in 0..(MaxPolls + 1),
             thr' = [thr EXCEPT ![cpu].call = c, ![cpu].polls = n]
      PROVE  ThreadStep({})
  <2>1. thr[cpu] \in ThreadInfo
    BY <1>1
  <2> DEFINE me == [thr[cpu] EXCEPT !.call = c, !.polls = n]
  <2>2. me \in ThreadInfo /\ me.pid = thr[cpu].pid /\ me.table = thr[cpu].table
    BY <2>1 DEF ThreadInfo
  <2>3. thr' = [thr EXCEPT ![cpu] = me]
    BY <1>1, <1>3
  <2> HIDE DEF me
  <2> QED BY <1>1, <2>2, <2>3 DEF ThreadStep
<1> QED BY <1>2, <1>3


-----------------------------------------------------------------------------
(* Every kernel entry has the shape. *)

Shaped == \E new \in SUBSET Threads, s \in Slots : Shape(new, s)

\* A call that adds no thread.
LEMMA NothingAdded ==
  ASSUME CpuStep({}), NEW s \in Slots, TableStep(s), ThreadStep({}), SignalStep, Reload({})
  PROVE  Shaped
<1>1. Shape({}, s)
  BY DEF Shape
<1> QED BY <1>1 DEF Shaped

\* launch_user_program, whichever way it ends.
LEMMA LaunchShaped ==
  ASSUME ProcInv, NEW parent \in Pids \cup {0},
         CanAllocate, nextPid' = nextPid + 1,
         \/ Launched(Plain(parent), Alongside) \/ Launched(Plain(parent), Instead)
         \/ Launched(WithHandle, Alongside) /\ parent = 0
         \/ LaunchFailed(parent) \/ LaunchPanics(parent)
  PROVE  Shaped
<1> DEFINE s == Min(FreeSlots)
<1>1. CASE \/ Launched(Plain(parent), Alongside) \/ Launched(Plain(parent), Instead)
           \/ Launched(WithHandle, Alongside) /\ parent = 0
  <2>1. /\ EmptyThreads # {} /\ AddThread(nextPid, s)
        /\ Alongside \/ Instead
        /\ Reload({NewThread})
    BY <1>1 DEF Launched
  <2>2. \/ procs' = allocate_process(parent, TRUE)
        \/ procs' = Hold(allocate_process(parent, TRUE), nextPid)
    BY <1>1 DEF Launched, Plain, WithHandle
  <2>3. TableStep(s) /\ SignalStep /\ s \in Slots /\ procs'[s].pid = nextPid /\ nextPid \in Pids
    BY <2>2, DrawStep
  <2> HIDE DEF s
  <2>4. CpuStep({NewThread}) /\ ThreadStep({NewThread})
    BY <2>1, <2>3, AddStep, AddThreadStep
  <2>5. {NewThread} \in SUBSET Threads
    BY <2>1, NewThreadUnused
  <2>6. Shape({NewThread}, s)
    BY <2>1, <2>3, <2>4, <2>5 DEF Shape
  <2> QED BY <2>3, <2>5, <2>6 DEF Shaped
<1>2. CASE LaunchFailed(parent) \/ LaunchPanics(parent)
  <2>1. PICK root \in BOOLEAN : procs' = allocate_process(parent, root)
    BY <1>2 DEF LaunchFailed, LaunchPanics
  <2>2. TableStep(s) /\ SignalStep /\ s \in Slots
    BY <2>1, DrawStep
  <2>3. CpuStep({})
    <3>1. CASE LaunchFailed(parent)
      BY <3>1, StayStep DEF LaunchFailed
    <3>2. CASE LaunchPanics(parent)
      BY <3>2 DEF LaunchPanics, CpuStep, ProcInv, ProcTypeOK, OnlyExisting, Existing
    <3> QED BY <1>2, <3>1, <3>2
  <2>4. ThreadStep({}) /\ Reload({})
    BY <1>2, SameThreads DEF LaunchFailed, LaunchPanics
  <2> HIDE DEF s
  <2> QED BY <2>2, <2>3, <2>4, NothingAdded
<1> QED BY <1>1, <1>2

\* The calls that launch a program.
LEMMA LaunchCalls ==
  ASSUME ProcInv,
         \/ sys_spawn \/ sys_execve \/ sys_exec \/ sys_service_spawn
         \/ InUser /\ Launch(0, WithHandle, Alongside)
  PROVE  Shaped
<1>1. Caller \in Pids \cup {0} /\ 0 \in Pids \cup {0}
  BY CallerSound
<1>2. CASE sys_spawn
  <2>1. PICK p \in Pids \cup {0} : p = Caller
    BY <1>1
  <2>2. /\ CanAllocate /\ nextPid' = nextPid + 1
        /\ Launched(Plain(p), Alongside) \/ LaunchFailed(p) \/ LaunchPanics(p)
    BY <2>1, <1>2 DEF sys_spawn, Launch, Launched, LaunchFailed, LaunchPanics
  <2> QED BY <2>1, <2>2, LaunchShaped
<1>3. CASE sys_execve
  <2>1. PICK p \in Pids \cup {0} : p = Caller
    BY <1>1
  <2>2. /\ CanAllocate /\ nextPid' = nextPid + 1
        /\ Launched(Plain(p), Instead) \/ LaunchFailed(p) \/ LaunchPanics(p)
    BY <2>1, <1>3 DEF sys_execve, Launch, Launched, LaunchFailed, LaunchPanics
  <2> QED BY <2>1, <2>2, LaunchShaped
<1>4. CASE sys_exec
  BY <1>1, <1>4, LaunchShaped DEF sys_exec, Launch
<1>5. CASE sys_service_spawn
  BY <1>1, <1>5, LaunchShaped DEF sys_service_spawn, Launch
<1>6. CASE Launch(0, WithHandle, Alongside)
  BY <1>1, <1>6, LaunchShaped DEF Launch
<1> QED BY <1>2, <1>3, <1>4, <1>5, <1>6

\* The calls that make a process without a thread.
LEMMA CreateCalls ==
  ASSUME ProcInv, NEW parent \in Pids \cup {0}, NEW root \in BOOLEAN,
         CanAllocate, nextPid' = nextPid + 1,
         \/ procs' = allocate_process(parent, root)
         \/ procs' = Hold(allocate_process(parent, root), nextPid),
         Stay, UNCHANGED thr, Reload({})
  PROVE  Shaped
<1>1. TableStep(Min(FreeSlots)) /\ SignalStep /\ Min(FreeSlots) \in Slots
  BY DrawStep
<1> QED BY <1>1, StayStep, SameThreads, NothingAdded

\* The calls that only change the process table, and the ones that leave the
\* CPU after that.
LEMMA TableCalls ==
  ASSUME ProcInv, UNCHANGED nextPid, procs' \in [Slots -> Process],
         \A i \in Slots : \/ procs[i].pid # 0 /\ procs'[i].pid = 0
                          \/ procs'[i].pid = procs[i].pid /\ procs'[i].state = "Zombie"
                          \/ /\ procs'[i].pid = procs[i].pid
                             /\ procs[i].pending \subseteq procs'[i].pending
                             /\ procs'[i].ignored = procs[i].ignored
                          \/ /\ procs'[i].pid = procs[i].pid
                             /\ Deadly(procs[i]) => procs'[i].ignored # procs[i].ignored,
         Stay \/ Switch(run, ready) \/ Die(run, ready),
         ThreadStep({}), Reload({})
  PROVE  Shaped
<1>1. TableStep(1) /\ SignalStep /\ 1 \in Slots
  BY KeepStep
<1>2. CpuStep({})
  BY StayStep, LeaveStep
<1> QED BY <1>1, <1>2, NothingAdded

\* A thread is added to a process that exists.
LEMMA ThreadCreate ==
  ASSUME ProcInv, NEW p \in Pids, sys_thread_create(p), ~Corrupt
  PROVE  Shaped
<1>1. /\ UNCHANGED <<procs, nextPid>>
      /\ Reload({})
  BY DEF sys_thread_create
<1>2. PICK s \in find_process(p) :
             \/ EmptyThreads # {} /\ AddThread(p, s) /\ Alongside
             \/ kernel' = "panicked" /\ UNCHANGED <<run, ready, cpu, thr>>
  BY DEF sys_thread_create
<1>3. s \in Slots /\ procs'[s].pid = p
  BY <1>1, <1>2 DEF find_process
<1>4. procs \in [Slots -> Process]
  BY DEF ProcInv, ProcTypeOK
<1>5. TableStep(1) /\ SignalStep /\ 1 \in Slots
  BY <1>1, <1>4, KeepStep
<1>6. CASE EmptyThreads # {} /\ AddThread(p, s) /\ Alongside
  <2>1. CpuStep({NewThread}) /\ ThreadStep({NewThread}) /\ NewThread \in Threads
    BY <1>3, <1>6, AddStep, AddThreadStep, NewThreadUnused
  <2>2. Shape({NewThread}, 1)
    BY <2>1, <1>1, <1>5 DEF Shape
  <2> QED BY <2>1, <2>2, <1>5 DEF Shaped
<1>7. CASE kernel' = "panicked" /\ UNCHANGED <<run, ready, cpu, thr>>
  <2>1. CpuStep({})
    BY <1>7 DEF CpuStep, ProcInv, ProcTypeOK, OnlyExisting, Existing
  <2>2. ThreadStep({})
    BY <1>7, SameThreads
  <2> QED BY <2>1, <2>2, <1>1, <1>5, NothingAdded
<1> QED BY <1>2, <1>6, <1>7

\* The processes in S become zombies.
LEMMA ZombiesSound ==
  ASSUME ProcInv, NEW S \in SUBSET Slots, procs' = mark_process_zombie(S)
  PROVE  /\ procs' \in [Slots -> Process]
         /\ \A i \in Slots : \/ procs'[i].pid = procs[i].pid /\ procs'[i].state = "Zombie"
                             \/ procs'[i] = procs[i]
<1>1. procs \in [Slots -> Process]
  BY DEF ProcInv, ProcTypeOK
<1>2. ASSUME NEW q \in Process
      PROVE  Zombie(q) \in Process /\ Zombie(q).pid = q.pid /\ Zombie(q).state = "Zombie"
  BY DEF Zombie, Process
<1>3. \A i \in Slots : procs'[i] = IF i \in S THEN Zombie(procs[i]) ELSE procs[i]
  BY DEF mark_process_zombie
<1>4. procs' = [i \in Slots |-> procs'[i]]
  BY DEF mark_process_zombie
<1>5. ASSUME NEW i \in Slots
      PROVE  /\ procs'[i] \in Process
             /\ \/ procs'[i].pid = procs[i].pid /\ procs'[i].state = "Zombie"
                \/ procs'[i] = procs[i]
  BY <1>1, <1>2, <1>3
<1> QED BY <1>4, <1>5

\* A call that only sends or configures signals.
LEMMA SignalCalls ==
  ASSUME ProcInv,
         \/ \E s \in Signals : sys_raise(s)
         \/ \E s \in Signals, ignore \in BOOLEAN : sys_sigaction(s, ignore)
         \/ \E s \in Signals, p \in Pids \cup {0} : sys_kill(p, s)
  PROVE  Shaped
<1>1. procs \in [Slots -> Process]
  BY DEF ProcInv, ProcTypeOK
<1>2. ASSUME NEW s \in Signals, NEW S \in SUBSET Slots, SignalCall(signal_send(S, s))
      PROVE  Shaped
  <2>1. /\ procs' = signal_send(S, s)
        /\ Stay /\ UNCHANGED nextPid /\ UNCHANGED thr /\ Reload({})
    BY <1>2 DEF SignalCall
  <2>2. ASSUME NEW i \in Slots
        PROVE  /\ procs'[i] \in Process
               /\ procs'[i].pid = procs[i].pid
               /\ procs[i].pending \subseteq procs'[i].pending
               /\ procs'[i].ignored = procs[i].ignored
    <3>1. procs'[i] = IF i \in S THEN [procs[i] EXCEPT !.pending = @ \cup {s}] ELSE procs[i]
      BY <2>1 DEF signal_send
    <3>2. procs[i] \in Process
      BY <1>1
    <3> QED BY <3>1, <3>2 DEF Process
  <2>3. procs' \in [Slots -> Process]
    BY <2>1, <2>2 DEF signal_send
  <2>4. ThreadStep({})
    BY <2>1, SameThreads
  <2> QED BY <2>1, <2>2, <2>3, <2>4, TableCalls
<1>3. ASSUME NEW s \in Signals, NEW ignore \in BOOLEAN, NEW i \in Mine,
             SignalCall([procs EXCEPT ![i].ignored = IF ignore THEN @ \cup {s} ELSE @ \ {s}])
      PROVE  Shaped
  <2>1. /\ procs' = [procs EXCEPT ![i].ignored = IF ignore THEN @ \cup {s} ELSE @ \ {s}]
        /\ Stay /\ UNCHANGED nextPid /\ UNCHANGED thr /\ Reload({})
    BY <1>3 DEF SignalCall
  <2>2. i \in Slots
    BY DEF Mine, find_process
  <2> DEFINE ign == IF ignore THEN procs[i].ignored \cup {s} ELSE procs[i].ignored \ {s}
  <2>3. procs' = [procs EXCEPT ![i] = [procs[i] EXCEPT !.ignored = ign]]
    BY <1>1, <2>1, <2>2
  <2>4. procs[i] \in Process /\ ign \subseteq Signals
    BY <1>1, <2>2 DEF Process
  <2> HIDE DEF ign
  <2>5. procs' \in [Slots -> Process]
    BY <1>1, <2>2, <2>3, <2>4 DEF Process
  <2>6. \A j \in Slots \ {i} : procs'[j] = procs[j]
    BY <1>1, <2>3
  <2>7. /\ procs'[i].pid = procs[i].pid /\ procs'[i].pending = procs[i].pending
        /\ procs'[i].ignored = ign
    BY <1>1, <2>2, <2>3, <2>4 DEF Process
  <2>8. procs'[i].ignored = procs[i].ignored \/ procs'[i].ignored # procs[i].ignored
    OBVIOUS
  <2>9. ThreadStep({})
    BY <2>1, SameThreads
  <2> QED BY <2>1, <2>5, <2>6, <2>7, <2>8, <2>9, TableCalls
<1>4. \A p : Mine \in SUBSET Slots /\ Children(p) \in SUBSET Slots
  BY DEF Mine, find_process, Children
<1>5. CASE \E s \in Signals : sys_raise(s)
  BY <1>2, <1>4, <1>5 DEF sys_raise
<1>6. CASE \E s \in Signals, ignore \in BOOLEAN : sys_sigaction(s, ignore)
  BY <1>3, <1>6 DEF sys_sigaction
<1>7. CASE \E s \in Signals, p \in Pids \cup {0} : sys_kill(p, s)
  BY <1>2, <1>4, <1>7 DEF sys_kill
<1> QED BY <1>5, <1>6, <1>7


\* dispatch_pending acts on a deadly signal and keeps the process.
LEMMA DispatchSound ==
  ASSUME NEW q \in Process
  PROVE  /\ dispatch_pending(q) \in Process /\ dispatch_pending(q).pid = q.pid
         /\ Deadly(q) => dispatch_pending(q).state = "Zombie"
  BY DEF dispatch_pending, Zombie, Process

\* A round of pause(): the signals are dispatched, and the caller goes back to
\* the program or yields.
LEMMA PauseShaped ==
  ASSUME ProcInv, sys_pause \/ PauseResumes
  PROVE  Shaped
<1>1. procs \in [Slots -> Process] /\ thr[cpu] \in ThreadInfo
  BY CallerSound DEF ProcInv, ProcTypeOK
<1>2. \/ procs' = procs
      \/ \E i \in Mine : procs' = [procs EXCEPT ![i] = dispatch_pending(procs[i])]
  BY DEF sys_pause, PauseResumes, PauseRound, PauseReturns, PauseYields
<1>3. UNCHANGED nextPid /\ Reload({})
  BY DEF sys_pause, PauseResumes, PauseRound
<1>4. Stay \/ Switch(run, ready)
  BY DEF sys_pause, PauseResumes, PauseRound, PauseReturns, PauseYields
<1>5. ThreadStep({})
  <2>1. ASSUME NEW n \in 0..MaxPolls, PauseRound(n)
        PROVE  \E c \in {"user", "pause"}, k \in 0..(MaxPolls + 1) :
                 thr' = [thr EXCEPT ![cpu].call = c, ![cpu].polls = k]
    <3>1. n \in 0..(MaxPolls + 1) /\ n + 1 \in 0..(MaxPolls + 1) /\ 0 \in 0..(MaxPolls + 1)
      BY ProcBoundsAssumption
    <3>2. PICK c \in {"user", "pause"}, k \in {0, n, n + 1} :
                 thr' = [thr EXCEPT ![cpu].call = c, ![cpu].polls = k]
      BY <2>1 DEF PauseRound, PauseReturns, PauseYields
    <3> QED BY <3>1, <3>2
  <2>2. CASE sys_pause
    <3>1. 0 \in 0..MaxPolls
      BY ProcBoundsAssumption
    <3> QED BY <2>1, <2>2, <3>1, SameThreads DEF sys_pause
  <2>3. CASE PauseResumes
    <3>1. PICK n \in 0..(MaxPolls + 1) : n = thr[cpu].polls
      BY <1>1 DEF ThreadInfo
    <3>2. CASE n <= MaxPolls /\ PauseRound(thr[cpu].polls)
      <4>1. n \in 0..MaxPolls /\ PauseRound(n)
        BY <3>1, <3>2, ProcBoundsAssumption DEF PauseRound, PauseReturns, PauseYields
      <4> QED BY <4>1, <2>1, SameThreads
    <3>3. CASE PauseReturns(procs)
      <4>1. thr' = [thr EXCEPT ![cpu].call = "user", ![cpu].polls = 0]
        BY <3>3 DEF PauseReturns
      <4>2. 0 \in 0..(MaxPolls + 1)
        BY ProcBoundsAssumption
      <4> QED BY <4>1, <4>2, SameThreads
    <3> QED BY <2>3, <3>1, <3>2, <3>3 DEF PauseResumes
  <2> QED BY <2>2, <2>3
<1>6. CASE procs' = procs
  BY <1>1, <1>3, <1>4, <1>5, <1>6, TableCalls
<1>7. CASE \E i \in Mine : procs' = [procs EXCEPT ![i] = dispatch_pending(procs[i])]
  <2>1. PICK i \in Mine : procs' = [procs EXCEPT ![i] = dispatch_pending(procs[i])]
    BY <1>7
  <2>2. i \in Slots
    BY DEF Mine, find_process
  <2> DEFINE q == procs[i]
             d == dispatch_pending(q)
  <2>3. d \in Process /\ d.pid = q.pid /\ (Deadly(q) => d.state = "Zombie")
    BY <1>1, <2>2, DispatchSound
  <2>4. procs' = [procs EXCEPT ![i] = d]
    BY <2>1
  <2> HIDE DEF d
  <2>5. procs' \in [Slots -> Process] /\ procs'[i] = d
    BY <1>1, <2>2, <2>3, <2>4
  <2>6. \A j \in Slots \ {i} : procs'[j] = procs[j]
    BY <1>1, <2>4
  <2>7. ~Deadly(procs[i]) \/ procs'[i].state = "Zombie"
    BY <2>3, <2>5
  <2> QED BY <2>2, <2>3, <2>5, <2>6, <2>7, <1>3, <1>4, <1>5, TableCalls
<1> QED BY <1>2, <1>6, <1>7

\* The first zombie child leaves its slot.
LEMMA ReapShaped ==
  ASSUME ProcInv, NEW p \in Pids \cup {0}, Reap(p)
  PROVE  Shaped
<1>1. procs \in [Slots -> Process]
  BY DEF ProcInv, ProcTypeOK
<1>2. /\ Zombies(p) # {} /\ procs' = [procs EXCEPT ![Min(Zombies(p))] = Empty]
      /\ Stay /\ UNCHANGED nextPid /\ UNCHANGED thr /\ Reload({})
  BY DEF Reap
<1> DEFINE z == Min(Zombies(p))
<1>3. z \in Slots /\ procs[z].pid # 0
  <2>1. z \in Zombies(p)
    <3>1. Zombies(p) \in SUBSET Slots
      BY DEF Zombies, Children
    <3> QED BY <3>1, <1>2, MinSlot
  <2> QED BY <2>1 DEF Zombies, Children
<1>4. Empty \in Process /\ Empty.pid = 0
  BY DEF Empty, NewProcess, Process
<1>5. procs' = [procs EXCEPT ![z] = Empty]
  BY <1>2
<1> HIDE DEF z
<1>6. /\ procs' \in [Slots -> Process] /\ procs'[z].pid = 0
      /\ \A i \in Slots \ {z} : procs'[i] = procs[i]
  BY <1>1, <1>3, <1>4, <1>5
<1>7. ThreadStep({})
  BY <1>2, SameThreads
<1> QED BY <1>2, <1>3, <1>6, <1>7, TableCalls

\* Every step has the shape, except the use of a dangling handle table, after
\* which nothing is known.
LEMMA NextShaped ==
  ASSUME ProcInv, ProcNext
  PROVE  Shaped \/ Corrupt
<1>1. procs \in [Slots -> Process]
  BY DEF ProcInv, ProcTypeOK
<1>2. CASE sys_spawn \/ sys_execve \/ sys_exec \/ sys_service_spawn
  BY <1>2, LaunchCalls
<1>3. CASE sys_load_binary
  BY <1>3, LaunchCalls DEF sys_load_binary
<1>4. CASE sys_process_create
  <2>1. 0 \in Pids \cup {0} /\ FALSE \in BOOLEAN
    OBVIOUS
  <2> QED BY <1>4, <2>1, CreateCalls DEF sys_process_create
<1>5. CASE sys_exit
  <2>1. /\ procs' = mark_process_zombie(Mine) /\ Die(run, ready)
        /\ UNCHANGED nextPid /\ UNCHANGED thr /\ Reload({})
    BY <1>5 DEF sys_exit
  <2>2. Mine \in SUBSET Slots
    BY DEF Mine, find_process
  <2>3. ThreadStep({})
    BY <2>1, SameThreads
  <2> QED BY <2>1, <2>2, <2>3, ZombiesSound, TableCalls
<1>6. CASE Fault \/ Tick
  <2>1. /\ Die(run, ready) \/ Switch(run, ready)
        /\ UNCHANGED procs /\ UNCHANGED nextPid /\ UNCHANGED thr /\ Reload({})
    BY <1>6 DEF Fault, Tick
  <2>2. ThreadStep({})
    BY <2>1, SameThreads
  <2> QED BY <1>1, <2>1, <2>2, TableCalls
<1>7. CASE sys_pause \/ PauseResumes
  BY <1>7, PauseShaped
<1>8. ASSUME NEW p \in Pids, sys_thread_create(p)
      PROVE  Shaped \/ Corrupt
  BY <1>8, ThreadCreate
<1>9. ASSUME NEW p \in Pids, sys_handle_close(p), ~Corrupt
      PROVE  Shaped
  <2>1. /\ procs' = [procs EXCEPT ![thr[cpu].table].held = @ \ {p}]
        /\ Stay /\ UNCHANGED nextPid /\ UNCHANGED thr /\ Reload({})
    BY <1>9 DEF sys_handle_close
  <2>2. ThreadStep({}) /\ thr[cpu].table \in Slots
    BY <2>1, SameThreads, CallerSound
  <2>3. procs' \in [Slots -> Process]
    BY <1>1, <2>1, <2>2 DEF Process
  <2>4. ASSUME NEW i \in Slots
        PROVE  /\ procs'[i].pid = procs[i].pid
               /\ procs'[i].pending = procs[i].pending
               /\ procs'[i].ignored = procs[i].ignored
    BY <1>1, <2>1, <2>2 DEF Process
  <2> QED BY <2>1, <2>2, <2>3, <2>4, TableCalls
<1>10. ASSUME NEW p \in Pids, ProcMgmtExit(p)
       PROVE  Shaped
  <2>1. /\ procs' = mark_process_zombie(find_process(p))
        /\ Stay /\ UNCHANGED nextPid /\ UNCHANGED thr /\ Reload({})
    BY <1>10 DEF ProcMgmtExit
  <2>2. find_process(p) \in SUBSET Slots
    BY DEF find_process
  <2>3. ThreadStep({})
    BY <2>1, SameThreads
  <2> QED BY <2>1, <2>2, <2>3, ZombiesSound, TableCalls
<1>11. ASSUME NEW p \in Pids \cup {0}, sys_wait4(p) \/ ProcMgmtWait(p)
       PROVE  Shaped
  BY <1>11, ReapShaped DEF sys_wait4, ProcMgmtWait
<1>12. ASSUME NEW p \in Pids \cup {0}, ProcMgmtCreate(p)
       PROVE  Shaped
  BY <1>12, CreateCalls DEF ProcMgmtCreate
<1>13. CASE \/ \E s \in Signals : sys_raise(s)
            \/ \E s \in Signals, ignore \in BOOLEAN : sys_sigaction(s, ignore)
            \/ \E s \in Signals, p \in Pids \cup {0} : sys_kill(p, s)
  BY <1>13, SignalCalls
<1> QED
  BY <1>2, <1>3, <1>4, <1>5, <1>6, <1>7, <1>8, <1>9, <1>10, <1>11, <1>12, <1>13 DEF ProcNext

-----------------------------------------------------------------------------
(* The theorems. *)

\* The kernel starts with the loader running on its own table and space.
LEMMA InitEstablishes == ProcInit => ProcInv
<1> SUFFICES ASSUME ProcInit
             PROVE  ProcInv
  OBVIOUS
<1> USE DEF Slots, Pids
<1> DEFINE first == CHOOSE t \in Threads : TRUE
<1>1. first \in Threads
  BY ProcBoundsAssumption
<1>2. /\ cpu = first
      /\ run = [t \in Threads |-> IF t = first THEN "Running" ELSE "Empty"]
      /\ ready = {}
      /\ kernel = "running"
      /\ procs = [i \in Slots |-> IF i = 1 THEN NewProcess(1, 0, TRUE) ELSE Empty]
      /\ nextPid = 2
      /\ thr = [t \in Threads |-> [pid |-> IF t = first THEN 1 ELSE 0, table |-> 1,
                                   call |-> "user", polls |-> 0]]
      /\ fresh = {}
      /\ space = 1
  BY DEF ProcInit
<1> HIDE DEF first
<1>3. 1 \in Slots /\ 1 \in Pids /\ nextPid \in 2..(MaxPid + 1) /\ 0 \in 0..(MaxPolls + 1)
  BY <1>2, ProcBoundsAssumption
<1>4. /\ NewProcess(1, 0, TRUE) \in Process /\ NewProcess(1, 0, TRUE).pid = 1
      /\ Empty \in Process /\ Empty.pid = 0
  BY <1>3 DEF NewProcess, Empty, Process
<1>5. /\ procs \in [Slots -> Process]
      /\ \A i \in Slots : procs[i].pid = IF i = 1 THEN 1 ELSE 0
  BY <1>2, <1>4
<1>6. /\ thr \in [Threads -> ThreadInfo]
      /\ thr[first].pid = 1 /\ thr[first].table = 1
  BY <1>1, <1>2, <1>3 DEF ThreadInfo
<1>7. Existing = {first}
  BY <1>1, <1>2 DEF Existing
<1>8. ProcTypeOK
  BY <1>1, <1>2, <1>3, <1>5, <1>6 DEF ProcTypeOK, RunStates
<1>9. PidsDrawn
  <2>1. \A i \in Slots : procs[i].pid \in {0, 1} /\ (procs[i].pid # 0 => i = 1)
    BY <1>5
  <2>2. \A i, j \in Slots : procs[i].pid = procs[j].pid /\ procs[i].pid # 0 => i = j
    BY <2>1, Zenon
  <2>3. ASSUME NEW i \in Slots
        PROVE  procs[i].pid < nextPid
    <3>1. procs[i].pid = 0 \/ procs[i].pid = 1
      BY <2>1, Zenon
    <3>2. nextPid = 2
      BY <1>2
    <3> QED BY <3>1, <3>2
  <2> QED BY <2>2, <2>3, Zenon DEF PidsDrawn
<1>10. ThreadsOwned /\ OnlyExisting
  BY <1>2, <1>3, <1>6, <1>7 DEF ThreadsOwned, OnlyExisting
<1>11. TablesMatch
  BY <1>5, <1>6, <1>7 DEF TablesMatch, find_process
<1>12. OwnSpace
  BY <1>2, <1>6 DEF OwnSpace, Caller
<1> QED BY <1>8, <1>9, <1>10, <1>11, <1>12 DEF ProcInv

\* Nothing but the kernel's verdict changes.
LEMMA CorruptKeeps ==
  ASSUME ProcInv, Corrupt
  PROVE  ProcInv'
  BY DEF ProcInv, Corrupt, procVars, ProcTypeOK, PidsDrawn, ThreadsOwned, OnlyExisting,
         TablesMatch, OwnSpace, Existing, find_process, Owned

\* The invariant is inductive.
LEMMA StepPreserves == ProcInv /\ [ProcNext]_vars => ProcInv'
<1> SUFFICES ASSUME ProcInv, [ProcNext]_vars
             PROVE  ProcInv'
  OBVIOUS
<1>1. CASE ProcNext
  <2>1. CASE Shaped
    <3>1. PICK new \in SUBSET Threads, s \in Slots : Shape(new, s)
      BY <2>1 DEF Shaped
    <3> QED BY <3>1, ShapePreserves
  <2> QED BY <1>1, <2>1, NextShaped, CorruptKeeps
<1>2. CASE UNCHANGED vars
  BY <1>2 DEF vars, ProcInv, ProcTypeOK, PidsDrawn, ThreadsOwned, OnlyExisting,
              TablesMatch, OwnSpace, Existing, find_process, Owned, Mine, Caller
<1> QED BY <1>1, <1>2

\* The process table, the threads and the address space keep their types.
THEOREM ProcessTypes == ProcSpec => []ProcTypeOK
<1>1. ProcInv => ProcTypeOK
  BY DEF ProcInv
<1> QED BY <1>1, InitEstablishes, StepPreserves, PTL DEF ProcSpec

\* A thread of a process that still exists uses that process's handle table,
\* however often slots are emptied and filled again.
THEOREM TablesAlwaysMatch == ProcSpec => []TablesMatch
<1>1. ProcInv => TablesMatch
  BY DEF ProcInv
<1> QED BY <1>1, InitEstablishes, StepPreserves, PTL DEF ProcSpec

\* A process that exists and has a page table only ever runs on it.
THEOREM SpaceAlwaysOwn == ProcSpec => []OwnSpace
<1>1. ProcInv => OwnSpace
  BY DEF ProcInv
<1> QED BY <1>1, InitEstablishes, StepPreserves, PTL DEF ProcSpec

\* A thread that outlived its process is never adopted by another process.
THEOREM OrphansNeverAdopted == ProcSpec => OrphansStayOrphans
<1>1. ASSUME ProcInv, [ProcNext]_vars
      PROVE  [\A t \in Existing :
                find_process(thr[t].pid) = {} => \A i \in Slots : procs'[i].pid # thr[t].pid]_vars
  <2> SUFFICES ASSUME ProcNext, NEW t \in Existing, find_process(thr[t].pid) = {}, NEW i \in Slots
               PROVE  procs'[i].pid # thr[t].pid
    BY <1>1
  <2>1. thr[t].pid \in Pids /\ thr[t].pid < nextPid /\ nextPid \in Nat
    BY <1>1 DEF ProcInv, ThreadsOwned, ProcTypeOK
  <2>2. thr[t].pid # 0 /\ thr[t].pid # nextPid
    BY <2>1 DEF Pids
  <2>3. procs[i].pid # thr[t].pid
    BY <2>2 DEF find_process
  <2>4. procs'[i].pid \in {procs[i].pid, 0, nextPid}
    <3>1. CASE Shaped
      BY <3>1 DEF Shaped, Shape, TableStep
    <3>2. CASE Corrupt
      BY <3>2 DEF Corrupt, procVars
    <3> QED BY <1>1, <3>1, <3>2, NextShaped
  <2> QED BY <2>2, <2>3, <2>4
<1> QED BY <1>1, InitEstablishes, StepPreserves, PTL DEF ProcSpec, OrphansStayOrphans

\* A signal that would kill stays pending until it kills or is ignored.
THEOREM DeadlySignalsKept == ProcSpec => DeadlyNotDropped
<1>1. ASSUME ProcInv, [ProcNext]_vars
      PROVE  [SignalStep]_vars
  <2>1. CASE Shaped
    BY <2>1 DEF Shaped, Shape
  <2>2. CASE Corrupt
    BY <2>2 DEF Corrupt, procVars, SignalStep
  <2> QED BY <1>1, <2>1, <2>2, NextShaped
<1> QED BY <1>1, InitEstablishes, StepPreserves, PTL DEF ProcSpec, DeadlyNotDropped, SignalStep
=============================================================================
