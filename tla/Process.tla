------------------------------- MODULE Process -------------------------------
(***************************************************************************)
(* The process table, program launch, exit, waiting and signals            *)
(* (kernel/src/task/process.rs, task/signals.rs and                        *)
(* syscall/handlers/process.rs), on top of the scheduler's promise, Cpu.   *)
(*                                                                         *)
(* A thread carries the pid of its process and a raw pointer to that       *)
(* process's handle table, which lies inside a slot of the process table:  *)
(* the model keeps the slot.  The address space in TTBR0 is named by the   *)
(* pid whose page tables it points to.  Of the handles only those to       *)
(* processes are kept.  pids are drawn from a counter, 0 means no process. *)
(***************************************************************************)
EXTENDS Cpu, FiniteSetsExt

CONSTANTS
  MaxProcesses, \* MAX_PROCESSES
  MaxPid,       \* bound: pids ever drawn
  Signals,      \* signal numbers
  MaxPolls      \* yields before pause() gives up

Slots == 1..MaxProcesses
Pids == 1..MaxPid

ASSUME ProcBoundsAssumption ==
  /\ {MaxProcesses, MaxPid, MaxPolls} \subseteq Nat
  /\ MaxProcesses > 0 /\ MaxPid > 0  \* room for the loader, pid 1
  /\ Threads # {}

VARIABLES
  procs,    \* PROCESSES
  nextPid,  \* PROCESS_ID_COUNTER
  thr,      \* each thread: process_id, handle_table, and its pause() loop
  fresh,    \* launched threads that have not run yet
  space     \* the address space in TTBR0_EL1

procVars == <<procs, nextPid, thr, fresh, space>>
vars == <<run, ready, cpu, kernel, procs, nextPid, thr, fresh, space>>

\* root: the process has a page table.  held: the processes its handle table
\* has handles to.
Process == [pid : Pids \cup {0}, state : {"Initial", "Zombie"}, exit : BOOLEAN,
            parent : Pids \cup {0}, ignored : SUBSET Signals, pending : SUBSET Signals,
            root : BOOLEAN, held : SUBSET Pids]

\* polls is 0 outside of pause().
ThreadInfo == [pid : Pids \cup {0}, table : Slots, call : {"user", "pause"}, polls : 0..(MaxPolls + 1)]

-----------------------------------------------------------------------------
(* The process table. *)

NewProcess(p, parent, root) ==
  [pid |-> p, state |-> "Initial", exit |-> FALSE, parent |-> parent,
   ignored |-> {}, pending |-> {}, root |-> root, held |-> {}]

Empty == NewProcess(0, 0, FALSE)

find_process(p) == {i \in Slots : procs[i].pid = p /\ p # 0}

FreeSlots == {i \in Slots : procs[i].pid = 0}

CanAllocate == FreeSlots # {} /\ nextPid <= MaxPid

\* Mutant: a process is numbered after its slot.
AllocateBySlot(parent, root) ==
  [procs EXCEPT ![Min(FreeSlots)] = NewProcess(Min(FreeSlots), parent, root)]

\* The process table after allocate_process: the first free slot is taken.
allocate_process(parent, root) ==
  [procs EXCEPT ![Min(FreeSlots)] = NewProcess(nextPid, parent, root)]

\* The page table that process p has, in the next state.
HasRoot(p) == \E i \in Slots : procs'[i].pid = p /\ p # 0 /\ procs'[i].root

\* Mutant: TTBR0 is loaded from the process of the thread that leaves.
ReloadOld(new) ==
  /\ fresh' = (fresh \cup new) \ {cpu'}
  /\ space' = IF cpu' \in fresh \cup new THEN thr'[cpu'].pid
              ELSE IF HasRoot(thr[cpu].pid) THEN thr[cpu].pid ELSE space

\* Mutant: TTBR0 is loaded even if there is no page table.
ReloadNull(new) ==
  /\ fresh' = (fresh \cup new) \ {cpu'}
  /\ space' = IF cpu' \in fresh \cup new \/ HasRoot(thr'[cpu'].pid) THEN thr'[cpu'].pid
              ELSE 0

\* TTBR0 is loaded from the process of the thread that continues, if that
\* process is still there and has a page table; a launched thread comes with
\* the page table it is to run on first.  new are the threads launched now.
Reload(new) ==
  /\ fresh' = (fresh \cup new) \ {cpu'}
  /\ space' = IF cpu' \in fresh \cup new \/ HasRoot(thr'[cpu'].pid) THEN thr'[cpu'].pid
              ELSE space

-----------------------------------------------------------------------------
(* Kernel entries of the thread that owns the CPU. *)

InUser == Owned /\ thr[cpu].call = "user"

Caller == thr[cpu].pid

\* The slot of the caller's process: none once it has been reaped.
Mine == find_process(Caller)

Stay == UNCHANGED cpuVars

\* The thread of the calling program dies and another one runs.
Die(r, q) == Switch([r EXCEPT ![cpu] = "Dead"], q)

EmptyThreads == {t \in Threads : run[t] = "Empty"}

NewThread == CHOOSE t \in Threads : run[t] = "Empty"

Admitted == [run EXCEPT ![NewThread] = "Ready"]

\* Mutant: the new thread is given the caller's handle table.
AddThreadHere(p, s) ==
  thr' = [thr EXCEPT ![NewThread] =
            [pid |-> p, table |-> thr[cpu].table, call |-> "user", polls |-> 0]]

\* Scheduler::add for a thread of process p, whose table is in slot s.
AddThread(p, s) ==
  thr' = [thr EXCEPT ![NewThread] = [pid |-> p, table |-> s, call |-> "user", polls |-> 0]]

\* The caller's handle table lies in a slot that has been emptied.
Dangling == procs[thr[cpu].table].pid = 0

\* HandleTable::add of a handle to process p, into ps.
Hold(ps, p) == [ps EXCEPT ![thr[cpu].table].held = @ \cup {p}]

\* The handle table of an emptied slot is used; nothing is known from here on.
Corrupt == kernel' = "corrupt" /\ UNCHANGED <<run, ready, cpu>> /\ UNCHANGED procVars

\* The caller carries on and the new thread is queued.
Alongside == /\ run' = Admitted
             /\ ready' = ready \cup {NewThread}
             /\ UNCHANGED <<cpu, kernel>>

\* The new thread is queued and the caller's dies.
Instead == Die(Admitted, ready \cup {NewThread})

\* launch_user_program: a process, its image and its first thread.  After is
\* what becomes of the caller, and ps of the process table.
Launched(ps, After) ==
  /\ EmptyThreads # {}
  /\ procs' = ps
  /\ AddThread(nextPid, Min(FreeSlots))
  /\ After
  /\ Reload({NewThread})

\* It fails once the process has its slot: no memory, a bad segment, or one
\* that cannot be mapped.  The slot is not given back.
LaunchFailed(parent) ==
  /\ \E root \in BOOLEAN : procs' = allocate_process(parent, root)
  /\ Stay
  /\ UNCHANGED thr
  /\ Reload({})

\* The scheduler has no slot for the thread and panics.
LaunchPanics(parent) ==
  /\ EmptyThreads = {}
  /\ procs' = allocate_process(parent, TRUE)
  /\ kernel' = "panicked"
  /\ UNCHANGED <<run, ready, cpu, thr>>
  /\ Reload({})

Launch(parent, ps, After) ==
  /\ CanAllocate
  /\ nextPid' = nextPid + 1
  /\ \/ Launched(ps, After)
     \/ LaunchFailed(parent)
     \/ LaunchPanics(parent)

\* The table with the new process, and with a handle to it for the caller.
Plain(parent) == allocate_process(parent, TRUE)
WithHandle == Hold(Plain(0), nextPid)

sys_spawn == InUser /\ Mine # {} /\ Launch(Caller, Plain(Caller), Alongside)

sys_execve == InUser /\ Mine # {} /\ Launch(Caller, Plain(Caller), Instead)

sys_exec == InUser /\ Launch(0, Plain(0), Instead)

sys_service_spawn == InUser /\ Mine # {} /\ Launch(0, WithHandle, Alongside)

\* Needs a VMO handle first.
sys_load_binary ==
  /\ InUser
  /\ \/ ~Dangling /\ Launch(0, WithHandle, Alongside)
     \/ Dangling /\ Corrupt

\* A process with neither a page table nor a thread.  A dangling table may
\* happen to be the one of the new process.
sys_process_create ==
  LET ps == allocate_process(0, FALSE)
  IN  /\ InUser
      /\ CanAllocate
      /\ \/ /\ ps[thr[cpu].table].pid # 0
            /\ procs' = Hold(ps, nextPid)
            /\ nextPid' = nextPid + 1
            /\ Stay
            /\ UNCHANGED thr
            /\ Reload({})
         \/ ps[thr[cpu].table].pid = 0 /\ Corrupt

sys_thread_create(p) ==
  /\ InUser
  /\ \/ /\ ~Dangling
        /\ p \in procs[thr[cpu].table].held
        /\ \E s \in find_process(p) :
             \/ /\ EmptyThreads # {}
                /\ AddThread(p, s)
                /\ Alongside
             \/ /\ EmptyThreads = {}
                /\ kernel' = "panicked"
                /\ UNCHANGED <<run, ready, cpu, thr>>
        /\ UNCHANGED <<procs, nextPid>>
        /\ Reload({})
     \/ Dangling /\ Corrupt

\* HANDLE_CLOSE of a handle to a process, which leaves the process alone.
sys_handle_close(p) ==
  /\ InUser
  /\ \/ /\ ~Dangling
        /\ p \in procs[thr[cpu].table].held
        /\ procs' = [procs EXCEPT ![thr[cpu].table].held = @ \ {p}]
        /\ Stay
        /\ UNCHANGED <<nextPid, thr>>
        /\ Reload({})
     \/ Dangling /\ Corrupt

-----------------------------------------------------------------------------
(* The end of a program, and waiting for it. *)

Zombie(q) == [q EXCEPT !.state = "Zombie", !.exit = TRUE]

\* mark_process_zombie on the slots S.
mark_process_zombie(S) == [i \in Slots |-> IF i \in S THEN Zombie(procs[i]) ELSE procs[i]]

\* SYSCALL_EXIT.  init_respawn does nothing in this version.
sys_exit == /\ InUser
            /\ procs' = mark_process_zombie(Mine)
            /\ Die(run, ready)
            /\ UNCHANGED <<nextPid, thr>>
            /\ Reload({})

\* An exception of the program: only the thread dies.
Fault == /\ InUser
         /\ Die(run, ready)
         /\ UNCHANGED <<procs, nextPid, thr>>
         /\ Reload({})

\* The children a wait for p may be about; 0 stands for any child.
Children(p) ==
  {i \in Slots : procs[i].pid # 0 /\ procs[i].parent = Caller /\ (p = 0 \/ procs[i].pid = p)}

Zombies(p) == {i \in Children(p) : procs[i].exit /\ procs[i].state = "Zombie"}

\* The first zombie child is taken out of its slot and dropped.
Reap(p) == /\ InUser
           /\ Zombies(p) # {}
           /\ procs' = [procs EXCEPT ![Min(Zombies(p))] = Empty]
           /\ Stay
           /\ UNCHANGED <<nextPid, thr>>
           /\ Reload({})

sys_wait4(p) == Reap(p)

ProcMgmtWait(p) == Reap(p)

\* PROC_MGMT_CREATE: a process with the page table and the parent of the
\* caller's choice, and no thread.
ProcMgmtCreate(parent) == /\ InUser
                          /\ CanAllocate
                          /\ procs' = allocate_process(parent, TRUE)
                          /\ nextPid' = nextPid + 1
                          /\ Stay
                          /\ UNCHANGED thr
                          /\ Reload({})

\* PROC_MGMT_EXIT: any process may be declared dead.
ProcMgmtExit(p) == /\ InUser
                   /\ find_process(p) # {}
                   /\ procs' = mark_process_zombie(find_process(p))
                   /\ Stay
                   /\ UNCHANGED <<nextPid, thr>>
                   /\ Reload({})

-----------------------------------------------------------------------------
(* Signals. *)

\* A system call that only changes the signal state of processes.
SignalCall(ps) == /\ InUser
                  /\ procs' = ps
                  /\ Stay
                  /\ UNCHANGED <<nextPid, thr>>
                  /\ Reload({})

signal_send(S, s) == [i \in Slots |-> IF i \in S THEN [procs[i] EXCEPT !.pending = @ \cup {s}]
                                      ELSE procs[i]]

\* SIG_IGN or SIG_DFL for s.
sys_sigaction(s, ignore) ==
  \E i \in Mine :
    SignalCall([procs EXCEPT ![i].ignored = IF ignore THEN @ \cup {s} ELSE @ \ {s}])

sys_raise(s) == Mine # {} /\ SignalCall(signal_send(Mine, s))

\* A process may signal itself, a child, or (p = 0) all its children.
sys_kill(p, s) ==
  LET targets == IF p = Caller THEN Mine ELSE Children(p)
  IN  targets # {} /\ SignalCall(signal_send(targets, s))

Deadly(q) == q.pending \ q.ignored # {}

\* Mutant: the first pending signal decides.
DispatchFirst(q) ==
  IF q.pending = {} THEN q
  ELSE IF Min(q.pending) \in q.ignored THEN [q EXCEPT !.pending = {}]
  ELSE [Zombie(q) EXCEPT !.pending = {}]

\* Mutant: nothing is consumed.
DispatchNothing(q) == q

\* dispatch_pending: ignored signals are consumed, another one kills.
dispatch_pending(q) == IF Deadly(q) THEN [Zombie(q) EXCEPT !.pending = {}]
                       ELSE [q EXCEPT !.pending = {}]

\* Back to the program, with the process table ps.
PauseReturns(ps) ==
  /\ procs' = ps
  /\ thr' = [thr EXCEPT ![cpu].call = "user", ![cpu].polls = 0]
  /\ Stay

\* Another round of the loop, after schedule().
PauseYields(ps, polls) ==
  /\ procs' = ps
  /\ thr' = [thr EXCEPT ![cpu].call = "pause", ![cpu].polls = polls]
  /\ Switch(run, ready)

\* One round of the loop in sys_pause, polls rounds having found nothing.
PauseRound(polls) ==
  /\ \/ Mine = {} /\ PauseReturns(procs)
     \/ \E i \in Mine :
          LET next == [procs EXCEPT ![i] = dispatch_pending(@)]
          IN  \/ procs[i].state = "Zombie" /\ PauseReturns(procs)
              \/ /\ procs[i].state # "Zombie"
                 /\ procs[i].pending = {}
                 /\ PauseYields(procs, polls + 1)
              \/ /\ procs[i].state # "Zombie"
                 /\ procs[i].pending # {}
                 /\ IF next[i].state = "Zombie" THEN PauseReturns(next) ELSE PauseYields(next, polls)
  /\ UNCHANGED nextPid
  /\ Reload({})

sys_pause == InUser /\ PauseRound(0)

\* schedule() has returned inside sys_pause.
PauseResumes ==
  /\ Owned
  /\ thr[cpu].call = "pause"
  /\ \/ thr[cpu].polls <= MaxPolls /\ PauseRound(thr[cpu].polls)
     \/ /\ thr[cpu].polls > MaxPolls
        /\ PauseReturns(procs)
        /\ UNCHANGED nextPid
        /\ Reload({})

\* The timer, or a yield.
Tick == InUser /\ Switch(run, ready) /\ UNCHANGED <<procs, nextPid, thr>> /\ Reload({})

-----------------------------------------------------------------------------

\* The kernel has launched the loader, pid 1, and it runs.
ProcInit ==
  LET first == CHOOSE t \in Threads : TRUE
  IN  /\ cpu = first
      /\ run = [t \in Threads |-> IF t = first THEN "Running" ELSE "Empty"]
      /\ ready = {}
      /\ kernel = "running"
      /\ procs = [i \in Slots |-> IF i = 1 THEN NewProcess(1, 0, TRUE) ELSE Empty]
      /\ nextPid = 2
      /\ thr = [t \in Threads |-> [pid |-> IF t = first THEN 1 ELSE 0, table |-> 1,
                                   call |-> "user", polls |-> 0]]
      /\ fresh = {}
      /\ space = 1

ProcNext ==
  \/ sys_spawn \/ sys_execve \/ sys_exec \/ sys_service_spawn \/ sys_load_binary
  \/ sys_process_create
  \/ sys_exit \/ Fault \/ sys_pause \/ PauseResumes \/ Tick
  \/ \E p \in Pids : sys_thread_create(p) \/ sys_handle_close(p) \/ ProcMgmtExit(p)
  \/ \E p \in Pids \cup {0} : sys_wait4(p) \/ ProcMgmtWait(p) \/ ProcMgmtCreate(p)
  \/ \E s \in Signals : \/ sys_raise(s)
                        \/ \E ignore \in BOOLEAN : sys_sigaction(s, ignore)
                        \/ \E p \in Pids \cup {0} : sys_kill(p, s)

ProcSpec == ProcInit /\ [][ProcNext]_vars

\* As in module Ipc: the kernel goes on at once, and every queued thread gets
\* its turn.
FairProcSpec == /\ ProcSpec
                /\ WF_vars(PauseResumes)
                /\ \A t \in Threads : SF_vars((Tick \/ PauseResumes) /\ cpu' = t)

-----------------------------------------------------------------------------
(* Properties. *)

ProcTypeOK ==
  /\ run \in [Threads -> RunStates] /\ ready \subseteq Threads
  /\ cpu \in Threads
  /\ kernel \in {"running", "halted", "panicked", "corrupt"}
  /\ procs \in [Slots -> Process]
  /\ nextPid \in 2..(MaxPid + 1)
  /\ thr \in [Threads -> ThreadInfo]
  /\ fresh \subseteq Threads
  /\ space \in Pids

Existing == {t \in Threads : run[t] # "Empty"}

\* A thread of a process that still exists uses that process's handle table,
\* though the slot it points into may have been emptied and filled again.
TablesMatch ==
  \A t \in Existing : \A i \in find_process(thr[t].pid) : thr[t].table = i

\* The threads that outlive their process are never adopted by another one:
\* the pid they carry is not given out again.
OrphansStayOrphans ==
  [][\A t \in Existing :
       find_process(thr[t].pid) = {} => \A i \in Slots : procs'[i].pid # thr[t].pid]_vars

\* A process that exists and has a page table only ever runs on it.
OwnSpace ==
  Owned => \A i \in Mine : procs[i].root => space = Caller

\* A signal that would kill is not lost: it stays pending until it kills or
\* the process comes to ignore it.
DeadlyNotDropped ==
  [][\A i \in Slots :
       Deadly(procs[i]) /\ procs'[i].pid = procs[i].pid =>
         \/ Deadly(procs'[i])
         \/ procs'[i].state = "Zombie"
         \/ procs'[i].ignored # procs[i].ignored]_vars

\* A process in pause() acts on a signal that would kill it.
PauseEnds ==
  \A t \in Threads :
    (/\ kernel = "running"
     /\ thr[t].call = "pause"
     /\ \E i \in find_process(thr[t].pid) : Deadly(procs[i]))
      ~> \/ kernel # "running"
         \/ thr[t].call = "user"
         \/ \E i \in find_process(thr[t].pid) : ~Deadly(procs[i])

\* CHANGELOG.md: "HandleTable isolation giving each process local capability
\* scoping".  The program that runs uses no other process's handle table.
Isolated ==
  InUser => procs[thr[cpu].table].pid \in {0, Caller}
=============================================================================
