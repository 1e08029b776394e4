--------------------------------- MODULE Ipc ---------------------------------
(***************************************************************************)
(* Synchronous rendezvous channels (kernel/src/ipc/channel.rs), the handle *)
(* tables that own their endpoints (object/handle_table.rs), the service   *)
(* registry (ipc/registry.rs) and the channel system calls                 *)
(* (syscall/handlers/ipc.rs), on top of the scheduler's promise, Cpu.      *)
(*                                                                         *)
(* A system call runs with interrupts masked, so it is one step up to its  *)
(* call of schedule(); what it does after schedule() returns is the        *)
(* action Return.                                                          *)
(*                                                                         *)
(* Handle values are drawn from one global counter and are never reused,   *)
(* so a handle names one object for ever and a process's table is modelled *)
(* as the set of endpoints it holds: using a stale value fails before      *)
(* anything changes.  Of a message only its emptiness is kept: a lookup    *)
(* sends an empty one.                                                     *)
(***************************************************************************)
EXTENDS Cpu, Sequences, SequencesExt, FiniteSetsExt

CONSTANTS
  Procs,        \* processes
  ProcOf,       \* the process of each thread
  Idlers,       \* threads that only yield, as the loader does once it is done
  MaxEndpoints, \* bound: endpoints ever created
  MaxHandles,   \* MAX_HANDLES
  MaxWaiters,   \* MAX_WAITERS
  MaxTransfer,  \* transfer slots of a thread
  Lens,         \* the lengths of message buffers, 0 (empty) or 1
  Names,        \* service names
  MaxServices   \* MAX_SERVICES

Endpoints == 1..MaxEndpoints

ASSUME ProcAssumption ==
  ProcOf \in [Threads -> Procs] /\ Idlers \subseteq Threads /\ Idlers # {}
ASSUME IpcBoundsAssumption ==
  {MaxEndpoints, MaxHandles, MaxWaiters, MaxTransfer, MaxServices} \subseteq Nat
ASSUME LensAssumption == Lens \subseteq {0, 1}
ASSUME NoEndpointAssumption == None \notin Endpoints

VARIABLES
  chan,     \* each endpoint: state, peer, send_waiters and recv_waiters
  table,    \* the endpoints in each process's handle table
  tcb,      \* each thread: the call it is inside of, ipc_buf_len,
            \* ipc_actual_len, and the endpoints in ipc_transfer_slots
  services  \* the registry: the raw pointer registered under a name

ipcVars == <<chan, table, tcb, services>>
vars == <<run, ready, cpu, kernel, chan, table, tcb, services>>

\* "Unborn" and "Freed" are before Box::new and after the drop.
Endpoint == [state : {"Unborn", "Open", "Closed", "Freed"},
             peer  : Endpoints \cup {None},
             send  : Seq(Threads),
             recv  : Seq(Threads)]

\* "user" is outside the kernel; the others are blocking calls.
Calls == {"user", "read", "write", "lookup"}

Tcb == [call : Calls, len : {0, 1}, actual : {0, 1}, stash : SUBSET Endpoints]

-----------------------------------------------------------------------------
(* Endpoints. *)

NewEndpoint(state, peer) == [state |-> state, peer |-> peer, send |-> <<>>, recv |-> <<>>]

\* close() on every member of D, from its Drop: its waiters and its peer's
\* are woken and forgotten, and the peer is closed and unlinked.
Touched(ch, D) == D \cup ({ch[e].peer : e \in D} \ {None})

\* Mutant: the endpoint that stays behind keeps its pointer.
DropKeepsPeer(ch, D) ==
  [e \in Endpoints |->
     IF e \in D THEN NewEndpoint("Freed", None)
     ELSE IF e \in Touched(ch, D) THEN NewEndpoint("Closed", ch[e].peer)
     ELSE ch[e]]

Drop(ch, D) ==
  [e \in Endpoints |->
     IF e \in D THEN NewEndpoint("Freed", None)
     ELSE IF e \in Touched(ch, D) THEN NewEndpoint("Closed", None)
     ELSE ch[e]]

Waiters(ch, e) == ToSet(ch[e].send) \cup ToSet(ch[e].recv)

\* Mutant: close() forgets the waiters of the peer.
ReleasedOwn(ch, D) == UNION {Waiters(ch, e) : e \in D}

Released(ch, D) == UNION {Waiters(ch, e) : e \in Touched(ch, D)}

Usable(ch, e) == ch[e].state = "Open" /\ ch[e].peer # None

\* Two new endpoints that are each other's peer.
Pair(ch, a, b) == [ch EXCEPT ![a] = NewEndpoint("Open", b), ![b] = NewEndpoint("Open", a)]

\* The table took only the first: it never gets a peer, the second is dropped.
HalfPair(ch, a, b) ==
  [ch EXCEPT ![a] = NewEndpoint("Open", None), ![b] = NewEndpoint("Freed", None)]

Unborn == {e \in Endpoints : chan[e].state = "Unborn"}

-----------------------------------------------------------------------------
(* Handle tables. *)

Room(p) == MaxHandles - Cardinality(table[p])

\* Mutant: the table has no limit.
FittingAll(S, room) == {S}

\* HandleTable::add on each of S until the table is full: the sets that may
\* get in, according to the order of the handles in the message.
Fitting(S, room) == kSubset(Min({room, Cardinality(S)}), S)

\* The handles of p that a message can carry.
Transfers(p) == {S \in SUBSET table[p] : Cardinality(S) <= MaxTransfer}

-----------------------------------------------------------------------------
(* Kernel entries of the thread that owns the CPU. *)

InUser == Owned /\ tcb[cpu].call = "user"

\* The owner is about to make a system call of its choice.
InProgram == InUser /\ cpu \notin Idlers

Me == ProcOf[cpu]

\* wake_thread on each of S; the caller keeps the CPU.
Notify(S) == /\ run' = WakeStates(run, S)
             /\ ready' = WakeQueue(run, ready, S)
             /\ UNCHANGED <<cpu, kernel>>

\* The caller is Blocked and calls schedule(), having woken S.
Suspend(S) == LET off == [run EXCEPT ![cpu] = "Blocked"]
              IN  Switch(WakeStates(off, S), WakeQueue(off, ready, S))

\* Memory of a freed endpoint is used; nothing is known from here on.
Corrupt == kernel' = "corrupt" /\ UNCHANGED <<run, ready, cpu>>

\* Channel::write on e of a message of length n with the handles S; ch and
\* tab are the endpoints and the tables at that moment.  A reader waits on
\* the peer: the message and the handles go straight to it.
WriteNow(ch, tab, e, S, n) ==
  LET f    == ch[e].peer
      r    == Head(ch[f].recv)
      left == [tab EXCEPT ![Me] = @ \ S]
      q    == ProcOf[r]
      popped == [ch EXCEPT ![f].recv = Tail(@)]
  IN  /\ ch[f].recv # <<>>
      /\ \E kept \in Fitting(S, MaxHandles - Cardinality(left[q])) :
           /\ table' = [left EXCEPT ![q] = @ \cup kept]
           /\ chan' = Drop(popped, S \ kept)
           /\ Notify({r} \cup Released(popped, S \ kept))
      /\ tcb' = [tcb EXCEPT ![r].actual = Min({n, tcb[r].len})]

\* Mutant: the stashed handles stay in the sender's table.
WriteWaitKeeps(ch, tab, e, S, n, call) ==
  LET old == tcb[cpu].stash
      cleared == Drop(ch, old)
  IN  /\ ch[ch[e].peer].recv = <<>>
      /\ e \notin old
      /\ Len(cleared[e].send) < MaxWaiters
      /\ chan' = [cleared EXCEPT ![e].send = Append(@, cpu)]
      /\ table' = tab
      /\ tcb' = [tcb EXCEPT ![cpu] =
                   [call |-> call, len |-> n, actual |-> 0, stash |-> S]]
      /\ Suspend(Released(ch, old))

\* Nobody reads: the handles are stashed, after whatever an earlier call left
\* in the stash has been dropped, and the caller waits on e itself.
WriteWait(ch, tab, e, S, n, call) ==
  LET old == tcb[cpu].stash
      cleared == Drop(ch, old)
  IN  /\ ch[ch[e].peer].recv = <<>>
      /\ e \notin old
      /\ Len(cleared[e].send) < MaxWaiters
      /\ chan' = [cleared EXCEPT ![e].send = Append(@, cpu)]
      /\ table' = [tab EXCEPT ![Me] = @ \ S]
      /\ tcb' = [tcb EXCEPT ![cpu] =
                   [call |-> call, len |-> n, actual |-> 0, stash |-> S]]
      /\ Suspend(Released(ch, old))

\* No free waiter slot: the handles go back and the call fails.
WriteFull(ch, tab, e) ==
  LET old == tcb[cpu].stash
      cleared == Drop(ch, old)
  IN  /\ ch[ch[e].peer].recv = <<>>
      /\ e \notin old
      /\ Len(cleared[e].send) >= MaxWaiters
      /\ chan' = cleared
      /\ table' = tab
      /\ tcb' = [tcb EXCEPT ![cpu].stash = {}]
      /\ Notify(Released(ch, old))

\* The endpoint being written to is in the caller's old stash: it is freed
\* under the call.
WriteFreed(ch, tab, e) == /\ ch[ch[e].peer].recv = <<>>
                          /\ e \in tcb[cpu].stash
                          /\ chan' = ch /\ table' = tab
                          /\ Corrupt
                          /\ UNCHANGED tcb

Write(ch, tab, e, S, n, call) ==
  \/ WriteNow(ch, tab, e, S, n)
  \/ WriteWait(ch, tab, e, S, n, call)
  \/ WriteFull(ch, tab, e)
  \/ WriteFreed(ch, tab, e)

\* A closed endpoint, or one without a peer, refuses with no effect; so does
\* a read that finds no free waiter slot.
sys_channel_write(e, S, n) ==
  /\ InProgram
  /\ e \in table[Me]
  /\ Usable(chan, e)
  /\ Write(chan, table, e, S, n, "write")
  /\ UNCHANGED services

\* Channel::read on e into a buffer of length n, a writer waiting on the peer.
ReadNow(e, n) ==
  LET f == chan[e].peer
      s == Head(chan[f].send)
      S == tcb[s].stash
      popped == [chan EXCEPT ![f].send = Tail(@)]
  IN  /\ chan[f].send # <<>>
      /\ \E kept \in Fitting(S, Room(Me)) :
           /\ table' = [table EXCEPT ![Me] = @ \cup kept]
           /\ chan' = Drop(popped, S \ kept)
           /\ Notify({s} \cup Released(popped, S \ kept))
      /\ tcb' = [tcb EXCEPT ![s] =
                   [@ EXCEPT !.actual = Min({tcb[s].len, n}), !.stash = {}]]

\* Mutant: waits without looking for a writer.
ReadWaitBlind(e, n) ==
  /\ Len(chan[e].recv) < MaxWaiters
  /\ chan' = [chan EXCEPT ![e].recv = Append(@, cpu)]
  /\ tcb' = [tcb EXCEPT ![cpu] = [@ EXCEPT !.call = "read", !.len = n, !.actual = 0]]
  /\ Suspend({})
  /\ UNCHANGED table

\* Nobody writes: the caller waits on e itself.
ReadWait(e, n) ==
  /\ chan[chan[e].peer].send = <<>>
  /\ Len(chan[e].recv) < MaxWaiters
  /\ chan' = [chan EXCEPT ![e].recv = Append(@, cpu)]
  /\ tcb' = [tcb EXCEPT ![cpu] = [@ EXCEPT !.call = "read", !.len = n, !.actual = 0]]
  /\ Suspend({})
  /\ UNCHANGED table

sys_channel_read(e, n) ==
  /\ InProgram
  /\ e \in table[Me]
  /\ Usable(chan, e)
  /\ ReadNow(e, n) \/ ReadWait(e, n)
  /\ UNCHANGED services

\* HANDLE_CLOSE: the endpoint leaves the table and is dropped.
sys_handle_close(e) ==
  /\ InProgram
  /\ e \in table[Me]
  /\ table' = [table EXCEPT ![Me] = @ \ {e}]
  /\ chan' = Drop(chan, {e})
  /\ Notify(Released(chan, {e}))
  /\ UNCHANGED <<tcb, services>>

sys_channel_create ==
  LET a == Min(Unborn)
      b == Min(Unborn \ {a})
  IN  /\ InProgram
      /\ Cardinality(Unborn) >= 2
      /\ \/ /\ Room(Me) >= 2
            /\ chan' = Pair(chan, a, b)
            /\ table' = [table EXCEPT ![Me] = @ \cup {a, b}]
         \/ /\ Room(Me) = 1
            /\ chan' = HalfPair(chan, a, b)
            /\ table' = [table EXCEPT ![Me] = @ \cup {a}]
      /\ UNCHANGED <<run, ready, cpu, kernel, tcb, services>>

Registered == {n \in Names : services[n] # None}

\* register_service keeps the raw pointer; nothing ever takes it back.
sys_channel_register(n, e) ==
  /\ InProgram
  /\ e \in table[Me]
  /\ n \notin Registered
  /\ Cardinality(Registered) < MaxServices
  /\ services' = [services EXCEPT ![n] = e]
  /\ UNCHANGED <<run, ready, cpu, kernel, chan, table, tcb>>

\* A new pair, whose server end is written, as the peer of the service's
\* endpoint would, to whoever reads there.
sys_channel_lookup(n) ==
  LET a  == Min(Unborn)
      b  == Min(Unborn \ {a})
      s  == services[n]
      ch == Pair(chan, a, b)
      tab == [table EXCEPT ![Me] = @ \cup {a, b}]
  IN  /\ InProgram
      /\ s # None
      /\ Cardinality(Unborn) >= 2
      /\ \/ /\ Room(Me) = 1
            /\ chan' = HalfPair(chan, a, b)
            /\ table' = [table EXCEPT ![Me] = @ \cup {a}]
            /\ UNCHANGED <<run, ready, cpu, kernel, tcb>>
         \/ /\ Room(Me) >= 2
            /\ \/ /\ chan[s].state = "Freed"
                  /\ chan' = ch /\ table' = tab
                  /\ Corrupt
                  /\ UNCHANGED tcb
               \/ /\ chan[s].state # "Freed"
                  /\ chan[s].peer = None
                  /\ chan' = ch /\ table' = tab
                  /\ UNCHANGED <<run, ready, cpu, kernel, tcb>>
               \/ /\ chan[s].peer # None
                  /\ Write(ch, tab, chan[s].peer, {b}, 0, "lookup")
      /\ UNCHANGED services

\* A blocking call continues once its thread has the CPU again.  ipc_buf_len
\* and ipc_actual_len are dead until the next call sets them, so the model
\* forgets them.
Return == /\ Owned
          /\ tcb[cpu].call # "user"
          /\ tcb' = [tcb EXCEPT ![cpu] = [@ EXCEPT !.call = "user", !.len = 0, !.actual = 0]]
          /\ UNCHANGED <<run, ready, cpu, kernel, chan, table, services>>

\* The timer, or a yield.
Tick == InUser /\ Switch(run, ready) /\ UNCHANGED ipcVars

\* sys_exit: the thread's stash and the process's table stay as they are.
Exit == /\ InProgram
        /\ Switch([run EXCEPT ![cpu] = "Dead"], ready)
        /\ UNCHANGED ipcVars

-----------------------------------------------------------------------------

\* The system as the loader leaves it: every program is started, none has
\* made a call yet.
IpcInit ==
  /\ \E t \in Threads :
       /\ cpu = t
       /\ run = [i \in Threads |-> IF i = t THEN "Running" ELSE "Ready"]
       /\ ready = Threads \ {t}
  /\ kernel = "running"
  /\ chan = [e \in Endpoints |-> NewEndpoint("Unborn", None)]
  /\ table = [p \in Procs |-> {}]
  /\ tcb = [t \in Threads |-> [call |-> "user", len |-> 0, actual |-> 0, stash |-> {}]]
  /\ services = [n \in Names |-> None]

IpcNext == \/ \E e \in Endpoints, n \in Lens :
                \/ sys_channel_read(e, n)
                \/ \E S \in Transfers(Me) : sys_channel_write(e, S, n)
           \/ \E e \in Endpoints : sys_handle_close(e)
           \/ sys_channel_create
           \/ \E n \in Names, e \in Endpoints : sys_channel_register(n, e)
           \/ \E n \in Names : sys_channel_lookup(n)
           \/ Return
           \/ Tick
           \/ Exit

IpcSpec == IpcInit /\ [][IpcNext]_vars

\* A thread returns from the kernel at once, and round robin (NoStarvation of
\* module Scheduler: these threads share one priority) lets every queued
\* thread in.
FairIpcSpec == /\ IpcSpec
               /\ WF_vars(Return)
               /\ \A t \in Threads : SF_vars(Tick /\ cpu' = t)

-----------------------------------------------------------------------------
(* Properties. *)

IpcTypeOK ==
  /\ run \in [Threads -> RunStates] /\ ready \subseteq Threads
  /\ cpu \in Threads \cup {None}
  /\ kernel \in {"booting", "running", "halted", "panicked", "corrupt"}
  /\ chan \in [Endpoints -> Endpoint]
  /\ table \in [Procs -> SUBSET Endpoints]
  /\ \A p \in Procs : Cardinality(table[p]) <= MaxHandles
  /\ tcb \in [Threads -> Tcb]
  /\ services \in [Names -> Endpoints \cup {None}]

\* The places where a thread is registered as a waiter.
Registrations(t) ==
  {x \in Endpoints \X {"send", "recv"} \X (1..MaxWaiters) :
     LET q == chan[x[1]][x[2]] IN x[3] <= Len(q) /\ q[x[3]] = t}

\* No lost and no stray wake-up: a thread is Blocked exactly when it is
\* registered as a waiter, it is registered once, and on the side its call
\* says.  A pop or a close that finds a thread may always complete its call.
WaitersExact ==
  \A t \in Threads :
    /\ run[t] = "Blocked" <=> Registrations(t) # {}
    /\ Cardinality(Registrations(t)) <= 1
    /\ \A x \in Registrations(t) :
         IF x[2] = "recv" THEN tcb[t].call = "read"
         ELSE tcb[t].call \in {"write", "lookup"}

\* The raw peer pointers: they are mutual, between live, open endpoints.  No
\* read, write or close ever follows one into freed memory.
PeersLinked ==
  \A e \in Endpoints :
    chan[e].peer # None =>
      LET f == chan[e].peer
      IN  /\ f # e
          /\ chan[f].peer = e
          /\ chan[e].state = "Open"
          /\ chan[f].state = "Open"

\* Rendezvous: a reader and a writer that could meet never both wait.
NoMissedRendezvous ==
  \A e \in Endpoints :
    chan[e].peer # None => chan[e].recv = <<>> \/ chan[chan[e].peer].send = <<>>

\* The tables and stashes that hold e.
Owners(e) == {p \in Procs : e \in table[p]} \cup {t \in Threads : e \in tcb[t].stash}

\* A capability is never copied and never lost track of: an endpoint that
\* exists has exactly one owner, a table or a stash, and a freed one none.
SoleOwner ==
  \A e \in Endpoints :
    Cardinality(Owners(e)) = IF chan[e].state \in {"Open", "Closed"} THEN 1 ELSE 0

\* A thread whose call has been answered, or whose channel has been closed,
\* gets back to its program.
WokenReturns ==
  \A t \in Threads :
    (tcb[t].call # "user" /\ run[t] # "Blocked" /\ kernel = "running")
      ~> (tcb[t].call = "user" \/ kernel # "running")

\* ARCHITECTURE.md 3.3: channel pointers "never become dangling pointers".
NeverDangling == kernel # "corrupt"
=============================================================================
