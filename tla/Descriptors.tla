----------------------------- MODULE Descriptors -----------------------------
(***************************************************************************)
(* File descriptors of the kernel: pipes (vfs/pipe.rs), the descriptor     *)
(* table of a process and the calls on it (sys_pipe, sys_dup2,             *)
(* dispatch_pipe_io in syscall/handlers/process.rs), and the console line  *)
(* that descriptor 0 reads (sys_read in syscall/handlers/vfs.rs).          *)
(*                                                                         *)
(* A system call runs to its end before the next one, so each is one step; *)
(* reading a line spins in the kernel, so nothing else happens meanwhile.  *)
(* No call closes a pipe end: descriptors are only given away by dup2, and *)
(* lost with their process.  dispatch_pipe_io is written for read and      *)
(* write, which do not call it yet; it is modelled as if they did.         *)
(***************************************************************************)
EXTENDS Integers, Sequences, FiniteSets, SequencesExt, FiniteSetsExt

CONSTANTS
  Procs,         \* slots of the process table
  FdTableSize,   \* FD_TABLE_SIZE
  UserFdBase,    \* USER_FD_BASE: the descriptors below are the console's
  MaxPipes,      \* MAX_PIPES
  PipeBufSize,   \* PIPE_BUF_SIZE
  Bytes,         \* byte values
  LineSize,      \* length of a console reader's buffer
  None           \* no process

ASSUME DescriptorsAssumption ==
  /\ {FdTableSize, MaxPipes, PipeBufSize, LineSize} \subseteq Nat \ {0}
  /\ UserFdBase \in 0..(FdTableSize - 1)
  /\ IsFiniteSet(Procs) /\ None \notin Procs
  /\ Bytes # {}

VARIABLES
  pipe,      \* PIPES
  nextPipe,  \* NEXT_PIPE_ID
  fds,       \* per process: fd_table
  nextFd,    \* per process: next_fd
  alive,     \* the processes that have not exited
  console,   \* who reads a line, what the buffer holds and what the screen shows
  halted,    \* the kernel has panicked
  stream,    \* history, per pipe: the bytes accepted and not yet delivered
  astray     \* history: pipes that lost an end without a close

descVars == <<pipe, nextPipe, fds, nextFd, alive, console, halted, stream, astray>>

Ids == 0..(MaxPipes - 1)
Fds == 0..(FdTableSize - 1)
Roles == {"Read", "Write"}

NoFd == -1
NoEnd == [pipe |-> -1, role |-> "None"]
Ends == [pipe : Ids, role : Roles]

\* Pipe, and the slot of one that is not there.
NoPipe == [head |-> 0, tail |-> 0, buf |-> <<>>, ends |-> [r \in Roles |-> 0]]

new_pipe ==
  [head |-> 0, tail |-> 0, buf |-> [i \in 0..(PipeBufSize - 1) |-> CHOOSE b \in Bytes : TRUE],
   ends |-> [r \in Roles |-> 1]]

Quiet == ~halted /\ console.by = None

EmptyFds == [f \in Fds |-> NoEnd]

-----------------------------------------------------------------------------
(* The ring buffer. *)

Buffered(p) == (p.head - p.tail + PipeBufSize) % PipeBufSize

Content(p) == [k \in 1..Buffered(p) |-> p.buf[(p.tail + k - 1) % PipeBufSize]]

\* Mutant: the ring is filled to its last byte.
RoomLast(p) == PipeBufSize - Buffered(p)

\* One place stays free, so that full and empty differ.
Room(p) == PipeBufSize - 1 - Buffered(p)

\* As many bytes as there is room for.
pipe_write(p, data) ==
  LET n == Min({Len(data), Room(p)})
  IN  [p EXCEPT !.head = (@ + n) % PipeBufSize,
                !.buf = [i \in DOMAIN @ |->
                           LET k == 1 + ((i - p.head + PipeBufSize) % PipeBufSize)
                           IN  IF k <= n THEN data[k] ELSE @[i]]]

\* Mutant: the tail runs past the end of the ring.
ReadStraight(p, n) == [p EXCEPT !.tail = @ + Min({n, Buffered(p)})]

pipe_read(p, n) == [p EXCEPT !.tail = (@ + Min({n, Buffered(p)})) % PipeBufSize]

-----------------------------------------------------------------------------
(* References to pipes. *)

\* Mutant: the pipe goes as soon as one side has no end left.
CloseEither(ps, e) ==
  LET p == [ps[e.pipe] EXCEPT !.ends[e.role] = @ - 1]
  IN  [ps EXCEPT ![e.pipe] = IF \E r \in Roles : p.ends[r] = 0 THEN NoPipe ELSE p]

\* A pipe without ends gives its slot up; its id is not used again.
pipe_close_role(ps, e) ==
  LET p == [ps[e.pipe] EXCEPT !.ends[e.role] = IF @ > 0 THEN @ - 1 ELSE 0]
  IN  IF ps[e.pipe] = NoPipe THEN ps
      ELSE [ps EXCEPT ![e.pipe] = IF \A r \in Roles : p.ends[r] = 0 THEN NoPipe ELSE p]

pipe_clone_role(ps, e) ==
  IF ps[e.pipe] = NoPipe THEN ps ELSE [ps EXCEPT ![e.pipe].ends[e.role] = @ + 1]

\* Mutant: the search starts at descriptor 0.
AllocFromZero(table, next) ==
  LET free == {f \in Fds : table[f] = NoEnd}
  IN  IF free = {} THEN NoFd ELSE Min(free)

\* The first free descriptor from next_fd on.  The search goes round the whole
\* table, the console's descriptors included.
alloc_user_fd(table, next) ==
  LET at(k) == (Max({next, UserFdBase}) + k) % FdTableSize
      free == {k \in Fds : table[at(k)] = NoEnd}
  IN  IF free = {} THEN NoFd ELSE at(Min(free))

-----------------------------------------------------------------------------
(* System calls. *)

Caller(p) == Quiet /\ p \in alive

\* Mutant: a freed slot is found again.
AllocFirst ==
  LET free == {i \in Ids : pipe[i] = NoPipe} IN IF free = {} THEN MaxPipes ELSE Min(free)

\* The id that alloc_pipe draws; with none left it fails.
alloc_pipe == nextPipe

\* Both descriptors are drawn before the first is stored: with a single one
\* free they are the same.  With none the call fails and the pipe stays.
sys_pipe(p) ==
  LET id == alloc_pipe
      rd == alloc_user_fd(fds[p], nextFd[p])
      wr == alloc_user_fd(fds[p], (rd + 1) % FdTableSize)
      end(role) == [pipe |-> id, role |-> role]
  IN  /\ Caller(p) /\ id < MaxPipes
      /\ nextPipe' = id + 1
      /\ pipe' = [pipe EXCEPT ![id] = new_pipe]
      /\ stream' = [stream EXCEPT ![id] = <<>>]
      /\ IF rd = NoFd
           THEN UNCHANGED <<fds, nextFd>>
           ELSE /\ fds' = [fds EXCEPT ![p] = [@ EXCEPT ![rd] = end("Read"), ![wr] = end("Write")]]
                /\ nextFd' = [nextFd EXCEPT ![p] = (wr + 1) % FdTableSize]
      /\ astray' = IF rd = NoFd \/ rd = wr THEN astray \cup {id} ELSE astray
      /\ UNCHANGED <<alive, console, halted>>

\* newfd is used as an index unchecked, which past the table panics.
sys_dup2(p, old, new) ==
  LET src == fds[p][old]
      gone == IF fds[p][new] = NoEnd THEN pipe ELSE pipe_close_role(pipe, fds[p][new])
  IN  /\ Caller(p) /\ old # new /\ new >= UserFdBase
      /\ src # NoEnd
      /\ IF new \notin Fds
           THEN halted' = TRUE /\ UNCHANGED <<pipe, fds>>
           ELSE /\ pipe' = pipe_clone_role(gone, src)
                /\ fds' = [fds EXCEPT ![p][new] = src]
                /\ UNCHANGED halted
      /\ UNCHANGED <<nextPipe, nextFd, alive, console, stream, astray>>

\* dispatch_pipe_io finds the pipe of a descriptor in the right role.
PipeOf(p, fd, role) ==
  /\ Caller(p) /\ fd >= UserFdBase
  /\ fds[p][fd].role = role
  /\ pipe[fds[p][fd].pipe] # NoPipe

WritePipe(p, fd, data) ==
  LET id == fds[p][fd].pipe
      n == Min({Len(data), Room(pipe[id])})
  IN  /\ PipeOf(p, fd, "Write")
      /\ pipe[id].ends["Read"] > 0 /\ n > 0
      /\ pipe' = [pipe EXCEPT ![id] = pipe_write(@, data)]
      /\ stream' = [stream EXCEPT ![id] = @ \o SubSeq(data, 1, n)]
      /\ UNCHANGED <<nextPipe, fds, nextFd, alive, console, halted, astray>>

ReadPipe(p, fd, n) ==
  LET id == fds[p][fd].pipe
  IN  /\ PipeOf(p, fd, "Read")
      /\ pipe' = [pipe EXCEPT ![id] = pipe_read(@, n)]
      /\ stream' = [stream EXCEPT ![id] = SubSeq(@, Min({n, Buffered(pipe[id])}) + 1, Len(@))]
      /\ UNCHANGED <<nextPipe, fds, nextFd, alive, console, halted, astray>>

sys_exit(p) ==
  /\ Caller(p)
  /\ alive' = alive \ {p}
  /\ UNCHANGED <<pipe, nextPipe, fds, nextFd, console, halted, stream, astray>>

\* The process is collected and its slot used again: the table goes, and
\* nobody gives up the ends that it held.
Replace(p) ==
  /\ Quiet /\ p \notin alive
  /\ alive' = alive \cup {p}
  /\ fds' = [fds EXCEPT ![p] = EmptyFds]
  /\ nextFd' = [nextFd EXCEPT ![p] = UserFdBase]
  /\ astray' = astray \cup ({fds[p][f].pipe : f \in Fds} \cap Ids)
  /\ UNCHANGED <<pipe, nextPipe, console, halted, stream>>

-----------------------------------------------------------------------------
(* The console. *)

Keys == {"char", "newline", "return", "erase", "nul", "interrupt"}

NoReader == [by |-> None, line |-> <<>>, screen |-> <<"prompt">>]

StartLine(p) ==
  /\ Caller(p)
  /\ console' = [NoReader EXCEPT !.by = p]
  /\ UNCHANGED <<pipe, nextPipe, fds, nextFd, alive, halted, stream, astray>>

\* Mutant: what is erased on the screen need not have been typed.
EraseMore(c) == [c EXCEPT !.line = IF @ = <<>> THEN @ ELSE Front(@), !.screen = IF @ = <<>> THEN @ ELSE Front(@)]

\* Backspace takes the last character from the buffer and the screen.
Erase(c) == IF c.line = <<>> THEN c ELSE [c EXCEPT !.line = Front(@), !.screen = Front(@)]

Enter(c, ch) == [c EXCEPT !.line = Append(@, ch), !.screen = Append(@, ch)]

\* A key.  The line ends with a newline or with the buffer, and with a NUL,
\* which getchar reports as the absence of a byte.
Key(k) ==
  LET c == CASE k = "erase"                    -> Erase(console)
             [] k \in {"nul", "interrupt"}     -> console
             [] k \in {"return", "newline"}    -> Enter(console, "newline")
             [] OTHER                          -> Enter(console, k)
      over == \/ k \in {"nul", "interrupt"}
              \/ c.line # <<>> /\ (Last(c.line) = "newline" \/ Len(c.line) = LineSize)
  IN  /\ ~halted /\ console.by # None
      /\ console' = IF over THEN NoReader ELSE c
      /\ alive' = IF k = "interrupt" THEN alive \ {console.by} ELSE alive
      /\ UNCHANGED <<pipe, nextPipe, fds, nextFd, halted, stream, astray>>

-----------------------------------------------------------------------------
DescInit ==
  /\ pipe = [i \in Ids |-> NoPipe] /\ nextPipe = 0
  /\ fds = [p \in Procs |-> EmptyFds] /\ nextFd = [p \in Procs |-> UserFdBase]
  /\ alive = Procs
  /\ console = NoReader
  /\ halted = FALSE
  /\ stream = [i \in Ids |-> <<>>] /\ astray = {}

\* What is written at once: a byte, or more than a pipe holds.
Data == {<<b>> : b \in Bytes} \cup {[k \in 1..PipeBufSize |-> b] : b \in Bytes}

DescNext ==
  \/ \E p \in Procs :
       \/ sys_pipe(p) \/ sys_exit(p) \/ Replace(p) \/ StartLine(p)
       \/ \E old \in Fds, new \in Fds \cup {FdTableSize} : sys_dup2(p, old, new)
       \/ \E fd \in Fds, data \in Data : WritePipe(p, fd, data)
       \/ \E fd \in Fds, n \in 1..PipeBufSize : ReadPipe(p, fd, n)
  \/ \E k \in Keys : Key(k)

DescSpec == DescInit /\ [][DescNext]_descVars

-----------------------------------------------------------------------------
(* Properties. *)

\* The variables have their types.
DescTypeOK ==
  /\ \A i \in Ids : pipe[i] # NoPipe =>
       /\ {pipe[i].head, pipe[i].tail} \subseteq 0..(PipeBufSize - 1)
       /\ \A r \in Roles : pipe[i].ends[r] \in Nat
       /\ pipe[i].buf \in [0..(PipeBufSize - 1) -> Bytes]
  /\ nextPipe \in 0..MaxPipes
  /\ fds \in [Procs -> [Fds -> Ends \cup {NoEnd}]] /\ nextFd \in [Procs -> Fds]
  /\ alive \subseteq Procs /\ halted \in BOOLEAN /\ astray \subseteq Ids
  /\ console.by \in Procs \cup {None} /\ Len(console.line) <= LineSize

\* The ends of pipe i in some table, in one role.
Held(i, role) == {x \in Procs \X Fds : fds[x[1]][x[2]] = [pipe |-> i, role |-> role]}

\* Whatever sys_pipe, dup2 and the deaths of processes do to the tables, a
\* descriptor never leads to a pipe that is gone, and a pipe counts exactly
\* the ends that the tables hold, unless one went astray: with its process,
\* or in a sys_pipe that found fewer than two descriptors (process.rs:1085).
EndsCounted ==
  \A i \in Ids, role \in Roles :
    /\ pipe[i].ends[role] >= Cardinality(Held(i, role))
    /\ i \notin astray => pipe[i].ends[role] = Cardinality(Held(i, role))

\* A pipe delivers the bytes it accepted, all of them and in order, however
\* writes that only fit in part and short reads take turns around the ring.
PipeIsFifo == \A i \in Ids : pipe[i] # NoPipe => Content(pipe[i]) = stream[i]

\* A console descriptor becomes a pipe end only when the rest of the table is
\* full (process.rs:1136): neither read nor write finds the end there.
ConsoleKept ==
  [][\A p \in Procs, f \in 0..(UserFdBase - 1) :
       fds[p][f] = NoEnd /\ fds'[p][f] # NoEnd
         => \A g \in UserFdBase..(FdTableSize - 1) : fds'[p][g] # NoEnd]_descVars

\* The slot of a pipe is never used for another one, so that a descriptor
\* cannot come to mean a pipe that it was not made for; when it is gone the
\* machine has one pipe less (pipe.rs:80).
IdsNotReused ==
  [][\A i \in Ids : i < nextPipe /\ pipe[i] = NoPipe => pipe'[i] = NoPipe]_descVars

\* The screen shows what the program will read, however it was typed and
\* erased, and erasing never reaches the prompt.
EchoMatches == console.screen = <<"prompt">> \o console.line
=============================================================================
