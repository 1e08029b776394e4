-------------------------------- MODULE Files --------------------------------
(***************************************************************************)
(* The file service and its clients: the main loop, the sessions and the   *)
(* commands of services/fileagent (main.rs, vfs.rs) over the tree of       *)
(* Ramfs, and the file functions of libraries/libc (lib.rs), which every   *)
(* program goes through.                                                   *)
(*                                                                         *)
(* Channels are the rendezvous that Ipc describes: a writer waits for a    *)
(* reader and the other way round, and waiting writers are served first    *)
(* come, first served.  The service drives one session until its client    *)
(* closes it; libc makes a session per call, and keeps that of an open     *)
(* file until close.  So there is one session at a time, in the first slot *)
(* of SESSIONS, with at most one descriptor, number 0.                     *)
(***************************************************************************)
EXTENDS Ramfs

CONSTANTS
  Clients,     \* programs
  Paths,       \* the paths they use
  TtyPath,     \* "/dev/tty"
  InlineMax,   \* INLINE_DATA_MAX: data bytes of a message
  ReadBuffer,  \* bytes that do_read asks of the tree at once
  MaxCalls     \* bound: calls of the programs, apart from close and exit

ASSUME FilesAssumption ==
  /\ {InlineMax, ReadBuffer, MaxCalls} \subseteq Nat \ {0} /\ Clients # {}
  /\ Paths \subseteq Seq(Names) /\ TtyPath \in Seq(Names)

VARIABLES
  tree,       \* the arrays of ramfs.rs
  server,     \* where the service's thread is, and what it died of
  session,    \* the open file of the session: node and offset
  link,       \* the client end of the session
  queue,      \* the clients that wait to be connected
  client,     \* per client: where it is, its call, whether it has a file open
  calls,      \* number of calls made
  copied      \* history: bytes of the open file that its client has read or written

fileVars == <<tree, server, session, link, queue, client, calls, copied>>

ServerStates == {"accept", "serve", "reply", "panic", "hang"}

NoFile == [node |-> NoNode, offset |-> 0]

\* tty_fd(): not a descriptor of the session.
Tty == [node |-> -3, offset |-> 0]

NoCall == [cmd |-> "none"]

OpenCalls ==
  [cmd : {"open"}, path : Paths, create : BOOLEAN] \cup [cmd : {"open"}, path : {TtyPath}, create : {FALSE}]

PathCalls == [cmd : {"mkdir", "rmdir", "unlink", "stat"}, path : Paths]

\* One byte, and one more than a message holds: libc copies what fits but
\* sends the whole count.
WriteCalls == [cmd : {"write"}, count : {1, InlineMax + 1}]

\* libc refuses readdir of its console entries, not of a tty it has opened.
DirCalls == [cmd : {"readdir"}]

FileCalls == WriteCalls \cup DirCalls \cup [cmd : {"read", "close"}]

-----------------------------------------------------------------------------
(* The commands: what handle_cmd makes of a call. *)

\* What a command leaves: the tree, the descriptor, the answer and how the
\* service's thread goes on.
Effect(t, f, answer, fate) == [tree |-> t, file |-> f, answer |-> answer, fate |-> fate]

Answered(t, f, answer) == Effect(t, f, answer, "reply")

Lost(f, why) == Effect(tree, f, "error", why)

do_open(call) ==
  LET i == resolve(tree, call.path)
      c == IF i = NoNode /\ call.create THEN create_file_path(tree, call.path)
           ELSE [tree |-> tree, node |-> i]
  IN  IF call.path = TtyPath THEN Answered(tree, Tty, "ok")
      ELSE IF c.node = Endless THEN Lost(session, "hang")
      ELSE IF c.node = NoNode THEN Answered(tree, session, "error")
      ELSE Answered(c.tree, [node |-> c.node, offset |-> 0], "ok")

do_mkdir(call) ==
  LET m == mkdir_path(tree, call.path)
  IN  Effect(m.tree, session, m.result, IF m.result = "hang" THEN "hang" ELSE "reply")

\* do_rmdir and do_unlink differ in the error they report; neither looks at
\* the kind of the node.
do_remove(call) ==
  LET i == resolve(tree, call.path)
      r == remove(tree, tree.parent[i], i)
  IN  IF i = Endless THEN Lost(session, "hang")
      ELSE IF i = NoNode \/ i = Root THEN Answered(tree, session, "error")
      ELSE IF tree.parent[i] = NoNode THEN Answered(tree, session, "error")
      ELSE Effect(r.tree, session, r.result, IF r.result = "hang" THEN "hang" ELSE "reply")

do_stat(call) ==
  IF resolve(tree, call.path) = Endless THEN Lost(session, "hang")
  ELSE Answered(tree, session, "ok")

\* Mutant: the offset moves by what was asked for.
ReadSkips ==
  IF session = Tty THEN Answered(tree, session, "ok")
  ELSE IF tree.kind[session.node] = "none" THEN Answered(tree, session, "error")
  ELSE Answered(tree, [session EXCEPT !.offset = @ + ReadBuffer], "ok")

\* The offset moves by what the tree gave, also when the answer holds less.
do_read ==
  LET got == Readable(tree, session.node, session.offset, ReadBuffer)
  IN  IF session = Tty THEN Answered(tree, session, "ok")
      ELSE IF tree.kind[session.node] = "none" THEN Answered(tree, session, "error")
      ELSE IF got <= 0 THEN Answered(tree, session, "ok")
      ELSE Answered(tree, [session EXCEPT !.offset = @ + got], "ok")

\* A count that is larger than the message makes the slice of it panic.
do_write(call) ==
  LET n == Writable(session.offset, call.count)
  IN  IF call.count > InlineMax THEN Lost(session, "panic")
      ELSE IF session = Tty THEN Answered(tree, session, "ok")
      ELSE IF tree.kind[session.node] # "file" THEN Answered(tree, session, "error")
      ELSE Answered(Grown(tree, session.node, session.offset + n), [session EXCEPT !.offset = @ + n], "ok")

\* The tty's number is past the end of the descriptor array.
do_readdir ==
  IF session = Tty THEN Lost(session, "panic")
  ELSE Answered(tree, session, IF tree.kind[session.node] = "dir" THEN "ok" ELSE "error")

do_close == Answered(tree, NoFile, "ok")

handle_cmd(call) ==
  CASE call.cmd = "open"                  -> do_open(call)
    [] call.cmd = "mkdir"                 -> do_mkdir(call)
    [] call.cmd \in {"rmdir", "unlink"}   -> do_remove(call)
    [] call.cmd = "stat"                  -> do_stat(call)
    [] call.cmd = "read"                  -> do_read
    [] call.cmd = "write"                 -> do_write(call)
    [] call.cmd = "readdir"               -> do_readdir
    [] call.cmd = "close"                 -> do_close

\* The bytes that a read or a write of this call gives its client: the answer
\* to a read carries at most InlineMax of them.
Moved(call, f) ==
  LET moved == f.offset - session.offset
  IN  IF call.cmd = "read" THEN Min({moved, InlineMax}) ELSE moved

-----------------------------------------------------------------------------
(* The client side: libc. *)

\* A call that has its own session starts with channel_lookup, which waits
\* until the service reads the connection.
Connect(c, call) ==
  /\ client[c].pc = "idle" /\ calls < MaxCalls
  /\ client' = [client EXCEPT ![c] = [@ EXCEPT !.pc = "connect", !.call = call]]
  /\ calls' = calls + 1
  /\ queue' = Append(queue, c)
  /\ UNCHANGED <<tree, server, session, link, copied>>

\* A call on the open file writes to its session.
UseFile(c, call) ==
  /\ client[c].pc = "idle" /\ client[c].open
  /\ call.cmd = "close" \/ calls < MaxCalls
  /\ client' = [client EXCEPT ![c] = [@ EXCEPT !.pc = "send", !.call = call]]
  /\ calls' = IF call.cmd = "close" THEN calls ELSE calls + 1
  /\ UNCHANGED <<tree, server, session, link, queue, copied>>

\* exit() closes no channel, and neither does the end of its handle table,
\* which is never dropped.
Exit(c) ==
  /\ client[c].pc = "idle"
  /\ client' = [client EXCEPT ![c].pc = "exited"]
  /\ UNCHANGED <<tree, server, session, link, queue, copied, calls>>

\* Mutant: only the session of an open file is closed.
HangupLeaves(c) ==
  /\ client[c].pc = "hangup"
  /\ client' = [client EXCEPT ![c] = [@ EXCEPT !.pc = "idle", !.call = NoCall, !.open = FALSE]]
  /\ link' = [link EXCEPT !.up = ~client[c].open]
  /\ UNCHANGED <<tree, server, session, queue, copied, calls>>

\* channel_close after the call; open keeps its session when it succeeded.
Hangup(c) ==
  /\ client[c].pc = "hangup"
  /\ client' = [client EXCEPT ![c] = [@ EXCEPT !.pc = "idle", !.call = NoCall, !.open = FALSE]]
  /\ link' = [link EXCEPT !.up = FALSE]
  /\ UNCHANGED <<tree, server, session, queue, copied, calls>>

\* What the program does next.
Program(c) ==
  \/ \E call \in OpenCalls \cup PathCalls : Connect(c, call)
  \/ \E call \in FileCalls : UseFile(c, call)
  \/ Exit(c)

-----------------------------------------------------------------------------
(* The service's thread. *)

\* A connection, which lets the client's lookup return, and a session for it.
Accept ==
  LET c == Head(queue)
  IN  /\ server = "accept" /\ queue # <<>>
      /\ server' = "serve" /\ session' = NoFile
      /\ link' = [to |-> c, up |-> TRUE]
      /\ queue' = Tail(queue)
      /\ client' = [client EXCEPT ![c].pc = "send"]
      /\ UNCHANGED <<tree, copied, calls>>

\* A command is read, carried out and answered; libc's close() does not wait
\* for the answer.
Serve ==
  LET c == link.to
      call == client[c].call
      e == handle_cmd(call)
  IN  /\ server = "serve" /\ link.up /\ client[c].pc = "send"
      /\ tree' = e.tree /\ session' = e.file
      /\ server' = e.fate
      /\ client' = [client EXCEPT ![c] =
                      [@ EXCEPT !.pc = IF call.cmd = "close" THEN "hangup" ELSE "wait",
                                !.call = [cmd |-> call.cmd, answer |-> e.answer]]]
      /\ copied' = IF call.cmd = "open" THEN 0
                   ELSE IF call.cmd \in {"read", "write"} THEN copied + Moved(call, e.file) ELSE copied
      /\ UNCHANGED <<link, queue, calls>>

\* The answer is read.
Reply ==
  LET c == link.to
      opened == client[c].call.cmd = "open" /\ client[c].call.answer = "ok"
      keeps == opened \/ client[c].call.cmd \in {"read", "write", "readdir"}
  IN  /\ server = "reply" /\ link.up /\ client[c].pc = "wait"
      /\ server' = "serve"
      /\ client' = [client EXCEPT ![c] =
                      IF keeps THEN [@ EXCEPT !.pc = "idle", !.call = NoCall, !.open = TRUE]
                      ELSE [@ EXCEPT !.pc = "hangup"]]
      /\ UNCHANGED <<tree, session, link, queue, copied, calls>>

\* The client has hung up on the answer: write_response ignores the error.
ReplyLost ==
  /\ server = "reply" /\ ~link.up
  /\ server' = "serve"
  /\ UNCHANGED <<tree, session, link, queue, client, copied, calls>>

\* The read of the next command finds the channel closed.
EndSession ==
  /\ server = "serve" /\ ~link.up
  /\ server' = "accept" /\ session' = NoFile
  /\ UNCHANGED <<tree, link, queue, client, copied, calls>>

FilesInit ==
  /\ tree = mkdir_path(EmptyTree, Front(TtyPath)).tree
  /\ server = "accept" /\ session = NoFile
  /\ link = [to |-> CHOOSE c \in Clients : TRUE, up |-> FALSE]
  /\ queue = <<>>
  /\ client = [c \in Clients |-> [pc |-> "idle", call |-> NoCall, open |-> FALSE]]
  /\ calls = 0 /\ copied = 0

Service == Accept \/ Serve \/ Reply \/ ReplyLost \/ EndSession

FilesNext == Service \/ \E c \in Clients : Program(c) \/ Hangup(c)

\* Every step of the service changes server and no other step does, so that
\* fairness of the service is fairness of this change.
ServiceReady ==
  LET pc == client[link.to].pc
  IN  \/ server = "accept" /\ queue # <<>>
      \/ server = "serve" /\ (~link.up \/ pc = "send")
      \/ server = "reply" /\ (~link.up \/ pc = "wait")

ServiceStep == ServiceReady /\ server' \in ServerStates

\* The scheduler is fair to every runnable thread (Scheduler's NoStarvation):
\* the service goes on while it can, a client finishes its call, and a
\* program does something next.
FilesSpec ==
  /\ FilesInit /\ [][FilesNext]_fileVars
  /\ WF_server(ServiceStep)
  /\ \A c \in Clients : WF_fileVars(Program(c)) /\ WF_fileVars(Hangup(c))

-----------------------------------------------------------------------------
(* Properties. *)

\* The variables have their types.
FilesTypeOK ==
  /\ server \in ServerStates
  /\ session.node \in Nodes \cup {NoNode, Tty.node} /\ session.offset \in 0..FileSize
  /\ link \in [to : Clients, up : BOOLEAN]
  /\ queue \in Seq(Clients) /\ Cardinality(ToSet(queue)) = Len(queue)
  /\ \A c \in Clients : client[c].pc \in {"idle", "connect", "send", "wait", "hangup", "exited"}
  /\ calls \in 0..MaxCalls
  /\ \A i \in Nodes : tree.kind[i] \in Kinds /\ tree.size[i] \in 0..FileSize

\* Whatever is made and removed, in whatever order and wherever mkdir stops
\* for want of nodes, the tree is sound until alloc_idx hands out a node that
\* is in use (ramfs.rs:41).
TreeSound == tree.again \/ Sound(tree)

\* The service stops only for a write of more than a message holds, a readdir
\* of the tty, or a ring among the siblings, which takes a node that was
\* handed out twice.
OnlyKnownDeaths ==
  /\ server = "hang" => tree.again
  /\ server = "panic" => client[link.to].call.cmd \in {"write", "readdir"}

\* The states in which nobody else is served any more: the service is gone,
\* or the client whose session it drives has exited with the file open or
\* waits itself for another session.
Stalled ==
  \/ server \in {"panic", "hang"}
  \/ server = "serve" /\ link.up /\ client[link.to].open /\ client[link.to].pc \in {"exited", "connect"}

\* Every call returns, or the service is stalled for good.
CallsReturn ==
  \A c \in Clients :
    client[c].pc \in {"connect", "send", "wait", "hangup"} ~>
      (client[c].pc \in {"idle", "exited"} \/ []Stalled)

\* A client that goes through a file that fits in one message sees every byte
\* in turn: the offset of the session is the number of bytes that it has read
\* or written.  In a longer file a read skips what its answer has no room for
\* (main.rs:56), although cat (cat.rs:40) reads on from there.
ShortFilesReadWhole ==
  session.node \in Nodes /\ tree.size[session.node] <= InlineMax => session.offset = copied
=============================================================================
