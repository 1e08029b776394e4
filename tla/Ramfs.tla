-------------------------------- MODULE Ramfs --------------------------------
(***************************************************************************)
(* The in-memory file tree of the file service (services/fileagent/src/    *)
(* ramfs.rs): parallel arrays of nodes, linked by first child, next        *)
(* sibling and parent, and an index allocator.                             *)
(*                                                                         *)
(* A tree is a record of the arrays.  A path is the sequence of its        *)
(* components.  File contents are left out, sizes are kept.                *)
(***************************************************************************)
EXTENDS Integers, Sequences, FiniteSets, SequencesExt, FiniteSetsExt

CONSTANTS
  MaxFiles,  \* MAX_FILES
  FileSize,  \* FILE_SIZE
  Names      \* names of files and directories

\* The number of children of a directory fits in a byte.
ASSUME RamfsAssumption == {MaxFiles, FileSize} \subseteq Nat \ {0} /\ MaxFiles <= 256

Nodes == 0..(MaxFiles - 1)

Root == 0

NoNode == -1

\* The walk over a list of siblings that has become a ring never ends.
Endless == -2

\* NTYPES: 0 for a node that is not in use.
Kinds == {"none", "file", "dir"}

\* init, before /dev is made.
EmptyTree ==
  [kind   |-> [i \in Nodes |-> IF i = Root THEN "dir" ELSE "none"],
   name   |-> [i \in Nodes |-> ""],
   size   |-> [i \in Nodes |-> 0],
   parent |-> [i \in Nodes |-> NoNode],
   first  |-> [i \in Nodes |-> NoNode],
   next   |-> [i \in Nodes |-> NoNode],
   count  |-> [i \in Nodes |-> 0],
   nextIdx |-> 1,
   again   |-> FALSE]   \* history: a node in use was handed out once more

\* The siblings from node i on, as far as a walk of MaxFiles + 1 nodes gets.
Siblings(t, i) ==
  LET walk[k \in 0..MaxFiles] ==
        IF k = 0 THEN <<i>>
        ELSE LET s == walk[k - 1] IN IF t.next[Last(s)] = NoNode THEN s ELSE Append(s, t.next[Last(s)])
  IN  IF i = NoNode THEN <<>> ELSE walk[MaxFiles]

IsRing(s) == Len(s) > MaxFiles

find_child(t, dir, nm) ==
  LET s == Siblings(t, t.first[dir])
      hits == {k \in DOMAIN s : t.name[s[k]] = nm}
  IN  IF hits # {} THEN s[Min(hits)] ELSE IF IsRing(s) THEN Endless ELSE NoNode

resolve(t, path) ==
  LET at[k \in 0..Len(path)] ==
        IF k = 0 THEN Root
        ELSE LET i == at[k - 1] IN IF i < 0 THEN i ELSE find_child(t, i, path[k])
  IN  at[Len(path)]

-----------------------------------------------------------------------------
(* Making and removing nodes. *)

Unused(t) == {i \in Nodes \ {Root} : t.kind[i] = "none"}

\* Once the counter has reached the end a free index is searched for, and the
\* counter goes on behind it: the next index is handed out without a look.
alloc_idx(t) ==
  IF t.nextIdx < MaxFiles THEN t.nextIdx
  ELSE IF Unused(t) # {} THEN Min(Unused(t)) ELSE NoNode

\* Mutant: the new node is not entered behind its siblings.
SetNodeFirst(t, nm, kind, dir) ==
  LET i == alloc_idx(t)
  IN  IF i = NoNode THEN t
      ELSE [t EXCEPT !.nextIdx = i + 1, !.again = @ \/ t.kind[i] # "none",
                     !.kind[i] = kind, !.name[i] = nm, !.size[i] = 0, !.parent[i] = dir, !.first = [@ EXCEPT ![i] = NoNode, ![dir] = i],
                     !.next[i] = NoNode, !.count[dir] = @ + 1]

\* A node's own entries in the arrays.
Reset(t, i, nm, kind, dir) ==
  [t EXCEPT !.nextIdx = i + 1, !.again = @ \/ t.kind[i] # "none",
            !.kind[i] = kind, !.name[i] = nm, !.size[i] = 0, !.parent[i] = dir,
            !.first[i] = NoNode, !.next[i] = NoNode, !.count[i] = 0]

\* The node i behind the last child of dir.
Hung(t, i, dir) ==
  LET linked == IF t.first[dir] = NoNode THEN [t EXCEPT !.first[dir] = i]
                ELSE [t EXCEPT !.next[Last(Siblings(t, t.first[dir]))] = i]
  IN  [linked EXCEPT !.count[dir] = (@ + 1) % 256]

\* set_node; the tree itself when there is no index left.  The list of the
\* directory is followed after the node's own links have been reset.
set_node(t, nm, kind, dir) ==
  LET i == alloc_idx(t)
  IN  IF i = NoNode THEN t ELSE Hung(Reset(t, i, nm, kind, dir), i, dir)

\* create_file and create_dir: no node below a file or under a name in use.
CanCreate(t, dir, nm) ==
  t.kind[dir] = "dir" /\ find_child(t, dir, nm) = NoNode /\ alloc_idx(t) # NoNode

\* mkdir_path makes the directories that are missing on the way; those stay
\* when a later one fails.
MkdirStep(m, nm) ==
  LET i == find_child(m.tree, m.at, nm)
      last == m.left = 1
      go == [m EXCEPT !.left = @ - 1]
  IN  IF m.result # "ok" THEN m
      ELSE CASE i = Endless                                -> [m EXCEPT !.result = "hang"]
             [] i \in Nodes /\ last                        -> [m EXCEPT !.result = "error"]
             [] i \in Nodes /\ ~last /\ m.tree.kind[i] # "dir" -> [m EXCEPT !.result = "error"]
             [] i \in Nodes /\ ~last /\ m.tree.kind[i] = "dir" -> [go EXCEPT !.at = i]
             [] i = NoNode /\ ~CanCreate(m.tree, m.at, nm) -> [m EXCEPT !.result = "error"]
             [] OTHER -> [go EXCEPT !.tree = set_node(m.tree, nm, "dir", m.at), !.at = alloc_idx(m.tree)]

mkdir_path(t, path) ==
  LET made[k \in 0..Len(path)] ==
        IF k = 0 THEN [tree |-> t, at |-> Root, left |-> Len(path), result |-> "ok"]
        ELSE LET m == made[k - 1] IN MkdirStep(m, path[k])
  IN  made[Len(path)]

\* The node of a new file at path, and the tree with it.
create_file_path(t, path) ==
  LET dir == IF path = <<>> THEN NoNode ELSE resolve(t, Front(path))
  IN  IF dir = Endless \/ (dir \in Nodes /\ find_child(t, dir, Last(path)) = Endless)
      THEN [tree |-> t, node |-> Endless]
      ELSE IF dir = NoNode \/ ~CanCreate(t, dir, Last(path)) THEN [tree |-> t, node |-> NoNode]
      ELSE [tree |-> set_node(t, Last(path), "file", dir), node |-> alloc_idx(t)]

\* Mutant: the predecessor goes on to point at the removed node.
DetachLoose(t, dir, i) ==
  [t EXCEPT !.first[dir] = IF @ = i THEN t.next[i] ELSE @, !.count[dir] = (@ + 255) % 256]

\* Node i, which is in the list of dir, is taken out of it.
Detached(t, dir, i) ==
  LET s == Siblings(t, t.first[dir])
      k == Min({j \in DOMAIN s : s[j] = i})
      out == IF k = 1 THEN [t EXCEPT !.first[dir] = t.next[i]]
             ELSE [t EXCEPT !.next[s[k - 1]] = t.next[i]]
  IN  [out EXCEPT !.count[dir] = (@ + 255) % 256]

\* The entries of a node that is not in use.
Cleared(t, i) ==
  [t EXCEPT !.kind[i] = "none", !.name[i] = "", !.size[i] = 0, !.parent[i] = NoNode,
            !.first[i] = NoNode, !.next[i] = NoNode, !.count[i] = 0]

remove(t, dir, i) ==
  LET s == Siblings(t, t.first[dir])
  IN  IF t.kind[i] = "dir" /\ t.count[i] > 0 THEN [tree |-> t, result |-> "error"]
      ELSE IF t.kind[i] = "none" THEN [tree |-> t, result |-> "error"]
      ELSE IF i \in ToSet(s) THEN [tree |-> Cleared(Detached(t, dir, i), i), result |-> "ok"]
      ELSE [tree |-> t, result |-> IF IsRing(s) THEN "hang" ELSE "error"]

-----------------------------------------------------------------------------
(* Contents. *)

\* The bytes that read finds from offset on, at most n.
Readable(t, i, offset, n) == Min({n, t.size[i] - offset})

\* Mutant: the end of the file's array is not looked at.
WriteAll(offset, n) == n

\* The bytes that write takes.
Writable(offset, n) == Min({n, FileSize - offset})

Grown(t, i, end) == [t EXCEPT !.size[i] = IF end > @ THEN end ELSE @]

-----------------------------------------------------------------------------
(* What makes a tree sound. *)

InUse(t) == {i \in Nodes : t.kind[i] # "none"}

ChildrenOf(t, i) == {j \in InUse(t) \ {Root} : t.parent[j] = i}

\* Every node in use is in the list of its directory, once, and the lists hold
\* nothing else; directories count their children and no two of those have the
\* same name; every node leads up to the root.
Sound(t) ==
  \A i \in InUse(t) :
    LET s == Siblings(t, t.first[i])
    IN  /\ ~IsRing(s)
        /\ ToSet(s) = ChildrenOf(t, i) /\ Cardinality(ToSet(s)) = Len(s)
        /\ t.count[i] = Len(s)
        /\ \A j, k \in ToSet(s) : t.name[j] = t.name[k] => j = k
        /\ s # <<>> => t.kind[i] = "dir"
        /\ i # Root => t.parent[i] \in InUse(t) \ {i}
=============================================================================
