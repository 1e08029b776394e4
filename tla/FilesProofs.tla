----------------------------- MODULE FilesProofs -----------------------------
(***************************************************************************)
(* For any size of the tree, any paths and any number of programs: the     *)
(* file tree stays sound until alloc_idx hands out a node that is in use,  *)
(* the service dies of nothing else than what OnlyKnownDeaths names, and   *)
(* files that fit in a message are read whole.                             *)
(***************************************************************************)
EXTENDS Files, NumberFacts, FiniteSetTheorems, TLAPS

(* The inductive invariant of the tree.  Lists of siblings are sequences   *)
(* that a witness gives, so that no walk has to be followed to state it.   *)

Links == Nodes \cup {NoNode}

Trees ==
  [kind : [Nodes -> Kinds], name : [Nodes -> Names \cup {""}], size : [Nodes -> 0..FileSize],
   parent : [Nodes -> Links], first : [Nodes -> Links], next : [Nodes -> Links],
   count : [Nodes -> 0..255], nextIdx : 1..MaxFiles, again : BOOLEAN]

\* The root is never removed.
Typed(t) == t \in Trees /\ t.kind[Root] = "dir"

\* s is the list that starts at node i, which may be none.
IsList(t, i, s) ==
  /\ s \in Seq(Nodes)
  /\ s = <<>> => i = NoNode
  /\ s # <<>> => s[1] = i /\ t.next[s[Len(s)]] = NoNode
  /\ \A k \in 1..(Len(s) - 1) : t.next[s[k]] = s[k + 1]

\* s lists the children of node d, under different names.
IsChildList(t, d, s) ==
  /\ IsList(t, t.first[d], s)
  /\ \A k \in 1..Len(s) : s[k] \in ChildrenOf(t, d)
  /\ \A j \in ChildrenOf(t, d) : \E k \in 1..Len(s) : s[k] = j
  /\ \A j, k \in 1..Len(s) : t.name[s[j]] = t.name[s[k]] => j = k
  /\ t.count[d] = Len(s)
  /\ s # <<>> => t.kind[d] = "dir"

Listed(t) ==
  /\ \A d \in InUse(t) : \E s : IsChildList(t, d, s)
  /\ \A i \in InUse(t) \ {Root} : t.parent[i] \in InUse(t) \ {i}

TreeInv(t) == Typed(t) /\ (t.again \/ Listed(t))

(* The inductive invariant of service and clients. *)

Calls == {NoCall} \cup OpenCalls \cup PathCalls \cup FileCalls

Answers ==
  [cmd : {"open", "mkdir", "rmdir", "unlink", "stat", "read", "write", "readdir", "close"},
   answer : {"ok", "error", "hang"}]

ClientType ==
  [pc : {"idle", "connect", "send", "wait", "hangup", "exited"}, call : Calls \cup Answers,
   open : BOOLEAN]

FileType == {NoFile, Tty} \cup [node : Nodes, offset : 0..FileSize]

FilesTypes ==
  /\ server \in ServerStates /\ session \in FileType
  /\ link \in [to : Clients, up : BOOLEAN]
  /\ queue \in Seq(Clients)
  /\ client \in [Clients -> ClientType]
  /\ calls \in 0..MaxCalls /\ copied \in Int

\* The clients in the queue, and where their calls stand.
Queued ==
  /\ \A j, k \in 1..Len(queue) : queue[j] = queue[k] => j = k
  /\ \A c \in Clients : client[c].pc = "connect" <=> \E k \in 1..Len(queue) : queue[k] = c
  /\ \A c \in Clients : client[c].pc = "connect" => client[c].call \in OpenCalls \cup PathCalls

\* The session is that of the one client that is in a call or has a file open.
OneSession ==
  /\ server = "accept" => ~link.up
  /\ \A c \in Clients : client[c].open \/ client[c].pc \in {"send", "wait", "hangup"} =>
                          link.up /\ link.to = c

\* What the client of the session may be doing, and what it has open.
InSession ==
  LET c == client[link.to]
  IN  /\ c.open /\ c.pc = "send" => c.call \in FileCalls
      /\ c.open /\ c.pc = "wait" => c.call.cmd \in {"read", "write", "readdir"}
      /\ c.open /\ c.pc # "hangup" => session # NoFile
      /\ ~c.open /\ c.pc = "send" => c.call \in OpenCalls \cup PathCalls /\ session = NoFile
      /\ ~c.open /\ c.pc = "wait" => c.call.cmd \in {"open", "mkdir", "rmdir", "unlink", "stat"}
      /\ ~c.open /\ c.pc = "wait" /\ server = "reply" /\ c.call.cmd = "open" /\ c.call.answer = "ok" =>
           session # NoFile
      /\ server = "panic" => c.pc = "wait"

FilesInv ==
  /\ TreeInv(tree) /\ FilesTypes /\ Queued /\ OneSession /\ InSession
  /\ OnlyKnownDeaths /\ ShortFilesReadWhole

-----------------------------------------------------------------------------
(* Lists of siblings. *)

\* The sizes of the arrays.
LEMMA NodeFacts ==
  /\ MaxFiles \in Nat \ {0} /\ MaxFiles <= 256 /\ FileSize \in Nat \ {0}
  /\ Root \in Nodes /\ NoNode \notin Nodes /\ Endless \notin Nodes /\ NoNode # Endless
  /\ Nodes \subseteq Nat /\ \A i \in Nodes : i < MaxFiles
  BY RamfsAssumption DEF Nodes, Root, NoNode, Endless

\* The arrays of a tree.
LEMMA TypedFacts ==
  ASSUME NEW t, Typed(t)
  PROVE  /\ t.kind \in [Nodes -> Kinds] /\ t.name \in [Nodes -> Names \cup {""}]
         /\ t.size \in [Nodes -> 0..FileSize] /\ t.parent \in [Nodes -> Links]
         /\ t.first \in [Nodes -> Links] /\ t.next \in [Nodes -> Links]
         /\ t.count \in [Nodes -> 0..255] /\ t.nextIdx \in 1..MaxFiles /\ t.again \in BOOLEAN
         /\ t.kind[Root] = "dir"
  BY DEF Typed, Trees

\* One step of the walk of Siblings.
Further(t, s) == IF t.next[Last(s)] = NoNode THEN s ELSE Append(s, t.next[Last(s)])

IsWalk(t, i, g) ==
  /\ g \in [0..MaxFiles -> Seq(Nodes) \ {<<>>}] /\ g[0] = <<i>>
  /\ \A k \in 1..MaxFiles : g[k] = Further(t, g[k - 1])

\* A step adds a node.
LEMMA FurtherIs ==
  ASSUME NEW t, Typed(t), NEW s \in Seq(Nodes) \ {<<>>}
  PROVE  Further(t, s) \in Seq(Nodes) \ {<<>>}
<1>1. Len(s) \in Nat \ {0} /\ s[Len(s)] \in Nodes
  OBVIOUS
<1>2. t.next[s[Len(s)]] \in Links
  BY <1>1, TypedFacts
<1>3. CASE t.next[s[Len(s)]] = NoNode
  BY <1>3 DEF Further, Last
<1>4. CASE t.next[s[Len(s)]] # NoNode
  <2>1. PICK i \in Nodes : i = t.next[s[Len(s)]]
    BY <1>2, <1>4 DEF Links
  <2>2. Further(t, s) = Append(s, i)
    BY <2>1, <1>4 DEF Further, Last
  <2>3. Append(s, i) \in Seq(Nodes) /\ Len(Append(s, i)) = Len(s) + 1
    OBVIOUS
  <2>4. Append(s, i) # <<>>
    BY <2>3, <1>1
  <2> QED BY <2>2, <2>3, <2>4
<1> QED BY <1>3, <1>4

\* Siblings is what the walk has after MaxFiles steps.
LEMMA SiblingsWalk ==
  ASSUME NEW t, Typed(t), NEW i \in Nodes
  PROVE  \E g : IsWalk(t, i, g) /\ Siblings(t, i) = g[MaxFiles]
<1> DEFINE n == MaxFiles
           X == Seq(Nodes) \ {<<>>}
           def(f) == [k \in 0..n |-> IF k = 0 THEN <<i>>
                        ELSE LET s == f[k - 1]
                             IN IF t.next[Last(s)] = NoNode THEN s ELSE Append(s, t.next[Last(s)])]
           step == [k \in 1..n |-> [x \in X |-> Further(t, x)]]
<1>1. n \in Nat
  BY NodeFacts
<1>2. \A x \in X : Further(t, x) \in X
  BY FurtherIs
<1>3. <<i>> \in X
  <2>1. <<i>> \in Seq(Nodes) /\ Len(<<i>>) = 1
    OBVIOUS
  <2> QED BY <2>1
<1>4. AreSteps(step, n, X)
  <2> HIDE DEF n, X
  <2> QED BY <1>2 DEF AreSteps
<1>5. PICK f : IsRun(f, n, X, <<i>>, step)
  <2> HIDE DEF step, n, X
  <2> QED BY <1>1, <1>3, <1>4, StepsExist
<1>6. f = def(f)
  <2> HIDE DEF n, X
  <2>1. ASSUME NEW k \in 0..n
        PROVE  f[k] = IF k = 0 THEN <<i>> ELSE Further(t, f[k - 1])
    <3>1. CASE k = 0
      BY <3>1, <1>5 DEF IsRun
    <3>2. CASE k # 0
      <4>1. k \in 1..n /\ k - 1 \in 0..n
        BY <3>2, <1>1
      <4>2. f[k - 1] \in X
        BY <4>1, <1>5 DEF IsRun
      <4>3. f[k] = step[k][f[k - 1]]
        BY <4>1, <1>5 DEF IsRun
      <4> QED BY <4>1, <4>2, <4>3, <3>2
    <3> QED BY <3>1, <3>2
  <2> QED BY <2>1, <1>5, Zenon DEF IsRun, Further
<1>7. PICK g : g = CHOOSE h : h = def(h)
  OBVIOUS
<1>8. g = def(g)
  BY <1>6, <1>7
<1>9. Siblings(t, i) = g[n]
  BY <1>7, NodeFacts DEF Siblings
<1>10. \A k \in 0..n : g[k] = IF k = 0 THEN <<i>> ELSE Further(t, g[k - 1])
  <2> HIDE DEF n
  <2> QED BY <1>8, Zenon DEF Further
<1> DEFINE S == {k \in 0..n : g[k] \in X}
<1>11. 0 \in S
  <2> HIDE DEF X, n
  <2> QED BY <1>1, <1>3, <1>10
<1>12. ASSUME NEW k \in 1..n, k - 1 \in S
       PROVE  k \in S
  <2>1. PICK x \in X : x = g[k - 1]
    BY <1>12
  <2> HIDE DEF X, n
  <2>2. g[k] = Further(t, x) /\ k \in 0..n
    BY <1>1, <1>10, <2>1
  <2> QED BY <1>2, <2>1, <2>2
<1>13. \A k \in 0..n : k \in S
  <2> HIDE DEF S, n
  <2> QED BY <1>1, <1>11, <1>12, UpTo
<1>14. DOMAIN g = 0..n /\ g = [k \in 0..n |-> g[k]]
  BY <1>8, Zenon
<1>15. g \in [0..n -> X]
  <2> HIDE DEF X, n
  <2> QED BY <1>13, <1>14
<1>16. IsWalk(t, i, g)
  <2>1. g[0] = <<i>> /\ \A k \in 1..n : g[k] = Further(t, g[k - 1])
    <3> HIDE DEF n
    <3> QED BY <1>1, <1>10
  <2> QED BY <2>1, <1>15 DEF IsWalk
<1> QED BY <1>9, <1>16

\* The nodes of a walk.
LEMMA SiblingsType ==
  ASSUME NEW t, Typed(t), NEW i \in Links
  PROVE  /\ Siblings(t, i) \in Seq(Nodes)
         /\ i \in Nodes => Siblings(t, i) # <<>>
<1>1. CASE i = NoNode
  BY <1>1, NodeFacts DEF Siblings
<1>2. CASE i \in Nodes
  <2>1. PICK g : IsWalk(t, i, g) /\ Siblings(t, i) = g[MaxFiles]
    BY <1>2, SiblingsWalk
  <2>2. MaxFiles \in 0..MaxFiles
    BY NodeFacts
  <2> QED BY <2>1, <2>2 DEF IsWalk
<1> QED BY <1>1, <1>2 DEF Links

\* A walk along a list that ends finds the list.
LEMMA SiblingsAre ==
  ASSUME NEW t, Typed(t), NEW i \in Links, NEW s, IsList(t, i, s), Len(s) <= MaxFiles
  PROVE  Siblings(t, i) = s /\ ~IsRing(s)
<1>0. Len(s) \in Nat /\ MaxFiles \in Nat /\ s \in Seq(Nodes)
  BY NodeFacts DEF IsList
<1>1. CASE s = <<>>
  BY <1>0, <1>1 DEF IsList, Siblings, IsRing
<1>2. CASE s # <<>>
  <2> DEFINE n == Len(s)
             Reach(k) == IF k + 1 <= n THEN k + 1 ELSE n
  <2>1. n \in Nat \ {0} /\ s[1] = i /\ i \in Nodes
    <3>1. s[1] = i /\ n # 0
      BY <1>0, <1>2 DEF IsList
    <3> QED BY <1>0, <3>1
  <2>2. PICK g : IsWalk(t, i, g) /\ Siblings(t, i) = g[MaxFiles]
    BY <2>1, SiblingsWalk
  <2> DEFINE Good(k) == Len(g[k]) = Reach(k) /\ \A j \in 1..Reach(k) : g[k][j] = s[j]
             G == {k \in 0..MaxFiles : Good(k)}
  <2>3. 0 \in G
    <3>1. g[0] = <<i>> /\ Reach(0) = 1
      BY <2>1, <2>2 DEF IsWalk
    <3>2. Len(<<i>>) = 1 /\ <<i>>[1] = i
      OBVIOUS
    <3>3. Good(0)
      <4> HIDE DEF Reach
      <4> QED BY <3>1, <3>2, <2>1
    <3> QED BY <3>3, <1>0
  <2>4. ASSUME NEW k \in 1..MaxFiles, k - 1 \in G
        PROVE  k \in G
    <3>1. PICK x : x = g[k - 1]
      OBVIOUS
    <3>2. x \in Seq(Nodes) /\ Len(x) = Reach(k - 1) /\ \A j \in 1..Reach(k - 1) : x[j] = s[j]
      BY <2>2, <2>4, <3>1 DEF IsWalk
    <3>3. g[k] = Further(t, x)
      BY <2>2, <3>1 DEF IsWalk
    <3>4. Reach(k - 1) \in 1..n /\ k \in Nat \ {0}
      BY <2>1
    <3>5. PICK y : y = s[Reach(k - 1)]
      OBVIOUS
    <3>6. x[Len(x)] = y
      BY <3>2, <3>4, <3>5
    <3>7. CASE k + 1 <= n
      <4>1. Reach(k - 1) = k /\ Reach(k) = k + 1 /\ k \in 1..(n - 1)
        BY <3>4, <3>7, <2>1
      <4>2. t.next[y] = s[k + 1] /\ s[k + 1] \in Nodes
        BY <4>1, <3>5, <1>0, <3>7 DEF IsList
      <4>3. g[k] = Append(x, s[k + 1])
        BY <3>3, <3>6, <4>2, NodeFacts DEF Further, Last
      <4>4. Len(g[k]) = k + 1 /\ \A j \in 1..(k + 1) : g[k][j] = s[j]
        <5> HIDE DEF Reach
        <5> QED BY <4>1, <4>2, <4>3, <3>2, <3>4
      <4> QED BY <4>1, <4>4
    <3>8. CASE ~(k + 1 <= n)
      <4>1. Reach(k - 1) = n /\ Reach(k) = n
        BY <3>4, <3>8, <2>1
      <4>2. t.next[y] = NoNode
        BY <4>1, <3>5, <1>2 DEF IsList
      <4>3. g[k] = x
        BY <3>3, <3>6, <4>2 DEF Further, Last
      <4> QED BY <4>1, <4>3, <3>2
    <3> QED BY <3>7, <3>8
  <2>5. MaxFiles \in G
    <3> HIDE DEF G
    <3>1. \A k \in 0..MaxFiles : k \in G
      BY <1>0, <2>3, <2>4, UpTo
    <3> QED BY <1>0, <3>1
  <2>6. g[MaxFiles] \in Seq(Nodes)
    BY <2>2, <1>0 DEF IsWalk
  <2>7. Reach(MaxFiles) = n
    BY <1>0, <2>1
  <2>8. PICK z : z = g[MaxFiles]
    OBVIOUS
  <2>9. z \in Seq(Nodes) /\ Len(z) = Len(s) /\ \A j \in 1..Len(s) : z[j] = s[j]
    BY <2>5, <2>6, <2>7, <2>8
  <2>10. z = s
    BY <2>9, <1>0
  <2> QED BY <2>2, <2>8, <2>10, <1>0 DEF IsRing
<1> QED BY <1>1, <1>2

\* Different nodes below the root are fewer than MaxFiles.
LEMMA ShortList ==
  ASSUME NEW s \in Seq(Nodes), \A k \in 1..Len(s) : s[k] # Root,
         \A j, k \in 1..Len(s) : s[j] = s[k] => j = k
  PROVE  Len(s) \in 0..(MaxFiles - 1)
<1>1. Len(s) \in Nat /\ MaxFiles \in Nat \ {0}
  BY NodeFacts
<1>2. ASSUME Len(s) >= MaxFiles
      PROVE  FALSE
  <2> DEFINE S == 1..Len(s)
             T == 1..(MaxFiles - 1)
             f == [k \in S |-> s[k]]
  <2>1. IsFiniteSet(S) /\ Cardinality(S) = Len(s)
    BY <1>1, <1>2, FS_Interval
  <2>2. IsFiniteSet(T) /\ Cardinality(T) = MaxFiles - 1
    BY <1>1, FS_Interval, SMTT(30)
  <2>3. f \in [S -> T]
    <3>1. ASSUME NEW k \in S
          PROVE  s[k] \in T
      <4>1. s[k] \in Nodes /\ s[k] # Root
        OBVIOUS
      <4> QED BY <4>1, <1>1 DEF Nodes, Root
    <3> QED BY <3>1
  <2>4. Cardinality(T) < Cardinality(S)
    BY <1>1, <1>2, <2>1, <2>2
  <2> HIDE DEF f, S, T
  <2>5. PICK x \in S, y \in S : x # y /\ f[x] = f[y]
    BY <2>1, <2>2, <2>3, <2>4, FS_PigeonHole
  <2> QED BY <2>5 DEF f, S
<1> QED BY <1>1, <1>2

\* A list of children is no ring, and the walk finds it.
LEMMA ChildListFacts ==
  ASSUME NEW t, Typed(t), NEW d \in Nodes, NEW s, IsChildList(t, d, s)
  PROVE  /\ s \in Seq(Nodes) /\ Len(s) \in 0..(MaxFiles - 1)
         /\ \A k \in 1..Len(s) : s[k] \in InUse(t) \ {Root} /\ t.parent[s[k]] = d
         /\ \A j, k \in 1..Len(s) : s[j] = s[k] => j = k
         /\ Siblings(t, t.first[d]) = s /\ ~IsRing(s)
<1>1. s \in Seq(Nodes) /\ Len(s) \in Nat
  BY DEF IsChildList, IsList
<1>2. \A k \in 1..Len(s) : s[k] \in InUse(t) \ {Root} /\ t.parent[s[k]] = d
  BY DEF IsChildList, ChildrenOf
<1>3. \A j, k \in 1..Len(s) : s[j] = s[k] => j = k
  BY DEF IsChildList
<1>4. Len(s) \in 0..(MaxFiles - 1)
  BY <1>1, <1>2, <1>3, ShortList
<1>5. t.first[d] \in Links /\ Len(s) <= MaxFiles
  <2>1. t.first[d] \in Links
    BY TypedFacts
  <2>2. MaxFiles \in Nat
    BY NodeFacts
  <2> QED BY <2>1, <2>2, <1>4
<1>6. Siblings(t, t.first[d]) = s /\ ~IsRing(s)
  BY <1>5, SiblingsAre DEF IsChildList
<1> QED BY <1>1, <1>2, <1>3, <1>4, <1>6

\* What find_child can answer.
LEMMA FoundType ==
  ASSUME NEW t, Typed(t), NEW d \in Nodes, NEW nm
  PROVE  find_child(t, d, nm) \in Nodes \cup {NoNode, Endless}
<1>1. PICK s : s = Siblings(t, t.first[d])
  OBVIOUS
<1>2. s \in Seq(Nodes)
  BY <1>1, SiblingsType, TypedFacts
<1> DEFINE hits == {k \in DOMAIN s : t.name[s[k]] = nm}
<1>3. hits \in SUBSET Nat /\ \A k \in hits : s[k] \in Nodes
  BY <1>2
<1>4. hits # {} => Min(hits) \in hits
  <2> HIDE DEF hits
  <2> QED BY <1>3, LeastNumber
<1>5. find_child(t, d, nm) = IF hits # {} THEN s[Min(hits)] ELSE IF IsRing(s) THEN Endless ELSE NoNode
  BY <1>1, Zenon DEF find_child
<1> HIDE DEF hits
<1> QED BY <1>3, <1>4, <1>5

\* In a sound tree find_child finds the child of that name, if there is one.
LEMMA FoundListed ==
  ASSUME NEW t, Typed(t), Listed(t), NEW d \in InUse(t), NEW nm, NEW i, i = find_child(t, d, nm)
  PROVE  /\ i \in ChildrenOf(t, d) \cup {NoNode}
         /\ i = NoNode => \A j \in ChildrenOf(t, d) : t.name[j] # nm
<1>1. d \in Nodes
  BY DEF InUse
<1>2. PICK s : IsChildList(t, d, s)
  BY DEF Listed
<1>3. /\ s \in Seq(Nodes) /\ Siblings(t, t.first[d]) = s /\ ~IsRing(s)
      /\ DOMAIN s = 1..Len(s)
  BY <1>1, <1>2, ChildListFacts
<1>4. /\ \A k \in DOMAIN s : s[k] \in ChildrenOf(t, d) /\ s[k] \in Nodes
      /\ \A j \in ChildrenOf(t, d) : \E k \in DOMAIN s : s[k] = j
  BY <1>2, <1>3 DEF IsChildList
<1> DEFINE hits == {k \in DOMAIN s : t.name[s[k]] = nm}
<1>5. hits \in SUBSET Nat
  BY <1>3
<1>6. hits # {} => Min(hits) \in hits
  <2> HIDE DEF hits
  <2> QED BY <1>5, LeastNumber
<1>7. i = IF hits # {} THEN s[Min(hits)] ELSE NoNode
  BY <1>3, Zenon DEF find_child
<1>8. CASE hits # {}
  BY <1>4, <1>6, <1>7, <1>8, NodeFacts
<1>9. CASE hits = {}
  BY <1>4, <1>7, <1>9
<1> QED BY <1>8, <1>9

\* Where a search may get to: in a sound tree, not into a ring.
Spots(t) == IF Listed(t) THEN InUse(t) \cup {NoNode} ELSE Nodes \cup {NoNode, Endless}

\* From one directory to the next.
LEMMA FoundSpot ==
  ASSUME NEW t, Typed(t), NEW d \in Spots(t), d >= 0, NEW nm
  PROVE  find_child(t, d, nm) \in Spots(t) /\ d \in Nodes
<1>1. d \in Nodes
  BY DEF Spots, InUse, NoNode, Endless
<1>2. CASE Listed(t)
  <2>1. d \in InUse(t)
    BY <1>2 DEF Spots, NoNode
  <2>2. find_child(t, d, nm) \in ChildrenOf(t, d) \cup {NoNode}
    BY <1>2, <2>1, FoundListed
  <2> QED BY <1>1, <1>2, <2>2 DEF Spots, ChildrenOf
<1>3. CASE ~Listed(t)
  BY <1>1, <1>3, FoundType DEF Spots
<1> QED BY <1>2, <1>3

\* What resolve can answer.
LEMMA Resolved ==
  ASSUME NEW t, Typed(t), NEW path \in Seq(Names)
  PROVE  resolve(t, path) \in Spots(t)
<1> DEFINE n == Len(path)
           X == Spots(t)
           Go(i, k) == IF i < 0 THEN i ELSE find_child(t, i, path[k])
           def(f) == [k \in 0..n |-> IF k = 0 THEN Root
                        ELSE LET i == f[k - 1]
                             IN IF i < 0 THEN i ELSE find_child(t, i, path[k])]
           step == [k \in 1..n |-> [x \in X |-> Go(x, k)]]
<1>1. n \in Nat
  OBVIOUS
<1>2. ASSUME NEW k \in 1..n, NEW x \in X
      PROVE  Go(x, k) \in X
  <2>1. x \in Int
    BY NodeFacts DEF Spots, InUse, NoNode, Endless
  <2>2. CASE x < 0
    BY <2>2
  <2>3. CASE ~(x < 0)
    <3>1. x >= 0
      BY <2>1, <2>3
    <3> QED BY <2>3, <3>1, FoundSpot
  <2> QED BY <2>2, <2>3
<1>3. Root \in X
  BY NodeFacts, TypedFacts DEF Spots, InUse
<1>4. AreSteps(step, n, X)
  <2> HIDE DEF n, X, Go
  <2> QED BY <1>2 DEF AreSteps
<1>5. PICK f : IsRun(f, n, X, Root, step)
  <2> HIDE DEF step, n, X
  <2> QED BY <1>1, <1>3, <1>4, StepsExist
<1>6. f = def(f)
  <2> HIDE DEF n, X
  <2>1. ASSUME NEW k \in 0..n
        PROVE  f[k] = IF k = 0 THEN Root ELSE Go(f[k - 1], k)
    <3> HIDE DEF Go
    <3>1. CASE k = 0
      BY <3>1, <1>5 DEF IsRun
    <3>2. CASE k # 0
      <4>1. k \in 1..n /\ k - 1 \in 0..n
        BY <3>2, <1>1
      <4>2. f[k - 1] \in X
        BY <4>1, <1>5 DEF IsRun
      <4>3. f[k] = step[k][f[k - 1]]
        BY <4>1, <1>5 DEF IsRun
      <4> QED BY <4>1, <4>2, <4>3, <3>2
    <3> QED BY <3>1, <3>2
  <2> QED BY <2>1, <1>5, Zenon DEF IsRun
<1>7. PICK g : g = CHOOSE h : h = def(h)
  OBVIOUS
<1>8. g = def(g)
  BY <1>6, <1>7
<1>9. resolve(t, path) = g[n]
  BY <1>7 DEF resolve
<1>10. \A k \in 0..n : g[k] = IF k = 0 THEN Root ELSE Go(g[k - 1], k)
  <2> HIDE DEF n
  <2> QED BY <1>8, Zenon
<1> DEFINE S == {k \in 0..n : g[k] \in X}
<1>11. 0 \in S
  <2> HIDE DEF X, n, Go
  <2> QED BY <1>1, <1>3, <1>10
<1>12. ASSUME NEW k \in 1..n, k - 1 \in S
       PROVE  k \in S
  <2>1. PICK x \in X : x = g[k - 1]
    BY <1>12
  <2> HIDE DEF X, n, Go
  <2>2. g[k] = Go(x, k) /\ k \in 0..n
    BY <1>1, <1>10, <2>1
  <2> QED BY <1>2, <2>1, <2>2
<1>13. n \in S
  <2>1. \A k \in 0..n : k \in S
    <3> HIDE DEF S, n
    <3> QED BY <1>1, <1>11, <1>12, UpTo
  <2> HIDE DEF S
  <2> QED BY <1>1, <2>1
<1> QED BY <1>9, <1>13

-----------------------------------------------------------------------------
(* Making nodes. *)

\* The root's index is never handed out.
LEMMA IndexDrawn ==
  ASSUME NEW t, Typed(t)
  PROVE  alloc_idx(t) \in (Nodes \ {Root}) \cup {NoNode}
<1>1. t.nextIdx \in 1..MaxFiles /\ MaxFiles \in Nat
  BY TypedFacts, NodeFacts
<1>2. CASE t.nextIdx < MaxFiles
  <2>1. t.nextIdx \in Nodes \ {Root}
    BY <1>1, <1>2 DEF Nodes, Root
  <2> QED BY <1>2, <2>1 DEF alloc_idx
<1>3. CASE ~(t.nextIdx < MaxFiles)
  <2>1. Unused(t) \in SUBSET Nat
    BY NodeFacts DEF Unused
  <2>2. Unused(t) # {} => Min(Unused(t)) \in Unused(t)
    BY <2>1, LeastNumber
  <2> QED BY <1>3, <2>2 DEF alloc_idx, Unused
<1> QED BY <1>2, <1>3

\* Reset, array by array.
IsReset(t, u, i, nm, kind, dir) ==
  /\ Typed(u)
  /\ u.again = (t.again \/ t.kind[i] # "none")
  /\ u.kind = [t.kind EXCEPT ![i] = kind] /\ u.name = [t.name EXCEPT ![i] = nm]
  /\ u.size = [t.size EXCEPT ![i] = 0] /\ u.parent = [t.parent EXCEPT ![i] = dir]
  /\ u.first = [t.first EXCEPT ![i] = NoNode] /\ u.next = [t.next EXCEPT ![i] = NoNode]
  /\ u.count = [t.count EXCEPT ![i] = 0]

LEMMA ResetIs ==
  ASSUME NEW t, Typed(t), NEW i \in Nodes \ {Root}, NEW nm \in Names, NEW kind \in {"file", "dir"},
         NEW dir \in Nodes
  PROVE  IsReset(t, Reset(t, i, nm, kind, dir), i, nm, kind, dir)
<1> DEFINE F == {"kind", "name", "size", "parent", "first", "next", "count", "nextIdx", "again"}
<1>1. PICK u : u = Reset(t, i, nm, kind, dir)
  OBVIOUS
<1>2. DOMAIN t = F
  BY DEF Typed, Trees
<1>3. u = [f \in F |-> u[f]]
  BY <1>1, <1>2, ZenonT(30) DEF Reset
<1>4. /\ u.kind = [t.kind EXCEPT ![i] = kind] /\ u.name = [t.name EXCEPT ![i] = nm]
      /\ u.size = [t.size EXCEPT ![i] = 0]
  BY <1>1, <1>2 DEF Reset
<1>5. /\ u.parent = [t.parent EXCEPT ![i] = dir] /\ u.first = [t.first EXCEPT ![i] = NoNode]
      /\ u.next = [t.next EXCEPT ![i] = NoNode]
  BY <1>1, <1>2 DEF Reset
<1>6. u.count = [t.count EXCEPT ![i] = 0] /\ u.nextIdx = i + 1
  BY <1>1, <1>2 DEF Reset
<1>7. u.again = (t.again \/ t.kind[i] # "none")
  BY <1>1, <1>2 DEF Reset
<1>8. u.kind \in [Nodes -> Kinds] /\ u.name \in [Nodes -> Names \cup {""}]
  <2>1. [t.kind EXCEPT ![i] = kind] \in [Nodes -> Kinds]
    BY TypedFacts DEF Kinds
  <2>2. [t.name EXCEPT ![i] = nm] \in [Nodes -> Names \cup {""}]
    BY TypedFacts
  <2> QED BY <2>1, <2>2, <1>4
<1>9. u.size \in [Nodes -> 0..FileSize]
  <2>1. 0 \in 0..FileSize
    BY NodeFacts
  <2>2. [t.size EXCEPT ![i] = 0] \in [Nodes -> 0..FileSize]
    BY <2>1, TypedFacts
  <2> QED BY <2>2, <1>4
<1>10. u.parent \in [Nodes -> Links] /\ u.first \in [Nodes -> Links] /\ u.next \in [Nodes -> Links]
  <2>1. /\ [t.parent EXCEPT ![i] = dir] \in [Nodes -> Links]
        /\ [t.first EXCEPT ![i] = NoNode] \in [Nodes -> Links]
        /\ [t.next EXCEPT ![i] = NoNode] \in [Nodes -> Links]
    BY TypedFacts DEF Links
  <2> QED BY <2>1, <1>5
<1>11. u.count \in [Nodes -> 0..255]
  <2>1. 0 \in 0..255
    OBVIOUS
  <2>2. [t.count EXCEPT ![i] = 0] \in [Nodes -> 0..255]
    BY <2>1, TypedFacts
  <2> QED BY <2>2, <1>6
<1>12. u.nextIdx \in 1..MaxFiles
  <2>1. i \in 0..(MaxFiles - 1) /\ MaxFiles \in Nat
    BY NodeFacts DEF Nodes
  <2> QED BY <2>1, <1>6
<1>13. u.again \in BOOLEAN
  BY <1>7
<1>14. u = [kind |-> u.kind, name |-> u.name, size |-> u.size, parent |-> u.parent,
            first |-> u.first, next |-> u.next, count |-> u.count, nextIdx |-> u.nextIdx,
            again |-> u.again]
  BY <1>3
<1>15. u \in Trees
  BY <1>8, <1>9, <1>10, <1>11, <1>12, <1>13, <1>14 DEF Trees
<1>16. u.kind[Root] = "dir"
  <2>1. [t.kind EXCEPT ![i] = kind][Root] = "dir"
    BY TypedFacts, NodeFacts
  <2> QED BY <2>1, <1>4
<1> QED BY <1>1, <1>4, <1>5, <1>6, <1>7, <1>15, <1>16 DEF IsReset, Typed

\* Hung, array by array; l is the last sibling, if there is one.
IsHung(u, v, i, dir) ==
  LET l == Last(Siblings(u, u.first[dir]))
  IN  /\ Typed(v)
      /\ v.again = u.again /\ v.kind = u.kind /\ v.name = u.name /\ v.size = u.size
      /\ v.parent = u.parent
      /\ v.count = [u.count EXCEPT ![dir] = (u.count[dir] + 1) % 256]
      /\ u.first[dir] = NoNode => v.first = [u.first EXCEPT ![dir] = i] /\ v.next = u.next
      /\ u.first[dir] # NoNode => v.first = u.first /\ v.next = [u.next EXCEPT ![l] = i]

LEMMA HungIs ==
  ASSUME NEW u, Typed(u), NEW i \in Nodes, NEW dir \in Nodes
  PROVE  IsHung(u, Hung(u, i, dir), i, dir)
<1>1. PICK v, l : v = Hung(u, i, dir) /\ l = Last(Siblings(u, u.first[dir]))
  OBVIOUS
<1>2. u \in Trees
  BY DEF Typed
<1>3. u = [kind |-> u.kind, name |-> u.name, size |-> u.size, parent |-> u.parent,
           first |-> u.first, next |-> u.next, count |-> u.count, nextIdx |-> u.nextIdx,
           again |-> u.again]
  BY <1>2 DEF Trees
<1> DEFINE n == (u.count[dir] + 1) % 256
<1>4. n \in 0..255 /\ [u.count EXCEPT ![dir] = n] \in [Nodes -> 0..255]
  <2>1. u.count[dir] \in 0..255
    BY TypedFacts
  <2>2. n \in 0..255
    BY <2>1
  <2> QED BY <2>2, TypedFacts
<1>5. CASE u.first[dir] = NoNode
  <2>1. v = [kind |-> u.kind, name |-> u.name, size |-> u.size, parent |-> u.parent,
             first |-> [u.first EXCEPT ![dir] = i], next |-> u.next,
             count |-> [u.count EXCEPT ![dir] = n], nextIdx |-> u.nextIdx, again |-> u.again]
    BY <1>1, <1>3, <1>5 DEF Hung
  <2>2. [u.first EXCEPT ![dir] = i] \in [Nodes -> Links]
    BY TypedFacts DEF Links
  <2>3. v \in Trees
    BY <2>1, <2>2, <1>4, TypedFacts, ZenonT(30) DEF Trees
  <2> QED BY <2>1, <2>3, <1>1, <1>5 DEF IsHung, Typed
<1>6. CASE u.first[dir] # NoNode
  <2>1. l \in Nodes
    <3>0. u.first[dir] \in Links
      BY TypedFacts
    <3>1. u.first[dir] \in Nodes
      BY <3>0, <1>6 DEF Links
    <3>2. PICK s : s = Siblings(u, u.first[dir])
      OBVIOUS
    <3>3. s \in Seq(Nodes) /\ s # <<>>
      BY <3>1, <3>2, SiblingsType DEF Links
    <3>4. s[Len(s)] \in Nodes
      BY <3>3
    <3> QED BY <3>2, <3>4, <1>1 DEF Last
  <2>2. v = [kind |-> u.kind, name |-> u.name, size |-> u.size, parent |-> u.parent,
             first |-> u.first, next |-> [u.next EXCEPT ![l] = i],
             count |-> [u.count EXCEPT ![dir] = n], nextIdx |-> u.nextIdx, again |-> u.again]
    BY <1>1, <1>3, <1>6 DEF Hung
  <2>3. [u.next EXCEPT ![l] = i] \in [Nodes -> Links]
    BY <2>1, TypedFacts DEF Links
  <2>4. v \in Trees
    BY <2>2, <2>3, <1>4, TypedFacts, ZenonT(30) DEF Trees
  <2> QED BY <2>2, <2>4, <1>1, <1>6 DEF IsHung, Typed
<1> QED BY <1>5, <1>6

\* set_node is the one after the other.
LEMMA SetNodeIs ==
  ASSUME NEW t, NEW nm, NEW kind, NEW dir, NEW i, i = alloc_idx(t), i # NoNode
  PROVE  set_node(t, nm, kind, dir) = Hung(Reset(t, i, nm, kind, dir), i, dir)
  BY DEF set_node

\* A list whose nodes and their links stay as they are stays a list of children.
LEMMA ListKept ==
  ASSUME NEW t, NEW v, NEW d, NEW s, IsChildList(t, d, s),
         \A k \in 1..Len(s) : v.next[s[k]] = t.next[s[k]] /\ v.name[s[k]] = t.name[s[k]],
         v.first[d] = t.first[d], v.count[d] = t.count[d], v.kind[d] = t.kind[d],
         ChildrenOf(v, d) = ChildrenOf(t, d)
  PROVE  IsChildList(v, d, s)
<1>1. s \in Seq(Nodes) /\ Len(s) \in Nat
  BY DEF IsChildList, IsList
<1>2. s # <<>> => Len(s) \in 1..Len(s)
  BY <1>1
<1>3. \A k \in 1..(Len(s) - 1) : k \in 1..Len(s)
  BY <1>1
<1>4. IsList(v, v.first[d], s)
  BY <1>1, <1>2, <1>3 DEF IsChildList, IsList
<1>5. \A j, k \in 1..Len(s) : v.name[s[j]] = v.name[s[k]] => j = k
  BY DEF IsChildList
<1> QED BY <1>4, <1>5 DEF IsChildList

\* A new node, under a new name, behind the others.
LEMMA NodeListed ==
  ASSUME NEW t, Typed(t), Listed(t), NEW i \in Nodes \ {Root}, t.kind[i] = "none",
         NEW nm \in Names, NEW kind \in {"file", "dir"}, NEW dir \in InUse(t), t.kind[dir] = "dir",
         \A j \in ChildrenOf(t, dir) : t.name[j] # nm,
         NEW u, IsReset(t, u, i, nm, kind, dir), NEW v, IsHung(u, v, i, dir)
  PROVE  Listed(v)
<1>1. dir \in Nodes /\ dir # i /\ i \notin InUse(t) /\ Typed(u) /\ Typed(v)
  BY DEF InUse, IsReset, IsHung
<1>2. /\ v.kind = [t.kind EXCEPT ![i] = kind] /\ v.name = [t.name EXCEPT ![i] = nm]
      /\ v.parent = [t.parent EXCEPT ![i] = dir]
      /\ u.first = [t.first EXCEPT ![i] = NoNode] /\ u.next = [t.next EXCEPT ![i] = NoNode]
      /\ u.count = [t.count EXCEPT ![i] = 0]
      /\ v.count = [u.count EXCEPT ![dir] = (u.count[dir] + 1) % 256]
  BY DEF IsReset, IsHung
<1>3. /\ t.kind \in [Nodes -> Kinds] /\ t.name \in [Nodes -> Names \cup {""}]
      /\ t.parent \in [Nodes -> Links] /\ t.first \in [Nodes -> Links]
      /\ t.next \in [Nodes -> Links] /\ t.count \in [Nodes -> 0..255]
  BY TypedFacts
<1>4. /\ v.kind[i] = kind /\ v.name[i] = nm /\ v.parent[i] = dir
      /\ u.first[i] = NoNode /\ u.next[i] = NoNode /\ u.count[i] = 0
      /\ \A j \in Nodes \ {i} : /\ v.kind[j] = t.kind[j] /\ v.name[j] = t.name[j]
                                /\ v.parent[j] = t.parent[j] /\ u.first[j] = t.first[j]
                                /\ u.next[j] = t.next[j] /\ u.count[j] = t.count[j]
  <2>1. v.kind[i] = kind /\ \A j \in Nodes \ {i} : v.kind[j] = t.kind[j]
    BY <1>2, <1>3
  <2>2. v.name[i] = nm /\ \A j \in Nodes \ {i} : v.name[j] = t.name[j]
    BY <1>2, <1>3
  <2>3. v.parent[i] = dir /\ \A j \in Nodes \ {i} : v.parent[j] = t.parent[j]
    BY <1>2, <1>3
  <2>4. u.first[i] = NoNode /\ \A j \in Nodes \ {i} : u.first[j] = t.first[j]
    BY <1>2, <1>3
  <2>5. u.next[i] = NoNode /\ \A j \in Nodes \ {i} : u.next[j] = t.next[j]
    BY <1>2, <1>3
  <2>6. u.count[i] = 0 /\ \A j \in Nodes \ {i} : u.count[j] = t.count[j]
    BY <1>2, <1>3
  <2> QED BY <2>1, <2>2, <2>3, <2>4, <2>5, <2>6
<1>5. /\ v.count[dir] = (t.count[dir] + 1) % 256 /\ v.count[i] = 0
      /\ \A j \in Nodes \ {i, dir} : v.count[j] = t.count[j]
  <2>1. u.count \in [Nodes -> 0..255]
    BY <1>1, TypedFacts
  <2> QED BY <2>1, <1>1, <1>2, <1>4
<1>6. InUse(v) = InUse(t) \cup {i}
  BY <1>4 DEF InUse
<1>7. ASSUME NEW j \in InUse(t) \ {Root}
      PROVE  t.parent[j] # i
  BY <1>1, <1>7 DEF Listed
<1>8. /\ ChildrenOf(v, dir) = ChildrenOf(t, dir) \cup {i} /\ ChildrenOf(v, i) = {}
      /\ \A d \in InUse(t) \ {dir} : ChildrenOf(v, d) = ChildrenOf(t, d)
  <2>1. \A j \in InUse(t) : j \in Nodes \ {i}
    BY <1>1 DEF InUse
  <2>2. \A j \in InUse(t) \ {Root} : v.parent[j] = t.parent[j] /\ t.parent[j] # i
    BY <2>1, <1>4, <1>7
  <2> QED BY <2>2, <1>1, <1>4, <1>6 DEF ChildrenOf
<1>9. PICK s : IsChildList(t, dir, s)
  BY DEF Listed
<1>10. /\ s \in Seq(Nodes) /\ Len(s) \in Nat /\ Len(s) \in 0..(MaxFiles - 1)
       /\ \A k \in 1..Len(s) : /\ s[k] \in InUse(t) \ {Root} /\ t.parent[s[k]] = dir
                               /\ s[k] \in Nodes /\ s[k] # i
       /\ \A j, k \in 1..Len(s) : s[j] = s[k] => j = k
  BY <1>1, <1>9, ChildListFacts DEF InUse
<1>11. u.first[dir] = t.first[dir] /\ u.first[dir] \in Links
  BY <1>1, <1>3, <1>4
<1>12. IsList(u, u.first[dir], s)
  <2>1. \A k \in 1..Len(s) : u.next[s[k]] = t.next[s[k]]
    BY <1>4, <1>10
  <2>2. s # <<>> => Len(s) \in 1..Len(s)
    BY <1>10
  <2>3. \A k \in 1..(Len(s) - 1) : k \in 1..Len(s)
    BY <1>10
  <2> QED BY <2>1, <2>2, <2>3, <1>9, <1>10, <1>11 DEF IsChildList, IsList
<1>13. Siblings(u, u.first[dir]) = s
  <2>1. Len(s) <= MaxFiles
    BY <1>10, NodeFacts
  <2> QED BY <2>1, <1>1, <1>11, <1>12, SiblingsAre
<1>14. /\ s = <<>> => v.first = [u.first EXCEPT ![dir] = i] /\ v.next = u.next
       /\ s # <<>> => v.first = u.first /\ v.next = [u.next EXCEPT ![s[Len(s)]] = i]
  <2>1. s = <<>> => u.first[dir] = NoNode
    BY <1>12 DEF IsList
  <2>2. s # <<>> => u.first[dir] # NoNode
    <3>1. s # <<>> => u.first[dir] \in Nodes
      BY <1>10, <1>12 DEF IsList
    <3> QED BY <3>1, NodeFacts
  <2> QED BY <2>1, <2>2, <1>13 DEF IsHung, Last
<1>15. /\ u.first \in [Nodes -> Links] /\ u.next \in [Nodes -> Links]
  BY <1>1, TypedFacts
<1>16. /\ v.first[dir] = IF s = <<>> THEN i ELSE s[1]
       /\ v.next[i] = NoNode
       /\ s # <<>> => v.next[s[Len(s)]] = i
       /\ \A d \in Nodes \ {dir} : v.first[d] = u.first[d]
       /\ \A j \in Nodes : s = <<>> \/ j # s[Len(s)] => v.next[j] = u.next[j]
  <2>1. s # <<>> => s[Len(s)] \in Nodes \ {i} /\ u.first[dir] = s[1]
    BY <1>10, <1>12 DEF IsList
  <2>2. CASE s = <<>>
    BY <2>2, <1>1, <1>4, <1>14, <1>15
  <2>3. CASE s # <<>>
    BY <2>1, <2>3, <1>1, <1>4, <1>14, <1>15
  <2> QED BY <2>2, <2>3
<1>17. IsChildList(v, dir, Append(s, i))
  <2>1. PICK r, n : r = Append(s, i) /\ n = Len(s) + 1
    OBVIOUS
  <2>2. /\ r \in Seq(Nodes) /\ Len(r) = n /\ r[n] = i /\ r # <<>> /\ n \in Nat \ {0}
        /\ \A k \in 1..(n - 1) : r[k] = s[k] /\ k \in 1..Len(s)
    BY <2>1, <1>10
  <2>3. \A k \in 1..n : k # n => k \in 1..(n - 1)
    BY <2>2
  <2>4. r[1] = v.first[dir]
    <3>1. CASE s = <<>>
      BY <3>1, <2>1, <2>2, <1>16
    <3>2. CASE s # <<>>
      <4>1. 1 \in 1..(n - 1)
        BY <3>2, <2>1, <1>10
      <4> QED BY <3>2, <4>1, <2>2, <1>16
    <3> QED BY <3>1, <3>2
  <2>5. ASSUME NEW k \in 1..(n - 1)
        PROVE  v.next[r[k]] = r[k + 1]
    <3>1. CASE k = n - 1
      <4>1. k = Len(s) /\ s # <<>> /\ k + 1 = n
        BY <3>1, <2>1, <2>2, <1>10
      <4> QED BY <4>1, <2>2, <1>16
    <3>2. CASE k # n - 1
      <4>1. k \in 1..(Len(s) - 1) /\ k + 1 \in 1..(n - 1) /\ Len(s) \in 1..Len(s) /\ k # Len(s)
        BY <3>2, <2>1, <1>10
      <4>2. s[k] # s[Len(s)] /\ s[k] \in Nodes
        BY <4>1, <1>10
      <4>3. u.next[s[k]] = s[k + 1]
        BY <4>1, <1>12 DEF IsList
      <4> QED BY <4>1, <4>2, <4>3, <2>2, <1>16
    <3> QED BY <3>1, <3>2
  <2>6. IsList(v, v.first[dir], r)
    BY <2>2, <2>4, <2>5, <1>16 DEF IsList
  <2>7. \A k \in 1..n : r[k] \in ChildrenOf(v, dir)
    BY <2>2, <2>3, <1>8, <1>9 DEF IsChildList
  <2>8. \A j \in ChildrenOf(v, dir) : \E k \in 1..n : r[k] = j
    <3>1. ASSUME NEW j \in ChildrenOf(t, dir)
          PROVE  \E k \in 1..n : r[k] = j
      <4>1. PICK k \in 1..Len(s) : s[k] = j
        BY <1>9 DEF IsChildList
      <4>2. k \in 1..n /\ k \in 1..(n - 1)
        BY <2>1, <1>10
      <4> QED BY <4>1, <4>2, <2>2
    <3>2. n \in 1..n
      BY <2>2
    <3> QED BY <3>1, <3>2, <2>2, <1>8
  <2>9. ASSUME NEW j \in 1..n, NEW k \in 1..n, v.name[r[j]] = v.name[r[k]]
        PROVE  j = k
    <3>1. ASSUME NEW m \in 1..(n - 1)
          PROVE  r[m] = s[m] /\ v.name[r[m]] = t.name[s[m]] /\ t.name[s[m]] # nm /\ m \in 1..Len(s)
      BY <2>2, <1>4, <1>9, <1>10 DEF IsChildList
    <3>2. v.name[r[n]] = nm
      BY <2>2, <1>4
    <3>3. CASE j # n /\ k # n
      BY <3>1, <3>3, <2>3, <2>9, <1>9 DEF IsChildList
    <3>4. CASE j = n \/ k = n
      BY <3>1, <3>2, <3>4, <2>3, <2>9
    <3> QED BY <3>3, <3>4
  <2>10. v.count[dir] = n
    <3>1. n \in 0..(MaxFiles - 1)
      <4>1. \A k \in 1..n : r[k] # Root
        BY <2>2, <2>3, <1>10
      <4>2. \A j, k \in 1..n : r[j] = r[k] => j = k
        BY <2>9
      <4> QED BY <4>1, <4>2, <2>2, ShortList
    <3>2. n \in 1..255
      BY <3>1, <2>2, NodeFacts
    <3>3. t.count[dir] + 1 = n
      BY <2>1, <1>9 DEF IsChildList
    <3>4. n % 256 = n
      BY <3>2
    <3> QED BY <3>3, <3>4, <1>5
  <2>11. v.kind[dir] = "dir"
    BY <1>1, <1>4
  <2> QED BY <2>1, <2>2, <2>6, <2>7, <2>8, <2>9, <2>10, <2>11 DEF IsChildList
<1>18. IsChildList(v, i, <<>>)
  <2>1. v.first[i] = NoNode
    BY <1>1, <1>4, <1>16
  <2>2. IsList(v, v.first[i], <<>>)
    BY <2>1 DEF IsList
  <2> QED BY <2>2, <1>5, <1>8 DEF IsChildList
<1>19. ASSUME NEW d \in InUse(t) \ {dir}
       PROVE  \E r : IsChildList(v, d, r)
  <2>1. PICK r : IsChildList(t, d, r)
    BY DEF Listed
  <2>2. d \in Nodes \ {i, dir}
    BY <1>1 DEF InUse
  <2>3. \A k \in 1..Len(r) : r[k] \in Nodes \ {i} /\ t.parent[r[k]] = d
    BY <2>1, <2>2, <1>1, ChildListFacts DEF InUse
  <2>4. \A k \in 1..Len(r) : s = <<>> \/ r[k] # s[Len(s)]
    <3>1. s # <<>> => t.parent[s[Len(s)]] = dir
      BY <1>10
    <3> QED BY <3>1, <2>2, <2>3
  <2>5. \A k \in 1..Len(r) : v.next[r[k]] = t.next[r[k]] /\ v.name[r[k]] = t.name[r[k]]
    BY <2>3, <2>4, <1>4, <1>16
  <2>6. v.first[d] = t.first[d] /\ v.count[d] = t.count[d] /\ v.kind[d] = t.kind[d]
    BY <2>2, <1>4, <1>5, <1>16
  <2>7. IsChildList(v, d, r)
    BY <2>1, <2>5, <2>6, <1>8, ListKept
  <2> QED BY <2>7
<1>20. ASSUME NEW j \in InUse(v) \ {Root}
       PROVE  v.parent[j] \in InUse(v) \ {j}
  <2>1. CASE j = i
    BY <2>1, <1>1, <1>4, <1>6
  <2>2. CASE j # i
    <3>1. j \in InUse(t) \ {Root} /\ j \in Nodes \ {i}
      BY <2>2, <1>6 DEF InUse
    <3> QED BY <3>1, <1>4, <1>6 DEF Listed
  <2> QED BY <2>1, <2>2
<1> QED BY <1>6, <1>17, <1>18, <1>19, <1>20 DEF Listed

\* What creating a node in directory dir leaves.
LEMMA SetNodeSound ==
  ASSUME NEW t, TreeInv(t), NEW dir \in Nodes, dir \in Spots(t), NEW nm \in Names,
         NEW kind \in {"file", "dir"}, CanCreate(t, dir, nm),
         NEW v, v = set_node(t, nm, kind, dir), NEW i, i = alloc_idx(t)
  PROVE  TreeInv(v) /\ i \in Nodes /\ i \in Spots(v)
<1>1. Typed(t) /\ i \in Nodes \ {Root} /\ i # NoNode
  BY IndexDrawn, NodeFacts DEF TreeInv, CanCreate
<1>2. PICK u : u = Reset(t, i, nm, kind, dir)
  OBVIOUS
<1>3. v = Hung(u, i, dir)
  BY <1>1, <1>2, SetNodeIs
<1>4. IsReset(t, u, i, nm, kind, dir)
  BY <1>1, <1>2, ResetIs
<1>5. IsHung(u, v, i, dir)
  BY <1>1, <1>3, <1>4, HungIs DEF IsReset
<1>6. Typed(v) /\ v.again = (t.again \/ t.kind[i] # "none")
  BY <1>4, <1>5 DEF IsReset, IsHung
<1>7. ASSUME ~v.again
      PROVE  Listed(v)
  <2>1. ~t.again /\ t.kind[i] = "none" /\ Listed(t)
    BY <1>6, <1>7 DEF TreeInv
  <2>2. dir \in InUse(t)
    BY <2>1, NodeFacts DEF Spots
  <2>3. t.kind[dir] = "dir" /\ find_child(t, dir, nm) = NoNode
    BY DEF CanCreate
  <2>4. \A j \in ChildrenOf(t, dir) : t.name[j] # nm
    BY <1>1, <2>1, <2>2, <2>3, FoundListed
  <2> QED BY <1>1, <1>4, <1>5, <2>1, <2>2, <2>3, <2>4, NodeListed
<1>8. i \in InUse(v)
  <2>1. v.kind = [t.kind EXCEPT ![i] = kind]
    BY <1>4, <1>5 DEF IsReset, IsHung
  <2>2. t.kind \in [Nodes -> Kinds]
    BY <1>1, TypedFacts
  <2>3. v.kind[i] = kind
    BY <1>1, <2>1, <2>2
  <2> QED BY <1>1, <2>3 DEF InUse
<1> QED BY <1>1, <1>6, <1>7, <1>8 DEF TreeInv, Spots

\* A search that does not end takes a node that was handed out twice.
LEMMA EndlessAgain ==
  ASSUME NEW t, TreeInv(t), Endless \in Spots(t)
  PROVE  t.again
<1>1. Endless \notin InUse(t)
  BY NodeFacts DEF InUse
<1> QED BY <1>1, NodeFacts DEF Spots, TreeInv

\* Where mkdir_path can stand.
Makings ==
  {m \in [tree : Trees, at : Nodes, left : Int, result : {"ok", "error", "hang"}] :
     /\ TreeInv(m.tree) /\ m.at \in Spots(m.tree)
     /\ m.result = "hang" => m.tree.again}

\* One component of the path.
LEMMA MkdirStepSound ==
  ASSUME NEW m \in Makings, NEW nm \in Names
  PROVE  MkdirStep(m, nm) \in Makings
<1>1. PICK i : i = find_child(m.tree, m.at, nm)
  OBVIOUS
<1>2. /\ m \in [tree : Trees, at : Nodes, left : Int, result : {"ok", "error", "hang"}]
      /\ TreeInv(m.tree) /\ Typed(m.tree) /\ m.at \in Spots(m.tree) /\ m.at \in Nodes
      /\ m.result = "hang" => m.tree.again
  BY DEF Makings, TreeInv
<1>3. i \in Spots(m.tree)
  <2>1. m.at >= 0
    BY <1>2 DEF Nodes
  <2> QED BY <1>1, <1>2, <2>1, FoundSpot
<1>4. i \in Nodes \cup {NoNode, Endless}
  BY <1>3 DEF Spots, InUse
<1> DEFINE go == [m EXCEPT !.left = @ - 1]
           r == MkdirStep(m, nm)
<1>5. /\ go \in [tree : Trees, at : Nodes, left : Int, result : {"ok", "error", "hang"}]
      /\ go.tree = m.tree /\ go.at = m.at /\ go.result = m.result
  BY <1>2
<1>6. CASE m.result # "ok"
  BY <1>6 DEF MkdirStep
<1>7. CASE m.result = "ok" /\ i = Endless
  <2>1. r = [m EXCEPT !.result = "hang"]
    BY <1>1, <1>7, NodeFacts DEF MkdirStep
  <2>2. m.tree.again
    BY <1>2, <1>3, <1>7, EndlessAgain
  <2> QED BY <2>1, <2>2, <1>2 DEF Makings
<1>8. CASE m.result = "ok" /\ (r = [m EXCEPT !.result = "error"])
  BY <1>2, <1>8 DEF Makings
<1>9. CASE m.result = "ok" /\ i \in Nodes /\ r = [go EXCEPT !.at = i]
  <2> HIDE DEF go, r
  <2>1. r \in [tree : Trees, at : Nodes, left : Int, result : {"ok", "error", "hang"}]
    BY <1>5, <1>9
  <2>2. r.tree = m.tree /\ r.at = i /\ r.result = "ok"
    BY <1>5, <1>9
  <2>3. r \in Makings
    BY <2>1, <2>2, <1>2, <1>3 DEF Makings
  <2> QED BY <2>3 DEF r
<1>10. CASE m.result = "ok" /\ i = NoNode /\ CanCreate(m.tree, m.at, nm)
  <2>1. PICK v, j : v = set_node(m.tree, nm, "dir", m.at) /\ j = alloc_idx(m.tree)
    OBVIOUS
  <2>2. r = [go EXCEPT !.tree = v, !.at = j]
    BY <1>1, <1>10, <2>1, NodeFacts DEF MkdirStep
  <2>3. TreeInv(v) /\ j \in Nodes /\ j \in Spots(v)
    BY <1>2, <1>10, <2>1, SetNodeSound
  <2>4. v \in Trees
    BY <2>3 DEF TreeInv, Typed
  <2> HIDE DEF go, r
  <2>5. r \in [tree : Trees, at : Nodes, left : Int, result : {"ok", "error", "hang"}]
    BY <2>2, <2>3, <2>4, <1>5
  <2>6. r.tree = v /\ r.at = j /\ r.result = "ok"
    BY <2>2, <1>5, <1>10
  <2>7. r \in Makings
    BY <2>3, <2>5, <2>6 DEF Makings
  <2> QED BY <2>7 DEF r
<1>11. \/ m.result # "ok"
       \/ m.result = "ok" /\ i = Endless
       \/ m.result = "ok" /\ (r = [m EXCEPT !.result = "error"])
       \/ m.result = "ok" /\ i \in Nodes /\ r = [go EXCEPT !.at = i]
       \/ m.result = "ok" /\ i = NoNode /\ CanCreate(m.tree, m.at, nm)
  <2>1. CASE m.result = "ok" /\ i \in Nodes
    <3>1. i # Endless /\ i # NoNode
      BY <2>1, NodeFacts
    <3> QED BY <1>1, <2>1, <3>1 DEF MkdirStep
  <2>2. CASE m.result = "ok" /\ i = NoNode /\ ~CanCreate(m.tree, m.at, nm)
    BY <1>1, <2>2, NodeFacts DEF MkdirStep
  <2> QED BY <1>4, <2>1, <2>2
<1> QED BY <1>6, <1>7, <1>8, <1>9, <1>10, <1>11

\* mkdir_path keeps the tree sound wherever it stops.
LEMMA MkdirSound ==
  ASSUME NEW t, TreeInv(t), NEW path \in Seq(Names)
  PROVE  mkdir_path(t, path) \in Makings
<1> DEFINE n == Len(path)
           X == Makings
           a == [tree |-> t, at |-> Root, left |-> n, result |-> "ok"]
           def(f) == [k \in 0..n |-> IF k = 0 THEN a ELSE LET m == f[k - 1] IN MkdirStep(m, path[k])]
           step == [k \in 1..n |-> [x \in X |-> MkdirStep(x, path[k])]]
<1>1. n \in Nat
  OBVIOUS
<1>2. ASSUME NEW k \in 1..n, NEW x \in X
      PROVE  MkdirStep(x, path[k]) \in X
  <2>1. path[k] \in Names
    OBVIOUS
  <2> QED BY <2>1, MkdirStepSound
<1>3. a \in X
  <2>1. Root \in Nodes /\ Root \in Spots(t) /\ t \in Trees
    BY NodeFacts, TypedFacts DEF TreeInv, Typed, Spots, InUse
  <2>2. a \in [tree : Trees, at : Nodes, left : Int, result : {"ok", "error", "hang"}]
    BY <1>1, <2>1
  <2>3. a.tree = t /\ a.at = Root /\ a.result = "ok"
    OBVIOUS
  <2> HIDE DEF a
  <2> QED BY <2>1, <2>2, <2>3 DEF Makings
<1> HIDE DEF a
<1>4. AreSteps(step, n, X)
  <2> HIDE DEF n, X
  <2> QED BY <1>2 DEF AreSteps
<1>5. PICK f : IsRun(f, n, X, a, step)
  <2> HIDE DEF step, n, X
  <2> QED BY <1>1, <1>3, <1>4, StepsExist
<1>6. f = def(f)
  <2> HIDE DEF n, X
  <2>1. ASSUME NEW k \in 0..n
        PROVE  f[k] = IF k = 0 THEN a ELSE MkdirStep(f[k - 1], path[k])
    <3>1. CASE k = 0
      BY <3>1, <1>5 DEF IsRun
    <3>2. CASE k # 0
      <4>1. k \in 1..n /\ k - 1 \in 0..n
        BY <3>2, <1>1
      <4>2. f[k - 1] \in X
        BY <4>1, <1>5 DEF IsRun
      <4>3. f[k] = step[k][f[k - 1]]
        BY <4>1, <1>5 DEF IsRun
      <4> QED BY <4>1, <4>2, <4>3, <3>2
    <3> QED BY <3>1, <3>2
  <2> QED BY <2>1, <1>5, Zenon DEF IsRun
<1>7. PICK g : g = CHOOSE h : h = def(h)
  OBVIOUS
<1>8. g = def(g)
  BY <1>6, <1>7
<1>9. mkdir_path(t, path) = g[n]
  BY <1>7, Zenon DEF mkdir_path, a
<1>10. \A k \in 0..n : g[k] = IF k = 0 THEN a ELSE MkdirStep(g[k - 1], path[k])
  <2> HIDE DEF n
  <2> QED BY <1>8, Zenon
<1> DEFINE S == {k \in 0..n : g[k] \in X}
<1>11. 0 \in S
  <2> HIDE DEF X, n
  <2> QED BY <1>1, <1>3, <1>10
<1>12. ASSUME NEW k \in 1..n, k - 1 \in S
       PROVE  k \in S
  <2>1. PICK x \in X : x = g[k - 1]
    BY <1>12
  <2> HIDE DEF X, n
  <2>2. g[k] = MkdirStep(x, path[k]) /\ k \in 0..n
    BY <1>1, <1>10, <2>1
  <2> QED BY <1>2, <2>1, <2>2
<1>13. n \in S
  <2>1. \A k \in 0..n : k \in S
    <3> HIDE DEF S, n
    <3> QED BY <1>1, <1>11, <1>12, UpTo
  <2> HIDE DEF S
  <2> QED BY <1>1, <2>1
<1> QED BY <1>9, <1>13

\* The tree with a new file, and its node.
LEMMA CreateSound ==
  ASSUME NEW t, TreeInv(t), NEW path \in Seq(Names), NEW c, c = create_file_path(t, path)
  PROVE  /\ TreeInv(c.tree) /\ c.node \in Nodes \cup {NoNode, Endless}
         /\ c.node = Endless => t.again
<1> DEFINE dir == IF path = <<>> THEN NoNode ELSE resolve(t, Front(path))
           none == [tree |-> t, node |-> NoNode]
           lost == [tree |-> t, node |-> Endless]
           new == [tree |-> set_node(t, Last(path), "file", dir), node |-> alloc_idx(t)]
           stuck == dir = Endless \/ (dir \in Nodes /\ find_child(t, dir, Last(path)) = Endless)
<1>1. c = IF stuck THEN lost ELSE IF dir = NoNode \/ ~CanCreate(t, dir, Last(path)) THEN none ELSE new
  BY Zenon DEF create_file_path
<1>2. Typed(t)
  BY DEF TreeInv
<1>3. CASE path = <<>>
  <2>1. dir = NoNode /\ dir # Endless /\ dir \notin Nodes
    BY <1>3, NodeFacts
  <2>2. c = none
    <3> HIDE DEF dir, none, lost, new
    <3> QED BY <1>1, <2>1
  <2> QED BY <2>2, NodeFacts
<1>4. CASE path # <<>>
  <2>1. Front(path) \in Seq(Names) /\ Last(path) \in Names
    <3>1. Len(path) \in Nat \ {0}
      BY <1>4
    <3> QED BY <3>1 DEF Front, Last
  <2>2. dir \in Spots(t)
    BY <1>2, <1>4, <2>1, Resolved
  <2>3. dir \in Nodes \cup {NoNode, Endless}
    <3> HIDE DEF dir
    <3> QED BY <2>2 DEF Spots, InUse
  <2> HIDE DEF dir
  <2>4. CASE stuck
    <3>1. Endless \in Spots(t)
      <4>1. CASE dir = Endless
        BY <4>1, <2>2
      <4>2. CASE dir \in Nodes /\ find_child(t, dir, Last(path)) = Endless
        <5>1. dir >= 0
          BY <4>2 DEF Nodes
        <5>2. find_child(t, dir, Last(path)) \in Spots(t)
          BY <1>2, <2>2, <5>1, FoundSpot
        <5> QED BY <4>2, <5>2
      <4> QED BY <2>4, <4>1, <4>2
    <3>2. t.again
      BY <3>1, EndlessAgain
    <3>3. c = lost
      <4> HIDE DEF stuck, lost, none, new
      <4> QED BY <1>1, <2>4
    <3> QED BY <3>2, <3>3
  <2>5. CASE ~stuck /\ (dir = NoNode \/ ~CanCreate(t, dir, Last(path)))
    <3>1. c = none
      <4> HIDE DEF stuck, lost, none, new
      <4> QED BY <1>1, <2>5
    <3> QED BY <3>1, NodeFacts
  <2>6. CASE ~stuck /\ dir # NoNode /\ CanCreate(t, dir, Last(path))
    <3>1. dir \in Nodes
      BY <2>3, <2>6
    <3>2. PICK v, i : v = set_node(t, Last(path), "file", dir) /\ i = alloc_idx(t)
      OBVIOUS
    <3>3. TreeInv(v) /\ i \in Nodes
      BY <2>1, <2>2, <2>6, <3>1, <3>2, SetNodeSound
    <3>4. c = new
      <4> HIDE DEF stuck, lost, none, new
      <4> QED BY <1>1, <2>6
    <3>5. c.tree = v /\ c.node = i
      BY <3>2, <3>4
    <3> QED BY <3>3, <3>5, NodeFacts
  <2> QED BY <2>4, <2>5, <2>6
<1> QED BY <1>3, <1>4

-----------------------------------------------------------------------------
(* Removing nodes. *)

\* The place of node i in the list s: the first, should there be several.
Place(s, i) == Min({j \in DOMAIN s : s[j] = i})

LEMMA PlaceIs ==
  ASSUME NEW s \in Seq(Nodes), NEW i \in ToSet(s)
  PROVE  Place(s, i) \in 1..Len(s) /\ s[Place(s, i)] = i
<1> DEFINE S == {j \in DOMAIN s : s[j] = i}
<1>1. S # {}
  BY DEF ToSet
<1>2. S \in SUBSET Nat
  OBVIOUS
<1>3. Min(S) \in S
  <2> HIDE DEF S
  <2> QED BY <1>1, <1>2, LeastNumber
<1> QED BY <1>3 DEF Place

\* A tree out of its arrays.
LEMMA TreeOf ==
  ASSUME NEW t, Typed(t), NEW f \in [Nodes -> Links], NEW n \in [Nodes -> Links],
         NEW c \in [Nodes -> 0..255]
  PROVE  [kind |-> t.kind, name |-> t.name, size |-> t.size, parent |-> t.parent, first |-> f,
          next |-> n, count |-> c, nextIdx |-> t.nextIdx, again |-> t.again] \in Trees
  BY TypedFacts DEF Trees

\* Detached, array by array; k is the place of i in the list s of dir.
IsDetached(t, u, dir, i, s, k) ==
  /\ Typed(u)
  /\ u.again = t.again /\ u.kind = t.kind /\ u.name = t.name /\ u.size = t.size
  /\ u.parent = t.parent
  /\ u.count = [t.count EXCEPT ![dir] = (t.count[dir] + 255) % 256]
  /\ k = 1 => u.first = [t.first EXCEPT ![dir] = t.next[i]] /\ u.next = t.next
  /\ k # 1 => u.first = t.first /\ u.next = [t.next EXCEPT ![s[k - 1]] = t.next[i]]

LEMMA DetachedIs ==
  ASSUME NEW t, Typed(t), NEW i \in Nodes, NEW dir \in Nodes,
         NEW s, s = Siblings(t, t.first[dir]), i \in ToSet(s), NEW k, k = Place(s, i)
  PROVE  IsDetached(t, Detached(t, dir, i), dir, i, s, k)
<1>1. PICK u : u = Detached(t, dir, i)
  OBVIOUS
<1>2. t \in Trees
  BY DEF Typed
<1>3. t = [kind |-> t.kind, name |-> t.name, size |-> t.size, parent |-> t.parent,
           first |-> t.first, next |-> t.next, count |-> t.count, nextIdx |-> t.nextIdx,
           again |-> t.again]
  BY <1>2 DEF Trees
<1>4. s \in Seq(Nodes)
  BY SiblingsType, TypedFacts
<1>5. k \in 1..Len(s) /\ Len(s) \in Nat
  BY <1>4, PlaceIs
<1> DEFINE n == (t.count[dir] + 255) % 256
           head == [t EXCEPT !.first[dir] = t.next[i]]
           skip(p) == [t EXCEPT !.next[p] = t.next[i]]
<1>6. n \in 0..255 /\ [t.count EXCEPT ![dir] = n] \in [Nodes -> 0..255]
  <2>1. t.count[dir] \in 0..255
    BY TypedFacts
  <2>2. n \in 0..255
    BY <2>1
  <2> QED BY <2>2, TypedFacts
<1>7. t.next[i] \in Links
  BY TypedFacts
<1>8. /\ k = 1 => u = [head EXCEPT !.count[dir] = (@ + 255) % 256]
      /\ k # 1 => u = [skip(s[k - 1]) EXCEPT !.count[dir] = (@ + 255) % 256]
  <2>1. u = [(IF k = 1 THEN head ELSE skip(s[k - 1])) EXCEPT !.count[dir] = (@ + 255) % 256]
    BY <1>1, Zenon DEF Detached, Place
  <2> HIDE DEF head, skip
  <2> QED BY <2>1
<1>9. CASE k = 1
  <2>1. u = [kind |-> t.kind, name |-> t.name, size |-> t.size, parent |-> t.parent,
             first |-> [t.first EXCEPT ![dir] = t.next[i]], next |-> t.next,
             count |-> [t.count EXCEPT ![dir] = n], nextIdx |-> t.nextIdx, again |-> t.again]
    <3>1. u = [head EXCEPT !.count[dir] = (@ + 255) % 256]
      BY <1>8, <1>9
    <3> QED BY <3>1, <1>3
  <2>2. [t.first EXCEPT ![dir] = t.next[i]] \in [Nodes -> Links]
    BY <1>7, TypedFacts
  <2>3. t.next \in [Nodes -> Links]
    BY TypedFacts
  <2>4. u \in Trees
    <3> HIDE DEF n
    <3> QED BY <2>1, <2>2, <2>3, <1>6, TreeOf
  <2> QED BY <2>1, <2>4, <1>1, <1>9 DEF IsDetached, Typed
<1>10. CASE k # 1
  <2>1. PICK p \in Nodes : p = s[k - 1]
    <3>1. k - 1 \in 1..Len(s)
      BY <1>5, <1>10
    <3> QED BY <3>1, <1>4
  <2>2. u = [kind |-> t.kind, name |-> t.name, size |-> t.size, parent |-> t.parent,
             first |-> t.first, next |-> [t.next EXCEPT ![p] = t.next[i]],
             count |-> [t.count EXCEPT ![dir] = n], nextIdx |-> t.nextIdx, again |-> t.again]
    <3>1. u = [skip(p) EXCEPT !.count[dir] = (@ + 255) % 256]
      BY <1>8, <1>10, <2>1
    <3> QED BY <3>1, <1>3
  <2>3. [t.next EXCEPT ![p] = t.next[i]] \in [Nodes -> Links]
    BY <1>7, <2>1, TypedFacts
  <2>4. u \in Trees
    <3>1. t.first \in [Nodes -> Links]
      BY TypedFacts
    <3> HIDE DEF n
    <3> QED BY <2>2, <2>3, <3>1, <1>6, TreeOf
  <2>5. /\ Typed(u) /\ u.again = t.again /\ u.kind = t.kind /\ u.name = t.name /\ u.size = t.size
        /\ u.parent = t.parent /\ u.count = [t.count EXCEPT ![dir] = n]
        /\ u.first = t.first /\ u.next = [t.next EXCEPT ![p] = t.next[i]]
    BY <2>2, <2>4 DEF Typed
  <2> QED BY <2>1, <2>5, <1>1, <1>10 DEF IsDetached
<1> QED BY <1>9, <1>10

\* Cleared, array by array.
IsCleared(u, v, i) ==
  /\ Typed(v)
  /\ v.again = u.again
  /\ v.kind = [u.kind EXCEPT ![i] = "none"] /\ v.name = [u.name EXCEPT ![i] = ""]
  /\ v.parent = [u.parent EXCEPT ![i] = NoNode]
  /\ v.first = [u.first EXCEPT ![i] = NoNode] /\ v.next = [u.next EXCEPT ![i] = NoNode]
  /\ v.count = [u.count EXCEPT ![i] = 0]

LEMMA ClearedIs ==
  ASSUME NEW t, Typed(t), NEW i \in Nodes \ {Root}
  PROVE  IsCleared(t, Cleared(t, i), i)
<1> DEFINE F == {"kind", "name", "size", "parent", "first", "next", "count", "nextIdx", "again"}
<1>1. PICK u : u = Cleared(t, i)
  OBVIOUS
<1>2. DOMAIN t = F
  BY DEF Typed, Trees
<1>3. u = [f \in F |-> u[f]]
  BY <1>1, <1>2 DEF Cleared
<1>4. /\ u.kind = [t.kind EXCEPT ![i] = "none"] /\ u.name = [t.name EXCEPT ![i] = ""]
      /\ u.size = [t.size EXCEPT ![i] = 0]
  BY <1>1, <1>2 DEF Cleared
<1>5. /\ u.parent = [t.parent EXCEPT ![i] = NoNode] /\ u.first = [t.first EXCEPT ![i] = NoNode]
      /\ u.next = [t.next EXCEPT ![i] = NoNode]
  BY <1>1, <1>2 DEF Cleared
<1>6. u.count = [t.count EXCEPT ![i] = 0] /\ u.nextIdx = t.nextIdx /\ u.again = t.again
  BY <1>1, <1>2 DEF Cleared
<1>7. u.kind \in [Nodes -> Kinds] /\ u.name \in [Nodes -> Names \cup {""}]
  <2>1. [t.kind EXCEPT ![i] = "none"] \in [Nodes -> Kinds]
    BY TypedFacts DEF Kinds
  <2>2. [t.name EXCEPT ![i] = ""] \in [Nodes -> Names \cup {""}]
    BY TypedFacts
  <2> QED BY <2>1, <2>2, <1>4
<1>8. u.size \in [Nodes -> 0..FileSize]
  <2>1. 0 \in 0..FileSize
    BY NodeFacts
  <2>2. [t.size EXCEPT ![i] = 0] \in [Nodes -> 0..FileSize]
    BY <2>1, TypedFacts
  <2> QED BY <2>2, <1>4
<1>9. u.parent \in [Nodes -> Links] /\ u.first \in [Nodes -> Links] /\ u.next \in [Nodes -> Links]
  <2>1. /\ [t.parent EXCEPT ![i] = NoNode] \in [Nodes -> Links]
        /\ [t.first EXCEPT ![i] = NoNode] \in [Nodes -> Links]
        /\ [t.next EXCEPT ![i] = NoNode] \in [Nodes -> Links]
    BY TypedFacts DEF Links
  <2> QED BY <2>1, <1>5
<1>10. u.count \in [Nodes -> 0..255]
  <2>1. 0 \in 0..255
    OBVIOUS
  <2>2. [t.count EXCEPT ![i] = 0] \in [Nodes -> 0..255]
    BY <2>1, TypedFacts
  <2> QED BY <2>2, <1>6
<1>11. u.nextIdx \in 1..MaxFiles /\ u.again \in BOOLEAN
  BY <1>6, TypedFacts
<1>12. u = [kind |-> u.kind, name |-> u.name, size |-> u.size, parent |-> u.parent,
            first |-> u.first, next |-> u.next, count |-> u.count, nextIdx |-> u.nextIdx,
            again |-> u.again]
  BY <1>3
<1>13. u \in Trees
  BY <1>7, <1>8, <1>9, <1>10, <1>11, <1>12 DEF Trees
<1>14. u.kind[Root] = "dir"
  <2>1. [t.kind EXCEPT ![i] = "none"][Root] = "dir"
    BY TypedFacts, NodeFacts
  <2> QED BY <2>1, <1>4
<1> QED BY <1>1, <1>4, <1>5, <1>6, <1>13, <1>14 DEF IsCleared, Typed

\* A node without children out of the list of its directory.
LEMMA NodeUnlisted ==
  ASSUME NEW t, Typed(t), Listed(t), NEW i \in InUse(t) \ {Root},
         ~(t.kind[i] = "dir" /\ t.count[i] > 0), NEW dir, dir = t.parent[i],
         NEW s, IsChildList(t, dir, s), NEW k \in 1..Len(s), s[k] = i,
         NEW u, IsDetached(t, u, dir, i, s, k), NEW v, IsCleared(u, v, i)
  PROVE  Listed(v)
<1>1. dir \in InUse(t) /\ dir \in Nodes /\ dir # i /\ i \in Nodes \ {Root} /\ Typed(u) /\ Typed(v)
  BY DEF InUse, Listed, IsDetached, IsCleared
<1>4. /\ s \in Seq(Nodes) /\ Len(s) \in Nat /\ Len(s) <= 255
      /\ \A j \in 1..Len(s) : s[j] \in InUse(t) \ {Root} /\ t.parent[s[j]] = dir /\ s[j] \in Nodes
      /\ \A j, m \in 1..Len(s) : s[j] = s[m] => j = m
  <2>1. Len(s) \in 0..(MaxFiles - 1)
    BY <1>1, ChildListFacts
  <2>2. Len(s) \in Nat /\ Len(s) <= 255
    BY <2>1, NodeFacts
  <2>3. /\ s \in Seq(Nodes)
        /\ \A j \in 1..Len(s) : s[j] \in InUse(t) \ {Root} /\ t.parent[s[j]] = dir
        /\ \A j, m \in 1..Len(s) : s[j] = s[m] => j = m
    BY <1>1, ChildListFacts
  <2> QED BY <2>2, <2>3 DEF InUse
<1>5. k \in 1..Len(s) /\ s[k] = i /\ s # <<>>
  BY <1>4
<1>0. /\ s[1] = t.first[dir] /\ t.next[s[Len(s)]] = NoNode
      /\ \A j \in 1..(Len(s) - 1) : t.next[s[j]] = s[j + 1]
      /\ \A j \in 1..Len(s) : s[j] \in ChildrenOf(t, dir)
      /\ \A x \in ChildrenOf(t, dir) : \E j \in 1..Len(s) : s[j] = x
      /\ \A j, m \in 1..Len(s) : t.name[s[j]] = t.name[s[m]] => j = m
      /\ t.count[dir] = Len(s) /\ t.kind[dir] = "dir"
  BY <1>4, <1>5 DEF IsChildList, IsList
<1>6. /\ t.kind \in [Nodes -> Kinds] /\ t.name \in [Nodes -> Names \cup {""}]
      /\ t.parent \in [Nodes -> Links] /\ t.first \in [Nodes -> Links]
      /\ t.next \in [Nodes -> Links] /\ t.count \in [Nodes -> 0..255]
  BY TypedFacts
<1>7. /\ u.first \in [Nodes -> Links] /\ u.next \in [Nodes -> Links] /\ u.count \in [Nodes -> 0..255]
  BY <1>1, TypedFacts
<1>8. \A j \in Nodes \ {i} : v.kind[j] = t.kind[j] /\ v.name[j] = t.name[j] /\ v.parent[j] = t.parent[j]
  <2>1. /\ v.kind = [t.kind EXCEPT ![i] = "none"] /\ v.name = [t.name EXCEPT ![i] = ""]
        /\ v.parent = [t.parent EXCEPT ![i] = NoNode]
    BY DEF IsDetached, IsCleared
  <2>2. \A j \in Nodes \ {i} : v.kind[j] = t.kind[j]
    BY <2>1, <1>6
  <2>3. \A j \in Nodes \ {i} : v.name[j] = t.name[j]
    BY <2>1, <1>6
  <2>4. \A j \in Nodes \ {i} : v.parent[j] = t.parent[j]
    BY <2>1, <1>6
  <2> QED BY <2>2, <2>3, <2>4
<1>9. v.kind[i] = "none"
  <2>1. v.kind = [t.kind EXCEPT ![i] = "none"]
    BY DEF IsDetached, IsCleared
  <2> QED BY <2>1, <1>1, <1>6
<1>10. /\ v.count[dir] = (t.count[dir] + 255) % 256
       /\ \A j \in Nodes \ {i, dir} : v.count[j] = t.count[j]
  <2>1. /\ u.count = [t.count EXCEPT ![dir] = (t.count[dir] + 255) % 256]
        /\ v.count = [u.count EXCEPT ![i] = 0]
    BY DEF IsDetached, IsCleared
  <2>2. v.count[dir] = u.count[dir] /\ \A j \in Nodes \ {i, dir} : v.count[j] = u.count[j]
    <3>1. v.count = [u.count EXCEPT ![i] = 0]
      BY <2>1
    <3> QED BY <3>1, <1>1, <1>7
  <2>3. PICK c : c = (t.count[dir] + 255) % 256
    OBVIOUS
  <2>4. u.count = [t.count EXCEPT ![dir] = c]
    BY <2>1, <2>3
  <2>5. u.count[dir] = c /\ \A j \in Nodes \ {i, dir} : u.count[j] = t.count[j]
    BY <2>4, <1>1, <1>6
  <2> QED BY <2>2, <2>3, <2>5
<1>11. /\ v.first[dir] = IF k = 1 THEN t.next[i] ELSE t.first[dir]
       /\ \A j \in Nodes \ {i, dir} : v.first[j] = t.first[j]
  <2>1. /\ k = 1 => u.first = [t.first EXCEPT ![dir] = t.next[i]]
        /\ k # 1 => u.first = t.first
        /\ v.first = [u.first EXCEPT ![i] = NoNode]
    BY DEF IsDetached, IsCleared
  <2>2. v.first[dir] = u.first[dir] /\ \A j \in Nodes \ {i, dir} : v.first[j] = u.first[j]
    BY <2>1, <1>1, <1>7
  <2>3. u.first[dir] = IF k = 1 THEN t.next[i] ELSE t.first[dir]
    BY <2>1, <1>1, <1>6
  <2>4. \A j \in Nodes \ {i, dir} : u.first[j] = t.first[j]
    BY <2>1, <1>1, <1>6
  <2> QED BY <2>2, <2>3, <2>4
<1>12. /\ k # 1 => v.next[s[k - 1]] = t.next[i]
       /\ \A j \in Nodes \ {i} : k = 1 \/ j # s[k - 1] => v.next[j] = t.next[j]
  <2>1. /\ k = 1 => u.next = t.next
        /\ k # 1 => u.next = [t.next EXCEPT ![s[k - 1]] = t.next[i]]
        /\ v.next = [u.next EXCEPT ![i] = NoNode]
    BY DEF IsDetached, IsCleared
  <2>2. \A j \in Nodes \ {i} : v.next[j] = u.next[j]
    BY <2>1, <1>7
  <2>3. k # 1 => s[k - 1] \in Nodes \ {i}
    <3>1. k # 1 => k - 1 \in 1..Len(s) /\ k - 1 # k
      BY <1>4, <1>5
    <3> QED BY <3>1, <1>4, <1>5
  <2> QED BY <2>1, <2>2, <2>3, <1>6
<1>13. InUse(v) = InUse(t) \ {i}
  BY <1>8, <1>9 DEF InUse
<1>14. ChildrenOf(t, i) = {}
  <2>1. PICK w : IsChildList(t, i, w)
    BY DEF Listed
  <2>2. w \in Seq(Nodes) /\ t.count[i] = Len(w) /\ (w # <<>> => t.kind[i] = "dir")
    BY <2>1 DEF IsChildList, IsList
  <2>3. w = <<>>
    <3>1. w # <<>> => Len(w) > 0
      BY <2>2
    <3> QED BY <2>2, <3>1
  <2>4. Len(w) = 0
    BY <2>3
  <2> QED BY <2>1, <2>4 DEF IsChildList
<1>15. /\ ChildrenOf(v, dir) = ChildrenOf(t, dir) \ {i}
       /\ \A d \in InUse(v) \ {dir} : ChildrenOf(v, d) = ChildrenOf(t, d)
  <2>1. \A j \in InUse(v) \ {Root} : v.parent[j] = t.parent[j]
    BY <1>8, <1>13 DEF InUse
  <2> QED BY <2>1, <1>1, <1>13 DEF ChildrenOf
<1> PICK n : n = Len(s) - 1
  OBVIOUS
<1> DEFINE w == [j \in 1..n |-> IF j < k THEN s[j] ELSE s[j + 1]]
           Old(j) == IF j < k THEN j ELSE j + 1
<1>16. n \in Nat /\ n <= 254 /\ Len(s) = n + 1 /\ k \in 1..(n + 1)
  BY <1>4, <1>5
<1>17. \A j \in 1..n : Old(j) \in 1..Len(s) /\ Old(j) # k /\ w[j] = s[Old(j)] /\ w[j] \in Nodes \ {i}
  <2>1. \A j \in 1..n : Old(j) \in 1..Len(s) /\ Old(j) # k /\ w[j] = s[Old(j)]
    BY <1>16
  <2> HIDE DEF Old, w
  <2> QED BY <2>1, <1>4, <1>5
<1>18. w \in Seq(Nodes) /\ Len(w) = n
  <2>1. ASSUME NEW j \in 1..n
        PROVE  (IF j < k THEN s[j] ELSE s[j + 1]) \in Nodes
    <3>1. j \in 1..Len(s) /\ j + 1 \in 1..Len(s)
      BY <1>16
    <3> QED BY <3>1, <1>4
  <2>2. w \in Seq(Nodes)
    BY <2>1, <1>16
  <2>3. Len(w) = n
    BY <1>16
  <2> QED BY <2>2, <2>3
<1> HIDE DEF w
<1>19. \A j \in 1..n, m \in 1..n : Old(j) = Old(m) => j = m
  BY <1>16
<1>20. t.next[i] = IF k = Len(s) THEN NoNode ELSE s[k + 1]
  <2>1. CASE k = Len(s)
    BY <2>1, <1>0, <1>5
  <2>2. CASE k # Len(s)
    <3>1. k \in 1..(Len(s) - 1)
      BY <2>2, <1>4, <1>5
    <3> QED BY <2>2, <3>1, <1>0, <1>5
  <2> QED BY <2>1, <2>2
<1>21. ASSUME NEW j \in 1..n
       PROVE  v.next[w[j]] = IF j = n THEN NoNode ELSE w[j + 1]
  <2>1. CASE j = k - 1
    <3>1. k # 1 /\ w[j] = s[k - 1]
      BY <2>1, <1>16, <1>17
    <3>2. v.next[w[j]] = t.next[i]
      BY <3>1, <1>12
    <3>3. CASE j = n
      BY <3>2, <3>3, <2>1, <1>16, <1>20
    <3>4. CASE j # n
      <4>1. j + 1 \in 1..n /\ Old(j + 1) = k + 1 /\ k # Len(s)
        BY <3>4, <2>1, <1>16
      <4>2. w[j + 1] = s[k + 1]
        <5> HIDE DEF Old
        <5> QED BY <4>1, <1>17
      <4> QED BY <3>2, <3>4, <4>1, <4>2, <1>20
    <3> QED BY <3>3, <3>4
  <2>2. CASE j # k - 1
    <3>1. PICK o : o = Old(j)
      OBVIOUS
    <3>2. o \in 1..Len(s) /\ o # k /\ w[j] = s[o] /\ s[o] \in Nodes \ {i}
      <4> HIDE DEF Old
      <4> QED BY <3>1, <1>17
    <3>3. k = 1 \/ s[o] # s[k - 1]
      <4>1. k = 1 \/ (k - 1 \in 1..Len(s) /\ o # k - 1)
        BY <2>2, <3>1, <1>16
      <4> QED BY <3>2, <4>1, <1>4
    <3>4. v.next[w[j]] = t.next[s[o]]
      BY <3>2, <3>3, <1>12
    <3>5. CASE j = n
      <4>1. o = Len(s)
        BY <3>1, <3>5, <2>2, <1>16
      <4>2. t.next[s[o]] = NoNode
        BY <4>1, <1>0
      <4> QED BY <3>4, <3>5, <4>2
    <3>6. CASE j # n
      <4>1. j + 1 \in 1..n /\ Old(j + 1) = o + 1 /\ o \in 1..(Len(s) - 1)
        BY <3>1, <3>6, <2>2, <1>16
      <4>2. w[j + 1] = s[o + 1]
        <5> HIDE DEF Old
        <5> QED BY <4>1, <1>17
      <4>3. t.next[s[o]] = s[o + 1]
        BY <4>1, <1>0
      <4> QED BY <3>4, <3>6, <4>2, <4>3
    <3> QED BY <3>5, <3>6
  <2> QED BY <2>1, <2>2
<1>22. IsList(v, v.first[dir], w)
  <2>1. s[1] = t.first[dir]
    BY <1>0
  <2>2. CASE n = 0
    <3>1. k = 1 /\ k = Len(s)
      BY <2>2, <1>16
    <3>2. v.first[dir] = NoNode
      BY <3>1, <1>11, <1>20
    <3>3. w = <<>>
      BY <2>2, <1>18
    <3>4. \A j \in 1..(0 - 1) : FALSE
      OBVIOUS
    <3> QED BY <2>2, <3>2, <3>3, <3>4, <1>18 DEF IsList
  <2>3. CASE n # 0
    <3>1. 1 \in 1..n /\ n \in 1..n /\ \A j \in 1..(n - 1) : j \in 1..n /\ j # n
      BY <2>3, <1>16
    <3>2. w # <<>>
      BY <2>3, <1>18
    <3>3. w[1] = v.first[dir]
      <4>1. CASE k = 1
        <5>1. Old(1) = k + 1 /\ k # Len(s)
          BY <4>1, <2>3, <1>16
        <5>2. w[1] = s[k + 1]
          <6> HIDE DEF Old
          <6> QED BY <5>1, <3>1, <1>17
        <5> QED BY <4>1, <5>1, <5>2, <1>11, <1>20
      <4>2. CASE k # 1
        <5>1. Old(1) = 1
          BY <4>2, <1>16
        <5>2. w[1] = s[1]
          <6> HIDE DEF Old
          <6> QED BY <5>1, <3>1, <1>17
        <5> QED BY <4>2, <5>2, <2>1, <1>11
      <4> QED BY <4>1, <4>2
    <3>4. v.next[w[n]] = NoNode /\ \A j \in 1..(n - 1) : v.next[w[j]] = w[j + 1]
      BY <3>1, <1>21
    <3> QED BY <3>2, <3>3, <3>4, <1>18 DEF IsList
  <2> QED BY <2>2, <2>3
<1>23. IsChildList(v, dir, w)
  <2> HIDE DEF Old
  <2>1. ASSUME NEW j \in 1..n
        PROVE  w[j] \in ChildrenOf(v, dir)
    <3>1. Old(j) \in 1..Len(s) /\ w[j] = s[Old(j)] /\ w[j] # i
      BY <1>17
    <3>2. s[Old(j)] \in ChildrenOf(t, dir)
      BY <3>1, <1>0
    <3> QED BY <3>1, <3>2, <1>15
  <2>2. ASSUME NEW x \in ChildrenOf(v, dir)
        PROVE  \E j \in 1..n : w[j] = x
    <3>1. x \in ChildrenOf(t, dir) /\ x # i
      BY <1>15
    <3>2. PICK o \in 1..Len(s) : s[o] = x
      BY <3>1, <1>0
    <3>3. o # k
      BY <3>1, <3>2, <1>5
    <3>4. PICK j \in 1..n : Old(j) = o
      <4> DEFINE j == IF o < k THEN o ELSE o - 1
      <4>1. j \in 1..n /\ Old(j) = o
        BY <3>3, <1>16 DEF Old
      <4> QED BY <4>1
    <3> QED BY <3>2, <3>4, <1>17
  <2>3. ASSUME NEW j \in 1..n, NEW m \in 1..n, v.name[w[j]] = v.name[w[m]]
        PROVE  j = m
    <3>1. /\ v.name[w[j]] = t.name[s[Old(j)]] /\ v.name[w[m]] = t.name[s[Old(m)]]
          /\ Old(j) \in 1..Len(s) /\ Old(m) \in 1..Len(s)
      BY <1>8, <1>17
    <3>2. Old(j) = Old(m)
      BY <2>3, <3>1, <1>0, ZenonT(30)
    <3> QED BY <3>2, <1>19
  <2>4. v.count[dir] = n
    <3>1. t.count[dir] = n + 1
      BY <1>0, <1>16
    <3>2. (n + 1 + 255) % 256 = n
      BY <1>16
    <3> QED BY <3>1, <3>2, <1>10
  <2>5. v.kind[dir] = "dir"
    BY <1>0, <1>1, <1>8
  <2> QED BY <2>1, <2>2, <2>3, <2>4, <2>5, <1>18, <1>22 DEF IsChildList
<1>24. ASSUME NEW d \in InUse(v) \ {dir}
       PROVE  \E x : IsChildList(v, d, x)
  <2>1. d \in InUse(t) /\ d \in Nodes \ {i, dir}
    BY <1>13 DEF InUse
  <2>2. PICK x : IsChildList(t, d, x)
    BY <2>1 DEF Listed
  <2>3. \A j \in 1..Len(x) : x[j] \in Nodes /\ t.parent[x[j]] = d
    BY <2>1, <2>2, ChildListFacts DEF InUse
  <2>4. \A j \in 1..Len(x) : x[j] # i /\ (k = 1 \/ x[j] # s[k - 1])
    <3>1. k # 1 => k - 1 \in 1..Len(s)
      BY <1>4, <1>5
    <3> QED BY <3>1, <2>1, <2>3, <1>4
  <2>5. \A j \in 1..Len(x) : v.next[x[j]] = t.next[x[j]] /\ v.name[x[j]] = t.name[x[j]]
    BY <2>3, <2>4, <1>8, <1>12
  <2>6. v.first[d] = t.first[d] /\ v.count[d] = t.count[d] /\ v.kind[d] = t.kind[d]
    BY <2>1, <1>8, <1>10, <1>11
  <2>7. IsChildList(v, d, x)
    BY <2>2, <2>5, <2>6, <1>15, ListKept
  <2> QED BY <2>7
<1>25. ASSUME NEW j \in InUse(v) \ {Root}
       PROVE  v.parent[j] \in InUse(v) \ {j}
  <2>1. j \in InUse(t) \ {Root} /\ j \in Nodes \ {i}
    BY <1>13 DEF InUse
  <2>2. t.parent[j] \in InUse(t) \ {j}
    BY <2>1 DEF Listed
  <2>3. t.parent[j] # i
    BY <2>1, <1>14 DEF ChildrenOf
  <2> QED BY <2>1, <2>2, <2>3, <1>8, <1>13
<1> QED BY <1>13, <1>23, <1>24, <1>25 DEF Listed

\* What removing node i from its directory leaves.
LEMMA RemoveSound ==
  ASSUME NEW t, TreeInv(t), NEW i \in Nodes \ {Root}, NEW dir \in Nodes, dir = t.parent[i],
         NEW r, r = remove(t, dir, i)
  PROVE  /\ TreeInv(r.tree) /\ r.result \in {"ok", "error", "hang"}
         /\ r.result = "hang" => r.tree.again
<1>1. PICK s : s = Siblings(t, t.first[dir])
  OBVIOUS
<1>2. PICK v : v = Cleared(Detached(t, dir, i), i)
  OBVIOUS
<1>3. r = IF t.kind[i] = "dir" /\ t.count[i] > 0 THEN [tree |-> t, result |-> "error"]
          ELSE IF t.kind[i] = "none" THEN [tree |-> t, result |-> "error"]
          ELSE IF i \in ToSet(s) THEN [tree |-> v, result |-> "ok"]
          ELSE [tree |-> t, result |-> IF IsRing(s) THEN "hang" ELSE "error"]
  BY <1>1, <1>2 DEF remove
<1>4. Typed(t) /\ s \in Seq(Nodes)
  BY <1>1, SiblingsType, TypedFacts DEF TreeInv
<1>5. ASSUME ~t.again, t.kind[i] # "none"
      PROVE  Listed(t) /\ i \in InUse(t) \ {Root} /\ IsChildList(t, dir, s) /\ ~IsRing(s)
  <2>1. Listed(t) /\ i \in InUse(t) \ {Root}
    BY <1>5 DEF TreeInv, InUse
  <2>2. dir \in InUse(t)
    BY <2>1 DEF Listed
  <2>3. PICK x : IsChildList(t, dir, x)
    BY <2>1, <2>2 DEF Listed
  <2>4. x = s /\ ~IsRing(x)
    BY <2>3, <1>1, <1>4, ChildListFacts
  <2> QED BY <2>1, <2>3, <2>4
<1>6. CASE (t.kind[i] = "dir" /\ t.count[i] > 0) \/ t.kind[i] = "none"
  <2>1. r = [tree |-> t, result |-> "error"]
    BY <1>3, <1>6
  <2> QED BY <2>1
<1>7. CASE ~(t.kind[i] = "dir" /\ t.count[i] > 0) /\ t.kind[i] # "none" /\ i \in ToSet(s)
  <2>1. r = [tree |-> v, result |-> "ok"]
    BY <1>3, <1>7
  <2>2. PICK u, k : u = Detached(t, dir, i) /\ k = Place(s, i)
    OBVIOUS
  <2>3. IsDetached(t, u, dir, i, s, k)
    BY <1>1, <1>4, <1>7, <2>2, DetachedIs
  <2>4. IsCleared(u, v, i)
    BY <1>2, <2>2, <2>3, ClearedIs DEF IsDetached
  <2>5. Typed(v) /\ v.again = t.again
    BY <2>3, <2>4 DEF IsDetached, IsCleared
  <2>6. k \in 1..Len(s) /\ s[k] = i
    BY <1>4, <1>7, <2>2, PlaceIs
  <2>7. ASSUME ~v.again
        PROVE  Listed(v)
    BY <1>4, <1>5, <1>7, <2>3, <2>4, <2>5, <2>6, <2>7, NodeUnlisted
  <2> QED BY <2>1, <2>5, <2>7 DEF TreeInv
<1>8. CASE ~(t.kind[i] = "dir" /\ t.count[i] > 0) /\ t.kind[i] # "none" /\ i \notin ToSet(s)
  <2>1. r = [tree |-> t, result |-> IF IsRing(s) THEN "hang" ELSE "error"]
    BY <1>3, <1>8
  <2>2. IsRing(s) => t.again
    BY <1>5, <1>8
  <2> QED BY <2>1, <2>2
<1> QED BY <1>6, <1>7, <1>8

-----------------------------------------------------------------------------
(* Sizes. *)

\* A tree with other sizes.
LEMMA SizedTree ==
  ASSUME NEW t, Typed(t), NEW z \in [Nodes -> 0..FileSize]
  PROVE  [kind |-> t.kind, name |-> t.name, size |-> z, parent |-> t.parent, first |-> t.first,
          next |-> t.next, count |-> t.count, nextIdx |-> t.nextIdx, again |-> t.again] \in Trees
  BY TypedFacts DEF Trees

\* Only the size of the node changes.
LEMMA GrownIs ==
  ASSUME NEW t, Typed(t), NEW i \in Nodes, NEW end \in 0..FileSize, NEW v, v = Grown(t, i, end)
  PROVE  /\ Typed(v) /\ v.size \in [Nodes -> 0..FileSize]
         /\ v.size[i] = IF end > t.size[i] THEN end ELSE t.size[i]
         /\ v.kind = t.kind /\ v.name = t.name /\ v.parent = t.parent /\ v.first = t.first
         /\ v.next = t.next /\ v.count = t.count /\ v.again = t.again
<1>1. t \in Trees
  BY DEF Typed
<1>2. t = [kind |-> t.kind, name |-> t.name, size |-> t.size, parent |-> t.parent,
           first |-> t.first, next |-> t.next, count |-> t.count, nextIdx |-> t.nextIdx,
           again |-> t.again]
  BY <1>1 DEF Trees
<1>3. PICK m : m = IF end > t.size[i] THEN end ELSE t.size[i]
  OBVIOUS
<1>4. v = [t EXCEPT !.size[i] = m]
  BY <1>3 DEF Grown
<1>5. PICK z : z = [t.size EXCEPT ![i] = m]
  OBVIOUS
<1>6. v = [kind |-> t.kind, name |-> t.name, size |-> z, parent |-> t.parent,
           first |-> t.first, next |-> t.next, count |-> t.count, nextIdx |-> t.nextIdx,
           again |-> t.again]
  BY <1>2, <1>4, <1>5
<1>7. t.size \in [Nodes -> 0..FileSize] /\ m \in 0..FileSize
  <2>1. t.size \in [Nodes -> 0..FileSize]
    BY TypedFacts
  <2> QED BY <2>1, <1>3
<1>8. z \in [Nodes -> 0..FileSize] /\ z[i] = m
  BY <1>5, <1>7
<1>9. v \in Trees
  BY <1>6, <1>8, SizedTree
<1>10. v.kind = t.kind /\ v.size = z
  BY <1>6
<1> QED BY <1>3, <1>6, <1>8, <1>9, <1>10 DEF Typed

LEMMA GrownSound ==
  ASSUME NEW t, TreeInv(t), NEW i \in Nodes, NEW end \in 0..FileSize, NEW v, v = Grown(t, i, end)
  PROVE  TreeInv(v) /\ v.again = t.again
<1>1. Typed(t)
  BY DEF TreeInv
<1>2. /\ Typed(v) /\ v.kind = t.kind /\ v.name = t.name /\ v.parent = t.parent /\ v.first = t.first
      /\ v.next = t.next /\ v.count = t.count /\ v.again = t.again
  BY <1>1, GrownIs
<1>3. InUse(v) = InUse(t) /\ \A d : ChildrenOf(v, d) = ChildrenOf(t, d)
  BY <1>2 DEF InUse, ChildrenOf
<1>4. ASSUME Listed(t), NEW d \in InUse(v)
      PROVE  \E s : IsChildList(v, d, s)
  <2>1. PICK s : IsChildList(t, d, s)
    BY <1>3, <1>4 DEF Listed
  <2>2. IsChildList(v, d, s)
    BY <2>1, <1>2, <1>3, ListKept
  <2> QED BY <2>2
<1>5. Listed(t) => Listed(v)
  BY <1>2, <1>3, <1>4 DEF Listed
<1> QED BY <1>2, <1>5 DEF TreeInv

\* init starts from a root without children.
LEMMA EmptySound == TreeInv(EmptyTree)
<1>1. PICK t : t = EmptyTree
  OBVIOUS
<1>2. /\ t.kind = [i \in Nodes |-> IF i = Root THEN "dir" ELSE "none"]
      /\ t.name = [i \in Nodes |-> ""] /\ t.size = [i \in Nodes |-> 0]
      /\ t.parent = [i \in Nodes |-> NoNode] /\ t.first = [i \in Nodes |-> NoNode]
      /\ t.next = [i \in Nodes |-> NoNode] /\ t.count = [i \in Nodes |-> 0]
      /\ t.nextIdx = 1 /\ t.again = FALSE
  BY <1>1 DEF EmptyTree
<1>3. t = [kind |-> t.kind, name |-> t.name, size |-> t.size, parent |-> t.parent,
           first |-> t.first, next |-> t.next, count |-> t.count, nextIdx |-> t.nextIdx,
           again |-> t.again]
  BY <1>1 DEF EmptyTree
<1>4. t.kind \in [Nodes -> Kinds] /\ t.name \in [Nodes -> Names \cup {""}]
  BY <1>2 DEF Kinds
<1>5. t.size \in [Nodes -> 0..FileSize] /\ t.count \in [Nodes -> 0..255]
  <2>1. 0 \in 0..FileSize /\ 0 \in 0..255
    BY NodeFacts
  <2>2. [i \in Nodes |-> 0] \in [Nodes -> 0..FileSize]
    BY <2>1
  <2>3. [i \in Nodes |-> 0] \in [Nodes -> 0..255]
    BY <2>1
  <2> QED BY <2>2, <2>3, <1>2
<1>6. t.parent \in [Nodes -> Links] /\ t.first \in [Nodes -> Links] /\ t.next \in [Nodes -> Links]
  BY <1>2 DEF Links
<1>7. t.nextIdx \in 1..MaxFiles /\ t.again \in BOOLEAN
  <2>1. 1 \in 1..MaxFiles
    BY NodeFacts
  <2> QED BY <2>1, <1>2
<1>8. Typed(t)
  <2>1. t \in Trees
    BY <1>3, <1>4, <1>5, <1>6, <1>7 DEF Trees
  <2>2. t.kind[Root] = "dir"
    BY <1>2, NodeFacts
  <2> QED BY <2>1, <2>2 DEF Typed
<1>9. InUse(t) = {Root} /\ \A d : ChildrenOf(t, d) = {}
  BY <1>2, NodeFacts DEF InUse, ChildrenOf
<1>10. IsChildList(t, Root, <<>>)
  <2>1. t.first[Root] = NoNode /\ t.count[Root] = 0
    BY <1>2, NodeFacts
  <2>2. IsList(t, t.first[Root], <<>>)
    BY <2>1 DEF IsList
  <2> QED BY <2>1, <2>2, <1>9 DEF IsChildList
<1>11. Listed(t)
  BY <1>9, <1>10 DEF Listed
<1> QED BY <1>1, <1>8, <1>11 DEF TreeInv

-----------------------------------------------------------------------------
(* What the commands leave. *)

\* A command that has its own session; open and the rest.
PathDone(call, e) ==
  /\ TreeInv(e.tree) /\ e.answer \in {"ok", "error", "hang"} /\ e.fate \in {"reply", "hang"}
  /\ e.fate = "hang" => e.tree.again
  /\ e.file \in FileType /\ e.file.offset = 0
  /\ call.cmd # "open" => e.file = NoFile
  /\ call.cmd = "open" /\ e.answer = "ok" => e.file # NoFile

\* The fields of an effect.
LEMMA EffectIs ==
  ASSUME NEW t, NEW f, NEW answer, NEW fate, NEW e, e = Effect(t, f, answer, fate)
  PROVE  e.tree = t /\ e.file = f /\ e.answer = answer /\ e.fate = fate
  BY DEF Effect

\* Descriptors.
LEMMA FileFacts ==
  /\ NoFile \in FileType /\ Tty \in FileType /\ NoFile # Tty
  /\ NoFile.offset = 0 /\ Tty.offset = 0 /\ NoFile.node \notin Nodes /\ Tty.node \notin Nodes
  /\ \A f \in FileType \ {NoFile, Tty} : f.node \in Nodes /\ f.offset \in 0..FileSize
  /\ \A i \in Nodes, n \in 0..FileSize :
       LET f == [node |-> i, offset |-> n]
       IN  f \in FileType \ {NoFile, Tty} /\ f.node = i /\ f.offset = n
<1>1. NoFile \in FileType /\ Tty \in FileType
  BY DEF FileType
<1>2. NoFile.node = -1 /\ NoFile.offset = 0 /\ Tty.node = -3 /\ Tty.offset = 0
  BY DEF NoFile, Tty, NoNode
<1>3. -1 \notin Nodes /\ -3 \notin Nodes
  BY NodeFacts DEF Nodes
<1>4. NoFile # Tty
  <2>1. -1 # -3
    OBVIOUS
  <2> QED BY <1>2, <2>1
<1>5. \A f \in FileType \ {NoFile, Tty} : f.node \in Nodes /\ f.offset \in 0..FileSize
  BY DEF FileType
<1>6. ASSUME NEW i \in Nodes, NEW n \in 0..FileSize, NEW f, f = [node |-> i, offset |-> n]
      PROVE  f \in FileType \ {NoFile, Tty} /\ f.node = i /\ f.offset = n
  <2>1. f.node = i /\ f.offset = n /\ f \in [node : Nodes, offset : 0..FileSize]
    BY <1>6
  <2>2. f # NoFile /\ f # Tty
    BY <2>1, <1>2, <1>3
  <2> QED BY <2>1, <2>2 DEF FileType
<1> QED BY <1>1, <1>2, <1>3, <1>4, <1>5, <1>6

\* Paths are sequences of names.
LEMMA CallFacts ==
  /\ \A call \in OpenCalls : call.path \in Seq(Names) /\ call.cmd = "open"
  /\ \A call \in PathCalls : call.path \in Seq(Names) /\ call.cmd \in {"mkdir", "rmdir", "unlink", "stat"}
  /\ \A call \in FileCalls : /\ call.cmd \in {"read", "write", "readdir", "close"}
                             /\ call.cmd = "write" => call.count \in {1, InlineMax + 1}
<1>1. \A call \in OpenCalls : call.path \in Seq(Names) /\ call.cmd = "open"
  BY FilesAssumption DEF OpenCalls
<1>2. \A call \in PathCalls : call.path \in Seq(Names) /\ call.cmd \in {"mkdir", "rmdir", "unlink", "stat"}
  BY FilesAssumption DEF PathCalls
<1>3. ASSUME NEW call \in FileCalls
      PROVE  /\ call.cmd \in {"read", "write", "readdir", "close"}
             /\ call.cmd = "write" => call.count \in {1, InlineMax + 1}
  <2>1. CASE call \in WriteCalls
    BY <2>1 DEF WriteCalls
  <2>2. CASE call \in DirCalls
    BY <2>2 DEF DirCalls
  <2>3. CASE call \in [cmd : {"read", "close"}]
    BY <2>3
  <2> QED BY <2>1, <2>2, <2>3 DEF FileCalls
<1> QED BY <1>1, <1>2, <1>3

LEMMA OpenDone ==
  ASSUME TreeInv(tree), session = NoFile, NEW call \in OpenCalls, NEW e, e = do_open(call)
  PROVE  PathDone(call, e)
<1>1. PICK i : i = resolve(tree, call.path)
  OBVIOUS
<1>2. PICK c : c = IF i = NoNode /\ call.create THEN create_file_path(tree, call.path)
                   ELSE [tree |-> tree, node |-> i]
  OBVIOUS
<1>3. call.path \in Seq(Names) /\ call.cmd = "open" /\ Typed(tree)
  BY CallFacts DEF TreeInv
<1>4. i \in Spots(tree) /\ i \in Nodes \cup {NoNode, Endless}
  <2>1. i \in Spots(tree)
    BY <1>1, <1>3, Resolved
  <2> QED BY <2>1 DEF Spots, InUse
<1>5. /\ TreeInv(c.tree) /\ c.node \in Nodes \cup {NoNode, Endless}
      /\ c.node = Endless => tree.again
  <2>1. CASE i = NoNode /\ call.create
    <3>1. c = create_file_path(tree, call.path)
      BY <2>1, <1>2
    <3> QED BY <3>1, <1>3, CreateSound
  <2>2. CASE ~(i = NoNode /\ call.create)
    <3>1. c.tree = tree /\ c.node = i
      BY <2>2, <1>2
    <3> QED BY <3>1, <1>4, EndlessAgain
  <2> QED BY <2>1, <2>2
<1>6. e = IF call.path = TtyPath THEN Effect(tree, Tty, "ok", "reply")
          ELSE IF c.node = Endless THEN Effect(tree, session, "error", "hang")
          ELSE IF c.node = NoNode THEN Effect(tree, session, "error", "reply")
          ELSE Effect(c.tree, [node |-> c.node, offset |-> 0], "ok", "reply")
  BY <1>1, <1>2, Zenon DEF do_open, Answered, Lost
<1>7. CASE call.path = TtyPath
  <2>1. e.tree = tree /\ e.file = Tty /\ e.answer = "ok" /\ e.fate = "reply"
    BY <1>6, <1>7, EffectIs
  <2> QED BY <2>1, <1>3, FileFacts DEF PathDone
<1>8. CASE call.path # TtyPath /\ c.node = Endless
  <2>1. e.tree = tree /\ e.file = NoFile /\ e.answer = "error" /\ e.fate = "hang"
    BY <1>6, <1>8, EffectIs
  <2> QED BY <2>1, <1>3, <1>5, <1>8, FileFacts DEF PathDone
<1>9. CASE call.path # TtyPath /\ c.node # Endless /\ c.node = NoNode
  <2>1. e.tree = tree /\ e.file = NoFile /\ e.answer = "error" /\ e.fate = "reply"
    BY <1>6, <1>9, EffectIs
  <2> QED BY <2>1, <1>3, FileFacts DEF PathDone
<1>10. CASE call.path # TtyPath /\ c.node # Endless /\ c.node # NoNode
  <2>1. PICK f : f = [node |-> c.node, offset |-> 0]
    OBVIOUS
  <2>2. e.tree = c.tree /\ e.file = f /\ e.answer = "ok" /\ e.fate = "reply"
    <3>1. e = Effect(c.tree, f, "ok", "reply")
      BY <1>6, <1>10, <2>1
    <3> QED BY <3>1, EffectIs
  <2>3. c.node \in Nodes /\ 0 \in 0..FileSize
    BY <1>5, <1>10, NodeFacts
  <2>4. f \in FileType /\ f # NoFile /\ f.offset = 0
    BY <2>1, <2>3, FileFacts
  <2> QED BY <2>2, <2>4, <1>3, <1>5 DEF PathDone
<1> QED BY <1>7, <1>8, <1>9, <1>10

LEMMA MkdirDone ==
  ASSUME TreeInv(tree), session = NoFile, NEW call \in PathCalls, NEW e, e = do_mkdir(call)
  PROVE  PathDone(call, e)
<1>1. PICK m : m = mkdir_path(tree, call.path)
  OBVIOUS
<1>2. call.path \in Seq(Names) /\ call.cmd # "open"
  BY CallFacts
<1>3. /\ TreeInv(m.tree) /\ m.result \in {"ok", "error", "hang"}
      /\ m.result = "hang" => m.tree.again
  BY <1>1, <1>2, MkdirSound DEF Makings
<1>4. PICK fate : fate = IF m.result = "hang" THEN "hang" ELSE "reply"
  OBVIOUS
<1>5. e = Effect(m.tree, session, m.result, fate)
  BY <1>1, <1>4 DEF do_mkdir
<1>6. e.tree = m.tree /\ e.file = NoFile /\ e.answer = m.result /\ e.fate = fate
  BY <1>5, EffectIs
<1> QED BY <1>2, <1>3, <1>4, <1>6, FileFacts DEF PathDone

LEMMA RemoveDone ==
  ASSUME TreeInv(tree), session = NoFile, NEW call \in PathCalls, NEW e, e = do_remove(call)
  PROVE  PathDone(call, e)
<1>1. PICK i, p : i = resolve(tree, call.path) /\ p = tree.parent[i]
  OBVIOUS
<1>2. PICK r : r = remove(tree, p, i)
  OBVIOUS
<1>3. call.path \in Seq(Names) /\ call.cmd # "open" /\ Typed(tree)
  BY CallFacts DEF TreeInv
<1>4. i \in Spots(tree) /\ i \in Nodes \cup {NoNode, Endless}
  <2>1. i \in Spots(tree)
    BY <1>1, <1>3, Resolved
  <2> QED BY <2>1 DEF Spots, InUse
<1>5. e = IF i = Endless THEN Effect(tree, session, "error", "hang")
          ELSE IF i = NoNode \/ i = Root THEN Effect(tree, session, "error", "reply")
          ELSE IF p = NoNode THEN Effect(tree, session, "error", "reply")
          ELSE Effect(r.tree, session, r.result, IF r.result = "hang" THEN "hang" ELSE "reply")
  BY <1>1, <1>2 DEF do_remove, Answered, Lost
<1>6. CASE i = Endless
  <2>1. e.tree = tree /\ e.file = NoFile /\ e.answer = "error" /\ e.fate = "hang"
    BY <1>5, <1>6, EffectIs
  <2>2. tree.again
    BY <1>4, <1>6, EndlessAgain
  <2> QED BY <2>1, <2>2, <1>3, FileFacts DEF PathDone
<1>7. CASE i # Endless /\ (i = NoNode \/ i = Root \/ p = NoNode)
  <2>1. e.tree = tree /\ e.file = NoFile /\ e.answer = "error" /\ e.fate = "reply"
    BY <1>5, <1>7, EffectIs
  <2> QED BY <2>1, <1>3, FileFacts DEF PathDone
<1>8. CASE i # Endless /\ ~(i = NoNode \/ i = Root \/ p = NoNode)
  <2>1. i \in Nodes \ {Root}
    BY <1>4, <1>8
  <2>2. p \in Nodes
    <3>1. p \in Links
      BY <1>1, <1>3, <2>1, TypedFacts, ZenonT(30)
    <3> QED BY <3>1, <1>8 DEF Links
  <2>3. /\ TreeInv(r.tree) /\ r.result \in {"ok", "error", "hang"}
        /\ r.result = "hang" => r.tree.again
    BY <1>1, <1>2, <2>1, <2>2, RemoveSound
  <2>4. PICK fate : fate = IF r.result = "hang" THEN "hang" ELSE "reply"
    OBVIOUS
  <2>5. e = Effect(r.tree, session, r.result, fate)
    BY <1>5, <1>8, <2>4
  <2>6. e.tree = r.tree /\ e.file = NoFile /\ e.answer = r.result /\ e.fate = fate
    BY <2>5, EffectIs
  <2> QED BY <2>3, <2>4, <2>6, <1>3, FileFacts DEF PathDone
<1> QED BY <1>6, <1>7, <1>8

LEMMA StatDone ==
  ASSUME TreeInv(tree), session = NoFile, NEW call \in PathCalls, NEW e, e = do_stat(call)
  PROVE  PathDone(call, e)
<1>1. PICK i : i = resolve(tree, call.path)
  OBVIOUS
<1>2. call.path \in Seq(Names) /\ call.cmd # "open" /\ Typed(tree)
  BY CallFacts DEF TreeInv
<1>3. i \in Spots(tree)
  BY <1>1, <1>2, Resolved
<1>4. CASE i = Endless
  <2>1. e = Effect(tree, session, "error", "hang")
    BY <1>1, <1>4 DEF do_stat, Lost
  <2>2. e.tree = tree /\ e.file = NoFile /\ e.answer = "error" /\ e.fate = "hang"
    BY <2>1, EffectIs
  <2>3. tree.again
    BY <1>3, <1>4, EndlessAgain
  <2> QED BY <2>2, <2>3, <1>2, FileFacts DEF PathDone
<1>5. CASE i # Endless
  <2>1. e = Effect(tree, session, "ok", "reply")
    BY <1>1, <1>5 DEF do_stat, Answered
  <2>2. e.tree = tree /\ e.file = NoFile /\ e.answer = "ok" /\ e.fate = "reply"
    BY <2>1, EffectIs
  <2> QED BY <2>2, <1>2, FileFacts DEF PathDone
<1> QED BY <1>4, <1>5

\* The bytes the client has seen after a call on its file.
Seen(call, e) == IF call.cmd \in {"read", "write"} THEN copied + Moved(call, e.file) ELSE copied

\* A command on the open file.
FileDone(call, e) ==
  /\ TreeInv(e.tree) /\ e.answer \in {"ok", "error"} /\ e.fate \in {"reply", "panic"}
  /\ e.fate = "panic" => call.cmd \in {"write", "readdir"}
  /\ e.file \in FileType /\ (call.cmd = "close" <=> e.file = NoFile)
  /\ Seen(call, e) \in Int
  /\ e.file.node \in Nodes /\ e.tree.size[e.file.node] <= InlineMax => e.file.offset = Seen(call, e)

\* A call that leaves file and offset alone.
LEMMA StandsStill ==
  ASSUME copied \in Int, ShortFilesReadWhole, session \in FileType \ {NoFile}, TreeInv(tree),
         NEW call, call.cmd \in {"read", "write", "readdir"}, NEW answer \in {"ok", "error"},
         NEW fate \in {"reply", "panic"}, fate = "panic" => call.cmd \in {"write", "readdir"},
         NEW e, e = Effect(tree, session, answer, fate)
  PROVE  FileDone(call, e)
<1>1. e.tree = tree /\ e.file = session /\ e.answer = answer /\ e.fate = fate
  BY EffectIs
<1>2. session.offset \in Int
  BY FileFacts, NodeFacts
<1>3. session.offset - session.offset = 0
  BY <1>2
<1>4. Min({0, InlineMax}) = 0
  BY FilesAssumption, MinMaxOfTwo
<1>5. Moved(call, session) = 0
  BY <1>3, <1>4 DEF Moved
<1>6. Seen(call, e) = copied
  BY <1>1, <1>5 DEF Seen
<1> QED BY <1>1, <1>6 DEF FileDone, ShortFilesReadWhole

LEMMA ReadDone ==
  ASSUME copied \in Int, ShortFilesReadWhole, session \in FileType \ {NoFile}, TreeInv(tree),
         NEW call, call.cmd = "read", NEW e, e = do_read
  PROVE  FileDone(call, e)
<1>1. PICK got : got = Readable(tree, session.node, session.offset, ReadBuffer)
  OBVIOUS
<1>2. e = IF session = Tty THEN Effect(tree, session, "ok", "reply")
          ELSE IF tree.kind[session.node] = "none" THEN Effect(tree, session, "error", "reply")
          ELSE IF got <= 0 THEN Effect(tree, session, "ok", "reply")
          ELSE Effect(tree, [session EXCEPT !.offset = @ + got], "ok", "reply")
  BY <1>1 DEF do_read, Answered
<1>3. CASE session = Tty \/ tree.kind[session.node] = "none" \/ got <= 0
  <2>1. PICK answer \in {"ok", "error"} : e = Effect(tree, session, answer, "reply")
    BY <1>2, <1>3
  <2> QED BY <2>1, StandsStill
<1>4. CASE ~(session = Tty \/ tree.kind[session.node] = "none" \/ got <= 0)
  <2>1. PICK i, o : i = session.node /\ o = session.offset
    OBVIOUS
  <2>2. i \in Nodes /\ o \in 0..FileSize /\ FileSize \in Nat
    BY <2>1, <1>4, FileFacts, NodeFacts
  <2>3. session = [node |-> i, offset |-> o]
    <3>1. session \in [node : Nodes, offset : 0..FileSize]
      BY <1>4 DEF FileType
    <3> QED BY <3>1, <2>1
  <2>4. PICK z : z = tree.size[i]
    OBVIOUS
  <2>5. z \in 0..FileSize
    BY <2>2, <2>4, TypedFacts DEF TreeInv
  <2>6. ReadBuffer \in Nat /\ InlineMax \in Nat
    BY FilesAssumption
  <2>7. got = Min({ReadBuffer, z - o})
    BY <1>1, <2>1, <2>4 DEF Readable
  <2>8. got \in Int /\ got <= z - o
    <3>1. z - o \in Int
      BY <2>2, <2>5
    <3>2. Min({ReadBuffer, z - o}) = IF ReadBuffer <= z - o THEN ReadBuffer ELSE z - o
      BY <3>1, <2>6, MinMaxOfTwo
    <3> QED BY <2>2, <2>5, <2>6, <2>7, <3>1, <3>2
  <2>9. got > 0
    BY <1>4, <2>8
  <2>10. o + got \in 0..FileSize
    BY <2>2, <2>5, <2>8, <2>9
  <2>11. PICK f : f = [node |-> i, offset |-> o + got]
    OBVIOUS
  <2>12. e.tree = tree /\ e.file = f /\ e.answer = "ok" /\ e.fate = "reply"
    <3>1. [session EXCEPT !.offset = @ + got] = f
      BY <2>3, <2>11
    <3>2. e = Effect(tree, f, "ok", "reply")
      BY <1>2, <1>4, <3>1
    <3> QED BY <3>2, EffectIs
  <2>13. f \in FileType \ {NoFile, Tty} /\ f.node = i /\ f.offset = o + got
    BY <2>2, <2>10, <2>11, FileFacts
  <2>14. f.offset - session.offset = got
    BY <2>1, <2>2, <2>8, <2>13
  <2>15. Moved(call, f) = IF got <= InlineMax THEN got ELSE InlineMax
    <3>1. Moved(call, f) = Min({got, InlineMax})
      BY <2>14 DEF Moved
    <3> QED BY <3>1, <2>6, <2>8, MinMaxOfTwo
  <2>16. Seen(call, e) = copied + (IF got <= InlineMax THEN got ELSE InlineMax)
    BY <2>12, <2>15 DEF Seen
  <2>17. Seen(call, e) \in Int
    BY <2>6, <2>8, <2>16
  <2>18. ASSUME z <= InlineMax
         PROVE  f.offset = Seen(call, e)
    <3>1. o = copied
      BY <2>1, <2>2, <2>4, <2>18 DEF ShortFilesReadWhole
    <3>2. got <= InlineMax
      BY <2>2, <2>5, <2>6, <2>8, <2>18
    <3> QED BY <3>1, <3>2, <2>13, <2>16
  <2> QED BY <2>4, <2>12, <2>13, <2>17, <2>18 DEF FileDone
<1> QED BY <1>3, <1>4

LEMMA WriteDone ==
  ASSUME copied \in Int, ShortFilesReadWhole, session \in FileType \ {NoFile}, TreeInv(tree),
         NEW call \in FileCalls, call.cmd = "write", NEW e, e = do_write(call)
  PROVE  FileDone(call, e)
<1>1. PICK n : n = Writable(session.offset, call.count)
  OBVIOUS
<1>2. e = IF call.count > InlineMax THEN Effect(tree, session, "error", "panic")
          ELSE IF session = Tty THEN Effect(tree, session, "ok", "reply")
          ELSE IF tree.kind[session.node] # "file" THEN Effect(tree, session, "error", "reply")
          ELSE Effect(Grown(tree, session.node, session.offset + n),
                      [session EXCEPT !.offset = @ + n], "ok", "reply")
  BY <1>1, Zenon DEF do_write, Answered, Lost
<1>3. CASE call.count > InlineMax \/ session = Tty \/ tree.kind[session.node] # "file"
  <2>1. PICK answer \in {"ok", "error"}, fate \in {"reply", "panic"} :
          e = Effect(tree, session, answer, fate)
    BY <1>2, <1>3
  <2> QED BY <2>1, StandsStill
<1>4. CASE ~(call.count > InlineMax \/ session = Tty \/ tree.kind[session.node] # "file")
  <2>1. PICK i, o : i = session.node /\ o = session.offset
    OBVIOUS
  <2>2. i \in Nodes /\ o \in 0..FileSize /\ FileSize \in Nat
    BY <2>1, <1>4, FileFacts, NodeFacts
  <2>3. session = [node |-> i, offset |-> o]
    <3>1. session \in [node : Nodes, offset : 0..FileSize]
      BY <1>4 DEF FileType
    <3> QED BY <3>1, <2>1
  <2>4. PICK z : z = tree.size[i]
    OBVIOUS
  <2>5. z \in 0..FileSize
    BY <2>2, <2>4, TypedFacts DEF TreeInv
  <2>6. call.count \in Nat /\ InlineMax \in Nat
    <3>1. call.count \in {1, InlineMax + 1}
      BY CallFacts
    <3> QED BY <3>1, FilesAssumption
  <2>7. n = Min({call.count, FileSize - o})
    BY <1>1, <2>1 DEF Writable
  <2>8. n \in Nat /\ n <= FileSize - o
    <3>1. FileSize - o \in Nat
      BY <2>2
    <3>2. Min({call.count, FileSize - o}) = IF call.count <= FileSize - o THEN call.count ELSE FileSize - o
      BY <3>1, <2>6, MinMaxOfTwo
    <3> QED BY <2>6, <2>7, <3>1, <3>2
  <2>9. PICK end : end = o + n
    OBVIOUS
  <2>10. end \in 0..FileSize
    BY <2>2, <2>8, <2>9
  <2>11. PICK f, v : f = [node |-> i, offset |-> end] /\ v = Grown(tree, i, end)
    OBVIOUS
  <2>12. e.tree = v /\ e.file = f /\ e.answer = "ok" /\ e.fate = "reply"
    <3>1. [session EXCEPT !.offset = @ + n] = f
      BY <2>3, <2>9, <2>11
    <3>2. Grown(tree, session.node, session.offset + n) = v
      BY <2>1, <2>9, <2>11
    <3>3. e = Effect(v, f, "ok", "reply")
      BY <1>2, <1>4, <3>1, <3>2
    <3> QED BY <3>3, EffectIs
  <2>13. f \in FileType \ {NoFile, Tty} /\ f.node = i /\ f.offset = end
    BY <2>2, <2>10, <2>11, FileFacts
  <2>14. TreeInv(v)
    BY <2>2, <2>10, <2>11, GrownSound
  <2>15. v.size[i] = IF end > z THEN end ELSE z
    BY <2>2, <2>4, <2>10, <2>11, GrownIs DEF TreeInv
  <2>16. f.offset - session.offset = n
    BY <2>1, <2>2, <2>8, <2>9, <2>13
  <2>17. Moved(call, f) = n
    BY <2>16 DEF Moved
  <2>18. Seen(call, e) = copied + n
    BY <2>12, <2>17 DEF Seen
  <2>19. Seen(call, e) \in Int
    BY <2>8, <2>18
  <2>20. ASSUME v.size[i] <= InlineMax
         PROVE  f.offset = Seen(call, e)
    <3>1. z <= InlineMax
      BY <2>5, <2>6, <2>10, <2>15, <2>20
    <3>2. o = copied
      BY <2>1, <2>2, <2>4, <3>1 DEF ShortFilesReadWhole
    <3> QED BY <3>2, <2>9, <2>13, <2>18
  <2> QED BY <2>12, <2>13, <2>14, <2>19, <2>20 DEF FileDone
<1> QED BY <1>3, <1>4

\* handle_cmd on the open file.
LEMMA FileCommands ==
  ASSUME copied \in Int, ShortFilesReadWhole, session \in FileType \ {NoFile}, TreeInv(tree),
         NEW call \in FileCalls, NEW e, e = handle_cmd(call)
  PROVE  FileDone(call, e)
<1>1. call.cmd \in {"read", "write", "readdir", "close"}
  BY CallFacts
<1>2. CASE call.cmd = "read"
  <2>1. handle_cmd(call) = do_read
    BY <1>2 DEF handle_cmd
  <2> QED BY <1>2, <2>1, ReadDone
<1>3. CASE call.cmd = "write"
  <2>1. handle_cmd(call) = do_write(call)
    BY <1>3 DEF handle_cmd
  <2> QED BY <1>3, <2>1, WriteDone
<1>4. CASE call.cmd = "readdir"
  <2>1. handle_cmd(call) = do_readdir
    BY <1>4 DEF handle_cmd
  <2>2. PICK answer \in {"ok", "error"}, fate \in {"reply", "panic"} :
          e = Effect(tree, session, answer, fate)
    <3>1. CASE session = Tty
      BY <2>1, <3>1 DEF do_readdir, Lost
    <3>2. CASE session # Tty
      BY <2>1, <3>2 DEF do_readdir, Answered
    <3> QED BY <3>1, <3>2
  <2> QED BY <1>4, <2>2, StandsStill
<1>5. CASE call.cmd = "close"
  <2>1. handle_cmd(call) = do_close
    BY <1>5 DEF handle_cmd
  <2>2. e = Effect(tree, NoFile, "ok", "reply")
    BY <2>1 DEF do_close, Answered
  <2>3. e.tree = tree /\ e.file = NoFile /\ e.answer = "ok" /\ e.fate = "reply"
    BY <2>2, EffectIs
  <2>4. Seen(call, e) = copied
    BY <1>5 DEF Seen
  <2> QED BY <1>5, <2>3, <2>4, FileFacts DEF FileDone
<1> QED BY <1>1, <1>2, <1>3, <1>4, <1>5

\* handle_cmd in a session of its own.
LEMMA PathCommands ==
  ASSUME session = NoFile, TreeInv(tree), NEW call \in OpenCalls \cup PathCalls,
         NEW e, e = handle_cmd(call)
  PROVE  PathDone(call, e)
<1>1. CASE call \in OpenCalls
  <2>1. call.cmd = "open"
    BY <1>1, CallFacts
  <2>2. handle_cmd(call) = do_open(call)
    BY <2>1 DEF handle_cmd
  <2> QED BY <1>1, <2>2, OpenDone
<1>2. CASE call \in PathCalls
  <2>1. call.cmd \in {"mkdir", "rmdir", "unlink", "stat"}
    BY <1>2, CallFacts
  <2>2. CASE call.cmd = "mkdir"
    <3>1. handle_cmd(call) = do_mkdir(call)
      BY <2>2 DEF handle_cmd
    <3> QED BY <1>2, <3>1, MkdirDone
  <2>3. CASE call.cmd \in {"rmdir", "unlink"}
    <3>1. handle_cmd(call) = do_remove(call)
      BY <2>3 DEF handle_cmd
    <3> QED BY <1>2, <3>1, RemoveDone
  <2>4. CASE call.cmd = "stat"
    <3>1. handle_cmd(call) = do_stat(call)
      BY <2>4 DEF handle_cmd
    <3> QED BY <1>2, <3>1, StatDone
  <2> QED BY <2>1, <2>2, <2>3, <2>4
<1> QED BY <1>1, <1>2

-----------------------------------------------------------------------------
(* The steps of the clients. *)

Pcs == {"idle", "connect", "send", "wait", "hangup", "exited"}

\* Client c is the only one that changes.
Becomes(c, pc, call, open) ==
  /\ client' \in [Clients -> ClientType]
  /\ client'[c].pc = pc /\ client'[c].call = call /\ client'[c].open = open
  /\ \A d \in Clients \ {c} : client'[d] = client[d]

\* The record of a client.
LEMMA ClientIs ==
  ASSUME FilesTypes, NEW c \in Clients
  PROVE  /\ client[c].pc \in Pcs /\ client[c].call \in Calls \cup Answers /\ client[c].open \in BOOLEAN
         /\ client[c] = [pc |-> client[c].pc, call |-> client[c].call, open |-> client[c].open]
  BY DEF FilesTypes, ClientType, Pcs

\* What the steps make of it.
At(x, pc) == [x EXCEPT !.pc = pc]

Doing(x, pc, call) == [x EXCEPT !.pc = pc, !.call = call]

With(x, pc, call, open) == [x EXCEPT !.pc = pc, !.call = call, !.open = open]

LEMMA AtIs ==
  ASSUME FilesTypes, NEW c \in Clients, NEW pc
  PROVE  At(client[c], pc) = [pc |-> pc, call |-> client[c].call, open |-> client[c].open]
<1>1. PICK x, p, k, o : x = client[c] /\ p = x.pc /\ k = x.call /\ o = x.open
  OBVIOUS
<1>2. x = [pc |-> p, call |-> k, open |-> o]
  BY <1>1, ClientIs
<1>3. At(x, pc) = [pc |-> pc, call |-> k, open |-> o]
  BY <1>2 DEF At
<1> QED BY <1>1, <1>3

LEMMA DoingIs ==
  ASSUME FilesTypes, NEW c \in Clients, NEW pc, NEW call
  PROVE  Doing(client[c], pc, call) = [pc |-> pc, call |-> call, open |-> client[c].open]
<1>1. PICK x, u : x = client[c] /\ u = Doing(x, pc, call)
  OBVIOUS
<1>2. DOMAIN x = {"pc", "call", "open"}
  BY <1>1, ClientIs
<1>3. u = [f \in {"pc", "call", "open"} |-> u[f]]
  BY <1>1, <1>2 DEF Doing
<1>4. u.pc = pc /\ u.call = call /\ u.open = x.open
  BY <1>1, <1>2 DEF Doing
<1> QED BY <1>1, <1>3, <1>4

LEMMA WithIs ==
  ASSUME FilesTypes, NEW c \in Clients, NEW pc, NEW call, NEW open
  PROVE  With(client[c], pc, call, open) = [pc |-> pc, call |-> call, open |-> open]
<1>1. PICK x, u : x = client[c] /\ u = With(x, pc, call, open)
  OBVIOUS
<1>2. DOMAIN x = {"pc", "call", "open"}
  BY <1>1, ClientIs
<1>3. u = [f \in {"pc", "call", "open"} |-> u[f]]
  BY <1>1, <1>2 DEF With
<1>4. u.pc = pc /\ u.call = call /\ u.open = open
  BY <1>1, <1>2 DEF With
<1> QED BY <1>1, <1>3, <1>4

LEMMA ClientBecomes ==
  ASSUME FilesTypes, NEW c \in Clients, NEW pc \in Pcs, NEW call \in Calls \cup Answers,
         NEW open \in BOOLEAN,
         client' = [client EXCEPT ![c] = [pc |-> pc, call |-> call, open |-> open]]
  PROVE  Becomes(c, pc, call, open)
<1>1. PICK r : r = [pc |-> pc, call |-> call, open |-> open]
  OBVIOUS
<1>2. r \in ClientType /\ r.pc = pc /\ r.call = call /\ r.open = open
  BY <1>1 DEF ClientType, Pcs
<1>3. client' = [client EXCEPT ![c] = r] /\ client \in [Clients -> ClientType]
  BY <1>1 DEF FilesTypes
<1>4. client' \in [Clients -> ClientType] /\ client'[c] = r
  BY <1>2, <1>3
<1>5. \A d \in Clients \ {c} : client'[d] = client[d]
  BY <1>3
<1> QED BY <1>2, <1>4, <1>5 DEF Becomes

LEMMA ConnectKeeps ==
  ASSUME FilesInv, NEW c \in Clients, NEW call \in OpenCalls \cup PathCalls, Connect(c, call)
  PROVE  FilesInv'
<1>1. FilesTypes /\ Queued /\ OneSession /\ InSession
  BY DEF FilesInv
<1>2. /\ client[c].pc = "idle" /\ calls < MaxCalls /\ calls' = calls + 1 /\ queue' = Append(queue, c)
      /\ tree' = tree /\ server' = server /\ session' = session /\ link' = link /\ copied' = copied
      /\ client' = [client EXCEPT ![c] = Doing(client[c], "connect", call)]
  BY DEF Connect, Doing
<1>3. Becomes(c, "connect", call, client[c].open)
  <2>1. Doing(client[c], "connect", call)
          = [pc |-> "connect", call |-> call, open |-> client[c].open]
    BY <1>1, DoingIs
  <2>2. call \in Calls \cup Answers /\ "connect" \in Pcs
    BY DEF Calls, Pcs
  <2>3. client[c].open \in BOOLEAN
    BY <1>1, ClientIs
  <2>4. client' = [client EXCEPT ![c] = [pc |-> "connect", call |-> call, open |-> client[c].open]]
    BY <1>2, <2>1
  <2> QED BY <1>1, <2>2, <2>3, <2>4, ClientBecomes
<1>4. /\ queue \in Seq(Clients) /\ link.to \in Clients /\ calls \in 0..MaxCalls /\ MaxCalls \in Nat
  BY <1>1, FilesAssumption DEF FilesTypes
<1>5. FilesTypes'
  <2>1. queue' \in Seq(Clients)
    BY <1>2, <1>4
  <2>2. calls' \in 0..MaxCalls
    BY <1>2, <1>4
  <2> QED BY <1>1, <1>2, <1>3, <2>1, <2>2 DEF FilesTypes, Becomes
<1>6. Queued'
  <2>1. PICK n \in Nat : n = Len(queue)
    BY <1>4
  <2>2. /\ Len(queue') = n + 1 /\ queue'[n + 1] = c /\ n + 1 \in 1..(n + 1)
        /\ \A k \in 1..n : queue'[k] = queue[k] /\ k \in 1..(n + 1)
        /\ \A k \in 1..(n + 1) : k \in 1..n \/ k = n + 1
    BY <1>2, <1>4, <2>1
  <2>3. \A k \in 1..n : queue[k] # c
    BY <1>1, <1>2, <2>1 DEF Queued
  <2>4. \A j, k \in 1..(n + 1) : queue'[j] = queue'[k] => j = k
    BY <1>1, <2>1, <2>2, <2>3 DEF Queued
  <2>5. ASSUME NEW d \in Clients
        PROVE  /\ client'[d].pc = "connect" <=> \E k \in 1..(n + 1) : queue'[k] = d
               /\ client'[d].pc = "connect" => client'[d].call \in OpenCalls \cup PathCalls
    <3>1. CASE d = c
      BY <3>1, <2>2, <1>3 DEF Becomes
    <3>2. CASE d # c
      <4>1. client'[d] = client[d]
        BY <3>2, <1>3 DEF Becomes
      <4>2. (\E k \in 1..(n + 1) : queue'[k] = d) <=> (\E k \in 1..n : queue[k] = d)
        BY <3>2, <2>2
      <4> QED BY <4>1, <4>2, <2>1, <1>1 DEF Queued
    <3> QED BY <3>1, <3>2
  <2> QED BY <2>2, <2>4, <2>5 DEF Queued
<1>7. OneSession'
  BY <1>1, <1>2, <1>3 DEF OneSession, Becomes
<1>8. InSession' /\ OnlyKnownDeaths'
  <2>1. CASE link.to = c
    <3>1. server # "panic"
      BY <1>1, <1>2, <2>1 DEF InSession
    <3>2. client'[link.to].pc = "connect" /\ client'[link.to].open = client[link.to].open
      BY <1>3, <2>1 DEF Becomes
    <3>3. client[link.to].open => session # NoFile
      BY <1>1, <1>2, <2>1 DEF InSession
    <3> QED BY <1>2, <3>1, <3>2, <3>3 DEF InSession, OnlyKnownDeaths, FilesInv
  <2>2. CASE link.to # c
    <3>1. client'[link.to] = client[link.to]
      BY <1>3, <1>4, <2>2 DEF Becomes
    <3> QED BY <1>1, <1>2, <3>1 DEF InSession, OnlyKnownDeaths, FilesInv
  <2> QED BY <2>1, <2>2
<1>9. TreeInv(tree') /\ ShortFilesReadWhole'
  BY <1>2 DEF FilesInv, ShortFilesReadWhole
<1> QED BY <1>5, <1>6, <1>7, <1>8, <1>9 DEF FilesInv

\* A step of client c that leaves the queue alone.
LEMMA QueueKept ==
  ASSUME FilesInv, NEW c \in Clients, client[c].pc # "connect", NEW pc \in Pcs \ {"connect"},
         NEW call, NEW open, Becomes(c, pc, call, open), queue' = queue
  PROVE  Queued'
<1>1. Queued
  BY DEF FilesInv
<1>2. ASSUME NEW d \in Clients
      PROVE  /\ client'[d].pc = "connect" <=> client[d].pc = "connect"
             /\ client[d].pc = "connect" => client'[d].call = client[d].call
  <2>1. CASE d = c
    BY <2>1 DEF Becomes
  <2>2. CASE d # c
    BY <2>2 DEF Becomes
  <2> QED BY <2>1, <2>2
<1> QED BY <1>1, <1>2 DEF Queued

LEMMA UseFileKeeps ==
  ASSUME FilesInv, NEW c \in Clients, NEW call \in FileCalls, UseFile(c, call)
  PROVE  FilesInv'
<1>1. FilesTypes /\ Queued /\ OneSession /\ InSession
  BY DEF FilesInv
<1>2. /\ client[c].pc = "idle" /\ client[c].open /\ queue' = queue
      /\ tree' = tree /\ server' = server /\ session' = session /\ link' = link /\ copied' = copied
      /\ client' = [client EXCEPT ![c] = Doing(client[c], "send", call)]
  BY DEF UseFile, Doing
<1>3. Becomes(c, "send", call, TRUE)
  <2>1. Doing(client[c], "send", call)
          = [pc |-> "send", call |-> call, open |-> TRUE]
    <3>1. client[c].open = TRUE
      BY <1>1, <1>2, ClientIs
    <3>2. Doing(client[c], "send", call) = [pc |-> "send", call |-> call, open |-> client[c].open]
      BY <1>1, DoingIs
    <3> QED BY <3>1, <3>2
  <2>2. call \in Calls \cup Answers /\ "send" \in Pcs /\ TRUE \in BOOLEAN
    BY DEF Calls, Pcs
  <2> QED BY <1>1, <1>2, <2>1, <2>2, ClientBecomes
<1>4. link.up /\ link.to = c
  BY <1>1, <1>2 DEF OneSession
<1>5. FilesTypes'
  <2>1. calls \in 0..MaxCalls /\ MaxCalls \in Nat
    BY <1>1, FilesAssumption DEF FilesTypes
  <2>2. calls' \in 0..MaxCalls
    BY <2>1 DEF UseFile
  <2> QED BY <1>1, <1>2, <1>3, <2>2 DEF FilesTypes, Becomes
<1>6. Queued'
  BY <1>2, <1>3, QueueKept DEF Pcs
<1>7. OneSession'
  BY <1>1, <1>2, <1>3, <1>4 DEF OneSession, Becomes
<1>8. server # "panic" /\ session # NoFile
  BY <1>1, <1>2, <1>4 DEF InSession
<1>9. InSession' /\ OnlyKnownDeaths'
  <2>1. client'[link.to].pc = "send" /\ client'[link.to].open /\ client'[link.to].call = call
    BY <1>3, <1>4 DEF Becomes
  <2> QED BY <1>2, <1>8, <2>1 DEF InSession, OnlyKnownDeaths, FilesInv
<1>10. TreeInv(tree') /\ ShortFilesReadWhole'
  BY <1>2 DEF FilesInv, ShortFilesReadWhole
<1> QED BY <1>5, <1>6, <1>7, <1>9, <1>10 DEF FilesInv

LEMMA ExitKeeps ==
  ASSUME FilesInv, NEW c \in Clients, Exit(c)
  PROVE  FilesInv'
<1>1. FilesTypes /\ Queued /\ OneSession /\ InSession
  BY DEF FilesInv
<1>2. /\ client[c].pc = "idle" /\ queue' = queue /\ calls' = calls
      /\ tree' = tree /\ server' = server /\ session' = session /\ link' = link /\ copied' = copied
      /\ client' = [client EXCEPT ![c] = At(client[c], "exited")]
  BY DEF Exit, At
<1>3. Becomes(c, "exited", client[c].call, client[c].open)
  <2>1. At(client[c], "exited")
          = [pc |-> "exited", call |-> client[c].call, open |-> client[c].open]
    BY <1>1, AtIs
  <2>2. "exited" \in Pcs
    BY DEF Pcs
  <2>3. client[c].call \in Calls \cup Answers /\ client[c].open \in BOOLEAN
    BY <1>1, ClientIs
  <2>4. client' = [client EXCEPT ![c] = [pc |-> "exited", call |-> client[c].call, open |-> client[c].open]]
    BY <1>2, <2>1
  <2> QED BY <1>1, <2>2, <2>3, <2>4, ClientBecomes
<1>4. FilesTypes'
  BY <1>1, <1>2, <1>3 DEF FilesTypes, Becomes
<1>5. Queued'
  BY <1>2, <1>3, QueueKept DEF Pcs
<1>6. OneSession'
  BY <1>1, <1>2, <1>3 DEF OneSession, Becomes
<1>7. InSession' /\ OnlyKnownDeaths'
  <2>1. CASE link.to = c
    <3>1. server # "panic"
      BY <1>1, <1>2, <2>1 DEF InSession
    <3>2. client'[link.to].pc = "exited" /\ client'[link.to].open = client[link.to].open
      BY <1>3, <2>1 DEF Becomes
    <3>3. client[link.to].open => session # NoFile
      BY <1>1, <1>2, <2>1 DEF InSession
    <3> QED BY <1>2, <3>1, <3>2, <3>3 DEF InSession, OnlyKnownDeaths, FilesInv
  <2>2. CASE link.to # c
    <3>1. client'[link.to] = client[link.to]
      BY <1>1, <1>3, <2>2 DEF Becomes, FilesTypes
    <3> QED BY <1>1, <1>2, <3>1 DEF InSession, OnlyKnownDeaths, FilesInv
  <2> QED BY <2>1, <2>2
<1>8. TreeInv(tree') /\ ShortFilesReadWhole'
  BY <1>2 DEF FilesInv, ShortFilesReadWhole
<1> QED BY <1>4, <1>5, <1>6, <1>7, <1>8 DEF FilesInv

LEMMA HangupKeeps ==
  ASSUME FilesInv, NEW c \in Clients, Hangup(c)
  PROVE  FilesInv'
<1>1. FilesTypes /\ Queued /\ OneSession /\ InSession
  BY DEF FilesInv
<1>2. /\ client[c].pc = "hangup" /\ queue' = queue /\ calls' = calls
      /\ tree' = tree /\ server' = server /\ session' = session /\ copied' = copied
      /\ link' = [link EXCEPT !.up = FALSE]
      /\ client' = [client EXCEPT ![c] = With(client[c], "idle", NoCall, FALSE)]
  BY DEF Hangup, With
<1>3. Becomes(c, "idle", NoCall, FALSE)
  <2>1. With(client[c], "idle", NoCall, FALSE)
          = [pc |-> "idle", call |-> NoCall, open |-> FALSE]
    <3>1. \A o : With(client[c], "idle", NoCall, o) = [pc |-> "idle", call |-> NoCall, open |-> o]
      BY <1>1, WithIs
    <3> QED BY <3>1
  <2>2. "idle" \in Pcs /\ NoCall \in Calls \cup Answers /\ FALSE \in BOOLEAN
    BY DEF Pcs, Calls
  <2> QED BY <1>1, <1>2, <2>1, <2>2, ClientBecomes
<1>4. link.up /\ link.to = c
  BY <1>1, <1>2 DEF OneSession
<1>5. link' \in [to : Clients, up : BOOLEAN] /\ link'.to = c /\ ~link'.up
  BY <1>1, <1>2, <1>4 DEF FilesTypes
<1>6. FilesTypes'
  BY <1>1, <1>2, <1>3, <1>5 DEF FilesTypes, Becomes
<1>7. Queued'
  BY <1>2, <1>3, QueueKept DEF Pcs
<1>8. OneSession'
  <2>1. ASSUME NEW d \in Clients
        PROVE  ~client'[d].open /\ client'[d].pc \notin {"send", "wait", "hangup"}
    <3>1. CASE d = c
      BY <3>1, <1>3 DEF Becomes
    <3>2. CASE d # c
      BY <3>2, <1>1, <1>3, <1>4 DEF Becomes, OneSession
    <3> QED BY <3>1, <3>2
  <2> QED BY <2>1, <1>5 DEF OneSession
<1>9. InSession' /\ OnlyKnownDeaths'
  <2>1. client'[link'.to].pc = "idle" /\ ~client'[link'.to].open
    BY <1>3, <1>5 DEF Becomes
  <2>2. server # "panic"
    BY <1>1, <1>2, <1>4 DEF InSession
  <2> QED BY <1>2, <2>1, <2>2 DEF InSession, OnlyKnownDeaths, FilesInv
<1>10. TreeInv(tree') /\ ShortFilesReadWhole'
  BY <1>2 DEF FilesInv, ShortFilesReadWhole
<1> QED BY <1>6, <1>7, <1>8, <1>9, <1>10 DEF FilesInv

-----------------------------------------------------------------------------
(* The steps of the service. *)

LEMMA AcceptKeeps ==
  ASSUME FilesInv, Accept
  PROVE  FilesInv'
<1>1. FilesTypes /\ Queued /\ OneSession /\ InSession
  BY DEF FilesInv
<1>2. PICK c : c = Head(queue)
  OBVIOUS
<1>3. /\ server = "accept" /\ queue # <<>> /\ server' = "serve" /\ session' = NoFile
      /\ link' = [to |-> c, up |-> TRUE] /\ queue' = Tail(queue)
      /\ tree' = tree /\ copied' = copied /\ calls' = calls
      /\ client' = [client EXCEPT ![c] = At(client[c], "send")]
  BY <1>2 DEF Accept, At
<1>4. queue \in Seq(Clients)
  BY <1>1 DEF FilesTypes
<1>5. PICK n \in Nat : Len(queue) = n + 1
  <2>1. Len(queue) \in Nat \ {0}
    BY <1>3, <1>4
  <2>2. Len(queue) - 1 \in Nat /\ Len(queue) = (Len(queue) - 1) + 1
    BY <2>1
  <2> QED BY <2>2
<1>6. /\ queue' \in Seq(Clients) /\ Len(queue') = n /\ c = queue[1]
      /\ \A k \in 1..n : queue'[k] = queue[k + 1]
  BY <1>2, <1>3, <1>4, <1>5
<1>7. 1 \in 1..(n + 1) /\ c \in Clients /\ client[c].pc = "connect"
  <2>1. 1 \in 1..(n + 1)
    BY <1>5
  <2>2. c \in Clients
    BY <1>4, <1>5, <1>6, <2>1
  <2> QED BY <1>1, <1>5, <1>6, <2>1, <2>2 DEF Queued
<1>8. \A d \in Clients : ~client[d].open /\ client[d].pc \notin {"send", "wait", "hangup"}
  BY <1>1, <1>3 DEF OneSession
<1>9. Becomes(c, "send", client[c].call, client[c].open)
  <2>1. At(client[c], "send") = [pc |-> "send", call |-> client[c].call, open |-> client[c].open]
    BY <1>1, <1>7, AtIs
  <2>2. client[c].call \in Calls \cup Answers /\ client[c].open \in BOOLEAN /\ "send" \in Pcs
    BY <1>1, <1>7, ClientIs DEF Pcs
  <2>3. client' = [client EXCEPT ![c] = [pc |-> "send", call |-> client[c].call, open |-> client[c].open]]
    BY <1>3, <2>1
  <2> QED BY <1>1, <1>7, <2>2, <2>3, ClientBecomes
<1>10. link' \in [to : Clients, up : BOOLEAN] /\ link'.to = c /\ link'.up
  BY <1>3, <1>7
<1>11. FilesTypes'
  BY <1>1, <1>3, <1>6, <1>9, <1>10, FileFacts DEF FilesTypes, Becomes, ServerStates
<1>12. Queued'
  <2>1. \A k \in 1..n : k + 1 \in 1..(n + 1) /\ k + 1 # 1
    BY <1>5
  <2>2. \A k \in 1..(n + 1) : k = 1 \/ (k - 1 \in 1..n /\ (k - 1) + 1 = k)
    BY <1>5
  <2>3. \A j, k \in 1..(n + 1) : queue[j] = queue[k] => j = k
    BY <1>1, <1>5 DEF Queued
  <2>4. ASSUME NEW j \in 1..n, NEW k \in 1..n, queue'[j] = queue'[k]
        PROVE  j = k
    <3>1. queue[j + 1] = queue[k + 1]
      BY <1>6, <2>4
    <3>2. j + 1 = k + 1
      BY <3>1, <2>1, <2>3
    <3> QED BY <3>2
  <2>5. \A k \in 1..n : queue'[k] # c
    BY <1>6, <1>7, <2>1, <2>3
  <2>6. ASSUME NEW d \in Clients
        PROVE  /\ client'[d].pc = "connect" <=> \E k \in 1..n : queue'[k] = d
               /\ client'[d].pc = "connect" => client'[d].call \in OpenCalls \cup PathCalls
    <3>1. CASE d = c
      BY <3>1, <2>5, <1>9 DEF Becomes
    <3>2. CASE d # c
      <4>1. client'[d] = client[d]
        BY <3>2, <1>9 DEF Becomes
      <4>2. (\E k \in 1..n : queue'[k] = d) <=> (\E k \in 1..(n + 1) : queue[k] = d)
        <5>1. ASSUME NEW k \in 1..n, queue'[k] = d
              PROVE  \E m \in 1..(n + 1) : queue[m] = d
          BY <5>1, <2>1, <1>6
        <5>2. ASSUME NEW k \in 1..(n + 1), queue[k] = d
              PROVE  \E m \in 1..n : queue'[m] = d
          <6>1. k - 1 \in 1..n /\ (k - 1) + 1 = k
            BY <5>2, <3>2, <2>2, <1>6
          <6>2. queue'[k - 1] = d
            BY <6>1, <5>2, <1>6
          <6> QED BY <6>1, <6>2
        <5> QED BY <5>1, <5>2
      <4> QED BY <4>1, <4>2, <1>1, <1>5 DEF Queued
    <3> QED BY <3>1, <3>2
  <2> QED BY <2>4, <2>6, <1>6 DEF Queued
<1>13. OneSession'
  <2>1. ASSUME NEW d \in Clients \ {c}
        PROVE  ~client'[d].open /\ client'[d].pc \notin {"send", "wait", "hangup"}
    BY <1>8, <1>9 DEF Becomes
  <2> QED BY <2>1, <1>3, <1>10 DEF OneSession
<1>14. InSession' /\ OnlyKnownDeaths'
  <2>1. /\ client'[link'.to].pc = "send" /\ ~client'[link'.to].open
        /\ client'[link'.to].call = client[c].call
    BY <1>7, <1>8, <1>9, <1>10 DEF Becomes
  <2>2. client[c].call \in OpenCalls \cup PathCalls
    BY <1>1, <1>7 DEF Queued
  <2> QED BY <1>3, <2>1, <2>2 DEF InSession, OnlyKnownDeaths
<1>15. TreeInv(tree') /\ ShortFilesReadWhole'
  BY <1>3, FileFacts DEF FilesInv, ShortFilesReadWhole
<1> QED BY <1>11, <1>12, <1>13, <1>14, <1>15 DEF FilesInv

\* A step of the client of the session that leaves the session to it.
LEMMA SessionKept ==
  ASSUME FilesInv, server # "accept", NEW c \in Clients, c = link.to, link.up, link' = link,
         server' # "accept", NEW pc, NEW call, NEW open, Becomes(c, pc, call, open)
  PROVE  OneSession'
<1>1. OneSession
  BY DEF FilesInv
<1>2. ASSUME NEW d \in Clients \ {c}
      PROVE  ~client'[d].open /\ client'[d].pc \notin {"send", "wait", "hangup"}
  BY <1>1 DEF OneSession, Becomes
<1> QED BY <1>2 DEF OneSession

LEMMA ServeKeeps ==
  ASSUME FilesInv, Serve
  PROVE  FilesInv'
<1>1. FilesTypes /\ Queued /\ OneSession /\ InSession /\ TreeInv(tree) /\ ShortFilesReadWhole
  BY DEF FilesInv
<1>2. PICK c, call : c = link.to /\ call = client[c].call
  OBVIOUS
<1>3. PICK e : e = handle_cmd(call)
  OBVIOUS
<1>4. PICK pc, said : pc = (IF call.cmd = "close" THEN "hangup" ELSE "wait")
                      /\ said = [cmd |-> call.cmd, answer |-> e.answer]
  OBVIOUS
<1>5. /\ server = "serve" /\ link.up /\ client[c].pc = "send"
      /\ tree' = e.tree /\ session' = e.file /\ server' = e.fate
      /\ client' = [client EXCEPT ![c] = Doing(client[c], pc, said)]
      /\ copied' = IF call.cmd = "open" THEN 0
                   ELSE IF call.cmd \in {"read", "write"} THEN copied + Moved(call, e.file) ELSE copied
      /\ link' = link /\ queue' = queue /\ calls' = calls
  BY <1>2, <1>3, <1>4 DEF Serve, Doing
<1>6. c \in Clients /\ copied \in Int /\ session \in FileType
  BY <1>1, <1>2 DEF FilesTypes
<1>7. pc \in Pcs \ {"connect"} /\ pc \in {"wait", "hangup"} /\ said.cmd = call.cmd /\ said.answer = e.answer
  BY <1>4 DEF Pcs
<1>8. ASSUME said \in Answers
      PROVE  Becomes(c, pc, said, client[c].open)
  <2>1. Doing(client[c], pc, said) = [pc |-> pc, call |-> said, open |-> client[c].open]
    BY <1>1, <1>6, DoingIs
  <2>2. client[c].open \in BOOLEAN /\ said \in Calls \cup Answers /\ pc \in Pcs
    BY <1>1, <1>6, <1>7, <1>8, ClientIs
  <2>3. client' = [client EXCEPT ![c] = [pc |-> pc, call |-> said, open |-> client[c].open]]
    BY <1>5, <2>1
  <2> QED BY <1>1, <1>6, <2>2, <2>3, ClientBecomes
<1>9. ASSUME said \in Answers, e.file \in FileType, e.fate \in ServerStates \ {"accept"}, copied' \in Int
      PROVE  FilesTypes' /\ Queued' /\ OneSession'
  <2>1. Becomes(c, pc, said, client[c].open)
    BY <1>8, <1>9
  <2>2. FilesTypes'
    BY <1>1, <1>5, <1>9, <2>1 DEF FilesTypes, Becomes
  <2>3. Queued'
    BY <1>5, <1>6, <1>7, <2>1, QueueKept
  <2>4. OneSession'
    BY <1>2, <1>5, <1>6, <1>9, <2>1, SessionKept
  <2> QED BY <2>2, <2>3, <2>4
<1>10. CASE client[c].open
  <2>1. call \in FileCalls /\ session \in FileType \ {NoFile}
    BY <1>1, <1>2, <1>5, <1>6, <1>10 DEF InSession
  <2>2. FileDone(call, e)
    BY <1>1, <1>3, <1>6, <2>1, FileCommands
  <2>3. call.cmd \in {"read", "write", "readdir", "close"}
    BY <2>1, CallFacts
  <2>4. copied' = Seen(call, e)
    BY <1>5, <2>3 DEF Seen
  <2>5. /\ TreeInv(e.tree) /\ e.answer \in {"ok", "error"} /\ e.fate \in {"reply", "panic"}
        /\ e.fate = "panic" => call.cmd \in {"write", "readdir"}
        /\ e.file \in FileType /\ (call.cmd = "close" <=> e.file = NoFile) /\ copied' \in Int
        /\ e.file.node \in Nodes /\ e.tree.size[e.file.node] <= InlineMax => e.file.offset = copied'
    BY <2>2, <2>4 DEF FileDone
  <2>6. said \in Answers
    BY <1>4, <2>3, <2>5 DEF Answers
  <2>7. FilesTypes' /\ Queued' /\ OneSession'
    BY <1>9, <2>5, <2>6 DEF ServerStates
  <2>8. client'[c].pc = pc /\ client'[c].call = said /\ client'[c].open
    BY <1>8, <1>10, <2>6 DEF Becomes
  <2>9. link'.to = c /\ session' = e.file /\ server' = e.fate
    BY <1>2, <1>5
  <2>10. InSession'
    BY <1>4, <1>7, <2>3, <2>5, <2>8, <2>9 DEF InSession
  <2>11. OnlyKnownDeaths'
    BY <1>7, <2>5, <2>8, <2>9 DEF OnlyKnownDeaths
  <2>12. TreeInv(tree') /\ ShortFilesReadWhole'
    BY <1>5, <2>5 DEF ShortFilesReadWhole
  <2> QED BY <2>7, <2>10, <2>11, <2>12 DEF FilesInv
<1>11. CASE ~client[c].open
  <2>1. call \in OpenCalls \cup PathCalls /\ session = NoFile
    BY <1>1, <1>2, <1>5, <1>11 DEF InSession
  <2>2. PathDone(call, e)
    BY <1>1, <1>3, <2>1, PathCommands
  <2>3. call.cmd \in {"open", "mkdir", "rmdir", "unlink", "stat"}
    BY <2>1, CallFacts
  <2>4. copied' = IF call.cmd = "open" THEN 0 ELSE copied
    BY <1>5, <2>3
  <2>5. /\ TreeInv(e.tree) /\ e.answer \in {"ok", "error", "hang"} /\ e.fate \in {"reply", "hang"}
        /\ e.fate = "hang" => e.tree.again
        /\ e.file \in FileType /\ e.file.offset = 0
        /\ call.cmd # "open" => e.file = NoFile
        /\ call.cmd = "open" /\ e.answer = "ok" => e.file # NoFile
    BY <2>2 DEF PathDone
  <2>6. said \in Answers
    BY <1>4, <2>3, <2>5 DEF Answers
  <2>7. FilesTypes' /\ Queued' /\ OneSession'
    BY <1>6, <1>9, <2>4, <2>5, <2>6 DEF ServerStates
  <2>8. client'[c].pc = "wait" /\ client'[c].call = said /\ ~client'[c].open
    BY <1>4, <1>8, <1>11, <2>3, <2>6 DEF Becomes
  <2>9. link'.to = c /\ session' = e.file /\ server' = e.fate
    BY <1>2, <1>5
  <2>10. InSession'
    BY <1>7, <2>3, <2>5, <2>8, <2>9 DEF InSession
  <2>11. OnlyKnownDeaths'
    BY <1>5, <2>5, <2>9 DEF OnlyKnownDeaths
  <2>12. ShortFilesReadWhole'
    <3>1. CASE call.cmd = "open"
      BY <3>1, <1>5, <2>4, <2>5 DEF ShortFilesReadWhole
    <3>2. CASE call.cmd # "open"
      BY <3>2, <1>5, <2>5, FileFacts DEF ShortFilesReadWhole
    <3> QED BY <3>1, <3>2
  <2>13. TreeInv(tree')
    BY <1>5, <2>5
  <2> QED BY <2>7, <2>10, <2>11, <2>12, <2>13 DEF FilesInv
<1> QED BY <1>10, <1>11

LEMMA ReplyKeeps ==
  ASSUME FilesInv, Reply
  PROVE  FilesInv'
<1>1. FilesTypes /\ Queued /\ OneSession /\ InSession
  BY DEF FilesInv
<1>2. PICK c : c = link.to
  OBVIOUS
<1> DEFINE opened == client[c].call.cmd = "open" /\ client[c].call.answer = "ok"
           keeps == opened \/ client[c].call.cmd \in {"read", "write", "readdir"}
<1>3. /\ server = "reply" /\ link.up /\ client[c].pc = "wait" /\ server' = "serve"
      /\ tree' = tree /\ session' = session /\ link' = link /\ queue' = queue
      /\ copied' = copied /\ calls' = calls
      /\ client' = [client EXCEPT ![c] = IF keeps THEN With(client[c], "idle", NoCall, TRUE)
                                         ELSE At(client[c], "hangup")]
  BY <1>2 DEF Reply, With, At
<1>4. c \in Clients
  BY <1>1, <1>2 DEF FilesTypes
<1>5. TreeInv(tree') /\ ShortFilesReadWhole'
  BY <1>3 DEF FilesInv, ShortFilesReadWhole
<1>6. CASE keeps
  <2>1. Becomes(c, "idle", NoCall, TRUE)
    <3>1. \A o : With(client[c], "idle", NoCall, o) = [pc |-> "idle", call |-> NoCall, open |-> o]
      BY <1>1, <1>4, WithIs
    <3>2. client' = [client EXCEPT ![c] = [pc |-> "idle", call |-> NoCall, open |-> TRUE]]
      BY <1>3, <1>6, <3>1
    <3>3. "idle" \in Pcs /\ NoCall \in Calls \cup Answers /\ TRUE \in BOOLEAN
      BY DEF Pcs, Calls
    <3> QED BY <1>1, <1>4, <3>2, <3>3, ClientBecomes
  <2>2. session # NoFile
    BY <1>1, <1>2, <1>3, <1>6 DEF InSession
  <2>3. FilesTypes'
    BY <1>1, <1>3, <2>1 DEF FilesTypes, Becomes, ServerStates
  <2>4. Queued'
    BY <1>3, <1>4, <2>1, QueueKept DEF Pcs
  <2>5. OneSession'
    BY <1>2, <1>3, <1>4, <2>1, SessionKept
  <2>6. InSession' /\ OnlyKnownDeaths'
    <3>1. client'[link'.to].pc = "idle" /\ client'[link'.to].open
      BY <1>2, <1>3, <2>1 DEF Becomes
    <3> QED BY <1>3, <2>2, <3>1 DEF InSession, OnlyKnownDeaths
  <2> QED BY <1>5, <2>3, <2>4, <2>5, <2>6 DEF FilesInv
<1>7. CASE ~keeps
  <2>1. Becomes(c, "hangup", client[c].call, client[c].open)
    <3>1. At(client[c], "hangup") = [pc |-> "hangup", call |-> client[c].call, open |-> client[c].open]
      BY <1>1, <1>4, AtIs
    <3>2. client' = [client EXCEPT ![c] = [pc |-> "hangup", call |-> client[c].call, open |-> client[c].open]]
      BY <1>3, <1>7, <3>1
    <3>3. "hangup" \in Pcs /\ client[c].call \in Calls \cup Answers /\ client[c].open \in BOOLEAN
      BY <1>1, <1>4, ClientIs DEF Pcs
    <3> QED BY <1>1, <1>4, <3>2, <3>3, ClientBecomes
  <2>2. FilesTypes'
    BY <1>1, <1>3, <2>1 DEF FilesTypes, Becomes, ServerStates
  <2>3. Queued'
    BY <1>3, <1>4, <2>1, QueueKept DEF Pcs
  <2>4. OneSession'
    BY <1>2, <1>3, <1>4, <2>1, SessionKept
  <2>5. InSession' /\ OnlyKnownDeaths'
    <3>1. client'[link'.to].pc = "hangup"
      BY <1>2, <1>3, <2>1 DEF Becomes
    <3> QED BY <1>3, <3>1 DEF InSession, OnlyKnownDeaths
  <2> QED BY <1>5, <2>2, <2>3, <2>4, <2>5 DEF FilesInv
<1> QED BY <1>6, <1>7

LEMMA LostOrEnded ==
  ASSUME FilesInv, ReplyLost \/ EndSession
  PROVE  FilesInv'
<1>1. FilesTypes /\ Queued /\ OneSession /\ InSession
  BY DEF FilesInv
<1>2. /\ server \in {"reply", "serve"} /\ ~link.up /\ server' \in {"serve", "accept"}
      /\ session' \in {session, NoFile} /\ tree' = tree /\ link' = link /\ queue' = queue
      /\ client' = client /\ copied' = copied /\ calls' = calls
  BY DEF ReplyLost, EndSession
<1>3. ~client[link.to].open /\ client[link.to].pc \notin {"send", "wait", "hangup"}
  BY <1>1, <1>2 DEF OneSession, FilesTypes
<1>4. FilesTypes'
  BY <1>1, <1>2, FileFacts DEF FilesTypes, ServerStates
<1>5. Queued' /\ OneSession'
  BY <1>1, <1>2 DEF Queued, OneSession
<1>6. InSession' /\ OnlyKnownDeaths'
  BY <1>2, <1>3 DEF InSession, OnlyKnownDeaths
<1>7. TreeInv(tree') /\ ShortFilesReadWhole'
  BY <1>2, FileFacts DEF FilesInv, ShortFilesReadWhole
<1> QED BY <1>4, <1>5, <1>6, <1>7 DEF FilesInv

-----------------------------------------------------------------------------
(* The theorems. *)

\* The service starts with the directories on the way to the tty.
LEMMA FilesInvInit == FilesInit => FilesInv
<1> SUFFICES ASSUME FilesInit PROVE FilesInv
  OBVIOUS
<1>1. TtyPath \in Seq(Names) /\ Clients # {} /\ MaxCalls \in Nat
  BY FilesAssumption
<1>2. Front(TtyPath) \in Seq(Names)
  BY <1>1 DEF Front
<1>3. TreeInv(tree)
  <2>1. mkdir_path(EmptyTree, Front(TtyPath)) \in Makings
    BY <1>2, EmptySound, MkdirSound
  <2> QED BY <2>1 DEF FilesInit, Makings
<1>4. /\ server = "accept" /\ session = NoFile /\ queue = <<>> /\ calls = 0 /\ copied = 0
      /\ link = [to |-> CHOOSE c \in Clients : TRUE, up |-> FALSE]
      /\ client = [c \in Clients |-> [pc |-> "idle", call |-> NoCall, open |-> FALSE]]
  BY DEF FilesInit
<1>5. PICK c \in Clients : link = [to |-> c, up |-> FALSE]
  BY <1>1, <1>4
<1>6. link \in [to : Clients, up : BOOLEAN] /\ link.to \in Clients /\ ~link.up
  BY <1>5
<1>7. PICK r : r = [pc |-> "idle", call |-> NoCall, open |-> FALSE]
  OBVIOUS
<1>8. r \in ClientType /\ r.pc = "idle" /\ ~r.open
  BY <1>7 DEF ClientType, Calls
<1>9. client \in [Clients -> ClientType] /\ \A d \in Clients : client[d] = r
  BY <1>4, <1>7, <1>8
<1>10. FilesTypes
  <2>1. queue \in Seq(Clients) /\ 0 \in 0..MaxCalls
    BY <1>1, <1>4
  <2>2. server \in ServerStates /\ session \in FileType /\ copied \in Int /\ calls \in 0..MaxCalls
    BY <2>1, <1>4, FileFacts DEF ServerStates
  <2> QED BY <2>1, <2>2, <1>6, <1>9 DEF FilesTypes
<1>11. Queued
  <2>1. Len(queue) = 0 /\ 1..0 = {}
    BY <1>4
  <2> QED BY <2>1, <1>8, <1>9 DEF Queued
<1>12. OneSession /\ InSession /\ OnlyKnownDeaths
  BY <1>4, <1>6, <1>8, <1>9 DEF OneSession, InSession, OnlyKnownDeaths
<1>13. ShortFilesReadWhole
  BY <1>4, FileFacts DEF ShortFilesReadWhole
<1> QED BY <1>3, <1>10, <1>11, <1>12, <1>13 DEF FilesInv

LEMMA FilesInvNext == FilesInv /\ [FilesNext]_fileVars => FilesInv'
<1> SUFFICES ASSUME FilesInv, [FilesNext]_fileVars PROVE FilesInv'
  OBVIOUS
<1>1. CASE UNCHANGED fileVars
  BY <1>1 DEF fileVars, FilesInv, FilesTypes, Queued, OneSession, InSession, OnlyKnownDeaths,
              ShortFilesReadWhole
<1>2. CASE Service
  BY <1>2, AcceptKeeps, ServeKeeps, ReplyKeeps, LostOrEnded DEF Service
<1>3. ASSUME NEW c \in Clients, Program(c) \/ Hangup(c)
      PROVE  FilesInv'
  BY <1>3, ConnectKeeps, UseFileKeeps, ExitKeeps, HangupKeeps DEF Program
<1> QED BY <1>1, <1>2, <1>3 DEF FilesNext

\* The inductive invariant of the file service and its clients.
THEOREM FilesInvariant == FilesSpec => []FilesInv
  BY FilesInvInit, FilesInvNext, PTL DEF FilesSpec

\* A sequence without repetitions is as long as its elements are many.
LEMMA OnceEach ==
  ASSUME NEW X, NEW s \in Seq(X), \A j, k \in 1..Len(s) : s[j] = s[k] => j = k
  PROVE  Cardinality(ToSet(s)) = Len(s)
<1>1. Len(s) \in Nat /\ DOMAIN s = 1..Len(s) /\ s = [k \in 1..Len(s) |-> s[k]]
  OBVIOUS
<1>2. s \in [1..Len(s) -> ToSet(s)] /\ \A x \in ToSet(s) : \E k \in 1..Len(s) : s[k] = x
  BY <1>1 DEF ToSet
<1>3. s \in Bijection(1..Len(s), ToSet(s))
  BY <1>1, <1>2 DEF Bijection, Injection, Surjection, IsInjective
<1>4. ExistsBijection(1..Len(s), ToSet(s))
  BY <1>3 DEF ExistsBijection
<1> QED BY <1>1, <1>4, FS_CountingElements

\* Service, sessions, clients and tree keep their types, and no client waits
\* twice to be connected.
THEOREM FilesTypesHold == FilesSpec => []FilesTypeOK
<1>1. FilesInv => FilesTypeOK
  <2> SUFFICES ASSUME FilesInv PROVE FilesTypeOK
    OBVIOUS
  <2>1. FilesTypes /\ Queued /\ Typed(tree)
    BY DEF FilesInv, TreeInv
  <2>2. session.node \in Nodes \cup {NoNode, Tty.node} /\ session.offset \in 0..FileSize
    <3>1. session \in FileType /\ 0 \in 0..FileSize /\ NoFile.node = NoNode
      BY <2>1, NodeFacts DEF FilesTypes, NoFile
    <3> QED BY <3>1, FileFacts
  <2>3. Cardinality(ToSet(queue)) = Len(queue)
    BY <2>1, OnceEach DEF FilesTypes, Queued
  <2>4. \A c \in Clients : client[c].pc \in {"idle", "connect", "send", "wait", "hangup", "exited"}
    BY <2>1, ClientIs DEF Pcs
  <2>5. \A i \in Nodes : tree.kind[i] \in Kinds /\ tree.size[i] \in 0..FileSize
    BY <2>1, TypedFacts
  <2> QED BY <2>1, <2>2, <2>3, <2>4, <2>5 DEF FilesTypeOK, FilesTypes
<1> QED BY <1>1, FilesInvariant, PTL

\* Listed trees are sound in the sense of the walks that ramfs.rs makes.
LEMMA ListedSound ==
  ASSUME NEW t, Typed(t), Listed(t)
  PROVE  Sound(t)
<1>1. ASSUME NEW i \in InUse(t), NEW s, s = Siblings(t, t.first[i])
      PROVE  /\ ~IsRing(s)
             /\ ToSet(s) = ChildrenOf(t, i) /\ Cardinality(ToSet(s)) = Len(s)
             /\ t.count[i] = Len(s)
             /\ \A j, k \in ToSet(s) : t.name[j] = t.name[k] => j = k
             /\ s # <<>> => t.kind[i] = "dir"
             /\ i # Root => t.parent[i] \in InUse(t) \ {i}
  <2>1. PICK r : IsChildList(t, i, r)
    BY DEF Listed
  <2>2. i \in Nodes
    BY DEF InUse
  <2>3. r = s /\ ~IsRing(r) /\ r \in Seq(Nodes)
    BY <1>1, <2>1, <2>2, ChildListFacts
  <2>4. \A j, k \in 1..Len(s) : s[j] = s[k] => j = k
    BY <2>1, <2>2, <2>3, ChildListFacts
  <2>5. Cardinality(ToSet(s)) = Len(s)
    BY <2>3, <2>4, OnceEach
  <2>6. \A x : x \in ToSet(s) <=> \E k \in 1..Len(s) : s[k] = x
    BY <2>3 DEF ToSet
  <2>7. ToSet(s) = ChildrenOf(t, i)
    <3>1. /\ \A k \in 1..Len(s) : s[k] \in ChildrenOf(t, i)
          /\ \A x \in ChildrenOf(t, i) : \E k \in 1..Len(s) : s[k] = x
      BY <2>1, <2>3 DEF IsChildList
    <3>2. \A x : x \in ToSet(s) <=> x \in ChildrenOf(t, i)
      BY <3>1, <2>6
    <3> QED BY <3>2
  <2>8. ASSUME NEW x \in ToSet(s), NEW y \in ToSet(s), t.name[x] = t.name[y]
        PROVE  x = y
    <3>1. PICK j \in 1..Len(s), k \in 1..Len(s) : s[j] = x /\ s[k] = y
      BY <2>6
    <3>2. j = k
      BY <2>1, <2>3, <2>8, <3>1 DEF IsChildList
    <3> QED BY <3>1, <3>2
  <2>9. t.count[i] = Len(s) /\ (s # <<>> => t.kind[i] = "dir")
    BY <2>1, <2>3 DEF IsChildList
  <2>10. i # Root => t.parent[i] \in InUse(t) \ {i}
    BY DEF Listed
  <2> QED BY <2>3, <2>5, <2>7, <2>8, <2>9, <2>10
<1> QED BY <1>1 DEF Sound

\* set_node, remove and mkdir_path keep the lists of children exact, for any
\* number of nodes and any paths, until alloc_idx hands out a node in use.
THEOREM TreeStaysSound == FilesSpec => []TreeSound
<1>1. FilesInv => TreeSound
  BY ListedSound DEF FilesInv, TreeInv, TreeSound
<1> QED BY <1>1, FilesInvariant, PTL

\* The service's thread dies only of an oversized write, of a readdir of the
\* tty, or in a ring that takes a node handed out twice.
THEOREM DeathsKnown == FilesSpec => []OnlyKnownDeaths
<1>1. FilesInv => OnlyKnownDeaths
  BY DEF FilesInv
<1> QED BY <1>1, FilesInvariant, PTL

\* do_read and do_write move the offset of a file that fits in a message by
\* exactly the bytes that the client has seen.
THEOREM ShortFilesWhole == FilesSpec => []ShortFilesReadWhole
<1>1. FilesInv => ShortFilesReadWhole
  BY DEF FilesInv
<1> QED BY <1>1, FilesInvariant, PTL
=============================================================================
