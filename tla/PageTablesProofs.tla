-------------------------- MODULE PageTablesProofs --------------------------
(***************************************************************************)
(* For any memory, any fanout and any number of processes: the trees of    *)
(* processes are made of table pages of their own, tracked as far as there *)
(* is room; the TLB says what the tables say; the allocator panics only    *)
(* after PROC_MGMT_RELEASE_PT; and, seen through translate_va, the trees   *)
(* implement AddressSpaces.                                                *)
(***************************************************************************)
EXTENDS PageTables, NumberFacts, FiniteSetTheorems, SequenceTheorems, TLAPS

(* The parts of the invariant take memory and allocator as parameters,     *)
(* since a launch goes through many of them in one step.                   *)

Descriptors == [RamFrames -> [Idx -> Entries]]

Spaces == [used : BOOLEAN, root : RamFrames \cup {0}, tracked : Seq(RamFrames),
           asid : 0..MaxUserAsid]

\* A slot without a tree tracks nothing, and one that is not used has no tree.
Orderly(t) == (t.root = 0 => t.tracked = <<>>) /\ (~t.used => t.root = 0)

\* Frames that were handed out after the boot tables.
Drawn(n) == (FirstFrame + 3)..(n - 1)

\* A table entry that leads to frame f, or nowhere.
Link(f) == IF f = 0 THEN NoEntry ELSE TableAt(f)

\* The table below the first entry of f, 0 without one.
Down(c, f) == c[f][0].pa

\* The tables for the user's pages: one at level 1, at most one at level 2,
\* and those of level 3.
Mid(c, r) == Down(c, r)
Low(c, r) == Down(c, Mid(c, r))
Ends(c, r) == IF Low(c, r) = 0 THEN {} ELSE {c[Low(c, r)][i].pa : i \in Idx} \ {0}

\* The frames of a tree.
TreeFrames(c, r) == {r, Mid(c, r)} \cup ({Low(c, r)} \ {0}) \cup Ends(c, r)

\* Entries of the last level.
PageEntry(e) == e = NoEntry \/ e.kind = "page"

\* The part of a tree that maps the user's pages, made of frames below n.
TreeOK(c, n, r) ==
  /\ r \in Drawn(n) /\ Mid(c, r) \in Drawn(n) \ {r}
  /\ c[r][0] = TableAt(Mid(c, r))
  /\ Low(c, r) \in (Drawn(n) \cup {0}) \ {r, Mid(c, r)}
  /\ c[Mid(c, r)][0] = Link(Low(c, r))
  /\ Low(c, r) # 0 => \A i \in Idx :
       LET f == c[Low(c, r)][i].pa
       IN  /\ f \in (Drawn(n) \cup {0}) \ {r, Mid(c, r), Low(c, r)}
           /\ c[Low(c, r)][i] = Link(f)
           /\ f # 0 => \A j \in Idx : PageEntry(c[f][j]) /\ (j # i => c[Low(c, r)][j].pa # f)

\* The kernel's part of a tree, the same in all of them.
Cloned(c, r) ==
  \A i \in Idx \ {0} :
    /\ c[r][i] = IF i = Fanout \div 2 THEN TableAt(FirstFrame + 2) ELSE NoEntry
    /\ c[Mid(c, r)][i] = IF i = 1 THEN KernelBlock(Span(1)) ELSE NoEntry

\* tracked holds frames of F once, and all of them unless it is full.
Tracks(t, F) ==
  /\ Len(t) <= MaxTrack
  /\ \A j, k \in 1..Len(t) : t[j] = t[k] => j = k
  /\ \A k \in 1..Len(t) : t[k] \in F
  /\ Len(t) < MaxTrack => \A f \in F : \E k \in 1..Len(t) : t[k] = f

\* No table is registered that the cursor has not passed.
RamSound(m) == m \in Allocator /\ m.live \subseteq FirstFrame..(m.next - 1)

\* Every tree is complete and tracks its tables.
Trees ==
  \A s \in Rooted : /\ TreeOK(mem, ram.next, space[s].root)
                    /\ Cloned(mem, space[s].root)
                    /\ Tracks(space[s].tracked, TreeFrames(mem, space[s].root))

\* No table belongs to two processes.
Apart ==
  \A s, r \in Rooted :
    s # r => TreeFrames(mem, space[s].root) \cap TreeFrames(mem, space[r].root) = {}

\* The allocator knows the tables that PROC_MGMT_RELEASE_PT was not given.
Tagged == \A s \in Intact : \A f \in TreeFrames(mem, space[s].root) : ram.tag[f] = "PageTable"

\* The boot tables stay as they are, and TTBR0 has them or those of a process.
Booted ==
  /\ FirstFrame + 3 <= ram.next
  /\ \A f \in BootTables : mem[f] = BootMem[f]
  /\ ttbr0.root = FirstFrame \/ \E s \in Rooted : ttbr0.root = space[s].root

\* The types, with what the allocator and the slots keep besides.
SpaceTypes ==
  /\ RamSound(ram) /\ mem \in Descriptors
  /\ space \in [Slots -> Spaces]
  /\ \A s \in Slots : Orderly(space[s])
  /\ ttbr0 \in [root : RamFrames, asid : 0..MaxUserAsid]
  /\ tlb \subseteq (0..MaxUserAsid) \X UserVas \X Nat
  /\ asid \in [next : 1..(MaxUserAsid + 1), made : 0..MaxLaunches]
  /\ released \subseteq FirstFrame..(ram.next - 1)

\* What concerns the trees.
TreesInv ==
  /\ RamSound(ram) /\ mem \in Descriptors /\ space \in [Slots -> Spaces]
  /\ \A s \in Slots : Orderly(space[s])
  /\ Booted /\ Trees /\ Apart /\ Tagged

\* The inductive invariant.
SpaceInv ==
  /\ SpaceTypes /\ Booted /\ Trees /\ Apart /\ Tagged
  /\ TlbCoherent /\ OnlyReleaseDoubleFrees

-----------------------------------------------------------------------------
(* Numbers. *)

\* A table has at least two entries, and entry 0 is in the lower half.
LEMMA IdxFacts ==
  /\ 0 \in Idx /\ 1 \in Idx /\ 0 \in UserHalf /\ UserHalf \subseteq Idx
  /\ Fanout \div 2 \in Idx \ UserHalf /\ Fanout \div 2 # 0
<1>1. Fanout \in Nat /\ Fanout >= 2
  BY SpaceAssumption
<1>2. Fanout \div 2 \in 1..(Fanout - 1)
  BY <1>1
<1> QED BY <1>1, <1>2 DEF Idx, UserHalf

\* What the entries of the four levels cover.
LEMMA SpanFacts ==
  /\ \A l \in 0..3 : Span(l) \in Nat \ {0}
  /\ Span(0) = Fanout * Fanout * Fanout /\ Span(1) = Fanout * Fanout
  /\ Span(2) = Fanout /\ Span(3) = 1
  /\ UserPages <= Span(1) /\ Span(1) <= Span(0)
<1>1. Fanout \in Nat /\ Fanout >= 2
  BY SpaceAssumption
<1>2. /\ Span(0) = Fanout * Fanout * Fanout /\ Span(1) = Fanout * Fanout
      /\ Span(2) = Fanout /\ Span(3) = 1
  BY DEF Span
<1>3. Fanout * Fanout \in Nat /\ Fanout * Fanout >= 2
  BY <1>1
<1>4. PICK q \in Nat : q = Fanout * Fanout
  BY <1>3
<1>5. q * Fanout \in Nat /\ q * Fanout >= q
  BY <1>1
<1>6. Span(0) >= Span(1) /\ Span(0) \in Nat \ {0} /\ Span(1) \in Nat \ {0}
  BY <1>2, <1>3, <1>4, <1>5
<1>7. ASSUME NEW l \in 0..3
      PROVE  Span(l) \in Nat \ {0}
  <2>1. l = 0 \/ l = 1 \/ l = 2 \/ l = 3
    OBVIOUS
  <2> QED BY <2>1, <1>1, <1>2, <1>6
<1> QED BY <1>2, <1>6, <1>7, SpaceAssumption

\* The first two indices of a user page are 0, all are indices.
LEMMA IndexFacts ==
  ASSUME NEW va \in UserVas
  PROVE  /\ va \in Nat /\ Index(va, 0) = 0 /\ Index(va, 1) = 0
         /\ Index(va, 2) \in Idx /\ Index(va, 3) \in Idx
         /\ va % Span(1) \in Nat /\ va % Span(3) = 0
<1>1. Fanout \in Nat /\ Fanout >= 2 /\ UserPages \in Nat
  BY SpaceAssumption
<1>2. PICK a \in Nat : a = Span(1)
  BY SpanFacts
<1>3. PICK b \in Nat : b = Span(0)
  BY SpanFacts
<1>4. va \in Nat /\ va < a /\ va < b
  BY <1>1, <1>2, <1>3, SpanFacts DEF UserVas
<1>5. va \div a = 0 /\ va \div b = 0
  BY <1>4
<1>6. 0 % Fanout = 0
  BY <1>1
<1>7. Index(va, 0) = 0 /\ Index(va, 1) = 0
  BY <1>2, <1>3, <1>5, <1>6 DEF Index
<1>8. ASSUME NEW q \in Nat
      PROVE  q % Fanout \in Idx
  BY <1>1 DEF Idx
<1>9. va \div Span(2) \in Nat /\ va \div Span(3) \in Nat
  BY <1>1, <1>4, SpanFacts
<1>10. Index(va, 2) \in Idx /\ Index(va, 3) \in Idx
  BY <1>8, <1>9 DEF Index
<1>11. va % a \in Nat
  BY <1>4, <1>2, SpanFacts
<1>12. va % 1 = 0
  BY <1>4
<1> QED BY <1>2, <1>4, <1>7, <1>10, <1>11, <1>12, SpanFacts

-----------------------------------------------------------------------------
(* The allocator. *)

\* alloc_page hands out a frame the cursor has not passed.
LEMMA AllocSound ==
  ASSUME NEW m, RamSound(m), CanAlloc(m), NEW tag \in Tags, NEW u, u = alloc_page(m, tag)
  PROVE  /\ Candidate(m) \in RamFrames /\ m.next <= Candidate(m) /\ m.tag[Candidate(m)] = "Free"
         /\ u = [m EXCEPT !.tag[Candidate(m)] = tag, !.next = Candidate(m) + 1]
         /\ RamSound(u)
<1> DEFINE f == Candidate(m)
<1>1. /\ m \in Allocator /\ m.live \subseteq FirstFrame..(m.next - 1)
      /\ m.next \in FirstFrame..(LastFrame + 1) /\ FirstFrame \in Nat /\ LastFrame \in Nat
  BY FrameAssumption DEF RamSound, Allocator
<1>2. Ahead(m) \in SUBSET Nat /\ Ahead(m) # {}
  BY <1>1 DEF Ahead, CanAlloc
<1>3. f \in Ahead(m)
  BY <1>2, LeastNumber DEF Candidate
<1>4. f \in RamFrames /\ m.next <= f /\ m.tag[f] = "Free"
  BY <1>1, <1>3 DEF Ahead, RamFrames
<1>5. f \notin m.live
  BY <1>1, <1>4 DEF RamFrames
<1>6. u = [m EXCEPT !.tag[f] = tag, !.next = f + 1]
  BY <1>5 DEF alloc_page, is_live_pt_page
<1> HIDE DEF f
<1>7. f + 1 \in FirstFrame..(LastFrame + 1)
  BY <1>1, <1>4 DEF RamFrames
<1>8. u \in Allocator /\ u.live = m.live /\ u.next = f + 1
  <2> DEFINE t == [m.tag EXCEPT ![f] = tag]
  <2>1. t \in [RamFrames -> Tags]
    BY <1>1 DEF Allocator
  <2>2. u = [m EXCEPT !.tag = t, !.next = f + 1]
    BY <1>1, <1>6 DEF Allocator
  <2> HIDE DEF t
  <2> QED BY <1>1, <1>7, <2>1, <2>2 DEF Allocator
<1>9. m.live \subseteq FirstFrame..((f + 1) - 1)
  BY <1>1, <1>4 DEF RamFrames
<1> QED BY <1>4, <1>6, <1>8, <1>9 DEF f, RamSound

\* Registering a table that was handed out changes only the set of live tables.
LEMMA RegisterSound ==
  ASSUME NEW m, RamSound(m), NEW f \in RamFrames, f < m.next
  PROVE  /\ RamSound(register_pt_page(m, f))
         /\ register_pt_page(m, f).next = m.next /\ register_pt_page(m, f).tag = m.tag
         /\ register_pt_page(m, f).panic = m.panic
<1>1. m \in Allocator /\ m.next \in Nat /\ FirstFrame \in Nat /\ f \in FirstFrame..(m.next - 1)
  BY FrameAssumption DEF RamSound, Allocator, RamFrames
<1>2. CASE Cardinality(m.live) < MaxLivePt
  BY <1>1, <1>2 DEF register_pt_page, RamSound, Allocator
<1>3. CASE ~(Cardinality(m.live) < MaxLivePt)
  BY <1>1, <1>3 DEF register_pt_page, RamSound, Allocator
<1> QED BY <1>2, <1>3

\* free_page clears one tag, or panics because it is clear.
LEMMA FreePageType ==
  ASSUME NEW m \in Allocator, NEW f \in RamFrames
  PROVE  /\ free_page(m, f) \in Allocator
         /\ free_page(m, f).next = m.next
         /\ free_page(m, f).live \subseteq m.live
         /\ \A g \in RamFrames : free_page(m, f).tag[g] = IF g = f THEN "Free" ELSE m.tag[g]
         /\ IF m.tag[f] = "Free" THEN free_page(m, f).panic = "double-free"
            ELSE free_page(m, f).panic = m.panic
<1>1. add_page(m.cache, f) \in Seq(RamFrames)
  <2>1. m.cache \in Seq(RamFrames)
    BY DEF Allocator
  <2>2. m.cache # <<>> => [m.cache EXCEPT ![1] = f] \in Seq(RamFrames)
    BY <2>1, ExceptSeq
  <2>3. Append(m.cache, f) \in Seq(RamFrames)
    BY <2>1
  <2>4. Len(m.cache) = CacheSize => m.cache # <<>>
    BY <2>1, FrameAssumption
  <2> QED BY <2>2, <2>3, <2>4 DEF add_page
<1>2. CASE m.tag[f] = "Free"
  BY <1>2 DEF free_page, Allocator
<1>3. CASE m.tag[f] # "Free"
  <2> DEFINE u == IF m.tag[f] = "PageTable" THEN unregister_pt_page(m, f) ELSE m
  <2>1. /\ u \in Allocator /\ u.next = m.next /\ u.live \subseteq m.live
        /\ u.tag = m.tag /\ u.cache = m.cache /\ u.panic = m.panic
    BY DEF unregister_pt_page, Allocator
  <2>2. free_page(m, f) = [u EXCEPT !.tag[f] = "Free", !.cache = add_page(@, f)]
    BY <1>3 DEF free_page
  <2> HIDE DEF u
  <2>3. "Free" \in Tags
    BY DEF Tags
  <2>4. free_page(m, f) \in Allocator
    <3> DEFINE t == [u.tag EXCEPT ![f] = "Free"]
               c == add_page(u.cache, f)
    <3>1. t \in [RamFrames -> Tags] /\ c \in Seq(RamFrames)
      BY <2>1, <2>3, <1>1 DEF Allocator
    <3>2. free_page(m, f) = [u EXCEPT !.tag = t, !.cache = c]
      BY <2>1, <2>2 DEF Allocator
    <3> HIDE DEF t, c
    <3> QED BY <2>1, <3>1, <3>2 DEF Allocator
  <2> QED BY <2>1, <2>2, <2>4, <1>3 DEF Allocator
<1> QED BY <1>2, <1>3

\* Freeing one frame after the other is a run of the allocator.
LEMMA FreeEachIs ==
  ASSUME NEW m \in Allocator, NEW s \in Seq(RamFrames)
  PROVE  \E f \in [0..Len(s) -> Allocator] :
            /\ f[0] = m /\ \A k \in 1..Len(s) : f[k] = free_page(f[k - 1], s[k])
            /\ FreeEach(m, s) = f[Len(s)]
<1> DEFINE n == Len(s)
           def(f) == [k \in 0..n |-> IF k = 0 THEN m ELSE free_page(f[k - 1], s[k])]
           step == [k \in 1..n |-> [x \in Allocator |-> free_page(x, s[k])]]
<1>1. n \in Nat /\ \A k \in 1..n : s[k] \in RamFrames
  OBVIOUS
<1>2. AreSteps(step, n, Allocator)
  BY <1>1, FreePageType DEF AreSteps
<1>3. PICK f : IsRun(f, n, Allocator, m, step)
  <2> HIDE DEF step, n
  <2> QED BY <1>1, <1>2, StepsExist
<1>4. f = def(f)
  <2>1. ASSUME NEW k \in 0..n
        PROVE  f[k] = IF k = 0 THEN m ELSE free_page(f[k - 1], s[k])
    <3>1. CASE k = 0
      BY <3>1, <1>3 DEF IsRun
    <3>2. CASE k # 0
      <4>1. k \in 1..n /\ k - 1 \in 0..n
        BY <3>2, <1>1
      <4>2. f[k - 1] \in Allocator
        BY <4>1, <1>3 DEF IsRun
      <4>3. f[k] = step[k][f[k - 1]]
        BY <4>1, <1>3 DEF IsRun
      <4> QED BY <4>1, <4>2, <4>3, <3>2
    <3> QED BY <3>1, <3>2
  <2> QED BY <2>1, <1>3, Zenon DEF IsRun
<1>5. PICK g : g = CHOOSE h : h = def(h)
  OBVIOUS
<1>6. g = def(g)
  BY <1>4, <1>5
<1>7. FreeEach(m, s) = g[n]
  BY <1>5 DEF FreeEach
<1>8. g \in [0..n -> Allocator] /\ g[0] = m
      /\ \A k \in 1..n : g[k] = free_page(g[k - 1], s[k])
  <2>1. \A k \in 0..n : g[k] = IF k = 0 THEN m ELSE free_page(g[k - 1], s[k])
    BY <1>6
  <2>2. g[0] = m
    BY <2>1, <1>1
  <2>3. ASSUME NEW k \in 1..n
        PROVE  g[k] = free_page(g[k - 1], s[k])
    BY <2>1, <1>1
  <2> DEFINE S == {k \in 0..n : g[k] \in Allocator}
  <2>4. 0 \in S
    BY <2>2, <1>1
  <2>5. ASSUME NEW k \in 1..n, k - 1 \in S
        PROVE  k \in S
    <3>1. PICK x \in Allocator : x = g[k - 1]
      BY <2>5
    <3>2. s[k] \in RamFrames /\ k \in 0..n
      BY <1>1
    <3>3. free_page(x, s[k]) \in Allocator
      BY <3>2, FreePageType
    <3> QED BY <2>3, <3>1, <3>2, <3>3
  <2>6. \A k \in 0..n : k \in S
    <3> HIDE DEF S
    <3> QED BY <2>4, <2>5, <1>1, UpTo
  <2>7. g = [k \in 0..n |-> g[k]]
    BY <1>6
  <2> QED BY <2>2, <2>3, <2>6, <2>7
<1> QED BY <1>7, <1>8

\* What freeing a sequence of frames leaves alone, and when it cannot panic.
LEMMA FreeEachSound ==
  ASSUME NEW m, RamSound(m), NEW s \in Seq(RamFrames)
  PROVE  /\ RamSound(FreeEach(m, s)) /\ FreeEach(m, s).next = m.next
         /\ \A g \in RamFrames : (\A k \in 1..Len(s) : s[k] # g) => FreeEach(m, s).tag[g] = m.tag[g]
         /\ \A k \in 1..Len(s) : FreeEach(m, s).tag[s[k]] = "Free"
         /\ FreeEach(m, s).panic \in {m.panic, "double-free"}
         /\ (\A j, k \in 1..Len(s) : s[j] = s[k] => j = k) /\ (\A k \in 1..Len(s) : m.tag[s[k]] # "Free")
              => FreeEach(m, s).panic = m.panic
<1> DEFINE n == Len(s)
<1>1. m \in Allocator /\ n \in Nat /\ \A k \in 1..n : s[k] \in RamFrames
  BY DEF RamSound
<1>2. PICK f \in [0..n -> Allocator] :
         /\ f[0] = m /\ \A k \in 1..n : f[k] = free_page(f[k - 1], s[k])
         /\ FreeEach(m, s) = f[n]
  BY <1>1, FreeEachIs
<1> DEFINE once == (\A j, k \in 1..n : s[j] = s[k] => j = k) /\ (\A k \in 1..n : m.tag[s[k]] # "Free")
           same(k) == /\ f[k].next = m.next /\ f[k].live \subseteq m.live
                      /\ \A g \in RamFrames : (\A j \in 1..k : s[j] # g) => f[k].tag[g] = m.tag[g]
                      /\ \A j \in 1..k : f[k].tag[s[j]] = "Free"
                      /\ f[k].panic \in {m.panic, "double-free"}
                      /\ once => f[k].panic = m.panic
           S == {k \in 0..n : same(k)}
<1>3. 0 \in S
  BY <1>1, <1>2
<1>4. ASSUME NEW k \in 1..n, k - 1 \in S
      PROVE  k \in S
  <2>1. k \in 0..n /\ k - 1 \in 0..n /\ k \in Nat /\ s[k] \in RamFrames /\ same(k - 1)
    BY <1>1, <1>4
  <2>2. PICK x \in Allocator : x = f[k - 1]
    BY <2>1, <1>2
  <2>3. f[k] = free_page(x, s[k])
    BY <2>2, <1>2
  <2>4. /\ f[k].next = x.next /\ f[k].live \subseteq x.live
        /\ \A g \in RamFrames : f[k].tag[g] = IF g = s[k] THEN "Free" ELSE x.tag[g]
        /\ IF x.tag[s[k]] = "Free" THEN f[k].panic = "double-free" ELSE f[k].panic = x.panic
    <3>1. PICK q \in RamFrames : q = s[k]
      BY <2>1
    <3>2. /\ free_page(x, q).next = x.next /\ free_page(x, q).live \subseteq x.live
          /\ \A g \in RamFrames : free_page(x, q).tag[g] = IF g = q THEN "Free" ELSE x.tag[g]
          /\ IF x.tag[q] = "Free" THEN free_page(x, q).panic = "double-free"
             ELSE free_page(x, q).panic = x.panic
      BY FreePageType
    <3> HIDE DEF same, once
    <3> QED BY <2>3, <3>1, <3>2
  <2>5. f[k].next = m.next /\ f[k].live \subseteq m.live /\ f[k].panic \in {m.panic, "double-free"}
    BY <2>1, <2>2, <2>4
  <2>6. ASSUME NEW g \in RamFrames, \A j \in 1..k : s[j] # g
        PROVE  f[k].tag[g] = m.tag[g]
    <3>1. g # s[k] /\ \A j \in 1..(k - 1) : s[j] # g
      BY <2>6, <2>1
    <3> QED BY <3>1, <2>1, <2>2, <2>4
  <2>7. ASSUME once
        PROVE  f[k].panic = m.panic
    <3>1. \A j \in 1..(k - 1) : s[j] # s[k]
      BY <2>7, <2>1
    <3>2. x.tag[s[k]] = m.tag[s[k]]
      BY <3>1, <2>1, <2>2
    <3>3. m.tag[s[k]] # "Free"
      BY <2>7
    <3>4. x.panic = m.panic
      BY <2>7, <2>1, <2>2
    <3> QED BY <3>2, <3>3, <3>4, <2>4
  <2>8. ASSUME NEW j \in 1..k
        PROVE  f[k].tag[s[j]] = "Free"
    <3>1. s[j] \in RamFrames
      BY <1>1
    <3>2. CASE j = k
      BY <3>1, <3>2, <2>4
    <3>3. CASE j # k
      <4>1. j \in 1..(k - 1)
        BY <3>3, <2>1
      <4> QED BY <3>1, <4>1, <2>1, <2>2, <2>4
    <3> QED BY <3>2, <3>3
  <2>9. same(k)
    <3> HIDE DEF once
    <3> QED BY <2>5, <2>6, <2>7, <2>8
  <2> HIDE DEF same
  <2> QED BY <2>1, <2>9
<1>5. same(n)
  <2>1. \A k \in 0..n : k \in S
    <3> HIDE DEF S, n
    <3> QED BY <1>1, <1>3, <1>4, UpTo
  <2> HIDE DEF same
  <2> QED BY <1>1, <2>1
<1>6. f[n] \in Allocator
  BY <1>1, <1>2
<1>7. RamSound(f[n])
  BY <1>5, <1>6 DEF RamSound
<1> QED BY <1>2, <1>5, <1>7

-----------------------------------------------------------------------------
(* Walks. *)

Walks == [ram : Allocator, mem : Descriptors, tree : Spaces,
          at : RamFrames \cup {0}, ok : BOOLEAN]

\* A walk in a tree that may still lack the kernel's part.
GoodWalk(w) ==
  /\ w \in Walks /\ RamSound(w.ram)
  /\ TreeOK(w.mem, w.ram.next, w.tree.root)
  /\ Tracks(w.tree.tracked, TreeFrames(w.mem, w.tree.root))

\* The entry of the last level for the indices i and j.
PageAt(c, r, i, j) ==
  IF Low(c, r) = 0 \/ c[Low(c, r)][i].pa = 0 THEN NoEntry ELSE c[c[Low(c, r)][i].pa][j]

\* From v to w the tree has only grown, by frames that were not in use.
Grown(v, w) ==
  LET r == v.tree.root
      F == TreeFrames(v.mem, r)
      G == TreeFrames(w.mem, r)
  IN  /\ w.tree.root = r /\ w.tree.used = v.tree.used /\ w.tree.asid = v.tree.asid
      /\ v.ram.next <= w.ram.next /\ w.ram.panic = v.ram.panic
      /\ F \subseteq G /\ G \ F \subseteq v.ram.next..(w.ram.next - 1)
      /\ \A f \in RamFrames \ G : w.mem[f] = v.mem[f]
      /\ w.mem[r] = v.mem[r]
      /\ \A i \in Idx \ {0} : w.mem[Mid(v.mem, r)][i] = v.mem[Mid(v.mem, r)][i]
      /\ \A f \in RamFrames : w.ram.tag[f] = IF f \in G \ F THEN "PageTable" ELSE v.ram.tag[f]

\* The pages of the tree are the same.
SamePages(c, d, r) == \A i, j \in Idx : PageAt(d, r, i, j) = PageAt(c, r, i, j)

\* What a walk w gets from v by linking the new, empty table f at entry i.
Linked(v, w, i, f) ==
  /\ f \in RamFrames /\ v.ram.next <= f /\ f \notin TreeFrames(v.mem, v.tree.root)
  /\ w \in Walks /\ RamSound(w.ram) /\ w.ram.next = f + 1 /\ w.ram.panic = v.ram.panic
  /\ w.ram.tag = [v.ram.tag EXCEPT ![f] = "PageTable"]
  /\ w.mem[f] = ZeroTable /\ w.mem[v.at] = [v.mem[v.at] EXCEPT ![i] = TableAt(f)]
  /\ \A g \in RamFrames \ {f, v.at} : w.mem[g] = v.mem[g]
  /\ w.at = f /\ w.ok = v.ok
  /\ w.tree.root = v.tree.root /\ w.tree.used = v.tree.used /\ w.tree.asid = v.tree.asid
  /\ Tracks(w.tree.tracked, TreeFrames(v.mem, v.tree.root) \cup {f})

\* The frames of a tree are frames that were handed out.
LEMMA FramesDrawn ==
  ASSUME NEW c, NEW n \in FirstFrame..(LastFrame + 1), NEW r, TreeOK(c, n, r)
  PROVE  /\ TreeFrames(c, r) \subseteq Drawn(n) /\ Drawn(n) \subseteq RamFrames
         /\ Drawn(n) \subseteq FirstFrame..(n - 1) /\ 0 \notin Drawn(n)
         /\ r \in TreeFrames(c, r) /\ Mid(c, r) \in TreeFrames(c, r)
         /\ Low(c, r) # 0 => Low(c, r) \in TreeFrames(c, r)
<1>1. FirstFrame \in Nat \ {0} /\ LastFrame \in Nat
  BY FrameAssumption
<1>2. Drawn(n) \subseteq RamFrames /\ Drawn(n) \subseteq FirstFrame..(n - 1) /\ 0 \notin Drawn(n)
  BY <1>1 DEF Drawn, RamFrames
<1>3. Ends(c, r) \subseteq Drawn(n)
  BY DEF TreeOK, Ends
<1>4. TreeFrames(c, r) \subseteq Drawn(n)
  BY <1>3 DEF TreeFrames, TreeOK
<1> QED BY <1>2, <1>4 DEF TreeFrames

\* One more frame in the tree and, when there is room, in tracked.
LEMMA TrackSound ==
  ASSUME NEW t \in Seq(RamFrames), NEW F, Tracks(t, F), NEW f \in RamFrames, f \notin F
  PROVE  /\ f \notin ToSet(t)
         /\ Len(t) >= MaxTrack => Tracks(t, F \cup {f})
         /\ Len(t) < MaxTrack => Tracks(Append(t, f), F \cup {f}) /\ Append(t, f) \in Seq(RamFrames)
<1>1. MaxTrack \in Nat /\ Len(t) \in Nat
  BY SpaceAssumption
<1>2. f \notin ToSet(t)
  BY DEF ToSet, Tracks
<1>3. ASSUME Len(t) >= MaxTrack
      PROVE  Tracks(t, F \cup {f})
  BY <1>1, <1>3 DEF Tracks
<1>4. ASSUME Len(t) < MaxTrack
      PROVE  Tracks(Append(t, f), F \cup {f}) /\ Append(t, f) \in Seq(RamFrames)
  <2> DEFINE u == Append(t, f)
  <2>1. /\ u \in Seq(RamFrames) /\ Len(u) = Len(t) + 1 /\ u[Len(t) + 1] = f
        /\ \A k \in 1..Len(t) : u[k] = t[k]
    BY AppendProperties
  <2> HIDE DEF u
  <2>2. Len(u) <= MaxTrack
    BY <1>1, <1>4, <2>1
  <2>3. \A k \in 1..Len(u) : u[k] \in F \cup {f}
    <3>1. \A k \in 1..Len(u) : k \in 1..Len(t) \/ k = Len(t) + 1
      BY <1>1, <2>1
    <3> QED BY <3>1, <2>1 DEF Tracks
  <2>4. ASSUME NEW j \in 1..Len(u), NEW k \in 1..Len(u), u[j] = u[k]
        PROVE  j = k
    <3>1. (j \in 1..Len(t) \/ j = Len(t) + 1) /\ (k \in 1..Len(t) \/ k = Len(t) + 1)
      BY <1>1, <2>1
    <3> QED BY <3>1, <2>1, <2>4 DEF Tracks
  <2>5. ASSUME NEW g \in F \cup {f}
        PROVE  \E k \in 1..Len(u) : u[k] = g
    <3>1. CASE g = f
      <4>1. Len(t) + 1 \in 1..Len(u)
        BY <1>1, <2>1
      <4> QED BY <3>1, <4>1, <2>1
    <3>2. CASE g \in F
      <4>1. PICK k \in 1..Len(t) : t[k] = g
        BY <3>2, <1>4 DEF Tracks
      <4>2. k \in 1..Len(u) /\ u[k] = g
        BY <4>1, <1>1, <2>1
      <4> QED BY <4>2
    <3> QED BY <3>1, <3>2
  <2> QED BY <2>1, <2>2, <2>3, <2>4, <2>5 DEF Tracks, u
<1> QED BY <1>2, <1>3, <1>4

\* Descriptors with the empty table f linked at entry i of the table at: those
\* two tables change.
LinkAt(c, f, at, i) == [c EXCEPT ![f] = ZeroTable, ![at][i] = TableAt(f)]

\* That, entry by entry.
IsLinkAt(c, d, f, at, i) ==
  /\ d \in Descriptors
  /\ d[f] = ZeroTable /\ d[at] = [c[at] EXCEPT ![i] = TableAt(f)]
  /\ \A g \in RamFrames \ {f, at} : d[g] = c[g]

\* What linking a table changes, entry by entry.
LEMMA LinkIs ==
  ASSUME NEW c \in Descriptors, NEW f \in RamFrames, NEW at \in RamFrames \ {f}, NEW i \in Idx
  PROVE  IsLinkAt(c, LinkAt(c, f, at, i), f, at, i)
<1>0. PICK d : d = LinkAt(c, f, at, i)
  OBVIOUS
<1>1. ZeroTable \in [Idx -> Entries]
  BY DEF ZeroTable, NoEntry, Entries
<1>2. TableAt(f) \in Entries
  BY FrameAssumption DEF TableAt, Entries, RamFrames
<1>3. PICK e : e = [c EXCEPT ![f] = ZeroTable]
  OBVIOUS
<1>4. /\ e \in Descriptors /\ e[f] = ZeroTable /\ e[at] = c[at]
      /\ \A g \in RamFrames \ {f} : e[g] = c[g]
  BY <1>1, <1>3 DEF Descriptors
<1>5. PICK x : x = [e[at] EXCEPT ![i] = TableAt(f)]
  OBVIOUS
<1>6. x \in [Idx -> Entries]
  <2>1. e[at] \in [Idx -> Entries]
    BY <1>4 DEF Descriptors
  <2> QED BY <1>2, <1>5, <2>1
<1>7. d = [e EXCEPT ![at] = x]
  BY <1>0, <1>3, <1>4, <1>5 DEF Descriptors, LinkAt
<1>8. d \in Descriptors /\ d[at] = x /\ \A g \in RamFrames \ {at} : d[g] = e[g]
  BY <1>4, <1>6, <1>7 DEF Descriptors
<1> QED BY <1>0, <1>4, <1>5, <1>8 DEF IsLinkAt

\* A new table in a tree.
LEMMA NewTableIs ==
  ASSUME NEW v, GoodWalk(v), CanAlloc(v.ram), NEW i \in Idx,
         v.at \in TreeFrames(v.mem, v.tree.root)
  PROVE  \E f : Linked(v, NewTable(v, i, ZeroTable), i, f)
<1> DEFINE F == TreeFrames(v.mem, v.tree.root)
           f == Candidate(v.ram)
           m == alloc_page(v.ram, "PageTable")
           d == [v.mem EXCEPT ![f] = ZeroTable, ![v.at][i] = TableAt(f)]
<1>1. /\ v \in Walks /\ RamSound(v.ram) /\ TreeOK(v.mem, v.ram.next, v.tree.root)
      /\ Tracks(v.tree.tracked, F)
  BY DEF GoodWalk
<1>2. /\ v.ram \in Allocator /\ v.mem \in Descriptors /\ v.tree \in Spaces
      /\ v.ok \in BOOLEAN /\ v.tree.tracked \in Seq(RamFrames)
  BY <1>1 DEF Walks, Spaces
<1>3. v.ram.next \in FirstFrame..(LastFrame + 1)
  BY <1>2 DEF Allocator
<1>4. F \subseteq FirstFrame..(v.ram.next - 1) /\ F \subseteq RamFrames
  BY <1>1, <1>3, FramesDrawn
<1>5. /\ f \in RamFrames /\ v.ram.next <= f /\ RamSound(m)
      /\ m = [v.ram EXCEPT !.tag[f] = "PageTable", !.next = f + 1]
  BY <1>1, AllocSound DEF Tags
<1>6. m.tag = [v.ram.tag EXCEPT ![f] = "PageTable"] /\ m.next = f + 1 /\ m.panic = v.ram.panic
  BY <1>2, <1>5 DEF Allocator
<1> HIDE DEF f, m
<1>7. f \notin F
  <2>1. f \in Nat /\ v.ram.next \in Nat /\ FirstFrame \in Nat
    BY <1>3, <1>5, FrameAssumption DEF RamFrames
  <2> QED BY <1>4, <1>5, <2>1
<1>8. v.at \in RamFrames \ {f}
  BY <1>4, <1>7
<1>9. /\ d \in Descriptors
      /\ d[f] = ZeroTable /\ d[v.at] = [v.mem[v.at] EXCEPT ![i] = TableAt(f)]
      /\ \A g \in RamFrames \ {f, v.at} : d[g] = v.mem[g]
  <2>1. PICK c \in Descriptors : c = v.mem
    BY <1>2
  <2>2. PICK at \in RamFrames \ {f} : at = v.at
    BY <1>8
  <2>3. PICK e : e = LinkAt(c, f, at, i)
    OBVIOUS
  <2>4. IsLinkAt(c, e, f, at, i)
    BY <1>5, <2>3, LinkIs
  <2>5. e = d
    BY <2>1, <2>2, <2>3 DEF LinkAt
  <2> HIDE DEF d
  <2> QED BY <2>1, <2>2, <2>4, <2>5 DEF IsLinkAt
<1>10. NewTable(v, i, ZeroTable) = track([v EXCEPT !.ram = m, !.mem = d, !.at = f], f)
  BY <1>1 DEF NewTable, Walks, f, m
<1> HIDE DEF d
<1>11. PICK g : g = [v EXCEPT !.ram = m, !.mem = d, !.at = f]
  OBVIOUS
<1>12. g.ram = m /\ g.mem = d /\ g.at = f /\ g.ok = v.ok /\ g.tree = v.tree
  BY <1>11, <1>1 DEF Walks
<1>13. g \in Walks
  <2>1. m \in Allocator
    BY <1>5 DEF RamSound
  <2> QED BY <1>1, <1>2, <1>5, <1>9, <1>11, <2>1 DEF Walks
<1>14. f \notin ToSet(v.tree.tracked)
  BY <1>1, <1>2, <1>5, <1>7, TrackSound
<1>15. CASE Len(v.tree.tracked) >= MaxTrack
  <2>1. NewTable(v, i, ZeroTable) = g
    BY <1>10, <1>11, <1>12, <1>15 DEF track
  <2>2. Tracks(v.tree.tracked, F \cup {f})
    BY <1>1, <1>2, <1>5, <1>7, <1>15, TrackSound
  <2>3. Linked(v, g, i, f)
    BY <2>2, <1>5, <1>6, <1>7, <1>9, <1>12, <1>13 DEF Linked
  <2> QED BY <2>1, <2>3
<1>16. CASE ~(Len(v.tree.tracked) >= MaxTrack)
  <2> DEFINE t == Append(v.tree.tracked, f)
             mr == register_pt_page(m, f)
  <2>1. Len(v.tree.tracked) < MaxTrack
    BY <1>2, <1>16, SpaceAssumption
  <2>2. Tracks(t, F \cup {f}) /\ t \in Seq(RamFrames)
    BY <1>1, <1>2, <1>5, <1>7, <2>1, TrackSound
  <2>3. f < m.next
    BY <1>5, <1>6, FrameAssumption DEF RamFrames
  <2>4. RamSound(mr) /\ mr.next = m.next /\ mr.tag = m.tag /\ mr.panic = m.panic
    BY <1>5, <2>3, RegisterSound
  <2> HIDE DEF t, mr
  <2>5. PICK u : u = [v.tree EXCEPT !.tracked = t]
    OBVIOUS
  <2>6. /\ u \in Spaces /\ u.tracked = t /\ u.root = v.tree.root
        /\ u.used = v.tree.used /\ u.asid = v.tree.asid
    BY <1>2, <2>2, <2>5 DEF Spaces
  <2>7. PICK w : w = [g EXCEPT !.tree = u, !.ram = mr]
    OBVIOUS
  <2>8. track(g, f) = [g EXCEPT !.tree.tracked = Append(@, f), !.ram = register_pt_page(@, f)]
    BY <1>12, <1>14, <1>16 DEF track
  <2>9. track(g, f) = w
    BY <2>5, <2>7, <2>8, <1>12, <1>13 DEF Walks, Spaces, t, mr
  <2>10. w.tree = u /\ w.ram = mr /\ w.mem = d /\ w.at = f /\ w.ok = v.ok
    BY <2>7, <1>12, <1>13 DEF Walks
  <2>11. w \in Walks
    <3>1. mr \in Allocator
      BY <2>4 DEF RamSound
    <3> QED BY <1>13, <2>6, <2>7, <3>1 DEF Walks
  <2>12. Linked(v, w, i, f)
    BY <2>2, <2>4, <2>6, <2>10, <2>11, <1>5, <1>6, <1>7, <1>9 DEF Linked
  <2> QED BY <1>10, <1>11, <2>9, <2>12
<1> QED BY <1>15, <1>16

\* A tree that has got one more table has grown.
LEMMA LinkedGrows ==
  ASSUME NEW v, GoodWalk(v), NEW w, NEW f, NEW i \in Idx, Linked(v, w, i, f),
         v.at \in TreeFrames(v.mem, v.tree.root),
         TreeFrames(w.mem, v.tree.root) = TreeFrames(v.mem, v.tree.root) \cup {f},
         TreeOK(w.mem, f + 1, v.tree.root), w.mem[v.tree.root] = v.mem[v.tree.root],
         \A j \in Idx \ {0} : w.mem[Mid(v.mem, v.tree.root)][j] = v.mem[Mid(v.mem, v.tree.root)][j]
  PROVE  GoodWalk(w) /\ Grown(v, w)
<1> DEFINE F == TreeFrames(v.mem, v.tree.root)
<1>1. /\ f \in RamFrames /\ v.ram.next <= f /\ f \notin F /\ w \in Walks /\ RamSound(w.ram)
      /\ w.ram.next = f + 1 /\ w.ram.panic = v.ram.panic /\ w.tree.root = v.tree.root
      /\ w.ram.tag = [v.ram.tag EXCEPT ![f] = "PageTable"]
      /\ w.tree.used = v.tree.used /\ w.tree.asid = v.tree.asid
      /\ Tracks(w.tree.tracked, F \cup {f})
      /\ \A g \in RamFrames \ {f, v.at} : w.mem[g] = v.mem[g]
  BY DEF Linked
<1>2. GoodWalk(w)
  BY <1>1 DEF GoodWalk
<1>3. /\ v.ram \in Allocator /\ v.ram.next \in Nat /\ f \in Nat /\ v.ram.tag \in [RamFrames -> Tags]
  BY <1>1, FrameAssumption DEF GoodWalk, Walks, Allocator, RamFrames
<1>4. (F \cup {f}) \ F = {f} /\ {f} \subseteq v.ram.next..((f + 1) - 1) /\ v.ram.next <= f + 1
  BY <1>1, <1>3
<1>5. \A g \in RamFrames : w.ram.tag[g] = IF g \in {f} THEN "PageTable" ELSE v.ram.tag[g]
  BY <1>1, <1>3
<1>6. \A g \in RamFrames \ (F \cup {f}) : w.mem[g] = v.mem[g]
  BY <1>1
<1>7. Grown(v, w)
  BY <1>1, <1>4, <1>5, <1>6 DEF Grown
<1> QED BY <1>2, <1>7

\* The table of level 2 is made when the first page of a tree is mapped.
LEMMA AddLow ==
  ASSUME NEW v, GoodWalk(v), NEW w, NEW f, Linked(v, w, 0, f),
         Low(v.mem, v.tree.root) = 0, v.at = Mid(v.mem, v.tree.root)
  PROVE  /\ GoodWalk(w) /\ Grown(v, w) /\ SamePages(v.mem, w.mem, v.tree.root)
         /\ Low(w.mem, v.tree.root) = f /\ f # 0
<1>1. PICK c, d, r, n, mid : c = v.mem /\ d = w.mem /\ r = v.tree.root /\ n = v.ram.next
                             /\ mid = Mid(c, r)
  OBVIOUS
<1>2. /\ TreeOK(c, n, r) /\ n \in FirstFrame..(LastFrame + 1) /\ c \in Descriptors
      /\ d \in Descriptors /\ FirstFrame \in Nat \ {0} /\ LastFrame \in Nat
  BY <1>1, FrameAssumption DEF GoodWalk, Linked, Walks, Allocator
<1>3. /\ r \in Drawn(n) /\ mid \in Drawn(n) \ {r} /\ c[r][0] = TableAt(mid)
      /\ c[mid][0] = NoEntry /\ Drawn(n) \subseteq RamFrames
      /\ TreeFrames(c, r) = {r, mid} /\ Ends(c, r) = {}
  <2>1. Low(c, r) = 0
    BY <1>1
  <2>2. Ends(c, r) = {}
    BY <2>1 DEF Ends
  <2>3. TreeFrames(c, r) = {r, mid}
    BY <1>1, <2>1, <2>2 DEF TreeFrames
  <2>4. Drawn(n) \subseteq RamFrames
    BY <1>2, FramesDrawn
  <2> QED BY <1>1, <1>2, <2>1, <2>2, <2>3, <2>4 DEF TreeOK, Link
<1>4. /\ f \in RamFrames /\ n <= f /\ f \notin {r, mid}
      /\ d[f] = ZeroTable /\ d[mid] = [c[mid] EXCEPT ![0] = TableAt(f)]
      /\ \A g \in RamFrames \ {f, mid} : d[g] = c[g]
  BY <1>1, <1>3 DEF Linked
<1>5. d[r] = c[r] /\ Mid(d, r) = mid
  BY <1>1, <1>3, <1>4 DEF Mid, Down
<1>6. d[mid][0] = TableAt(f) /\ \A j \in Idx \ {0} : d[mid][j] = c[mid][j]
  <2>1. c[mid] \in [Idx -> Entries]
    BY <1>2, <1>3 DEF Descriptors
  <2> QED BY <1>4, <2>1, IdxFacts
<1>7. Low(d, r) = f
  BY <1>5, <1>6 DEF Low, Down, TableAt
<1>8. \A i \in Idx : d[f][i] = NoEntry /\ d[f][i].pa = 0
  BY <1>4 DEF ZeroTable, NoEntry
<1>9. f # 0 /\ f \in Drawn(f + 1) /\ Drawn(n) \subseteq Drawn(f + 1)
  <2>1. f \in Nat /\ n \in Nat /\ FirstFrame + 3 <= n
    BY <1>2, <1>3, <1>4 DEF RamFrames, Drawn
  <2> QED BY <1>2, <1>4, <2>1 DEF Drawn
<1>10. TreeOK(d, f + 1, r)
  <2>1. r \in Drawn(f + 1) /\ mid \in Drawn(f + 1) \ {r} /\ d[r][0] = TableAt(mid)
    BY <1>3, <1>5, <1>9
  <2>2. d[mid][0] = Link(f)
    BY <1>6, <1>9 DEF Link
  <2>3. \A i \in Idx : /\ d[f][i].pa \in (Drawn(f + 1) \cup {0}) \ {r, mid, f}
                       /\ d[f][i] = Link(d[f][i].pa) /\ d[f][i].pa = 0
    <3>1. 0 \notin {r, mid, f}
      BY <1>2, <1>3, <1>9 DEF RamFrames
    <3> QED BY <1>8, <3>1 DEF Link
  <2> QED BY <2>1, <2>2, <2>3, <1>4, <1>5, <1>7, <1>9 DEF TreeOK
<1>11. TreeFrames(d, r) = TreeFrames(c, r) \cup {f}
  <2>1. Ends(d, r) = {}
    BY <1>7, <1>8 DEF Ends
  <2> QED BY <1>3, <1>5, <1>7, <1>9, <2>1 DEF TreeFrames
<1>12. SamePages(c, d, r)
  <2>1. \A i, j \in Idx : PageAt(d, r, i, j) = NoEntry
    BY <1>7, <1>8 DEF PageAt
  <2>2. \A i, j \in Idx : PageAt(c, r, i, j) = NoEntry
    BY <1>1 DEF PageAt
  <2> QED BY <2>1, <2>2 DEF SamePages
<1>13. GoodWalk(w) /\ Grown(v, w)
  <2>1. v.at \in TreeFrames(c, r)
    BY <1>1, <1>3
  <2> QED BY <1>1, <1>5, <1>6, <1>10, <1>11, <2>1, IdxFacts, LinkedGrows
<1> QED BY <1>1, <1>7, <1>9, <1>12, <1>13

\* A table of level 3 is made for the first page of its range.
LEMMA AddEnd ==
  ASSUME NEW v, GoodWalk(v), NEW w, NEW f, NEW i \in Idx, Linked(v, w, i, f),
         Low(v.mem, v.tree.root) # 0, v.at = Low(v.mem, v.tree.root),
         v.mem[Low(v.mem, v.tree.root)][i].pa = 0
  PROVE  /\ GoodWalk(w) /\ Grown(v, w) /\ SamePages(v.mem, w.mem, v.tree.root)
         /\ Low(w.mem, v.tree.root) = Low(v.mem, v.tree.root)
         /\ w.mem[Low(v.mem, v.tree.root)][i].pa = f /\ f # 0
<1>1. PICK c, d, r, n, mid, low :
        /\ c = v.mem /\ d = w.mem /\ r = v.tree.root /\ n = v.ram.next
        /\ mid = Mid(c, r) /\ low = Low(c, r)
  OBVIOUS
<1>2. /\ TreeOK(c, n, r) /\ n \in FirstFrame..(LastFrame + 1) /\ c \in Descriptors
      /\ d \in Descriptors /\ FirstFrame \in Nat \ {0} /\ LastFrame \in Nat /\ low # 0
  BY <1>1, FrameAssumption DEF GoodWalk, Linked, Walks, Allocator
<1>3. /\ r \in Drawn(n) /\ mid \in Drawn(n) \ {r} /\ c[r][0] = TableAt(mid)
      /\ low \in Drawn(n) \ {r, mid} /\ c[mid][0] = Link(low) /\ Drawn(n) \subseteq RamFrames
      /\ TreeFrames(c, r) \subseteq Drawn(n)
      /\ TreeFrames(c, r) = {r, mid, low} \cup ({c[low][j].pa : j \in Idx} \ {0})
  <2>1. TreeFrames(c, r) = {r, mid, low} \cup ({c[low][j].pa : j \in Idx} \ {0})
    BY <1>1, <1>2 DEF TreeFrames, Ends
  <2>2. Drawn(n) \subseteq RamFrames /\ TreeFrames(c, r) \subseteq Drawn(n)
    BY <1>2, FramesDrawn
  <2> QED BY <1>1, <1>2, <2>1, <2>2 DEF TreeOK
<1>4. \A j \in Idx :
        /\ c[low][j].pa \in (Drawn(n) \cup {0}) \ {r, mid, low}
        /\ c[low][j] = Link(c[low][j].pa)
        /\ c[low][j].pa # 0 =>
             \A k \in Idx : PageEntry(c[c[low][j].pa][k]) /\ (k # j => c[low][k].pa # c[low][j].pa)
  BY <1>1, <1>2, ZenonT(30) DEF TreeOK
<1>5. /\ f \in RamFrames /\ n <= f /\ f \notin TreeFrames(c, r)
      /\ d[f] = ZeroTable /\ d[low] = [c[low] EXCEPT ![i] = TableAt(f)]
      /\ \A g \in RamFrames \ {f, low} : d[g] = c[g]
  BY <1>1 DEF Linked
<1>6. f # 0 /\ f \in Drawn(f + 1) /\ Drawn(n) \subseteq Drawn(f + 1) /\ f \notin Drawn(n) /\ 0 \notin Drawn(n)
  <2>1. f \in Nat /\ n \in Nat /\ FirstFrame + 3 <= n
    BY <1>2, <1>3, <1>5 DEF RamFrames, Drawn
  <2> QED BY <1>2, <1>5, <2>1 DEF Drawn
<1>7. d[r] = c[r] /\ d[mid] = c[mid] /\ Mid(d, r) = mid /\ Low(d, r) = low
  <2>1. r \in RamFrames \ {f, low} /\ mid \in RamFrames \ {f, low}
    BY <1>3, <1>6
  <2>2. d[r] = c[r] /\ d[mid] = c[mid]
    BY <1>5, <2>1
  <2> QED BY <1>1, <2>2 DEF Mid, Low, Down
<1>8. d[low][i] = TableAt(f) /\ \A j \in Idx \ {i} : d[low][j] = c[low][j]
  <2>1. c[low] \in [Idx -> Entries]
    BY <1>2, <1>3 DEF Descriptors
  <2> QED BY <1>5, <2>1
<1>9. d[low][i].pa = f /\ \A j \in Idx \ {i} : d[low][j].pa = c[low][j].pa
  BY <1>8 DEF TableAt
<1>10. \A j \in Idx \ {i} : c[low][j].pa # 0 =>
          c[low][j].pa # f /\ d[c[low][j].pa] = c[c[low][j].pa]
  <2>1. ASSUME NEW j \in Idx \ {i}, c[low][j].pa # 0
        PROVE  c[low][j].pa \in RamFrames \ {f, low}
    BY <2>1, <1>3, <1>4, <1>6
  <2> QED BY <2>1, <1>5
<1>11. TreeOK(d, f + 1, r)
  <2>1. r \in Drawn(f + 1) /\ mid \in Drawn(f + 1) \ {r} /\ d[r][0] = TableAt(mid)
    BY <1>3, <1>6, <1>7
  <2>2. low \in (Drawn(f + 1) \cup {0}) \ {r, mid} /\ d[mid][0] = Link(low)
    BY <1>3, <1>6, <1>7
  <2>3. ASSUME NEW j \in Idx
        PROVE  LET x == d[low][j].pa
               IN  /\ x \in (Drawn(f + 1) \cup {0}) \ {r, mid, low}
                   /\ d[low][j] = Link(x)
                   /\ x # 0 => \A k \in Idx : PageEntry(d[x][k]) /\ (k # j => d[low][k].pa # x)
    <3>1. CASE j = i
      <4>1. d[low][j].pa = f /\ d[low][j] = Link(f) /\ f \notin {r, mid, low}
        BY <3>1, <1>3, <1>6, <1>8, <1>9 DEF Link
      <4>2. \A k \in Idx : d[f][k] = NoEntry
        BY <1>5 DEF ZeroTable
      <4>3. \A k \in Idx : k # i => d[low][k].pa # f
        BY <1>4, <1>6, <1>9
      <4> QED BY <3>1, <4>1, <4>2, <4>3, <1>6 DEF PageEntry
    <3>2. CASE j # i
      <4>1. PICK x : x = c[low][j].pa
        OBVIOUS
      <4>2. d[low][j].pa = x /\ d[low][j] = Link(x) /\ x \in (Drawn(n) \cup {0}) \ {r, mid, low}
        BY <3>2, <4>1, <1>4, <1>8, <1>9
      <4>3. ASSUME x # 0, NEW k \in Idx
            PROVE  PageEntry(d[x][k]) /\ (k # j => d[low][k].pa # x)
        <5>1. d[x] = c[x] /\ x # f /\ PageEntry(c[x][k]) /\ (k # j => c[low][k].pa # x)
          BY <4>3, <4>1, <3>2, <1>4, <1>10
        <5> QED BY <5>1, <1>9
      <4> QED BY <4>2, <4>3, <1>6
    <3> QED BY <3>1, <3>2
  <2> QED BY <2>1, <2>2, <2>3, <1>7 DEF TreeOK
<1>12. TreeFrames(d, r) = TreeFrames(c, r) \cup {f}
  <2>1. {d[low][j].pa : j \in Idx} \ {0} = ({c[low][j].pa : j \in Idx} \ {0}) \cup {f}
    <3>1. c[low][i].pa = 0
      BY <1>1
    <3> QED BY <3>1, <1>6, <1>9
  <2>2. TreeFrames(d, r) = {r, mid, low} \cup ({d[low][j].pa : j \in Idx} \ {0})
    BY <1>2, <1>7 DEF TreeFrames, Ends
  <2> QED BY <2>1, <2>2, <1>3
<1>13. SamePages(c, d, r)
  <2>1. ASSUME NEW j \in Idx, NEW k \in Idx
        PROVE  PageAt(d, r, j, k) = PageAt(c, r, j, k)
    <3>1. CASE j = i
      <4>1. PageAt(c, r, j, k) = NoEntry
        BY <1>1, <3>1 DEF PageAt
      <4>2. PageAt(d, r, j, k) = d[f][k]
        BY <3>1, <1>2, <1>6, <1>7, <1>9 DEF PageAt
      <4> QED BY <4>1, <4>2, <1>5 DEF ZeroTable
    <3>2. CASE j # i
      <4>1. d[low][j].pa = c[low][j].pa
        BY <3>2, <1>9
      <4>2. c[low][j].pa # 0 => d[c[low][j].pa] = c[c[low][j].pa]
        BY <3>2, <1>10
      <4> QED BY <4>1, <4>2, <1>1, <1>7 DEF PageAt
    <3> QED BY <3>1, <3>2
  <2> QED BY <2>1 DEF SamePages
<1>14. GoodWalk(w) /\ Grown(v, w)
  <2>1. v.at \in TreeFrames(c, r)
    BY <1>1, <1>3
  <2> QED BY <1>1, <1>7, <1>11, <1>12, <2>1, LinkedGrows
<1> QED BY <1>1, <1>6, <1>7, <1>9, <1>13, <1>14

\* From v to w the tree has grown, and maps what it mapped before.
Stage(v, w) == GoodWalk(w) /\ Grown(v, w) /\ SamePages(v.mem, w.mem, v.tree.root)

\* A walk that only moves.
LEMMA MoveStage ==
  ASSUME NEW v, GoodWalk(v), NEW w, w \in Walks, w.ram = v.ram, w.mem = v.mem, w.tree = v.tree
  PROVE  Stage(v, w)
<1>1. GoodWalk(w)
  BY DEF GoodWalk
<1>2. Grown(v, w)
  <2>1. v.ram.next \in Nat
    BY FrameAssumption DEF GoodWalk, Walks, Allocator
  <2> QED BY <2>1 DEF Grown
<1> QED BY <1>1, <1>2 DEF Stage, SamePages

\* A tree that has grown twice has grown.
LEMMA GrownTrans ==
  ASSUME NEW u, GoodWalk(u), NEW v, GoodWalk(v), NEW w, GoodWalk(w), Grown(u, v), Grown(v, w)
  PROVE  Grown(u, w)
<1>1. PICK r, F, G, H : r = u.tree.root /\ F = TreeFrames(u.mem, r) /\ G = TreeFrames(v.mem, r)
                        /\ H = TreeFrames(w.mem, r)
  OBVIOUS
<1>2. u.ram.next \in Nat /\ v.ram.next \in Nat /\ w.ram.next \in Nat
  BY FrameAssumption DEF GoodWalk, Walks, Allocator
<1>3. /\ v.tree.root = r /\ v.tree.used = u.tree.used /\ v.tree.asid = u.tree.asid
      /\ u.ram.next <= v.ram.next /\ v.ram.panic = u.ram.panic
      /\ F \subseteq G /\ G \ F \subseteq u.ram.next..(v.ram.next - 1)
      /\ \A f \in RamFrames \ G : v.mem[f] = u.mem[f]
      /\ v.mem[r] = u.mem[r]
      /\ \A i \in Idx \ {0} : v.mem[Mid(u.mem, r)][i] = u.mem[Mid(u.mem, r)][i]
      /\ \A f \in RamFrames : v.ram.tag[f] = IF f \in G \ F THEN "PageTable" ELSE u.ram.tag[f]
  BY <1>1 DEF Grown
<1>4. /\ w.tree.root = r /\ w.tree.used = v.tree.used /\ w.tree.asid = v.tree.asid
      /\ v.ram.next <= w.ram.next /\ w.ram.panic = v.ram.panic
      /\ G \subseteq H /\ H \ G \subseteq v.ram.next..(w.ram.next - 1)
      /\ \A f \in RamFrames \ H : w.mem[f] = v.mem[f]
      /\ w.mem[r] = v.mem[r]
      /\ \A i \in Idx \ {0} : w.mem[Mid(v.mem, r)][i] = v.mem[Mid(v.mem, r)][i]
      /\ \A f \in RamFrames : w.ram.tag[f] = IF f \in H \ G THEN "PageTable" ELSE v.ram.tag[f]
  BY <1>1, <1>3 DEF Grown
<1>5. Mid(v.mem, r) = Mid(u.mem, r)
  BY <1>3 DEF Mid, Down
<1>6. u.ram.next <= w.ram.next /\ F \subseteq H
  BY <1>2, <1>3, <1>4
<1>7. H \ F \subseteq u.ram.next..(w.ram.next - 1)
  BY <1>2, <1>3, <1>4
<1>8. \A f \in RamFrames : w.ram.tag[f] = IF f \in H \ F THEN "PageTable" ELSE u.ram.tag[f]
  BY <1>3, <1>4
<1>9. \A f \in RamFrames \ H : w.mem[f] = u.mem[f]
  BY <1>3, <1>4
<1> QED BY <1>1, <1>3, <1>4, <1>5, <1>6, <1>7, <1>8, <1>9, SMTT(30) DEF Grown

\* Two stages are a stage.
LEMMA StageTrans ==
  ASSUME NEW u, GoodWalk(u), NEW v, NEW w, Stage(u, v), Stage(v, w)
  PROVE  Stage(u, w)
<1>1. GoodWalk(v) /\ GoodWalk(w) /\ Grown(u, v) /\ Grown(v, w)
  BY DEF Stage
<1>2. Grown(u, w)
  BY <1>1, GrownTrans
<1>3. v.tree.root = u.tree.root
  BY <1>1 DEF Grown
<1>4. SamePages(u.mem, w.mem, u.tree.root)
  BY <1>3 DEF Stage, SamePages
<1> QED BY <1>1, <1>2, <1>4 DEF Stage

\* The first level of a walk: the table for the user's pages is there.
LEMMA DescendRoot ==
  ASSUME NEW v, GoodWalk(v), v.ok = TRUE, v.at = v.tree.root, NEW va \in UserVas,
         NEW w, w = Descend(v, va, 0)
  PROVE  Stage(v, w) /\ w.ok = TRUE /\ w.at = Mid(w.mem, w.tree.root)
<1>1. Index(va, 0) = 0
  BY IndexFacts
<1>2. PICK mid : mid = Mid(v.mem, v.tree.root)
  OBVIOUS
<1>3. v.mem[v.at][0] = TableAt(mid) /\ mid \in RamFrames
  <2>1. v.ram.next \in FirstFrame..(LastFrame + 1)
    BY DEF GoodWalk, Walks, Allocator
  <2>2. Drawn(v.ram.next) \subseteq RamFrames
    BY <2>1, FramesDrawn DEF GoodWalk
  <2> QED BY <1>2, <2>2 DEF GoodWalk, TreeOK
<1>4. w = [v EXCEPT !.at = mid]
  BY <1>1, <1>3 DEF Descend, TableAt
<1>5. v \in Walks
  BY DEF GoodWalk
<1>6. /\ w \in Walks /\ w.ram = v.ram /\ w.mem = v.mem /\ w.tree = v.tree
      /\ w.ok = v.ok /\ w.at = mid
  BY <1>3, <1>4, <1>5 DEF Walks
<1> QED BY <1>2, <1>6, MoveStage

\* The second level: its table is made when it is missing.
LEMMA DescendMid ==
  ASSUME NEW v, GoodWalk(v), v.ok = TRUE, v.at = Mid(v.mem, v.tree.root), NEW va \in UserVas,
         NEW w, w = Descend(v, va, 1)
  PROVE  /\ Stage(v, w) /\ w.ok \in BOOLEAN
         /\ w.ok => w.at = Low(w.mem, w.tree.root) /\ w.at # 0
<1>1. Index(va, 1) = 0
  BY IndexFacts
<1>2. PICK r, low, e : r = v.tree.root /\ low = Low(v.mem, r) /\ e = v.mem[v.at][0]
  OBVIOUS
<1>3. /\ v \in Walks /\ e = Link(low) /\ low \in RamFrames \cup {0}
      /\ v.at \in TreeFrames(v.mem, v.tree.root)
  <2>1. v.ram.next \in FirstFrame..(LastFrame + 1)
    BY DEF GoodWalk, Walks, Allocator
  <2>2. Drawn(v.ram.next) \subseteq RamFrames /\ v.at \in TreeFrames(v.mem, v.tree.root)
    BY <2>1, FramesDrawn DEF GoodWalk
  <2> QED BY <1>2, <2>2 DEF GoodWalk, TreeOK
<1>4. CASE low # 0
  <2>1. e.kind = "table" /\ e.pa = low
    BY <1>3, <1>4 DEF Link, TableAt
  <2>2. w = [v EXCEPT !.at = low]
    BY <1>1, <1>2, <2>1 DEF Descend
  <2>3. /\ w \in Walks /\ w.ram = v.ram /\ w.mem = v.mem /\ w.tree = v.tree
        /\ w.ok = v.ok /\ w.at = low
    BY <1>3, <2>2 DEF Walks
  <2> QED BY <1>2, <1>4, <2>3, MoveStage
<1>5. CASE low = 0
  <2>1. e.kind = "none"
    BY <1>3, <1>5 DEF Link, NoEntry
  <2>2. w = NewTable(v, 0, ZeroTable)
    BY <1>1, <1>2, <2>1 DEF Descend
  <2>3. CASE ~CanAlloc(v.ram)
    <3>1. w = [v EXCEPT !.ok = FALSE]
      BY <2>2, <2>3 DEF NewTable
    <3>2. /\ w \in Walks /\ w.ram = v.ram /\ w.mem = v.mem /\ w.tree = v.tree
          /\ w.ok = FALSE
      BY <1>3, <3>1 DEF Walks
    <3> QED BY <3>2, MoveStage
  <2>4. CASE CanAlloc(v.ram)
    <3>1. PICK f : Linked(v, w, 0, f)
      BY <1>3, <2>2, <2>4, IdxFacts, NewTableIs
    <3>2. /\ GoodWalk(w) /\ Grown(v, w) /\ SamePages(v.mem, w.mem, r)
          /\ Low(w.mem, r) = f /\ f # 0
      BY <1>2, <1>5, <3>1, AddLow
    <3>3. w.at = f /\ w.ok = TRUE /\ w.tree.root = r
      BY <1>2, <3>1 DEF Linked
    <3> QED BY <1>2, <3>2, <3>3 DEF Stage
  <2> QED BY <2>3, <2>4
<1> QED BY <1>4, <1>5

\* The third level, likewise.
LEMMA DescendLow ==
  ASSUME NEW v, GoodWalk(v), v.ok = TRUE, v.at = Low(v.mem, v.tree.root), v.at # 0,
         NEW va \in UserVas, NEW w, w = Descend(v, va, 2)
  PROVE  /\ Stage(v, w) /\ w.ok \in BOOLEAN
         /\ w.ok => /\ Low(w.mem, w.tree.root) # 0 /\ w.at # 0
                    /\ w.at = w.mem[Low(w.mem, w.tree.root)][Index(va, 2)].pa
<1>1. PICK i \in Idx : i = Index(va, 2)
  BY IndexFacts
<1>2. PICK r, low, e : r = v.tree.root /\ low = Low(v.mem, r) /\ e = v.mem[low][i]
  OBVIOUS
<1>3. /\ v \in Walks /\ e = Link(e.pa) /\ e.pa \in RamFrames \cup {0}
      /\ v.at = low /\ low # 0 /\ v.at \in TreeFrames(v.mem, v.tree.root)
  <2>1. v.ram.next \in FirstFrame..(LastFrame + 1)
    BY DEF GoodWalk, Walks, Allocator
  <2>2. Drawn(v.ram.next) \subseteq RamFrames /\ v.at \in TreeFrames(v.mem, v.tree.root)
    BY <2>1, FramesDrawn DEF GoodWalk
  <2> QED BY <1>2, <2>2 DEF GoodWalk, TreeOK
<1>4. CASE e.pa # 0
  <2>1. e.kind = "table"
    BY <1>3, <1>4 DEF Link, TableAt
  <2>2. w = [v EXCEPT !.at = e.pa]
    BY <1>1, <1>2, <1>3, <2>1 DEF Descend
  <2>3. /\ w \in Walks /\ w.ram = v.ram /\ w.mem = v.mem /\ w.tree = v.tree
        /\ w.ok = v.ok /\ w.at = e.pa
    BY <1>3, <2>2 DEF Walks
  <2> QED BY <1>1, <1>2, <1>3, <1>4, <2>3, MoveStage
<1>5. CASE e.pa = 0
  <2>1. e.kind = "none"
    BY <1>3, <1>5 DEF Link, NoEntry
  <2>2. w = NewTable(v, i, ZeroTable)
    BY <1>1, <1>2, <1>3, <2>1 DEF Descend
  <2>3. CASE ~CanAlloc(v.ram)
    <3>1. w = [v EXCEPT !.ok = FALSE]
      BY <2>2, <2>3 DEF NewTable
    <3>2. /\ w \in Walks /\ w.ram = v.ram /\ w.mem = v.mem /\ w.tree = v.tree
          /\ w.ok = FALSE
      BY <1>3, <3>1 DEF Walks
    <3> QED BY <3>2, MoveStage
  <2>4. CASE CanAlloc(v.ram)
    <3>1. PICK f : Linked(v, w, i, f)
      BY <1>3, <2>2, <2>4, NewTableIs
    <3>2. /\ GoodWalk(w) /\ Grown(v, w) /\ SamePages(v.mem, w.mem, r)
          /\ Low(w.mem, r) = low /\ w.mem[low][i].pa = f /\ f # 0
      BY <1>2, <1>3, <1>5, <3>1, AddEnd
    <3>3. w.at = f /\ w.ok = TRUE /\ w.tree.root = r
      BY <1>2, <3>1 DEF Linked
    <3> QED BY <1>1, <1>2, <1>3, <3>2, <3>3 DEF Stage
  <2> QED BY <2>3, <2>4
<1> QED BY <1>4, <1>5

\* The page that a map writes.
Page(pa, attr) == [kind |-> "page", pa |-> pa, attr |-> attr]

Attrs == SUBSET {"U", "W", "X"}

\* From c to d the entry of the last level for the indices i and j became e.
OnePage(c, d, r, i, j, e) ==
  \A a, b \in Idx : PageAt(d, r, a, b) = IF a = i /\ b = j THEN e ELSE PageAt(c, r, a, b)

\* The last step of a walk writes one entry.
LEMMA WriteSound ==
  ASSUME NEW v, GoodWalk(v), v.ok = TRUE, NEW i \in Idx, NEW j \in Idx,
         Low(v.mem, v.tree.root) # 0, v.at # 0,
         v.at = v.mem[Low(v.mem, v.tree.root)][i].pa,
         NEW pa \in Nat, NEW attr \in Attrs, NEW w, w = WritePage(v, j, pa, attr)
  PROVE  /\ GoodWalk(w) /\ Grown(v, w) /\ w.ok = TRUE
         /\ OnePage(v.mem, w.mem, v.tree.root, i, j, Page(pa, attr))
<1>1. PICK c, r, n, mid, low, at, p :
        /\ c = v.mem /\ r = v.tree.root /\ n = v.ram.next /\ at = v.at
        /\ mid = Mid(c, r) /\ low = Low(c, r) /\ p = Page(pa, attr)
  OBVIOUS
<1>2. /\ v \in Walks /\ TreeOK(c, n, r) /\ n \in FirstFrame..(LastFrame + 1) /\ c \in Descriptors
  BY <1>1 DEF GoodWalk, Walks, Allocator
<1>3. /\ r \in Drawn(n) /\ mid \in Drawn(n) \ {r} /\ c[r][0] = TableAt(mid)
      /\ low \in Drawn(n) \ {r, mid} /\ c[mid][0] = Link(low)
      /\ Drawn(n) \subseteq RamFrames /\ 0 \notin Drawn(n)
  <2>1. Drawn(n) \subseteq RamFrames /\ 0 \notin Drawn(n)
    BY <1>2, FramesDrawn
  <2> QED BY <1>1, <1>2, <2>1 DEF TreeOK
<1>4. \A k \in Idx :
        /\ c[low][k].pa \in (Drawn(n) \cup {0}) \ {r, mid, low}
        /\ c[low][k] = Link(c[low][k].pa)
        /\ c[low][k].pa # 0 =>
             \A l \in Idx : PageEntry(c[c[low][k].pa][l]) /\ (l # k => c[low][l].pa # c[low][k].pa)
  BY <1>1, <1>2, ZenonT(30) DEF TreeOK
<1>5. at \in Drawn(n) \ {r, mid, low} /\ at \in RamFrames /\ c[low][i].pa = at /\ low # 0 /\ at # 0
  BY <1>1, <1>3, <1>4
<1>6. PICK d : d = [c EXCEPT ![at][j] = p]
  OBVIOUS
<1>7. p \in Entries /\ PageEntry(p)
  BY <1>1 DEF Page, Entries, Attrs, PageEntry
<1>8. /\ d \in Descriptors /\ d[at][j] = p
      /\ \A l \in Idx \ {j} : d[at][l] = c[at][l]
      /\ \A g \in RamFrames \ {at} : d[g] = c[g]
  <2>1. c[at] \in [Idx -> Entries]
    BY <1>2, <1>5 DEF Descriptors
  <2>2. PICK x : x = [c[at] EXCEPT ![j] = p]
    OBVIOUS
  <2>3. x \in [Idx -> Entries] /\ x[j] = p /\ \A l \in Idx \ {j} : x[l] = c[at][l]
    BY <2>1, <2>2, <1>7
  <2>4. d = [c EXCEPT ![at] = x]
    BY <1>6, <2>2
  <2>5. d \in Descriptors /\ d[at] = x /\ \A g \in RamFrames \ {at} : d[g] = c[g]
    BY <1>2, <1>5, <2>3, <2>4 DEF Descriptors
  <2> QED BY <2>3, <2>5
<1>9. d[r] = c[r] /\ d[mid] = c[mid] /\ d[low] = c[low] /\ Mid(d, r) = mid /\ Low(d, r) = low
  <2>1. d[r] = c[r] /\ d[mid] = c[mid] /\ d[low] = c[low]
    BY <1>3, <1>5, <1>8
  <2> QED BY <1>1, <2>1 DEF Mid, Low, Down
<1>10. \A k \in Idx \ {i} : c[low][k].pa # 0 => d[c[low][k].pa] = c[c[low][k].pa]
  <2>1. ASSUME NEW k \in Idx \ {i}, c[low][k].pa # 0
        PROVE  c[low][k].pa \in RamFrames \ {at}
    BY <2>1, <1>3, <1>4, <1>5
  <2> QED BY <2>1, <1>8
<1>11. TreeOK(d, n, r)
  <2>1. ASSUME NEW k \in Idx
        PROVE  LET x == d[low][k].pa
               IN  /\ x \in (Drawn(n) \cup {0}) \ {r, mid, low}
                   /\ d[low][k] = Link(x)
                   /\ x # 0 => \A l \in Idx : PageEntry(d[x][l]) /\ (l # k => d[low][l].pa # x)
    <3>1. CASE k = i
      <4>1. \A l \in Idx : PageEntry(d[at][l])
        BY <1>4, <1>5, <1>7, <1>8
      <4> QED BY <3>1, <4>1, <1>4, <1>5, <1>9
    <3>2. CASE k # i
      <4>1. PICK x : x = c[low][k].pa
        OBVIOUS
      <4>2. x # 0 => d[x] = c[x]
        BY <3>2, <4>1, <1>10
      <4> QED BY <4>1, <4>2, <1>4, <1>9
    <3> QED BY <3>1, <3>2
  <2> QED BY <2>1, <1>3, <1>9 DEF TreeOK
<1>12. TreeFrames(d, r) = TreeFrames(c, r)
  BY <1>1, <1>9 DEF TreeFrames, Ends
<1>13. OnePage(c, d, r, i, j, p)
  <2>1. ASSUME NEW a \in Idx, NEW b \in Idx
        PROVE  PageAt(d, r, a, b) = IF a = i /\ b = j THEN p ELSE PageAt(c, r, a, b)
    <3>1. CASE a = i
      <4>1. PageAt(d, r, a, b) = d[at][b] /\ PageAt(c, r, a, b) = c[at][b]
        BY <3>1, <1>1, <1>5, <1>9 DEF PageAt
      <4> QED BY <3>1, <4>1, <1>8
    <3>2. CASE a # i
      <4>1. PICK x : x = c[low][a].pa
        OBVIOUS
      <4>2. d[low][a].pa = x /\ (x # 0 => d[x] = c[x])
        BY <3>2, <4>1, <1>9, <1>10
      <4>3. PageAt(d, r, a, b) = IF x = 0 THEN NoEntry ELSE d[x][b]
        BY <4>2, <1>5, <1>9 DEF PageAt
      <4>4. PageAt(c, r, a, b) = IF x = 0 THEN NoEntry ELSE c[x][b]
        BY <4>1, <1>1, <1>5 DEF PageAt
      <4> QED BY <3>2, <4>2, <4>3, <4>4
    <3> QED BY <3>1, <3>2
  <2> QED BY <2>1 DEF OnePage
<1>14. w = [v EXCEPT !.mem = d]
  <2>1. w = [v EXCEPT !.mem[v.at][j] = p]
    BY <1>1 DEF WritePage, Page
  <2> QED BY <2>1, <1>1, <1>2, <1>6 DEF Walks
<1>15. w \in Walks /\ w.mem = d /\ w.ram = v.ram /\ w.tree = v.tree /\ w.ok = TRUE
  BY <1>2, <1>8, <1>14 DEF Walks
<1>16. GoodWalk(w)
  BY <1>1, <1>11, <1>12, <1>15 DEF GoodWalk
<1>17. Grown(v, w)
  <2>1. v.ram.next <= v.ram.next
    BY <1>1, <1>2, FrameAssumption
  <2>2. at \in TreeFrames(c, r)
    <3>1. at \in Ends(c, r)
      BY <1>1, <1>5 DEF Ends
    <3> QED BY <3>1 DEF TreeFrames
  <2>3. \A f \in RamFrames \ TreeFrames(c, r) : d[f] = c[f]
    BY <2>2, <1>8
  <2> QED BY <2>1, <2>3, <1>1, <1>9, <1>12, <1>15 DEF Grown
<1> QED BY <1>1, <1>13, <1>15, <1>16, <1>17

\* map_va as a whole: the tree grows by what it needs; one page changes when it
\* succeeds, none when it fails.
LEMMA MapSound ==
  ASSUME NEW v, GoodWalk(v), v.ok = TRUE, v.at = v.tree.root, NEW va \in UserVas,
         NEW pa \in Nat, NEW attr \in Attrs, NEW w, w = map_va(v, va, pa, attr)
  PROVE  /\ GoodWalk(w) /\ Grown(v, w) /\ w.ok \in BOOLEAN
         /\ w.ok => OnePage(v.mem, w.mem, v.tree.root, Index(va, 2), Index(va, 3), Page(pa, attr))
         /\ ~w.ok => SamePages(v.mem, w.mem, v.tree.root)
<1>1. PICK w1 : w1 = Descend(v, va, 0)
  OBVIOUS
<1>2. PICK w2 : w2 = Descend(w1, va, 1)
  OBVIOUS
<1>3. PICK w3 : w3 = Descend(w2, va, 2)
  OBVIOUS
<1>4. w = WritePage(w3, Index(va, 3), pa, attr)
  BY <1>1, <1>2, <1>3 DEF map_va
<1>5. Stage(v, w1) /\ GoodWalk(w1) /\ w1.ok = TRUE /\ w1.at = Mid(w1.mem, w1.tree.root)
  BY <1>1, DescendRoot DEF Stage
<1>6. /\ Stage(w1, w2) /\ GoodWalk(w2) /\ w2.ok \in BOOLEAN
      /\ w2.ok => w2.at = Low(w2.mem, w2.tree.root) /\ w2.at # 0
  BY <1>2, <1>5, DescendMid DEF Stage
<1>7. Stage(v, w2)
  BY <1>5, <1>6, StageTrans
<1>8. /\ Stage(w2, w3) /\ GoodWalk(w3) /\ w3.ok \in BOOLEAN
      /\ w3.ok => /\ Low(w3.mem, w3.tree.root) # 0 /\ w3.at # 0
                  /\ w3.at = w3.mem[Low(w3.mem, w3.tree.root)][Index(va, 2)].pa
  <2>1. CASE w2.ok
    BY <2>1, <1>3, <1>6, DescendLow DEF Stage
  <2>2. CASE ~w2.ok
    <3>1. w3 = w2
      <4>1. w2.ok = FALSE
        BY <2>2, <1>6
      <4> QED BY <4>1, <1>3 DEF Descend
    <3>2. w2 \in Walks
      BY <1>6 DEF GoodWalk
    <3> QED BY <2>2, <3>1, <3>2, <1>6, MoveStage
  <2> QED BY <2>1, <2>2
<1>9. Stage(v, w3)
  BY <1>7, <1>8, StageTrans
<1>10. CASE ~w3.ok
  <2>1. w = w3
    BY <1>4, <1>10 DEF WritePage
  <2> QED BY <2>1, <1>8, <1>9, <1>10 DEF Stage
<1>11. CASE w3.ok
  <2>1. PICK i \in Idx : i = Index(va, 2)
    BY IndexFacts
  <2>2. PICK j \in Idx : j = Index(va, 3)
    BY IndexFacts
  <2>3. /\ GoodWalk(w) /\ Grown(w3, w) /\ w.ok = TRUE
        /\ OnePage(w3.mem, w.mem, w3.tree.root, i, j, Page(pa, attr))
    BY <1>4, <1>8, <1>11, <2>1, <2>2, WriteSound
  <2>4. Grown(v, w3) /\ SamePages(v.mem, w3.mem, v.tree.root) /\ w3.tree.root = v.tree.root
    BY <1>9 DEF Stage, Grown
  <2>5. Grown(v, w)
    BY <1>8, <2>3, <2>4, GrownTrans
  <2>6. OnePage(v.mem, w.mem, v.tree.root, i, j, Page(pa, attr))
    BY <2>3, <2>4 DEF OnePage, SamePages
  <2> QED BY <2>1, <2>2, <2>3, <2>5, <2>6
<1> QED BY <1>10, <1>11

-----------------------------------------------------------------------------
(* New trees. *)

\* The pages of a tree are device pages, at their own addresses.
OnlyDevices(c, r) ==
  \A i, j \in Idx :
    \/ PageAt(c, r, i, j) = NoEntry
    \/ \E k \in 1..Len(Devices) : /\ i = Index(Devices[k], 2) /\ j = Index(Devices[k], 3)
                                  /\ PageAt(c, r, i, j) = Page(Devices[k], UserRW)

\* w is at a tree that was made after m and c, and is still without the
\* kernel's part.
Born(m, c, w) ==
  LET G == TreeFrames(w.mem, w.tree.root)
  IN  /\ GoodWalk(w) /\ w.ok = TRUE /\ w.tree.used = FALSE /\ w.tree.asid = 0
      /\ m.next <= w.ram.next /\ w.ram.panic = m.panic
      /\ G \subseteq m.next..(w.ram.next - 1)
      /\ \A f \in RamFrames \ G : w.mem[f] = c[f]
      /\ \A f \in RamFrames : w.ram.tag[f] = IF f \in G THEN "PageTable" ELSE m.tag[f]
      /\ \A i \in Idx \ {0} : w.mem[w.tree.root][i] = NoEntry /\ w.mem[Mid(w.mem, w.tree.root)][i] = NoEntry
      /\ OnlyDevices(w.mem, w.tree.root)

\* What is left when there is no memory for a tree: at most one page is lost.
Unborn(m, c, w) ==
  /\ w \in Walks /\ w.ok = FALSE /\ w.tree = NoSpace /\ w.mem = c
  /\ RamSound(w.ram) /\ m.next <= w.ram.next /\ w.ram.panic = m.panic
  /\ \A f \in RamFrames : w.ram.tag[f] # m.tag[f] => f \in m.next..(w.ram.next - 1) /\ w.ram.tag[f] = "PageTable"

\* The memory with an empty table l1 below the first entry of l0.
RootAt(c, l0, l1) == [c EXCEPT ![l0] = [ZeroTable EXCEPT ![0] = TableAt(l1)], ![l1] = ZeroTable]

\* That, entry by entry.
IsRootAt(c, d, l0, l1) ==
  /\ d \in Descriptors /\ d[l0][0] = TableAt(l1)
  /\ \A i \in Idx \ {0} : d[l0][i] = NoEntry
  /\ \A i \in Idx : d[l1][i] = NoEntry
  /\ \A f \in RamFrames \ {l0, l1} : d[f] = c[f]

\* Those two tables change.
LEMMA RootAtIs ==
  ASSUME NEW c \in Descriptors, NEW l0 \in RamFrames, NEW l1 \in RamFrames \ {l0}
  PROVE  IsRootAt(c, RootAt(c, l0, l1), l0, l1)
<1>0. PICK d : d = RootAt(c, l0, l1)
  OBVIOUS
<1>1. ZeroTable \in [Idx -> Entries]
  BY DEF ZeroTable, NoEntry, Entries
<1>2. TableAt(l1) \in Entries
  BY FrameAssumption DEF TableAt, Entries, RamFrames
<1>3. PICK x : x = [ZeroTable EXCEPT ![0] = TableAt(l1)]
  OBVIOUS
<1>4. x \in [Idx -> Entries] /\ x[0] = TableAt(l1) /\ \A i \in Idx \ {0} : x[i] = NoEntry
  <2>1. \A i \in Idx : ZeroTable[i] = NoEntry
    BY DEF ZeroTable
  <2> QED BY <1>1, <1>2, <1>3, <2>1, IdxFacts
<1>5. PICK y : y = ZeroTable
  OBVIOUS
<1>6. \A i \in Idx : y[i] = NoEntry
  BY <1>5 DEF ZeroTable
<1>7. d = [c EXCEPT ![l0] = x, ![l1] = y]
  BY <1>0, <1>3, <1>5 DEF RootAt
<1>8. /\ d \in Descriptors /\ d[l0] = x /\ d[l1] = y
      /\ \A f \in RamFrames \ {l0, l1} : d[f] = c[f]
  BY <1>1, <1>4, <1>5, <1>7 DEF Descriptors
<1> QED BY <1>0, <1>4, <1>6, <1>8 DEF IsRootAt

\* allocate_root makes a root and the table below it, or nothing that anybody
\* will find.
LEMMA RootSound ==
  ASSUME NEW m, RamSound(m), FirstFrame + 3 <= m.next, NEW c \in Descriptors,
         NEW w, w = allocate_root(Walk(m, c, NoSpace))
  PROVE  Unborn(m, c, w) \/ (Born(m, c, w) /\ w.at = w.tree.root)
<1>1. PICK v : v = Walk(m, c, NoSpace)
  OBVIOUS
<1>2. v.ram = m /\ v.mem = c /\ v.tree = NoSpace /\ v.at = 0 /\ v.ok = FALSE
  BY <1>1 DEF Walk, NoSpace
<1>3. NoSpace \in Spaces
  BY SpaceAssumption DEF NoSpace, Spaces
<1>4. /\ m \in Allocator /\ m.next \in Nat /\ m.next \in FirstFrame..(LastFrame + 1)
      /\ m.tag \in [RamFrames -> Tags] /\ FirstFrame \in Nat \ {0} /\ LastFrame \in Nat
  BY FrameAssumption DEF RamSound, Allocator
<1>5. v \in Walks
  BY <1>1, <1>3, <1>4 DEF Walk, Walks, NoSpace
<1>6. CASE ~CanAlloc(m)
  <2>1. w = [v EXCEPT !.ok = FALSE]
    BY <1>1, <1>2, <1>6 DEF allocate_root
  <2>2. w \in Walks /\ w.ram = m /\ w.mem = c /\ w.tree = NoSpace /\ w.ok = FALSE
    BY <1>2, <1>5, <2>1 DEF Walks
  <2> QED BY <2>2, <1>4 DEF Unborn
<1>7. CASE CanAlloc(m)
  <2>1. PICK l0, m1 : l0 = Candidate(m) /\ m1 = alloc_page(m, "PageTable")
    OBVIOUS
  <2>2. /\ l0 \in RamFrames /\ m.next <= l0 /\ RamSound(m1)
        /\ m1 = [m EXCEPT !.tag[l0] = "PageTable", !.next = l0 + 1]
    BY <1>7, <2>1, AllocSound DEF Tags
  <2>3. m1.tag = [m.tag EXCEPT ![l0] = "PageTable"] /\ m1.next = l0 + 1 /\ m1.panic = m.panic
    BY <1>4, <2>2 DEF Allocator
  <2>4. m1 \in Allocator
    BY <2>2 DEF RamSound
  <2>5. CASE ~CanAlloc(m1)
    <3>1. w = [v EXCEPT !.ram = m1, !.ok = FALSE]
      BY <1>1, <1>2, <1>7, <2>1, <2>5 DEF allocate_root
    <3>2. w \in Walks /\ w.ram = m1 /\ w.mem = c /\ w.tree = NoSpace /\ w.ok = FALSE
      BY <1>2, <1>5, <2>4, <3>1 DEF Walks
    <3>3. m.next <= m1.next
          /\ \A f \in RamFrames : m1.tag[f] # m.tag[f] => f \in m.next..(m1.next - 1) /\ m1.tag[f] = "PageTable"
      BY <1>4, <2>2, <2>3 DEF RamFrames
    <3> QED BY <2>2, <2>3, <3>2, <3>3 DEF Unborn
  <2>6. CASE CanAlloc(m1)
    <3>1. PICK l1, m2 : l1 = Candidate(m1) /\ m2 = alloc_page(m1, "PageTable")
      OBVIOUS
    <3>2. /\ l1 \in RamFrames /\ m1.next <= l1 /\ RamSound(m2)
          /\ m2 = [m1 EXCEPT !.tag[l1] = "PageTable", !.next = l1 + 1]
      <4>1. "PageTable" \in Tags
        BY DEF Tags
      <4> QED BY <2>2, <2>6, <3>1, <4>1, AllocSound
    <3>3. m2.tag = [m1.tag EXCEPT ![l1] = "PageTable"] /\ m2.next = l1 + 1 /\ m2.panic = m1.panic
      BY <2>4, <3>2 DEF Allocator
    <3>4. /\ l0 \in Nat \ {0} /\ l1 \in Nat \ {0} /\ l0 < l1 /\ m.next <= l0
          /\ l0 \in Drawn(l1 + 1) /\ l1 \in Drawn(l1 + 1)
          /\ {l0, l1} \subseteq m.next..((l1 + 1) - 1) /\ m.next <= l1 + 1
      BY <1>4, <2>2, <2>3, <3>2 DEF RamFrames, Drawn
    <3>5. PICK d : d = RootAt(c, l0, l1)
      OBVIOUS
    <3>6. /\ d \in Descriptors /\ d[l0][0] = TableAt(l1)
          /\ \A i \in Idx \ {0} : d[l0][i] = NoEntry
          /\ \A i \in Idx : d[l1][i] = NoEntry
          /\ \A f \in RamFrames \ {l0, l1} : d[f] = c[f]
      <4>1. l0 \in RamFrames /\ l1 \in RamFrames \ {l0}
        BY <2>2, <3>2, <3>4
      <4>2. IsRootAt(c, d, l0, l1)
        BY <4>1, <3>5, RootAtIs
      <4> QED BY <4>2 DEF IsRootAt
    <3>7. PICK t : t = [NoSpace EXCEPT !.root = l0, !.tracked = <<l0, l1>>]
      OBVIOUS
    <3>8. /\ t \in Spaces /\ t.root = l0 /\ t.tracked = <<l0, l1>>
          /\ t.used = FALSE /\ t.asid = 0
      <4>1. PICK q : q = <<l0, l1>>
        OBVIOUS
      <4>2. q \in Seq(RamFrames)
        BY <4>1, <2>2, <3>2
      <4>3. t = [NoSpace EXCEPT !.root = l0, !.tracked = q]
        BY <3>7, <4>1
      <4>4. /\ t \in Spaces /\ t.root = l0 /\ t.tracked = q /\ t.used = NoSpace.used
            /\ t.asid = NoSpace.asid
        BY <1>3, <2>2, <4>2, <4>3 DEF Spaces
      <4>5. NoSpace.used = FALSE /\ NoSpace.asid = 0
        BY DEF NoSpace
      <4> QED BY <4>1, <4>4, <4>5
    <3>9. w = [v EXCEPT !.ram = m2, !.mem = d, !.tree = t, !.at = l0, !.ok = TRUE]
      <4>1. w = [v EXCEPT !.ram = m2, !.mem = [@ EXCEPT ![l0] = [ZeroTable EXCEPT ![0] = TableAt(l1)],
                                                          ![l1] = ZeroTable],
                          !.tree = [@ EXCEPT !.root = l0, !.tracked = <<l0, l1>>],
                          !.at = l0, !.ok = TRUE]
        BY <1>1, <1>2, <1>7, <2>1, <2>6, <3>1, Zenon DEF allocate_root
      <4>2. d = [v.mem EXCEPT ![l0] = [ZeroTable EXCEPT ![0] = TableAt(l1)], ![l1] = ZeroTable]
        BY <1>2, <3>5 DEF RootAt
      <4>3. t = [v.tree EXCEPT !.root = l0, !.tracked = <<l0, l1>>]
        BY <1>2, <3>7
      <4> QED BY <4>1, <4>2, <4>3, <1>5 DEF Walks
    <3>10. /\ w.ram = m2 /\ w.mem = d /\ w.tree = t /\ w.at = l0 /\ w.ok = TRUE /\ w \in Walks
      <4>1. m2 \in Allocator
        BY <3>2 DEF RamSound
      <4> QED BY <1>5, <2>2, <3>6, <3>8, <3>9, <4>1 DEF Walks
    <3>11. Mid(d, l0) = l1 /\ Low(d, l0) = 0
      <4>1. Mid(d, l0) = l1
        BY <3>6 DEF Mid, Down, TableAt
      <4> QED BY <3>6, <4>1, IdxFacts DEF Low, Down, NoEntry
    <3>12. TreeFrames(d, l0) = {l0, l1}
      BY <3>11 DEF TreeFrames, Ends
    <3>13. TreeOK(d, l1 + 1, l0)
      <4>1. d[l1][0] = Link(0) /\ 0 \notin {l0, l1}
        BY <3>4, <3>6, IdxFacts DEF Link
      <4> QED BY <3>4, <3>6, <3>11, <4>1 DEF TreeOK
    <3>14. Tracks(<<l0, l1>>, {l0, l1})
      <4>1. PICK q : q = <<l0, l1>>
        OBVIOUS
      <4>2. Len(q) = 2 /\ q[1] = l0 /\ q[2] = l1
        BY <4>1
      <4>3. \A k \in 1..2 : k = 1 \/ k = 2
        OBVIOUS
      <4>4. 1 \in 1..2 /\ 2 \in 1..2 /\ 2 <= MaxTrack
        BY SpaceAssumption
      <4>5. Tracks(q, {l0, l1})
        BY <3>4, <4>2, <4>3, <4>4 DEF Tracks
      <4> QED BY <4>1, <4>5
    <3>15. GoodWalk(w)
      BY <3>2, <3>3, <3>8, <3>10, <3>12, <3>13, <3>14 DEF GoodWalk
    <3>16. \A f \in RamFrames : m2.tag[f] = IF f \in {l0, l1} THEN "PageTable" ELSE m.tag[f]
      BY <1>4, <2>3, <2>4, <3>3 DEF Allocator
    <3>17. OnlyDevices(d, l0)
      BY <3>11 DEF OnlyDevices, PageAt
    <3>18. Born(m, c, w)
      <4>1. /\ w.tree.root = l0 /\ w.tree.used = FALSE /\ w.tree.asid = 0
            /\ w.ram.next = l1 + 1 /\ w.ram.panic = m.panic
        BY <2>3, <3>3, <3>8, <3>10
      <4>2. TreeFrames(w.mem, w.tree.root) = {l0, l1} /\ Mid(w.mem, w.tree.root) = l1
        BY <3>10, <3>11, <3>12, <4>1
      <4>3. \A i \in Idx \ {0} : d[l0][i] = NoEntry /\ d[l1][i] = NoEntry
        BY <3>6
      <4> QED BY <3>4, <3>6, <3>10, <3>15, <3>16, <3>17, <4>1, <4>2, <4>3 DEF Born
    <3> QED BY <3>8, <3>10, <3>18
  <2> QED BY <2>5, <2>6
<1> QED BY <1>6, <1>7

\* A new tree stays one while it grows by pages of devices.
LEMMA BornGrows ==
  ASSUME NEW m, RamSound(m), NEW c, NEW v, Born(m, c, v), NEW w, GoodWalk(w), Grown(v, w),
         w.ok = TRUE, OnlyDevices(w.mem, v.tree.root)
  PROVE  Born(m, c, w)
<1>1. PICK r, F, G : r = v.tree.root /\ F = TreeFrames(v.mem, r) /\ G = TreeFrames(w.mem, r)
  OBVIOUS
<1>2. GoodWalk(v)
  BY DEF Born
<1>3. m.next \in Nat /\ v.ram.next \in Nat /\ w.ram.next \in Nat
  BY <1>2, FrameAssumption DEF RamSound, GoodWalk, Walks, Allocator
<1>4. /\ v.tree.used = FALSE /\ v.tree.asid = 0
      /\ m.next <= v.ram.next /\ v.ram.panic = m.panic /\ F \subseteq m.next..(v.ram.next - 1)
      /\ \A f \in RamFrames \ F : v.mem[f] = c[f]
      /\ \A f \in RamFrames : v.ram.tag[f] = IF f \in F THEN "PageTable" ELSE m.tag[f]
      /\ \A i \in Idx \ {0} : v.mem[r][i] = NoEntry /\ v.mem[Mid(v.mem, r)][i] = NoEntry
  BY <1>1 DEF Born
<1>5. /\ w.tree.root = r /\ w.tree.used = v.tree.used /\ w.tree.asid = v.tree.asid
      /\ v.ram.next <= w.ram.next /\ w.ram.panic = v.ram.panic
      /\ F \subseteq G /\ G \ F \subseteq v.ram.next..(w.ram.next - 1)
      /\ \A f \in RamFrames \ G : w.mem[f] = v.mem[f]
      /\ w.mem[r] = v.mem[r]
      /\ \A i \in Idx \ {0} : w.mem[Mid(v.mem, r)][i] = v.mem[Mid(v.mem, r)][i]
      /\ \A f \in RamFrames : w.ram.tag[f] = IF f \in G \ F THEN "PageTable" ELSE v.ram.tag[f]
  BY <1>1 DEF Grown
<1>6. Mid(w.mem, r) = Mid(v.mem, r)
  BY <1>5 DEF Mid, Down
<1>7. m.next <= w.ram.next /\ G \subseteq m.next..(w.ram.next - 1)
  BY <1>3, <1>4, <1>5
<1>8. /\ \A f \in RamFrames \ G : w.mem[f] = c[f]
      /\ \A f \in RamFrames : w.ram.tag[f] = IF f \in G THEN "PageTable" ELSE m.tag[f]
  <2>1. ASSUME NEW f \in RamFrames \ G
        PROVE  w.mem[f] = c[f]
    <3>1. f \in RamFrames \ F
      BY <1>5
    <3>2. w.mem[f] = v.mem[f]
      BY <1>5
    <3>3. v.mem[f] = c[f]
      BY <3>1, <1>4
    <3> QED BY <3>2, <3>3
  <2>2. ASSUME NEW f \in RamFrames
        PROVE  w.ram.tag[f] = IF f \in G THEN "PageTable" ELSE m.tag[f]
    <3>1. w.ram.tag[f] = IF f \in G \ F THEN "PageTable" ELSE v.ram.tag[f]
      BY <1>5
    <3>2. v.ram.tag[f] = IF f \in F THEN "PageTable" ELSE m.tag[f]
      BY <1>4
    <3>3. f \in F => f \in G
      BY <1>5
    <3> QED BY <3>1, <3>2, <3>3
  <2> QED BY <2>1, <2>2
<1>9. \A i \in Idx \ {0} : w.mem[r][i] = NoEntry /\ w.mem[Mid(w.mem, r)][i] = NoEntry
  BY <1>4, <1>5, <1>6
<1> QED BY <1>1, <1>4, <1>5, <1>7, <1>8, <1>9 DEF Born

\* Mapping one device, or failing to.
LEMMA DeviceSound ==
  ASSUME NEW m, RamSound(m), NEW c, NEW v, Born(m, c, v), NEW k \in 1..Len(Devices),
         NEW w, w = MapDevice(v, Devices[k])
  PROVE  Born(m, c, w)
<1>1. PICK va : va = Devices[k]
  OBVIOUS
<1>2. va \in UserVas /\ va \in Nat
  <2>1. va \in UserVas
    BY <1>1, SpaceAssumption
  <2> QED BY <2>1, IndexFacts
<1>3. GoodWalk(v) /\ v \in Walks /\ v.tree.root \in RamFrames \cup {0} /\ OnlyDevices(v.mem, v.tree.root)
  BY DEF Born, GoodWalk, Walks, Spaces
<1>4. PICK v1 : v1 = [v EXCEPT !.at = v.tree.root, !.ok = TRUE]
  OBVIOUS
<1>5. /\ v1 \in Walks /\ v1.ram = v.ram /\ v1.mem = v.mem /\ v1.tree = v.tree
      /\ v1.at = v.tree.root /\ v1.ok = TRUE
  BY <1>3, <1>4 DEF Walks
<1>6. GoodWalk(v1) /\ Grown(v, v1)
  BY <1>3, <1>5, MoveStage DEF Stage
<1>7. PICK v2 : v2 = map_va(v1, va, va, UserRW)
  OBVIOUS
<1>8. UserRW \in Attrs
  BY DEF UserRW, Attrs
<1>9. /\ GoodWalk(v2) /\ Grown(v1, v2) /\ v2.ok \in BOOLEAN
      /\ v2.ok => OnePage(v.mem, v2.mem, v.tree.root, Index(va, 2), Index(va, 3), Page(va, UserRW))
      /\ ~v2.ok => SamePages(v.mem, v2.mem, v.tree.root)
  BY <1>2, <1>5, <1>6, <1>7, <1>8, MapSound
<1>10. w = [v2 EXCEPT !.ok = TRUE]
  BY <1>1, <1>4, <1>7 DEF MapDevice
<1>11. v2 \in Walks
  BY <1>9 DEF GoodWalk
<1>12. /\ w \in Walks /\ w.ram = v2.ram /\ w.mem = v2.mem /\ w.tree = v2.tree /\ w.ok = TRUE
  BY <1>10, <1>11 DEF Walks
<1>13. GoodWalk(w) /\ Grown(v2, w)
  BY <1>9, <1>12, MoveStage DEF Stage
<1>14. Grown(v, w)
  <2>1. Grown(v, v2)
    BY <1>3, <1>6, <1>9, GrownTrans
  <2> QED BY <2>1, <1>3, <1>9, <1>13, GrownTrans
<1>15. OnlyDevices(w.mem, v.tree.root)
  <2>1. CASE v2.ok
    <3>1. ASSUME NEW i \in Idx, NEW j \in Idx
          PROVE  \/ PageAt(w.mem, v.tree.root, i, j) = NoEntry
                 \/ \E l \in 1..Len(Devices) :
                      /\ i = Index(Devices[l], 2) /\ j = Index(Devices[l], 3)
                      /\ PageAt(w.mem, v.tree.root, i, j) = Page(Devices[l], UserRW)
      <4>1. CASE i = Index(va, 2) /\ j = Index(va, 3)
        <5>1. PageAt(w.mem, v.tree.root, i, j) = Page(va, UserRW)
          BY <2>1, <4>1, <1>9, <1>12 DEF OnePage
        <5> QED BY <4>1, <5>1, <1>1
      <4>2. CASE ~(i = Index(va, 2) /\ j = Index(va, 3))
        <5>1. PageAt(w.mem, v.tree.root, i, j) = PageAt(v.mem, v.tree.root, i, j)
          BY <2>1, <4>2, <1>9, <1>12 DEF OnePage
        <5> QED BY <5>1, <1>3 DEF OnlyDevices
      <4> QED BY <4>1, <4>2
    <3> QED BY <3>1 DEF OnlyDevices
  <2>2. CASE ~v2.ok
    BY <2>2, <1>3, <1>9, <1>12 DEF SamePages, OnlyDevices
  <2> QED BY <2>1, <2>2, <1>9
<1> QED BY <1>12, <1>13, <1>14, <1>15, BornGrows

\* The tree with the devices that could be mapped, before the kernel's part.
WithDevices(w) ==
  LET with[k \in 0..Len(Devices)] == IF k = 0 THEN w ELSE MapDevice(with[k - 1], Devices[k])
  IN  with[Len(Devices)]

\* Mapping all devices, one after the other.
LEMMA DevicesSound ==
  ASSUME NEW m, RamSound(m), NEW c, NEW v, Born(m, c, v)
  PROVE  Born(m, c, WithDevices(v))
<1> DEFINE n == Len(Devices)
           X == {w \in Walks : Born(m, c, w)}
           def(f) == [k \in 0..n |-> IF k = 0 THEN v ELSE MapDevice(f[k - 1], Devices[k])]
           step == [k \in 1..n |-> [x \in X |-> MapDevice(x, Devices[k])]]
<1>1. n \in Nat
  BY SpaceAssumption
<1>2. ASSUME NEW k \in 1..n, NEW x \in X
      PROVE  MapDevice(x, Devices[k]) \in X
  <2>1. PICK w : w = MapDevice(x, Devices[k])
    OBVIOUS
  <2>2. Born(m, c, w)
    BY <2>1, DeviceSound
  <2>3. w \in Walks
    BY <2>2 DEF Born, GoodWalk
  <2> QED BY <2>1, <2>2, <2>3
<1>3. v \in X
  BY DEF Born, GoodWalk
<1>4. AreSteps(step, n, X)
  <2> HIDE DEF n, X
  <2> QED BY <1>2 DEF AreSteps
<1>5. PICK f : IsRun(f, n, X, v, step)
  <2> HIDE DEF step, n, X
  <2> QED BY <1>1, <1>3, <1>4, StepsExist
<1>6. f = def(f)
  <2> HIDE DEF n, X
  <2>1. ASSUME NEW k \in 0..n
        PROVE  f[k] = IF k = 0 THEN v ELSE MapDevice(f[k - 1], Devices[k])
    <3>1. CASE k = 0
      BY <3>1, <1>5 DEF IsRun
    <3>2. CASE k # 0
      <4>1. k \in 1..n /\ k - 1 \in 0..n
        BY <3>2, <1>1
      <4>2. f[k - 1] \in X
        BY <4>1, <1>5 DEF IsRun
      <4>3. f[k] = step[k][f[k - 1]]
        BY <4>1, <1>5 DEF IsRun
      <4> QED BY <4>1, <4>2, <4>3, <3>2
    <3> QED BY <3>1, <3>2
  <2> QED BY <2>1, <1>5, Zenon DEF IsRun
<1>7. PICK g : g = CHOOSE h : h = def(h)
  OBVIOUS
<1>8. g = def(g)
  BY <1>6, <1>7
<1>9. WithDevices(v) = g[n]
  BY <1>7 DEF WithDevices
<1>10. \A k \in 0..n : g[k] = IF k = 0 THEN v ELSE MapDevice(g[k - 1], Devices[k])
  <2> HIDE DEF n
  <2> QED BY <1>8
<1> DEFINE S == {k \in 0..n : g[k] \in X}
<1>11. 0 \in S
  <2> HIDE DEF X, n
  <2> QED BY <1>1, <1>3, <1>10
<1>12. ASSUME NEW k \in 1..n, k - 1 \in S
       PROVE  k \in S
  <2>1. PICK x \in X : x = g[k - 1]
    BY <1>12
  <2> HIDE DEF X, n
  <2>2. g[k] = MapDevice(x, Devices[k]) /\ k \in 0..n
    BY <1>1, <1>10, <2>1
  <2> QED BY <1>2, <2>1, <2>2
<1>13. n \in S
  <2>1. \A k \in 0..n : k \in S
    <3> HIDE DEF S, n
    <3> QED BY <1>1, <1>11, <1>12, UpTo
  <2> HIDE DEF S
  <2> QED BY <1>1, <2>1
<1> QED BY <1>9, <1>13

-----------------------------------------------------------------------------
(* Trees that a change of memory leaves alone. *)

\* What a tree maps depends on the first entries of its upper tables and on the
\* tables below.
LEMMA TreeFramed ==
  ASSUME NEW c, NEW d, NEW n \in FirstFrame..(LastFrame + 1), NEW k \in FirstFrame..(LastFrame + 1),
         n <= k, NEW r, TreeOK(c, n, r),
         d[r][0] = c[r][0], d[Mid(c, r)][0] = c[Mid(c, r)][0],
         \A f \in TreeFrames(c, r) \ {r, Mid(c, r)} : d[f] = c[f]
  PROVE  /\ Mid(d, r) = Mid(c, r) /\ TreeFrames(d, r) = TreeFrames(c, r)
         /\ TreeOK(d, k, r) /\ SamePages(c, d, r)
<1>1. Mid(d, r) = Mid(c, r)
  BY DEF Mid, Down
<1>2. PICK mid, low : mid = Mid(c, r) /\ low = Low(c, r)
  OBVIOUS
<1>3. Low(d, r) = low
  BY <1>1, <1>2 DEF Low, Down
<1>4. low \notin {r, mid}
  BY <1>2 DEF TreeOK
<1>5. low # 0 => d[low] = c[low]
  <2>1. low # 0 => low \in TreeFrames(c, r)
    BY <1>2 DEF TreeFrames
  <2> QED BY <2>1, <1>2, <1>4
<1>6. ASSUME NEW i \in Idx, low # 0, c[low][i].pa # 0
      PROVE  d[c[low][i].pa] = c[c[low][i].pa]
  <2>1. c[low][i].pa \in Ends(c, r)
    BY <1>2, <1>6 DEF Ends
  <2>2. c[low][i].pa \in TreeFrames(c, r)
    BY <2>1 DEF TreeFrames
  <2>3. c[low][i].pa \notin {r, mid}
    BY <1>2, <1>6 DEF TreeOK
  <2> QED BY <2>2, <2>3, <1>2
<1>7. Ends(d, r) = Ends(c, r)
  BY <1>2, <1>3, <1>5 DEF Ends
<1>8. TreeFrames(d, r) = TreeFrames(c, r)
  BY <1>1, <1>2, <1>3, <1>7 DEF TreeFrames
<1>9. SamePages(c, d, r)
  BY <1>2, <1>3, <1>5, <1>6 DEF SamePages, PageAt
<1>10. Drawn(n) \subseteq Drawn(k)
  BY FrameAssumption DEF Drawn
<1>11. TreeOK(d, k, r)
  <2>1. /\ r \in Drawn(k) /\ mid \in Drawn(k) \ {r} /\ d[r][0] = TableAt(mid)
        /\ low \in (Drawn(k) \cup {0}) \ {r, mid} /\ d[mid][0] = Link(low)
    BY <1>2, <1>10 DEF TreeOK
  <2>2. ASSUME low # 0, NEW i \in Idx, NEW f, f = d[low][i].pa
        PROVE  /\ f \in (Drawn(k) \cup {0}) \ {r, mid, low}
               /\ d[low][i] = Link(f)
               /\ f # 0 => \A j \in Idx : PageEntry(d[f][j]) /\ (j # i => d[low][j].pa # f)
    <3>1. f = c[low][i].pa
      BY <2>2, <1>5
    <3>2. /\ f \in (Drawn(n) \cup {0}) \ {r, mid, low}
          /\ c[low][i] = Link(f)
          /\ f # 0 => \A j \in Idx : PageEntry(c[f][j]) /\ (j # i => c[low][j].pa # f)
      BY <2>2, <3>1, <1>2 DEF TreeOK
    <3>3. f # 0 => d[f] = c[f]
      BY <2>2, <3>1, <1>6
    <3> QED BY <2>2, <3>2, <3>3, <1>5, <1>10
  <2> QED BY <2>1, <2>2, <1>1, <1>2, <1>3 DEF TreeOK
<1> QED BY <1>1, <1>8, <1>9, <1>11

\* A tree whose frames are the same altogether keeps the kernel's part as well.
LEMMA TreeKept ==
  ASSUME NEW c, NEW d, NEW n \in FirstFrame..(LastFrame + 1), NEW k \in FirstFrame..(LastFrame + 1),
         n <= k, NEW r, TreeOK(c, n, r), Cloned(c, r),
         \A f \in TreeFrames(c, r) : d[f] = c[f]
  PROVE  /\ TreeFrames(d, r) = TreeFrames(c, r) /\ TreeOK(d, k, r) /\ Cloned(d, r)
         /\ SamePages(c, d, r)
<1>1. r \in TreeFrames(c, r) /\ Mid(c, r) \in TreeFrames(c, r)
  BY DEF TreeFrames
<1>2. d[r] = c[r] /\ d[Mid(c, r)] = c[Mid(c, r)]
  BY <1>1
<1>3. /\ Mid(d, r) = Mid(c, r) /\ TreeFrames(d, r) = TreeFrames(c, r)
      /\ TreeOK(d, k, r) /\ SamePages(c, d, r)
  BY <1>2, TreeFramed
<1>4. Cloned(d, r)
  BY <1>2, <1>3 DEF Cloned
<1> QED BY <1>3, <1>4

-----------------------------------------------------------------------------
(* The kernel's part of a new tree. *)

\* The kernel's entries of a root and of the table below its first entry.
UpperEntry(i) == IF i = Fanout \div 2 THEN TableAt(FirstFrame + 2) ELSE NoEntry

MidEntry(i) == IF i = 1 THEN KernelBlock(Span(1)) ELSE NoEntry

\* The tables from which the kernel's part is copied.
HasKernel(c, n, r) ==
  /\ r \in FirstFrame..(n - 1) /\ Mid(c, r) \in FirstFrame..(n - 1)
  /\ \A i \in Idx \ {0} : c[r][i] = UpperEntry(i)
  /\ c[Mid(c, r)][1] = KernelBlock(Span(1))

\* The memory with the kernel's part of the tables from and theirs in the
\* tables root and mine.
CloneAt(c, root, mine, from, theirs) ==
  [c EXCEPT ![root] = [i \in Idx |-> IF i \in UserHalf \/ c[from][i] = NoEntry
                                     THEN c[root][i] ELSE c[from][i]],
            ![mine][1] = IF c[theirs][1] = NoEntry THEN c[mine][1] ELSE c[theirs][1]]

\* That, entry by entry.
IsCloneAt(c, d, root, mine) ==
  /\ d \in Descriptors /\ d[root][0] = c[root][0] /\ d[mine][0] = c[mine][0]
  /\ \A i \in Idx \ {0} : d[root][i] = UpperEntry(i) /\ d[mine][i] = MidEntry(i)
  /\ \A f \in RamFrames \ {root, mine} : d[f] = c[f]

\* Nothing but those entries.
Bare(c, root, mine) == \A i \in Idx \ {0} : c[root][i] = NoEntry /\ c[mine][i] = NoEntry

\* The kernel's part in the tables it is copied from.
Lent(c, from, theirs) ==
  (\A i \in Idx \ {0} : c[from][i] = UpperEntry(i)) /\ c[theirs][1] = KernelBlock(Span(1))

\* Copying fills in those entries.
LEMMA CloneAtIs ==
  ASSUME NEW c \in Descriptors, NEW root \in RamFrames, NEW mine \in RamFrames \ {root},
         NEW from \in RamFrames \ {root, mine}, NEW theirs \in RamFrames \ {root, mine},
         Bare(c, root, mine), Lent(c, from, theirs)
  PROVE  IsCloneAt(c, CloneAt(c, root, mine, from, theirs), root, mine)
<1>1. PICK d : d = CloneAt(c, root, mine, from, theirs)
  OBVIOUS
<1>2. PICK x : x = [i \in Idx |-> IF i \in UserHalf \/ c[from][i] = NoEntry
                                  THEN c[root][i] ELSE c[from][i]]
  OBVIOUS
<1>3. \A g \in RamFrames : c[g] \in [Idx -> Entries]
  BY DEF Descriptors
<1>4. x \in [Idx -> Entries]
  BY <1>2, <1>3
<1>5. x[0] = c[root][0]
  BY <1>2, IdxFacts
<1>6. ASSUME NEW i \in Idx \ {0}
      PROVE  x[i] = UpperEntry(i)
  <2>1. c[root][i] = NoEntry /\ c[from][i] = UpperEntry(i)
    BY DEF Bare, Lent
  <2>2. TableAt(FirstFrame + 2) # NoEntry
    BY DEF TableAt, NoEntry
  <2>3. i \in UserHalf => UpperEntry(i) = NoEntry
    BY IdxFacts DEF UpperEntry
  <2> QED BY <1>2, <2>1, <2>2, <2>3
<1>7. PICK e : e = [c EXCEPT ![root] = x]
  OBVIOUS
<1>8. e \in Descriptors /\ e[root] = x /\ \A g \in RamFrames \ {root} : e[g] = c[g]
  BY <1>4, <1>7 DEF Descriptors
<1>9. PICK k : k = KernelBlock(Span(1))
  OBVIOUS
<1>10. k \in Entries /\ k # NoEntry
  <2>1. Span(1) \in Nat
    BY SpanFacts
  <2> QED BY <1>9, <2>1 DEF KernelBlock, Entries, NoEntry
<1>11. c[theirs][1] = k
  BY <1>9 DEF Lent
<1>12. PICK y : y = [c[mine] EXCEPT ![1] = k]
  OBVIOUS
<1>13. y \in [Idx -> Entries] /\ y[1] = k /\ \A i \in Idx \ {1} : y[i] = c[mine][i]
  BY <1>3, <1>10, <1>12, IdxFacts
<1>14. d = [e EXCEPT ![mine] = y]
  <2>1. d = [c EXCEPT ![root] = x, ![mine][1] = k]
    <3>1. d = [c EXCEPT ![root] = [i \in Idx |-> IF i \in UserHalf \/ c[from][i] = NoEntry
                                     THEN c[root][i] ELSE c[from][i]],
            ![mine][1] = k]
      BY <1>1, <1>10, <1>11 DEF CloneAt
    <3> QED BY <3>1, <1>2
  <2> QED BY <2>1, <1>7, <1>8, <1>12 DEF Descriptors
<1>15. /\ d \in Descriptors /\ d[mine] = y /\ d[root] = x
       /\ \A g \in RamFrames \ {root, mine} : d[g] = c[g]
  <2>1. d \in Descriptors /\ d[mine] = y /\ \A g \in RamFrames \ {mine} : d[g] = e[g]
    BY <1>8, <1>13, <1>14 DEF Descriptors
  <2> QED BY <2>1, <1>8
<1>16. ASSUME NEW i \in Idx \ {0}
       PROVE  y[i] = MidEntry(i)
  BY <1>9, <1>13 DEF MidEntry, Bare
<1>17. y[0] = c[mine][0]
  BY <1>13, IdxFacts
<1> QED BY <1>1, <1>5, <1>6, <1>15, <1>16, <1>17 DEF IsCloneAt

\* w with the kernel's part is u.
Completed(w, u) ==
  /\ GoodWalk(u) /\ u.ram = w.ram /\ u.tree = w.tree /\ u.ok = TRUE
  /\ Cloned(u.mem, w.tree.root)
  /\ TreeFrames(u.mem, w.tree.root) = TreeFrames(w.mem, w.tree.root)
  /\ SamePages(w.mem, u.mem, w.tree.root)
  /\ \A f \in RamFrames \ TreeFrames(w.mem, w.tree.root) : u.mem[f] = w.mem[f]

\* clone_high_half and clone_identity_block complete the tree and change
\* nothing else.
LEMMA CloneSound ==
  ASSUME NEW m, RamSound(m), NEW c, c \in Descriptors, NEW w, Born(m, c, w), NEW from,
         HasKernel(c, m.next, from)
  PROVE  Completed(w, CloneKernel(w, from))
<1>0. PICK u : u = CloneKernel(w, from)
  OBVIOUS
<1>1. PICK root, mine, theirs :
        root = w.tree.root /\ mine = Mid(w.mem, root) /\ theirs = Mid(c, from)
  OBVIOUS
<1>2. PICK e : e = w.mem
  OBVIOUS
<1>3. PICK G : G = TreeFrames(e, root)
  OBVIOUS
<1>4. /\ GoodWalk(w) /\ w.ok = TRUE /\ G \subseteq m.next..(w.ram.next - 1)
      /\ \A f \in RamFrames \ G : e[f] = c[f]
      /\ Bare(e, root, mine)
  BY <1>1, <1>2, <1>3 DEF Born, Bare
<1>5. /\ w \in Walks /\ e \in Descriptors /\ w.ram.next \in FirstFrame..(LastFrame + 1)
      /\ m.next \in FirstFrame..(LastFrame + 1) /\ FirstFrame \in Nat /\ LastFrame \in Nat
      /\ TreeOK(e, w.ram.next, root) /\ RamSound(w.ram)
      /\ Tracks(w.tree.tracked, G)
  BY <1>1, <1>2, <1>3, <1>4, FrameAssumption DEF GoodWalk, Walks, Allocator, RamSound
<1>6. /\ G \subseteq RamFrames /\ root \in G /\ mine \in G
  BY <1>1, <1>2, <1>3, <1>5, FramesDrawn
<1>7. from \in RamFrames \ G /\ theirs \in RamFrames \ G
  <2>1. from \in FirstFrame..(m.next - 1) /\ theirs \in FirstFrame..(m.next - 1)
    BY <1>1 DEF HasKernel
  <2>2. \A f \in FirstFrame..(m.next - 1) : f \in RamFrames /\ f \notin m.next..(w.ram.next - 1)
    BY <1>5 DEF RamFrames
  <2> QED BY <2>1, <2>2, <1>4
<1>8. e[from] = c[from] /\ e[theirs] = c[theirs]
  BY <1>4, <1>7
<1>9. Lent(e, from, theirs)
  BY <1>1, <1>8 DEF Lent, HasKernel
<1>10. mine # root
  BY <1>1, <1>2, <1>5 DEF TreeOK
<1>11. PICK d : d = CloneAt(e, root, mine, from, theirs)
  OBVIOUS
<1>12. IsCloneAt(e, d, root, mine)
  BY <1>4, <1>5, <1>6, <1>7, <1>9, <1>10, <1>11, CloneAtIs
<1>13. u = [w EXCEPT !.mem = d]
  <2>1. w.mem[root][0].pa = mine /\ w.mem[from][0].pa = theirs
    BY <1>1, <1>2, <1>8 DEF Mid, Down
  <2>2. d = [e EXCEPT ![root] = [i \in Idx |-> IF i \in UserHalf \/ e[from][i] = NoEntry
                                     THEN e[root][i] ELSE e[from][i]],
            ![mine][1] = IF e[theirs][1] = NoEntry THEN e[mine][1] ELSE e[theirs][1]]
    BY <1>11 DEF CloneAt
  <2> QED BY <1>0, <1>1, <1>2, <2>1, <2>2, Zenon DEF CloneKernel
<1>14. /\ u \in Walks /\ u.ram = w.ram /\ u.tree = w.tree /\ u.ok = TRUE /\ u.mem = d
  <2>1. d \in Descriptors
    BY <1>12 DEF IsCloneAt
  <2> QED BY <2>1, <1>4, <1>5, <1>13 DEF Walks
<1>15. /\ Mid(d, root) = mine /\ TreeFrames(d, root) = G
       /\ TreeOK(d, w.ram.next, root) /\ SamePages(e, d, root)
  <2>1. /\ d[root][0] = e[root][0] /\ d[mine][0] = e[mine][0]
        /\ \A f \in RamFrames \ {root, mine} : d[f] = e[f]
    BY <1>12 DEF IsCloneAt
  <2>2. \A f \in G \ {root, mine} : d[f] = e[f]
    BY <2>1, <1>6
  <2>3. w.ram.next <= w.ram.next
    BY <1>5
  <2>4. mine = Mid(e, root)
    BY <1>1, <1>2
  <2> QED BY <2>1, <2>2, <2>3, <2>4, <1>3, <1>5, TreeFramed
<1>16. Cloned(d, root)
  BY <1>12, <1>15 DEF Cloned, IsCloneAt, UpperEntry, MidEntry
<1>17. \A f \in RamFrames \ G : d[f] = e[f]
  BY <1>6, <1>12 DEF IsCloneAt
<1>18. GoodWalk(u)
  BY <1>1, <1>5, <1>14, <1>15 DEF GoodWalk
<1> QED BY <1>0, <1>1, <1>2, <1>3, <1>14, <1>15, <1>16, <1>17, <1>18 DEF Completed

-----------------------------------------------------------------------------
(* What a tree says of a user page, and the tables a walk of it finds. *)

\* Pages below the first entries of the two upper tables.
IsLow(va) ==
  /\ Index(va, 0) = 0 /\ Index(va, 1) = 0 /\ Index(va, 2) \in Idx /\ Index(va, 3) \in Idx
  /\ va % Span(3) = 0

\* The pages of a root VMAR are low pages.
LEMMA UserLow ==
  ASSUME NEW va \in UserVas
  PROVE  IsLow(va)
  BY IndexFacts DEF IsLow

\* The walk of such a page ends at the entry PageAt gives.
LEMMA PageFound ==
  ASSUME NEW c, NEW n \in FirstFrame..(LastFrame + 1), NEW r, TreeOK(c, n, r), NEW va, IsLow(va),
         NEW e, e = PageAt(c, r, Index(va, 2), Index(va, 3))
  PROVE  /\ PageEntry(e) /\ Leaf(c, r, va).entry = e
         /\ translate_va(c, r, va) = IF e = NoEntry THEN NoPage ELSE e.pa + 0
<1>1. PICK i \in Idx, j \in Idx : i = Index(va, 2) /\ j = Index(va, 3)
  BY DEF IsLow
<1>2. PICK mid, low : mid = Mid(c, r) /\ low = Low(c, r)
  OBVIOUS
<1>3. r # 0
  <2>1. r \in Drawn(n)
    BY DEF TreeOK
  <2>2. 0 \notin Drawn(n)
    BY FramesDrawn
  <2> QED BY <2>1, <2>2
<1>4. c[r][0] = TableAt(mid) /\ c[mid][0] = Link(low)
  BY <1>2 DEF TreeOK
<1>5. Index(va, 0) = 0 /\ Index(va, 1) = 0 /\ va % Span(3) = 0
  BY DEF IsLow
<1>6. PICK s0 : s0 = [entry |-> c[r][Index(va, 0)], level |-> 0]
  OBVIOUS
<1>7. PICK s1, s2, s3 : s1 = Deeper(c, s0, va) /\ s2 = Deeper(c, s1, va) /\ s3 = Deeper(c, s2, va)
  OBVIOUS
<1>8. Leaf(c, r, va) = s3
  BY <1>6, <1>7 DEF Leaf
<1>9. s1.entry = Link(low) /\ s1.level = 1
  <2>1. s0.entry = TableAt(mid) /\ s0.level = 0
    BY <1>4, <1>5, <1>6
  <2>2. s0.entry.kind = "table" /\ s0.entry.pa = mid
    BY <2>1 DEF TableAt
  <2>3. s1 = [entry |-> c[mid][Index(va, 0 + 1)], level |-> 0 + 1]
    BY <2>1, <2>2, <1>7 DEF Deeper
  <2>4. 0 + 1 = 1
    OBVIOUS
  <2> QED BY <2>3, <2>4, <1>4, <1>5
<1>10. NoEntry.kind = "none" /\ NoEntry.pa = 0
  BY DEF NoEntry
<1>11. translate_va(c, r, va)
         = IF s3.entry.kind = "none" THEN NoPage ELSE s3.entry.pa + (va % Span(s3.level))
  BY <1>3, <1>8 DEF translate_va
<1>12. CASE low = 0
  <2>1. s1.entry = NoEntry /\ e = NoEntry
    BY <1>1, <1>2, <1>9, <1>12 DEF Link, PageAt
  <2>2. s2 = s1 /\ s3 = s1
    BY <1>7, <1>10, <2>1 DEF Deeper
  <2> QED BY <1>8, <1>10, <1>11, <2>1, <2>2 DEF PageEntry
<1>13. CASE low # 0
  <2>1. PICK f : f = c[low][i].pa
    OBVIOUS
  <2>2. c[low][i] = Link(f) /\ (f # 0 => \A k \in Idx : PageEntry(c[f][k]))
    BY <1>2, <1>13, <2>1 DEF TreeOK
  <2>3. s2.entry = Link(f) /\ s2.level = 2
    <3>1. s1.entry.kind = "table" /\ s1.entry.pa = low
      BY <1>9, <1>13 DEF Link, TableAt
    <3>2. s2 = [entry |-> c[low][Index(va, 1 + 1)], level |-> 1 + 1]
      BY <3>1, <1>7, <1>9 DEF Deeper
    <3>3. 1 + 1 = 2
      OBVIOUS
    <3> QED BY <3>2, <3>3, <1>1, <2>2
  <2>4. CASE f = 0
    <3>1. s2.entry = NoEntry /\ e = NoEntry
      BY <1>1, <1>2, <1>13, <2>1, <2>3, <2>4 DEF Link, PageAt
    <3>2. s3 = s2
      BY <1>7, <1>10, <3>1 DEF Deeper
    <3> QED BY <1>8, <1>10, <1>11, <3>1, <3>2 DEF PageEntry
  <2>5. CASE f # 0
    <3>1. e = c[f][j] /\ PageEntry(e)
      BY <1>1, <1>2, <1>13, <2>1, <2>2, <2>5 DEF PageAt
    <3>2. s3.entry = e /\ s3.level = 3
      <4>1. s2.entry.kind = "table" /\ s2.entry.pa = f
        BY <2>3, <2>5 DEF Link, TableAt
      <4>2. s3 = [entry |-> c[f][Index(va, 2 + 1)], level |-> 2 + 1]
        BY <4>1, <1>7, <2>3 DEF Deeper
      <4>3. 2 + 1 = 3
        OBVIOUS
      <4> QED BY <4>2, <4>3, <1>1, <3>1
    <3>3. e.kind = "none" <=> e = NoEntry
      BY <3>1, <1>10 DEF PageEntry
    <3> QED BY <1>5, <1>8, <1>11, <3>1, <3>2, <3>3
  <2> QED BY <2>4, <2>5
<1> QED BY <1>12, <1>13

\* The same pages give the same translations.
LEMMA SamePagesSameTranslation ==
  ASSUME NEW c, NEW d, NEW n \in FirstFrame..(LastFrame + 1), NEW k \in FirstFrame..(LastFrame + 1),
         NEW r, TreeOK(c, n, r), TreeOK(d, k, r), SamePages(c, d, r), NEW va \in UserVas
  PROVE  translate_va(d, r, va) = translate_va(c, r, va)
<1>1. Index(va, 2) \in Idx /\ Index(va, 3) \in Idx
  BY IndexFacts
<1>2. PICK e : e = PageAt(c, r, Index(va, 2), Index(va, 3))
  OBVIOUS
<1>3. e = PageAt(d, r, Index(va, 2), Index(va, 3))
  BY <1>1, <1>2 DEF SamePages
<1>4. IsLow(va)
  BY UserLow
<1>5. translate_va(c, r, va) = IF e = NoEntry THEN NoPage ELSE e.pa + 0
  BY <1>2, <1>4, PageFound
<1>6. translate_va(d, r, va) = IF e = NoEntry THEN NoPage ELSE e.pa + 0
  BY <1>3, <1>4, PageFound
<1> QED BY <1>5, <1>6

\* A user page has a page number, if any.
LEMMA TranslationType ==
  ASSUME NEW c \in Descriptors, NEW n \in FirstFrame..(LastFrame + 1), NEW r, TreeOK(c, n, r),
         NEW va \in UserVas
  PROVE  translate_va(c, r, va) \in Nat \cup {NoPage}
<1>1. PICK i \in Idx, j \in Idx : i = Index(va, 2) /\ j = Index(va, 3)
  BY IndexFacts
<1>2. PICK e : e = PageAt(c, r, i, j)
  OBVIOUS
<1>3. translate_va(c, r, va) = IF e = NoEntry THEN NoPage ELSE e.pa + 0
  BY <1>1, <1>2, UserLow, PageFound
<1>4. ASSUME e # NoEntry
      PROVE  e.pa \in Nat
  <2>1. PICK f : f = c[Low(c, r)][i].pa
    OBVIOUS
  <2>2. Low(c, r) # 0 /\ f # 0 /\ e = c[f][j]
    BY <1>2, <1>4, <2>1 DEF PageAt
  <2>3. f \in Drawn(n)
    BY <2>1, <2>2 DEF TreeOK
  <2>4. f \in RamFrames
    BY <2>3, FramesDrawn
  <2> QED BY <2>2, <2>4 DEF Descriptors, Entries
<1> QED BY <1>3, <1>4

\* The tables that enable_inner makes.
LEMMA BootTablesAre ==
  /\ BootMem[FirstFrame][0] = TableAt(FirstFrame + 1)
  /\ \A i \in Idx \ {0} : BootMem[FirstFrame][i] = UpperEntry(i)
  /\ BootMem[FirstFrame + 1] = BootBlocks(0) /\ BootMem[FirstFrame + 2] = BootBlocks(1)
  /\ FirstFrame + 2 \in BootTables
  /\ BootTables \subseteq RamFrames /\ FirstFrame \in BootTables /\ FirstFrame + 1 \in BootTables
  /\ BootMem \in Descriptors
<1>1. FirstFrame \in Nat \ {0} /\ LastFrame \in Nat /\ FirstFrame + 2 <= LastFrame
  BY FrameAssumption, SpaceAssumption
<1>2. /\ FirstFrame \in RamFrames /\ FirstFrame + 1 \in RamFrames /\ FirstFrame + 2 \in RamFrames
      /\ FirstFrame \in BootTables /\ FirstFrame + 2 \in BootTables
      /\ FirstFrame + 1 \in BootTables /\ BootTables \subseteq RamFrames
  BY <1>1 DEF BootTables, RamFrames
<1> DEFINE h == Fanout \div 2
           t1 == TableAt(FirstFrame + 1)
           t2 == TableAt(FirstFrame + 2)
           n == NoEntry
           x == [i \in Idx |-> CASE i = 0 -> t1 [] i = h -> t2 [] OTHER -> n]
           y == BootBlocks(0)
           z == BootBlocks(1)
<1>3. BootMem = [f \in RamFrames |-> CASE f = FirstFrame -> x [] f = FirstFrame + 1 -> y
                                       [] f = FirstFrame + 2 -> z [] OTHER -> ZeroTable]
  BY Zenon DEF BootMem
<1>4. t1 \in Entries /\ t2 \in Entries /\ n \in Entries
  BY <1>1 DEF TableAt, NoEntry, Entries
<1> HIDE DEF t1, t2, n
<1>5. BootMem[FirstFrame] = x /\ BootMem[FirstFrame + 1] = y /\ BootMem[FirstFrame + 2] = z
  <2> HIDE DEF x, y, z
  <2> QED BY <1>1, <1>2, <1>3
<1>6. h \in Idx \ {0} /\ 0 \in Idx
  BY IdxFacts
<1>7. /\ x[0] = t1 /\ \A i \in Idx \ {0} : x[i] = IF i = h THEN t2 ELSE n
      /\ x \in [Idx -> Entries]
  <2> HIDE DEF h
  <2> QED BY <1>6, <1>4
<1>8. ASSUME NEW k \in 0..1
      PROVE  BootBlocks(k) \in [Idx -> Entries]
  <2>1. ASSUME NEW i \in Idx
        PROVE  i * Span(1) \in Nat
    <3>1. i \in Nat /\ Span(1) \in Nat
      BY SpanFacts, SpaceAssumption DEF Idx
    <3> QED BY <3>1
  <2>2. ASSUME NEW i \in Idx
        PROVE  KernelBlock(i * Span(1)) \in Entries
    BY <2>1 DEF KernelBlock, Entries
  <2>3. NoEntry \in Entries
    BY <1>4 DEF n
  <2> QED BY <2>2, <2>3 DEF BootBlocks
<1>9. y \in [Idx -> Entries] /\ z \in [Idx -> Entries] /\ ZeroTable \in [Idx -> Entries]
  BY <1>4, <1>8 DEF ZeroTable, n
<1>10. BootMem \in Descriptors
  <2> HIDE DEF x, y, z
  <2> QED BY <1>3, <1>7, <1>9 DEF Descriptors
<1> QED BY <1>2, <1>5, <1>7, <1>10 DEF UpperEntry, t1, t2, n

\* What entry e of level l says of page va.
EntryView(e, va, l) == IF e.kind = "none" THEN NoPage ELSE e.pa + (va % Span(l))

\* The entry of the second level on the way to va is e, below mid.
Second(c, r, va, mid, e) ==
  c[r][Index(va, 0)] = TableAt(mid) /\ c[mid][Index(va, 1)] = e /\ e.kind # "table"

\* A walk that ends below the root.
LEMMA ShortWalk ==
  ASSUME NEW c, NEW r, r # 0, NEW va, NEW mid, NEW e, Second(c, r, va, mid, e)
  PROVE  translate_va(c, r, va) = EntryView(e, va, 1) /\ Leaf(c, r, va).entry = e
<1>1. PICK s0 : s0 = [entry |-> c[r][Index(va, 0)], level |-> 0]
  OBVIOUS
<1>2. PICK s1, s2, s3 : s1 = Deeper(c, s0, va) /\ s2 = Deeper(c, s1, va) /\ s3 = Deeper(c, s2, va)
  OBVIOUS
<1>3. s1.entry = e /\ s1.level = 1
  <2>1. s0.entry.kind = "table" /\ s0.entry.pa = mid /\ s0.level = 0
    BY <1>1 DEF TableAt, Second
  <2>2. s1 = [entry |-> c[mid][Index(va, 0 + 1)], level |-> 0 + 1]
    BY <2>1, <1>2 DEF Deeper
  <2>3. 0 + 1 = 1
    OBVIOUS
  <2> QED BY <2>2, <2>3 DEF Second
<1>4. s2 = s1 /\ s3 = s1
  BY <1>2, <1>3 DEF Deeper, Second
<1>5. Leaf(c, r, va) = s1
  BY <1>1, <1>2, <1>4 DEF Leaf
<1> QED BY <1>3, <1>5 DEF translate_va, EntryView

\* The boot tables have the low pages in one block.
LEMMA BootTranslation ==
  ASSUME NEW c, \A f \in BootTables : c[f] = BootMem[f], NEW va \in UserVas
  PROVE  translate_va(c, FirstFrame, va) = 0 + (va % Span(1))
<1>1. FirstFrame # 0
  BY FrameAssumption
<1>2. PICK mid : mid = FirstFrame + 1
  OBVIOUS
<1>3. c[FirstFrame][0] = TableAt(mid)
  BY <1>2, BootTablesAre
<1>4. c[mid][0] = KernelBlock(0 * Span(1))
  <2>1. 0 \in 0..2
    OBVIOUS
  <2>2. BootBlocks(0)[0] = KernelBlock(0 * Span(1))
    BY <2>1, IdxFacts DEF BootBlocks
  <2> QED BY <1>2, <2>2, BootTablesAre
<1>5. 0 * Span(1) = 0
  BY SpanFacts
<1>6. PICK e : e = KernelBlock(0)
  OBVIOUS
<1>7. e.kind = "block" /\ e.pa = 0
  BY <1>6 DEF KernelBlock
<1>8. Index(va, 0) = 0 /\ Index(va, 1) = 0
  BY IndexFacts
<1>9. Second(c, FirstFrame, va, mid, e)
  BY <1>3, <1>4, <1>5, <1>6, <1>7, <1>8 DEF Second
<1>10. translate_va(c, FirstFrame, va) = EntryView(e, va, 1)
  BY <1>1, <1>9, ShortWalk
<1> QED BY <1>7, <1>10 DEF EntryView

\* The tables that validate() and free_page_table_tree() find are the frames of
\* the tree.
LEMMA WalkFinds ==
  ASSUME NEW c, NEW n, NEW r, TreeOK(c, n, r), Cloned(c, r)
  PROVE  /\ L1s(c, r) = {Mid(c, r)} /\ L2s(c, r) = {Low(c, r)} \ {0} /\ L3s(c, r) = Ends(c, r)
         /\ Reachable(c, r) = TreeFrames(c, r)
<1>1. PICK mid, low : mid = Mid(c, r) /\ low = Low(c, r)
  OBVIOUS
<1>2. NoEntry.kind # "table" /\ KernelBlock(Span(1)).kind # "table"
  BY DEF NoEntry, KernelBlock
<1>3. \A f : TableAt(f).kind = "table" /\ TableAt(f).pa = f
  BY DEF TableAt
<1>4. c[r][0].kind = "table" /\ c[r][0].pa = mid
  BY <1>1, <1>3 DEF TreeOK
<1>5. \A i \in UserHalf \ {0} : c[r][i].kind # "table"
  BY <1>2, IdxFacts DEF Cloned
<1>6. L1s(c, r) = {mid}
  BY <1>4, <1>5, IdxFacts DEF L1s, Below
<1>7. Below(c, mid, Idx) = {low} \ {0}
  <2>1. c[mid][0] = Link(low)
    BY <1>1 DEF TreeOK
  <2>2. \A i \in Idx \ {0} : c[mid][i].kind # "table"
    BY <1>1, <1>2 DEF Cloned
  <2>3. CASE low = 0
    <3>1. c[mid][0].kind # "table"
      BY <2>1, <2>3, <1>2 DEF Link
    <3> QED BY <2>2, <2>3, <3>1 DEF Below
  <2>4. CASE low # 0
    <3>1. c[mid][0].kind = "table" /\ c[mid][0].pa = low
      BY <2>1, <2>4, <1>3 DEF Link
    <3> QED BY <2>2, <2>4, <3>1, IdxFacts DEF Below
  <2> QED BY <2>3, <2>4
<1>8. L2s(c, r) = {low} \ {0}
  BY <1>6, <1>7 DEF L2s
<1>9. low # 0 => Below(c, low, Idx) = Ends(c, r)
  <2>1. ASSUME low # 0, NEW i \in Idx
        PROVE  c[low][i].kind = "table" <=> c[low][i].pa # 0
    <3>1. c[low][i] = Link(c[low][i].pa)
      BY <1>1, <2>1 DEF TreeOK
    <3>2. c[low][i].pa # 0 => c[low][i].kind = "table"
      BY <3>1, <1>3 DEF Link
    <3>3. c[low][i].pa = 0 => c[low][i].kind # "table"
      BY <3>1, <1>2 DEF Link
    <3> QED BY <3>2, <3>3
  <2> QED BY <2>1, <1>1 DEF Below, Ends
<1>10. L3s(c, r) = Ends(c, r)
  <2>1. CASE low = 0
    BY <2>1, <1>1, <1>8 DEF L3s, Ends
  <2>2. CASE low # 0
    <3>1. L2s(c, r) = {low}
      BY <2>2, <1>8
    <3> QED BY <2>2, <3>1, <1>9 DEF L3s
  <2> QED BY <2>1, <2>2
<1> QED BY <1>1, <1>6, <1>8, <1>10 DEF Reachable, TreeFrames

-----------------------------------------------------------------------------
(* Sequences of frames. *)

\* A set of frames can be listed.
LEMMA FramesListed ==
  ASSUME NEW S \in SUBSET RamFrames
  PROVE  SetToSeq(S) \in Seq(S)
<1>1. FirstFrame \in Int /\ LastFrame \in Int
  BY FrameAssumption
<1>2. IsFiniteSet(RamFrames)
  BY <1>1, FS_Interval DEF RamFrames
<1>3. IsFiniteSet(S)
  BY <1>2, FS_Subset
<1>4. PICK n : n = Cardinality(S)
  OBVIOUS
<1>5. n \in Nat /\ ExistsBijection(1..n, S)
  BY <1>3, <1>4, FS_CardinalityType
<1>6. \E f \in [1..n -> S] : IsInjective(f)
  BY <1>5 DEF ExistsBijection, Bijection, Injection
<1>7. SetToSeq(S) \in [1..n -> S]
  BY <1>4, <1>6 DEF SetToSeq
<1> QED BY <1>5, <1>7

\* Turning a sequence around.
LEMMA Reversed ==
  ASSUME NEW t \in Seq(RamFrames)
  PROVE  /\ Reverse(t) \in Seq(RamFrames) /\ Len(Reverse(t)) = Len(t)
         /\ \A k \in 1..Len(t) : Len(t) - k + 1 \in 1..Len(t) /\ Reverse(t)[k] = t[Len(t) - k + 1]
<1>1. Len(t) \in Nat
  OBVIOUS
<1>2. \A k \in 1..Len(t) : Len(t) - k + 1 \in 1..Len(t)
  BY <1>1
<1>3. Reverse(t) = [k \in 1..Len(t) |-> t[Len(t) - k + 1]]
  BY DEF Reverse
<1>4. \A k \in 1..Len(t) : t[k] \in RamFrames
  OBVIOUS
<1> QED BY <1>1, <1>2, <1>3, <1>4

\* A sequence without repetitions is as long as its elements are many.
LEMMA DistinctCounted ==
  ASSUME NEW t \in Seq(RamFrames), \A j, k \in 1..Len(t) : t[j] = t[k] => j = k
  PROVE  Cardinality(ToSet(t)) = Len(t)
<1>1. Len(t) \in Nat /\ DOMAIN t = 1..Len(t) /\ t = [k \in 1..Len(t) |-> t[k]]
  OBVIOUS
<1>2. t \in [1..Len(t) -> ToSet(t)] /\ \A x \in ToSet(t) : \E k \in 1..Len(t) : t[k] = x
  BY <1>1 DEF ToSet
<1>3. t \in Bijection(1..Len(t), ToSet(t))
  BY <1>1, <1>2 DEF Bijection, Injection, Surjection, IsInjective
<1>4. ExistsBijection(1..Len(t), ToSet(t))
  BY <1>3 DEF ExistsBijection
<1> QED BY <1>1, <1>4, FS_CountingElements

-----------------------------------------------------------------------------
(* The steps. *)

\* The frames that the tree of a slot has.
Held(s) == IF s \in Rooted THEN TreeFrames(mem, space[s].root) ELSE {}

\* The trees of SpaceInv.
LEMMA SpaceTrees ==
  SpaceInv => TreesInv
  BY DEF SpaceInv, SpaceTypes, TreesInv

\* With allocator m and descriptors c, t is the tree of slot s: it has been
\* made, or has grown.
Renewed(s, m, c, t) ==
  LET F == Held(s)
      G == TreeFrames(c, t.root)
  IN  /\ RamSound(m) /\ c \in Descriptors /\ t \in Spaces /\ t.used = TRUE
      /\ TreeOK(c, m.next, t.root) /\ Cloned(c, t.root) /\ Tracks(t.tracked, G)
      /\ s \in Rooted => t.root = space[s].root
      /\ ram.next <= m.next /\ G \ F \subseteq ram.next..(m.next - 1)
      /\ \A f \in RamFrames \ G : c[f] = mem[f]
      /\ \A f \in G \ F : m.tag[f] = "PageTable"
      /\ \A f \in RamFrames : f < ram.next /\ ram.tag[f] = "PageTable" => m.tag[f] = "PageTable"

\* The tree of a slot, in the terms of the lemmas on trees.
LEMMA RootedTree ==
  ASSUME TreesInv, NEW s \in Rooted
  PROVE  /\ s \in Slots /\ ram.next \in FirstFrame..(LastFrame + 1)
         /\ TreeOK(mem, ram.next, space[s].root) /\ Cloned(mem, space[s].root)
         /\ Tracks(space[s].tracked, TreeFrames(mem, space[s].root))
         /\ TreeFrames(mem, space[s].root) \subseteq Drawn(ram.next)
         /\ TreeFrames(mem, space[s].root) \subseteq RamFrames
         /\ space[s].root \in TreeFrames(mem, space[s].root)
<1>1. /\ TreeOK(mem, ram.next, space[s].root) /\ Cloned(mem, space[s].root)
      /\ Tracks(space[s].tracked, TreeFrames(mem, space[s].root))
  BY DEF TreesInv, Trees
<1>2. ram.next \in FirstFrame..(LastFrame + 1)
  BY DEF TreesInv, RamSound, Allocator
<1>3. /\ TreeFrames(mem, space[s].root) \subseteq Drawn(ram.next) /\ Drawn(ram.next) \subseteq RamFrames
      /\ space[s].root \in TreeFrames(mem, space[s].root)
  BY <1>1, <1>2, FramesDrawn
<1> QED BY <1>1, <1>2, <1>3 DEF Rooted

\* What holds after a tree has been made or has grown: its frames are its own,
\* and the other trees and the boot tables are as they were.
LEMMA RenewedSound ==
  ASSUME TreesInv, NEW s \in Slots, NEW t, Renewed(s, ram', mem', t),
         space' = [space EXCEPT ![s] = t], released' = released, ttbr0' = ttbr0
  PROVE  /\ TreesInv'
         /\ \A r \in Rooted \ {s} : /\ TreeOK(mem', ram'.next, space[r].root)
                                    /\ SamePages(mem, mem', space[r].root)
<1>1. PICK d, n, F, G : d = mem' /\ n = ram'.next /\ F = Held(s) /\ G = TreeFrames(d, t.root)
  OBVIOUS
<1>2. /\ Cloned(d, t.root) /\ t \in Spaces /\ t.used = TRUE
      /\ s \in Rooted => t.root = space[s].root
      /\ ram.next <= n /\ G \ F \subseteq ram.next..(n - 1)
      /\ \A f \in RamFrames \ G : d[f] = mem[f]
      /\ \A f \in G \ F : ram'.tag[f] = "PageTable"
      /\ \A f \in RamFrames : f < ram.next /\ ram.tag[f] = "PageTable" => ram'.tag[f] = "PageTable"
  BY <1>1 DEF Renewed
<1>3. /\ RamSound(ram') /\ d \in Descriptors /\ TreeOK(d, n, t.root) /\ Tracks(t.tracked, G)
  BY <1>1 DEF Renewed
<1>4. /\ n \in FirstFrame..(LastFrame + 1) /\ ram.next \in FirstFrame..(LastFrame + 1)
      /\ FirstFrame \in Nat \ {0} /\ LastFrame \in Nat /\ FirstFrame + 3 <= ram.next
      /\ space \in [Slots -> Spaces]
  BY <1>1, <1>3, FrameAssumption DEF TreesInv, RamSound, Allocator, Booted
<1>5. G \subseteq Drawn(n) /\ G \subseteq RamFrames /\ 0 \notin G /\ t.root \in G
  <2>1. /\ G \subseteq Drawn(n) /\ Drawn(n) \subseteq RamFrames /\ 0 \notin Drawn(n) /\ t.root \in G
    BY <1>1, <1>3, <1>4, FramesDrawn
  <2> QED BY <2>1
<1>6. space' \in [Slots -> Spaces] /\ space'[s] = t /\ \A r \in Slots \ {s} : space'[r] = space[r]
  BY <1>2, <1>4
<1>7. Rooted' = Rooted \cup {s}
  BY <1>5, <1>6 DEF Rooted
<1>8. ASSUME NEW r \in Rooted \ {s}
      PROVE  TreeFrames(mem, space[r].root) \cap G = {}
  <2>1. TreeFrames(mem, space[r].root) \cap F = {}
    BY <1>1 DEF Held, TreesInv, Apart
  <2>2. TreeFrames(mem, space[r].root) \subseteq FirstFrame..(ram.next - 1)
    <3>1. TreeFrames(mem, space[r].root) \subseteq Drawn(ram.next)
      BY RootedTree
    <3>2. Drawn(ram.next) \subseteq FirstFrame..(ram.next - 1)
      BY <1>4 DEF Drawn
    <3> QED BY <3>1, <3>2
  <2>3. TreeFrames(mem, space[r].root) \cap (ram.next..(n - 1)) = {}
    BY <2>2, <1>4
  <2> QED BY <2>1, <2>3, <1>2
<1>9. ASSUME NEW r \in Rooted \ {s}
      PROVE  /\ TreeOK(d, n, space[r].root) /\ Cloned(d, space[r].root)
             /\ TreeFrames(d, space[r].root) = TreeFrames(mem, space[r].root)
             /\ SamePages(mem, d, space[r].root)
  <2>1. /\ TreeOK(mem, ram.next, space[r].root) /\ Cloned(mem, space[r].root)
        /\ TreeFrames(mem, space[r].root) \subseteq RamFrames
    BY RootedTree
  <2>2. \A f \in TreeFrames(mem, space[r].root) : d[f] = mem[f]
    BY <2>1, <1>2, <1>8
  <2>3. PICK c, k, x : c = mem /\ k = ram.next /\ x = space[r].root
    OBVIOUS
  <2>4. n \in FirstFrame..(LastFrame + 1) /\ k \in FirstFrame..(LastFrame + 1) /\ k <= n
    BY <2>3, <1>2, <1>4
  <2>5. TreeOK(c, k, x) /\ Cloned(c, x) /\ \A f \in TreeFrames(c, x) : d[f] = c[f]
    BY <2>1, <2>2, <2>3
  <2>6. TreeFrames(d, x) = TreeFrames(c, x) /\ TreeOK(d, n, x) /\ Cloned(d, x) /\ SamePages(c, d, x)
    BY <2>4, <2>5, TreeKept
  <2> QED BY <2>3, <2>6
<1>10. Trees'
  <2>1. ASSUME NEW r \in Rooted \cup {s}
        PROVE  /\ TreeOK(d, n, space'[r].root) /\ Cloned(d, space'[r].root)
               /\ Tracks(space'[r].tracked, TreeFrames(d, space'[r].root))
    <3>1. CASE r = s
      BY <3>1, <1>1, <1>2, <1>3, <1>6
    <3>2. CASE r # s
      <4>1. r \in Rooted \ {s} /\ r \in Slots \ {s}
        BY <3>2 DEF Rooted
      <4>2. space'[r] = space[r] /\ Tracks(space[r].tracked, TreeFrames(mem, space[r].root))
        BY <4>1, <1>6, RootedTree
      <4> QED BY <4>1, <4>2, <1>9
    <3> QED BY <3>1, <3>2
  <2> QED BY <2>1, <1>1, <1>7 DEF Trees
<1>11. Apart'
  <2>1. ASSUME NEW q \in Rooted \ {s}
        PROVE  TreeFrames(d, space'[q].root) \cap G = {} /\ space'[q] = space[q]
    <3>1. space'[q] = space[q]
      BY <1>6 DEF Rooted
    <3> QED BY <3>1, <1>8, <1>9
  <2>2. ASSUME NEW q \in Rooted \cup {s}, NEW r \in Rooted \cup {s}, q # r
        PROVE  TreeFrames(d, space'[q].root) \cap TreeFrames(d, space'[r].root) = {}
    <3>1. CASE q = s
      BY <3>1, <2>1, <2>2, <1>1, <1>6
    <3>2. CASE r = s
      BY <3>2, <2>1, <2>2, <1>1, <1>6
    <3>3. CASE q # s /\ r # s
      <4>1. q \in Rooted \ {s} /\ r \in Rooted \ {s}
        BY <3>3
      <4>2. TreeFrames(mem, space[q].root) \cap TreeFrames(mem, space[r].root) = {}
        BY <4>1, <2>2 DEF TreesInv, Apart
      <4>3. /\ TreeFrames(d, space[q].root) = TreeFrames(mem, space[q].root)
            /\ TreeFrames(d, space[r].root) = TreeFrames(mem, space[r].root)
        BY <4>1, <1>9
      <4>4. space'[q] = space[q] /\ space'[r] = space[r]
        BY <4>1, <2>1
      <4> QED BY <4>2, <4>3, <4>4
    <3> QED BY <3>1, <3>2, <3>3
  <2> QED BY <2>2, <1>1, <1>7 DEF Apart
<1>12. Tagged'
  <2>1. ASSUME NEW r \in Rooted \cup {s}, space'[r].root \notin released,
               NEW f \in TreeFrames(d, space'[r].root)
        PROVE  ram'.tag[f] = "PageTable"
    <3>1. CASE r # s
      <4>1. r \in Rooted \ {s} /\ r \in Slots \ {s}
        BY <3>1 DEF Rooted
      <4>2. space'[r] = space[r] /\ f \in TreeFrames(mem, space[r].root)
        BY <4>1, <2>1, <1>6, <1>9
      <4>3. f \in RamFrames /\ f \in Drawn(ram.next)
        BY <4>1, <4>2, RootedTree
      <4>4. ram.tag[f] = "PageTable"
        BY <4>1, <4>2, <2>1 DEF TreesInv, Tagged, Intact
      <4>5. f < ram.next
        BY <4>3, <1>4 DEF Drawn
      <4> QED BY <4>3, <4>4, <4>5, <1>2
    <3>2. CASE r = s
      <4>1. f \in G /\ f \in RamFrames
        BY <3>2, <2>1, <1>1, <1>5, <1>6
      <4>2. f \in F => ram.tag[f] = "PageTable" /\ f < ram.next
        <5>1. ASSUME f \in F
              PROVE  ram.tag[f] = "PageTable" /\ f < ram.next
          <6>1. s \in Rooted /\ f \in TreeFrames(mem, space[s].root)
            BY <5>1, <1>1 DEF Held
          <6>2. s \in Intact
            BY <6>1, <3>2, <2>1, <1>2, <1>6 DEF Intact
          <6>3. f \in Drawn(ram.next)
            BY <6>1, RootedTree
          <6>4. f < ram.next
            BY <6>3, <1>4 DEF Drawn
          <6> QED BY <6>1, <6>2, <6>4 DEF TreesInv, Tagged
        <5> QED BY <5>1
      <4> QED BY <4>1, <4>2, <1>2
    <3> QED BY <3>1, <3>2
  <2> QED BY <2>1, <1>1, <1>7 DEF Tagged, Intact
<1>13. Booted'
  <2>1. FirstFrame + 3 <= n
    BY <1>2, <1>4
  <2>2. \A f \in BootTables : f \in RamFrames /\ f \notin G
    BY <1>4, <1>5 DEF BootTables, RamFrames, Drawn
  <2>3. \A f \in BootTables : d[f] = BootMem[f]
    BY <2>2, <1>2 DEF TreesInv, Booted
  <2>4. ttbr0'.root = FirstFrame \/ \E r \in Rooted \cup {s} : ttbr0'.root = space'[r].root
    <3>1. ASSUME NEW r \in Rooted, ttbr0.root = space[r].root
          PROVE  ttbr0.root = space'[r].root
      <4>1. CASE r = s
        BY <4>1, <3>1, <1>2, <1>6
      <4>2. CASE r # s
        BY <4>2, <3>1, <1>6 DEF Rooted
      <4> QED BY <4>1, <4>2
    <3> QED BY <3>1 DEF TreesInv, Booted
  <2> QED BY <2>1, <2>3, <2>4, <1>1, <1>7 DEF Booted
<1>14. \A r \in Slots : Orderly(space'[r])
  <2>1. \A r \in Slots : Orderly(space[r])
    BY DEF TreesInv
  <2>2. Orderly(t)
    BY <1>2, <1>5 DEF Orderly
  <2> QED BY <2>1, <2>2, <1>6
<1> QED BY <1>1, <1>3, <1>6, <1>9, <1>10, <1>11, <1>12, <1>13, <1>14 DEF TreesInv

\* Tables stay in use while the cursor moves on and other frames are tagged.
LEMMA TreesStay ==
  ASSUME TreesInv, RamSound(ram'), ram.next <= ram'.next, mem' = mem, released' = released,
         ttbr0' = ttbr0, space' \in [Slots -> Spaces], \A s \in Slots : Orderly(space'[s]),
         \A s \in Slots : space'[s].root = space[s].root,
         \A s \in Rooted : space'[s].tracked = space[s].tracked,
         \A f \in RamFrames : f < ram.next /\ ram.tag[f] = "PageTable" => ram'.tag[f] = "PageTable"
  PROVE  TreesInv'
<1>1. Rooted' = Rooted /\ \A r \in Rooted : space'[r].root = space[r].root
  BY DEF Rooted
<1>2. /\ ram.next \in FirstFrame..(LastFrame + 1) /\ ram'.next \in FirstFrame..(LastFrame + 1)
      /\ FirstFrame \in Nat /\ LastFrame \in Nat
  BY FrameAssumption DEF TreesInv, RamSound, Allocator
<1>3. Trees'
  <2>1. ASSUME NEW r \in Rooted
        PROVE  TreeOK(mem, ram'.next, space[r].root)
    <3>1. PICK c, n, k, x : c = mem /\ n = ram.next /\ k = ram'.next /\ x = space[r].root
      OBVIOUS
    <3>2. TreeOK(c, n, x) /\ Cloned(c, x)
      BY <3>1, RootedTree
    <3>3. TreeOK(c, k, x)
      BY <3>1, <3>2, <1>2, TreeKept
    <3> QED BY <3>1, <3>3
  <2> QED BY <2>1, <1>1 DEF TreesInv, Trees
<1>4. Apart'
  BY <1>1 DEF TreesInv, Apart
<1>5. Tagged'
  <2>1. ASSUME NEW r \in Rooted, space[r].root \notin released,
               NEW f \in TreeFrames(mem, space[r].root)
        PROVE  ram'.tag[f] = "PageTable"
    <3>1. ram.tag[f] = "PageTable"
      BY <2>1 DEF TreesInv, Tagged, Intact
    <3>2. f \in RamFrames /\ f \in Drawn(ram.next)
      BY RootedTree
    <3>3. f < ram.next
      BY <3>2, <1>2 DEF Drawn
    <3> QED BY <3>1, <3>2, <3>3
  <2> QED BY <2>1, <1>1 DEF Tagged, Intact
<1>6. Booted'
  <2>1. FirstFrame + 3 <= ram'.next
    BY <1>2 DEF TreesInv, Booted
  <2> QED BY <2>1, <1>1 DEF TreesInv, Booted
<1> QED BY <1>3, <1>4, <1>5, <1>6 DEF TreesInv

\* A tree other than TTBR0's may go.
LEMMA TreeDropped ==
  ASSUME TreesInv, NEW s \in Slots, space[s].root = 0 \/ space[s].root # ttbr0.root,
         space' = [space EXCEPT ![s] = NoSpace], RamSound(ram'), ram'.next = ram.next,
         mem' = mem, ttbr0' = ttbr0, released' = released,
         \A r \in Rooted \ {s} : \A f \in TreeFrames(mem, space[r].root) : ram'.tag[f] = ram.tag[f]
  PROVE  /\ TreesInv' /\ Rooted' = Rooted \ {s} /\ space'[s] = NoSpace
         /\ \A r \in Slots \ {s} : space'[r] = space[r]
<1>1. NoSpace \in Spaces /\ NoSpace.root = 0 /\ Orderly(NoSpace)
  BY SpaceAssumption DEF NoSpace, Spaces, Orderly
<1>2. space' \in [Slots -> Spaces] /\ space'[s] = NoSpace /\ \A r \in Slots \ {s} : space'[r] = space[r]
  BY <1>1 DEF TreesInv
<1>3. Rooted' = Rooted \ {s} /\ \A r \in Rooted \ {s} : space'[r] = space[r]
  BY <1>1, <1>2 DEF Rooted
<1>4. \A r \in Slots : Orderly(space'[r])
  BY <1>1, <1>2 DEF TreesInv
<1>5. Booted'
  <2>1. ASSUME NEW r \in Rooted, ttbr0.root = space[r].root
        PROVE  r \in Rooted'
    BY <2>1, <1>3 DEF Rooted
  <2> QED BY <2>1, <1>3 DEF TreesInv, Booted
<1>6. Trees'
  BY <1>3 DEF TreesInv, Trees
<1>7. Apart'
  BY <1>3 DEF TreesInv, Apart
<1>8. Tagged'
  BY <1>3 DEF TreesInv, Tagged, Intact
<1> QED BY <1>2, <1>3, <1>4, <1>5, <1>6, <1>7, <1>8 DEF TreesInv

\* The boot tables have the kernel's part.
LEMMA BootHasKernel ==
  ASSUME NEW c, \A f \in BootTables : c[f] = BootMem[f], NEW n \in Nat, FirstFrame + 3 <= n
  PROVE  HasKernel(c, n, FirstFrame)
<1>1. c[FirstFrame][0] = TableAt(FirstFrame + 1)
  BY BootTablesAre
<1>2. Mid(c, FirstFrame) = FirstFrame + 1
  BY <1>1 DEF Mid, Down, TableAt
<1>3. \A i \in Idx \ {0} : c[FirstFrame][i] = UpperEntry(i)
  BY BootTablesAre
<1>4. c[FirstFrame + 1][1] = KernelBlock(Span(1))
  <2>1. c[FirstFrame + 1] = BootBlocks(0)
    BY BootTablesAre
  <2>2. 1 \in 0..2 /\ 1 * Span(1) = Span(1)
    BY SpanFacts
  <2>3. BootBlocks(0)[1] = KernelBlock(1 * Span(1))
    BY <2>2, IdxFacts DEF BootBlocks
  <2> QED BY <2>1, <2>2, <2>3
<1>5. FirstFrame \in FirstFrame..(n - 1) /\ FirstFrame + 1 \in FirstFrame..(n - 1)
  BY FrameAssumption
<1> QED BY <1>2, <1>3, <1>4, <1>5 DEF HasKernel

\* TTBR0 always has tables with the kernel's part.
LEMMA KernelSource ==
  ASSUME TreesInv
  PROVE  HasKernel(mem, ram.next, ttbr0.root)
<1>1. /\ FirstFrame \in Nat \ {0} /\ LastFrame \in Nat /\ FirstFrame + 3 <= ram.next
      /\ ram.next \in FirstFrame..(LastFrame + 1)
      /\ \A f \in BootTables : mem[f] = BootMem[f]
  BY FrameAssumption DEF TreesInv, RamSound, Allocator, Booted
<1>2. CASE ttbr0.root = FirstFrame
  <2>1. PICK c, n : c = mem /\ n = ram.next
    OBVIOUS
  <2>2. HasKernel(c, n, FirstFrame)
    BY <2>1, <1>1, BootHasKernel
  <2> QED BY <2>1, <2>2, <1>2
<1>3. ASSUME NEW s \in Rooted, ttbr0.root = space[s].root
      PROVE  HasKernel(mem, ram.next, ttbr0.root)
  <2>1. PICK r : r = space[s].root
    OBVIOUS
  <2>2. TreeOK(mem, ram.next, r) /\ Cloned(mem, r)
    BY <2>1, RootedTree
  <2>3. r \in Drawn(ram.next) /\ Mid(mem, r) \in Drawn(ram.next)
    BY <2>2 DEF TreeOK
  <2>4. Drawn(ram.next) \subseteq FirstFrame..(ram.next - 1)
    BY <1>1 DEF Drawn
  <2>5. mem[Mid(mem, r)][1] = KernelBlock(Span(1))
    BY <2>2, IdxFacts DEF Cloned
  <2>6. \A i \in Idx \ {0} : mem[r][i] = UpperEntry(i)
    BY <2>2 DEF Cloned, UpperEntry
  <2> QED BY <1>3, <2>1, <2>3, <2>4, <2>5, <2>6 DEF HasKernel
<1> QED BY <1>2, <1>3 DEF TreesInv, Booted

\* A new tree with the kernel's part.
Complete(m, c, w) ==
  LET G == TreeFrames(w.mem, w.tree.root)
  IN  /\ GoodWalk(w) /\ w.ok = TRUE /\ Cloned(w.mem, w.tree.root)
      /\ w.tree.used = FALSE /\ w.tree.asid = 0
      /\ m.next <= w.ram.next /\ w.ram.panic = m.panic
      /\ G \subseteq m.next..(w.ram.next - 1)
      /\ \A f \in RamFrames \ G : w.mem[f] = c[f]
      /\ \A f \in RamFrames : w.ram.tag[f] = IF f \in G THEN "PageTable" ELSE m.tag[f]
      /\ OnlyDevices(w.mem, w.tree.root)

\* What launch makes: a complete tree, or nothing.
LEMMA NewTreeSound ==
  ASSUME NEW m, RamSound(m), FirstFrame + 3 <= m.next, NEW c \in Descriptors,
         HasKernel(c, m.next, ttbr0.root), NEW w, w = NewTree(Walk(m, c, NoSpace))
  PROVE  Unborn(m, c, w) \/ Complete(m, c, w)
<1>1. PICK v : v = allocate_root(Walk(m, c, NoSpace))
  OBVIOUS
<1>2. w = Furnished(v)
  BY <1>1 DEF NewTree
<1>3. w = IF v.ok THEN CloneKernel(WithDevices(v), ttbr0.root) ELSE v
  BY <1>2 DEF Furnished, WithDevices
<1>4. Unborn(m, c, v) \/ Born(m, c, v)
  BY <1>1, RootSound
<1>5. CASE Unborn(m, c, v)
  <2>1. v.ok = FALSE
    BY <1>5 DEF Unborn
  <2> QED BY <2>1, <1>3, <1>5
<1>6. CASE Born(m, c, v)
  <2>1. v.ok = TRUE
    BY <1>6 DEF Born
  <2>2. PICK x, from : x = WithDevices(v) /\ from = ttbr0.root
    OBVIOUS
  <2>3. w = CloneKernel(x, from)
    BY <2>1, <2>2, <1>3
  <2>4. Born(m, c, x)
    BY <1>6, <2>2, DevicesSound
  <2>5. HasKernel(c, m.next, from)
    BY <2>2
  <2>6. PICK r, G : r = x.tree.root /\ G = TreeFrames(x.mem, r)
    OBVIOUS
  <2>7. /\ GoodWalk(w) /\ w.ram = x.ram /\ w.tree = x.tree /\ w.ok = TRUE
        /\ Cloned(w.mem, r) /\ TreeFrames(w.mem, r) = G /\ SamePages(x.mem, w.mem, r)
        /\ \A f \in RamFrames \ G : w.mem[f] = x.mem[f]
    <3>1. Completed(x, w)
      BY <2>3, <2>4, <2>5, CloneSound
    <3> QED BY <3>1, <2>6 DEF Completed
  <2>8. /\ m.next <= x.ram.next /\ x.ram.panic = m.panic /\ x.tree.used = FALSE /\ x.tree.asid = 0
        /\ G \subseteq m.next..(x.ram.next - 1)
        /\ \A f \in RamFrames \ G : x.mem[f] = c[f]
        /\ \A f \in RamFrames : x.ram.tag[f] = IF f \in G THEN "PageTable" ELSE m.tag[f]
        /\ OnlyDevices(x.mem, r)
    BY <2>4, <2>6 DEF Born
  <2>9. \A f \in RamFrames \ G : w.mem[f] = c[f]
    BY <2>7, <2>8
  <2>10. OnlyDevices(w.mem, r)
    BY <2>7, <2>8 DEF OnlyDevices, SamePages
  <2>11. Complete(m, c, w)
    BY <2>6, <2>7, <2>8, <2>9, <2>10 DEF Complete
  <2> QED BY <2>11
<1> QED BY <1>4, <1>5, <1>6

\* asid::alloc hands out a user ASID.
LEMMA AsidFacts ==
  ASSUME NEW n \in 1..(MaxUserAsid + 1)
  PROVE  AsidOf(n) \in 0..MaxUserAsid /\ AsidAfter(n) \in 1..(MaxUserAsid + 1)
<1>1. MaxUserAsid \in Nat /\ MaxUserAsid >= 1
  BY SpaceAssumption
<1> QED BY <1>1 DEF AsidOf, AsidAfter

\* The step leaves the trees of the other slots and their pages alone.
OthersKept(s) ==
  \A r \in Slots \ {s} : /\ space'[r].root = space[r].root
                         /\ r \in Rooted => SamePages(mem, mem', space[r].root)

\* A launch makes a tree beside the others, with device pages and the kernel's
\* part in it, or leaves the slot without one.
LEMMA InvLaunch ==
  ASSUME SpaceInv, NEW s \in Slots, Launch(s)
  PROVE  /\ SpaceInv' /\ s \notin Rooted /\ OthersKept(s)
         /\ s \in Rooted' => OnlyDevices(mem', space'[s].root)
<1>1. PICK w : w = NewTree(Walk(ram, mem, NoSpace))
  OBVIOUS
<1>2. PICK t : t = [w.tree EXCEPT !.used = TRUE, !.asid = AsidOf(asid.next)]
  OBVIOUS
<1>3. /\ ~space[s].used /\ asid.made < MaxLaunches
      /\ ram' = w.ram /\ mem' = w.mem /\ space' = [space EXCEPT ![s] = t]
      /\ asid' = [next |-> AsidAfter(asid.next), made |-> asid.made + 1]
      /\ tlb' = {} /\ ttbr0' = ttbr0 /\ released' = released
  BY <1>1, <1>2 DEF Launch, NextAsid
<1>4. /\ RamSound(ram) /\ mem \in Descriptors /\ space \in [Slots -> Spaces]
      /\ \A r \in Slots : Orderly(space[r])
      /\ ttbr0 \in [root : RamFrames, asid : 0..MaxUserAsid]
      /\ asid \in [next : 1..(MaxUserAsid + 1), made : 0..MaxLaunches]
      /\ released \subseteq FirstFrame..(ram.next - 1)
  BY DEF SpaceInv, SpaceTypes
<1>5. AsidOf(asid.next) \in 0..MaxUserAsid /\ AsidAfter(asid.next) \in 1..(MaxUserAsid + 1)
  BY <1>4, AsidFacts
<1>6. asid' \in [next : 1..(MaxUserAsid + 1), made : 0..MaxLaunches]
  <2>1. asid.made \in 0..MaxLaunches /\ MaxLaunches \in Nat
    BY <1>4, SpaceAssumption
  <2>2. asid.made + 1 \in 0..MaxLaunches
    BY <2>1, <1>3
  <2> QED BY <2>2, <1>3, <1>5
<1>7. Unborn(ram, mem, w) \/ Complete(ram, mem, w)
  <2>1. PICK m, c : m = ram /\ c = mem
    OBVIOUS
  <2>2. /\ RamSound(m) /\ FirstFrame + 3 <= m.next /\ c \in Descriptors
        /\ HasKernel(c, m.next, ttbr0.root)
    BY <2>1, <1>4, SpaceTrees, KernelSource DEF SpaceInv, Booted
  <2> QED BY <1>1, <2>1, <2>2, NewTreeSound
<1>8. TlbCoherent' /\ tlb' \subseteq (0..MaxUserAsid) \X UserVas \X Nat
  BY <1>3 DEF TlbCoherent
<1>9. s \notin Rooted
  BY <1>3, <1>4 DEF Rooted, Orderly
<1>10. CASE Complete(ram, mem, w)
  <2>1. w \in Walks /\ w.tree \in Spaces
    BY <1>10 DEF Complete, GoodWalk, Walks
  <2>2. /\ t \in Spaces /\ t.used = TRUE /\ t.root = w.tree.root /\ t.tracked = w.tree.tracked
    BY <1>2, <1>5, <2>1 DEF Spaces
  <2>3. Held(s) = {}
    BY <1>9 DEF Held
  <2>4. Renewed(s, ram', mem', t)
    <3>1. \A f \in TreeFrames(w.mem, w.tree.root) : f \in RamFrames
      <4>1. /\ TreeFrames(w.mem, w.tree.root) \subseteq ram.next..(w.ram.next - 1)
            /\ w.ram.next \in FirstFrame..(LastFrame + 1) /\ ram.next \in FirstFrame..(LastFrame + 1)
        BY <1>4, <1>10, <2>1 DEF Complete, Walks, RamSound, Allocator
      <4> QED BY <4>1, FrameAssumption DEF RamFrames
    <3> QED BY <1>3, <1>9, <1>10, <2>2, <2>3, <3>1 DEF Renewed, Complete, GoodWalk, Walks
  <2>5. /\ TreesInv' /\ \A r \in Rooted \ {s} : SamePages(mem, mem', space[r].root)
    BY <2>4, <1>3, SpaceTrees, RenewedSound
  <2>6. SpaceInv'
    <3>1. released' \subseteq FirstFrame..(ram'.next - 1)
      <4>1. /\ ram.next <= ram'.next /\ ram.next \in Nat /\ ram'.next \in Nat /\ FirstFrame \in Nat
        BY <1>3, <1>4, <1>10, <2>1, FrameAssumption DEF Complete, Walks, RamSound, Allocator
      <4> QED BY <4>1, <1>3, <1>4
    <3>2. OnlyReleaseDoubleFrees'
      BY <1>3, <1>10 DEF SpaceInv, OnlyReleaseDoubleFrees, Complete
    <3> QED BY <2>5, <3>1, <3>2, <1>3, <1>4, <1>6, <1>8 DEF SpaceInv, SpaceTypes, TreesInv
  <2>7. \A r \in Slots \ {s} : space'[r] = space[r]
    BY <1>3, <1>4
  <2>8. OthersKept(s)
    BY <2>5, <2>7 DEF OthersKept
  <2>9. space'[s] = t
    BY <1>3, <1>4
  <2>10. OnlyDevices(mem', space'[s].root)
    BY <2>2, <2>9, <1>3, <1>10 DEF Complete
  <2> QED BY <2>6, <2>8, <2>10, <1>9
<1>11. CASE Unborn(ram, mem, w)
  <2>1. /\ w.tree = NoSpace /\ mem' = mem /\ RamSound(ram') /\ ram.next <= ram'.next
        /\ ram'.panic = ram.panic
        /\ \A f \in RamFrames : ram'.tag[f] # ram.tag[f] => ram'.tag[f] = "PageTable"
    BY <1>3, <1>11 DEF Unborn
  <2>2. NoSpace \in Spaces /\ NoSpace.root = 0 /\ NoSpace.tracked = <<>>
    BY SpaceAssumption DEF NoSpace, Spaces
  <2>3. t \in Spaces /\ t.root = 0 /\ Orderly(t)
    <3>1. t = [NoSpace EXCEPT !.used = TRUE, !.asid = AsidOf(asid.next)]
      BY <1>2, <2>1
    <3>2. t \in Spaces /\ t.root = NoSpace.root /\ t.tracked = NoSpace.tracked
      BY <1>5, <2>2, <3>1 DEF Spaces
    <3> QED BY <2>2, <3>2 DEF Orderly
  <2>4. space' \in [Slots -> Spaces] /\ space'[s] = t /\ \A r \in Slots \ {s} : space'[r] = space[r]
    BY <1>3, <1>4, <2>3
  <2>5. Rooted' = Rooted /\ \A r \in Rooted : space'[r] = space[r]
    BY <1>9, <2>3, <2>4 DEF Rooted
  <2>6. /\ ram.next \in FirstFrame..(LastFrame + 1) /\ ram'.next \in FirstFrame..(LastFrame + 1)
        /\ FirstFrame \in Nat /\ LastFrame \in Nat
    BY <1>4, <2>1, FrameAssumption DEF RamSound, Allocator
  <2>7. \A r \in Slots : Orderly(space'[r])
    BY <1>4, <2>3, <2>4
  <2>8. TreesInv'
    <3>1. \A r \in Slots : space'[r].root = space[r].root
      BY <2>3, <2>4, <1>9 DEF Rooted
    <3> QED BY <3>1, <2>1, <2>4, <2>5, <2>7, <1>3, SpaceTrees, TreesStay
  <2>9. OnlyReleaseDoubleFrees'
    BY <2>1, <1>3 DEF SpaceInv, OnlyReleaseDoubleFrees
  <2>10. released' \subseteq FirstFrame..(ram'.next - 1)
    BY <1>3, <1>4, <2>1, <2>6
  <2>11. SpaceInv'
    BY <2>8, <2>9, <2>10, <1>3, <1>4, <1>6, <1>8 DEF SpaceInv, SpaceTypes, TreesInv
  <2>12. OthersKept(s)
    BY <2>1, <2>4 DEF OthersKept, SamePages
  <2> QED BY <2>5, <2>11, <2>12, <1>9
<1> QED BY <1>7, <1>10, <1>11

\* What TTBR0's tables say of user pages stays, unless its own tree changes.
LEMMA TtbrKept ==
  ASSUME SpaceInv, Booted', ttbr0' = ttbr0, ram'.next \in FirstFrame..(LastFrame + 1),
         \A r \in Rooted : ttbr0.root = space[r].root
           => TreeOK(mem', ram'.next, space[r].root) /\ SamePages(mem, mem', space[r].root),
         NEW va \in UserVas
  PROVE  translate_va(mem', ttbr0.root, va) = translate_va(mem, ttbr0.root, va)
<1>1. CASE ttbr0.root = FirstFrame
  <2>1. PICK c, d : c = mem /\ d = mem'
    OBVIOUS
  <2>2. (\A f \in BootTables : c[f] = BootMem[f]) /\ (\A f \in BootTables : d[f] = BootMem[f])
    BY <2>1 DEF SpaceInv, Booted
  <2>3. translate_va(c, FirstFrame, va) = 0 + (va % Span(1))
    BY <2>2, BootTranslation
  <2>4. translate_va(d, FirstFrame, va) = 0 + (va % Span(1))
    BY <2>2, BootTranslation
  <2> QED BY <1>1, <2>1, <2>3, <2>4
<1>2. ASSUME NEW s \in Rooted, ttbr0.root = space[s].root
      PROVE  translate_va(mem', ttbr0.root, va) = translate_va(mem, ttbr0.root, va)
  <2>1. PICK c, d, n, k, x : /\ c = mem /\ d = mem' /\ n = ram.next /\ k = ram'.next
                             /\ x = space[s].root
    OBVIOUS
  <2>2. TreeOK(c, n, x) /\ n \in FirstFrame..(LastFrame + 1)
    BY <2>1, SpaceTrees, RootedTree
  <2>3. TreeOK(d, k, x) /\ SamePages(c, d, x) /\ k \in FirstFrame..(LastFrame + 1)
    BY <1>2, <2>1
  <2>4. translate_va(d, x, va) = translate_va(c, x, va)
    BY <2>2, <2>3, SamePagesSameTranslation
  <2> QED BY <1>2, <2>1, <2>4
<1> QED BY <1>1, <1>2 DEF SpaceInv, Booted

\* The walk of map_va starts in a sound tree.
LEMMA WalkStarts ==
  ASSUME TreesInv, NEW s \in Rooted, NEW v, v = Walk(ram, mem, space[s])
  PROVE  /\ GoodWalk(v) /\ v.ok = TRUE /\ v.at = v.tree.root
         /\ v.ram = ram /\ v.mem = mem /\ v.tree = space[s]
<1>1. /\ TreeOK(mem, ram.next, space[s].root) /\ s \in Slots
      /\ Tracks(space[s].tracked, TreeFrames(mem, space[s].root))
  BY RootedTree
<1>2. RamSound(ram) /\ mem \in Descriptors /\ space[s] \in Spaces
  BY <1>1 DEF TreesInv
<1>3. space[s].root # 0 /\ space[s].root \in RamFrames \cup {0}
  BY <1>2 DEF Rooted, Spaces
<1>4. /\ v.ok = TRUE /\ v.at = space[s].root /\ v.ram = ram /\ v.mem = mem /\ v.tree = space[s]
  BY <1>3 DEF Walk
<1>5. v \in Walks
  BY <1>2, <1>3 DEF Walk, Walks, RamSound
<1> QED BY <1>1, <1>2, <1>4, <1>5 DEF GoodWalk

\* map_va keeps the invariant, whether it succeeds or runs out of memory.
LEMMA InvMap ==
  ASSUME SpaceInv, NEW s \in Slots, NEW va \in ProgramVas, NEW pa \in DataPages, Map(s, va, pa)
  PROVE  /\ SpaceInv' /\ s \in Rooted /\ OthersKept(s) /\ space'[s].root = space[s].root
         /\ \/ SamePages(mem, mem', space[s].root)
            \/ OnePage(mem, mem', space[s].root, Index(va, 2), Index(va, 3), Page(pa, UserRW))
<1>1. PICK v : v = Walk(ram, mem, space[s])
  OBVIOUS
<1>2. PICK w : w = map_va(v, va, pa, UserRW)
  OBVIOUS
<1>3. /\ space[s].root # 0
      /\ ram' = w.ram /\ mem' = w.mem /\ space' = [space EXCEPT ![s] = w.tree]
      /\ tlb' = (IF w.ok THEN {} ELSE tlb)
      /\ ttbr0' = ttbr0 /\ asid' = asid /\ released' = released
  BY <1>1, <1>2 DEF Map
<1>4. s \in Rooted /\ va \in UserVas /\ pa \in Nat /\ UserRW \in Attrs
  BY <1>3, SpaceAssumption DEF Rooted, UserRW, Attrs
<1>5. /\ GoodWalk(v) /\ v.ok = TRUE /\ v.at = v.tree.root
      /\ v.ram = ram /\ v.mem = mem /\ v.tree = space[s]
  BY <1>1, <1>4, SpaceTrees, WalkStarts
<1>6. /\ GoodWalk(w) /\ Grown(v, w) /\ w.ok \in BOOLEAN
      /\ w.ok => OnePage(v.mem, w.mem, v.tree.root, Index(va, 2), Index(va, 3), Page(pa, UserRW))
      /\ ~w.ok => SamePages(v.mem, w.mem, v.tree.root)
  BY <1>2, <1>4, <1>5, MapSound
<1>7. PICK r, F, G : r = space[s].root /\ F = TreeFrames(mem, r) /\ G = TreeFrames(w.mem, r)
  OBVIOUS
<1>8. /\ w.tree.root = r /\ w.tree.used = space[s].used /\ ram.next <= w.ram.next
      /\ w.ram.panic = ram.panic /\ G \ F \subseteq ram.next..(w.ram.next - 1)
      /\ \A f \in RamFrames \ G : w.mem[f] = mem[f]
      /\ w.mem[r] = mem[r] /\ \A i \in Idx \ {0} : w.mem[Mid(mem, r)][i] = mem[Mid(mem, r)][i]
      /\ \A f \in RamFrames : w.ram.tag[f] = IF f \in G \ F THEN "PageTable" ELSE ram.tag[f]
  BY <1>5, <1>6, <1>7 DEF Grown
<1>9. Cloned(w.mem, r)
  <2>1. Cloned(mem, r)
    BY <1>4, <1>7, SpaceTrees, RootedTree
  <2>2. Mid(w.mem, r) = Mid(mem, r)
    BY <1>8 DEF Mid, Down
  <2> QED BY <2>1, <2>2, <1>8 DEF Cloned
<1>10. w \in Walks /\ w.tree \in Spaces
  BY <1>6 DEF GoodWalk, Walks
<1>11. Held(s) = F
  BY <1>4, <1>7 DEF Held
<1>12. w.tree.used = TRUE
  <2>1. space[s] \in Spaces /\ Orderly(space[s])
    BY DEF SpaceInv, SpaceTypes
  <2>2. space[s].used = TRUE
    BY <2>1, <1>3 DEF Spaces, Orderly
  <2> QED BY <2>2, <1>8
<1>13. Renewed(s, ram', mem', w.tree)
  <2>1. \A f \in G : f \in RamFrames
    <3>1. PICK c, n : c = w.mem /\ n = w.ram.next
      OBVIOUS
    <3>2. TreeOK(c, n, r) /\ n \in FirstFrame..(LastFrame + 1)
      BY <3>1, <1>6, <1>8, <1>10 DEF GoodWalk, Walks, Allocator
    <3> QED BY <3>1, <3>2, <1>7, FramesDrawn
  <2> QED BY <2>1, <1>3, <1>6, <1>7, <1>8, <1>9, <1>10, <1>11, <1>12 DEF Renewed, GoodWalk, Walks
<1>14. /\ TreesInv' /\ released' \subseteq FirstFrame..(ram'.next - 1) /\ OnlyReleaseDoubleFrees'
       /\ \A q \in Rooted \ {s} : /\ TreeOK(mem', ram'.next, space[q].root)
                                  /\ SamePages(mem, mem', space[q].root)
  <2>1. PICK t : t = w.tree
    OBVIOUS
  <2>2. Renewed(s, ram', mem', t) /\ space' = [space EXCEPT ![s] = t]
    BY <2>1, <1>3, <1>13
  <2>3. released' \subseteq FirstFrame..(ram'.next - 1)
    <3>1. released \subseteq FirstFrame..(ram.next - 1) /\ ram.next \in Nat /\ FirstFrame \in Nat
      BY FrameAssumption DEF SpaceInv, SpaceTypes, RamSound, Allocator
    <3>2. ram'.next \in Nat
      BY <1>3, <1>10, FrameAssumption DEF Walks, Allocator
    <3> QED BY <3>1, <3>2, <1>3, <1>8
  <2>4. OnlyReleaseDoubleFrees'
    BY <1>3, <1>8 DEF SpaceInv, OnlyReleaseDoubleFrees
  <2> QED BY <2>2, <2>3, <2>4, <1>3, SpaceTrees, RenewedSound
<1>15. /\ ttbr0 \in [root : RamFrames, asid : 0..MaxUserAsid]
       /\ tlb \subseteq (0..MaxUserAsid) \X UserVas \X Nat
       /\ asid \in [next : 1..(MaxUserAsid + 1), made : 0..MaxLaunches]
  BY DEF SpaceInv, SpaceTypes
<1>16. TlbCoherent' /\ tlb' \subseteq (0..MaxUserAsid) \X UserVas \X Nat
  <2>1. CASE w.ok
    BY <2>1, <1>3 DEF TlbCoherent
  <2>2. CASE ~w.ok
    <3>1. tlb' = tlb
      BY <2>2, <1>3
    <3>2. TreeOK(mem', ram'.next, r) /\ SamePages(mem, mem', r)
      BY <2>2, <1>3, <1>5, <1>6, <1>7, <1>8 DEF GoodWalk
    <3>3. \A q \in Rooted : ttbr0.root = space[q].root
            => TreeOK(mem', ram'.next, space[q].root) /\ SamePages(mem, mem', space[q].root)
      BY <3>2, <1>7, <1>14
    <3>4. ram'.next \in FirstFrame..(LastFrame + 1)
      BY <1>14 DEF TreesInv, RamSound, Allocator
    <3>5. \A a \in UserVas : translate_va(mem', ttbr0.root, a) = translate_va(mem, ttbr0.root, a)
      BY <3>3, <3>4, <1>3, <1>14, TtbrKept DEF TreesInv
    <3>6. \A e \in tlb : e[2] \in UserVas
      BY <1>15
    <3>7. TlbCoherent'
      BY <3>1, <3>5, <3>6, <1>3 DEF SpaceInv, TlbCoherent
    <3> QED BY <3>1, <3>7, <1>15
  <2> QED BY <2>1, <2>2, <1>6
<1>17. SpaceInv'
  BY <1>3, <1>14, <1>15, <1>16 DEF SpaceInv, SpaceTypes, TreesInv
<1>18. space'[s] = w.tree /\ \A q \in Slots \ {s} : space'[q] = space[q]
  BY <1>3 DEF SpaceInv, SpaceTypes
<1>19. OthersKept(s)
  BY <1>14, <1>18 DEF OthersKept
<1>20. \/ SamePages(mem, mem', space[s].root)
       \/ OnePage(mem, mem', space[s].root, Index(va, 2), Index(va, 3), Page(pa, UserRW))
  BY <1>3, <1>5, <1>6
<1>21. space'[s].root = space[s].root
  BY <1>7, <1>8, <1>18
<1> QED BY <1>4, <1>17, <1>19, <1>20, <1>21

\* A switch loads the tables of a process and empties the TLB.
LEMMA InvSwitch ==
  ASSUME SpaceInv, NEW s \in Slots, Switch(s)
  PROVE  SpaceInv'
<1>1. /\ space[s].root # 0 /\ ttbr0' = [root |-> space[s].root, asid |-> space[s].asid]
      /\ tlb' = {} /\ ram' = ram /\ mem' = mem /\ space' = space /\ asid' = asid
      /\ released' = released
  BY DEF Switch, SwitchFlush
<1>2. s \in Rooted /\ space[s] \in Spaces
  BY <1>1 DEF Rooted, SpaceInv, SpaceTypes
<1>3. ttbr0' \in [root : RamFrames, asid : 0..MaxUserAsid] /\ ttbr0'.root = space[s].root
  BY <1>1, <1>2 DEF Spaces
<1>4. SpaceTypes'
  BY <1>1, <1>3 DEF SpaceInv, SpaceTypes
<1>5. Booted'
  BY <1>1, <1>2, <1>3 DEF SpaceInv, Booted, Rooted
<1>6. Trees' /\ Apart'
  BY <1>1 DEF SpaceInv, Trees, Apart, Rooted
<1>7. Tagged'
  BY <1>1 DEF SpaceInv, Tagged, Intact, Rooted
<1>8. TlbCoherent' /\ OnlyReleaseDoubleFrees'
  BY <1>1 DEF SpaceInv, TlbCoherent, OnlyReleaseDoubleFrees
<1> QED BY <1>4, <1>5, <1>6, <1>7, <1>8 DEF SpaceInv

\* The MMU remembers what the tables of TTBR0 say.
LEMMA InvTouch ==
  ASSUME SpaceInv, NEW va \in ProgramVas, Touch(va)
  PROVE  SpaceInv'
<1>1. PICK pa : pa = translate_va(mem, ttbr0.root, va)
  OBVIOUS
<1>2. /\ pa # NoPage /\ tlb' = tlb \cup {<<ttbr0.asid, va, pa>>}
      /\ ttbr0' = ttbr0 /\ ram' = ram /\ mem' = mem /\ space' = space /\ asid' = asid
      /\ released' = released
  BY <1>1 DEF Touch
<1>3. va \in UserVas
  BY SpaceAssumption
<1>4. pa \in Nat
  <2>1. CASE ttbr0.root = FirstFrame
    <3>1. \A f \in BootTables : mem[f] = BootMem[f]
      BY DEF SpaceInv, Booted
    <3>2. pa = 0 + (va % Span(1))
      BY <3>1, <2>1, <1>1, <1>3, BootTranslation
    <3>3. va % Span(1) \in Nat
      BY <1>3, IndexFacts
    <3> QED BY <3>2, <3>3
  <2>2. ASSUME NEW s \in Rooted, ttbr0.root = space[s].root
        PROVE  pa \in Nat
    <3>1. PICK c, n, x : c = mem /\ n = ram.next /\ x = space[s].root
      OBVIOUS
    <3>2. TreeOK(c, n, x) /\ n \in FirstFrame..(LastFrame + 1) /\ c \in Descriptors
      BY <3>1, SpaceTrees, RootedTree DEF SpaceInv, SpaceTypes
    <3>3. translate_va(c, x, va) \in Nat \cup {NoPage}
      BY <3>2, <1>3, TranslationType
    <3> QED BY <3>1, <3>3, <2>2, <1>1, <1>2
  <2> QED BY <2>1, <2>2 DEF SpaceInv, Booted
<1>5. SpaceTypes'
  <2>1. ttbr0.asid \in 0..MaxUserAsid
    BY DEF SpaceInv, SpaceTypes
  <2>2. tlb' \subseteq (0..MaxUserAsid) \X UserVas \X Nat
    BY <2>1, <1>2, <1>3, <1>4 DEF SpaceInv, SpaceTypes
  <2> QED BY <2>2, <1>2 DEF SpaceInv, SpaceTypes
<1>6. Booted' /\ Trees' /\ Apart'
  BY <1>2 DEF SpaceInv, Booted, Trees, Apart, Rooted
<1>7. Tagged'
  BY <1>2 DEF SpaceInv, Tagged, Intact, Rooted
<1>8. TlbCoherent'
  <2>1. ASSUME NEW e \in tlb', e[1] = ttbr0.asid
        PROVE  translate_va(mem, ttbr0.root, e[2]) = e[3]
    <3>1. CASE e \in tlb
      BY <3>1, <2>1 DEF SpaceInv, TlbCoherent
    <3>2. CASE e = <<ttbr0.asid, va, pa>>
      <4>1. e[2] = va /\ e[3] = pa
        BY <3>2
      <4> QED BY <4>1, <1>1
    <3> QED BY <3>1, <3>2, <1>2
  <2> QED BY <2>1, <1>2 DEF TlbCoherent
<1>9. OnlyReleaseDoubleFrees'
  BY <1>2 DEF SpaceInv, OnlyReleaseDoubleFrees
<1> QED BY <1>5, <1>6, <1>7, <1>8, <1>9 DEF SpaceInv

\* Freeing frames of one tree leaves the tags of the others alone.
LEMMA FreedSound ==
  ASSUME TreesInv, ram.panic = "none", NEW s \in Slots, NEW q, q \in Seq(RamFrames),
         \A k \in 1..Len(q) : q[k] \in Held(s), NEW m, m = FreeEach(ram, q)
  PROVE  /\ RamSound(m) /\ m.next = ram.next /\ m.panic \in {"none", "double-free"}
         /\ \A r \in Rooted \ {s} : \A f \in TreeFrames(mem, space[r].root) : m.tag[f] = ram.tag[f]
<1>1. PICK x : x = ram
  OBVIOUS
<1>2. RamSound(x) /\ x.panic = "none"
  BY <1>1 DEF TreesInv
<1>3. /\ RamSound(m) /\ m.next = x.next /\ m.panic \in {x.panic, "double-free"}
      /\ \A g \in RamFrames : (\A k \in 1..Len(q) : q[k] # g) => m.tag[g] = x.tag[g]
  BY <1>1, <1>2, FreeEachSound
<1>4. ASSUME NEW r \in Rooted \ {s}, NEW f \in TreeFrames(mem, space[r].root)
      PROVE  m.tag[f] = ram.tag[f]
  <2>1. f \in RamFrames
    BY RootedTree
  <2>2. f \notin Held(s)
    BY DEF Held, TreesInv, Apart
  <2> QED BY <2>1, <2>2, <1>1, <1>3
<1> QED BY <1>1, <1>2, <1>3, <1>4

\* What free_tree frees: frames of the tree, each once.
LEMMA TrackedListed ==
  ASSUME TreesInv, NEW s \in Slots, NEW q, q = Reverse(space[s].tracked)
  PROVE  /\ q \in Seq(RamFrames) /\ \A k \in 1..Len(q) : q[k] \in Held(s)
         /\ \A j, k \in 1..Len(q) : q[j] = q[k] => j = k
<1>1. PICK t : t = space[s].tracked
  OBVIOUS
<1>2. space \in [Slots -> Spaces] /\ \A r \in Slots : Orderly(space[r])
  BY DEF TreesInv
<1>3. t \in Seq(RamFrames)
  BY <1>1, <1>2 DEF Spaces
<1>4. /\ q \in Seq(RamFrames) /\ Len(q) = Len(t) /\ Len(t) \in Nat
      /\ \A k \in 1..Len(t) : Len(t) - k + 1 \in 1..Len(t) /\ q[k] = t[Len(t) - k + 1]
  BY <1>1, <1>3, Reversed
<1>5. /\ \A k \in 1..Len(t) : t[k] \in Held(s)
      /\ \A j, k \in 1..Len(t) : t[j] = t[k] => j = k
  <2>1. CASE s \in Rooted
    <3>1. Tracks(t, Held(s))
      BY <2>1, <1>1, RootedTree DEF Held
    <3> QED BY <3>1 DEF Tracks
  <2>2. CASE s \notin Rooted
    <3>1. t = <<>>
      BY <2>2, <1>1, <1>2 DEF Rooted, Orderly
    <3>2. Len(t) = 0
      BY <3>1
    <3>3. 1..Len(t) = {}
      BY <3>2
    <3> QED BY <3>3
  <2> QED BY <2>1, <2>2
<1>6. \A k \in 1..Len(q) : q[k] \in Held(s)
  BY <1>4, <1>5
<1>7. ASSUME NEW j \in 1..Len(q), NEW k \in 1..Len(q), q[j] = q[k]
      PROVE  j = k
  <2>1. /\ Len(t) - j + 1 \in 1..Len(t) /\ q[j] = t[Len(t) - j + 1]
        /\ Len(t) - k + 1 \in 1..Len(t) /\ q[k] = t[Len(t) - k + 1]
    BY <1>4
  <2>2. Len(t) - j + 1 = Len(t) - k + 1
    BY <1>5, <1>7, <2>1
  <2> QED BY <2>2, <1>4
<1> QED BY <1>4, <1>6, <1>7

\* Reaping frees the tracked pages of a tree, once each unless the process
\* manager has freed them before.
LEMMA InvReap ==
  ASSUME SpaceInv, ram.panic = "none", NEW s \in Slots, Reap(s)
  PROVE  SpaceInv'
<1>1. PICK q : q = Reverse(space[s].tracked)
  OBVIOUS
<1>2. /\ space[s].used /\ (space[s].root = 0 \/ space[s].root # ttbr0.root)
      /\ ram' = FreeEach(ram, q) /\ space' = [space EXCEPT ![s] = NoSpace] /\ tlb' = {}
      /\ mem' = mem /\ ttbr0' = ttbr0 /\ asid' = asid /\ released' = released
  BY <1>1 DEF Reap
<1>3. TreesInv
  BY SpaceTrees
<1>4. /\ q \in Seq(RamFrames) /\ \A k \in 1..Len(q) : q[k] \in Held(s)
      /\ \A j, k \in 1..Len(q) : q[j] = q[k] => j = k
  BY <1>1, <1>3, TrackedListed
<1>5. /\ RamSound(ram') /\ ram'.next = ram.next /\ ram'.panic \in {"none", "double-free"}
      /\ \A r \in Rooted \ {s} : \A f \in TreeFrames(mem, space[r].root) : ram'.tag[f] = ram.tag[f]
  <2>1. PICK m : m = FreeEach(ram, q)
    OBVIOUS
  <2>2. ram' = m
    BY <2>1, <1>2
  <2> QED BY <2>1, <2>2, <1>3, <1>4, FreedSound
<1>6. TreesInv'
  BY <1>2, <1>3, <1>5, TreeDropped
<1>7. SpaceTypes'
  BY <1>2, <1>5, <1>6 DEF SpaceInv, SpaceTypes, TreesInv
<1>8. TlbCoherent'
  BY <1>2 DEF TlbCoherent
<1>9. OnlyReleaseDoubleFrees'
  <2>1. CASE released # {}
    BY <2>1, <1>2, <1>5 DEF OnlyReleaseDoubleFrees
  <2>2. CASE released = {}
    <3>1. \A k \in 1..Len(q) : ram.tag[q[k]] # "Free"
      BY <2>2, <1>4 DEF Held, SpaceInv, Tagged, Intact
    <3>2. PICK x : x = ram
      OBVIOUS
    <3>3. RamSound(x)
      BY <3>2, <1>3 DEF TreesInv
    <3>4. FreeEach(x, q).panic = x.panic
      BY <3>1, <3>2, <3>3, <1>4, FreeEachSound
    <3>5. ram'.panic = "none"
      BY <3>2, <3>4, <1>2
    <3> QED BY <3>5 DEF OnlyReleaseDoubleFrees
  <2> QED BY <2>1, <2>2
<1> QED BY <1>6, <1>7, <1>8, <1>9 DEF SpaceInv, TreesInv

\* PROC_MGMT_RELEASE_PT frees the frames of one tree, which stays in use.
LEMMA InvRelease ==
  ASSUME SpaceInv, ram.panic = "none", NEW s \in Slots, Release(s)
  PROVE  SpaceInv'
<1>1. PICK root : root = space[s].root
  OBVIOUS
<1>2. PICK q1, q2, q3 : /\ q1 = SetToSeq(L1s(mem, root)) /\ q2 = SetToSeq(L2s(mem, root))
                        /\ q3 = SetToSeq(L3s(mem, root))
  OBVIOUS
<1>3. PICK q : q = q3 \o q2 \o q1 \o <<root>>
  OBVIOUS
<1>4. /\ root # 0 /\ ram' = FreeEach(ram, q) /\ released' = released \cup {root}
      /\ mem' = mem /\ space' = space /\ ttbr0' = ttbr0 /\ tlb' = tlb /\ asid' = asid
  BY <1>1, <1>2, <1>3 DEF Release
<1>5. s \in Rooted
  BY <1>1, <1>4 DEF Rooted
<1>6. PICK F : F = TreeFrames(mem, root)
  OBVIOUS
<1>7. /\ F = Held(s) /\ F \subseteq RamFrames /\ F \subseteq Drawn(ram.next) /\ root \in F
      /\ TreeOK(mem, ram.next, root) /\ Cloned(mem, root)
      /\ ram.next \in FirstFrame..(LastFrame + 1) /\ FirstFrame \in Nat
  BY <1>1, <1>5, <1>6, SpaceTrees, RootedTree, FrameAssumption DEF Held
<1>8. L1s(mem, root) \subseteq F /\ L2s(mem, root) \subseteq F /\ L3s(mem, root) \subseteq F
  <2>1. /\ L1s(mem, root) = {Mid(mem, root)} /\ L2s(mem, root) = {Low(mem, root)} \ {0}
        /\ L3s(mem, root) = Ends(mem, root)
    BY <1>7, WalkFinds
  <2> QED BY <2>1, <1>6 DEF TreeFrames
<1>9. q1 \in Seq(F) /\ q2 \in Seq(F) /\ q3 \in Seq(F)
  <2>1. ASSUME NEW S, S \subseteq F
        PROVE  SetToSeq(S) \in Seq(F)
    <3>1. SetToSeq(S) \in Seq(S)
      BY <2>1, <1>7, FramesListed
    <3> QED BY <2>1, <3>1
  <2> QED BY <2>1, <1>2, <1>8
<1>10. q \in Seq(F)
  <2>1. <<root>> \in Seq(F)
    BY <1>7
  <2>2. q3 \o q2 \in Seq(F)
    BY <1>9
  <2>3. q3 \o q2 \o q1 \in Seq(F)
    BY <2>2, <1>9
  <2> QED BY <2>1, <2>3, <1>3
<1>11. q \in Seq(RamFrames) /\ \A k \in 1..Len(q) : q[k] \in Held(s)
  BY <1>7, <1>10
<1>12. /\ RamSound(ram') /\ ram'.next = ram.next /\ ram'.panic \in {"none", "double-free"}
       /\ \A r \in Rooted \ {s} : \A f \in TreeFrames(mem, space[r].root) : ram'.tag[f] = ram.tag[f]
  <2>1. PICK m : m = FreeEach(ram, q)
    OBVIOUS
  <2>2. ram' = m
    BY <2>1, <1>4
  <2> QED BY <2>1, <2>2, <1>11, SpaceTrees, FreedSound
<1>13. SpaceTypes'
  <2>1. root \in FirstFrame..(ram.next - 1)
    BY <1>7 DEF Drawn
  <2> QED BY <2>1, <1>4, <1>12 DEF SpaceInv, SpaceTypes
<1>14. Booted' /\ Trees' /\ Apart'
  BY <1>4, <1>12 DEF SpaceInv, Booted, Trees, Apart, Rooted
<1>15. Tagged'
  <2>1. ASSUME NEW r \in Rooted, space[r].root \notin released \cup {root},
               NEW f \in TreeFrames(mem, space[r].root)
        PROVE  ram'.tag[f] = "PageTable"
    <3>1. r # s
      BY <2>1, <1>1
    <3>2. ram.tag[f] = "PageTable"
      BY <2>1 DEF SpaceInv, Tagged, Intact
    <3> QED BY <3>1, <3>2, <1>12
  <2> QED BY <2>1, <1>4 DEF Tagged, Intact, Rooted
<1>16. TlbCoherent'
  BY <1>4 DEF SpaceInv, TlbCoherent
<1>17. OnlyReleaseDoubleFrees'
  BY <1>4, <1>12 DEF OnlyReleaseDoubleFrees
<1> QED BY <1>13, <1>14, <1>15, <1>16, <1>17 DEF SpaceInv

\* With every frame from the cursor on free, the frame at the cursor is taken.
LEMMA TakeNext ==
  ASSUME NEW m, RamSound(m), m.next <= LastFrame,
         \A f \in m.next..LastFrame : m.tag[f] = "Free",
         NEW u, u = alloc_page(m, "PageTable")
  PROVE  /\ RamSound(u) /\ u.next = m.next + 1 /\ u.panic = m.panic
         /\ \A f \in (m.next + 1)..LastFrame : u.tag[f] = "Free"
         /\ \A f \in RamFrames : u.tag[f] \in {m.tag[f], "PageTable"}
<1>1. /\ m \in Allocator /\ m.next \in Nat /\ m.next \in RamFrames /\ LastFrame \in Nat
      /\ FirstFrame \in Nat /\ FirstFrame <= m.next /\ m.tag \in [RamFrames -> Tags]
  BY FrameAssumption DEF RamSound, Allocator, RamFrames
<1>2. Ahead(m) = m.next..LastFrame
  BY DEF Ahead
<1>3. m.next \in Ahead(m) /\ Ahead(m) \in SUBSET Nat
  BY <1>1, <1>2
<1>4. CanAlloc(m)
  BY <1>3 DEF CanAlloc
<1>5. Candidate(m) \in Ahead(m) /\ Candidate(m) <= m.next
  BY <1>3, LeastNumber DEF Candidate
<1>6. Candidate(m) = m.next
  BY <1>1, <1>2, <1>5
<1>7. RamSound(u) /\ u = [m EXCEPT !.tag[m.next] = "PageTable", !.next = m.next + 1]
  <2>1. "PageTable" \in Tags
    BY DEF Tags
  <2>2. RamSound(u) /\ u = [m EXCEPT !.tag[Candidate(m)] = "PageTable", !.next = Candidate(m) + 1]
    BY <2>1, <1>4, AllocSound
  <2> QED BY <2>2, <1>6
<1>8. u.tag = [m.tag EXCEPT ![m.next] = "PageTable"] /\ u.next = m.next + 1 /\ u.panic = m.panic
  BY <1>1, <1>7 DEF Allocator
<1>9. ASSUME NEW f \in (m.next + 1)..LastFrame
      PROVE  u.tag[f] = "Free"
  <2>1. f \in RamFrames /\ f # m.next /\ f \in m.next..LastFrame
    BY <1>1 DEF RamFrames
  <2> QED BY <2>1, <1>1, <1>8
<1>10. \A f \in RamFrames : u.tag[f] \in {m.tag[f], "PageTable"}
  BY <1>1, <1>8
<1> QED BY <1>7, <1>8, <1>9, <1>10

\* After boot three frames are taken.
LEMMA BootRamSound ==
  /\ RamSound(BootRam) /\ BootRam.next = FirstFrame + 3 /\ BootRam.panic = "none"
  /\ \A f \in RamFrames : BootRam.tag[f] \in {"Free", "PageTable"}
  /\ \A f \in (FirstFrame + 3)..LastFrame : BootRam.tag[f] = "Free"
<1>1. FirstFrame \in Nat /\ LastFrame \in Nat /\ FirstFrame + 2 <= LastFrame
  BY FrameAssumption, SpaceAssumption
<1>2. PICK m0, m1, m2, m3 : /\ m0 = FreshRam /\ m1 = alloc_page(m0, "PageTable")
                            /\ m2 = alloc_page(m1, "PageTable") /\ m3 = alloc_page(m2, "PageTable")
  OBVIOUS
<1>3. /\ m0.next = FirstFrame /\ m0.panic = "none" /\ m0.live = {}
      /\ \A f \in RamFrames : m0.tag[f] = "Free"
  BY <1>2 DEF FreshRam
<1>4. RamSound(m0)
  <2>1. [f \in RamFrames |-> "Free"] \in [RamFrames -> Tags]
    BY DEF Tags
  <2>2. m0 \in Allocator
    BY <1>1, <1>2, <2>1 DEF FreshRam, Allocator
  <2> QED BY <2>2, <1>3 DEF RamSound
<1>5. /\ RamSound(m1) /\ m1.next = FirstFrame + 1 /\ m1.panic = "none"
      /\ \A f \in (FirstFrame + 1)..LastFrame : m1.tag[f] = "Free"
      /\ \A f \in RamFrames : m1.tag[f] \in {"Free", "PageTable"}
  <2>1. m0.next <= LastFrame /\ \A f \in m0.next..LastFrame : m0.tag[f] = "Free"
    BY <1>1, <1>3 DEF RamFrames
  <2> QED BY <2>1, <1>2, <1>3, <1>4, TakeNext
<1>6. /\ RamSound(m2) /\ m2.next = FirstFrame + 2 /\ m2.panic = "none"
      /\ \A f \in (FirstFrame + 2)..LastFrame : m2.tag[f] = "Free"
      /\ \A f \in RamFrames : m2.tag[f] \in {"Free", "PageTable"}
  <2>1. m1.next <= LastFrame /\ \A f \in m1.next..LastFrame : m1.tag[f] = "Free"
    BY <1>1, <1>5
  <2>2. /\ RamSound(m2) /\ m2.next = m1.next + 1 /\ m2.panic = m1.panic
        /\ \A f \in (m1.next + 1)..LastFrame : m2.tag[f] = "Free"
        /\ \A f \in RamFrames : m2.tag[f] \in {m1.tag[f], "PageTable"}
    BY <2>1, <1>2, <1>5, TakeNext
  <2>3. m1.next + 1 = FirstFrame + 2
    BY <1>1, <1>5
  <2> QED BY <2>2, <2>3, <1>5
<1>7. /\ RamSound(m3) /\ m3.next = FirstFrame + 3 /\ m3.panic = "none"
      /\ \A f \in (FirstFrame + 3)..LastFrame : m3.tag[f] = "Free"
      /\ \A f \in RamFrames : m3.tag[f] \in {"Free", "PageTable"}
  <2>1. m2.next <= LastFrame /\ \A f \in m2.next..LastFrame : m2.tag[f] = "Free"
    BY <1>1, <1>6
  <2>2. /\ RamSound(m3) /\ m3.next = m2.next + 1 /\ m3.panic = m2.panic
        /\ \A f \in (m2.next + 1)..LastFrame : m3.tag[f] = "Free"
        /\ \A f \in RamFrames : m3.tag[f] \in {m2.tag[f], "PageTable"}
    BY <2>1, <1>2, <1>6, TakeNext
  <2>3. m2.next + 1 = FirstFrame + 3
    BY <1>1, <1>6
  <2> QED BY <2>2, <2>3, <1>6
<1>8. BootRam = m3
  BY <1>2 DEF BootRam
<1> QED BY <1>7, <1>8

\* The invariant holds when the MMU has been switched on.
LEMMA SpaceInvInit ==
  SpaceInit => SpaceInv
<1> SUFFICES ASSUME SpaceInit PROVE SpaceInv
  OBVIOUS
<1>1. /\ ram = BootRam /\ mem = BootMem /\ space = [s \in Slots |-> NoSpace]
      /\ ttbr0 = [root |-> FirstFrame, asid |-> 0]
      /\ tlb = {} /\ released = {} /\ asid = [next |-> 1, made |-> 0]
  BY DEF SpaceInit
<1>2. RamSound(ram) /\ ram.next = FirstFrame + 3 /\ ram.panic = "none"
  BY <1>1, BootRamSound
<1>3. NoSpace \in Spaces /\ NoSpace.root = 0 /\ Orderly(NoSpace)
  BY SpaceAssumption DEF NoSpace, Spaces, Orderly
<1>4. \A s \in Slots : space[s] = NoSpace
  BY <1>1
<1>5. Rooted = {} /\ Intact = {}
  BY <1>3, <1>4 DEF Rooted, Intact
<1>6. FirstFrame \in Nat /\ MaxUserAsid \in Nat /\ MaxUserAsid >= 1 /\ MaxLaunches \in Nat
  BY FrameAssumption, SpaceAssumption
<1>7. SpaceTypes
  <2>1. mem \in Descriptors
    BY <1>1, BootTablesAre
  <2>2. space \in [Slots -> Spaces] /\ \A s \in Slots : Orderly(space[s])
    BY <1>1, <1>3, <1>4
  <2>3. ttbr0 \in [root : RamFrames, asid : 0..MaxUserAsid]
    BY <1>1, <1>6, BootTablesAre
  <2>4. asid \in [next : 1..(MaxUserAsid + 1), made : 0..MaxLaunches]
    BY <1>1, <1>6
  <2> QED BY <2>1, <2>2, <2>3, <2>4, <1>1, <1>2 DEF SpaceTypes
<1>8. Booted
  BY <1>1, <1>2, <1>6 DEF Booted
<1>9. Trees /\ Apart /\ Tagged
  BY <1>5 DEF Trees, Apart, Tagged
<1>10. TlbCoherent /\ OnlyReleaseDoubleFrees
  BY <1>1, <1>2 DEF TlbCoherent, OnlyReleaseDoubleFrees
<1> QED BY <1>7, <1>8, <1>9, <1>10 DEF SpaceInv

\* Every step keeps the invariant.
LEMMA SpaceInvNext ==
  SpaceInv /\ [SpaceNext]_spaceVars => SpaceInv'
<1> SUFFICES ASSUME SpaceInv, [SpaceNext]_spaceVars PROVE SpaceInv'
  OBVIOUS
<1>1. ASSUME NEW s \in Slots, Launch(s)
      PROVE  SpaceInv'
  BY <1>1, InvLaunch
<1>2. ASSUME NEW s \in Slots, NEW va \in ProgramVas, NEW pa \in DataPages, Map(s, va, pa)
      PROVE  SpaceInv'
  BY <1>2, InvMap
<1>3. ASSUME NEW s \in Slots, Switch(s)
      PROVE  SpaceInv'
  BY <1>3, InvSwitch
<1>4. ASSUME NEW s \in Slots, Running, Reap(s)
      PROVE  SpaceInv'
  BY <1>4, InvReap DEF Running
<1>5. ASSUME NEW s \in Slots, Running, Release(s)
      PROVE  SpaceInv'
  BY <1>5, InvRelease DEF Running
<1>6. ASSUME NEW va \in ProgramVas, Touch(va)
      PROVE  SpaceInv'
  BY <1>6, InvTouch
<1>7. CASE UNCHANGED spaceVars
  <2>1. /\ ram' = ram /\ mem' = mem /\ space' = space /\ ttbr0' = ttbr0 /\ tlb' = tlb
        /\ asid' = asid /\ released' = released
    BY <1>7 DEF spaceVars
  <2>2. SpaceTypes'
    BY <2>1 DEF SpaceInv, SpaceTypes
  <2>3. Booted' /\ Trees' /\ Apart'
    BY <2>1 DEF SpaceInv, Booted, Trees, Apart, Rooted
  <2>4. Tagged'
    BY <2>1 DEF SpaceInv, Tagged, Intact, Rooted
  <2>5. TlbCoherent' /\ OnlyReleaseDoubleFrees'
    BY <2>1 DEF SpaceInv, TlbCoherent, OnlyReleaseDoubleFrees
  <2> QED BY <2>2, <2>3, <2>4, <2>5 DEF SpaceInv
<1> QED BY <1>1, <1>2, <1>3, <1>4, <1>5, <1>6, <1>7 DEF SpaceNext

-----------------------------------------------------------------------------
(* The theorems. *)

\* The invariant holds in every reachable state of the address spaces.
THEOREM SpaceInvariant == SpaceSpec => []SpaceInv
<1>1. SpaceInit => SpaceInv
  BY SpaceInvInit
<1>2. SpaceInv /\ [SpaceNext]_spaceVars => SpaceInv'
  BY SpaceInvNext
<1> QED BY <1>1, <1>2, PTL DEF SpaceSpec

\* The variables keep their types.
THEOREM SpaceTypesHold == SpaceSpec => []SpaceTypeOK
<1>1. SpaceInv => SpaceTypeOK
  <2> SUFFICES ASSUME SpaceInv PROVE SpaceTypeOK
    OBVIOUS
  <2>1. SpaceTypes
    BY DEF SpaceInv
  <2>2. ASSUME NEW s \in Slots
        PROVE  /\ space[s].used \in BOOLEAN /\ space[s].root \in RamFrames \cup {0}
               /\ space[s].tracked \in Seq(RamFrames) /\ Len(space[s].tracked) <= MaxTrack
               /\ space[s].asid \in 0..MaxUserAsid
    <3>1. space[s] \in Spaces /\ Orderly(space[s])
      BY <2>1 DEF SpaceTypes
    <3>2. CASE s \in Rooted
      BY <3>1, <3>2, SpaceTrees, RootedTree DEF Spaces, Tracks
    <3>3. CASE s \notin Rooted
      <4>1. space[s].tracked = <<>>
        BY <3>1, <3>3 DEF Rooted, Orderly
      <4>2. Len(space[s].tracked) = 0 /\ MaxTrack \in Nat
        BY <4>1, SpaceAssumption
      <4> QED BY <3>1, <4>2 DEF Spaces
    <3> QED BY <3>2, <3>3
  <2>3. released \subseteq RamFrames
    BY <2>1, FrameAssumption DEF SpaceTypes, RamSound, Allocator, RamFrames
  <2> QED BY <2>1, <2>2, <2>3 DEF SpaceTypes, SpaceTypeOK, RamSound, Descriptors
<1> QED BY <1>1, SpaceInvariant, PTL

\* PageTableTree::validate always holds of the trees the kernel alone has had in
\* its hands: tracked lists their tables once, and all of them while it has
\* room; no table is shared with another process or with the boot tables, or
\* free to be handed out again.
THEOREM TablesStaySound == SpaceSpec => []TablesSound
<1>1. SpaceInv => TablesSound
  <2> DEFINE Sound(s, t, R) ==
               /\ Cardinality(ToSet(t)) = Len(t)
               /\ ToSet(t) \subseteq R
               /\ Len(t) < MaxTrack => R \subseteq ToSet(t)
               /\ \A f \in R : ram.tag[f] = "PageTable"
               /\ R \cap BootTables = {}
               /\ \A r \in Rooted \ {s} : R \cap Reachable(mem, space[r].root) = {}
  <2> SUFFICES ASSUME SpaceInv, NEW s \in Intact
               PROVE  Sound(s, space[s].tracked, Reachable(mem, space[s].root))
    BY Zenon DEF TablesSound
  <2>0. PICK t, R : t = space[s].tracked /\ R = Reachable(mem, space[s].root)
    OBVIOUS
  <2>1. s \in Rooted
    BY DEF Intact
  <2>2. ASSUME NEW r \in Rooted
        PROVE  Reachable(mem, space[r].root) = TreeFrames(mem, space[r].root)
    <3>1. TreeOK(mem, ram.next, space[r].root) /\ Cloned(mem, space[r].root)
      BY SpaceTrees, RootedTree
    <3> QED BY <3>1, WalkFinds
  <2>3. R = TreeFrames(mem, space[s].root)
    BY <2>0, <2>1, <2>2
  <2>4. Tracks(t, R) /\ R \subseteq Drawn(ram.next) /\ s \in Slots
    BY <2>0, <2>1, <2>3, SpaceTrees, RootedTree
  <2>5. t \in Seq(RamFrames)
    BY <2>0, <2>4 DEF SpaceInv, SpaceTypes, Spaces
  <2>6. DOMAIN t = 1..Len(t)
    BY <2>5
  <2>7. Cardinality(ToSet(t)) = Len(t)
    BY <2>4, <2>5, DistinctCounted DEF Tracks
  <2>8. ToSet(t) \subseteq R /\ (Len(t) < MaxTrack => R \subseteq ToSet(t))
    BY <2>4, <2>6 DEF Tracks, ToSet
  <2>9. \A f \in R : ram.tag[f] = "PageTable"
    BY <2>3 DEF SpaceInv, Tagged
  <2>10. R \cap BootTables = {}
    <3>1. ram.next \in Int /\ FirstFrame \in Nat
      BY <2>1, SpaceTrees, RootedTree, FrameAssumption
    <3>2. \A f \in Drawn(ram.next) : f \notin BootTables
      BY <3>1 DEF Drawn, BootTables
    <3> QED BY <3>2, <2>4
  <2>11. \A r \in Rooted \ {s} : R \cap Reachable(mem, space[r].root) = {}
    BY <2>1, <2>2, <2>3 DEF SpaceInv, Apart
  <2> QED BY <2>0, <2>7, <2>8, <2>9, <2>10, <2>11
<1> QED BY <1>1, SpaceInvariant, PTL

\* No cached translation that the CPU can use disagrees with the tables in
\* TTBR0, though map_va replaces live entries and ASIDs are shared after a
\* rollover.
THEOREM TlbStaysCoherent == SpaceSpec => []TlbCoherent
<1>1. SpaceInv => TlbCoherent
  BY DEF SpaceInv
<1> QED BY <1>1, SpaceInvariant, PTL

\* The double-free panic of free_page is reached only after
\* PROC_MGMT_RELEASE_PT, and the live-table panic of alloc_page never.
THEOREM PanicsExplained == SpaceSpec => []OnlyReleaseDoubleFrees
<1>1. SpaceInv => OnlyReleaseDoubleFrees
  BY DEF SpaceInv
<1> QED BY <1>1, SpaceInvariant, PTL

-----------------------------------------------------------------------------
(* The trees implement AddressSpaces. *)

\* The first two digits of a page number, and what is left.
LEMMA UpperDigits ==
  ASSUME NEW va \in 0..(Fanout * Span(0) - 1)
  PROVE  /\ va \in Nat /\ Index(va, 0) \in Idx /\ Index(va, 1) \in Idx /\ va % Span(1) \in Nat
         /\ va % Span(0) = Index(va, 1) * Span(1) + (va % Span(1))
         /\ Index(va, 0) = 0 /\ Index(va, 1) = 0 => va < Span(1)
<1>1. PICK F \in Nat \ {0} : F = Fanout
  BY SpaceAssumption
<1>2. PICK S1 \in Nat \ {0} : S1 = Span(1)
  BY SpanFacts
<1>3. PICK S0 \in Nat \ {0} : S0 = Span(0)
  BY SpanFacts
<1>4. S0 = F * S1
  <2>1. Span(0) = Fanout * Fanout * Fanout /\ Span(1) = Fanout * Fanout
    BY SpanFacts
  <2> QED BY <2>1, <1>1, <1>2, <1>3
<1>5. va \in Nat /\ va < F * S0
  <2>1. F * S0 \in Nat
    BY <1>1
  <2> QED BY <2>1, <1>1, <1>3
<1>6. PICK q0 \in Nat, r0 \in 0..(S0 - 1) : va = q0 * S0 + r0 /\ q0 = va \div S0 /\ r0 = va % S0
  BY <1>5, DivMod
<1>7. PICK q1 \in Nat, r1 \in 0..(S1 - 1) : r0 = q1 * S1 + r1
  <2>1. r0 \in Nat
    OBVIOUS
  <2> QED BY <2>1, DivMod
<1>8. q1 < F
  <2>1. q1 * S1 < F * S1
    BY <1>4, <1>7
  <2>2. ASSUME q1 >= F PROVE FALSE
    <3>1. q1 * S1 >= F * S1
      BY <2>2
    <3>2. q1 * S1 \in Nat /\ F * S1 \in Nat
      OBVIOUS
    <3> QED BY <2>1, <3>1, <3>2
  <2> QED BY <2>2
<1>9. q0 < F
  <2>1. q0 * S0 < F * S0
    <3>1. q0 * S0 \in Nat /\ F * S0 \in Nat
      OBVIOUS
    <3> QED BY <1>5, <1>6, <3>1
  <2>2. ASSUME q0 >= F PROVE FALSE
    <3>1. q0 * S0 >= F * S0
      BY <2>2
    <3>2. q0 * S0 \in Nat /\ F * S0 \in Nat
      OBVIOUS
    <3> QED BY <2>1, <3>1, <3>2
  <2> QED BY <2>2
<1>10. PICK p \in Nat : p = q0 * F + q1
  <2>1. q0 * F + q1 \in Nat
    OBVIOUS
  <2> QED BY <2>1
<1>11. va = p * S1 + r1
  <2>1. q0 * S0 = (q0 * F) * S1
    BY <1>4
  <2>2. PICK x \in Nat : x = q0 * F
    OBVIOUS
  <2>3. PICK y \in Nat, z \in Nat : y = x * S1 /\ z = q1 * S1
    <3>1. x * S1 \in Nat /\ q1 * S1 \in Nat
      OBVIOUS
    <3> QED BY <3>1
  <2>4. p * S1 = y + z
    BY <2>2, <2>3, <1>10
  <2>5. va = y + (z + r1)
    BY <2>1, <2>2, <2>3, <1>6, <1>7
  <2> QED BY <2>4, <2>5
<1>12. va \div S1 = p /\ va % S1 = r1
  BY <1>5, <1>11, DivModUnique
<1>13. p % F = q1
  <2>1. q1 \in 0..(F - 1)
    BY <1>8
  <2> QED BY <2>1, <1>10, DivModUnique
<1>14. q0 % F = q0
  <2>1. q0 \in 0..(F - 1) /\ q0 = 0 * F + q0
    BY <1>9
  <2> QED BY <2>1, DivModUnique
<1>15. Index(va, 0) = q0 /\ Index(va, 1) = q1
  BY <1>1, <1>2, <1>3, <1>6, <1>12, <1>13, <1>14 DEF Index
<1>16. Index(va, 0) \in Idx /\ Index(va, 1) \in Idx
  BY <1>1, <1>8, <1>9, <1>15 DEF Idx
<1>17. va % Span(1) = r1 /\ va % Span(0) = q1 * S1 + r1
  BY <1>2, <1>3, <1>6, <1>7, <1>12
<1>18. ASSUME q0 = 0, q1 = 0 PROVE va < S1
  <2>1. p = 0
    BY <1>10, <1>18
  <2> QED BY <2>1, <1>11
<1> QED BY <1>2, <1>5, <1>15, <1>16, <1>17, <1>18

\* A low page is its last two digits.
LEMMA LowDigits ==
  ASSUME NEW va \in Nat, va < Span(1)
  PROVE  /\ Index(va, 2) \in Idx /\ Index(va, 3) \in Idx
         /\ va = Index(va, 2) * Fanout + Index(va, 3)
<1>1. PICK F \in Nat \ {0} : F = Fanout
  BY SpaceAssumption
<1>2. Span(1) = F * F /\ Span(2) = F /\ Span(3) = 1
  BY <1>1, SpanFacts
<1>3. PICK q \in Nat, r \in 0..(F - 1) : va = q * F + r /\ q = va \div F /\ r = va % F
  BY DivMod
<1>4. q < F
  <2>1. q * F \in Nat /\ F * F \in Nat
    OBVIOUS
  <2>2. q * F < F * F
    BY <2>1, <1>2, <1>3
  <2>3. ASSUME q >= F PROVE FALSE
    <3>1. q * F >= F * F
      BY <2>3
    <3> QED BY <2>1, <2>2, <3>1
  <2> QED BY <2>3
<1>5. q % F = q
  <2>1. q \in 0..(F - 1) /\ q = 0 * F + q
    BY <1>4
  <2> QED BY <2>1, DivModUnique
<1>6. va \div 1 = va
  OBVIOUS
<1>7. Index(va, 2) = q /\ Index(va, 3) = r
  BY <1>1, <1>2, <1>3, <1>5, <1>6 DEF Index
<1>8. q \in Idx /\ r \in Idx
  BY <1>1, <1>4 DEF Idx
<1> QED BY <1>1, <1>3, <1>7, <1>8

\* What a tree shows of va when its pages are those of c.
TreeView(c, r, va) ==
  IF Index(va, 0) = 0 /\ Index(va, 1) = 0
  THEN IF PageAt(c, r, Index(va, 2), Index(va, 3)) = NoEntry THEN NoPage
       ELSE PageAt(c, r, Index(va, 2), Index(va, 3)).pa + 0
  ELSE IF va \in DOMAIN KernelWindow THEN KernelWindow[va] ELSE NoPage

\* The boot tables are as enable_inner left them.
BootKept(c) == \A f \in BootTables : c[f] = BootMem[f]

\* The kernel's window.
LEMMA WindowIs ==
  ASSUME NEW va \in Watched
  PROVE  /\ va \in DOMAIN KernelWindow <=> /\ Index(va, 1) \in 1..2
                                           /\ \/ Index(va, 0) = Fanout \div 2
                                              \/ Index(va, 0) = 0 /\ Index(va, 1) = 1
         /\ va \in DOMAIN KernelWindow => KernelWindow[va] = va % Span(0)
  BY DEF KernelWindow

\* A complete tree shows its pages and the kernel's window, and nothing else.
LEMMA ViewIs ==
  ASSUME NEW c, NEW n \in FirstFrame..(LastFrame + 1), NEW r, TreeOK(c, n, r), Cloned(c, r),
         BootKept(c), NEW va \in Watched
  PROVE  translate_va(c, r, va) = TreeView(c, r, va)
<1>1. va \in 0..(Fanout * Span(0) - 1)
  BY SpaceAssumption
<1>2. /\ va \in Nat /\ Index(va, 0) \in Idx /\ Index(va, 1) \in Idx /\ va % Span(1) \in Nat
      /\ va % Span(0) = Index(va, 1) * Span(1) + (va % Span(1))
      /\ Index(va, 0) = 0 /\ Index(va, 1) = 0 => va < Span(1)
  BY <1>1, UpperDigits
<1>3. PICK i0 \in Idx, i1 \in Idx : i0 = Index(va, 0) /\ i1 = Index(va, 1)
  BY <1>2
<1>4. r # 0
  <2>1. r \in Drawn(n)
    BY DEF TreeOK
  <2>2. 0 \notin Drawn(n)
    BY FramesDrawn
  <2> QED BY <2>1, <2>2
<1>5. PICK mid : mid = Mid(c, r)
  OBVIOUS
<1>6. Span(1) \in Nat \ {0}
  BY SpanFacts
<1>7. ASSUME NEW k \in Idx, NEW e, e = KernelBlock(k * Span(1)), k = i1
      PROVE  e.kind = "block" /\ EntryView(e, va, 1) = va % Span(0)
  <2>1. e.kind = "block" /\ e.pa = k * Span(1)
    BY <1>7 DEF KernelBlock
  <2> QED BY <2>1, <1>2, <1>3, <1>7 DEF EntryView
<1>8. NoEntry.kind = "none"
  BY DEF NoEntry
<1>9. CASE i0 = 0 /\ i1 = 0
  <2>1. IsLow(va)
    <3>1. Index(va, 2) \in Idx /\ Index(va, 3) \in Idx
      BY <1>2, <1>3, <1>9, LowDigits
    <3>2. va % 1 = 0
      BY <1>2
    <3>3. Span(3) = 1
      BY SpanFacts
    <3> QED BY <3>1, <3>2, <3>3, <1>3, <1>9 DEF IsLow
  <2>2. PICK e : e = PageAt(c, r, Index(va, 2), Index(va, 3))
    OBVIOUS
  <2>3. translate_va(c, r, va) = IF e = NoEntry THEN NoPage ELSE e.pa + 0
    BY <2>1, <2>2, PageFound
  <2> QED BY <2>2, <2>3, <1>3, <1>9 DEF TreeView
<1>10. CASE i0 = 0 /\ i1 # 0
  <2>1. c[r][Index(va, 0)] = TableAt(mid)
    BY <1>3, <1>5, <1>10 DEF TreeOK
  <2>2. PICK e : e = c[mid][i1]
    OBVIOUS
  <2>3. e = IF i1 = 1 THEN KernelBlock(Span(1)) ELSE NoEntry
    BY <2>2, <1>5, <1>10 DEF Cloned
  <2>4. va \in DOMAIN KernelWindow <=> i1 = 1
    <3>1. Fanout \div 2 # 0
      BY IdxFacts
    <3>2. 1 \in 1..2
      OBVIOUS
    <3> QED BY <3>1, <3>2, <1>3, <1>10, WindowIs
  <2>5. CASE i1 = 1
    <3>1. 1 * Span(1) = Span(1)
      BY <1>6
    <3>2. e = KernelBlock(i1 * Span(1))
      BY <2>3, <2>5, <3>1
    <3>3. e.kind = "block" /\ EntryView(e, va, 1) = va % Span(0)
      BY <3>2, <1>7
    <3>4. Second(c, r, va, mid, e)
      BY <2>1, <2>2, <3>3, <1>3 DEF Second
    <3>5. translate_va(c, r, va) = va % Span(0)
      BY <3>3, <3>4, <1>4, ShortWalk
    <3> QED BY <3>5, <2>4, <2>5, <1>3, <1>10, WindowIs DEF TreeView
  <2>6. CASE i1 # 1
    <3>1. e = NoEntry
      BY <2>3, <2>6
    <3>2. Second(c, r, va, mid, e)
      BY <2>1, <2>2, <3>1, <1>3, <1>8 DEF Second
    <3>3. translate_va(c, r, va) = NoPage
      BY <3>1, <3>2, <1>4, <1>8, ShortWalk DEF EntryView
    <3> QED BY <3>3, <2>4, <2>6, <1>3, <1>10 DEF TreeView
  <2> QED BY <2>5, <2>6
<1>11. CASE i0 = Fanout \div 2 /\ i0 # 0
  <2>1. PICK high : high = FirstFrame + 2
    OBVIOUS
  <2>2. c[r][Index(va, 0)] = TableAt(high)
    BY <2>1, <1>3, <1>11 DEF Cloned
  <2>3. PICK e : e = c[high][i1]
    OBVIOUS
  <2>4. e = IF i1 \in 1..2 THEN KernelBlock(i1 * Span(1)) ELSE NoEntry
    <3>1. c[high] = BootBlocks(1)
      BY <2>1, BootTablesAre DEF BootKept
    <3> QED BY <2>3, <3>1 DEF BootBlocks
  <2>5. va \in DOMAIN KernelWindow <=> i1 \in 1..2
    BY <1>3, <1>11, WindowIs
  <2>6. CASE i1 \in 1..2
    <3>1. e.kind = "block" /\ EntryView(e, va, 1) = va % Span(0)
      BY <2>4, <2>6, <1>7
    <3>2. Second(c, r, va, high, e)
      BY <2>2, <2>3, <3>1, <1>3 DEF Second
    <3>3. translate_va(c, r, va) = va % Span(0)
      BY <3>1, <3>2, <1>4, ShortWalk
    <3> QED BY <3>3, <2>5, <2>6, <1>3, <1>11, WindowIs DEF TreeView
  <2>7. CASE i1 \notin 1..2
    <3>1. e = NoEntry
      BY <2>4, <2>7
    <3>2. Second(c, r, va, high, e)
      BY <2>2, <2>3, <3>1, <1>3, <1>8 DEF Second
    <3>3. translate_va(c, r, va) = NoPage
      BY <3>1, <3>2, <1>4, <1>8, ShortWalk DEF EntryView
    <3> QED BY <3>3, <2>5, <2>7, <1>3, <1>11 DEF TreeView
  <2> QED BY <2>6, <2>7
<1>12. CASE i0 # 0 /\ i0 # Fanout \div 2
  <2>1. c[r][Index(va, 0)] = NoEntry
    BY <1>3, <1>12 DEF Cloned
  <2>2. PICK s0 : s0 = [entry |-> c[r][Index(va, 0)], level |-> 0]
    OBVIOUS
  <2>3. s0.entry.kind = "none"
    BY <2>1, <2>2, <1>8
  <2>4. Deeper(c, s0, va) = s0
    BY <2>3 DEF Deeper
  <2>5. Leaf(c, r, va) = s0
    BY <2>2, <2>4 DEF Leaf
  <2>6. translate_va(c, r, va) = NoPage
    BY <2>3, <2>5, <1>4 DEF translate_va
  <2>7. va \notin DOMAIN KernelWindow
    BY <1>3, <1>12, WindowIs
  <2> QED BY <2>6, <2>7, <1>3, <1>12 DEF TreeView
<1> QED BY <1>9, <1>10, <1>11, <1>12

\* What the slots see, as ImplementsAddressSpaces has it.
View == [s \in Slots |-> [va \in Watched |-> translate_va(mem, space[s].root, va)]]

Blank == [va \in Watched |-> NoPage]

\* A slot without a tree sees nothing.
LEMMA UnrootedBlank ==
  ASSUME NEW s \in Slots, s \notin Rooted
  PROVE  View[s] = Blank
<1>1. space[s].root = 0
  BY DEF Rooted
<1>2. \A va \in Watched : translate_va(mem, space[s].root, va) = NoPage
  BY <1>1 DEF translate_va
<1> QED BY <1>2 DEF View, Blank

\* A slot with a tree sees what is in it.
LEMMA RootedView ==
  ASSUME SpaceInv, NEW s \in Rooted
  PROVE  View[s] = [va \in Watched |-> TreeView(mem, space[s].root, va)]
<1>1. PICK c, n, r : c = mem /\ n = ram.next /\ r = space[s].root
  OBVIOUS
<1>2. s \in Slots /\ n \in FirstFrame..(LastFrame + 1) /\ TreeOK(c, n, r) /\ Cloned(c, r)
  BY <1>1, SpaceTrees, RootedTree
<1>3. BootKept(c)
  BY <1>1 DEF SpaceInv, Booted, BootKept
<1>4. \A va \in Watched : translate_va(c, r, va) = TreeView(c, r, va)
  BY <1>2, <1>3, ViewIs
<1> QED BY <1>1, <1>2, <1>4 DEF View

\* The same after a step.
LEMMA RootedViewNext ==
  ASSUME SpaceInv', NEW s \in Slots, s \in Rooted'
  PROVE  View'[s] = [va \in Watched |-> TreeView(mem', space'[s].root, va)]
<1>1. PICK c, n, r : c = mem' /\ n = ram'.next /\ r = space'[s].root
  OBVIOUS
<1>2. TreeOK(c, n, r) /\ Cloned(c, r)
  BY <1>1 DEF SpaceInv, Trees
<1>3. n \in FirstFrame..(LastFrame + 1) /\ BootKept(c)
  BY <1>1 DEF SpaceInv, SpaceTypes, RamSound, Allocator, Booted, BootKept
<1>4. \A va \in Watched : translate_va(c, r, va) = TreeView(c, r, va)
  BY <1>2, <1>3, ViewIs
<1> QED BY <1>1, <1>4 DEF View

\* A page of the view has digits.
LEMMA WatchedDigits ==
  ASSUME NEW va \in Watched, Index(va, 0) = 0, Index(va, 1) = 0
  PROVE  /\ va \in Nat /\ Index(va, 2) \in Idx /\ Index(va, 3) \in Idx
         /\ va = Index(va, 2) * Fanout + Index(va, 3)
<1>1. va \in 0..(Fanout * Span(0) - 1)
  BY SpaceAssumption
<1>2. va \in Nat /\ va < Span(1)
  BY <1>1, UpperDigits
<1> QED BY <1>2, LowDigits

\* The same pages are the same view.
LEMMA SameView ==
  ASSUME SpaceInv, SpaceInv', NEW s \in Slots, space'[s].root = space[s].root,
         s \in Rooted => SamePages(mem, mem', space[s].root)
  PROVE  View'[s] = View[s]
<1>1. CASE s \notin Rooted
  <2>1. space[s].root = 0
    BY <1>1 DEF Rooted
  <2>2. /\ \A va \in Watched : translate_va(mem, space[s].root, va) = NoPage
        /\ \A va \in Watched : translate_va(mem', space'[s].root, va) = NoPage
    BY <2>1 DEF translate_va
  <2> QED BY <2>2 DEF View
<1>2. CASE s \in Rooted
  <2>1. s \in Rooted'
    BY <1>2 DEF Rooted
  <2>2. View[s] = [va \in Watched |-> TreeView(mem, space[s].root, va)]
    BY <1>2, RootedView
  <2>3. View'[s] = [va \in Watched |-> TreeView(mem', space'[s].root, va)]
    BY <2>1, RootedViewNext
  <2>4. PICK c, d, r : c = mem /\ d = mem' /\ r = space[s].root
    OBVIOUS
  <2>5. SamePages(c, d, r)
    BY <1>2, <2>4
  <2>6. ASSUME NEW va \in Watched
        PROVE  TreeView(d, r, va) = TreeView(c, r, va)
    <3>1. CASE Index(va, 0) = 0 /\ Index(va, 1) = 0
      <4>1. Index(va, 2) \in Idx /\ Index(va, 3) \in Idx
        BY <3>1, WatchedDigits
      <4>2. PageAt(d, r, Index(va, 2), Index(va, 3)) = PageAt(c, r, Index(va, 2), Index(va, 3))
        BY <4>1, <2>5 DEF SamePages
      <4> QED BY <4>2 DEF TreeView
    <3>2. CASE ~(Index(va, 0) = 0 /\ Index(va, 1) = 0)
      BY <3>2 DEF TreeView
    <3> QED BY <3>1, <3>2
  <2>7. View'[s] = [va \in Watched |-> TreeView(d, r, va)]
    BY <2>3, <2>4
  <2>8. View[s] = [va \in Watched |-> TreeView(c, r, va)]
    BY <2>2, <2>4
  <2> QED BY <2>6, <2>7, <2>8
<1> QED BY <1>1, <1>2

\* A step that keeps the other trees changes the view of s at most.
LEMMA OneViewChanges ==
  ASSUME SpaceInv, SpaceInv', NEW s \in Slots, OthersKept(s), NEW v, View'[s] = v
  PROVE  View' = [View EXCEPT ![s] = v]
<1>1. \A r \in Slots \ {s} : View'[r] = View[r]
  BY SameView DEF OthersKept
<1>2. View = [r \in Slots |-> View[r]] /\ View' = [r \in Slots |-> View'[r]]
  BY DEF View
<1> QED BY <1>1, <1>2

\* A launch opens a view, or changes none.
LEMMA LaunchViewed ==
  ASSUME SpaceInv, NEW s \in Slots, Launch(s)
  PROVE  Views!Open(s) \/ View' = View
<1>1. /\ SpaceInv' /\ s \notin Rooted /\ OthersKept(s)
      /\ s \in Rooted' => OnlyDevices(mem', space'[s].root)
  BY InvLaunch
<1>2. View[s] = Blank
  BY <1>1, UnrootedBlank
<1>3. CASE s \notin Rooted'
  <2>1. space'[s].root = 0 /\ space[s].root = 0
    BY <1>1, <1>3 DEF Rooted
  <2>2. View'[s] = View[s]
    BY <2>1, <1>1, SameView
  <2>3. View' = [View EXCEPT ![s] = View[s]]
    BY <2>2, <1>1, OneViewChanges
  <2>4. View = [r \in Slots |-> View[r]]
    BY DEF View
  <2> QED BY <2>3, <2>4
<1>4. CASE s \in Rooted'
  <2>1. PICK d, r : d = mem' /\ r = space'[s].root
    OBVIOUS
  <2>2. OnlyDevices(d, r)
    BY <2>1, <1>1, <1>4
  <2>3. View'[s] = [va \in Watched |-> TreeView(d, r, va)]
    BY <2>1, <1>1, <1>4, RootedViewNext
  <2> DEFINE D == {va \in ToSet(Devices) : PageAt(d, r, Index(va, 2), Index(va, 3)) # NoEntry}
             Shows(va) == IF va \in D THEN va
                          ELSE IF va \in DOMAIN KernelWindow THEN KernelWindow[va] ELSE NoPage
  <2>4. \A va \in ToSet(Devices) : va \in UserVas /\ \E k \in 1..Len(Devices) : Devices[k] = va
    BY SpaceAssumption DEF ToSet
  <2>5. \A k \in 1..Len(Devices) : Devices[k] \in ToSet(Devices)
    BY SpaceAssumption DEF ToSet
  <2>6. ASSUME NEW va \in Watched
        PROVE  TreeView(d, r, va) = Shows(va)
    <3>1. CASE Index(va, 0) = 0 /\ Index(va, 1) = 0
      <4>1. PICK i \in Idx, j \in Idx : /\ i = Index(va, 2) /\ j = Index(va, 3)
                                        /\ va \in Nat /\ va = i * Fanout + j
        BY <3>1, WatchedDigits
      <4>2. va \notin DOMAIN KernelWindow
        <5>1. Fanout \div 2 # 0
          BY IdxFacts
        <5> QED BY <5>1, <3>1, WindowIs
      <4>3. CASE PageAt(d, r, i, j) = NoEntry
        <5>1. va \notin D
          BY <4>1, <4>3
        <5>2. TreeView(d, r, va) = NoPage
          BY <3>1, <4>1, <4>3 DEF TreeView
        <5> QED BY <5>1, <5>2, <4>2
      <4>4. CASE PageAt(d, r, i, j) # NoEntry
        <5>1. PICK k \in 1..Len(Devices) : /\ i = Index(Devices[k], 2) /\ j = Index(Devices[k], 3)
                                           /\ PageAt(d, r, i, j) = Page(Devices[k], UserRW)
          BY <4>4, <2>2 DEF OnlyDevices
        <5>2. PICK u : u = Devices[k]
          OBVIOUS
        <5>3. u \in ToSet(Devices) /\ u \in UserVas
          BY <5>2, <2>4, <2>5
        <5>4. u \in Nat /\ u < Span(1)
          <6>1. u \in Nat /\ u < UserPages
            BY <5>3, SpaceAssumption DEF UserVas
          <6>2. UserPages \in Nat /\ UserPages <= Span(1) /\ Span(1) \in Nat
            BY SpaceAssumption, SpanFacts
          <6> QED BY <6>1, <6>2
        <5>5. u = Index(u, 2) * Fanout + Index(u, 3)
          BY <5>4, LowDigits
        <5>6. u = va
          BY <5>1, <5>2, <5>5, <4>1
        <5>7. va \in D
          BY <5>3, <5>6, <4>1, <4>4
        <5>8. PageAt(d, r, i, j).pa = va
          BY <5>1, <5>2, <5>6 DEF Page
        <5>9. TreeView(d, r, va) = va + 0
          BY <5>8, <3>1, <4>1, <4>4 DEF TreeView
        <5>10. TreeView(d, r, va) = va
          BY <5>9, <4>1
        <5> QED BY <5>7, <5>10
      <4> QED BY <4>3, <4>4
    <3>2. CASE ~(Index(va, 0) = 0 /\ Index(va, 1) = 0)
      <4>1. va \notin D
        BY <3>2, <2>4, IndexFacts
      <4> QED BY <3>2, <4>1 DEF TreeView
    <3> QED BY <3>1, <3>2
  <2>7. View'[s] = [va \in Watched |-> Shows(va)]
    <3> HIDE DEF Shows
    <3> QED BY <2>3, <2>6
  <2>8. View' = [View EXCEPT ![s] = [va \in Watched |-> Shows(va)]]
    <3> HIDE DEF Shows
    <3>1. PICK v : v = [va \in Watched |-> Shows(va)]
      OBVIOUS
    <3>2. View' = [View EXCEPT ![s] = v]
      BY <3>1, <2>7, <1>1, OneViewChanges
    <3> QED BY <3>1, <3>2
  <2>9. D \in SUBSET ToSet(Devices)
    OBVIOUS
  <2> HIDE DEF D
  <2> QED BY <1>2, <2>8, <2>9 DEF Views!Open, Views!Blank, View, Blank
<1> QED BY <1>3, <1>4

\* map_va changes the page it was asked for, in one view, or no view at all.
LEMMA MapViewed ==
  ASSUME SpaceInv, NEW s \in Slots, NEW va \in ProgramVas, NEW pa \in DataPages, Map(s, va, pa)
  PROVE  Views!MapOne(s) \/ View' = View
<1>1. /\ SpaceInv' /\ s \in Rooted /\ OthersKept(s) /\ space'[s].root = space[s].root
      /\ \/ SamePages(mem, mem', space[s].root)
         \/ OnePage(mem, mem', space[s].root, Index(va, 2), Index(va, 3), Page(pa, UserRW))
  BY InvMap
<1>2. CASE SamePages(mem, mem', space[s].root)
  <2>1. View'[s] = View[s]
    BY <1>1, <1>2, SameView
  <2>2. View' = [View EXCEPT ![s] = View[s]]
    BY <2>1, <1>1, OneViewChanges
  <2>3. View = [r \in Slots |-> View[r]]
    BY DEF View
  <2> QED BY <2>2, <2>3
<1>3. CASE OnePage(mem, mem', space[s].root, Index(va, 2), Index(va, 3), Page(pa, UserRW))
  <2>1. PICK c, d, r, i, j, e : /\ c = mem /\ d = mem' /\ r = space[s].root
                                /\ i = Index(va, 2) /\ j = Index(va, 3) /\ e = Page(pa, UserRW)
    OBVIOUS
  <2>2. OnePage(c, d, r, i, j, e)
    BY <1>3, <2>1
  <2>3. s \in Rooted'
    BY <1>1 DEF Rooted
  <2>4. View[s] = [u \in Watched |-> TreeView(c, r, u)]
    BY <2>1, <1>1, RootedView
  <2>5. View'[s] = [u \in Watched |-> TreeView(d, r, u)]
    BY <2>1, <2>3, <1>1, RootedViewNext
  <2>6. va \in UserVas /\ va \in Nat /\ va < Span(1) /\ Index(va, 0) = 0 /\ Index(va, 1) = 0
    <3>1. va \in UserVas /\ UserPages \in Nat /\ UserPages <= Span(1) /\ Span(1) \in Nat
      BY SpaceAssumption, SpanFacts
    <3>2. va \in Nat /\ va < UserPages
      BY <3>1 DEF UserVas
    <3> QED BY <3>1, <3>2, IndexFacts
  <2>7. va = i * Fanout + j /\ i \in Idx /\ j \in Idx
    BY <2>1, <2>6, LowDigits
  <2>8. e # NoEntry /\ e.pa = pa /\ pa + 0 = pa
    <3>1. pa \in Nat
      BY SpaceAssumption
    <3> QED BY <2>1, <3>1 DEF Page, NoEntry
  <2>9. ASSUME NEW u \in Watched
        PROVE  TreeView(d, r, u) = IF u = va THEN pa ELSE TreeView(c, r, u)
    <3>1. CASE Index(u, 0) = 0 /\ Index(u, 1) = 0
      <4>1. PICK a \in Idx, b \in Idx : /\ a = Index(u, 2) /\ b = Index(u, 3)
                                        /\ u = a * Fanout + b
        BY <3>1, WatchedDigits
      <4>2. PageAt(d, r, a, b) = IF a = i /\ b = j THEN e ELSE PageAt(c, r, a, b)
        BY <2>2 DEF OnePage
      <4>3. u = va <=> a = i /\ b = j
        BY <4>1, <2>1, <2>7
      <4>4. CASE u = va
        <5>1. PageAt(d, r, Index(u, 2), Index(u, 3)) = e
          BY <4>1, <4>2, <4>3, <4>4
        <5>2. TreeView(d, r, u) = e.pa + 0
          BY <5>1, <3>1, <2>8 DEF TreeView
        <5> QED BY <5>2, <2>8, <4>4
      <4>5. CASE u # va
        <5>1. PageAt(d, r, Index(u, 2), Index(u, 3)) = PageAt(c, r, Index(u, 2), Index(u, 3))
          BY <4>1, <4>2, <4>3, <4>5
        <5> QED BY <5>1, <3>1, <4>5 DEF TreeView
      <4> QED BY <4>4, <4>5
    <3>2. CASE ~(Index(u, 0) = 0 /\ Index(u, 1) = 0)
      BY <3>2, <2>6 DEF TreeView
    <3> QED BY <3>1, <3>2
  <2>10. PICK v : v = View[s]
    OBVIOUS
  <2>11. View'[s] = [v EXCEPT ![va] = pa]
    BY <2>4, <2>5, <2>9, <2>10
  <2>12. PICK x : x = [v EXCEPT ![va] = pa]
    OBVIOUS
  <2>13. View' = [View EXCEPT ![s] = x]
    BY <2>11, <2>12, <1>1, OneViewChanges
  <2>14. View' = [View EXCEPT ![s][va] = pa]
    BY <2>10, <2>12, <2>13
  <2> QED BY <2>14 DEF Views!MapOne, View
<1> QED BY <1>1, <1>2, <1>3

\* Reaping closes a view.
LEMMA ReapViewed ==
  ASSUME SpaceInv, ram.panic = "none", NEW s \in Slots, Reap(s)
  PROVE  Views!Close(s)
<1>1. SpaceInv'
  BY InvReap
<1>2. mem' = mem /\ space' = [space EXCEPT ![s] = NoSpace]
  BY DEF Reap
<1>3. space \in [Slots -> Spaces]
  BY DEF SpaceInv, SpaceTypes
<1>4. space'[s].root = 0 /\ \A r \in Slots \ {s} : space'[r] = space[r]
  BY <1>2, <1>3 DEF NoSpace
<1>5. OthersKept(s)
  BY <1>2, <1>4 DEF OthersKept, SamePages
<1>6. \A va \in Watched : translate_va(mem', space'[s].root, va) = NoPage
  BY <1>4 DEF translate_va
<1>7. View'[s] = Blank
  BY <1>6 DEF View, Blank
<1>8. PICK v : v = Blank
  OBVIOUS
<1>9. View' = [View EXCEPT ![s] = v]
  BY <1>1, <1>5, <1>7, <1>8, OneViewChanges
<1> QED BY <1>8, <1>9 DEF Views!Close, Views!Blank, View, Blank

\* Every step is a step of AddressSpaces, or shows in no view.
LEMMA StepViewed ==
  SpaceInv /\ [SpaceNext]_spaceVars => Views!ViewNext \/ View' = View
<1> SUFFICES ASSUME SpaceInv, [SpaceNext]_spaceVars PROVE Views!ViewNext \/ View' = View
  OBVIOUS
<1>1. ASSUME NEW s \in Slots, Launch(s)
      PROVE  Views!ViewNext \/ View' = View
  BY <1>1, LaunchViewed DEF Views!ViewNext
<1>2. ASSUME NEW s \in Slots, NEW va \in ProgramVas, NEW pa \in DataPages, Map(s, va, pa)
      PROVE  Views!ViewNext \/ View' = View
  BY <1>2, MapViewed DEF Views!ViewNext
<1>3. ASSUME NEW s \in Slots, Running, Reap(s)
      PROVE  Views!ViewNext
  BY <1>3, ReapViewed DEF Running, Views!ViewNext
<1>4. ASSUME mem' = mem, space' = space
      PROVE  View' = View
  BY <1>4 DEF View
<1>5. ASSUME NEW s \in Slots, Switch(s) \/ Release(s)
      PROVE  View' = View
  BY <1>4, <1>5 DEF Switch, Release
<1>6. ASSUME NEW va \in ProgramVas, Touch(va)
      PROVE  View' = View
  BY <1>4, <1>6 DEF Touch
<1>7. CASE UNCHANGED spaceVars
  BY <1>4, <1>7 DEF spaceVars
<1> QED BY <1>1, <1>2, <1>3, <1>5, <1>6, <1>7 DEF SpaceNext

\* Seen through translate_va the trees are the views of AddressSpaces: a new one
\* shows devices and the kernel's window, map_va changes one page of one view
\* whichever tables it made or failed to make for it, and no other operation
\* changes what any process sees.
THEOREM TreesImplementAddressSpaces == SpaceSpec => ImplementsAddressSpaces
<1>1. SpaceInit => Views!ViewInit
  <2> SUFFICES ASSUME SpaceInit PROVE Views!ViewInit
    OBVIOUS
  <2>1. \A s \in Slots : space[s].root = 0
    BY DEF SpaceInit, NoSpace
  <2>2. \A s \in Slots, va \in Watched : translate_va(mem, space[s].root, va) = NoPage
    BY <2>1 DEF translate_va
  <2> QED BY <2>2 DEF Views!ViewInit, Views!Blank
<1>2. SpaceInv /\ [SpaceNext]_spaceVars =>
        [Views!ViewNext]_([s \in Slots |-> [va \in Watched |-> translate_va(mem, space[s].root, va)]])
  BY StepViewed DEF View
<1> QED BY <1>1, <1>2, SpaceInvariant, PTL DEF SpaceSpec, ImplementsAddressSpaces, Views!ViewSpec
=============================================================================
