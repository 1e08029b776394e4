---------------------------- MODULE MemoryProofs ----------------------------
(***************************************************************************)
(* For any memory, any number of processes and any requests: no call loses *)
(* a frame or frees one twice, a program sees at an address what was       *)
(* reserved there, and no mapping opens the kernel's part of a tree.       *)
(***************************************************************************)
EXTENDS Memory, PageTablesProofs

(* The parts of the invariant.  Allocator, descriptors and metadata pages  *)
(* are parameters, since a call goes through many of them in one step.     *)

\* The frames that the cursor has not passed are free.
RamClean(m) == \A f \in RamFrames : f >= m.next => m.tag[f] = "Free"

\* Frames that were handed out.
Given(m) == FirstFrame..(m.next - 1)

\* Frame f was committed for page i of VMO id, and is used for nothing else.
Homed(m, ho, f, id, i) == f \in Given(m) /\ m.tag[f] \in {"Free", "VmoData"} /\ ho[f] = <<id, i>>

\* The fields of a VMO.
IsVmoValue(v) ==
  /\ DOMAIN v = {"kind", "meta", "own", "size", "id"}
  /\ v.kind = "vmo" /\ v.meta \in RamFrames /\ v.size \in Nat \ {0} /\ v.id \in Int
  /\ DOMAIN v.own \in {{}, 0..(v.size - 1)} /\ v.own \in [DOMAIN v.own -> RamFrames \cup {0}]

\* A VMO owns frames that were handed out for VMOs, and where it owns a page
\* its metadata page names one that was committed for it.
VmoOK(m, ce, ho, v) ==
  /\ IsVmoValue(v)
  /\ \A f \in Owned(v) : f \in Given(m) /\ m.tag[f] \in {"Free", "VmoData"}
  /\ ce[v.meta] \in [0..(v.size - 1) -> Nat]
  /\ \A i \in DOMAIN v.own : v.own[i] # 0 => Homed(m, ho, ce[v.meta][i], v.id, i)

\* The only owner of its frames, so far.
Sole(m, v) ==
  /\ \A f \in Owned(v) : m.tag[f] = "VmoData"
  /\ \A i, j \in DOMAIN v.own : v.own[i] = v.own[j] /\ v.own[i] # 0 => i = j
  /\ \A i \in DOMAIN v.own : v.own[i] # v.meta

\* The pages of the tree r are user pages, and those in memory are what a
\* reservation says.
Reserved(m, ho, resv, va, pa) ==
  \E k \in DOMAIN resv : /\ va \in resv[k].va..(resv[k].va + resv[k].n - 1)
                         /\ Homed(m, ho, pa, resv[k].id, resv[k].off + va - resv[k].va)

PageBacked(m, ho, resv, i, j, e) ==
  e # NoEntry =>
    \E va \in UserVas : /\ i = Index(va, 2) /\ j = Index(va, 3)
                        /\ e.pa \in RamFrames => Reserved(m, ho, resv, va, e.pa)

Backed(m, c, ho, resv, r) ==
  \A i, j \in Idx : PageBacked(m, ho, resv, i, j, PageAt(c, r, i, j))

Reservations == [id : Int, off : Nat, n : Nat, va : Nat]

\* The types.
MemTypes ==
  /\ RamSound(ram) /\ RamClean(ram) /\ mem \in Descriptors /\ ids \in Nat /\ calls \in 0..MaxCalls
  /\ space \in [Slots -> Spaces] /\ \A s \in Slots : Orderly(space[s])
  /\ ttbr0 = [root |-> FirstFrame, asid |-> 0] /\ released = {} /\ tlb = {}
  /\ asid \in [next : 1..(MaxUserAsid + 1), made : Nat]
  /\ DOMAIN cells = RamFrames /\ DOMAIN home = RamFrames
  /\ proc \in [Slots -> [pid : 0..asid.made, parent : Nat, meta : RamFrames \cup {0}, resv : Seq(Reservations)]]
  /\ \A s \in Slots : Len(proc[s].resv) <= MaxMappings
  /\ DOMAIN table = Slots /\ \A s \in Slots : DOMAIN table[s] = Handles
  /\ lost \subseteq RamFrames /\ cloned \subseteq RamFrames

\* The VMOs in the tables; two with the same metadata page are duplicates.
Objects ==
  /\ \A ph \in VmoHandles : VmoOK(ram, cells, home, table[ph[1]][ph[2]])
  /\ \A ph, qh \in VmoHandles :
       LET v == table[ph[1]][ph[2]]
           u == table[qh[1]][qh[2]]
       IN  v.meta = u.meta => v.id = u.id /\ v.size = u.size

\* A process has a page for its VMAR, and no two processes the same.
Processes ==
  /\ \A s \in Slots : /\ ~space[s].used => proc[s] = NoProcess /\ space[s] = NoSpace
                      /\ proc[s].pid # 0 => proc[s].meta # 0
                      /\ proc[s].meta # 0 => proc[s].meta \in Given(ram)
  /\ \A s, r \in Slots : proc[s].meta = proc[r].meta /\ proc[s].meta # 0 => s = r

\* As long as nothing was duplicated, every VMO is the only owner of its frames.
Owners ==
  cloned = {} =>
    /\ ram.panic # "double-free"
    /\ \A ph \in VmoHandles : Sole(ram, table[ph[1]][ph[2]])
    /\ \A ph, qh \in VmoHandles :
         ph # qh => Owned(table[ph[1]][ph[2]]) \cap Owned(table[qh[1]][qh[2]]) = {}

\* What is mapped was reserved.
Mapped == \A s \in Rooted : Backed(ram, mem, home, proc[s].resv, space[s].root)

\* The inductive invariant.
MemInv ==
  /\ MemTypes /\ Booted /\ Trees /\ Apart /\ Tagged
  /\ Objects /\ Processes /\ Owners /\ Mapped /\ NothingLost

-----------------------------------------------------------------------------
(* Calls in progress. *)

CallFields == {"ok", "ram", "mem", "tree", "resv", "v", "cells", "home", "ids"}

\* What a call in progress keeps, except for its tree and its VMO.
Going(w) ==
  /\ DOMAIN w = CallFields /\ w.ok \in BOOLEAN /\ w.ids \in Nat
  /\ RamSound(w.ram) /\ RamClean(w.ram) /\ FirstFrame + 3 <= w.ram.next
  /\ w.mem \in Descriptors /\ DOMAIN w.cells = RamFrames /\ DOMAIN w.home = RamFrames
  /\ w.resv \in Seq(Reservations) /\ Len(w.resv) <= MaxMappings

\* The tree t is there or not; when it is, what it maps is in resv.
TreeBacked(m, c, ho, t, resv) ==
  /\ t \in Spaces /\ (t.root = 0 => t.tracked = <<>>)
  /\ t.root # 0 => /\ TreeOK(c, m.next, t.root) /\ Cloned(c, t.root)
                   /\ Tracks(t.tracked, TreeFrames(c, t.root))
                   /\ Backed(m, c, ho, resv, t.root)

CallOK(w) == Going(w) /\ TreeBacked(w.ram, w.mem, w.home, w.tree, w.resv)

\* The call has a VMO in its hands.
HasVmo(w) == VmoOK(w.ram, w.cells, w.home, w.v)

\* Frames handed out from m to n.
Fresh(m, n) == m.next..(n.next - 1)

\* From m to n frames in use stay so; a VMO's page may be freed.
Firm(m, ho, n, hn) ==
  /\ m.next <= n.next
  /\ \A f \in Given(m) : hn[f] = ho[f] /\ (m.tag[f] \in {"Free", "VmoData"} => n.tag[f] \in {"Free", "VmoData"})

\* From m to n frames were only handed out.
FrameStep(m, ho, n, hn) ==
  /\ m.next <= n.next /\ (m.panic # "double-free" => n.panic # "double-free")
  /\ \A f \in Given(m) : n.tag[f] = m.tag[f] /\ hn[f] = ho[f]

FramesOf(c, t) == IF t.root = 0 THEN {} ELSE TreeFrames(c, t.root)

\* From t to q the tree was made, or has grown, by frames handed out from m to n.
TreeStep(m, c, t, n, d, q) ==
  /\ t.root # 0 => q.root = t.root
  /\ q.used = t.used /\ q.asid = t.asid
  /\ FramesOf(c, t) \subseteq FramesOf(d, q)
  /\ \A f \in FramesOf(d, q) \ FramesOf(c, t) : f \in Fresh(m, n) /\ n.tag[f] = "PageTable"
  /\ \A f \in RamFrames \ FramesOf(d, q) : d[f] = c[f]

\* From u to v the VMO has got pages, handed out from m to n.
OwnStep(m, u, n, v) ==
  /\ v.meta = u.meta /\ v.size = u.size /\ v.id = u.id /\ DOMAIN v.own = DOMAIN u.own
  /\ \A i \in DOMAIN u.own : v.own[i] = u.own[i] \/ (u.own[i] = 0 /\ v.own[i] \in Fresh(m, n))
  /\ \A f \in Fresh(m, n) : n.tag[f] # "VmarMeta" /\ (n.tag[f] = "VmoData" => f \in Owned(v))
  /\ Sole(m, u) => Sole(n, v)

\* Of the metadata pages in use only that of the VMO has changed, and there
\* only to frames committed for the VMO.
CellStep(m, ce, v, n, cn, hn) ==
  /\ \A f \in Given(m) \ {v.meta} : cn[f] = ce[f]
  /\ cn[v.meta] \in [0..(v.size - 1) -> Nat]
  /\ \A i \in 0..(v.size - 1) : cn[v.meta][i] = ce[v.meta][i] \/ Homed(n, hn, cn[v.meta][i], v.id, i)

VmoStep(u, w) == /\ OwnStep(u.ram, u.v, w.ram, w.v)
                 /\ CellStep(u.ram, u.cells, u.v, w.ram, w.cells, w.home)

\* What a call has done from u to w.
FramesMoved(u, w) == FrameStep(u.ram, u.home, w.ram, w.home)
TreeMoved(u, w) == TreeStep(u.ram, u.mem, u.tree, w.ram, w.mem, w.tree)
CallStep(u, w) == FramesMoved(u, w) /\ TreeMoved(u, w) /\ VmoStep(u, w)

\* The reservations that were there are still there.
ResvKept(a, b) == \A k \in DOMAIN a : k \in DOMAIN b /\ b[k] = a[k]

-----------------------------------------------------------------------------
(* What stays. *)

\* The frames that were handed out are frames.
LEMMA GivenFacts ==
  ASSUME NEW m, RamSound(m)
  PROVE  /\ m \in Allocator /\ m.next \in FirstFrame..(LastFrame + 1) /\ m.next \in Nat
         /\ FirstFrame \in Nat \ {0} /\ LastFrame \in Nat /\ Given(m) \subseteq RamFrames
         /\ m.tag \in [RamFrames -> Tags] /\ m.live \subseteq Given(m) /\ 0 \notin RamFrames
<1>1. /\ m \in Allocator /\ m.next \in FirstFrame..(LastFrame + 1)
      /\ FirstFrame \in Nat \ {0} /\ LastFrame \in Nat
  BY FrameAssumption DEF RamSound, Allocator
<1>2. m.tag \in [RamFrames -> Tags] /\ m.live \subseteq Given(m)
  BY DEF RamSound, Allocator, Given
<1>3. Given(m) \subseteq RamFrames /\ 0 \notin RamFrames /\ m.next \in Nat
  BY <1>1 DEF Given, RamFrames
<1> QED BY <1>1, <1>2, <1>3

\* Handing out frames frees none.
LEMMA StepIsFirm ==
  ASSUME NEW m, NEW ho, NEW n, NEW hn, FrameStep(m, ho, n, hn)
  PROVE  Firm(m, ho, n, hn)
  BY DEF FrameStep, Firm

\* Frames handed out before stay so.
LEMMA GivenKept ==
  ASSUME NEW m, NEW n, RamSound(m), RamSound(n), m.next <= n.next
  PROVE  Given(m) \subseteq Given(n) /\ Fresh(m, n) \subseteq Given(n) /\ Fresh(m, n) \cap Given(m) = {}
<1>1. m.next \in Nat /\ n.next \in Nat /\ FirstFrame \in Nat /\ FirstFrame <= m.next
  BY GivenFacts
<1> QED BY <1>1 DEF Given, Fresh

\* A committed page stays one.
LEMMA HomedKept ==
  ASSUME NEW m, NEW n, RamSound(m), RamSound(n), NEW ho, NEW hn, Firm(m, ho, n, hn),
         NEW f, NEW id, NEW i, Homed(m, ho, f, id, i)
  PROVE  Homed(n, hn, f, id, i)
<1>1. Given(m) \subseteq Given(n)
  BY GivenKept DEF Firm
<1> QED BY <1>1 DEF Homed, Firm

\* A page that is reserved stays so.
LEMMA PageBackedKept ==
  ASSUME NEW m, NEW n, RamSound(m), RamSound(n), NEW ho, NEW hn, Firm(m, ho, n, hn),
         NEW a, NEW b, ResvKept(a, b), NEW i \in Idx, NEW j \in Idx, NEW e, PageBacked(m, ho, a, i, j, e)
  PROVE  PageBacked(n, hn, b, i, j, e)
<1>1. ASSUME NEW va, NEW pa, Reserved(m, ho, a, va, pa)
      PROVE  Reserved(n, hn, b, va, pa)
  <2>1. PICK k \in DOMAIN a : /\ va \in a[k].va..(a[k].va + a[k].n - 1)
                              /\ Homed(m, ho, pa, a[k].id, a[k].off + va - a[k].va)
    BY <1>1 DEF Reserved
  <2>2. PICK id, g : id = a[k].id /\ g = a[k].off + va - a[k].va
    OBVIOUS
  <2>3. Homed(n, hn, pa, id, g)
    BY <2>1, <2>2, HomedKept
  <2>4. k \in DOMAIN b /\ b[k] = a[k]
    BY DEF ResvKept
  <2> QED BY <2>1, <2>2, <2>3, <2>4 DEF Reserved
<1> QED BY <1>1 DEF PageBacked

\* What a tree maps stays reserved.
LEMMA BackedKept ==
  ASSUME NEW m, NEW n, RamSound(m), RamSound(n), NEW ho, NEW hn, Firm(m, ho, n, hn),
         NEW c, NEW d, NEW r, SamePages(c, d, r), NEW a, NEW b, ResvKept(a, b), Backed(m, c, ho, a, r)
  PROVE  Backed(n, d, hn, b, r)
<1>1. ASSUME NEW i \in Idx, NEW j \in Idx, NEW e, PageBacked(m, ho, a, i, j, e)
      PROVE  PageBacked(n, hn, b, i, j, e)
  BY <1>1, PageBackedKept
<1>2. \A i, j \in Idx : PageAt(d, r, i, j) = PageAt(c, r, i, j)
  BY DEF SamePages
<1> QED BY <1>1, <1>2 DEF Backed

\* A VMO stays sound when its metadata page keeps or gets pages of it.
LEMMA VmoKept ==
  ASSUME NEW m, NEW n, RamSound(m), RamSound(n), NEW ho, NEW hn, Firm(m, ho, n, hn),
         NEW ce, NEW cn, NEW v, VmoOK(m, ce, ho, v),
         cn[v.meta] \in [0..(v.size - 1) -> Nat],
         \A i \in 0..(v.size - 1) : cn[v.meta][i] = ce[v.meta][i] \/ Homed(n, hn, cn[v.meta][i], v.id, i)
  PROVE  VmoOK(n, cn, hn, v)
<1>1. Given(m) \subseteq Given(n)
  BY GivenKept DEF Firm
<1>2. \A f \in Owned(v) : f \in Given(n) /\ n.tag[f] \in {"Free", "VmoData"}
  BY <1>1 DEF VmoOK, Firm
<1>3. ASSUME NEW i \in DOMAIN v.own, v.own[i] # 0
      PROVE  Homed(n, hn, cn[v.meta][i], v.id, i)
  <2>1. i \in 0..(v.size - 1)
    BY DEF VmoOK, IsVmoValue
  <2>2. PICK f : f = ce[v.meta][i]
    OBVIOUS
  <2>3. Homed(m, ho, f, v.id, i)
    BY <1>3, <2>2 DEF VmoOK
  <2>4. Homed(n, hn, f, v.id, i)
    BY <2>3, HomedKept
  <2> QED BY <2>1, <2>2, <2>4
<1> QED BY <1>2, <1>3 DEF VmoOK

\* The same, for the VMO that a call works on.
LEMMA VmoChanged ==
  ASSUME NEW m, NEW n, RamSound(m), RamSound(n), NEW ho, NEW hn, Firm(m, ho, n, hn),
         NEW ce, NEW cn, NEW v, VmoOK(m, ce, ho, v), CellStep(m, ce, v, n, cn, hn)
  PROVE  VmoOK(n, cn, hn, v)
<1>1. /\ cn[v.meta] \in [0..(v.size - 1) -> Nat]
      /\ \A i \in 0..(v.size - 1) : cn[v.meta][i] = ce[v.meta][i] \/ Homed(n, hn, cn[v.meta][i], v.id, i)
  BY DEF CellStep
<1> QED BY <1>1, VmoKept

-----------------------------------------------------------------------------
(* The parts of a call, one after the other. *)

\* Handing out frames, twice.
LEMMA FrameTrans ==
  ASSUME NEW m, NEW n, NEW k, RamSound(m), RamSound(n), RamSound(k), NEW ho, NEW hn, NEW hk,
         FrameStep(m, ho, n, hn), FrameStep(n, hn, k, hk)
  PROVE  /\ FrameStep(m, ho, k, hk)
         /\ Fresh(m, k) = Fresh(m, n) \cup Fresh(n, k) /\ Fresh(m, n) \subseteq Given(n)
<1>1. Given(m) \subseteq Given(n) /\ Fresh(m, n) \subseteq Given(n)
  BY GivenKept DEF FrameStep
<1>2. m.next \in Nat /\ n.next \in Nat /\ k.next \in Nat /\ m.next <= n.next /\ n.next <= k.next
  BY GivenFacts DEF FrameStep
<1>3. Fresh(m, k) = Fresh(m, n) \cup Fresh(n, k)
  BY <1>2 DEF Fresh
<1>4. FrameStep(m, ho, k, hk)
  BY <1>1, <1>2 DEF FrameStep
<1> QED BY <1>1, <1>3, <1>4

\* A tree grows, twice.
LEMMA TreeTrans ==
  ASSUME NEW m, NEW n, NEW k, RamSound(m), RamSound(n), RamSound(k), NEW ho, NEW hn, NEW hk,
         FrameStep(m, ho, n, hn), FrameStep(n, hn, k, hk),
         NEW c, NEW d, NEW e, NEW t, NEW q, NEW p,
         TreeStep(m, c, t, n, d, q), TreeStep(n, d, q, k, e, p)
  PROVE  TreeStep(m, c, t, k, e, p)
<1>1. Fresh(m, k) = Fresh(m, n) \cup Fresh(n, k) /\ Fresh(m, n) \subseteq Given(n)
  BY FrameTrans
<1>2. PICK F, G, H : F = FramesOf(c, t) /\ G = FramesOf(d, q) /\ H = FramesOf(e, p)
  OBVIOUS
<1>3. /\ F \subseteq G /\ \A f \in G \ F : f \in Fresh(m, n) /\ n.tag[f] = "PageTable"
      /\ \A f \in RamFrames \ G : d[f] = c[f]
      /\ (t.root # 0 => q.root = t.root) /\ q.used = t.used /\ q.asid = t.asid
  BY <1>2 DEF TreeStep
<1>4. /\ G \subseteq H /\ \A f \in H \ G : f \in Fresh(n, k) /\ k.tag[f] = "PageTable"
      /\ \A f \in RamFrames \ H : e[f] = d[f]
      /\ (q.root # 0 => p.root = q.root) /\ p.used = q.used /\ p.asid = q.asid
  BY <1>2 DEF TreeStep
<1>5. ASSUME NEW f \in H \ F
      PROVE  f \in Fresh(m, k) /\ k.tag[f] = "PageTable"
  <2>1. CASE f \in G
    <3>1. f \in Fresh(m, n) /\ n.tag[f] = "PageTable"
      BY <2>1, <1>3, <1>5
    <3>2. k.tag[f] = n.tag[f]
      BY <3>1, <1>1 DEF FrameStep
    <3> QED BY <3>1, <3>2, <1>1
  <2>2. CASE f \notin G
    BY <2>2, <1>1, <1>4, <1>5
  <2> QED BY <2>1, <2>2
<1>6. \A f \in RamFrames \ H : e[f] = c[f]
  BY <1>3, <1>4
<1>7. t.root # 0 => p.root = t.root
  BY <1>3, <1>4
<1> QED BY <1>2, <1>3, <1>4, <1>5, <1>6, <1>7 DEF TreeStep

\* A VMO gets pages, twice.
LEMMA OwnTrans ==
  ASSUME NEW m, NEW n, NEW k, RamSound(m), RamSound(n), RamSound(k), NEW ho, NEW hn, NEW hk,
         FrameStep(m, ho, n, hn), FrameStep(n, hn, k, hk),
         NEW u, NEW v, NEW x, OwnStep(m, u, n, v), OwnStep(n, v, k, x)
  PROVE  OwnStep(m, u, k, x)
<1>1. Fresh(m, k) = Fresh(m, n) \cup Fresh(n, k) /\ Fresh(m, n) \subseteq Given(n)
  BY FrameTrans
<1>2. /\ v.meta = u.meta /\ v.size = u.size /\ v.id = u.id /\ DOMAIN v.own = DOMAIN u.own
      /\ \A i \in DOMAIN u.own : v.own[i] = u.own[i] \/ (u.own[i] = 0 /\ v.own[i] \in Fresh(m, n))
      /\ \A f \in Fresh(m, n) : n.tag[f] # "VmarMeta" /\ (n.tag[f] = "VmoData" => f \in Owned(v))
      /\ Sole(m, u) => Sole(n, v)
  BY DEF OwnStep
<1>3. /\ x.meta = v.meta /\ x.size = v.size /\ x.id = v.id /\ DOMAIN x.own = DOMAIN v.own
      /\ \A i \in DOMAIN v.own : x.own[i] = v.own[i] \/ (v.own[i] = 0 /\ x.own[i] \in Fresh(n, k))
      /\ \A f \in Fresh(n, k) : k.tag[f] # "VmarMeta" /\ (k.tag[f] = "VmoData" => f \in Owned(x))
      /\ Sole(n, v) => Sole(k, x)
  BY DEF OwnStep
<1>4. \A i \in DOMAIN u.own : x.own[i] = u.own[i] \/ (u.own[i] = 0 /\ x.own[i] \in Fresh(m, k))
  BY <1>1, <1>2, <1>3
<1>5. Owned(v) \subseteq Owned(x)
  BY <1>3 DEF Owned
<1>6. ASSUME NEW f \in Fresh(m, k)
      PROVE  k.tag[f] # "VmarMeta" /\ (k.tag[f] = "VmoData" => f \in Owned(x))
  <2>1. CASE f \in Fresh(m, n)
    <3>1. k.tag[f] = n.tag[f]
      BY <2>1, <1>1 DEF FrameStep
    <3> QED BY <2>1, <3>1, <1>2, <1>5
  <2>2. CASE f \in Fresh(n, k)
    BY <2>2, <1>3
  <2> QED BY <2>1, <2>2, <1>1
<1> QED BY <1>2, <1>3, <1>4, <1>6 DEF OwnStep

\* Metadata pages change, twice.
LEMMA CellTrans ==
  ASSUME NEW m, NEW n, NEW k, RamSound(m), RamSound(n), RamSound(k), NEW ho, NEW hn, NEW hk,
         FrameStep(m, ho, n, hn), FrameStep(n, hn, k, hk),
         NEW u, NEW v, v.meta = u.meta, v.size = u.size, v.id = u.id,
         NEW cm, NEW cn, NEW ck, CellStep(m, cm, u, n, cn, hn), CellStep(n, cn, v, k, ck, hk)
  PROVE  CellStep(m, cm, u, k, ck, hk)
<1>1. Given(m) \subseteq Given(n)
  BY GivenKept DEF FrameStep
<1>2. \A f \in Given(m) \ {u.meta} : ck[f] = cm[f]
  BY <1>1 DEF CellStep
<1>3. ASSUME NEW i \in 0..(u.size - 1)
      PROVE  ck[u.meta][i] = cm[u.meta][i] \/ Homed(k, hk, ck[u.meta][i], u.id, i)
  <2>1. ck[u.meta][i] = cn[u.meta][i] \/ Homed(k, hk, ck[u.meta][i], u.id, i)
    BY DEF CellStep
  <2>2. cn[u.meta][i] = cm[u.meta][i] \/ Homed(n, hn, cn[u.meta][i], u.id, i)
    BY DEF CellStep
  <2>3. PICK f, id : f = cn[u.meta][i] /\ id = u.id
    OBVIOUS
  <2>4. Homed(n, hn, f, id, i) => Homed(k, hk, f, id, i)
    BY StepIsFirm, HomedKept
  <2> QED BY <2>1, <2>2, <2>3, <2>4
<1> QED BY <1>2, <1>3 DEF CellStep

\* Steps of calls can be put together.
LEMMA CallTrans ==
  ASSUME NEW u, NEW v, NEW w, CallOK(u), CallOK(v), CallOK(w), CallStep(u, v), CallStep(v, w)
  PROVE  CallStep(u, w)
<1>1. RamSound(u.ram) /\ RamSound(v.ram) /\ RamSound(w.ram)
  BY DEF CallOK, Going
<1>2. /\ FrameStep(u.ram, u.home, v.ram, v.home) /\ FrameStep(v.ram, v.home, w.ram, w.home)
      /\ TreeStep(u.ram, u.mem, u.tree, v.ram, v.mem, v.tree)
      /\ TreeStep(v.ram, v.mem, v.tree, w.ram, w.mem, w.tree)
      /\ OwnStep(u.ram, u.v, v.ram, v.v) /\ OwnStep(v.ram, v.v, w.ram, w.v)
      /\ CellStep(u.ram, u.cells, u.v, v.ram, v.cells, v.home)
      /\ CellStep(v.ram, v.cells, v.v, w.ram, w.cells, w.home)
  BY DEF CallStep, FramesMoved, TreeMoved, VmoStep
<1>3. v.v.meta = u.v.meta /\ v.v.size = u.v.size /\ v.v.id = u.v.id
  BY <1>2 DEF OwnStep
<1>4. FrameStep(u.ram, u.home, w.ram, w.home)
  BY <1>1, <1>2, FrameTrans
<1>5. TreeStep(u.ram, u.mem, u.tree, w.ram, w.mem, w.tree)
  BY <1>1, <1>2, TreeTrans
<1>6. OwnStep(u.ram, u.v, w.ram, w.v)
  BY <1>1, <1>2, OwnTrans
<1>7. CellStep(u.ram, u.cells, u.v, w.ram, w.cells, w.home)
  BY <1>1, <1>2, <1>3, CellTrans
<1> QED BY <1>4, <1>5, <1>6, <1>7 DEF CallStep, FramesMoved, TreeMoved, VmoStep

\* A call that only ends, or notes a reservation, has done nothing yet.
LEMMA CallRests ==
  ASSUME NEW w, CallOK(w), HasVmo(w), NEW x,
         x.ram = w.ram, x.mem = w.mem, x.tree = w.tree, x.v = w.v, x.cells = w.cells, x.home = w.home
  PROVE  CallStep(w, x)
<1>1. Fresh(w.ram, w.ram) = {}
  <2>1. w.ram.next \in Nat
    BY GivenFacts DEF CallOK, Going
  <2> QED BY <2>1 DEF Fresh
<1>2. w.ram.next <= w.ram.next
  BY GivenFacts DEF CallOK, Going
<1>3. FramesMoved(w, x)
  BY <1>2 DEF FramesMoved, FrameStep
<1>4. TreeMoved(w, x)
  BY DEF TreeMoved, TreeStep
<1>5. OwnStep(w.ram, w.v, x.ram, x.v)
  BY <1>1 DEF OwnStep
<1>6. CellStep(w.ram, w.cells, w.v, x.ram, x.cells, x.home)
  BY DEF CellStep, HasVmo, VmoOK
<1> QED BY <1>3, <1>4, <1>5, <1>6 DEF CallStep, VmoStep

-----------------------------------------------------------------------------
(* The operations of a call. *)

\* alloc_page: the frame at hand, field by field.
LEMMA AllocIs ==
  ASSUME NEW m, RamSound(m), RamClean(m), CanAlloc(m), NEW tag \in Tags, NEW u, u = alloc_page(m, tag),
         NEW f, f = Candidate(m)
  PROVE  /\ RamSound(u) /\ RamClean(u) /\ f \in RamFrames /\ f \notin Given(m) /\ f \in Fresh(m, u)
         /\ m.next <= u.next /\ u.panic = m.panic /\ u.next = f + 1
         /\ \A g \in RamFrames : u.tag[g] = IF g = f THEN tag ELSE m.tag[g]
         /\ \A g \in Fresh(m, u) \ {f} : u.tag[g] = "Free"
<1>1. /\ f \in RamFrames /\ m.next <= f /\ RamSound(u)
      /\ u = [m EXCEPT !.tag[f] = tag, !.next = f + 1]
  BY AllocSound
<1>2. /\ m \in Allocator /\ m.tag \in [RamFrames -> Tags] /\ m.next \in Nat /\ FirstFrame \in Nat
      /\ LastFrame \in Nat /\ u.next \in FirstFrame..(LastFrame + 1) /\ FirstFrame <= m.next
  <2>1. /\ m \in Allocator /\ m.tag \in [RamFrames -> Tags] /\ m.next \in Nat /\ FirstFrame \in Nat
        /\ LastFrame \in Nat /\ m.next \in FirstFrame..(LastFrame + 1)
    BY GivenFacts
  <2>2. u.next \in FirstFrame..(LastFrame + 1)
    BY <1>1, GivenFacts
  <2> QED BY <2>1, <2>2
<1>3. u.tag = [m.tag EXCEPT ![f] = tag] /\ u.next = f + 1 /\ u.panic = m.panic
  BY <1>1, <1>2 DEF Allocator
<1>4. \A g \in RamFrames : u.tag[g] = IF g = f THEN tag ELSE m.tag[g]
  BY <1>2, <1>3
<1>5. f \in Nat /\ f \notin Given(m) /\ f \in Fresh(m, u) /\ m.next <= u.next
  BY <1>1, <1>2, <1>3 DEF Given, Fresh, RamFrames
<1>6. ASSUME NEW g \in Fresh(m, u) \ {f}
      PROVE  u.tag[g] = "Free"
  <2>1. g \in RamFrames /\ m.next <= g
    BY <1>1, <1>2, <1>3, <1>5 DEF Fresh, RamFrames
  <2> QED BY <2>1, <1>4 DEF RamClean
<1>7. RamClean(u)
  <2>1. ASSUME NEW g \in RamFrames, g >= u.next
        PROVE  u.tag[g] = "Free"
    <3>1. g # f /\ g >= m.next
      BY <2>1, <1>1, <1>2, <1>3, <1>5 DEF RamFrames
    <3> QED BY <3>1, <1>4 DEF RamClean
  <2> QED BY <2>1 DEF RamClean
<1> QED BY <1>1, <1>3, <1>4, <1>5, <1>6, <1>7

\* What commit_page sets, with frame f for page i.
CommitAt(w, a, i, f, h) ==
  [w EXCEPT !.ram = a, !.cells[w.v.meta][i] = f, !.v.own[i] = f, !.home[f] = h]

IsCommitAt(w, x, a, i, f, h) ==
  /\ DOMAIN x = CallFields /\ x.ok = w.ok /\ x.ram = a /\ x.mem = w.mem /\ x.tree = w.tree
  /\ x.resv = w.resv /\ x.ids = w.ids
  /\ x.cells = [w.cells EXCEPT ![w.v.meta] = [w.cells[w.v.meta] EXCEPT ![i] = f]]
  /\ x.v = [w.v EXCEPT !.own = [w.v.own EXCEPT ![i] = f]]
  /\ x.home = [w.home EXCEPT ![f] = h]

\* That, field by field.
LEMMA CommitAtIs ==
  ASSUME NEW w, DOMAIN w = CallFields, NEW a, NEW i, NEW f, NEW h, NEW x, x = CommitAt(w, a, i, f, h)
  PROVE  IsCommitAt(w, x, a, i, f, h)
<1>1. DOMAIN x = CallFields
  BY DEF CommitAt
<1>2. x.ok = w.ok /\ x.mem = w.mem /\ x.tree = w.tree /\ x.resv = w.resv /\ x.ids = w.ids
  BY DEF CommitAt, CallFields
<1>3. x.ram = a
  BY DEF CommitAt, CallFields
<1>4. x.cells = [w.cells EXCEPT ![w.v.meta] = [w.cells[w.v.meta] EXCEPT ![i] = f]]
  BY DEF CommitAt, CallFields
<1>5. x.v = [w.v EXCEPT !.own = [w.v.own EXCEPT ![i] = f]]
  BY DEF CommitAt, CallFields
<1>6. x.home = [w.home EXCEPT ![f] = h]
  BY DEF CommitAt, CallFields
<1> QED BY <1>1, <1>2, <1>3, <1>4, <1>5, <1>6 DEF IsCommitAt

\* A tree that is left alone stays backed.
LEMMA TreeBackedKept ==
  ASSUME NEW m, NEW n, RamSound(m), RamSound(n), NEW ho, NEW hn, Firm(m, ho, n, hn),
         NEW c, NEW t, NEW a, NEW b, ResvKept(a, b), TreeBacked(m, c, ho, t, a)
  PROVE  TreeBacked(n, c, hn, t, b)
<1>1. ASSUME t.root # 0
      PROVE  /\ TreeOK(c, n.next, t.root) /\ Backed(n, c, hn, b, t.root)
  <2>1. PICK r, i, j : r = t.root /\ i = m.next /\ j = n.next
    OBVIOUS
  <2>2. i \in FirstFrame..(LastFrame + 1) /\ j \in FirstFrame..(LastFrame + 1) /\ i <= j
    BY <2>1, GivenFacts DEF Firm
  <2>3. TreeOK(c, i, r) /\ Cloned(c, r) /\ Backed(m, c, ho, a, r)
    BY <1>1, <2>1 DEF TreeBacked
  <2>4. TreeOK(c, j, r)
    BY <2>2, <2>3, TreeKept
  <2>5. SamePages(c, c, r)
    BY DEF SamePages
  <2>6. Backed(n, c, hn, b, r)
    BY <2>3, <2>5, BackedKept
  <2> QED BY <2>1, <2>4, <2>6
<1> QED BY <1>1 DEF TreeBacked

\* The end of a call.
LEMMA FailIs ==
  ASSUME NEW w, DOMAIN w = CallFields, NEW x, x = Fail(w)
  PROVE  /\ DOMAIN x = CallFields /\ x.ok = FALSE /\ x.ram = w.ram /\ x.mem = w.mem
         /\ x.tree = w.tree /\ x.resv = w.resv /\ x.v = w.v /\ x.cells = w.cells
         /\ x.home = w.home /\ x.ids = w.ids
  BY DEF Fail, CallFields

\* It leaves everything as it is.
LEMMA FailSound ==
  ASSUME NEW w, CallOK(w), NEW x, x = Fail(w)
  PROVE  /\ CallOK(x) /\ x.resv = w.resv /\ x.ids = w.ids /\ x.v = w.v /\ x.ok = FALSE
         /\ HasVmo(w) => HasVmo(x) /\ CallStep(w, x)
<1>1. /\ DOMAIN x = CallFields /\ x.ok = FALSE /\ x.ram = w.ram /\ x.mem = w.mem
      /\ x.tree = w.tree /\ x.resv = w.resv /\ x.v = w.v /\ x.cells = w.cells
      /\ x.home = w.home /\ x.ids = w.ids
  BY FailIs DEF CallOK, Going
<1>2. CallOK(x)
  BY <1>1 DEF CallOK, Going
<1>3. HasVmo(w) => HasVmo(x) /\ CallStep(w, x)
  BY <1>1, CallRests DEF HasVmo
<1> QED BY <1>1, <1>2, <1>3

\* From m to n frame f was handed out for a VMO.
DataPage(m, n, f) ==
  /\ f \in Fresh(m, n) /\ f \in RamFrames /\ n.tag[f] = "VmoData"
  /\ \A g \in Fresh(m, n) \ {f} : n.tag[g] = "Free"

\* From v to y, and from ce to cn, frame f has become page i of the VMO.
NowOwns(v, y, i, f) == y = [v EXCEPT !.own = [v.own EXCEPT ![i] = f]]
NowNames(v, ce, cn, i, f) == cn = [ce EXCEPT ![v.meta] = [ce[v.meta] EXCEPT ![i] = f]]

\* One page is committed, in the fields of the VMO.
LEMMA CommitOwns ==
  ASSUME NEW m, RamSound(m), NEW n, RamSound(n), NEW ho, NEW hn, FrameStep(m, ho, n, hn),
         NEW ce, NEW v, VmoOK(m, ce, ho, v), NEW i \in DOMAIN v.own, v.own[i] = 0,
         NEW f, DataPage(m, n, f), hn[f] = <<v.id, i>>, DOMAIN ce = RamFrames,
         NEW y, NowOwns(v, y, i, f), NEW cn, NowNames(v, ce, cn, i, f)
  PROVE  VmoOK(n, cn, hn, y) /\ OwnStep(m, v, n, y) /\ CellStep(m, ce, v, n, cn, hn)
<1>0. /\ f \in Fresh(m, n) /\ f \in RamFrames /\ n.tag[f] = "VmoData"
      /\ \A g \in Fresh(m, n) \ {f} : n.tag[g] = "Free"
  BY DEF DataPage
<1>1. /\ IsVmoValue(v) /\ v.meta \in RamFrames /\ v.size \in Nat \ {0} /\ DOMAIN v.own = 0..(v.size - 1)
      /\ v.own \in [0..(v.size - 1) -> RamFrames \cup {0}] /\ i \in 0..(v.size - 1)
      /\ ce[v.meta] \in [0..(v.size - 1) -> Nat]
  BY DEF VmoOK, IsVmoValue
<1>2. /\ y.kind = v.kind /\ y.meta = v.meta /\ y.size = v.size /\ y.id = v.id
      /\ DOMAIN y = DOMAIN v /\ y.own = [v.own EXCEPT ![i] = f]
  BY <1>1 DEF IsVmoValue, NowOwns
<1>3. y.own \in [0..(v.size - 1) -> RamFrames \cup {0}] /\ y.own[i] = f
      /\ \A j \in DOMAIN v.own \ {i} : y.own[j] = v.own[j]
  BY <1>0, <1>1, <1>2
<1>4. IsVmoValue(y)
  BY <1>1, <1>2, <1>3 DEF IsVmoValue
<1>5. Given(m) \subseteq Given(n) /\ f \in Given(n) /\ f \notin Given(m) /\ f \in Nat /\ f # 0
  BY <1>0, GivenKept, GivenFacts DEF FrameStep, RamFrames
<1>6. Owned(v) \subseteq Given(m) /\ v.meta \in Owned(v) /\ f \notin Owned(v)
  BY <1>5 DEF VmoOK, Owned
<1>7. Owned(y) = Owned(v) \cup {f}
  <2>1. ASSUME NEW g \in Owned(y)
        PROVE  g \in Owned(v) \cup {f}
    <3>1. CASE g = y.meta
      BY <3>1, <1>2, <1>6
    <3>2. CASE g # y.meta
      <4>1. PICK j \in DOMAIN y.own : g = y.own[j] /\ g # 0
        BY <3>2, <2>1 DEF Owned
      <4>2. j \in DOMAIN v.own
        BY <4>1, <1>1, <1>3
      <4> QED BY <4>1, <4>2, <1>3 DEF Owned
    <3> QED BY <3>1, <3>2
  <2>2. Owned(v) \subseteq Owned(y)
    BY <1>1, <1>2, <1>3, SMTT(30) DEF Owned
  <2>3. f \in Owned(y)
    BY <1>1, <1>2, <1>3, <1>5 DEF Owned
  <2> QED BY <2>1, <2>2, <2>3
<1>8. cn[v.meta] = [ce[v.meta] EXCEPT ![i] = f] /\ \A g \in RamFrames \ {v.meta} : cn[g] = ce[g]
  BY <1>1 DEF NowNames
<1>9. cn[v.meta] \in [0..(v.size - 1) -> Nat] /\ cn[v.meta][i] = f
      /\ \A j \in 0..(v.size - 1) : j # i => cn[v.meta][j] = ce[v.meta][j]
  BY <1>1, <1>5, <1>8
<1>10. Homed(n, hn, f, v.id, i)
  BY <1>0, <1>5 DEF Homed
<1>11. CellStep(m, ce, v, n, cn, hn)
  <2>1. Given(m) \subseteq RamFrames
    BY GivenFacts
  <2> QED BY <2>1, <1>8, <1>9, <1>10 DEF CellStep
<1>12. VmoOK(n, cn, hn, y)
  <2>1. \A j \in 0..(v.size - 1) : cn[v.meta][j] = ce[v.meta][j] \/ Homed(n, hn, cn[v.meta][j], v.id, j)
    BY <1>11 DEF CellStep
  <2>2. VmoOK(n, cn, hn, v)
    <3>1. Firm(m, ho, n, hn)
      BY StepIsFirm
    <3> QED BY <3>1, <1>11, VmoChanged
  <2>3. \A g \in Owned(y) : g \in Given(n) /\ n.tag[g] \in {"Free", "VmoData"}
    BY <2>2, <1>0, <1>5, <1>7 DEF VmoOK
  <2>4. ASSUME NEW j \in DOMAIN y.own, y.own[j] # 0
        PROVE  Homed(n, hn, cn[y.meta][j], y.id, j)
    <3>1. CASE j = i
      BY <3>1, <1>2, <1>9, <1>10
    <3>2. CASE j # i
      <4>1. j \in DOMAIN v.own /\ v.own[j] # 0
        BY <3>2, <2>4, <1>1, <1>3
      <4> QED BY <4>1, <2>2, <1>2 DEF VmoOK
    <3> QED BY <3>1, <3>2
  <2> QED BY <2>3, <2>4, <1>2, <1>4, <1>9 DEF VmoOK
<1>13. Sole(m, v) => Sole(n, y)
  <2> SUFFICES ASSUME Sole(m, v) PROVE Sole(n, y)
    OBVIOUS
  <2>1. \A g \in Owned(y) : n.tag[g] = "VmoData"
    BY <1>0, <1>6, <1>7 DEF Sole, FrameStep
  <2>2. \A j \in DOMAIN y.own : y.own[j] # y.meta
    BY <1>1, <1>2, <1>3, <1>6 DEF Sole
  <2>3. \A j \in DOMAIN v.own : v.own[j] # f
    BY <1>5, <1>6 DEF Owned
  <2>4. ASSUME NEW j \in DOMAIN y.own, NEW k \in DOMAIN y.own, y.own[j] = y.own[k], y.own[j] # 0
        PROVE  j = k
    <3>1. j \in DOMAIN v.own /\ k \in DOMAIN v.own
      BY <1>1, <1>3
    <3>2. CASE j = i \/ k = i
      BY <3>1, <3>2, <2>3, <2>4, <1>3
    <3>3. CASE j # i /\ k # i
      BY <3>1, <3>3, <2>4, <1>3 DEF Sole
    <3> QED BY <3>2, <3>3
  <2> QED BY <2>1, <2>2, <2>4 DEF Sole
<1>14. OwnStep(m, v, n, y)
  <2>1. f \in Owned(y) /\ DOMAIN y.own = DOMAIN v.own
    BY <1>1, <1>3, <1>7
  <2>2. \A j \in DOMAIN v.own : y.own[j] = v.own[j] \/ (v.own[j] = 0 /\ y.own[j] \in Fresh(m, n))
    BY <1>0, <1>3
  <2> QED BY <2>1, <2>2, <1>0, <1>2, <1>13 DEF OwnStep
<1> QED BY <1>11, <1>12, <1>14

\* From w to x the call has gone on, with the reservations it had.
Onward(w, x) == CallOK(x) /\ HasVmo(x) /\ CallStep(w, x) /\ x.resv = w.resv

\* A call that has gone on twice has gone on.
LEMMA OnwardTrans ==
  ASSUME NEW u, NEW v, NEW w, CallOK(u), Onward(u, v), Onward(v, w)
  PROVE  Onward(u, w)
<1>1. CallStep(u, w)
  BY CallTrans DEF Onward
<1> QED BY <1>1 DEF Onward

\* A call that does nothing goes on.
LEMMA OnwardSame ==
  ASSUME NEW w, CallOK(w), HasVmo(w)
  PROVE  Onward(w, w)
  BY CallRests DEF Onward

\* An error ends a call soundly.
LEMMA OnwardFail ==
  ASSUME NEW w, CallOK(w), HasVmo(w), NEW x, x = Fail(w)
  PROVE  Onward(w, x) /\ x.ok = FALSE
  BY FailSound DEF Onward

\* A tree that is left alone has not grown.
LEMMA TreeRests ==
  ASSUME NEW m, NEW n, NEW c, NEW t
  PROVE  TreeStep(m, c, t, n, c, t)
  BY DEF TreeStep

\* A page is committed with the next frame.
LEMMA CommitAtSound ==
  ASSUME NEW w, CallOK(w), HasVmo(w), NEW i \in DOMAIN w.v.own, w.v.own[i] = 0, CanAlloc(w.ram),
         NEW a, a = alloc_page(w.ram, "VmoData"), NEW f, f = Candidate(w.ram),
         NEW x, IsCommitAt(w, x, a, i, f, <<w.v.id, i>>)
  PROVE  Onward(w, x) /\ x.v.own[i] # 0
<1>1. PICK m, ho, ce, v, hn, cn, y, id :
        /\ m = w.ram /\ ho = w.home /\ ce = w.cells /\ v = w.v /\ id = v.id
        /\ hn = x.home /\ cn = x.cells /\ y = x.v
  OBVIOUS
<1>2. /\ RamSound(m) /\ RamClean(m) /\ CanAlloc(m) /\ DOMAIN ho = RamFrames /\ DOMAIN ce = RamFrames
      /\ VmoOK(m, ce, ho, v) /\ FirstFrame + 3 <= m.next /\ m.next \in Nat
  BY <1>1, GivenFacts DEF CallOK, Going, HasVmo
<1>3. "VmoData" \in Tags
  BY DEF Tags
<1>4. /\ RamSound(a) /\ RamClean(a) /\ f \in RamFrames /\ f \notin Given(m) /\ f \in Fresh(m, a)
      /\ m.next <= a.next /\ a.panic = m.panic /\ a.next = f + 1
      /\ \A g \in RamFrames : a.tag[g] = IF g = f THEN "VmoData" ELSE m.tag[g]
      /\ \A g \in Fresh(m, a) \ {f} : a.tag[g] = "Free"
  <2>1. f = Candidate(m) /\ a = alloc_page(m, "VmoData")
    BY <1>1
  <2> QED BY <1>2, <1>3, <2>1, AllocIs
<1>5. /\ hn = [ho EXCEPT ![f] = <<id, i>>] /\ x.ram = a /\ x.mem = w.mem /\ x.tree = w.tree /\ x.resv = w.resv
      /\ cn = [ce EXCEPT ![v.meta] = [ce[v.meta] EXCEPT ![i] = f]]
      /\ y = [v EXCEPT !.own = [v.own EXCEPT ![i] = f]]
      /\ DOMAIN x = CallFields /\ x.ok = w.ok /\ x.ids = w.ids
  BY <1>1 DEF IsCommitAt
<1>6. hn[f] = <<id, i>> /\ DOMAIN hn = RamFrames /\ \A g \in RamFrames \ {f} : hn[g] = ho[g]
  BY <1>2, <1>4, <1>5
<1>7. DOMAIN cn = RamFrames
  BY <1>2, <1>5
<1>8. FrameStep(m, ho, a, hn)
  <2>1. Given(m) \subseteq RamFrames
    BY <1>2, GivenFacts
  <2> QED BY <2>1, <1>4, <1>6 DEF FrameStep
<1>9. VmoOK(a, cn, hn, y) /\ OwnStep(m, v, a, y) /\ CellStep(m, ce, v, a, cn, hn)
  <2>1. i \in DOMAIN v.own /\ v.own[i] = 0 /\ hn[f] = <<v.id, i>>
    BY <1>1, <1>6
  <2>2. DataPage(m, a, f) /\ NowOwns(v, y, i, f) /\ NowNames(v, ce, cn, i, f)
    BY <1>4, <1>5 DEF DataPage, NowOwns, NowNames
  <2> QED BY <2>1, <2>2, <1>2, <1>4, <1>8, CommitOwns
<1>10. y.own[i] # 0
  <2>1. f # 0 /\ DOMAIN v = {"kind", "meta", "own", "size", "id"} /\ i \in DOMAIN v.own
    BY <1>1, <1>2, <1>4, GivenFacts DEF VmoOK, IsVmoValue
  <2>2. y.own = [v.own EXCEPT ![i] = f]
    BY <2>1, <1>5
  <2>3. y.own[i] = f
    BY <2>1, <2>2
  <2> QED BY <2>1, <2>3
<1>11. PICK c, t, resv : c = w.mem /\ t = w.tree /\ resv = w.resv
  OBVIOUS
<1>12. TreeBacked(a, c, hn, t, resv)
  <2>1. TreeBacked(m, c, ho, t, resv)
    BY <1>1, <1>11 DEF CallOK
  <2>2. ResvKept(resv, resv) /\ Firm(m, ho, a, hn)
    BY <1>8, StepIsFirm DEF ResvKept
  <2> QED BY <2>1, <2>2, <1>2, <1>4, TreeBackedKept
<1>13. Going(x)
  <2>1. FirstFrame + 3 <= a.next
    <3>1. a.next \in Nat /\ FirstFrame \in Nat
      BY <1>4, GivenFacts
    <3> QED BY <3>1, <1>2, <1>4
  <2>2. w.mem \in Descriptors /\ w.ok \in BOOLEAN /\ w.ids \in Nat /\ w.resv \in Seq(Reservations)
        /\ Len(w.resv) <= MaxMappings
    BY DEF CallOK, Going
  <2> QED BY <2>1, <2>2, <1>1, <1>4, <1>5, <1>6, <1>7 DEF Going
<1>14. CallOK(x)
  BY <1>1, <1>5, <1>11, <1>12, <1>13 DEF CallOK
<1>15. HasVmo(x)
  BY <1>1, <1>5, <1>9 DEF HasVmo
<1>16. TreeMoved(w, x)
  <2>1. TreeStep(m, c, t, a, c, t)
    BY TreeRests
  <2> QED BY <2>1, <1>1, <1>5, <1>11 DEF TreeMoved
<1>17. CallStep(w, x)
  <2>1. FramesMoved(w, x)
    BY <1>1, <1>5, <1>8 DEF FramesMoved
  <2>2. VmoStep(w, x)
    BY <1>1, <1>5, <1>9 DEF VmoStep
  <2> QED BY <2>1, <2>2, <1>16 DEF CallStep
<1> QED BY <1>1, <1>5, <1>10, <1>14, <1>15, <1>17 DEF Onward

\* commit_page: when it succeeds the VMO owns the page.
LEMMA CommitSound ==
  ASSUME NEW w, CallOK(w), HasVmo(w), NEW i \in Nat, NEW x, x = commit_page(w, i)
  PROVE  /\ Onward(w, x)
         /\ x.ok => w.ok /\ i \in DOMAIN x.v.own /\ x.v.own[i] # 0
<1>1. CASE ~w.ok \/ i >= w.v.size \/ DOMAIN w.v.own = {}
  <2>1. x = Fail(w)
    BY <1>1 DEF commit_page
  <2> QED BY <2>1, OnwardFail
<1>2. CASE ~(~w.ok \/ i >= w.v.size \/ DOMAIN w.v.own = {})
  <2>1. i \in DOMAIN w.v.own
    <3>1. DOMAIN w.v.own = 0..(w.v.size - 1) /\ w.v.size \in Nat
      BY <1>2 DEF HasVmo, VmoOK, IsVmoValue
    <3> QED BY <3>1, <1>2
  <2>2. CASE w.v.own[i] # 0
    <3>1. x = w
      BY <1>2, <2>2 DEF commit_page
    <3> QED BY <3>1, <1>2, <2>1, <2>2, OnwardSame
  <2>3. CASE w.v.own[i] = 0 /\ ~CanAlloc(w.ram)
    <3>1. x = Fail(w)
      BY <1>2, <2>3 DEF commit_page
    <3> QED BY <3>1, OnwardFail
  <2>4. CASE w.v.own[i] = 0 /\ CanAlloc(w.ram)
    <3>1. PICK f, a, h : f = Candidate(w.ram) /\ a = alloc_page(w.ram, "VmoData") /\ h = <<w.v.id, i>>
      OBVIOUS
    <3>2. x = CommitAt(w, alloc_page(w.ram, "VmoData"), i, Candidate(w.ram), <<w.v.id, i>>)
      BY <1>2, <2>4, Zenon DEF commit_page, CommitAt
    <3>3. DOMAIN w = CallFields
      BY DEF CallOK, Going
    <3>4. IsCommitAt(w, x, a, i, f, h)
      BY <3>1, <3>2, <3>3, CommitAtIs
    <3>5. Onward(w, x) /\ x.v.own[i] # 0
      BY <2>1, <2>4, <3>1, <3>4, CommitAtSound
    <3>6. DOMAIN x.v.own = DOMAIN w.v.own
      BY <3>5 DEF Onward, CallStep, VmoStep, OwnStep
    <3> QED BY <3>5, <3>6, <1>2, <2>1
  <2> QED BY <2>2, <2>3, <2>4
<1> QED BY <1>1, <1>2

\* A tree that has grown in a walk.
LEMMA GrownIsStep ==
  ASSUME NEW v, GoodWalk(v), NEW w, GoodWalk(w), Grown(v, w), RamClean(v.ram), NEW ho
  PROVE  /\ FrameStep(v.ram, ho, w.ram, ho) /\ RamClean(w.ram)
         /\ TreeStep(v.ram, v.mem, v.tree, w.ram, w.mem, w.tree)
         /\ \A f \in Fresh(v.ram, w.ram) : w.ram.tag[f] \in {"Free", "PageTable"}
         /\ Cloned(v.mem, v.tree.root) => Cloned(w.mem, w.tree.root)
         /\ v.tree.root # 0
<1>1. PICK m, n, c, d, r, F, G :
        /\ m = v.ram /\ n = w.ram /\ c = v.mem /\ d = w.mem /\ r = v.tree.root
        /\ F = TreeFrames(c, r) /\ G = TreeFrames(d, r)
  OBVIOUS
<1>2. /\ w.tree.root = r /\ w.tree.used = v.tree.used /\ w.tree.asid = v.tree.asid
      /\ m.next <= n.next /\ n.panic = m.panic /\ F \subseteq G /\ G \ F \subseteq m.next..(n.next - 1)
      /\ \A f \in RamFrames \ G : d[f] = c[f]
      /\ d[r] = c[r] /\ \A i \in Idx \ {0} : d[Mid(c, r)][i] = c[Mid(c, r)][i]
      /\ \A f \in RamFrames : n.tag[f] = IF f \in G \ F THEN "PageTable" ELSE m.tag[f]
  BY <1>1 DEF Grown
<1>3. /\ RamSound(m) /\ RamSound(n) /\ TreeOK(c, m.next, r)
  BY <1>1 DEF GoodWalk
<1>4. m.next \in Nat /\ n.next \in Nat /\ n.next <= LastFrame + 1 /\ FirstFrame <= m.next /\ FirstFrame \in Nat
      /\ LastFrame \in Nat /\ Given(m) \subseteq RamFrames
  BY <1>3, GivenFacts
<1>5. r # 0
  BY <1>3, <1>4 DEF TreeOK, Drawn
<1>6. \A f \in RamFrames : f < m.next => f \notin G \ F
  BY <1>2, <1>4 DEF RamFrames
<1>7. FrameStep(m, ho, n, ho)
  <2>1. \A f \in Given(m) : f < m.next /\ f \in RamFrames
    BY <1>4 DEF Given
  <2> QED BY <2>1, <1>2, <1>6 DEF FrameStep
<1>8. \A f \in RamFrames : f >= m.next => n.tag[f] \in {"Free", "PageTable"}
  BY <1>1, <1>2 DEF RamClean
<1>9. \A f \in Fresh(m, n) : n.tag[f] \in {"Free", "PageTable"}
  <2>1. \A f \in Fresh(m, n) : f \in RamFrames /\ f >= m.next
    BY <1>4 DEF Fresh, RamFrames
  <2> QED BY <2>1, <1>8
<1>10. RamClean(n)
  <2>1. ASSUME NEW f \in RamFrames, f >= n.next
        PROVE  n.tag[f] = "Free"
    <3>1. f >= m.next /\ f \notin G \ F
      BY <2>1, <1>2, <1>4 DEF RamFrames
    <3> QED BY <3>1, <1>1, <1>2 DEF RamClean
  <2> QED BY <2>1 DEF RamClean
<1>11. TreeStep(m, c, v.tree, n, d, w.tree)
  <2>1. FramesOf(c, v.tree) = F /\ FramesOf(d, w.tree) = G
    BY <1>1, <1>2, <1>5 DEF FramesOf
  <2>2. \A f \in G \ F : f \in RamFrames
    <3>1. \A f \in G \ F : f \in m.next..(n.next - 1)
      BY <1>2
    <3> QED BY <3>1, <1>4 DEF RamFrames
  <2>3. \A f \in G \ F : f \in Fresh(m, n) /\ n.tag[f] = "PageTable"
    BY <2>2, <1>2 DEF Fresh
  <2> QED BY <2>1, <2>3, <1>1, <1>2 DEF TreeStep
<1>12. Cloned(c, r) => Cloned(d, r)
  <2>1. Mid(d, r) = Mid(c, r)
    BY <1>2 DEF Mid, Down
  <2> QED BY <2>1, <1>2 DEF Cloned
<1> QED BY <1>1, <1>2, <1>5, <1>7, <1>9, <1>10, <1>11, <1>12

\* A VMO that is left alone while frames are handed out for something else.
LEMMA VmoRests ==
  ASSUME NEW m, NEW n, RamSound(m), RamSound(n), NEW ho, FrameStep(m, ho, n, ho),
         \A f \in Fresh(m, n) : n.tag[f] \notin {"VmoData", "VmarMeta"},
         NEW ce, NEW v, VmoOK(m, ce, ho, v)
  PROVE  OwnStep(m, v, n, v) /\ CellStep(m, ce, v, n, ce, ho) /\ VmoOK(n, ce, ho, v)
<1>1. CellStep(m, ce, v, n, ce, ho)
  BY DEF CellStep, VmoOK
<1>2. VmoOK(n, ce, ho, v)
  BY <1>1, StepIsFirm, VmoChanged
<1>3. Sole(m, v) => Sole(n, v)
  BY DEF Sole, VmoOK, FrameStep
<1>4. OwnStep(m, v, n, v)
  BY <1>3 DEF OwnStep
<1> QED BY <1>1, <1>2, <1>4

\* The fields of a call that has walked its tree.
LEMMA WalkedIs ==
  ASSUME NEW w, DOMAIN w = CallFields, NEW u, NEW x, x = Walked(w, u)
  PROVE  /\ DOMAIN x = CallFields /\ x.ok = u.ok /\ x.ram = u.ram /\ x.mem = u.mem
         /\ x.tree = u.tree /\ x.resv = w.resv /\ x.v = w.v /\ x.cells = w.cells
         /\ x.home = w.home /\ x.ids = w.ids
<1>1. DOMAIN x = CallFields /\ x.ok = u.ok /\ x.ram = u.ram /\ x.mem = u.mem /\ x.tree = u.tree
  BY DEF Walked, CallFields
<1>2. x.resv = w.resv /\ x.v = w.v /\ x.cells = w.cells /\ x.home = w.home /\ x.ids = w.ids
  BY DEF Walked, CallFields
<1> QED BY <1>1, <1>2

\* The walk of a call in its tree.
LEMMA CallWalks ==
  ASSUME NEW w, CallOK(w), w.tree.root # 0, NEW v, v = Walk(w.ram, w.mem, w.tree)
  PROVE  /\ GoodWalk(v) /\ v.ok = TRUE /\ v.at = v.tree.root
         /\ v.ram = w.ram /\ v.mem = w.mem /\ v.tree = w.tree
<1>1. /\ RamSound(w.ram) /\ w.mem \in Descriptors /\ w.tree \in Spaces
      /\ TreeOK(w.mem, w.ram.next, w.tree.root) /\ Tracks(w.tree.tracked, TreeFrames(w.mem, w.tree.root))
  BY DEF CallOK, Going, TreeBacked
<1>2. v.ram = w.ram /\ v.mem = w.mem /\ v.tree = w.tree /\ v.at = w.tree.root /\ v.ok = TRUE
  BY DEF Walk
<1>3. v \in Walks
  BY <1>1, <1>2 DEF Walk, Walks, Spaces, RamSound
<1> QED BY <1>1, <1>2, <1>3 DEF GoodWalk

\* Page i of the VMO is what a reservation says of va.
MayShow(w, i, va) ==
  /\ i \in DOMAIN w.v.own /\ w.v.own[i] # 0 /\ va \in UserVas
  /\ \E k \in DOMAIN w.resv : /\ va \in w.resv[k].va..(w.resv[k].va + w.resv[k].n - 1)
                              /\ w.resv[k].id = w.v.id /\ i = w.resv[k].off + va - w.resv[k].va

\* Without a tree a walk fails at once.
LEMMA NoWalk ==
  ASSUME NEW v, v.ok = FALSE, NEW va, NEW pa, NEW attr
  PROVE  map_va(v, va, pa, attr) = v
<1>1. Descend(v, va, 0) = v /\ Descend(v, va, 1) = v /\ Descend(v, va, 2) = v
  BY DEF Descend
<1>2. WritePage(v, Index(va, 3), pa, attr) = v
  BY DEF WritePage
<1> QED BY <1>1, <1>2 DEF map_va

\* The pages of a tree after a walk that maps a reserved page.
LEMMA MappedBacked ==
  ASSUME NEW m, NEW n, RamSound(m), RamSound(n), NEW ho, Firm(m, ho, n, ho), NEW c, NEW d, NEW r, NEW resv,
         Backed(m, c, ho, resv, r), NEW va \in UserVas, NEW pa, NEW attr,
         OnePage(c, d, r, Index(va, 2), Index(va, 3), Page(pa, attr)),
         Reserved(m, ho, resv, va, pa)
  PROVE  Backed(n, d, ho, resv, r)
<1>1. ResvKept(resv, resv)
  BY DEF ResvKept
<1>2. PICK a, b : a = Index(va, 2) /\ b = Index(va, 3)
  OBVIOUS
<1>3. ASSUME NEW i \in Idx, NEW j \in Idx, NEW e, e = PageAt(d, r, i, j)
      PROVE  PageBacked(n, ho, resv, i, j, e)
  <2>1. CASE i = a /\ j = b
    <3>1. e = Page(pa, attr)
      BY <2>1, <1>2, <1>3 DEF OnePage
    <3>2. e.pa = pa
      BY <3>1 DEF Page
    <3>3. PageBacked(m, ho, resv, i, j, e)
      BY <2>1, <1>2, <3>2 DEF PageBacked
    <3> QED BY <3>3, <1>1, PageBackedKept
  <2>2. CASE ~(i = a /\ j = b)
    <3>1. e = PageAt(c, r, i, j)
      BY <2>2, <1>2, <1>3 DEF OnePage
    <3>2. PageBacked(m, ho, resv, i, j, e)
      BY <3>1 DEF Backed
    <3> QED BY <3>2, <1>1, PageBackedKept
  <2> QED BY <2>1, <2>2
<1> QED BY <1>3 DEF Backed

\* The page that a call maps is what a reservation says.
LEMMA ShownReserved ==
  ASSUME NEW w, CallOK(w), HasVmo(w), NEW i, NEW va, MayShow(w, i, va),
         NEW pa, pa = page_slot(w.cells, w.v, i)
  PROVE  pa \in Nat /\ va \in UserVas /\ Reserved(w.ram, w.home, w.resv, va, pa)
<1>1. /\ i \in DOMAIN w.v.own /\ w.v.own[i] # 0 /\ va \in UserVas
  BY DEF MayShow
<1>2. PICK k \in DOMAIN w.resv : /\ va \in w.resv[k].va..(w.resv[k].va + w.resv[k].n - 1)
                                 /\ w.resv[k].id = w.v.id /\ i = w.resv[k].off + va - w.resv[k].va
  BY DEF MayShow
<1>3. pa = w.cells[w.v.meta][i]
  BY DEF page_slot
<1>4. Homed(w.ram, w.home, pa, w.v.id, i)
  BY <1>1, <1>3 DEF HasVmo, VmoOK
<1>5. i \in 0..(w.v.size - 1) /\ w.cells[w.v.meta] \in [0..(w.v.size - 1) -> Nat]
  BY <1>1 DEF HasVmo, VmoOK, IsVmoValue
<1> QED BY <1>1, <1>2, <1>3, <1>4, <1>5 DEF Reserved

\* map_va for a page of the VMO, in a call that has a tree.
LEMMA MapInTree ==
  ASSUME NEW w, CallOK(w), HasVmo(w), w.tree.root # 0, NEW va \in UserVas, NEW pa \in Nat, NEW attr \in Attrs,
         Reserved(w.ram, w.home, w.resv, va, pa),
         NEW u, u = map_va(Walk(w.ram, w.mem, w.tree), va, pa, attr), NEW x, x = Walked(w, u)
  PROVE  Onward(w, x)
<1>1. PICK v : v = Walk(w.ram, w.mem, w.tree)
  OBVIOUS
<1>2. /\ GoodWalk(v) /\ v.ok = TRUE /\ v.at = v.tree.root
      /\ v.ram = w.ram /\ v.mem = w.mem /\ v.tree = w.tree
  BY <1>1, CallWalks
<1>3. /\ GoodWalk(u) /\ Grown(v, u) /\ u.ok \in BOOLEAN
      /\ u.ok => OnePage(v.mem, u.mem, v.tree.root, Index(va, 2), Index(va, 3), Page(pa, attr))
      /\ ~u.ok => SamePages(v.mem, u.mem, v.tree.root)
  <2>1. u = map_va(v, va, pa, attr)
    BY <1>1
  <2> QED BY <2>1, <1>2, MapSound
<1>4. PICK m, n, c, d, r, ho, ce, y, resv :
        /\ m = w.ram /\ n = u.ram /\ c = w.mem /\ d = u.mem /\ r = w.tree.root /\ ho = w.home
        /\ ce = w.cells /\ y = w.v /\ resv = w.resv
  OBVIOUS
<1>5. /\ Going(w) /\ VmoOK(m, ce, ho, y) /\ RamSound(m) /\ RamClean(m) /\ FirstFrame + 3 <= m.next
      /\ w.tree \in Spaces /\ Cloned(c, r) /\ Backed(m, c, ho, resv, r)
  BY <1>4 DEF CallOK, HasVmo, Going, TreeBacked
<1>6. /\ RamSound(n) /\ d \in Descriptors /\ u.tree \in Spaces /\ u.tree.root = r
      /\ TreeOK(d, n.next, r) /\ Tracks(u.tree.tracked, TreeFrames(d, r))
  <2>1. u.tree.root = r
    BY <1>2, <1>3, <1>4 DEF Grown
  <2> QED BY <2>1, <1>3, <1>4 DEF GoodWalk, Walks
<1>7. /\ FrameStep(m, ho, n, ho) /\ RamClean(n)
      /\ TreeStep(m, c, w.tree, n, d, u.tree)
      /\ \A f \in Fresh(m, n) : n.tag[f] \in {"Free", "PageTable"}
      /\ Cloned(d, r)
  <2>1. RamClean(v.ram)
    BY <1>2, <1>4, <1>5
  <2>2. /\ FrameStep(v.ram, ho, u.ram, ho) /\ RamClean(u.ram)
        /\ TreeStep(v.ram, v.mem, v.tree, u.ram, u.mem, u.tree)
        /\ \A f \in Fresh(v.ram, u.ram) : u.ram.tag[f] \in {"Free", "PageTable"}
        /\ Cloned(v.mem, v.tree.root) => Cloned(u.mem, u.tree.root)
    BY <2>1, <1>2, <1>3, GrownIsStep
  <2> QED BY <2>2, <1>2, <1>4, <1>5, <1>6
<1>8. Firm(m, ho, n, ho) /\ ResvKept(resv, resv)
  BY <1>7, StepIsFirm DEF ResvKept
<1>9. Backed(n, d, ho, resv, r)
  <2>1. CASE u.ok
    <3>1. OnePage(c, d, r, Index(va, 2), Index(va, 3), Page(pa, attr))
      BY <2>1, <1>2, <1>3, <1>4
    <3>2. Reserved(m, ho, resv, va, pa)
      BY <1>4
    <3> QED BY <3>1, <3>2, <1>5, <1>6, <1>8, MappedBacked
  <2>2. CASE ~u.ok
    <3>1. SamePages(c, d, r)
      BY <2>2, <1>2, <1>3, <1>4
    <3> QED BY <3>1, <1>5, <1>6, <1>8, BackedKept
  <2> QED BY <2>1, <2>2
<1>10. OwnStep(m, y, n, y) /\ CellStep(m, ce, y, n, ce, ho) /\ VmoOK(n, ce, ho, y)
  <2>1. \A f \in Fresh(m, n) : n.tag[f] \notin {"VmoData", "VmarMeta"}
    BY <1>7
  <2> QED BY <2>1, <1>5, <1>6, <1>7, VmoRests
<1>11. /\ DOMAIN x = CallFields /\ x.ok = u.ok /\ x.ram = n /\ x.mem = d
       /\ x.tree = u.tree /\ x.resv = resv /\ x.v = y /\ x.cells = ce
       /\ x.home = ho /\ x.ids = w.ids
  <2>1. DOMAIN w = CallFields
    BY <1>5 DEF Going
  <2>2. /\ DOMAIN x = CallFields /\ x.ok = u.ok /\ x.ram = u.ram /\ x.mem = u.mem
        /\ x.tree = u.tree /\ x.resv = w.resv /\ x.v = w.v /\ x.cells = w.cells
        /\ x.home = w.home /\ x.ids = w.ids
    BY <2>1, WalkedIs
  <2> QED BY <2>2, <1>4
<1>12. Going(x)
  <2>1. FirstFrame + 3 <= n.next
    <3>1. m.next \in Nat /\ n.next \in Nat /\ FirstFrame \in Nat /\ m.next <= n.next
      BY <1>5, <1>6, <1>7, GivenFacts DEF FrameStep
    <3> QED BY <3>1, <1>5
  <2>2. w.ids \in Nat /\ resv \in Seq(Reservations) /\ Len(resv) <= MaxMappings
        /\ DOMAIN ce = RamFrames /\ DOMAIN ho = RamFrames
    BY <1>4, <1>5 DEF Going
  <2> QED BY <2>1, <2>2, <1>3, <1>6, <1>7, <1>11 DEF Going
<1>13. CallOK(x)
  <2>1. TreeBacked(n, d, ho, u.tree, resv)
    BY <1>4, <1>6, <1>7, <1>9 DEF TreeBacked
  <2> QED BY <2>1, <1>11, <1>12 DEF CallOK
<1>14. HasVmo(x)
  BY <1>10, <1>11 DEF HasVmo
<1>15. CallStep(w, x)
  BY <1>4, <1>7, <1>10, <1>11 DEF CallStep, FramesMoved, TreeMoved, VmoStep
<1> QED BY <1>4, <1>11, <1>13, <1>14, <1>15 DEF Onward

\* A page of the VMO that was committed is mapped.
LEMMA MapCommittedSound ==
  ASSUME NEW w, CallOK(w), HasVmo(w), NEW i, NEW va, w.ok => MayShow(w, i, va), NEW attr \in Attrs,
         NEW x, x = MapCommitted(w, i, va, attr)
  PROVE  Onward(w, x) /\ (x.ok => w.ok)
<1>1. CASE ~w.ok
  <2>1. x = w
    BY <1>1 DEF MapCommitted
  <2> QED BY <2>1, OnwardSame
<1>2. CASE w.ok
  <2>1. PICK pa : pa = page_slot(w.cells, w.v, i)
    OBVIOUS
  <2>2. PICK u : u = map_va(Walk(w.ram, w.mem, w.tree), va, pa, attr)
    OBVIOUS
  <2>3. x = Walked(w, u)
    BY <1>2, <2>1, <2>2 DEF MapCommitted
  <2>4. CASE w.tree.root = 0
    <3>1. u.ram = w.ram /\ u.mem = w.mem /\ u.tree = w.tree /\ u.ok = FALSE
      <4>1. PICK v : v = Walk(w.ram, w.mem, w.tree)
        OBVIOUS
      <4>2. v.ram = w.ram /\ v.mem = w.mem /\ v.tree = w.tree /\ v.ok = FALSE
        BY <4>1, <2>4 DEF Walk
      <4>3. u = v
        BY <4>1, <4>2, <2>2, NoWalk
      <4> QED BY <4>2, <4>3
    <3>2. /\ DOMAIN x = CallFields /\ x.ok = FALSE /\ x.ram = w.ram /\ x.mem = w.mem
          /\ x.tree = w.tree /\ x.resv = w.resv /\ x.v = w.v /\ x.cells = w.cells
          /\ x.home = w.home /\ x.ids = w.ids
      <4>1. DOMAIN w = CallFields
        BY DEF CallOK, Going
      <4> QED BY <4>1, <2>3, <3>1, WalkedIs
    <3>3. CallOK(x) /\ HasVmo(x)
      <4>1. Going(x)
        BY <3>2 DEF CallOK, Going
      <4>2. HasVmo(x)
        BY <3>2 DEF HasVmo
      <4> QED BY <3>2, <4>1, <4>2 DEF CallOK
    <3>4. CallStep(w, x)
      BY <3>2, CallRests
    <3> QED BY <3>2, <3>3, <3>4 DEF Onward
  <2>5. CASE w.tree.root # 0
    <3>1. pa \in Nat /\ va \in UserVas /\ Reserved(w.ram, w.home, w.resv, va, pa)
      BY <1>2, <2>1, ShownReserved
    <3>2. Onward(w, x)
      BY <2>2, <2>3, <2>5, <3>1, MapInTree
    <3> QED BY <3>2, <1>2
  <2> QED BY <2>4, <2>5
<1> QED BY <1>1, <1>2

\* The reservation that the call works on is there, and fits the region.
Noted(x, off, n, va) ==
  /\ va + n <= UserPages
  /\ \E k \in DOMAIN x.resv : x.resv[k] = [id |-> x.v.id, off |-> off, n |-> n, va |-> va]

\* The fields of a call with a new reservation.
LEMMA ReserveIs ==
  ASSUME NEW w, DOMAIN w = CallFields, NEW r, NEW x, x = [w EXCEPT !.resv = Append(@, r)]
  PROVE  /\ DOMAIN x = CallFields /\ x.ok = w.ok /\ x.ram = w.ram /\ x.mem = w.mem
         /\ x.tree = w.tree /\ x.resv = Append(w.resv, r) /\ x.v = w.v /\ x.cells = w.cells
         /\ x.home = w.home /\ x.ids = w.ids
  BY DEF CallFields

\* reserve_mapping: the reservation is added at the end.
LEMMA ReserveSound ==
  ASSUME NEW w, CallOK(w), HasVmo(w), NEW off \in Nat, NEW n \in Nat, NEW va \in Nat,
         NEW x, x = reserve_mapping(w, off, n, va)
  PROVE  /\ CallOK(x) /\ HasVmo(x) /\ CallStep(w, x)
         /\ x.ok => Noted(x, off, n, va)
<1>1. CASE ~w.ok \/ n = 0 \/ va + n > UserPages \/ Len(w.resv) >= MaxMappings
  <2>1. x = Fail(w)
    BY <1>1 DEF reserve_mapping
  <2> QED BY <2>1, OnwardFail DEF Onward
<1>2. CASE ~(~w.ok \/ n = 0 \/ va + n > UserPages \/ Len(w.resv) >= MaxMappings)
  <2>1. PICK r : r = [id |-> w.v.id, off |-> off, n |-> n, va |-> va]
    OBVIOUS
  <2>2. x = [w EXCEPT !.resv = Append(@, r)]
    BY <1>2, <2>1, Zenon DEF reserve_mapping
  <2>3. /\ DOMAIN x = CallFields /\ x.ok = w.ok /\ x.ram = w.ram /\ x.mem = w.mem
        /\ x.tree = w.tree /\ x.resv = Append(w.resv, r) /\ x.v = w.v /\ x.cells = w.cells
        /\ x.home = w.home /\ x.ids = w.ids
    <3>1. DOMAIN w = CallFields
      BY DEF CallOK, Going
    <3> QED BY <2>2, <3>1, ReserveIs
  <2>4. /\ w.resv \in Seq(Reservations) /\ r \in Reservations /\ Len(w.resv) \in Nat
        /\ UserPages \in Nat /\ MaxMappings \in Nat
    <3>1. w.v.id \in Int
      BY DEF HasVmo, VmoOK, IsVmoValue
    <3>2. r \in Reservations
      BY <2>1, <3>1 DEF Reservations
    <3>3. w.resv \in Seq(Reservations)
      BY DEF CallOK, Going
    <3>4. Len(w.resv) \in Nat
      BY <3>3
    <3>5. UserPages \in Nat
      BY SpaceAssumption
    <3>6. MaxMappings \in Nat
      BY MemoryAssumption
    <3> QED BY <3>2, <3>3, <3>4, <3>5, <3>6
  <2>5. /\ x.resv \in Seq(Reservations) /\ Len(x.resv) = Len(w.resv) + 1 /\ x.resv[Len(x.resv)] = r
        /\ Len(x.resv) \in DOMAIN x.resv /\ ResvKept(w.resv, x.resv)
    BY <2>3, <2>4 DEF ResvKept
  <2>6. Len(x.resv) <= MaxMappings
    BY <2>4, <2>5, <1>2
  <2>7. HasVmo(x) /\ CallStep(w, x)
    <3>1. HasVmo(x)
      BY <2>3 DEF HasVmo
    <3> QED BY <3>1, <2>3, CallRests
  <2>8. Going(x)
    BY <2>3, <2>5, <2>6 DEF CallOK, Going
  <2>9. TreeBacked(x.ram, x.mem, x.home, x.tree, x.resv)
    <3>1. PICK m, ho, c, t, a, b : /\ m = w.ram /\ ho = w.home /\ c = w.mem /\ t = w.tree
                                   /\ a = w.resv /\ b = x.resv
      OBVIOUS
    <3>2. /\ RamSound(m) /\ Firm(m, ho, m, ho) /\ ResvKept(a, b) /\ TreeBacked(m, c, ho, t, a)
      <4>1. m.next \in Nat /\ RamSound(m)
        BY <3>1, GivenFacts DEF CallOK, Going
      <4>2. Firm(m, ho, m, ho)
        BY <4>1 DEF Firm
      <4> QED BY <4>1, <4>2, <3>1, <2>5 DEF CallOK
    <3>3. TreeBacked(m, c, ho, t, b)
      BY <3>2, TreeBackedKept
    <3> QED BY <3>1, <3>3, <2>3
  <2>10. Noted(x, off, n, va)
    <3>1. va + n <= UserPages
      BY <2>4, <1>2
    <3> QED BY <3>1, <2>1, <2>3, <2>5 DEF Noted
  <2> QED BY <2>7, <2>8, <2>9, <2>10 DEF CallOK
<1> QED BY <1>1, <1>2

\* One round of the loop: the page is committed and mapped where the
\* reservation says.
LEMMA MapPageSound ==
  ASSUME NEW w, CallOK(w), HasVmo(w), NEW off \in Nat, NEW n \in Nat, NEW va \in Nat,
         w.ok => Noted(w, off, n, va), NEW k \in 1..n, NEW attr \in Attrs,
         NEW x, x = MapPage(w, off + k - 1, va + k - 1, attr)
  PROVE  Onward(w, x) /\ (x.ok => Noted(x, off, n, va))
<1>1. PICK i, p, y : i = off + k - 1 /\ p = va + k - 1 /\ y = commit_page(w, i)
  OBVIOUS
<1>2. i \in Nat /\ p \in Nat /\ p \in va..(va + n - 1) /\ i = off + p - va /\ UserPages \in Nat
  BY <1>1, SpaceAssumption, SMTT(30)
<1>3. Onward(w, y) /\ (y.ok => w.ok /\ i \in DOMAIN y.v.own /\ y.v.own[i] # 0)
  BY <1>1, <1>2, CommitSound
<1>4. x = MapCommitted(y, i, p, attr)
  BY <1>1 DEF MapPage
<1>5. CallOK(y) /\ HasVmo(y) /\ y.resv = w.resv /\ y.v.id = w.v.id
  BY <1>3 DEF Onward, CallStep, VmoStep, OwnStep
<1>6. ASSUME y.ok
      PROVE  MayShow(y, i, p)
  <2>1. Noted(w, off, n, va)
    BY <1>3, <1>6
  <2>2. PICK j \in DOMAIN y.resv : y.resv[j] = [id |-> y.v.id, off |-> off, n |-> n, va |-> va]
    BY <1>5, <2>1 DEF Noted
  <2>3. y.resv[j].id = y.v.id /\ y.resv[j].off = off /\ y.resv[j].n = n /\ y.resv[j].va = va
    BY <2>2
  <2>4. p \in UserVas
    BY <1>2, <2>1 DEF Noted, UserVas
  <2> QED BY <1>2, <1>3, <1>6, <2>3, <2>4 DEF MayShow
<1>7. Onward(y, x) /\ (x.ok => y.ok)
  BY <1>4, <1>5, <1>6, MapCommittedSound
<1>8. Onward(w, x)
  BY <1>3, <1>7, OnwardTrans
<1>9. x.resv = w.resv /\ x.v.id = w.v.id
  BY <1>8 DEF Onward, CallStep, VmoStep, OwnStep
<1>10. x.ok => Noted(x, off, n, va)
  BY <1>3, <1>7, <1>9 DEF Noted
<1> QED BY <1>8, <1>10

\* The rounds of the loop of sys_vmar_map, from the call a.
MapRun(f, m, a, off, va, attr) == f = [k \in 0..m |-> IF k = 0 THEN a ELSE MapPage(f[k - 1], off + k - 1, va + k - 1, attr)]

\* There are such rounds.
LEMMA MapRoundsExist ==
  ASSUME NEW n \in Nat, NEW a, NEW off, NEW va, NEW attr
  PROVE  \E f : MapRun(f, n, a, off, va, attr)
<1> DEFINE S == {m \in 0..n : \E f : MapRun(f, m, a, off, va, attr)}
<1>1. 0 \in S
  <2> DEFINE g == [k \in 0..0 |-> a]
  <2>1. g[0] = a /\ \A k \in 0..0 : k = 0
    OBVIOUS
  <2>2. MapRun(g, 0, a, off, va, attr)
    BY <2>1 DEF MapRun
  <2> QED BY <2>2
<1>2. ASSUME NEW k \in 1..n, k - 1 \in S
      PROVE  k \in S
  <2>1. PICK f : MapRun(f, k - 1, a, off, va, attr)
    BY <1>2
  <2>2. PICK last : last = MapPage(f[k - 1], off + k - 1, va + k - 1, attr)
    OBVIOUS
  <2> DEFINE g == [j \in 0..k |-> IF j = k THEN last ELSE f[j]]
  <2>3. \A j \in 0..(k - 1) : f[j] = IF j = 0 THEN a ELSE MapPage(f[j - 1], off + j - 1, va + j - 1, attr)
    BY <2>1 DEF MapRun
  <2>4. ASSUME NEW j \in 0..k
        PROVE  g[j] = IF j = 0 THEN a ELSE MapPage(g[j - 1], off + j - 1, va + j - 1, attr)
    <3>1. CASE j = 0
      <4>1. g[j] = f[0] /\ 0 \in 0..(k - 1)
        BY <3>1
      <4> QED BY <4>1, <3>1, <2>3
    <3>2. CASE j # 0 /\ j # k
      <4>1. g[j] = f[j] /\ g[j - 1] = f[j - 1] /\ j \in 0..(k - 1)
        BY <3>2
      <4> HIDE DEF g
      <4> QED BY <4>1, <3>2, <2>3
    <3>3. CASE j = k
      <4>1. g[j] = last /\ g[j - 1] = f[j - 1] /\ j # 0
        BY <3>3
      <4> HIDE DEF g
      <4> QED BY <4>1, <3>3, <2>2
    <3> QED BY <3>1, <3>2, <3>3
  <2>5. g = [j \in 0..k |-> g[j]]
    OBVIOUS
  <2>6. MapRun(g, k, a, off, va, attr)
    <3> HIDE DEF g
    <3> QED BY <2>4, <2>5, Zenon DEF MapRun
  <2> QED BY <2>6
<1>3. \A m \in 0..n : m \in S
  <2> HIDE DEF S
  <2> QED BY <1>1, <1>2, UpTo
<1> QED BY <1>3

\* The rounds of commit_all, from the call a.
CommitRun(f, m, a) == f = [k \in 0..m |-> IF k = 0 THEN a ELSE commit_page(f[k - 1], k - 1)]

\* There are such rounds.
LEMMA CommitRoundsExist ==
  ASSUME NEW n \in Nat, NEW a
  PROVE  \E f : CommitRun(f, n, a)
<1> DEFINE S == {m \in 0..n : \E f : CommitRun(f, m, a)}
<1>1. 0 \in S
  <2> DEFINE g == [k \in 0..0 |-> a]
  <2>1. g[0] = a /\ \A k \in 0..0 : k = 0
    OBVIOUS
  <2>2. CommitRun(g, 0, a)
    BY <2>1 DEF CommitRun
  <2> QED BY <2>2
<1>2. ASSUME NEW k \in 1..n, k - 1 \in S
      PROVE  k \in S
  <2>1. PICK f : CommitRun(f, k - 1, a)
    BY <1>2
  <2>2. PICK last : last = commit_page(f[k - 1], k - 1)
    OBVIOUS
  <2> DEFINE g == [j \in 0..k |-> IF j = k THEN last ELSE f[j]]
  <2>3. \A j \in 0..(k - 1) : f[j] = IF j = 0 THEN a ELSE commit_page(f[j - 1], j - 1)
    BY <2>1 DEF CommitRun
  <2>4. ASSUME NEW j \in 0..k
        PROVE  g[j] = IF j = 0 THEN a ELSE commit_page(g[j - 1], j - 1)
    <3>1. CASE j = 0
      <4>1. g[j] = f[0] /\ 0 \in 0..(k - 1)
        BY <3>1
      <4> QED BY <4>1, <3>1, <2>3
    <3>2. CASE j # 0 /\ j # k
      <4>1. g[j] = f[j] /\ g[j - 1] = f[j - 1] /\ j \in 0..(k - 1)
        BY <3>2
      <4> HIDE DEF g
      <4> QED BY <4>1, <3>2, <2>3
    <3>3. CASE j = k
      <4>1. g[j] = last /\ g[j - 1] = f[j - 1] /\ j # 0
        BY <3>3
      <4> HIDE DEF g
      <4> QED BY <4>1, <3>3, <2>2
    <3> QED BY <3>1, <3>2, <3>3
  <2>5. g = [j \in 0..k |-> g[j]]
    OBVIOUS
  <2>6. CommitRun(g, k, a)
    <3> HIDE DEF g
    <3> QED BY <2>4, <2>5, Zenon DEF CommitRun
  <2> QED BY <2>6
<1>3. \A m \in 0..n : m \in S
  <2> HIDE DEF S
  <2> QED BY <1>1, <1>2, UpTo
<1> QED BY <1>3

\* The loop of sys_vmar_map, wherever it ends.
LEMMA MapVmoSound ==
  ASSUME NEW w, CallOK(w), HasVmo(w), NEW off \in Nat, NEW n \in Nat, NEW va \in Nat, NEW attr \in Attrs,
         NEW x, x = MapVmo(w, off, n, va, attr)
  PROVE  CallOK(x) /\ HasVmo(x) /\ CallStep(w, x)
<1>1. PICK a : a = reserve_mapping(w, off, n, va)
  OBVIOUS
<1>2. CallOK(a) /\ HasVmo(a) /\ CallStep(w, a) /\ (a.ok => Noted(a, off, n, va))
  BY <1>1, ReserveSound
<1> DEFINE def(f) == [k \in 0..n |-> IF k = 0 THEN a ELSE MapPage(f[k - 1], off + k - 1, va + k - 1, attr)]
<1>3. PICK g : g = CHOOSE h : h = def(h)
  OBVIOUS
<1>4. g = def(g)
  <2>1. PICK f : MapRun(f, n, a, off, va, attr)
    BY MapRoundsExist
  <2>2. f = def(f)
    BY <2>1 DEF MapRun
  <2> QED BY <2>2, <1>3
<1>5. x = g[n]
  BY <1>1, <1>3 DEF MapVmo
<1>6. \A k \in 0..n : g[k] = IF k = 0 THEN a ELSE MapPage(g[k - 1], off + k - 1, va + k - 1, attr)
  BY <1>4
<1> DEFINE S == {k \in 0..n : Onward(a, g[k]) /\ (g[k].ok => Noted(g[k], off, n, va))}
<1>7. 0 \in S
  <2>1. g[0] = a
    BY <1>6
  <2>2. Onward(a, a)
    BY <1>2, OnwardSame
  <2> QED BY <2>1, <2>2, <1>2
<1>8. ASSUME NEW k \in 1..n, k - 1 \in S
      PROVE  k \in S
  <2>1. PICK y, z : y = g[k - 1] /\ z = g[k]
    OBVIOUS
  <2>2. Onward(a, y) /\ (y.ok => Noted(y, off, n, va))
    BY <1>8, <2>1
  <2>3. z = MapPage(y, off + k - 1, va + k - 1, attr) /\ k \in 0..n
    <3>1. k \in 0..n /\ k # 0
      OBVIOUS
    <3> QED BY <1>6, <2>1, <3>1
  <2>4. CallOK(y) /\ HasVmo(y)
    BY <2>2 DEF Onward
  <2>5. Onward(y, z) /\ (z.ok => Noted(z, off, n, va))
    BY <2>2, <2>3, <2>4, MapPageSound
  <2>6. Onward(a, z)
    BY <1>2, <2>2, <2>5, OnwardTrans
  <2> QED BY <2>1, <2>3, <2>5, <2>6
<1>9. \A k \in 0..n : k \in S
  <2> HIDE DEF S
  <2> QED BY <1>7, <1>8, UpTo
<1>10. Onward(a, x)
  BY <1>5, <1>9
<1>11. CallStep(w, x)
  BY <1>2, <1>10, CallTrans DEF Onward
<1> QED BY <1>10, <1>11 DEF Onward

\* commit_all, wherever it ends.
LEMMA CommitAllSound ==
  ASSUME NEW w, CallOK(w), HasVmo(w), NEW x, x = commit_all(w)
  PROVE  Onward(w, x)
<1>1. CASE ~w.ok
  <2>1. x = w
    BY <1>1 DEF commit_all
  <2> QED BY <2>1, OnwardSame
<1>2. CASE w.ok
  <2> DEFINE def(f) == [k \in 0..w.v.size |-> IF k = 0 THEN w ELSE commit_page(f[k - 1], k - 1)]
  <2>1. PICK n, g : n = w.v.size /\ g = CHOOSE h : h = def(h)
    OBVIOUS
  <2>2. n \in Nat
    BY <2>1 DEF HasVmo, VmoOK, IsVmoValue
  <2>3. g = def(g)
    <3>1. PICK f : CommitRun(f, n, w)
      BY <2>2, CommitRoundsExist
    <3>2. f = def(f)
      BY <2>1, <3>1 DEF CommitRun
    <3> QED BY <3>2, <2>1
  <2>4. x = g[n]
    BY <1>2, <2>1 DEF commit_all
  <2>5. \A k \in 0..n : g[k] = IF k = 0 THEN w ELSE commit_page(g[k - 1], k - 1)
    BY <2>1, <2>3
  <2> DEFINE S == {k \in 0..n : Onward(w, g[k])}
  <2>6. 0 \in S
    <3>1. g[0] = w /\ 0 \in 0..n
      BY <2>2, <2>5
    <3>2. Onward(w, w)
      BY OnwardSame
    <3> QED BY <3>1, <3>2
  <2>7. ASSUME NEW k \in 1..n, k - 1 \in S
        PROVE  k \in S
    <3>1. PICK y, z, i : y = g[k - 1] /\ z = g[k] /\ i = k - 1
      OBVIOUS
    <3>2. Onward(w, y)
      BY <2>7, <3>1
    <3>3. z = commit_page(y, i) /\ k \in 0..n /\ i \in Nat
      <4>1. k \in 0..n /\ k # 0 /\ k - 1 \in Nat
        BY <2>2
      <4> QED BY <2>5, <3>1, <4>1
    <3>4. Onward(y, z)
      BY <3>2, <3>3, CommitSound DEF Onward
    <3>5. Onward(w, z)
      BY <3>2, <3>4, OnwardTrans
    <3> QED BY <3>1, <3>3, <3>5
  <2>8. \A k \in 0..n : k \in S
    <3> HIDE DEF S
    <3> QED BY <2>2, <2>6, <2>7, UpTo
  <2> QED BY <2>2, <2>4, <2>8
<1> QED BY <1>1, <1>2

-----------------------------------------------------------------------------
(* The drop of a VMO. *)

\* The drops of committed_pages, from the allocator a.
DropRun(f, m, a, own) == f = [k \in 0..m |-> IF k = 0 THEN a ELSE DropPage(f[k - 1], own[k - 1])]

\* There are such rounds.
LEMMA DropRoundsExist ==
  ASSUME NEW n \in Nat, NEW a, NEW own
  PROVE  \E f : DropRun(f, n, a, own)
<1> DEFINE S == {m \in 0..n : \E f : DropRun(f, m, a, own)}
<1>1. 0 \in S
  <2> DEFINE g == [k \in 0..0 |-> a]
  <2>1. g[0] = a /\ \A k \in 0..0 : k = 0
    OBVIOUS
  <2>2. DropRun(g, 0, a, own)
    BY <2>1 DEF DropRun
  <2> QED BY <2>2
<1>2. ASSUME NEW k \in 1..n, k - 1 \in S
      PROVE  k \in S
  <2>1. PICK f : DropRun(f, k - 1, a, own)
    BY <1>2
  <2>2. PICK last : last = DropPage(f[k - 1], own[k - 1])
    OBVIOUS
  <2> DEFINE g == [j \in 0..k |-> IF j = k THEN last ELSE f[j]]
  <2>3. \A j \in 0..(k - 1) : f[j] = IF j = 0 THEN a ELSE DropPage(f[j - 1], own[j - 1])
    BY <2>1 DEF DropRun
  <2>4. ASSUME NEW j \in 0..k
        PROVE  g[j] = IF j = 0 THEN a ELSE DropPage(g[j - 1], own[j - 1])
    <3>1. CASE j = 0
      <4>1. g[j] = f[0] /\ 0 \in 0..(k - 1)
        BY <3>1
      <4> QED BY <4>1, <3>1, <2>3
    <3>2. CASE j # 0 /\ j # k
      <4>1. g[j] = f[j] /\ g[j - 1] = f[j - 1] /\ j \in 0..(k - 1)
        BY <3>2
      <4> HIDE DEF g
      <4> QED BY <4>1, <3>2, <2>3
    <3>3. CASE j = k
      <4>1. g[j] = last /\ g[j - 1] = f[j - 1] /\ j # 0
        BY <3>3
      <4> HIDE DEF g
      <4> QED BY <4>1, <3>3, <2>2
    <3> QED BY <3>1, <3>2, <3>3
  <2>5. g = [j \in 0..k |-> g[j]]
    OBVIOUS
  <2>6. DropRun(g, k, a, own)
    <3> HIDE DEF g
    <3> QED BY <2>4, <2>5, Zenon DEF DropRun
  <2> QED BY <2>6
<1>3. \A m \in 0..n : m \in S
  <2> HIDE DEF S
  <2> QED BY <1>1, <1>2, UpTo
<1> QED BY <1>3

\* From m to u the metadata page and the first k pages of v were freed.
Dropped(m, v, k, u) ==
  /\ RamSound(u) /\ u.next = m.next
  /\ \A g \in RamFrames : u.tag[g] = IF g = v.meta \/ \E j \in 0..(k - 1) : v.own[j] = g THEN "Free" ELSE m.tag[g]
  /\ u.panic \in {m.panic, "double-free"} /\ (Sole(m, v) => u.panic = m.panic)

\* One frame is freed.
LEMMA FreeOne ==
  ASSUME NEW m, RamSound(m), NEW f \in RamFrames, NEW u, u = free_page(m, f)
  PROVE  /\ RamSound(u) /\ u.next = m.next
         /\ \A g \in RamFrames : u.tag[g] = IF g = f THEN "Free" ELSE m.tag[g]
         /\ u.panic \in {m.panic, "double-free"} /\ (m.tag[f] # "Free" => u.panic = m.panic)
<1>1. m \in Allocator
  BY DEF RamSound
<1>2. /\ u \in Allocator /\ u.next = m.next /\ u.live \subseteq m.live
      /\ \A g \in RamFrames : u.tag[g] = IF g = f THEN "Free" ELSE m.tag[g]
      /\ IF m.tag[f] = "Free" THEN u.panic = "double-free" ELSE u.panic = m.panic
  BY <1>1, FreePageType
<1>3. RamSound(u)
  BY <1>2 DEF RamSound
<1> QED BY <1>2, <1>3

\* One page of a VMO is dropped.
LEMMA DropPageSound ==
  ASSUME NEW m, RamSound(m), NEW v, IsVmoValue(v), DOMAIN v.own # {}, NEW k \in 1..v.size,
         NEW a, Dropped(m, v, k - 1, a), NEW u, u = DropPage(a, v.own[k - 1])
  PROVE  Dropped(m, v, k, u)
<1>1. /\ v.size \in Nat /\ DOMAIN v.own = 0..(v.size - 1) /\ k - 1 \in 0..(v.size - 1) /\ k \in Nat
      /\ v.own[k - 1] \in RamFrames \cup {0} /\ v.meta \in RamFrames
  BY DEF IsVmoValue
<1>2. PICK f : f = v.own[k - 1]
  OBVIOUS
<1>3. \A j \in 0..(k - 1) : j \in 0..(k - 1 - 1) \/ j = k - 1
  BY <1>1
<1>4. \A j \in 0..(k - 1 - 1) : j \in 0..(k - 1) /\ j # k - 1
  BY <1>1
<1>5. k - 1 \in 0..(k - 1)
  BY <1>1
<1>6. 0 \notin RamFrames
  BY GivenFacts
<1>7. CASE f = 0
  <2>1. u = a
    BY <1>2, <1>7 DEF DropPage
  <2>2. \A g \in RamFrames : (\E j \in 0..(k - 1) : v.own[j] = g) <=> (\E j \in 0..(k - 1 - 1) : v.own[j] = g)
    BY <1>2, <1>3, <1>4, <1>6, <1>7
  <2> QED BY <2>1, <2>2 DEF Dropped
<1>8. CASE f # 0
  <2>1. f \in RamFrames /\ u = free_page(a, f) /\ RamSound(a)
    BY <1>1, <1>2, <1>8 DEF DropPage, Dropped
  <2>2. /\ RamSound(u) /\ u.next = a.next
        /\ \A g \in RamFrames : u.tag[g] = IF g = f THEN "Free" ELSE a.tag[g]
        /\ u.panic \in {a.panic, "double-free"} /\ (a.tag[f] # "Free" => u.panic = a.panic)
    BY <2>1, FreeOne
  <2>3. \A g \in RamFrames : (\E j \in 0..(k - 1) : v.own[j] = g)
                               <=> (g = f \/ \E j \in 0..(k - 1 - 1) : v.own[j] = g)
    BY <1>2, <1>3, <1>4, <1>5
  <2>4. \A g \in RamFrames : a.tag[g] = IF g = v.meta \/ \E j \in 0..(k - 1 - 1) : v.own[j] = g
                                        THEN "Free" ELSE m.tag[g]
    BY DEF Dropped
  <2>5. \A g \in RamFrames : u.tag[g] = IF g = v.meta \/ \E j \in 0..(k - 1) : v.own[j] = g
                                        THEN "Free" ELSE m.tag[g]
    BY <2>2, <2>3, <2>4
  <2>6. ASSUME Sole(m, v)
        PROVE  u.panic = m.panic
    <3>1. f # v.meta /\ m.tag[f] = "VmoData"
      <4>1. k - 1 \in DOMAIN v.own
        BY <1>1
      <4>2. f \in Owned(v)
        BY <4>1, <1>2, <1>8 DEF Owned
      <4> QED BY <4>1, <4>2, <2>6, <1>2 DEF Sole
    <3>2. ASSUME NEW j \in 0..(k - 1 - 1), v.own[j] = f
          PROVE  FALSE
      <4>1. j \in DOMAIN v.own /\ k - 1 \in DOMAIN v.own /\ j # k - 1
        BY <1>1
      <4> QED BY <4>1, <3>2, <2>6, <1>2, <1>8 DEF Sole
    <3>3. a.tag[f] = "VmoData"
      BY <2>1, <2>4, <3>1, <3>2
    <3>4. a.panic = m.panic
      BY <2>6 DEF Dropped
    <3> QED BY <2>2, <3>3, <3>4
  <2>7. u.panic \in {m.panic, "double-free"}
    BY <2>2 DEF Dropped
  <2> QED BY <2>2, <2>5, <2>6, <2>7 DEF Dropped
<1> QED BY <1>7, <1>8

\* Dropping a VMO frees the frames it owns, once if it is their only owner.
LEMMA DropIs ==
  ASSUME NEW m, RamSound(m), NEW v, IsVmoValue(v), NEW u, u = DropObject(m, v)
  PROVE  /\ RamSound(u) /\ u.next = m.next
         /\ \A g \in RamFrames : u.tag[g] = IF g \in Owned(v) THEN "Free" ELSE m.tag[g]
         /\ u.panic \in {m.panic, "double-free"} /\ (Sole(m, v) => u.panic = m.panic)
<1>1. /\ v.size \in Nat /\ DOMAIN v.own \in {{}, 0..(v.size - 1)} /\ v.meta \in RamFrames /\ v.kind = "vmo"
  BY DEF IsVmoValue
<1>2. PICK a : a = free_page(m, v.meta)
  OBVIOUS
<1>3. Dropped(m, v, 0, a)
  <2>1. /\ RamSound(a) /\ a.next = m.next
        /\ \A g \in RamFrames : a.tag[g] = IF g = v.meta THEN "Free" ELSE m.tag[g]
        /\ a.panic \in {m.panic, "double-free"} /\ (m.tag[v.meta] # "Free" => a.panic = m.panic)
    BY <1>1, <1>2, FreeOne
  <2>2. Sole(m, v) => m.tag[v.meta] # "Free"
    BY DEF Sole, Owned
  <2>3. 0..(0 - 1) = {}
    OBVIOUS
  <2> QED BY <2>1, <2>2, <2>3 DEF Dropped
<1>4. u = DropPages(a, v)
  BY <1>1, <1>2 DEF DropObject
<1>5. 0 \notin RamFrames
  BY GivenFacts
<1>6. CASE DOMAIN v.own = {}
  <2>1. u = a
    BY <1>4, <1>6 DEF DropPages
  <2>2. Owned(v) = {v.meta}
    BY <1>6 DEF Owned
  <2>3. 0..(0 - 1) = {}
    OBVIOUS
  <2> QED BY <2>1, <2>2, <2>3, <1>3 DEF Dropped
<1>7. CASE DOMAIN v.own # {}
  <2> DEFINE def(f) == [k \in 0..v.size |-> IF k = 0 THEN a ELSE DropPage(f[k - 1], v.own[k - 1])]
  <2>1. PICK n, g, own : n = v.size /\ own = v.own /\ g = CHOOSE h : h = def(h)
    OBVIOUS
  <2>2. n \in Nat
    BY <1>1, <2>1
  <2>3. g = def(g)
    <3>1. PICK f : DropRun(f, n, a, own)
      BY <2>2, DropRoundsExist
    <3>2. f = def(f)
      BY <2>1, <3>1 DEF DropRun
    <3> QED BY <3>2, <2>1
  <2>4. u = g[n]
    BY <1>4, <1>7, <2>1 DEF DropPages
  <2>5. \A k \in 0..n : g[k] = IF k = 0 THEN a ELSE DropPage(g[k - 1], own[k - 1])
    BY <2>1, <2>3
  <2> DEFINE S == {k \in 0..n : Dropped(m, v, k, g[k])}
  <2>6. 0 \in S
    <3>1. g[0] = a /\ 0 \in 0..n
      BY <2>2, <2>5
    <3> QED BY <3>1, <1>3
  <2>7. ASSUME NEW k \in 1..n, k - 1 \in S
        PROVE  k \in S
    <3>1. PICK y, z : y = g[k - 1] /\ z = g[k]
      OBVIOUS
    <3>2. Dropped(m, v, k - 1, y)
      BY <2>7, <3>1
    <3>3. z = DropPage(y, v.own[k - 1]) /\ k \in 0..n
      <4>1. k \in 0..n /\ k # 0
        BY <2>2
      <4> QED BY <2>1, <2>5, <3>1, <4>1
    <3>4. Dropped(m, v, k, z)
      <4>1. k \in 1..v.size
        BY <2>1
      <4> QED BY <4>1, <1>7, <3>2, <3>3, DropPageSound
    <3> QED BY <3>1, <3>3, <3>4
  <2>8. \A k \in 0..n : k \in S
    <3> HIDE DEF S
    <3> QED BY <2>2, <2>6, <2>7, UpTo
  <2>9. Dropped(m, v, n, u)
    BY <2>2, <2>4, <2>8
  <2>10. \A h \in RamFrames : h \in Owned(v) <=> (h = v.meta \/ \E j \in 0..(n - 1) : v.own[j] = h)
    BY <1>1, <1>5, <1>7, <2>1 DEF Owned
  <2> QED BY <2>9, <2>10 DEF Dropped
<1> QED BY <1>6, <1>7

\* What the drop of a VMO leaves alone.
LEMMA DropSound ==
  ASSUME NEW m, RamSound(m), RamClean(m), NEW ce, NEW ho, NEW v, VmoOK(m, ce, ho, v),
         NEW u, u = DropObject(m, v)
  PROVE  /\ RamSound(u) /\ RamClean(u) /\ u.next = m.next /\ Firm(m, ho, u, ho)
         /\ \A g \in RamFrames : u.tag[g] = IF g \in Owned(v) THEN "Free" ELSE m.tag[g]
         /\ \A g \in RamFrames : m.tag[g] \notin {"Free", "VmoData"} => u.tag[g] = m.tag[g]
         /\ u.panic \in {m.panic, "double-free"} /\ (Sole(m, v) => u.panic = m.panic)
<1>1. /\ RamSound(u) /\ u.next = m.next
      /\ \A g \in RamFrames : u.tag[g] = IF g \in Owned(v) THEN "Free" ELSE m.tag[g]
      /\ u.panic \in {m.panic, "double-free"} /\ (Sole(m, v) => u.panic = m.panic)
  BY DropIs DEF VmoOK
<1>2. RamClean(u)
  BY <1>1 DEF RamClean
<1>3. Firm(m, ho, u, ho)
  <2>1. Given(m) \subseteq RamFrames /\ m.next \in Nat
    BY GivenFacts
  <2> QED BY <2>1, <1>1 DEF Firm
<1>4. \A g \in RamFrames : m.tag[g] \notin {"Free", "VmoData"} => u.tag[g] = m.tag[g]
  BY <1>1 DEF VmoOK
<1> QED BY <1>1, <1>2, <1>3, <1>4

-----------------------------------------------------------------------------
(* Launch. *)

\* A stage of a launch from w to x: it takes frames and grows the tree, leaves
\* metadata pages in use alone and keeps no VMO.  After an error nothing happens.
Quiet(w, x) ==
  /\ FramesMoved(w, x) /\ TreeMoved(w, x)
  /\ \A f \in Given(w.ram) : x.cells[f] = w.cells[f]
  /\ \A f \in Fresh(w.ram, x.ram) : x.ram.tag[f] \notin {"VmoData", "VmarMeta"}
  /\ w.ok = FALSE => x.ok = FALSE /\ x.ram = w.ram /\ x.mem = w.mem

\* Two stages.
LEMMA QuietTrans ==
  ASSUME NEW u, NEW v, NEW w, CallOK(u), CallOK(v), CallOK(w), Quiet(u, v), Quiet(v, w)
  PROVE  Quiet(u, w)
<1>1. RamSound(u.ram) /\ RamSound(v.ram) /\ RamSound(w.ram)
  BY DEF CallOK, Going
<1>2. FrameStep(u.ram, u.home, v.ram, v.home) /\ FrameStep(v.ram, v.home, w.ram, w.home)
      /\ TreeStep(u.ram, u.mem, u.tree, v.ram, v.mem, v.tree)
      /\ TreeStep(v.ram, v.mem, v.tree, w.ram, w.mem, w.tree)
  BY DEF Quiet, FramesMoved, TreeMoved
<1>3. FrameStep(u.ram, u.home, w.ram, w.home)
      /\ Fresh(u.ram, w.ram) = Fresh(u.ram, v.ram) \cup Fresh(v.ram, w.ram) /\ Fresh(u.ram, v.ram) \subseteq Given(v.ram)
  <2>1. PICK m, n, k, ho, hn, hk : /\ m = u.ram /\ n = v.ram /\ k = w.ram
                                   /\ ho = u.home /\ hn = v.home /\ hk = w.home
    OBVIOUS
  <2>2. /\ FrameStep(m, ho, k, hk)
        /\ Fresh(m, k) = Fresh(m, n) \cup Fresh(n, k) /\ Fresh(m, n) \subseteq Given(n)
    <3>1. RamSound(m) /\ RamSound(n) /\ RamSound(k) /\ FrameStep(m, ho, n, hn) /\ FrameStep(n, hn, k, hk)
      BY <1>1, <1>2, <2>1
    <3> QED BY <3>1, FrameTrans
  <2> QED BY <2>1, <2>2
<1>4. TreeStep(u.ram, u.mem, u.tree, w.ram, w.mem, w.tree)
  BY <1>1, <1>2, TreeTrans
<1>5. Given(u.ram) \subseteq Given(v.ram)
  BY <1>1, <1>2, GivenKept DEF FrameStep
<1>6. \A f \in Given(u.ram) : w.cells[f] = u.cells[f]
  BY <1>5 DEF Quiet
<1>7. ASSUME NEW f \in Fresh(u.ram, w.ram)
      PROVE  w.ram.tag[f] \notin {"VmoData", "VmarMeta"}
  <2>1. CASE f \in Fresh(u.ram, v.ram)
    <3>1. w.ram.tag[f] = v.ram.tag[f]
      BY <2>1, <1>2, <1>3 DEF FrameStep
    <3> QED BY <2>1, <3>1 DEF Quiet
  <2>2. CASE f \in Fresh(v.ram, w.ram)
    BY <2>2 DEF Quiet
  <2> QED BY <2>1, <2>2, <1>3
<1>8. u.ok = FALSE => w.ok = FALSE /\ w.ram = u.ram /\ w.mem = u.mem
  BY DEF Quiet
<1> QED BY <1>3, <1>4, <1>6, <1>7, <1>8 DEF Quiet, FramesMoved, TreeMoved

\* A stage that changes at most the outcome, the VMO in hand and the count of VMOs.
LEMMA QuietSame ==
  ASSUME NEW w, CallOK(w), NEW x, DOMAIN x = CallFields, x.ok \in BOOLEAN, x.ids \in Nat, x.ram = w.ram,
         x.mem = w.mem, x.tree = w.tree, x.resv = w.resv, x.cells = w.cells, x.home = w.home, x.ok => w.ok
  PROVE  CallOK(x) /\ Quiet(w, x)
<1>1. Going(x)
  BY DEF CallOK, Going
<1>2. CallOK(x)
  BY <1>1 DEF CallOK
<1>3. w.ram.next \in Nat
  BY GivenFacts DEF CallOK, Going
<1>4. Fresh(w.ram, x.ram) = {}
  BY <1>3 DEF Fresh
<1>5. FramesMoved(w, x)
  BY <1>3 DEF FramesMoved, FrameStep
<1>6. TreeMoved(w, x)
  BY TreeRests DEF TreeMoved
<1> QED BY <1>2, <1>4, <1>5, <1>6 DEF Quiet

\* An error is a stage.
LEMMA QuietFail ==
  ASSUME NEW w, CallOK(w), NEW x, x = Fail(w)
  PROVE  CallOK(x) /\ Quiet(w, x)
<1>1. DOMAIN w = CallFields /\ w.ids \in Nat
  BY DEF CallOK, Going
<1>2. /\ DOMAIN x = CallFields /\ x.ok = FALSE /\ x.ram = w.ram /\ x.mem = w.mem
      /\ x.tree = w.tree /\ x.resv = w.resv /\ x.v = w.v /\ x.cells = w.cells
      /\ x.home = w.home /\ x.ids = w.ids
  BY <1>1, FailIs
<1> QED BY <1>1, <1>2, QuietSame

\* What a call keeps when only its allocator has moved on.
LEMMA RamOnly ==
  ASSUME NEW w, CallOK(w), NEW x, DOMAIN x = CallFields, x.ok \in BOOLEAN, x.ids \in Nat,
         x.mem = w.mem, x.tree = w.tree, x.resv = w.resv, DOMAIN x.cells = RamFrames, DOMAIN x.home = RamFrames,
         RamSound(x.ram), RamClean(x.ram), Firm(w.ram, w.home, x.ram, x.home)
  PROVE  CallOK(x)
<1>1. PICK m, n, ho, hn, c, t, resv : /\ m = w.ram /\ n = x.ram /\ ho = w.home /\ hn = x.home
                                      /\ c = w.mem /\ t = w.tree /\ resv = w.resv
  OBVIOUS
<1>2. RamSound(m) /\ RamSound(n) /\ Firm(m, ho, n, hn) /\ TreeBacked(m, c, ho, t, resv) /\ FirstFrame + 3 <= m.next
  BY <1>1 DEF CallOK, Going
<1>3. ResvKept(resv, resv)
  BY DEF ResvKept
<1>4. TreeBacked(n, c, hn, t, resv)
  BY <1>2, <1>3, TreeBackedKept
<1>5. FirstFrame + 3 <= n.next
  <2>1. m.next \in Nat /\ n.next \in Nat /\ FirstFrame \in Nat /\ m.next <= n.next
    BY <1>2, GivenFacts DEF Firm
  <2> QED BY <2>1, <1>2
<1>6. Going(x)
  BY <1>1, <1>5 DEF CallOK, Going
<1> QED BY <1>1, <1>4, <1>6 DEF CallOK

\* A page for the call is taken.
Taken(w, x, tag) ==
  /\ CallOK(x) /\ FramesMoved(w, x) /\ TreeMoved(w, x) /\ x.ok = TRUE
  /\ x.tree = w.tree /\ x.mem = w.mem /\ x.resv = w.resv /\ x.cells = w.cells /\ x.home = w.home
  /\ Candidate(w.ram) \in Fresh(w.ram, x.ram) /\ x.ram.panic = w.ram.panic
  /\ \A f \in Fresh(w.ram, x.ram) : x.ram.tag[f] = IF f = Candidate(w.ram) THEN tag ELSE "Free"

\* Taking a page, or failing to.
LEMMA TakeSound ==
  ASSUME NEW w, CallOK(w), NEW tag \in Tags, NEW x, x = Take(w, tag)
  PROVE  IF w.ok /\ CanAlloc(w.ram) THEN Taken(w, x, tag) ELSE x = Fail(w)
<1>1. CASE ~(w.ok /\ CanAlloc(w.ram))
  BY <1>1 DEF Take
<1>2. CASE w.ok /\ CanAlloc(w.ram)
  <2>1. PICK m, a, f, ho : m = w.ram /\ a = alloc_page(m, tag) /\ f = Candidate(m) /\ ho = w.home
    OBVIOUS
  <2>2. x = [w EXCEPT !.ram = a]
    BY <1>2, <2>1 DEF Take
  <2>3. DOMAIN w = CallFields /\ RamSound(m) /\ RamClean(m) /\ w.ids \in Nat
        /\ DOMAIN w.cells = RamFrames /\ DOMAIN w.home = RamFrames
    BY <2>1 DEF CallOK, Going
  <2>4. /\ DOMAIN x = CallFields /\ x.ok = w.ok /\ x.ram = a /\ x.mem = w.mem
        /\ x.tree = w.tree /\ x.resv = w.resv /\ x.v = w.v /\ x.cells = w.cells
        /\ x.home = w.home /\ x.ids = w.ids
    BY <2>2, <2>3 DEF CallFields
  <2>5. /\ RamSound(a) /\ RamClean(a) /\ f \in RamFrames /\ f \notin Given(m) /\ f \in Fresh(m, a)
        /\ m.next <= a.next /\ a.panic = m.panic
        /\ \A g \in RamFrames : a.tag[g] = IF g = f THEN tag ELSE m.tag[g]
        /\ \A g \in Fresh(m, a) \ {f} : a.tag[g] = "Free"
    <3>1. CanAlloc(m)
      BY <1>2, <2>1
    <3> QED BY <3>1, <2>1, <2>3, AllocIs
  <2>6. FrameStep(m, ho, a, ho)
    <3>1. Given(m) \subseteq RamFrames
      BY <2>3, GivenFacts
    <3> QED BY <3>1, <2>5 DEF FrameStep
  <2>7. FramesMoved(w, x) /\ TreeMoved(w, x)
    BY <2>1, <2>4, <2>6, TreeRests DEF FramesMoved, TreeMoved
  <2>8. CallOK(x)
    <3>1. Firm(w.ram, w.home, x.ram, x.home)
      BY <2>1, <2>4, <2>6, StepIsFirm
    <3>2. RamSound(x.ram) /\ RamClean(x.ram) /\ DOMAIN x.cells = RamFrames /\ DOMAIN x.home = RamFrames
          /\ x.ids \in Nat /\ x.ok \in BOOLEAN
      BY <1>2, <2>3, <2>4, <2>5
    <3> QED BY <2>4, <3>1, <3>2, RamOnly
  <2>9. \A g \in Fresh(m, a) : a.tag[g] = IF g = f THEN tag ELSE "Free"
    BY <2>5
  <2>10. Taken(w, x, tag)
    <3>1. x.ok = TRUE
      BY <1>2, <2>4 DEF CallOK, Going
    <3> QED BY <3>1, <2>1, <2>4, <2>5, <2>7, <2>8, <2>9 DEF Taken
  <2> QED BY <1>2, <2>10
<1> QED BY <1>1, <1>2

\* Pages of the kernel's own are taken quietly.
LEMMA TakeQuiet ==
  ASSUME NEW w, CallOK(w), NEW tag \in Tags \ {"VmoData", "VmarMeta"}, NEW x, x = Take(w, tag)
  PROVE  CallOK(x) /\ Quiet(w, x)
<1>1. CASE w.ok /\ CanAlloc(w.ram)
  <2>1. Taken(w, x, tag)
    BY <1>1, TakeSound
  <2>2. w.ok # FALSE
    BY <1>1
  <2> QED BY <2>1, <2>2 DEF Taken, Quiet
<1>2. CASE ~(w.ok /\ CanAlloc(w.ram))
  <2>1. x = Fail(w)
    BY <1>2 DEF Take
  <2> QED BY <2>1, QuietFail
<1> QED BY <1>1, <1>2

\* The handle table's page, or the panic.
LEMMA HandlePageSound ==
  ASSUME NEW w, CallOK(w), NEW x, x = HandlePage(w)
  PROVE  /\ CallOK(x) /\ Quiet(w, x) /\ x.tree = w.tree /\ x.mem = w.mem
         /\ x.cells = w.cells /\ x.home = w.home
<1>1. CASE w.ok /\ ~CanAlloc(w.ram)
  <2>1. PICK a : a = [w.ram EXCEPT !.panic = "no-handle-page"]
    OBVIOUS
  <2>2. DOMAIN w = CallFields /\ RamSound(w.ram) /\ RamClean(w.ram) /\ w.ids \in Nat
        /\ DOMAIN w.cells = RamFrames /\ DOMAIN w.home = RamFrames /\ w.ram.next \in Nat
    BY GivenFacts DEF CallOK, Going
  <2>3. x = [w EXCEPT !.ram.panic = "no-handle-page"]
    BY <1>1 DEF HandlePage
  <2>4. /\ DOMAIN x = CallFields /\ x.ok = w.ok /\ x.ram = a /\ x.mem = w.mem
        /\ x.tree = w.tree /\ x.resv = w.resv /\ x.v = w.v /\ x.cells = w.cells
        /\ x.home = w.home /\ x.ids = w.ids
    BY <2>1, <2>2, <2>3 DEF CallFields
  <2>5. a \in Allocator /\ a.tag = w.ram.tag /\ a.next = w.ram.next /\ a.live = w.ram.live /\ a.panic = "no-handle-page"
    BY <2>1, <2>2 DEF RamSound, Allocator
  <2>6. RamSound(a) /\ RamClean(a)
    BY <2>2, <2>5 DEF RamSound, RamClean
  <2>7. FrameStep(w.ram, w.home, a, w.home) /\ Fresh(w.ram, a) = {}
    <3>1. Fresh(w.ram, a) = {}
      BY <2>2, <2>5 DEF Fresh
    <3> QED BY <3>1, <2>2, <2>5 DEF FrameStep
  <2>8. CallOK(x)
    <3>1. Firm(w.ram, w.home, x.ram, x.home)
      BY <2>4, <2>7, StepIsFirm
    <3>2. RamSound(x.ram) /\ RamClean(x.ram) /\ DOMAIN x.cells = RamFrames /\ DOMAIN x.home = RamFrames
          /\ x.ids \in Nat /\ x.ok \in BOOLEAN
      BY <1>1, <2>2, <2>4, <2>6
    <3> QED BY <2>4, <3>1, <3>2, RamOnly
  <2>9. Quiet(w, x)
    <3>1. FramesMoved(w, x) /\ TreeMoved(w, x)
      BY <2>4, <2>7, TreeRests DEF FramesMoved, TreeMoved
    <3>2. w.ok # FALSE
      BY <1>1
    <3> QED BY <3>1, <3>2, <2>4, <2>7 DEF Quiet
  <2> QED BY <2>4, <2>8, <2>9
<1>2. CASE ~(w.ok /\ ~CanAlloc(w.ram))
  <2>1. x = Take(w, "KernelHeap")
    BY <1>2 DEF HandlePage
  <2>2. "KernelHeap" \in Tags \ {"VmoData", "VmarMeta"}
    BY DEF Tags
  <2>3. CallOK(x) /\ Quiet(w, x)
    BY <2>1, <2>2, TakeQuiet
  <2>4. x.tree = w.tree /\ x.mem = w.mem /\ x.cells = w.cells /\ x.home = w.home
    <3>1. CASE w.ok /\ CanAlloc(w.ram)
      BY <3>1, <2>1, <2>2, TakeSound, ZenonT(30) DEF Taken
    <3>2. CASE ~(w.ok /\ CanAlloc(w.ram))
      <4>1. x = Fail(w) /\ DOMAIN w = CallFields
        BY <3>2, <2>1 DEF Take, CallOK, Going
      <4> QED BY <4>1, FailIs
    <3> QED BY <3>1, <3>2
  <2> QED BY <2>3, <2>4
<1> QED BY <1>1, <1>2

\* A tree with only device pages needs no reservation: devices are not memory.
LEMMA DevicesBacked ==
  ASSUME NEW m, NEW ho, NEW resv, NEW c, NEW r, OnlyDevices(c, r)
  PROVE  Backed(m, c, ho, resv, r)
<1>1. ASSUME NEW i \in Idx, NEW j \in Idx, NEW e, e = PageAt(c, r, i, j), e # NoEntry
      PROVE  PageBacked(m, ho, resv, i, j, e)
  <2>1. PICK k \in 1..Len(Devices) : i = Index(Devices[k], 2) /\ j = Index(Devices[k], 3) /\ e = Page(Devices[k], UserRW)
    BY <1>1 DEF OnlyDevices
  <2>2. Devices \in Seq(UserVas) /\ Devices[k] \in ToSet(Devices)
    BY SpaceAssumption DEF ToSet
  <2>3. Devices[k] \in UserVas /\ Devices[k] \notin RamFrames
    BY <2>2, MemoryAssumption
  <2>4. e.pa = Devices[k]
    BY <2>1 DEF Page
  <2> QED BY <2>1, <2>3, <2>4 DEF PageBacked
<1>2. ASSUME NEW i \in Idx, NEW j \in Idx, NEW e, e = PageAt(c, r, i, j)
      PROVE  PageBacked(m, ho, resv, i, j, e)
  BY <1>1, <1>2 DEF PageBacked
<1> QED BY <1>2 DEF Backed

\* Frames that a new tree has taken, or lost.
LEMMA TablesTaken ==
  ASSUME NEW m, NEW n, RamSound(m), RamClean(m), RamSound(n), m.next <= n.next, n.panic = m.panic, NEW ho,
         \A f \in RamFrames : n.tag[f] # m.tag[f] => f \in Fresh(m, n) /\ n.tag[f] = "PageTable"
  PROVE  /\ FrameStep(m, ho, n, ho) /\ RamClean(n)
         /\ \A f \in Fresh(m, n) : n.tag[f] \notin {"VmoData", "VmarMeta"}
<1>1. /\ m.next \in Nat /\ n.next \in Nat /\ n.next <= LastFrame + 1 /\ FirstFrame <= m.next /\ FirstFrame \in Nat
      /\ LastFrame \in Nat /\ Given(m) \subseteq RamFrames
  BY GivenFacts
<1>2. FrameStep(m, ho, n, ho)
  <2>1. \A f \in Given(m) : f \notin Fresh(m, n)
    BY <1>1 DEF Given, Fresh
  <2> QED BY <2>1, <1>1 DEF FrameStep
<1>3. RamClean(n)
  <2>1. ASSUME NEW f \in RamFrames, f >= n.next
        PROVE  n.tag[f] = "Free"
    <3>1. f >= m.next /\ f \notin Fresh(m, n)
      BY <2>1, <1>1 DEF RamFrames, Fresh
    <3> QED BY <3>1 DEF RamClean
  <2> QED BY <2>1 DEF RamClean
<1>4. ASSUME NEW f \in Fresh(m, n)
      PROVE  n.tag[f] \notin {"VmoData", "VmarMeta"}
  <2>1. f \in RamFrames /\ f >= m.next
    BY <1>1 DEF Fresh, RamFrames
  <2>2. m.tag[f] = "Free"
    BY <2>1 DEF RamClean
  <2> QED BY <2>1, <2>2
<1> QED BY <1>2, <1>3, <1>4

\* The tree of a new process.
LEMMA TreedSound ==
  ASSUME NEW w, CallOK(w), w.tree = NoSpace, ttbr0.root = FirstFrame,
         \A f \in BootTables : w.mem[f] = BootMem[f], NEW x, x = Treed(w)
  PROVE  CallOK(x) /\ Quiet(w, x)
<1>1. CASE ~w.ok \/ w.ram.panic # "none"
  <2>1. x = Fail(w)
    BY <1>1 DEF Treed
  <2> QED BY <2>1, QuietFail
<1>2. CASE ~(~w.ok \/ w.ram.panic # "none")
  <2>1. PICK m, c, ho, u : m = w.ram /\ c = w.mem /\ ho = w.home /\ u = NewTree(Walk(m, c, NoSpace))
    OBVIOUS
  <2>2. x = Walked(w, u)
    BY <1>2, <2>1 DEF Treed
  <2>3. /\ DOMAIN w = CallFields /\ RamSound(m) /\ RamClean(m) /\ FirstFrame + 3 <= m.next /\ c \in Descriptors
        /\ w.ids \in Nat /\ DOMAIN w.cells = RamFrames /\ DOMAIN ho = RamFrames
        /\ w.resv \in Seq(Reservations) /\ Len(w.resv) <= MaxMappings
    BY <2>1 DEF CallOK, Going
  <2>4. /\ DOMAIN x = CallFields /\ x.ok = u.ok /\ x.ram = u.ram /\ x.mem = u.mem
        /\ x.tree = u.tree /\ x.resv = w.resv /\ x.v = w.v /\ x.cells = w.cells
        /\ x.home = w.home /\ x.ids = w.ids
    BY <2>2, <2>3, WalkedIs
  <2>5. HasKernel(c, m.next, ttbr0.root)
    <3>1. m.next \in Nat
      BY <2>3, GivenFacts
    <3> QED BY <3>1, <2>1, <2>3, BootHasKernel
  <2>6. Unborn(m, c, u) \/ Complete(m, c, u)
    BY <2>1, <2>3, <2>5, NewTreeSound
  <2>7. w.ok = TRUE
    BY <1>2 DEF CallOK, Going
  <2>8. CASE Unborn(m, c, u)
    <3>1. /\ u.ok = FALSE /\ u.tree = NoSpace /\ u.mem = c /\ RamSound(u.ram)
          /\ m.next <= u.ram.next /\ u.ram.panic = m.panic
          /\ \A f \in RamFrames : u.ram.tag[f] # m.tag[f] => f \in Fresh(m, u.ram) /\ u.ram.tag[f] = "PageTable"
      BY <2>8 DEF Unborn, Fresh
    <3>2. /\ FrameStep(m, ho, u.ram, ho) /\ RamClean(u.ram)
          /\ \A f \in Fresh(m, u.ram) : u.ram.tag[f] \notin {"VmoData", "VmarMeta"}
      <4>1. PICK n : n = u.ram
        OBVIOUS
      <4>2. /\ RamSound(n) /\ m.next <= n.next /\ n.panic = m.panic
            /\ \A f \in RamFrames : n.tag[f] # m.tag[f] => f \in Fresh(m, n) /\ n.tag[f] = "PageTable"
        BY <4>1, <3>1
      <4>3. /\ FrameStep(m, ho, n, ho) /\ RamClean(n)
            /\ \A f \in Fresh(m, n) : n.tag[f] \notin {"VmoData", "VmarMeta"}
        BY <4>2, <2>3, TablesTaken
      <4> QED BY <4>1, <4>3
    <3>3. x.tree = w.tree /\ x.mem = w.mem /\ x.ok = FALSE
      BY <2>1, <2>4, <3>1
    <3>4. CallOK(x)
      <4>1. Firm(w.ram, w.home, x.ram, x.home)
        BY <2>1, <2>4, <3>2, StepIsFirm
      <4>2. RamSound(x.ram) /\ RamClean(x.ram) /\ DOMAIN x.cells = RamFrames /\ DOMAIN x.home = RamFrames
            /\ x.ids \in Nat /\ x.ok \in BOOLEAN
        BY <2>1, <2>3, <2>4, <3>1, <3>2
      <4> QED BY <2>4, <3>3, <4>1, <4>2, RamOnly
    <3>5. FramesMoved(w, x) /\ TreeMoved(w, x)
      BY <2>1, <2>4, <3>2, <3>3, TreeRests DEF FramesMoved, TreeMoved
    <3> QED BY <2>1, <2>4, <2>7, <3>2, <3>4, <3>5 DEF Quiet
  <2>9. CASE Complete(m, c, u)
    <3>1. PICK n, d, r, G : n = u.ram /\ d = u.mem /\ r = u.tree.root /\ G = TreeFrames(d, r)
      OBVIOUS
    <3>2. /\ GoodWalk(u) /\ u.ok = TRUE /\ Cloned(d, r) /\ u.tree.used = FALSE /\ u.tree.asid = 0
          /\ m.next <= n.next /\ n.panic = m.panic /\ G \subseteq Fresh(m, n)
          /\ \A f \in RamFrames \ G : d[f] = c[f]
          /\ \A f \in RamFrames : n.tag[f] = IF f \in G THEN "PageTable" ELSE m.tag[f]
          /\ OnlyDevices(d, r)
      BY <2>9, <3>1 DEF Complete, Fresh
    <3>3. /\ RamSound(n) /\ d \in Descriptors /\ u.tree \in Spaces /\ TreeOK(d, n.next, r)
          /\ Tracks(u.tree.tracked, G)
      BY <3>1, <3>2 DEF GoodWalk, Walks
    <3>4. /\ FrameStep(m, ho, n, ho) /\ RamClean(n)
          /\ \A f \in Fresh(m, n) : n.tag[f] \notin {"VmoData", "VmarMeta"}
      <4>1. \A f \in RamFrames : n.tag[f] # m.tag[f] => f \in Fresh(m, n) /\ n.tag[f] = "PageTable"
        BY <3>2
      <4> QED BY <4>1, <2>3, <3>2, <3>3, TablesTaken
    <3>5. Backed(n, d, ho, w.resv, r)
      BY <3>2, DevicesBacked
    <3>6. TreeBacked(n, d, ho, u.tree, w.resv)
      <4>1. r # 0
        <5>1. r \in Drawn(n.next) /\ n.next \in FirstFrame..(LastFrame + 1) /\ FirstFrame \in Nat
          BY <3>3, GivenFacts DEF TreeOK
        <5> QED BY <5>1 DEF Drawn
      <4> QED BY <4>1, <3>1, <3>2, <3>3, <3>5 DEF TreeBacked
    <3>7. Going(x)
      <4>1. FirstFrame + 3 <= n.next
        <5>1. m.next \in Nat /\ n.next \in Nat /\ FirstFrame \in Nat
          BY <2>3, <3>3, GivenFacts
        <5> QED BY <5>1, <2>3, <3>2
      <4> QED BY <4>1, <2>1, <2>3, <2>4, <3>1, <3>2, <3>3, <3>4 DEF Going
    <3>8. CallOK(x)
      BY <2>1, <2>4, <3>1, <3>6, <3>7 DEF CallOK
    <3>9. TreeStep(m, c, NoSpace, n, d, u.tree)
      <4>1. r \in Nat \ {0}
        <5>1. r \in Drawn(n.next) /\ n.next \in FirstFrame..(LastFrame + 1) /\ FirstFrame \in Nat
          BY <3>3, GivenFacts DEF TreeOK
        <5> QED BY <5>1 DEF Drawn
      <4>2. FramesOf(c, NoSpace) = {} /\ FramesOf(d, u.tree) = G
        BY <4>1, <3>1 DEF FramesOf, NoSpace
      <4>3. \A f \in G : f \in Fresh(m, n) /\ n.tag[f] = "PageTable"
        <5>1. G \subseteq RamFrames
          <6>1. n.next \in FirstFrame..(LastFrame + 1)
            BY <3>3, GivenFacts
          <6> QED BY <6>1, <3>1, <3>3, FramesDrawn
        <5> QED BY <5>1, <3>2
      <4>4. NoSpace.root = 0 /\ NoSpace.used = FALSE /\ NoSpace.asid = 0
        BY DEF NoSpace
      <4> QED BY <4>2, <4>3, <4>4, <3>2 DEF TreeStep
    <3>10. FramesMoved(w, x) /\ TreeMoved(w, x)
      BY <2>1, <2>4, <3>1, <3>4, <3>9 DEF FramesMoved, TreeMoved
    <3> QED BY <2>1, <2>4, <2>7, <3>1, <3>4, <3>8, <3>10 DEF Quiet
  <2> QED BY <2>6, <2>8, <2>9
<1> QED BY <1>1, <1>2

\* A VMO without pages of its own, in frame f.
Bare0(v, f) == IsVmoValue(v) /\ v.meta = f /\ \A i \in DOMAIN v.own : v.own[i] = 0

\* Such a VMO, when its metadata page was just handed out, is sound and owns
\* nothing else.
LEMMA BareSound ==
  ASSUME NEW n, RamSound(n), NEW ho, NEW cn, NEW f, NEW v, Bare0(v, f), f \in Given(n), n.tag[f] = "VmoData",
         cn[f] \in [0..(v.size - 1) -> Nat]
  PROVE  VmoOK(n, cn, ho, v) /\ Sole(n, v) /\ Owned(v) = {f}
<1>1. IsVmoValue(v) /\ v.meta = f /\ \A i \in DOMAIN v.own : v.own[i] = 0
  BY DEF Bare0
<1>2. Owned(v) = {f}
  BY <1>1 DEF Owned
<1>3. f # 0
  BY GivenFacts
<1>4. VmoOK(n, cn, ho, v)
  BY <1>1, <1>2 DEF VmoOK
<1>5. Sole(n, v)
  BY <1>1, <1>2, <1>3 DEF Sole
<1> QED BY <1>2, <1>4, <1>5

\* From w to x the call has made a VMO.
Created(w, x) ==
  /\ CallOK(x) /\ HasVmo(x) /\ Sole(x.ram, x.v) /\ FramesMoved(w, x) /\ x.ok = TRUE
  /\ x.mem = w.mem /\ x.tree = w.tree /\ x.resv = w.resv /\ x.home = w.home
  /\ Owned(x.v) = {x.v.meta} /\ x.v.meta \in Fresh(w.ram, x.ram)
  /\ \A g \in Given(w.ram) : x.cells[g] = w.cells[g]
  /\ \A g \in Fresh(w.ram, x.ram) \ {x.v.meta} : x.ram.tag[g] = "Free"

\* What the constructors set.
CreateAt(w, a, f, cs, v) == [w EXCEPT !.ram = a, !.cells[f] = cs, !.v = v, !.ids = @ + 1]

IsCreateAt(w, x, a, f, cs, v) ==
  /\ DOMAIN x = CallFields /\ x.ok = w.ok /\ x.ram = a /\ x.mem = w.mem
  /\ x.tree = w.tree /\ x.resv = w.resv /\ x.v = v /\ x.cells = [w.cells EXCEPT ![f] = cs]
  /\ x.home = w.home /\ x.ids = w.ids + 1

\* That, field by field.
LEMMA CreateAtIs ==
  ASSUME NEW w, DOMAIN w = CallFields, NEW a, NEW f, NEW cs, NEW v, NEW x, x = CreateAt(w, a, f, cs, v)
  PROVE  IsCreateAt(w, x, a, f, cs, v)
<1>1. DOMAIN x = CallFields /\ x.ok = w.ok /\ x.ram = a /\ x.mem = w.mem /\ x.tree = w.tree
  BY DEF CreateAt, CallFields
<1>2. x.resv = w.resv /\ x.v = v /\ x.home = w.home
  BY DEF CreateAt, CallFields
<1>3. x.cells = [w.cells EXCEPT ![f] = cs]
  BY DEF CreateAt, CallFields
<1>4. x.ids = w.ids + 1
  BY DEF CreateAt, CallFields
<1> QED BY <1>1, <1>2, <1>3, <1>4 DEF IsCreateAt

\* A VMO in the next frame, with the cells cs.
LEMMA CreateAtSound ==
  ASSUME NEW w, CallOK(w), w.ok = TRUE, NEW a, RamSound(a), RamClean(a), NEW f, DataPage(w.ram, a, f),
         NEW ho, ho = w.home, FrameStep(w.ram, ho, a, ho),
         NEW v, Bare0(v, f), NEW cs, cs \in [0..(v.size - 1) -> Nat], NEW x, x = CreateAt(w, a, f, cs, v)
  PROVE  Created(w, x)
<1>1. PICK m, ce, cn : m = w.ram /\ ce = w.cells /\ cn = x.cells
  OBVIOUS
<1>2. DOMAIN w = CallFields /\ RamSound(m) /\ w.ids \in Nat /\ DOMAIN ce = RamFrames /\ DOMAIN ho = RamFrames
  BY <1>1 DEF CallOK, Going
<1>3. /\ DOMAIN x = CallFields /\ x.ok = w.ok /\ x.ram = a /\ x.mem = w.mem
      /\ x.tree = w.tree /\ x.resv = w.resv /\ x.v = v /\ cn = [ce EXCEPT ![f] = cs]
      /\ x.home = ho /\ x.ids = w.ids + 1
  <2>1. IsCreateAt(w, x, a, f, cs, v)
    BY <1>2, CreateAtIs
  <2> QED BY <2>1, <1>1 DEF IsCreateAt
<1>4. f \in Fresh(m, a) /\ f \in RamFrames /\ a.tag[f] = "VmoData" /\ \A g \in Fresh(m, a) \ {f} : a.tag[g] = "Free"
  BY <1>1 DEF DataPage
<1>5. Fresh(m, a) \subseteq Given(a) /\ Fresh(m, a) \cap Given(m) = {} /\ Given(m) \subseteq RamFrames
  BY <1>1, <1>2, GivenKept, GivenFacts DEF FrameStep
<1>6. DOMAIN cn = RamFrames /\ cn[f] = cs /\ \A g \in Given(m) : cn[g] = ce[g]
  BY <1>2, <1>3, <1>4, <1>5
<1>7. VmoOK(a, cn, ho, v) /\ Sole(a, v) /\ Owned(v) = {f}
  <2>1. f \in Given(a) /\ cn[f] \in [0..(v.size - 1) -> Nat]
    BY <1>4, <1>5, <1>6
  <2> QED BY <2>1, <1>4, BareSound
<1>8. CallOK(x)
  <2>1. Firm(w.ram, w.home, x.ram, x.home)
    BY <1>3, StepIsFirm
  <2>2. RamSound(x.ram) /\ RamClean(x.ram) /\ DOMAIN x.cells = RamFrames /\ DOMAIN x.home = RamFrames
        /\ x.ids \in Nat /\ x.ok \in BOOLEAN
    <3>1. x.ids \in Nat
      BY <1>2, <1>3
    <3>2. x.ok = TRUE
      BY <1>3
    <3> QED BY <3>1, <3>2, <1>1, <1>2, <1>3, <1>6
  <2> QED BY <1>3, <2>1, <2>2, RamOnly
<1>9. v.meta = f
  BY DEF Bare0
<1>10. HasVmo(x) /\ FramesMoved(w, x)
  BY <1>1, <1>3, <1>7 DEF HasVmo, FramesMoved
<1> QED BY <1>1, <1>3, <1>4, <1>6, <1>7, <1>8, <1>9, <1>10 DEF Created

\* alloc_page for a VMO.
LEMMA AllocData ==
  ASSUME NEW m, RamSound(m), RamClean(m), CanAlloc(m), NEW f, f = Candidate(m), NEW ho,
         NEW u, u = alloc_page(m, "VmoData")
  PROVE  RamSound(u) /\ RamClean(u) /\ DataPage(m, u, f) /\ FrameStep(m, ho, u, ho) /\ f \in RamFrames
<1>1. "VmoData" \in Tags
  BY DEF Tags
<1>2. /\ RamSound(u) /\ RamClean(u) /\ f \in RamFrames /\ f \notin Given(m) /\ f \in Fresh(m, u)
      /\ m.next <= u.next /\ u.panic = m.panic
      /\ \A g \in RamFrames : u.tag[g] = IF g = f THEN "VmoData" ELSE m.tag[g]
      /\ \A g \in Fresh(m, u) \ {f} : u.tag[g] = "Free"
  BY <1>1, AllocIs
<1>3. FrameStep(m, ho, u, ho)
  <2>1. Given(m) \subseteq RamFrames
    BY GivenFacts
  <2> QED BY <2>1, <1>2 DEF FrameStep
<1>4. DataPage(m, u, f)
  BY <1>2 DEF DataPage
<1> QED BY <1>2, <1>3, <1>4

\* The vector of a large VMO only stops the kernel.
LEMMA VectorKeeps ==
  ASSUME NEW m, NEW u, RamSound(u), RamClean(u), NEW f, DataPage(m, u, f), NEW ho, FrameStep(m, ho, u, ho),
         NEW n, NEW a, a = WithVector(u, n)
  PROVE  RamSound(a) /\ RamClean(a) /\ DataPage(m, a, f) /\ FrameStep(m, ho, a, ho)
<1>1. CASE a = u
  BY <1>1
<1>2. CASE a = [u EXCEPT !.panic = "heap"]
  <2>1. a \in Allocator /\ a.tag = u.tag /\ a.next = u.next /\ a.live = u.live /\ a.panic = "heap"
    BY <1>2 DEF RamSound, Allocator
  <2>2. RamSound(a) /\ RamClean(a)
    BY <2>1 DEF RamSound, RamClean
  <2>3. Fresh(m, a) = Fresh(m, u)
    BY <2>1 DEF Fresh
  <2>4. DataPage(m, a, f)
    BY <2>1, <2>3 DEF DataPage
  <2>5. FrameStep(m, ho, a, ho)
    BY <2>1 DEF FrameStep
  <2> QED BY <2>2, <2>4, <2>5
<1> QED BY <1>1, <1>2 DEF WithVector

\* The fields of a new VMO.
LEMMA VmoIs ==
  ASSUME NEW f \in RamFrames, NEW n \in Nat \ {0}, NEW id \in Int, NEW v, v = Vmo(f, n, id)
  PROVE  Bare0(v, f) /\ v.size = n /\ DOMAIN v.own = 0..(n - 1)
<1>1. /\ DOMAIN v = {"kind", "meta", "own", "size", "id"} /\ v.kind = "vmo" /\ v.meta = f
      /\ v.own = [i \in 0..(n - 1) |-> 0] /\ v.size = n /\ v.id = id
  BY DEF Vmo
<1>2. DOMAIN v.own = 0..(n - 1) /\ \A i \in DOMAIN v.own : v.own[i] = 0
  BY <1>1
<1>3. v.own \in [DOMAIN v.own -> RamFrames \cup {0}]
  BY <1>1
<1>4. IsVmoValue(v)
  BY <1>1, <1>2, <1>3 DEF IsVmoValue
<1> QED BY <1>1, <1>2, <1>4 DEF Bare0

\* An error while a VMO is made.
NotMade(w, x) ==
  /\ DOMAIN x = CallFields /\ x.ok = FALSE /\ x.ram = w.ram /\ x.mem = w.mem
  /\ x.tree = w.tree /\ x.resv = w.resv /\ x.v = NoObject /\ x.cells = w.cells
  /\ x.home = w.home /\ x.ids = w.ids

\* create_with_size makes a VMO, or nothing.
LEMMA CreateSound ==
  ASSUME NEW w, CallOK(w), NEW n, NEW x, x = create_with_size(w, n)
  PROVE  \/ NotMade(w, x)
         \/ w.ok = TRUE /\ Created(w, x) /\ x.v.size = n /\ DOMAIN x.v.own = 0..(n - 1)
<1>1. DOMAIN w = CallFields /\ w.ok \in BOOLEAN /\ w.ids \in Nat /\ RamSound(w.ram) /\ RamClean(w.ram)
  BY DEF CallOK, Going
<1>2. CASE ~w.ok \/ n \notin 1..MaxVmoPages \/ ~CanAlloc(w.ram)
  <2>1. x = [w EXCEPT !.ok = FALSE, !.v = NoObject]
    BY <1>2 DEF create_with_size
  <2>2. NotMade(w, x)
    BY <2>1, <1>1 DEF NotMade, CallFields
  <2> QED BY <2>2
<1>3. CASE ~(~w.ok \/ n \notin 1..MaxVmoPages \/ ~CanAlloc(w.ram))
  <2>1. PICK f, u, a, cs, v, ho :
          /\ f = Candidate(w.ram) /\ u = alloc_page(w.ram, "VmoData") /\ a = WithVector(u, n)
          /\ cs = [i \in 0..(n - 1) |-> 0] /\ v = Vmo(f, n, w.ids) /\ ho = w.home
    OBVIOUS
  <2>2. x = CreateAt(w, WithVector(alloc_page(w.ram, "VmoData"), n), Candidate(w.ram),
                     [i \in 0..(n - 1) |-> 0], Vmo(Candidate(w.ram), n, w.ids))
    BY <1>3, Zenon DEF create_with_size, CreateAt
  <2>3. x = CreateAt(w, a, f, cs, v)
    BY <2>1, <2>2
  <2>4. RamSound(u) /\ RamClean(u) /\ DataPage(w.ram, u, f) /\ FrameStep(w.ram, ho, u, ho) /\ f \in RamFrames
    BY <1>1, <1>3, <2>1, AllocData
  <2>5. RamSound(a) /\ RamClean(a) /\ DataPage(w.ram, a, f) /\ FrameStep(w.ram, ho, a, ho)
    BY <2>1, <2>4, VectorKeeps
  <2>6. n \in Nat \ {0} /\ w.ids \in Int
    <3>1. MaxVmoPages \in Nat
      BY MemoryAssumption
    <3> QED BY <3>1, <1>1, <1>3
  <2>7. Bare0(v, f) /\ v.size = n /\ DOMAIN v.own = 0..(n - 1)
    BY <2>1, <2>4, <2>6, VmoIs
  <2>8. cs \in [0..(v.size - 1) -> Nat]
    BY <2>1, <2>7
  <2>9. w.ok = TRUE
    BY <1>1, <1>3
  <2>10. Created(w, x)
    BY <2>1, <2>3, <2>5, <2>7, <2>8, <2>9, CreateAtSound
  <2>11. x.v = v
    <3>1. IsCreateAt(w, x, a, f, cs, v)
      BY <1>1, <2>3, CreateAtIs
    <3> QED BY <3>1 DEF IsCreateAt
  <2> QED BY <2>7, <2>9, <2>10, <2>11
<1> QED BY <1>2, <1>3

\* An error is final.
LEMMA FailTwice ==
  ASSUME NEW w, DOMAIN w = CallFields, NEW a, a = Fail(w)
  PROVE  Fail(a) = a
  BY DEF Fail, CallFields

\* After an error nothing is mapped.
LEMMA MapVmoFails ==
  ASSUME NEW w, DOMAIN w = CallFields, w.ok = FALSE, NEW off, NEW n \in Nat, NEW va, NEW attr,
         NEW x, x = MapVmo(w, off, n, va, attr)
  PROVE  x = Fail(w)
<1>1. PICK a : a = reserve_mapping(w, off, n, va)
  OBVIOUS
<1>2. a = Fail(w)
  BY <1>1 DEF reserve_mapping
<1>3. a.ok = FALSE /\ Fail(a) = a
  BY <1>2, FailIs, FailTwice
<1>4. ASSUME NEW i, NEW p
      PROVE  MapPage(a, i, p, attr) = a
  <2>1. commit_page(a, i) = a
    BY <1>3 DEF commit_page
  <2>2. MapCommitted(a, i, p, attr) = a
    BY <1>3 DEF MapCommitted
  <2> QED BY <2>1, <2>2 DEF MapPage
<1> DEFINE def(f) == [k \in 0..n |-> IF k = 0 THEN a ELSE MapPage(f[k - 1], off + k - 1, va + k - 1, attr)]
<1>5. PICK g : g = CHOOSE h : h = def(h)
  OBVIOUS
<1>6. g = def(g)
  <2>1. PICK f : MapRun(f, n, a, off, va, attr)
    BY MapRoundsExist
  <2>2. f = def(f)
    BY <2>1 DEF MapRun
  <2> QED BY <2>2, <1>5
<1>7. x = g[n]
  BY <1>1, <1>5 DEF MapVmo
<1>8. \A k \in 0..n : g[k] = IF k = 0 THEN a ELSE MapPage(g[k - 1], off + k - 1, va + k - 1, attr)
  BY <1>6
<1> DEFINE S == {k \in 0..n : g[k] = a}
<1>9. 0 \in S
  BY <1>8
<1>10. ASSUME NEW k \in 1..n, k - 1 \in S
       PROVE  k \in S
  <2>1. g[k - 1] = a /\ k \in 0..n /\ k # 0
    BY <1>10
  <2>2. PICK i, p : i = off + k - 1 /\ p = va + k - 1
    OBVIOUS
  <2>3. g[k] = MapPage(a, i, p, attr)
    BY <1>8, <2>1, <2>2
  <2> QED BY <1>4, <2>1, <2>3
<1>11. \A k \in 0..n : k \in S
  <2> HIDE DEF S
  <2> QED BY <1>9, <1>10, UpTo
<1>12. x = a
  BY <1>7, <1>11
<1> QED BY <1>2, <1>12

\* The fields of a call whose VMO was dropped.
LEMMA DropVmoIs ==
  ASSUME NEW w, DOMAIN w = CallFields, NEW a, a = DropObject(w.ram, w.v), NEW x, x = DropVmo(w)
  PROVE  /\ DOMAIN x = CallFields /\ x.ok = w.ok /\ x.ram = a /\ x.mem = w.mem
         /\ x.tree = w.tree /\ x.resv = w.resv /\ x.cells = w.cells
         /\ x.home = w.home /\ x.ids = w.ids
<1>1. x = [w EXCEPT !.ram = a, !.v = NoObject]
  BY DEF DropVmo
<1> QED BY <1>1 DEF CallFields

\* The frames of a VMO that was made in a call were handed out in it.
LEMMA OwnedFresh ==
  ASSUME NEW m, NEW n, NEW k, NEW u, NEW v, NEW f, IsVmoValue(u), Owned(u) = {u.meta}, Sole(n, u),
         OwnStep(n, u, k, v), f \in Owned(v)
  PROVE  f = u.meta \/ f \in Fresh(n, k)
<1>1. /\ v.meta = u.meta /\ DOMAIN v.own = DOMAIN u.own
      /\ \A i \in DOMAIN u.own : v.own[i] = u.own[i] \/ (u.own[i] = 0 /\ v.own[i] \in Fresh(n, k))
  BY DEF OwnStep
<1>2. \A i \in DOMAIN u.own : u.own[i] = 0
  BY DEF Sole, Owned
<1>3. f = v.meta \/ \E i \in DOMAIN v.own : f = v.own[i] /\ f # 0
  BY DEF Owned
<1> QED BY <1>1, <1>2, <1>3

\* A VMO that is made, filled, mapped and dropped again.
LEMMA MadeAndDropped ==
  ASSUME NEW w, CallOK(w), w.ok = TRUE, NEW y, Created(w, y), NEW q, CallOK(q), HasVmo(q), CallStep(y, q),
         NEW x, x = DropVmo(q)
  PROVE  CallOK(x) /\ Quiet(w, x)
<1>1. PICK m, n, k, a, ho, hn, hk, v, u :
        /\ m = w.ram /\ n = y.ram /\ k = q.ram /\ a = x.ram /\ u = y.v /\ v = q.v
        /\ ho = w.home /\ hn = y.home /\ hk = q.home
  OBVIOUS
<1>2. RamSound(m) /\ RamSound(n) /\ RamSound(k) /\ RamClean(k) /\ DOMAIN q = CallFields
      /\ q.ids \in Nat /\ q.ok \in BOOLEAN /\ DOMAIN q.cells = RamFrames /\ DOMAIN q.home = RamFrames
  BY <1>1 DEF CallOK, Going, Created
<1>3. /\ VmoOK(n, y.cells, hn, u) /\ Sole(n, u) /\ FrameStep(m, ho, n, hn) /\ Owned(u) = {u.meta}
      /\ u.meta \in Fresh(m, n) /\ y.mem = w.mem /\ y.tree = w.tree
      /\ (\A g \in Given(m) : y.cells[g] = w.cells[g])
      /\ (\A g \in Fresh(m, n) \ {u.meta} : n.tag[g] = "Free")
  BY <1>1 DEF Created, HasVmo, FramesMoved
<1>4. /\ FrameStep(n, hn, k, hk) /\ OwnStep(n, u, k, v) /\ VmoOK(k, q.cells, hk, v)
      /\ TreeStep(n, y.mem, y.tree, k, q.mem, q.tree) /\ CellStep(n, y.cells, u, k, q.cells, hk)
  BY <1>1 DEF CallStep, FramesMoved, TreeMoved, VmoStep, HasVmo
<1>5. /\ DOMAIN x = CallFields /\ x.ok = q.ok /\ a = DropObject(k, v) /\ x.mem = q.mem
      /\ x.tree = q.tree /\ x.resv = q.resv /\ x.cells = q.cells
      /\ x.home = hk /\ x.ids = q.ids
  BY <1>1, <1>2, DropVmoIs
<1>6. /\ RamSound(a) /\ RamClean(a) /\ a.next = k.next /\ Firm(k, hk, a, hk)
      /\ \A g \in RamFrames : a.tag[g] = IF g \in Owned(v) THEN "Free" ELSE k.tag[g]
      /\ \A g \in RamFrames : k.tag[g] \notin {"Free", "VmoData"} => a.tag[g] = k.tag[g]
      /\ Sole(k, v) => a.panic = k.panic
  BY <1>2, <1>4, <1>5, DropSound
<1>7. CallOK(x)
  <2>1. RamSound(x.ram) /\ RamClean(x.ram) /\ Firm(q.ram, q.home, x.ram, x.home)
    BY <1>1, <1>5, <1>6
  <2>2. DOMAIN x.cells = RamFrames /\ DOMAIN x.home = RamFrames /\ x.ids \in Nat /\ x.ok \in BOOLEAN
    BY <1>1, <1>2, <1>5
  <2> QED BY <1>5, <2>1, <2>2, RamOnly
<1>8. /\ FrameStep(m, ho, k, hk)
      /\ Fresh(m, k) = Fresh(m, n) \cup Fresh(n, k) /\ Fresh(m, n) \subseteq Given(n)
  BY <1>2, <1>3, <1>4, FrameTrans
<1>9. Given(m) \subseteq Given(n) /\ Fresh(m, n) \cap Given(m) = {} /\ Fresh(n, k) \cap Given(n) = {}
      /\ Given(k) \subseteq RamFrames /\ Given(m) \subseteq RamFrames /\ Fresh(m, k) \subseteq Given(k)
  BY <1>2, <1>3, <1>4, <1>8, GivenKept, GivenFacts DEF FrameStep
<1>10. Owned(v) \subseteq {u.meta} \cup Fresh(n, k)
  <2>1. IsVmoValue(u)
    BY <1>3 DEF VmoOK
  <2> QED BY <2>1, <1>3, <1>4, OwnedFresh
<1>11. Owned(v) \cap Given(m) = {}
  BY <1>3, <1>9, <1>10
<1>12. FrameStep(m, ho, a, hk) /\ Fresh(m, a) = Fresh(m, k)
  <2>1. Fresh(m, a) = Fresh(m, k)
    BY <1>6 DEF Fresh
  <2>2. a.panic = k.panic
    BY <1>3, <1>4, <1>6 DEF OwnStep
  <2>3. \A f \in Given(m) : a.tag[f] = k.tag[f]
    BY <1>6, <1>9, <1>11
  <2> QED BY <2>1, <2>2, <2>3, <1>6, <1>8 DEF FrameStep
<1>13. ASSUME NEW f \in Fresh(m, a)
       PROVE  a.tag[f] \notin {"VmoData", "VmarMeta"}
  <2>1. f \in RamFrames
    BY <1>9, <1>12
  <2>2. CASE f \in Owned(v)
    BY <2>1, <2>2, <1>6
  <2>3. CASE f \notin Owned(v) /\ f \in Fresh(n, k)
    <3>1. k.tag[f] \notin {"VmoData", "VmarMeta"}
      BY <2>3, <1>4 DEF OwnStep
    <3> QED BY <2>1, <2>3, <3>1, <1>6
  <2>4. CASE f \notin Owned(v) /\ f \in Fresh(m, n)
    <3>1. v.meta = u.meta
      BY <1>4 DEF OwnStep
    <3>2. f # u.meta
      BY <2>4, <3>1 DEF Owned
    <3>3. n.tag[f] = "Free" /\ k.tag[f] = n.tag[f]
      BY <2>4, <3>2, <1>3, <1>4, <1>8 DEF FrameStep
    <3> QED BY <2>1, <2>4, <3>3, <1>6
  <2> QED BY <2>2, <2>3, <2>4, <1>8, <1>12
<1>14. TreeStep(m, w.mem, w.tree, a, x.mem, x.tree)
  <2>1. PICK c, t, d, p : c = w.mem /\ t = w.tree /\ d = q.mem /\ p = q.tree
    OBVIOUS
  <2>2. TreeStep(n, c, t, k, d, p)
    BY <2>1, <1>3, <1>4
  <2>3. TreeStep(m, c, t, n, c, t)
    BY TreeRests
  <2>4. TreeStep(m, c, t, k, d, p)
    BY <2>2, <2>3, <1>2, <1>3, <1>4, TreeTrans
  <2>5. \A f \in FramesOf(d, p) \ FramesOf(c, t) : f \in Fresh(m, a) /\ a.tag[f] = "PageTable"
    <3>1. \A f \in FramesOf(d, p) \ FramesOf(c, t) : f \in Fresh(m, k) /\ k.tag[f] = "PageTable"
      BY <2>4 DEF TreeStep
    <3> QED BY <3>1, <1>6, <1>9, <1>12
  <2>6. TreeStep(m, c, t, a, d, p)
    BY <2>4, <2>5 DEF TreeStep
  <2> QED BY <2>1, <2>6, <1>5
<1>15. ASSUME NEW f \in Given(m)
       PROVE  x.cells[f] = w.cells[f]
  <2>1. f \in Given(n) \ {u.meta}
    BY <1>3, <1>9
  <2>2. q.cells[f] = y.cells[f]
    BY <2>1, <1>4 DEF CellStep
  <2> QED BY <2>2, <1>3, <1>5
<1> QED BY <1>1, <1>5, <1>7, <1>12, <1>13, <1>14, <1>15 DEF Quiet, FramesMoved, TreeMoved

\* One segment of the program.
LEMMA SegmentSound ==
  ASSUME NEW w, CallOK(w), NEW va \in Nat, NEW n \in Nat, NEW attr \in Attrs, NEW x, x = Segment(w, va, n, attr)
  PROVE  CallOK(x) /\ Quiet(w, x)
<1>1. PICK y, z, q : y = create_with_size(w, n) /\ z = commit_all(y) /\ q = MapVmo(z, 0, n, va, attr)
  OBVIOUS
<1>2. x = DropVmo(q)
  BY <1>1 DEF Segment
<1>3. NotMade(w, y) \/ (w.ok = TRUE /\ Created(w, y))
  BY <1>1, CreateSound
<1>4. CASE NotMade(w, y)
  <2>1. DOMAIN y = CallFields /\ y.ok = FALSE /\ y.v = NoObject
    BY <1>4 DEF NotMade
  <2>2. z = y
    BY <1>1, <2>1 DEF commit_all
  <2>3. q = Fail(y)
    BY <1>1, <2>1, <2>2, MapVmoFails
  <2>4. /\ DOMAIN q = CallFields /\ q.ok = FALSE /\ q.ram = y.ram /\ q.mem = y.mem
        /\ q.tree = y.tree /\ q.resv = y.resv /\ q.v = y.v /\ q.cells = y.cells
        /\ q.home = y.home /\ q.ids = y.ids
    BY <2>1, <2>3, FailIs
  <2>5. DropObject(q.ram, q.v) = q.ram
    BY <2>1, <2>4 DEF DropObject, NoObject
  <2>6. PICK a : a = DropObject(q.ram, q.v)
    OBVIOUS
  <2>7. /\ DOMAIN x = CallFields /\ x.ok = q.ok /\ x.ram = a /\ x.mem = q.mem
        /\ x.tree = q.tree /\ x.resv = q.resv /\ x.cells = q.cells
        /\ x.home = q.home /\ x.ids = q.ids
    BY <1>2, <2>4, <2>6, DropVmoIs
  <2>8. /\ DOMAIN x = CallFields /\ x.ok = FALSE /\ x.ram = w.ram /\ x.mem = w.mem
        /\ x.tree = w.tree /\ x.resv = w.resv /\ x.cells = w.cells /\ x.home = w.home /\ x.ids = w.ids
    BY <1>4, <2>4, <2>5, <2>6, <2>7 DEF NotMade
  <2>9. w.ids \in Nat
    BY DEF CallOK, Going
  <2> QED BY <2>8, <2>9, QuietSame
<1>5. CASE w.ok = TRUE /\ Created(w, y)
  <2>1. CallOK(y) /\ HasVmo(y)
    BY <1>5 DEF Created
  <2>2. Onward(y, z)
    BY <1>1, <2>1, CommitAllSound
  <2>3. CallOK(z) /\ HasVmo(z) /\ CallStep(y, z)
    BY <2>2 DEF Onward
  <2>4. CallOK(q) /\ HasVmo(q) /\ CallStep(z, q)
    <3>1. 0 \in Nat
      OBVIOUS
    <3> QED BY <3>1, <1>1, <2>3, MapVmoSound
  <2>5. CallStep(y, q)
    BY <2>1, <2>3, <2>4, CallTrans
  <2> QED BY <1>2, <1>5, <2>4, <2>5, MadeAndDropped
<1> QED BY <1>3, <1>4, <1>5

\* A launch from w to x: the first page is the VMAR's, and the launch leaves
\* no VMO behind.
Started(w, x) ==
  /\ CallOK(x) /\ FramesMoved(w, x) /\ TreeMoved(w, x)
  /\ \A f \in Given(w.ram) : x.cells[f] = w.cells[f]
  /\ \A f \in Fresh(w.ram, x.ram) : /\ x.ram.tag[f] # "VmoData"
                                    /\ x.ram.tag[f] = "VmarMeta" <=> f = Candidate(w.ram)
  /\ IF CanAlloc(w.ram) THEN Candidate(w.ram) \in Fresh(w.ram, x.ram)
                        ELSE x.ram = w.ram /\ x.mem = w.mem /\ x.ok = FALSE

\* A quiet stage after the VMAR's page was asked for.
LEMMA TakenThenQuiet ==
  ASSUME NEW w, CallOK(w), w.ok = TRUE, NEW y, y = Take(w, "VmarMeta"), CallOK(y), NEW x, CallOK(x), Quiet(y, x)
  PROVE  Started(w, x)
<1>1. "VmarMeta" \in Tags
  BY DEF Tags
<1>2. RamSound(w.ram) /\ RamSound(y.ram) /\ RamSound(x.ram) /\ DOMAIN w = CallFields
  BY DEF CallOK, Going
<1>3. CASE CanAlloc(w.ram)
  <2>1. Taken(w, y, "VmarMeta")
    BY <1>1, <1>3, TakeSound
  <2>2. PICK m, n, k, ho, hn, hk, f0 :
          /\ m = w.ram /\ n = y.ram /\ k = x.ram /\ ho = w.home /\ hn = y.home /\ hk = x.home /\ f0 = Candidate(m)
    OBVIOUS
  <2>3. /\ FrameStep(m, ho, n, hn) /\ FrameStep(n, hn, k, hk) /\ f0 \in Fresh(m, n) /\ y.cells = w.cells
        /\ \A f \in Fresh(m, n) : n.tag[f] = IF f = f0 THEN "VmarMeta" ELSE "Free"
        /\ \A f \in Fresh(n, k) : k.tag[f] \notin {"VmoData", "VmarMeta"}
        /\ \A f \in Given(n) : x.cells[f] = y.cells[f]
    BY <2>1, <2>2 DEF Taken, Quiet, FramesMoved
  <2>4. /\ FrameStep(m, ho, k, hk)
        /\ Fresh(m, k) = Fresh(m, n) \cup Fresh(n, k) /\ Fresh(m, n) \subseteq Given(n)
    BY <1>2, <2>2, <2>3, FrameTrans
  <2>5. Fresh(n, k) \cap Given(n) = {} /\ Given(m) \subseteq Given(n)
    BY <1>2, <2>2, <2>3, GivenKept DEF FrameStep
  <2>6. \A f \in Fresh(m, n) : k.tag[f] = n.tag[f]
    BY <2>3, <2>4 DEF FrameStep
  <2>7. \A f \in Fresh(m, k) : k.tag[f] # "VmoData" /\ (k.tag[f] = "VmarMeta" <=> f = f0)
    BY <2>3, <2>4, <2>5, <2>6
  <2>8. TreeMoved(w, x)
    <3>1. PICK c, d, e, t, q, p : c = w.mem /\ d = y.mem /\ e = x.mem /\ t = w.tree /\ q = y.tree /\ p = x.tree
      OBVIOUS
    <3>2. TreeStep(m, c, t, n, d, q) /\ TreeStep(n, d, q, k, e, p)
      BY <2>1, <2>2, <3>1 DEF Taken, Quiet, TreeMoved
    <3>3. TreeStep(m, c, t, k, e, p)
      BY <1>2, <2>2, <2>3, <3>2, TreeTrans
    <3> QED BY <2>2, <3>1, <3>3 DEF TreeMoved
  <2>9. \A f \in Given(m) : x.cells[f] = w.cells[f]
    BY <2>3, <2>5
  <2>10. f0 \in Fresh(m, k)
    BY <2>3, <2>4
  <2> QED BY <1>3, <2>2, <2>4, <2>7, <2>8, <2>9, <2>10 DEF Started, FramesMoved
<1>4. CASE ~CanAlloc(w.ram)
  <2>1. y = Fail(w)
    BY <1>4 DEF Take
  <2>2. /\ y.ok = FALSE /\ y.ram = w.ram /\ y.mem = w.mem
        /\ y.tree = w.tree /\ y.cells = w.cells /\ y.home = w.home
    BY <1>2, <2>1, FailIs
  <2>3. /\ FrameStep(w.ram, w.home, x.ram, x.home) /\ TreeStep(w.ram, w.mem, w.tree, x.ram, x.mem, x.tree)
        /\ x.ok = FALSE /\ x.ram = w.ram /\ x.mem = w.mem
        /\ \A f \in Given(w.ram) : x.cells[f] = w.cells[f]
    BY <2>2 DEF Quiet, FramesMoved, TreeMoved
  <2>4. Fresh(w.ram, x.ram) = {}
    BY <1>2, <2>3, GivenFacts DEF Fresh
  <2> QED BY <1>4, <2>3, <2>4 DEF Started, FramesMoved, TreeMoved
<1> QED BY <1>3, <1>4

\* The page of the VMAR is asked for.
LEMMA VmarPage ==
  ASSUME NEW w, CallOK(w), NEW y, y = Take(w, "VmarMeta")
  PROVE  CallOK(y) /\ y.tree = w.tree /\ y.mem = w.mem /\ y.cells = w.cells /\ y.home = w.home
<1>1. "VmarMeta" \in Tags
  BY DEF Tags
<1>2. CASE w.ok /\ CanAlloc(w.ram)
  BY <1>1, <1>2, TakeSound DEF Taken
<1>3. CASE ~(w.ok /\ CanAlloc(w.ram))
  <2>1. y = Fail(w) /\ DOMAIN w = CallFields
    BY <1>3 DEF Take, CallOK, Going
  <2>2. CallOK(y)
    BY <2>1, FailSound
  <2>3. y.tree = w.tree /\ y.mem = w.mem /\ y.cells = w.cells /\ y.home = w.home
    BY <2>1, FailIs
  <2> QED BY <2>2, <2>3
<1> QED BY <1>2, <1>3

\* init_in_place.
LEMMA FoundedSound ==
  ASSUME NEW w, CallOK(w), w.ok = TRUE, NEW x, x = Founded(w)
  PROVE  Started(w, x) /\ x.tree = w.tree /\ x.mem = w.mem /\ x.cells = w.cells /\ x.home = w.home
<1>1. PICK y : y = Take(w, "VmarMeta")
  OBVIOUS
<1>2. CallOK(y) /\ y.tree = w.tree /\ y.mem = w.mem /\ y.cells = w.cells /\ y.home = w.home
  BY <1>1, VmarPage
<1>3. x = HandlePage(y)
  BY <1>1 DEF Founded
<1>4. CallOK(x) /\ Quiet(y, x) /\ x.tree = y.tree /\ x.mem = y.mem /\ x.cells = y.cells /\ x.home = y.home
  BY <1>2, <1>3, HandlePageSound
<1> QED BY <1>1, <1>2, <1>4, TakenThenQuiet

\* The launch of a program.
LEMMA LaunchSound ==
  ASSUME NEW w, CallOK(w), w.ok = TRUE, w.tree = NoSpace, ttbr0.root = FirstFrame,
         \A f \in BootTables : w.mem[f] = BootMem[f], NEW x, x = LaunchedIn(w)
  PROVE  Started(w, x)
<1>1. PICK y, a, b, c, d : /\ y = Take(w, "VmarMeta") /\ a = HandlePage(y) /\ b = Treed(a)
                           /\ c = Segment(b, 0, 1, UserText) /\ d = Segment(c, StackVa, 1, UserRW)
  OBVIOUS
<1>2. x = Take(d, "KernelStack")
  BY <1>1 DEF LaunchedIn, Founded, Image, new_user
<1>3. UserText \in Attrs /\ UserRW \in Attrs /\ 0 \in Nat /\ 1 \in Nat
  BY DEF UserText, UserRW, Attrs
<1>4. StackVa \in Nat
  BY MemoryAssumption DEF UserVas
<1>5. "KernelStack" \in Tags \ {"VmoData", "VmarMeta"}
  BY DEF Tags
<1>6. CallOK(y) /\ y.tree = w.tree /\ y.mem = w.mem
  BY <1>1, VmarPage
<1>7. CallOK(a) /\ Quiet(y, a) /\ a.tree = NoSpace /\ a.mem = w.mem
  BY <1>1, <1>6, HandlePageSound
<1>8. CallOK(b) /\ Quiet(a, b)
  BY <1>1, <1>7, TreedSound
<1>9. CallOK(c) /\ Quiet(b, c)
  BY <1>1, <1>3, <1>8, SegmentSound
<1>10. CallOK(d) /\ Quiet(c, d)
  BY <1>1, <1>3, <1>4, <1>9, SegmentSound
<1>11. CallOK(x) /\ Quiet(d, x)
  BY <1>2, <1>5, <1>10, TakeQuiet
<1>12. Quiet(y, b)
  BY <1>6, <1>7, <1>8, QuietTrans
<1>13. Quiet(y, c)
  BY <1>6, <1>8, <1>9, <1>12, QuietTrans
<1>14. Quiet(y, d)
  BY <1>6, <1>9, <1>10, <1>13, QuietTrans
<1>15. Quiet(y, x)
  BY <1>6, <1>10, <1>11, <1>14, QuietTrans
<1> QED BY <1>1, <1>6, <1>11, <1>15, TakenThenQuiet

-----------------------------------------------------------------------------
(* The other constructors. *)

\* A borrowed VMO of n pages.
LEMMA BorrowedIs ==
  ASSUME NEW f \in RamFrames, NEW n \in Nat \ {0}, NEW id \in Int, NEW v, v = [Vmo(f, 0, id) EXCEPT !.size = n]
  PROVE  Bare0(v, f) /\ v.size = n
<1>1. /\ DOMAIN v = {"kind", "meta", "own", "size", "id"} /\ v.kind = "vmo" /\ v.meta = f
      /\ v.own = [i \in 0..(0 - 1) |-> 0] /\ v.size = n /\ v.id = id
  BY DEF Vmo
<1>2. DOMAIN v.own = {}
  BY <1>1
<1>3. v.own \in [DOMAIN v.own -> RamFrames \cup {0}]
  BY <1>1, <1>2
<1>4. IsVmoValue(v)
  BY <1>1, <1>2, <1>3 DEF IsVmoValue
<1> QED BY <1>1, <1>2, <1>4 DEF Bare0

\* create_physical makes a VMO, or nothing.
LEMMA PhysicalSound ==
  ASSUME NEW w, CallOK(w), NEW x, x = create_physical(w)
  PROVE  NotMade(w, x) \/ (w.ok = TRUE /\ Created(w, x))
<1>1. DOMAIN w = CallFields /\ w.ok \in BOOLEAN /\ w.ids \in Nat /\ RamSound(w.ram) /\ RamClean(w.ram)
  BY DEF CallOK, Going
<1>2. CASE ~w.ok \/ ~CanAlloc(w.ram)
  <2>1. x = [w EXCEPT !.ok = FALSE, !.v = NoObject]
    BY <1>2 DEF create_physical
  <2>2. NotMade(w, x)
    BY <2>1, <1>1 DEF NotMade, CallFields
  <2> QED BY <2>2
<1>3. CASE ~(~w.ok \/ ~CanAlloc(w.ram))
  <2>1. PICK f, a, cs, v, ho, n :
          /\ f = Candidate(w.ram) /\ a = alloc_page(w.ram, "VmoData") /\ n = Len(BootFs)
          /\ cs = [i \in 0..(n - 1) |-> BootFs[i + 1]] /\ v = [Vmo(f, 0, w.ids) EXCEPT !.size = n] /\ ho = w.home
    OBVIOUS
  <2>2. x = CreateAt(w, alloc_page(w.ram, "VmoData"), Candidate(w.ram),
                     [i \in 0..(Len(BootFs) - 1) |-> BootFs[i + 1]],
                     [Vmo(Candidate(w.ram), 0, w.ids) EXCEPT !.size = Len(BootFs)])
    BY <1>3, Zenon DEF create_physical, CreateAt
  <2>3. x = CreateAt(w, a, f, cs, v)
    BY <2>1, <2>2
  <2>4. RamSound(a) /\ RamClean(a) /\ DataPage(w.ram, a, f) /\ FrameStep(w.ram, ho, a, ho) /\ f \in RamFrames
    BY <1>1, <1>3, <2>1, AllocData
  <2>5. n \in Nat \ {0} /\ w.ids \in Int /\ cs \in [0..(n - 1) -> Nat]
    <3>1. BootFs \in Seq(Nat) /\ n \in 1..MaxVmoPages /\ MaxVmoPages \in Nat
      BY <2>1, MemoryAssumption
    <3>2. n \in Nat \ {0} /\ \A i \in 0..(n - 1) : i + 1 \in 1..n
      BY <3>1
    <3>3. \A i \in 0..(n - 1) : BootFs[i + 1] \in Nat
      BY <2>1, <3>1, <3>2
    <3> QED BY <2>1, <3>2, <3>3, <1>1
  <2>6. Bare0(v, f) /\ v.size = n
    BY <2>1, <2>4, <2>5, BorrowedIs
  <2>7. w.ok = TRUE
    BY <1>1, <1>3
  <2>8. Created(w, x)
    BY <2>1, <2>3, <2>4, <2>5, <2>6, <2>7, CreateAtSound
  <2> QED BY <2>7, <2>8
<1> QED BY <1>2, <1>3

\* What create_child_slice enters in the slice's metadata page.
ShownPages(y, u, off) ==
  [i \in 0..(y.v.size - 1) |-> IF DOMAIN u.own = {} THEN page_slot(y.cells, u, off + i) ELSE u.own[off + i]]

\* They are frame numbers.
LEMMA ShownAre ==
  ASSUME NEW w, CallOK(w), NEW u, VmoOK(w.ram, w.cells, w.home, u), NEW y, Created(w, y),
         NEW off \in Nat, off + y.v.size <= u.size
  PROVE  ShownPages(y, u, off) \in [0..(y.v.size - 1) -> Nat]
<1>1. PICK n \in Nat : n = y.v.size
  BY DEF Created, HasVmo, VmoOK, IsVmoValue
<1>2. /\ IsVmoValue(u) /\ u.meta \in Given(w.ram) /\ w.cells[u.meta] \in [0..(u.size - 1) -> Nat]
  BY DEF VmoOK, Owned
<1>3. y.cells[u.meta] = w.cells[u.meta]
  BY <1>2 DEF Created
<1>4. ASSUME NEW i \in 0..(n - 1)
      PROVE  (IF DOMAIN u.own = {} THEN page_slot(y.cells, u, off + i) ELSE u.own[off + i]) \in Nat
  <2>1. u.size \in Nat
    BY <1>2 DEF IsVmoValue
  <2>2. off + i \in 0..(u.size - 1)
    BY <2>1, <1>1
  <2>3. page_slot(y.cells, u, off + i) \in Nat
    BY <2>2, <1>2, <1>3 DEF page_slot
  <2>4. DOMAIN u.own # {} => u.own[off + i] \in RamFrames \cup {0}
    BY <2>2, <1>2 DEF IsVmoValue
  <2>5. RamFrames \cup {0} \subseteq Nat
    BY FrameAssumption DEF RamFrames
  <2> QED BY <2>3, <2>4, <2>5
<1> QED BY <1>1, <1>4 DEF ShownPages

\* A slice, with the fields that Show sets.
SliceAt(y, cs) == [y EXCEPT !.v.id = ChildId, !.cells[y.v.meta] = cs]

\* That, field by field.
LEMMA SliceIs ==
  ASSUME NEW y, DOMAIN y = CallFields, NEW cs, NEW x, x = SliceAt(y, cs)
  PROVE  /\ DOMAIN x = CallFields /\ x.ok = y.ok /\ x.ram = y.ram /\ x.mem = y.mem
         /\ x.tree = y.tree /\ x.resv = y.resv /\ x.home = y.home /\ x.ids = y.ids
         /\ x.v = [y.v EXCEPT !.id = ChildId] /\ x.cells = [y.cells EXCEPT ![y.v.meta] = cs]
<1>1. DOMAIN x = CallFields
  BY DEF SliceAt
<1>2. x.ok = y.ok /\ x.ram = y.ram /\ x.mem = y.mem
  BY DEF SliceAt, CallFields
<1>3. x.tree = y.tree /\ x.resv = y.resv /\ x.home = y.home /\ x.ids = y.ids
  BY DEF SliceAt, CallFields
<1>4. x.v = [y.v EXCEPT !.id = ChildId] /\ x.cells = [y.cells EXCEPT ![y.v.meta] = cs]
  BY DEF SliceAt, CallFields
<1> QED BY <1>1, <1>2, <1>3, <1>4

\* A new VMO stays one when it becomes a slice.
LEMMA SliceSound ==
  ASSUME NEW w, CallOK(w), NEW y, Created(w, y), NEW cs, cs \in [0..(y.v.size - 1) -> Nat],
         NEW x, x = SliceAt(y, cs)
  PROVE  Created(w, x)
<1>1. /\ CallOK(y) /\ HasVmo(y) /\ Sole(y.ram, y.v) /\ FramesMoved(w, y) /\ y.ok = TRUE
      /\ y.mem = w.mem /\ y.tree = w.tree /\ y.resv = w.resv /\ y.home = w.home
      /\ Owned(y.v) = {y.v.meta} /\ y.v.meta \in Fresh(w.ram, y.ram)
      /\ (\A g \in Given(w.ram) : y.cells[g] = w.cells[g])
      /\ (\A g \in Fresh(w.ram, y.ram) \ {y.v.meta} : y.ram.tag[g] = "Free")
  BY DEF Created
<1>2. DOMAIN y = CallFields /\ DOMAIN y.cells = RamFrames /\ RamSound(y.ram) /\ RamSound(w.ram) /\ IsVmoValue(y.v)
  BY <1>1 DEF CallOK, Going, HasVmo, VmoOK
<1>3. PICK v, z, f : v = y.v /\ z = x.v /\ f = v.meta
  OBVIOUS
<1>4. /\ DOMAIN x = CallFields /\ x.ok = y.ok /\ x.ram = y.ram /\ x.mem = y.mem
      /\ x.tree = y.tree /\ x.resv = y.resv /\ x.home = y.home /\ x.ids = y.ids
      /\ z = [v EXCEPT !.id = ChildId] /\ x.cells = [y.cells EXCEPT ![f] = cs]
  BY <1>2, <1>3, SliceIs
<1>5. /\ DOMAIN z = DOMAIN v /\ z.kind = v.kind /\ z.meta = f /\ z.own = v.own /\ z.size = v.size /\ z.id = ChildId
  BY <1>2, <1>3, <1>4 DEF IsVmoValue
<1>6. ChildId \in Int
  BY DEF ChildId
<1>7. IsVmoValue(z)
  BY <1>2, <1>3, <1>5, <1>6 DEF IsVmoValue
<1>8. \A i \in DOMAIN v.own : v.own[i] = 0
  <2>1. \A i \in DOMAIN v.own : v.own[i] # 0 => v.own[i] \in Owned(v)
    BY DEF Owned
  <2>2. Owned(v) = {f}
    BY <1>1, <1>3
  <2>3. \A i \in DOMAIN v.own : v.own[i] # f
    BY <1>1, <1>3 DEF Sole
  <2> QED BY <2>1, <2>2, <2>3
<1>9. Bare0(z, f)
  BY <1>5, <1>7, <1>8 DEF Bare0
<1>10. f \in RamFrames /\ x.cells[f] = cs /\ cs \in [0..(z.size - 1) -> Nat]
  <2>1. f \in RamFrames /\ f \in DOMAIN y.cells
    BY <1>2, <1>3 DEF IsVmoValue
  <2>2. cs \in [0..(z.size - 1) -> Nat]
    BY <1>3, <1>5
  <2> QED BY <1>4, <2>1, <2>2
<1>11. f \in Given(y.ram) /\ y.ram.tag[f] = "VmoData"
  BY <1>1, <1>3 DEF HasVmo, VmoOK, Owned, Sole
<1>12. PICK n, ho, cn : n = y.ram /\ ho = y.home /\ cn = x.cells
  OBVIOUS
<1>13. VmoOK(n, cn, ho, z) /\ Sole(n, z) /\ Owned(z) = {f}
  BY <1>2, <1>9, <1>10, <1>11, <1>12, BareSound
<1>14. \A g \in Given(w.ram) : x.cells[g] = w.cells[g]
  <2>1. f \notin Given(w.ram) /\ Given(w.ram) \subseteq RamFrames
    BY <1>1, <1>2, <1>3, GivenKept, GivenFacts DEF FramesMoved, FrameStep
  <2> QED BY <2>1, <1>1, <1>2, <1>4
<1>15. CallOK(x)
  <2>1. DOMAIN x.cells = RamFrames
    BY <1>2, <1>4
  <2> QED BY <2>1, <1>1, <1>4 DEF CallOK, Going
<1>16. HasVmo(x) /\ Sole(x.ram, x.v) /\ Owned(x.v) = {x.v.meta} /\ x.v.meta = f
  BY <1>3, <1>4, <1>5, <1>12, <1>13 DEF HasVmo
<1>17. FramesMoved(w, x)
  BY <1>1, <1>4 DEF FramesMoved
<1> QED BY <1>1, <1>3, <1>4, <1>14, <1>15, <1>16, <1>17 DEF Created

\* create_child_slice makes a VMO, or nothing.
LEMMA ChildSound ==
  ASSUME NEW w, CallOK(w), NEW u, VmoOK(w.ram, w.cells, w.home, u), NEW off \in Nat, NEW n \in Nat, off + n <= u.size,
         NEW x, x = create_child_slice(w, u, off, n)
  PROVE  NotMade(w, x) \/ (w.ok = TRUE /\ Created(w, x))
<1>1. PICK y : y = create_with_size(w, n)
  OBVIOUS
<1>2. x = Shown(y, u, off)
  BY <1>1 DEF create_child_slice
<1>3. CASE NotMade(w, y)
  <2>1. x = y
    BY <1>2, <1>3 DEF Shown, NotMade
  <2> QED BY <2>1, <1>3
<1>4. CASE w.ok = TRUE /\ Created(w, y) /\ y.v.size = n
  <2>1. x = Show(y, u, off)
    BY <1>2, <1>4 DEF Shown, Created
  <2>2. PICK cs : cs = ShownPages(y, u, off)
    OBVIOUS
  <2>3. cs \in [0..(y.v.size - 1) -> Nat]
    BY <1>4, <2>2, ShownAre
  <2>4. x = SliceAt(y, ShownPages(y, u, off))
    BY <2>1, Zenon DEF Show, SliceAt, ShownPages
  <2>5. x = SliceAt(y, cs)
    BY <2>2, <2>4
  <2> QED BY <1>4, <2>3, <2>5, SliceSound
<1> QED BY <1>1, <1>3, <1>4, CreateSound

-----------------------------------------------------------------------------
(* The steps.  A step makes a call on slot s and settles what it did. *)

\* The trees of MemInv.
LEMMA InvTrees ==
  MemInv => TreesInv
  BY DEF MemInv, MemTypes, TreesInv

\* Keeping, twice.
LEMMA FirmTrans ==
  ASSUME NEW m, NEW n, NEW k, RamSound(m), RamSound(n), RamSound(k), NEW ho, NEW hn, NEW hk,
         Firm(m, ho, n, hn), Firm(n, hn, k, hk)
  PROVE  Firm(m, ho, k, hk)
<1>1. Given(m) \subseteq Given(n)
  BY GivenKept DEF Firm
<1>2. m.next <= k.next
  BY GivenFacts DEF Firm
<1> QED BY <1>1, <1>2 DEF Firm

\* A call of slot s that has not done anything yet.
Begun(s, w) ==
  /\ w.ram = ram /\ w.mem = mem /\ w.tree = space[s] /\ w.resv = proc[s].resv
  /\ w.cells = cells /\ w.home = home /\ w.ids = ids

\* Every call starts soundly.
LEMMA CallStarts ==
  ASSUME MemInv, NEW s \in Slots, NEW v, NEW w, w = Call(s, v)
  PROVE  CallOK(w) /\ Begun(s, w) /\ w.ok = TRUE /\ w.v = v
<1>1. /\ DOMAIN w = CallFields /\ w.ok = TRUE /\ w.v = v /\ Begun(s, w)
  BY DEF Call, CallFields, Begun
<1>2. /\ RamSound(ram) /\ RamClean(ram) /\ mem \in Descriptors /\ ids \in Nat
      /\ space \in [Slots -> Spaces] /\ Orderly(space[s])
      /\ DOMAIN cells = RamFrames /\ DOMAIN home = RamFrames
      /\ Len(proc[s].resv) <= MaxMappings
      /\ FirstFrame + 3 <= ram.next
  BY DEF MemInv, MemTypes, Booted
<1>3. proc[s].resv \in Seq(Reservations)
  <2>1. proc \in [Slots -> [pid : 0..asid.made, parent : Nat, meta : RamFrames \cup {0}, resv : Seq(Reservations)]]
    BY DEF MemInv, MemTypes
  <2> QED BY <2>1
<1>4. Going(w)
  BY <1>1, <1>2, <1>3 DEF Going, Begun
<1>5. TreeBacked(ram, mem, home, space[s], proc[s].resv)
  <2>1. CASE space[s].root # 0
    <3>1. s \in Rooted
      BY <2>1 DEF Rooted
    <3>2. /\ TreeOK(mem, ram.next, space[s].root) /\ Cloned(mem, space[s].root)
          /\ Tracks(space[s].tracked, TreeFrames(mem, space[s].root))
          /\ Backed(ram, mem, home, proc[s].resv, space[s].root)
      BY <3>1 DEF MemInv, Trees, Mapped
    <3> QED BY <2>1, <3>2, <1>2 DEF TreeBacked
  <2>2. CASE space[s].root = 0
    BY <2>2, <1>2 DEF TreeBacked, Orderly
  <2> QED BY <2>1, <2>2
<1> QED BY <1>1, <1>4, <1>5 DEF CallOK, Begun

\* From m to n the frames keep what they are used for, except that pages of
\* VMOs may be freed.
UseKept(m, n) ==
  \A g \in RamFrames : n.tag[g] = m.tag[g] \/ (m.tag[g] \in {"Free", "VmoData"} /\ n.tag[g] = "Free")

\* The tree of slot s is now q, the one the call x ends with.
TreeSettled(s, x, q) ==
  /\ q \in Spaces /\ q.used = TRUE /\ q.root = x.tree.root /\ q.tracked = x.tree.tracked
  /\ space' = [space EXCEPT ![s] = q] /\ mem' = x.mem /\ home' = x.home
  /\ released' = released /\ ttbr0' = ttbr0
  /\ \A r \in Slots \ {s} : proc'[r].resv = proc[r].resv
  /\ q.root # 0 => proc'[s].resv = x.resv

\* The allocator of the call x is the next one, or that after a VMO was dropped.
RamSettled(x) ==
  /\ RamSound(ram') /\ RamClean(ram') /\ ram'.next = x.ram.next
  /\ Firm(x.ram, x.home, ram', x.home) /\ UseKept(x.ram, ram')

\* The step keeps frames in use.
LEMMA StepFirm ==
  ASSUME MemInv, NEW s \in Slots, NEW w, Begun(s, w), NEW x, CallOK(x), FramesMoved(w, x),
         RamSettled(x), home' = x.home
  PROVE  Firm(ram, home, ram', home')
<1>1. PICK m, n, k, ho, hn : m = ram /\ n = x.ram /\ k = ram' /\ ho = home /\ hn = x.home
  OBVIOUS
<1>2. RamSound(m) /\ RamSound(n) /\ RamSound(k)
  BY <1>1 DEF MemInv, MemTypes, CallOK, Going, RamSettled
<1>3. FrameStep(m, ho, n, hn) /\ Firm(n, hn, k, hn)
  BY <1>1 DEF FramesMoved, Begun, RamSettled
<1>4. Firm(m, ho, n, hn)
  BY <1>3, StepIsFirm
<1>5. Firm(m, ho, k, hn)
  BY <1>2, <1>3, <1>4, FirmTrans
<1> QED BY <1>1, <1>5

\* The tree the call ends with is that of the slot.
LEMMA TreeRenewed ==
  ASSUME MemInv, NEW s \in Slots, NEW w, Begun(s, w), NEW x, CallOK(x), FramesMoved(w, x), TreeMoved(w, x),
         RamSettled(x), NEW q, TreeSettled(s, x, q), q.root # 0
  PROVE  Renewed(s, ram', mem', q)
<1>1. PICK m, n, k, c, d, t, p, F, G :
         /\ m = ram /\ n = x.ram /\ k = ram' /\ c = mem /\ d = x.mem /\ t = space[s] /\ p = x.tree
         /\ F = FramesOf(c, t) /\ G = FramesOf(d, p)
  OBVIOUS
<1>2. RamSound(m) /\ RamSound(n) /\ RamSound(k) /\ d \in Descriptors /\ k.next = n.next
  BY <1>1 DEF MemInv, MemTypes, CallOK, Going, RamSettled
<1>3. FrameStep(m, home, n, x.home) /\ TreeStep(m, c, t, n, d, p) /\ UseKept(n, k)
  BY <1>1 DEF FramesMoved, TreeMoved, Begun, RamSettled
<1>4. /\ q \in Spaces /\ q.used = TRUE /\ q.root = p.root /\ q.tracked = p.tracked /\ p.root # 0 /\ mem' = d
  BY <1>1 DEF TreeSettled
<1>5. /\ TreeOK(d, n.next, p.root) /\ Cloned(d, p.root) /\ Tracks(p.tracked, TreeFrames(d, p.root))
  BY <1>1, <1>4 DEF CallOK, TreeBacked
<1>6. F = Held(s) /\ G = TreeFrames(d, q.root)
  BY <1>1, <1>4 DEF FramesOf, Held, Rooted
<1>7. /\ (t.root # 0 => p.root = t.root) /\ m.next <= n.next
      /\ (\A f \in G \ F : f \in Fresh(m, n) /\ n.tag[f] = "PageTable")
      /\ (\A f \in RamFrames \ G : d[f] = c[f])
      /\ (\A f \in Given(m) : n.tag[f] = m.tag[f])
  BY <1>1, <1>3 DEF TreeStep, FrameStep
<1>8. Fresh(m, n) \subseteq RamFrames /\ Fresh(m, n) = m.next..(k.next - 1)
  BY <1>2, <1>7, GivenKept, GivenFacts DEF Fresh
<1>9. \A f \in G \ F : k.tag[f] = "PageTable"
  BY <1>3, <1>7, <1>8 DEF UseKept
<1>10. ASSUME NEW f \in RamFrames, f < m.next, m.tag[f] = "PageTable"
       PROVE  k.tag[f] = "PageTable"
  <2>1. f \in Given(m)
    BY <1>2, <1>10, GivenFacts DEF Given, RamFrames
  <2> QED BY <2>1, <1>3, <1>7, <1>10 DEF UseKept
<1>11. s \in Rooted => q.root = space[s].root
  BY <1>1, <1>4, <1>7 DEF Rooted
<1>12. m.next <= k.next /\ G \ F \subseteq m.next..(k.next - 1)
  BY <1>2, <1>7, <1>8
<1> QED BY <1>1, <1>2, <1>4, <1>5, <1>6, <1>7, <1>9, <1>10, <1>11, <1>12 DEF Renewed

\* After a call the trees are sound, and those of other slots as they were.
LEMMA TreesAfter ==
  ASSUME MemInv, NEW s \in Slots, NEW w, Begun(s, w), NEW x, CallOK(x), FramesMoved(w, x), TreeMoved(w, x),
         RamSettled(x), NEW q, TreeSettled(s, x, q)
  PROVE  TreesInv' /\ \A r \in Rooted \ {s} : SamePages(mem, mem', space[r].root)
<1>1. TreesInv
  BY InvTrees
<1>2. /\ q \in Spaces /\ q.used = TRUE /\ q.root = x.tree.root /\ q.tracked = x.tree.tracked
      /\ space' = [space EXCEPT ![s] = q] /\ mem' = x.mem
      /\ released' = released /\ ttbr0' = ttbr0
  BY DEF TreeSettled
<1>3. CASE q.root # 0
  <2>1. Renewed(s, ram', mem', q)
    BY <1>3, TreeRenewed
  <2> QED BY <1>1, <1>2, <2>1, RenewedSound
<1>4. CASE q.root = 0
  <2>1. RamSound(ram) /\ RamSound(ram') /\ mem \in Descriptors /\ mem' \in Descriptors
        /\ space \in [Slots -> Spaces] /\ \A r \in Slots : Orderly(space[r])
    BY <1>2 DEF MemInv, MemTypes, CallOK, Going, RamSettled
  <2>2. TreeStep(ram, mem, space[s], x.ram, x.mem, x.tree) /\ FrameStep(ram, home, x.ram, x.home)
    BY DEF TreeMoved, FramesMoved, Begun
  <2>3. space[s].root = 0
    BY <1>2, <1>4, <2>2 DEF TreeStep
  <2>4. mem' = mem
    <3>1. \A f \in RamFrames : mem'[f] = mem[f]
      BY <1>2, <1>4, <2>2 DEF TreeStep, FramesOf
    <3> QED BY <2>1, <3>1 DEF Descriptors
  <2>5. q.tracked = <<>>
    BY <1>2, <1>4 DEF CallOK, TreeBacked
  <2>6. space' \in [Slots -> Spaces] /\ space'[s] = q /\ \A r \in Slots \ {s} : space'[r] = space[r]
    BY <1>2, <2>1
  <2>7. \A r \in Slots : Orderly(space'[r])
    BY <1>2, <1>4, <2>1, <2>5, <2>6 DEF Orderly
  <2>8. \A r \in Slots : space'[r].root = space[r].root
    BY <1>4, <2>3, <2>6
  <2>9. \A r \in Rooted : space'[r].tracked = space[r].tracked
    BY <2>3, <2>6 DEF Rooted
  <2>10. ram.next <= ram'.next
    BY <2>2 DEF FrameStep, RamSettled
  <2>11. ASSUME NEW f \in RamFrames, f < ram.next, ram.tag[f] = "PageTable"
         PROVE  ram'.tag[f] = "PageTable"
    <3>1. f \in Given(ram)
      BY <2>1, <2>11, GivenFacts DEF Given, RamFrames
    <3>2. x.ram.tag[f] = "PageTable"
      BY <2>2, <2>11, <3>1 DEF FrameStep
    <3> QED BY <3>2 DEF RamSettled, UseKept
  <2>12. TreesInv'
    BY <1>1, <1>2, <2>1, <2>4, <2>6, <2>7, <2>8, <2>9, <2>10, <2>11, TreesStay
  <2> QED BY <2>4, <2>12 DEF SamePages
<1> QED BY <1>3, <1>4

\* After a call what is mapped is still reserved.
LEMMA MappedAfter ==
  ASSUME MemInv, NEW s \in Slots, NEW w, Begun(s, w), NEW x, CallOK(x), FramesMoved(w, x), TreeMoved(w, x),
         RamSettled(x), NEW q, TreeSettled(s, x, q)
  PROVE  Mapped'
<1>1. /\ space' = [space EXCEPT ![s] = q] /\ mem' = x.mem /\ home' = x.home /\ q.root = x.tree.root
      /\ \A r \in Slots \ {s} : proc'[r].resv = proc[r].resv
      /\ q.root # 0 => proc'[s].resv = x.resv
  BY DEF TreeSettled
<1>2. RamSound(ram) /\ RamSound(ram') /\ RamSound(x.ram) /\ space \in [Slots -> Spaces]
  BY DEF MemInv, MemTypes, RamSettled, CallOK, Going
<1>3. space'[s] = q /\ \A r \in Slots \ {s} : space'[r] = space[r]
  BY <1>1, <1>2
<1>4. ASSUME NEW r \in Slots, r # s, space'[r].root # 0
      PROVE  Backed(ram', mem', home', proc'[r].resv, space'[r].root)
  <2>1. space'[r].root = space[r].root /\ r \in Rooted /\ proc'[r].resv = proc[r].resv
    BY <1>1, <1>3, <1>4 DEF Rooted
  <2>2. PICK m, n, ho, hn, c, d, a, z : /\ m = ram /\ n = ram' /\ ho = home /\ hn = home' /\ c = mem /\ d = mem'
                                        /\ a = proc[r].resv /\ z = space[r].root
    OBVIOUS
  <2>3. Firm(m, ho, n, hn) /\ SamePages(c, d, z) /\ Backed(m, c, ho, a, z) /\ ResvKept(a, a)
    <3>1. Firm(m, ho, n, hn)
      BY <1>1, <2>2, StepFirm
    <3>2. SamePages(c, d, z)
      BY <1>4, <2>1, <2>2, TreesAfter
    <3>3. Backed(m, c, ho, a, z)
      BY <2>1, <2>2 DEF MemInv, Mapped
    <3> QED BY <3>1, <3>2, <3>3 DEF ResvKept
  <2>4. Backed(n, d, hn, a, z)
    BY <1>2, <2>2, <2>3, BackedKept
  <2> QED BY <2>1, <2>2, <2>4
<1>5. ASSUME q.root # 0
      PROVE  Backed(ram', mem', home', proc'[s].resv, q.root)
  <2>1. PICK m, n, ho, c, a, z : m = x.ram /\ n = ram' /\ ho = x.home /\ c = x.mem /\ a = x.resv /\ z = q.root
    OBVIOUS
  <2>2. Backed(m, c, ho, a, z) /\ Firm(m, ho, n, ho) /\ SamePages(c, c, z) /\ ResvKept(a, a)
    BY <1>1, <1>5, <2>1 DEF CallOK, TreeBacked, RamSettled, SamePages, ResvKept
  <2>3. Backed(n, c, ho, a, z)
    BY <1>2, <2>1, <2>2, BackedKept
  <2> QED BY <1>1, <1>5, <2>1, <2>3
<1> QED BY <1>3, <1>4, <1>5 DEF Mapped, Rooted

-----------------------------------------------------------------------------
(* The VMOs after a step. *)

ObjectAt(t, ph) == t[ph[1]][ph[2]]

\* The handles of VMOs.
LEMMA VmoHandlesAre ==
  /\ \A ph : ph \in VmoHandles <=> ph \in Slots \X Handles /\ ObjectAt(table, ph).kind = "vmo"
  /\ \A ph : ph \in VmoHandles' <=> ph \in Slots \X Handles /\ ObjectAt(table', ph).kind = "vmo"
  BY DEF VmoHandles, IsVmo, ObjectAt

\* The VMOs of MemInv.
LEMMA InvObjects ==
  ASSUME MemInv
  PROVE  /\ \A ph \in VmoHandles : VmoOK(ram, cells, home, ObjectAt(table, ph))
         /\ \A ph, qh \in VmoHandles :
              ObjectAt(table, ph).meta = ObjectAt(table, qh).meta =>
                 ObjectAt(table, ph).id = ObjectAt(table, qh).id /\ ObjectAt(table, ph).size = ObjectAt(table, qh).size
         /\ cloned = {} => /\ ram.panic # "double-free"
                           /\ \A ph \in VmoHandles : Sole(ram, ObjectAt(table, ph))
                           /\ \A ph, qh \in VmoHandles :
                                ph # qh => Owned(ObjectAt(table, ph)) \cap Owned(ObjectAt(table, qh)) = {}
  BY DEF MemInv, Objects, Owners, ObjectAt

\* A VMO whose metadata page was not written stays sound.
LEMMA VmoStays ==
  ASSUME MemInv, RamSound(ram'), Firm(ram, home, ram', home'), NEW ph \in VmoHandles,
         cells'[ObjectAt(table, ph).meta] = cells[ObjectAt(table, ph).meta]
  PROVE  VmoOK(ram', cells', home', ObjectAt(table, ph))
<1>1. PICK m, n, ho, hn, ce, cn, v : /\ m = ram /\ n = ram' /\ ho = home /\ hn = home' /\ ce = cells /\ cn = cells'
                                     /\ v = ObjectAt(table, ph)
  OBVIOUS
<1>2. VmoOK(m, ce, ho, v) /\ RamSound(m) /\ RamSound(n)
  BY <1>1, InvObjects DEF MemInv, MemTypes
<1>3. cn[v.meta] \in [0..(v.size - 1) -> Nat] /\ \A i \in 0..(v.size - 1) : cn[v.meta][i] = ce[v.meta][i]
  BY <1>1, <1>2 DEF VmoOK
<1>4. VmoOK(n, cn, hn, v)
  BY <1>1, <1>2, <1>3, VmoKept
<1> QED BY <1>1, <1>4

\* Metadata pages are frames that were handed out.
LEMMA MetaGiven ==
  ASSUME MemInv, NEW ph \in VmoHandles
  PROVE  /\ ObjectAt(table, ph).meta \in Given(ram) /\ Owned(ObjectAt(table, ph)) \subseteq Given(ram)
         /\ Given(ram) \subseteq RamFrames
<1>1. VmoOK(ram, cells, home, ObjectAt(table, ph)) /\ RamSound(ram)
  BY InvObjects DEF MemInv, MemTypes
<1> QED BY <1>1, GivenFacts DEF VmoOK, Owned

\* Nothing new in the tables.
LEMMA ObjectsFewer ==
  ASSUME MemInv, VmoHandles' \subseteq VmoHandles,
         \A ph \in VmoHandles' : /\ ObjectAt(table', ph) = ObjectAt(table, ph)
                                 /\ VmoOK(ram', cells', home', ObjectAt(table, ph))
  PROVE  Objects'
<1>1. ASSUME NEW ph \in VmoHandles', NEW qh \in VmoHandles', ObjectAt(table', ph).meta = ObjectAt(table', qh).meta
      PROVE  /\ ObjectAt(table', ph).id = ObjectAt(table', qh).id
             /\ ObjectAt(table', ph).size = ObjectAt(table', qh).size
  BY <1>1, InvObjects
<1>2. \A ph \in VmoHandles' : VmoOK(ram', cells', home', ObjectAt(table', ph))
  OBVIOUS
<1> QED BY <1>1, <1>2 DEF Objects, ObjectAt

\* One new or changed VMO in the tables.
LEMMA ObjectsWith ==
  ASSUME MemInv, NEW a, NEW o, VmoHandles' \subseteq VmoHandles \cup {a}, ObjectAt(table', a) = o,
         \A ph \in VmoHandles' \ {a} : /\ ObjectAt(table', ph) = ObjectAt(table, ph)
                                       /\ VmoOK(ram', cells', home', ObjectAt(table, ph))
                                       /\ ObjectAt(table, ph).meta = o.meta =>
                                            ObjectAt(table, ph).id = o.id /\ ObjectAt(table, ph).size = o.size,
         VmoOK(ram', cells', home', o)
  PROVE  Objects'
<1>1. ASSUME NEW ph \in VmoHandles', NEW qh \in VmoHandles', ObjectAt(table', ph).meta = ObjectAt(table', qh).meta
      PROVE  /\ ObjectAt(table', ph).id = ObjectAt(table', qh).id
             /\ ObjectAt(table', ph).size = ObjectAt(table', qh).size
  <2>1. CASE ph = a \/ qh = a
    BY <1>1, <2>1
  <2>2. CASE ph # a /\ qh # a
    BY <1>1, <2>2, InvObjects
  <2> QED BY <2>1, <2>2
<1>2. \A ph \in VmoHandles' : VmoOK(ram', cells', home', ObjectAt(table', ph))
  OBVIOUS
<1> QED BY <1>1, <1>2 DEF Objects, ObjectAt

\* Of a VMO's frames the tags are kept.
TagsKept(v) == \A f \in Owned(v) : ram'.tag[f] = ram.tag[f]

\* Nothing new is owned.
LEMMA OwnersFewer ==
  ASSUME MemInv, cloned \subseteq cloned', VmoHandles' \subseteq VmoHandles,
         cloned = {} => ram'.panic # "double-free",
         \A ph \in VmoHandles' : /\ ObjectAt(table', ph) = ObjectAt(table, ph)
                                 /\ cloned = {} => TagsKept(ObjectAt(table, ph))
  PROVE  Owners'
<1> SUFFICES ASSUME cloned' = {}
             PROVE  /\ ram'.panic # "double-free"
                    /\ \A ph \in VmoHandles' : Sole(ram', ObjectAt(table', ph))
                    /\ \A ph, qh \in VmoHandles' :
                         ph # qh => Owned(ObjectAt(table', ph)) \cap Owned(ObjectAt(table', qh)) = {}
  BY DEF Owners, ObjectAt
<1>1. cloned = {}
  OBVIOUS
<1>2. ASSUME NEW ph \in VmoHandles'
      PROVE  Sole(ram', ObjectAt(table', ph))
  <2>1. Sole(ram, ObjectAt(table, ph)) /\ TagsKept(ObjectAt(table, ph))
    BY <1>1, InvObjects
  <2>2. Sole(ram', ObjectAt(table, ph))
    BY <2>1 DEF Sole, TagsKept
  <2> QED BY <2>2
<1> QED BY <1>1, <1>2, InvObjects

\* One VMO is new or has changed.
LEMMA OwnersWith ==
  ASSUME MemInv, cloned \subseteq cloned', NEW a, NEW o, VmoHandles' \subseteq VmoHandles \cup {a},
         ObjectAt(table', a) = o, cloned = {} => ram'.panic # "double-free" /\ Sole(ram', o),
         \A ph \in VmoHandles' \ {a} :
            /\ ObjectAt(table', ph) = ObjectAt(table, ph)
            /\ cloned = {} => TagsKept(ObjectAt(table, ph)) /\ Owned(ObjectAt(table, ph)) \cap Owned(o) = {}
  PROVE  Owners'
<1> SUFFICES ASSUME cloned' = {}
             PROVE  /\ ram'.panic # "double-free"
                    /\ \A ph \in VmoHandles' : Sole(ram', ObjectAt(table', ph))
                    /\ \A ph, qh \in VmoHandles' :
                         ph # qh => Owned(ObjectAt(table', ph)) \cap Owned(ObjectAt(table', qh)) = {}
  BY DEF Owners, ObjectAt
<1>1. cloned = {}
  OBVIOUS
<1>2. ASSUME NEW ph \in VmoHandles'
      PROVE  Sole(ram', ObjectAt(table', ph))
  <2>1. CASE ph = a
    BY <1>1, <2>1
  <2>2. CASE ph # a
    <3>1. Sole(ram, ObjectAt(table, ph)) /\ TagsKept(ObjectAt(table, ph)) /\ ObjectAt(table', ph) = ObjectAt(table, ph)
      BY <1>1, <2>2, InvObjects
    <3>2. Sole(ram', ObjectAt(table, ph))
      BY <3>1 DEF Sole, TagsKept
    <3> QED BY <3>1, <3>2
  <2> QED BY <2>1, <2>2
<1>3. ASSUME NEW ph \in VmoHandles', NEW qh \in VmoHandles', ph # qh
      PROVE  Owned(ObjectAt(table', ph)) \cap Owned(ObjectAt(table', qh)) = {}
  <2>1. CASE ph = a
    BY <1>1, <1>3, <2>1
  <2>2. CASE qh = a
    BY <1>1, <1>3, <2>2
  <2>3. CASE ph # a /\ qh # a
    BY <1>1, <1>3, <2>3, InvObjects
  <2> QED BY <2>1, <2>2, <2>3
<1> QED BY <1>1, <1>2, <1>3

\* A table entry is replaced.
TableWith(p, h, o) == table' = [table EXCEPT ![p][h] = o]

\* The rest of the tables stays.
LEMMA TableSet ==
  ASSUME MemInv, NEW p \in Slots, NEW h \in Handles, NEW o, TableWith(p, h, o)
  PROVE  /\ DOMAIN table' = Slots /\ \A s \in Slots : DOMAIN table'[s] = Handles
         /\ ObjectAt(table', <<p, h>>) = o
         /\ \A ph \in Slots \X Handles : ph # <<p, h>> => ObjectAt(table', ph) = ObjectAt(table, ph)
<1>1. DOMAIN table = Slots /\ \A s \in Slots : DOMAIN table[s] = Handles
  BY DEF MemInv, MemTypes
<1>2. PICK row : row = [table[p] EXCEPT ![h] = o]
  OBVIOUS
<1>3. table' = [table EXCEPT ![p] = row]
  BY <1>2 DEF TableWith
<1>4. DOMAIN row = Handles /\ row[h] = o /\ \A k \in Handles \ {h} : row[k] = table[p][k]
  BY <1>1, <1>2
<1>5. DOMAIN table' = Slots /\ table'[p] = row /\ \A s \in Slots \ {p} : table'[s] = table[s]
  BY <1>1, <1>3
<1>6. \A s \in Slots : DOMAIN table'[s] = Handles
  BY <1>1, <1>4, <1>5
<1>7. ASSUME NEW s \in Slots, NEW k \in Handles, <<s, k>> # <<p, h>>
      PROVE  table'[s][k] = table[s][k]
  BY <1>4, <1>5, <1>7
<1>8. table'[p][h] = o
  BY <1>4, <1>5
<1>9. ASSUME NEW ph \in Slots \X Handles, ph # <<p, h>>
      PROVE  ObjectAt(table', ph) = ObjectAt(table, ph)
  <2>1. ph = <<ph[1], ph[2]>> /\ ph[1] \in Slots /\ ph[2] \in Handles
    OBVIOUS
  <2> QED BY <2>1, <1>7, <1>9 DEF ObjectAt
<1> QED BY <1>5, <1>6, <1>8, <1>9 DEF ObjectAt

-----------------------------------------------------------------------------
(* The frames and the processes after a step. *)

Vmars(m) == {f \in RamFrames : m.tag[f] = "VmarMeta"}
Datas(m) == {f \in RamFrames : m.tag[f] = "VmoData"}
Metas(pr) == {pr[s].meta : s \in Slots} \ {0}

\* No frame is lost, by parts.
LEMMA InvLost ==
  /\ MemInv => /\ Vmars(ram) = Metas(proc)
               /\ \A f \in Datas(ram) : f \in lost \/ \E ph \in VmoHandles : f \in Owned(ObjectAt(table, ph))
  /\ /\ Vmars(ram') = Metas(proc')
     /\ \A f \in Datas(ram') : f \in lost' \/ \E ph \in VmoHandles' : f \in Owned(ObjectAt(table', ph))
     => NothingLost'
<1>1. MemInv => /\ Vmars(ram) = Metas(proc)
                /\ \A f \in Datas(ram) : f \in lost \/ \E ph \in VmoHandles : f \in Owned(ObjectAt(table, ph))
  BY DEF MemInv, NothingLost, Vmars, Metas, Datas, ObjectAt
<1>2. ASSUME Vmars(ram') = Metas(proc'),
             \A f \in Datas(ram') : f \in lost' \/ \E ph \in VmoHandles' : f \in Owned(ObjectAt(table', ph))
      PROVE  NothingLost'
  <2>1. {f \in RamFrames : ram'.tag[f] = "VmarMeta"} = {proc'[s].meta : s \in Slots} \ {0}
    BY <1>2 DEF Vmars, Metas
  <2>2. {f \in RamFrames : ram'.tag[f] = "VmoData"} \subseteq
          lost' \cup UNION {Owned(table'[ph[1]][ph[2]]) : ph \in VmoHandles'}
    BY <1>2 DEF Datas, ObjectAt
  <2> QED BY <2>1, <2>2 DEF NothingLost
<1> QED BY <1>1, <1>2

\* The frames in use after a call were so before it, or were handed out in it.
LEMMA TagsAfter ==
  ASSUME MemInv, NEW s \in Slots, NEW w, Begun(s, w), NEW x, CallOK(x), FramesMoved(w, x), RamSettled(x),
         NEW f \in RamFrames, ram'.tag[f] # "Free"
  PROVE  /\ x.ram.tag[f] = ram'.tag[f]
         /\ (f \in Given(ram) /\ ram.tag[f] = ram'.tag[f]) \/ f \in Fresh(ram, x.ram)
<1>1. x.ram.tag[f] = ram'.tag[f]
  BY DEF RamSettled, UseKept
<1>2. /\ RamSound(ram) /\ RamSound(x.ram) /\ RamClean(x.ram) /\ FrameStep(ram, home, x.ram, x.home)
  BY DEF MemInv, MemTypes, CallOK, Going, FramesMoved, Begun
<1>3. /\ ram.next \in Nat /\ x.ram.next \in Nat /\ FirstFrame \in Nat /\ FirstFrame <= ram.next
      /\ f \in Nat /\ FirstFrame <= f
  BY <1>2, GivenFacts, FrameAssumption DEF RamFrames
<1>4. f < x.ram.next
  BY <1>1, <1>2, <1>3 DEF RamClean
<1>5. f \in Given(ram) \/ f \in Fresh(ram, x.ram)
  BY <1>3, <1>4 DEF Given, Fresh
<1> QED BY <1>1, <1>2, <1>5 DEF FrameStep

\* What is used for VMARs.
LEMMA VmarsAfter ==
  ASSUME MemInv, NEW s \in Slots, NEW w, Begun(s, w), NEW x, CallOK(x), FramesMoved(w, x), RamSettled(x)
  PROVE  Vmars(ram') = Vmars(ram) \cup {f \in Fresh(ram, x.ram) : x.ram.tag[f] = "VmarMeta"}
<1>1. /\ RamSound(ram) /\ RamSound(x.ram) /\ RamClean(ram) /\ FrameStep(ram, home, x.ram, x.home)
      /\ Fresh(ram, x.ram) \subseteq RamFrames
  <2>1. /\ RamSound(ram) /\ RamSound(x.ram) /\ RamClean(ram) /\ FrameStep(ram, home, x.ram, x.home)
    BY DEF MemInv, MemTypes, CallOK, Going, FramesMoved, Begun
  <2> QED BY <2>1, GivenKept, GivenFacts DEF FrameStep
<1>2. ASSUME NEW f \in Vmars(ram')
      PROVE  f \in Vmars(ram) \/ (f \in Fresh(ram, x.ram) /\ x.ram.tag[f] = "VmarMeta")
  <2>1. f \in RamFrames /\ ram'.tag[f] = "VmarMeta"
    BY <1>2 DEF Vmars
  <2> QED BY <2>1, TagsAfter DEF Vmars
<1>3. ASSUME NEW f \in Vmars(ram)
      PROVE  f \in Vmars(ram')
  <2>1. f \in RamFrames /\ ram.tag[f] = "VmarMeta"
    BY <1>3 DEF Vmars
  <2>2. f \in Given(ram)
    BY <2>1, <1>1, GivenFacts, FrameAssumption DEF RamClean, Given, RamFrames
  <2>3. x.ram.tag[f] = "VmarMeta"
    BY <2>1, <2>2, <1>1 DEF FrameStep
  <2> QED BY <2>1, <2>3 DEF RamSettled, UseKept, Vmars
<1>4. ASSUME NEW f \in Fresh(ram, x.ram), x.ram.tag[f] = "VmarMeta"
      PROVE  f \in Vmars(ram')
  BY <1>1, <1>4 DEF RamSettled, UseKept, Vmars
<1> QED BY <1>2, <1>3, <1>4

\* The processes of MemInv.
LEMMA InvProcesses ==
  ASSUME MemInv, NEW s \in Slots
  PROVE  /\ proc[s] \in [pid : 0..asid.made, parent : Nat, meta : RamFrames \cup {0}, resv : Seq(Reservations)]
         /\ Len(proc[s].resv) <= MaxMappings /\ space[s] \in Spaces /\ Orderly(space[s])
         /\ ~space[s].used => proc[s] = NoProcess /\ space[s] = NoSpace
         /\ proc[s].pid # 0 => proc[s].meta # 0
         /\ proc[s].meta # 0 => proc[s].meta \in Given(ram)
  BY DEF MemInv, MemTypes, Processes

\* No process comes or goes.
LEMMA ProcessesStay ==
  ASSUME MemInv, RamSound(ram'), ram.next <= ram'.next, Vmars(ram') = Vmars(ram),
         \A s \in Slots : /\ proc'[s].meta = proc[s].meta /\ proc'[s].pid = proc[s].pid
                          /\ ~space'[s].used => proc'[s] = NoProcess /\ space'[s] = NoSpace
  PROVE  Processes' /\ Vmars(ram') = Metas(proc')
<1>1. Given(ram) \subseteq Given(ram')
  <2>1. RamSound(ram)
    BY DEF MemInv, MemTypes
  <2> QED BY <2>1, GivenKept
<1>2. Metas(proc') = Metas(proc)
  BY DEF Metas
<1>3. \A s, r \in Slots : proc[s].meta = proc[r].meta /\ proc[s].meta # 0 => s = r
  BY DEF MemInv, Processes
<1>4. \A s \in Slots : /\ (proc'[s].pid # 0 => proc'[s].meta # 0)
                       /\ (proc'[s].meta # 0 => proc'[s].meta \in Given(ram'))
  BY <1>1, InvProcesses
<1>5. \A s, r \in Slots : proc'[s].meta = proc'[r].meta /\ proc'[s].meta # 0 => s = r
  BY <1>3
<1>6. Vmars(ram) = Metas(proc)
  BY InvLost
<1> QED BY <1>2, <1>4, <1>5, <1>6 DEF Processes

\* A process comes, whose VMAR is in frame f.
LEMMA ProcessesGrow ==
  ASSUME MemInv, RamSound(ram'), ram.next <= ram'.next, NEW s \in Slots, ~space[s].used,
         NEW f \in Fresh(ram, ram'), Vmars(ram') = Vmars(ram) \cup {f},
         proc'[s].meta = f, space'[s].used,
         \A r \in Slots \ {s} : proc'[r] = proc[r] /\ space'[r] = space[r]
  PROVE  Processes' /\ Vmars(ram') = Metas(proc')
<1>1. Given(ram) \subseteq Given(ram') /\ f \in Given(ram') /\ f \notin Given(ram) /\ f # 0
  <2>1. RamSound(ram)
    BY DEF MemInv, MemTypes
  <2>2. Given(ram) \subseteq Given(ram') /\ f \in Given(ram') /\ f \notin Given(ram)
    BY <2>1, GivenKept
  <2> QED BY <2>2, GivenFacts
<1>2. \A q, r \in Slots : proc[q].meta = proc[r].meta /\ proc[q].meta # 0 => q = r
  BY DEF MemInv, Processes
<1>3. proc[s].meta = 0
  <2>1. proc[s] = NoProcess
    BY InvProcesses
  <2> QED BY <2>1 DEF NoProcess
<1>4. \A r \in Slots : /\ (~space'[r].used => proc'[r] = NoProcess /\ space'[r] = NoSpace)
                       /\ (proc'[r].pid # 0 => proc'[r].meta # 0)
                       /\ (proc'[r].meta # 0 => proc'[r].meta \in Given(ram'))
  BY <1>1, InvProcesses
<1>5. \A r \in Slots \ {s} : proc'[r].meta # f
  BY <1>1, InvProcesses
<1>6. \A q, r \in Slots : proc'[q].meta = proc'[r].meta /\ proc'[q].meta # 0 => q = r
  BY <1>2, <1>5
<1>7. Metas(proc') = Metas(proc) \cup {f}
  <2>1. ASSUME NEW z \in Metas(proc')
        PROVE  z \in Metas(proc) \cup {f}
    BY <2>1 DEF Metas
  <2>2. ASSUME NEW z \in Metas(proc)
        PROVE  z \in Metas(proc')
    <3>1. PICK r \in Slots : z = proc[r].meta /\ z # 0
      BY <2>2 DEF Metas
    <3>2. r # s
      BY <3>1, <1>3
    <3> QED BY <3>1, <3>2 DEF Metas
  <2>3. f \in Metas(proc')
    BY <1>1 DEF Metas
  <2> QED BY <2>1, <2>2, <2>3
<1>8. Vmars(ram) = Metas(proc)
  BY InvLost
<1> QED BY <1>4, <1>6, <1>7, <1>8 DEF Processes

\* The types of processes.
ProcessTypes ==
  /\ proc' \in [Slots -> [pid : 0..asid'.made, parent : Nat, meta : RamFrames \cup {0}, resv : Seq(Reservations)]]
  /\ \A s \in Slots : Len(proc'[s].resv) <= MaxMappings
  /\ asid' \in [next : 1..(MaxUserAsid + 1), made : Nat]

\* The types after a call.
LEMMA TypesAfter ==
  ASSUME MemInv, TreesInv', RamClean(ram'), Calling, UNCHANGED OfTables, ProcessTypes, ids' \in Nat,
         DOMAIN cells' = RamFrames, DOMAIN home' = RamFrames,
         DOMAIN table' = Slots, \A s \in Slots : DOMAIN table'[s] = Handles,
         lost' \subseteq RamFrames, cloned' \subseteq RamFrames
  PROVE  MemTypes'
<1>1. calls' \in 0..MaxCalls
  <2>1. MaxCalls \in Nat /\ calls \in 0..MaxCalls
    BY MemoryAssumption DEF MemInv, MemTypes
  <2> QED BY <2>1 DEF Calling
<1>2. ttbr0' = [root |-> FirstFrame, asid |-> 0] /\ released' = {} /\ tlb' = {}
  BY DEF MemInv, MemTypes, OfTables
<1>3. /\ RamSound(ram') /\ mem' \in Descriptors /\ space' \in [Slots -> Spaces]
      /\ \A s \in Slots : Orderly(space'[s])
  BY DEF TreesInv
<1> QED BY <1>1, <1>2, <1>3 DEF MemTypes, ProcessTypes

\* All parts together.
LEMMA InvAfter ==
  ASSUME MemTypes', TreesInv', Objects', Processes', Owners', Mapped', NothingLost'
  PROVE  MemInv'
  BY DEF MemInv, TreesInv

\* What a VMO owned it still owns, and the rest was just handed out.
LEMMA OwnedGrows ==
  ASSUME NEW m, NEW n, NEW v, NEW y, OwnStep(m, v, n, y), 0 \notin Fresh(m, n)
  PROVE  Owned(v) \subseteq Owned(y) /\ Owned(y) \subseteq Owned(v) \cup Fresh(m, n)
<1>1. /\ y.meta = v.meta /\ DOMAIN y.own = DOMAIN v.own
      /\ \A i \in DOMAIN v.own : y.own[i] = v.own[i] \/ (v.own[i] = 0 /\ y.own[i] \in Fresh(m, n))
  BY DEF OwnStep
<1>2. ASSUME NEW f \in Owned(v) PROVE f \in Owned(y)
  <2>1. CASE f = v.meta
    BY <2>1, <1>1 DEF Owned
  <2>2. CASE \E i \in DOMAIN v.own : f = v.own[i] /\ f # 0
    <3>1. PICK i \in DOMAIN v.own : f = v.own[i] /\ f # 0
      BY <2>2
    <3>2. i \in DOMAIN y.own /\ y.own[i] = f
      BY <3>1, <1>1
    <3> QED BY <3>1, <3>2 DEF Owned
  <2> QED BY <2>1, <2>2, <1>2 DEF Owned
<1>3. ASSUME NEW f \in Owned(y) PROVE f \in Owned(v) \cup Fresh(m, n)
  <2>1. CASE f = y.meta
    BY <2>1, <1>1 DEF Owned
  <2>2. CASE \E i \in DOMAIN y.own : f = y.own[i] /\ f # 0
    <3>1. PICK i \in DOMAIN y.own : f = y.own[i] /\ f # 0
      BY <2>2
    <3>2. i \in DOMAIN v.own /\ (v.own[i] = f \/ f \in Fresh(m, n))
      BY <3>1, <1>1
    <3> QED BY <3>1, <3>2 DEF Owned
  <2> QED BY <2>1, <2>2, <1>3 DEF Owned
<1> QED BY <1>2, <1>3

\* A call that ends without dropping anything.
LEMMA RamSettles ==
  ASSUME NEW x, CallOK(x), ram' = x.ram
  PROVE  RamSettled(x)
<1>1. RamSound(ram') /\ RamClean(ram') /\ ram'.next = x.ram.next /\ UseKept(x.ram, ram')
  BY DEF CallOK, Going, UseKept
<1>2. Firm(x.ram, x.home, ram', x.home)
  <2>1. x.ram.next \in Nat
    BY GivenFacts DEF CallOK, Going
  <2> QED BY <2>1 DEF Firm
<1> QED BY <1>1, <1>2 DEF RamSettled

\* The tree and the reservations of the call are settled in slot s, which is
\* in use.
LEMMA TreeSettles ==
  ASSUME MemInv, NEW s \in Slots, space[s].used, NEW w, Begun(s, w), NEW x, CallOK(x), TreeMoved(w, x),
         Settle(s, x), UNCHANGED OfTables
  PROVE  /\ TreeSettled(s, x, x.tree)
         /\ \A r \in Slots : /\ proc'[r].meta = proc[r].meta /\ proc'[r].pid = proc[r].pid
                             /\ ~space'[r].used => proc'[r] = NoProcess /\ space'[r] = NoSpace
         /\ UNCHANGED asid => ProcessTypes
<1>1. /\ proc \in [Slots -> [pid : 0..asid.made, parent : Nat, meta : RamFrames \cup {0}, resv : Seq(Reservations)]]
      /\ space \in [Slots -> Spaces] /\ asid \in [next : 1..(MaxUserAsid + 1), made : Nat]
      /\ \A r \in Slots : Len(proc[r].resv) <= MaxMappings
  BY DEF MemInv, MemTypes
<1>2. mem' = x.mem /\ home' = x.home /\ space' = [space EXCEPT ![s] = x.tree]
      /\ proc' = [proc EXCEPT ![s].resv = x.resv] /\ released' = released /\ ttbr0' = ttbr0
  BY DEF Settle, OfTables
<1>3. x.tree \in Spaces /\ x.resv \in Seq(Reservations) /\ Len(x.resv) <= MaxMappings
  BY DEF CallOK, Going, TreeBacked
<1>4. x.tree.used = TRUE
  <2>1. x.tree.used = space[s].used
    BY DEF TreeMoved, TreeStep, Begun
  <2> QED BY <1>3, <2>1 DEF Spaces
<1>5. PICK z : z = [proc[s] EXCEPT !.resv = x.resv]
  OBVIOUS
<1>6. /\ z \in [pid : 0..asid.made, parent : Nat, meta : RamFrames \cup {0}, resv : Seq(Reservations)]
      /\ z.resv = x.resv /\ z.meta = proc[s].meta /\ z.pid = proc[s].pid
  BY <1>1, <1>3, <1>5
<1>7. proc'[s] = z /\ \A r \in Slots \ {s} : proc'[r] = proc[r]
  BY <1>1, <1>2, <1>5
<1>8. space'[s] = x.tree /\ \A r \in Slots \ {s} : space'[r] = space[r]
  BY <1>1, <1>2
<1>9. TreeSettled(s, x, x.tree)
  BY <1>2, <1>3, <1>4, <1>6, <1>7 DEF TreeSettled
<1>10. \A r \in Slots : /\ proc'[r].meta = proc[r].meta /\ proc'[r].pid = proc[r].pid
                        /\ ~space'[r].used => proc'[r] = NoProcess /\ space'[r] = NoSpace
  BY <1>4, <1>6, <1>7, <1>8, InvProcesses
<1>11. ASSUME UNCHANGED asid PROVE ProcessTypes
  <2>1. proc' \in [Slots -> [pid : 0..asid.made, parent : Nat, meta : RamFrames \cup {0}, resv : Seq(Reservations)]]
    BY <1>1, <1>2, <1>5, <1>6
  <2>2. \A r \in Slots : Len(proc'[r].resv) <= MaxMappings
    BY <1>1, <1>3, <1>6, <1>7
  <2> QED BY <1>1, <1>11, <2>1, <2>2 DEF ProcessTypes
<1> QED BY <1>9, <1>10, <1>11

\* A call that has worked on the VMO of a handle: the VMOs after it.
LEMMA ObjectsChanged ==
  ASSUME MemInv, NEW p \in Slots, NEW h \in Handles, NEW s \in Slots, IsVmo(p, h),
         NEW w, Begun(s, w), w.v = table[p][h], NEW x, CallOK(x), HasVmo(x), CallStep(w, x),
         ram' = x.ram, cells' = x.cells, home' = x.home, table' = [table EXCEPT ![p][h] = x.v],
         UNCHANGED <<lost, cloned>>
  PROVE  /\ Objects' /\ Owners'
         /\ \A f \in Datas(ram') : f \in lost' \/ \E ph \in VmoHandles' : f \in Owned(ObjectAt(table', ph))
<1>1. PICK a, v, o, m, n : a = <<p, h>> /\ v = table[p][h] /\ o = x.v /\ m = ram /\ n = x.ram
  OBVIOUS
<1>2. a \in VmoHandles /\ ObjectAt(table, a) = v
  BY <1>1 DEF VmoHandles, IsVmo, ObjectAt
<1>3. /\ ObjectAt(table', a) = o
      /\ \A ph \in Slots \X Handles : ph # a => ObjectAt(table', ph) = ObjectAt(table, ph)
  <2>1. TableWith(p, h, o)
    BY <1>1 DEF TableWith
  <2>2. ObjectAt(table', <<p, h>>) = o
    BY <2>1, TableSet
  <2>3. \A ph \in Slots \X Handles : ph # <<p, h>> => ObjectAt(table', ph) = ObjectAt(table, ph)
    BY <2>1, TableSet
  <2> QED BY <1>1, <2>2, <2>3
<1>4. /\ FrameStep(m, home, n, home') /\ OwnStep(m, v, n, o) /\ CellStep(m, cells, v, n, cells', home')
      /\ VmoOK(n, cells', home', o) /\ RamSound(m) /\ RamSound(n)
  BY <1>1 DEF CallStep, FramesMoved, VmoStep, Begun, HasVmo, MemInv, MemTypes, CallOK, Going
<1>5. o.kind = "vmo" /\ o.meta = v.meta /\ o.id = v.id /\ o.size = v.size
  BY <1>4 DEF VmoOK, IsVmoValue, OwnStep
<1>6. VmoHandles' \subseteq VmoHandles \cup {a} /\ a \in VmoHandles' /\ VmoHandles \subseteq VmoHandles'
  BY <1>2, <1>3, <1>5, VmoHandlesAre
<1>7. Firm(m, home, n, home')
  BY <1>4, StepIsFirm
<1>8. ASSUME NEW ph \in VmoHandles, ph # a
      PROVE  /\ VmoOK(n, cells', home', ObjectAt(table, ph))
             /\ ObjectAt(table, ph).meta = o.meta =>
                  ObjectAt(table, ph).id = o.id /\ ObjectAt(table, ph).size = o.size
  <2>1. PICK u, ce, cn, ho, hn : u = ObjectAt(table, ph) /\ ce = cells /\ cn = cells' /\ ho = home /\ hn = home'
    OBVIOUS
  <2>2. u.meta = v.meta => u.id = v.id /\ u.size = v.size
    BY <1>2, <2>1, InvObjects
  <2>3. VmoOK(m, ce, ho, u)
    BY <1>1, <2>1, InvObjects
  <2>4. CASE u.meta = v.meta
    <3>1. CellStep(m, ce, u, n, cn, hn)
      BY <1>4, <2>1, <2>2, <2>4 DEF CellStep
    <3>2. VmoOK(n, cn, hn, u)
      BY <1>4, <1>7, <2>1, <2>3, <3>1, VmoChanged
    <3> QED BY <1>5, <2>1, <2>2, <2>4, <3>2
  <2>5. CASE u.meta # v.meta
    <3>1. u.meta \in Given(m)
      BY <1>1, <2>1, MetaGiven
    <3>2. cells'[u.meta] = cells[u.meta]
      BY <1>4, <2>5, <3>1 DEF CellStep
    <3>3. VmoOK(ram', cells', home', ObjectAt(table, ph))
      BY <1>1, <1>4, <1>7, <2>1, <3>2, VmoStays
    <3> QED BY <1>1, <1>5, <2>1, <2>5, <3>3
  <2> QED BY <2>4, <2>5
<1>9. Objects'
  BY <1>1, <1>3, <1>4, <1>6, <1>8, ObjectsWith, VmoHandlesAre
<1>10. 0 \notin Fresh(m, n) /\ Fresh(m, n) \cap Given(m) = {}
  <2>1. Fresh(m, n) \subseteq Given(n) /\ Fresh(m, n) \cap Given(m) = {}
    BY <1>4, GivenKept DEF FrameStep
  <2> QED BY <2>1, <1>4, GivenFacts
<1>11. Owned(v) \subseteq Owned(o) /\ Owned(o) \subseteq Owned(v) \cup Fresh(m, n)
  BY <1>4, <1>10, OwnedGrows
<1>12. ASSUME cloned = {}
       PROVE  ram'.panic # "double-free" /\ Sole(ram', o)
  <2>1. Sole(m, v) /\ m.panic # "double-free"
    BY <1>1, <1>2, <1>12, InvObjects
  <2> QED BY <1>1, <1>4, <2>1 DEF OwnStep, FrameStep
<1>13. ASSUME cloned = {}, NEW ph \in VmoHandles, ph # a
       PROVE  TagsKept(ObjectAt(table, ph)) /\ Owned(ObjectAt(table, ph)) \cap Owned(o) = {}
  <2>1. Owned(ObjectAt(table, ph)) \subseteq Given(m)
    BY <1>1, MetaGiven
  <2>2. Owned(ObjectAt(table, ph)) \cap Owned(v) = {}
    BY <1>2, <1>13, InvObjects
  <2>3. TagsKept(ObjectAt(table, ph))
    BY <1>1, <1>4, <2>1 DEF TagsKept, FrameStep
  <2> QED BY <2>1, <2>2, <2>3, <1>10, <1>11
<1>14. Owners'
  BY <1>3, <1>6, <1>12, <1>13, OwnersWith, VmoHandlesAre
<1>15. ASSUME NEW f \in Datas(ram')
       PROVE  f \in lost' \/ \E ph \in VmoHandles' : f \in Owned(ObjectAt(table', ph))
  <2>1. f \in RamFrames /\ ram'.tag[f] = "VmoData"
    BY <1>15 DEF Datas
  <2>2. (f \in Given(ram) /\ ram.tag[f] = ram'.tag[f]) \/ f \in Fresh(ram, x.ram)
    <3>1. RamSettled(x)
      BY RamSettles
    <3> QED BY <2>1, <3>1, TagsAfter DEF CallStep
  <2>3. CASE f \in Fresh(ram, x.ram)
    <3>1. f \in Owned(o)
      BY <1>1, <1>4, <2>1, <2>3 DEF OwnStep
    <3> QED BY <3>1, <1>3, <1>6
  <2>4. CASE ram.tag[f] = "VmoData"
    <3>1. f \in lost \/ \E ph \in VmoHandles : f \in Owned(ObjectAt(table, ph))
      BY <2>1, <2>4, InvLost DEF Datas
    <3>2. ASSUME NEW ph \in VmoHandles, f \in Owned(ObjectAt(table, ph))
          PROVE  f \in Owned(ObjectAt(table', ph))
      BY <3>2, <1>2, <1>3, <1>11, VmoHandlesAre
    <3> QED BY <3>1, <3>2, <1>6
  <2> QED BY <2>1, <2>2, <2>3, <2>4
<1> QED BY <1>9, <1>14, <1>15

\* A call that works on the VMO of a handle keeps the invariant.
LEMMA ChangedSound ==
  ASSUME MemInv, Calling, NEW p \in Slots, NEW h \in Handles, NEW s \in Slots, IsVmo(p, h), space[s].used,
         NEW w, Begun(s, w), w.v = table[p][h], NEW x, CallOK(x), HasVmo(x), CallStep(w, x),
         Changed(p, h, s, x), UNCHANGED <<OfTables, asid, lost, cloned>>
  PROVE  MemInv'
<1>1. /\ table' = [table EXCEPT ![p][h] = x.v] /\ ram' = x.ram /\ Settle(s, x)
      /\ mem' = x.mem /\ cells' = x.cells /\ home' = x.home /\ ids' = x.ids
  BY DEF Changed, Settle
<1>2. RamSettled(x)
  BY <1>1, RamSettles
<1>3. FramesMoved(w, x) /\ TreeMoved(w, x) /\ OwnStep(ram, w.v, x.ram, x.v)
  BY DEF CallStep, VmoStep, Begun
<1>4. /\ TreeSettled(s, x, x.tree) /\ ProcessTypes
      /\ \A r \in Slots : /\ proc'[r].meta = proc[r].meta /\ proc'[r].pid = proc[r].pid
                          /\ ~space'[r].used => proc'[r] = NoProcess /\ space'[r] = NoSpace
  BY <1>1, <1>3, TreeSettles
<1>5. TreesInv' /\ Mapped'
  BY <1>2, <1>3, <1>4, TreesAfter, MappedAfter
<1>6. /\ Objects' /\ Owners'
      /\ \A f \in Datas(ram') : f \in lost' \/ \E ph \in VmoHandles' : f \in Owned(ObjectAt(table', ph))
  BY <1>1, ObjectsChanged
<1>7. Vmars(ram') = Vmars(ram)
  <2>1. Vmars(ram') = Vmars(ram) \cup {f \in Fresh(ram, x.ram) : x.ram.tag[f] = "VmarMeta"}
    BY <1>2, <1>3, VmarsAfter
  <2>2. \A f \in Fresh(ram, x.ram) : x.ram.tag[f] # "VmarMeta"
    BY <1>3 DEF OwnStep
  <2> QED BY <2>1, <2>2
<1>8. ram.next <= ram'.next /\ RamSound(ram') /\ RamClean(ram')
  BY <1>1, <1>2, <1>3 DEF FramesMoved, FrameStep, Begun, RamSettled
<1>9. Processes' /\ Vmars(ram') = Metas(proc')
  BY <1>4, <1>7, <1>8, ProcessesStay
<1>10. NothingLost'
  BY <1>6, <1>9, InvLost
<1>11. MemTypes'
  <2>1. DOMAIN table' = Slots /\ \A r \in Slots : DOMAIN table'[r] = Handles
    <3>1. TableWith(p, h, x.v)
      BY <1>1 DEF TableWith
    <3> QED BY <3>1, TableSet
  <2>2. lost' \subseteq RamFrames /\ cloned' \subseteq RamFrames
    BY DEF MemInv, MemTypes
  <2>3. ids' \in Nat /\ DOMAIN cells' = RamFrames /\ DOMAIN home' = RamFrames
    BY <1>1 DEF CallOK, Going
  <2> QED BY <1>4, <1>5, <1>8, <2>1, <2>2, <2>3, TypesAfter
<1> QED BY <1>5, <1>6, <1>9, <1>10, <1>11, InvAfter

\* A slot with a tree is in use.
LEMMA RootedUsed ==
  ASSUME MemInv, NEW s \in Slots, space[s].root # 0
  PROVE  space[s].used
<1>1. Orderly(space[s])
  BY DEF MemInv, MemTypes
<1> QED BY <1>1 DEF Orderly

\* A call on the VMO of a handle starts soundly.
LEMMA CallHasVmo ==
  ASSUME MemInv, NEW p \in Slots, NEW h \in Handles, IsVmo(p, h), NEW s \in Slots, NEW w, w = Call(s, table[p][h])
  PROVE  CallOK(w) /\ HasVmo(w) /\ Begun(s, w) /\ w.v = table[p][h]
<1>1. PICK v : v = table[p][h]
  OBVIOUS
<1>2. CallOK(w) /\ Begun(s, w) /\ w.v = v
  <2>1. w = Call(s, v)
    BY <1>1
  <2> QED BY <2>1, CallStarts, ZenonT(30)
<1>3. <<p, h>> \in VmoHandles /\ ObjectAt(table, <<p, h>>) = v
  BY <1>1 DEF VmoHandles, IsVmo, ObjectAt
<1>4. VmoOK(ram, cells, home, v)
  BY <1>3, InvObjects
<1> QED BY <1>1, <1>2, <1>4 DEF HasVmo, Begun

\* sys_vmo_read and sys_vmo_write.
LEMMA AccessStep ==
  ASSUME MemInv, Calling, NEW p \in Slots, NEW h \in Handles, NEW i \in Nat, sys_vmo_access(p, h, i)
  PROVE  MemInv'
<1>1. PICK w, x : w = Call(p, table[p][h]) /\ x = commit_page(w, i)
  OBVIOUS
<1>2. /\ space[p].root # 0 /\ IsVmo(p, h) /\ Changed(p, h, p, x) /\ UNCHANGED <<OfTables, asid, lost, cloned>>
  BY <1>1 DEF sys_vmo_access
<1>3. CallOK(w) /\ HasVmo(w) /\ Begun(p, w) /\ w.v = table[p][h]
  BY <1>1, <1>2, CallHasVmo
<1>4. CallOK(x) /\ HasVmo(x) /\ CallStep(w, x)
  BY <1>1, <1>3, CommitSound DEF Onward
<1>5. space[p].used
  BY <1>2, RootedUsed
<1> QED BY <1>2, <1>3, <1>4, <1>5, ChangedSound

\* Mapping the VMO of a handle into slot s.
LEMMA MapStep ==
  ASSUME MemInv, Calling, NEW p \in Slots, NEW h \in Handles, NEW s \in Slots, IsVmo(p, h), space[s].used,
         NEW off \in Nat, NEW n \in Nat, NEW va \in Nat,
         Changed(p, h, s, MapVmo(Call(s, table[p][h]), off, n, va, UserRW)),
         UNCHANGED <<OfTables, asid, lost, cloned>>
  PROVE  MemInv'
<1>1. PICK w, x : w = Call(s, table[p][h]) /\ x = MapVmo(w, off, n, va, UserRW)
  OBVIOUS
<1>2. Changed(p, h, s, x)
  BY <1>1
<1>3. CallOK(w) /\ HasVmo(w) /\ Begun(s, w) /\ w.v = table[p][h]
  BY <1>1, CallHasVmo
<1>4. UserRW \in Attrs
  BY DEF UserRW, Attrs
<1>5. CallOK(x) /\ HasVmo(x) /\ CallStep(w, x)
  BY <1>1, <1>3, <1>4, MapVmoSound
<1> QED BY <1>2, <1>3, <1>5, ChangedSound

\* What programs ask for are numbers.
LEMMA RequestFacts ==
  ASSUME NEW req \in Requests
  PROVE  req[1] \in Nat /\ req[2] \in Nat /\ req[3] \in Nat
<1>1. req \in Nat \X Nat \X Nat
  BY MemoryAssumption
<1> QED BY <1>1

\* sys_vmar_map.
LEMMA VmarMapStep ==
  ASSUME MemInv, Calling, NEW p \in Slots, NEW h \in Handles, NEW g \in Handles, NEW t \in Slots,
         NEW req \in Requests, sys_vmar_map(p, g, h, t, req)
  PROVE  MemInv'
<1>1. PICK off \in Nat, n \in Nat, va \in Nat : off = req[1] /\ n = req[2] /\ va = req[3]
  BY RequestFacts
<1>2. /\ IsVmo(p, h) /\ space[t].used /\ UNCHANGED <<OfTables, asid, lost, cloned>>
      /\ Changed(p, h, t, MapVmo(Call(t, table[p][h]), off, n, va, UserRW))
  BY <1>1 DEF sys_vmar_map, Target
<1> QED BY <1>2, MapStep

\* sys_vmar_map_self.
LEMMA MapSelfStep ==
  ASSUME MemInv, Calling, NEW p \in Slots, NEW h \in Handles, NEW req \in Requests, sys_vmar_map_self(p, h, req)
  PROVE  MemInv'
<1>1. PICK off \in Nat, n \in Nat, va \in Nat : off = 0 /\ n = req[2] /\ va = req[3]
  BY RequestFacts
<1>2. /\ IsVmo(p, h) /\ space[p].root # 0 /\ UNCHANGED <<OfTables, asid, lost, cloned>>
      /\ Changed(p, h, p, MapVmo(Call(p, table[p][h]), off, n, va, UserRW))
  BY <1>1 DEF sys_vmar_map_self
<1>3. space[p].used
  BY <1>2, RootedUsed
<1> QED BY <1>2, <1>3, MapStep

-----------------------------------------------------------------------------
(* Steps that add to a table. *)

\* HandleTable::add, by cases.
LEMMA AddedIs ==
  ASSUME NEW p, NEW o, NEW m, Added(p, o, m)
  PROVE  \/ table' = table /\ ram' = DropObject(m, o)
         \/ \E h \in Handles : table[p][h] = NoObject /\ TableWith(p, h, o) /\ ram' = m
<1>1. CASE FreeHandles(p) = {}
  BY <1>1 DEF Added
<1>2. CASE FreeHandles(p) # {}
  <2>1. FreeHandles(p) \in SUBSET Nat
    BY MemoryAssumption DEF FreeHandles, Handles
  <2>2. PICK h : h = Min(FreeHandles(p))
    OBVIOUS
  <2>3. h \in FreeHandles(p)
    BY <1>2, <2>1, <2>2, LeastNumber
  <2>4. table' = [table EXCEPT ![p][h] = o] /\ ram' = m
    BY <1>2, <2>2 DEF Added
  <2> QED BY <2>3, <2>4 DEF FreeHandles, TableWith
<1> QED BY <1>1, <1>2

\* The VMOs of the tables are the same as before.
SameVmos ==
  VmoHandles' = VmoHandles /\ \A ph \in VmoHandles : ObjectAt(table', ph) = ObjectAt(table, ph)

\* They are, after a step that only hands out frames, as sound as before.
LEMMA ObjectsSame ==
  ASSUME MemInv, RamSound(ram'), FrameStep(ram, home, ram', home'), \A f \in Given(ram) : cells'[f] = cells[f],
         SameVmos, cloned' = cloned
  PROVE  Objects' /\ Owners'
<1>1. Firm(ram, home, ram', home')
  BY StepIsFirm
<1>2. \A ph \in VmoHandles : VmoOK(ram', cells', home', ObjectAt(table, ph))
  BY <1>1, VmoStays, MetaGiven
<1>3. \A ph \in VmoHandles : TagsKept(ObjectAt(table, ph))
  BY MetaGiven DEF TagsKept, FrameStep
<1>4. cloned = {} => ram'.panic # "double-free"
  BY InvObjects DEF FrameStep
<1>5. /\ VmoHandles' \subseteq VmoHandles
      /\ \A ph \in VmoHandles' : ph \in VmoHandles /\ ObjectAt(table', ph) = ObjectAt(table, ph)
  BY DEF SameVmos
<1>6. Objects'
  BY <1>2, <1>5, ObjectsFewer
<1>7. Owners'
  BY <1>3, <1>4, <1>5, OwnersFewer
<1> QED BY <1>6, <1>7

\* And so they are with one that was just made.
LEMMA ObjectsNew ==
  ASSUME MemInv, RamSound(ram'), FrameStep(ram, home, ram', home'), \A f \in Given(ram) : cells'[f] = cells[f],
         cloned' = cloned, NEW a, NEW o, VmoHandles' \subseteq VmoHandles \cup {a}, ObjectAt(table', a) = o,
         \A ph \in VmoHandles' \ {a} : ObjectAt(table', ph) = ObjectAt(table, ph),
         VmoOK(ram', cells', home', o), Sole(ram', o), Owned(o) = {o.meta}, o.meta \in Fresh(ram, ram')
  PROVE  Objects' /\ Owners'
<1>1. Firm(ram, home, ram', home')
  BY StepIsFirm
<1>2. \A ph \in VmoHandles : VmoOK(ram', cells', home', ObjectAt(table, ph))
  BY <1>1, VmoStays, MetaGiven
<1>3. \A ph \in VmoHandles : TagsKept(ObjectAt(table, ph))
  BY MetaGiven DEF TagsKept, FrameStep
<1>4. o.meta \notin Given(ram)
  <2>1. RamSound(ram)
    BY DEF MemInv, MemTypes
  <2> QED BY <2>1, GivenKept DEF FrameStep
<1>5. \A ph \in VmoHandles : ObjectAt(table, ph).meta # o.meta /\ Owned(ObjectAt(table, ph)) \cap Owned(o) = {}
  BY <1>4, MetaGiven
<1>6. cloned = {} => ram'.panic # "double-free"
  BY InvObjects DEF FrameStep
<1>7. Objects'
  BY <1>2, <1>5, ObjectsWith
<1>8. Owners'
  BY <1>3, <1>5, <1>6, OwnersWith
<1> QED BY <1>7, <1>8

\* No page of a VMO is lost when the new ones have an owner.
LEMMA DatasAfter ==
  ASSUME MemInv, NEW s \in Slots, NEW w, Begun(s, w), NEW x, CallOK(x), FramesMoved(w, x), RamSettled(x),
         lost \subseteq lost', VmoHandles \subseteq VmoHandles',
         \A ph \in VmoHandles : ObjectAt(table', ph) = ObjectAt(table, ph),
         \A f \in Fresh(ram, x.ram) : ram'.tag[f] = "VmoData" =>
            \E ph \in VmoHandles' : f \in Owned(ObjectAt(table', ph))
  PROVE  \A f \in Datas(ram') : f \in lost' \/ \E ph \in VmoHandles' : f \in Owned(ObjectAt(table', ph))
<1> SUFFICES ASSUME NEW f \in Datas(ram')
             PROVE  f \in lost' \/ \E ph \in VmoHandles' : f \in Owned(ObjectAt(table', ph))
  OBVIOUS
<1>1. f \in RamFrames /\ ram'.tag[f] = "VmoData"
  BY DEF Datas
<1>2. ram.tag[f] = "VmoData" \/ f \in Fresh(ram, x.ram)
  BY <1>1, TagsAfter
<1>3. CASE ram.tag[f] = "VmoData"
  BY <1>1, <1>3, InvLost DEF Datas
<1> QED BY <1>1, <1>2, <1>3

\* The VMO that was made in a call has no handle to go to, and is dropped.
LEMMA MadeDropped ==
  ASSUME MemInv, NEW s \in Slots, NEW w, Begun(s, w), CallOK(w), NEW x, Created(w, x), home' = x.home, cells' = x.cells,
         table' = table, ram' = DropObject(x.ram, x.v), UNCHANGED <<lost, cloned>>
  PROVE  /\ RamSettled(x) /\ Objects' /\ Owners'
         /\ \A f \in Datas(ram') : f \in lost' \/ \E ph \in VmoHandles' : f \in Owned(ObjectAt(table', ph))
<1>1. PICK m, n, k, ce, ho, v, f : /\ m = ram /\ n = x.ram /\ k = ram' /\ ce = x.cells /\ ho = x.home /\ v = x.v
                                   /\ f = v.meta
  OBVIOUS
<1>2. /\ RamSound(m) /\ RamSound(n) /\ RamClean(n) /\ VmoOK(n, ce, ho, v) /\ Sole(n, v) /\ ho = home
      /\ FrameStep(m, ho, n, ho) /\ Owned(v) = {f} /\ f \in Fresh(m, n) /\ CallOK(x) /\ FramesMoved(w, x)
      /\ \A g \in Given(m) : cells'[g] = cells[g]
      /\ \A g \in Fresh(m, n) \ {f} : n.tag[g] = "Free"
  BY <1>1 DEF Created, HasVmo, CallOK, Going, FramesMoved, Begun, MemInv, MemTypes
<1>3. /\ RamSound(k) /\ RamClean(k) /\ k.next = n.next /\ Firm(n, ho, k, ho)
      /\ \A g \in RamFrames : k.tag[g] = IF g \in Owned(v) THEN "Free" ELSE n.tag[g]
      /\ \A g \in RamFrames : n.tag[g] \notin {"Free", "VmoData"} => k.tag[g] = n.tag[g]
      /\ Sole(n, v) => k.panic = n.panic
  <2>1. k = DropObject(n, v)
    BY <1>1
  <2> QED BY <2>1, <1>2, DropSound
<1>4. RamSettled(x)
  <2>1. UseKept(n, k)
    BY <1>2, <1>3 DEF UseKept, Sole
  <2> QED BY <2>1, <1>1, <1>3 DEF RamSettled
<1>5. FrameStep(m, ho, k, ho)
  <2>1. f \notin Given(m) /\ Given(m) \subseteq RamFrames
    BY <1>2, GivenKept, GivenFacts DEF FrameStep
  <2> QED BY <2>1, <1>2, <1>3 DEF FrameStep
<1>6. SameVmos
  BY DEF SameVmos, VmoHandles, IsVmo, ObjectAt
<1>7. Objects' /\ Owners'
  BY <1>1, <1>2, <1>3, <1>5, <1>6, ObjectsSame
<1>8. \A g \in Fresh(m, n) : k.tag[g] # "VmoData"
  <2>1. Fresh(m, n) \subseteq RamFrames
    BY <1>2, GivenKept, GivenFacts DEF FrameStep
  <2> QED BY <2>1, <1>2, <1>3
<1>9. \A g \in Datas(ram') : g \in lost' \/ \E ph \in VmoHandles' : g \in Owned(ObjectAt(table', ph))
  BY <1>1, <1>2, <1>4, <1>6, <1>8, DatasAfter DEF SameVmos
<1> QED BY <1>4, <1>7, <1>9

\* The VMO that was made in a call gets a handle.
LEMMA MadeHeld ==
  ASSUME MemInv, NEW s \in Slots, NEW w, Begun(s, w), CallOK(w), NEW x, Created(w, x), home' = x.home, cells' = x.cells,
         NEW p \in Slots, NEW h \in Handles, table[p][h] = NoObject, TableWith(p, h, x.v), ram' = x.ram,
         UNCHANGED <<lost, cloned>>
  PROVE  /\ RamSettled(x) /\ Objects' /\ Owners'
         /\ \A f \in Datas(ram') : f \in lost' \/ \E ph \in VmoHandles' : f \in Owned(ObjectAt(table', ph))
<1>1. PICK a, o : a = <<p, h>> /\ o = x.v
  OBVIOUS
<1>2. /\ RamSound(ram') /\ VmoOK(ram', cells', home', o) /\ Sole(ram', o) /\ CallOK(x) /\ FramesMoved(w, x)
      /\ FrameStep(ram, home, ram', home') /\ Owned(o) = {o.meta} /\ o.meta \in Fresh(ram, ram')
      /\ \A g \in Given(ram) : cells'[g] = cells[g]
      /\ \A g \in Fresh(ram, ram') \ {o.meta} : ram'.tag[g] = "Free"
  BY <1>1 DEF Created, HasVmo, CallOK, Going, FramesMoved, Begun
<1>3. ObjectAt(table', <<p, h>>) = o /\ \A ph \in Slots \X Handles : ph # <<p, h>> => ObjectAt(table', ph) = ObjectAt(table, ph)
  BY <1>1, TableSet
<1>4. o.kind = "vmo" /\ NoObject.kind # "vmo" /\ ObjectAt(table, a) = NoObject /\ a \in Slots \X Handles
  BY <1>1, <1>2 DEF VmoOK, IsVmoValue, NoObject, ObjectAt
<1>5. VmoHandles' = VmoHandles \cup {a} /\ a \notin VmoHandles /\ \A ph \in VmoHandles : ObjectAt(table', ph) = ObjectAt(table, ph)
  <2>1. \A ph : ph \in VmoHandles' <=> ph \in VmoHandles \cup {a}
    BY <1>1, <1>3, <1>4, VmoHandlesAre
  <2>2. a \notin VmoHandles
    BY <1>4, VmoHandlesAre
  <2>3. \A ph \in VmoHandles : ObjectAt(table', ph) = ObjectAt(table, ph)
    BY <1>1, <1>3, <2>2, VmoHandlesAre
  <2> QED BY <2>1, <2>2, <2>3
<1>6. RamSettled(x)
  BY <1>2, RamSettles
<1>7. ObjectAt(table', a) = o
  BY <1>1, <1>3
<1>8. Objects' /\ Owners'
  BY <1>2, <1>5, <1>7, ObjectsNew
<1>9. \A f \in Fresh(ram, x.ram) : ram'.tag[f] = "VmoData" => \E ph \in VmoHandles' : f \in Owned(ObjectAt(table', ph))
  BY <1>2, <1>5, <1>7
<1>10. \A f \in Datas(ram') : f \in lost' \/ \E ph \in VmoHandles' : f \in Owned(ObjectAt(table', ph))
  BY <1>2, <1>5, <1>6, <1>9, DatasAfter
<1> QED BY <1>6, <1>8, <1>10

\* A call that makes a VMO keeps the invariant.
LEMMA MadeSound ==
  ASSUME MemInv, Calling, NEW p \in Slots, space[p].used, NEW w, CallOK(w), Begun(p, w), NEW x, Created(w, x),
         Made(p, x), UNCHANGED <<OfTables, asid, lost, cloned>>
  PROVE  MemInv'
<1>1. /\ Added(p, x.v, x.ram) /\ Settle(p, x)
      /\ mem' = x.mem /\ cells' = x.cells /\ home' = x.home /\ ids' = x.ids
  BY DEF Made, Settle
<1>2. /\ CallOK(x) /\ FramesMoved(w, x) /\ x.mem = w.mem /\ x.tree = w.tree /\ HasVmo(x) /\ Sole(x.ram, x.v)
      /\ Owned(x.v) = {x.v.meta} /\ \A g \in Fresh(ram, x.ram) \ {x.v.meta} : x.ram.tag[g] = "Free"
  BY DEF Created, Begun
<1>3. TreeMoved(w, x)
  BY <1>2, TreeRests DEF TreeMoved
<1>4. /\ TreeSettled(p, x, x.tree) /\ ProcessTypes
      /\ \A r \in Slots : /\ proc'[r].meta = proc[r].meta /\ proc'[r].pid = proc[r].pid
                          /\ ~space'[r].used => proc'[r] = NoProcess /\ space'[r] = NoSpace
  BY <1>1, <1>2, <1>3, TreeSettles
<1>5. /\ RamSettled(x) /\ Objects' /\ Owners'
      /\ \A f \in Datas(ram') : f \in lost' \/ \E ph \in VmoHandles' : f \in Owned(ObjectAt(table', ph))
      /\ DOMAIN table' = Slots /\ \A r \in Slots : DOMAIN table'[r] = Handles
  <2>1. CASE table' = table /\ ram' = DropObject(x.ram, x.v)
    <3>1. DOMAIN table' = Slots /\ \A r \in Slots : DOMAIN table'[r] = Handles
      BY <2>1 DEF MemInv, MemTypes
    <3> QED BY <1>1, <2>1, <3>1, MadeDropped
  <2>2. CASE \E h \in Handles : table[p][h] = NoObject /\ TableWith(p, h, x.v) /\ ram' = x.ram
    <3>1. PICK h \in Handles : table[p][h] = NoObject /\ TableWith(p, h, x.v) /\ ram' = x.ram
      BY <2>2
    <3>2. DOMAIN table' = Slots /\ \A r \in Slots : DOMAIN table'[r] = Handles
      BY <3>1, TableSet
    <3> QED BY <1>1, <3>1, <3>2, MadeHeld
  <2> QED BY <1>1, <2>1, <2>2, AddedIs
<1>6. TreesInv' /\ Mapped'
  BY <1>2, <1>3, <1>4, <1>5, TreesAfter, MappedAfter
<1>7. Vmars(ram') = Vmars(ram)
  <2>1. Vmars(ram') = Vmars(ram) \cup {f \in Fresh(ram, x.ram) : x.ram.tag[f] = "VmarMeta"}
    BY <1>2, <1>5, VmarsAfter
  <2>2. \A f \in Fresh(ram, x.ram) : x.ram.tag[f] # "VmarMeta"
    <3>1. x.v.meta \in Owned(x.v)
      BY DEF Owned
    <3>2. x.ram.tag[x.v.meta] = "VmoData"
      BY <1>2, <3>1 DEF Sole
    <3> QED BY <1>2, <3>2
  <2> QED BY <2>1, <2>2
<1>8. ram.next <= ram'.next /\ RamSound(ram') /\ RamClean(ram')
  BY <1>2, <1>5 DEF FramesMoved, FrameStep, Begun, RamSettled
<1>9. Processes' /\ Vmars(ram') = Metas(proc')
  BY <1>4, <1>7, <1>8, ProcessesStay
<1>10. NothingLost'
  BY <1>5, <1>9, InvLost
<1>11. MemTypes'
  <2>1. lost' \subseteq RamFrames /\ cloned' \subseteq RamFrames
    BY DEF MemInv, MemTypes
  <2>2. ids' \in Nat /\ DOMAIN cells' = RamFrames /\ DOMAIN home' = RamFrames
    BY <1>1, <1>2 DEF CallOK, Going
  <2> QED BY <1>4, <1>5, <1>6, <1>8, <2>1, <2>2, TypesAfter
<1> QED BY <1>5, <1>6, <1>9, <1>10, <1>11, InvAfter

\* sys_vmo_create.
LEMMA CreateStep ==
  ASSUME MemInv, Calling, NEW p \in Slots, NEW n, sys_vmo_create(p, n)
  PROVE  MemInv'
<1>1. PICK w, x : w = Call(p, NoObject) /\ x = create_with_size(w, n)
  OBVIOUS
<1>2. space[p].root # 0 /\ Made(p, x) /\ UNCHANGED <<OfTables, asid, lost, cloned>>
  BY <1>1 DEF sys_vmo_create
<1>3. CallOK(w) /\ Begun(p, w)
  BY <1>1, CallStarts
<1>4. Created(w, x)
  <2>1. ~NotMade(w, x)
    BY <1>2 DEF Made, NotMade
  <2> QED BY <2>1, <1>1, <1>3, CreateSound
<1>5. space[p].used
  BY <1>2, RootedUsed
<1> QED BY <1>2, <1>3, <1>4, <1>5, MadeSound

\* sys_vmo_create_child.
LEMMA ChildStep ==
  ASSUME MemInv, Calling, NEW p \in Slots, NEW h \in Handles, NEW off \in Nat, NEW n \in Nat,
         sys_vmo_create_child(p, h, off, n)
  PROVE  MemInv'
<1>1. PICK w, x, u : u = table[p][h] /\ w = Call(p, NoObject) /\ x = create_child_slice(w, u, off, n)
  OBVIOUS
<1>2. /\ space[p].root # 0 /\ IsVmo(p, h) /\ off + n <= u.size
      /\ Made(p, x) /\ UNCHANGED <<OfTables, asid, lost, cloned>>
  BY <1>1 DEF sys_vmo_create_child
<1>3. CallOK(w) /\ Begun(p, w)
  BY <1>1, CallStarts
<1>4. <<p, h>> \in VmoHandles /\ ObjectAt(table, <<p, h>>) = u
  BY <1>1, <1>2 DEF VmoHandles, IsVmo, ObjectAt
<1>5. VmoOK(w.ram, w.cells, w.home, u)
  BY <1>3, <1>4, InvObjects DEF Begun
<1>6. Created(w, x)
  <2>1. ~NotMade(w, x)
    BY <1>2 DEF Made, NotMade
  <2> QED BY <2>1, <1>1, <1>2, <1>3, <1>5, ChildSound
<1>7. space[p].used
  BY <1>2, RootedUsed
<1> QED BY <1>2, <1>3, <1>6, <1>7, MadeSound

-----------------------------------------------------------------------------
(* Launches. *)

\* A step that starts process z, with the tree q, in a slot that is not in use.
LEMMA StartedSound ==
  ASSUME MemInv, Calling, NEW s \in Slots, ~space[s].used, NEW w, CallOK(w), Begun(s, w), NEW x, Started(w, x),
         NEW q, TreeSettled(s, x, q), NEW z, proc' = [proc EXCEPT ![s] = z], ProcessTypes,
         IF CanAlloc(ram) THEN z.meta = Candidate(ram) ELSE z = NoProcess,
         ram' = x.ram, cells' = x.cells, ids' \in Nat, SameVmos,
         DOMAIN table' = Slots, \A r \in Slots : DOMAIN table'[r] = Handles,
         UNCHANGED <<OfTables, lost, cloned>>
  PROVE  MemInv'
<1>1. /\ CallOK(x) /\ FramesMoved(w, x) /\ TreeMoved(w, x)
      /\ \A f \in Given(ram) : cells'[f] = cells[f]
      /\ \A f \in Fresh(ram, ram') : /\ ram'.tag[f] # "VmoData"
                                     /\ ram'.tag[f] = "VmarMeta" <=> f = Candidate(ram)
      /\ IF CanAlloc(ram) THEN Candidate(ram) \in Fresh(ram, ram') ELSE ram' = ram
  BY DEF Started, Begun
<1>2. /\ RamSettled(x) /\ home' = x.home /\ space' = [space EXCEPT ![s] = q] /\ q.used
  BY <1>1, RamSettles DEF TreeSettled
<1>3. FrameStep(ram, home, ram', home') /\ RamSound(ram') /\ RamClean(ram') /\ RamSound(ram)
  BY <1>1, <1>2 DEF FramesMoved, Begun, RamSettled, MemInv, MemTypes
<1>4. TreesInv' /\ Mapped'
  BY <1>1, <1>2, TreesAfter, MappedAfter
<1>5. Objects' /\ Owners'
  BY <1>1, <1>3, ObjectsSame
<1>6. \A f \in Datas(ram') : f \in lost' \/ \E ph \in VmoHandles' : f \in Owned(ObjectAt(table', ph))
  BY <1>1, <1>2, DatasAfter DEF SameVmos
<1>7. Vmars(ram') = Vmars(ram) \cup {f \in Fresh(ram, ram') : ram'.tag[f] = "VmarMeta"}
  BY <1>1, <1>2, VmarsAfter
<1>8. /\ proc'[s] = z /\ \A r \in Slots \ {s} : proc'[r] = proc[r]
      /\ space'[s] = q /\ \A r \in Slots \ {s} : space'[r] = space[r]
  BY <1>2 DEF MemInv, MemTypes
<1>9. Processes' /\ Vmars(ram') = Metas(proc')
  <2>1. ram.next <= ram'.next
    BY <1>3 DEF FrameStep
  <2>2. CASE CanAlloc(ram)
    <3>1. PICK f : f = Candidate(ram)
      OBVIOUS
    <3>2. f \in Fresh(ram, ram') /\ z.meta = f
      BY <1>1, <2>2, <3>1
    <3>3. Vmars(ram') = Vmars(ram) \cup {f}
      BY <1>1, <1>7, <3>1, <3>2
    <3>4. proc'[s].meta = f /\ space'[s].used
      BY <1>2, <1>8, <3>2
    <3> QED BY <1>3, <1>8, <2>1, <3>2, <3>3, <3>4, ProcessesGrow
  <2>3. CASE ~CanAlloc(ram)
    <3>1. Fresh(ram, ram') = {}
      BY <1>1, <1>3, <2>3, GivenFacts DEF Fresh
    <3>2. Vmars(ram') = Vmars(ram)
      BY <1>7, <3>1
    <3>3. proc'[s] = proc[s]
      BY <1>8, <2>3, InvProcesses
    <3>4. \A r \in Slots : /\ proc'[r].meta = proc[r].meta /\ proc'[r].pid = proc[r].pid
                           /\ ~space'[r].used => proc'[r] = NoProcess /\ space'[r] = NoSpace
      BY <1>2, <1>8, <3>3, InvProcesses
    <3> QED BY <1>3, <2>1, <3>2, <3>4, ProcessesStay
  <2> QED BY <2>2, <2>3
<1>10. NothingLost'
  BY <1>6, <1>9, InvLost
<1>11. MemTypes'
  <2>1. lost' \subseteq RamFrames /\ cloned' \subseteq RamFrames
    BY DEF MemInv, MemTypes
  <2>2. DOMAIN cells' = RamFrames /\ DOMAIN home' = RamFrames
    BY <1>1, <1>2 DEF CallOK, Going
  <2> QED BY <1>3, <1>4, <2>1, <2>2, TypesAfter
<1> QED BY <1>4, <1>5, <1>9, <1>10, <1>11, InvAfter

\* A slot that is not in use has neither a tree nor a process.
LEMMA EmptySlot ==
  ASSUME MemInv, NEW s \in Slots, ~space[s].used
  PROVE  /\ space[s] = NoSpace /\ proc[s] = NoProcess
         /\ NoSpace \in Spaces /\ NoSpace.root = 0 /\ NoSpace.tracked = <<>>
<1>1. space[s] = NoSpace /\ proc[s] = NoProcess /\ space[s] \in Spaces
  BY InvProcesses
<1> QED BY <1>1 DEF NoSpace

\* A launch without a page for the VMAR makes no tree.
LEMMA NoTree ==
  ASSUME NEW w, w.tree = NoSpace, RamSound(w.ram), NEW x, CallOK(x), TreeMoved(w, x), x.ram = w.ram
  PROVE  x.tree.root = 0 /\ x.tree.tracked = <<>>
<1>1. Fresh(w.ram, x.ram) = {}
  BY GivenFacts DEF Fresh
<1>2. FramesOf(w.mem, w.tree) = {}
  BY DEF FramesOf, NoSpace
<1>3. FramesOf(x.mem, x.tree) = {}
  BY <1>1, <1>2 DEF TreeMoved, TreeStep
<1>4. x.tree.root = 0
  BY <1>3 DEF FramesOf, TreeFrames
<1> QED BY <1>4 DEF CallOK, TreeBacked

\* The types of the processes with a new one.
LEMMA NewProcessTypes ==
  ASSUME MemInv, NEW s \in Slots, NEW z, proc' = [proc EXCEPT ![s] = z],
         NextAsid \/ asid' = [asid EXCEPT !.made = @ + 1],
         z \in [pid : 0..(asid.made + 1), parent : Nat, meta : RamFrames \cup {0}, resv : Seq(Reservations)],
         Len(z.resv) <= MaxMappings
  PROVE  ProcessTypes
<1>1. /\ proc \in [Slots -> [pid : 0..asid.made, parent : Nat, meta : RamFrames \cup {0}, resv : Seq(Reservations)]]
      /\ asid \in [next : 1..(MaxUserAsid + 1), made : Nat]
      /\ \A r \in Slots : Len(proc[r].resv) <= MaxMappings
  BY DEF MemInv, MemTypes
<1>2. PICK k \in Nat : k = asid.made
  BY <1>1
<1>3. asid' \in [next : 1..(MaxUserAsid + 1), made : Nat] /\ asid'.made = k + 1
  <2>1. CASE NextAsid
    <3>1. AsidAfter(asid.next) \in 1..(MaxUserAsid + 1)
      BY <1>1, AsidFacts
    <3> QED BY <2>1, <3>1, <1>2 DEF NextAsid
  <2>2. CASE asid' = [asid EXCEPT !.made = @ + 1]
    BY <1>1, <1>2, <2>2
  <2> QED BY <2>1, <2>2
<1>4. \A r \in Slots : proc[r] \in [pid : 0..(k + 1), parent : Nat, meta : RamFrames \cup {0}, resv : Seq(Reservations)]
  <2>1. 0..k \subseteq 0..(k + 1)
    OBVIOUS
  <2>2. \A r \in Slots : proc[r] \in [pid : 0..k, parent : Nat, meta : RamFrames \cup {0}, resv : Seq(Reservations)]
    BY <1>1, <1>2
  <2> QED BY <2>1, <2>2
<1>5. z \in [pid : 0..(k + 1), parent : Nat, meta : RamFrames \cup {0}, resv : Seq(Reservations)]
  BY <1>2
<1>6. DOMAIN proc = Slots
  BY <1>1
<1>7. proc'[s] = z /\ \A r \in Slots \ {s} : proc'[r] = proc[r]
  BY <1>6
<1>8. proc' \in [Slots -> [pid : 0..(k + 1), parent : Nat, meta : RamFrames \cup {0}, resv : Seq(Reservations)]]
  BY <1>4, <1>5, <1>6
<1>9. \A r \in Slots : Len(proc'[r].resv) <= MaxMappings
  BY <1>1, <1>7
<1> QED BY <1>3, <1>8, <1>9 DEF ProcessTypes

\* A process before it has reservations.
LEMMA NewbornIs ==
  ASSUME MemInv, NEW parent \in Nat, CanAlloc(ram), NEW z, z = Newborn(parent, Candidate(ram))
  PROVE  /\ z \in [pid : 0..(asid.made + 1), parent : Nat, meta : RamFrames \cup {0}, resv : Seq(Reservations)]
         /\ z.meta = Candidate(ram) /\ z.resv = <<>>
<1>1. Candidate(ram) \in RamFrames
  <2>1. RamSound(ram) /\ "Free" \in Tags
    BY DEF MemInv, MemTypes, Tags
  <2> QED BY <2>1, AllocSound
<1>2. asid.made \in Nat
  BY DEF MemInv, MemTypes
<1>3. asid.made + 1 \in 0..(asid.made + 1) /\ <<>> \in Seq(Reservations)
  BY <1>2
<1> QED BY <1>1, <1>3 DEF Newborn

\* The slot that allocate_process takes.
LEMMA FreeSlot ==
  ASSUME FreeSlots # {}, NEW s, s = Min(FreeSlots)
  PROVE  s \in Slots /\ ~space[s].used
<1>1. FreeSlots \in SUBSET Nat
  BY MemoryAssumption DEF FreeSlots
<1>2. s \in FreeSlots
  BY <1>1, LeastNumber
<1> QED BY <1>2 DEF FreeSlots

\* The handle of a process is no VMO: whether or not there is a place for it,
\* the frames and the VMOs stay.
LEMMA HandleAdded ==
  ASSUME MemInv, NEW p \in Slots, NEW o, o.kind # "vmo", NEW m, Added(p, o, m)
  PROVE  ram' = m /\ SameVmos /\ DOMAIN table' = Slots /\ \A r \in Slots : DOMAIN table'[r] = Handles
<1>1. CASE table' = table /\ ram' = DropObject(m, o)
  <2>1. ram' = m
    BY <1>1 DEF DropObject
  <2>2. SameVmos
    BY <1>1 DEF SameVmos, VmoHandles, IsVmo, ObjectAt
  <2> QED BY <1>1, <2>1, <2>2 DEF MemInv, MemTypes
<1>2. CASE \E h \in Handles : table[p][h] = NoObject /\ TableWith(p, h, o) /\ ram' = m
  <2>1. PICK h \in Handles : table[p][h] = NoObject /\ TableWith(p, h, o) /\ ram' = m
    BY <1>2
  <2>2. /\ DOMAIN table' = Slots /\ \A s \in Slots : DOMAIN table'[s] = Handles
        /\ ObjectAt(table', <<p, h>>) = o
        /\ \A ph \in Slots \X Handles : ph # <<p, h>> => ObjectAt(table', ph) = ObjectAt(table, ph)
    BY <2>1, TableSet
  <2>3. ObjectAt(table, <<p, h>>).kind # "vmo"
    BY <2>1 DEF ObjectAt, NoObject
  <2>4. \A ph : ph \in VmoHandles' <=> ph \in VmoHandles
    BY <2>2, <2>3, VmoHandlesAre
  <2>5. \A ph \in VmoHandles : ObjectAt(table', ph) = ObjectAt(table, ph)
    BY <2>2, <2>3, VmoHandlesAre
  <2> QED BY <2>1, <2>2, <2>4, <2>5 DEF SameVmos
<1> QED BY <1>1, <1>2, AddedIs

\* The process that a launch x leaves.
LEMMA LaunchedProcess ==
  ASSUME MemInv, NEW parent \in Nat, CanAlloc(ram), NEW x, CallOK(x), NEW z,
         z = [Newborn(parent, Candidate(ram)) EXCEPT !.resv = x.resv]
  PROVE  /\ z \in [pid : 0..(asid.made + 1), parent : Nat, meta : RamFrames \cup {0}, resv : Seq(Reservations)]
         /\ z.meta = Candidate(ram) /\ z.resv = x.resv /\ Len(z.resv) <= MaxMappings
<1>1. PICK y : y = Newborn(parent, Candidate(ram))
  OBVIOUS
<1>2. /\ y \in [pid : 0..(asid.made + 1), parent : Nat, meta : RamFrames \cup {0}, resv : Seq(Reservations)]
      /\ y.meta = Candidate(ram)
  BY <1>1, NewbornIs
<1>3. x.resv \in Seq(Reservations) /\ Len(x.resv) <= MaxMappings
  BY DEF CallOK, Going
<1>4. z = [y EXCEPT !.resv = x.resv]
  BY <1>1
<1> QED BY <1>2, <1>3, <1>4

\* Launching a program keeps the invariant.
LEMMA LaunchedStep ==
  ASSUME MemInv, Calling, NEW s \in Slots, ~space[s].used, NEW parent \in Nat, NEW x, x = InSlot(s),
         Launched(parent, s, CanAlloc(ram), x), ram' = x.ram, SameVmos,
         DOMAIN table' = Slots, \A r \in Slots : DOMAIN table'[r] = Handles,
         UNCHANGED <<OfTables, lost, cloned>>
  PROVE  MemInv'
<1>1. PICK w, q, z : /\ w = Call(s, NoObject)
                     /\ q = (IF CanAlloc(ram) THEN Named(x.tree, AsidOf(asid.next)) ELSE Named(NoSpace, 0))
                     /\ z = (IF CanAlloc(ram) THEN [Newborn(parent, Candidate(ram)) EXCEPT !.resv = x.resv]
                             ELSE NoProcess)
  OBVIOUS
<1>2. /\ mem' = x.mem /\ cells' = x.cells /\ home' = x.home /\ ids' = x.ids
      /\ space' = [space EXCEPT ![s] = q] /\ proc' = [proc EXCEPT ![s] = z]
      /\ NextAsid \/ asid' = [asid EXCEPT !.made = @ + 1]
  BY <1>1 DEF Launched
<1>3. /\ space[s] = NoSpace /\ proc[s] = NoProcess
      /\ NoSpace \in Spaces /\ NoSpace.root = 0 /\ NoSpace.tracked = <<>>
  BY EmptySlot
<1>4. CallOK(w) /\ Begun(s, w) /\ w.ok = TRUE
  BY <1>1, CallStarts
<1>5. w.tree = NoSpace /\ ttbr0.root = FirstFrame /\ \A f \in BootTables : w.mem[f] = BootMem[f]
  BY <1>3, <1>4 DEF Begun, MemInv, MemTypes, Booted
<1>6. Started(w, x)
  <2>1. x = LaunchedIn(w)
    BY <1>1 DEF InSlot
  <2> QED BY <2>1, <1>4, <1>5, LaunchSound
<1>7. CallOK(x) /\ TreeMoved(w, x)
  BY <1>6 DEF Started
<1>8. q \in Spaces /\ q.used = TRUE /\ q.root = x.tree.root /\ q.tracked = x.tree.tracked
  <2>1. CASE CanAlloc(ram)
    <3>1. PICK t, a : t = x.tree /\ a = AsidOf(asid.next)
      OBVIOUS
    <3>2. t \in Spaces
      BY <1>7, <3>1 DEF CallOK, TreeBacked
    <3>3. a \in 0..MaxUserAsid
      BY <3>1, AsidFacts DEF MemInv, MemTypes
    <3>4. q = Named(t, a)
      BY <1>1, <2>1, <3>1
    <3>5. q \in Spaces /\ q.used = TRUE /\ q.root = t.root /\ q.tracked = t.tracked
      BY <3>2, <3>3, <3>4 DEF Named, Spaces
    <3> QED BY <3>1, <3>5
  <2>2. CASE ~CanAlloc(ram)
    <3>1. x.ram = w.ram /\ RamSound(w.ram)
      BY <1>4, <1>6, <2>2 DEF Started, Begun, CallOK, Going
    <3>2. x.tree.root = 0 /\ x.tree.tracked = <<>>
      BY <1>5, <1>7, <3>1, NoTree
    <3>3. q = Named(NoSpace, 0) /\ 0 \in 0..MaxUserAsid
      BY <1>1, <2>2, SpaceAssumption
    <3>4. q \in Spaces /\ q.used = TRUE /\ q.root = NoSpace.root /\ q.tracked = NoSpace.tracked
      BY <1>3, <3>3 DEF Named, Spaces
    <3> QED BY <1>3, <3>2, <3>4
  <2> QED BY <2>1, <2>2
<1>9. /\ z \in [pid : 0..(asid.made + 1), parent : Nat, meta : RamFrames \cup {0}, resv : Seq(Reservations)]
      /\ Len(z.resv) <= MaxMappings /\ (IF CanAlloc(ram) THEN z.meta = Candidate(ram) ELSE z = NoProcess)
      /\ CanAlloc(ram) => z.resv = x.resv
  <2>1. CASE CanAlloc(ram)
    <3>1. z = [Newborn(parent, Candidate(ram)) EXCEPT !.resv = x.resv]
      BY <1>1, <2>1
    <3>2. /\ z \in [pid : 0..(asid.made + 1), parent : Nat, meta : RamFrames \cup {0}, resv : Seq(Reservations)]
          /\ z.meta = Candidate(ram) /\ z.resv = x.resv /\ Len(z.resv) <= MaxMappings
      BY <1>7, <2>1, <3>1, LaunchedProcess
    <3> QED BY <2>1, <3>2
  <2>2. CASE ~CanAlloc(ram)
    <3>1. z = NoProcess
      BY <1>1, <2>2
    <3>2. asid.made \in Nat /\ MaxMappings \in Nat
      BY MemoryAssumption DEF MemInv, MemTypes
    <3>3. 0 \in 0..(asid.made + 1) /\ <<>> \in Seq(Reservations) /\ Len(<<>>) = 0
      BY <3>2
    <3> QED BY <2>2, <3>1, <3>2, <3>3 DEF NoProcess
  <2> QED BY <2>1, <2>2
<1>10. ProcessTypes
  BY <1>2, <1>9, NewProcessTypes
<1>11. TreeSettled(s, x, q)
  <2>1. q.root # 0 => CanAlloc(ram)
    <3>1. ASSUME ~CanAlloc(ram)
          PROVE  q.root = 0
      <4>1. q = Named(NoSpace, 0) /\ 0 \in 0..MaxUserAsid
        BY <1>1, <3>1, SpaceAssumption
      <4>2. q.root = NoSpace.root
        BY <1>3, <4>1 DEF Named, Spaces
      <4> QED BY <1>3, <4>2
    <3> QED BY <3>1
  <2>2. DOMAIN proc = Slots
    BY DEF MemInv, MemTypes
  <2>3. proc'[s] = z /\ \A r \in Slots \ {s} : proc'[r] = proc[r]
    BY <1>2, <2>2
  <2>4. released' = released /\ ttbr0' = ttbr0
    BY DEF OfTables
  <2> QED BY <1>2, <1>8, <1>9, <2>1, <2>3, <2>4 DEF TreeSettled
<1>12. ids' \in Nat
  BY <1>2, <1>7 DEF CallOK, Going
<1> QED BY <1>2, <1>4, <1>6, <1>9, <1>10, <1>11, <1>12, StartedSound

\* sys_spawn.
LEMMA SpawnStep ==
  ASSUME MemInv, Calling, NEW p \in Slots, sys_spawn(p)
  PROVE  MemInv'
<1>1. PICK s, x, parent : s = Min(FreeSlots) /\ x = InSlot(s) /\ parent = proc[p].pid
  OBVIOUS
<1>2. /\ CanLaunch(p) /\ Launched(parent, s, CanAlloc(ram), x) /\ table' = table /\ ram' = x.ram
      /\ UNCHANGED <<OfTables, lost, cloned>>
  BY <1>1 DEF sys_spawn
<1>3. s \in Slots /\ ~space[s].used
  BY <1>1, <1>2, FreeSlot DEF CanLaunch
<1>4. parent \in Nat
  BY <1>1, InvProcesses
<1>5. SameVmos /\ DOMAIN table' = Slots /\ \A r \in Slots : DOMAIN table'[r] = Handles
  BY <1>2 DEF SameVmos, VmoHandles, IsVmo, ObjectAt, MemInv, MemTypes
<1> QED BY <1>1, <1>2, <1>3, <1>4, <1>5, LaunchedStep

\* sys_load_binary.
LEMMA LoadStep ==
  ASSUME MemInv, Calling, NEW p \in Slots, NEW h, sys_load_binary(p, h)
  PROVE  MemInv'
<1>1. PICK s, x : s = Min(FreeSlots) /\ x = InSlot(s)
  OBVIOUS
<1>2. /\ CanLaunch(p) /\ Launched(0, s, CanAlloc(ram), x) /\ Handed(p, x)
      /\ UNCHANGED <<OfTables, lost, cloned>>
  BY <1>1 DEF sys_load_binary
<1>3. s \in Slots /\ ~space[s].used
  BY <1>1, <1>2, FreeSlot DEF CanLaunch
<1>4. ram' = x.ram /\ SameVmos /\ DOMAIN table' = Slots /\ \A r \in Slots : DOMAIN table'[r] = Handles
  <2>1. CASE x.ok
    <3>1. PICK m, o : m = x.ram /\ o = Handle
      OBVIOUS
    <3>2. Added(p, o, m) /\ o.kind # "vmo"
      BY <1>2, <2>1, <3>1 DEF Handed, Handle
    <3> QED BY <3>1, <3>2, HandleAdded
  <2>2. CASE ~x.ok
    BY <1>2, <2>2 DEF Handed, SameVmos, VmoHandles, IsVmo, ObjectAt, MemInv, MemTypes
  <2> QED BY <2>1, <2>2
<1>5. 0 \in Nat
  OBVIOUS
<1> QED BY <1>1, <1>2, <1>3, <1>4, <1>5, LaunchedStep

\* sys_process_create.
LEMMA ProcessCreateStep ==
  ASSUME MemInv, Calling, NEW p \in Slots, sys_process_create(p)
  PROVE  MemInv'
<1>1. PICK s, w, x, q, z, o, m :
        /\ s = Min(FreeSlots) /\ w = Call(s, NoObject) /\ x = Founded(w) /\ o = Handle /\ m = x.ram
        /\ q = Named(NoSpace, AsidOf(asid.next)) /\ z = Newborn(0, Candidate(ram))
  OBVIOUS
<1>2. /\ CanLaunch(p) /\ CanAlloc(ram) /\ space' = [space EXCEPT ![s] = q] /\ proc' = [proc EXCEPT ![s] = z]
      /\ Added(p, o, m) /\ NextAsid
      /\ UNCHANGED <<OfTables, mem, cells, home, ids, lost, cloned>>
  BY <1>1 DEF sys_process_create
<1>3. s \in Slots /\ ~space[s].used
  BY <1>1, <1>2, FreeSlot DEF CanLaunch
<1>4. /\ space[s] = NoSpace /\ proc[s] = NoProcess
      /\ NoSpace \in Spaces /\ NoSpace.root = 0 /\ NoSpace.tracked = <<>>
  BY <1>3, EmptySlot
<1>5. CallOK(w) /\ Begun(s, w) /\ w.ok = TRUE
  BY <1>1, <1>3, CallStarts
<1>6. Started(w, x) /\ x.tree = w.tree /\ x.mem = w.mem /\ x.cells = w.cells /\ x.home = w.home
  BY <1>1, <1>5, FoundedSound
<1>7. x.tree = NoSpace /\ x.mem = mem /\ x.cells = cells /\ x.home = home
  BY <1>4, <1>5, <1>6 DEF Begun
<1>8. o.kind # "vmo"
  BY <1>1 DEF Handle
<1>9. ram' = m /\ SameVmos /\ DOMAIN table' = Slots /\ \A r \in Slots : DOMAIN table'[r] = Handles
  BY <1>2, <1>8, HandleAdded
<1>10. /\ z \in [pid : 0..(asid.made + 1), parent : Nat, meta : RamFrames \cup {0}, resv : Seq(Reservations)]
       /\ z.meta = Candidate(ram) /\ Len(z.resv) <= MaxMappings
  <2>1. 0 \in Nat /\ MaxMappings \in Nat /\ Len(<<>>) = 0
    BY MemoryAssumption
  <2>2. /\ z \in [pid : 0..(asid.made + 1), parent : Nat, meta : RamFrames \cup {0}, resv : Seq(Reservations)]
        /\ z.meta = Candidate(ram) /\ z.resv = <<>>
    BY <1>1, <1>2, <2>1, NewbornIs
  <2> QED BY <2>1, <2>2
<1>11. ProcessTypes
  BY <1>2, <1>3, <1>10, NewProcessTypes
<1>12. q \in Spaces /\ q.used = TRUE /\ q.root = 0 /\ q.tracked = <<>>
  <2>1. PICK a : a = AsidOf(asid.next)
    OBVIOUS
  <2>2. a \in 0..MaxUserAsid
    BY <2>1, AsidFacts DEF MemInv, MemTypes
  <2>3. q = Named(NoSpace, a)
    BY <1>1, <2>1
  <2> QED BY <1>4, <2>2, <2>3 DEF Named, Spaces
<1>13. TreeSettled(s, x, q)
  <2>1. DOMAIN proc = Slots
    BY DEF MemInv, MemTypes
  <2>2. \A r \in Slots \ {s} : proc'[r] = proc[r]
    BY <1>2, <2>1
  <2>3. released' = released /\ ttbr0' = ttbr0 /\ mem' = mem /\ home' = home
    BY <1>2 DEF OfTables
  <2> QED BY <1>2, <1>4, <1>7, <1>12, <2>2, <2>3 DEF TreeSettled
<1>14. ids' \in Nat /\ ram' = x.ram /\ cells' = x.cells
  BY <1>1, <1>2, <1>7, <1>9 DEF MemInv, MemTypes
<1> QED BY <1>2, <1>3, <1>5, <1>6, <1>9, <1>10, <1>11, <1>13, <1>14, StartedSound

-----------------------------------------------------------------------------
(* Steps on tables alone. *)

\* A step that changes at most tables, and frees frames of VMOs.
LEMMA TablesOnly ==
  ASSUME MemInv, Calling, NEW p \in Slots, space[p].root # 0,
         RamSound(ram'), RamClean(ram'), ram'.next = ram.next, Firm(ram, home, ram', home), UseKept(ram, ram'),
         UNCHANGED <<OfTables, mem, space, asid, cells, proc, ids, home, lost>>, cloned' \subseteq RamFrames,
         DOMAIN table' = Slots, \A r \in Slots : DOMAIN table'[r] = Handles, Objects', Owners',
         \A f \in Datas(ram') : f \in lost \/ \E ph \in VmoHandles' : f \in Owned(ObjectAt(table', ph))
  PROVE  MemInv'
<1>1. PICK w : w = Call(p, NoObject)
  OBVIOUS
<1>2. CallOK(w) /\ Begun(p, w)
  BY <1>1, CallStarts
<1>3. w.ram = ram /\ w.mem = mem /\ w.home = home /\ w.tree = space[p] /\ w.resv = proc[p].resv
  BY <1>2 DEF Begun
<1>4. /\ RamSound(ram) /\ ram.next \in Nat /\ space \in [Slots -> Spaces]
  BY GivenFacts DEF MemInv, MemTypes
<1>5. FramesMoved(w, w) /\ TreeMoved(w, w)
  <2>1. FrameStep(ram, home, ram, home)
    BY <1>4 DEF FrameStep
  <2> QED BY <2>1, <1>3, TreeRests DEF FramesMoved, TreeMoved
<1>6. RamSettled(w)
  BY <1>3 DEF RamSettled
<1>7. TreeSettled(p, w, space[p])
  <2>1. space[p].used = TRUE
    <3>1. space[p].used
      BY RootedUsed
    <3>2. space[p].used \in BOOLEAN
      BY <1>4 DEF Spaces
    <3> QED BY <3>1, <3>2
  <2>2. space' = [space EXCEPT ![p] = space[p]] /\ released' = released /\ ttbr0' = ttbr0
    BY <1>4 DEF OfTables
  <2>3. space[p] \in Spaces
    BY <1>4
  <2> QED BY <1>3, <2>1, <2>2, <2>3 DEF TreeSettled
<1>8. TreesInv' /\ Mapped'
  BY <1>2, <1>5, <1>6, <1>7, TreesAfter, MappedAfter
<1>9. Vmars(ram') = Vmars(ram)
  <2>1. Fresh(ram, ram) = {}
    BY <1>4 DEF Fresh
  <2> QED BY <1>2, <1>3, <1>5, <1>6, <2>1, VmarsAfter
<1>10. \A s \in Slots : /\ proc'[s].meta = proc[s].meta /\ proc'[s].pid = proc[s].pid
                        /\ ~space'[s].used => proc'[s] = NoProcess /\ space'[s] = NoSpace
  BY InvProcesses
<1>11. Processes' /\ Vmars(ram') = Metas(proc')
  BY <1>4, <1>9, <1>10, ProcessesStay
<1>12. NothingLost'
  BY <1>11, InvLost
<1>13. MemTypes'
  <2>1. ProcessTypes
    BY DEF ProcessTypes, MemInv, MemTypes
  <2>2. ids' \in Nat /\ DOMAIN cells' = RamFrames /\ DOMAIN home' = RamFrames /\ lost' \subseteq RamFrames
    BY DEF MemInv, MemTypes
  <2>3. UNCHANGED OfTables
    OBVIOUS
  <2> QED BY <1>8, <2>1, <2>2, <2>3, TypesAfter
<1> QED BY <1>8, <1>11, <1>12, <1>13, InvAfter

\* A VMO is dropped.
LEMMA OneDropped ==
  ASSUME MemInv, NEW v, VmoOK(ram, cells, home, v), ram' = DropObject(ram, v), UNCHANGED <<cells, home>>
  PROVE  /\ RamSound(ram') /\ RamClean(ram') /\ ram'.next = ram.next
         /\ Firm(ram, home, ram', home) /\ UseKept(ram, ram')
         /\ \A g \in RamFrames : ram'.tag[g] = IF g \in Owned(v) THEN "Free" ELSE ram.tag[g]
         /\ Sole(ram, v) => ram'.panic = ram.panic
         /\ \A ph \in VmoHandles : VmoOK(ram', cells', home', ObjectAt(table, ph))
<1>1. PICK m, n, ce, ho : m = ram /\ n = ram' /\ ce = cells /\ ho = home
  OBVIOUS
<1>2. RamSound(m) /\ RamClean(m) /\ VmoOK(m, ce, ho, v) /\ n = DropObject(m, v)
  BY <1>1 DEF MemInv, MemTypes
<1>3. /\ RamSound(n) /\ RamClean(n) /\ n.next = m.next /\ Firm(m, ho, n, ho)
      /\ \A g \in RamFrames : n.tag[g] = IF g \in Owned(v) THEN "Free" ELSE m.tag[g]
      /\ Sole(m, v) => n.panic = m.panic
  BY <1>2, DropSound
<1>4. UseKept(m, n)
  BY <1>2, <1>3 DEF UseKept, VmoOK
<1>5. \A ph \in VmoHandles : VmoOK(ram', cells', home', ObjectAt(table, ph))
  BY <1>1, <1>3, VmoStays
<1> QED BY <1>1, <1>2, <1>3, <1>4, <1>5

\* The clone of a VMO is as sound as the VMO.
LEMMA CloneIs ==
  ASSUME NEW m, NEW ce, NEW ho, NEW u, VmoOK(m, ce, ho, u), NEW v, v = clone(u)
  PROVE  VmoOK(m, ce, ho, v) /\ v.meta = u.meta /\ v.size = u.size /\ v.id = u.id
<1>1. /\ DOMAIN v = {"kind", "meta", "own", "size", "id"} /\ v.kind = "vmo" /\ v.meta = u.meta
      /\ v.own = u.own /\ v.size = u.size /\ v.id = u.id
  BY DEF clone
<1>2. IsVmoValue(v)
  BY <1>1 DEF VmoOK, IsVmoValue
<1>3. Owned(v) = Owned(u)
  BY <1>1 DEF Owned
<1> QED BY <1>1, <1>2, <1>3 DEF VmoOK

\* sys_handle_duplicate.
LEMMA DuplicateStep ==
  ASSUME MemInv, Calling, NEW p \in Slots, NEW h \in Handles, sys_handle_duplicate(p, h)
  PROVE  MemInv'
<1>1. PICK a, u, v, m : a = <<p, h>> /\ u = table[p][h] /\ v = clone(u) /\ m = ram
  OBVIOUS
<1>2. /\ space[p].root # 0 /\ IsVmo(p, h) /\ Added(p, v, m) /\ cloned' = cloned \cup {u.meta}
      /\ UNCHANGED <<OfTables, mem, space, asid, cells, proc, ids, home, lost>>
  BY <1>1 DEF sys_handle_duplicate
<1>3. a \in VmoHandles /\ ObjectAt(table, a) = u
  BY <1>1, <1>2 DEF VmoHandles, IsVmo, ObjectAt
<1>4. VmoOK(ram, cells, home, v) /\ v.meta = u.meta /\ v.size = u.size /\ v.id = u.id
  <2>1. VmoOK(ram, cells, home, u)
    BY <1>3, InvObjects
  <2> QED BY <1>1, <2>1, CloneIs
<1>5. v.meta \in RamFrames /\ v.kind = "vmo"
  BY <1>4 DEF VmoOK, IsVmoValue
<1>6. Owners' /\ cloned' \subseteq RamFrames
  <2>1. cloned' # {} /\ cloned \subseteq RamFrames
    BY <1>2 DEF MemInv, MemTypes
  <2> QED BY <1>2, <1>4, <1>5, <2>1 DEF Owners
<1>7. CASE table' = table /\ ram' = DropObject(m, v)
  <2>1. /\ RamSound(ram') /\ RamClean(ram') /\ ram'.next = ram.next
        /\ Firm(ram, home, ram', home) /\ UseKept(ram, ram')
        /\ \A ph \in VmoHandles : VmoOK(ram', cells', home', ObjectAt(table, ph))
    BY <1>1, <1>2, <1>4, <1>7, OneDropped
  <2>2. SameVmos /\ DOMAIN table' = Slots /\ \A r \in Slots : DOMAIN table'[r] = Handles
    BY <1>7 DEF SameVmos, VmoHandles, IsVmo, ObjectAt, MemInv, MemTypes
  <2>3. Objects'
    BY <2>1, <2>2, ObjectsFewer DEF SameVmos
  <2>4. \A f \in Datas(ram') : f \in lost \/ \E ph \in VmoHandles' : f \in Owned(ObjectAt(table', ph))
    <3>1. Datas(ram') \subseteq Datas(ram)
      BY <2>1 DEF UseKept, Datas
    <3> QED BY <2>2, <3>1, InvLost DEF SameVmos
  <2> QED BY <1>2, <1>6, <2>1, <2>2, <2>3, <2>4, TablesOnly
<1>8. CASE \E k \in Handles : table[p][k] = NoObject /\ TableWith(p, k, v) /\ ram' = m
  <2>1. PICK k \in Handles : table[p][k] = NoObject /\ TableWith(p, k, v) /\ ram' = m
    BY <1>8
  <2>2. PICK b : b = <<p, k>>
    OBVIOUS
  <2>3. /\ DOMAIN table' = Slots /\ \A s \in Slots : DOMAIN table'[s] = Handles
        /\ ObjectAt(table', b) = v
        /\ \A ph \in Slots \X Handles : ph # b => ObjectAt(table', ph) = ObjectAt(table, ph)
    BY <2>1, <2>2, TableSet
  <2>4. b \in Slots \X Handles /\ ObjectAt(table, b).kind # "vmo"
    BY <2>1, <2>2 DEF ObjectAt, NoObject
  <2>5. /\ VmoHandles' = VmoHandles \cup {b} /\ b \notin VmoHandles
        /\ \A ph \in VmoHandles : ObjectAt(table', ph) = ObjectAt(table, ph)
    <3>1. \A ph : ph \in VmoHandles' <=> ph \in VmoHandles \cup {b}
      BY <1>5, <2>3, <2>4, VmoHandlesAre
    <3>2. b \notin VmoHandles /\ VmoHandles \subseteq Slots \X Handles
      BY <2>4, VmoHandlesAre
    <3> QED BY <2>3, <3>1, <3>2
  <2>6. /\ RamSound(ram') /\ RamClean(ram') /\ ram'.next = ram.next
        /\ Firm(ram, home, ram', home) /\ UseKept(ram, ram') /\ ram' = ram
    <3>1. RamSound(ram) /\ RamClean(ram) /\ ram' = ram
      BY <1>1, <2>1 DEF MemInv, MemTypes
    <3>2. ram.next \in Nat
      BY <3>1, GivenFacts
    <3> QED BY <3>1, <3>2 DEF Firm, UseKept
  <2>7. Objects'
    <3>1. \A ph \in VmoHandles : /\ VmoOK(ram', cells', home', ObjectAt(table, ph))
                                 /\ ObjectAt(table, ph).meta = v.meta =>
                                      ObjectAt(table, ph).id = v.id /\ ObjectAt(table, ph).size = v.size
      BY <1>2, <1>3, <1>4, <2>6, InvObjects
    <3>2. VmoOK(ram', cells', home', v)
      BY <1>2, <1>4, <2>6
    <3> QED BY <2>3, <2>5, <3>1, <3>2, ObjectsWith
  <2>8. \A f \in Datas(ram') : f \in lost \/ \E ph \in VmoHandles' : f \in Owned(ObjectAt(table', ph))
    BY <2>5, <2>6, InvLost
  <2> QED BY <1>2, <1>6, <2>3, <2>6, <2>7, <2>8, TablesOnly
<1> QED BY <1>2, <1>7, <1>8, AddedIs

\* sys_handle_close.
LEMMA CloseStep ==
  ASSUME MemInv, Calling, NEW p \in Slots, NEW h \in Handles, sys_handle_close(p, h)
  PROVE  MemInv'
<1>1. PICK a, v, o : a = <<p, h>> /\ v = table[p][h] /\ o = NoObject
  OBVIOUS
<1>2. /\ space[p].root # 0 /\ TableWith(p, h, o) /\ ram' = DropObject(ram, v)
      /\ UNCHANGED <<OfTables, mem, space, asid, cells, proc, ids, home, lost>> /\ cloned' = cloned
  BY <1>1 DEF sys_handle_close, TableWith
<1>3. /\ DOMAIN table' = Slots /\ \A s \in Slots : DOMAIN table'[s] = Handles
      /\ ObjectAt(table', a) = o
      /\ \A ph \in Slots \X Handles : ph # a => ObjectAt(table', ph) = ObjectAt(table, ph)
  BY <1>1, <1>2, TableSet
<1>4. a \in Slots \X Handles /\ ObjectAt(table, a) = v /\ o.kind # "vmo"
  BY <1>1 DEF ObjectAt, NoObject
<1>5. VmoHandles' = VmoHandles \ {a} /\ \A ph \in VmoHandles \ {a} : ObjectAt(table', ph) = ObjectAt(table, ph)
  <2>1. \A ph : ph \in VmoHandles' <=> ph \in VmoHandles \ {a}
    BY <1>3, <1>4, VmoHandlesAre
  <2>2. VmoHandles \subseteq Slots \X Handles
    BY VmoHandlesAre
  <2> QED BY <1>3, <2>1, <2>2
<1>6. cloned' \subseteq RamFrames
  BY <1>2 DEF MemInv, MemTypes
<1>7. CASE v.kind = "vmo"
  <2>1. a \in VmoHandles /\ VmoOK(ram, cells, home, v)
    BY <1>4, <1>7, VmoHandlesAre, InvObjects
  <2>2. /\ RamSound(ram') /\ RamClean(ram') /\ ram'.next = ram.next
        /\ Firm(ram, home, ram', home) /\ UseKept(ram, ram')
        /\ \A g \in RamFrames : ram'.tag[g] = IF g \in Owned(v) THEN "Free" ELSE ram.tag[g]
        /\ Sole(ram, v) => ram'.panic = ram.panic
        /\ \A ph \in VmoHandles : VmoOK(ram', cells', home', ObjectAt(table, ph))
    BY <1>2, <1>4, <2>1, OneDropped
  <2>3. Objects'
    BY <1>5, <2>2, ObjectsFewer
  <2>4. Owners'
    <3>1. cloned = {} => ram'.panic # "double-free"
      BY <1>4, <2>1, <2>2, InvObjects
    <3>2. ASSUME NEW ph \in VmoHandles', cloned = {}
          PROVE  TagsKept(ObjectAt(table, ph))
      <4>1. ph \in VmoHandles /\ ph # a
        BY <1>5, <3>2
      <4>2. Owned(ObjectAt(table, ph)) \cap Owned(v) = {}
        BY <1>4, <2>1, <3>2, <4>1, InvObjects
      <4>3. Owned(ObjectAt(table, ph)) \subseteq RamFrames
        BY <4>1, MetaGiven
      <4> QED BY <2>2, <4>2, <4>3 DEF TagsKept
    <3> QED BY <1>2, <1>5, <3>1, <3>2, OwnersFewer
  <2>5. ASSUME NEW f \in Datas(ram')
        PROVE  f \in lost \/ \E ph \in VmoHandles' : f \in Owned(ObjectAt(table', ph))
    <3>1. f \in Datas(ram) /\ f \notin Owned(v)
      BY <2>2, <2>5 DEF Datas
    <3>2. f \in lost \/ \E ph \in VmoHandles : f \in Owned(ObjectAt(table, ph))
      BY <3>1, InvLost
    <3> QED BY <1>4, <1>5, <3>1, <3>2
  <2> QED BY <1>2, <1>3, <1>6, <2>2, <2>3, <2>4, <2>5, TablesOnly
<1>8. CASE v.kind # "vmo"
  <2>1. ram' = ram
    BY <1>2, <1>8 DEF DropObject
  <2>2. /\ RamSound(ram') /\ RamClean(ram') /\ ram'.next = ram.next
        /\ Firm(ram, home, ram', home) /\ UseKept(ram, ram') /\ FrameStep(ram, home, ram', home')
    <3>1. RamSound(ram) /\ RamClean(ram)
      BY DEF MemInv, MemTypes
    <3>2. ram.next \in Nat
      BY <3>1, GivenFacts
    <3> QED BY <1>2, <2>1, <3>1, <3>2 DEF Firm, UseKept, FrameStep
  <2>3. SameVmos
    <3>1. a \notin VmoHandles
      BY <1>4, <1>8, VmoHandlesAre
    <3> QED BY <1>5, <3>1 DEF SameVmos
  <2>4. Objects' /\ Owners'
    BY <1>2, <2>2, <2>3, ObjectsSame
  <2>5. \A f \in Datas(ram') : f \in lost \/ \E ph \in VmoHandles' : f \in Owned(ObjectAt(table', ph))
    BY <2>1, <2>3, InvLost DEF SameVmos
  <2> QED BY <1>2, <1>3, <1>6, <2>2, <2>4, <2>5, TablesOnly
<1> QED BY <1>7, <1>8

-----------------------------------------------------------------------------
(* Process::drop. *)

\* From m to n frames of F were freed, all of them in use as tables or VMARs.
Freed(m, n, F) ==
  /\ RamSound(n) /\ RamClean(n) /\ n.next = m.next /\ n.panic = m.panic
  /\ F \subseteq RamFrames /\ \A f \in F : m.tag[f] \in {"PageTable", "VmarMeta"}
  /\ \A g \in RamFrames : n.tag[g] = IF g \in F THEN "Free" ELSE m.tag[g]

\* The frames that the drop of a process frees.
Gone(t, m) == {t[k] : k \in 1..Len(t)} \cup {m}

\* Process::drop frees tables of the tree and the page of the VMAR.
LEMMA DropFrees ==
  ASSUME MemInv, NEW s \in Slots, proc[s].pid # 0, NEW m, m = proc[s].meta, NEW t, t = space[s].tracked,
         NEW F, F = Gone(t, m), ram' = FreeEach(ram, Reverse(t) \o <<m>>)
  PROVE  /\ Freed(ram, ram', F) /\ m \in RamFrames /\ ram.tag[m] = "VmarMeta"
         /\ \A f \in F : f \in Held(s) \/ f = m
<1>1. PICK q, u : q = Reverse(t) /\ u = ram
  OBVIOUS
<1>0. PICK z : z = q \o <<m>>
  OBVIOUS
<1>2. TreesInv /\ RamSound(u) /\ RamClean(u) /\ space[s] \in Spaces /\ t \in Seq(RamFrames)
  BY <1>1, InvTrees DEF MemInv, MemTypes, Spaces
<1>3. /\ q \in Seq(RamFrames) /\ \A k \in 1..Len(q) : q[k] \in Held(s)
      /\ \A j, k \in 1..Len(q) : q[j] = q[k] => j = k
  <2>1. q = Reverse(space[s].tracked) /\ TreesInv
    BY <1>1, <1>2
  <2> QED BY <2>1, TrackedListed
<1>4. m \in RamFrames /\ u.tag[m] = "VmarMeta"
  <2>1. m # 0 /\ m \in Metas(proc)
    BY InvProcesses DEF Metas
  <2> QED BY <1>1, <2>1, InvLost DEF Vmars
<1>5. \A f \in Held(s) : u.tag[f] = "PageTable"
  <2>1. CASE s \in Rooted
    <3>1. s \in Intact
      BY <2>1 DEF MemInv, MemTypes, Intact
    <3> QED BY <1>1, <2>1, <3>1 DEF MemInv, Tagged, Held
  <2>2. CASE s \notin Rooted
    BY <2>2 DEF Held
  <2> QED BY <2>1, <2>2
<1>6. /\ z \in Seq(RamFrames) /\ Len(q) \in Nat /\ Len(z) = Len(q) + 1 /\ z[Len(q) + 1] = m
      /\ \A k \in 1..Len(q) : z[k] = q[k]
  BY <1>0, <1>3, <1>4
<1>7. \A k \in 1..Len(z) : k \in 1..Len(q) \/ k = Len(q) + 1
  BY <1>6
<1>8. \A k \in 1..Len(z) : (z[k] \in Held(s) /\ k \in 1..Len(q) /\ z[k] = q[k]) \/ (z[k] = m /\ k = Len(q) + 1)
  BY <1>3, <1>6, <1>7
<1>9. m \notin Held(s)
  BY <1>4, <1>5
<1>10. (\A j, k \in 1..Len(z) : z[j] = z[k] => j = k) /\ (\A k \in 1..Len(z) : u.tag[z[k]] # "Free")
  BY <1>3, <1>4, <1>5, <1>8, <1>9
<1>11. PICK n : n = FreeEach(u, z)
  OBVIOUS
<1>12. /\ RamSound(n) /\ n.next = u.next /\ n.panic = u.panic
       /\ \A g \in RamFrames : (\A k \in 1..Len(z) : z[k] # g) => n.tag[g] = u.tag[g]
       /\ \A k \in 1..Len(z) : n.tag[z[k]] = "Free"
  <2>1. z \in Seq(RamFrames) /\ RamSound(u)
    BY <1>2, <1>6
  <2>2. /\ RamSound(FreeEach(u, z)) /\ FreeEach(u, z).next = u.next
        /\ \A g \in RamFrames : (\A k \in 1..Len(z) : z[k] # g) => FreeEach(u, z).tag[g] = u.tag[g]
        /\ \A k \in 1..Len(z) : FreeEach(u, z).tag[z[k]] = "Free"
    BY <2>1, FreeEachSound
  <2>3. FreeEach(u, z).panic = u.panic
    BY <2>1, <1>10, FreeEachSound
  <2> QED BY <1>11, <2>2, <2>3
<1>13. \A g : g \in F <=> \E k \in 1..Len(z) : z[k] = g
  <2>2. /\ Len(q) = Len(t) /\ Len(t) \in Nat
        /\ \A k \in 1..Len(t) : Len(t) - k + 1 \in 1..Len(t) /\ q[k] = t[Len(t) - k + 1]
    BY <1>1, <1>2, Reversed
  <2>3. \A g : g \in F <=> g = m \/ \E k \in 1..Len(t) : t[k] = g
    BY DEF Gone
  <2>4. ASSUME NEW g, NEW k \in 1..Len(t), t[k] = g
        PROVE  \E j \in 1..Len(z) : z[j] = g
    <3>1. Len(t) - k + 1 \in 1..Len(t) /\ Len(t) - (Len(t) - k + 1) + 1 = k
      BY <2>2
    <3>2. q[Len(t) - k + 1] = g
      BY <2>2, <2>4, <3>1
    <3>3. Len(t) - k + 1 \in 1..Len(q) /\ Len(t) - k + 1 \in 1..Len(z)
      BY <1>6, <2>2, <3>1
    <3>4. z[Len(t) - k + 1] = g
      BY <1>6, <3>2, <3>3
    <3> QED BY <3>3, <3>4
  <2>5. Len(q) + 1 \in 1..Len(z)
    BY <1>6
  <2>6. ASSUME NEW g, NEW j \in 1..Len(z), z[j] = g
        PROVE  g = m \/ \E k \in 1..Len(t) : t[k] = g
    <3>1. CASE z[j] = m
      BY <2>6, <3>1
    <3>2. CASE j \in 1..Len(q) /\ z[j] = q[j]
      <4>1. j \in 1..Len(t)
        BY <2>2, <3>2
      <4>2. Len(t) - j + 1 \in 1..Len(t) /\ q[j] = t[Len(t) - j + 1]
        BY <2>2, <4>1
      <4> QED BY <2>6, <3>2, <4>2
    <3> QED BY <1>8, <3>1, <3>2
  <2> QED BY <1>6, <2>3, <2>4, <2>5, <2>6
<1>14. \A f \in F : f \in Held(s) \/ f = m
  BY <1>8, <1>13
<1>15. F \subseteq RamFrames /\ \A f \in F : u.tag[f] \in {"PageTable", "VmarMeta"}
  <2>1. ASSUME NEW f \in F PROVE f \in RamFrames
    <3>1. PICK k \in 1..Len(z) : z[k] = f
      BY <1>13
    <3> QED BY <1>6, <3>1
  <2> QED BY <1>4, <1>5, <1>14, <2>1
<1>16. \A g \in RamFrames : n.tag[g] = IF g \in F THEN "Free" ELSE u.tag[g]
  <2>1. ASSUME NEW g \in RamFrames, g \in F PROVE n.tag[g] = "Free"
    <3>1. PICK k \in 1..Len(z) : z[k] = g
      BY <1>13, <2>1
    <3> QED BY <1>12, <3>1
  <2>2. ASSUME NEW g \in RamFrames, g \notin F PROVE n.tag[g] = u.tag[g]
    <3>1. \A k \in 1..Len(z) : z[k] # g
      BY <1>13, <2>2
    <3> QED BY <1>12, <3>1
  <2> QED BY <2>1, <2>2
<1>17. RamClean(n)
  BY <1>2, <1>12, <1>16 DEF RamClean
<1>18. ram' = n
  BY <1>0, <1>1, <1>11
<1> QED BY <1>1, <1>4, <1>12, <1>14, <1>15, <1>16, <1>17, <1>18 DEF Freed

\* What the other processes and the VMOs have is kept.
LEMMA FreedKeeps ==
  ASSUME NEW m, NEW n, NEW F, RamSound(m), Freed(m, n, F), NEW ho
  PROVE  /\ Firm(m, ho, n, ho)
         /\ \A g \in RamFrames : n.tag[g] # "Free" => n.tag[g] = m.tag[g] /\ g \notin F
         /\ \A g \in RamFrames : m.tag[g] \in {"Free", "VmoData"} => n.tag[g] = m.tag[g]
<1>1. Given(m) \subseteq RamFrames /\ m.next \in Nat
  BY GivenFacts
<1>2. \A g \in RamFrames : m.tag[g] \in {"Free", "VmoData"} => n.tag[g] = m.tag[g]
  BY DEF Freed
<1>3. \A g \in RamFrames : n.tag[g] # "Free" => n.tag[g] = m.tag[g] /\ g \notin F
  BY DEF Freed
<1>4. Firm(m, ho, n, ho)
  BY <1>1, <1>2 DEF Firm, Freed
<1> QED BY <1>2, <1>3, <1>4

\* The process that goes takes its VMAR with it.
LEMMA ProcessGone ==
  ASSUME MemInv, NEW s \in Slots, proc[s].meta # 0, NEW F, Freed(ram, ram', F), proc[s].meta \in F,
         \A f \in F : f \in Held(s) \/ f = proc[s].meta, \A f \in Held(s) : ram.tag[f] # "VmarMeta",
         space' = [space EXCEPT ![s] = NoSpace], proc' = [proc EXCEPT ![s] = NoProcess]
  PROVE  Processes' /\ Vmars(ram') = Metas(proc')
<1>1. /\ DOMAIN space = Slots /\ DOMAIN proc = Slots /\ RamSound(ram) /\ Given(ram') = Given(ram)
  BY DEF MemInv, MemTypes, Freed, Given
<1>2. /\ space'[s] = NoSpace /\ proc'[s] = NoProcess
      /\ \A r \in Slots \ {s} : space'[r] = space[r] /\ proc'[r] = proc[r]
  BY <1>1
<1>3. NoProcess.pid = 0 /\ NoProcess.meta = 0
  BY DEF NoProcess
<1>4. \A q, r \in Slots : proc[q].meta = proc[r].meta /\ proc[q].meta # 0 => q = r
  BY DEF MemInv, Processes
<1>5. \A r \in Slots : /\ (~space'[r].used => proc'[r] = NoProcess /\ space'[r] = NoSpace)
                       /\ (proc'[r].pid # 0 => proc'[r].meta # 0)
                       /\ (proc'[r].meta # 0 => proc'[r].meta \in Given(ram'))
  BY <1>1, <1>2, <1>3, InvProcesses
<1>6. \A q, r \in Slots : proc'[q].meta = proc'[r].meta /\ proc'[q].meta # 0 => q = r
  BY <1>2, <1>3, <1>4
<1>7. Vmars(ram') = Vmars(ram) \ {proc[s].meta}
  BY DEF Vmars, Freed
<1>8. Metas(proc') = Metas(proc) \ {proc[s].meta}
  <2>1. ASSUME NEW z \in Metas(proc')
        PROVE  z \in Metas(proc) \ {proc[s].meta}
    <3>1. PICK r \in Slots : z = proc'[r].meta /\ z # 0
      BY <2>1 DEF Metas
    <3>2. r # s /\ z = proc[r].meta
      BY <1>2, <1>3, <3>1
    <3> QED BY <1>4, <3>1, <3>2 DEF Metas
  <2>2. ASSUME NEW z \in Metas(proc) \ {proc[s].meta}
        PROVE  z \in Metas(proc')
    <3>1. PICK r \in Slots : z = proc[r].meta /\ z # 0
      BY <2>2 DEF Metas
    <3>2. r # s
      BY <2>2, <3>1
    <3>3. z = proc'[r].meta
      BY <1>2, <3>1, <3>2
    <3> QED BY <3>1, <3>3 DEF Metas
  <2> QED BY <2>1, <2>2
<1>9. Vmars(ram) = Metas(proc)
  BY InvLost
<1> QED BY <1>5, <1>6, <1>7, <1>8, <1>9 DEF Processes

\* The types of the processes without one of them.
LEMMA FewerProcessTypes ==
  ASSUME MemInv, NEW s \in Slots, proc' = [proc EXCEPT ![s] = NoProcess], asid' = asid
  PROVE  ProcessTypes
<1>1. /\ proc \in [Slots -> [pid : 0..asid.made, parent : Nat, meta : RamFrames \cup {0}, resv : Seq(Reservations)]]
      /\ asid \in [next : 1..(MaxUserAsid + 1), made : Nat]
      /\ \A r \in Slots : Len(proc[r].resv) <= MaxMappings
  BY DEF MemInv, MemTypes
<1>2. 0 \in 0..asid.made /\ <<>> \in Seq(Reservations) /\ Len(<<>>) <= MaxMappings
  <2>1. asid.made \in Nat /\ MaxMappings \in Nat
    BY <1>1, MemoryAssumption
  <2> QED BY <2>1
<1>3. /\ NoProcess \in [pid : 0..asid.made, parent : Nat, meta : RamFrames \cup {0}, resv : Seq(Reservations)]
      /\ NoProcess.resv = <<>>
  BY <1>2 DEF NoProcess
<1>4. proc'[s] = NoProcess /\ \A r \in Slots \ {s} : proc'[r] = proc[r]
  BY <1>1
<1>5. proc' \in [Slots -> [pid : 0..asid.made, parent : Nat, meta : RamFrames \cup {0}, resv : Seq(Reservations)]]
  BY <1>1, <1>3
<1>6. \A r \in Slots : Len(proc'[r].resv) <= MaxMappings
  BY <1>1, <1>2, <1>3, <1>4
<1> QED BY <1>1, <1>5, <1>6 DEF ProcessTypes

\* Process::drop keeps the invariant.
LEMMA ReapedStep ==
  ASSUME MemInv, Calling, NEW p \in Slots, NEW s \in Slots, Reaped(p, s)
  PROVE  MemInv'
<1>1. PICK m, t, F : m = proc[s].meta /\ t = space[s].tracked /\ F = Gone(t, m)
  OBVIOUS
<1>2. /\ proc[s].pid # 0 /\ ram' = FreeEach(ram, Reverse(t) \o <<m>>)
      /\ space' = [space EXCEPT ![s] = NoSpace] /\ proc' = [proc EXCEPT ![s] = NoProcess]
      /\ lost' = lost \cup UNION {Owned(table[s][h]) : h \in {k \in Handles : IsVmo(s, k)}}
      /\ table' = [table EXCEPT ![s] = [h \in Handles |-> NoObject]]
      /\ UNCHANGED <<OfTables, mem, asid, cells, ids, home, cloned>>
  BY <1>1 DEF Reaped
<1>3. /\ Freed(ram, ram', F) /\ m \in RamFrames /\ ram.tag[m] = "VmarMeta"
      /\ \A f \in F : f \in Held(s) \/ f = m
  BY <1>1, <1>2, DropFrees
<1>4. TreesInv /\ RamSound(ram) /\ RamSound(ram') /\ RamClean(ram') /\ ram'.next = ram.next
  BY <1>3, InvTrees DEF TreesInv, Freed
<1>5. /\ Firm(ram, home, ram', home)
      /\ \A g \in RamFrames : ram'.tag[g] # "Free" => ram'.tag[g] = ram.tag[g] /\ g \notin F
      /\ \A g \in RamFrames : ram.tag[g] \in {"Free", "VmoData"} => ram'.tag[g] = ram.tag[g]
  BY <1>3, <1>4, FreedKeeps
<1>6. \A r \in Rooted : \A f \in TreeFrames(mem, space[r].root) : f \in RamFrames /\ ram.tag[f] = "PageTable"
  <2>1. \A r \in Rooted : r \in Intact
    BY DEF MemInv, MemTypes, Intact
  <2>2. \A r \in Rooted : \A f \in TreeFrames(mem, space[r].root) : f \in RamFrames
    BY <1>4, RootedTree
  <2> QED BY <2>1, <2>2 DEF MemInv, Tagged
<1>7. \A r \in Rooted \ {s} : \A f \in TreeFrames(mem, space[r].root) : ram'.tag[f] = ram.tag[f]
  <2>1. ASSUME NEW r \in Rooted \ {s}, NEW f \in TreeFrames(mem, space[r].root)
        PROVE  f \notin F
    <3>1. f \notin Held(s)
      BY DEF Held, MemInv, Apart
    <3> QED BY <1>3, <1>6, <3>1
  <2> QED BY <1>3, <1>6, <2>1 DEF Freed
<1>8. space[s].root = 0 \/ space[s].root # ttbr0.root
  <2>1. ASSUME space[s].root # 0
        PROVE  space[s].root # FirstFrame
    <3>1. s \in Rooted
      BY <2>1 DEF Rooted
    <3>2. space[s].root \in Drawn(ram.next)
      BY <3>1 DEF MemInv, Trees, TreeOK
    <3> QED BY <3>2, FrameAssumption DEF Drawn
  <2> QED BY <2>1 DEF MemInv, MemTypes
<1>9. ttbr0' = ttbr0 /\ released' = released /\ mem' = mem /\ cells' = cells /\ home' = home /\ UNCHANGED OfTables
  BY <1>2 DEF OfTables
<1>10. /\ TreesInv' /\ Rooted' = Rooted \ {s} /\ \A r \in Slots \ {s} : space'[r] = space[r]
  BY <1>2, <1>4, <1>7, <1>8, <1>9, TreeDropped
<1>11. DOMAIN proc = Slots /\ DOMAIN table = Slots /\ \A r \in Slots : DOMAIN table[r] = Handles
  BY DEF MemInv, MemTypes
<1>12. Mapped'
  <2>1. ASSUME NEW r \in Rooted'
        PROVE  Backed(ram', mem', home', proc'[r].resv, space'[r].root)
    <3>1. r \in Rooted \ {s} /\ space'[r] = space[r] /\ proc'[r] = proc[r]
      BY <1>2, <1>10, <1>11, <2>1 DEF Rooted
    <3>2. PICK u, n, ho, c, a, z : /\ u = ram /\ n = ram' /\ ho = home /\ c = mem
                                   /\ a = proc[r].resv /\ z = space[r].root
      OBVIOUS
    <3>3. Backed(u, c, ho, a, z) /\ Firm(u, ho, n, ho) /\ SamePages(c, c, z) /\ ResvKept(a, a)
      BY <1>5, <3>1, <3>2 DEF MemInv, Mapped, SamePages, ResvKept
    <3>4. Backed(n, c, ho, a, z)
      BY <1>4, <3>2, <3>3, BackedKept
    <3> QED BY <1>9, <3>1, <3>2, <3>4
  <2> QED BY <2>1 DEF Mapped
<1>13. /\ VmoHandles' = {ph \in VmoHandles : ph[1] # s}
       /\ \A ph \in VmoHandles' : ObjectAt(table', ph) = ObjectAt(table, ph)
       /\ DOMAIN table' = Slots /\ \A r \in Slots : DOMAIN table'[r] = Handles
  <2>1. PICK row : row = [h \in Handles |-> NoObject]
    OBVIOUS
  <2>2. DOMAIN table' = Slots /\ table'[s] = row /\ \A r \in Slots \ {s} : table'[r] = table[r]
    BY <1>2, <1>11, <2>1
  <2>3. DOMAIN row = Handles /\ \A h \in Handles : row[h].kind # "vmo"
    BY <2>1 DEF NoObject
  <2>4. \A r \in Slots : DOMAIN table'[r] = Handles
    BY <1>11, <2>2, <2>3
  <2>5. \A ph \in Slots \X Handles : IF ph[1] = s THEN ObjectAt(table', ph).kind # "vmo"
                                                  ELSE ObjectAt(table', ph) = ObjectAt(table, ph)
    BY <2>2, <2>3 DEF ObjectAt
  <2>6. \A ph : ph \in VmoHandles' <=> ph \in VmoHandles /\ ph[1] # s
    BY <2>5, VmoHandlesAre
  <2>7. VmoHandles' \subseteq Slots \X Handles
    BY VmoHandlesAre
  <2> QED BY <2>2, <2>4, <2>5, <2>6, <2>7
<1>14. \A ph \in VmoHandles : VmoOK(ram', cells', home', ObjectAt(table, ph)) /\ TagsKept(ObjectAt(table, ph))
  <2>1. \A ph \in VmoHandles : VmoOK(ram', cells', home', ObjectAt(table, ph))
    BY <1>4, <1>5, <1>9, VmoStays
  <2>2. ASSUME NEW ph \in VmoHandles
        PROVE  TagsKept(ObjectAt(table, ph))
    <3>1. Owned(ObjectAt(table, ph)) \subseteq RamFrames /\ VmoOK(ram, cells, home, ObjectAt(table, ph))
      BY MetaGiven, InvObjects
    <3> QED BY <1>5, <3>1 DEF TagsKept, VmoOK
  <2> QED BY <2>1, <2>2
<1>15. Objects'
  BY <1>13, <1>14, ObjectsFewer
<1>16. Owners'
  <2>1. cloned = {} => ram'.panic # "double-free"
    BY <1>3, InvObjects DEF Freed
  <2>2. cloned \subseteq cloned' /\ VmoHandles' \subseteq VmoHandles
    BY <1>2, <1>13
  <2> QED BY <1>13, <1>14, <2>1, <2>2, OwnersFewer
<1>17. Processes' /\ Vmars(ram') = Metas(proc')
  <2>1. \A f \in Held(s) : ram.tag[f] # "VmarMeta"
    BY <1>6 DEF Held
  <2>2. proc[s].meta # 0 /\ proc[s].meta \in F
    BY <1>1, <1>2, InvProcesses DEF Gone
  <2> QED BY <1>1, <1>2, <1>3, <2>1, <2>2, ProcessGone
<1>18. ASSUME NEW ph \in VmoHandles, ph[1] = s
       PROVE  Owned(ObjectAt(table, ph)) \subseteq lost'
  <2>1. ph[2] \in Handles /\ ObjectAt(table, ph) = table[s][ph[2]] /\ IsVmo(s, ph[2])
    BY <1>18, VmoHandlesAre DEF ObjectAt, IsVmo
  <2> QED BY <1>2, <2>1
<1>19. ASSUME NEW f \in Datas(ram')
       PROVE  f \in lost' \/ \E ph \in VmoHandles' : f \in Owned(ObjectAt(table', ph))
  <2>1. f \in Datas(ram)
    BY <1>5, <1>19 DEF Datas
  <2>2. f \in lost \/ \E ph \in VmoHandles : f \in Owned(ObjectAt(table, ph))
    BY <2>1, InvLost
  <2> QED BY <1>2, <1>13, <1>18, <2>2
<1>20. NothingLost'
  BY <1>17, <1>19, InvLost
<1>21. MemTypes'
  <2>1. lost' \subseteq RamFrames
    <3>1. ASSUME NEW h \in Handles, IsVmo(s, h)
          PROVE  Owned(table[s][h]) \subseteq RamFrames
      <4>1. <<s, h>> \in VmoHandles /\ ObjectAt(table, <<s, h>>) = table[s][h]
        BY <3>1 DEF VmoHandles, IsVmo, ObjectAt
      <4> QED BY <4>1, MetaGiven
    <3>2. lost \subseteq RamFrames
      BY DEF MemInv, MemTypes
    <3> QED BY <1>2, <3>1, <3>2
  <2>2. cloned' \subseteq RamFrames /\ ids' \in Nat /\ DOMAIN cells' = RamFrames /\ DOMAIN home' = RamFrames
    BY <1>2 DEF MemInv, MemTypes
  <2>3. ProcessTypes
    BY <1>2, FewerProcessTypes
  <2> QED BY <1>4, <1>9, <1>10, <1>13, <2>1, <2>2, <2>3, TypesAfter
<1> QED BY <1>10, <1>12, <1>15, <1>16, <1>17, <1>20, <1>21, InvAfter

-----------------------------------------------------------------------------
(* Boot. *)

\* The launch of the loader starts soundly.
LEMMA BootStarts ==
  ASSUME NEW w, w = Boot
  PROVE  /\ CallOK(w) /\ w.ok = TRUE /\ w.tree = NoSpace /\ w.ram = BootRam /\ w.mem = BootMem
         /\ \A f \in BootTables : w.mem[f] = BootMem[f]
<1>1. /\ DOMAIN w = CallFields /\ w.ok = TRUE /\ w.ram = BootRam /\ w.mem = BootMem /\ w.tree = NoSpace
      /\ w.resv = <<>> /\ w.cells = [f \in RamFrames |-> <<>>] /\ w.home = [f \in RamFrames |-> <<>>] /\ w.ids = 1
  BY DEF Boot, CallFields
<1>2. /\ RamSound(BootRam) /\ BootRam.next = FirstFrame + 3
      /\ \A f \in (FirstFrame + 3)..LastFrame : BootRam.tag[f] = "Free"
  BY BootRamSound
<1>3. RamClean(BootRam)
  <2>1. FirstFrame \in Nat /\ LastFrame \in Nat
    BY FrameAssumption
  <2>2. \A f \in RamFrames : f >= FirstFrame + 3 => f \in (FirstFrame + 3)..LastFrame
    BY <2>1 DEF RamFrames
  <2> QED BY <1>2, <2>2 DEF RamClean
<1>4. BootMem \in Descriptors
  BY BootTablesAre
<1>5. <<>> \in Seq(Reservations) /\ Len(<<>>) <= MaxMappings /\ FirstFrame + 3 <= FirstFrame + 3
  BY MemoryAssumption, FrameAssumption
<1>6. Going(w)
  <2>1. w.ids \in Nat
    <3>1. w.ids = 1
      BY <1>1, Zenon
    <3> QED BY <3>1
  <2>4. w.ok \in BOOLEAN
    <3>1. w.ok = TRUE
      BY <1>1, Zenon
    <3> QED BY <3>1, Zenon
  <2>2. DOMAIN w.cells = RamFrames /\ DOMAIN w.home = RamFrames
    BY <1>1, Zenon
  <2>3. w.resv \in Seq(Reservations) /\ Len(w.resv) <= MaxMappings /\ FirstFrame + 3 <= w.ram.next
    BY <1>1, <1>2, <1>5
  <2> QED BY <1>1, <1>2, <1>3, <1>4, <2>1, <2>2, <2>3, <2>4 DEF Going
<1>7. NoSpace \in Spaces /\ NoSpace.root = 0 /\ NoSpace.tracked = <<>>
  BY SpaceAssumption DEF NoSpace, Spaces
<1>8. TreeBacked(w.ram, w.mem, w.home, w.tree, w.resv)
  BY <1>1, <1>7 DEF TreeBacked
<1> QED BY <1>1, <1>6, <1>8 DEF CallOK

\* There is a page for the loader's VMAR.
LEMMA BootCanAlloc ==
  CanAlloc(BootRam)
<1>1. FirstFrame \in Nat /\ LastFrame \in Nat /\ FirstFrame + 3 <= LastFrame
  BY FrameAssumption, MemoryAssumption
<1>2. FirstFrame + 3 \in Ahead(BootRam)
  BY <1>1, BootRamSound DEF Ahead
<1> QED BY <1>2 DEF CanAlloc

\* From y to w the boot VMO was made, or not.
LEMMA BootVmo ==
  ASSUME NEW y, CallOK(y), NEW w, w = create_physical(y)
  PROVE  /\ CallOK(w) /\ FramesMoved(y, w) /\ w.mem = y.mem /\ w.tree = y.tree
         /\ \A f \in Fresh(y.ram, w.ram) : w.ram.tag[f] # "VmarMeta"
         /\ \/ w.v = NoObject /\ \A f \in Fresh(y.ram, w.ram) : w.ram.tag[f] # "VmoData"
            \/ /\ HasVmo(w) /\ Sole(w.ram, w.v)
               /\ \A f \in Fresh(y.ram, w.ram) : w.ram.tag[f] = "VmoData" => f \in Owned(w.v)
<1>1. CASE NotMade(y, w)
  <2>1. /\ w.ram = y.ram /\ w.mem = y.mem /\ w.tree = y.tree /\ w.resv = y.resv /\ w.cells = y.cells
        /\ w.home = y.home /\ w.ids = y.ids /\ w.ok = FALSE /\ DOMAIN w = CallFields /\ w.v = NoObject
    BY <1>1 DEF NotMade
  <2>2. CallOK(w) /\ Quiet(y, w)
    <3>1. w.ids \in Nat /\ w.ok \in BOOLEAN
      BY <2>1 DEF CallOK, Going
    <3> QED BY <2>1, <3>1, QuietSame
  <2>3. Fresh(y.ram, w.ram) = {}
    <3>1. y.ram.next \in Nat
      BY GivenFacts DEF CallOK, Going
    <3> QED BY <2>1, <3>1 DEF Fresh
  <2> QED BY <2>1, <2>2, <2>3 DEF Quiet
<1>2. CASE Created(y, w)
  <2>1. /\ CallOK(w) /\ HasVmo(w) /\ Sole(w.ram, w.v) /\ FramesMoved(y, w) /\ w.mem = y.mem /\ w.tree = y.tree
        /\ Owned(w.v) = {w.v.meta}
        /\ \A g \in Fresh(y.ram, w.ram) \ {w.v.meta} : w.ram.tag[g] = "Free"
    BY <1>2 DEF Created
  <2>2. w.ram.tag[w.v.meta] = "VmoData"
    BY <2>1 DEF Sole
  <2> QED BY <2>1, <2>2
<1> QED BY <1>1, <1>2, PhysicalSound

\* What the boot leaves.
LEMMA BootSound ==
  ASSUME ttbr0.root = FirstFrame, NEW w, w = create_physical(LaunchedIn(Boot)), NEW f0, f0 = Candidate(BootRam)
  PROVE  /\ CallOK(w) /\ TreeStep(BootRam, BootMem, NoSpace, w.ram, w.mem, w.tree)
         /\ BootRam.next <= w.ram.next /\ w.ram.panic # "double-free"
         /\ f0 \in Given(w.ram) /\ Vmars(w.ram) = {f0}
         /\ \/ w.v = NoObject /\ Datas(w.ram) = {}
            \/ HasVmo(w) /\ Sole(w.ram, w.v) /\ Datas(w.ram) \subseteq Owned(w.v)
<1>1. PICK b, y : b = Boot /\ y = LaunchedIn(b)
  OBVIOUS
<1>2. /\ CallOK(b) /\ b.ok = TRUE /\ b.tree = NoSpace /\ b.ram = BootRam /\ b.mem = BootMem
      /\ \A f \in BootTables : b.mem[f] = BootMem[f]
  BY <1>1, BootStarts
<1>3. Started(b, y)
  BY <1>1, <1>2, LaunchSound
<1>4. CallOK(y) /\ FramesMoved(b, y) /\ TreeMoved(b, y)
  BY <1>3 DEF Started
<1>5. w = create_physical(y)
  BY <1>1
<1>6. /\ CallOK(w) /\ FramesMoved(y, w) /\ w.mem = y.mem /\ w.tree = y.tree
      /\ \A f \in Fresh(y.ram, w.ram) : w.ram.tag[f] # "VmarMeta"
      /\ \/ w.v = NoObject /\ \A f \in Fresh(y.ram, w.ram) : w.ram.tag[f] # "VmoData"
         \/ /\ HasVmo(w) /\ Sole(w.ram, w.v)
            /\ \A f \in Fresh(y.ram, w.ram) : w.ram.tag[f] = "VmoData" => f \in Owned(w.v)
  BY <1>4, <1>5, BootVmo
<1>7. PICK m, n, k, ho, hn, hk : /\ m = b.ram /\ n = y.ram /\ k = w.ram
                                 /\ ho = b.home /\ hn = y.home /\ hk = w.home
  OBVIOUS
<1>8. RamSound(m) /\ RamSound(n) /\ RamSound(k) /\ RamClean(k) /\ m = BootRam
  BY <1>2, <1>4, <1>6, <1>7 DEF CallOK, Going
<1>9. FrameStep(m, ho, n, hn) /\ FrameStep(n, hn, k, hk)
  BY <1>4, <1>6, <1>7 DEF FramesMoved
<1>10. /\ FrameStep(m, ho, k, hk) /\ Fresh(m, k) = Fresh(m, n) \cup Fresh(n, k) /\ Fresh(m, n) \subseteq Given(n)
  BY <1>8, <1>9, FrameTrans
<1>11. TreeStep(m, BootMem, NoSpace, k, w.mem, w.tree)
  <2>1. PICK c, d, t, q : c = b.mem /\ d = y.mem /\ t = b.tree /\ q = y.tree
    OBVIOUS
  <2>2. TreeStep(m, c, t, n, d, q)
    BY <1>4, <1>7, <2>1 DEF TreeMoved
  <2>3. TreeStep(n, d, q, k, d, q)
    BY TreeRests
  <2>4. TreeStep(m, c, t, k, d, q)
    BY <1>8, <1>9, <2>2, <2>3, TreeTrans
  <2> QED BY <1>2, <1>6, <2>1, <2>4
<1>12. /\ f0 \in Fresh(m, n)
       /\ \A f \in Fresh(m, n) : n.tag[f] # "VmoData" /\ (n.tag[f] = "VmarMeta" <=> f = f0)
  BY <1>2, <1>3, <1>7, <1>8, BootCanAlloc DEF Started
<1>13. \A f \in Fresh(m, n) : k.tag[f] = n.tag[f]
  BY <1>9, <1>10 DEF FrameStep
<1>14. \A f \in Given(m) : k.tag[f] \in {"Free", "PageTable"}
  <2>1. \A f \in Given(m) : m.tag[f] \in {"Free", "PageTable"}
    BY <1>8, BootRamSound, GivenFacts
  <2> QED BY <1>10, <2>1 DEF FrameStep
<1>15. ASSUME NEW f \in RamFrames, k.tag[f] # "Free"
       PROVE  f \in Given(m) \/ f \in Fresh(m, n) \/ f \in Fresh(n, k)
  <2>1. m.next \in Nat /\ k.next \in Nat /\ FirstFrame \in Nat /\ FirstFrame <= m.next /\ f \in Nat /\ FirstFrame <= f
    BY <1>8, GivenFacts DEF RamFrames
  <2>2. f < k.next
    BY <1>8, <1>15, <2>1 DEF RamClean
  <2>3. f \in Given(m) \/ f \in Fresh(m, k)
    BY <2>1, <2>2 DEF Given, Fresh
  <2> QED BY <1>10, <2>3
<1>16. f0 \in Given(k) /\ f0 \in RamFrames /\ k.tag[f0] = "VmarMeta"
  <2>1. Given(n) \subseteq Given(k) /\ Given(k) \subseteq RamFrames
    BY <1>8, <1>9, GivenKept, GivenFacts DEF FrameStep
  <2> QED BY <1>10, <1>12, <1>13, <2>1
<1>17. Vmars(k) = {f0}
  <2>1. ASSUME NEW f \in RamFrames, k.tag[f] = "VmarMeta"
        PROVE  f = f0
    BY <1>6, <1>7, <1>12, <1>13, <1>14, <1>15, <2>1
  <2> QED BY <1>16, <2>1 DEF Vmars
<1>18. \A f \in Datas(k) : f \in Fresh(n, k)
  BY <1>12, <1>13, <1>14, <1>15 DEF Datas
<1>19. k.panic # "double-free" /\ BootRam.next <= k.next
  BY <1>8, <1>10, BootRamSound DEF FrameStep
<1>20. \/ w.v = NoObject /\ Datas(k) = {}
       \/ HasVmo(w) /\ Sole(k, w.v) /\ Datas(k) \subseteq Owned(w.v)
  <2>1. \A f \in Datas(k) : k.tag[f] = "VmoData"
    BY DEF Datas
  <2> QED BY <1>6, <1>7, <1>18, <2>1
<1> QED BY <1>6, <1>7, <1>8, <1>11, <1>16, <1>17, <1>19, <1>20

\* The invariant holds when the loader is about to run.
LEMMA MemInvInit ==
  MemInit => MemInv
<1> SUFFICES ASSUME MemInit PROVE MemInv
  OBVIOUS
<1>1. PICK w, f0, l, q, z : /\ w = create_physical(LaunchedIn(Boot)) /\ f0 = Candidate(BootRam)
                            /\ l = Min(Slots) /\ q = Named(w.tree, 1)
                            /\ z = [pid |-> 1, parent |-> 0, meta |-> f0, resv |-> w.resv]
  OBVIOUS
<1>2. /\ ttbr0 = [root |-> FirstFrame, asid |-> 0]
      /\ ram = w.ram /\ mem = w.mem /\ cells = w.cells /\ home = w.home /\ ids = w.ids
      /\ asid = [next |-> 2, made |-> 1]
      /\ tlb = {} /\ released = {} /\ lost = {} /\ cloned = {} /\ calls = 0
  BY <1>1 DEF MemInit
<1>3. /\ space = [s \in Slots |-> IF s = l THEN q ELSE NoSpace]
      /\ proc = [s \in Slots |-> IF s = l THEN z ELSE NoProcess]
      /\ table = [s \in Slots |-> [h \in Handles |-> IF s = l /\ h = 1 THEN w.v ELSE NoObject]]
  BY <1>1 DEF MemInit
<1>4. l \in Slots
  <2>1. Slots \in SUBSET Nat /\ Slots # {}
    BY MemoryAssumption
  <2> QED BY <1>1, <2>1, LeastNumber
<1>5. /\ CallOK(w) /\ TreeStep(BootRam, BootMem, NoSpace, w.ram, w.mem, w.tree)
      /\ BootRam.next <= w.ram.next /\ w.ram.panic # "double-free"
      /\ f0 \in Given(w.ram) /\ Vmars(w.ram) = {f0}
      /\ \/ w.v = NoObject /\ Datas(w.ram) = {}
         \/ HasVmo(w) /\ Sole(w.ram, w.v) /\ Datas(w.ram) \subseteq Owned(w.v)
  <2>1. ttbr0.root = FirstFrame
    BY <1>2
  <2> QED BY <1>1, <2>1, BootSound
<1>6. /\ RamSound(w.ram) /\ RamClean(w.ram) /\ w.mem \in Descriptors /\ w.ids \in Nat
      /\ DOMAIN w.cells = RamFrames /\ DOMAIN w.home = RamFrames
      /\ w.resv \in Seq(Reservations) /\ Len(w.resv) <= MaxMappings /\ FirstFrame + 3 <= w.ram.next
  BY <1>5 DEF CallOK, Going
<1>7. TreeBacked(w.ram, w.mem, w.home, w.tree, w.resv)
  BY <1>5 DEF CallOK
<1>8. q \in Spaces /\ q.used = TRUE /\ q.root = w.tree.root /\ q.tracked = w.tree.tracked
  <2>1. PICK t : t = w.tree
    OBVIOUS
  <2>2. t \in Spaces /\ 1 \in 0..MaxUserAsid
    BY <1>7, <2>1, SpaceAssumption DEF TreeBacked
  <2>3. q \in Spaces /\ q.used = TRUE /\ q.root = t.root /\ q.tracked = t.tracked
    BY <1>1, <2>1, <2>2 DEF Named, Spaces
  <2> QED BY <2>1, <2>3
<1>9. /\ NoSpace \in Spaces /\ NoSpace.root = 0 /\ NoSpace.tracked = <<>> /\ NoSpace.used = FALSE
  BY SpaceAssumption DEF NoSpace, Spaces
<1>10. /\ space \in [Slots -> Spaces] /\ space[l] = q /\ \A s \in Slots \ {l} : space[s] = NoSpace
  BY <1>3, <1>4, <1>8, <1>9
<1>11. Rooted \subseteq {l} /\ Intact \subseteq {l} /\ (l \in Rooted => w.tree.root # 0)
  BY <1>8, <1>9, <1>10 DEF Rooted, Intact
<1>12. /\ f0 \in RamFrames /\ f0 # 0 /\ proc[l] = z /\ \A s \in Slots \ {l} : proc[s] = NoProcess
       /\ z.meta = f0 /\ z.pid = 1 /\ z.resv = w.resv
       /\ NoProcess.meta = 0 /\ NoProcess.pid = 0 /\ NoProcess.resv = <<>>
  <2>1. f0 \in RamFrames /\ f0 # 0
    BY <1>5, <1>6, GivenFacts
  <2>2. proc[l] = z /\ \A s \in Slots \ {l} : proc[s] = NoProcess
    BY <1>3, <1>4
  <2>3. z.meta = f0 /\ z.pid = 1 /\ z.resv = w.resv
    BY <1>1
  <2>4. NoProcess.meta = 0 /\ NoProcess.pid = 0 /\ NoProcess.resv = <<>>
    BY DEF NoProcess
  <2> QED BY <2>1, <2>2, <2>3, <2>4
<1>13. MemTypes
  <2>1. asid.made = 1 /\ asid \in [next : 1..(MaxUserAsid + 1), made : Nat]
    BY <1>2, SpaceAssumption
  <2>2. PICK P : P = [pid : 0..1, parent : Nat, meta : RamFrames \cup {0}, resv : Seq(Reservations)]
    OBVIOUS
  <2>3. z \in P
    BY <1>1, <1>6, <1>12, <2>2
  <2>4. NoProcess \in P
    <3>1. <<>> \in Seq(Reservations)
      OBVIOUS
    <3> QED BY <2>2, <3>1 DEF NoProcess
  <2>5. proc \in [Slots -> P]
    BY <1>3, <2>3, <2>4
  <2>6. \A s \in Slots : Len(proc[s].resv) <= MaxMappings
    <3>1. Len(<<>>) <= MaxMappings
      BY MemoryAssumption
    <3> QED BY <1>6, <1>12, <3>1
  <2>7. \A s \in Slots : Orderly(space[s])
    BY <1>7, <1>8, <1>9, <1>10 DEF Orderly, TreeBacked
  <2>8. DOMAIN table = Slots /\ \A s \in Slots : DOMAIN table[s] = Handles
    BY <1>3
  <2>9. calls \in 0..MaxCalls
    BY <1>2, MemoryAssumption
  <2>10. proc \in [Slots -> [pid : 0..asid.made, parent : Nat, meta : RamFrames \cup {0}, resv : Seq(Reservations)]]
    BY <2>1, <2>2, <2>5
  <2>11. lost \subseteq RamFrames /\ cloned \subseteq RamFrames
    BY <1>2
  <2> QED BY <1>2, <1>6, <1>10, <2>1, <2>6, <2>7, <2>8, <2>9, <2>10, <2>11 DEF MemTypes
<1>14. \A f \in FramesOf(w.mem, w.tree) : f \in Fresh(BootRam, w.ram) /\ w.ram.tag[f] = "PageTable"
  <2>1. FramesOf(BootMem, NoSpace) = {}
    BY <1>9 DEF FramesOf
  <2> QED BY <1>5, <2>1 DEF TreeStep
<1>15. Booted
  <2>1. ASSUME NEW f \in BootTables
        PROVE  f \in RamFrames \ FramesOf(w.mem, w.tree)
    <3>1. FirstFrame \in Nat /\ LastFrame \in Nat /\ FirstFrame + 2 <= LastFrame
      BY FrameAssumption, SpaceAssumption
    <3>2. f \in RamFrames /\ f < FirstFrame + 3
      BY <2>1, <3>1 DEF BootTables, RamFrames
    <3>3. f \notin Fresh(BootRam, w.ram)
      BY <3>1, <3>2, BootRamSound DEF Fresh, RamFrames
    <3> QED BY <1>14, <3>2, <3>3
  <2>2. \A f \in BootTables : mem[f] = BootMem[f]
    BY <1>2, <1>5, <2>1 DEF TreeStep
  <2> QED BY <1>2, <1>6, <2>2 DEF Booted
<1>16. Trees
  BY <1>2, <1>7, <1>8, <1>10, <1>11 DEF Trees, TreeBacked
<1>17. Mapped
  BY <1>2, <1>7, <1>8, <1>10, <1>11, <1>12 DEF Mapped, TreeBacked
<1>18. Apart
  BY <1>11 DEF Apart
<1>19. Tagged
  <2>1. ASSUME NEW s \in Intact
        PROVE  TreeFrames(mem, space[s].root) = FramesOf(w.mem, w.tree)
    <3>1. s = l /\ l \in Rooted
      BY <1>11 DEF Intact
    <3> QED BY <1>2, <1>8, <1>10, <1>11, <3>1 DEF FramesOf
  <2> QED BY <1>2, <1>14, <2>1 DEF Tagged
<1>20. ASSUME NEW ph \in VmoHandles
       PROVE  ph = <<l, 1>> /\ table[ph[1]][ph[2]] = w.v /\ w.v # NoObject
  <2>1. ph \in Slots \X Handles /\ table[ph[1]][ph[2]].kind = "vmo"
    BY DEF VmoHandles, IsVmo
  <2>2. PICK s \in Slots, h \in Handles : ph = <<s, h>>
    BY <2>1
  <2>3. table[s][h] = (IF s = l /\ h = 1 THEN w.v ELSE NoObject) /\ table[s][h].kind = "vmo"
    BY <1>3, <2>1, <2>2
  <2>4. table[s][h] # NoObject
    BY <2>3 DEF NoObject
  <2> QED BY <2>2, <2>3, <2>4
<1>21. Objects
  <2>1. \A ph \in VmoHandles : VmoOK(ram, cells, home, table[ph[1]][ph[2]])
    BY <1>2, <1>5, <1>20 DEF HasVmo
  <2>2. \A ph, qh \in VmoHandles : table[ph[1]][ph[2]] = table[qh[1]][qh[2]]
    BY <1>20
  <2> QED BY <2>1, <2>2 DEF Objects
<1>22. Owners
  <2>1. \A ph \in VmoHandles : Sole(ram, table[ph[1]][ph[2]])
    BY <1>2, <1>5, <1>20
  <2>2. \A ph, qh \in VmoHandles : ph = qh
    BY <1>20
  <2>3. ram.panic # "double-free"
    BY <1>2, <1>5
  <2> QED BY <2>1, <2>2, <2>3 DEF Owners
<1>23. Processes
  <2>1. ASSUME NEW s \in Slots
        PROVE  /\ ~space[s].used => proc[s] = NoProcess /\ space[s] = NoSpace
               /\ proc[s].pid # 0 => proc[s].meta # 0
               /\ proc[s].meta # 0 => proc[s].meta \in Given(ram)
    BY <1>2, <1>5, <1>8, <1>10, <1>12
  <2>2. \A s \in Slots : proc[s].meta # 0 => s = l
    BY <1>12
  <2> QED BY <2>1, <2>2 DEF Processes
<1>24. NothingLost
  <2>1. {f \in RamFrames : ram.tag[f] = "VmarMeta"} = {proc[s].meta : s \in Slots} \ {0}
    <3>1. {f \in RamFrames : ram.tag[f] = "VmarMeta"} = {f0}
      BY <1>2, <1>5 DEF Vmars
    <3>2. {proc[s].meta : s \in Slots} \ {0} = {f0}
      BY <1>4, <1>12
    <3> QED BY <3>1, <3>2
  <2>2. ASSUME NEW f \in RamFrames, ram.tag[f] = "VmoData"
        PROVE  \E ph \in VmoHandles : f \in Owned(table[ph[1]][ph[2]])
    <3>1. f \in Datas(w.ram)
      BY <1>2, <2>2 DEF Datas
    <3>2. HasVmo(w) /\ f \in Owned(w.v)
      BY <1>5, <3>1
    <3>3. 1 \in Handles
      BY MemoryAssumption DEF Handles
    <3>4. table[l][1] = w.v
      BY <1>3, <1>4, <3>3
    <3>5. w.v.kind = "vmo"
      BY <3>2 DEF HasVmo, VmoOK, IsVmoValue
    <3>6. <<l, 1>> \in VmoHandles
      BY <1>4, <3>3, <3>4, <3>5 DEF VmoHandles, IsVmo
    <3> QED BY <3>2, <3>4, <3>6
  <2> QED BY <2>1, <2>2 DEF NothingLost
<1> QED BY <1>13, <1>15, <1>16, <1>17, <1>18, <1>19, <1>21, <1>22, <1>23, <1>24 DEF MemInv

-----------------------------------------------------------------------------
(* The theorems. *)

\* Every call keeps the invariant.
LEMMA MemInvNext ==
  MemInv /\ [MemNext]_memVars => MemInv'
<1> SUFFICES ASSUME MemInv, [MemNext]_memVars PROVE MemInv'
  OBVIOUS
<1>1. ASSUME NEW p \in Slots, Calling, sys_spawn(p)
      PROVE  MemInv'
  BY <1>1, SpawnStep
<1>2. ASSUME NEW p \in Slots, Calling, sys_process_create(p)
      PROVE  MemInv'
  BY <1>2, ProcessCreateStep
<1>3. ASSUME NEW p \in Slots, NEW req \in Requests, Calling, sys_vmo_create(p, req[2])
      PROVE  MemInv'
  BY <1>3, CreateStep
<1>4. ASSUME NEW p \in Slots, NEW s \in Slots, Calling, Reaped(p, s)
      PROVE  MemInv'
  BY <1>4, ReapedStep
<1>5. ASSUME NEW p \in Slots, NEW h \in Handles, Calling, sys_load_binary(p, h)
      PROVE  MemInv'
  BY <1>5, LoadStep
<1>6. ASSUME NEW p \in Slots, NEW h \in Handles, Calling, sys_handle_duplicate(p, h)
      PROVE  MemInv'
  BY <1>6, DuplicateStep
<1>7. ASSUME NEW p \in Slots, NEW h \in Handles, Calling, sys_handle_close(p, h)
      PROVE  MemInv'
  BY <1>7, CloseStep
<1>8. ASSUME NEW p \in Slots, NEW h \in Handles, NEW i \in 0..(HeapPages - 1), Calling, sys_vmo_access(p, h, i)
      PROVE  MemInv'
  <2>1. i \in Nat
    BY MemoryAssumption
  <2> QED BY <1>8, <2>1, AccessStep
<1>9. ASSUME NEW p \in Slots, NEW h \in Handles, NEW req \in Requests, Calling,
             sys_vmo_create_child(p, h, req[1], req[2])
      PROVE  MemInv'
  <2>1. PICK off, n : off = req[1] /\ n = req[2]
    OBVIOUS
  <2>2. off \in Nat /\ n \in Nat
    BY <2>1, RequestFacts
  <2> QED BY <1>9, <2>1, <2>2, ChildStep
<1>10. ASSUME NEW p \in Slots, NEW h \in Handles, NEW req \in Requests, Calling, sys_vmar_map_self(p, h, req)
       PROVE  MemInv'
  BY <1>10, MapSelfStep
<1>11. ASSUME NEW p \in Slots, NEW h \in Handles, NEW req \in Requests, NEW g \in Handles, NEW t \in Slots,
              Calling, sys_vmar_map(p, g, h, t, req)
       PROVE  MemInv'
  BY <1>11, VmarMapStep
<1>12. CASE UNCHANGED memVars
  <2>1. /\ ram' = ram /\ mem' = mem /\ space' = space /\ ttbr0' = ttbr0 /\ tlb' = tlb
        /\ asid' = asid /\ released' = released /\ table' = table /\ cells' = cells /\ proc' = proc
        /\ ids' = ids /\ calls' = calls /\ home' = home /\ lost' = lost /\ cloned' = cloned
    BY <1>12 DEF memVars
  <2>2. MemTypes'
    BY <2>1 DEF MemInv, MemTypes
  <2>3. Booted' /\ Trees' /\ Apart' /\ Mapped'
    BY <2>1 DEF MemInv, Booted, Trees, Apart, Mapped, Rooted
  <2>4. Tagged'
    BY <2>1 DEF MemInv, Tagged, Intact, Rooted
  <2>5. VmoHandles' = VmoHandles
    BY <2>1 DEF VmoHandles, IsVmo
  <2>6. Objects' /\ Owners' /\ NothingLost'
    BY <2>1, <2>5 DEF MemInv, Objects, Owners, NothingLost
  <2>7. Processes'
    BY <2>1 DEF MemInv, Processes
  <2> QED BY <2>2, <2>3, <2>4, <2>6, <2>7 DEF MemInv
<1> QED BY <1>1, <1>2, <1>3, <1>4, <1>5, <1>6, <1>7, <1>8, <1>9, <1>10, <1>11, <1>12 DEF MemNext

\* The invariant holds in every reachable state of the memory objects.
THEOREM MemInvariant == MemSpec => []MemInv
<1>1. MemInit => MemInv
  BY MemInvInit
<1>2. MemInv /\ [MemNext]_memVars => MemInv'
  BY MemInvNext
<1> QED BY <1>1, <1>2, PTL DEF MemSpec

\* Every page taken for a VMO has an owner that will free it or was in the table
\* of a dropped process, and every VMAR page a process, whatever call failed
\* halfway.
THEOREM NoFrameIsLost == MemSpec => []NothingLost
<1>1. MemInv => NothingLost
  BY DEF MemInv
<1> QED BY <1>1, MemInvariant, PTL

\* Without sys_handle_duplicate of a VMO no frame is freed twice.
THEOREM DoubleFreeNeedsDuplicate == MemSpec => []OnlyDuplicatesDoubleFree
<1>1. MemInv => OnlyDuplicatesDoubleFree
  BY DEF MemInv, Owners, OnlyDuplicatesDoubleFree
<1> QED BY <1>1, MemInvariant, PTL

\* The variables keep their types, and a VMO's metadata page has a cell for each
\* of its pages.
THEOREM MemTypesHold == MemSpec => []MemTypeOK
<1>1. MemInv => MemTypeOK
  <2> SUFFICES ASSUME MemInv PROVE MemTypeOK
    OBVIOUS
  <2>1. MemTypes /\ Objects
    BY DEF MemInv
  <2>2. /\ ram \in Allocator /\ ids \in Nat /\ calls \in 0..MaxCalls
        /\ lost \subseteq RamFrames /\ cloned \subseteq RamFrames
    BY <2>1 DEF MemTypes, RamSound
  <2>3. ASSUME NEW s \in Slots
        PROVE  /\ Len(proc[s].resv) <= MaxMappings
               /\ proc[s].pid \in 0..asid.made /\ proc[s].meta \in RamFrames \cup {0}
    BY <2>1 DEF MemTypes
  <2>4. ASSUME NEW ph \in VmoHandles, NEW v, v = table[ph[1]][ph[2]]
        PROVE  DOMAIN cells[v.meta] = 0..(v.size - 1) /\ DOMAIN v.own \in {{}, 0..(v.size - 1)}
    <3>1. VmoOK(ram, cells, home, v)
      BY <2>1, <2>4 DEF Objects
    <3> QED BY <3>1 DEF VmoOK, IsVmoValue
  <2> QED BY <2>2, <2>3, <2>4 DEF MemTypeOK
<1> QED BY <1>1, MemInvariant, PTL

\* A mapped page has a page number.
LEMMA PageNumber ==
  ASSUME NEW c \in Descriptors, NEW n \in FirstFrame..(LastFrame + 1), NEW r, TreeOK(c, n, r),
         NEW i \in Idx, NEW j \in Idx, NEW e, e = PageAt(c, r, i, j), e # NoEntry
  PROVE  e.pa \in Nat
<1>1. PICK f : f = c[Low(c, r)][i].pa
  OBVIOUS
<1>2. Low(c, r) # 0 /\ f # 0 /\ e = c[f][j]
  BY <1>1 DEF PageAt
<1>3. f \in Drawn(n)
  BY <1>1, <1>2 DEF TreeOK
<1>4. f \in RamFrames
  BY <1>3, FramesDrawn
<1> QED BY <1>2, <1>4 DEF Descriptors, Entries

\* Pages of a VMAR with the same digits are the same.
LEMMA SameDigits ==
  ASSUME NEW va \in Nat, va < Span(1), NEW ub \in UserVas,
         Index(va, 2) = Index(ub, 2), Index(va, 3) = Index(ub, 3)
  PROVE  va = ub
<1>1. ub \in Nat /\ ub < Span(1)
  <2>1. UserPages \in Nat /\ Span(1) \in Nat /\ UserPages <= Span(1)
    BY SpaceAssumption, SpanFacts
  <2> QED BY <2>1 DEF UserVas
<1>2. va = Index(va, 2) * Fanout + Index(va, 3)
  BY LowDigits
<1>3. ub = Index(ub, 2) * Fanout + Index(ub, 3)
  BY <1>1, LowDigits
<1> QED BY <1>2, <1>3

\* The tree of a slot.
LEMMA SlotTree ==
  ASSUME MemInv, NEW s \in Rooted, NEW r, r = space[s].root, NEW n, n = ram.next
  PROVE  /\ mem \in Descriptors /\ n \in FirstFrame..(LastFrame + 1) /\ TreeOK(mem, n, r) /\ Cloned(mem, r)
         /\ Backed(ram, mem, home, proc[s].resv, r) /\ BootKept(mem)
<1>1. RamSound(ram) /\ mem \in Descriptors
  BY DEF MemInv, MemTypes
<1>2. n \in FirstFrame..(LastFrame + 1)
  BY <1>1, GivenFacts
<1> QED BY <1>1, <1>2 DEF MemInv, Trees, Mapped, Booted, BootKept

\* What a program sees in its VMAR was reserved for it there: the frame behind
\* an address was committed for the page of the VMO that a reservation of the
\* process names, and holds no table.
THEOREM ProgramsSeeWhatWasReserved == MemSpec => []MappedAsReserved
<1>1. MemInv => MappedAsReserved
  <2> DEFINE Fits(s, va, f) ==
               f \in RamFrames =>
                 /\ ram.tag[f] \in {"Free", "VmoData"}
                 /\ \E k \in DOMAIN proc[s].resv :
                      LET r == proc[s].resv[k]
                      IN  va \in r.va..(r.va + r.n - 1) /\ home[f] = <<r.id, r.off + va - r.va>>
  <2> SUFFICES ASSUME MemInv, NEW s \in Rooted, NEW va \in UserVas
               PROVE  Fits(s, va, translate_va(mem, space[s].root, va))
    BY Zenon DEF MappedAsReserved
  <2>0. PICK f : f = translate_va(mem, space[s].root, va)
    OBVIOUS
  <2> SUFFICES ASSUME f \in RamFrames
               PROVE  Fits(s, va, f)
    BY <2>0
  <2>1. PICK r, n, a : r = space[s].root /\ n = ram.next /\ a = proc[s].resv
    OBVIOUS
  <2>2. /\ mem \in Descriptors /\ n \in FirstFrame..(LastFrame + 1) /\ TreeOK(mem, n, r)
        /\ Backed(ram, mem, home, a, r)
    BY <2>1, SlotTree
  <2>3. IsLow(va) /\ Index(va, 2) \in Idx /\ Index(va, 3) \in Idx
    BY UserLow DEF IsLow
  <2>4. PICK i \in Idx, j \in Idx : i = Index(va, 2) /\ j = Index(va, 3)
    BY <2>3
  <2>5. PICK e : e = PageAt(mem, r, i, j)
    OBVIOUS
  <2>6. f = IF e = NoEntry THEN NoPage ELSE e.pa + 0
    BY <2>0, <2>1, <2>2, <2>3, <2>4, <2>5, PageFound
  <2>7. e # NoEntry /\ f = e.pa + 0
    <3>1. NoPage \notin RamFrames
      BY FrameAssumption DEF NoPage, RamFrames
    <3> QED BY <2>6, <3>1
  <2>8. f = e.pa
    <3>1. e.pa \in Nat
      BY <2>2, <2>5, <2>7, PageNumber
    <3> QED BY <2>7, <3>1
  <2>9. PICK ub \in UserVas : i = Index(ub, 2) /\ j = Index(ub, 3) /\ Reserved(ram, home, a, ub, f)
    BY <2>2, <2>5, <2>7, <2>8 DEF Backed, PageBacked
  <2>10. ub = va
    <3>1. va \in Nat /\ va < Span(1)
      <4>1. UserPages \in Nat /\ Span(1) \in Nat /\ UserPages <= Span(1)
        BY SpaceAssumption, SpanFacts
      <4> QED BY <4>1 DEF UserVas
    <3> QED BY <3>1, <2>4, <2>9, SameDigits
  <2>11. PICK k \in DOMAIN a : /\ va \in a[k].va..(a[k].va + a[k].n - 1)
                               /\ Homed(ram, home, f, a[k].id, a[k].off + va - a[k].va)
    BY <2>9, <2>10 DEF Reserved
  <2> QED BY <2>1, <2>11 DEF Homed
<1> QED BY <1>1, MemInvariant, PTL

\* The boot tables show the kernel's blocks, or nothing.
LEMMA HighEntry ==
  ASSUME NEW c, BootKept(c), NEW i \in Idx, NEW e, e = c[FirstFrame + 2][i]
  PROVE  e.kind # "table" /\ "U" \notin e.attr
<1>1. c[FirstFrame + 2] = BootBlocks(1)
  BY BootTablesAre DEF BootKept
<1>2. e = IF i \in 1..2 THEN KernelBlock(i * Span(1)) ELSE NoEntry
  BY <1>1 DEF BootBlocks
<1>3. CASE e = NoEntry
  BY <1>3 DEF NoEntry
<1>4. CASE e = KernelBlock(i * Span(1))
  BY <1>4 DEF KernelBlock
<1> QED BY <1>2, <1>3, <1>4

\* No address outside the VMAR is open to the user in a tree whose pages are
\* those of a VMAR.
LEMMA TreePrivate ==
  ASSUME NEW c, NEW n \in FirstFrame..(LastFrame + 1), NEW r, TreeOK(c, n, r), Cloned(c, r), BootKept(c),
         NEW m, NEW ho, NEW a, Backed(m, c, ho, a, r), NEW va \in Watched \ UserVas
  PROVE  "U" \notin Leaf(c, r, va).entry.attr
<1>1. va \in 0..(Fanout * Span(0) - 1)
  BY SpaceAssumption
<1>2. /\ va \in Nat /\ Index(va, 0) \in Idx /\ Index(va, 1) \in Idx
      /\ Index(va, 0) = 0 /\ Index(va, 1) = 0 => va < Span(1)
  BY <1>1, UpperDigits
<1>3. PICK i0 \in Idx, i1 \in Idx : i0 = Index(va, 0) /\ i1 = Index(va, 1)
  BY <1>2
<1>4. r # 0
  <2>1. r \in Drawn(n)
    BY DEF TreeOK
  <2>2. 0 \notin Drawn(n)
    BY FramesDrawn
  <2> QED BY <2>1, <2>2
<1>5. PICK mid : mid = Mid(c, r)
  OBVIOUS
<1>6. NoEntry.kind = "none" /\ "U" \notin NoEntry.attr
  BY DEF NoEntry
<1>7. CASE i0 = 0 /\ i1 = 0
  <2>1. Index(va, 2) \in Idx /\ Index(va, 3) \in Idx /\ va < Span(1)
    BY <1>2, <1>3, <1>7, LowDigits
  <2>2. IsLow(va)
    <3>1. va % 1 = 0
      BY <1>2
    <3>2. Span(3) = 1
      BY SpanFacts
    <3> QED BY <3>1, <3>2, <2>1, <1>3, <1>7 DEF IsLow
  <2>3. PICK e : e = PageAt(c, r, Index(va, 2), Index(va, 3))
    OBVIOUS
  <2>4. Leaf(c, r, va).entry = e
    BY <2>2, <2>3, PageFound
  <2>5. ASSUME e # NoEntry
        PROVE  FALSE
    <3>1. PICK i \in Idx, j \in Idx : i = Index(va, 2) /\ j = Index(va, 3)
      BY <2>1
    <3>2. PageBacked(m, ho, a, i, j, e)
      BY <2>3, <3>1 DEF Backed
    <3>3. PICK ub \in UserVas : i = Index(ub, 2) /\ j = Index(ub, 3)
      BY <2>5, <3>2 DEF PageBacked
    <3>4. va = ub
      BY <1>2, <2>1, <3>1, <3>3, SameDigits
    <3> QED BY <3>4
  <2> QED BY <2>4, <2>5, <1>6
<1>8. CASE i0 = 0 /\ i1 # 0
  <2>1. c[r][Index(va, 0)] = TableAt(mid)
    BY <1>3, <1>5, <1>8 DEF TreeOK
  <2>2. PICK e : e = c[mid][i1]
    OBVIOUS
  <2>3. e = KernelBlock(Span(1)) \/ e = NoEntry
    BY <2>2, <1>5, <1>8 DEF Cloned
  <2>4. e.kind # "table" /\ "U" \notin e.attr
    <3>1. CASE e = KernelBlock(Span(1))
      BY <3>1 DEF KernelBlock
    <3> QED BY <2>3, <3>1, <1>6
  <2>5. Second(c, r, va, mid, e)
    BY <2>1, <2>2, <2>4, <1>3 DEF Second
  <2>6. Leaf(c, r, va).entry = e
    BY <2>5, <1>4, ShortWalk
  <2> QED BY <2>4, <2>6
<1>9. CASE i0 = Fanout \div 2 /\ i0 # 0
  <2>1. PICK high, e : high = FirstFrame + 2 /\ e = c[FirstFrame + 2][i1]
    OBVIOUS
  <2>2. c[r][Index(va, 0)] = TableAt(high)
    BY <2>1, <1>3, <1>9 DEF Cloned
  <2>3. e.kind # "table" /\ "U" \notin e.attr
    BY <2>1, HighEntry
  <2>4. Second(c, r, va, high, e)
    BY <2>1, <2>2, <2>3, <1>3 DEF Second
  <2>5. Leaf(c, r, va).entry = e
    BY <2>4, <1>4, ShortWalk
  <2> QED BY <2>3, <2>5
<1>10. CASE i0 # 0 /\ i0 # Fanout \div 2
  <2>1. c[r][Index(va, 0)] = NoEntry
    BY <1>3, <1>10 DEF Cloned
  <2>2. PICK s0 : s0 = [entry |-> c[r][Index(va, 0)], level |-> 0]
    OBVIOUS
  <2>3. s0.entry = NoEntry /\ s0.entry.kind = "none"
    BY <2>1, <2>2, <1>6
  <2>4. Deeper(c, s0, va) = s0
    BY <2>3, <1>6 DEF Deeper
  <2>5. Leaf(c, r, va) = s0
    BY <2>2, <2>4 DEF Leaf
  <2> QED BY <2>3, <2>5, <1>6
<1> QED BY <1>7, <1>8, <1>9, <1>10

\* Whatever the requests ask for and wherever they fail, nothing outside the
\* VMAR of a process, neither the identity block nor the high half, is open to
\* the user in its tree.
THEOREM KernelPartStaysPrivate == MemSpec => []KernelStaysPrivate
<1>1. MemInv => KernelStaysPrivate
  <2> SUFFICES ASSUME MemInv, NEW s \in Rooted, NEW va \in Watched \ UserVas
               PROVE  "U" \notin Leaf(mem, space[s].root, va).entry.attr
    BY DEF KernelStaysPrivate
  <2>1. PICK r, n, a : r = space[s].root /\ n = ram.next /\ a = proc[s].resv
    OBVIOUS
  <2>2. /\ n \in FirstFrame..(LastFrame + 1) /\ TreeOK(mem, n, r) /\ Cloned(mem, r)
        /\ Backed(ram, mem, home, a, r) /\ BootKept(mem)
    BY <2>1, SlotTree
  <2>3. "U" \notin Leaf(mem, r, va).entry.attr
    BY <2>2, TreePrivate
  <2> QED BY <2>1, <2>3
<1> QED BY <1>1, MemInvariant, PTL
=============================================================================
