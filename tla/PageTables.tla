----------------------------- MODULE PageTables -----------------------------
(***************************************************************************)
(* Address spaces: the four-level page-table tree of each process          *)
(* (arch/aarch64/page_table.rs), the boot tables, TTBR0 and the TLB        *)
(* (arch/aarch64/mmu.rs), address-space identifiers (asid.rs) and the      *)
(* parts of task/process.rs that make and drop a tree, on top of the page  *)
(* allocator, Frames.                                                      *)
(*                                                                         *)
(* Addresses are page numbers.  A table has Fanout entries in place of     *)
(* 512, so the index of a page at level l is a digit of its number in      *)
(* base Fanout.  Of a descriptor's bits, its kind, its target and the      *)
(* attributes user, writable and executable are kept.                      *)
(***************************************************************************)
EXTENDS Frames

CONSTANTS
  Fanout,      \* entries of a table
  Slots,       \* process slots
  UserPages,   \* pages of a root VMAR, which starts at 0
  ProgramVas,  \* bound: the pages of it that programs map and touch
  Watched,     \* bound: the pages over which trees are compared with AddressSpaces
  Devices,     \* the sequence of device pages launch maps
  DataPages,   \* physical pages that callers of map_va own
  MaxTrack,    \* table pages a PageTableTree can track
  MaxUserAsid, \* MAX_USER_ASID
  MaxLaunches  \* bound: address spaces ever made

VARIABLES
  ram,      \* the page allocator
  mem,      \* the descriptors in each frame
  space,    \* the address space of each process slot
  ttbr0,    \* TTBR0_EL1: root and ASID
  tlb,      \* cached translations <<asid, va, pa>>
  asid,     \* NEXT_ASID and the number of spaces made so far
  released  \* the roots that PROC_MGMT_RELEASE_PT was given

spaceVars == <<ram, mem, space, ttbr0, tlb, asid, released>>

Idx == 0..(Fanout - 1)

\* Pages behind one entry of level l.
Span(l) == <<Fanout * Fanout * Fanout, Fanout * Fanout, Fanout, 1>>[l + 1]

Index(va, l) == (va \div Span(l)) % Fanout

UserVas == 0..(UserPages - 1)

\* L0[0..256] of 512 is the user half.
UserHalf == 0..((Fanout \div 2) - 1)

ASSUME SpaceAssumption ==
  /\ Fanout \in Nat \ {0, 1} /\ {UserPages, MaxTrack, MaxUserAsid, MaxLaunches} \subseteq Nat
  /\ LastFrame >= FirstFrame + 2             \* room for the boot tables
  /\ MaxTrack >= 2 /\ MaxUserAsid >= 1
  /\ UserPages <= Span(1)
  /\ Devices \in Seq(UserVas) /\ ProgramVas \subseteq UserVas /\ DataPages \subseteq Nat
  /\ Watched \subseteq 0..(Fanout * Span(0) - 1)

NoPage == -1

NoEntry == [kind |-> "none", pa |-> 0, attr |-> {}]

Entries == [kind : {"none", "table", "block", "page"}, pa : Nat, attr : SUBSET {"U", "W", "X"}]

ZeroTable == [i \in Idx |-> NoEntry]

TableAt(f) == [kind |-> "table", pa |-> f, attr |-> {}]

\* A block or page that only the kernel may use, not executable.
KernelBlock(pa) == [kind |-> "block", pa |-> pa, attr |-> {"W"}]

\* pte_attr_bits: the attributes of memory and devices that a program uses.
UserRW == {"U", "W"}

UserText == {"U", "X"}

NoSpace == [used |-> FALSE, root |-> 0, tracked |-> <<>>, asid |-> 0]

-----------------------------------------------------------------------------
(* Walking and growing a tree.  A walk carries the allocator, the memory, *)
(* the tree, the table it stands at and whether it has failed.            *)

Walk(m, c, tree) == [ram |-> m, mem |-> c, tree |-> tree, at |-> tree.root, ok |-> tree.root # 0]

\* Mutant: the last place is not used.
TrackFewer(w, f) ==
  IF Len(w.tree.tracked) >= MaxTrack - 1 \/ f \in ToSet(w.tree.tracked) THEN w
  ELSE [w EXCEPT !.tree.tracked = Append(@, f), !.ram = register_pt_page(@, f)]

\* A tree that tracks MaxTrack pages forgets the next one.
track(w, f) ==
  IF Len(w.tree.tracked) >= MaxTrack \/ f \in ToSet(w.tree.tracked) THEN w
  ELSE [w EXCEPT !.tree.tracked = Append(@, f), !.ram = register_pt_page(@, f)]

\* A new table with the given entries, linked at entry i of the table the
\* walk stands at; the walk goes on there.
NewTable(w, i, entries) ==
  IF ~CanAlloc(w.ram) THEN [w EXCEPT !.ok = FALSE]
  ELSE LET f == Candidate(w.ram)
           grown == [w EXCEPT !.ram = alloc_page(@, "PageTable"),
                              !.mem = [@ EXCEPT ![f] = entries, ![w.at][i] = TableAt(f)],
                              !.at = f]
       IN  track(grown, f)

\* The entries that stand for block e of level l one level down, open to
\* the user and executable.
shatter(e, l) ==
  [i \in Idx |-> [kind |-> IF l = 1 THEN "block" ELSE "page",
                  pa   |-> e.pa + i * Span(l + 1),
                  attr |-> e.attr \cup {"U", "X"}]]

Descend(w, va, l) ==
  LET i == Index(va, l)
      e == w.mem[w.at][i]
  IN  IF ~w.ok THEN w
      ELSE CASE e.kind = "table"           -> [w EXCEPT !.at = e.pa]
             [] e.kind = "block" /\ l = 0  -> [w EXCEPT !.ok = FALSE]
             [] e.kind = "block" /\ l # 0  -> NewTable(w, i, shatter(e, l))
             [] OTHER                      -> NewTable(w, i, ZeroTable)

WritePage(w, i, pa, attr) ==
  IF w.ok THEN [w EXCEPT !.mem[w.at][i] = [kind |-> "page", pa |-> pa, attr |-> attr]] ELSE w

\* Tables that a failed walk has made stay in the tree.
map_va(w, va, pa, attr) ==
  WritePage(Descend(Descend(Descend(w, va, 0), va, 1), va, 2), Index(va, 3), pa, attr)

\* The descriptor a walk of va ends at, and its level.
Deeper(c, s, va) ==
  IF s.entry.kind # "table" THEN s
  ELSE [entry |-> c[s.entry.pa][Index(va, s.level + 1)], level |-> s.level + 1]

Leaf(c, root, va) ==
  Deeper(c, Deeper(c, Deeper(c, [entry |-> c[root][Index(va, 0)], level |-> 0], va), va), va)

\* The offset of va in a block of that level is added to the block's start.
translate_va(c, root, va) ==
  IF root = 0 THEN NoPage
  ELSE LET s == Leaf(c, root, va)
       IN  IF s.entry.kind = "none" THEN NoPage ELSE s.entry.pa + (va % Span(s.level))

\* The tables below the entries E of a table.
Below(c, f, E) == {c[f][i].pa : i \in {j \in E : c[f][j].kind = "table"}}

\* The pages that validate() and free_page_table_tree() find from a root: it,
\* and the tables below the user half of it.
L1s(c, root) == Below(c, root, UserHalf)
L2s(c, root) == UNION {Below(c, f, Idx) : f \in L1s(c, root)}
L3s(c, root) == UNION {Below(c, f, Idx) : f \in L2s(c, root)}
Reachable(c, root) == {root} \cup L1s(c, root) \cup L2s(c, root) \cup L3s(c, root)

-----------------------------------------------------------------------------
(* Making, switching and dropping address spaces. *)

\* Mutant: a switch leaves the TLB alone.
SwitchKeeping(a) == tlb

\* schedule() loads the root and ASID of the next process; set_ttbr0_el1
\* drops the translations of that ASID and flush_tlb all the others.
SwitchFlush(a) == {}

\* Mutant: no rollover.
AsidEndless(n) == n

\* asid::alloc: the value handed out.  A rollover hands out 1 and makes 1 the
\* next value, so the allocation after it gets 1 as well.
AsidOf(n) == IF n > MaxUserAsid THEN 1 ELSE n

AsidAfter(n) == IF n > MaxUserAsid THEN 1 ELSE n + 1

\* allocate_root: a first table page is lost when there is no second.
allocate_root(w) ==
  LET l0 == Candidate(w.ram)
      m1 == alloc_page(w.ram, "PageTable")
      l1 == Candidate(m1)
  IN  IF ~CanAlloc(w.ram) THEN [w EXCEPT !.ok = FALSE]
      ELSE IF ~CanAlloc(m1) THEN [w EXCEPT !.ram = m1, !.ok = FALSE]
      ELSE [w EXCEPT !.ram = alloc_page(m1, "PageTable"),
                     !.mem = [@ EXCEPT ![l0] = [ZeroTable EXCEPT ![0] = TableAt(l1)],
                                       ![l1] = ZeroTable],
                     !.tree = [@ EXCEPT !.root = l0, !.tracked = <<l0, l1>>],
                     !.at = l0, !.ok = TRUE]

\* Device pages are mapped at their own address; a failure is only logged.
MapDevice(w, va) == [map_va([w EXCEPT !.at = w.tree.root, !.ok = TRUE], va, va, UserRW)
                       EXCEPT !.ok = TRUE]

\* Mutant: the new tree starts with the low pages of the parent as well.
CloneLow(w, from) ==
  LET c == w.mem
      root == w.tree.root
      mine == c[root][0].pa
      theirs == c[from][0].pa
  IN  [w EXCEPT !.mem =
        [c EXCEPT ![root] = [i \in Idx |-> IF i \in UserHalf THEN c[root][i] ELSE c[from][i]],
                  ![mine] = c[theirs]]]

\* clone_high_half and clone_identity_block, from the tables in use.
CloneKernel(w, from) ==
  LET c == w.mem
      root == w.tree.root
      mine == c[root][0].pa
      theirs == c[from][0].pa
  IN  [w EXCEPT !.mem =
        [c EXCEPT ![root] = [i \in Idx |-> IF i \in UserHalf \/ c[from][i] = NoEntry
                                           THEN c[root][i] ELSE c[from][i]],
                  ![mine][1] = IF c[theirs][1] = NoEntry THEN c[mine][1] ELSE c[theirs][1]]]

\* The kernel's part and the devices, in a tree that has a root.
Furnished(w) ==
  LET with[k \in 0..Len(Devices)] == IF k = 0 THEN w ELSE MapDevice(with[k - 1], Devices[k])
  IN  IF w.ok THEN CloneKernel(with[Len(Devices)], ttbr0.root) ELSE w

\* The tree that launch_user_program_with_argv_id sets up before it maps
\* the program.
NewTree(w) == Furnished(allocate_root(w))

NextAsid == asid' = [next |-> AsidAfter(asid.next), made |-> asid.made + 1]

\* init_in_place gives the slot an ASID before anything can fail; the slot
\* stays taken, without a root, when allocate_root fails.
Launch(s) ==
  LET w == NewTree(Walk(ram, mem, NoSpace))
  IN  /\ ~space[s].used /\ asid.made < MaxLaunches
      /\ ram' = w.ram /\ mem' = w.mem
      /\ space' = [space EXCEPT ![s] = [w.tree EXCEPT !.used = TRUE, !.asid = AsidOf(asid.next)]]
      /\ NextAsid
      /\ tlb' = {}
      /\ UNCHANGED <<ttbr0, released>>

\* map_va for a page below the end of the VMAR: the entry is written and
\* the TLB emptied, unless a table could not be had.
Map(s, va, pa) ==
  LET w == map_va(Walk(ram, mem, space[s]), va, pa, UserRW)
  IN  /\ space[s].root # 0
      /\ ram' = w.ram /\ mem' = w.mem
      /\ space' = [space EXCEPT ![s] = w.tree]
      /\ tlb' = IF w.ok THEN {} ELSE tlb
      /\ UNCHANGED <<ttbr0, asid, released>>

Switch(s) ==
  /\ space[s].root # 0
  /\ ttbr0' = [root |-> space[s].root, asid |-> space[s].asid]
  /\ tlb' = SwitchFlush(space[s].asid)
  /\ UNCHANGED <<ram, mem, space, asid, released>>

\* The MMU walks the tables of TTBR0 and remembers what it found.
Touch(va) ==
  LET pa == translate_va(mem, ttbr0.root, va)
  IN  /\ pa # NoPage
      /\ ~\E e \in tlb : e[1] = ttbr0.asid /\ e[2] = va
      /\ tlb' = tlb \cup {<<ttbr0.asid, va, pa>>}
      /\ UNCHANGED <<ram, mem, space, ttbr0, asid, released>>

\* Mutant: the tables that a walk finds are freed after the tracked ones.
ReapTwice(s) ==
  /\ space[s].used /\ (space[s].root = 0 \/ space[s].root # ttbr0.root)
  /\ ram' = FreeEach(ram, Reverse(space[s].tracked)
                          \o (IF space[s].root = 0 THEN <<>>
                              ELSE SetToSeq(Reachable(mem, space[s].root))))
  /\ space' = [space EXCEPT ![s] = NoSpace]
  /\ tlb' = {}
  /\ UNCHANGED <<mem, ttbr0, asid, released>>

\* Process::drop of a process that another one reaps: free_tree gives back
\* the tracked pages, last first.
Reap(s) ==
  /\ space[s].used /\ (space[s].root = 0 \/ space[s].root # ttbr0.root)
  /\ ram' = FreeEach(ram, Reverse(space[s].tracked))
  /\ space' = [space EXCEPT ![s] = NoSpace]
  /\ tlb' = {}
  /\ UNCHANGED <<mem, ttbr0, asid, released>>

\* PROC_MGMT_RELEASE_PT with the root of s: free_page_table_tree, which
\* leaves the process and the TLB alone.
Release(s) ==
  LET root == space[s].root
  IN  /\ root # 0
      /\ ram' = FreeEach(ram, SetToSeq(L3s(mem, root)) \o SetToSeq(L2s(mem, root))
                              \o SetToSeq(L1s(mem, root)) \o <<root>>)
      /\ released' = released \cup {root}
      /\ UNCHANGED <<mem, space, ttbr0, tlb, asid>>

\* enable_inner: a root, the identity table and the table of the high half.
BootRam == alloc_page(alloc_page(alloc_page(FreshRam, "PageTable"), "PageTable"), "PageTable")

BootBlocks(first) ==
  [i \in Idx |-> IF i \in first..2 THEN KernelBlock(i * Span(1)) ELSE NoEntry]

BootMem ==
  [f \in RamFrames |->
     CASE f = FirstFrame     -> [i \in Idx |-> CASE i = 0 -> TableAt(FirstFrame + 1)
                                                 [] i = Fanout \div 2 -> TableAt(FirstFrame + 2)
                                                 [] OTHER -> NoEntry]
       [] f = FirstFrame + 1 -> BootBlocks(0)
       [] f = FirstFrame + 2 -> BootBlocks(1)
       [] OTHER              -> ZeroTable]

SpaceInit ==
  /\ ram = BootRam /\ mem = BootMem
  /\ space = [s \in Slots |-> NoSpace]
  /\ ttbr0 = [root |-> FirstFrame, asid |-> 0]
  /\ tlb = {} /\ released = {}
  /\ asid = [next |-> 1, made |-> 0]

Running == ram.panic = "none"

SpaceNext ==
  \/ \E s \in Slots :
       \/ Running /\ Launch(s)
       \/ \E va \in ProgramVas, pa \in DataPages : Running /\ Map(s, va, pa)
       \/ Running /\ Switch(s)
       \/ Running /\ Reap(s)
       \/ Running /\ Release(s)
  \/ \E va \in ProgramVas : Running /\ Touch(va)

SpaceSpec == SpaceInit /\ [][SpaceNext]_spaceVars

-----------------------------------------------------------------------------
(* Properties. *)

\* The variables have their types.
SpaceTypeOK ==
  /\ ram \in Allocator
  /\ mem \in [RamFrames -> [Idx -> Entries]]
  /\ \A s \in Slots : /\ space[s].used \in BOOLEAN
                      /\ space[s].root \in RamFrames \cup {0}
                      /\ space[s].tracked \in Seq(RamFrames) /\ Len(space[s].tracked) <= MaxTrack
                      /\ space[s].asid \in 0..MaxUserAsid
  /\ ttbr0 \in [root : RamFrames, asid : 0..MaxUserAsid]
  /\ tlb \subseteq (0..MaxUserAsid) \X UserVas \X Nat
  /\ asid \in [next : 1..(MaxUserAsid + 1), made : 0..MaxLaunches]
  /\ released \subseteq RamFrames

Rooted == {s \in Slots : space[s].root # 0}

\* Slots whose tree only the kernel has had in its hands.
Intact == {s \in Rooted : space[s].root \notin released}

BootTables == FirstFrame..(FirstFrame + 2)

\* What PageTableTree::validate checks, and more: a process's tree is made of
\* page-table frames of its own, it tracks each of them once, and one is
\* missing from tracked only when there was no place left for it, whichever
\* walks have run out of memory halfway.
TablesSound ==
  \A s \in Intact :
    LET t == space[s].tracked
        R == Reachable(mem, space[s].root)
    IN  /\ Cardinality(ToSet(t)) = Len(t)
        /\ ToSet(t) \subseteq R
        /\ Len(t) < MaxTrack => R \subseteq ToSet(t)
        /\ \A f \in R : ram.tag[f] = "PageTable"
        /\ R \cap BootTables = {}
        /\ \A r \in Rooted \ {s} : R \cap Reachable(mem, space[r].root) = {}

\* ASIDs are shared after a rollover (asid::alloc), and map_va replaces live
\* mappings; still, every cached translation the CPU can use is what the
\* tables in TTBR0 say.
TlbCoherent ==
  \A e \in tlb : e[1] = ttbr0.asid => translate_va(mem, ttbr0.root, e[2]) = e[3]

\* The kernel frees no table page twice on its own account: the double-free
\* panic of free_page is reached only after PROC_MGMT_RELEASE_PT has freed a
\* tree that the process table still holds.
OnlyReleaseDoubleFrees ==
  ram.panic # "none" => ram.panic = "double-free" /\ released # {}

\* Seen through translate_va, the trees behave like AddressSpaces: a map
\* changes one page of one process, and the kernel's window never changes.
KernelWindow ==
  LET shown == {va \in Watched : /\ Index(va, 1) \in 1..2
                                 /\ \/ Index(va, 0) = Fanout \div 2
                                    \/ Index(va, 0) = 0 /\ Index(va, 1) = 1}
  IN  [va \in shown |-> va % Span(0)]

Views == INSTANCE AddressSpaces WITH
           Pages <- Watched, UserVas <- ProgramVas,
           Targets <- DataPages, Devices <- ToSet(Devices), Window <- KernelWindow,
           view <- [s \in Slots |-> [va \in Watched |-> translate_va(mem, space[s].root, va)]]

ImplementsAddressSpaces == Views!ViewSpec
=============================================================================
