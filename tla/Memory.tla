------------------------------- MODULE Memory -------------------------------
(***************************************************************************)
(* Memory objects: VMOs (memory/vmo.rs), the reservations of a process's   *)
(* root VMAR (memory/vmar.rs), the handle tables that own VMOs             *)
(* (object/handle_table.rs), the memory system calls (syscall/handlers/    *)
(* memory.rs) and the launch and drop of processes (task/process.rs,       *)
(* loader.rs), on top of the trees of PageTables and the frames of Frames. *)
(*                                                                         *)
(* A VMO is a Rust value: dropping it frees the frames it owns.  The frame *)
(* numbers it looks up live in its metadata page, which a clone shares.    *)
(* The slab heap is taken to have room for every block that fits its       *)
(* largest class.                                                          *)
(***************************************************************************)
EXTENDS PageTables

CONSTANTS
  MaxHandles,   \* MAX_HANDLES
  MaxMappings,  \* MAX_MAPPINGS
  MaxVmoPages,  \* VMO_MAX_PAGES
  HeapPages,    \* entries of a committed_pages vector in the largest slab class
  BootFs,       \* the sequence of pages that hold the boot file system
  StackVa,      \* stack_vaddr_offset
  MaxCalls,     \* bound: system calls made
  Requests      \* bound: the <<offset, size, address>> that programs ask for

VARIABLES
  table,   \* the objects in the handle table of each process slot
  cells,   \* the frame numbers in each metadata page
  proc,    \* pid, parent, VMAR page and reservations of each process slot
  ids,     \* VMO_ID_COUNTER
  calls,   \* system calls made so far
  home,    \* history: the VMO and page each frame was committed for
  lost,    \* history: the frames owned by objects in tables of dropped processes
  cloned   \* history: the metadata pages of VMOs that were ever duplicated

memVars == <<ram, mem, space, ttbr0, tlb, asid, released,
             table, cells, proc, ids, calls, home, lost, cloned>>

ASSUME MemoryAssumption ==
  /\ {MaxHandles, MaxMappings, MaxVmoPages, HeapPages, MaxCalls} \subseteq Nat \ {0}
  /\ BootFs \in Seq(Nat) /\ Len(BootFs) \in 1..MaxVmoPages
  /\ StackVa \in UserVas \ {0}
  /\ Slots \subseteq Nat /\ Slots # {}
  /\ LastFrame >= FirstFrame + 3             \* room for the VMAR of the first process
  /\ Requests \subseteq Nat \X Nat \X Nat
  /\ ToSet(Devices) \cap RamFrames = {}      \* device pages are not memory

Handles == 1..MaxHandles

\* The frame that the metadata page of v names for its page i; 0 is none.
page_slot(c, v, i) == c[v.meta][i]

ChildId == -1    \* VMO_MAX_PAGES + 1000, the id of every slice

NoObject == [kind |-> "none"]

NoProcess == [pid |-> 0, parent |-> 0, meta |-> 0, resv |-> <<>>]

\* own[i] is committed_pages[i], 0 when there is none; a borrowed VMO keeps
\* that vector empty.
Vmo(meta, n, id) == [kind |-> "vmo", meta |-> meta, own |-> [i \in 0..(n - 1) |-> 0],
                     size |-> n, id |-> id]

\* The frames that the fields of v own.
Owned(v) == {v.meta} \cup ({v.own[i] : i \in DOMAIN v.own} \ {0})

\* The drop of an Option<PhysPage>.
DropPage(m, f) == IF f = 0 THEN m ELSE free_page(m, f)

\* The drop of committed_pages.
DropPages(m, v) ==
  LET freed[k \in 0..v.size] == IF k = 0 THEN m ELSE DropPage(freed[k - 1], v.own[k - 1])
  IN  IF DOMAIN v.own = {} THEN m ELSE freed[v.size]

DropObject(m, o) == IF o.kind = "vmo" THEN DropPages(free_page(m, o.meta), o) ELSE m

-----------------------------------------------------------------------------
(* A call in progress: the allocator, the descriptors, the tree and the    *)
(* reservations of one process, the VMO it works on and the metadata       *)
(* pages.  After an error the rest is skipped.                             *)

Call(s, v) == [ok |-> TRUE, ram |-> ram, mem |-> mem, tree |-> space[s], resv |-> proc[s].resv,
               v |-> v, cells |-> cells, home |-> home, ids |-> ids]

Fail(w) == [w EXCEPT !.ok = FALSE]

\* The call has walked its tree, to u.
Walked(w, u) == [w EXCEPT !.ram = u.ram, !.mem = u.mem, !.tree = u.tree, !.ok = u.ok]

\* A page of the allocator for the call.
Take(w, tag) == IF w.ok /\ CanAlloc(w.ram) THEN [w EXCEPT !.ram = alloc_page(@, tag)] ELSE Fail(w)

\* The vector of a large VMO is asked of the slab heap, which has no class
\* for it: the allocation error handler stops the kernel.
WithVector(m, n) == IF n > HeapPages THEN [m EXCEPT !.panic = "heap"] ELSE m

create_with_size(w, n) ==
  IF ~w.ok \/ n \notin 1..MaxVmoPages \/ ~CanAlloc(w.ram) THEN [w EXCEPT !.ok = FALSE, !.v = NoObject]
  ELSE LET f == Candidate(w.ram)
       IN  [w EXCEPT !.ram = WithVector(alloc_page(@, "VmoData"), n),
                     !.cells[f] = [i \in 0..(n - 1) |-> 0],
                     !.v = Vmo(f, n, w.ids),
                     !.ids = @ + 1]

\* Mutant: the page is only remembered in the metadata page.
CommitUnowned(w, i) ==
  IF ~w.ok \/ i >= w.v.size \/ DOMAIN w.v.own = {} THEN Fail(w)
  ELSE IF w.cells[w.v.meta][i] # 0 THEN w
  ELSE IF ~CanAlloc(w.ram) THEN Fail(w)
  ELSE LET f == Candidate(w.ram)
       IN  [w EXCEPT !.ram = alloc_page(@, "VmoData"),
                     !.cells[w.v.meta][i] = f,
                     !.home[f] = <<w.v.id, i>>]

\* Whether the page is there is read from the value, not from the metadata
\* page, so a slice or a clone may replace a page it already shows.
commit_page(w, i) ==
  IF ~w.ok \/ i >= w.v.size \/ DOMAIN w.v.own = {} THEN Fail(w)
  ELSE IF w.v.own[i] # 0 THEN w
  ELSE IF ~CanAlloc(w.ram) THEN Fail(w)
  ELSE LET f == Candidate(w.ram)
       IN  [w EXCEPT !.ram = alloc_page(@, "VmoData"),
                     !.cells[w.v.meta][i] = f,
                     !.v.own[i] = f,
                     !.home[f] = <<w.v.id, i>>]

commit_all(w) ==
  LET done[k \in 0..w.v.size] == IF k = 0 THEN w ELSE commit_page(done[k - 1], k - 1)
  IN  IF w.ok THEN done[w.v.size] ELSE w

\* Mutant: the end of the region is not looked at.
ReserveAnywhere(w, off, n, va) ==
  IF ~w.ok \/ n = 0 \/ Len(w.resv) >= MaxMappings THEN Fail(w)
  ELSE [w EXCEPT !.resv = Append(@, [id |-> w.v.id, off |-> off, n |-> n, va |-> va])]

\* Mutant: the number of reservations is not looked at.
ReserveMore(w, off, n, va) ==
  IF ~w.ok \/ n = 0 \/ va + n > UserPages THEN Fail(w)
  ELSE [w EXCEPT !.resv = Append(@, [id |-> w.v.id, off |-> off, n |-> n, va |-> va])]

\* Reservations may overlap: the latest mapping of a page counts.
reserve_mapping(w, off, n, va) ==
  IF ~w.ok \/ n = 0 \/ va + n > UserPages \/ Len(w.resv) >= MaxMappings THEN Fail(w)
  ELSE [w EXCEPT !.resv = Append(@, [id |-> w.v.id, off |-> off, n |-> n, va |-> va])]

MapCommitted(w, i, va, attr) ==
  IF ~w.ok THEN w
  ELSE Walked(w, map_va(Walk(w.ram, w.mem, w.tree), va, page_slot(w.cells, w.v, i), attr))

\* One round of the loop of sys_vmar_map.
MapPage(w, i, va, attr) == MapCommitted(commit_page(w, i), i, va, attr)

\* A failure halfway leaves the reservation and the pages mapped so far.
MapVmo(w, off, n, va, attr) ==
  LET done[k \in 0..n] == IF k = 0 THEN reserve_mapping(w, off, n, va)
                          ELSE MapPage(done[k - 1], off + k - 1, va + k - 1, attr)
  IN  done[n]

-----------------------------------------------------------------------------
(* Launch. *)

DropVmo(w) == [w EXCEPT !.ram = DropObject(@, w.v), !.v = NoObject]

\* One segment: its VMO is a local of the loop body, so its frames are
\* tagged free again while the new process keeps them mapped.
Segment(w, va, n, attr) ==
  DropVmo(MapVmo(commit_all(create_with_size(w, n)), 0, n, va, attr))

\* The first thread has a kernel stack, of one page here.
new_user(w) == Take(w, "KernelStack")

\* The text segment, the stack and the first thread.
Image(w) ==
  new_user(Segment(Segment(w, 0, 1, UserText), StackVa, 1, UserRW))

\* A new handle table, which the kernel panics without.
HandlePage(w) ==
  IF w.ok /\ ~CanAlloc(w.ram) THEN [w EXCEPT !.ram.panic = "no-handle-page"] ELSE Take(w, "KernelHeap")

\* init_in_place: without a page for the VMAR the slot is left with a dummy
\* process.
Founded(w) == HandlePage(Take(w, "VmarMeta"))

Treed(w) ==
  IF ~w.ok \/ w.ram.panic # "none" THEN Fail(w) ELSE Walked(w, NewTree(Walk(w.ram, w.mem, w.tree)))

\* launch_user_program_with_argv_id for the slot that allocate_process took.
LaunchedIn(w) == Image(Treed(Founded(w)))

\* create_physical: the BootFS pages, borrowed.
create_physical(w) ==
  IF ~w.ok \/ ~CanAlloc(w.ram) THEN [w EXCEPT !.ok = FALSE, !.v = NoObject]
  ELSE LET f == Candidate(w.ram)
       IN  [w EXCEPT !.ram = alloc_page(@, "VmoData"),
                     !.cells[f] = [i \in 0..(Len(BootFs) - 1) |-> BootFs[i + 1]],
                     !.v = [Vmo(f, 0, w.ids) EXCEPT !.size = Len(BootFs)],
                     !.ids = @ + 1]

FreeSlots == {s \in Slots : ~space[s].used}

IsVmo(p, h) == table[p][h].kind = "vmo"

FreeHandles(p) == {h \in Handles : table[p][h] = NoObject}

\* HandleTable::add: when the table is full the object is dropped.
Added(p, o, m) ==
  IF FreeHandles(p) = {} THEN table' = table /\ ram' = DropObject(m, o)
  ELSE table' = [table EXCEPT ![p][Min(FreeHandles(p))] = o] /\ ram' = m

\* The call's effect on the slot whose tree and reservations it worked on.
Settle(s, w) ==
  /\ mem' = w.mem /\ cells' = w.cells /\ home' = w.home /\ ids' = w.ids
  /\ space' = [space EXCEPT ![s] = w.tree]
  /\ proc' = [proc EXCEPT ![s].resv = w.resv]

\* The VMO that the call made goes into the caller's table.
Made(p, w) == w.ok /\ Added(p, w.v, w.ram) /\ Settle(p, w)

\* The VMO of handle h is the one the call worked on, in the tree of slot s.
Changed(p, h, s, w) ==
  /\ table' = [table EXCEPT ![p][h] = w.v] /\ ram' = w.ram
  /\ Settle(s, w)

OfTables == <<ttbr0, tlb, released>>

\* What a new process is before its launch fails or ends.
Newborn(parent, meta) ==
  [pid |-> asid.made + 1, parent |-> parent, meta |-> meta, resv |-> <<>>]

Handle == [kind |-> "process", pid |-> asid.made + 1]

\* The tree of a new process, with its ASID.
Named(t, a) == [t EXCEPT !.used = TRUE, !.asid = a]

\* The end of launch w in slot s, except for the handle.  The slot of a
\* dummy process stays taken.
Launched(parent, s, founded, w) ==
  /\ mem' = w.mem /\ cells' = w.cells /\ home' = w.home /\ ids' = w.ids
  /\ space' = [space EXCEPT ![s] = IF founded THEN Named(w.tree, AsidOf(asid.next)) ELSE Named(NoSpace, 0)]
  /\ proc' = [proc EXCEPT ![s] = IF founded THEN [Newborn(parent, Candidate(ram)) EXCEPT !.resv = w.resv]
                                 ELSE NoProcess]
  /\ IF founded THEN NextAsid ELSE asid' = [asid EXCEPT !.made = @ + 1]

CanLaunch(p) == space[p].root # 0 /\ FreeSlots # {} /\ asid.made < MaxLaunches

InSlot(s) == LaunchedIn(Call(s, NoObject))

Handed(p, w) == IF w.ok THEN Added(p, Handle, w.ram) ELSE table' = table /\ ram' = w.ram

\* A program of the boot file system, as a child of the caller.
sys_spawn(p) ==
  /\ CanLaunch(p)
  /\ Launched(proc[p].pid, Min(FreeSlots), CanAlloc(ram), InSlot(Min(FreeSlots)))
  /\ table' = table /\ ram' = InSlot(Min(FreeSlots)).ram
  /\ UNCHANGED <<OfTables, lost, cloned>>

\* The program in a VMO: the caller gets a handle of the process, which is
\* nobody's child.
sys_load_binary(p, h) ==
  /\ CanLaunch(p) /\ IsVmo(p, h)
  /\ Launched(0, Min(FreeSlots), CanAlloc(ram), InSlot(Min(FreeSlots)))
  /\ Handed(p, InSlot(Min(FreeSlots)))
  /\ UNCHANGED <<OfTables, lost, cloned>>

\* A process without a root, and a handle of it.
sys_process_create(p) ==
  LET s == Min(FreeSlots)
  IN  /\ CanLaunch(p) /\ CanAlloc(ram)
      /\ space' = [space EXCEPT ![s] = Named(NoSpace, AsidOf(asid.next))]
      /\ proc' = [proc EXCEPT ![s] = Newborn(0, Candidate(ram))]
      /\ Added(p, Handle, Founded(Call(s, NoObject)).ram)
      /\ NextAsid
      /\ UNCHANGED <<OfTables, mem, cells, home, ids, lost, cloned>>

-----------------------------------------------------------------------------
(* The system calls of process p. *)

sys_vmo_create(p, n) ==
  /\ space[p].root # 0
  /\ Made(p, create_with_size(Call(p, NoObject), n))
  /\ UNCHANGED <<OfTables, asid, lost, cloned>>

\* Mutant: the slice owns the pages it shows.
ShowOwning(w, parent, off) ==
  LET shown == [i \in 0..(w.v.size - 1) |-> IF DOMAIN parent.own = {} THEN 0 ELSE parent.own[off + i]]
  IN  [w EXCEPT !.v.id = ChildId, !.v.own = shown, !.cells[w.v.meta] = shown]

\* The pages the parent shows are entered in the slice's metadata page, but
\* not owned.  A borrowed parent is asked for its metadata page instead.
Show(w, parent, off) ==
  [w EXCEPT !.v.id = ChildId,
            !.cells[w.v.meta] = [i \in 0..(w.v.size - 1) |->
                                   IF DOMAIN parent.own = {} THEN page_slot(w.cells, parent, off + i)
                                   ELSE parent.own[off + i]]]

Shown(w, parent, off) == IF w.ok THEN Show(w, parent, off) ELSE w

create_child_slice(w, parent, off, n) == Shown(create_with_size(w, n), parent, off)

sys_vmo_create_child(p, h, off, n) ==
  /\ space[p].root # 0 /\ IsVmo(p, h) /\ off + n <= table[p][h].size
  /\ Made(p, create_child_slice(Call(p, NoObject), table[p][h], off, n))
  /\ UNCHANGED <<OfTables, asid, lost, cloned>>

\* sys_vmo_read and sys_vmo_write: a page the metadata does not name is
\* committed, also to be read.  The buffer is on the stack.
sys_vmo_access(p, h, i) ==
  /\ space[p].root # 0 /\ IsVmo(p, h) /\ i < table[p][h].size
  /\ translate_va(mem, space[p].root, StackVa) # NoPage
  /\ page_slot(cells, table[p][h], i) = 0
  /\ DOMAIN table[p][h].own # {} /\ (table[p][h].own[i] # 0 \/ CanAlloc(ram))
  /\ Changed(p, h, p, commit_page(Call(p, table[p][h]), i))
  /\ UNCHANGED <<OfTables, asid, lost, cloned>>

\* The slot that with_process and find_process_mut lead to.
Target(p, g, t) ==
  table[p][g].kind = "process" /\ proc[t].pid = table[p][g].pid /\ space[t].used

sys_vmar_map(p, g, h, t, req) ==
  /\ space[p].root # 0 /\ IsVmo(p, h) /\ Target(p, g, t)
  /\ Changed(p, h, t, MapVmo(Call(t, table[p][h]), req[1], req[2], req[3], UserRW))
  /\ UNCHANGED <<OfTables, asid, lost, cloned>>

\* Always from the start of the VMO, into the caller.
sys_vmar_map_self(p, h, req) ==
  /\ space[p].root # 0 /\ IsVmo(p, h) /\ req[1] = 0
  /\ Changed(p, h, p, MapVmo(Call(p, table[p][h]), 0, req[2], req[3], UserRW))
  /\ UNCHANGED <<OfTables, asid, lost, cloned>>

\* A second value with the same metadata page, and owning the same frames:
\* forgetting the address of a PhysPage does not forget the PhysPage.
clone(v) == [kind |-> "vmo", meta |-> v.meta, own |-> v.own, size |-> v.size, id |-> v.id]

sys_handle_duplicate(p, h) ==
  /\ space[p].root # 0 /\ IsVmo(p, h)
  /\ Added(p, clone(table[p][h]), ram)
  /\ cloned' = cloned \cup {table[p][h].meta}
  /\ UNCHANGED <<OfTables, mem, space, asid, cells, proc, ids, home, lost>>

sys_handle_close(p, h) ==
  /\ space[p].root # 0 /\ table[p][h] # NoObject
  /\ table' = [table EXCEPT ![p][h] = NoObject]
  /\ ram' = DropObject(ram, table[p][h])
  /\ UNCHANGED <<OfTables, mem, space, asid, cells, proc, ids, home, lost, cloned>>

\* Process::drop: the tree and the page of the VMAR are given back; a
\* HandleTable is not dropped, nor is what it holds.
Reaped(p, s) ==
  /\ space[p].root # 0 /\ space[s].used /\ s # p
  /\ proc[s].parent = proc[p].pid /\ proc[s].pid # 0
  /\ ram' = FreeEach(ram, Reverse(space[s].tracked) \o <<proc[s].meta>>)
  /\ space' = [space EXCEPT ![s] = NoSpace]
  /\ proc' = [proc EXCEPT ![s] = NoProcess]
  /\ lost' = lost \cup UNION {Owned(table[s][h]) : h \in {k \in Handles : IsVmo(s, k)}}
  /\ table' = [table EXCEPT ![s] = [h \in Handles |-> NoObject]]
  /\ UNCHANGED <<OfTables, mem, asid, cells, ids, home, cloned>>

\* launch_loader: the loader's process, and the BootFS VMO in its table.
Boot ==
  [ok |-> TRUE, ram |-> BootRam, mem |-> BootMem, tree |-> NoSpace, resv |-> <<>>, v |-> NoObject,
   cells |-> [f \in RamFrames |-> <<>>], home |-> [f \in RamFrames |-> <<>>], ids |-> 1]

MemInit ==
  /\ ttbr0 = [root |-> FirstFrame, asid |-> 0]
  /\ LET w == create_physical(LaunchedIn(Boot))
         loader == Min(Slots)
     IN  /\ ram = w.ram /\ mem = w.mem /\ cells = w.cells /\ home = w.home /\ ids = w.ids
         /\ space = [s \in Slots |-> IF s = loader THEN Named(w.tree, 1) ELSE NoSpace]
         /\ proc = [s \in Slots |->
                      IF s = loader THEN [pid |-> 1, parent |-> 0, meta |-> Candidate(BootRam), resv |-> w.resv]
                      ELSE NoProcess]
         /\ table = [s \in Slots |-> [h \in Handles |-> IF s = loader /\ h = 1 THEN w.v ELSE NoObject]]
  /\ asid = [next |-> 2, made |-> 1]
  /\ tlb = {} /\ released = {} /\ lost = {} /\ cloned = {} /\ calls = 0

Calling == Running /\ calls < MaxCalls /\ calls' = calls + 1

MemNext ==
  \E p \in Slots :
    \/ Calling /\ sys_spawn(p)
    \/ Calling /\ sys_process_create(p)
    \/ \E req \in Requests : Calling /\ sys_vmo_create(p, req[2])
    \/ \E s \in Slots : Calling /\ Reaped(p, s)
    \/ \E h \in Handles :
         \/ Calling /\ sys_load_binary(p, h)
         \/ Calling /\ sys_handle_duplicate(p, h)
         \/ Calling /\ sys_handle_close(p, h)
         \/ \E i \in 0..(HeapPages - 1) : Calling /\ sys_vmo_access(p, h, i)
         \/ \E req \in Requests :
              \/ Calling /\ sys_vmo_create_child(p, h, req[1], req[2])
              \/ Calling /\ sys_vmar_map_self(p, h, req)
              \/ \E g \in Handles, t \in Slots : Calling /\ sys_vmar_map(p, g, h, t, req)

MemSpec == MemInit /\ [][MemNext]_memVars

-----------------------------------------------------------------------------
(* Properties. *)

VmoHandles == {ph \in Slots \X Handles : IsVmo(ph[1], ph[2])}

\* The variables have their types, and a VMO's metadata page has a cell for
\* each of its pages.
MemTypeOK ==
  /\ ram \in Allocator /\ ids \in Nat /\ calls \in 0..MaxCalls
  /\ lost \subseteq RamFrames /\ cloned \subseteq RamFrames
  /\ \A s \in Slots : /\ Len(proc[s].resv) <= MaxMappings
                      /\ proc[s].pid \in 0..asid.made /\ proc[s].meta \in RamFrames \cup {0}
  /\ \A ph \in VmoHandles : LET v == table[ph[1]][ph[2]]
                            IN  /\ DOMAIN cells[v.meta] = 0..(v.size - 1)
                                /\ DOMAIN v.own \in {{}, 0..(v.size - 1)}

\* What a program sees at an address is what was reserved there: the frame
\* behind a mapped page was last committed for the VMO and the page of it that
\* a reservation of the process names, and no table was built in it.  The
\* VMOs of a launch are dropped when it returns (process.rs:353), so those
\* frames are tagged free; only alloc_page's cursor keeps them from reuse.
MappedAsReserved ==
  \A s \in Rooted, va \in UserVas :
    LET f == translate_va(mem, space[s].root, va)
    IN  f \in RamFrames =>
          /\ ram.tag[f] \in {"Free", "VmoData"}
          /\ \E k \in DOMAIN proc[s].resv :
               LET r == proc[s].resv[k]
               IN  va \in r.va..(r.va + r.n - 1) /\ home[f] = <<r.id, r.off + va - r.va>>

\* No request, whatever it asks for and wherever it fails, opens the kernel's
\* identity block or high half to the user (shatter_l1 and shatter_l2 add the
\* user bit to every piece).
KernelStaysPrivate ==
  \A s \in Rooted, va \in Watched \ UserVas :
    "U" \notin Leaf(mem, space[s].root, va).entry.attr

\* Every page taken for a VMO has an owner that will free it, except those
\* in the handle tables of dropped processes, and every VMAR page a process:
\* no error path of the calls loses one.
NothingLost ==
  /\ {f \in RamFrames : ram.tag[f] = "VmoData"} \subseteq
       lost \cup UNION {Owned(table[ph[1]][ph[2]]) : ph \in VmoHandles}
  /\ {f \in RamFrames : ram.tag[f] = "VmarMeta"} = {proc[s].meta : s \in Slots} \ {0}

\* Dropping slices, borrowed VMOs, half-made ones and whole processes in any
\* order frees no frame twice: the double-free panic needs a duplicated VMO,
\* whose clone() owns the frames of the original.
OnlyDuplicatesDoubleFree == ram.panic = "double-free" => cloned # {}

\* A slice goes on showing the page of its parent that it was made with, as
\* the comment in create_child_slice (vmo.rs:239) says.
SlicesShareParent ==
  [][\A ph \in VmoHandles :
       LET v == table[ph[1]][ph[2]]
       IN  v.id = ChildId /\ table'[ph[1]][ph[2]].kind = "vmo" =>
             \A i \in DOMAIN cells[v.meta] :
               cells[v.meta][i] # 0 => cells'[v.meta][i] = cells[v.meta][i]]_memVars
=============================================================================
