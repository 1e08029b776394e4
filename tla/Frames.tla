------------------------------- MODULE Frames -------------------------------
(***************************************************************************)
(* The physical page allocator (kernel/src/arch/aarch64/phys.rs): one tag  *)
(* per frame, a cursor that only moves forward, the tracker of live        *)
(* page-table pages and the page cache that freed frames are put into.     *)
(*                                                                         *)
(* The kernel runs on one core with interrupts masked, so every operation  *)
(* is a function from one allocator state to the next; a larger operation  *)
(* applies several of them in one step.  A panic is a state: the machine   *)
(* stops there.                                                            *)
(***************************************************************************)
EXTENDS Integers, FiniteSets, Sequences, SequencesExt

CONSTANTS
  FirstFrame,  \* the first page after the kernel image
  LastFrame,   \* the last page of RAM
  CacheSize,   \* PAGE_CACHE_SIZE
  MaxLivePt    \* MAX_LIVE_PT

ASSUME FrameAssumption ==
  /\ FirstFrame \in Nat \ {0} /\ LastFrame \in Nat /\ FirstFrame <= LastFrame
  /\ CacheSize \in Nat \ {0} /\ MaxLivePt \in Nat

RamFrames == FirstFrame..LastFrame

Tags == {"Free", "PageTable", "VmoData", "VmarMeta", "KernelStack", "KernelHeap"}

\* The allocator's state.  No caller ages or dirties a cached page, so an
\* entry of the cache is just its page.
Allocator == [tag   : [RamFrames -> Tags],
              next  : FirstFrame..(LastFrame + 1),
              live  : SUBSET RamFrames,
              cache : Seq(RamFrames),
              panic : {"none", "double-free", "live-table", "no-handle-page", "heap"}]

FreshRam == [tag   |-> [f \in RamFrames |-> "Free"],
             next  |-> FirstFrame,
             live  |-> {},
             cache |-> <<>>,
             panic |-> "none"]

-----------------------------------------------------------------------------
(* Allocation. *)

\* The frames the cursor has not passed and whose tag does not make
\* alloc_page skip them.
Ahead(m) == {f \in m.next..LastFrame : m.tag[f] = "Free"}

CanAlloc(m) == Ahead(m) # {}

\* Mutant: a freed frame is handed out again.
LowestFree(m) == Min({f \in RamFrames : m.tag[f] = "Free"})

\* The frame that alloc_page hands out next.
Candidate(m) == Min(Ahead(m))

is_live_pt_page(m, f) == f \in m.live

\* A frame that is still registered as a page table panics.  For a caller
\* that has established CanAlloc.
alloc_page(m, tag) ==
  LET f == Candidate(m)
  IN  IF is_live_pt_page(m, f) THEN [m EXCEPT !.panic = "live-table"]
      ELSE [m EXCEPT !.tag[f] = tag, !.next = f + 1]

\* A full tracker only warns.
register_pt_page(m, f) ==
  IF Cardinality(m.live) < MaxLivePt THEN [m EXCEPT !.live = @ \cup {f}] ELSE m

-----------------------------------------------------------------------------
(* Release. *)

\* All entries are clean and of age 0, so a full cache evicts its first.
add_page(cache, f) ==
  IF Len(cache) = CacheSize THEN [cache EXCEPT ![1] = f] ELSE Append(cache, f)

unregister_pt_page(m, f) == [m EXCEPT !.live = @ \ {f}]

free_page(m, f) ==
  IF m.tag[f] = "Free" THEN [m EXCEPT !.panic = "double-free"]
  ELSE LET u == IF m.tag[f] = "PageTable" THEN unregister_pt_page(m, f) ELSE m
       IN  [u EXCEPT !.tag[f] = "Free", !.cache = add_page(@, f)]

\* The frames of s, one after the other: the drop of their PhysPages.
FreeEach(m, s) ==
  LET freed[k \in 0..Len(s)] == IF k = 0 THEN m ELSE free_page(freed[k - 1], s[k])
  IN  freed[Len(s)]
=============================================================================
