--------------------------- MODULE AddressSpaces ---------------------------
(***************************************************************************)
(* What the page tables promise: every process slot has a view, the        *)
(* physical page behind each virtual page.  A new view shows the devices   *)
(* and the kernel's window; mapping a page changes that page of that view  *)
(* and nothing else, whatever tables have to be made for it.               *)
(***************************************************************************)
CONSTANTS
  Slots,    \* process slots
  Pages,    \* virtual pages
  UserVas,  \* the ones a program can have mapped
  Targets,  \* physical pages that may be mapped
  Devices,  \* pages of devices, mapped at their own address
  Window,   \* the kernel's mappings, the same in every view
  NoPage    \* no mapping

VARIABLE view

Blank == [va \in Pages |-> NoPage]

\* Devices for which there were no tables left stay out.
Open(s) ==
  /\ view[s] = Blank
  /\ \E D \in SUBSET Devices :
       view' = [view EXCEPT ![s] =
                  [va \in Pages |-> IF va \in D THEN va
                                    ELSE IF va \in DOMAIN Window THEN Window[va]
                                    ELSE NoPage]]

MapOne(s) == \E va \in UserVas, pa \in Targets : view' = [view EXCEPT ![s][va] = pa]

Close(s) == view' = [view EXCEPT ![s] = Blank]

ViewInit == view = [s \in Slots |-> Blank]

ViewNext == \E s \in Slots : Open(s) \/ MapOne(s) \/ Close(s)

ViewSpec == ViewInit /\ [][ViewNext]_view
=============================================================================
