----------------------------- MODULE MCPageAlloc -----------------------------
(***************************************************************************)
(* A heap of eight pages, one of them reserved for the allocator's own     *)
(* status and bitmaps, and the request sizes the process code makes:       *)
(* one page (page tables, trap stacks) and four (stack_pages of a user     *)
(* process).  At most four allocations are outstanding at once.           *)
(***************************************************************************)
EXTENDS PageAlloc

MCNPages == 8
MCNReserved == 1
MCSizes == {1, 4}
MCMaxHeld == 4

\* n_free drifts once a wrapped region is freed; keep it within two heaps' worth
MCFreeCountBound == n_free \in (-2 * MCNPages)..(2 * MCNPages)
=============================================================================
