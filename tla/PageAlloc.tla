------------------------------ MODULE PageAlloc ------------------------------
(***************************************************************************)
(* The kernel's page allocator (src/src/page.c): a bitmap of taken pages,  *)
(* a bitmap marking the last page of each allocation, the free count and   *)
(* the next-fit cursor last_place.  Every operation runs under page_lock,  *)
(* so each call is one action.  Pages are indices 0..NPages-1 of the heap; *)
(* 0..NReserved-1 hold the allocator's own Page_Status and bitmaps.        *)
(*                                                                         *)
(* Callers request Sizes pages with page alignment (alloc_pages), which    *)
(* every page satisfies, so IS_ALIGNED(get_page(...), PAGE_SIZE) is TRUE.  *)
(* A returned index below 0 stands for the wrapped u64 cursor - n + 1,    *)
(* which get_page() turns into an address past the end of the heap.       *)
(***************************************************************************)
EXTENDS Integers, FiniteSets, Bags, BagsExt

CONSTANTS
    NPages,     \* pagestatus->n_pages
    NReserved,  \* pagestatus->n_reserved
    Sizes,      \* page counts the callers request
    MaxHeld     \* bound on allocations outstanding at once

ASSUME NReserved \in 1..NPages /\ Sizes \subseteq 1..NPages /\ MaxHeld \in Nat

Pages == 0..(NPages - 1)

VARIABLES
    taken,       \* TAKEN_BYTES as a function from page to bit
    last,        \* LAST_BYTES
    n_free,      \* pagestatus->n_free (a u64; a negative value stands for its wrap)
    last_place,  \* pagestatus->last_place
    held         \* history: a bag of the regions returned and not yet freed;
                 \* two callers may be handed the same [start, n]

vars == <<taken, last, n_free, last_place, held>>

\* init_page_allocator(): only the reserved pages are taken
Init ==
    /\ taken      = [p \in Pages |-> p < NReserved]
    /\ last       = [p \in Pages |-> FALSE]
    /\ n_free     = NPages - NReserved
    /\ last_place = NReserved
    /\ held       = EmptyBag

(***************************************************************************)
(* One of the two search loops of alloc_aligned_pages, from cursor c with  *)
(* n_found = f: the first cursor at which n_found reaches n, or the value  *)
(* of n_found when the loop runs off the end.                              *)
(***************************************************************************)
RECURSIVE Search(_, _, _)
Search(c, f, n) ==
    IF c >= NPages THEN [hit |-> FALSE, found |-> f]
    ELSE LET f2 == IF taken[c] THEN 0 ELSE f + 1
         IN  IF f2 >= n THEN [hit |-> TRUE, at |-> c] ELSE Search(c + 1, f2, n)

\* Fault-injected variant: the second pass resumes at last_place, not n_reserved
SecondSearchNoRestart(n) == Search(last_place, Search(last_place, 0, n).found, n)

\* "Search again from start": cursor = last_place = n_reserved; n_found kept
SecondSearch(n) == Search(NReserved, Search(last_place, 0, n).found, n)

\* Fault-injected variant: last_place moved one page too far
TakeRunSkipOne(c, n) ==
    LET run == IF c >= n THEN (c - n + 1)..c ELSE {}
    IN  /\ taken' = [p \in Pages |-> IF p \in run THEN TRUE ELSE taken[p]]
        /\ last'  = [p \in Pages |-> IF p = c THEN TRUE
                                     ELSE IF p \in run THEN FALSE ELSE last[p]]
        /\ last_place' = c + 2
        /\ n_free' = n_free - n
        /\ held' = BagAdd(held, [start |-> c - n + 1, n |-> n])

(***************************************************************************)
(* The body run once n_found reaches n at cursor c: the loop               *)
(* for (p = c; p > c - n; p -= 1) runs on u64 values, so when c < n the    *)
(* bound c - n wraps to a huge value and the loop marks nothing.           *)
(***************************************************************************)
TakeRun(c, n) ==
    LET run == IF c >= n THEN (c - n + 1)..c ELSE {}
    IN  /\ taken' = [p \in Pages |-> IF p \in run THEN TRUE ELSE taken[p]]
        /\ last'  = [p \in Pages |-> IF p = c THEN TRUE
                                     ELSE IF p \in run THEN FALSE ELSE last[p]]
        /\ last_place' = c + 1
        /\ n_free' = n_free - n
        /\ held' = BagAdd(held, [start |-> c - n + 1, n |-> n])

(***************************************************************************)
(* alloc_pages(n) = alloc_aligned_pages(n, PAGE_SIZE).  With n_free = 0    *)
(* it returns NULL at once.  Otherwise it searches from last_place, then   *)
(* from n_reserved (setting last_place there first); NULL if both fail.    *)
(***************************************************************************)
AllocPages(n) ==
    /\ BagCardinality(held) < MaxHeld
    /\ n_free # 0
    /\ LET first  == Search(last_place, 0, n)
           second == SecondSearch(n)
       IN  IF first.hit THEN TakeRun(first.at, n)
           ELSE IF second.hit THEN TakeRun(second.at, n)
           ELSE /\ last_place' = NReserved
                /\ UNCHANGED <<taken, last, n_free, held>>

(***************************************************************************)
(* free_pages(page): an address outside the heap is refused.  Otherwise,   *)
(* from its page on, each page is cleared and counted free up to and       *)
(* including the next page whose last bit is set.  (With no last bit left  *)
(* the code walks past the bitmap; the model stops at the heap's end.)     *)
(***************************************************************************)
FreeRun(i) ==
    LET ends == {j \in i..(NPages - 1) : last[j]}
        e    == IF ends = {} THEN NPages - 1
                ELSE CHOOSE j \in ends : \A k \in ends : j <= k
    IN  i..e

FreePages(r) ==
    /\ BagIn(r, held)
    /\ held' = BagRemove(held, r)
    /\ IF r.start \in Pages
       THEN /\ taken'  = [p \in Pages |-> IF p \in FreeRun(r.start) THEN FALSE ELSE taken[p]]
            /\ n_free' = n_free + Cardinality(FreeRun(r.start))
       ELSE UNCHANGED <<taken, n_free>>
    /\ UNCHANGED <<last, last_place>>

Next ==
    \/ \E n \in Sizes : AllocPages(n)
    \/ \E r \in BagToSet(held) : FreePages(r)

Spec == Init /\ [][Next]_vars

-----------------------------------------------------------------------------
TypeOK ==
    /\ taken \in [Pages -> BOOLEAN]
    /\ last \in [Pages -> BOOLEAN]
    /\ n_free \in Int
    /\ last_place \in NReserved..NPages
    /\ IsABag(held)
    /\ BagToSet(held) \subseteq [start : (1 - NPages)..(NPages - 1), n : Sizes]

\* The heap pages a returned region covers; a wrapped start lies past the heap
HeapPagesOf(r) == IF r.start >= 0 THEN r.start..(r.start + r.n - 1) ELSE {}

\* n consecutive untaken pages of the heap end at page c
WindowAt(c, n) == c - n + 1 >= NReserved /\ \A p \in (c - n + 1)..c : ~taken[p]

(***************************************************************************)
(* The two search loops fail only when they must: whenever neither the     *)
(* pass from last_place nor the pass from n_reserved finds n pages, no n   *)
(* consecutive free pages exist anywhere in the heap, so the wrap-around   *)
(* covers what the next-fit cursor skipped.  (A NULL from the n_free == 0  *)
(* early return is not covered: n_free is only a counter.)                 *)
(***************************************************************************)
AllocFindsWindow ==
    \A n \in Sizes :
        (~Search(last_place, 0, n).hit /\ ~SecondSearch(n).hit)
            => ~\E c \in Pages : WindowAt(c, n)

(***************************************************************************)
(* No heap page is handed out twice: the regions the callers hold cover    *)
(* disjoint heap pages and none covers the allocator's reserved pages.     *)
(***************************************************************************)
NoPageHandedOutTwice ==
    LET H == BagToSet(held) IN
    /\ \A r \in H : HeapPagesOf(r) \cap 0..(NReserved - 1) = {}
    /\ \A r \in H : HeapPagesOf(r) # {} => CopiesIn(r, held) = 1
    /\ \A r1, r2 \in H : r1 # r2 => HeapPagesOf(r1) \cap HeapPagesOf(r2) = {}
=============================================================================
