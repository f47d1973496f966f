------------------------------- MODULE Startup -------------------------------
(***************************************************************************)
(* The startup allocator of src/src/buddy.c: it marks the reserved regions *)
(* in The Array, links every other page to the list of order 0 and merges  *)
(* page by page; then alloc_page and free_pages of Buddy work on what it   *)
(* has made.  main has the call in a comment, and makes The Array and the  *)
(* lists with init_page_array and init_frame_list instead.                 *)
(***************************************************************************)
EXTENDS Buddy

CONSTANT Regions  \* where the ramdisk and the heap may lie: pairs of the first
                  \* page and the length in half pages

ASSUME RegionsAssumption ==
    \A r \in Regions : r[1] \in Pages /\ r[2] \in 2 .. 2 * (Pow2[MaxOrder] - r[1])

VARIABLES initrd,  \* initrd_start, initrd_end
          malloc,  \* malloc_start, malloc_end
          i        \* the page of the loop

startup_vars == <<vars, initrd, malloc, i>>

\* reserve_mem_start, reserve_mem_end: the first page
reserve_mem == <<0, 2>>

\* A region that is not a whole number of pages loses the rest of its length.
Number(r) == r[2] \div 2
Marked(r) == r[1] .. r[1] + Number(r) - 1
Covered(r) == r[1] .. r[1] + (r[2] + 1) \div 2 - 1

\* What simple_malloc hands out was never written; no step reads it.
StartupInit ==
    /\ initrd \in Regions
    /\ malloc \in Regions
    /\ 0 \notin Covered(initrd) \cup Covered(malloc)
    /\ Covered(initrd) \cap Covered(malloc) = {}
    /\ value = [p \in Pages |-> -1]
    /\ usage = [p \in Pages |-> "F"]
    /\ frame_list = [k \in Orders |-> <<>>]
    /\ pc = "mark"
    /\ i = 0
    /\ size = 0 /\ target = 0 /\ order = 0 /\ idx = 0
    /\ ret = NoPage

-----------------------------------------------------------------------------
(* init_startup_array *)

\* The loop is at page i; behind the last page the next loop begins at the first.
Advance(n, loop) ==
    /\ i' = IF i + n \in Pages THEN i + n ELSE 0
    /\ pc' = IF i + n \in Pages THEN pc ELSE loop
    /\ UNCHANGED <<initrd, malloc>>

\* A mutant: the loop goes on behind the page after the region.
MarkRegion_Skips ==
    /\ pc = "mark"
    /\ \E r \in {reserve_mem, initrd, malloc} :
          /\ i = r[1]
          /\ usage' = [p \in Pages |-> IF p \in Marked(r) THEN "X" ELSE usage[p]]
          /\ value' = [p \in Pages |-> IF p \in Marked(r) THEN -1 ELSE value[p]]
          /\ Advance(Number(r) + 1, "link")
    /\ UNCHANGED <<frame_list, locals, ret>>

\* A region begins at page i, and the loop goes on behind it.
MarkRegion ==
    /\ pc = "mark"
    /\ \E r \in {reserve_mem, initrd, malloc} :
          /\ i = r[1]
          /\ usage' = [p \in Pages |-> IF p \in Marked(r) THEN "X" ELSE usage[p]]
          /\ value' = [p \in Pages |-> IF p \in Marked(r) THEN -1 ELSE value[p]]
          /\ Advance(Number(r), "link")
    /\ UNCHANGED <<frame_list, locals, ret>>

MarkFree ==
    /\ pc = "mark"
    /\ \A r \in {reserve_mem, initrd, malloc} : i # r[1]
    /\ usage' = [usage EXCEPT ![i] = "A"]
    /\ value' = [value EXCEPT ![i] = 0]
    /\ Advance(1, "link")
    /\ UNCHANGED <<frame_list, locals, ret>>

-----------------------------------------------------------------------------
(* init_startup_list *)

\* A mutant: every page is linked.
Link_All ==
    /\ pc = "link"
    /\ frame_list' = [frame_list EXCEPT ![0] = list_add_tail(@, i)]
    /\ Advance(1, "merge_page")
    /\ UNCHANGED <<value, usage, locals, ret>>

Link ==
    /\ pc = "link"
    /\ frame_list' = IF usage[i] = "A"
                     THEN [frame_list EXCEPT ![0] = list_add_tail(@, i)]
                     ELSE frame_list
    /\ Advance(1, "merge_page")
    /\ UNCHANGED <<value, usage, locals, ret>>

-----------------------------------------------------------------------------
(* merge_page, called for every page i, with its idx *)

MayMerge(p) ==
    LET buddy == Buddy(p, value[p])
    IN  /\ usage[p] = "A"
        /\ usage[buddy] = "A"
        /\ value[p] = value[buddy]

\* A mutant: idx stays what it was, as in free_pages.
MergePage_KeepsIdx ==
    /\ pc = "merge_page"
    /\ MayMerge(idx)
    /\ LET buddy == Buddy(idx, value[idx])
           base  == IF idx < buddy THEN idx ELSE buddy
           big   == IF idx < buddy THEN buddy ELSE idx
           k     == value[idx]
       IN  /\ usage' = [usage EXCEPT ![big] = "F"]
           /\ value' = [value EXCEPT ![big] = -1, ![base] = k + 1]
           /\ frame_list' = [frame_list EXCEPT
                  ![k] = list_del(list_del(@, idx), buddy),
                  ![k + 1] = list_add_tail(@, base)]
    /\ UNCHANGED <<pc, size, target, order, idx, ret, initrd, malloc, i>>

\* One round: the block of idx and its buddy become a block one order above, and
\* the next round is that of the lower one.
MergePage ==
    /\ pc = "merge_page"
    /\ MayMerge(idx)
    /\ LET buddy == Buddy(idx, value[idx])
           base  == IF idx < buddy THEN idx ELSE buddy
           big   == IF idx < buddy THEN buddy ELSE idx
           k     == value[idx]
       IN  /\ usage' = [usage EXCEPT ![big] = "F"]
           /\ value' = [value EXCEPT ![big] = -1, ![base] = k + 1]
           /\ frame_list' = [frame_list EXCEPT
                  ![k] = list_del(list_del(@, idx), buddy),
                  ![k + 1] = list_add_tail(@, base)]
           /\ idx' = base
    /\ UNCHANGED <<pc, size, target, order, ret, initrd, malloc, i>>

\* A mutant: the loop looks at one page more than there are.
NextPage_OneMore ==
    /\ pc = "merge_page"
    /\ ~MayMerge(idx)
    /\ i' = IF i \in Pages THEN i + 1 ELSE 0
    /\ pc' = IF i \in Pages THEN pc ELSE "idle"
    /\ idx' = i'
    /\ UNCHANGED <<value, usage, frame_list, size, target, order, ret, initrd, malloc>>

\* A mutant: the loop over the pages begins again.
NextPage_NoEnd ==
    /\ pc = "merge_page"
    /\ ~MayMerge(idx)
    /\ i' = IF i + 1 \in Pages THEN i + 1 ELSE 0
    /\ idx' = i'
    /\ UNCHANGED <<value, usage, frame_list, pc, size, target, order, ret, initrd, malloc>>

\* The call of merge_page returns, and the loop goes on with the next page.
NextPage ==
    /\ pc = "merge_page"
    /\ ~MayMerge(idx)
    /\ Advance(1, "idle")
    /\ idx' = i'
    /\ UNCHANGED <<value, usage, frame_list, size, target, order, ret>>

-----------------------------------------------------------------------------

Boot == MarkRegion \/ MarkFree \/ Link \/ MergePage \/ NextPage

\* Calls of the allocator, after startup_allocator has returned.
AllocatorCall == Next /\ UNCHANGED <<initrd, malloc, i>>

StartupNext == Boot \/ AllocatorCall

StartupSpec == StartupInit /\ [][StartupNext]_startup_vars /\ WF_startup_vars(Boot)

-----------------------------------------------------------------------------

Booting == pc \in {"mark", "link", "merge_page"}

StartupTypeOK ==
    /\ Booting \/ TypeOK
    /\ value \in [Pages -> {-1} \cup Orders]
    /\ usage \in [Pages -> {"A", "F", "X"}]
    /\ i \in Pages /\ idx \in Pages
    /\ {initrd, malloc} \subseteq Regions

\* Page p, from half page 2p to 2p + 1, lies wholly in the region.
WhollyIn(p, r) == r[1] <= p /\ 2 * p + 2 <= 2 * r[1] + r[2]

\* The pages that lie wholly in a region.  The page with the odd last half of one
\* is not among them: the code takes it for free.
Reserved == {p \in Pages : \E r \in {reserve_mem, initrd, malloc} : WhollyIn(p, r)}

\* Neither the merges at startup nor any later history of splits and merges puts
\* a page that lies wholly in a reserved region into a block, free or allocated,
\* or on a list.
ReservedKept ==
    pc # "mark" =>
        /\ \A p \in Heads : BlockOf(p) \cap Reserved = {}
        /\ \A k \in Orders, p \in Reserved : ~OnList(p, k)

\* From the first merge on The Array and the lists tell the same story, although
\* merge_page and free_pages change them in ways of their own: the blocks are
\* disjoint and cover every page that is not wholly reserved, also the last page
\* of a region that ends inside it, and every free one is on the list of its
\* order, once.
StartupExact ==
    ~Booting \/ pc = "merge_page" =>
        /\ HeadsAligned /\ BlocksDisjoint
        /\ UNION {BlockOf(p) : p \in Heads} = Pages \ Reserved
        /\ FreeListsExact

\* "recursively merge frame list node": one pass over the pages merges all that
\* can be merged, and no round looks at a buddy behind The Array.
MergesAll ==
    [][/\ pc = "merge_page" /\ usage[idx] = "A" => Buddy(idx, value[idx]) \in Pages
       /\ pc = "merge_page" /\ pc' = "idle" => FreeBuddiesMerged']_startup_vars

\* The loops end, although merge_page sets back the page it looks at.
StartupEnds == Booting ~> pc = "idle"
=============================================================================
