-------------------------------- MODULE Buddy --------------------------------
(***************************************************************************)
(* The page frame allocator of src/src/buddy.c: The Array (value and usage *)
(* of every page), the frame lists, and alloc_page and free_pages as the   *)
(* loops run: one step per split of a block and per round of the merge     *)
(* loop.  One call runs at a time: nothing that can interrupt alloc_page   *)
(* or free_pages calls them in this build.                                 *)
(***************************************************************************)
EXTENDS Integers, Sequences, SequencesExt

CONSTANTS MaxOrder,  \* the highest order: 16 in the code, Frame_Index - 1
          Pow2,      \* pow(2, k) for every order, and for the one above
          Requests   \* the page counts callers ask for

ASSUME MaxOrderAssumption == MaxOrder \in Nat

ASSUME Pow2Assumption ==
    /\ Pow2 \in [0 .. MaxOrder + 1 -> Nat \ {0}]
    /\ Pow2[0] = 1
    /\ \A k \in 0 .. MaxOrder : Pow2[k + 1] = 2 * Pow2[k]

ASSUME RequestsAssumption == Requests \subseteq Nat

VARIABLES value,       \* The Array: the order of the block a page heads, or -1
          usage,       \* The Array: "A" (Val_A), "F" (Val_F) or "X" (Val_X)
          frame_list,  \* for each order, the list of free blocks
          pc,          \* the loop the running call is in, "idle" when none runs
          size,        \* alloc_page: the number of pages asked for
          target,      \* alloc_page: target_frame_index
          order,       \* alloc_page: empty_frame_index; free_pages: order
          idx,         \* free_pages: idx
          ret          \* the page whose address the last call returned

locals == <<size, target, order, idx>>
vars == <<value, usage, frame_list, pc, locals, ret>>

Orders == 0 .. MaxOrder
Pages == 0 .. Pow2[MaxOrder] - 1

\* alloc_page returns "" instead of an address.
NoPage == -1

Block(p, k) == p .. p + Pow2[k] - 1

\* list_add_tail and list_del.  Deleting a node that is on no list writes
\* through null links and leaves this list alone.
Linked(p, list) == \E i \in 1 .. Len(list) : list[i] = p

list_add_tail(list, p) == Append(list, p)
list_del(list, p) ==
    IF Linked(p, list)
    THEN RemoveAt(list, CHOOSE i \in 1 .. Len(list) : list[i] = p)
    ELSE list

OnList(p, k) == Linked(p, frame_list[k])

\* target_frame_index for n pages, by shifting right until 1 is left; any
\* order above MaxOrder is out of range and stands as MaxOrder + 1.
TargetIndex(n, k) ==
    /\ k > 0 => Pow2[k] <= n
    /\ k <= MaxOrder => n < Pow2[k + 1]

\* A mutant: the buddy by block number, which also serves an idx inside a block.
Buddy_ByBlock(p, k) ==
    LET block == p \div Pow2[k]
    IN  Pow2[k] * (IF block % 2 = 0 THEN block + 1 ELSE block - 1)

\* idx ^ pow(2, k)
Buddy(p, k) == IF (p \div Pow2[k]) % 2 = 0 THEN p + Pow2[k] ELSE p - Pow2[k]

Init ==
    /\ value = [p \in Pages |-> IF p = 0 THEN MaxOrder ELSE -1]
    /\ usage = [p \in Pages |-> IF p = 0 THEN "A" ELSE "F"]
    /\ frame_list = [k \in Orders |-> IF k = MaxOrder THEN <<0>> ELSE <<>>]
    /\ pc = "idle"
    /\ size = 0 /\ target = 0 /\ order = 0 /\ idx = 0
    /\ ret = NoPage

\* The call returns; its locals are gone.
Return ==
    /\ pc' = "idle"
    /\ size' = 0 /\ target' = 0 /\ order' = 0 /\ idx' = 0

-----------------------------------------------------------------------------
(* alloc_page *)

AllocCall(n, k) ==
    /\ pc = "idle"
    /\ TargetIndex(n, k)
    /\ size' = n
    /\ target' = k
    /\ pc' = "search"
    /\ ret' = NoPage
    /\ UNCHANGED <<value, usage, frame_list, order, idx>>

\* The first non-empty list from the target on.
SearchFound(k) ==
    /\ pc = "search"
    /\ k >= target
    /\ frame_list[k] # <<>>
    /\ \A j \in target .. k - 1 : frame_list[j] = <<>>
    /\ order' = k
    /\ pc' = "split"
    /\ UNCHANGED <<value, usage, frame_list, size, target, idx, ret>>

\* A mutant: only the target's own list is looked at.
SearchFailed_TargetOnly ==
    /\ pc = "search"
    /\ target <= MaxOrder => frame_list[target] = <<>>
    /\ ret' = NoPage
    /\ Return
    /\ UNCHANGED <<value, usage, frame_list>>

\* The search leaves the frame lists.  Behind Frame_List lies par_array, the
\* next block of simple_malloc: where the header of order MaxOrder + 1 would
\* have its link, and that of every second one after it, is max_chunk of a
\* node, at most 128 and so never the address list_empty compares it with.
\* The loop ends at such an order, above MaxOrder, and "" is returned.
SearchFailed ==
    /\ pc = "search"
    /\ \A j \in target .. MaxOrder : frame_list[j] = <<>>
    /\ ret' = NoPage
    /\ Return
    /\ UNCHANGED <<value, usage, frame_list>>

\* One round of the split loop: the head of the list becomes two buddies one
\* order below.  A page marked Val_X stops the call, the first half updated.
Split ==
    /\ pc = "split"
    /\ order # target
    /\ LET head == frame_list[order][1]
           val == value[head] - 1
           new_buddy == head + Pow2[val]
       IN  IF usage[head] = "X"
           THEN /\ ret' = NoPage
                /\ Return
                /\ UNCHANGED <<value, usage, frame_list>>
           ELSE IF usage[new_buddy] = "X"
           THEN /\ value' = [value EXCEPT ![head] = val]
                /\ ret' = NoPage
                /\ Return
                /\ UNCHANGED <<usage, frame_list>>
           ELSE /\ value' = [value EXCEPT ![head] = val, ![new_buddy] = val]
                /\ frame_list' = [frame_list EXCEPT
                       ![order] = list_del(@, head),
                       ![order - 1] =
                           list_add_tail(list_add_tail(@, head), new_buddy)]
                /\ order' = order - 1
                /\ UNCHANGED <<usage, pc, size, target, idx, ret>>

\* A mutant: the end of the block is returned.
Take_ReturnsEnd ==
    /\ pc = "split"
    /\ order = target
    /\ LET page == frame_list[order][1]
       IN  /\ frame_list' = [frame_list EXCEPT ![order] = list_del(@, page)]
           /\ usage' = [p \in Pages |->
                           IF p \in Block(page, value[page]) THEN "X" ELSE usage[p]]
           /\ ret' = page + Pow2[value[page]]
    /\ Return
    /\ UNCHANGED value

\* A mutant: the taken block stays on its list.
Take_NoDelete ==
    /\ pc = "split"
    /\ order = target
    /\ LET page == frame_list[order][1]
       IN  /\ usage' = [p \in Pages |->
                           IF p \in Block(page, value[page]) THEN "X" ELSE usage[p]]
           /\ ret' = page
    /\ Return
    /\ UNCHANGED <<value, frame_list>>

\* The first block of the target list is taken and marked.
Take ==
    /\ pc = "split"
    /\ order = target
    /\ LET page == frame_list[order][1]
       IN  /\ frame_list' = [frame_list EXCEPT ![order] = list_del(@, page)]
           /\ usage' = [p \in Pages |->
                           IF p \in Block(page, value[page]) THEN "X" ELSE usage[p]]
           /\ ret' = page
    /\ Return
    /\ UNCHANGED value

-----------------------------------------------------------------------------
(* free_pages *)

\* A mutant: any block may be given back, also one that is free.
FreeCall_NoUsageCheck(p) ==
    /\ pc = "idle"
    /\ value[p] # -1
    /\ frame_list' = [frame_list EXCEPT ![value[p]] = list_add_tail(@, p)]
    /\ usage' = [q \in Pages |-> IF q \notin Block(p, value[p]) THEN usage[q]
                                 ELSE IF q = p THEN "A" ELSE "F"]
    /\ order' = value[p]
    /\ idx' = p
    /\ pc' = "merge"
    /\ ret' = NoPage
    /\ UNCHANGED <<value, size, target>>

\* The usage test is the only one: for a page inside an allocated block, order
\* is -1 and the node goes on frame_header[-1], no list of the array.
FreeCall(p) ==
    /\ pc = "idle"
    /\ usage[p] = "X"
    /\ frame_list' = [frame_list EXCEPT ![value[p]] = list_add_tail(@, p)]
    /\ usage' = [q \in Pages |-> IF q \notin Block(p, value[p]) THEN usage[q]
                                 ELSE IF q = p THEN "A" ELSE "F"]
    /\ order' = value[p]
    /\ idx' = p
    /\ pc' = "merge"
    /\ ret' = NoPage
    /\ UNCHANGED <<value, size, target>>

\* "page has not been allocated"
FreeUnallocated(p) ==
    /\ pc = "idle"
    /\ usage[p] # "X"
    /\ UNCHANGED vars

\* A mutant: the merged block begins at idx, also when the buddy is lower.
Merge_BaseIsIdx ==
    /\ pc = "merge"
    /\ LET buddy == Buddy(idx, order)
       IN  /\ OnList(buddy, order)
           /\ usage' = [p \in Pages |-> IF p \notin Block(idx, order + 1) THEN usage[p]
                                        ELSE IF p = idx THEN "A" ELSE "F"]
           /\ value' = [p \in Pages |-> IF p \notin Block(idx, order + 1) THEN value[p]
                                        ELSE IF p = idx THEN order + 1 ELSE -1]
           /\ frame_list' = [frame_list EXCEPT
                  ![order] = list_del(list_del(@, idx), buddy),
                  ![order + 1] = list_add_tail(@, idx)]
    /\ order' = order + 1
    /\ UNCHANGED <<pc, size, target, idx, ret>>

\* One round of the merge loop.  idx stays what it was, also when the merged
\* block begins at the buddy.
Merge ==
    /\ pc = "merge"
    /\ LET buddy == Buddy(idx, order)
           base == IF idx < buddy THEN idx ELSE buddy
       IN  /\ OnList(buddy, order)
           /\ usage' = [p \in Pages |-> IF p \notin Block(base, order + 1) THEN usage[p]
                                        ELSE IF p = base THEN "A" ELSE "F"]
           /\ value' = [p \in Pages |-> IF p \notin Block(base, order + 1) THEN value[p]
                                        ELSE IF p = base THEN order + 1 ELSE -1]
           /\ frame_list' = [frame_list EXCEPT
                  ![order] = list_del(list_del(@, idx), buddy),
                  ![order + 1] = list_add_tail(@, base)]
    /\ order' = order + 1
    /\ UNCHANGED <<pc, size, target, idx, ret>>

\* A mutant: the loop is not left when no buddy is free.
MergeStop_NoBreak ==
    /\ pc = "merge"
    /\ ~OnList(Buddy(idx, order), order)
    /\ UNCHANGED vars

MergeStop ==
    /\ pc = "merge"
    /\ ~OnList(Buddy(idx, order), order)
    /\ Return
    /\ UNCHANGED <<value, usage, frame_list, ret>>

-----------------------------------------------------------------------------

\* What callers owe free_pages, which does not test it: no address of a page
\* inside an allocated block, neither one alloc_page never returned nor one
\* given back before and since merged and handed out within a larger block.
NotInside(p) == usage[p] = "X" => value[p] # -1

\* The steps of the running call.
Step ==
    \/ \E k \in Orders : SearchFound(k)
    \/ SearchFailed
    \/ Split
    \/ Take
    \/ Merge
    \/ MergeStop

Next ==
    \/ \E n \in Requests, k \in 0 .. MaxOrder + 1 : AllocCall(n, k)
    \/ \E p \in Pages : NotInside(p) /\ FreeCall(p)
    \/ \E p \in Pages : FreeUnallocated(p)
    \/ Step

\* The processor keeps executing the call; nobody need call again.
Spec == Init /\ [][Next]_vars /\ WF_vars(Step)

-----------------------------------------------------------------------------
(* What the code keeps *)

\* The type of every variable.
TypeOK ==
    /\ value \in [Pages -> {-1} \cup Orders]
    /\ usage \in [Pages -> {"A", "F", "X"}]
    /\ frame_list \in [Orders -> Seq(Pages)]
    /\ pc \in {"idle", "search", "split", "merge"}
    /\ size \in Requests \cup {0}
    /\ target \in 0 .. MaxOrder + 1
    /\ order \in Orders
    /\ idx \in Pages
    /\ ret \in Pages \cup {NoPage}

Heads == {p \in Pages : value[p] # -1}
BlockOf(p) == Block(p, value[p])

\* Every block begins at a multiple of its size.
HeadsAligned == \A p \in Heads : p % Pow2[value[p]] = 0

BlocksDisjoint ==
    \A p, q \in Heads : p # q => BlockOf(p) \cap BlockOf(q) = {}

BlocksCover == \A q \in Pages : \E p \in Heads : q \in BlockOf(p)

\* A block is allocated as a whole or free as a whole.
BlocksUniform ==
    \A p \in Heads : \A q \in BlockOf(p) : usage[q] = "X" <=> usage[p] = "X"

\* After any history of splits and merges, also in the middle of one, The Array
\* cuts the page memory into aligned blocks: none lost, none in two blocks, each
\* wholly allocated or wholly free (the for loops of alloc_page and free_pages).
Partition ==
    /\ HeadsAligned
    /\ BlocksDisjoint
    /\ BlocksCover
    /\ BlocksUniform

\* No node is on a list twice.
Distinct(list) == \A i, j \in 1 .. Len(list) : list[i] = list[j] => i = j

\* The frame lists and The Array tell the same story: a page is on the list of
\* order k, once, exactly when it heads a free block of order k.  So no list
\* hands out an allocated block, and no free block is off the lists.
FreeListsExact ==
    /\ \A k \in Orders : Distinct(frame_list[k])
    /\ \A k \in Orders, p \in Pages : OnList(p, k) <=> value[p] = k /\ usage[p] # "X"

\* free_pages never updates idx, so in later rounds the page may be on no list;
\* yet whenever a round finds its buddy, both nodes it deletes with list_del are
\* linked, and the list of order + 1 it appends to exists.
MergeDeletesLinkedNodes ==
    (pc = "merge" /\ OnList(Buddy(idx, order), order)) =>
        /\ OnList(idx, order)
        /\ order < MaxOrder

\* alloc_page gives up on a page marked Val_X in the middle of a split, with a
\* half made buddy left behind; that branch is never taken.
SplitNeverBlocked ==
    pc = "split" =>
        /\ frame_list[order] # <<>>
        /\ LET head == frame_list[order][1]
           IN  /\ value[head] = order
               /\ usage[head] # "X"
               /\ order # target => usage[head + Pow2[order - 1]] # "X"

\* Every call returns: the merge loop and the split loop end.
CallsReturn == pc # "idle" ~> pc = "idle"

\* The allocator keeps the promise of PageAllocator, whatever it does to lists
\* and The Array between a call and its return.
Abstract == INSTANCE PageAllocator WITH
    owned <- {<<p, value[p]>> : p \in {q \in Heads : usage[q] = "X"}},
    wanted <- IF pc \in {"search", "split"} THEN target ELSE -1

Allocator == Abstract!Spec

-----------------------------------------------------------------------------
(* What the code and its comments say, and the code does not do *)

\* "find buddies", "merge to a new node on the frame list": between calls no two
\* buddies are both free, each on the list of their order.
FreeBuddiesMerged ==
    pc = "idle" =>
        \A k \in Orders, p \in Pages :
            (k < MaxOrder /\ OnList(p, k)) => ~OnList(Buddy(p, k), k)
=============================================================================
