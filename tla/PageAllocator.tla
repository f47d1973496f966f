---------------------------- MODULE PageAllocator ----------------------------
(***************************************************************************)
(* What a page allocator promises its callers (alloc_page and free_pages   *)
(* of src/src/buddy.c), without free lists, splits or merges: a granted    *)
(* block is aligned, lies in the page memory and overlaps no block that a  *)
(* caller still holds; a call for a single page is refused only when every *)
(* page is held; and every call is answered.                               *)
(***************************************************************************)
EXTENDS Integers

CONSTANTS MaxOrder,  \* orders 0 .. MaxOrder: a block of order k has Pow2[k] pages
          Pow2       \* the table of the powers of two

VARIABLES owned,   \* the blocks callers hold: pairs <<first page, order>>
          wanted,  \* the order a caller is waiting for, NoOrder when none is
          ret      \* what the last call returned: a page or NoPage

vars == <<owned, wanted, ret>>

NoPage == -1
NoOrder == -1

Orders == 0 .. MaxOrder
Pages == 0 .. Pow2[MaxOrder] - 1

\* The pages of the block of order k that starts at page p.
Block(p, k) == p .. p + Pow2[k] - 1

OwnedPages == UNION {Block(b[1], b[2]) : b \in owned}

Init == owned = {} /\ wanted = NoOrder /\ ret = NoPage

\* A caller asks for a block; MaxOrder + 1 stands for any larger order.
Ask(k) ==
    /\ wanted = NoOrder
    /\ wanted' = k
    /\ ret' = NoPage
    /\ UNCHANGED owned

Grant(p) ==
    /\ wanted \in Orders
    /\ p % Pow2[wanted] = 0
    /\ Block(p, wanted) \subseteq Pages \ OwnedPages
    /\ owned' = owned \cup {<<p, wanted>>}
    /\ ret' = p
    /\ wanted' = NoOrder

\* Larger requests may fail while pages are free; a single page may not.
Refuse ==
    /\ wanted # NoOrder
    /\ wanted = 0 => Pages \subseteq OwnedPages
    /\ ret' = NoPage
    /\ wanted' = NoOrder
    /\ UNCHANGED owned

Free(b) ==
    /\ wanted = NoOrder
    /\ owned' = owned \ {b}
    /\ ret' = NoPage
    /\ UNCHANGED wanted

Answer == Refuse \/ \E p \in Pages : Grant(p)

Next ==
    \/ \E k \in 0 .. MaxOrder + 1 : Ask(k)
    \/ Answer
    \/ \E b \in owned : Free(b)

Spec == Init /\ [][Next]_vars /\ WF_vars(Answer)
=============================================================================
