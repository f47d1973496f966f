------------------------------- MODULE MCBuddy -------------------------------
(* Buddy with a page memory of eight pages, orders 0 to 3. *)
EXTENDS Buddy

MCMaxOrder == 3
MCPow2 == [k \in 0 .. MCMaxOrder + 1 |-> 2^k]

\* One page, powers of two, 3 which alloc_page rounds down, and a
\* request beyond the page memory.
MCRequests == {1, 3, 4, 8, 16}
=============================================================================
