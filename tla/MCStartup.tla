------------------------------ MODULE MCStartup ------------------------------
(***************************************************************************)
(* Startup with sixteen pages and two regions of one to four pages, some   *)
(* of them with a half page more, apart, next to each other and at the end *)
(* of the memory: the eight pages of one half can all be free.             *)
(***************************************************************************)
EXTENDS Startup

MCMaxOrder == 4
MCPow2 == [k \in 0 .. MCMaxOrder + 1 |-> 2^k]
MCRequests == {2, 4}
MCRegions ==
    {r \in {1, 2, 3, 6, 9, 12, 15} \X {2, 3, 5, 8} : r[2] <= 2 * (16 - r[1])}
=============================================================================
