-------------------------------- MODULE DynMem --------------------------------
(***************************************************************************)
(* The dynamic memory allocator of src/src/buddy.c (dma and fdma in the    *)
(* shell): pages of the page allocator cut into chunks of one size, a bit  *)
(* of chunk_mask for each chunk handed out.  alloc_page is seen as its     *)
(* callers see it: it hands out a page that nobody holds, or "".           *)
(***************************************************************************)
EXTENDS Integers, Sequences, FiniteSets, FiniteSetsExt, SequencesExt

CONSTANTS Supply,      \* the numbers of the pages alloc_page can still hand out
          Requests,    \* the byte counts that dma is called with
          MaxParPages  \* the length of par_array: 65536 in the code

ASSUME SupplyAssumption == Supply \subseteq Nat /\ IsFiniteSet(Supply)
\* For more than 2^30 bytes the int in which the shell doubles 16 overflows.
ASSUME RequestsAssumption == Requests \subseteq 0 .. 2^30
ASSUME MaxParPagesAssumption == MaxParPages \in Nat

VARIABLES par_list,  \* the partitioned pages in the order they were made
          supply,    \* pages the page allocator has left
          live       \* the bag of chunks that dma printed and nobody gave back

vars == <<par_list, supply, live>>

Page_Size == 4096
PAGE_MEMORY_BASE == 268435456
PageAddress(p) == PAGE_MEMORY_BASE + p * Page_Size

\* The address of the literal "" in the image, which alloc_page returns when it
\* has no page: below the page memory and at the start of no page.
EmptyString == 600001

AllocPage(addr) ==
    IF supply = {}
    THEN addr = EmptyString /\ UNCHANGED supply
    ELSE \E p \in supply : addr = PageAddress(p) /\ supply' = supply \ {p}

\* The shell rounds the bytes up to 16, 32, 64, ...
ChunkSize(bytes) == CHOOSE r \in {16 * 2^i : i \in 0 .. 26} :
                        bytes <= r /\ (r > 16 => r \div 2 < bytes)

\* A mutant: one bit more is looked at.
allOne_Long(mask) == (0 .. 8) \subseteq mask

\* chunk_mask is the set of its one bits.  allOne looks at sizeof(long long)
\* bits, which are the lowest eight.
allOne(mask) == (0 .. 7) \subseteq mask

\* A mutant: as many bits are passed as chunks are out.
LowestFree_Count(mask) == Cardinality(mask)

LowestFree(mask) == CHOOSE i \in 0 .. 63 : i \notin mask /\ (0 .. i - 1) \subseteq mask

\* A mutant: the count of free chunks is not looked at.
Reusable_NoCount(node, size) == node.chunk_size = size /\ ~allOne(node.chunk_mask)

\* A mutant: a page is not searched again once a chunk of it is out.
Reusable_OnlyFresh(node, size) ==
    /\ node.chunk_size = size
    /\ node.chunk_num = node.max_chunk
    /\ ~allOne(node.chunk_mask)

\* The pages the search of allocate_dynamic_memory stops at.
Reusable(node, size) ==
    /\ node.chunk_size = size
    /\ node.chunk_num > 0
    /\ ~allOne(node.chunk_mask)

\* The value of the hexadecimal address a as atoh reads it: it subtracts '0'
\* from every character, also from 'A' to 'F'.
atoh(a) ==
    LET value[n \in Nat] ==
            IF n = 0 THEN 0
            ELSE 16 * value[n \div 16] + (IF n % 16 < 10 THEN n % 16 ELSE (n % 16) + 7)
    IN  value[a]

Chunk(addr, size) == [addr |-> addr, size |-> size]

Init == par_list = <<>> /\ supply = Supply /\ live = EmptyBag

-----------------------------------------------------------------------------

\* allocate_dynamic_memory, a page of this size has a free chunk.
DmaReuse(bytes) ==
    LET size == ChunkSize(bytes)
        nodes == {i \in 1 .. Len(par_list) : Reusable(par_list[i], size)}
    IN  /\ nodes # {}
        /\ LET i == Min(nodes)
               chunk == LowestFree(par_list[i].chunk_mask)
           IN  /\ par_list' = [par_list EXCEPT
                                  ![i].chunk_num = @ - 1,
                                  ![i].chunk_mask = @ \cup {chunk}]
               /\ live' = live (+) SetToBag({Chunk(par_list[i].base_addr + chunk * size, size)})
        /\ UNCHANGED supply

\* allocate_dynamic_memory, a new page is cut into chunks, whatever alloc_page
\* returned and however large a chunk is.  MaxParPages bounds the pages.
DmaNewPage(bytes) ==
    LET size == ChunkSize(bytes)
    IN  /\ \A i \in 1 .. Len(par_list) : ~Reusable(par_list[i], size)
        /\ Len(par_list) < MaxParPages
        /\ \E addr \in {EmptyString} \cup {PageAddress(p) : p \in supply} :
              /\ AllocPage(addr)
              /\ par_list' = Append(par_list,
                     [chunk_size |-> size,
                      chunk_num  |-> Page_Size \div size - 1,
                      max_chunk  |-> Page_Size \div size,
                      chunk_mask |-> {0},
                      base_addr  |-> addr])
              /\ live' = live (+) SetToBag({Chunk(addr, size)})

\* A mutant: the chunk is counted free although its bit was clear.
ClearChunk_Unchecked(node, bit) ==
    [node EXCEPT !.chunk_mask = @ \ {bit}, !.chunk_num = @ + 1]

ClearChunk(node, bit) ==
    IF bit \in node.chunk_mask
    THEN [node EXCEPT !.chunk_mask = @ \ {bit}, !.chunk_num = @ + 1]
    ELSE node

\* A mutant: the chunk index is one too low.
Fdma_OffByOne(a) ==
    LET hex == atoh(a)
        nodes == {i \in 1 .. Len(par_list) :
                     par_list[i].base_addr = hex - (hex % Page_Size)}
    IN  /\ nodes # {}
        /\ LET i == Min(nodes)
               idx == (hex - par_list[i].base_addr) \div par_list[i].chunk_size
           IN  par_list' = [par_list EXCEPT ![i] = ClearChunk(@, idx - 1)]
        /\ live' = Restrict(live, {c \in DOMAIN live : c.addr # a})
        /\ UNCHANGED supply

\* free_dynamic_memory of the printed address a.  The page is found by the
\* address prefix; 1 << idx of an int is a shift by idx modulo 32.
Fdma(a) ==
    LET hex == atoh(a)
        nodes == {i \in 1 .. Len(par_list) :
                     par_list[i].base_addr = hex - (hex % Page_Size)}
    IN  /\ par_list' =
              IF nodes = {} THEN par_list
              ELSE LET i == Min(nodes)
                       idx == (hex - par_list[i].base_addr) \div par_list[i].chunk_size
                   IN  [par_list EXCEPT ![i] = ClearChunk(@, idx % 32)]
        /\ live' = Restrict(live, {c \in DOMAIN live : c.addr # a})
        /\ UNCHANGED supply

\* The addresses typed after fdma: the chunks of the pages in use, held or not.
ChunkAddresses ==
    UNION {{par_list[i].base_addr + n * par_list[i].chunk_size :
               n \in 0 .. Min({7, par_list[i].max_chunk - 1})} :
           i \in {j \in 1 .. Len(par_list) : par_list[j].max_chunk > 0}}

Next ==
    \/ \E bytes \in Requests : DmaReuse(bytes)
    \/ \E bytes \in Requests : DmaNewPage(bytes)
    \/ \E a \in ChunkAddresses : Fdma(a)

Spec == Init /\ [][Next]_vars

-----------------------------------------------------------------------------

(* What the code asks of its callers for chunks to be apart: that no chunk is *)
(* larger than a page, and that fdma is called with addresses that atoh reads *)
(* as they were printed.  dma may print any address.                          *)

FitInPage == \A bytes \in Requests : bytes <= Page_Size

\* The address is not in the page memory or has no digit above 9.
ReadRight(a) == a < PAGE_MEMORY_BASE \/ atoh(a) = a

PlainNext ==
    \/ \E bytes \in Requests : DmaReuse(bytes)
    \/ \E bytes \in Requests : DmaNewPage(bytes)
    \/ \E a \in ChunkAddresses : ReadRight(a) /\ Fdma(a)

PlainSpec == Init /\ [][PlainNext]_vars

-----------------------------------------------------------------------------

TypeOK ==
    /\ par_list \in Seq([chunk_size : Nat, chunk_num : -1 .. 256, max_chunk : Nat,
                         chunk_mask : SUBSET (0 .. 63), base_addr : Nat])
    /\ supply \subseteq Supply
    /\ IsABag(live) /\ \A c \in DOMAIN live : c.addr \in Nat /\ c.size \in Nat

\* The two books of a page agree, after any order of dma and fdma, also of
\* chunks that were not handed out: the count of free chunks is the number of
\* clear bits.
ChunkCountExact ==
    \A i \in 1 .. Len(par_list) :
        LET node == par_list[i]
        IN  node.chunk_num = node.max_chunk - Cardinality(node.chunk_mask)

\* allocate_dynamic_memory sets bit 1 << chunk_idx with an int; because allOne
\* stops at eight bits the shift never reaches the width of an int, and no bit
\* stands for a chunk behind the end of the page.
BitsInPage ==
    \A i \in 1 .. Len(par_list) :
        \A b \in par_list[i].chunk_mask : b <= 7 /\ b < par_list[i].max_chunk

InPageMemory(c) == c.addr >= PAGE_MEMORY_BASE

\* No byte of the page memory is in two chunks that are held.
LiveDisjoint ==
    \A c, d \in DOMAIN live :
        (InPageMemory(c) /\ InPageMemory(d)) =>
            IF c = d THEN live[c] = 1
            ELSE c.addr + c.size <= d.addr \/ d.addr + d.size <= c.addr

\* The chunks marked in the masks are those that are held: none is lost and none
\* is marked free while it is in use.
MarkedIsHeld ==
    \A i \in 1 .. Len(par_list) :
        LET node == par_list[i]
        IN  InPageMemory([addr |-> node.base_addr]) =>
                node.chunk_mask =
                    {b \in 0 .. (node.max_chunk - 1) :
                        Chunk(node.base_addr + b * node.chunk_size, node.chunk_size) \in DOMAIN live}

\* dma takes a new page only when every page of that chunk size has all the
\* chunks handed out that its mask can count.
NoNeedlessPage ==
    [][Len(par_list') > Len(par_list) =>
          LET size == par_list'[Len(par_list')].chunk_size
          IN  \A i \in 1 .. Len(par_list) :
                  par_list[i].chunk_size = size =>
                      Cardinality(par_list[i].chunk_mask)
                          >= Min({8, par_list[i].max_chunk})]_vars
=============================================================================
