----------------------------- MODULE DynMemProofs -----------------------------
(***************************************************************************)
(* Theorems about DynMem for any supply of pages, any requests and any     *)
(* length of par_array.                                                    *)
(*                                                                         *)
(* The books of a page (type, count and mask) are right whatever is asked  *)
(* for.  That chunks do not overlap needs two things of the requests, as   *)
(* the code does: that a chunk is not larger than a page, and that atoh    *)
(* reads the address of every chunk as it was printed.                     *)
(***************************************************************************)
EXTENDS DynMem, DataLemmas, FiniteSetTheorems, SequenceTheorems

-----------------------------------------------------------------------------
(* The sizes of chunks *)

Sizes == {16, 32, 64, 128, 256, 512, 1024, 2048, 4096, 8192, 16384, 32768, 65536, 131072, 262144, 524288, 1048576, 2097152, 4194304, 8388608, 16777216, 33554432, 67108864, 134217728, 268435456, 536870912, 1073741824}

\* The powers of two from 16 on that an int holds, and that half of one is the
\* one before it.
LEMMA SizesFacts ==
    /\ {16 * 2^i : i \in 0 .. 26} = Sizes
    /\ Sizes \subseteq Nat
    /\ 16 \in Sizes /\ 2^30 \in Sizes /\ 2^30 \in Nat
    /\ \A r \in Sizes : r >= 16
    /\ \A r \in Sizes : r > 16 => r \div 2 \in Sizes
  <1>1. \A i : i \in 0 .. 26 <=> i \in {0, 1, 2, 3, 4, 5, 6, 7, 8, 9, 10, 11, 12, 13,
                                      14, 15, 16, 17, 18, 19, 20, 21, 22, 23, 24, 25, 26}
    OBVIOUS
  <1>2. {16 * 2^i : i \in 0 .. 26} = Sizes
    BY <1>1, SMT DEF Sizes
  <1>3. Sizes \subseteq Nat /\ 16 \in Sizes /\ 2^30 \in Sizes /\ 2^30 \in Nat
    BY SMT DEF Sizes
  <1>4. \A r \in Sizes : r >= 16
    BY SMT DEF Sizes
  <1>5. \A r \in Sizes : r > 16 => r \div 2 \in Sizes
    BY SMT DEF Sizes
  <1> QED
    BY <1>2, <1>3, <1>4, <1>5

\* The shell finds a size for every request, the smallest that is enough.
LEMMA ChunkSizeFacts ==
    ASSUME NEW bytes \in Requests
    PROVE  /\ bytes \in Nat
           /\ ChunkSize(bytes) \in Sizes
           /\ bytes <= ChunkSize(bytes)
           /\ ChunkSize(bytes) > 16 => ChunkSize(bytes) \div 2 < bytes
  <1> DEFINE Enough == {r \in Sizes : bytes <= r}
  <1>1. bytes \in Nat /\ bytes <= 2^30
    <2>1. PICK top \in Nat : top = 2^30
      BY SizesFacts
    <2>2. bytes \in 0 .. top
      BY <2>1, RequestsAssumption
    <2> QED
      BY <2>1, <2>2
  <1>2. Enough \subseteq Nat /\ 2^30 \in Enough
    BY <1>1, SizesFacts
  <1>3. PICK r \in Enough : \A x \in Enough : r <= x
    <2> HIDE DEF Enough
    <2> QED
      BY <1>2, LeastElement
  <1>4. r > 16 => r \div 2 < bytes
    <2> SUFFICES ASSUME r > 16, ~(r \div 2 < bytes) PROVE FALSE
      OBVIOUS
    <2>1. r \in Nat /\ r \div 2 \in Sizes /\ r \div 2 \in Nat
      BY <1>2, SizesFacts
    <2>2. r \div 2 \in Enough
      BY <1>1, <2>1
    <2>3. r <= r \div 2
      BY <1>3, <2>2
    <2> QED
      BY <2>1, <2>3
  <1>5. \E x \in Sizes : bytes <= x /\ (x > 16 => x \div 2 < bytes)
    BY <1>3, <1>4
  <1> QED
    BY <1>1, <1>5, SizesFacts DEF ChunkSize

\* How many chunks a page is cut into.
LEMMA ChunksOfAPage ==
    ASSUME NEW r \in Sizes
    PROVE  /\ Page_Size \div r \in 0 .. 256
           /\ r <= Page_Size => /\ Page_Size \div r >= 1
                                /\ r * (Page_Size \div r) = Page_Size
  <1>1. r \in Nat /\ r >= 16
    BY SizesFacts
  <1>2. CASE r > 4096
    <2>1. 4096 \div r = 0
      BY <1>1, <1>2
    <2> QED
      BY <1>1, <1>2, <2>1 DEF Page_Size
  <1>3. CASE r <= 4096
    <2>1. r \in {16, 32, 64, 128, 256, 512, 1024, 2048, 4096}
      BY <1>3, SMT DEF Sizes
    <2> QED
      BY <2>1 DEF Page_Size
  <1> QED
    BY <1>1, <1>2, <1>3

-----------------------------------------------------------------------------
(* The numbers an address is read as *)

\* What atoh computes, digit by digit.
LEMMA AtohEquation ==
    /\ atoh(0) = 0
    /\ \A n \in Nat \ {0} :
          atoh(n) = 16 * atoh(n \div 16) + (IF n % 16 < 10 THEN n % 16 ELSE (n % 16) + 7)
    /\ \A n \in Nat : atoh(n) \in Nat
  <1> DEFINE digit(n) == IF n % 16 < 10 THEN n % 16 ELSE (n % 16) + 7
             Is(f) == f = [n \in Nat |-> IF n = 0 THEN 0 ELSE 16 * f[n \div 16] + digit(n)]
             c == [n \in Nat |-> n \div 16]
             G == [n \in Nat |-> [x \in Nat |-> 16 * x + digit(n)]]
  <1>1. c \in [Nat -> Nat] /\ \A n \in Nat \ {0} : c[n] < n
    OBVIOUS
  <1>2. \A n \in Nat : digit(n) \in Nat
    OBVIOUS
  <1>3. G \in [Nat -> [Nat -> Nat]]
    BY <1>2
  <1>4. PICK f \in [Nat -> Nat] : f[0] = 0 /\ \A n \in Nat \ {0} : f[n] = G[n][f[c[n]]]
    <2> HIDE DEF c, G
    <2>1. 0 \in Nat /\ Descends(c)
      BY <1>1 DEF Descends
    <2>2. \E f \in [Nat -> Nat] : DefinedBy(f, 0, c, G)
      BY <2>1, <1>3, Recursion
    <2> QED
      BY <2>2 DEF DefinedBy
  <1>5. Is(f)
    <2>1. ASSUME NEW n \in Nat \ {0} PROVE f[n] = 16 * f[n \div 16] + digit(n)
      <3>1. c[n] = n \div 16 /\ n \div 16 \in Nat /\ f[n \div 16] \in Nat
        BY <1>1
      <3> QED
        BY <1>4, <3>1
    <2> HIDE DEF digit
    <2> QED
      BY <1>4, <2>1
  <1> DEFINE value == CHOOSE g : Is(g)
  <1>6. Is(value)
    <2> HIDE DEF Is
    <2> QED
      BY <1>5
  <1>7. \A n \in Nat : atoh(n) = value[n]
    BY DEF atoh
  <1> HIDE DEF value
  <1>8. /\ value[0] = 0
        /\ \A n \in Nat \ {0} : value[n] = 16 * value[n \div 16] + digit(n)
    <2> HIDE DEF digit
    <2> QED
      BY <1>6
  <1>9. \A n \in Nat : value[n] \in Nat
    <2> DEFINE A == {n \in Nat : value[n] \notin Nat}
    <2>1. SUFFICES ASSUME A # {} PROVE FALSE
      OBVIOUS
    <2>2. PICK m \in A : \A x \in A : m <= x
      <3> HIDE DEF A
      <3> QED
        BY <2>1, LeastElement DEF A
    <2>3. m \in Nat \ {0} /\ m \div 16 \in Nat /\ m \div 16 < m
      BY <1>8, <2>2
    <2>4. value[m \div 16] \in Nat
      BY <2>2, <2>3
    <2>5. value[m] = 16 * value[m \div 16] + digit(m) /\ digit(m) \in Nat
      BY <1>2, <1>8, <2>3
    <2> HIDE DEF digit
    <2>6. value[m] \in Nat
      BY <2>4, <2>5
    <2> QED
      BY <2>2, <2>6
  <1>10. \A n \in Nat \ {0} : n \div 16 \in Nat
    OBVIOUS
  <1> QED
    BY <1>7, <1>8, <1>9, <1>10

\* A letter is read too large, but no number as more than twice what it is.
LEMMA AtohBound == \A n \in Nat : n <= atoh(n) /\ atoh(n) <= 2 * n
  <1> DEFINE A == {n \in Nat : ~(n <= atoh(n) /\ atoh(n) <= 2 * n)}
  <1>1. SUFFICES ASSUME A # {} PROVE FALSE
    OBVIOUS
  <1>2. PICK m \in A : \A x \in A : m <= x
    <2> HIDE DEF A
    <2> QED
      BY <1>1, LeastElement DEF A
  <1>3. m \in Nat \ {0}
    BY <1>2, AtohEquation
  <1>4. PICK q \in Nat, d \in 0 .. 15 : q = m \div 16 /\ d = m % 16 /\ m = 16 * q + d /\ q < m
    BY <1>3
  <1>5. q <= atoh(q) /\ atoh(q) <= 2 * q /\ atoh(q) \in Nat
    BY <1>2, <1>3, <1>4, AtohEquation
  <1>6. atoh(m) = 16 * atoh(q) + (IF d < 10 THEN d ELSE d + 7)
    BY <1>3, <1>4, AtohEquation
  <1>7. m <= atoh(m) /\ atoh(m) <= 2 * m
    BY <1>4, <1>5, <1>6
  <1> QED
    BY <1>2, <1>7

\* atoh reads a number as it was printed exactly when no digit of it is a letter:
\* the last one is below ten and the digits before it are read as printed.
THEOREM ReadWithoutLetters ==
    \A n \in Nat \ {0} : atoh(n) = n <=> n % 16 < 10 /\ atoh(n \div 16) = n \div 16
  <1> TAKE n \in Nat \ {0}
  <1>1. PICK q \in Nat, d \in 0 .. 15 : q = n \div 16 /\ d = n % 16 /\ n = 16 * q + d
    OBVIOUS
  <1>2. PICK h \in Nat : h = atoh(q) /\ q <= h
    BY AtohEquation, AtohBound
  <1>3. atoh(n) = 16 * h + (IF d < 10 THEN d ELSE d + 7)
    BY <1>1, <1>2, AtohEquation
  <1> QED
    BY <1>1, <1>2, <1>3

-----------------------------------------------------------------------------
(* The books of the pages *)

Bases == {EmptyString} \cup {PageAddress(p) : p \in Supply}

Node == [chunk_size : Sizes, chunk_num : -1 .. 256, max_chunk : 0 .. 256,
         chunk_mask : SUBSET (0 .. 7), base_addr : Bases]

\* The fields of a page agree with each other.
Agree(node) ==
    /\ node.max_chunk = Page_Size \div node.chunk_size
    /\ node.chunk_num = node.max_chunk - Cardinality(node.chunk_mask)

NodesOK == par_list \in Seq(Node) /\ \A i \in 1 .. Len(par_list) : Agree(par_list[i])

LiveOK == IsABag(live) /\ \A c \in DOMAIN live : c.addr \in Nat /\ c.size \in Nat

\* The inductive invariant behind type and count: no bit above the eighth is ever
\* set, the count of free chunks is what the mask leaves of max_chunk.
Books == NodesOK /\ supply \subseteq Supply /\ LiveOK

\* The addresses of pages, and of the string that stands where no page is, are numbers.
LEMMA AddressFacts ==
    /\ Page_Size \in Nat /\ PAGE_MEMORY_BASE \in Nat /\ EmptyString \in Nat
    /\ \A p \in Supply : PageAddress(p) \in Nat
    /\ Bases \subseteq Nat
  <1>1. Page_Size \in Nat /\ PAGE_MEMORY_BASE \in Nat /\ EmptyString \in Nat
    BY SMT DEF Page_Size, PAGE_MEMORY_BASE, EmptyString
  <1>2. \A p \in Supply : PageAddress(p) \in Nat
    BY <1>1, SupplyAssumption, SMT DEF PageAddress
  <1> QED
    BY <1>1, <1>2 DEF Bases

\* The fields of a dma_node_t, each in its range.
LEMMA NodeFacts ==
    ASSUME NEW node \in Node
    PROVE  /\ node.chunk_size \in Sizes /\ node.chunk_size \in Nat /\ node.chunk_size >= 16
           /\ node.chunk_num \in -1 .. 256 /\ node.max_chunk \in 0 .. 256
           /\ node.chunk_mask \in SUBSET (0 .. 7)
           /\ node.base_addr \in Bases /\ node.base_addr \in Nat
           /\ node = [chunk_size |-> node.chunk_size, chunk_num |-> node.chunk_num,
                      max_chunk |-> node.max_chunk, chunk_mask |-> node.chunk_mask,
                      base_addr |-> node.base_addr]
  <1>1. Sizes \subseteq Nat /\ \A r \in Sizes : r >= 16
    BY SizesFacts
  <1>2. Bases \subseteq Nat
    BY AddressFacts
  <1> QED
    BY <1>1, <1>2 DEF Node

\* The lowest free chunk is one that allOne looks at.
LEMMA LowestFreeFacts ==
    ASSUME NEW mask \in SUBSET (0 .. 7), ~allOne(mask)
    PROVE  /\ LowestFree(mask) \in 0 .. 7
           /\ LowestFree(mask) \notin mask
           /\ 0 .. LowestFree(mask) - 1 \subseteq mask
  <1> DEFINE Free == {i \in 0 .. 7 : i \notin mask}
  <1>1. PICK i \in Free : \A x \in Free : i <= x
    <2>1. Free \subseteq Nat /\ Free # {}
      BY DEF allOne
    <2> HIDE DEF Free
    <2> QED
      BY <2>1, LeastElement
  <1>2. i \in 0 .. 63 /\ i \notin mask /\ (0 .. i - 1) \subseteq mask
    BY <1>1
  <1>3. LowestFree(mask) \in 0 .. 63 /\ LowestFree(mask) \notin mask
        /\ (0 .. LowestFree(mask) - 1) \subseteq mask
    BY <1>2 DEF LowestFree
  <1>4. i \in 0 .. 7 /\ i \notin mask
    BY <1>1
  <1>5. ~(LowestFree(mask) > i)
    BY <1>3, <1>4
  <1> QED
    BY <1>3, <1>4, <1>5

\* A chunk more and a chunk less in a mask.
LEMMA MaskFacts ==
    ASSUME NEW mask \in SUBSET (0 .. 7), NEW b
    PROVE  /\ Cardinality(mask) \in 0 .. 8
           /\ b \notin mask => Cardinality(mask \cup {b}) = Cardinality(mask) + 1
           /\ b \in mask => Cardinality(mask \ {b}) = Cardinality(mask) - 1
           /\ b \in mask => Cardinality(mask) >= 1
           /\ allOne(mask) => Cardinality(mask) = 8
  <1>1. IsFiniteSet(0 .. 7) /\ Cardinality(0 .. 7) = 8
    <2>1. 0 \in Int /\ 7 \in Int
      OBVIOUS
    <2>2. IsFiniteSet(0 .. 7) /\ Cardinality(0 .. 7) = IF 0 > 7 THEN 0 ELSE 7 - 0 + 1
      BY <2>1, FS_Interval
    <2> QED
      BY <2>2
  <1>2. IsFiniteSet(mask) /\ Cardinality(mask) <= 8 /\ Cardinality(mask) \in Nat
    BY <1>1, FS_Subset, FS_CardinalityType
  <1>3. b \notin mask => Cardinality(mask \cup {b}) = Cardinality(mask) + 1
    BY <1>2, FS_AddElement
  <1>4. b \in mask => Cardinality(mask \ {b}) = Cardinality(mask) - 1
    BY <1>2, FS_RemoveElement
  <1>5. b \in mask => Cardinality(mask) # 0
    BY <1>2, FS_EmptySet
  <1>6. allOne(mask) => mask = 0 .. 7
    BY DEF allOne
  <1> QED
    BY <1>1, <1>2, <1>3, <1>4, <1>5, <1>6

\* One chunk of a node handed out, one given back.
LEMMA TakeChunk ==
    ASSUME NEW node \in Node, Agree(node), node.chunk_num > 0,
           NEW b \in 0 .. 7, b \notin node.chunk_mask,
           NEW new, new = [node EXCEPT !.chunk_num = @ - 1, !.chunk_mask = @ \cup {b}]
    PROVE  new \in Node /\ Agree(new)
  <1>1. PICK mask \in SUBSET (0 .. 7) : mask = node.chunk_mask
    BY DEF Node
  <1>2. Cardinality(mask \cup {b}) = Cardinality(mask) + 1 /\ Cardinality(mask) \in Nat
    <2>1. b \notin mask
      BY <1>1
    <2>2. Cardinality(mask \cup {b}) = Cardinality(mask) + 1 /\ Cardinality(mask) \in 0 .. 8
      BY <2>1, MaskFacts
    <2> QED
      BY <2>2
  <1>3. /\ new.chunk_num = node.chunk_num - 1 /\ new.chunk_mask = mask \cup {b}
        /\ new.max_chunk = node.max_chunk /\ new.chunk_size = node.chunk_size
        /\ new.base_addr = node.base_addr
        /\ new = [chunk_size |-> new.chunk_size, chunk_num |-> new.chunk_num,
                  max_chunk |-> new.max_chunk, chunk_mask |-> new.chunk_mask,
                  base_addr |-> new.base_addr]
    BY <1>1 DEF Node
  <1>4. node.max_chunk \in Int /\ node.chunk_num \in Int
    BY DEF Node
  <1>5. Agree(new)
    BY <1>1, <1>2, <1>3, <1>4 DEF Agree
  <1>6. /\ node.chunk_num - 1 \in -1 .. 256 /\ mask \cup {b} \in SUBSET (0 .. 7)
        /\ node.max_chunk \in 0 .. 256 /\ node.chunk_size \in Sizes /\ node.base_addr \in Bases
    BY <1>1 DEF Node
  <1>7. new \in Node
    BY <1>3, <1>6 DEF Node
  <1> QED
    BY <1>5, <1>7

\* dma clears the bit of the chunk it gives, and chunk_num counts it.
LEMMA GiveChunk ==
    ASSUME NEW node \in Node, Agree(node), NEW b,
           NEW new, new = ClearChunk(node, b)
    PROVE  /\ new \in Node /\ Agree(new)
           /\ new.chunk_mask = node.chunk_mask \ {b}
           /\ new.chunk_size = node.chunk_size /\ new.max_chunk = node.max_chunk
           /\ new.base_addr = node.base_addr
  <1>1. CASE b \notin node.chunk_mask
    BY <1>1 DEF ClearChunk
  <1>2. CASE b \in node.chunk_mask
    <2>1. PICK mask \in SUBSET (0 .. 7) : mask = node.chunk_mask
      BY DEF Node
    <2>2. Cardinality(mask \ {b}) = Cardinality(mask) - 1 /\ Cardinality(mask) \in 1 .. 8
      BY <1>2, <2>1, MaskFacts
    <2>3. /\ new.chunk_num = node.chunk_num + 1 /\ new.chunk_mask = mask \ {b}
          /\ new.max_chunk = node.max_chunk /\ new.chunk_size = node.chunk_size
          /\ new.base_addr = node.base_addr
          /\ new = [chunk_size |-> new.chunk_size, chunk_num |-> new.chunk_num,
                    max_chunk |-> new.max_chunk, chunk_mask |-> new.chunk_mask,
                    base_addr |-> new.base_addr]
      BY <1>2, <2>1 DEF Node, ClearChunk
    <2>4. node.max_chunk \in 0 .. 256 /\ node.chunk_num \in -1 .. 256
      BY DEF Node
    <2>5. Agree(new)
      BY <2>1, <2>2, <2>3, <2>4 DEF Agree
    <2>6. /\ node.chunk_num + 1 \in -1 .. 256 /\ mask \ {b} \in SUBSET (0 .. 7)
          /\ node.chunk_size \in Sizes /\ node.base_addr \in Bases
      BY <2>1, <2>2, <2>4 DEF Node, Agree
    <2>7. new \in Node
      BY <2>3, <2>4, <2>6 DEF Node
    <2> QED
      BY <2>1, <2>3, <2>5, <2>7
  <1> QED
    BY <1>1, <1>2

\* A node of par_list put in the place of another, or behind the last.
LEMMA NodePut ==
    ASSUME NodesOK, NEW i \in 1 .. Len(par_list), NEW node \in Node, Agree(node),
           par_list' = [par_list EXCEPT ![i] = node]
    PROVE  NodesOK' /\ Len(par_list') = Len(par_list)
  <1>1. par_list' \in Seq(Node) /\ Len(par_list') = Len(par_list)
    BY ExceptSeq DEF NodesOK
  <1>2. ASSUME NEW j \in 1 .. Len(par_list) PROVE Agree(par_list'[j])
    BY DEF NodesOK
  <1>3. \A j \in 1 .. Len(par_list') : Agree(par_list'[j])
    BY <1>1, <1>2
  <1> QED
    BY <1>1, <1>3 DEF NodesOK, Agree

\* A node that dma appends to par_list leaves the others as they are.
LEMMA NodeAppended ==
    ASSUME NodesOK, NEW node \in Node, Agree(node), par_list' = Append(par_list, node)
    PROVE  NodesOK'
  <1>1. par_list' \in Seq(Node) /\ Len(par_list') = Len(par_list) + 1
    BY AppendProperties DEF NodesOK
  <1>2. ASSUME NEW j \in 1 .. Len(par_list) + 1 PROVE Agree(par_list'[j])
    BY AppendProperties DEF NodesOK
  <1> QED
    BY <1>1, <1>2 DEF NodesOK, Agree

-----------------------------------------------------------------------------
(* The steps keep the books *)

\* A chunk that is printed becomes held.
LEMMA LiveAdded ==
    ASSUME LiveOK, NEW c, c.addr \in Nat, c.size \in Nat,
           live' = live (+) SetToBag({c})
    PROVE  /\ LiveOK'
           /\ DOMAIN live' = DOMAIN live \cup {c}
           /\ live'[c] = IF c \in DOMAIN live THEN live[c] + 1 ELSE 1
           /\ \A d \in DOMAIN live : d # c => live'[d] = live[d]
  <1>1. /\ DOMAIN live' = DOMAIN live \cup {c}
        /\ \A d \in DOMAIN live' : live'[d] = (IF d \in DOMAIN live THEN live[d] ELSE 0)
                                                + (IF d = c THEN 1 ELSE 0)
        /\ live' = [d \in DOMAIN live' |-> live'[d]]
    BY DEF SetToBag, (+)
  <1>2. \A d \in DOMAIN live : live[d] \in Nat /\ live[d] > 0
    BY DEF LiveOK, IsABag
  <1>3. \A d \in DOMAIN live' : live'[d] \in Nat /\ live'[d] > 0
    BY <1>1, <1>2
  <1>4. LiveOK'
    BY <1>1, <1>3 DEF LiveOK, IsABag
  <1> QED
    BY <1>1, <1>2, <1>4

\* Before the first call there is no node and nothing is lent.
LEMMA BooksInit == Init => Books
  <1> SUFFICES ASSUME Init PROVE Books
    OBVIOUS
  <1>1. par_list = <<>> /\ supply = Supply /\ live = EmptyBag
    BY DEF Init
  <1>2. LiveOK
    BY <1>1 DEF LiveOK, IsABag, EmptyBag, SetToBag
  <1>3. NodesOK
    BY <1>1 DEF NodesOK
  <1> QED
    BY <1>1, <1>2, <1>3 DEF Books

\* What DmaReuse does: the page i, its lowest free chunk, and the node afterwards.
LEMMA ReuseEffect ==
    ASSUME Books, NEW bytes \in Requests, DmaReuse(bytes)
    PROVE  \E i \in 1 .. Len(par_list), b \in 0 .. 7 :
              LET node == par_list[i]
                  new  == [node EXCEPT !.chunk_num = @ - 1, !.chunk_mask = @ \cup {b}]
              IN  /\ node \in Node /\ Agree(node)
                  /\ node.chunk_size = ChunkSize(bytes)
                  /\ node.chunk_num > 0
                  /\ b \notin node.chunk_mask /\ 0 .. b - 1 \subseteq node.chunk_mask
                  /\ new \in Node /\ Agree(new)
                  /\ par_list' = [par_list EXCEPT ![i] = new]
                  /\ live' = live (+) SetToBag(
                        {Chunk(node.base_addr + b * node.chunk_size, node.chunk_size)})
                  /\ supply' = supply
  <1> DEFINE nodes == {i \in 1 .. Len(par_list) : Reusable(par_list[i], ChunkSize(bytes))}
             i == Min(nodes)
             b == LowestFree(par_list[i].chunk_mask)
             node == par_list[i]
             new  == [node EXCEPT !.chunk_num = @ - 1, !.chunk_mask = @ \cup {b}]
  <1>1. nodes # {} /\ nodes \in SUBSET Nat
    BY DEF DmaReuse
  <1>2. i \in nodes
    <2> HIDE DEF nodes
    <2> QED
      BY <1>1, MinFacts
  <1>3. i \in 1 .. Len(par_list) /\ Reusable(node, ChunkSize(bytes))
    <2> HIDE DEF i
    <2> QED
      BY <1>2
  <1>4. /\ par_list' = [par_list EXCEPT ![i].chunk_num = @ - 1, ![i].chunk_mask = @ \cup {b}]
        /\ live' = live (+) SetToBag({Chunk(node.base_addr + b * ChunkSize(bytes), ChunkSize(bytes))})
        /\ supply' = supply
    BY DEF DmaReuse
  <1> HIDE DEF i
  <1>5. node \in Node /\ Agree(node)
    BY <1>3 DEF Books, NodesOK
  <1>6. /\ node.chunk_size = ChunkSize(bytes) /\ node.chunk_num > 0 /\ ~allOne(node.chunk_mask)
    BY <1>3 DEF Reusable
  <1>7. b \in 0 .. 7 /\ b \notin node.chunk_mask /\ 0 .. b - 1 \subseteq node.chunk_mask
    BY <1>5, <1>6, LowestFreeFacts DEF Node
  <1> HIDE DEF b
  <1>8. par_list' = [par_list EXCEPT ![i] = new]
    BY <1>3, <1>4, <1>5 DEF Books, NodesOK, Node
  <1>9. new \in Node /\ Agree(new)
    <2> HIDE DEF node
    <2> QED
      BY <1>5, <1>6, <1>7, TakeChunk
  <1>11. live' = live (+) SetToBag({Chunk(node.base_addr + b * node.chunk_size, node.chunk_size)})
    BY <1>4, <1>6
  <1> HIDE DEF new, node
  <1> QED
    BY <1>3, <1>4, <1>5, <1>6, <1>7, <1>8, <1>9, <1>11 DEF node, new

\* dma of a chunk from a page that it has keeps the books.
LEMMA ReuseKeepsBooks ==
    ASSUME Books, NEW bytes \in Requests, DmaReuse(bytes)
    PROVE  Books'
  <1>1. PICK i \in 1 .. Len(par_list), b \in 0 .. 7, node \in Node, new \in Node :
              /\ node = par_list[i]
              /\ Agree(new)
              /\ par_list' = [par_list EXCEPT ![i] = new]
              /\ live' = live (+) SetToBag(
                        {Chunk(node.base_addr + b * node.chunk_size, node.chunk_size)})
              /\ supply' = supply
    BY ReuseEffect
  <1>2. NodesOK'
    BY <1>1, NodePut DEF Books
  <1>3. PICK c : c = Chunk(node.base_addr + b * node.chunk_size, node.chunk_size)
    OBVIOUS
  <1>4. c.addr \in Nat /\ c.size \in Nat
    <2>1. node.chunk_size \in Nat /\ node.base_addr \in Nat /\ b \in Nat
      <3>1. node.chunk_size \in Nat /\ node.base_addr \in Nat
        BY <1>1, NodeFacts
      <3> QED
        BY <3>1
    <2>2. b * node.chunk_size \in Nat
      BY <2>1
    <2> QED
      BY <1>3, <2>1, <2>2 DEF Chunk
  <1>5. LiveOK'
    BY <1>1, <1>3, <1>4, LiveAdded DEF Books
  <1> QED
    BY <1>1, <1>2, <1>5 DEF Books

\* What DmaNewPage does: the address of the new page and the node behind the last.
LEMMA NewPageEffect ==
    ASSUME Books, NEW bytes \in Requests, DmaNewPage(bytes)
    PROVE  \E addr \in Bases, node \in Node :
              /\ Agree(node)
              /\ node.base_addr = addr /\ node.chunk_size = ChunkSize(bytes)
              /\ node.chunk_mask = {0}
              /\ par_list' = Append(par_list, node)
              /\ live' = live (+) SetToBag({Chunk(addr, node.chunk_size)})
              /\ supply' \subseteq supply
              /\ \/ addr = EmptyString /\ supply' = supply
                 \/ \E p \in supply : addr = PageAddress(p) /\ supply' = supply \ {p}
  <1>1. PICK addr \in {EmptyString} \cup {PageAddress(p) : p \in supply} :
              /\ AllocPage(addr)
              /\ par_list' = Append(par_list,
                     [chunk_size |-> ChunkSize(bytes),
                      chunk_num  |-> Page_Size \div ChunkSize(bytes) - 1,
                      max_chunk  |-> Page_Size \div ChunkSize(bytes),
                      chunk_mask |-> {0},
                      base_addr  |-> addr])
              /\ live' = live (+) SetToBag({Chunk(addr, ChunkSize(bytes))})
    BY DEF DmaNewPage
  <1>2. addr \in Bases
    BY DEF Bases, Books
  <1>3. PICK r \in Sizes, max \in 0 .. 256 : r = ChunkSize(bytes) /\ max = Page_Size \div r
    BY ChunkSizeFacts, ChunksOfAPage
  <1> DEFINE node == [chunk_size |-> r, chunk_num |-> max - 1, max_chunk |-> max,
                      chunk_mask |-> {0}, base_addr |-> addr]
  <1>4. node \in Node
    BY <1>2, <1>3 DEF Node
  <1>5. Agree(node)
    <2>1. Cardinality({0}) = 1
      BY FS_Singleton
    <2> QED
      BY <1>3, <2>1 DEF Agree
  <1>6. /\ supply' \subseteq supply
        /\ \/ addr = EmptyString /\ supply' = supply
           \/ \E p \in supply : addr = PageAddress(p) /\ supply' = supply \ {p}
    BY <1>1 DEF AllocPage
  <1>7. /\ node.base_addr = addr /\ node.chunk_size = ChunkSize(bytes) /\ node.chunk_mask = {0}
        /\ par_list' = Append(par_list, node)
        /\ live' = live (+) SetToBag({Chunk(addr, node.chunk_size)})
    BY <1>1, <1>3
  <1> HIDE DEF node
  <1> QED
    BY <1>2, <1>4, <1>5, <1>6, <1>7

\* dma that takes a page from the buddy system keeps the books.
LEMMA NewPageKeepsBooks ==
    ASSUME Books, NEW bytes \in Requests, DmaNewPage(bytes)
    PROVE  Books'
  <1>1. PICK addr \in Bases, node \in Node :
              /\ Agree(node)
              /\ node.base_addr = addr
              /\ par_list' = Append(par_list, node)
              /\ live' = live (+) SetToBag({Chunk(addr, node.chunk_size)})
              /\ supply' \subseteq supply
    BY NewPageEffect
  <1>2. NodesOK'
    BY <1>1, NodeAppended DEF Books
  <1>3. PICK c : c = Chunk(addr, node.chunk_size)
    OBVIOUS
  <1>4. c.addr \in Nat /\ c.size \in Nat
    BY <1>1, <1>3, AddressFacts, SizesFacts DEF Chunk, Node
  <1>5. LiveOK'
    BY <1>1, <1>3, <1>4, LiveAdded DEF Books
  <1> QED
    BY <1>1, <1>2, <1>5 DEF Books

\* What Fdma does: nothing, or the bit of one page is cleared.
LEMMA FdmaEffect ==
    ASSUME Books, NEW a \in Nat, Fdma(a)
    PROVE  /\ live' = Restrict(live, {c \in DOMAIN live : c.addr # a})
           /\ supply' = supply
           /\ \/ /\ par_list' = par_list
                 /\ \A i \in 1 .. Len(par_list) :
                       par_list[i].base_addr # atoh(a) - (atoh(a) % Page_Size)
              \/ \E i \in 1 .. Len(par_list), b \in 0 .. 31 :
                    /\ par_list[i].base_addr = atoh(a) - (atoh(a) % Page_Size)
                    /\ b = ((atoh(a) - par_list[i].base_addr) \div par_list[i].chunk_size) % 32
                    /\ par_list' = [par_list EXCEPT ![i] = ClearChunk(par_list[i], b)]
  <1> DEFINE base == atoh(a) - (atoh(a) % Page_Size)
             nodes == {i \in 1 .. Len(par_list) : par_list[i].base_addr = base}
             i == Min(nodes)
             idx == (atoh(a) - par_list[i].base_addr) \div par_list[i].chunk_size
  <1>1. live' = Restrict(live, {c \in DOMAIN live : c.addr # a}) /\ supply' = supply
    BY DEF Fdma
  <1>2. CASE nodes = {}
    BY <1>1, <1>2 DEF Fdma
  <1>3. CASE nodes # {}
    <2>1. i \in nodes
      <3>1. nodes \in SUBSET Nat
        OBVIOUS
      <3> HIDE DEF nodes
      <3> QED
        BY <1>3, <3>1, MinFacts
    <2>2. par_list' = [par_list EXCEPT ![i] = ClearChunk(par_list[i], idx % 32)]
      BY <1>3 DEF Fdma
    <2> HIDE DEF i
    <2>3. i \in 1 .. Len(par_list) /\ par_list[i].base_addr = base
      BY <2>1
    <2>4. idx % 32 \in 0 .. 31
      <3>1. par_list[i] \in Node
        BY <2>3 DEF Books, NodesOK
      <3>2. PICK h \in Nat, m \in Nat, r \in Nat : /\ h = atoh(a) /\ m = par_list[i].base_addr
                                                   /\ r = par_list[i].chunk_size /\ r >= 16
        BY <3>1, AtohEquation, AddressFacts, SizesFacts DEF Node
      <3>3. PICK k \in Int : k = (h - m) \div r
        BY <3>2
      <3>4. k % 32 \in 0 .. 31
        OBVIOUS
      <3> QED
        BY <3>2, <3>3, <3>4
    <2> QED
      BY <1>1, <2>2, <2>3, <2>4
  <1> QED
    BY <1>2, <1>3

\* Chunks given back, and all others still held as before.
LEMMA LiveRemoved ==
    ASSUME LiveOK, NEW a, live' = Restrict(live, {c \in DOMAIN live : c.addr # a})
    PROVE  /\ LiveOK'
           /\ DOMAIN live' = {c \in DOMAIN live : c.addr # a}
           /\ \A c \in DOMAIN live' : live'[c] = live[c]
  BY DEF LiveOK, IsABag, Restrict

\* fdma keeps the books, whatever address it gets.
LEMMA FdmaKeepsBooks ==
    ASSUME Books, NEW a \in Nat, Fdma(a)
    PROVE  Books'
  <1>1. NodesOK'
    <2>1. CASE par_list' = par_list
      BY <2>1 DEF Books, NodesOK, Agree
    <2>2. CASE par_list' # par_list
      <3>1. PICK i \in 1 .. Len(par_list), b \in 0 .. 31 :
                par_list' = [par_list EXCEPT ![i] = ClearChunk(par_list[i], b)]
        BY <2>2, FdmaEffect
      <3>2. par_list[i] \in Node /\ Agree(par_list[i])
        BY DEF Books, NodesOK
      <3>3. ClearChunk(par_list[i], b) \in Node /\ Agree(ClearChunk(par_list[i], b))
        BY <3>2, GiveChunk
      <3> QED
        BY <3>1, <3>3, NodePut DEF Books
    <2> QED
      BY <2>1, <2>2
  <1>2. LiveOK' /\ supply' = supply
    BY FdmaEffect, LiveRemoved DEF Books
  <1> QED
    BY <1>1, <1>2 DEF Books

\* The addresses typed after fdma are numbers.
LEMMA ChunkAddressesFacts ==
    ASSUME Books, NEW a \in ChunkAddresses
    PROVE  /\ a \in Nat
           /\ \E i \in 1 .. Len(par_list), n \in 0 .. 7 :
                 /\ n < par_list[i].max_chunk
                 /\ a = par_list[i].base_addr + n * par_list[i].chunk_size
  <1>1. PICK i \in 1 .. Len(par_list) :
              /\ par_list[i].max_chunk > 0
              /\ \E n \in 0 .. Min({7, par_list[i].max_chunk - 1}) :
                    a = par_list[i].base_addr + n * par_list[i].chunk_size
    BY DEF ChunkAddresses
  <1>2. PICK max, r, base \in Nat : /\ max = par_list[i].max_chunk /\ r = par_list[i].chunk_size
                                    /\ base = par_list[i].base_addr
    <2>1. par_list[i] \in Node
      BY DEF Books, NodesOK
    <2>2. /\ par_list[i].max_chunk \in Nat /\ par_list[i].chunk_size \in Nat
          /\ par_list[i].base_addr \in Nat
      <3>1. PICK node \in Node : node = par_list[i]
        BY <2>1
      <3>2. node.max_chunk \in Nat /\ node.chunk_size \in Nat /\ node.base_addr \in Nat
        <4>1. PICK m \in 0 .. 256 : m = node.max_chunk
          BY NodeFacts
        <4>2. m \in Nat
          OBVIOUS
        <4> QED
          BY <4>1, <4>2, NodeFacts, Zenon
      <3> QED
        BY <3>1, <3>2
    <2> QED
      BY <2>2
  <1>3. Min({7, max - 1}) \in Nat /\ Min({7, max - 1}) <= 7 /\ Min({7, max - 1}) <= max - 1
    <2>1. {7, max - 1} \in SUBSET Nat /\ {7, max - 1} # {}
      BY <1>1, <1>2
    <2>2. Min({7, max - 1}) \in {7, max - 1} /\ \A x \in {7, max - 1} : Min({7, max - 1}) <= x
      BY <2>1, MinFacts
    <2> QED
      BY <2>1, <2>2
  <1>4. PICK n \in 0 .. Min({7, max - 1}) : a = base + n * r
    BY <1>1, <1>2
  <1>5. n \in 0 .. 7 /\ n < max /\ n \in Nat
    BY <1>3, <1>4, <1>2
  <1>6. n * r \in Nat
    BY <1>2, <1>5
  <1>7. a \in Nat
    BY <1>4, <1>6
  <1>8. n < par_list[i].max_chunk /\ a = par_list[i].base_addr + n * par_list[i].chunk_size
    BY <1>2, <1>4, <1>5
  <1> QED
    BY <1>5, <1>7, <1>8

\* Every call keeps the books.
LEMMA BooksNext == Books /\ [Next]_vars => Books'
  <1> SUFFICES ASSUME Books, [Next]_vars PROVE Books'
    OBVIOUS
  <1>1. ASSUME NEW bytes \in Requests, DmaReuse(bytes) PROVE Books'
    BY <1>1, ReuseKeepsBooks
  <1>2. ASSUME NEW bytes \in Requests, DmaNewPage(bytes) PROVE Books'
    BY <1>2, NewPageKeepsBooks
  <1>3. ASSUME NEW a \in ChunkAddresses, Fdma(a) PROVE Books'
    BY <1>3, FdmaKeepsBooks, ChunkAddressesFacts
  <1>4. CASE UNCHANGED vars
    BY <1>4 DEF vars, Books, NodesOK, Agree, LiveOK, IsABag
  <1> QED
    BY <1>1, <1>2, <1>3, <1>4 DEF Next

\* The books are in order in every state that dma and fdma reach.
THEOREM BooksInvariant == Spec => []Books
  <1>1. Init => Books
    BY BooksInit
  <1>2. Books /\ [Next]_vars => Books'
    BY BooksNext
  <1> QED
    BY <1>1, <1>2, PTL DEF Spec

\* The variables keep their types for any requests: no bit of chunk_mask is set that
\* a long long has not, and chunk_num stays between -1 and 256.
THEOREM TypeCorrect == Spec => []TypeOK
  <1>1. Books => TypeOK
    <2> SUFFICES ASSUME Books PROVE TypeOK
      OBVIOUS
    <2> DEFINE Wide == [chunk_size : Nat, chunk_num : -1 .. 256, max_chunk : Nat,
                        chunk_mask : SUBSET (0 .. 63), base_addr : Nat]
    <2>1. Node \subseteq Wide
      <3> SUFFICES ASSUME NEW node \in Node PROVE node \in Wide
        OBVIOUS
      <3> QED
        BY NodeFacts
    <2>2. par_list \in Seq(Wide)
      <3> HIDE DEF Wide
      <3>1. par_list \in Seq(Node) /\ \A i \in 1 .. Len(par_list) : par_list[i] \in Wide
        BY <2>1 DEF Books, NodesOK
      <3> QED
        BY <3>1
    <2> QED
      BY <2>2 DEF TypeOK, Books, LiveOK
  <1> QED
    BY <1>1, BooksInvariant, PTL

\* The count of free chunks and the mask of a page agree after any calls of dma and
\* fdma, with any addresses.
THEOREM CountExact == Spec => []ChunkCountExact
  <1>1. Books => ChunkCountExact
    BY DEF Books, NodesOK, Agree, ChunkCountExact
  <1> QED
    BY <1>1, BooksInvariant, PTL

\* A page that the search passes over has all chunks out that its mask can count.
LEMMA UsedUp ==
    ASSUME NEW node \in Node, Agree(node), ~Reusable(node, node.chunk_size)
    PROVE  Cardinality(node.chunk_mask) >= Min({8, node.max_chunk})
  <1>1. PICK mask \in SUBSET (0 .. 7), max \in 0 .. 256, num \in -1 .. 256 :
            mask = node.chunk_mask /\ max = node.max_chunk /\ num = node.chunk_num
    BY NodeFacts
  <1>2. ~(num > 0) \/ allOne(mask)
    BY <1>1 DEF Reusable
  <1>3. Cardinality(mask) \in 0 .. 8 /\ (allOne(mask) => Cardinality(mask) = 8)
    BY MaskFacts
  <1>4. num = max - Cardinality(mask)
    BY <1>1 DEF Agree
  <1>5. Min({8, max}) <= 8 /\ Min({8, max}) <= max /\ Min({8, max}) \in Nat
    <2>1. {8, max} \in SUBSET Nat /\ {8, max} # {}
      OBVIOUS
    <2>2. Min({8, max}) \in {8, max} /\ \A x \in {8, max} : Min({8, max}) <= x
      BY <2>1, MinFacts
    <2> QED
      BY <2>1, <2>2
  <1>6. Cardinality(mask) >= Min({8, max})
    <2>1. CASE allOne(mask)
      BY <1>3, <1>5, <2>1
    <2>2. CASE ~(num > 0)
      BY <1>3, <1>4, <1>5, <2>2
    <2> QED
      BY <1>2, <2>1, <2>2
  <1> QED
    BY <1>1, <1>6

\* A new page is cut only when every page of that chunk size is full as far as its
\* mask reaches.
THEOREM PagesUsedUp == Spec => NoNeedlessPage
  <1>1. Books /\ [Next]_vars =>
            (Len(par_list') > Len(par_list) =>
               LET size == par_list'[Len(par_list')].chunk_size
               IN  \A i \in 1 .. Len(par_list) :
                      par_list[i].chunk_size = size =>
                         Cardinality(par_list[i].chunk_mask)
                            >= Min({8, par_list[i].max_chunk}))
    <2> SUFFICES ASSUME Books, [Next]_vars, Len(par_list') > Len(par_list),
                        NEW i \in 1 .. Len(par_list),
                        par_list[i].chunk_size = par_list'[Len(par_list')].chunk_size
                 PROVE  Cardinality(par_list[i].chunk_mask) >= Min({8, par_list[i].max_chunk})
      OBVIOUS
    <2>0. Len(par_list) \in Nat /\ par_list \in Seq(Node)
      BY DEF Books, NodesOK
    <2>1. ASSUME NEW bytes \in Requests, DmaReuse(bytes) PROVE FALSE
      <3>1. PICK j \in 1 .. Len(par_list), new \in Node : par_list' = [par_list EXCEPT ![j] = new]
        BY <2>1, ReuseEffect
      <3> QED
        BY <2>0, <3>1, ExceptSeq
    <2>2. ASSUME NEW a \in ChunkAddresses, Fdma(a) PROVE FALSE
      <3>1. \/ par_list' = par_list
            \/ \E j \in 1 .. Len(par_list), b \in 0 .. 31 :
                  par_list' = [par_list EXCEPT ![j] = ClearChunk(par_list[j], b)]
        BY <2>2, FdmaEffect, ChunkAddressesFacts
      <3>2. Len(par_list') = Len(par_list)
        BY <2>0, <3>1
      <3> QED
        BY <2>0, <3>2
    <2>3. CASE UNCHANGED vars
      BY <2>0, <2>3 DEF vars
    <2>4. ASSUME NEW bytes \in Requests, DmaNewPage(bytes)
          PROVE  Cardinality(par_list[i].chunk_mask) >= Min({8, par_list[i].max_chunk})
      <3>1. par_list'[Len(par_list')].chunk_size = ChunkSize(bytes)
        <4>1. PICK node \in Node : node.chunk_size = ChunkSize(bytes) /\ par_list' = Append(par_list, node)
          BY <2>4, NewPageEffect
        <4>2. Len(par_list') = Len(par_list) + 1 /\ par_list'[Len(par_list) + 1] = node
          BY <2>0, <4>1, AppendProperties
        <4> QED
          BY <4>1, <4>2
      <3>2. ~Reusable(par_list[i], ChunkSize(bytes))
        BY <2>4 DEF DmaNewPage
      <3>3. PICK node \in Node : node = par_list[i] /\ Agree(node)
        BY DEF Books, NodesOK
      <3>4. ~Reusable(node, node.chunk_size)
        BY <3>1, <3>2, <3>3
      <3> QED
        BY <3>3, <3>4, UsedUp
    <2> QED
      BY <2>1, <2>2, <2>3, <2>4 DEF Next
  <1> QED
    BY <1>1, BooksInvariant, PTL DEF Spec, NoNeedlessPage

-----------------------------------------------------------------------------
(* Which chunks are held *)

Nodes == 1 .. Len(par_list)
Paged(i) == par_list[i].base_addr >= PAGE_MEMORY_BASE
ChunkOf(i, b) ==
    Chunk(par_list[i].base_addr + b * par_list[i].chunk_size, par_list[i].chunk_size)

SizesAsked == \A i \in Nodes : \E bytes \in Requests : par_list[i].chunk_size = ChunkSize(bytes)

\* A page of the page memory belongs to one node and is not left to hand out.
PagesOwned ==
    \A i \in Nodes : Paged(i) =>
        /\ \E p \in Supply \ supply : par_list[i].base_addr = PageAddress(p)
        /\ \A j \in Nodes : par_list[j].base_addr = par_list[i].base_addr => j = i

HeldIsMarked ==
    \A c \in DOMAIN live : InPageMemory(c) =>
        /\ live[c] = 1
        /\ \E i \in Nodes : Paged(i) /\ \E b \in par_list[i].chunk_mask : c = ChunkOf(i, b)

MarkedAreHeld ==
    \A i \in Nodes : Paged(i) => \A b \in par_list[i].chunk_mask : ChunkOf(i, b) \in DOMAIN live

\* The inductive invariant behind BitsInPage, for which addresses may be misread.
Sized == Books /\ SizesAsked /\ BitsInPage

\* The inductive invariant behind LiveDisjoint and MarkedIsHeld.
Exclusive == /\ Sized
             /\ PagesOwned
             /\ HeldIsMarked
             /\ MarkedAreHeld

\* The page memory lies at a multiple of the page size, "" below it at none.
LEMMA PlaceFacts ==
    /\ Page_Size \in Nat \ {0}
    /\ PAGE_MEMORY_BASE \in Nat
    /\ EmptyString \in Nat /\ EmptyString % Page_Size # 0
    /\ 2 * (EmptyString + Page_Size) < PAGE_MEMORY_BASE
    /\ \A p \in Supply : /\ PageAddress(p) \in Nat /\ PageAddress(p) >= PAGE_MEMORY_BASE
                         /\ \A o \in 0 .. Page_Size - 1 : (PageAddress(p) + o) % Page_Size = o
    /\ \A p, q \in Supply : p < q => PageAddress(p) + Page_Size <= PageAddress(q)
  <1>1. /\ Page_Size \in Nat \ {0} /\ PAGE_MEMORY_BASE \in Nat /\ EmptyString \in Nat
        /\ EmptyString % Page_Size # 0 /\ 2 * (EmptyString + Page_Size) < PAGE_MEMORY_BASE
    BY SMT DEF Page_Size, PAGE_MEMORY_BASE, EmptyString
  <1>2. ASSUME NEW p \in Supply
        PROVE  /\ PageAddress(p) \in Nat /\ PageAddress(p) >= PAGE_MEMORY_BASE
               /\ \A o \in 0 .. Page_Size - 1 : (PageAddress(p) + o) % Page_Size = o
    <2>1. p \in Nat
      BY SupplyAssumption
    <2> QED
      BY <2>1, SMT DEF PageAddress, PAGE_MEMORY_BASE, Page_Size
  <1>3. ASSUME NEW p \in Supply, NEW q \in Supply, p < q
        PROVE  PageAddress(p) + Page_Size <= PageAddress(q)
    <2>1. p \in Nat /\ q \in Nat
      BY SupplyAssumption
    <2> QED
      BY <1>3, <2>1, SMT DEF PageAddress, PAGE_MEMORY_BASE, Page_Size
  <1> QED
    BY <1>1, <1>2, <1>3

\* b chunks of one size lie before the chunk b, and all of a page lie in it.
LEMMA OffsetFacts ==
    ASSUME NEW r \in Sizes, r <= Page_Size, NEW b \in Nat, b < Page_Size \div r
    PROVE  /\ b * r \in Nat /\ b * r + r <= Page_Size
           /\ (b * r) \div r = b
           /\ \A d \in Nat : b < d => b * r + r <= d * r
  <1>1. r \in {16, 32, 64, 128, 256, 512, 1024, 2048, 4096}
    BY SMT DEF Sizes, Page_Size
  <1>2. ASSUME NEW k \in {16, 32, 64, 128, 256, 512, 1024, 2048, 4096}, b < 4096 \div k
        PROVE  /\ b * k \in Nat /\ b * k + k <= 4096 /\ (b * k) \div k = b
               /\ \A d \in Nat : b < d => b * k + k <= d * k
    BY <1>2, SMT
  <1> QED
    BY <1>1, <1>2 DEF Page_Size

\* A request that fits in a page gets chunks of which a page has one at least.
LEMMA AskedSizes ==
    ASSUME FitInPage, NEW bytes \in Requests
    PROVE  /\ ChunkSize(bytes) \in Sizes /\ ChunkSize(bytes) <= Page_Size
           /\ Page_Size \div ChunkSize(bytes) >= 1
  <1>1. PICK r \in Sizes : r = ChunkSize(bytes) /\ bytes <= r /\ (r > 16 => r \div 2 < bytes)
    BY ChunkSizeFacts
  <1>2. bytes \in Nat /\ bytes <= 4096
    <2>1. bytes <= Page_Size
      BY DEF FitInPage
    <2> QED
      BY <2>1, ChunkSizeFacts DEF Page_Size
  <1>3. r <= 4096
    BY <1>1, <1>2, SMT DEF Sizes
  <1> QED
    BY <1>1, <1>3, ChunksOfAPage DEF Page_Size

-----------------------------------------------------------------------------
(* Two chunks of the page memory do not overlap *)

\* With chunks that fit in a page, a node has as many of them as the page has room for.
LEMMA SlotFacts ==
    ASSUME Books, FitInPage, SizesAsked, NEW i \in Nodes
    PROVE  /\ par_list[i] \in Node /\ Agree(par_list[i])
           /\ par_list[i].chunk_size \in Sizes /\ par_list[i].chunk_size \in Nat
           /\ par_list[i].chunk_size >= 16 /\ par_list[i].chunk_size <= Page_Size
           /\ par_list[i].max_chunk = Page_Size \div par_list[i].chunk_size
           /\ par_list[i].max_chunk \in 1 .. 256
           /\ par_list[i].base_addr \in Nat
           /\ par_list[i].base_addr = EmptyString
                \/ \E p \in Supply : par_list[i].base_addr = PageAddress(p)
  <1>1. PICK node \in Node : node = par_list[i] /\ Agree(node)
    BY DEF Books, NodesOK, Nodes
  <1>2. node.chunk_size \in Sizes /\ node.chunk_size <= Page_Size /\ Page_Size \div node.chunk_size >= 1
    <2>1. PICK bytes \in Requests : node.chunk_size = ChunkSize(bytes)
      BY <1>1 DEF SizesAsked
    <2> QED
      BY <2>1, AskedSizes
  <1>3. node.max_chunk = Page_Size \div node.chunk_size
    BY <1>1 DEF Agree
  <1>4. PICK m \in 0 .. 256 : m = node.max_chunk
    BY NodeFacts
  <1>5. m \in 1 .. 256
    BY <1>2, <1>3, <1>4
  <1>6. node.chunk_size \in Nat /\ node.chunk_size >= 16 /\ node.base_addr \in Nat /\ node.base_addr \in Bases
    BY NodeFacts
  <1>7. node.base_addr = EmptyString \/ \E p \in Supply : node.base_addr = PageAddress(p)
    BY <1>6 DEF Bases
  <1> QED
    BY <1>1, <1>2, <1>3, <1>4, <1>5, <1>6, <1>7

\* The chunk b of node i: chunks of r bytes in the page at base, o bytes before it.
Slot(i, b, base, r, o) ==
    /\ base = par_list[i].base_addr /\ r = par_list[i].chunk_size
    /\ r >= 16
    /\ o = b * r /\ o + r <= Page_Size /\ o \div r = b
    /\ \A d \in Nat : b < d => o + r <= d * r
    /\ ChunkOf(i, b).addr = base + o /\ ChunkOf(i, b).size = r

\* The address of a chunk, which lies in its page.
LEMMA SlotPlace ==
    ASSUME Books, FitInPage, SizesAsked, NEW i \in Nodes,
           NEW b \in Nat, b < par_list[i].max_chunk
    PROVE  \E base \in Nat, r \in Nat, o \in Nat : Slot(i, b, base, r, o)
  <1>1. PICK base \in Nat, r \in Sizes : /\ base = par_list[i].base_addr
                                         /\ r = par_list[i].chunk_size
                                         /\ r \in Nat /\ r >= 16 /\ r <= Page_Size
                                         /\ b < Page_Size \div r
    BY SlotFacts
  <1>2. PICK o \in Nat : o = b * r /\ o + r <= Page_Size /\ o \div r = b
                            /\ \A d \in Nat : b < d => o + r <= d * r
    BY <1>1, OffsetFacts
  <1>3. ChunkOf(i, b).addr = base + o /\ ChunkOf(i, b).size = r
    BY <1>1, <1>2 DEF ChunkOf, Chunk
  <1>4. Slot(i, b, base, r, o)
    BY <1>1, <1>2, <1>3 DEF Slot
  <1> QED
    BY <1>1, <1>4

Apart(c, e) == c.addr + c.size <= e.addr \/ e.addr + e.size <= c.addr

\* Different chunks of the page memory do not overlap.
LEMMA SlotsApart ==
    ASSUME Books, FitInPage, SizesAsked, PagesOwned,
           NEW i \in Nodes, NEW j \in Nodes, Paged(i), Paged(j),
           NEW b \in Nat, NEW d \in Nat, b < par_list[i].max_chunk, d < par_list[j].max_chunk,
           ~(i = j /\ b = d)
    PROVE  /\ Apart(ChunkOf(i, b), ChunkOf(j, d))
           /\ ChunkOf(i, b).addr # ChunkOf(j, d).addr
  <1>b. PICK base1 \in Nat, r1 \in Nat, o1 \in Nat : Slot(i, b, base1, r1, o1)
    BY SlotPlace
  <1>a. PICK base2 \in Nat, r2 \in Nat, o2 \in Nat : Slot(j, d, base2, r2, o2)
    BY SlotPlace
  <1>1. /\ base1 = par_list[i].base_addr /\ r1 = par_list[i].chunk_size
        /\ r1 >= 16 /\ o1 = b * r1 /\ o1 + r1 <= Page_Size
        /\ \A x \in Nat : b < x => o1 + r1 <= x * r1
        /\ ChunkOf(i, b).addr = base1 + o1 /\ ChunkOf(i, b).size = r1
    BY <1>b DEF Slot
  <1>2. /\ base2 = par_list[j].base_addr /\ r2 = par_list[j].chunk_size
        /\ r2 >= 16 /\ o2 = d * r2 /\ o2 + r2 <= Page_Size
        /\ \A x \in Nat : d < x => o2 + r2 <= x * r2
        /\ ChunkOf(j, d).addr = base2 + o2 /\ ChunkOf(j, d).size = r2
    BY <1>a DEF Slot
  <1>3. SUFFICES \/ base1 + o1 + r1 <= base2 + o2
                 \/ base2 + o2 + r2 <= base1 + o1
    BY <1>1, <1>2 DEF Apart
  <1>4. CASE i = j
    <2>1. base1 = base2 /\ r1 = r2 /\ b # d
      BY <1>1, <1>2, <1>4
    <2>2. b < d \/ d < b
      BY <2>1
    <2>3. CASE b < d
      BY <1>1, <1>2, <2>1, <2>3
    <2>4. CASE d < b
      BY <1>1, <1>2, <2>1, <2>4
    <2> QED
      BY <2>2, <2>3, <2>4
  <1>5. CASE i # j
    <2>1. PICK p \in Supply, q \in Supply : base1 = PageAddress(p) /\ base2 = PageAddress(q) /\ p # q
      BY <1>1, <1>2, <1>5 DEF PagesOwned
    <2>2. p \in Nat /\ q \in Nat
      BY SupplyAssumption
    <2>3. base1 + Page_Size <= base2 \/ base2 + Page_Size <= base1
      BY <2>1, <2>2, PlaceFacts
    <2>4. Page_Size \in Nat
      BY PlaceFacts
    <2> QED
      BY <1>1, <1>2, <2>3, <2>4
  <1> QED
    BY <1>4, <1>5

-----------------------------------------------------------------------------
(* The steps keep the chunks apart *)

\* A step that changes the count and the mask of one node.
LEMMA SameShape ==
    ASSUME NodesOK, NEW i \in Nodes, NEW new \in Node,
           new.chunk_size = par_list[i].chunk_size, new.base_addr = par_list[i].base_addr,
           new.max_chunk = par_list[i].max_chunk,
           par_list' = [par_list EXCEPT ![i] = new]
    PROVE  /\ Nodes' = Nodes
           /\ \A j \in Nodes : /\ par_list'[j].chunk_size = par_list[j].chunk_size
                               /\ par_list'[j].base_addr = par_list[j].base_addr
                               /\ par_list'[j].max_chunk = par_list[j].max_chunk
                               /\ Paged(j)' = Paged(j)
                               /\ \A b : ChunkOf(j, b)' = ChunkOf(j, b)
                               /\ j # i => par_list'[j] = par_list[j]
           /\ par_list'[i] = new
  <1>1. Nodes' = Nodes /\ \A j \in Nodes : par_list'[j] = IF j = i THEN new ELSE par_list[j]
    BY ExceptSeq DEF NodesOK, Nodes
  <1>2. \A j \in Nodes : /\ par_list'[j].chunk_size = par_list[j].chunk_size
                         /\ par_list'[j].base_addr = par_list[j].base_addr
                         /\ par_list'[j].max_chunk = par_list[j].max_chunk
    BY <1>1
  <1>3. \A j \in Nodes : Paged(j)' = Paged(j) /\ \A b : ChunkOf(j, b)' = ChunkOf(j, b)
    BY <1>2 DEF Paged, ChunkOf, Chunk
  <1> QED
    BY <1>1, <1>2, <1>3

\* A chunk is in the page memory if its page is.
LEMMA SlotInPageMemory ==
    ASSUME Books, FitInPage, SizesAsked, NEW i \in Nodes,
           NEW b \in Nat, b < par_list[i].max_chunk
    PROVE  InPageMemory(ChunkOf(i, b)) <=> Paged(i)
  <1>1. PICK base \in Nat, r \in Nat, o \in Nat : Slot(i, b, base, r, o)
    BY SlotPlace
  <1>2. ChunkOf(i, b).addr = base + o /\ base = par_list[i].base_addr /\ o + r <= Page_Size
    BY <1>1 DEF Slot
  <1>3. base = EmptyString \/ \E p \in Supply : base = PageAddress(p)
    BY <1>2, SlotFacts
  <1>4. base < PAGE_MEMORY_BASE => base = EmptyString
    BY <1>3, PlaceFacts
  <1>5. base = EmptyString => base + o < PAGE_MEMORY_BASE
    BY <1>2, PlaceFacts
  <1>6. PAGE_MEMORY_BASE \in Nat
    BY PlaceFacts
  <1> QED
    BY <1>2, <1>4, <1>5, <1>6 DEF InPageMemory, Paged

\* As many chunks are out as lie below a free one that is the lowest.
LEMMA LowBits ==
    ASSUME NEW mask \in SUBSET (0 .. 7), NEW b \in 0 .. 7, 0 .. b - 1 \subseteq mask
    PROVE  b <= Cardinality(mask)
  <1>1. IsFiniteSet(0 .. 7)
    BY 0 \in Int, 7 \in Int, FS_Interval
  <1>2. IsFiniteSet(mask)
    BY <1>1, FS_Subset
  <1>3. Cardinality(0 .. b - 1) = b
    <2>1. 0 \in Int /\ b - 1 \in Int
      OBVIOUS
    <2>2. Cardinality(0 .. b - 1) = IF 0 > b - 1 THEN 0 ELSE b - 1 - 0 + 1
      BY <2>1, FS_Interval
    <2> QED
      BY <2>2
  <1>4. 0 .. b - 1 \in SUBSET mask
    OBVIOUS
  <1>5. Cardinality(0 .. b - 1) <= Cardinality(mask)
    BY <1>2, <1>4, FS_Subset
  <1> QED
    BY <1>3, <1>5

\* A chunk that is taken is one of the page: as many as lie below it are out, and
\* not all are.
LEMMA ReuseSized ==
    ASSUME Sized, FitInPage, NEW bytes \in Requests, DmaReuse(bytes)
    PROVE  Sized'
  <1> USE DEF Sized
  <1>1. PICK i \in Nodes, b \in 0 .. 7, node \in Node, new \in Node :
              /\ node = par_list[i] /\ Agree(node)
              /\ node.chunk_num > 0
              /\ b \notin node.chunk_mask /\ 0 .. b - 1 \subseteq node.chunk_mask
              /\ new = [node EXCEPT !.chunk_num = @ - 1, !.chunk_mask = @ \cup {b}]
              /\ par_list' = [par_list EXCEPT ![i] = new]
              /\ live' = live (+) SetToBag({ChunkOf(i, b)})
              /\ supply' = supply
    BY ReuseEffect DEF Nodes, ChunkOf
  <1>2. /\ new.chunk_mask = par_list[i].chunk_mask \cup {b}
        /\ new.chunk_size = par_list[i].chunk_size /\ new.base_addr = par_list[i].base_addr
        /\ new.max_chunk = par_list[i].max_chunk
    BY <1>1, NodeFacts DEF Node
  <1>3. /\ Nodes' = Nodes
        /\ \A j \in Nodes : /\ par_list'[j].chunk_size = par_list[j].chunk_size
                            /\ par_list'[j].base_addr = par_list[j].base_addr
                            /\ par_list'[j].max_chunk = par_list[j].max_chunk
                            /\ Paged(j)' = Paged(j)
                            /\ \A x : ChunkOf(j, x)' = ChunkOf(j, x)
                            /\ j # i => par_list'[j] = par_list[j]
        /\ par_list'[i] = new
    BY <1>1, <1>2, SameShape DEF Books
  <1>4. b \in Nat /\ b < par_list[i].max_chunk
    <2>1. PICK mask \in SUBSET (0 .. 7), num \in -1 .. 256, max \in 0 .. 256 :
              mask = node.chunk_mask /\ num = node.chunk_num /\ max = node.max_chunk
      BY NodeFacts
    <2>2. b <= Cardinality(mask) /\ Cardinality(mask) \in 0 .. 8
      BY <1>1, <2>1, LowBits, MaskFacts
    <2>3. num = max - Cardinality(mask) /\ num > 0
      BY <1>1, <2>1 DEF Agree
    <2>4. b < max
      BY <2>2, <2>3
    <2> QED
      BY <1>1, <2>1, <2>4
  <1>5. Books'
    BY ReuseKeepsBooks
  <1>6. SizesAsked'
    BY <1>3 DEF SizesAsked
  <1>7. \A j \in Nodes : \A x : x \in par_list'[j].chunk_mask <=>
              x \in par_list[j].chunk_mask \/ (j = i /\ x = b)
    <2> SUFFICES ASSUME NEW j \in Nodes
                 PROVE  \A x : x \in par_list'[j].chunk_mask <=>
                                   x \in par_list[j].chunk_mask \/ (j = i /\ x = b)
      OBVIOUS
    <2>1. CASE j = i
      BY <1>2, <1>3, <2>1
    <2>2. CASE j # i
      BY <1>3, <2>2
    <2> QED
      BY <2>1, <2>2
  <1>8. BitsInPage'
    <2> SUFFICES ASSUME NEW j \in Nodes, NEW x \in par_list'[j].chunk_mask
                 PROVE  x <= 7 /\ x < par_list[j].max_chunk
      BY <1>3 DEF BitsInPage, Nodes
    <2>1. CASE x \in par_list[j].chunk_mask
      BY <2>1 DEF BitsInPage, Nodes
    <2>2. CASE j = i /\ x = b
      BY <1>4, <2>2
    <2> QED
      BY <1>7, <2>1, <2>2
  <1> QED
    BY <1>5, <1>6, <1>8

\* dma of a chunk from a page that it has gives one that nobody holds.
LEMMA ReuseExclusive ==
    ASSUME Exclusive, FitInPage, NEW bytes \in Requests, DmaReuse(bytes)
    PROVE  Exclusive'
  <1> USE DEF Exclusive, Sized
  <1>1. PICK i \in Nodes, b \in 0 .. 7, node \in Node, new \in Node :
              /\ node = par_list[i] /\ Agree(node)
              /\ node.chunk_num > 0
              /\ b \notin node.chunk_mask /\ 0 .. b - 1 \subseteq node.chunk_mask
              /\ new = [node EXCEPT !.chunk_num = @ - 1, !.chunk_mask = @ \cup {b}]
              /\ par_list' = [par_list EXCEPT ![i] = new]
              /\ live' = live (+) SetToBag({ChunkOf(i, b)})
              /\ supply' = supply
    BY ReuseEffect DEF Nodes, ChunkOf
  <1>2. /\ new.chunk_mask = par_list[i].chunk_mask \cup {b}
        /\ new.chunk_size = par_list[i].chunk_size /\ new.base_addr = par_list[i].base_addr
        /\ new.max_chunk = par_list[i].max_chunk
    BY <1>1, NodeFacts DEF Node
  <1>3. /\ Nodes' = Nodes
        /\ \A j \in Nodes : /\ par_list'[j].chunk_size = par_list[j].chunk_size
                            /\ par_list'[j].base_addr = par_list[j].base_addr
                            /\ par_list'[j].max_chunk = par_list[j].max_chunk
                            /\ Paged(j)' = Paged(j)
                            /\ \A x : ChunkOf(j, x)' = ChunkOf(j, x)
                            /\ j # i => par_list'[j] = par_list[j]
        /\ par_list'[i] = new
    BY <1>1, <1>2, SameShape DEF Books
  <1>4. b \in Nat /\ b < par_list[i].max_chunk
    <2>1. PICK mask \in SUBSET (0 .. 7), num \in -1 .. 256, max \in 0 .. 256 :
              mask = node.chunk_mask /\ num = node.chunk_num /\ max = node.max_chunk
      BY NodeFacts
    <2>2. b <= Cardinality(mask) /\ Cardinality(mask) \in 0 .. 8
      BY <1>1, <2>1, LowBits, MaskFacts
    <2>3. num = max - Cardinality(mask) /\ num > 0
      BY <1>1, <2>1 DEF Agree
    <2>4. b < max
      BY <2>2, <2>3
    <2> QED
      BY <1>1, <2>1, <2>4
  <1>5. PICK c : c = ChunkOf(i, b)
    OBVIOUS
  <1>6. c.addr \in Nat /\ c.size \in Nat
    <2>1. PICK base \in Nat, r \in Nat, o \in Nat : Slot(i, b, base, r, o)
      BY <1>4, SlotPlace
    <2> QED
      BY <1>5, <2>1 DEF Slot
  <1>7. /\ DOMAIN live' = DOMAIN live \cup {c}
        /\ live'[c] = IF c \in DOMAIN live THEN live[c] + 1 ELSE 1
        /\ \A d \in DOMAIN live : d # c => live'[d] = live[d]
    BY <1>1, <1>5, <1>6, LiveAdded DEF Books
  \* The chunk was not held.
  <1>8. InPageMemory(c) => Paged(i) /\ c \notin DOMAIN live
    <2> SUFFICES ASSUME InPageMemory(c) PROVE Paged(i) /\ c \notin DOMAIN live
      OBVIOUS
    <2>1. Paged(i)
      BY <1>4, <1>5, SlotInPageMemory
    <2>2. ASSUME c \in DOMAIN live PROVE FALSE
      <3>0. PICK j \in Nodes : Paged(j) /\ \E x \in par_list[j].chunk_mask : c = ChunkOf(j, x)
        BY <2>2 DEF HeldIsMarked
      <3>1. PICK d \in par_list[j].chunk_mask : c = ChunkOf(j, d)
        BY <3>0
      <3>2. d \in Nat /\ d < par_list[j].max_chunk
        <4>1. par_list[j].chunk_mask \subseteq 0 .. 7
          BY SlotFacts, NodeFacts
        <4> QED
          BY <4>1 DEF BitsInPage, Nodes
      <3>3. ~(i = j /\ b = d)
        BY <1>1
      <3> QED
        BY <1>4, <1>5, <2>1, <3>0, <3>1, <3>2, <3>3, SlotsApart
    <2> QED
      BY <2>1, <2>2
  <1>9. Sized'
    BY ReuseSized
  <1>10. \A j \in Nodes : \A x : x \in par_list'[j].chunk_mask <=>
              x \in par_list[j].chunk_mask \/ (j = i /\ x = b)
    <2> SUFFICES ASSUME NEW j \in Nodes
                 PROVE  \A x : x \in par_list'[j].chunk_mask <=>
                                   x \in par_list[j].chunk_mask \/ (j = i /\ x = b)
      OBVIOUS
    <2>1. CASE j = i
      BY <1>2, <1>3, <2>1
    <2>2. CASE j # i
      BY <1>3, <2>2
    <2> QED
      BY <2>1, <2>2
  <1>11. PagesOwned'
    BY <1>1, <1>3 DEF PagesOwned
  <1>12. MarkedAreHeld'
    BY <1>3, <1>5, <1>7, <1>10 DEF MarkedAreHeld
  <1>13. HeldIsMarked'
    <2> SUFFICES ASSUME NEW d \in DOMAIN live', InPageMemory(d)
                 PROVE  /\ live'[d] = 1
                        /\ \E j \in Nodes : Paged(j) /\ \E x \in par_list'[j].chunk_mask : d = ChunkOf(j, x)
      BY <1>3 DEF HeldIsMarked, InPageMemory
    <2>1. CASE d = c
      BY <1>5, <1>7, <1>8, <1>10, <2>1
    <2>2. CASE d # c
      <3>1. d \in DOMAIN live /\ live'[d] = live[d]
        BY <1>7, <2>2
      <3> QED
        BY <1>10, <3>1 DEF HeldIsMarked
    <2> QED
      BY <2>1, <2>2
  <1> QED
    BY <1>9, <1>11, <1>12, <1>13

\* dma that takes a page notes a size that somebody has asked for.
LEMMA NewPageSized ==
    ASSUME Sized, FitInPage, NEW bytes \in Requests, DmaNewPage(bytes)
    PROVE  Sized'
  <1> USE DEF Sized
  <1>1. PICK addr \in Bases, node \in Node :
              /\ Agree(node)
              /\ node.base_addr = addr /\ node.chunk_size = ChunkSize(bytes)
              /\ node.chunk_mask = {0}
              /\ par_list' = Append(par_list, node)
              /\ live' = live (+) SetToBag({Chunk(addr, node.chunk_size)})
              /\ supply' \subseteq supply
              /\ \/ addr = EmptyString /\ supply' = supply
                 \/ \E p \in supply : addr = PageAddress(p) /\ supply' = supply \ {p}
    BY NewPageEffect
  <1>2. PICK n \in Nat : n = Len(par_list) + 1
    BY DEF Books, NodesOK
  <1>3. /\ Nodes' = Nodes \cup {n} /\ n \notin Nodes
        /\ \A j \in Nodes : par_list'[j] = par_list[j]
        /\ par_list'[n] = node
    <2>1. par_list \in Seq(Node) /\ Len(par_list) \in Nat
      BY DEF Books, NodesOK
    <2>2. /\ Len(par_list') = Len(par_list) + 1
          /\ \A j \in 1 .. Len(par_list) : par_list'[j] = par_list[j]
          /\ par_list'[Len(par_list) + 1] = node
      BY <1>1, <2>1, AppendProperties
    <2> QED
      BY <1>2, <2>1, <2>2 DEF Nodes
  <1>4. Books'
    BY NewPageKeepsBooks
  <1>5. SizesAsked'
    BY <1>1, <1>3 DEF SizesAsked
  <1>6. BitsInPage'
    <2>1. 0 < node.max_chunk
      <3>1. PICK max \in 0 .. 256 : max = node.max_chunk
        BY NodeFacts
      <3>2. max >= 1
        BY <1>1, <3>1, AskedSizes DEF Agree
      <3>3. 0 < max
        BY <3>2
      <3> QED
        BY <3>1, <3>3
    <2>2. \A j \in Nodes' : \A x \in par_list'[j].chunk_mask : x <= 7 /\ x < par_list'[j].max_chunk
      <3> SUFFICES ASSUME NEW j \in Nodes', NEW x \in par_list'[j].chunk_mask
                   PROVE  x <= 7 /\ x < par_list'[j].max_chunk
        OBVIOUS
      <3>1. CASE j \in Nodes
        BY <1>3, <3>1 DEF BitsInPage, Nodes
      <3>2. CASE j = n
        <4>1. x = 0 /\ par_list'[j].max_chunk = node.max_chunk
          BY <1>1, <1>3, <3>2
        <4> QED
          BY <2>1, <4>1
      <3> QED
        BY <1>3, <3>1, <3>2
    <2> QED
      BY <2>2 DEF BitsInPage, Nodes
  <1> QED
    BY <1>4, <1>5, <1>6

\* dma that takes a page gives a chunk that nobody holds.
LEMMA NewPageExclusive ==
    ASSUME Exclusive, FitInPage, NEW bytes \in Requests, DmaNewPage(bytes)
    PROVE  Exclusive'
  <1> USE DEF Exclusive, Sized
  <1>1. PICK addr \in Bases, node \in Node :
              /\ Agree(node)
              /\ node.base_addr = addr /\ node.chunk_size = ChunkSize(bytes)
              /\ node.chunk_mask = {0}
              /\ par_list' = Append(par_list, node)
              /\ live' = live (+) SetToBag({Chunk(addr, node.chunk_size)})
              /\ supply' \subseteq supply
              /\ \/ addr = EmptyString /\ supply' = supply
                 \/ \E p \in supply : addr = PageAddress(p) /\ supply' = supply \ {p}
    BY NewPageEffect
  <1>2. PICK n \in Nat : n = Len(par_list) + 1
    BY DEF Books, NodesOK
  <1>3. /\ Nodes' = Nodes \cup {n} /\ n \notin Nodes
        /\ \A j \in Nodes : par_list'[j] = par_list[j]
        /\ par_list'[n] = node
    <2>1. par_list \in Seq(Node) /\ Len(par_list) \in Nat
      BY DEF Books, NodesOK
    <2>2. /\ Len(par_list') = Len(par_list) + 1
          /\ \A j \in 1 .. Len(par_list) : par_list'[j] = par_list[j]
          /\ par_list'[Len(par_list) + 1] = node
      BY <1>1, <2>1, AppendProperties
    <2> QED
      BY <1>2, <2>1, <2>2 DEF Nodes
  <1>4. \A j \in Nodes : Paged(j)' = Paged(j) /\ \A x : ChunkOf(j, x)' = ChunkOf(j, x)
    BY <1>3 DEF Paged, ChunkOf, Chunk
  <1>5. PICK c : c = Chunk(addr, node.chunk_size)
    OBVIOUS
  <1>6. ChunkOf(n, 0)' = c /\ c.addr = addr /\ c.size = node.chunk_size
    <2>1. node.chunk_size \in Nat /\ node.base_addr \in Nat
      BY NodeFacts
    <2>2. node.base_addr + 0 * node.chunk_size = node.base_addr
      BY <2>1
    <2> QED
      BY <1>1, <1>3, <1>5, <2>2 DEF ChunkOf, Chunk
  <1>7. c.addr \in Nat /\ c.size \in Nat
    BY <1>1, <1>6, NodeFacts
  <1>8. /\ DOMAIN live' = DOMAIN live \cup {c}
        /\ live'[c] = IF c \in DOMAIN live THEN live[c] + 1 ELSE 1
        /\ \A d \in DOMAIN live : d # c => live'[d] = live[d]
    BY <1>1, <1>5, <1>7, LiveAdded DEF Books
  \* No node has the page yet.
  <1>9. ASSUME addr >= PAGE_MEMORY_BASE
        PROVE  /\ \E p \in Supply \ supply' : addr = PageAddress(p)
               /\ \A j \in Nodes : par_list[j].base_addr # addr
               /\ c \notin DOMAIN live
    <2>1. PICK p \in supply : addr = PageAddress(p) /\ supply' = supply \ {p}
      BY <1>1, <1>9, PlaceFacts
    <2>2. p \in Supply
      BY DEF Books
    <2>3. ASSUME NEW j \in Nodes, Paged(j)
          PROVE  \E q \in Supply : /\ par_list[j].base_addr = PageAddress(q)
                                   /\ \/ PageAddress(q) + Page_Size <= addr
                                      \/ addr + Page_Size <= PageAddress(q)
      <3>1. PICK q \in Supply \ supply : par_list[j].base_addr = PageAddress(q)
        BY <2>3 DEF PagesOwned
      <3>2. p # q /\ p \in Nat /\ q \in Nat
        BY <2>2, SupplyAssumption
      <3>3. p < q \/ q < p
        BY <3>2
      <3> QED
        BY <2>1, <2>2, <3>1, <3>3, PlaceFacts
    <2>4. addr \in Nat /\ Page_Size \in Nat \ {0} /\ \A q \in Supply : PageAddress(q) \in Nat
      BY <2>1, <2>2, PlaceFacts
    <2>5. \A j \in Nodes : par_list[j].base_addr # addr
      <3> SUFFICES ASSUME NEW j \in Nodes, par_list[j].base_addr = addr PROVE FALSE
        OBVIOUS
      <3>1. Paged(j)
        BY <1>9 DEF Paged
      <3> QED
        BY <2>3, <2>4, <3>1
    <2>6. c \notin DOMAIN live
      <3> SUFFICES ASSUME c \in DOMAIN live PROVE FALSE
        OBVIOUS
      <3>1. InPageMemory(c)
        BY <1>6, <1>9 DEF InPageMemory
      <3>2. PICK j \in Nodes : Paged(j) /\ \E x \in par_list[j].chunk_mask : c = ChunkOf(j, x)
        BY <3>1 DEF HeldIsMarked
      <3>3. PICK x \in par_list[j].chunk_mask : c = ChunkOf(j, x)
        BY <3>2
      <3>4. x \in Nat /\ x < par_list[j].max_chunk
        <4>1. par_list[j].chunk_mask \subseteq 0 .. 7
          BY SlotFacts, NodeFacts
        <4> QED
          BY <4>1 DEF BitsInPage, Nodes
      <3>5. PICK base \in Nat, r \in Nat, o \in Nat : Slot(j, x, base, r, o)
        BY <3>4, SlotPlace
      <3>6. base = par_list[j].base_addr /\ addr = base + o /\ r >= 16 /\ o + r <= Page_Size
        BY <1>6, <3>3, <3>5 DEF Slot
      <3>7. base + Page_Size <= addr \/ addr + Page_Size <= base
        BY <2>3, <3>2, <3>6
      <3> QED
        BY <2>4, <3>6, <3>7
    <2> QED
      BY <2>1, <2>2, <2>5, <2>6
  <1>10. Sized'
    BY NewPageSized
  <1>11. Paged(n)' <=> addr >= PAGE_MEMORY_BASE
    BY <1>1, <1>3 DEF Paged
  <1>12. PagesOwned'
    <2> SUFFICES ASSUME NEW i \in Nodes', Paged(i)'
                 PROVE  /\ \E p \in Supply \ supply' : par_list'[i].base_addr = PageAddress(p)
                        /\ \A j \in Nodes' : par_list'[j].base_addr = par_list'[i].base_addr => j = i
      BY DEF PagesOwned
    <2>1. CASE i \in Nodes
      <3>1. /\ \E p \in Supply \ supply : par_list[i].base_addr = PageAddress(p)
            /\ \A j \in Nodes : par_list[j].base_addr = par_list[i].base_addr => j = i
        BY <1>4, <2>1 DEF PagesOwned
      <3>2. par_list'[n].base_addr # par_list'[i].base_addr
        <4> SUFFICES ASSUME par_list[i].base_addr = addr PROVE FALSE
          BY <1>1, <1>3, <2>1
        <4>1. addr >= PAGE_MEMORY_BASE
          BY <1>4, <2>1 DEF Paged
        <4> QED
          BY <1>9, <2>1, <4>1
      <3> QED
        BY <1>1, <1>3, <2>1, <3>1, <3>2
    <2>2. CASE i = n
      <3>1. addr >= PAGE_MEMORY_BASE
        BY <1>11, <2>2
      <3> QED
        BY <1>1, <1>3, <1>9, <2>2, <3>1
    <2> QED
      BY <1>3, <2>1, <2>2
  <1>13. MarkedAreHeld'
    <2> SUFFICES ASSUME NEW i \in Nodes', Paged(i)', NEW b \in par_list'[i].chunk_mask
                 PROVE  ChunkOf(i, b)' \in DOMAIN live'
      BY DEF MarkedAreHeld
    <2>1. CASE i \in Nodes
      BY <1>3, <1>4, <1>8, <2>1 DEF MarkedAreHeld
    <2>2. CASE i = n
      <3>1. b = 0
        BY <1>1, <1>3, <2>2
      <3> QED
        BY <1>6, <1>8, <2>2, <3>1
    <2> QED
      BY <1>3, <2>1, <2>2
  <1>14. HeldIsMarked'
    <2> SUFFICES ASSUME NEW d \in DOMAIN live', InPageMemory(d)
                 PROVE  /\ live'[d] = 1
                        /\ \E i \in Nodes' : Paged(i)' /\ \E b \in par_list'[i].chunk_mask : d = ChunkOf(i, b)'
      BY DEF HeldIsMarked, InPageMemory
    <2>1. CASE d = c
      <3>1. addr >= PAGE_MEMORY_BASE
        BY <1>6, <2>1 DEF InPageMemory
      <3>2. live'[d] = 1
        BY <1>8, <1>9, <2>1, <3>1
      <3>3. Paged(n)' /\ 0 \in par_list'[n].chunk_mask /\ d = ChunkOf(n, 0)'
        BY <1>1, <1>3, <1>6, <1>11, <2>1, <3>1
      <3> QED
        BY <1>3, <3>2, <3>3
    <2>2. CASE d # c
      <3>1. d \in DOMAIN live /\ live'[d] = live[d]
        BY <1>8, <2>2
      <3>2. PICK i \in Nodes : Paged(i) /\ \E b \in par_list[i].chunk_mask : d = ChunkOf(i, b)
        BY <3>1 DEF HeldIsMarked
      <3>3. live[d] = 1
        BY <3>1 DEF HeldIsMarked
      <3> QED
        BY <1>3, <1>4, <3>1, <3>2, <3>3
    <2> QED
      BY <2>1, <2>2
  <1> QED
    BY <1>10, <1>12, <1>13, <1>14

\* The address of a chunk behind "" is read as one below the page memory, where no
\* page begins.
LEMMA NoPageRead ==
    ASSUME Exclusive, FitInPage, NEW i \in Nodes, ~Paged(i),
           NEW n \in Nat, n < par_list[i].max_chunk, NEW a, a = ChunkOf(i, n).addr
    PROVE  /\ a < PAGE_MEMORY_BASE
           /\ \A j \in Nodes : par_list[j].base_addr # atoh(a) - (atoh(a) % Page_Size)
  <1> USE DEF Exclusive, Sized
  <1>1. PICK base \in Nat, r \in Nat, o \in Nat : Slot(i, n, base, r, o)
    BY SlotPlace
  <1>2. a = base + o /\ base = par_list[i].base_addr /\ o + r <= Page_Size /\ r >= 16
    BY <1>1 DEF Slot
  <1>3. base = EmptyString
    <2>1. ~(base >= PAGE_MEMORY_BASE)
      BY <1>2 DEF Paged
    <2> QED
      BY <1>2, <2>1, SlotFacts, PlaceFacts
  <1>4. PICK h \in Nat : h = atoh(a) /\ h <= 2 * a
    BY <1>2, AtohEquation, AtohBound
  <1>5. /\ EmptyString \in Nat /\ Page_Size \in Nat \ {0} /\ PAGE_MEMORY_BASE \in Nat
        /\ 2 * (EmptyString + Page_Size) < PAGE_MEMORY_BASE
    BY PlaceFacts
  <1>6. a < PAGE_MEMORY_BASE /\ h < PAGE_MEMORY_BASE
    BY <1>2, <1>3, <1>4, <1>5
  <1>7. PICK m \in Nat : m = h - (h % Page_Size) /\ m <= h /\ m % Page_Size = 0
    BY <1>5 DEF Page_Size
  <1>8. ASSUME NEW j \in Nodes PROVE par_list[j].base_addr # m
    <2>1. CASE par_list[j].base_addr = EmptyString
      BY <1>7, <2>1, PlaceFacts
    <2>2. CASE par_list[j].base_addr # EmptyString
      <3>1. PICK p \in Supply : par_list[j].base_addr = PageAddress(p)
        BY <2>2, SlotFacts
      <3>2. PageAddress(p) \in Nat /\ PageAddress(p) >= PAGE_MEMORY_BASE
        BY PlaceFacts
      <3> QED
        BY <1>5, <1>6, <1>7, <3>1, <3>2
    <2> QED
      BY <2>1, <2>2
  <1> QED
    BY <1>4, <1>6, <1>7, <1>8

\* The address of a chunk of a page is read as what was printed: the page and the
\* chunk are found again.
LEMMA PageRead ==
    ASSUME Exclusive, FitInPage, NEW i \in Nodes, Paged(i),
           NEW n \in 0 .. 7, n < par_list[i].max_chunk, NEW a, a = ChunkOf(i, n).addr,
           ReadRight(a)
    PROVE  /\ a >= PAGE_MEMORY_BASE
           /\ par_list[i].base_addr = atoh(a) - (atoh(a) % Page_Size)
           /\ ((atoh(a) - par_list[i].base_addr) \div par_list[i].chunk_size) % 32 = n
  <1> USE DEF Exclusive, Sized
  <1>1. PICK base \in Nat, r \in Nat, o \in Nat : Slot(i, n, base, r, o)
    BY SlotPlace
  <1>2. /\ a = base + o /\ base = par_list[i].base_addr /\ r = par_list[i].chunk_size
        /\ o = n * r /\ o + r <= Page_Size /\ r >= 16 /\ o \div r = n
    BY <1>1 DEF Slot
  <1>3. PICK p \in Supply : base = PageAddress(p)
    BY <1>2 DEF PagesOwned
  <1>5. a = base + o /\ r >= 16 /\ o + r <= Page_Size
    BY <1>2
  <1>6. o \in 0 .. Page_Size - 1 /\ o < Page_Size
    <2>1. Page_Size \in Nat
      BY PlaceFacts
    <2> QED
      BY <1>5, <2>1
  <1>8. a % Page_Size = o
    BY <1>3, <1>5, <1>6, PlaceFacts
  <1>4. a >= PAGE_MEMORY_BASE /\ a \in Nat /\ PAGE_MEMORY_BASE \in Nat
    <2>1. base \in Nat /\ base >= PAGE_MEMORY_BASE /\ PAGE_MEMORY_BASE \in Nat
      BY <1>3, PlaceFacts
    <2> QED
      BY <1>5, <2>1
  <1>7. atoh(a) = a
    BY <1>4 DEF ReadRight
  <1>9. a - o = base /\ a - base = o
    BY <1>5
  <1>11. par_list[i].base_addr = atoh(a) - (atoh(a) % Page_Size)
    BY <1>2, <1>7, <1>8, <1>9
  <1>12. (atoh(a) - par_list[i].base_addr) \div par_list[i].chunk_size = n
    BY <1>2, <1>7, <1>9
  <1>13. n % 32 = n
    OBVIOUS
  <1> QED
    BY <1>4, <1>11, <1>12, <1>13

\* Whatever fdma is called with, bits are only cleared.
LEMMA FdmaSized ==
    ASSUME Sized, NEW a \in ChunkAddresses, Fdma(a)
    PROVE  Sized'
  <1> USE DEF Sized
  <1>1. a \in Nat
    BY ChunkAddressesFacts
  <1>2. Books'
    BY <1>1, FdmaKeepsBooks
  <1>3. CASE par_list' = par_list
    BY <1>2, <1>3 DEF SizesAsked, BitsInPage, Nodes
  <1>4. CASE par_list' # par_list
    <2>1. PICK i \in Nodes, b \in 0 .. 31 :
              par_list' = [par_list EXCEPT ![i] = ClearChunk(par_list[i], b)]
      BY <1>1, <1>4, FdmaEffect DEF Nodes
    <2>2. PICK new : new = ClearChunk(par_list[i], b)
      OBVIOUS
    <2>3. /\ new \in Node
          /\ new.chunk_mask = par_list[i].chunk_mask \ {b}
          /\ new.chunk_size = par_list[i].chunk_size /\ new.max_chunk = par_list[i].max_chunk
          /\ new.base_addr = par_list[i].base_addr
      <3>1. par_list[i] \in Node /\ Agree(par_list[i])
        BY DEF Books, NodesOK, Nodes
      <3> QED
        BY <2>2, <3>1, GiveChunk
    <2>4. /\ Nodes' = Nodes
          /\ \A j \in Nodes : /\ par_list'[j].chunk_size = par_list[j].chunk_size
                              /\ par_list'[j].max_chunk = par_list[j].max_chunk
                              /\ j # i => par_list'[j] = par_list[j]
          /\ par_list'[i] = new
      BY <2>1, <2>2, <2>3, SameShape DEF Books
    <2>5. SizesAsked'
      BY <2>4 DEF SizesAsked
    <2>6. BitsInPage'
      <3> SUFFICES ASSUME NEW j \in Nodes, NEW x \in par_list'[j].chunk_mask
                   PROVE  x <= 7 /\ x < par_list[j].max_chunk
        BY <2>4 DEF BitsInPage, Nodes
      <3>1. x \in par_list[j].chunk_mask
        BY <2>3, <2>4
      <3> QED
        BY <3>1 DEF BitsInPage, Nodes
    <2> QED
      BY <1>2, <2>5, <2>6
  <1> QED
    BY <1>3, <1>4

\* fdma of an address that atoh reads as it was printed frees that chunk and no other.
LEMMA FdmaExclusive ==
    ASSUME Exclusive, FitInPage, NEW a \in ChunkAddresses, ReadRight(a), Fdma(a)
    PROVE  Exclusive'
  <1> USE DEF Exclusive, Sized
  <1>1. a \in Nat
    BY ChunkAddressesFacts
  <1>2. PICK i \in Nodes, n \in 0 .. 7 : n < par_list[i].max_chunk /\ a = ChunkOf(i, n).addr
    BY ChunkAddressesFacts DEF Nodes, ChunkOf, Chunk
  <1>3. n \in Nat
    OBVIOUS
  <1>4. /\ DOMAIN live' = {c \in DOMAIN live : c.addr # a}
        /\ \A c \in DOMAIN live' : live'[c] = live[c]
        /\ supply' = supply
    BY <1>1, FdmaEffect, LiveRemoved DEF Books
  <1>5. Sized'
    BY FdmaSized
  <1>6. CASE ~Paged(i)
    <2>1. /\ a < PAGE_MEMORY_BASE
          /\ \A j \in Nodes : par_list[j].base_addr # atoh(a) - (atoh(a) % Page_Size)
      BY <1>2, <1>3, <1>6, NoPageRead
    <2>2. par_list' = par_list
      BY <1>1, <2>1, FdmaEffect DEF Nodes
    <2>3. \A c \in DOMAIN live : InPageMemory(c) => c \in DOMAIN live'
      <3> SUFFICES ASSUME NEW c \in DOMAIN live, InPageMemory(c) PROVE c.addr # a
        BY <1>4
      <3>1. c.addr \in Nat /\ PAGE_MEMORY_BASE \in Nat
        BY PlaceFacts DEF Books, LiveOK
      <3> QED
        BY <1>1, <2>1, <3>1 DEF InPageMemory
    <2>4. PagesOwned'
      BY <1>4, <2>2 DEF PagesOwned, Nodes, Paged
    <2>5. MarkedAreHeld'
      <3> SUFFICES ASSUME NEW j \in Nodes, Paged(j), NEW b \in par_list[j].chunk_mask
                   PROVE  ChunkOf(j, b) \in DOMAIN live'
        BY <2>2 DEF MarkedAreHeld, Nodes, Paged, ChunkOf, Chunk
      <3>1. ChunkOf(j, b) \in DOMAIN live
        BY DEF MarkedAreHeld
      <3>2. b \in Nat /\ b < par_list[j].max_chunk
        <4>1. par_list[j].chunk_mask \subseteq 0 .. 7
          BY SlotFacts, NodeFacts
        <4> QED
          BY <4>1 DEF BitsInPage, Nodes
      <3>3. InPageMemory(ChunkOf(j, b))
        BY <3>2, SlotInPageMemory
      <3> QED
        BY <2>3, <3>1, <3>3
    <2>6. HeldIsMarked'
      BY <1>4, <2>2 DEF HeldIsMarked, Nodes, Paged, ChunkOf, Chunk, InPageMemory
    <2> QED
      BY <1>5, <2>4, <2>5, <2>6
  <1>7. CASE Paged(i)
    <2>1. /\ par_list[i].base_addr = atoh(a) - (atoh(a) % Page_Size)
          /\ ((atoh(a) - par_list[i].base_addr) \div par_list[i].chunk_size) % 32 = n
      BY <1>2, <1>7, PageRead
    <2>2. par_list' = [par_list EXCEPT ![i] = ClearChunk(par_list[i], n)]
      <3>1. PICK j \in Nodes, b \in 0 .. 31 :
               /\ par_list[j].base_addr = atoh(a) - (atoh(a) % Page_Size)
               /\ b = ((atoh(a) - par_list[j].base_addr) \div par_list[j].chunk_size) % 32
               /\ par_list' = [par_list EXCEPT ![j] = ClearChunk(par_list[j], b)]
        BY <1>1, <2>1, FdmaEffect DEF Nodes
      <3>2. j = i
        BY <1>7, <2>1, <3>1 DEF PagesOwned
      <3> QED
        BY <2>1, <3>1, <3>2
    <2>3. PICK new : new = ClearChunk(par_list[i], n)
      OBVIOUS
    <2>4. /\ new \in Node
          /\ new.chunk_mask = par_list[i].chunk_mask \ {n}
          /\ new.chunk_size = par_list[i].chunk_size /\ new.max_chunk = par_list[i].max_chunk
          /\ new.base_addr = par_list[i].base_addr
      BY <2>3, SlotFacts, GiveChunk
    <2>5. /\ Nodes' = Nodes
          /\ \A j \in Nodes : /\ par_list'[j].chunk_size = par_list[j].chunk_size
                              /\ par_list'[j].base_addr = par_list[j].base_addr
                              /\ par_list'[j].max_chunk = par_list[j].max_chunk
                              /\ Paged(j)' = Paged(j)
                              /\ \A x : ChunkOf(j, x)' = ChunkOf(j, x)
                              /\ j # i => par_list'[j] = par_list[j]
          /\ par_list'[i] = new
      BY <2>2, <2>3, <2>4, SameShape DEF Books
    <2>6. ASSUME NEW j \in Nodes, NEW x
          PROVE  x \in par_list'[j].chunk_mask <=>
                     x \in par_list[j].chunk_mask /\ ~(j = i /\ x = n)
      <3>1. CASE j = i
        BY <2>4, <2>5, <3>1
      <3>2. CASE j # i
        BY <2>5, <3>2
      <3> QED
        BY <3>1, <3>2
    \* Of the chunks that are out, this one alone has the address.
    <2>7. ASSUME NEW j \in Nodes, Paged(j), NEW x \in par_list[j].chunk_mask, ~(j = i /\ x = n)
          PROVE  ChunkOf(j, x).addr # a
      <3>1. x \in Nat /\ x < par_list[j].max_chunk
        <4>1. par_list[j].chunk_mask \subseteq 0 .. 7
          BY SlotFacts, NodeFacts
        <4> QED
          BY <4>1 DEF BitsInPage, Nodes
      <3> QED
        BY <1>2, <1>3, <1>7, <2>7, <3>1, SlotsApart
    <2>8. PagesOwned'
      BY <1>4, <2>5 DEF PagesOwned
    <2>9. MarkedAreHeld'
      <3> SUFFICES ASSUME NEW j \in Nodes, Paged(j), NEW x \in par_list'[j].chunk_mask
                   PROVE  ChunkOf(j, x) \in DOMAIN live'
        BY <2>5 DEF MarkedAreHeld
      <3>1. x \in par_list[j].chunk_mask /\ ~(j = i /\ x = n)
        BY <2>6
      <3>2. ChunkOf(j, x) \in DOMAIN live
        BY <3>1 DEF MarkedAreHeld
      <3> QED
        BY <1>4, <2>7, <3>1, <3>2
    <2>10. HeldIsMarked'
      <3> SUFFICES ASSUME NEW c \in DOMAIN live', InPageMemory(c)
                   PROVE  /\ live'[c] = 1
                          /\ \E j \in Nodes : Paged(j) /\ \E x \in par_list'[j].chunk_mask : c = ChunkOf(j, x)
        BY <2>5 DEF HeldIsMarked, InPageMemory
      <3>1. c \in DOMAIN live /\ c.addr # a /\ live'[c] = live[c]
        BY <1>4
      <3>2. live[c] = 1
        BY <3>1 DEF HeldIsMarked
      <3>3. PICK j \in Nodes : Paged(j) /\ \E x \in par_list[j].chunk_mask : c = ChunkOf(j, x)
        BY <3>1 DEF HeldIsMarked
      <3>4. PICK x \in par_list[j].chunk_mask : c = ChunkOf(j, x)
        BY <3>3
      <3>5. x \in par_list'[j].chunk_mask
        BY <1>2, <2>6, <3>1, <3>4
      <3> QED
        BY <3>1, <3>2, <3>3, <3>4, <3>5
    <2> QED
      BY <1>5, <2>8, <2>9, <2>10
  <1> QED
    BY <1>6, <1>7

\* Before the first call nobody holds anything.
LEMMA ExclusiveInit == Init => Exclusive
  <1> SUFFICES ASSUME Init PROVE Exclusive
    OBVIOUS
  <1>1. Nodes = {} /\ DOMAIN live = {}
    BY DEF Init, Nodes, EmptyBag, SetToBag
  <1> QED
    BY <1>1, BooksInit DEF Exclusive, Sized, SizesAsked, BitsInPage, PagesOwned, HeldIsMarked,
                           MarkedAreHeld, Nodes

\* Every call keeps the chunks exclusive.
LEMMA ExclusiveNext == FitInPage /\ Exclusive /\ [PlainNext]_vars => Exclusive'
  <1> SUFFICES ASSUME FitInPage, Exclusive, [PlainNext]_vars PROVE Exclusive'
    OBVIOUS
  <1>1. ASSUME NEW bytes \in Requests, DmaReuse(bytes) PROVE Exclusive'
    BY <1>1, ReuseExclusive
  <1>2. ASSUME NEW bytes \in Requests, DmaNewPage(bytes) PROVE Exclusive'
    BY <1>2, NewPageExclusive
  <1>3. ASSUME NEW a \in ChunkAddresses, ReadRight(a), Fdma(a) PROVE Exclusive'
    BY <1>3, FdmaExclusive
  <1>4. CASE UNCHANGED vars
    <2>1. par_list' = par_list /\ supply' = supply /\ live' = live
      BY <1>4 DEF vars
    <2>2. Sized'
      <3>1. Books'
        BY <1>4, BooksNext DEF Exclusive, Sized
      <3> QED
        BY <2>1, <3>1 DEF Exclusive, Sized, SizesAsked, BitsInPage, Nodes
    <2>3. PagesOwned'
      BY <2>1 DEF Exclusive, PagesOwned, Nodes, Paged
    <2>4. HeldIsMarked'
      BY <2>1 DEF Exclusive, HeldIsMarked, Nodes, Paged, ChunkOf, Chunk, InPageMemory
    <2>5. MarkedAreHeld'
      BY <2>1 DEF Exclusive, MarkedAreHeld, Nodes, Paged, ChunkOf, Chunk
    <2> QED
      BY <2>2, <2>3, <2>4, <2>5 DEF Exclusive
  <1> QED
    BY <1>1, <1>2, <1>3, <1>4 DEF PlainNext

\* With requests that fit in a page and fdma called with addresses that atoh reads
\* as printed, whatever addresses dma prints, the chunks marked in the masks are
\* those that are held, and no page has two nodes.
THEOREM ExclusiveInvariant == ASSUME FitInPage PROVE PlainSpec => []Exclusive
  <1>1. Init => Exclusive
    BY ExclusiveInit
  <1>2. Exclusive /\ [PlainNext]_vars => Exclusive'
    BY ExclusiveNext
  <1> QED
    BY <1>1, <1>2, PTL DEF PlainSpec

\* Every call keeps the sizes among those that were asked for.
LEMMA SizedNext == FitInPage /\ Sized /\ [Next]_vars => Sized'
  <1> SUFFICES ASSUME FitInPage, Sized, [Next]_vars PROVE Sized'
    OBVIOUS
  <1>1. ASSUME NEW bytes \in Requests, DmaReuse(bytes) PROVE Sized'
    BY <1>1, ReuseSized
  <1>2. ASSUME NEW bytes \in Requests, DmaNewPage(bytes) PROVE Sized'
    BY <1>2, NewPageSized
  <1>3. ASSUME NEW a \in ChunkAddresses, Fdma(a) PROVE Sized'
    BY <1>3, FdmaSized
  <1>4. CASE UNCHANGED vars
    <2>1. par_list' = par_list
      BY <1>4 DEF vars
    <2>2. Books'
      BY <1>4, BooksNext DEF Sized
    <2> QED
      BY <2>1, <2>2 DEF Sized, SizesAsked, BitsInPage, Nodes
  <1> QED
    BY <1>1, <1>2, <1>3, <1>4 DEF Next

\* With requests that fit in a page no bit of a mask stands for a chunk behind the
\* end of the page, and the shift never reaches the width of an int; also when
\* addresses are misread.
THEOREM BitsStayInPage == ASSUME FitInPage PROVE Spec => []BitsInPage
  <1>1. Init => Sized
    BY ExclusiveInit DEF Exclusive
  <1>2. Sized /\ [Next]_vars => Sized'
    BY SizedNext
  <1>3. Sized => BitsInPage
    BY DEF Sized
  <1> QED
    BY <1>1, <1>2, <1>3, PTL DEF Spec

\* A chunk of the mask of node i, with what the lemmas on chunks need of it.
LEMMA MarkedSlot ==
    ASSUME Exclusive, NEW i \in Nodes, NEW b \in par_list[i].chunk_mask
    PROVE  b \in Nat /\ b < par_list[i].max_chunk
  <1>1. par_list[i].chunk_mask \subseteq 0 .. 7
    BY NodeFacts DEF Exclusive, Sized, Books, NodesOK, Nodes
  <1> QED
    BY <1>1 DEF Exclusive, Sized, BitsInPage, Nodes

\* Two chunks that are held do not overlap, and none is handed out twice, while no
\* request is larger than a page and fdma is called with addresses that atoh reads
\* as printed.
THEOREM HeldApart == ASSUME FitInPage PROVE PlainSpec => []LiveDisjoint
  <1>1. Exclusive => LiveDisjoint
    <2> SUFFICES ASSUME Exclusive, NEW c \in DOMAIN live, NEW e \in DOMAIN live,
                        InPageMemory(c), InPageMemory(e)
                 PROVE  IF c = e THEN live[c] = 1 ELSE Apart(c, e)
      BY DEF LiveDisjoint, Apart
    <2>1. live[c] = 1
      BY DEF Exclusive, HeldIsMarked
    <2>2. ASSUME c # e PROVE Apart(c, e)
      <3>1. PICK i \in Nodes : Paged(i) /\ \E b \in par_list[i].chunk_mask : c = ChunkOf(i, b)
        BY DEF Exclusive, HeldIsMarked
      <3>2. PICK b \in par_list[i].chunk_mask : c = ChunkOf(i, b)
        BY <3>1
      <3>3. PICK j \in Nodes : Paged(j) /\ \E d \in par_list[j].chunk_mask : e = ChunkOf(j, d)
        BY DEF Exclusive, HeldIsMarked
      <3>4. PICK d \in par_list[j].chunk_mask : e = ChunkOf(j, d)
        BY <3>3
      <3>5. b \in Nat /\ b < par_list[i].max_chunk /\ d \in Nat /\ d < par_list[j].max_chunk
        BY MarkedSlot
      <3>6. ~(i = j /\ b = d)
        BY <2>2, <3>2, <3>4
      <3> QED
        BY <3>1, <3>2, <3>3, <3>4, <3>5, <3>6, SlotsApart DEF Exclusive, Sized
    <2> QED
      BY <2>1, <2>2
  <1> QED
    BY <1>1, ExclusiveInvariant, PTL

\* The bits of a mask are those of the chunks that are held, under the same two
\* conditions: none is lost, none is marked free while it is in use.
THEOREM MarksExact == ASSUME FitInPage PROVE PlainSpec => []MarkedIsHeld
  <1>1. Exclusive => MarkedIsHeld
    <2> SUFFICES ASSUME Exclusive, NEW i \in Nodes, Paged(i)
                 PROVE  par_list[i].chunk_mask =
                            {b \in 0 .. (par_list[i].max_chunk - 1) : ChunkOf(i, b) \in DOMAIN live}
      BY DEF MarkedIsHeld, Nodes, Paged, ChunkOf, InPageMemory
    <2>1. PICK max \in 1 .. 256 : max = par_list[i].max_chunk
      BY SlotFacts DEF Exclusive, Sized
    <2>2. ASSUME NEW b \in par_list[i].chunk_mask
          PROVE  b \in 0 .. (max - 1) /\ ChunkOf(i, b) \in DOMAIN live
      <3>1. b \in Nat /\ b < max
        BY <2>1, MarkedSlot
      <3> QED
        BY <3>1 DEF Exclusive, MarkedAreHeld
    <2>3. ASSUME NEW b \in 0 .. (max - 1), ChunkOf(i, b) \in DOMAIN live
          PROVE  b \in par_list[i].chunk_mask
      <3>1. b \in Nat /\ b < par_list[i].max_chunk
        BY <2>1
      <3>2. InPageMemory(ChunkOf(i, b))
        BY <3>1, SlotInPageMemory DEF Exclusive, Sized
      <3>3. PICK j \in Nodes : Paged(j) /\ \E d \in par_list[j].chunk_mask : ChunkOf(i, b) = ChunkOf(j, d)
        BY <2>3, <3>2 DEF Exclusive, HeldIsMarked
      <3>4. PICK d \in par_list[j].chunk_mask : ChunkOf(i, b) = ChunkOf(j, d)
        BY <3>3
      <3>5. d \in Nat /\ d < par_list[j].max_chunk
        BY MarkedSlot
      <3>6. i = j /\ b = d
        BY <3>1, <3>3, <3>4, <3>5, SlotsApart DEF Exclusive, Sized
      <3> QED
        BY <3>6
    <2> QED
      BY <2>1, <2>2, <2>3
  <1> QED
    BY <1>1, ExclusiveInvariant, PTL

=============================================================================
