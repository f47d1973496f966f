---------------------------- MODULE StartupProofs ----------------------------
(***************************************************************************)
(* The startup allocator, for every size of memory and every two regions   *)
(* that it may reserve: what is reserved stays out of every block, and the *)
(* one pass of merge_page merges all that can be merged.                   *)
(***************************************************************************)
EXTENDS Startup, BuddyProofs, DataLemmas

-----------------------------------------------------------------------------
(* The inductive invariant *)

TheRegions == {reserve_mem, initrd, malloc}

\* What StartupInit demands of the regions, which no step moves.
RegionsApart ==
    /\ initrd \in Regions /\ malloc \in Regions
    /\ 0 \notin Covered(initrd) \cup Covered(malloc)
    /\ Covered(initrd) \cap Covered(malloc) = {}

IsMarked(p) ==
    IF p \in Reserved THEN usage[p] = "X" /\ value[p] = -1
                      ELSE usage[p] = "A" /\ value[p] = 0

\* The loop of init_startup_array: pages below i are marked, and i is never
\* inside a region.
Marking ==
    /\ \A p \in Pages : p < i => IsMarked(p)
    /\ \A r \in TheRegions : i <= r[1] \/ i >= r[1] + Number(r)
    /\ \A k \in Orders : frame_list[k] = <<>>

\* The loop of init_startup_list: free pages below i are on the list of order 0.
Linking ==
    /\ \A p \in Pages : IsMarked(p)
    /\ \A k \in Orders : Distinct(frame_list[k])
    /\ \A k \in Orders, p \in Pages :
          OnList(p, k) <=> k = 0 /\ p < i /\ p \notin Reserved

\* The blocks cover the pages that are not reserved.
Covering == \A q \in Pages : InBlock(q) <=> q \notin Reserved

\* Two free buddies up to page n.
Unmerged(p, k, n) ==
    /\ k < MaxOrder
    /\ p <= n /\ Buddy(p, k) <= n
    /\ OnList(p, k) /\ OnList(Buddy(p, k), k)

\* The loop of merge_page: whatever could still be merged among the pages up to
\* i has idx in it.
Merging ==
    /\ ArrayOK
    /\ Covering
    /\ \A p \in Pages : usage[p] = "A" <=> p \in Heads
    /\ idx <= i
    /\ \A k \in Orders, p \in Pages : Unmerged(p, k, i) => idx \in {p, Buddy(p, k)}

SInv ==
    /\ StartupTypeOK
    /\ RegionsApart
    /\ frame_list \in [Orders -> Seq(Pages)]
    /\ Booting => size = 0 /\ target = 0 /\ order = 0 /\ ret = NoPage
    /\ pc \in {"mark", "link"} => idx = 0
    /\ pc = "mark" => Marking
    /\ pc = "link" => Linking
    /\ pc = "merge_page" => Merging
    /\ ~Booting => Core /\ Covering

-----------------------------------------------------------------------------
(* Regions and pages *)

\* A region is at least a page and lies in the memory; no two share a page, and
\* page 0 is reserved.
LEMMA RegionFacts ==
    ASSUME RegionsApart
    PROVE  /\ \A r \in TheRegions : /\ r[1] \in Nat /\ Number(r) \in Nat \ {0}
                                    /\ r[1] + Number(r) <= Pow2[MaxOrder]
                                    /\ r[1] \in Marked(r)
           /\ \A r, s \in TheRegions : r # s => Marked(r) \cap Marked(s) = {}
           /\ 0 \in Reserved
           /\ \A q : q \in Reserved <=> \E r \in TheRegions : q \in Marked(r)
  <1>0. Pow2[MaxOrder] \in Nat \ {0}
    BY PowFacts DEF Orders
  <1>1. ASSUME NEW r \in {initrd, malloc}
        PROVE  /\ r[1] \in Nat /\ Number(r) \in Nat \ {0}
               /\ r[1] + Number(r) <= Pow2[MaxOrder]
               /\ Marked(r) \subseteq Covered(r)
    <2>1. r[1] \in Nat /\ r[2] \in 2 .. 2 * (Pow2[MaxOrder] - r[1])
      BY <1>0, RegionsAssumption, PowFacts DEF RegionsApart
    <2>2. PICK l : l = r[2]
      OBVIOUS
    <2>3. l \in Nat /\ 2 <= l /\ l <= 2 * (Pow2[MaxOrder] - r[1])
      BY <1>0, <2>1, <2>2
    <2>4. /\ l \div 2 \in Nat \ {0} /\ r[1] + (l \div 2) <= Pow2[MaxOrder]
          /\ l \div 2 <= (l + 1) \div 2 /\ (l + 1) \div 2 \in Nat
      BY <1>0, <2>1, <2>3, SMT
    <2> QED
      BY <2>1, <2>2, <2>4 DEF Number, Marked, Covered
  <1>2. /\ reserve_mem[1] = 0 /\ Number(reserve_mem) = 1 /\ Marked(reserve_mem) = {0}
    BY SMT DEF reserve_mem, Number, Marked
  <1>3. \A r \in TheRegions : /\ r[1] \in Nat /\ Number(r) \in Nat \ {0}
                              /\ r[1] + Number(r) <= Pow2[MaxOrder]
    BY <1>0, <1>1, <1>2 DEF TheRegions
  <1>4. \A r \in TheRegions : r[1] \in Marked(r)
    BY <1>3 DEF Marked
  <1>5. /\ Marked(initrd) \cap Marked(malloc) = {}
        /\ Marked(reserve_mem) \cap Marked(initrd) = {}
        /\ Marked(reserve_mem) \cap Marked(malloc) = {}
    BY <1>1, <1>2 DEF RegionsApart
  <1>6. ASSUME NEW r \in TheRegions
        PROVE  \A q : q \in Marked(r) <=> q \in Pages /\ WhollyIn(q, r)
    <2>1. PICK f, l : f = r[1] /\ l = r[2]
      OBVIOUS
    <2>2. f \in Nat /\ l \in Nat
      BY <1>0, <2>1, RegionsAssumption, PowFacts DEF RegionsApart, TheRegions, reserve_mem
    <2>3. PICK n \in Nat : n = l \div 2 /\ (l = 2 * n \/ l = 2 * n + 1) /\ n = Number(r)
      BY <2>1, <2>2, SMT DEF Number
    <2>4. f + n <= Pow2[MaxOrder]
      BY <1>3, <2>1, <2>3
    <2>5. \A q : q \in Marked(r) <=> q \in f .. f + n - 1
      BY <2>1, <2>3 DEF Marked
    <2>6. \A q : WhollyIn(q, r) <=> f <= q /\ 2 * q + 2 <= 2 * f + l
      BY <2>1 DEF WhollyIn
    <2>7. \A q : q \in f .. f + n - 1 <=> q \in Pages /\ f <= q /\ 2 * q + 2 <= 2 * f + l
      BY <1>0, <2>2, <2>3, <2>4 DEF Pages
    <2> QED
      BY <2>5, <2>6, <2>7
  <1>7. \A q : q \in Reserved <=> \E r \in TheRegions : q \in Marked(r)
    BY <1>6 DEF Reserved, TheRegions
  <1> QED
    BY <1>2, <1>3, <1>4, <1>5, <1>7 DEF TheRegions

\* The power of every order divides the number of pages.
LEMMA PowDivides ==
    \A k \in Orders : \E m \in Nat : Pow2[MaxOrder] = Pow2[k] * m
  <1> DEFINE S == {n \in Nat : n <= MaxOrder =>
                      \E m \in Nat : Pow2[MaxOrder] = Pow2[MaxOrder - n] * m}
  <1>0. MaxOrder \in Nat
    BY MaxOrderAssumption
  <1>1. 0 \in S
    <2>1. Pow2[MaxOrder] = Pow2[MaxOrder] * 1
      <3>1. Pow2[MaxOrder] \in Nat
        BY PowFacts DEF Orders
      <3> QED
        BY <3>1
    <2> QED
      BY <1>0, <2>1
  <1>2. ASSUME NEW n \in Nat, n \in S PROVE n + 1 \in S
    <2> SUFFICES ASSUME n + 1 <= MaxOrder
                 PROVE  \E m \in Nat : Pow2[MaxOrder] = Pow2[MaxOrder - (n + 1)] * m
      OBVIOUS
    <2>1. PICK m \in Nat : Pow2[MaxOrder] = Pow2[MaxOrder - n] * m
      BY <1>0, <1>2
    <2>2. PICK a : a = MaxOrder - (n + 1)
      OBVIOUS
    <2>3. a \in Orders /\ a + 1 = MaxOrder - n
      BY <1>0, <2>2 DEF Orders
    <2>4. Pow2[a] \in Nat \ {0} /\ Pow2[a + 1] = 2 * Pow2[a]
      BY <2>3, PowFacts
    <2>5. Pow2[MaxOrder] = Pow2[a] * (2 * m) /\ 2 * m \in Nat
      BY <2>1, <2>3, <2>4, SMT
    <2> QED
      BY <2>2, <2>5
  <1>3. Nat \subseteq S
    <2> HIDE DEF S
    <2> QED
      BY <1>1, <1>2, Induction
  <1>4. ASSUME NEW k \in Orders PROVE \E m \in Nat : Pow2[MaxOrder] = Pow2[k] * m
    <2>1. PICK n \in Nat : n = MaxOrder - k /\ n <= MaxOrder /\ MaxOrder - n = k
      BY <1>0 DEF Orders
    <2>2. n \in S
      BY <1>3
    <2> QED
      BY <2>1, <2>2
  <1> QED
    BY <1>4

\* While blocks cover only what is not reserved, page 0 is in none: no block is
\* the whole memory, and the buddy of every block lies in The Array.
LEMMA BuddyFacts ==
    ASSUME ArrayOK, Covering, RegionsApart, NEW p \in Heads, NEW k, k = value[p]
    PROVE  LET b == Buddy(p, k)
           IN  /\ p \in Pages /\ k \in Orders /\ k < MaxOrder /\ k + 1 \in Orders
               /\ b \in Pages /\ b # p /\ Buddy(b, k) = p
               /\ p < b => b = p + Pow2[k] /\ p % (2 * Pow2[k]) = 0
               /\ ~(p < b) => p = b + Pow2[k] /\ b % (2 * Pow2[k]) = 0
  <1>0. PICK b, d, all : b = Buddy(p, k) /\ d = Pow2[k] /\ all = Pow2[MaxOrder]
    OBVIOUS
  <1>1. p \in Pages /\ p \in Nat /\ k \in Orders /\ d \in Nat \ {0} /\ all \in Nat
    BY <1>0, PowFacts DEF Heads, ArrayOK, Orders
  <1>2. p + d <= all /\ p % d = 0 /\ p < all
    BY <1>0, <1>1, PowFacts DEF ArrayOK, BlocksInside, HeadsAligned
  <1>3. k # MaxOrder
    <2> SUFFICES ASSUME k = MaxOrder PROVE FALSE
      OBVIOUS
    <2>1. p = 0
      BY <1>0, <1>1, <1>2
    <2>2. 0 \in BlockOf(p)
      BY <1>0, <1>1, <2>1 DEF BlockOf, Block
    <2>3. 0 \in Reserved /\ 0 \in Pages
      BY RegionFacts, PowFacts
    <2> QED
      BY <2>2, <2>3 DEF Covering, InBlock
  <1>4. k < MaxOrder /\ k + 1 \in Orders /\ Pow2[k + 1] = 2 * d
    BY <1>0, <1>1, <1>3, PowFacts DEF Orders
  <1>5. b = IF (p \div d) % 2 = 0 THEN p + d ELSE p - d
    BY <1>0 DEF Buddy
  <1>6. /\ b \in Nat /\ b # p
        /\ p < b => b = p + d /\ p % (2 * d) = 0
        /\ ~(p < b) => p = b + d /\ b % (2 * d) = 0
    <2>1. /\ b \in Nat /\ b # p
          /\ p % d = 0 /\ p < b => b = p + d /\ p % (2 * d) = 0
          /\ p % d = 0 /\ ~(p < b) => p = b + d /\ b % (2 * d) = 0 /\ p % (2 * d) # 0
      BY <1>1, <1>5, Xor, ZenonT(30)
    <2> QED
      BY <1>2, <2>1
  <1>7. Buddy(b, k) = p
    <2>1. p = IF (b \div d) % 2 = 0 THEN b + d ELSE b - d
      BY <1>1, <1>5, XorBack
    <2> QED
      BY <1>0, <2>1 DEF Buddy
  <1>8. b < all
    <2>1. CASE p < b
      <3>1. PICK m \in Nat : all = (2 * d) * m
        BY <1>0, <1>4, PowDivides
      <3>0. PICK e : e = 2 * d
        OBVIOUS
      <3>2. PICK q \in Nat : p = (2 * d) * q + 0
        <4>1. e \in Nat \ {0} /\ p % e = 0
          BY <1>1, <1>6, <2>1, <3>0
        <4>2. p \div e \in Nat /\ p = e * (p \div e) + (p % e)
          BY <1>1, <4>1, Euclid
        <4> QED
          BY <3>0, <4>1, <4>2
      <3>3. q < m
        <4>1. CASE m <= q
          <5>1. PICK n \in Nat : q = m + n
            BY <4>1
          <5>2. (2 * d) * q = (2 * d) * m + (2 * d) * n /\ (2 * d) * n \in Nat
            BY <1>1, <5>1, SMT
          <5> QED
            BY <1>1, <1>2, <3>1, <3>2, <5>2
        <4> QED
          BY <4>1
      <3>4. PICK n \in Nat : m = q + 1 + n
        BY <3>3
      <3>5. all = (2 * d) * q + 2 * d + (2 * d) * n /\ (2 * d) * n \in Nat
        BY <1>1, <3>1, <3>4, SMT
      <3>6. (2 * d) * q = p
        BY <1>1, <3>2
      <3> QED
        BY <1>1, <1>6, <2>1, <3>5, <3>6
    <2>2. CASE ~(p < b)
      BY <1>1, <1>2, <1>6, <2>2
    <2> QED
      BY <2>1, <2>2
  <1>9. b \in Pages
    BY <1>0, <1>6, <1>8, PowFacts
  <1> QED
    BY <1>0, <1>1, <1>4, <1>6, <1>7, <1>9

-----------------------------------------------------------------------------
(* Every step preserves it *)

\* The Array as simple_malloc hands it out.
LEMMA StartupInitInv == StartupInit => SInv
  <1> SUFFICES ASSUME StartupInit PROVE SInv
    OBVIOUS
  <1>1. RegionsApart /\ pc = "mark" /\ Booting /\ i = 0
    BY DEF StartupInit, RegionsApart, Booting
  <1>2. 0 \in Pages
    BY PowFacts
  <1>3. StartupTypeOK
    BY <1>1, <1>2 DEF StartupTypeOK, StartupInit
  <1>4. Marking
    <2>1. \A r \in TheRegions : i <= r[1]
      BY <1>1, RegionFacts
    <2>2. \A p \in Pages : ~(p < i)
      BY <1>1, PowFacts
    <2> QED
      BY <2>1, <2>2 DEF Marking, StartupInit
  <1>5. frame_list \in [Orders -> Seq(Pages)]
    BY DEF StartupInit
  <1> QED
    BY <1>1, <1>3, <1>4, <1>5 DEF SInv, StartupInit

\* A step of the first two loops: what it leaves alone, and where i goes.
LEMMA LoopStep ==
    ASSUME SInv, NEW n \in Nat \ {0}, NEW loop, Advance(n, loop), pc \in {"mark", "link"},
           loop \in {"link", "merge_page"}, UNCHANGED <<locals, ret>>,
           value' \in [Pages -> {-1} \cup Orders], usage' \in [Pages -> {"A", "F", "X"}]
    PROVE  /\ StartupTypeOK' /\ RegionsApart' /\ Reserved' = Reserved /\ TheRegions' = TheRegions
           /\ Booting' /\ idx' = 0
           /\ size' = 0 /\ target' = 0 /\ order' = 0 /\ ret' = NoPage
           /\ \/ i' = i + n /\ pc' = pc
              \/ i' = 0 /\ pc' = loop /\ \A p \in Pages : p < i + n
  <1>1. UNCHANGED <<initrd, malloc, size, target, order, idx, ret>> /\ idx = 0 /\ Booting
    BY DEF Advance, locals, SInv, Booting
  <1>2. /\ i' = IF i + n \in Pages THEN i + n ELSE 0
        /\ pc' = IF i + n \in Pages THEN pc ELSE loop
    BY DEF Advance
  <1>3. i \in Nat /\ Pow2[MaxOrder] \in Nat /\ 0 \in Pages
    BY PowFacts DEF SInv, StartupTypeOK, Orders
  <1>4. i + n \notin Pages => \A p \in Pages : p < i + n
    BY <1>3, PowFacts
  <1>5. Booting' /\ i' \in Pages
    BY <1>2, <1>3 DEF Booting
  <1>6. StartupTypeOK'
    BY <1>1, <1>3, <1>5 DEF StartupTypeOK, SInv
  <1>7. RegionsApart' /\ Reserved' = Reserved /\ TheRegions' = TheRegions
    BY <1>1 DEF SInv, RegionsApart, Reserved, WhollyIn, Marked, Covered, Number, TheRegions
  <1> QED
    BY <1>1, <1>2, <1>4, <1>5, <1>6, <1>7 DEF SInv

\* A region is marked as a whole, and none of the others is in the way.
LEMMA MarkRegionInv ==
    ASSUME SInv, MarkRegion
    PROVE  SInv'
  <1>1. PICK r \in TheRegions :
            /\ i = r[1]
            /\ usage' = [p \in Pages |-> IF p \in Marked(r) THEN "X" ELSE usage[p]]
            /\ value' = [p \in Pages |-> IF p \in Marked(r) THEN -1 ELSE value[p]]
            /\ Advance(Number(r), "link")
    BY DEF MarkRegion, TheRegions
  <1>2. PICK n : n = Number(r)
    OBVIOUS
  <1>3. /\ pc = "mark" /\ frame_list' = frame_list /\ UNCHANGED <<locals, ret>>
        /\ Marking /\ RegionsApart
    BY DEF MarkRegion, SInv
  <1>4. /\ \A s \in TheRegions : s[1] \in Nat /\ Number(s) \in Nat \ {0} /\ s[1] \in Marked(s)
        /\ \A s \in TheRegions : s # r => Marked(r) \cap Marked(s) = {}
        /\ \A q : q \in Reserved <=> \E s \in TheRegions : q \in Marked(s)
    BY <1>3, RegionFacts
  <1>5. n \in Nat \ {0} /\ i \in Nat /\ Marked(r) = i .. i + n - 1
    BY <1>1, <1>2, <1>4 DEF Marked
  <1>6. value' \in [Pages -> {-1} \cup Orders] /\ usage' \in [Pages -> {"A", "F", "X"}]
    BY <1>1 DEF SInv, StartupTypeOK
  <1>7. /\ StartupTypeOK' /\ RegionsApart' /\ Reserved' = Reserved /\ TheRegions' = TheRegions
        /\ Booting' /\ idx' = 0
        /\ size' = 0 /\ target' = 0 /\ order' = 0 /\ ret' = NoPage
        /\ \/ i' = i + n /\ pc' = "mark"
           \/ i' = 0 /\ pc' = "link" /\ \A p \in Pages : p < i + n
    BY <1>1, <1>2, <1>3, <1>5, <1>6, LoopStep
  <1>8. ASSUME NEW p \in Pages, p < i + n PROVE IsMarked(p)'
    <2>1. p \in Nat
      BY PowFacts
    <2>2. CASE p \in Marked(r)
      <3>1. p \in Reserved
        BY <1>4, <2>2
      <3> QED
        BY <1>1, <1>7, <2>2, <3>1 DEF IsMarked
    <2>3. CASE p \notin Marked(r)
      <3>1. p < i
        BY <1>5, <1>8, <2>1, <2>3
      <3>2. IsMarked(p) /\ usage'[p] = usage[p] /\ value'[p] = value[p]
        BY <1>1, <1>3, <2>3, <3>1 DEF Marking
      <3> QED
        BY <1>7, <3>2 DEF IsMarked
    <2> QED
      BY <2>2, <2>3
  <1>9. ASSUME NEW s \in TheRegions PROVE i + n <= s[1] \/ i + n >= s[1] + Number(s)
    <2>1. s[1] \in Nat /\ Number(s) \in Nat /\ (i <= s[1] \/ i >= s[1] + Number(s))
      BY <1>3, <1>4 DEF Marking
    <2>2. CASE s = r
      BY <1>1, <1>2, <1>5, <2>2
    <2>3. CASE s # r
      <3>1. s[1] \notin i .. i + n - 1
        BY <1>4, <1>5, <2>3
      <3> QED
        BY <1>5, <2>1, <3>1
    <2> QED
      BY <2>2, <2>3
  <1>10. \A k \in Orders : frame_list'[k] = <<>>
    BY <1>3 DEF Marking
  <1>11. CASE i' = i + n /\ pc' = "mark"
    <2>1. Marking'
      BY <1>7, <1>8, <1>9, <1>10, <1>11 DEF Marking
    <2> QED
      BY <1>3, <1>7, <1>11, <2>1 DEF SInv
  <1>12. CASE i' = 0 /\ pc' = "link" /\ \A p \in Pages : p < i + n
    <2>1. \A p \in Pages : IsMarked(p)' /\ ~(p < i')
      BY <1>8, <1>12, PowFacts
    <2>2. \A k \in Orders : Distinct(frame_list[k])' /\ \A p : ~OnList(p, k)'
      BY <1>10 DEF Distinct, OnList, Linked
    <2>3. Linking'
      BY <2>1, <2>2 DEF Linking
    <2> QED
      BY <1>3, <1>7, <1>12, <2>3 DEF SInv
  <1> QED
    BY <1>7, <1>11, <1>12

\* A page where no region begins is in none.
LEMMA MarkFreeInv ==
    ASSUME SInv, MarkFree
    PROVE  SInv'
  <1>1. /\ pc = "mark" /\ frame_list' = frame_list /\ UNCHANGED <<locals, ret>>
        /\ Marking /\ RegionsApart /\ i \in Pages
        /\ \A r \in TheRegions : i # r[1]
        /\ usage' = [usage EXCEPT ![i] = "A"] /\ value' = [value EXCEPT ![i] = 0]
        /\ Advance(1, "link")
    BY DEF MarkFree, SInv, StartupTypeOK, TheRegions
  <1>2. /\ \A s \in TheRegions : s[1] \in Nat /\ Number(s) \in Nat \ {0}
        /\ \A q : q \in Reserved <=> \E s \in TheRegions : q \in Marked(s)
    BY <1>1, RegionFacts
  <1>3. i \in Nat /\ 0 \in Orders
    BY <1>1, PowFacts DEF Orders
  <1>4. value' \in [Pages -> {-1} \cup Orders] /\ usage' \in [Pages -> {"A", "F", "X"}]
    BY <1>1, <1>3 DEF SInv, StartupTypeOK
  <1>5. /\ StartupTypeOK' /\ RegionsApart' /\ Reserved' = Reserved /\ TheRegions' = TheRegions
        /\ Booting' /\ idx' = 0
        /\ size' = 0 /\ target' = 0 /\ order' = 0 /\ ret' = NoPage
        /\ \/ i' = i + 1 /\ pc' = "mark"
           \/ i' = 0 /\ pc' = "link" /\ \A p \in Pages : p < i + 1
    BY <1>1, <1>4, LoopStep
  <1>6. i \notin Reserved
    <2> SUFFICES ASSUME NEW s \in TheRegions, i \in Marked(s) PROVE FALSE
      BY <1>2
    <2>1. i <= s[1] \/ i >= s[1] + Number(s)
      BY <1>1 DEF Marking
    <2> QED
      BY <1>1, <1>2, <1>3, <2>1 DEF Marked
  <1>7. ASSUME NEW p \in Pages, p < i + 1 PROVE IsMarked(p)'
    <2>1. p \in Nat
      BY PowFacts
    <2>2. CASE p = i
      <3>1. usage'[p] = "A" /\ value'[p] = 0
        BY <1>1, <2>2 DEF SInv, StartupTypeOK
      <3> QED
        BY <1>5, <1>6, <2>2, <3>1 DEF IsMarked
    <2>3. CASE p # i
      <3>1. IsMarked(p) /\ usage'[p] = usage[p] /\ value'[p] = value[p]
        BY <1>1, <1>3, <1>7, <2>1, <2>3 DEF Marking, SInv, StartupTypeOK
      <3> QED
        BY <1>5, <3>1 DEF IsMarked
    <2> QED
      BY <2>2, <2>3
  <1>8. ASSUME NEW s \in TheRegions PROVE i + 1 <= s[1] \/ i + 1 >= s[1] + Number(s)
    BY <1>1, <1>2, <1>3 DEF Marking
  <1>9. \A k \in Orders : frame_list'[k] = <<>>
    BY <1>1 DEF Marking
  <1>10. CASE i' = i + 1 /\ pc' = "mark"
    <2>1. Marking'
      BY <1>5, <1>7, <1>8, <1>9, <1>10 DEF Marking
    <2> QED
      BY <1>1, <1>5, <1>10, <2>1 DEF SInv
  <1>11. CASE i' = 0 /\ pc' = "link" /\ \A p \in Pages : p < i + 1
    <2>1. \A p \in Pages : IsMarked(p)' /\ ~(p < i')
      BY <1>7, <1>11, PowFacts
    <2>2. \A k \in Orders : Distinct(frame_list[k])' /\ \A p : ~OnList(p, k)'
      BY <1>9 DEF Distinct, OnList, Linked
    <2>3. Linking'
      BY <2>1, <2>2 DEF Linking
    <2> QED
      BY <1>1, <1>5, <1>11, <2>3 DEF SInv
  <1> QED
    BY <1>5, <1>10, <1>11

\* Marked pages are blocks of one page.
LEMMA SinglePages ==
    ASSUME \A p \in Pages : IsMarked(p)
    PROVE  /\ \A p : p \in Heads <=> p \in Pages /\ p \notin Reserved
           /\ \A p \in Heads : value[p] = 0 /\ BlockOf(p) = {p} /\ usage[p] = "A"
           /\ HeadsAligned /\ BlocksDisjoint /\ BlocksUniform /\ BlocksInside
           /\ Covering
           /\ \A p \in Pages : usage[p] = "A" <=> p \in Heads
  <1>1. Pow2[0] = 1 /\ \A p : p \in Pages <=> p \in Nat /\ p < Pow2[MaxOrder]
    BY Pow2Assumption, PowFacts
  <1>2. \A p : p \in Heads <=> p \in Pages /\ p \notin Reserved
    BY DEF Heads, IsMarked
  <1>3. \A p \in Heads : value[p] = 0 /\ usage[p] = "A" /\ p \in Nat
    BY <1>1, <1>2 DEF IsMarked
  <1>4. \A p \in Heads : BlockOf(p) = {p}
    BY <1>1, <1>3 DEF BlockOf, Block
  <1>5. HeadsAligned
    <2>1. \A p \in Nat : p % 1 = 0
      BY Euclid
    <2> QED
      BY <1>1, <1>3, <2>1 DEF HeadsAligned
  <1>6. BlocksDisjoint
    BY <1>4 DEF BlocksDisjoint
  <1>7. BlocksUniform
    BY <1>4 DEF BlocksUniform
  <1>8. BlocksInside
    <2>1. Pow2[MaxOrder] \in Nat
      BY PowFacts DEF Orders
    <2> QED
      BY <1>1, <1>2, <1>3, <2>1 DEF BlocksInside
  <1>9. Covering
    BY <1>2, <1>4 DEF Covering, InBlock
  <1>10. \A p \in Pages : usage[p] = "A" <=> p \in Heads
    BY <1>2 DEF IsMarked
  <1> QED
    BY <1>2, <1>3, <1>4, <1>5, <1>6, <1>7, <1>8, <1>9, <1>10

\* A free page is linked; behind the last one every free page is.
LEMMA LinkInv ==
    ASSUME SInv, Link
    PROVE  SInv'
  <1>1. /\ pc = "link" /\ UNCHANGED <<value, usage, locals, ret>>
        /\ Linking /\ RegionsApart /\ i \in Pages /\ i \in Nat /\ 0 \in Orders
        /\ value \in [Pages -> {-1} \cup Orders] /\ usage \in [Pages -> {"A", "F", "X"}]
        /\ frame_list \in [Orders -> Seq(Pages)]
        /\ Advance(1, "merge_page")
    BY PowFacts DEF Link, SInv, StartupTypeOK, Orders
  <1>2. frame_list' = IF usage[i] = "A"
                      THEN [frame_list EXCEPT ![0] = list_add_tail(@, i)]
                      ELSE frame_list
    BY DEF Link
  <1>3. /\ StartupTypeOK' /\ RegionsApart' /\ Reserved' = Reserved /\ TheRegions' = TheRegions
        /\ Booting' /\ idx' = 0
        /\ size' = 0 /\ target' = 0 /\ order' = 0 /\ ret' = NoPage
        /\ \/ i' = i + 1 /\ pc' = "link"
           \/ i' = 0 /\ pc' = "merge_page" /\ \A p \in Pages : p < i + 1
    BY <1>1, LoopStep
  <1>4. \A p \in Pages : IsMarked(p) /\ IsMarked(p)'
    BY <1>1, <1>3 DEF Linking, IsMarked
  <1>5. usage[i] = "A" <=> i \notin Reserved
    BY <1>1, <1>4 DEF IsMarked
  <1>6. \A k \in Orders : /\ frame_list[k] \in Seq(Pages) /\ Distinct(frame_list[k])
                          /\ \A p : Linked(p, frame_list[k]) <=>
                                p \in Pages /\ k = 0 /\ p < i /\ p \notin Reserved
    <2> SUFFICES ASSUME NEW k \in Orders
                 PROVE  /\ frame_list[k] \in Seq(Pages) /\ Distinct(frame_list[k])
                        /\ \A p : Linked(p, frame_list[k]) <=>
                              p \in Pages /\ k = 0 /\ p < i /\ p \notin Reserved
      OBVIOUS
    <2>1. frame_list[k] \in Seq(Pages) /\ Distinct(frame_list[k])
      BY <1>1 DEF Linking
    <2>2. \A p : Linked(p, frame_list[k]) => p \in Pages
      BY <2>1, ElementOfSeq DEF Linked
    <2> QED
      BY <1>1, <2>1, <2>2 DEF Linking, OnList
  <1>7. \A k \in Orders : /\ frame_list'[k] \in Seq(Pages) /\ Distinct(frame_list'[k])
                          /\ \A p \in Pages : Linked(p, frame_list'[k]) <=>
                                k = 0 /\ p < i + 1 /\ p \notin Reserved
    <2> SUFFICES ASSUME NEW k \in Orders
                 PROVE  /\ frame_list'[k] \in Seq(Pages) /\ Distinct(frame_list'[k])
                        /\ \A p \in Pages : Linked(p, frame_list'[k]) <=>
                              k = 0 /\ p < i + 1 /\ p \notin Reserved
      OBVIOUS
    <2>0. \A p \in Pages : p < i + 1 <=> p < i \/ p = i
      BY <1>1, PowFacts
    <2>1. CASE i \notin Reserved /\ k = 0
      <3>1. frame_list'[k] = list_add_tail(frame_list[k], i)
        BY <1>1, <1>2, <1>5, <2>1
      <3>2. ~Linked(i, frame_list[k])
        BY <1>1, <1>6, <2>1
      <3>3. /\ list_add_tail(frame_list[k], i) \in Seq(Pages)
            /\ Distinct(list_add_tail(frame_list[k], i))
            /\ \A p : Linked(p, list_add_tail(frame_list[k], i)) <=>
                  Linked(p, frame_list[k]) \/ p = i
        BY <1>1, <1>6, <3>2, ListAdd
      <3> QED
        BY <1>1, <1>6, <2>0, <2>1, <3>1, <3>3
    <2>2. CASE i \in Reserved \/ k # 0
      <3>1. frame_list'[k] = frame_list[k]
        BY <1>1, <1>2, <1>5, <2>2
      <3> QED
        BY <1>6, <2>0, <2>2, <3>1
    <2> QED
      BY <2>1, <2>2
  <1>8. frame_list' \in [Orders -> Seq(Pages)]
    <2>1. frame_list' = [k \in Orders |-> frame_list'[k]]
      BY <1>1, <1>2
    <2> QED
      BY <1>7, <2>1
  <1>9. CASE i' = i + 1 /\ pc' = "link"
    <2>1. Linking'
      BY <1>3, <1>4, <1>7, <1>9 DEF Linking, OnList
    <2> QED
      BY <1>1, <1>3, <1>8, <1>9, <2>1 DEF SInv
  <1>10. CASE i' = 0 /\ pc' = "merge_page" /\ \A p \in Pages : p < i + 1
    <2>1. Heads' = Heads /\ \A p : BlockOf(p)' = BlockOf(p)
      BY <1>1 DEF Heads, BlockOf, Block
    <2>2. /\ \A p : p \in Heads <=> p \in Pages /\ p \notin Reserved
          /\ \A p \in Heads : value[p] = 0 /\ usage[p] = "A"
          /\ HeadsAligned /\ BlocksDisjoint /\ BlocksUniform /\ BlocksInside
          /\ Covering
          /\ \A p \in Pages : usage[p] = "A" <=> p \in Heads
      BY <1>4, SinglePages
    <2>3. HeadsAligned' /\ BlocksDisjoint' /\ BlocksUniform' /\ BlocksInside'
      BY <1>1, <2>1, <2>2 DEF HeadsAligned, BlocksDisjoint, BlocksUniform, BlocksInside
    <2>4. FreeListsExact'
      <3>1. ASSUME NEW k \in Orders, NEW p \in Pages
            PROVE  OnList(p, k)' <=> value'[p] = k /\ usage'[p] # "X"
        <4>1. OnList(p, k)' <=> k = 0 /\ p \notin Reserved
          BY <1>7, <1>10 DEF OnList
        <4>2. p \in Reserved => usage[p] = "X"
          BY <1>4 DEF IsMarked
        <4> QED
          BY <1>1, <2>2, <4>1, <4>2
      <3> QED
        BY <1>7, <3>1 DEF FreeListsExact
    <2>5. ArrayOK'
      BY <1>1, <1>8, <2>3, <2>4 DEF ArrayOK
    <2>6. Covering'
      BY <1>3, <2>1, <2>2 DEF Covering, InBlock
    <2>7. \A k \in Orders, p \in Pages : ~Unmerged(p, k, i)'
      <3> SUFFICES ASSUME NEW k \in Orders, NEW p \in Pages, Unmerged(p, k, i)' PROVE FALSE
        OBVIOUS
      <3>1. PICK b : b = Buddy(p, k)
        OBVIOUS
      <3>2. p <= 0 /\ b <= 0 /\ p \in Nat /\ Linked(b, frame_list'[k])
        BY <1>10, <3>1, PowFacts DEF Unmerged, OnList
      <3>3. b \in Pages
        BY <1>7, <3>2, ElementOfSeq DEF Linked
      <3>4. b = p /\ p = 0
        BY <3>2, <3>3, PowFacts
      <3>5. b # p
        <4>1. Pow2[k] \in Nat \ {0}
          BY PowFacts
        <4>2. b = IF (p \div Pow2[k]) % 2 = 0 THEN p + Pow2[k] ELSE p - Pow2[k]
          BY <3>1 DEF Buddy
        <4> QED
          BY <3>2, <4>1, <4>2
      <3> QED
        BY <3>4, <3>5
    <2>8. Merging'
      <3>1. \A p \in Pages : (usage[p] = "A")' <=> p \in Heads'
        BY <1>1, <2>1, <2>2
      <3>2. idx' <= i'
        BY <1>3, <1>10
      <3> QED
        BY <2>5, <2>6, <2>7, <3>1, <3>2 DEF Merging
    <2> QED
      BY <1>3, <1>8, <1>10, <2>8 DEF SInv
  <1> QED
    BY <1>3, <1>9, <1>10

\* Where merge_page goes on, both blocks head a list entry of one order, and
\* the buddy is a page of The Array.
LEMMA MayMergePair ==
    ASSUME SInv, pc = "merge_page", usage[idx] = "A"
    PROVE  LET k == value[idx]
               b == Buddy(idx, k)
           IN  /\ idx \in Heads /\ k \in Orders /\ k < MaxOrder /\ k + 1 \in Orders
               /\ b \in Pages /\ b # idx /\ Buddy(b, k) = idx
               /\ idx < b => b = idx + Pow2[k] /\ idx % (2 * Pow2[k]) = 0
               /\ ~(idx < b) => idx = b + Pow2[k] /\ b % (2 * Pow2[k]) = 0
  <1>1. Merging /\ RegionsApart /\ idx \in Pages
    BY DEF SInv, StartupTypeOK
  <1>2. idx \in Heads
    BY <1>1 DEF Merging
  <1> QED
    BY <1>1, <1>2, BuddyFacts DEF Merging

\* One round of merge_page: what could still be merged is with the new block.
LEMMA MergePageInv ==
    ASSUME SInv, MergePage
    PROVE  SInv'
  <1>0. PICK k0, b, base, high :
            /\ k0 = value[idx] /\ b = Buddy(idx, k0)
            /\ base = (IF idx < b THEN idx ELSE b)
            /\ high = (IF idx < b THEN b ELSE idx)
    OBVIOUS
  <1>1. /\ pc = "merge_page" /\ Merging /\ RegionsApart /\ idx \in Pages /\ i \in Pages
        /\ usage[idx] = "A" /\ usage[b] = "A" /\ value[b] = k0
        /\ frame_list \in [Orders -> Seq(Pages)]
        /\ value \in [Pages -> {-1} \cup Orders] /\ usage \in [Pages -> {"A", "F", "X"}]
        /\ UNCHANGED <<pc, size, target, order, ret, initrd, malloc, i>>
    BY <1>0 DEF MergePage, MayMerge, SInv, StartupTypeOK
  <1>2. /\ usage' = [usage EXCEPT ![high] = "F"]
        /\ value' = [value EXCEPT ![high] = -1, ![base] = k0 + 1]
        /\ frame_list' = [frame_list EXCEPT
               ![k0] = list_del(list_del(@, idx), b),
               ![k0 + 1] = list_add_tail(@, base)]
        /\ idx' = base
    BY <1>0 DEF MergePage
  <1>3. /\ idx \in Heads /\ k0 \in Orders /\ k0 < MaxOrder /\ k0 + 1 \in Orders
        /\ b \in Pages /\ b # idx
        /\ idx < b => b = idx + Pow2[k0] /\ idx % (2 * Pow2[k0]) = 0
        /\ ~(idx < b) => idx = b + Pow2[k0] /\ b % (2 * Pow2[k0]) = 0
    BY <1>0, <1>1, MayMergePair
  <1>4. /\ base \in Pages /\ high \in Pages /\ base # high /\ {idx, b} = {base, high}
        /\ high = base + Pow2[k0] /\ base % (2 * Pow2[k0]) = 0
        /\ value[base] = k0 /\ value[high] = k0 /\ usage[base] = "A" /\ usage[high] = "A"
    BY <1>0, <1>1, <1>3
  <1>5. Halves(base, high, k0)
    BY <1>3, <1>4 DEF Halves
  <1>6. \A p \in Pages : value'[p] = IF p = base THEN k0 + 1
                                     ELSE IF p = high THEN -1 ELSE value[p]
    BY <1>1, <1>2, <1>4
  <1>7. \A p \in Pages : usage'[p] = IF p = high THEN "F" ELSE usage[p]
    BY <1>1, <1>2, <1>4
  <1>8. value' \in [Pages -> {-1} \cup Orders] /\ usage' \in [Pages -> {"A", "F", "X"}]
    <2>1. value' \in [Pages -> {-1} \cup Orders]
      BY <1>1, <1>2, <1>3
    <2>2. usage' \in [Pages -> {"A", "F", "X"}]
      BY <1>1, <1>2
    <2> QED
      BY <2>1, <2>2
  <1>9. BecomeOne(base, high, k0, idx, b)
    BY <1>2, <1>4, <1>6, <1>7, <1>8 DEF BecomeOne
  <1>10. /\ ArrayOK' /\ CoverKept
         /\ frame_list' \in [Orders -> Seq(Pages)]
         /\ \A k \in Orders : \A p : Linked(p, frame_list'[k]) <=>
               IF p = base THEN k = k0 + 1
               ELSE IF p = high THEN FALSE ELSE OnList(p, k)
    <2>1. ArrayOK
      BY <1>1 DEF Merging
    <2> QED
      BY <1>5, <1>9, <2>1, MergeBlocks
  <1>11. RegionsApart' /\ Reserved' = Reserved /\ Booting'
    BY <1>1 DEF RegionsApart, Reserved, WhollyIn, Marked, Covered, Number, Booting
  <1>12. StartupTypeOK'
    BY <1>1, <1>2, <1>4, <1>8, <1>11 DEF StartupTypeOK, SInv
  <1>13. Covering'
    BY <1>1, <1>10, <1>11 DEF Covering, CoverKept, Merging
  <1>14. \A p \in Pages : (usage[p] = "A")' <=> p \in Heads'
    <2>1. k0 + 1 # -1
      BY <1>3 DEF Orders
    <2>2. \A p \in Pages : usage[p] = "A" <=> value[p] # -1
      BY <1>1 DEF Merging, Heads
    <2>3. \A p \in Pages : p \in Heads' <=> value'[p] # -1
      BY DEF Heads
    <2> QED
      BY <1>4, <1>6, <1>7, <2>1, <2>2, <2>3
  <1>15. idx' <= i'
    <2>1. idx <= i /\ idx \in Nat /\ b \in Nat /\ i \in Nat
      BY <1>1, <1>3, PowFacts DEF Merging
    <2> QED
      BY <1>0, <1>1, <1>2, <2>1
  <1>16. ASSUME NEW k \in Orders, NEW p \in Pages, Unmerged(p, k, i)'
         PROVE  idx' \in {p, Buddy(p, k)}
    <2> SUFFICES ASSUME base \notin {p, Buddy(p, k)} PROVE FALSE
      BY <1>2
    <2>1. PICK q : q = Buddy(p, k)
      OBVIOUS
    <2>2. /\ k < MaxOrder /\ p <= i /\ q <= i
          /\ Linked(p, frame_list'[k]) /\ Linked(q, frame_list'[k])
      BY <1>1, <1>16, <2>1 DEF Unmerged, OnList
    <2>3. p # high /\ q # high /\ OnList(p, k) /\ OnList(q, k)
      BY <1>10, <2>1, <2>2
    <2>4. idx \in {p, q}
      BY <1>1, <2>1, <2>2, <2>3 DEF Merging, Unmerged
    <2> QED
      BY <1>4, <2>1, <2>3, <2>4
  <1>17. Merging'
    BY <1>10, <1>13, <1>14, <1>15, <1>16 DEF Merging
  <1>18. /\ pc' = "merge_page"
         /\ size' = 0 /\ target' = 0 /\ order' = 0 /\ ret' = NoPage
    BY <1>1 DEF SInv, Booting
  <1> QED
    BY <1>10, <1>11, <1>12, <1>17, <1>18 DEF SInv

\* When merge_page returns nothing among the pages up to i can be merged.
LEMMA NextPageMerged ==
    ASSUME SInv, pc = "merge_page", ~MayMerge(idx)
    PROVE  \A k \in Orders, p \in Pages : ~Unmerged(p, k, i)
  <1> SUFFICES ASSUME NEW k \in Orders, NEW p \in Pages, Unmerged(p, k, i) PROVE FALSE
    OBVIOUS
  <1>1. Merging /\ RegionsApart
    BY DEF SInv
  <1>2. PICK b : b = Buddy(p, k)
    OBVIOUS
  <1>3. OnList(p, k) /\ OnList(b, k)
    BY <1>2 DEF Unmerged
  <1>4. /\ p \in Pages /\ value[p] = k /\ usage[p] # "X"
        /\ b \in Pages /\ value[b] = k /\ usage[b] # "X"
    BY <1>1, <1>3, ListNodes DEF Merging
  <1>5. p \in Heads /\ b \in Heads
    BY <1>4 DEF Heads, Orders
  <1>6. usage[p] = "A" /\ usage[b] = "A"
    BY <1>1, <1>4, <1>5 DEF Merging
  <1>7. Buddy(b, k) = p
    BY <1>1, <1>2, <1>4, <1>5, BuddyFacts DEF Merging
  <1>8. idx \in {p, b}
    BY <1>1, <1>2 DEF Merging
  <1>9. CASE idx = p
    <2>1. MayMerge(p)
      BY <1>2, <1>4, <1>6 DEF MayMerge
    <2> QED
      BY <1>9, <2>1
  <1>10. CASE idx = b
    <2>1. MayMerge(b)
      BY <1>4, <1>6, <1>7 DEF MayMerge
    <2> QED
      BY <1>10, <2>1
  <1> QED
    BY <1>8, <1>9, <1>10

\* The next page, or the end of startup_allocator.
LEMMA NextPageInv ==
    ASSUME SInv, NextPage
    PROVE  SInv'
  <1>1. /\ pc = "merge_page" /\ ~MayMerge(idx) /\ idx' = i'
        /\ UNCHANGED <<value, usage, frame_list, size, target, order, ret, initrd, malloc>>
        /\ i' = IF i + 1 \in Pages THEN i + 1 ELSE 0
        /\ pc' = IF i + 1 \in Pages THEN pc ELSE "idle"
        /\ Merging /\ RegionsApart /\ i \in Pages /\ Booting
        /\ frame_list \in [Orders -> Seq(Pages)]
        /\ size = 0 /\ target = 0 /\ order = 0 /\ ret = NoPage
    BY DEF NextPage, Advance, SInv, StartupTypeOK, Booting
  <1>2. /\ ArrayOK' /\ CoverKept
        /\ Heads' = Heads /\ \A p, k : OnList(p, k)' <=> OnList(p, k)
    BY <1>1, ArrayUnchanged DEF Merging
  <1>3. RegionsApart' /\ Reserved' = Reserved
    BY <1>1 DEF RegionsApart, Reserved, WhollyIn, Marked, Covered, Number
  <1>4. Covering'
    BY <1>1, <1>2, <1>3 DEF Covering, CoverKept, Merging
  <1>5. 0 \in Pages /\ 0 \in Orders /\ 0 \in 0 .. MaxOrder + 1 /\ i' \in Pages
    BY <1>1, PowFacts DEF Orders
  <1>6. CASE pc' = "merge_page"
    <2>1. i' = i + 1
      BY <1>1, <1>6
    <2>2. ASSUME NEW k \in Orders, NEW p \in Pages, Unmerged(p, k, i)'
          PROVE  idx' \in {p, Buddy(p, k)}
      <3>1. PICK b : b = Buddy(p, k)
        OBVIOUS
      <3>2. /\ k < MaxOrder /\ p <= i + 1 /\ b <= i + 1 /\ OnList(p, k) /\ OnList(b, k)
        BY <1>2, <2>1, <2>2, <3>1 DEF Unmerged
      <3>3. ~(p <= i /\ b <= i)
        BY <1>1, <3>1, <3>2, NextPageMerged DEF Unmerged
      <3>4. b \in Pages
        BY <1>1, <3>2, ListNodes DEF Merging
      <3>5. p = i + 1 \/ b = i + 1
        BY <1>1, <3>2, <3>3, <3>4, PowFacts
      <3> QED
        BY <1>1, <2>1, <3>1, <3>5
    <2>3. idx' <= i'
      BY <1>1, <1>5, PowFacts
    <2>4. Merging'
      BY <1>1, <1>2, <1>4, <2>2, <2>3 DEF Merging
    <2>5. Booting' /\ StartupTypeOK'
      BY <1>1, <1>5, <1>6 DEF StartupTypeOK, Booting, SInv
    <2> QED
      BY <1>1, <1>3, <1>6, <2>4, <2>5 DEF SInv
  <1>7. CASE pc' = "idle"
    <2>1. ~Booting'
      BY <1>7 DEF Booting
    <2>2. value' \in [Pages -> {-1} \cup Orders] /\ usage' \in [Pages -> {"A", "F", "X"}]
      BY <1>2 DEF ArrayOK
    <2>3. TypeOK'
      BY <1>1, <1>5, <1>7, <2>2 DEF TypeOK
    <2>4. Core'
      BY <1>2, <1>7, <2>3 DEF Core, SplitHasBlock, MergeIdx
    <2>5. StartupTypeOK'
      BY <1>1, <1>5, <2>2, <2>3 DEF StartupTypeOK, SInv
    <2> QED
      BY <1>1, <1>3, <1>4, <1>7, <2>1, <2>4, <2>5 DEF SInv
  <1> QED
    BY <1>1, <1>6, <1>7

\* alloc_page and free_pages go on from there.
LEMMA AllocatorCallInv ==
    ASSUME SInv, AllocatorCall
    PROVE  SInv'
  <1>1. Next /\ UNCHANGED <<initrd, malloc, i>>
    BY DEF AllocatorCall
  <1>2. ~Booting
    BY <1>1 DEF Next, Step, AllocCall, FreeCall, FreeUnallocated, SearchFound, SearchFailed,
                Split, Take, Merge, MergeStop, Booting
  <1>3. Core /\ Covering
    BY <1>2 DEF SInv
  <1>4. Core' /\ CoverKept
    BY <1>1, <1>3, NextInv
  <1>5. ~Booting'
    BY <1>4 DEF Core, TypeOK, Booting
  <1>6. RegionsApart' /\ Reserved' = Reserved
    BY <1>1 DEF SInv, RegionsApart, Reserved, WhollyIn, Marked, Covered, Number
  <1>7. Covering'
    BY <1>3, <1>4, <1>6 DEF Covering, CoverKept
  <1>8. StartupTypeOK' /\ frame_list' \in [Orders -> Seq(Pages)]
    BY <1>1, <1>4 DEF SInv, StartupTypeOK, Core, TypeOK
  <1> QED
    BY <1>4, <1>5, <1>6, <1>7, <1>8 DEF SInv, Booting

\* Every step of startup_init keeps the invariant, and so does none.
LEMMA StartupNextInv == SInv /\ [StartupNext]_startup_vars => SInv'
  <1> SUFFICES ASSUME SInv, [StartupNext]_startup_vars PROVE SInv'
    OBVIOUS
  <1>1. CASE UNCHANGED startup_vars
    <2>1. UNCHANGED <<value, usage, frame_list, pc, size, target, order, idx, ret,
                      initrd, malloc, i>>
      BY <1>1 DEF startup_vars, vars, locals
    <2>2. Booting' <=> Booting
      BY <2>1 DEF Booting
    <2>3. RegionsApart' /\ Reserved' = Reserved /\ TheRegions' = TheRegions
      BY <2>1 DEF SInv, RegionsApart, Reserved, WhollyIn, Marked, Covered, Number, TheRegions
    <2>4. Heads' = Heads /\ (\A p : BlockOf(p)' = BlockOf(p)) /\ \A p, k : OnList(p, k)' <=> OnList(p, k)
      BY <2>1 DEF Heads, BlockOf, Block, OnList, Linked
    <2>5. Covering' <=> Covering
      BY <2>3, <2>4 DEF Covering, InBlock
    <2>6. StartupTypeOK'
      BY <2>1, <2>2 DEF SInv, StartupTypeOK, TypeOK
    <2>7. pc = "mark" => Marking'
      BY <2>1, <2>3 DEF SInv, Marking, IsMarked
    <2>8. pc = "link" => Linking'
      BY <2>1, <2>3, <2>4 DEF SInv, Linking, IsMarked, Distinct
    <2>9. pc = "merge_page" => Merging'
      <3> SUFFICES ASSUME pc = "merge_page" PROVE Merging'
        OBVIOUS
      <3>1. Merging
        BY DEF SInv
      <3>2. ArrayOK'
        BY <2>1, <3>1, ArrayUnchanged DEF Merging
      <3>3. \A k \in Orders, p \in Pages : Unmerged(p, k, i)' <=> Unmerged(p, k, i)
        BY <2>1, <2>4 DEF Unmerged
      <3> QED
        BY <2>1, <2>4, <2>5, <3>1, <3>2, <3>3 DEF Merging
    <2>10. ~Booting => Core'
      BY <2>1, StutterInv DEF SInv, vars, locals
    <2> QED
      BY <2>1, <2>2, <2>3, <2>5, <2>6, <2>7, <2>8, <2>9, <2>10 DEF SInv
  <1> QED
    BY <1>1, MarkRegionInv, MarkFreeInv, LinkInv, MergePageInv, NextPageInv, AllocatorCallInv
       DEF StartupNext, Boot

\* What the loops of startup_allocator and the calls after it keep together.
THEOREM StartupInvariant == StartupSpec => []SInv
  <1> QED
    BY StartupInitInv, StartupNextInv, PTL DEF StartupSpec

-----------------------------------------------------------------------------
(* What follows from it *)

\* The loops stay in The Array and in the lists, and what they leave to
\* alloc_page and free_pages has the types these expect.
THEOREM StartupTypeCorrect == StartupSpec => []StartupTypeOK
  <1>1. SInv => StartupTypeOK
    BY DEF SInv
  <1> QED
    BY <1>1, StartupInvariant, PTL

\* A block of The Array lies in the page memory.
LEMMA BlockPages ==
    ASSUME ArrayOK
    PROVE  \A p \in Heads : BlockOf(p) \subseteq Pages /\ p \in BlockOf(p)
  <1>1. \A p \in Heads : p \in Pages /\ value[p] \in Orders /\ p + Pow2[value[p]] <= Pow2[MaxOrder]
    BY DEF Heads, ArrayOK, BlocksInside
  <1> QED
    BY <1>1, PowFacts DEF BlockOf, Block

\* Where blocks cover what is not reserved, nothing reserved is in one.
LEMMA CoveringKeeps ==
    ASSUME ArrayOK, Covering
    PROVE  /\ \A p \in Heads : BlockOf(p) \cap Reserved = {}
           /\ \A k \in Orders, p \in Reserved : ~OnList(p, k)
  <1>1. \A p \in Heads : BlockOf(p) \subseteq Pages /\ p \in BlockOf(p)
    BY BlockPages
  <1>2. \A p \in Heads : BlockOf(p) \cap Reserved = {}
    BY <1>1 DEF Covering, InBlock
  <1>3. ASSUME NEW k \in Orders, NEW p \in Reserved, OnList(p, k) PROVE FALSE
    <2>1. p \in Heads
      BY <1>3, ListNodes DEF Heads, Orders
    <2> QED
      BY <1>1, <1>2, <2>1
  <1> QED
    BY <1>2, <1>3

\* However many pages there are and wherever the two regions lie, no merge at
\* startup and no later history of alloc_page and free_pages puts a page that lies
\* wholly in one of them into a block or on a list.
THEOREM ReservedStayOut == StartupSpec => []ReservedKept
  <1>1. SInv => ReservedKept
    <2> SUFFICES ASSUME SInv, pc # "mark"
                 PROVE  /\ \A p \in Heads : BlockOf(p) \cap Reserved = {}
                        /\ \A k \in Orders, p \in Reserved : ~OnList(p, k)
      BY DEF ReservedKept
    <2>1. CASE pc = "link"
      <3>1. Linking /\ frame_list \in [Orders -> Seq(Pages)]
        BY <2>1 DEF SInv
      <3>2. /\ \A p : p \in Heads <=> p \in Pages /\ p \notin Reserved
            /\ \A p \in Heads : BlockOf(p) = {p}
        BY <3>1, SinglePages DEF Linking
      <3>3. ASSUME NEW k \in Orders, NEW p \in Reserved, OnList(p, k) PROVE FALSE
        <4>1. p \in Pages
          BY <3>1, <3>3, ElementOfSeq DEF OnList, Linked
        <4> QED
          BY <3>1, <3>3, <4>1 DEF Linking
      <3> QED
        BY <3>2, <3>3
    <2>2. CASE pc = "merge_page"
      BY <2>2, CoveringKeeps DEF SInv, Merging
    <2>3. CASE ~Booting
      BY <2>3, CoveringKeeps DEF SInv, Core
    <2> QED
      BY <2>1, <2>2, <2>3 DEF Booting
  <1> QED
    BY <1>1, StartupInvariant, PTL

\* From the first merge on The Array and the lists tell the same story, through
\* merge_page, split and merge: disjoint aligned blocks of every page that is not
\* wholly in a region, and every free one on the list of its order, once.
THEOREM StartupStaysExact == StartupSpec => []StartupExact
  <1>1. SInv => StartupExact
    <2> SUFFICES ASSUME SInv, ~Booting \/ pc = "merge_page"
                 PROVE  /\ HeadsAligned /\ BlocksDisjoint
                        /\ UNION {BlockOf(p) : p \in Heads} = Pages \ Reserved
                        /\ FreeListsExact
      BY DEF StartupExact
    <2>1. ArrayOK /\ Covering
      BY DEF SInv, Core, Merging
    <2>2. \A p \in Heads : BlockOf(p) \subseteq Pages
      BY <2>1, BlockPages
    <2>3. UNION {BlockOf(p) : p \in Heads} = Pages \ Reserved
      BY <2>1, <2>2 DEF Covering, InBlock
    <2> QED
      BY <2>1, <2>3 DEF ArrayOK
  <1> QED
    BY <1>1, StartupInvariant, PTL

\* One pass over the pages merges all that can be merged, and no round looks at
\* a buddy behind The Array.
THEOREM MergesAllOnce == StartupSpec => MergesAll
  <1>1. SInv => (pc = "merge_page" /\ usage[idx] = "A" => Buddy(idx, value[idx]) \in Pages)
    BY MayMergePair
  <1>2. SInv /\ [StartupNext]_startup_vars /\ pc = "merge_page" /\ pc' = "idle"
            => FreeBuddiesMerged'
    <2> SUFFICES ASSUME SInv, [StartupNext]_startup_vars, pc = "merge_page", pc' = "idle",
                        NEW k \in Orders, NEW p \in Pages,
                        k < MaxOrder, OnList(p, k)', OnList(Buddy(p, k), k)'
                 PROVE  FALSE
      BY DEF FreeBuddiesMerged
    <2>1. Boot
      BY DEF StartupNext, AllocatorCall, Next, Step, AllocCall, FreeCall, FreeUnallocated,
             SearchFound, SearchFailed, Split, Take, Merge, MergeStop, startup_vars, vars
    <2>2. NextPage
      BY <2>1 DEF Boot, MarkRegion, MarkFree, Link, MergePage
    <2>3. /\ ~MayMerge(idx) /\ UNCHANGED <<value, usage, frame_list>>
          /\ i + 1 \notin Pages /\ i \in Pages /\ Merging
      BY <2>2 DEF NextPage, Advance, SInv, StartupTypeOK
    <2>4. PICK b : b = Buddy(p, k)
      OBVIOUS
    <2>5. OnList(p, k) /\ OnList(b, k)
      BY <2>3, <2>4 DEF OnList, Linked
    <2>6. b \in Pages
      BY <2>3, <2>5, ListNodes DEF Merging
    <2>7. p <= i /\ b <= i
      BY <2>3, <2>6, PowFacts
    <2>8. Unmerged(p, k, i)
      BY <2>4, <2>5, <2>7 DEF Unmerged
    <2> QED
      BY <2>3, <2>8, NextPageMerged
  <1>3. SInv /\ [StartupNext]_startup_vars =>
          [/\ pc = "merge_page" /\ usage[idx] = "A" => Buddy(idx, value[idx]) \in Pages
           /\ pc = "merge_page" /\ pc' = "idle" => FreeBuddiesMerged']_startup_vars
    BY <1>1, <1>2
  <1> QED
    BY <1>3, StartupInvariant, PTL DEF StartupSpec, MergesAll
=============================================================================
