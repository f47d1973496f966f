----------------------------- MODULE BuddyProofs -----------------------------
(***************************************************************************)
(* The invariants of Buddy, for every MaxOrder and every set of Requests.  *)
(***************************************************************************)
EXTENDS Buddy, SequenceTheorems, TLAPS

-----------------------------------------------------------------------------
(* Lists *)

\* list_add_tail links one more node and keeps the list free of repetitions.
LEMMA ListAdd ==
    ASSUME NEW S, NEW s \in Seq(S), NEW x \in S
    PROVE  /\ list_add_tail(s, x) \in Seq(S)
           /\ list_add_tail(s, x) # <<>>
           /\ \A y : Linked(y, list_add_tail(s, x)) <=> Linked(y, s) \/ y = x
           /\ Distinct(s) /\ ~Linked(x, s) => Distinct(list_add_tail(s, x))
  <1> DEFINE t == Append(s, x)
  <1>1. /\ t \in Seq(S)
        /\ Len(t) = Len(s) + 1
        /\ \A i \in 1 .. Len(s) : t[i] = s[i]
        /\ t[Len(s) + 1] = x
        /\ Len(s) \in Nat
    OBVIOUS
  <1> HIDE DEF t
  <1>2. t # <<>>
    BY <1>1
  <1>3. \A y : Linked(y, t) <=> Linked(y, s) \/ y = x
    BY <1>1, SMT DEF Linked
  <1>4. ASSUME Distinct(s), ~Linked(x, s) PROVE Distinct(t)
    BY <1>1, <1>4, SMT DEF Linked, Distinct
  <1> QED
    BY <1>1, <1>2, <1>3, <1>4 DEF t, list_add_tail

\* list_del unlinks one node and no other.
LEMMA ListDel ==
    ASSUME NEW S, NEW s \in Seq(S), NEW x, Distinct(s)
    PROVE  /\ list_del(s, x) \in Seq(S)
           /\ Distinct(list_del(s, x))
           /\ \A y : Linked(y, list_del(s, x)) <=> Linked(y, s) /\ y # x
  <1>1. CASE ~Linked(x, s)
    BY <1>1 DEF list_del, Linked
  <1>2. CASE Linked(x, s)
    <2> DEFINE i == CHOOSE j \in 1 .. Len(s) : s[j] = x
               a == SubSeq(s, 1, i - 1)
               b == SubSeq(s, i + 1, Len(s))
               t == a \o b
    <2>9. list_del(s, x) = RemoveAt(s, i)
      BY <1>2 DEF list_del
    <2>1. i \in 1 .. Len(s) /\ s[i] = x
      BY <1>2 DEF Linked
    <2>2. Len(s) \in Nat /\ \A j \in 1 .. Len(s) : s[j] \in S
      BY ElementOfSeq, LenProperties
    <2> HIDE DEF i
    <2>3. /\ a \in Seq(S)
          /\ Len(a) = i - 1
          /\ \A j \in 1 .. i - 1 : a[j] = s[j]
      <3>1. \A j \in 1 .. i - 1 : s[j] \in S
        BY <2>1, <2>2
      <3> QED
        BY <3>1, <2>1, <2>2, SubSeqProperties
    <2>4. /\ b \in Seq(S)
          /\ Len(b) = Len(s) - i
          /\ \A j \in 1 .. Len(s) - i : b[j] = s[i + j]
      <3>1. \A j \in i + 1 .. Len(s) : s[j] \in S
        BY <2>1, <2>2
      <3>2. /\ b \in Seq(S)
            /\ Len(b) = IF i + 1 <= Len(s) THEN Len(s) - (i + 1) + 1 ELSE 0
            /\ \A j \in 1 .. Len(s) - (i + 1) + 1 : b[j] = s[i + 1 + j - 1]
        BY <3>1, <2>1, <2>2, SubSeqProperties
      <3> HIDE DEF b
      <3> QED
        BY <3>2, <2>1, <2>2
    <2> HIDE DEF a, b
    <2>5. /\ t \in Seq(S)
          /\ Len(t) = Len(s) - 1
          /\ \A j \in 1 .. Len(s) - 1 : t[j] = IF j < i THEN s[j] ELSE s[j + 1]
      <3>1. /\ t \in Seq(S)
            /\ Len(t) = Len(a) + Len(b)
            /\ \A j \in 1 .. Len(a) + Len(b) :
                  t[j] = IF j <= Len(a) THEN a[j] ELSE b[j - Len(a)]
        BY <2>3, <2>4, ConcatProperties
      <3> HIDE DEF t
      <3>2. Len(t) = Len(s) - 1
        BY <3>1, <2>1, <2>2, <2>3, <2>4
      <3>3. ASSUME NEW j \in 1 .. Len(s) - 1
            PROVE  t[j] = IF j < i THEN s[j] ELSE s[j + 1]
        <4>0. t[j] = IF j <= i - 1 THEN a[j] ELSE b[j - (i - 1)]
          <5>1. i - 1 + (Len(s) - i) = Len(s) - 1
            BY <2>1, <2>2
          <5> QED
            BY <3>1, <2>3, <2>4, <5>1
        <4>1. CASE j < i
          <5>1. j \in 1 .. i - 1
            BY <4>1, <2>1, <2>2
          <5> QED
            BY <4>0, <4>1, <5>1, <2>3
        <4>2. CASE j >= i
          <5>1. /\ t[j] = b[j - (i - 1)]
                /\ j - (i - 1) \in 1 .. Len(s) - i
            BY <4>0, <4>2, <2>1, <2>2
          <5>2. b[j - (i - 1)] = s[i + (j - (i - 1))] /\ i + (j - (i - 1)) = j + 1
            BY <5>1, <2>1, <2>2, <2>4
          <5> QED
            BY <4>2, <5>1, <5>2, <2>1
        <4> QED
          BY <4>1, <4>2, <2>1
      <3> QED
        BY <3>1, <3>2, <3>3
    <2>6. t = list_del(s, x)
      BY <2>9 DEF RemoveAt, t, a, b
    <2> HIDE DEF t
    <2>7. Distinct(t)
      <3>1. SUFFICES ASSUME NEW j \in 1 .. Len(t), NEW k \in 1 .. Len(t), t[j] = t[k]
                     PROVE  j = k
        BY DEF Distinct
      <3> DEFINE jj == IF j < i THEN j ELSE j + 1
                 kk == IF k < i THEN k ELSE k + 1
      <3>2. jj \in 1 .. Len(s) /\ t[j] = s[jj]
        BY <2>1, <2>2, <2>5
      <3>3. kk \in 1 .. Len(s) /\ t[k] = s[kk]
        BY <2>1, <2>2, <2>5
      <3>4. jj = kk
        <4> HIDE DEF jj, kk
        <4> QED
          BY <3>1, <3>2, <3>3 DEF Distinct
      <3> QED
        BY <3>4, <2>1, <2>2, <2>5
    <2>8. ASSUME NEW y PROVE Linked(y, t) <=> Linked(y, s) /\ y # x
      <3>1. ASSUME Linked(y, t) PROVE Linked(y, s) /\ y # x
        BY <2>1, <2>2, <2>5, <3>1, SMT DEF Linked, Distinct
      <3>2. ASSUME Linked(y, s), y # x PROVE Linked(y, t)
        <4>1. PICK j \in 1 .. Len(s) : s[j] = y
          BY <3>2 DEF Linked
        <4>2. CASE j < i
          BY <2>1, <2>2, <2>5, <4>1, <4>2 DEF Linked
        <4>3. CASE j > i
          <5>1. j - 1 \in 1 .. Len(s) - 1 /\ t[j - 1] = y
            BY <2>1, <2>2, <2>5, <4>1, <4>3
          <5> QED
            BY <5>1, <2>5 DEF Linked
        <4> QED
          BY <2>1, <2>2, <3>2, <4>1, <4>2, <4>3
      <3> QED
        BY <3>1, <3>2
    <2> QED
      BY <2>5, <2>6, <2>7, <2>8
  <1> QED
    BY <1>1, <1>2

-----------------------------------------------------------------------------
(* Alignment *)

\* Division leaves a remainder below the divisor.
LEMMA Euclid ==
    ASSUME NEW d \in Nat \ {0}, NEW a \in Nat
    PROVE  /\ a \div d \in Nat
           /\ a % d \in 0 .. d - 1
           /\ a = d * (a \div d) + (a % d)
  BY SMTT(30)

\* Quotient and remainder are unique.
LEMMA EuclidUnique ==
    ASSUME NEW d \in Nat \ {0}, NEW q \in Nat, NEW r \in 0 .. d - 1
    PROVE  /\ (d * q + r) % d = r
           /\ (d * q + r) \div d = q
  <1> DEFINE a == d * q + r
  <1>1. a \in Nat /\ a = d * q + r
    BY SMT
  <1> HIDE DEF a
  <1>2. a % d = r /\ a \div d = q
    BY <1>1, SMTT(30)
  <1> QED
    BY <1>2 DEF a

\* The two halves of an aligned block are aligned.
LEMMA HalvesAligned ==
    ASSUME NEW d \in Nat \ {0}, NEW p \in Nat, p % (2 * d) = 0
    PROVE  p % d = 0 /\ (p + d) % d = 0
  <1>1. PICK q \in Nat : p = (2 * d) * q + 0
    BY 2 * d \in Nat \ {0}, Euclid
  <1>2. p = d * (2 * q) + 0 /\ p + d = d * (2 * q + 1) + 0
    BY <1>1, SMT
  <1>3. 2 * q \in Nat /\ 2 * q + 1 \in Nat /\ 0 \in 0 .. d - 1
    OBVIOUS
  <1> QED
    BY <1>2, <1>3, EuclidUnique

\* What xor with a power of two does to an index, d being the power.
LEMMA Xor ==
    ASSUME NEW d \in Nat \ {0}, NEW p \in Nat, NEW b,
           b = IF (p \div d) % 2 = 0 THEN p + d ELSE p - d
    PROVE  /\ b \in Nat /\ b # p
           /\ b % d = p % d
           /\ p % d = 0 /\ p < b => b = p + d /\ p % (2 * d) = 0
           /\ p % d = 0 /\ ~(p < b) => p = b + d /\ b % (2 * d) = 0 /\ p % (2 * d) # 0
  <1> DEFINE q == p \div d
             r == p % d
  <1>1. q \in Nat /\ r \in 0 .. d - 1 /\ p = d * q + r
    BY Euclid
  <1>2. 2 * d \in Nat \ {0} /\ 0 \in 0 .. 2 * d - 1 /\ d \in 0 .. 2 * d - 1
    OBVIOUS
  <1> HIDE DEF q, r
  <1>3. CASE q % 2 = 0
    <2>1. PICK h \in Nat : q = 2 * h
      BY <1>1, <1>3, SMT
    <2>2. b = p + d
      BY <1>3 DEF q
    <2>3. b = d * (q + 1) + r /\ q + 1 \in Nat
      BY <1>1, <2>2, SMT
    <2>4. b % d = r
      BY <1>1, <2>3, EuclidUnique
    <2>5. ASSUME r = 0 PROVE p % (2 * d) = 0
      <3>1. p = (2 * d) * h + 0
        BY <1>1, <2>1, <2>5, SMT
      <3> QED
        BY <1>2, <3>1, EuclidUnique
    <2>6. b \in Nat /\ p < b
      BY <1>1, <2>2
    <2> QED
      BY <2>2, <2>4, <2>5, <2>6 DEF r
  <1>4. CASE q % 2 # 0
    <2>1. PICK h \in Nat : q = 2 * h + 1
      BY <1>1, <1>4, SMT
    <2>2. b = p - d
      BY <1>4 DEF q
    <2>3. b = d * (q - 1) + r /\ q - 1 \in Nat
      BY <1>1, <2>1, <2>2, SMT
    <2>4. b % d = r
      BY <1>1, <2>3, EuclidUnique
    <2>5. ASSUME r = 0 PROVE b % (2 * d) = 0 /\ p % (2 * d) # 0
      <3>1. b = (2 * d) * h + 0 /\ p = (2 * d) * h + d
        BY <1>1, <2>1, <2>2, <2>5, SMT
      <3> QED
        BY <1>2, <3>1, EuclidUnique
    <2>6. b \in Nat /\ b < p /\ p = b + d
      BY <1>1, <2>2, <2>3
    <2> QED
      BY <2>2, <2>4, <2>5, <2>6 DEF r
  <1> QED
    BY <1>3, <1>4

\* The buddy of the buddy of a block is the block.
LEMMA XorBack ==
    ASSUME NEW d \in Nat \ {0}, NEW p \in Nat, NEW b,
           b = IF (p \div d) % 2 = 0 THEN p + d ELSE p - d
    PROVE  p = IF (b \div d) % 2 = 0 THEN b + d ELSE b - d
  <1> DEFINE q == p \div d
             r == p % d
  <1>1. q \in Nat /\ r \in 0 .. d - 1 /\ p = d * q + r
    BY Euclid
  <1>0. b = IF q % 2 = 0 THEN p + d ELSE p - d
    OBVIOUS
  <1> HIDE DEF q, r
  <1>2. PICK h \in Nat : q = 2 * h \/ q = 2 * h + 1
    BY <1>1, SMT
  <1>3. CASE q = 2 * h
    <2>1. q % 2 = 0 /\ (q + 1) % 2 # 0
      BY <1>2, <1>3, SMT
    <2>2. b = d * (q + 1) + r /\ q + 1 \in Nat /\ p = b - d
      BY <1>0, <1>1, <2>1, SMT
    <2>3. b \div d = q + 1
      BY <1>1, <2>2, EuclidUnique
    <2> QED
      BY <2>1, <2>2, <2>3
  <1>4. CASE q = 2 * h + 1
    <2>1. q % 2 # 0 /\ (q - 1) % 2 = 0
      BY <1>2, <1>4, SMT
    <2>2. b = d * (q - 1) + r /\ q - 1 \in Nat /\ p = b + d
      BY <1>0, <1>1, <1>2, <1>4, <2>1, SMT
    <2>3. b \div d = q - 1
      BY <1>1, <2>2, EuclidUnique
    <2> QED
      BY <2>1, <2>2, <2>3
  <1> QED
    BY <1>2, <1>3, <1>4

-----------------------------------------------------------------------------
(* The inductive invariant *)

BlocksInside == \A p \in Heads : p + Pow2[value[p]] <= Pow2[MaxOrder]

SplitHasBlock ==
    pc = "split" => target \in Orders /\ target <= order /\ frame_list[order] # <<>>

\* free_pages never updates idx: either the page still heads the block that the
\* last round made, or it lies inside it, where no buddy of a block begins.
MergeIdx == pc = "merge" => OnList(idx, order) \/ idx % Pow2[order] # 0

\* The Array and the lists, whatever call runs on them, also while they cover
\* only a part of the page memory.
ArrayOK ==
    /\ value \in [Pages -> {-1} \cup Orders]
    /\ usage \in [Pages -> {"A", "F", "X"}]
    /\ frame_list \in [Orders -> Seq(Pages)]
    /\ HeadsAligned
    /\ BlocksDisjoint
    /\ BlocksUniform
    /\ BlocksInside
    /\ FreeListsExact

\* With what the loops keep of the running call.
Core ==
    /\ TypeOK
    /\ ArrayOK
    /\ SplitHasBlock
    /\ MergeIdx

InBlock(q) == \E p \in Heads : q \in BlockOf(p)

\* The blocks cover what they covered before the step.
CoverKept == \A q \in Pages : InBlock(q)' <=> InBlock(q)

IInv == Core /\ BlocksCover

\* What callers hold, as the abstract allocator sees it.
Held == {<<p, value[p]>> : p \in {q \in Heads : usage[q] = "X"}}

\* A step that changes nothing about allocated pages.
KeepsHeld ==
    \A p \in Pages : /\ usage'[p] = "X" <=> usage[p] = "X"
                     /\ usage[p] = "X" => value'[p] = value[p]

\* The table doubles from order to order; a page is a number below the last power.
LEMMA PowFacts ==
    /\ MaxOrder \in Nat
    /\ \A k \in 0 .. MaxOrder + 1 : Pow2[k] \in Nat \ {0}
    /\ \A k \in Orders : Pow2[k] \in Nat \ {0} /\ Pow2[k + 1] = 2 * Pow2[k]
    /\ \A k \in Orders \ {0} : k - 1 \in Orders /\ Pow2[k] = 2 * Pow2[k - 1]
    /\ \A p : p \in Pages <=> p \in Nat /\ p < Pow2[MaxOrder]
    /\ 0 \in Pages
  <1>1. /\ MaxOrder \in Nat
        /\ \A k \in 0 .. MaxOrder + 1 : Pow2[k] \in Nat \ {0}
        /\ \A k \in Orders : Pow2[k + 1] = 2 * Pow2[k]
    BY MaxOrderAssumption, Pow2Assumption DEF Orders
  <1>2. Orders \subseteq 0 .. MaxOrder + 1 /\ MaxOrder \in Orders
    BY <1>1 DEF Orders
  <1>3. \A k \in Orders \ {0} : k - 1 \in Orders /\ Pow2[k] = 2 * Pow2[k - 1]
    <2> SUFFICES ASSUME NEW k \in Orders \ {0}
                 PROVE  k - 1 \in Orders /\ Pow2[k] = 2 * Pow2[k - 1]
      OBVIOUS
    <2>1. k - 1 \in Orders /\ (k - 1) + 1 = k
      BY <1>1 DEF Orders
    <2> QED
      BY <1>1, <2>1
  <1>4. Pow2[MaxOrder] \in Nat \ {0}
    BY <1>1, <1>2
  <1>5. \A p : p \in Pages <=> p \in Nat /\ p < Pow2[MaxOrder]
    BY <1>4 DEF Pages
  <1> QED
    BY <1>1, <1>2, <1>3, <1>4, <1>5

\* What a node on a list is.
LEMMA ListNodes ==
    ASSUME ArrayOK
    PROVE  /\ \A k \in Orders : \A p :
                 OnList(p, k) <=> p \in Pages /\ value[p] = k /\ usage[p] # "X"
           /\ \A k \in Orders : frame_list[k] # <<>> => OnList(frame_list[k][1], k)
           /\ \A k \in Orders : frame_list[k] \in Seq(Pages) /\ Distinct(frame_list[k])
  <1>1. \A k \in Orders : frame_list[k] \in Seq(Pages)
    BY DEF ArrayOK
  <1>2. ASSUME NEW k \in Orders, NEW p, OnList(p, k) PROVE p \in Pages
    BY <1>1, <1>2, ElementOfSeq DEF OnList, Linked
  <1>3. ASSUME NEW k \in Orders, frame_list[k] # <<>> PROVE OnList(frame_list[k][1], k)
    <2>1. Len(frame_list[k]) \in Nat \ {0}
      BY <1>1, <1>3, EmptySeq
    <2>2. 1 \in 1 .. Len(frame_list[k])
      BY <2>1
    <2> QED
      BY <2>2 DEF OnList, Linked
  <1> QED
    BY <1>1, <1>2, <1>3 DEF ArrayOK, FreeListsExact

\* The one free block of the start: init_page_array and init_frame_list.
LEMMA InitInv == Init => IInv
  <1> SUFFICES ASSUME Init PROVE IInv
    OBVIOUS
  <1> USE DEF Init
  <1>1. \A p \in Pages : value[p] = IF p = 0 THEN MaxOrder ELSE -1
    OBVIOUS
  <1>2. Heads = {0} /\ value[0] = MaxOrder /\ 0 \in Pages /\ BlockOf(0) = Pages
    BY <1>1, PowFacts DEF Heads, BlockOf, Block, Pages
  <1>3. TypeOK
    <2>1. value \in [Pages -> {-1} \cup Orders]
      BY PowFacts DEF Orders
    <2>2. frame_list \in [Orders -> Seq(Pages)]
      BY PowFacts, <<0>> \in Seq(Pages), <<>> \in Seq(Pages)
    <2>3. 0 \in Orders /\ 0 \in 0 .. MaxOrder + 1
      BY PowFacts DEF Orders
    <2> QED
      BY <2>1, <2>2, <2>3, PowFacts DEF TypeOK
  <1>4. \A p \in Pages : usage[p] # "X"
    OBVIOUS
  <1>5. Partition
    <2>1. HeadsAligned
      BY <1>2, PowFacts, Euclid, SMT DEF HeadsAligned
    <2>2. BlocksDisjoint
      BY <1>2 DEF BlocksDisjoint
    <2>3. BlocksCover
      BY <1>2 DEF BlocksCover
    <2>4. BlocksUniform
      BY <1>2, <1>4 DEF BlocksUniform
    <2> QED
      BY <2>1, <2>2, <2>3, <2>4 DEF Partition
  <1>6. BlocksInside
    BY <1>2, PowFacts DEF BlocksInside, Orders
  <1>7. FreeListsExact
    <2>1. ASSUME NEW k \in Orders PROVE Distinct(frame_list[k])
      BY <2>1, SMT DEF Distinct
    <2>2. ASSUME NEW k \in Orders, NEW p \in Pages
          PROVE  OnList(p, k) <=> value[p] = k /\ usage[p] # "X"
      <3>1. CASE k = MaxOrder
        <4>1. frame_list[k] = <<0>>
          BY <3>1
        <4>2. OnList(p, k) <=> p = 0
          BY <4>1 DEF OnList, Linked
        <4> QED
          BY <3>1, <4>2, <1>1, <1>4, PowFacts
      <3>2. CASE k # MaxOrder
        <4>1. frame_list[k] = <<>>
          BY <3>2
        <4>2. ~OnList(p, k)
          BY <4>1 DEF OnList, Linked
        <4>3. value[p] # k
          BY <3>2, <1>1, PowFacts DEF Orders
        <4> QED
          BY <4>2, <4>3
      <3> QED
        BY <3>1, <3>2
    <2> QED
      BY <2>1, <2>2 DEF FreeListsExact
  <1>8. ArrayOK
    BY <1>3, <1>5, <1>6, <1>7 DEF ArrayOK, TypeOK, Partition
  <1> QED
    BY <1>3, <1>5, <1>8 DEF IInv, Core, Partition, SplitHasBlock, MergeIdx

-----------------------------------------------------------------------------
(* Every step preserves it *)

\* A step that leaves The Array and the lists alone keeps what is said of them.
LEMMA ArrayUnchanged ==
    ASSUME ArrayOK, UNCHANGED <<value, usage, frame_list>>
    PROVE  /\ ArrayOK' /\ CoverKept
           /\ Heads' = Heads /\ \A p, k : OnList(p, k)' <=> OnList(p, k)
  <1>1. Heads' = Heads /\ \A p : BlockOf(p)' = BlockOf(p)
    BY DEF Heads, BlockOf, Block
  <1>2. \A p, k : OnList(p, k)' <=> OnList(p, k)
    BY DEF OnList, Linked
  <1>3. HeadsAligned' /\ BlocksDisjoint' /\ BlocksUniform' /\ BlocksInside'
    BY <1>1 DEF ArrayOK, HeadsAligned, BlocksDisjoint, BlocksUniform, BlocksInside
  <1>4. FreeListsExact'
    BY <1>2 DEF ArrayOK, FreeListsExact
  <1>5. CoverKept
    BY <1>1 DEF CoverKept, InBlock
  <1> QED
    BY <1>1, <1>2, <1>3, <1>4, <1>5 DEF ArrayOK

\* A call of alloc_page touches only its locals.
LEMMA AllocCallInv ==
    ASSUME Core, NEW n \in Requests, NEW k \in 0 .. MaxOrder + 1, AllocCall(n, k)
    PROVE  Core' /\ CoverKept
  <1> USE DEF AllocCall
  <1>1. TypeOK'
    BY DEF Core, TypeOK
  <1> QED
    BY <1>1, ArrayUnchanged DEF Core, SplitHasBlock, MergeIdx

\* The search stops at a non-empty list, which gives the split loop its block.
LEMMA SearchFoundInv ==
    ASSUME Core, NEW k \in Orders, SearchFound(k)
    PROVE  Core' /\ CoverKept
  <1> USE DEF SearchFound
  <1>1. TypeOK'
    BY DEF Core, TypeOK
  <1>2. SplitHasBlock'
    <2>1. target \in 0 .. MaxOrder + 1 /\ target <= k
      BY DEF Core, TypeOK, Orders
    <2>2. target \in Orders
      BY <2>1, PowFacts DEF Orders
    <2> QED
      BY <2>1, <2>2 DEF SplitHasBlock
  <1> QED
    BY <1>1, <1>2, ArrayUnchanged DEF Core, MergeIdx

\* A call that returns without touching The Array or the lists.
LEMMA ReturnInv ==
    ASSUME Core, Return, ret' \in Pages \cup {NoPage}, UNCHANGED <<value, usage, frame_list>>
    PROVE  Core' /\ CoverKept
  <1>1. 0 \in Orders /\ 0 \in Pages /\ 0 \in 0 .. MaxOrder + 1
    BY PowFacts DEF Orders
  <1>2. TypeOK'
    BY <1>1 DEF Core, TypeOK, Return
  <1> QED
    BY <1>2, ArrayUnchanged DEF Core, SplitHasBlock, MergeIdx, Return

\* Nothing is broken where nothing changes.
LEMMA StutterInv ==
    ASSUME Core, UNCHANGED vars
    PROVE  Core' /\ CoverKept
  <1>1. TypeOK'
    BY DEF Core, TypeOK, vars, locals
  <1>2. ArrayOK' /\ CoverKept /\ \A p, k : OnList(p, k)' <=> OnList(p, k)
    BY ArrayUnchanged DEF Core, vars
  <1>3. SplitHasBlock' /\ MergeIdx'
    BY <1>2 DEF Core, SplitHasBlock, MergeIdx, vars, locals
  <1> QED
    BY <1>1, <1>2, <1>3 DEF Core

\* What the block is that the split loop looks at.
LEMMA SplitHead ==
    ASSUME Core, pc = "split"
    PROVE  LET h == frame_list[order][1]
           IN  /\ order \in Orders /\ target \in Orders /\ target <= order
               /\ frame_list[order] # <<>>
               /\ h \in Pages /\ h \in Heads
               /\ OnList(h, order)
               /\ value[h] = order /\ usage[h] # "X"
               /\ \A q \in BlockOf(h) : q \in Pages /\ usage[q] # "X"
  <1> DEFINE h == frame_list[order][1]
  <1>1. order \in Orders /\ target \in Orders /\ target <= order /\ frame_list[order] # <<>>
    BY DEF Core, TypeOK, SplitHasBlock
  <1>2. OnList(h, order)
    BY <1>1, ListNodes DEF Core
  <1>3. h \in Pages /\ value[h] = order /\ usage[h] # "X"
    BY <1>1, <1>2, ListNodes DEF Core
  <1> HIDE DEF h
  <1>4. h \in Heads
    BY <1>1, <1>3 DEF Heads, Orders
  <1>5. \A q \in BlockOf(h) : q \in Pages
    <2>1. h + Pow2[order] <= Pow2[MaxOrder]
      BY <1>3, <1>4 DEF Core, ArrayOK, BlocksInside
    <2>2. Pow2[order] \in Nat /\ Pow2[MaxOrder] \in Nat /\ h \in Nat
      BY <1>1, <1>3, PowFacts DEF Orders
    <2>3. SUFFICES ASSUME NEW q \in h .. h + Pow2[order] - 1
                   PROVE  q \in Pages
      BY <1>3 DEF BlockOf, Block
    <2>4. q \in Nat /\ q < Pow2[MaxOrder]
      BY <2>1, <2>2
    <2> QED
      BY <2>4, PowFacts
  <1>6. \A q \in BlockOf(h) : usage[q] # "X"
    BY <1>3, <1>4 DEF Core, ArrayOK, BlocksUniform
  <1> QED
    BY <1>1, <1>2, <1>3, <1>4, <1>5, <1>6 DEF h

\* A page inside a block heads no other block.
LEMMA HeadOfBlock ==
    ASSUME ArrayOK, NEW p \in Heads, NEW q \in Heads, q \in BlockOf(p)
    PROVE  p = q
  <1>1. q \in Pages /\ value[q] \in Orders
    BY DEF Heads, ArrayOK
  <1>2. q \in BlockOf(q)
    BY <1>1, PowFacts DEF BlockOf, Block
  <1> QED
    BY <1>2 DEF ArrayOK, BlocksDisjoint

\* Taking the block marks all of it and unlinks it.
LEMMA TakeInv ==
    ASSUME Core, Take
    PROVE  Core' /\ CoverKept
  <1> DEFINE page == frame_list[order][1]
  <1>1. /\ order \in Orders /\ page \in Pages /\ page \in Heads
        /\ value[page] = order /\ usage[page] # "X" /\ OnList(page, order)
        /\ \A q \in BlockOf(page) : q \in Pages
    BY SplitHead DEF Take
  <1>2. /\ frame_list' = [frame_list EXCEPT ![order] = list_del(@, page)]
        /\ usage' = [p \in Pages |-> IF p \in BlockOf(page) THEN "X" ELSE usage[p]]
        /\ ret' = page /\ value' = value /\ Return
    BY DEF Take, BlockOf
  <1> HIDE DEF page
  <1>3. TypeOK'
    <2>1. list_del(frame_list[order], page) \in Seq(Pages)
      BY <1>1, ListNodes, ListDel DEF Core
    <2>2. frame_list' \in [Orders -> Seq(Pages)]
      BY <1>1, <1>2, <2>1 DEF Core, TypeOK
    <2>3. usage' \in [Pages -> {"A", "F", "X"}]
      BY <1>2 DEF Core, TypeOK
    <2>4. 0 \in Orders /\ 0 \in Pages /\ 0 \in 0 .. MaxOrder + 1
      BY PowFacts DEF Orders
    <2> QED
      BY <1>1, <1>2, <2>2, <2>3, <2>4 DEF Core, TypeOK, Return
  <1>4. Heads' = Heads /\ \A p : BlockOf(p)' = BlockOf(p)
    BY <1>2 DEF Heads, BlockOf, Block
  <1>5. page \in BlockOf(page)
    BY <1>1, PowFacts DEF BlockOf, Block
  <1>6. ASSUME NEW p \in Heads, p # page
        PROVE  \A q \in BlockOf(p) \cap Pages : usage'[q] = usage[q]
    BY <1>1, <1>2, <1>6 DEF Core, ArrayOK, BlocksDisjoint
  <1>7. \A p \in Heads : \A q \in BlockOf(p) : q \in Pages
    <2>1. \A p \in Heads : p \in Pages /\ value[p] \in Orders /\ p + Pow2[value[p]] <= Pow2[MaxOrder]
      BY DEF Heads, Core, ArrayOK, BlocksInside
    <2> QED
      BY <2>1, PowFacts DEF BlockOf, Block
  <1>8. HeadsAligned' /\ BlocksDisjoint' /\ BlocksUniform' /\ CoverKept
    <2>1. HeadsAligned' /\ BlocksDisjoint' /\ CoverKept
      BY <1>2, <1>4 DEF Core, ArrayOK, HeadsAligned, BlocksDisjoint, CoverKept, InBlock
    <2>2. BlocksUniform'
      <3>1. ASSUME NEW p \in Heads, NEW q \in BlockOf(p)
            PROVE  usage'[q] = "X" <=> usage'[p] = "X"
        <4>1. CASE p = page
          BY <1>1, <1>2, <1>5, <1>7, <4>1
        <4>2. CASE p # page
          <5>1. p \in BlockOf(p)
            BY PowFacts DEF Heads, BlockOf, Block, Core, TypeOK
          <5>2. usage'[q] = usage[q] /\ usage'[p] = usage[p]
            BY <1>6, <1>7, <4>2, <5>1
          <5> QED
            BY <5>2 DEF Core, ArrayOK, BlocksUniform
        <4> QED
          BY <4>1, <4>2
      <3> QED
        BY <1>4, <3>1 DEF BlocksUniform
    <2> QED
      BY <2>1, <2>2
  <1>9. BlocksInside'
    BY <1>2, <1>4 DEF Core, ArrayOK, BlocksInside
  <1>10. FreeListsExact'
    <2>1. ASSUME NEW k \in Orders
          PROVE  /\ Distinct(frame_list'[k])
                 /\ \A p : Linked(p, frame_list'[k]) <=> OnList(p, k) /\ p # page
      <3>1. CASE k = order
        <4>1. frame_list'[k] = list_del(frame_list[k], page)
          BY <1>2, <3>1 DEF Core, TypeOK
        <4> QED
          BY <4>1, ListNodes, ListDel DEF Core, OnList
      <3>2. CASE k # order
        <4>1. frame_list'[k] = frame_list[k]
          BY <1>2, <3>2 DEF Core, TypeOK
        <4>2. ~OnList(page, k)
          BY <1>1, <3>2, ListNodes DEF Core
        <4> QED
          BY <4>1, <4>2, ListNodes DEF Core, OnList
      <3> QED
        BY <3>1, <3>2
    <2>2. ASSUME NEW k \in Orders, NEW p \in Pages
          PROVE  OnList(p, k)' <=> value'[p] = k /\ usage'[p] # "X"
      <3>1. OnList(p, k)' <=> value[p] = k /\ usage[p] # "X" /\ p # page
        BY <2>1, ListNodes DEF OnList, Core
      <3>2. CASE p \in Heads
        <4>1. p # page => usage'[p] = usage[p]
          <5>1. p \in BlockOf(p)
            BY <3>2, PowFacts DEF Heads, BlockOf, Block, Core, TypeOK
          <5> QED
            BY <1>6, <3>2, <5>1
        <4>2. usage'[page] = "X"
          BY <1>1, <1>2, <1>5
        <4> QED
          BY <1>2, <3>1, <4>1, <4>2
      <3>3. CASE p \notin Heads
        BY <1>2, <3>1, <3>3 DEF Heads, Orders
      <3> QED
        BY <3>2, <3>3
    <2> QED
      BY <2>1, <2>2 DEF FreeListsExact
  <1> QED
    BY <1>2, <1>3, <1>8, <1>9, <1>10
       DEF Core, ArrayOK, TypeOK, SplitHasBlock, MergeIdx, Return

\* Giving a block back links its first page and marks all of it free.
LEMMA FreeCallInv ==
    ASSUME Core, NEW page \in Pages, NotInside(page), FreeCall(page)
    PROVE  Core' /\ CoverKept
  <1> DEFINE k0 == value[page]
  <1>1. /\ k0 \in Orders /\ page \in Heads /\ usage[page] = "X"
        /\ \A q \in BlockOf(page) : usage[q] = "X"
    BY DEF FreeCall, NotInside, Core, ArrayOK, Heads, BlocksUniform
  <1>2. /\ frame_list' = [frame_list EXCEPT ![k0] = list_add_tail(@, page)]
        /\ usage' = [q \in Pages |-> IF q \notin BlockOf(page) THEN usage[q]
                                     ELSE IF q = page THEN "A" ELSE "F"]
        /\ value' = value /\ order' = k0 /\ idx' = page /\ pc' = "merge"
        /\ ret' = NoPage /\ UNCHANGED <<size, target>>
    BY DEF FreeCall, BlockOf
  <1>3. value[page] = k0
    OBVIOUS
  <1> HIDE DEF k0
  <1>4. ~OnList(page, k0)
    BY <1>1, ListNodes DEF Core
  <1>5. TypeOK'
    <2>1. list_add_tail(frame_list[k0], page) \in Seq(Pages)
      BY <1>1, ListNodes, ListAdd DEF Core
    <2>2. frame_list' \in [Orders -> Seq(Pages)]
      BY <1>1, <1>2, <2>1 DEF Core, TypeOK
    <2>3. usage' \in [Pages -> {"A", "F", "X"}]
      BY <1>2 DEF Core, TypeOK
    <2> QED
      BY <1>1, <1>2, <2>2, <2>3 DEF Core, TypeOK
  <1>6. Heads' = Heads /\ \A p : BlockOf(p)' = BlockOf(p)
    BY <1>2 DEF Heads, BlockOf, Block
  <1>7. \A p \in Heads : p \in BlockOf(p) /\ \A q \in BlockOf(p) : q \in Pages
    <2>1. \A p \in Heads : p \in Pages /\ value[p] \in Orders /\ p + Pow2[value[p]] <= Pow2[MaxOrder]
      BY DEF Heads, Core, ArrayOK, BlocksInside
    <2> QED
      BY <2>1, PowFacts DEF BlockOf, Block
  <1>8. ASSUME NEW p \in Heads, p # page
        PROVE  \A q \in BlockOf(p) : usage'[q] = usage[q]
    BY <1>1, <1>2, <1>7, <1>8 DEF Core, ArrayOK, BlocksDisjoint
  <1>9. \A q \in BlockOf(page) : usage'[q] # "X"
    BY <1>1, <1>2, <1>7
  <1>10. HeadsAligned' /\ BlocksDisjoint' /\ BlocksUniform' /\ CoverKept
    <2>1. HeadsAligned' /\ BlocksDisjoint' /\ CoverKept
      BY <1>2, <1>6 DEF Core, ArrayOK, HeadsAligned, BlocksDisjoint, CoverKept, InBlock
    <2>2. ASSUME NEW p \in Heads, NEW q \in BlockOf(p)
          PROVE  usage'[q] = "X" <=> usage'[p] = "X"
      <3>1. CASE p = page
        BY <1>1, <1>7, <1>9, <3>1
      <3>2. CASE p # page
        BY <1>7, <1>8, <3>2 DEF Core, ArrayOK, BlocksUniform
      <3> QED
        BY <3>1, <3>2
    <2> QED
      BY <1>6, <2>1, <2>2 DEF BlocksUniform
  <1>11. BlocksInside'
    BY <1>2, <1>6 DEF Core, ArrayOK, BlocksInside
  <1>12. \A k \in Orders : /\ Distinct(frame_list'[k])
                           /\ \A p : Linked(p, frame_list'[k])
                                     <=> OnList(p, k) \/ (p = page /\ k = k0)
    <2> SUFFICES ASSUME NEW k \in Orders
                 PROVE  /\ Distinct(frame_list'[k])
                        /\ \A p : Linked(p, frame_list'[k])
                                     <=> OnList(p, k) \/ (p = page /\ k = k0)
      OBVIOUS
    <2>1. CASE k = k0
      <3>1. frame_list'[k] = list_add_tail(frame_list[k], page)
        BY <1>2, <2>1 DEF Core, TypeOK
      <3> QED
        BY <2>1, <3>1, <1>4, ListNodes, ListAdd DEF Core, OnList
    <2>2. CASE k # k0
      <3>1. frame_list'[k] = frame_list[k]
        BY <1>2, <2>2 DEF Core, TypeOK
      <3> QED
        BY <2>2, <3>1, ListNodes DEF Core, OnList
    <2> QED
      BY <2>1, <2>2
  <1>13. FreeListsExact'
    <2>1. ASSUME NEW k \in Orders, NEW p \in Pages
          PROVE  OnList(p, k)' <=> value'[p] = k /\ usage'[p] # "X"
      <3>1. OnList(p, k)' <=> (value[p] = k /\ usage[p] # "X") \/ (p = page /\ k = k0)
        BY <1>12, ListNodes DEF OnList, Core
      <3>2. CASE p = page
        BY <3>1, <3>2, <1>1, <1>2, <1>3, <1>7, <1>9
      <3>3. CASE p # page /\ p \in Heads
        BY <3>1, <3>3, <1>2, <1>7, <1>8
      <3>4. CASE p \notin Heads
        BY <3>1, <3>4, <1>1, <1>2 DEF Heads, Orders
      <3> QED
        BY <3>2, <3>3, <3>4
    <2> QED
      BY <1>12, <2>1 DEF FreeListsExact, OnList
  <1>14. MergeIdx'
    BY <1>1, <1>2, <1>12 DEF MergeIdx, OnList
  <1> QED
    BY <1>2, <1>5, <1>10, <1>11, <1>13, <1>14 DEF Core, ArrayOK, TypeOK, SplitHasBlock

\* The split loop: h is cut into h and its upper half nb, both one order below.
LEMMA SplitInv ==
    ASSUME Core, Split
    PROVE  Core' /\ CoverKept /\ KeepsHeld
  <1>0. PICK h, k1, d, nb : h = frame_list[order][1] /\ k1 = order - 1
                          /\ d = Pow2[k1] /\ nb = h + d
    OBVIOUS
  <1>1. /\ order \in Orders /\ target \in Orders /\ target <= order /\ order # target
        /\ h \in Pages /\ h \in Heads /\ OnList(h, order)
        /\ value[h] = order /\ usage[h] # "X"
        /\ \A q \in BlockOf(h) : q \in Pages /\ usage[q] # "X"
    BY <1>0, SplitHead DEF Split
  <1>2. /\ k1 \in Orders /\ order = k1 + 1 /\ target <= k1
        /\ d \in Nat \ {0} /\ Pow2[order] = 2 * d
    <2>1. order \in Nat \ {0} /\ order \in Orders \ {0} /\ target \in Nat
      BY <1>1 DEF Orders
    <2>2. order - 1 \in Orders /\ Pow2[order] = 2 * Pow2[order - 1]
      BY <2>1, PowFacts
    <2>3. k1 \in Orders /\ Pow2[order] = 2 * d
      BY <1>0, <2>2
    <2>4. d \in Nat \ {0}
      BY <1>0, <2>3, PowFacts
    <2>5. k1 = order - 1
      BY <1>0
    <2> QED
      BY <1>1, <2>1, <2>3, <2>4, <2>5
  <1>3. h \in Nat /\ nb \in Nat /\ nb = h + d /\ h < nb
    BY <1>0, <1>1, <1>2, PowFacts
  <1>4. nb \in BlockOf(h) /\ nb \in Pages /\ usage[nb] # "X"
    <2>1. nb \in BlockOf(h)
      BY <1>1, <1>2, <1>3 DEF BlockOf, Block
    <2> QED
      BY <2>1, <1>1
  <1>5. value[nb] = -1
    BY <1>1, <1>3, <1>4, HeadOfBlock DEF Heads, Core
  <1>6. /\ value' = [value EXCEPT ![h] = k1, ![nb] = k1]
        /\ frame_list' = [frame_list EXCEPT
              ![order] = list_del(@, h),
              ![k1] = list_add_tail(list_add_tail(@, h), nb)]
        /\ order' = k1
        /\ UNCHANGED <<usage, pc, size, target, idx, ret>>
    BY <1>0, <1>1, <1>2, <1>4 DEF Split
  <1>7. \A p \in Pages : value'[p] = IF p = h \/ p = nb THEN k1 ELSE value[p]
    BY <1>1, <1>4, <1>6 DEF Core, TypeOK
  <1>8. \A k \in Orders : /\ frame_list'[k] \in Seq(Pages)
                          /\ Distinct(frame_list'[k])
                          /\ \A p : Linked(p, frame_list'[k]) <=>
                                IF p = h \/ p = nb THEN k = k1 ELSE OnList(p, k)
    <2> SUFFICES ASSUME NEW k \in Orders
                 PROVE  /\ frame_list'[k] \in Seq(Pages)
                        /\ Distinct(frame_list'[k])
                        /\ \A p : Linked(p, frame_list'[k]) <=>
                              IF p = h \/ p = nb THEN k = k1 ELSE OnList(p, k)
      OBVIOUS
    <2>1. ~OnList(nb, k) /\ (OnList(h, k) <=> k = order) /\ k1 # order
      BY <1>1, <1>2, <1>4, <1>5, ListNodes DEF Core, Orders
    <2>2. CASE k = order
      <3>1. frame_list'[k] = list_del(frame_list[k], h)
        BY <1>2, <1>6, <2>1, <2>2 DEF Core, TypeOK
      <3> QED
        BY <2>1, <2>2, <3>1, ListNodes, ListDel DEF Core, OnList
    <2>3. CASE k = k1
      <3>1. frame_list'[k] = list_add_tail(list_add_tail(frame_list[k], h), nb)
        BY <1>2, <1>6, <2>1, <2>3 DEF Core, TypeOK
      <3> DEFINE l == list_add_tail(frame_list[k], h)
      <3>2. /\ l \in Seq(Pages) /\ Distinct(l)
            /\ \A p : Linked(p, l) <=> OnList(p, k) \/ p = h
        <4>1. frame_list[k] \in Seq(Pages) /\ Distinct(frame_list[k])
          BY ListNodes DEF Core
        <4>2. h \in Pages /\ ~Linked(h, frame_list[k])
          BY <1>1, <2>1, <2>3 DEF OnList
        <4> QED
          BY <4>1, <4>2, ListAdd DEF OnList
      <3> HIDE DEF l
      <3>3. ~Linked(nb, l)
        BY <1>3, <2>1, <3>2
      <3>4. /\ list_add_tail(l, nb) \in Seq(Pages) /\ Distinct(list_add_tail(l, nb))
            /\ \A p : Linked(p, list_add_tail(l, nb)) <=> Linked(p, l) \/ p = nb
        BY <1>4, <3>2, <3>3, ListAdd
      <3>5. frame_list'[k] = list_add_tail(l, nb)
        BY <3>1 DEF l
      <3> QED
        BY <2>3, <3>2, <3>4, <3>5
    <2>4. CASE k # order /\ k # k1
      <3>1. frame_list'[k] = frame_list[k]
        BY <1>2, <1>6, <2>4 DEF Core, TypeOK
      <3> QED
        BY <2>1, <2>4, <3>1, ListNodes DEF Core, OnList
    <2> QED
      BY <2>2, <2>3, <2>4
  <1>9. TypeOK'
    <2>1. value' \in [Pages -> {-1} \cup Orders]
      BY <1>2, <1>6 DEF Core, TypeOK
    <2>2. frame_list' \in [Orders -> Seq(Pages)]
      <3>1. \A k \in Orders : frame_list'[k] \in Seq(Pages)
        BY <1>8
      <3>2. DOMAIN frame_list' = Orders /\ frame_list' = [k \in Orders |-> frame_list'[k]]
        BY <1>6 DEF Core, TypeOK
      <3> QED
        BY <3>1, <3>2
    <2> QED
      BY <1>2, <1>6, <2>1, <2>2 DEF Core, TypeOK
  <1>10. Heads' = Heads \cup {nb}
    <2>1. k1 # -1
      BY <1>2 DEF Orders
    <2> QED
      BY <1>1, <1>4, <1>7, <2>1 DEF Heads
  <1>11. /\ \A p \in Heads \ {h} : BlockOf(p)' = BlockOf(p) /\ p # nb
         /\ \A q : q \in BlockOf(h)' <=> q \in BlockOf(h) /\ q < nb
         /\ \A q : q \in BlockOf(nb)' <=> q \in BlockOf(h) /\ q >= nb
    <2>1. \A p \in Heads \ {h} : BlockOf(p)' = BlockOf(p) /\ p # nb
      BY <1>5, <1>7 DEF Heads, BlockOf, Block
    <2>2. /\ BlockOf(h)' = h .. nb - 1
          /\ BlockOf(nb)' = nb .. nb + d - 1
          /\ BlockOf(h) = h .. nb + d - 1
      <3>1. value'[h] = k1 /\ value'[nb] = k1
        BY <1>1, <1>4, <1>7
      <3>2. /\ BlockOf(h)' = h .. h + d - 1
            /\ BlockOf(nb)' = nb .. nb + d - 1
            /\ BlockOf(h) = h .. h + 2 * d - 1
        BY <1>0, <1>1, <1>2, <3>1 DEF BlockOf, Block
      <3>3. h + d - 1 = nb - 1 /\ h + 2 * d - 1 = nb + d - 1
        BY <1>2, <1>3
      <3> QED
        BY <3>2, <3>3
    <2>3. h < nb
      BY <1>2, <1>3
    <2> QED
      BY <1>2, <1>3, <2>1, <2>2, <2>3
  <1>12. HeadsAligned'
    <2>1. h % d = 0 /\ nb % d = 0
      <3>1. h % (2 * d) = 0
        BY <1>1, <1>2 DEF Core, ArrayOK, HeadsAligned
      <3> QED
        BY <1>2, <1>3, <3>1, HalvesAligned
    <2> QED
      BY <2>1, <1>0, <1>1, <1>4, <1>7, <1>10 DEF Core, ArrayOK, HeadsAligned, Heads
  <1>13. BlocksDisjoint'
    <2> SUFFICES ASSUME NEW p \in Heads', NEW q \in Heads', p # q,
                        NEW x \in BlockOf(p)', x \in BlockOf(q)'
                 PROVE  FALSE
      BY DEF BlocksDisjoint
    <2> DEFINE o(r) == IF r = nb THEN h ELSE r
    <2>1. o(p) \in Heads /\ o(q) \in Heads /\ x \in BlockOf(o(p)) /\ x \in BlockOf(o(q))
      BY <1>1, <1>10, <1>11
    <2>2. o(p) = o(q)
      BY <2>1 DEF Core, ArrayOK, BlocksDisjoint
    <2>3. (p = h /\ q = nb) \/ (p = nb /\ q = h)
      BY <2>2
    <2>4. x \in Int
      BY <2>1 DEF BlockOf, Block
    <2> QED
      BY <2>3, <2>4, <1>3, <1>11
  <1>14. CoverKept
    <2> SUFFICES ASSUME NEW q \in Pages PROVE InBlock(q)' <=> InBlock(q)
      BY DEF CoverKept
    <2>0. q \in Nat /\ h \in Heads' /\ nb \in Heads' /\ Heads' = Heads \cup {nb}
      BY <1>1, <1>10, PowFacts
    <2>1. ASSUME InBlock(q) PROVE InBlock(q)'
      <3>1. PICK p \in Heads : q \in BlockOf(p)
        BY <2>1 DEF InBlock
      <3>2. \E p2 \in Heads' : q \in BlockOf(p2)'
        BY <1>3, <1>11, <2>0, <3>1
      <3> QED
        BY <3>2 DEF InBlock
    <2>2. ASSUME InBlock(q)' PROVE InBlock(q)
      <3>1. PICK p \in Heads' : q \in BlockOf(p)'
        BY <2>2 DEF InBlock
      <3>2. \E p2 \in Heads : q \in BlockOf(p2)
        BY <1>1, <1>11, <2>0, <3>1
      <3> QED
        BY <3>2 DEF InBlock
    <2> QED
      BY <2>1, <2>2
  <1>15. BlocksUniform'
    <2> SUFFICES ASSUME NEW p \in Heads', NEW q \in BlockOf(p)'
                 PROVE  usage[q] = "X" <=> usage[p] = "X"
      BY <1>6 DEF BlocksUniform
    <2>1. CASE p = h \/ p = nb
      BY <2>1, <1>1, <1>4, <1>11
    <2>2. CASE p # h /\ p # nb
      BY <2>2, <1>10, <1>11 DEF Core, ArrayOK, BlocksUniform
    <2> QED
      BY <2>1, <2>2
  <1>16. BlocksInside'
    <2>1. h + 2 * d <= Pow2[MaxOrder]
      BY <1>1, <1>2 DEF Core, ArrayOK, BlocksInside
    <2>2. Pow2[MaxOrder] \in Nat
      BY PowFacts DEF Orders
    <2>3. h + d <= Pow2[MaxOrder] /\ nb + d <= Pow2[MaxOrder]
      BY <1>2, <1>3, <2>1, <2>2
    <2> QED
      BY <2>3, <1>0, <1>1, <1>4, <1>7, <1>10 DEF Core, ArrayOK, BlocksInside, Heads
  <1>17. FreeListsExact'
    <2>1. ASSUME NEW k \in Orders, NEW p \in Pages
          PROVE  OnList(p, k)' <=> value'[p] = k /\ usage'[p] # "X"
      <3>1. CASE p = h \/ p = nb
        <4>1. OnList(p, k)' <=> k = k1
          BY <3>1, <1>8 DEF OnList
        <4> QED
          BY <4>1, <3>1, <1>1, <1>4, <1>6, <1>7
      <3>2. CASE p # h /\ p # nb
        <4>1. OnList(p, k)' <=> OnList(p, k)
          BY <3>2, <1>8 DEF OnList
        <4> QED
          BY <4>1, <3>2, <1>6, <1>7, ListNodes DEF Core
      <3> QED
        BY <3>1, <3>2
    <2> QED
      BY <1>8, <2>1 DEF FreeListsExact
  <1>18. SplitHasBlock'
    <2>1. Linked(h, frame_list'[k1])
      BY <1>2, <1>8
    <2>2. frame_list'[k1] # <<>>
      BY <2>1 DEF Linked
    <2> QED
      BY <1>1, <1>2, <1>6, <2>2 DEF SplitHasBlock
  <1>19. MergeIdx'
    BY <1>6 DEF MergeIdx, Split
  <1>20. KeepsHeld
    BY <1>1, <1>4, <1>6, <1>7 DEF KeepsHeld
  <1> QED
    BY <1>9, <1>12, <1>13, <1>14, <1>15, <1>16, <1>17, <1>18, <1>19, <1>20
       DEF Core, ArrayOK, TypeOK

\* When a round finds the buddy, idx heads a free block of that order too.
LEMMA MergePair ==
    ASSUME Core, pc = "merge", OnList(Buddy(idx, order), order)
    PROVE  LET b == Buddy(idx, order)
               d == Pow2[order]
           IN  /\ order \in Orders /\ order < MaxOrder
               /\ OnList(idx, order)
               /\ b \in Pages /\ value[b] = order /\ usage[b] # "X"
               /\ idx \in Pages /\ value[idx] = order /\ usage[idx] # "X"
               /\ idx < b => b = idx + d /\ idx % (2 * d) = 0
               /\ ~(idx < b) => idx = b + d /\ b % (2 * d) = 0 /\ idx % (2 * d) # 0
  <1>0. PICK b, d : b = Buddy(idx, order) /\ d = Pow2[order]
    OBVIOUS
  <1>1. order \in Orders /\ idx \in Pages /\ idx \in Nat /\ d \in Nat \ {0}
    BY <1>0, PowFacts DEF Core, TypeOK
  <1>2. b \in Pages /\ value[b] = order /\ usage[b] # "X"
    BY <1>0, <1>1, ListNodes DEF Core
  <1>3. b \in Heads
    BY <1>1, <1>2 DEF Heads, Orders
  <1>4. b % d = 0
    BY <1>0, <1>2, <1>3 DEF Core, ArrayOK, HeadsAligned
  <1>5. /\ b # idx /\ b % d = idx % d
        /\ idx % d = 0 /\ idx < b => b = idx + d /\ idx % (2 * d) = 0
        /\ idx % d = 0 /\ ~(idx < b)
              => idx = b + d /\ b % (2 * d) = 0 /\ idx % (2 * d) # 0
    <2>1. b = IF (idx \div d) % 2 = 0 THEN idx + d ELSE idx - d
      BY <1>0 DEF Buddy
    <2> QED
      BY <1>1, <2>1, Xor
  <1>6. OnList(idx, order)
    BY <1>0, <1>4, <1>5 DEF Core, MergeIdx
  <1>7. value[idx] = order /\ usage[idx] # "X" /\ idx \in Heads
    BY <1>1, <1>6, ListNodes DEF Core, Heads, Orders
  <1>8. order < MaxOrder
    <2>1. b + d <= Pow2[MaxOrder] /\ idx + d <= Pow2[MaxOrder]
      BY <1>0, <1>2, <1>3, <1>7 DEF Core, ArrayOK, BlocksInside
    <2>2. b \in Nat /\ Pow2[MaxOrder] \in Nat
      BY <1>2, PowFacts DEF Orders
    <2>3. Pow2[MaxOrder] # d
      BY <1>1, <1>4, <1>5, <2>1, <2>2
    <2> QED
      BY <1>0, <1>1, <2>3, PowFacts DEF Orders
  <1> QED
    BY <1>0, <1>1, <1>2, <1>4, <1>5, <1>6, <1>7, <1>8

\* Two free blocks of order k that lie side by side, the lower one at a multiple
\* of the next size, and the step that makes one block of them, whichever of the
\* two is deleted from its list first.
Halves(base, high, k) ==
    /\ k \in Orders /\ k + 1 \in Orders
    /\ base \in Pages /\ value[base] = k /\ usage[base] # "X"
    /\ high \in Pages /\ value[high] = k /\ usage[high] # "X"
    /\ high = base + Pow2[k] /\ base % (2 * Pow2[k]) = 0

BecomeOne(base, high, k, a, b) ==
    /\ {a, b} = {base, high}
    /\ value' \in [Pages -> {-1} \cup Orders]
    /\ \A p \in Pages : value'[p] = IF p = base THEN k + 1
                                    ELSE IF p = high THEN -1 ELSE value[p]
    /\ usage' \in [Pages -> {"A", "F", "X"}]
    /\ \A p \in Pages : usage'[p] = "X" <=> usage[p] = "X"
    /\ frame_list' = [frame_list EXCEPT
          ![k] = list_del(list_del(@, a), b),
          ![k + 1] = list_add_tail(@, base)]

\* The rest of The Array and of the lists does not notice.
LEMMA MergeBlocks ==
    ASSUME ArrayOK, NEW base, NEW high, NEW k0, Halves(base, high, k0),
           NEW a, NEW b, BecomeOne(base, high, k0, a, b)
    PROVE  /\ ArrayOK' /\ CoverKept
           /\ frame_list' \in [Orders -> Seq(Pages)]
           /\ \A k \in Orders : \A p : Linked(p, frame_list'[k]) <=>
                 IF p = base THEN k = k0 + 1
                 ELSE IF p = high THEN FALSE ELSE OnList(p, k)
  <1>0. PICK d : d = Pow2[k0]
    OBVIOUS
  <1>1. /\ k0 \in Orders /\ k0 + 1 \in Orders
        /\ base \in Pages /\ value[base] = k0 /\ usage[base] # "X"
        /\ high \in Pages /\ value[high] = k0 /\ usage[high] # "X"
        /\ high = base + d /\ base % (2 * d) = 0
        /\ {a, b} = {base, high}
    BY <1>0 DEF Halves, BecomeOne
  <1>2. /\ base \in Nat /\ d \in Nat \ {0} /\ Pow2[k0 + 1] = 2 * d /\ high \in Nat
        /\ base # high
    BY <1>0, <1>1, PowFacts
  <1>3. base \in Heads /\ high \in Heads
    BY <1>1 DEF Heads, Orders
  <1>4. /\ \A q : q \in Block(base, k0 + 1) <=> q \in BlockOf(base) \/ q \in BlockOf(high)
        /\ base \in Block(base, k0 + 1)
    <2>1. /\ BlockOf(base) = base .. base + d - 1
          /\ BlockOf(high) = high .. high + d - 1
          /\ Block(base, k0 + 1) = base .. base + 2 * d - 1
      BY <1>0, <1>1, <1>2 DEF BlockOf, Block
    <2>2. high + d - 1 = base + 2 * d - 1 /\ high = base + d
      BY <1>1, <1>2
    <2> QED
      BY <1>2, <2>1, <2>2
  <1>5. frame_list' = [frame_list EXCEPT
              ![k0] = list_del(list_del(@, a), b),
              ![k0 + 1] = list_add_tail(@, base)]
    BY DEF BecomeOne
  <1>6. \A p \in Block(base, k0 + 1) : p \in Pages /\ usage[p] # "X"
    <2>1. \A p \in Heads : p \in Pages /\ value[p] \in Orders /\ p + Pow2[value[p]] <= Pow2[MaxOrder]
      BY DEF Heads, ArrayOK, BlocksInside
    <2>2. \A p \in Heads : \A q \in BlockOf(p) : q \in Pages
      BY <2>1, PowFacts DEF BlockOf, Block
    <2> QED
      BY <1>1, <1>3, <1>4, <2>2 DEF ArrayOK, BlocksUniform
  <1>7. /\ usage' \in [Pages -> {"A", "F", "X"}]
        /\ \A p \in Pages : usage'[p] = "X" <=> usage[p] = "X"
    BY DEF BecomeOne
  <1>8. /\ value' \in [Pages -> {-1} \cup Orders]
        /\ \A p \in Pages : value'[p] = IF p = base THEN k0 + 1
                                        ELSE IF p = high THEN -1 ELSE value[p]
    BY DEF BecomeOne
  <1>9. Heads' = Heads \ {high}
    <2>1. k0 # -1 /\ k0 + 1 # -1
      BY <1>1 DEF Orders
    <2> QED
      BY <1>1, <1>2, <1>8, <2>1 DEF Heads
  <1>10. /\ \A p \in Heads \ {base, high} : BlockOf(p)' = BlockOf(p)
         /\ \A q : q \in BlockOf(base)' <=> q \in BlockOf(base) \/ q \in BlockOf(high)
    <2>1. \A p \in Heads \ {base, high} : BlockOf(p)' = BlockOf(p)
      BY <1>8 DEF Heads, BlockOf, Block
    <2>2. BlockOf(base)' = Block(base, k0 + 1)
      BY <1>1, <1>8 DEF BlockOf, Block
    <2> QED
      BY <1>4, <2>1, <2>2
  <1>11. \A k \in Orders : /\ frame_list'[k] \in Seq(Pages)
                           /\ Distinct(frame_list'[k])
                           /\ \A p : Linked(p, frame_list'[k]) <=>
                                 IF p = base THEN k = k0 + 1
                                 ELSE IF p = high THEN FALSE ELSE OnList(p, k)
    <2> SUFFICES ASSUME NEW k \in Orders
                 PROVE  /\ frame_list'[k] \in Seq(Pages)
                        /\ Distinct(frame_list'[k])
                        /\ \A p : Linked(p, frame_list'[k]) <=>
                              IF p = base THEN k = k0 + 1
                              ELSE IF p = high THEN FALSE ELSE OnList(p, k)
      OBVIOUS
    <2>0. k0 # k0 + 1
      BY <1>1 DEF Orders
    <2>1. (OnList(base, k) <=> k = k0) /\ (OnList(high, k) <=> k = k0)
      BY <1>1, ListNodes
    <2>2. CASE k = k0
      <3>1. frame_list'[k] = list_del(list_del(frame_list[k], a), b)
        BY <1>1, <1>5, <2>0, <2>2 DEF ArrayOK
      <3>2. PICK l : l = list_del(frame_list[k], a)
        OBVIOUS
      <3>3. /\ l \in Seq(Pages) /\ Distinct(l)
            /\ \A p : Linked(p, l) <=> OnList(p, k) /\ p # a
        BY <3>2, ListNodes, ListDel DEF OnList
      <3>4. /\ list_del(l, b) \in Seq(Pages) /\ Distinct(list_del(l, b))
            /\ \A p : Linked(p, list_del(l, b)) <=> Linked(p, l) /\ p # b
        BY <3>3, ListDel
      <3>5. frame_list'[k] = list_del(l, b)
        BY <3>1, <3>2
      <3>6. \A p : p \in {a, b} <=> p \in {base, high}
        BY <1>1
      <3> QED
        BY <2>0, <2>2, <3>3, <3>4, <3>5, <3>6
    <2>3. CASE k = k0 + 1
      <3>1. frame_list'[k] = list_add_tail(frame_list[k], base)
        BY <1>1, <1>5, <2>0, <2>3 DEF ArrayOK
      <3>2. ~OnList(base, k) /\ ~OnList(high, k)
        BY <2>0, <2>1, <2>3
      <3>3. /\ frame_list'[k] \in Seq(Pages) /\ Distinct(frame_list'[k])
            /\ \A p : Linked(p, frame_list'[k]) <=> OnList(p, k) \/ p = base
        <4>1. /\ frame_list[k] \in Seq(Pages) /\ Distinct(frame_list[k])
              /\ ~Linked(base, frame_list[k])
          BY <3>2, ListNodes DEF OnList
        <4>2. /\ list_add_tail(frame_list[k], base) \in Seq(Pages)
              /\ Distinct(list_add_tail(frame_list[k], base))
              /\ \A p : Linked(p, list_add_tail(frame_list[k], base))
                           <=> Linked(p, frame_list[k]) \/ p = base
          BY <1>1, <4>1, ListAdd
        <4> QED
          BY <3>1, <4>2 DEF OnList
      <3> QED
        BY <1>2, <2>3, <3>2, <3>3
    <2>4. CASE k # k0 /\ k # k0 + 1
      <3>1. frame_list'[k] = frame_list[k]
        BY <1>1, <1>5, <2>4 DEF ArrayOK
      <3> QED
        BY <2>1, <2>4, <3>1, ListNodes DEF OnList
    <2> QED
      BY <2>2, <2>3, <2>4
  <1>12. frame_list' \in [Orders -> Seq(Pages)]
    <2>1. \A k \in Orders : frame_list'[k] \in Seq(Pages)
      BY <1>11
    <2>2. frame_list' = [k \in Orders |-> frame_list'[k]]
      BY <1>5 DEF ArrayOK
    <2> QED
      BY <2>1, <2>2
  <1>13. HeadsAligned'
    <2>1. ASSUME NEW p \in Heads \ {high} PROVE p % Pow2[value'[p]] = 0
      <3>1. p \in Pages /\ p % Pow2[value[p]] = 0
        BY DEF Heads, ArrayOK, HeadsAligned
      <3> QED
        BY <1>1, <1>2, <1>8, <3>1
    <2> QED
      BY <1>9, <2>1 DEF HeadsAligned
  <1>14. BlocksDisjoint'
    <2> SUFFICES ASSUME NEW p \in Heads \ {high}, NEW q \in Heads \ {high}, p # q,
                        NEW x \in BlockOf(p)', x \in BlockOf(q)'
                 PROVE  FALSE
      BY <1>9 DEF BlocksDisjoint
    <2>1. PICK p1 \in Heads : x \in BlockOf(p1) /\ (p1 = p \/ (p = base /\ p1 = high))
      BY <1>3, <1>10
    <2>2. PICK q1 \in Heads : x \in BlockOf(q1) /\ (q1 = q \/ (q = base /\ q1 = high))
      BY <1>3, <1>10
    <2>3. p1 = q1
      BY <2>1, <2>2 DEF ArrayOK, BlocksDisjoint
    <2> QED
      BY <2>1, <2>2, <2>3
  <1>15. CoverKept
    <2> SUFFICES ASSUME NEW q \in Pages PROVE InBlock(q)' <=> InBlock(q)
      BY DEF CoverKept
    <2>1. ASSUME InBlock(q) PROVE InBlock(q)'
      <3>1. PICK p \in Heads : q \in BlockOf(p)
        BY <2>1 DEF InBlock
      <3>2. \E p2 \in Heads' : q \in BlockOf(p2)'
        BY <1>2, <1>3, <1>9, <1>10, <3>1
      <3> QED
        BY <3>2 DEF InBlock
    <2>2. ASSUME InBlock(q)' PROVE InBlock(q)
      <3>1. PICK p \in Heads' : q \in BlockOf(p)'
        BY <2>2 DEF InBlock
      <3>2. \E p2 \in Heads : q \in BlockOf(p2)
        BY <1>3, <1>9, <1>10, <3>1
      <3> QED
        BY <3>2 DEF InBlock
    <2> QED
      BY <2>1, <2>2
  <1>16. BlocksUniform'
    <2> SUFFICES ASSUME NEW p \in Heads \ {high}, NEW q \in BlockOf(p)'
                 PROVE  usage'[q] = "X" <=> usage'[p] = "X"
      BY <1>9 DEF BlocksUniform
    <2>1. CASE p = base
      BY <1>1, <1>4, <1>6, <1>7, <1>10, <2>1
    <2>2. CASE p # base
      <3>1. q \in BlockOf(p) /\ p \in Pages
        BY <1>10, <2>2 DEF Heads
      <3>2. q \in Pages
        <4>1. p + Pow2[value[p]] <= Pow2[MaxOrder] /\ value[p] \in Orders
          BY DEF Heads, ArrayOK, BlocksInside
        <4> QED
          BY <3>1, <4>1, PowFacts DEF BlockOf, Block
      <3> QED
        BY <1>7, <3>1, <3>2 DEF ArrayOK, BlocksUniform
    <2> QED
      BY <2>1, <2>2
  <1>17. BlocksInside'
    <2>0. Pow2[MaxOrder] \in Nat
      BY PowFacts DEF Orders
    <2>1. high + d <= Pow2[MaxOrder]
      BY <1>0, <1>1, <1>3 DEF ArrayOK, BlocksInside
    <2>2. base + 2 * d <= Pow2[MaxOrder]
      BY <1>1, <1>2, <2>0, <2>1
    <2>3. ASSUME NEW p \in Heads \ {high} PROVE p + Pow2[value'[p]] <= Pow2[MaxOrder]
      <3>1. p \in Pages /\ p + Pow2[value[p]] <= Pow2[MaxOrder]
        BY DEF Heads, ArrayOK, BlocksInside
      <3> QED
        BY <1>2, <1>8, <2>2, <3>1
    <2> QED
      BY <1>9, <2>3 DEF BlocksInside
  <1>18. FreeListsExact'
    <2>1. ASSUME NEW k \in Orders, NEW p \in Pages
          PROVE  OnList(p, k)' <=> value'[p] = k /\ usage'[p] # "X"
      <3>1. CASE p = base
        <4>1. OnList(p, k)' <=> k = k0 + 1
          BY <3>1, <1>11 DEF OnList
        <4> QED
          BY <4>1, <3>1, <1>1, <1>7, <1>8
      <3>2. CASE p = high
        <4>1. ~OnList(p, k)'
          BY <3>2, <1>2, <1>11 DEF OnList
        <4>2. k # -1
          BY DEF Orders
        <4> QED
          BY <4>1, <4>2, <3>2, <1>2, <1>8
      <3>3. CASE p # base /\ p # high
        <4>1. OnList(p, k)' <=> OnList(p, k)
          BY <3>3, <1>11 DEF OnList
        <4> QED
          BY <4>1, <3>3, <1>7, <1>8, ListNodes
      <3> QED
        BY <3>1, <3>2, <3>3
    <2> QED
      BY <1>11, <2>1 DEF FreeListsExact
  <1> QED
    BY <1>7, <1>8, <1>11, <1>12, <1>13, <1>14, <1>15, <1>16, <1>17, <1>18 DEF ArrayOK

\* One round of the merge loop: a block and its buddy become one block.
LEMMA MergeInv ==
    ASSUME Core, Merge
    PROVE  Core' /\ CoverKept /\ KeepsHeld
  <1>0. PICK k0, b, d, base, high :
            /\ k0 = order /\ b = Buddy(idx, k0) /\ d = Pow2[k0]
            /\ base = (IF idx < b THEN idx ELSE b)
            /\ high = (IF idx < b THEN b ELSE idx)
    OBVIOUS
  <1>1. /\ k0 \in Orders /\ k0 + 1 \in Orders /\ k0 < MaxOrder
        /\ base \in Pages /\ value[base] = k0 /\ usage[base] # "X"
        /\ high \in Pages /\ value[high] = k0 /\ usage[high] # "X"
        /\ high = base + d /\ base % (2 * d) = 0
        /\ idx = base \/ idx % (2 * d) # 0
        /\ {idx, b} = {base, high}
    <2>1. OnList(b, k0) /\ pc = "merge"
      BY <1>0 DEF Merge
    <2>2. /\ k0 \in Orders /\ k0 < MaxOrder
          /\ b \in Pages /\ value[b] = k0 /\ usage[b] # "X"
          /\ idx \in Pages /\ value[idx] = k0 /\ usage[idx] # "X"
          /\ idx < b => b = idx + d /\ idx % (2 * d) = 0
          /\ ~(idx < b) => idx = b + d /\ b % (2 * d) = 0 /\ idx % (2 * d) # 0
      BY <1>0, <2>1, MergePair
    <2>3. k0 + 1 \in Orders
      BY <2>2, PowFacts DEF Orders
    <2> QED
      BY <1>0, <2>2, <2>3
  <1>2. /\ base \in Nat /\ d \in Nat \ {0} /\ Pow2[k0 + 1] = 2 * d /\ high \in Nat
        /\ base # high
    BY <1>0, <1>1, PowFacts
  <1>3. base \in Heads /\ high \in Heads
    BY <1>1 DEF Heads, Orders
  <1>4. /\ \A q : q \in Block(base, k0 + 1) <=> q \in BlockOf(base) \/ q \in BlockOf(high)
        /\ base \in Block(base, k0 + 1)
    <2>1. /\ BlockOf(base) = base .. base + d - 1
          /\ BlockOf(high) = high .. high + d - 1
          /\ Block(base, k0 + 1) = base .. base + 2 * d - 1
      BY <1>0, <1>1, <1>2 DEF BlockOf, Block
    <2>2. high + d - 1 = base + 2 * d - 1 /\ high = base + d
      BY <1>1, <1>2
    <2> QED
      BY <1>2, <2>1, <2>2
  <1>5. /\ usage' = [p \in Pages |-> IF p \notin Block(base, k0 + 1) THEN usage[p]
                                     ELSE IF p = base THEN "A" ELSE "F"]
        /\ value' = [p \in Pages |-> IF p \notin Block(base, k0 + 1) THEN value[p]
                                     ELSE IF p = base THEN k0 + 1 ELSE -1]
        /\ frame_list' = [frame_list EXCEPT
              ![k0] = list_del(list_del(@, idx), b),
              ![k0 + 1] = list_add_tail(@, base)]
        /\ order' = k0 + 1
        /\ UNCHANGED <<pc, size, target, idx, ret>>
    BY <1>0 DEF Merge
  <1>6. \A p \in Block(base, k0 + 1) : p \in Pages /\ usage[p] # "X"
    <2>1. \A p \in Heads : p \in Pages /\ value[p] \in Orders /\ p + Pow2[value[p]] <= Pow2[MaxOrder]
      BY DEF Heads, Core, ArrayOK, BlocksInside
    <2>2. \A p \in Heads : \A q \in BlockOf(p) : q \in Pages
      BY <2>1, PowFacts DEF BlockOf, Block
    <2> QED
      BY <1>1, <1>3, <1>4, <2>2 DEF Core, ArrayOK, BlocksUniform
  <1>7. \A p \in Pages : usage'[p] = "X" <=> usage[p] = "X"
    BY <1>5, <1>6
  <1>8. \A p \in Pages : value'[p] = IF p = base THEN k0 + 1
                                     ELSE IF p = high THEN -1 ELSE value[p]
    <2> SUFFICES ASSUME NEW p \in Pages
                 PROVE  value'[p] = IF p = base THEN k0 + 1
                                    ELSE IF p = high THEN -1 ELSE value[p]
      OBVIOUS
    <2>1. high \in Block(base, k0 + 1)
      BY <1>0, <1>1, <1>2 DEF Block
    <2>2. CASE p \in Block(base, k0 + 1) /\ p # base /\ p # high
      <3>1. p \notin Heads
        BY <1>3, <1>4, <2>2, HeadOfBlock DEF Core
      <3> QED
        BY <1>5, <2>2, <3>1 DEF Heads
    <2>3. CASE p \notin Block(base, k0 + 1)
      BY <1>4, <1>5, <2>1, <2>3
    <2> QED
      BY <1>2, <1>4, <1>5, <2>1, <2>2, <2>3
  <1>9. value' \in [Pages -> {-1} \cup Orders] /\ usage' \in [Pages -> {"A", "F", "X"}]
    <2>1. value' \in [Pages -> {-1} \cup Orders]
      BY <1>1, <1>5 DEF Core, TypeOK
    <2>2. usage' \in [Pages -> {"A", "F", "X"}]
      BY <1>5 DEF Core, TypeOK
    <2> QED
      BY <2>1, <2>2
  <1>10. /\ ArrayOK' /\ CoverKept
         /\ frame_list' \in [Orders -> Seq(Pages)]
         /\ \A k \in Orders : \A p : Linked(p, frame_list'[k]) <=>
               IF p = base THEN k = k0 + 1
               ELSE IF p = high THEN FALSE ELSE OnList(p, k)
    <2>1. Halves(base, high, k0)
      BY <1>0, <1>1 DEF Halves
    <2>2. BecomeOne(base, high, k0, idx, b)
      BY <1>1, <1>5, <1>7, <1>8, <1>9 DEF BecomeOne
    <2> QED
      BY <2>1, <2>2, MergeBlocks DEF Core
  <1>12. TypeOK'
    BY <1>1, <1>5, <1>9, <1>10 DEF Core, TypeOK
  <1>19. MergeIdx'
    <2>1. CASE idx = base
      <3>1. Linked(idx, frame_list'[k0 + 1])
        BY <1>1, <1>10, <2>1
      <3> QED
        BY <3>1, <1>5 DEF MergeIdx, OnList
    <2>2. CASE idx % (2 * d) # 0
      BY <1>2, <1>5, <2>2 DEF MergeIdx
    <2> QED
      BY <1>1, <2>1, <2>2
  <1>20. SplitHasBlock'
    BY <1>5 DEF SplitHasBlock, Merge
  <1>21. KeepsHeld
    BY <1>5, <1>6 DEF KeepsHeld
  <1> QED
    BY <1>10, <1>12, <1>19, <1>20, <1>21 DEF Core

\* A split of the head of a list meets no page marked Val_X.
LEMMA SplitGoes ==
    ASSUME Core
    PROVE  SplitNeverBlocked
  <1> SUFFICES ASSUME pc = "split" PROVE SplitNeverBlocked
    BY DEF SplitNeverBlocked
  <1>0. PICK h : h = frame_list[order][1]
    OBVIOUS
  <1>1. /\ order \in Orders /\ target \in Orders /\ target <= order
        /\ frame_list[order] # <<>>
        /\ h \in Pages /\ value[h] = order /\ usage[h] # "X"
        /\ \A q \in BlockOf(h) : usage[q] # "X"
    BY <1>0, SplitHead
  <1>2. ASSUME order # target PROVE usage[h + Pow2[order - 1]] # "X"
    <2>1. order \in Orders \ {0}
      BY <1>1, <1>2 DEF Orders
    <2>2. order - 1 \in Orders /\ Pow2[order] = 2 * Pow2[order - 1]
      BY <2>1, PowFacts
    <2>3. Pow2[order - 1] \in Nat \ {0} /\ h \in Nat
      BY <2>2, <1>1, PowFacts
    <2>4. h + Pow2[order - 1] \in BlockOf(h)
      BY <1>1, <2>2, <2>3 DEF BlockOf, Block
    <2> QED
      BY <1>1, <2>4
  <1> QED
    BY <1>0, <1>1, <1>2 DEF SplitNeverBlocked

\* A split neither ends the call nor returns anything.
LEMMA SplitKeepsCall ==
    ASSUME SplitNeverBlocked, TypeOK, Split
    PROVE  UNCHANGED <<pc, target, ret>>
  <1>0. PICK h : h = frame_list[order][1]
    OBVIOUS
  <1>1. value[h] = order /\ usage[h] # "X" /\ usage[h + Pow2[order - 1]] # "X"
    BY <1>0 DEF SplitNeverBlocked, Split
  <1> QED
    BY <1>0, <1>1 DEF Split

\* All steps together.
LEMMA NextInv ==
    Core /\ [Next]_vars => Core' /\ CoverKept
  <1> SUFFICES ASSUME Core, [Next]_vars PROVE Core' /\ CoverKept
    OBVIOUS
  <1>1. ASSUME NEW n \in Requests, NEW k \in 0 .. MaxOrder + 1, AllocCall(n, k)
        PROVE  Core' /\ CoverKept
    BY <1>1, AllocCallInv
  <1>2. ASSUME NEW p \in Pages, NotInside(p), FreeCall(p) PROVE Core' /\ CoverKept
    BY <1>2, FreeCallInv
  <1>3. ASSUME NEW p \in Pages, FreeUnallocated(p) PROVE Core' /\ CoverKept
    BY <1>3, StutterInv DEF FreeUnallocated
  <1>4. ASSUME NEW k \in Orders, SearchFound(k) PROVE Core' /\ CoverKept
    BY <1>4, SearchFoundInv
  <1>5. CASE SearchFailed
    BY <1>5, ReturnInv DEF SearchFailed
  <1>6. CASE Split
    BY <1>6, SplitInv
  <1>7. CASE Take
    BY <1>7, TakeInv
  <1>8. CASE Merge
    BY <1>8, MergeInv
  <1>9. CASE MergeStop
    <2>1. ret' \in Pages \cup {NoPage}
      BY <1>9 DEF MergeStop, Core, TypeOK
    <2> QED
      BY <1>9, <2>1, ReturnInv DEF MergeStop
  <1>10. CASE UNCHANGED vars
    BY <1>10, StutterInv
  <1> QED
    BY <1>1, <1>2, <1>3, <1>4, <1>5, <1>6, <1>7, <1>8, <1>9, <1>10 DEF Next, Step

\* What the steps of alloc_page and free_pages preserve together.
THEOREM Invariant == Spec => []IInv
  <1>1. Init => IInv
    BY InitInv
  <1>2. BlocksCover <=> \A q \in Pages : InBlock(q)
    BY DEF BlocksCover, InBlock
  <1>3. BlocksCover' <=> \A q \in Pages : InBlock(q)'
    BY DEF BlocksCover, InBlock
  <1>4. IInv /\ [Next]_vars => IInv'
    BY <1>2, <1>3, NextInv DEF IInv, CoverKept
  <1> QED
    BY <1>1, <1>4, PTL DEF Spec

\* Every variable keeps its type: in particular no order beyond the last frame
\* list is ever reached by a split or a merge, and the page that is returned
\* lies in the page memory.
THEOREM TypeCorrect == Spec => []TypeOK
  <1>1. IInv => TypeOK
    BY DEF IInv, Core, ArrayOK, Partition
  <1> QED
    BY <1>1, Invariant, PTL

\* The Array always cuts the page memory into aligned, disjoint blocks that
\* cover it, each wholly allocated or wholly free.
THEOREM PartitionKept == Spec => []Partition
  <1>1. IInv => Partition
    BY DEF IInv, Core, ArrayOK, Partition
  <1> QED
    BY <1>1, Invariant, PTL

\* The frame lists hold exactly the free blocks, each once and by its order.
THEOREM FreeListsKept == Spec => []FreeListsExact
  <1>1. IInv => FreeListsExact
    BY DEF IInv, Core, ArrayOK, Partition
  <1> QED
    BY <1>1, Invariant, PTL

\* A merge round unlinks only linked nodes, although idx is never updated.
THEOREM MergesLinked == Spec => []MergeDeletesLinkedNodes
  <1>1. IInv => MergeDeletesLinkedNodes
    BY MergePair DEF IInv, MergeDeletesLinkedNodes
  <1> QED
    BY <1>1, Invariant, PTL

\* The branches of the split loop that give up half way are dead code.
THEOREM SplitsGoThrough == Spec => []SplitNeverBlocked
  <1>1. IInv => SplitNeverBlocked
    BY SplitGoes DEF IInv
  <1> QED
    BY <1>1, Invariant, PTL

-----------------------------------------------------------------------------
(* Buddy implements PageAllocator *)

\* A step that keeps the marks of held blocks keeps the set of held blocks.
LEMMA HeldUnchanged ==
    ASSUME IInv, IInv', KeepsHeld
    PROVE  Held' = Held
  <1>1. \A p : p \in Heads' /\ usage'[p] = "X" <=> p \in Heads /\ usage[p] = "X"
    BY DEF KeepsHeld, Heads
  <1>2. \A p \in Heads : usage[p] = "X" => value'[p] = value[p]
    BY DEF KeepsHeld, Heads
  <1> QED
    BY <1>1, <1>2 DEF Held

\* The pages of the blocks that are held.
LEMMA HeldPages ==
    ASSUME IInv
    PROVE  /\ Abstract!OwnedPages = {q \in Pages : usage[q] = "X"}
           /\ \A b \in Held : b[1] \in Heads /\ b[2] = value[b[1]] /\ usage[b[1]] = "X"
  <1> DEFINE A == {p \in Heads : usage[p] = "X"}
  <1>1. \A b : b \in Held <=> \E p \in A : b = <<p, value[p]>>
    BY DEF Held
  <1>2. \A b \in Held : b[1] \in Heads /\ b[2] = value[b[1]] /\ usage[b[1]] = "X"
    BY <1>1
  <1>3. \A q : q \in Abstract!OwnedPages <=> \E p \in A : q \in BlockOf(p)
    <2>1. \A q : q \in Abstract!OwnedPages
                   <=> \E b \in Held : q \in b[1] .. b[1] + Pow2[b[2]] - 1
      BY DEF Abstract!OwnedPages, Abstract!Block, Held
    <2>2. \A p : BlockOf(p) = p .. p + Pow2[value[p]] - 1
      BY DEF BlockOf, Block
    <2>3. ASSUME NEW q, NEW b \in Held, q \in b[1] .. b[1] + Pow2[b[2]] - 1
          PROVE  \E p \in A : q \in BlockOf(p)
      <3>1. PICK p \in A : b = <<p, value[p]>>
        BY <1>1
      <3>2. b[1] = p /\ b[2] = value[p]
        BY <3>1
      <3> QED
        BY <2>2, <2>3, <3>2
    <2>4. ASSUME NEW q, NEW p \in A, q \in BlockOf(p)
          PROVE  \E b \in Held : q \in b[1] .. b[1] + Pow2[b[2]] - 1
      <3>1. <<p, value[p]>> \in Held
        BY <1>1
      <3>2. q \in <<p, value[p]>>[1] .. <<p, value[p]>>[1] + Pow2[<<p, value[p]>>[2]] - 1
        BY <2>2, <2>4
      <3> QED
        BY <3>1, <3>2
    <2> QED
      BY <2>1, <2>3, <2>4
  <1>4. ASSUME NEW q, NEW p \in A, q \in BlockOf(p) PROVE q \in Pages /\ usage[q] = "X"
    <2>1. p \in Pages /\ value[p] \in Orders /\ p + Pow2[value[p]] <= Pow2[MaxOrder]
      BY DEF Heads, IInv, Core, ArrayOK, BlocksInside
    <2>2. q \in Pages
      BY <1>4, <2>1, PowFacts DEF BlockOf, Block
    <2> QED
      BY <1>4, <2>2 DEF IInv, Core, ArrayOK, BlocksUniform
  <1>5. ASSUME NEW q \in Pages, usage[q] = "X" PROVE \E p \in A : q \in BlockOf(p)
    <2>1. PICK p \in Heads : q \in BlockOf(p)
      BY DEF IInv, BlocksCover
    <2> QED
      BY <1>5, <2>1 DEF IInv, Core, ArrayOK, BlocksUniform
  <1> HIDE DEF A
  <1> QED
    BY <1>2, <1>3, <1>4, <1>5

Wanted == IF pc \in {"search", "split"} THEN target ELSE -1

\* Nothing the callers can see changes.
LEMMA AbstractVars ==
    ASSUME Held' = Held, Wanted' = Wanted, ret' = ret
    PROVE  UNCHANGED Abstract!vars
  BY DEF Abstract!vars, Held, Wanted

\* A search that fails for a single page found every list empty: no page is free.
LEMMA SearchFailedRefuses ==
    ASSUME IInv, SearchFailed
    PROVE  Abstract!Refuse
  <1>1. target \in 0 .. MaxOrder + 1 /\ pc = "search"
    BY DEF IInv, Core, TypeOK, SearchFailed
  <1>2. ASSUME target = 0, NEW q \in Pages PROVE usage[q] = "X"
    <2>1. PICK p \in Heads : q \in BlockOf(p)
      BY DEF IInv, BlocksCover
    <2>2. p \in Pages /\ value[p] \in Orders
      BY DEF Heads, IInv, Core, TypeOK
    <2>3. frame_list[value[p]] = <<>>
      BY <1>2, <2>2 DEF SearchFailed, Orders
    <2>4. ~OnList(p, value[p])
      BY <2>3 DEF OnList, Linked
    <2>5. usage[p] = "X"
      BY <2>2, <2>4, ListNodes DEF IInv, Core
    <2> QED
      BY <2>1, <2>5 DEF IInv, Core, ArrayOK, BlocksUniform
  <1>3. Abstract!Pages = Pages
    BY DEF Abstract!Pages, Pages
  <1>4. Held' = Held
    BY DEF Held, SearchFailed, Heads
  <1>5. Wanted = target /\ Wanted' = -1 /\ target # -1
    BY <1>1 DEF Wanted, SearchFailed, Return
  <1>6. Wanted = 0 => Abstract!Pages \subseteq Abstract!OwnedPages
    BY <1>2, <1>3, <1>5, HeldPages
  <1> QED
    BY <1>4, <1>5, <1>6
       DEF Abstract!Refuse, Abstract!NoOrder, Abstract!NoPage, NoPage, Held, Wanted, SearchFailed

\* The block that is taken is aligned, of the order asked for, and free.
LEMMA TakeGrants ==
    ASSUME IInv, Take
    PROVE  \E p \in Abstract!Pages : Abstract!Grant(p)
  <1>0. PICK page : page = frame_list[order][1]
    OBVIOUS
  <1>1. /\ order \in Orders /\ order = target /\ page \in Pages /\ page \in Heads
        /\ value[page] = order /\ usage[page] # "X"
        /\ \A q \in BlockOf(page) : q \in Pages /\ usage[q] # "X"
    BY <1>0, SplitHead DEF IInv, Take
  <1>2. /\ usage' = [p \in Pages |-> IF p \in BlockOf(page) THEN "X" ELSE usage[p]]
        /\ ret' = page /\ value' = value /\ pc = "split" /\ pc' = "idle"
    BY <1>0 DEF Take, BlockOf, Return
  <1>3. Wanted = order /\ Wanted' = -1
    BY <1>1, <1>2 DEF Wanted
  <1>4. page % Pow2[order] = 0
    BY <1>1 DEF IInv, Core, ArrayOK, HeadsAligned
  <1>5. Abstract!Block(page, order) = BlockOf(page) /\ Abstract!Pages = Pages
    BY <1>1 DEF Abstract!Block, BlockOf, Block, Abstract!Pages, Pages
  <1>6. BlockOf(page) \subseteq Pages \ Abstract!OwnedPages
    BY <1>1, HeldPages
  <1>7. Heads' = Heads
    BY <1>2 DEF Heads
  <1>8. \A p \in Heads : usage'[p] = "X" <=> usage[p] = "X" \/ p = page
    <2>1. page \in BlockOf(page)
      BY <1>1, PowFacts DEF BlockOf, Block
    <2>2. \A p \in Heads : p \in BlockOf(page) => p = page
      BY <1>1, HeadOfBlock DEF IInv, Core
    <2>3. Heads \subseteq Pages
      BY DEF Heads
    <2> QED
      BY <1>1, <1>2, <2>1, <2>2, <2>3
  <1>9. Held' = Held \cup {<<page, order>>}
    BY <1>1, <1>2, <1>7, <1>8 DEF Held
  <1>10. Wanted \in Abstract!Orders
    BY <1>1, <1>3 DEF Abstract!Orders, Orders
  <1>11. Abstract!Grant(page)
    BY <1>2, <1>3, <1>4, <1>5, <1>6, <1>9, <1>10
       DEF Abstract!Grant, Abstract!NoOrder, Held, Wanted
  <1> QED
    BY <1>1, <1>5, <1>11

\* free_pages takes one held block from its caller.
LEMMA FreeCallFrees ==
    ASSUME IInv, NEW page \in Pages, NotInside(page), FreeCall(page)
    PROVE  \E b \in Held : Abstract!Free(b)
  <1>1. /\ page \in Heads /\ usage[page] = "X" /\ value' = value
        /\ usage' = [q \in Pages |-> IF q \notin BlockOf(page) THEN usage[q]
                                     ELSE IF q = page THEN "A" ELSE "F"]
        /\ ret' = NoPage /\ pc = "idle" /\ pc' = "merge"
    BY DEF FreeCall, NotInside, Heads, BlockOf
  <1>2. <<page, value[page]>> \in Held
    BY <1>1 DEF Held
  <1>3. Heads' = Heads
    BY <1>1 DEF Heads
  <1>4. \A p \in Heads : usage'[p] = "X" <=> usage[p] = "X" /\ p # page
    <2>1. page \in BlockOf(page)
      BY <1>1, PowFacts DEF BlockOf, Block, IInv, Core, TypeOK, Heads
    <2>2. \A p \in Heads : p \in BlockOf(page) => p = page
      BY <1>1, HeadOfBlock DEF IInv, Core
    <2>3. Heads \subseteq Pages
      BY DEF Heads
    <2> QED
      BY <1>1, <2>1, <2>2, <2>3
  <1>5. Held' = Held \ {<<page, value[page]>>}
    <2>1. \A b : b \in Held' <=> \E p \in Heads : usage[p] = "X" /\ p # page /\ b = <<p, value[p]>>
      BY <1>1, <1>3, <1>4 DEF Held
    <2>2. \A b : b \in Held <=> \E p \in Heads : usage[p] = "X" /\ b = <<p, value[p]>>
      BY DEF Held
    <2>3. \A p : <<p, value[p]>> = <<page, value[page]>> <=> p = page
      OBVIOUS
    <2> QED
      BY <2>1, <2>2, <2>3
  <1>6. Wanted = -1 /\ Wanted' = -1
    BY <1>1 DEF Wanted
  <1>7. PICK b : b = <<page, value[page]>>
    OBVIOUS
  <1>8. Abstract!Free(b)
    BY <1>1, <1>5, <1>6, <1>7
       DEF Abstract!Free, Abstract!NoOrder, Abstract!NoPage, NoPage, Held, Wanted
  <1> QED
    BY <1>2, <1>7, <1>8

\* Every step is one of the abstract allocator or a stutter.
LEMMA NextRefines ==
    IInv /\ IInv' /\ [Next]_vars => [Abstract!Next]_(Abstract!vars)
  <1> SUFFICES ASSUME IInv, IInv', [Next]_vars
               PROVE  Abstract!Next \/ UNCHANGED Abstract!vars
    OBVIOUS
  <1>1. ASSUME NEW n \in Requests, NEW k \in 0 .. MaxOrder + 1, AllocCall(n, k)
        PROVE  Abstract!Next
    <2>1. Held' = Held
      BY <1>1 DEF AllocCall, Held, Heads
    <2>2. Wanted = -1 /\ Wanted' = k
      BY <1>1 DEF AllocCall, Wanted
    <2>3. Abstract!Ask(k)
      BY <1>1, <2>1, <2>2
         DEF Abstract!Ask, Abstract!NoOrder, Abstract!NoPage, NoPage, Held, Wanted, AllocCall
    <2> QED
      BY <1>1, <2>3 DEF Abstract!Next
  <1>2. ASSUME NEW p \in Pages, NotInside(p), FreeCall(p) PROVE Abstract!Next
    <2>1. PICK b \in Held : Abstract!Free(b)
      BY <1>2, FreeCallFrees DEF Held
    <2>2. b \in {<<q, value[q]>> : q \in {r \in Heads : usage[r] = "X"}}
      BY DEF Held
    <2> QED
      BY <2>1, <2>2 DEF Abstract!Next
  <1>3. ASSUME UNCHANGED vars PROVE UNCHANGED Abstract!vars
    <2>1. Held' = Held /\ Wanted' = Wanted /\ ret' = ret
      BY <1>3 DEF vars, locals, Held, Heads, Wanted
    <2> QED
      BY <2>1, AbstractVars
  <1>4. ASSUME NEW k \in Orders, SearchFound(k) PROVE UNCHANGED Abstract!vars
    <2>1. Held' = Held /\ Wanted' = Wanted /\ ret' = ret
      BY <1>4 DEF SearchFound, Held, Heads, Wanted
    <2> QED
      BY <2>1, AbstractVars
  <1>5. CASE SearchFailed
    BY <1>5, SearchFailedRefuses DEF Abstract!Next, Abstract!Answer
  <1>6. CASE Split
    <2>1. Held' = Held
      BY <1>6, SplitInv, HeldUnchanged DEF IInv
    <2>2. Wanted' = Wanted /\ ret' = ret
      <3>1. SplitNeverBlocked
        BY SplitGoes DEF IInv
      <3> QED
        BY <1>6, <3>1, SplitKeepsCall DEF Wanted, IInv, Core
    <2> QED
      BY <2>1, <2>2, AbstractVars
  <1>7. CASE Take
    BY <1>7, TakeGrants DEF Abstract!Next, Abstract!Answer
  <1>8. CASE Merge
    <2>1. Held' = Held
      BY <1>8, MergeInv, HeldUnchanged DEF IInv
    <2>2. Wanted' = Wanted /\ ret' = ret
      BY <1>8 DEF Merge, Wanted
    <2> QED
      BY <2>1, <2>2, AbstractVars
  <1>9. CASE MergeStop
    <2>1. Held' = Held /\ Wanted' = Wanted /\ ret' = ret
      BY <1>9 DEF MergeStop, Return, Held, Heads, Wanted
    <2> QED
      BY <2>1, AbstractVars
  <1> QED
    BY <1>1, <1>2, <1>3, <1>4, <1>5, <1>6, <1>7, <1>8, <1>9 DEF Next, Step, FreeUnallocated

\* Every behaviour of the split and merge loops is one of the abstract
\* allocator: a block that is handed out is aligned, of the order asked for and
\* disjoint from every block still held, and a single page is refused only when
\* all pages are held.
THEOREM Refinement == Spec => Abstract!Init /\ [][Abstract!Next]_(Abstract!vars)
  <1>1. Init => Abstract!Init
    <2> SUFFICES ASSUME Init PROVE Abstract!Init
      OBVIOUS
    <2>1. Held = {} /\ Wanted = -1 /\ ret = -1
      BY DEF Init, Held, Heads, Wanted, NoPage
    <2> QED
      BY <2>1 DEF Abstract!Init, Abstract!NoOrder, Abstract!NoPage, Held, Wanted
  <1>2. IInv /\ IInv' /\ [Next]_vars => [Abstract!Next]_(Abstract!vars)
    BY NextRefines
  <1> QED
    BY <1>1, <1>2, Invariant, PTL DEF Spec

=============================================================================
