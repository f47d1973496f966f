----------------------------- MODULE SchedProofs -----------------------------
(***************************************************************************)
(* Proofs about Sched with a timer that interrupts nobody who is inside    *)
(* the run queue, or with none at all: for any number of threads, commands *)
(* and turns the linked list is the ring of the threads that are not       *)
(* reaped whenever no list operation is under way, and the shell comes     *)
(* back only when no thread is runnable; the threads take their turns as   *)
(* RoundRobin says.                                                        *)
(***************************************************************************)
EXTENDS Sched, DataLemmas, FiniteSetTheorems, SequenceTheorems

(* The ring *)

\* The nodes that have links.
Ends == {HList} \cup Threads

\* The nodes of a ring through the threads of q, h_list before the first and
\* behind the last.
Cell(q, k) == IF k \in 1 .. Len(q) THEN q[k] ELSE HList

Elements(q) == {q[k] : k \in 1 .. Len(q)}

Simple(q) == \A i, j \in 1 .. Len(q) : q[i] = q[j] => i = j

\* The links forward in nx and the links back in pv.
Ring(nx, pv, q) ==
    /\ Simple(q)
    /\ \A k \in 0 .. Len(q) : nx[Cell(q, k)] = Cell(q, k + 1) /\ pv[Cell(q, k + 1)] = Cell(q, k)

\* q without its k-th thread.
Cut(q, k) == [i \in 1 .. Len(q) - 1 |-> IF i < k THEN q[i] ELSE q[i + 1]]

\* What r is when it is that.
IsCut(q, k, r) ==
    /\ Elements(r) = Elements(q) \ {q[k]}
    /\ Len(r) = Len(q) - 1
    /\ \A i \in 0 .. k - 1 : Cell(r, i) = Cell(q, i)
    /\ \A i \in 1 .. k - 1 : r[i] = q[i]

LEMMA NodeFacts ==
    /\ Size \in Nat /\ Boot \in Contexts
    /\ \A t \in Threads : /\ t \in Nat /\ t # HList /\ t # NULL /\ t # Boot
                          /\ t \in Ends /\ t \in Nodes /\ t \in Contexts
    /\ HList # NULL /\ HList # Boot /\ Boot # NULL /\ HList \in Ends /\ HList \in Nodes /\ NULL \in Nodes
    /\ \A x \in Ends : x \in Nodes /\ x # NULL
  <1>1. Size \in Nat
    BY BatchAssumption DEF Size
  <1> QED
    BY <1>1 DEF Threads, HList, NULL, Boot, Ends, Nodes, Contexts

\* The cells of a ring are h_list and, each once, its threads.
LEMMA CellFacts ==
    ASSUME NEW q \in Seq(Threads), Simple(q)
    PROVE  /\ Len(q) \in Nat
           /\ \A k \in 1 .. Len(q) : q[k] \in Threads /\ Cell(q, k) = q[k] /\ q[k] # HList
           /\ Cell(q, 0) = HList /\ Cell(q, Len(q) + 1) = HList
           /\ \A k \in 0 .. Len(q) + 1 : Cell(q, k) \in Ends
           /\ \A i, j \in 0 .. Len(q) : Cell(q, i) = Cell(q, j) => i = j
           /\ \A i, j \in 1 .. Len(q) + 1 : Cell(q, i) = Cell(q, j) => i = j
  <1>1. Len(q) \in Nat
    OBVIOUS
  <1>2. \A k \in 1 .. Len(q) : q[k] \in Threads /\ Cell(q, k) = q[k] /\ q[k] # HList /\ q[k] \in Ends
    BY NodeFacts DEF Cell
  <1>3. Cell(q, 0) = HList /\ Cell(q, Len(q) + 1) = HList
    BY <1>1 DEF Cell
  <1>4. \A k \in 0 .. Len(q) + 1 : k = 0 \/ k = Len(q) + 1 \/ k \in 1 .. Len(q)
    BY <1>1
  <1>5. \A i, j \in 1 .. Len(q) : Cell(q, i) = Cell(q, j) => i = j
    BY <1>2 DEF Simple
  <1>6. \A k \in 0 .. Len(q) + 1 : Cell(q, k) \in Ends
    BY <1>2, <1>3, <1>4, NodeFacts
  <1>7. \A i, j \in 0 .. Len(q) : Cell(q, i) = Cell(q, j) => i = j
    <2>1. \A k \in 0 .. Len(q) : k = 0 \/ k \in 1 .. Len(q)
      BY <1>1
    <2> QED
      BY <1>2, <1>3, <1>5, <2>1
  <1>8. \A i, j \in 1 .. Len(q) + 1 : Cell(q, i) = Cell(q, j) => i = j
    <2>1. \A k \in 1 .. Len(q) + 1 : k = Len(q) + 1 \/ k \in 1 .. Len(q)
      BY <1>1
    <2> QED
      BY <1>2, <1>3, <1>5, <2>1
  <1> QED
    BY <1>1, <1>2, <1>3, <1>6, <1>7, <1>8

\* The links of other nodes do not matter to a ring.
LEMMA RingSame ==
    ASSUME NEW q \in Seq(Threads), NEW nx, NEW pv, Ring(nx, pv, q), NEW nx2, NEW pv2,
           \A x \in {HList} \cup Elements(q) : nx2[x] = nx[x] /\ pv2[x] = pv[x]
    PROVE  Ring(nx2, pv2, q)
  <1>1. Simple(q)
    BY DEF Ring
  <1>2. \A k \in 0 .. Len(q) + 1 : Cell(q, k) \in {HList} \cup Elements(q)
    BY DEF Cell, Elements
  <1>3. \A k \in 0 .. Len(q) : k \in 0 .. Len(q) + 1 /\ k + 1 \in 0 .. Len(q) + 1
    OBVIOUS
  <1>4. \A k \in 0 .. Len(q) : nx[Cell(q, k)] = Cell(q, k + 1) /\ pv[Cell(q, k + 1)] = Cell(q, k)
    BY DEF Ring
  <1>5. \A k \in 0 .. Len(q) : nx2[Cell(q, k)] = Cell(q, k + 1) /\ pv2[Cell(q, k + 1)] = Cell(q, k)
    BY <1>2, <1>3, <1>4
  <1> QED
    BY <1>1, <1>5 DEF Ring

\* What __list_add writes: t is linked between last and h_list.
Spliced(nx, pv, nx2, pv2, last, t) ==
    /\ nx2[last] = t /\ nx2[t] = HList /\ pv2[t] = last /\ pv2[HList] = t
    /\ \A x \in Ends : x # last /\ x # t => nx2[x] = nx[x]
    /\ \A x \in Ends : x # HList /\ x # t => pv2[x] = pv[x]

\* __list_add of a thread behind the last one.
LEMMA RingAdd ==
    ASSUME NEW q \in Seq(Threads), NEW nx, NEW pv, Ring(nx, pv, q),
           NEW t \in Threads, t \notin Elements(q), NEW last, last = Cell(q, Len(q)),
           NEW nx2, NEW pv2, Spliced(nx, pv, nx2, pv2, last, t)
    PROVE  /\ Append(q, t) \in Seq(Threads)
           /\ Ring(nx2, pv2, Append(q, t))
           /\ Elements(Append(q, t)) = Elements(q) \cup {t}
           /\ Len(Append(q, t)) = Len(q) + 1
           /\ \A k \in 0 .. Len(q) : Cell(Append(q, t), k) = Cell(q, k)
  <1>0. /\ nx2[last] = t /\ nx2[t] = HList /\ pv2[t] = last /\ pv2[HList] = t
        /\ \A x \in Ends : x # last /\ x # t => nx2[x] = nx[x]
        /\ \A x \in Ends : x # HList /\ x # t => pv2[x] = pv[x]
    BY DEF Spliced
  <1>1. PICK r, n : r = Append(q, t) /\ n = Len(q)
    OBVIOUS
  <1>2. /\ r \in Seq(Threads) /\ Len(r) = n + 1 /\ n \in Nat /\ r[n + 1] = t
        /\ \A k \in 1 .. n : r[k] = q[k]
    BY <1>1
  <1>3. Elements(r) = Elements(q) \cup {t}
    <2>1. \A k \in 1 .. n + 1 : k \in 1 .. n \/ k = n + 1
      BY <1>2
    <2>2. n + 1 \in 1 .. n + 1 /\ \A k \in 1 .. n : k \in 1 .. n + 1
      BY <1>2
    <2>3. ASSUME NEW x \in Elements(r) PROVE x \in Elements(q) \cup {t}
      <3>1. PICK k \in 1 .. n + 1 : x = r[k]
        BY <1>2 DEF Elements
      <3> QED
        BY <1>1, <1>2, <2>1, <3>1 DEF Elements
    <2>4. ASSUME NEW x \in Elements(q) \cup {t} PROVE x \in Elements(r)
      <3>1. CASE x = t
        BY <1>2, <2>2, <3>1 DEF Elements
      <3>2. CASE x \in Elements(q)
        <4>1. PICK k \in 1 .. n : x = q[k]
          BY <1>1, <3>2 DEF Elements
        <4> QED
          BY <1>2, <2>2, <4>1 DEF Elements
      <3> QED
        BY <3>1, <3>2
    <2> QED
      BY <2>3, <2>4
  <1>4. Simple(q) /\ \A k \in 1 .. n : q[k] # t
    BY <1>1 DEF Ring, Elements
  <1>5. Simple(r)
    <2>1. \A k \in 1 .. n + 1 : k \in 1 .. n \/ k = n + 1
      BY <1>2
    <2>2. \A i, j \in 1 .. n : q[i] = q[j] => i = j
      BY <1>1, <1>4 DEF Simple
    <2> QED
      BY <1>2, <1>4, <2>1, <2>2 DEF Simple
  <1>6. \A k \in 0 .. n : Cell(r, k) = Cell(q, k)
    BY <1>1, <1>2 DEF Cell
  <1>7. Cell(r, n + 1) = t /\ Cell(r, n + 1 + 1) = HList
    BY <1>2 DEF Cell
  <1>8. ASSUME NEW k \in 0 .. n + 1
        PROVE  nx2[Cell(r, k)] = Cell(r, k + 1) /\ pv2[Cell(r, k + 1)] = Cell(r, k)
    <2>1. CASE k = n + 1
      BY <1>0, <1>7, <2>1
    <2>2. CASE k = n
      <3>1. n \in 0 .. n
        BY <1>2
      <3>2. Cell(r, n) = last
        BY <1>1, <1>6, <3>1
      <3> QED
        BY <1>0, <1>7, <2>2, <3>2
    <2>3. CASE k \in 0 .. n /\ k # n
      <3>1. k + 1 \in 1 .. n /\ k + 1 \in 0 .. n /\ k \in 0 .. n + 1 /\ k + 1 \in 0 .. n + 1 /\ n \in 0 .. n
        BY <1>2, <2>3
      <3>2. Cell(r, k) = Cell(q, k) /\ Cell(r, k + 1) = Cell(q, k + 1)
        BY <1>6, <2>3, <3>1
      <3>3. nx[Cell(q, k)] = Cell(q, k + 1) /\ pv[Cell(q, k + 1)] = Cell(q, k)
        BY <1>1, <2>3 DEF Ring
      <3>4. Cell(q, k) \in Ends /\ Cell(q, k + 1) \in Ends
        BY <1>1, <1>4, <3>1, CellFacts
      <3>5. Cell(q, k) # last
        BY <1>1, <1>4, <2>3, <3>1, CellFacts
      <3>6. Cell(q, k) # t /\ Cell(q, k + 1) # t
        BY <1>1, <1>4, NodeFacts DEF Cell
      <3>7. Cell(q, k + 1) # HList
        BY <1>1, <1>4, <3>1, CellFacts
      <3> QED
        BY <1>0, <3>2, <3>3, <3>4, <3>5, <3>6, <3>7
    <2> QED
      BY <1>2, <2>1, <2>2, <2>3
  <1> QED
    BY <1>1, <1>2, <1>3, <1>5, <1>6, <1>8 DEF Ring

\* What __list_del writes: a and b are linked to each other.
Bridged(nx, pv, nx2, pv2, a, b) ==
    /\ nx2[a] = b /\ pv2[b] = a
    /\ \A x \in Ends : x # a => nx2[x] = nx[x]
    /\ \A x \in Ends : x # b => pv2[x] = pv[x]

\* __list_del of the k-th thread.
LEMMA RingCut ==
    ASSUME NEW q \in Seq(Threads), NEW nx, NEW pv, Ring(nx, pv, q), NEW k \in 1 .. Len(q),
           NEW nx2, NEW pv2, Bridged(nx, pv, nx2, pv2, Cell(q, k - 1), Cell(q, k + 1))
    PROVE  /\ Cut(q, k) \in Seq(Threads)
           /\ Ring(nx2, pv2, Cut(q, k))
           /\ IsCut(q, k, Cut(q, k))
  <1>0. /\ nx2[Cell(q, k - 1)] = Cell(q, k + 1) /\ pv2[Cell(q, k + 1)] = Cell(q, k - 1)
        /\ \A x \in Ends : x # Cell(q, k - 1) => nx2[x] = nx[x]
        /\ \A x \in Ends : x # Cell(q, k + 1) => pv2[x] = pv[x]
    BY DEF Bridged
  <1>1. PICK r, n : r = Cut(q, k) /\ n = Len(q)
    OBVIOUS
  <1>2. n \in Nat /\ k \in 1 .. n /\ n - 1 \in Nat /\ Simple(q) /\ \A i \in 1 .. n : q[i] \in Threads
    BY <1>1 DEF Ring
  <1>3. r \in Seq(Threads) /\ Len(r) = n - 1
    <2>1. r = [i \in 1 .. n - 1 |-> IF i < k THEN q[i] ELSE q[i + 1]]
      BY <1>1 DEF Cut
    <2>2. \A i \in 1 .. n - 1 : i \in 1 .. n /\ i + 1 \in 1 .. n
      BY <1>2
    <2>3. r \in [1 .. n - 1 -> Threads]
      BY <1>2, <2>1, <2>2
    <2>4. PICK m \in Nat : m = n - 1
      BY <1>2
    <2>5. r \in [1 .. m -> Threads]
      BY <2>3, <2>4
    <2>6. r \in Seq(Threads) /\ Len(r) = m
      BY <2>5
    <2> QED
      BY <2>4, <2>6
  <1>4. /\ \A i \in 1 .. n - 1 : i < k => r[i] = q[i]
        /\ \A i \in 1 .. n - 1 : ~(i < k) => r[i] = q[i + 1]
    BY <1>1 DEF Cut
  <1>5. \A i, j \in 1 .. n : q[i] = q[j] => i = j
    BY <1>1, <1>2 DEF Simple
  <1>6. Simple(r)
    <2> SUFFICES ASSUME NEW i \in 1 .. n - 1, NEW j \in 1 .. n - 1, r[i] = r[j] PROVE i = j
      BY <1>3 DEF Simple
    <2>1. i \in 1 .. n /\ i + 1 \in 1 .. n /\ j \in 1 .. n /\ j + 1 \in 1 .. n
      BY <1>2
    <2>2. CASE i < k /\ j < k
      BY <1>4, <1>5, <2>1, <2>2
    <2>3. CASE i < k /\ ~(j < k)
      <3>1. i = j + 1
        BY <1>4, <1>5, <2>1, <2>3
      <3> QED
        BY <1>2, <2>1, <2>3, <3>1
    <2>4. CASE ~(i < k) /\ j < k
      <3>1. i + 1 = j
        BY <1>4, <1>5, <2>1, <2>4
      <3> QED
        BY <1>2, <2>1, <2>4, <3>1
    <2>5. CASE ~(i < k) /\ ~(j < k)
      <3>1. i + 1 = j + 1
        BY <1>4, <1>5, <2>1, <2>5
      <3> QED
        BY <3>1
    <2> QED
      BY <2>2, <2>3, <2>4, <2>5
  <1>7. Elements(r) = Elements(q) \ {q[k]}
    <2>1. ASSUME NEW x \in Elements(r) PROVE x \in Elements(q) \ {q[k]}
      <3>1. PICK i \in 1 .. n - 1 : x = r[i]
        BY <1>3 DEF Elements
      <3>2. i \in 1 .. n /\ i + 1 \in 1 .. n
        BY <1>2
      <3>3. PICK j \in 1 .. n : x = q[j] /\ j # k
        BY <1>2, <1>4, <3>1, <3>2
      <3> QED
        BY <1>1, <1>2, <1>5, <3>3 DEF Elements
    <2>2. ASSUME NEW x \in Elements(q) \ {q[k]} PROVE x \in Elements(r)
      <3>1. PICK i \in 1 .. n : x = q[i] /\ i # k
        BY <1>1 DEF Elements
      <3>2. CASE i < k
        <4>1. i \in 1 .. n - 1
          BY <1>2, <3>2
        <4> QED
          BY <1>3, <1>4, <3>1, <3>2, <4>1 DEF Elements
      <3>3. CASE ~(i < k)
        <4>1. i - 1 \in 1 .. n - 1 /\ ~(i - 1 < k) /\ i - 1 + 1 = i
          BY <1>2, <3>1, <3>3
        <4> QED
          BY <1>3, <1>4, <3>1, <4>1 DEF Elements
      <3> QED
        BY <3>2, <3>3
    <2> QED
      BY <2>1, <2>2
  <1>8. \A i \in 0 .. k - 1 : Cell(r, i) = Cell(q, i)
    <2> SUFFICES ASSUME NEW i \in 0 .. k - 1 PROVE Cell(r, i) = Cell(q, i)
      OBVIOUS
    <2>1. CASE i = 0
      BY <2>1 DEF Cell
    <2>2. CASE i # 0
      <3>1. i \in 1 .. n - 1 /\ i \in 1 .. n /\ i < k
        BY <1>2, <2>2
      <3> QED
        BY <1>1, <1>3, <1>4, <3>1 DEF Cell
    <2> QED
      BY <2>1, <2>2
  <1>9. \A i \in k .. n : Cell(r, i) = Cell(q, i + 1)
    <2> SUFFICES ASSUME NEW i \in k .. n PROVE Cell(r, i) = Cell(q, i + 1)
      OBVIOUS
    <2>1. CASE i = n
      <3>1. n \notin 1 .. n - 1 /\ n + 1 \notin 1 .. n
        BY <1>2
      <3> QED
        BY <1>1, <1>3, <2>1, <3>1 DEF Cell
    <2>2. CASE i # n
      <3>1. i \in 1 .. n - 1 /\ i + 1 \in 1 .. n /\ ~(i < k)
        BY <1>2, <2>2
      <3> QED
        BY <1>1, <1>3, <1>4, <3>1 DEF Cell
    <2> QED
      BY <2>1, <2>2
  <1>10. ASSUME NEW i \in 0 .. n - 1
         PROVE  nx2[Cell(r, i)] = Cell(r, i + 1) /\ pv2[Cell(r, i + 1)] = Cell(r, i)
    <2>1. CASE i = k - 1
      <3>1. i \in 0 .. k - 1 /\ i + 1 = k /\ k \in k .. n
        BY <1>2, <2>1
      <3>2. Cell(r, i) = Cell(q, k - 1) /\ Cell(r, i + 1) = Cell(q, k + 1)
        BY <1>8, <1>9, <2>1, <3>1
      <3> QED
        BY <1>0, <3>2
    <2>2. CASE i < k - 1
      <3>1. /\ i \in 0 .. k - 1 /\ i + 1 \in 0 .. k - 1 /\ i \in 0 .. n /\ k - 1 \in 0 .. n
            /\ i + 1 \in 1 .. n + 1 /\ k + 1 \in 1 .. n + 1 /\ i # k - 1 /\ i + 1 # k + 1
            /\ i \in 0 .. n + 1 /\ i + 1 \in 0 .. n + 1
        BY <1>2, <2>2
      <3>2. Cell(r, i) = Cell(q, i) /\ Cell(r, i + 1) = Cell(q, i + 1)
        BY <1>8, <3>1
      <3>3. nx[Cell(q, i)] = Cell(q, i + 1) /\ pv[Cell(q, i + 1)] = Cell(q, i)
        BY <1>1, <3>1 DEF Ring
      <3>4. Cell(q, i) \in Ends /\ Cell(q, i + 1) \in Ends
        BY <1>1, <1>2, <3>1, CellFacts
      <3>5. Cell(q, i) # Cell(q, k - 1)
        BY <1>1, <1>2, <3>1, CellFacts
      <3>6. Cell(q, i + 1) # Cell(q, k + 1)
        BY <1>1, <1>2, <3>1, CellFacts
      <3> QED
        BY <1>0, <3>2, <3>3, <3>4, <3>5, <3>6
    <2>3. CASE i > k - 1
      <3>0. PICK j : j = i + 1
        OBVIOUS
      <3>1. /\ i \in k .. n /\ j \in k .. n /\ j \in 0 .. n /\ k - 1 \in 0 .. n
            /\ j + 1 \in 1 .. n + 1 /\ k + 1 \in 1 .. n + 1 /\ j # k - 1 /\ j + 1 # k + 1
            /\ j \in 0 .. n + 1 /\ j + 1 \in 0 .. n + 1
        BY <1>2, <2>3, <3>0
      <3>2. Cell(r, i) = Cell(q, j) /\ Cell(r, i + 1) = Cell(q, j + 1)
        BY <1>9, <3>0, <3>1
      <3>3. nx[Cell(q, j)] = Cell(q, j + 1) /\ pv[Cell(q, j + 1)] = Cell(q, j)
        BY <1>1, <3>1 DEF Ring
      <3>4. Cell(q, j) \in Ends /\ Cell(q, j + 1) \in Ends
        BY <1>1, <1>2, <3>1, CellFacts
      <3>5. Cell(q, j) # Cell(q, k - 1)
        BY <1>1, <1>2, <3>1, CellFacts
      <3>6. Cell(q, j + 1) # Cell(q, k + 1)
        BY <1>1, <1>2, <3>1, CellFacts
      <3> QED
        BY <1>0, <3>2, <3>3, <3>4, <3>5, <3>6
    <2> QED
      BY <1>2, <2>1, <2>2, <2>3
  <1>11. \A i \in 1 .. k - 1 : r[i] = q[i]
    <2>1. \A i \in 1 .. k - 1 : i \in 1 .. n - 1 /\ i < k
      BY <1>2
    <2> QED
      BY <1>4, <2>1
  <1> QED
    BY <1>1, <1>3, <1>6, <1>7, <1>8, <1>10, <1>11 DEF Ring, IsCut

\* An injective sequence of threads is no longer than there are threads.
LEMMA RingShort ==
    ASSUME NEW q \in Seq(Threads), Simple(q)
    PROVE  Len(q) <= Size
  <1>1. PICK n : n = Len(q) /\ n \in Nat
    OBVIOUS
  <1>2. \A k \in 1 .. n : q[k] \in Threads
    BY <1>1
  <1> DEFINE f == [k \in 1 .. n |-> q[k]]
  <1>3. f \in Injection(1 .. n, Threads)
    <2>1. f \in [1 .. n -> Threads]
      BY <1>2
    <2>2. IsInjective(f)
      BY <1>1 DEF IsInjective, Simple
    <2> QED
      BY <2>1, <2>2 DEF Injection
  <1>4. Size \in Nat
    BY NodeFacts
  <1>5. IsFiniteSet(Threads) /\ Cardinality(Threads) = Size
    <2>1. PICK b \in Int : b = 1 + Size
      BY <1>4
    <2>2. IsFiniteSet(2 .. b) /\ Cardinality(2 .. b) = IF 2 > b THEN 0 ELSE b - 2 + 1
      BY FS_Interval
    <2> QED
      BY <1>4, <2>1, <2>2 DEF Threads
  <1>6. Cardinality(1 .. n) = n
    <2>1. PICK a \in Int : a = 1
      OBVIOUS
    <2>2. PICK b \in Int : b = n
      BY <1>1
    <2>3. Cardinality(a .. b) = IF a > b THEN 0 ELSE b - a + 1
      BY FS_Interval
    <2> QED
      BY <1>1, <2>1, <2>2, <2>3
  <1>7. Cardinality(1 .. n) <= Cardinality(Threads)
    <2> HIDE DEF f
    <2> QED
      BY <1>3, <1>5, FS_Injection
  <1> QED
    BY <1>1, <1>5, <1>6, <1>7

\* The nodes that list_for_each comes by are given by the recursion they are defined by.
LEMMA VisitedFacts ==
    ASSUME next \in [Ends -> Nodes]
    PROVE  /\ Visited[0] = next[HList]
           /\ \A k \in 1 .. Size : Visited[k] = After[Visited[k - 1]]
  <1>0. PICK n, T, z : n = Size /\ T = Nodes /\ z = next[HList]
    OBVIOUS
  <1> DEFINE Is(f) == f = [k \in 0 .. n |-> IF k = 0 THEN z ELSE After[f[k - 1]]]
             G == [k \in 1 .. n |-> [x \in T |-> After[x]]]
  <1>1. n \in Nat /\ z \in T
    BY <1>0, NodeFacts
  <1>2. \A x \in T : After[x] \in T
    BY <1>0, NodeFacts DEF After, Nodes, Ends
  <1>3. G \in [1 .. n -> [T -> T]]
    BY <1>2
  <1>4. \E f \in [0 .. n -> T] : StepsUp(f, z, n, G)
    <2> HIDE DEF G
    <2> QED
      BY <1>1, <1>3, Stepwise
  <1>5. PICK f \in [0 .. n -> T] : f[0] = z /\ \A k \in 1 .. n : f[k] = G[k][f[k - 1]]
    BY <1>4 DEF StepsUp
  <1>6. Is(f)
    <2>1. \A k \in 1 .. n : k - 1 \in 0 .. n /\ k \in 0 .. n /\ k # 0
      BY <1>1
    <2>2. \A k \in 1 .. n : f[k] = After[f[k - 1]]
      BY <1>5, <2>1
    <2>3. \A k \in 0 .. n : k = 0 \/ k \in 1 .. n
      BY <1>1
    <2> QED
      BY <1>5, <2>2, <2>3
  <1>7. Is(Visited)
    <2>1. Visited = CHOOSE g : Is(g)
      BY <1>0 DEF Visited
    <2> HIDE DEF Is
    <2> QED
      BY <1>6, <2>1
  <1>8. \A k \in 0 .. n : Visited[k] = IF k = 0 THEN z ELSE After[Visited[k - 1]]
    BY <1>7
  <1>9. 0 \in 0 .. n /\ \A k \in 1 .. n : k \in 0 .. n /\ k # 0
    BY <1>1
  <1> QED
    BY <1>0, <1>8, <1>9

\* list_for_each comes by the threads of a ring, in their order, and ends.
LEMMA RingPath ==
    ASSUME next \in [Ends -> Nodes], NEW pv, NEW q \in Seq(Threads), Ring(next, pv, q)
    PROVE  Closed /\ Path = q
  <1>1. PICK n : n = Len(q) /\ n \in Nat
    OBVIOUS
  <1>2. Simple(q) /\ Size \in Nat /\ n <= Size
    BY <1>1, NodeFacts, RingShort DEF Ring
  <1>3. /\ \A k \in 0 .. n : next[Cell(q, k)] = Cell(q, k + 1)
        /\ \A k \in 1 .. n : q[k] \in Threads /\ Cell(q, k) = q[k]
        /\ Cell(q, 0) = HList /\ Cell(q, n + 1) = HList
    BY <1>1, <1>2, CellFacts DEF Ring
  <1>4. Visited[0] = next[HList] /\ \A k \in 1 .. Size : Visited[k] = After[Visited[k - 1]]
    BY VisitedFacts
  <1> DEFINE A == {k \in 0 .. Size : Visited[k] = Cell(q, k + 1)}
  <1>5. 0 \in A
    <2>1. 0 \in 0 .. n /\ 0 \in 0 .. Size
      BY <1>1, <1>2
    <2> QED
      BY <1>3, <1>4, <2>1
  <1>6. ASSUME NEW k \in 1 .. Size, k - 1 \in A PROVE k \in A
    <2>1. k \in 0 .. Size /\ Visited[k - 1] = Cell(q, k) /\ Visited[k] = After[Cell(q, k)]
      BY <1>2, <1>4, <1>6
    <2>2. CASE k \in 1 .. n
      <3>1. k \in 0 .. n /\ Cell(q, k) \in Threads
        BY <1>1, <1>3, <2>2
      <3>2. After[Cell(q, k)] = next[Cell(q, k)]
        BY <3>1, NodeFacts DEF After
      <3> QED
        BY <1>3, <2>1, <3>1, <3>2
    <2>3. CASE k \notin 1 .. n
      <3>1. k + 1 \notin 1 .. n
        BY <1>1, <1>2, <2>3
      <3>2. Cell(q, k) = HList /\ Cell(q, k + 1) = HList
        BY <1>1, <2>3, <3>1 DEF Cell
      <3> QED
        BY <2>1, <3>2, NodeFacts DEF After
    <2> QED
      BY <2>2, <2>3
  <1>7. 0 .. Size \subseteq A
    <2> HIDE DEF A
    <2> QED
      BY <1>2, <1>5, <1>6, StepwiseIn
  <1>8. \A k \in 0 .. Size : Visited[k] = Cell(q, k + 1)
    BY <1>7
  <1>9. Closed
    <2>1. Size \in 0 .. Size /\ Size + 1 \notin 1 .. n
      BY <1>1, <1>2
    <2> QED
      BY <1>1, <1>8, <2>1 DEF Closed, Cell
  <1> DEFINE stops == {k \in 0 .. Size : Visited[k] \in {HList, NULL}}
  <1>10. Min(stops \cup {Size + 1}) = n
    <2>1. n \in stops
      <3>1. n \in 0 .. Size
        BY <1>1, <1>2
      <3> QED
        BY <1>3, <1>8, <3>1
    <2>2. ASSUME NEW k \in stops PROVE n <= k
      <3> SUFFICES ASSUME k < n PROVE FALSE
        BY <1>1, <1>2
      <3>1. k + 1 \in 1 .. n /\ k \in 0 .. Size
        BY <1>1, <1>2
      <3>2. Visited[k] \in Threads
        BY <1>3, <1>8, <3>1
      <3> QED
        BY <3>2, NodeFacts
    <2>3. \A k \in stops \cup {Size + 1} : n <= k /\ k \in Nat
      BY <1>1, <1>2, <2>2
    <2> HIDE DEF stops
    <2>4. stops \cup {Size + 1} \in SUBSET Nat /\ stops \cup {Size + 1} # {}
      BY <2>1, <2>3
    <2>5. PICK S : S = stops \cup {Size + 1}
      OBVIOUS
    <2>6. Min(S) \in S /\ \A x \in S : Min(S) <= x
      BY <2>4, <2>5, MinFacts
    <2>7. Min(S) <= n /\ n <= Min(S) /\ Min(S) \in Nat
      BY <2>1, <2>3, <2>5, <2>6
    <2> QED
      BY <1>1, <2>5, <2>7
  <1>11. Path = [k \in 1 .. n |-> Visited[k - 1]]
    BY <1>10 DEF Path
  <1>12. \A k \in 1 .. n : Visited[k - 1] = q[k]
    <2>1. \A k \in 1 .. n : k - 1 \in 0 .. Size /\ k - 1 + 1 = k
      BY <1>1, <1>2
    <2> QED
      BY <1>3, <1>8, <2>1
  <1>13. q = [k \in 1 .. n |-> q[k]]
    BY <1>1
  <1> QED
    BY <1>9, <1>11, <1>12, <1>13

-----------------------------------------------------------------------------
(* The invariant *)

\* The timer is never started, or comes only where nobody holds a pointer into the
\* list.
Outside == {"prompt", "create", "schedule", "foo"}
TimerOutside == "time" \in Commands => IrqAt \subseteq Outside

Thens == {"", "create", "moved", "switch", "unlink"}
Spots == [pc : Places, node : Nodes \cup {Boot}, prev : Nodes, next : Nodes, then : Thens]

\* The threads that are made and not reaped.
Alive(st, nx) == {t \in Threads : st[t] # "none" /\ nx[t] # NULL}

NoneRuns(st) == \A t \in Threads : st[t] # "RUN"

\* The threads of the ring q are those alive but the ones in out.
Holds(st, nx, q, out) == Alive(st, nx) = Elements(q) \cup out /\ Elements(q) \cap out = {}

\* No thread of q before the k-th has the status.
Before(st, q, k, s) == \A i \in 1 .. Len(q) : i < k => st[q[i]] # s

AddPcs == {"add1", "add2", "add3", "add4"}
DelPcs == {"del1", "del2"}
CalmPcs == {"prompt", "create", "idle", "schedule", "resumed", "walk", "switch", "foo"}

\* m is where the running thread c is, nx and pv the links, st the statuses and q
\* the threads of the ring.

\* A thread is being linked behind the last one: what is written so far.
Adding(nx, pv, st, c, m, q) ==
    /\ m.node \in Threads
    /\ Ring(nx, [pv EXCEPT ![HList] = m.prev], q)
    /\ Holds(st, nx, q, {m.node})
    /\ m.next = HList /\ m.prev = Cell(q, Len(q))
    /\ st[m.node] = "RUN"
    /\ m.then \in {"create", "switch"} /\ (m.then = "create" => c = Boot)
    /\ m.pc # "add1" => pv[HList] = m.node
    /\ m.pc \in {"add3", "add4"} => nx[m.node] = HList
    /\ m.pc = "add4" => pv[m.node] = m.prev

\* The k-th thread is being unlinked, to be moved or, when it is dead, for good.
Target(st, c, m, q, k) ==
    /\ m.node = q[k] /\ m.prev = Cell(q, k - 1) /\ m.next = Cell(q, k + 1)
    /\ \/ m.then = "moved" /\ st[m.node] = "RUN"
       \/ m.then = "unlink" /\ c = Boot /\ st[m.node] = "DEAD" /\ Before(st, q, k, "DEAD")

Deleting(nx, pv, st, c, m, q) ==
    /\ Ring(nx, [pv EXCEPT ![m.next] = m.node], q)
    /\ Holds(st, nx, q, {})
    /\ m.pc = "del2" => pv[m.next] = m.prev
    /\ \E k \in 1 .. Len(q) : Target(st, c, m, q, k)

\* It is unlinked, to be linked behind the last one again
Unlinked(nx, pv, st, m, q) ==
    /\ m.node \in Threads
    /\ Ring(nx, pv, q)
    /\ Holds(st, nx, q, {m.node})
    /\ st[m.node] = "RUN"

\* or to be dropped.
Dropping(nx, pv, st, c, m, q) ==
    /\ m.node \in Threads
    /\ Ring(nx, pv, q)
    /\ Holds(st, nx, q, {m.node})
    /\ c = Boot /\ st[m.node] = "DEAD"
    /\ \E k \in 1 .. Len(q) + 1 : m.prev = Cell(q, k - 1) /\ Before(st, q, k, "DEAD")

\* Where the loops stand.
Standing(st, c, m, q) ==
    /\ m.pc \in {"prompt", "create", "idle", "resumed"} => c = Boot
    /\ m.pc = "prompt" => NoneRuns(st)
    /\ m.pc = "foo" => c \in Threads /\ st[c] = "RUN"
    /\ m.pc = "idle" =>
          \E k \in 1 .. Len(q) + 1 : m.node = Cell(q, k) /\ Before(st, q, k, "DEAD")
    /\ m.pc = "walk" =>
          \E k \in 1 .. Len(q) + 1 : m.node = Cell(q, k) /\ Before(st, q, k, "RUN")
    /\ m.pc = "switch" =>
          \/ m.node = Boot /\ NoneRuns(st)
          \/ m.node \in Threads /\ st[m.node] = "RUN"

\* Nobody is inside a list operation.
Calm(nx, pv, st, c, m, q) ==
    /\ Ring(nx, pv, q)
    /\ Holds(st, nx, q, {})
    /\ Standing(st, c, m, q)

Phase(nx, pv, st, c, m, q) ==
    \/ m.pc \in CalmPcs /\ Calm(nx, pv, st, c, m, q)
    \/ m.pc \in AddPcs /\ Adding(nx, pv, st, c, m, q)
    \/ m.pc \in DelPcs /\ Deleting(nx, pv, st, c, m, q)
    \/ m.pc = "moved" /\ Unlinked(nx, pv, st, m, q)
    \/ m.pc = "unlink" /\ Dropping(nx, pv, st, c, m, q)

\* Where the others were switched from.
Waits(c, m) == m.pc \in IF c = Boot THEN {"prompt", "create", "schedule"} ELSE {"foo", "schedule"}

Typed ==
    /\ next \in [Ends -> Nodes]
    /\ prev \in [Ends -> Nodes]
    /\ status \in [Threads -> {"none", "RUN", "DEAD"}]
    /\ turns \in [Threads -> 0 .. Iterations]
    /\ cur_tid \in Contexts /\ left \in 0 .. Batch /\ cur_tid + left <= 1 + Size
    /\ cur \in Contexts
    /\ at \in [Contexts -> Spots]
    /\ in_irq \subseteq Contexts
    /\ masked \in BOOLEAN /\ timer \in BOOLEAN

Others ==
    /\ \A t \in Threads : status[t] = "none" <=> t > cur_tid
    /\ \A t \in Threads : status[t] = "RUN" => t \in Alive(status, next)
    /\ cur \in Threads => cur \in Alive(status, next)
    /\ \A c \in Contexts : c # cur => Waits(c, at[c])
    /\ timer => "time" \in Commands

Linked == \E q \in Seq(Threads) : Phase(next, prev, status, cur, at[cur], q)

IInv == Typed /\ Others /\ Linked

-----------------------------------------------------------------------------
(* Where a thread is *)

\* The records of where a thread is.
LEMMA SpotFacts ==
    /\ \A m \in Spots : /\ m.pc \in Places /\ m.node \in Nodes \cup {Boot}
                        /\ m.prev \in Nodes /\ m.next \in Nodes /\ m.then \in Thens
    /\ \A m \in Spots : \A p \in Places :
          LET r == [m EXCEPT !.pc = p]
          IN  r \in Spots /\ r.pc = p /\ r.node = m.node /\ r.prev = m.prev /\ r.next = m.next /\ r.then = m.then
    /\ \A m \in Spots : \A x \in Nodes \cup {Boot} :
          LET r == [m EXCEPT !.node = x]
          IN  r \in Spots /\ r.pc = m.pc /\ r.node = x
    /\ \A p \in Places : Here(p) \in Spots /\ Here(p).pc = p
  <1>1. \A m \in Spots : /\ m.pc \in Places /\ m.node \in Nodes \cup {Boot}
                         /\ m.prev \in Nodes /\ m.next \in Nodes /\ m.then \in Thens
    BY DEF Spots
  <1>2. ASSUME NEW m \in Spots, NEW p \in Places, NEW r, r = [m EXCEPT !.pc = p]
        PROVE  r \in Spots /\ r.pc = p /\ r.node = m.node /\ r.prev = m.prev /\ r.next = m.next /\ r.then = m.then
    BY <1>2 DEF Spots
  <1>3. ASSUME NEW m \in Spots, NEW x \in Nodes \cup {Boot}, NEW r, r = [m EXCEPT !.node = x]
        PROVE  r \in Spots /\ r.pc = m.pc /\ r.node = x
    BY <1>3 DEF Spots
  <1>4. \A p \in Places : Here(p) \in Spots /\ Here(p).pc = p
    BY NodeFacts DEF Here, Spots, Thens
  <1> QED
    BY <1>1, <1>2, <1>3, <1>4

\* The two pairs of arguments of the list operations.
LEMMA ArgFacts ==
    ASSUME NEW n \in Threads, NEW p \in Nodes, NEW then \in Thens
    PROVE  /\ AddTail(n, p, then) \in Spots
           /\ AddTail(n, p, then).pc = "add1" /\ AddTail(n, p, then).node = n
           /\ AddTail(n, p, then).prev = p /\ AddTail(n, p, then).next = HList
           /\ AddTail(n, p, then).then = then
           /\ next[n] \in Nodes /\ prev[n] \in Nodes =>
                 /\ Delete(n, then) \in Spots
                 /\ Delete(n, then).pc = "del1" /\ Delete(n, then).node = n
                 /\ Delete(n, then).prev = prev[n] /\ Delete(n, then).next = next[n]
                 /\ Delete(n, then).then = then
  <1>1. "add1" \in Places /\ "del1" \in Places
    BY DEF Places
  <1> QED
    BY <1>1, NodeFacts DEF AddTail, Delete, Spots

\* A step that leaves the running thread running and moves it from one place to
\* another keeps the invariant if it leaves a ring.
LEMMA Onward ==
    ASSUME IInv, NEW m \in Spots, at' = [at EXCEPT ![cur] = m],
           cur' = cur, status' = status, cur_tid' = cur_tid, left' = left, turns' = turns,
           in_irq' = in_irq, masked' = masked, timer' = timer,
           next' \in [Ends -> Nodes], prev' \in [Ends -> Nodes],
           \A t \in Threads : t = cur \/ status[t] = "RUN" => next[t] = NULL \/ next'[t] # NULL,
           NEW q \in Seq(Threads), Phase(next', prev', status, cur, m, q)
    PROVE  IInv'
  <1>1. at' \in [Contexts -> Spots] /\ at'[cur] = m /\ \A c \in Contexts : c # cur => at'[c] = at[c]
    BY DEF IInv, Typed
  <1>2. Typed'
    BY <1>1 DEF IInv, Typed
  <1>3. Others'
    <2>1. \A t \in Threads : (status[t] = "none" <=> t > cur_tid)'
      BY DEF IInv, Others
    <2>2. \A t \in Threads : (status[t] = "RUN" => t \in Alive(status, next))'
      BY DEF IInv, Others, Alive
    <2>3. (cur \in Threads => cur \in Alive(status, next))'
      BY DEF IInv, Others, Alive
    <2>4. \A c \in Contexts : (c # cur => Waits(c, at[c]))'
      BY <1>1 DEF IInv, Others, Waits
    <2> QED
      BY <2>1, <2>2, <2>3, <2>4 DEF IInv, Others
  <1>4. Phase(next', prev', status', cur', at'[cur'], q)
    <2>1. at'[cur'] = m /\ status' = status /\ cur' = cur
      BY <1>1
    <2> QED
      BY <2>1
  <1> QED
    BY <1>2, <1>3, <1>4 DEF IInv, Linked

\* What the invariant says of the types, and what the arguments of the list
\* operations may be.
LEMMA StateFacts ==
    ASSUME IInv
    PROVE  /\ next \in [Ends -> Nodes] /\ prev \in [Ends -> Nodes]
           /\ cur \in Contexts /\ at[cur] \in Spots /\ at[cur].pc \in Places
           /\ \A c \in Contexts : at[c] \in Spots
           /\ \A t \in Threads : status[t] \in {"none", "RUN", "DEAD"}
  BY SpotFacts DEF IInv, Typed

\* The operations that a list operation may be a part of.
LEMMA ThenFacts == {"create", "moved", "switch", "unlink"} \subseteq Thens
  BY Zenon DEF Thens

\* The steps of the places they go on at.
LEMMA PlaceFacts ==
    {"create", "switch", "moved", "unlink", "idle", "schedule", "walk", "resumed",
     "add2", "add3", "add4", "del2", "prompt", "foo", "wild"} \subseteq Places
  BY DEF Places

\* A write of a link of a thread that is not on the ring does not change the ring.
LEMMA RingWrite ==
    ASSUME NEW q \in Seq(Threads), NEW nx \in [Ends -> Nodes], NEW pv \in [Ends -> Nodes], Ring(nx, pv, q),
           NEW x \in Threads \ Elements(q), NEW v, NEW w
    PROVE  /\ Ring([nx EXCEPT ![x] = v], pv, q)
           /\ Ring(nx, [pv EXCEPT ![x] = w], q)
           /\ Ring([nx EXCEPT ![x] = v], [pv EXCEPT ![x] = w], q)
  <1>1. PICK nx2, pv2 : nx2 = [nx EXCEPT ![x] = v] /\ pv2 = [pv EXCEPT ![x] = w]
    OBVIOUS
  <1>2. \A y \in {HList} \cup Elements(q) : y \in Ends /\ y # x
    <2>1. \A y \in Elements(q) : y \in Threads
      BY DEF Elements
    <2> QED
      BY <2>1, NodeFacts
  <1>3. \A y \in {HList} \cup Elements(q) : nx2[y] = nx[y] /\ pv2[y] = pv[y]
    BY <1>1, <1>2
  <1>4. Ring(nx2, pv, q)
    BY <1>3, RingSame
  <1>5. Ring(nx, pv2, q)
    BY <1>3, RingSame
  <1>6. Ring(nx2, pv2, q)
    BY <1>3, RingSame
  <1> QED
    BY <1>1, <1>4, <1>5, <1>6

\* A link that is written with what it has changes nothing.
LEMMA SameWrite ==
    ASSUME NEW S, NEW T, NEW f \in [S -> T], NEW x
    PROVE  [f EXCEPT ![x] = f[x]] = f
  OBVIOUS

\* A link that is written twice has the last value.
LEMMA TwiceWritten ==
    ASSUME NEW S, NEW T, NEW f \in [S -> T], NEW x, NEW v, NEW w
    PROVE  [[f EXCEPT ![x] = v] EXCEPT ![x] = w] = [f EXCEPT ![x] = w]
  OBVIOUS

\* The threads of the ring and those beside it are threads.
LEMMA HoldsFacts ==
    ASSUME NEW q \in Seq(Threads), NEW st, NEW nx, NEW out, Holds(st, nx, q, out)
    PROVE  /\ \A t \in Elements(q) : t \in Threads /\ st[t] # "none" /\ nx[t] # NULL /\ t \notin out
           /\ \A t \in out : t \in Threads /\ st[t] # "none" /\ nx[t] # NULL /\ t \notin Elements(q)
           /\ \A t \in Threads : st[t] # "none" /\ nx[t] # NULL => t \in Elements(q) \/ t \in out
           /\ \A k \in 1 .. Len(q) : q[k] \in Elements(q)
  BY DEF Holds, Alive, Elements

\* The threads alive do not change while no link becomes null.
LEMMA HoldsSame ==
    ASSUME NEW q, NEW st, NEW nx, NEW nx2, NEW out, Holds(st, nx, q, out),
           \A t \in Threads : nx2[t] # NULL <=> nx[t] # NULL
    PROVE  Holds(st, nx2, q, out)
  <1>1. Alive(st, nx2) = Alive(st, nx)
    BY DEF Alive
  <1> QED
    BY <1>1 DEF Holds

-----------------------------------------------------------------------------
(* The list operations *)

\* next->prev = new
LEMMA Add1Step == ASSUME IInv, Add1 PROVE IInv'
  <1>1. PICK m, r : m = at[cur] /\ r = [m EXCEPT !.pc = "add2"]
    OBVIOUS
  <1>2. m \in Spots /\ m.pc = "add1" /\ prev' = Write(prev, m.next, m.node) /\ at' = [at EXCEPT ![cur] = r]
    BY <1>1, StateFacts DEF Add1, At, my, Pc, Goto
  <1>3. r \in Spots /\ r.pc = "add2" /\ r.node = m.node /\ r.prev = m.prev /\ r.next = m.next /\ r.then = m.then
    BY <1>1, <1>2, SpotFacts, PlaceFacts
  <1>4. PICK q \in Seq(Threads) : Adding(next, prev, status, cur, m, q)
    BY <1>1, <1>2 DEF IInv, Linked, Phase, CalmPcs, DelPcs
  <1>5. prev' = [prev EXCEPT ![HList] = m.node]
    BY <1>2, <1>4, NodeFacts DEF Adding, Write
  <1>6. prev' \in [Ends -> Nodes] /\ prev'[HList] = m.node
    BY <1>4, <1>5, StateFacts, NodeFacts DEF Adding
  <1>7. [prev' EXCEPT ![HList] = m.prev] = [prev EXCEPT ![HList] = m.prev]
    BY <1>5, StateFacts
  <1>8. Adding(next, prev', status, cur, r, q)
    BY <1>3, <1>4, <1>6, <1>7 DEF Adding
  <1>9. Phase(next, prev', status, cur, r, q)
    BY <1>3, <1>8 DEF Phase, AddPcs
  <1>10. next' = next
    BY DEF Add1
  <1> QED
    BY <1>2, <1>3, <1>6, <1>9, <1>10, Onward, StateFacts DEF Add1

\* new->next = next
LEMMA Add2Step == ASSUME IInv, Add2 PROVE IInv'
  <1>1. PICK m, r : m = at[cur] /\ r = [m EXCEPT !.pc = "add3"]
    OBVIOUS
  <1>2. m \in Spots /\ m.pc = "add2" /\ next' = Write(next, m.node, m.next) /\ at' = [at EXCEPT ![cur] = r]
    BY <1>1, StateFacts DEF Add2, At, my, Pc, Goto
  <1>3. r \in Spots /\ r.pc = "add3" /\ r.node = m.node /\ r.prev = m.prev /\ r.next = m.next /\ r.then = m.then
    BY <1>1, <1>2, SpotFacts, PlaceFacts
  <1>4. PICK q \in Seq(Threads) : Adding(next, prev, status, cur, m, q)
    BY <1>1, <1>2 DEF IInv, Linked, Phase, CalmPcs, DelPcs
  <1>5. m.node \in Threads /\ m.node \in Ends /\ m.node # NULL /\ m.node \notin Elements(q) /\ next[m.node] # NULL
    BY <1>4, NodeFacts, HoldsFacts DEF Adding
  <1>6. next' = [next EXCEPT ![m.node] = HList]
    BY <1>2, <1>4, <1>5 DEF Adding, Write
  <1>7. next' \in [Ends -> Nodes] /\ next'[m.node] = HList
    BY <1>5, <1>6, StateFacts, NodeFacts
  <1>8. \A t \in Threads : next'[t] # NULL <=> next[t] # NULL
    BY <1>5, <1>6, NodeFacts, StateFacts
  <1>9. Ring(next', [prev EXCEPT ![HList] = m.prev], q)
    <2>1. [prev EXCEPT ![HList] = m.prev] \in [Ends -> Nodes]
      BY <1>2, StateFacts, SpotFacts
    <2>2. Ring(next, [prev EXCEPT ![HList] = m.prev], q)
      BY <1>4 DEF Adding
    <2> QED
      BY <1>5, <1>6, <2>1, <2>2, RingWrite, StateFacts
  <1>10. Holds(status, next', q, {m.node})
    BY <1>4, <1>8, HoldsSame DEF Adding
  <1>11. Adding(next', prev, status, cur, r, q)
    BY <1>2, <1>3, <1>4, <1>7, <1>9, <1>10 DEF Adding
  <1>12. Phase(next', prev, status, cur, r, q)
    BY <1>3, <1>11 DEF Phase, AddPcs
  <1>13. prev' = prev
    BY DEF Add2
  <1> QED
    BY <1>2, <1>3, <1>7, <1>8, <1>12, <1>13, Onward, StateFacts DEF Add2

\* new->prev = prev
LEMMA Add3Step == ASSUME IInv, Add3 PROVE IInv'
  <1>1. PICK m, r : m = at[cur] /\ r = [m EXCEPT !.pc = "add4"]
    OBVIOUS
  <1>2. m \in Spots /\ m.pc = "add3" /\ prev' = Write(prev, m.node, m.prev) /\ at' = [at EXCEPT ![cur] = r]
    BY <1>1, StateFacts DEF Add3, At, my, Pc, Goto
  <1>3. r \in Spots /\ r.pc = "add4" /\ r.node = m.node /\ r.prev = m.prev /\ r.next = m.next /\ r.then = m.then
    BY <1>1, <1>2, SpotFacts, PlaceFacts
  <1>4. PICK q \in Seq(Threads) : Adding(next, prev, status, cur, m, q)
    BY <1>1, <1>2 DEF IInv, Linked, Phase, CalmPcs, DelPcs
  <1>5. m.node \in Threads /\ m.node \in Ends /\ m.node # NULL /\ m.node # HList /\ m.node \notin Elements(q)
    BY <1>4, NodeFacts, HoldsFacts DEF Adding
  <1>6. prev' = [prev EXCEPT ![m.node] = m.prev]
    BY <1>2, <1>5 DEF Write
  <1>7. prev' \in [Ends -> Nodes] /\ prev'[m.node] = m.prev /\ prev'[HList] = prev[HList]
    BY <1>2, <1>5, <1>6, StateFacts, NodeFacts, SpotFacts
  <1>8. Ring(next, [prev' EXCEPT ![HList] = m.prev], q)
    <2>1. PICK pv : pv = [prev EXCEPT ![HList] = m.prev]
      OBVIOUS
    <2>2. pv \in [Ends -> Nodes] /\ Ring(next, pv, q)
      BY <1>2, <1>4, <2>1, StateFacts, SpotFacts DEF Adding
    <2>3. Ring(next, [pv EXCEPT ![m.node] = m.prev], q)
      BY <1>5, <2>2, RingWrite, StateFacts
    <2>4. [prev' EXCEPT ![HList] = m.prev] = [pv EXCEPT ![m.node] = m.prev]
      BY <1>5, <1>6, <2>1, StateFacts
    <2> QED
      BY <2>3, <2>4
  <1>9. Adding(next, prev', status, cur, r, q)
    <2>1. r.pc # "add1" => prev'[HList] = m.node
      BY <1>2, <1>4, <1>7 DEF Adding
    <2>2. next[m.node] = HList
      BY <1>2, <1>4 DEF Adding
    <2> QED
      BY <1>3, <1>4, <1>7, <1>8, <2>1, <2>2 DEF Adding
  <1>10. Phase(next, prev', status, cur, r, q)
    BY <1>3, <1>9 DEF Phase, AddPcs
  <1>11. next' = next
    BY DEF Add3
  <1> QED
    BY <1>2, <1>3, <1>7, <1>10, <1>11, Onward, StateFacts DEF Add3

\* prev->next = new: the thread is the last of the ring.
LEMMA Add4Ring ==
    ASSUME IInv, Add4, NEW q \in Seq(Threads), Adding(next, prev, status, cur, at[cur], q),
           NEW t, t = at[cur].node, NEW q2, q2 = Append(q, t)
    PROVE  /\ t \in Threads /\ t \notin Elements(q)
           /\ q2 \in Seq(Threads) /\ next' \in [Ends -> Nodes] /\ Ring(next', prev, q2)
           /\ Holds(status, next', q2, {})
           /\ \A x \in Threads : next'[x] # NULL <=> next[x] # NULL
  <1>1. PICK m, last, pv : m = at[cur] /\ t = m.node /\ last = m.prev /\ pv = [prev EXCEPT ![HList] = last]
    OBVIOUS
  <1>2. m \in Spots /\ m.pc = "add4" /\ next' = Write(next, m.prev, m.node)
    BY <1>1, StateFacts DEF Add4, At, my
  <1>3. Adding(next, prev, status, cur, m, q)
    BY <1>1
  <1>4. /\ t \in Threads /\ t # NULL /\ t # HList /\ t \in Ends /\ t \notin Elements(q)
        /\ next[t] = HList /\ prev[HList] = t /\ prev[t] = last /\ status[t] = "RUN"
    BY <1>2, <1>3, <1>1, NodeFacts, HoldsFacts DEF Adding
  <1>5. Ring(next, pv, q) /\ last = Cell(q, Len(q)) /\ Holds(status, next, q, {t})
    BY <1>3, <1>1 DEF Adding
  <1>6. last \in Ends /\ last # NULL /\ last # t
    <2>1. Simple(q) /\ Len(q) \in 0 .. Len(q) + 1
      BY <1>5 DEF Ring
    <2>2. last \in Ends
      BY <1>5, <2>1, CellFacts
    <2>3. last \in {HList} \cup Elements(q)
      BY <1>5 DEF Cell, Elements
    <2> QED
      BY <1>4, <2>2, <2>3, NodeFacts
  <1>7. next' = [next EXCEPT ![last] = t]
    BY <1>2, <1>1, <1>6 DEF Write
  <1>8. /\ next' \in [Ends -> Nodes] /\ next'[last] = t /\ next'[t] = HList
        /\ \A x \in Ends : x # last /\ x # t => next'[x] = next[x]
        /\ \A x \in Ends : x # HList /\ x # t => prev[x] = pv[x]
    BY <1>1, <1>4, <1>6, <1>7, StateFacts, NodeFacts
  <1>9. q2 \in Seq(Threads) /\ Ring(next', prev, q2) /\ Elements(q2) = Elements(q) \cup {t}
    <2>1. Spliced(next, pv, next', prev, last, t)
      BY <1>4, <1>8, <1>1 DEF Spliced
    <2> QED
      BY <1>4, <1>5, <1>1, <2>1, RingAdd
  <1>10. \A x \in Threads : next'[x] # NULL <=> next[x] # NULL
    <2>1. next[last] # NULL
      <3>1. last = HList \/ last \in Elements(q)
        BY <1>5 DEF Cell, Elements
      <3>2. \A x \in Elements(q) : next[x] # NULL
        BY <1>5, HoldsFacts
      <3>3. next[HList] \in Ends
        <4>1. Simple(q) /\ 0 \in 0 .. Len(q) /\ 0 + 1 \in 0 .. Len(q) + 1
          BY <1>5 DEF Ring
        <4>2. next[Cell(q, 0)] = Cell(q, 0 + 1)
          BY <1>5, <4>1 DEF Ring
        <4>3. Cell(q, 0) = HList /\ Cell(q, 0 + 1) \in Ends
          BY <4>1, CellFacts
        <4> QED
          BY <4>2, <4>3
      <3> QED
        BY <3>1, <3>2, <3>3, NodeFacts
    <2>2. \A x \in Threads : x \in Ends
      BY NodeFacts
    <2> QED
      BY <1>4, <1>6, <1>7, <2>1, <2>2, StateFacts
  <1>11. Holds(status, next', q2, {})
    <2>1. Holds(status, next', q, {t})
      BY <1>5, <1>10, HoldsSame
    <2> QED
      BY <1>9, <2>1 DEF Holds
  <1> QED
    BY <1>4, <1>8, <1>9, <1>10, <1>11

\* The thread is on the ring.
LEMMA Add4Step == ASSUME IInv, Add4 PROVE IInv'
  <1>1. PICK m, r : m = at[cur] /\ r = [m EXCEPT !.pc = m.then]
    OBVIOUS
  <1>2. m \in Spots /\ m.pc = "add4" /\ at' = [at EXCEPT ![cur] = r]
    BY <1>1, StateFacts DEF Add4, At, my, Pc, Goto
  <1>3. PICK q \in Seq(Threads) : Adding(next, prev, status, cur, m, q)
    BY <1>1, <1>2 DEF IInv, Linked, Phase, CalmPcs, DelPcs
  <1>4. m.then \in {"create", "switch"} /\ m.then \in Places
    BY <1>3, PlaceFacts DEF Adding
  <1>5. r \in Spots /\ r.pc = m.then /\ r.node = m.node
    BY <1>1, <1>2, <1>4, SpotFacts
  <1>6. PICK t, q2 : t = m.node /\ q2 = Append(q, t)
    OBVIOUS
  <1>7. /\ t \in Threads /\ q2 \in Seq(Threads) /\ next' \in [Ends -> Nodes] /\ Ring(next', prev, q2)
        /\ Holds(status, next', q2, {}) /\ \A x \in Threads : next'[x] # NULL <=> next[x] # NULL
    BY <1>1, <1>3, <1>6, Add4Ring
  <1>8. Standing(status, cur, r, q2)
    BY <1>3, <1>4, <1>5, <1>6, <1>7 DEF Standing, Adding
  <1>9. Phase(next', prev, status, cur, r, q2)
    BY <1>4, <1>5, <1>7, <1>8 DEF Phase, Calm, CalmPcs
  <1>10. prev' = prev
    BY DEF Add4
  <1> QED
    BY <1>2, <1>5, <1>7, <1>9, <1>10, Onward, StateFacts DEF Add4

\* next->prev = prev
LEMMA Del1Step == ASSUME IInv, Del1 PROVE IInv'
  <1>1. PICK m, r : m = at[cur] /\ r = [m EXCEPT !.pc = "del2"]
    OBVIOUS
  <1>2. m \in Spots /\ m.pc = "del1" /\ prev' = Write(prev, m.next, m.prev) /\ at' = [at EXCEPT ![cur] = r]
    BY <1>1, StateFacts DEF Del1, At, my, Pc, Goto
  <1>3. r \in Spots /\ r.pc = "del2" /\ r.node = m.node /\ r.prev = m.prev /\ r.next = m.next /\ r.then = m.then
    BY <1>1, <1>2, SpotFacts, PlaceFacts
  <1>4. PICK q \in Seq(Threads) : Deleting(next, prev, status, cur, m, q)
    BY <1>1, <1>2 DEF IInv, Linked, Phase, CalmPcs, AddPcs
  <1>5. PICK k \in 1 .. Len(q) : Target(status, cur, m, q, k)
    BY <1>4 DEF Deleting
  <1>6. m.next \in Ends /\ m.next # NULL
    <2>1. Simple(q) /\ k + 1 \in 0 .. Len(q) + 1
      BY <1>4 DEF Deleting, Ring
    <2>2. Cell(q, k + 1) \in Ends
      BY <2>1, CellFacts
    <2> QED
      BY <1>5, <2>2, NodeFacts DEF Target
  <1>7. prev' = [prev EXCEPT ![m.next] = m.prev]
    BY <1>2, <1>6 DEF Write
  <1>8. prev' \in [Ends -> Nodes] /\ prev'[m.next] = m.prev
    BY <1>2, <1>6, <1>7, StateFacts, SpotFacts
  <1>9. [prev' EXCEPT ![m.next] = m.node] = [prev EXCEPT ![m.next] = m.node]
    BY <1>7, StateFacts
  <1>10. Target(status, cur, r, q, k)
    BY <1>3, <1>5 DEF Target
  <1>11. Deleting(next, prev', status, cur, r, q)
    BY <1>3, <1>4, <1>8, <1>9, <1>10 DEF Deleting
  <1>12. Phase(next, prev', status, cur, r, q)
    BY <1>3, <1>11 DEF Phase, DelPcs
  <1>13. next' = next
    BY DEF Del1
  <1> QED
    BY <1>2, <1>3, <1>8, <1>12, <1>13, Onward, StateFacts DEF Del1

\* prev->next = next: the k-th thread is off the ring.
LEMMA Del2Ring ==
    ASSUME IInv, Del2, NEW q \in Seq(Threads), Deleting(next, prev, status, cur, at[cur], q),
           NEW k \in 1 .. Len(q), Target(status, cur, at[cur], q, k), NEW t, t = at[cur].node, NEW q2, q2 = Cut(q, k)
    PROVE  /\ t \in Threads /\ t = q[k] /\ at[cur].prev = Cell(q, k - 1)
           /\ q2 \in Seq(Threads) /\ next' \in [Ends -> Nodes] /\ Ring(next', prev, q2)
           /\ IsCut(q, k, q2) /\ Holds(status, next', q2, {t})
           /\ \A x \in Threads : next'[x] # NULL <=> next[x] # NULL
  <1>1. PICK m, a, b, pv : m = at[cur] /\ t = m.node /\ a = m.prev /\ b = m.next /\ pv = [prev EXCEPT ![b] = t]
    OBVIOUS
  <1>2. m \in Spots /\ m.pc = "del2" /\ next' = Write(next, m.prev, m.next)
    BY <1>1, StateFacts DEF Del2, At, my
  <1>3. Deleting(next, prev, status, cur, m, q)
    BY <1>1
  <1>4. Target(status, cur, m, q, k)
    BY <1>1
  <1>5. /\ Ring(next, pv, q) /\ Holds(status, next, q, {}) /\ prev[b] = a
        /\ t = q[k] /\ a = Cell(q, k - 1) /\ b = Cell(q, k + 1)
    BY <1>2, <1>3, <1>4, <1>1 DEF Deleting, Target
  <1>6. a \in Ends /\ a # NULL /\ b \in Ends /\ b # NULL
    <2>1. Simple(q) /\ k + 1 \in 0 .. Len(q) + 1 /\ k - 1 \in 0 .. Len(q) + 1
      BY <1>5 DEF Ring
    <2>2. Cell(q, k + 1) \in Ends /\ Cell(q, k - 1) \in Ends
      BY <2>1, CellFacts
    <2> QED
      BY <1>5, <2>2, NodeFacts
  <1>7. next' = [next EXCEPT ![a] = b]
    BY <1>2, <1>1, <1>6 DEF Write
  <1>8. /\ next' \in [Ends -> Nodes] /\ next'[a] = b
        /\ \A x \in Ends : x # a => next'[x] = next[x]
        /\ \A x \in Ends : x # b => prev[x] = pv[x]
    BY <1>1, <1>6, <1>7, StateFacts, NodeFacts
  <1>9. /\ q2 \in Seq(Threads) /\ Ring(next', prev, q2) /\ Elements(q2) = Elements(q) \ {t}
        /\ Len(q2) = Len(q) - 1 /\ \A i \in 0 .. k - 1 : Cell(q2, i) = Cell(q, i)
        /\ \A i \in 1 .. k - 1 : q2[i] = q[i]
    <2>1. Bridged(next, pv, next', prev, Cell(q, k - 1), Cell(q, k + 1))
      BY <1>5, <1>8 DEF Bridged
    <2>2. Cut(q, k) \in Seq(Threads) /\ Ring(next', prev, Cut(q, k)) /\ IsCut(q, k, Cut(q, k))
      BY <1>5, <2>1, RingCut
    <2> QED
      BY <1>5, <1>1, <2>2 DEF IsCut
  <1>10. \A x \in Threads : next'[x] # NULL <=> next[x] # NULL
    <2>1. next[a] # NULL
      <3>1. Simple(q) /\ k - 1 \in 0 .. Len(q) /\ k - 1 + 1 \in 0 .. Len(q) + 1
        BY <1>5 DEF Ring
      <3>2. next[Cell(q, k - 1)] = Cell(q, k - 1 + 1)
        BY <1>5, <3>1 DEF Ring
      <3>3. Cell(q, k - 1 + 1) \in Ends
        BY <3>1, CellFacts
      <3> QED
        BY <1>5, <3>2, <3>3, NodeFacts
    <2>2. \A x \in Threads : x \in Ends
      BY NodeFacts
    <2> QED
      BY <1>6, <1>7, <2>1, <2>2, StateFacts
  <1>11. t \in Threads /\ Holds(status, next', q2, {t})
    <2>1. Holds(status, next', q, {}) /\ t \in Elements(q) /\ t \in Threads
      BY <1>5, <1>10, HoldsSame, HoldsFacts
    <2> QED
      BY <1>9, <2>1 DEF Holds
  <1> QED
    BY <1>1, <1>5, <1>8, <1>9, <1>10, <1>11 DEF IsCut

\* The thread is off the ring.
LEMMA Del2Step == ASSUME IInv, Del2 PROVE IInv'
  <1>1. PICK m, r : m = at[cur] /\ r = [m EXCEPT !.pc = m.then]
    OBVIOUS
  <1>2. m \in Spots /\ m.pc = "del2" /\ at' = [at EXCEPT ![cur] = r]
    BY <1>1, StateFacts DEF Del2, At, my, Pc, Goto
  <1>3. PICK q \in Seq(Threads) : Deleting(next, prev, status, cur, m, q)
    BY <1>1, <1>2 DEF IInv, Linked, Phase, CalmPcs, AddPcs
  <1>4. PICK k \in 1 .. Len(q) : Target(status, cur, m, q, k)
    BY <1>3 DEF Deleting
  <1>5. m.then \in {"moved", "unlink"} /\ m.then \in Places
    BY <1>4, PlaceFacts DEF Target
  <1>6. r \in Spots /\ r.pc = m.then /\ r.node = m.node /\ r.prev = m.prev
    BY <1>1, <1>2, <1>5, SpotFacts
  <1>7. PICK t, a, q2 : t = m.node /\ a = m.prev /\ q2 = Cut(q, k)
    OBVIOUS
  <1>8. /\ t \in Threads /\ a = Cell(q, k - 1)
        /\ q2 \in Seq(Threads) /\ next' \in [Ends -> Nodes] /\ Ring(next', prev, q2)
        /\ Len(q2) = Len(q) - 1 /\ \A i \in 0 .. k - 1 : Cell(q2, i) = Cell(q, i)
        /\ \A i \in 1 .. k - 1 : q2[i] = q[i]
        /\ Holds(status, next', q2, {t})
        /\ \A x \in Threads : next'[x] # NULL <=> next[x] # NULL
    <2>1. /\ t \in Threads /\ a = Cell(q, k - 1)
          /\ q2 \in Seq(Threads) /\ next' \in [Ends -> Nodes] /\ Ring(next', prev, q2)
          /\ IsCut(q, k, q2) /\ Holds(status, next', q2, {t})
          /\ \A x \in Threads : next'[x] # NULL <=> next[x] # NULL
      BY <1>1, <1>3, <1>4, <1>7, Del2Ring
    <2> QED
      BY <2>1 DEF IsCut
  <1>9. Phase(next', prev, status, cur, r, q2)
    <2>1. CASE m.then = "moved"
      <3>1. status[t] = "RUN"
        BY <1>4, <1>7, <2>1 DEF Target
      <3>2. Unlinked(next', prev, status, r, q2)
        BY <1>6, <1>7, <1>8, <3>1 DEF Unlinked
      <3> QED
        BY <1>6, <2>1, <3>2 DEF Phase
    <2>2. CASE m.then = "unlink"
      <3>1. status[t] = "DEAD" /\ cur = Boot /\ Before(status, q, k, "DEAD")
        BY <1>4, <1>7, <2>2 DEF Target
      <3>2. k \in 1 .. Len(q2) + 1 /\ a = Cell(q2, k - 1)
        <4>1. k \in 1 .. Len(q2) + 1 /\ k - 1 \in 0 .. k - 1
          BY <1>8
        <4> QED
          BY <1>8, <4>1
      <3>3. Before(status, q2, k, "DEAD")
        <4> SUFFICES ASSUME NEW i \in 1 .. Len(q2), i < k PROVE status[q2[i]] # "DEAD"
          BY DEF Before
        <4>1. i \in 1 .. k - 1 /\ i \in 1 .. Len(q)
          BY <1>8
        <4> QED
          BY <1>8, <3>1, <4>1 DEF Before
      <3>4. Dropping(next', prev, status, cur, r, q2)
        BY <1>6, <1>7, <1>8, <3>1, <3>2, <3>3 DEF Dropping
      <3> QED
        BY <1>6, <2>2, <3>4 DEF Phase
    <2> QED
      BY <1>5, <2>1, <2>2
  <1>10. prev' = prev
    BY DEF Del2
  <1> QED
    BY <1>2, <1>6, <1>8, <1>9, <1>10, Onward, StateFacts DEF Del2

-----------------------------------------------------------------------------
(* The loops of idle and schedule *)

\* The links of a ring, from h_list and from each of its threads.
LEMMA RingFacts ==
    ASSUME NEW q \in Seq(Threads), NEW nx, NEW pv, Ring(nx, pv, q), NEW k \in 0 .. Len(q)
    PROVE  /\ nx[Cell(q, k)] = Cell(q, k + 1) /\ pv[Cell(q, k + 1)] = Cell(q, k)
           /\ Cell(q, k) \in Ends /\ Cell(q, k + 1) \in Ends
           /\ k # 0 => Cell(q, k) = q[k] /\ q[k] \in Threads
           /\ k = 0 => Cell(q, k) = HList
  <1>1. Simple(q) /\ k \in 0 .. Len(q) + 1 /\ k + 1 \in 0 .. Len(q) + 1 /\ (k # 0 => k \in 1 .. Len(q))
    BY DEF Ring
  <1>2. nx[Cell(q, k)] = Cell(q, k + 1) /\ pv[Cell(q, k + 1)] = Cell(q, k)
    BY DEF Ring
  <1> QED
    BY <1>1, <1>2, CellFacts

\* A ring leads from h_list to its first thread and back to its last one.
LEMMA EndFacts ==
    ASSUME NEW q \in Seq(Threads), NEW nx, NEW pv, Ring(nx, pv, q)
    PROVE  /\ nx[HList] = Cell(q, 1) /\ Cell(q, 1) \in Ends
           /\ pv[HList] = Cell(q, Len(q)) /\ Cell(q, Len(q)) \in Ends
           /\ nx[HList] = HList => Elements(q) = {}
  <1>1. Len(q) \in Nat /\ Cell(q, Len(q) + 1) = HList /\ 0 + 1 = 1
    BY DEF Cell
  <1>2. 0 \in 0 .. Len(q) /\ Len(q) \in 0 .. Len(q)
    BY <1>1
  <1>3. nx[HList] = Cell(q, 1) /\ Cell(q, 1) \in Ends
    BY <1>1, <1>2, RingFacts
  <1>4. pv[HList] = Cell(q, Len(q)) /\ Cell(q, Len(q)) \in Ends
    BY <1>1, <1>2, RingFacts
  <1>5. ASSUME nx[HList] = HList PROVE Elements(q) = {}
    <2>1. Len(q) = 0
      <3> SUFFICES ASSUME Len(q) # 0 PROVE FALSE
        OBVIOUS
      <3>1. 1 \in 1 .. Len(q)
        BY <1>1
      <3> QED
        BY <1>3, <1>5, <3>1, NodeFacts DEF Cell
    <2> QED
      BY <2>1 DEF Elements
  <1> QED
    BY <1>3, <1>4, <1>5

\* With no thread of the ring runnable, none is.
LEMMA NoneLeft ==
    ASSUME IInv, NEW q \in Seq(Threads), Holds(status, next, q, {}),
           \A t \in Elements(q) : status[t] # "RUN"
    PROVE  NoneRuns(status)
  BY DEF NoneRuns, Holds, IInv, Others

\* A loop has come to the end of the ring.
LEMMA BeforeEnd ==
    ASSUME NEW st, NEW q \in Seq(Threads), NEW k \in 1 .. Len(q) + 1, NEW s,
           Cell(q, k) = HList, Before(st, q, k, s)
    PROVE  \A t \in Elements(q) : st[t] # s
  <1>1. k = Len(q) + 1
    <2> SUFFICES ASSUME k # Len(q) + 1 PROVE FALSE
      OBVIOUS
    <2>1. k \in 1 .. Len(q)
      OBVIOUS
    <2> QED
      BY <2>1, NodeFacts DEF Cell
  <1>2. \A i \in 1 .. Len(q) : i < k
    BY <1>1
  <1> QED
    BY <1>2 DEF Before, Elements

\* The arguments of __list_del for the k-th thread of the ring.
LEMMA DeleteFacts ==
    ASSUME IInv, NEW q \in Seq(Threads), Ring(next, prev, q), Holds(status, next, q, {}),
           NEW k \in 1 .. Len(q), NEW x, x = Cell(q, k), NEW then \in Thens,
           \/ then = "moved" /\ status[x] = "RUN"
           \/ then = "unlink" /\ cur = Boot /\ status[x] = "DEAD" /\ Before(status, q, k, "DEAD")
    PROVE  Delete(x, then) \in Spots /\ Phase(next, prev, status, cur, Delete(x, then), q)
  <1>1. PICK r : r = Delete(x, then)
    OBVIOUS
  <1>2. k \in 0 .. Len(q) /\ k # 0
    OBVIOUS
  <1>3. /\ next[x] = Cell(q, k + 1) /\ prev[Cell(q, k + 1)] = x
        /\ x = q[k] /\ x \in Threads /\ Cell(q, k + 1) \in Ends
    BY <1>2, RingFacts
  <1>4. prev[x] = Cell(q, k - 1)
    <2>1. PICK j : j = k - 1
      OBVIOUS
    <2>2. j \in 0 .. Len(q) /\ j + 1 = k
      BY <2>1
    <2>3. prev[Cell(q, j + 1)] = Cell(q, j)
      BY <2>2, RingFacts
    <2> QED
      BY <2>1, <2>2, <2>3
  <1>5. next[x] \in Nodes /\ prev[x] \in Nodes
    BY <1>3, NodeFacts, StateFacts
  <1>6. /\ r \in Spots /\ r.pc = "del1" /\ r.node = x /\ r.prev = prev[x] /\ r.next = next[x] /\ r.then = then
    <2>1. x \in Nodes
      BY <1>3, NodeFacts
    <2> QED
      BY <1>1, <1>3, <1>5, <2>1, ArgFacts
  <1>7. Target(status, cur, r, q, k)
    BY <1>3, <1>4, <1>6 DEF Target
  <1>8. [prev EXCEPT ![r.next] = r.node] = prev
    BY <1>3, <1>6, StateFacts
  <1>9. Deleting(next, prev, status, cur, r, q)
    BY <1>6, <1>7, <1>8 DEF Deleting
  <1> QED
    BY <1>1, <1>6, <1>9 DEF Phase, DelPcs

\* The loop of idle.
LEMMA IdleStep == ASSUME IInv, Idle PROVE IInv'
  <1>1. PICK m : m = at[cur]
    OBVIOUS
  <1>2. m \in Spots /\ m.pc = "idle"
    BY <1>1, StateFacts DEF Idle, At
  <1>3. PICK q \in Seq(Threads) : Calm(next, prev, status, cur, m, q)
    BY <1>1, <1>2 DEF IInv, Linked, Phase, AddPcs, DelPcs
  <1>4. Ring(next, prev, q) /\ Holds(status, next, q, {}) /\ cur = Boot
    BY <1>2, <1>3 DEF Calm, Standing
  <1>5. PICK k \in 1 .. Len(q) + 1 : m.node = Cell(q, k) /\ Before(status, q, k, "DEAD")
    BY <1>2, <1>3 DEF Calm, Standing
  <1>6. m.node \in Ends /\ m.node # NULL
    <2>1. Simple(q) /\ k \in 0 .. Len(q) + 1
      BY <1>4 DEF Ring
    <2> QED
      BY <1>5, <2>1, CellFacts, NodeFacts
  <1>7. CASE m.node = HList
    <2>1. PICK r : r = Here("schedule")
      OBVIOUS
    <2>2. at' = [at EXCEPT ![cur] = r]
      BY <1>1, <1>6, <1>7, <2>1 DEF Idle, my, Goto
    <2>3. r \in Spots /\ r.pc = "schedule"
      BY <2>1, SpotFacts, PlaceFacts
    <2>4. Phase(next, prev, status, cur, r, q)
      BY <1>4, <2>3 DEF Phase, Calm, CalmPcs, Standing
    <2> QED
      BY <2>2, <2>3, <2>4, Onward, StateFacts DEF Idle, links
  <1>8. CASE m.node # HList
    <2>1. k \in 1 .. Len(q)
      <3>1. k # Len(q) + 1
        BY <1>5, <1>8 DEF Cell
      <3> QED
        BY <3>1
    <2>2. m.node \in Threads
      BY <1>6, <1>8 DEF Ends
    <2>3. CASE status[m.node] = "DEAD"
      <3>1. PICK r : r = Delete(m.node, "unlink")
        OBVIOUS
      <3>2. at' = [at EXCEPT ![cur] = r]
        BY <1>1, <1>6, <1>8, <2>3, <3>1 DEF Idle, my, Goto
      <3>3. "unlink" \in Thens
        BY ThenFacts
      <3>4. r \in Spots /\ Phase(next, prev, status, cur, r, q)
        BY <1>4, <1>5, <2>1, <2>3, <3>1, <3>3, DeleteFacts
      <3> QED
        BY <3>2, <3>4, Onward, StateFacts DEF Idle, links
    <2>4. CASE status[m.node] # "DEAD"
      <3>1. PICK x, r : x = next[m.node] /\ r = [m EXCEPT !.node = x]
        OBVIOUS
      <3>2. at' = [at EXCEPT ![cur] = r]
        <4>1. [m EXCEPT !.node = next[@]] = r
          BY <3>1
        <4> QED
          BY <1>1, <1>6, <1>8, <2>4, <4>1 DEF Idle, my, Goto
      <3>3. x = Cell(q, k + 1) /\ x \in Nodes
        <4>1. k \in 0 .. Len(q) /\ k # 0
          BY <2>1
        <4> QED
          BY <1>4, <1>5, <3>1, <4>1, RingFacts, NodeFacts
      <3>4. r \in Spots /\ r.pc = "idle" /\ r.node = x
        BY <1>2, <3>1, <3>3, SpotFacts
      <3>5. Before(status, q, k + 1, "DEAD")
        <4>1. status[q[k]] # "DEAD"
          BY <1>5, <2>1, <2>4 DEF Cell
        <4> QED
          BY <1>5, <2>1, <4>1 DEF Before
      <3>6. k + 1 \in 1 .. Len(q) + 1
        BY <2>1
      <3>7. Standing(status, cur, r, q)
        BY <1>4, <3>3, <3>4, <3>5, <3>6 DEF Standing
      <3>8. Phase(next, prev, status, cur, r, q)
        BY <1>4, <3>4, <3>7 DEF Phase, Calm, CalmPcs
      <3> QED
        BY <3>2, <3>4, <3>8, Onward, StateFacts DEF Idle, links
    <2> QED
      BY <2>3, <2>4
  <1> QED
    BY <1>7, <1>8

\* list_del clears the links of the dead thread.
LEMMA UnlinkStep == ASSUME IInv, Unlink PROVE IInv'
  <1>1. PICK m, x, r : m = at[cur] /\ x = next'[m.prev] /\ r = [Here("idle") EXCEPT !.node = x]
    OBVIOUS
  <1>2. /\ m \in Spots /\ m.pc = "unlink" /\ at' = [at EXCEPT ![cur] = r]
        /\ next' = Write(next, m.node, NULL) /\ prev' = Write(prev, m.node, NULL)
    BY <1>1, StateFacts DEF Unlink, At, my, Goto
  <1>3. PICK q \in Seq(Threads) : Dropping(next, prev, status, cur, m, q)
    BY <1>1, <1>2 DEF IInv, Linked, Phase, CalmPcs, DelPcs, AddPcs
  <1>4. PICK t : t = m.node
    OBVIOUS
  <1>5. /\ t \in Threads /\ t # NULL /\ t # HList /\ t \in Ends /\ t \notin Elements(q)
        /\ status[t] = "DEAD" /\ cur = Boot /\ Ring(next, prev, q) /\ Holds(status, next, q, {t})
    BY <1>3, <1>4, NodeFacts, HoldsFacts DEF Dropping
  <1>6. PICK k \in 1 .. Len(q) + 1 : m.prev = Cell(q, k - 1) /\ Before(status, q, k, "DEAD")
    BY <1>3 DEF Dropping
  <1>7. next' = [next EXCEPT ![t] = NULL] /\ prev' = [prev EXCEPT ![t] = NULL]
    BY <1>2, <1>4, <1>5 DEF Write
  <1>8. next' \in [Ends -> Nodes] /\ prev' \in [Ends -> Nodes]
    BY <1>5, <1>7, StateFacts, NodeFacts
  <1>9. Ring(next', prev', q)
    BY <1>5, <1>7, RingWrite, StateFacts
  <1>10. Holds(status, next', q, {})
    <2>1. next'[t] = NULL /\ \A u \in Threads : u # t => next'[u] = next[u]
      BY <1>5, <1>7, StateFacts, NodeFacts
    <2>2. Alive(status, next') = Alive(status, next) \ {t}
      BY <2>1 DEF Alive
    <2> QED
      BY <1>5, <2>2 DEF Holds
  <1>11. x = Cell(q, k) /\ x \in Nodes
    <2>1. PICK j : j = k - 1
      OBVIOUS
    <2>2. j \in 0 .. Len(q) /\ j + 1 = k
      BY <2>1
    <2>3. next'[Cell(q, j)] = Cell(q, j + 1) /\ Cell(q, j + 1) \in Ends
      BY <1>9, <2>2, RingFacts
    <2> QED
      BY <1>1, <1>6, <2>1, <2>2, <2>3, NodeFacts
  <1>12. r \in Spots /\ r.pc = "idle" /\ r.node = x
    <2>1. PICK h : h = Here("idle")
      OBVIOUS
    <2>2. h \in Spots /\ h.pc = "idle"
      BY <2>1, SpotFacts, PlaceFacts
    <2> QED
      BY <1>1, <1>11, <2>1, <2>2, SpotFacts
  <1>13. Standing(status, cur, r, q)
    BY <1>5, <1>6, <1>11, <1>12 DEF Standing
  <1>14. Phase(next', prev', status, cur, r, q)
    BY <1>9, <1>10, <1>12, <1>13 DEF Phase, Calm, CalmPcs
  <1>15. \A u \in Threads : u = cur \/ status[u] = "RUN" => next[u] = NULL \/ next'[u] # NULL
    <2>1. \A u \in Threads : u # t => next'[u] = next[u]
      BY <1>5, <1>7, StateFacts, NodeFacts
    <2>2. \A u \in Threads : u = cur \/ status[u] = "RUN" => u # t
      BY <1>5, NodeFacts
    <2> QED
      BY <2>1, <2>2
  <1> QED
    BY <1>2, <1>8, <1>12, <1>14, <1>15, Onward, StateFacts DEF Unlink

\* A step to a place where nothing is asked of the ring but that it is one.
LEMMA CalmOn ==
    ASSUME IInv, NEW p \in CalmPcs, at[cur].pc = p, NEW m \in Spots, at' = [at EXCEPT ![cur] = m],
           UNCHANGED <<links, status, cur_tid, left, turns, cur, in_irq, masked, timer>>,
           m.pc \in CalmPcs,
           \A q \in Seq(Threads) : Calm(next, prev, status, cur, at[cur], q) => Standing(status, cur, m, q)
    PROVE  IInv'
  <1>1. PICK q \in Seq(Threads) : Calm(next, prev, status, cur, at[cur], q)
    BY DEF IInv, Linked, Phase, AddPcs, DelPcs, CalmPcs
  <1>2. Phase(next, prev, status, cur, m, q)
    BY <1>1 DEF Phase, Calm
  <1> QED
    BY <1>2, Onward, StateFacts DEF links

\* schedule begins its walk.
LEMMA ScheduleStep == ASSUME IInv, Schedule PROVE IInv'
  <1>1. PICK m, x, r : m = at[cur] /\ x = next[HList] /\ r = [Here("walk") EXCEPT !.node = x]
    OBVIOUS
  <1>2. m \in Spots /\ m.pc \in {"resumed", "schedule"} /\ at' = [at EXCEPT ![cur] = r]
    BY <1>1, StateFacts DEF Schedule, At, Goto
  <1>3. x \in Nodes
    BY <1>1, StateFacts, NodeFacts
  <1>4. r \in Spots /\ r.pc = "walk" /\ r.node = x
    <2>1. PICK h : h = Here("walk")
      OBVIOUS
    <2>2. h \in Spots /\ h.pc = "walk"
      BY <2>1, SpotFacts, PlaceFacts
    <2> QED
      BY <1>1, <1>3, <2>1, <2>2, SpotFacts
  <1>5. ASSUME NEW q \in Seq(Threads), Ring(next, prev, q) PROVE Standing(status, cur, r, q)
    <2>1. x = Cell(q, 1)
      BY <1>1, <1>5, EndFacts
    <2>2. 1 \in 1 .. Len(q) + 1 /\ Before(status, q, 1, "RUN")
      BY DEF Before
    <2> QED
      BY <1>4, <2>1, <2>2 DEF Standing
  <1> QED
    BY <1>1, <1>2, <1>4, <1>5, CalmOn DEF Schedule, CalmPcs, Calm

\* The walk of schedule.
LEMMA WalkStep == ASSUME IInv, Walk PROVE IInv'
  <1>1. PICK m : m = at[cur]
    OBVIOUS
  <1>2. m \in Spots /\ m.pc = "walk"
    BY <1>1, StateFacts DEF Walk, At
  <1>3. PICK q \in Seq(Threads) : Calm(next, prev, status, cur, m, q)
    BY <1>1, <1>2 DEF IInv, Linked, Phase, AddPcs, DelPcs
  <1>4. Ring(next, prev, q) /\ Holds(status, next, q, {})
    BY <1>2, <1>3 DEF Calm
  <1>5. PICK k \in 1 .. Len(q) + 1 : m.node = Cell(q, k) /\ Before(status, q, k, "RUN")
    BY <1>2, <1>3 DEF Calm, Standing
  <1>6. m.node \in Ends /\ m.node # NULL
    <2>1. Simple(q) /\ k \in 0 .. Len(q) + 1
      BY <1>4 DEF Ring
    <2> QED
      BY <1>5, <2>1, CellFacts, NodeFacts
  <1>7. CASE m.node = HList
    <2>1. PICK h, r : h = Here("switch") /\ r = [h EXCEPT !.node = Boot]
      OBVIOUS
    <2>2. at' = [at EXCEPT ![cur] = r]
      BY <1>1, <1>6, <1>7, <2>1 DEF Walk, my, Goto
    <2>3. h \in Spots /\ h.pc = "switch"
      BY <2>1, SpotFacts, PlaceFacts
    <2>4. r \in Spots /\ r.pc = "switch" /\ r.node = Boot
      BY <2>1, <2>3, SpotFacts
    <2>5. NoneRuns(status)
      <3>1. \A t \in Elements(q) : status[t] # "RUN"
        BY <1>5, <1>7, BeforeEnd
      <3> QED
        BY <1>4, <3>1, NoneLeft
    <2>6. Phase(next, prev, status, cur, r, q)
      BY <1>4, <2>4, <2>5 DEF Phase, Calm, CalmPcs, Standing
    <2> QED
      BY <2>2, <2>4, <2>6, Onward, StateFacts DEF Walk, links
  <1>8. CASE m.node # HList
    <2>1. k \in 1 .. Len(q)
      <3>1. k # Len(q) + 1
        BY <1>5, <1>8 DEF Cell
      <3> QED
        BY <3>1
    <2>2. m.node \in Threads
      BY <1>6, <1>8 DEF Ends
    <2>3. CASE status[m.node] = "RUN"
      <3>1. PICK r : r = Delete(m.node, "moved")
        OBVIOUS
      <3>2. at' = [at EXCEPT ![cur] = r]
        BY <1>1, <1>6, <1>8, <2>3, <3>1 DEF Walk, my, Goto
      <3>3. "moved" \in Thens
        BY ThenFacts
      <3>4. r \in Spots /\ Phase(next, prev, status, cur, r, q)
        BY <1>4, <1>5, <2>1, <2>3, <3>1, <3>3, DeleteFacts
      <3> QED
        BY <3>2, <3>4, Onward, StateFacts DEF Walk, links
    <2>4. CASE status[m.node] # "RUN"
      <3>1. PICK x, r : x = next[m.node] /\ r = [m EXCEPT !.node = x]
        OBVIOUS
      <3>2. at' = [at EXCEPT ![cur] = r]
        <4>1. [m EXCEPT !.node = next[@]] = r
          BY <3>1
        <4> QED
          BY <1>1, <1>6, <1>8, <2>4, <4>1 DEF Walk, my, Goto
      <3>3. x = Cell(q, k + 1) /\ x \in Nodes
        <4>1. k \in 0 .. Len(q) /\ k # 0
          BY <2>1
        <4> QED
          BY <1>4, <1>5, <3>1, <4>1, RingFacts, NodeFacts
      <3>4. r \in Spots /\ r.pc = "walk" /\ r.node = x
        BY <1>2, <3>1, <3>3, SpotFacts
      <3>5. Before(status, q, k + 1, "RUN")
        <4>1. status[q[k]] # "RUN"
          BY <1>5, <2>1, <2>4 DEF Cell
        <4> QED
          BY <1>5, <2>1, <4>1 DEF Before
      <3>6. k + 1 \in 1 .. Len(q) + 1
        BY <2>1
      <3>7. Standing(status, cur, r, q)
        BY <3>3, <3>4, <3>5, <3>6 DEF Standing
      <3>8. Phase(next, prev, status, cur, r, q)
        BY <1>4, <3>4, <3>7 DEF Phase, Calm, CalmPcs
      <3> QED
        BY <3>2, <3>4, <3>8, Onward, StateFacts DEF Walk, links
    <2> QED
      BY <2>3, <2>4
  <1> QED
    BY <1>7, <1>8

\* The second half of list_move_tail begins.
LEMMA MovedStep == ASSUME IInv, Moved PROVE IInv'
  <1>1. PICK m, t, last, r : m = at[cur] /\ t = m.node /\ last = prev[HList] /\ r = AddTail(t, last, "switch")
    OBVIOUS
  <1>2. m \in Spots /\ m.pc = "moved" /\ at' = [at EXCEPT ![cur] = r]
    BY <1>1, StateFacts DEF Moved, At, my, Goto
  <1>3. PICK q \in Seq(Threads) : Unlinked(next, prev, status, m, q)
    BY <1>1, <1>2 DEF IInv, Linked, Phase, CalmPcs, DelPcs, AddPcs
  <1>4. t \in Threads /\ Ring(next, prev, q) /\ Holds(status, next, q, {t}) /\ status[t] = "RUN"
    BY <1>1, <1>3 DEF Unlinked
  <1>5. last = Cell(q, Len(q)) /\ last \in Nodes
    BY <1>1, <1>4, EndFacts, NodeFacts
  <1>6. "switch" \in Thens
    BY ThenFacts
  <1>7. /\ r \in Spots /\ r.pc = "add1" /\ r.node = t /\ r.prev = last /\ r.next = HList /\ r.then = "switch"
    BY <1>1, <1>4, <1>5, <1>6, ArgFacts
  <1>8. [prev EXCEPT ![HList] = r.prev] = prev
    BY <1>1, <1>7, StateFacts
  <1>9. Adding(next, prev, status, cur, r, q)
    BY <1>4, <1>5, <1>7, <1>8 DEF Adding
  <1>10. Phase(next, prev, status, cur, r, q)
    BY <1>7, <1>9 DEF Phase, AddPcs
  <1> QED
    BY <1>2, <1>7, <1>10, Onward, StateFacts DEF Moved, links

\* create_thread_interface calls idle.
LEMMA CreateDoneStep == ASSUME IInv, CreateDone PROVE IInv'
  <1>1. PICK m, x, r : m = at[cur] /\ x = next[HList] /\ r = [Here("idle") EXCEPT !.node = x]
    OBVIOUS
  <1>2. m \in Spots /\ m.pc = "create" /\ at' = [at EXCEPT ![cur] = r]
    BY <1>1, StateFacts DEF CreateDone, At, Goto
  <1>3. x \in Nodes
    BY <1>1, StateFacts, NodeFacts
  <1>4. r \in Spots /\ r.pc = "idle" /\ r.node = x
    <2>1. PICK h : h = Here("idle")
      OBVIOUS
    <2>2. h \in Spots /\ h.pc = "idle"
      BY <2>1, SpotFacts, PlaceFacts
    <2> QED
      BY <1>1, <1>3, <2>1, <2>2, SpotFacts
  <1>5. ASSUME NEW q \in Seq(Threads), Calm(next, prev, status, cur, m, q) PROVE Standing(status, cur, r, q)
    <2>1. x = Cell(q, 1) /\ cur = Boot
      BY <1>1, <1>2, <1>5, EndFacts DEF Calm, Standing
    <2>2. 1 \in 1 .. Len(q) + 1 /\ Before(status, q, 1, "DEAD")
      BY DEF Before
    <2> QED
      BY <1>4, <2>1, <2>2 DEF Standing
  <1> QED
    BY <1>1, <1>2, <1>4, <1>5, CalmOn DEF CreateDone, CalmPcs

\* create_thread: the new thread is on no ring yet.
LEMMA CreateThreadStep == ASSUME IInv, CreateThread PROVE IInv'
  <1>1. PICK m, t, last, r : m = at[cur] /\ t = cur_tid + 1 /\ last = prev[HList] /\ r = AddTail(t, last, "create")
    OBVIOUS
  <1>2. /\ m \in Spots /\ m.pc = "create" /\ at' = [at EXCEPT ![cur] = r] /\ cur_tid' = t
        /\ left > 0 /\ left' = left - 1 /\ status' = [status EXCEPT ![t] = "RUN"]
        /\ next' = [next EXCEPT ![t] = t] /\ prev' = [prev EXCEPT ![t] = t]
    BY <1>1, StateFacts DEF CreateThread, At, Goto
  <1>3. /\ t \in Threads /\ left' \in 0 .. Batch /\ cur_tid' + left' <= 1 + Size
        /\ \A u \in Threads : u > t <=> u > cur_tid /\ u # t
    BY <1>1, <1>2, BatchAssumption, NodeFacts DEF IInv, Typed, Threads, Contexts, Boot
  <1>4. status[t] = "none" /\ t \notin Alive(status, next)
    <2>1. t > cur_tid
      BY <1>1, <1>2, <1>3, NodeFacts DEF IInv, Typed, Contexts, Boot
    <2> QED
      BY <1>3, <2>1 DEF IInv, Others, Alive
  <1>5. PICK q \in Seq(Threads) : Calm(next, prev, status, cur, m, q)
    BY <1>1, <1>2 DEF IInv, Linked, Phase, AddPcs, DelPcs
  <1>6. Ring(next, prev, q) /\ Holds(status, next, q, {}) /\ cur = Boot /\ t \notin Elements(q)
    BY <1>2, <1>4, <1>5 DEF Calm, Standing, Holds
  <1>7. last = Cell(q, Len(q)) /\ last \in Nodes
    BY <1>1, <1>6, EndFacts, NodeFacts
  <1>8. "create" \in Thens
    BY ThenFacts
  <1>9. /\ r \in Spots /\ r.pc = "add1" /\ r.node = t /\ r.prev = last /\ r.next = HList /\ r.then = "create"
    BY <1>1, <1>3, <1>7, <1>8, ArgFacts
  <1>10. next' \in [Ends -> Nodes] /\ prev' \in [Ends -> Nodes] /\ prev'[HList] = last
    BY <1>1, <1>2, <1>3, StateFacts, NodeFacts
  <1>11. Ring(next', [prev' EXCEPT ![HList] = r.prev], q)
    <2>1. Ring(next', prev', q)
      BY <1>2, <1>3, <1>6, RingWrite, StateFacts
    <2>2. [prev' EXCEPT ![HList] = r.prev] = prev'
      BY <1>9, <1>10
    <2> QED
      BY <2>1, <2>2
  <1>12. Alive(status', next') = Alive(status, next) \cup {t}
    <2>1. \A u \in Threads : u # t => next'[u] = next[u] /\ status'[u] = status[u]
      BY <1>2, <1>3, StateFacts, NodeFacts DEF IInv, Typed
    <2>2. next'[t] = t /\ status'[t] = "RUN" /\ t # NULL
      BY <1>2, <1>3, StateFacts, NodeFacts DEF IInv, Typed
    <2> QED
      BY <1>3, <2>1, <2>2 DEF Alive
  <1>13. Holds(status', next', q, {t})
    BY <1>6, <1>12 DEF Holds
  <1>14. status'[t] = "RUN" /\ status' \in [Threads -> {"none", "RUN", "DEAD"}]
         /\ \A u \in Threads : u # t => status'[u] = status[u]
    BY <1>2, <1>3 DEF IInv, Typed
  <1>15. Adding(next', prev', status', cur, r, q)
    BY <1>3, <1>6, <1>7, <1>9, <1>11, <1>13, <1>14 DEF Adding
  <1>16. at' \in [Contexts -> Spots] /\ at'[cur] = r /\ \A c \in Contexts : c # cur => at'[c] = at[c]
    BY <1>2, <1>9 DEF IInv, Typed
  <1>17. cur' = cur /\ turns' = turns /\ in_irq' = in_irq /\ masked' = masked /\ timer' = timer
    BY DEF CreateThread
  <1>18. Linked'
    <2>1. Phase(next', prev', status', cur', at'[cur'], q)
      BY <1>9, <1>15, <1>16, <1>17 DEF Phase, AddPcs
    <2> QED
      BY <2>1 DEF Linked
  <1>19. Typed'
    BY <1>2, <1>3, <1>10, <1>14, <1>16, <1>17, NodeFacts DEF IInv, Typed
  <1>20. Others'
    <2>1. \A u \in Threads : (status[u] = "none" <=> u > cur_tid)'
      <3>1. ~(t > t)
        BY <1>3, NodeFacts
      <3> QED
        BY <1>2, <1>3, <1>14, <3>1 DEF IInv, Others
    <2>2. \A u \in Threads : (status[u] = "RUN" => u \in Alive(status, next))'
      BY <1>12, <1>14 DEF IInv, Others
    <2>3. (cur \in Threads => cur \in Alive(status, next))'
      BY <1>12, <1>17 DEF IInv, Others
    <2>4. \A c \in Contexts : (c # cur => Waits(c, at[c]))'
      BY <1>16, <1>17 DEF IInv, Others, Waits
    <2>5. (timer => "time" \in Commands)'
      BY <1>17 DEF IInv, Others
    <2> QED
      BY <2>1, <2>2, <2>3, <2>4, <2>5 DEF Others
  <1> QED
    BY <1>18, <1>19, <1>20 DEF IInv

-----------------------------------------------------------------------------
(* The commands, the switch and the threads *)

\* A step that may change who runs, and where the processor was left, keeps the
\* invariant if the others wait outside the list and there is a ring.
LEMMA Arrive ==
    ASSUME IInv, status' = status, cur_tid' = cur_tid, left' = left, turns' = turns, timer' = timer,
           in_irq' \subseteq Contexts, masked' \in BOOLEAN, at' \in [Contexts -> Spots],
           next' \in [Ends -> Nodes], prev' \in [Ends -> Nodes],
           \A t \in Threads : next[t] # NULL => next'[t] # NULL,
           cur' \in Contexts, cur' \in Threads => cur' \in Alive(status, next),
           \A c \in Contexts : c # cur' => Waits(c, at'[c]),
           NEW q \in Seq(Threads), Phase(next', prev', status, cur', at'[cur'], q)
    PROVE  IInv'
  <1>1. Typed'
    BY DEF IInv, Typed
  <1>2. Others'
    <2>1. \A t \in Threads : (status[t] = "none" <=> t > cur_tid)'
      BY DEF IInv, Others
    <2>2. \A t \in Threads : (status[t] = "RUN" => t \in Alive(status, next))'
      BY DEF IInv, Others, Alive
    <2>3. (cur \in Threads => cur \in Alive(status, next))'
      BY DEF Alive
    <2>4. \A c \in Contexts : (c # cur => Waits(c, at[c]))'
      OBVIOUS
    <2> QED
      BY <2>1, <2>2, <2>3, <2>4 DEF IInv, Others
  <1>3. Linked'
    BY DEF Linked
  <1> QED
    BY <1>1, <1>2, <1>3 DEF IInv

\* Loading a context changes the interrupt mask and who was interrupted as they may.
LEMMA MaskFacts ==
    ASSUME IInv, NEW t, NEW mask \in BOOLEAN, SwitchTo(t, mask)
    PROVE  cur' = t /\ in_irq' \subseteq Contexts /\ masked' \in BOOLEAN
  BY DEF SwitchTo, IInv, Typed

\* Nobody has made a thread yet: the ring is empty.
LEMMA InitIInv == ASSUME Init PROVE IInv
  <1>1. /\ next = [x \in Ends |-> IF x = HList THEN HList ELSE NULL] /\ prev = next
        /\ status = [t \in Threads |-> "none"] /\ cur_tid = Boot /\ left = 0 /\ cur = Boot
        /\ turns = [t \in Threads |-> 0] /\ in_irq = {} /\ masked = FALSE /\ timer = FALSE
        /\ at = [c \in Contexts |-> Here(IF c = Boot THEN "prompt" ELSE "foo")]
    BY DEF Init, Ends
  <1>2. Typed
    <2>1. next \in [Ends -> Nodes] /\ prev \in [Ends -> Nodes]
      BY <1>1, NodeFacts
    <2>2. at \in [Contexts -> Spots]
      <3>1. \A c \in Contexts : Here(IF c = Boot THEN "prompt" ELSE "foo") \in Spots
        BY SpotFacts, PlaceFacts
      <3> QED
        BY <1>1, <3>1
    <2>3. turns \in [Threads -> 0 .. Iterations] /\ left \in 0 .. Batch
      BY <1>1, IterationsAssumption, BatchAssumption
    <2>4. cur_tid + left <= 1 + Size
      BY <1>1, NodeFacts DEF Boot
    <2> QED
      BY <1>1, <2>1, <2>2, <2>3, <2>4, NodeFacts DEF Typed
  <1>3. \A c \in Contexts : at[c].pc = IF c = Boot THEN "prompt" ELSE "foo"
    <2>1. \A p \in {"prompt", "foo"} : Here(p).pc = p
      BY SpotFacts, PlaceFacts
    <2> QED
      BY <1>1, <2>1
  <1>4. Others
    <2>1. \A t \in Threads : status[t] = "none" <=> t > cur_tid
      BY <1>1, NodeFacts DEF Threads, Boot
    <2>2. \A c \in Contexts : c # cur => Waits(c, at[c])
      BY <1>1, <1>3 DEF Waits
    <2>3. cur \notin Threads
      BY <1>1, NodeFacts
    <2>4. \A t \in Threads : status[t] # "RUN"
      BY <1>1
    <2> QED
      BY <1>1, <2>1, <2>2, <2>3, <2>4 DEF Others
  <1>5. Linked
    <2>0. <<>> \in Seq(Threads)
      OBVIOUS
    <2>1. PICK q \in Seq(Threads) : q = <<>>
      BY <2>0, Zenon
    <2>2. Len(q) = 0 /\ Elements(q) = {}
      BY <2>1 DEF Elements
    <2>3. Ring(next, prev, q)
      <3>1. Simple(q)
        BY <2>2 DEF Simple
      <3>2. \A k \in 0 .. Len(q) : Cell(q, k) = HList /\ Cell(q, k + 1) = HList
        BY <2>2 DEF Cell
      <3>3. next[HList] = HList /\ prev[HList] = HList
        BY <1>1, NodeFacts
      <3> QED
        BY <3>1, <3>2, <3>3 DEF Ring
    <2>4. Holds(status, next, q, {})
      BY <1>1, <2>2 DEF Holds, Alive
    <2>5. at[cur].pc = "prompt" /\ cur = Boot
      BY <1>1, <1>3, NodeFacts
    <2>6. Standing(status, cur, at[cur], q)
      BY <1>1, <2>5 DEF Standing, NoneRuns
    <2> QED
      BY <2>3, <2>4, <2>5, <2>6 DEF Linked, Phase, Calm, CalmPcs
  <1> QED
    BY <1>2, <1>4, <1>5 DEF IInv

\* The thread command leaves the list alone, and has room for its threads.
LEMMA ThreadCommandStep == ASSUME IInv, ThreadCommand PROVE IInv'
  <1>1. PICK r : r = Here("create")
    OBVIOUS
  <1>2. /\ at[cur].pc = "prompt" /\ at' = [at EXCEPT ![cur] = r] /\ left' = Batch /\ cur_tid + Batch <= 1 + Size
        /\ next' = next /\ prev' = prev /\ status' = status /\ cur_tid' = cur_tid /\ turns' = turns
        /\ cur' = cur /\ in_irq' = in_irq /\ masked' = masked /\ timer' = timer
    BY <1>1 DEF ThreadCommand, At, Goto, links
  <1>3. r \in Spots /\ r.pc = "create"
    BY <1>1, SpotFacts, PlaceFacts
  <1>4. at' \in [Contexts -> Spots] /\ at'[cur] = r /\ \A c \in Contexts : c # cur => at'[c] = at[c]
    BY <1>2, <1>3 DEF IInv, Typed
  <1>5. Typed'
    BY <1>2, <1>4, BatchAssumption DEF IInv, Typed
  <1>6. Others'
    <2>1. \A c \in Contexts : (c # cur => Waits(c, at[c]))'
      BY <1>2, <1>4 DEF IInv, Others
    <2> QED
      BY <1>2, <2>1 DEF IInv, Others
  <1>7. Linked'
    <2>1. PICK q \in Seq(Threads) : Calm(next, prev, status, cur, at[cur], q)
      BY <1>2 DEF IInv, Linked, Phase, AddPcs, DelPcs
    <2>2. Phase(next, prev, status, cur, r, q)
      BY <1>2, <1>3, <2>1 DEF Phase, Calm, CalmPcs, Standing
    <2>3. Phase(next', prev', status', cur', at'[cur'], q)
      BY <1>2, <1>4, <2>2
    <2> QED
      BY <2>3 DEF Linked
  <1> QED
    BY <1>5, <1>6, <1>7 DEF IInv

\* The time command changes nothing but the timer.
LEMMA TimeCommandStep == ASSUME IInv, TimeCommand PROVE IInv'
  <1>1. /\ "time" \in Commands /\ timer' = TRUE /\ left' = left /\ at' = at
        /\ next' = next /\ prev' = prev /\ status' = status /\ cur_tid' = cur_tid /\ turns' = turns
        /\ cur' = cur /\ in_irq' = in_irq /\ masked' = masked
    BY DEF TimeCommand, links
  <1>2. Typed'
    BY <1>1 DEF IInv, Typed
  <1>3. Others'
    BY <1>1 DEF IInv, Others
  <1>4. Linked'
    BY <1>1 DEF IInv, Linked
  <1> QED
    BY <1>2, <1>3, <1>4 DEF IInv

\* foo returns to its start.
LEMMA FooReturnsStep == ASSUME IInv, FooReturns PROVE IInv'
  <1>1. /\ turns' = [turns EXCEPT ![cur] = 0] /\ timer' = timer /\ left' = left /\ at' = at
        /\ next' = next /\ prev' = prev /\ status' = status /\ cur_tid' = cur_tid
        /\ cur' = cur /\ in_irq' = in_irq /\ masked' = masked
    BY DEF FooReturns, links
  <1>2. Typed'
    <2>1. turns' \in [Threads -> 0 .. Iterations]
      <3>1. turns \in [Threads -> 0 .. Iterations] /\ 0 \in 0 .. Iterations
        BY IterationsAssumption DEF IInv, Typed
      <3> QED
        BY <1>1, <3>1
    <2> QED
      BY <1>1, <2>1 DEF IInv, Typed
  <1>3. Others'
    BY <1>1 DEF IInv, Others
  <1>4. Linked'
    BY <1>1 DEF IInv, Linked
  <1> QED
    BY <1>2, <1>3, <1>4 DEF IInv

\* A turn of foo: a dead thread stays on the ring.
LEMMA FooStep == ASSUME IInv, Foo PROVE IInv'
  <1>1. PICK r : r = Here("schedule")
    OBVIOUS
  <1>2. /\ at[cur].pc = "foo" /\ at' = [at EXCEPT ![cur] = r] /\ turns[cur] < Iterations
        /\ turns' = [turns EXCEPT ![cur] = @ + 1]
        /\ status' = IF turns'[cur] = Iterations THEN [status EXCEPT ![cur] = "DEAD"] ELSE status
        /\ next' = next /\ prev' = prev /\ cur_tid' = cur_tid /\ left' = left
        /\ cur' = cur /\ in_irq' = in_irq /\ masked' = masked /\ timer' = timer
    BY <1>1 DEF Foo, At, Goto, links
  <1>3. r \in Spots /\ r.pc = "schedule"
    BY <1>1, SpotFacts, PlaceFacts
  <1>4. at' \in [Contexts -> Spots] /\ at'[cur] = r /\ \A c \in Contexts : c # cur => at'[c] = at[c]
    BY <1>2, <1>3 DEF IInv, Typed
  <1>5. PICK q \in Seq(Threads) : Calm(next, prev, status, cur, at[cur], q)
    BY <1>2 DEF IInv, Linked, Phase, AddPcs, DelPcs
  <1>6. cur \in Threads /\ status[cur] = "RUN" /\ Ring(next, prev, q) /\ Holds(status, next, q, {})
    BY <1>2, <1>5 DEF Calm, Standing
  <1>7. turns' \in [Threads -> 0 .. Iterations]
    <2>1. turns[cur] \in 0 .. Iterations /\ turns[cur] + 1 \in 0 .. Iterations
      BY <1>2, <1>6, IterationsAssumption DEF IInv, Typed
    <2> QED
      BY <1>2, <2>1 DEF IInv, Typed
  <1>8. /\ status' \in [Threads -> {"none", "RUN", "DEAD"}]
        /\ \A t \in Threads : status'[t] = "none" <=> status[t] = "none"
        /\ \A t \in Threads : status'[t] = "RUN" => status[t] = "RUN"
    BY <1>2, <1>6 DEF IInv, Typed
  <1>9. Alive(status', next') = Alive(status, next)
    BY <1>2, <1>8 DEF Alive
  <1>10. Typed'
    BY <1>2, <1>4, <1>7, <1>8 DEF IInv, Typed
  <1>11. Others'
    <2>1. \A c \in Contexts : (c # cur => Waits(c, at[c]))'
      BY <1>2, <1>4 DEF IInv, Others
    <2> QED
      BY <1>2, <1>8, <1>9, <2>1 DEF IInv, Others
  <1>12. Linked'
    <2>1. Holds(status', next', q, {})
      BY <1>6, <1>9 DEF Holds
    <2>2. Standing(status', cur', r, q)
      BY <1>3 DEF Standing
    <2>3. Phase(next', prev', status', cur', r, q)
      BY <1>2, <1>3, <1>6, <2>1, <2>2 DEF Phase, Calm, CalmPcs
    <2>4. Phase(next', prev', status', cur', at'[cur'], q)
      BY <1>2, <1>4, <2>3
    <2> QED
      BY <2>4 DEF Linked
  <1> QED
    BY <1>10, <1>11, <1>12 DEF IInv

\* With an empty queue it is the boot thread that called schedule, and that goes on.
LEMMA ScheduleEmptyStep == ASSUME IInv, ScheduleEmpty PROVE IInv'
  <1>1. PICK r, h : r = Here("resumed") /\ h = Here("prompt")
    OBVIOUS
  <1>2. /\ at[cur].pc = "schedule" /\ next[HList] = HList
        /\ at' = [at EXCEPT ![Boot] = h, ![cur] = r]
        /\ SwitchTo(Boot, masked)
        /\ next' = next /\ prev' = prev /\ status' = status /\ cur_tid' = cur_tid /\ left' = left
        /\ turns' = turns /\ timer' = timer
    BY <1>1 DEF ScheduleEmpty, At, links
  <1>3. r \in Spots /\ r.pc = "resumed" /\ h \in Spots
    BY <1>1, SpotFacts, PlaceFacts
  <1>4. PICK q \in Seq(Threads) : Calm(next, prev, status, cur, at[cur], q)
    BY <1>2 DEF IInv, Linked, Phase, AddPcs, DelPcs
  <1>5. Ring(next, prev, q) /\ Holds(status, next, q, {}) /\ Elements(q) = {}
    BY <1>2, <1>4, EndFacts DEF Calm
  <1>6. cur = Boot
    <2>1. Alive(status, next) = {}
      BY <1>5 DEF Holds
    <2> QED
      BY <2>1 DEF IInv, Others, Typed, Contexts
  <1>7. at' \in [Contexts -> Spots] /\ at'[Boot] = r /\ \A c \in Contexts : c # Boot => at'[c] = at[c]
    BY <1>2, <1>3, <1>6, NodeFacts DEF IInv, Typed
  <1>8. cur' = Boot /\ in_irq' \subseteq Contexts /\ masked' \in BOOLEAN
    BY <1>2, MaskFacts DEF IInv, Typed
  <1>9. Phase(next, prev, status, Boot, r, q)
    BY <1>3, <1>5 DEF Phase, Calm, CalmPcs, Standing
  <1>10. Phase(next', prev', status, cur', at'[cur'], q)
    BY <1>2, <1>7, <1>8, <1>9
  <1>11. \A c \in Contexts : c # cur' => Waits(c, at'[c])
    BY <1>6, <1>7, <1>8 DEF IInv, Others
  <1>12. cur' \in Contexts /\ cur' \notin Threads
    BY <1>8, NodeFacts
  <1> QED
    BY <1>2, <1>7, <1>8, <1>10, <1>11, <1>12, Arrive, StateFacts

\* _switch_to.
LEMMA SwitchStep == ASSUME IInv, Switch PROVE IInv'
  <1>1. PICK m, t, r : m = at[cur] /\ t = m.node /\ r = Here(IF cur = Boot THEN "prompt" ELSE "foo")
    OBVIOUS
  <1>2. /\ m \in Spots /\ m.pc = "switch" /\ at' = [at EXCEPT ![cur] = r] /\ SwitchTo(t, masked)
        /\ next' = next /\ prev' = prev /\ status' = status /\ cur_tid' = cur_tid /\ left' = left
        /\ turns' = turns /\ timer' = timer
    BY <1>1, StateFacts DEF Switch, At, my, Goto, links
  <1>3. r \in Spots /\ r.pc = IF cur = Boot THEN "prompt" ELSE "foo"
    BY <1>1, SpotFacts, PlaceFacts
  <1>4. PICK q \in Seq(Threads) : Calm(next, prev, status, cur, m, q)
    BY <1>1, <1>2 DEF IInv, Linked, Phase, AddPcs, DelPcs
  <1>5. /\ Ring(next, prev, q) /\ Holds(status, next, q, {})
        /\ \/ t = Boot /\ NoneRuns(status)
           \/ t \in Threads /\ status[t] = "RUN"
    BY <1>1, <1>2, <1>4 DEF Calm, Standing
  <1>6. at' \in [Contexts -> Spots] /\ at'[cur] = r /\ \A c \in Contexts : c # cur => at'[c] = at[c]
    BY <1>2, <1>3 DEF IInv, Typed
  <1>7. cur' = t /\ in_irq' \subseteq Contexts /\ masked' \in BOOLEAN
    BY <1>2, MaskFacts DEF IInv, Typed
  <1>8. t \in Contexts /\ (t \in Threads => t \in Alive(status, next))
    BY <1>5, NodeFacts DEF IInv, Others
  <1>9. \A c \in Contexts : Waits(c, at'[c])
    BY <1>3, <1>6 DEF IInv, Others, Waits
  <1>10. Standing(status, t, at'[t], q)
    <2>1. CASE t = Boot
      <3>1. at'[t].pc \in {"prompt", "create", "schedule"} /\ NoneRuns(status)
        BY <1>5, <1>8, <1>9, <2>1, NodeFacts DEF Waits
      <3> QED
        BY <2>1, <3>1 DEF Standing
    <2>2. CASE t # Boot
      <3>1. at'[t].pc \in {"foo", "schedule"} /\ t \in Threads /\ status[t] = "RUN"
        BY <1>5, <1>8, <1>9, <2>2 DEF Waits
      <3> QED
        BY <3>1 DEF Standing
    <2> QED
      BY <2>1, <2>2
  <1>11. at'[t].pc \in CalmPcs
    BY <1>8, <1>9 DEF Waits, CalmPcs
  <1>12. Phase(next', prev', status, cur', at'[cur'], q)
    BY <1>2, <1>5, <1>7, <1>10, <1>11 DEF Phase, Calm
  <1> QED
    BY <1>2, <1>6, <1>7, <1>8, <1>9, <1>12, Arrive, StateFacts

-----------------------------------------------------------------------------
(* The timer interrupt *)

\* The interrupt finds the running thread outside the list, and a ring.
LEMMA IrqFacts ==
    ASSUME IInv, TimerOutside, Interrupted
    PROVE  /\ at[cur].pc \in Outside
           /\ Waits(cur, at[cur])
           /\ \A c \in Contexts : Waits(c, at[c])
           /\ \E q \in Seq(Threads) : Calm(next, prev, status, cur, at[cur], q)
  <1>1. at[cur].pc \in Outside
    BY DEF IInv, Others, Interrupted, TimerOutside, my
  <1>2. PICK q \in Seq(Threads) : Calm(next, prev, status, cur, at[cur], q)
    BY <1>1 DEF IInv, Linked, Phase, AddPcs, DelPcs, Outside
  <1>3. Waits(cur, at[cur])
    <2>1. cur = Boot \/ cur \in Threads
      BY DEF IInv, Typed, Contexts
    <2>2. Standing(status, cur, at[cur], q)
      BY <1>2 DEF Calm
    <2> QED
      BY <1>1, <2>1, <2>2, NodeFacts DEF Outside, Standing, Waits
  <1> QED
    BY <1>1, <1>2, <1>3 DEF IInv, Others

\* The first runnable thread of the list is that of the ring.
LEMMA FirstFacts ==
    ASSUME IInv, NEW q \in Seq(Threads), Calm(next, prev, status, cur, at[cur], q)
    PROVE  /\ Closed /\ Path = q
           /\ Ready = {k \in 1 .. Len(q) : status[q[k]] = "RUN"}
           /\ Ready = {} => NoneRuns(status)
           /\ Ready # {} => /\ Min(Ready) \in 1 .. Len(q) /\ FirstReady = q[Min(Ready)]
                            /\ FirstReady \in Threads /\ status[FirstReady] = "RUN"
                            /\ \A k \in 1 .. Len(q) : k < Min(Ready) => status[q[k]] # "RUN"
  <1>1. Ring(next, prev, q) /\ Holds(status, next, q, {})
    BY DEF Calm
  <1>2. Closed /\ Path = q
    BY <1>1, RingPath, StateFacts
  <1>3. Ready = {k \in 1 .. Len(q) : status[q[k]] = "RUN"}
    BY <1>2 DEF Ready
  <1>4. ASSUME Ready = {} PROVE NoneRuns(status)
    <2>1. \A t \in Elements(q) : status[t] # "RUN"
      BY <1>3, <1>4 DEF Elements
    <2> QED
      BY <1>1, <2>1, NoneLeft
  <1>5. ASSUME Ready # {}
        PROVE  /\ Min(Ready) \in 1 .. Len(q) /\ FirstReady = q[Min(Ready)]
               /\ FirstReady \in Threads /\ status[FirstReady] = "RUN"
               /\ \A k \in 1 .. Len(q) : k < Min(Ready) => status[q[k]] # "RUN"
    <2>1. Ready \in SUBSET Nat
      BY <1>3
    <2>2. Min(Ready) \in Ready /\ \A x \in Ready : Min(Ready) <= x
      BY <1>5, <2>1, MinFacts
    <2>3. PICK n : n = Min(Ready)
      OBVIOUS
    <2>4. n \in 1 .. Len(q) /\ status[q[n]] = "RUN" /\ q[n] \in Threads
      BY <1>3, <2>2, <2>3
    <2>5. \A k \in 1 .. Len(q) : k < n => status[q[k]] # "RUN"
      BY <1>3, <2>2, <2>3
    <2>6. FirstReady = q[n]
      BY <1>2, <2>3 DEF FirstReady
    <2> QED
      BY <2>3, <2>4, <2>5, <2>6
  <1> QED
    BY <1>2, <1>3, <1>4, <1>5

\* list_move_tail of the k-th thread: it becomes the last one of the ring.
LEMMA MoveTailFacts ==
    ASSUME NEW st, next \in [Ends -> Nodes], prev \in [Ends -> Nodes],
           NEW q \in Seq(Threads), Ring(next, prev, q), Holds(st, next, q, {}),
           NEW k \in 1 .. Len(q), NEW t, t = q[k], MoveTail(t)
    PROVE  /\ Cut(q, k) \in Seq(Threads) /\ Append(Cut(q, k), t) \in Seq(Threads)
           /\ next' \in [Ends -> Nodes] /\ prev' \in [Ends -> Nodes]
           /\ Ring(next', prev', Append(Cut(q, k), t))
           /\ Holds(st, next', Append(Cut(q, k), t), {})
           /\ \A x \in Threads : next'[x] # NULL <=> next[x] # NULL
  <1>1. PICK a, b, p1, n1, last : /\ a = prev[t] /\ b = next[t]
                                  /\ p1 = Write(prev, b, a) /\ n1 = Write(next, a, b)
                                  /\ last = p1[HList]
    OBVIOUS
  <1>2. /\ prev' = [p1 EXCEPT ![HList] = t, ![t] = last]
        /\ next' = Write([n1 EXCEPT ![t] = HList], last, t)
    BY <1>1 DEF MoveTail
  <1>3. /\ t \in Threads /\ t = Cell(q, k) /\ b = Cell(q, k + 1) /\ a = Cell(q, k - 1)
        /\ next[a] = t /\ prev[b] = t /\ a \in Ends /\ b \in Ends
    <2>1. PICK j : j = k - 1
      OBVIOUS
    <2>2. j \in 0 .. Len(q) /\ j + 1 = k /\ k \in 0 .. Len(q) /\ k # 0
      BY <2>1
    <2>3. /\ next[Cell(q, j)] = Cell(q, k) /\ prev[Cell(q, k)] = Cell(q, j)
          /\ Cell(q, j) \in Ends
      BY <2>2, RingFacts
    <2>4. /\ next[Cell(q, k)] = Cell(q, k + 1) /\ prev[Cell(q, k + 1)] = Cell(q, k)
          /\ Cell(q, k + 1) \in Ends /\ Cell(q, k) = q[k] /\ q[k] \in Threads
      BY <2>2, RingFacts
    <2> QED
      BY <1>1, <2>1, <2>3, <2>4
  <1>4. /\ t # NULL /\ t # HList /\ t \in Ends /\ a # NULL /\ b # NULL
    BY <1>3, NodeFacts
  <1>5. p1 = [prev EXCEPT ![b] = a] /\ n1 = [next EXCEPT ![a] = b]
    BY <1>1, <1>4 DEF Write
  <1>6. p1 \in [Ends -> Nodes] /\ n1 \in [Ends -> Nodes]
    BY <1>3, <1>5, NodeFacts
  <1>7. Bridged(next, prev, n1, p1, Cell(q, k - 1), Cell(q, k + 1))
    <2>1. /\ n1[a] = b /\ p1[b] = a
          /\ \A x \in Ends : x # a => n1[x] = next[x]
          /\ \A x \in Ends : x # b => p1[x] = prev[x]
      BY <1>3, <1>5
    <2> QED
      BY <1>3, <2>1 DEF Bridged
  <1>8. PICK r : r = Cut(q, k)
    OBVIOUS
  <1>9. r \in Seq(Threads) /\ Ring(n1, p1, r) /\ Elements(r) = Elements(q) \ {t}
    <2>1. Cut(q, k) \in Seq(Threads) /\ Ring(n1, p1, Cut(q, k)) /\ IsCut(q, k, Cut(q, k))
      BY <1>7, RingCut
    <2> QED
      BY <1>8, <2>1 DEF IsCut
  <1>10. last = Cell(r, Len(r)) /\ last \in Ends /\ last # t /\ last # NULL
    <2>1. last = Cell(r, Len(r)) /\ last \in Ends
      BY <1>1, <1>9, EndFacts
    <2>2. last \in {HList} \cup Elements(r)
      BY <2>1 DEF Cell, Elements
    <2> QED
      BY <1>4, <1>9, <2>1, <2>2, NodeFacts
  <1>11. next' = [[n1 EXCEPT ![t] = HList] EXCEPT ![last] = t]
    BY <1>2, <1>10 DEF Write
  <1>12. next' \in [Ends -> Nodes] /\ prev' \in [Ends -> Nodes]
    <2>1. t \in Nodes /\ HList \in Nodes /\ last \in Nodes
      BY <1>4, <1>10, NodeFacts
    <2> QED
      BY <1>2, <1>6, <1>11, <2>1
  <1>13. /\ next'[last] = t /\ next'[t] = HList /\ prev'[t] = last /\ prev'[HList] = t
         /\ \A x \in Ends : x # last /\ x # t => next'[x] = n1[x]
         /\ \A x \in Ends : x # HList /\ x # t => prev'[x] = p1[x]
    BY <1>2, <1>4, <1>6, <1>10, <1>11, NodeFacts
  <1>14. PICK q2 : q2 = Append(r, t)
    OBVIOUS
  <1>15. q2 \in Seq(Threads) /\ Ring(next', prev', q2) /\ Elements(q2) = Elements(r) \cup {t}
    <2>1. t \notin Elements(r)
      BY <1>9
    <2>2. Spliced(n1, p1, next', prev', last, t)
      BY <1>13 DEF Spliced
    <2> QED
      BY <1>3, <1>9, <1>10, <1>14, <2>1, <2>2, RingAdd
  <1>16. t \in Elements(q)
    BY DEF Elements
  <1>17. \A x \in Threads : next'[x] # NULL <=> next[x] # NULL
    <2>1. last \in Threads => next[last] # NULL
      <3>1. last \in Threads => last \in Elements(q)
        BY <1>9, <1>10, NodeFacts DEF Cell, Elements
      <3> QED
        BY <3>1, HoldsFacts
    <2>2. next[a] # NULL /\ next[t] # NULL
      BY <1>1, <1>3, <1>4
    <2>3. \A x \in Threads : x \in Ends /\ (x # a => n1[x] = next[x])
      BY <1>3, <1>5, NodeFacts
    <2>4. n1[a] = b
      BY <1>3, <1>5
    <2> QED
      BY <1>4, <1>13, <2>1, <2>2, <2>3, <2>4, NodeFacts
  <1>18. Holds(st, next', q2, {})
    <2>1. Holds(st, next', q, {})
      BY <1>17, HoldsSame
    <2> QED
      BY <1>9, <1>15, <1>16, <2>1 DEF Holds
  <1> QED
    BY <1>8, <1>9, <1>12, <1>14, <1>15, <1>17, <1>18

\* The interrupt switches to the first runnable thread.
LEMMA TimerIrqStep == ASSUME IInv, TimerOutside, TimerIrq PROVE IInv'
  <1>1. PICK q \in Seq(Threads) : Calm(next, prev, status, cur, at[cur], q)
    BY IrqFacts DEF TimerIrq
  <1>2. PICK t, k : t = FirstReady /\ k = Min(Ready)
    OBVIOUS
  <1>3. k \in 1 .. Len(q) /\ t = q[k] /\ t \in Threads /\ status[t] = "RUN"
    BY <1>1, <1>2, FirstFacts DEF TimerIrq
  <1>4. /\ MoveTail(t) /\ cur' = t /\ in_irq' = (in_irq \cup {cur}) \ {t}
        /\ masked' = (t \notin in_irq \cup {cur})
        /\ status' = status /\ cur_tid' = cur_tid /\ left' = left /\ turns' = turns /\ at' = at /\ timer' = timer
    BY <1>2 DEF TimerIrq
  <1>5. Ring(next, prev, q) /\ Holds(status, next, q, {})
    BY <1>1 DEF Calm
  <1>6. PICK q2 : q2 = Append(Cut(q, k), t)
    OBVIOUS
  <1>7. /\ q2 \in Seq(Threads) /\ next' \in [Ends -> Nodes] /\ prev' \in [Ends -> Nodes]
        /\ Ring(next', prev', q2) /\ Holds(status, next', q2, {})
        /\ \A x \in Threads : next'[x] # NULL <=> next[x] # NULL
    BY <1>3, <1>4, <1>5, <1>6, MoveTailFacts, StateFacts
  <1>8. \A c \in Contexts : Waits(c, at[c])
    BY IrqFacts DEF TimerIrq
  <1>9. at[t].pc \in {"foo", "schedule"}
    BY <1>3, <1>8, NodeFacts DEF Waits
  <1>10. Phase(next', prev', status, t, at[t], q2)
    BY <1>3, <1>7, <1>9 DEF Phase, Calm, CalmPcs, Standing
  <1>11. t \in Contexts /\ t \in Alive(status, next)
    BY <1>3, NodeFacts DEF IInv, Others
  <1>12. in_irq' \subseteq Contexts /\ masked' \in BOOLEAN /\ at' \in [Contexts -> Spots]
    BY <1>4 DEF IInv, Typed
  <1> QED
    BY <1>4, <1>7, <1>8, <1>10, <1>11, <1>12, Arrive

\* With none it goes back to the boot thread.
LEMMA TimerIrqToBootStep == ASSUME IInv, TimerOutside, TimerIrqToBoot PROVE IInv'
  <1>1. PICK q \in Seq(Threads) : Calm(next, prev, status, cur, at[cur], q)
    BY IrqFacts DEF TimerIrqToBoot
  <1>2. Ring(next, prev, q) /\ Holds(status, next, q, {}) /\ NoneRuns(status)
    BY <1>1, FirstFacts DEF Calm, TimerIrqToBoot
  <1>3. next[HList] # HList
    <2>1. cur \in Elements(q)
      BY <1>2 DEF Holds, IInv, Others, Typed, Contexts, TimerIrqToBoot
    <2> QED
      BY <1>2, <2>1, EndFacts
  <1>4. /\ cur' = Boot /\ in_irq' = (in_irq \cup {cur}) \ {Boot} /\ masked' = (Boot \notin in_irq)
        /\ status' = status /\ cur_tid' = cur_tid /\ left' = left /\ turns' = turns /\ at' = at /\ timer' = timer
        /\ next' = next /\ prev' = prev
    BY <1>3 DEF TimerIrqToBoot, links
  <1>5. \A c \in Contexts : Waits(c, at[c])
    BY IrqFacts DEF TimerIrqToBoot
  <1>6. at[Boot].pc \in {"prompt", "create", "schedule"}
    BY <1>5, NodeFacts DEF Waits
  <1>7. Phase(next, prev, status, Boot, at[Boot], q)
    BY <1>2, <1>6 DEF Phase, Calm, CalmPcs, Standing
  <1>8. in_irq' \subseteq Contexts /\ masked' \in BOOLEAN /\ at' \in [Contexts -> Spots]
    BY <1>4 DEF IInv, Typed
  <1>9. Boot \in Contexts /\ Boot \notin Threads
    BY NodeFacts
  <1>10. Phase(next', prev', status, cur', at'[cur'], q)
    BY <1>4, <1>7
  <1> QED
    BY <1>4, <1>5, <1>8, <1>9, <1>10, Arrive, StateFacts

\* The walk of the interrupt always ends.
LEMMA TimerIrqLostStep == ASSUME IInv, TimerOutside, TimerIrqLost PROVE FALSE
  <1>1. PICK q \in Seq(Threads) : Calm(next, prev, status, cur, at[cur], q)
    BY IrqFacts DEF TimerIrqLost
  <1> QED
    BY <1>1, FirstFacts DEF TimerIrqLost

-----------------------------------------------------------------------------
(* The theorems *)

\* The inductive invariant: the links forward always make a ring, the links back
\* do but where a list operation is at work, the ring goes through the threads
\* that are made and not reaped but the one that is being moved, the loops stand
\* at a node of it with nothing left behind them, and whoever does not run waits
\* outside the list.
THEOREM RingInvariant == Spec /\ TimerOutside => []IInv
  <1>1. Init => IInv
    BY InitIInv
  <1>2. IInv /\ TimerOutside /\ [Next]_vars => IInv'
    <2> SUFFICES ASSUME IInv, TimerOutside, [Next]_vars PROVE IInv'
      OBVIOUS
    <2>1. CASE ThreadCommand \/ TimeCommand
      BY <2>1, ThreadCommandStep, TimeCommandStep
    <2>2. CASE CreateThread \/ CreateDone
      BY <2>2, CreateThreadStep, CreateDoneStep
    <2>3. CASE Add1 \/ Add2 \/ Add3 \/ Add4
      BY <2>3, Add1Step, Add2Step, Add3Step, Add4Step
    <2>4. CASE Del1 \/ Del2
      BY <2>4, Del1Step, Del2Step
    <2>5. CASE Idle \/ Unlink
      BY <2>5, IdleStep, UnlinkStep
    <2>6. CASE Schedule \/ ScheduleEmpty \/ Walk
      BY <2>6, ScheduleStep, ScheduleEmptyStep, WalkStep
    <2>7. CASE Moved \/ Switch
      BY <2>7, MovedStep, SwitchStep
    <2>8. CASE Foo \/ FooReturns
      BY <2>8, FooStep, FooReturnsStep
    <2>9. CASE TimerIrq \/ TimerIrqToBoot \/ TimerIrqLost
      BY <2>9, TimerIrqStep, TimerIrqToBootStep, TimerIrqLostStep
    <2>10. CASE UNCHANGED vars
      <3>1. /\ next' = next /\ prev' = prev /\ status' = status /\ cur_tid' = cur_tid /\ left' = left
            /\ turns' = turns /\ cur' = cur /\ at' = at /\ in_irq' = in_irq /\ masked' = masked /\ timer' = timer
        BY <2>10 DEF vars
      <3>2. Typed' /\ Others' /\ Linked'
        BY <3>1 DEF IInv, Typed, Others, Linked
      <3> QED
        BY <3>2 DEF IInv
    <2> QED
      BY <2>1, <2>2, <2>3, <2>4, <2>5, <2>6, <2>7, <2>8, <2>9, <2>10 DEF Next, Cpu
  <1>3. Spec /\ TimerOutside => []IInv
    <2> SUFFICES ASSUME TimerOutside PROVE Spec => []IInv
      OBVIOUS
    <2>1. IInv /\ [Next]_vars => IInv'
      BY <1>2
    <2> QED
      BY <1>1, <2>1, PTL DEF Spec
  <1> QED
    BY <1>3

\* Every variable keeps its type.
THEOREM TypeCorrect == Spec /\ TimerOutside => []TypeOK
  <1>1. IInv => TypeOK
    <2> SUFFICES ASSUME IInv PROVE TypeOK
      OBVIOUS
    <2>1. DOMAIN at = Contexts /\ \A c \in Contexts : at[c] \in Spots
      BY DEF IInv, Typed
    <2>2. \A c \in Contexts :
             /\ at[c].pc \in Places /\ at[c].node \in Nodes \cup {Boot}
             /\ at[c].prev \in Nodes /\ at[c].next \in Nodes /\ at[c].then \in Thens
      BY <2>1, SpotFacts
    <2>3. \A c \in Contexts : {at[c].prev, at[c].next} \subseteq Nodes
      BY <2>2
    <2>4. \A c \in Contexts : at[c].then \in {"", "create", "moved", "switch", "unlink"}
      BY <2>2, Zenon DEF Thens
    <2>5. /\ next \in [{HList} \cup Threads -> Nodes] /\ prev \in [{HList} \cup Threads -> Nodes]
          /\ status \in [Threads -> {"none", "RUN", "DEAD"}] /\ cur_tid \in Contexts /\ left \in 0 .. Batch
          /\ turns \in [Threads -> 0 .. Iterations] /\ cur \in Contexts
          /\ in_irq \subseteq Contexts /\ masked \in BOOLEAN /\ timer \in BOOLEAN
      BY Zenon DEF IInv, Typed, Ends
    <2> QED
      BY <2>1, <2>2, <2>3, <2>4, <2>5, Zenon DEF TypeOK
  <1> QED
    BY <1>1, RingInvariant, PTL

\* Whenever no list operation is under way, the run queue is a ring through every
\* thread that was made and not yet reaped.
THEOREM RunQueueIsExact == Spec /\ TimerOutside => []RunQueueExact
  <1>1. IInv => RunQueueExact
    <2> SUFFICES ASSUME IInv, Quiet
                 PROVE  /\ Closed /\ IsInjective(Path) /\ ToSet(Path) = Made \ Reaped
                        /\ \A x \in {HList} \cup ToSet(Path) : prev[next[x]] = x
      BY DEF RunQueueExact
    <2>1. at[cur].pc \notin AddPcs \cup DelPcs \cup {"moved", "unlink"}
      BY StateFacts DEF Quiet, AddPcs, DelPcs
    <2>2. PICK q \in Seq(Threads) : Calm(next, prev, status, cur, at[cur], q)
      BY <2>1 DEF IInv, Linked, Phase
    <2>3. Ring(next, prev, q) /\ Holds(status, next, q, {}) /\ Closed /\ Path = q
      BY <2>2, FirstFacts DEF Calm
    <2>4. IsInjective(q) /\ ToSet(q) = Elements(q)
      BY <2>3 DEF IsInjective, ToSet, Elements, Ring, Simple
    <2>5. Elements(q) = Made \ Reaped
      BY <2>3 DEF Holds, Alive, Made, Reaped
    <2>6. ASSUME NEW x \in {HList} \cup Elements(q) PROVE prev[next[x]] = x
      <3>1. PICK k \in 0 .. Len(q) : x = Cell(q, k)
        <4>1. CASE x = HList
          <5>1. 0 \in 0 .. Len(q) /\ Cell(q, 0) = HList
            BY DEF Cell
          <5> QED
            BY <4>1, <5>1
        <4>2. CASE x \in Elements(q)
          <5>1. PICK k \in 1 .. Len(q) : x = q[k]
            BY <4>2 DEF Elements
          <5>2. k \in 0 .. Len(q) /\ x = Cell(q, k)
            BY <5>1 DEF Cell
          <5> QED
            BY <5>2
        <4> QED
          BY <4>1, <4>2
      <3> QED
        BY <2>3, <3>1, RingFacts
    <2> QED
      BY <2>3, <2>4, <2>5, <2>6
  <1> QED
    BY <1>1, RingInvariant, PTL

\* When the shell reads its next command no thread is runnable.
THEOREM ShellComesLast == Spec /\ TimerOutside => []ShellWaits
  <1>1. IInv => ShellWaits
    <2> SUFFICES ASSUME IInv, at[cur].pc = "prompt" PROVE NoneRuns(status)
      BY DEF ShellWaits, At, NoneRuns
    <2>1. PICK q \in Seq(Threads) : Calm(next, prev, status, cur, at[cur], q)
      BY DEF IInv, Linked, Phase, AddPcs, DelPcs
    <2> QED
      BY <2>1 DEF Calm, Standing
  <1> QED
    BY <1>1, RingInvariant, PTL

\* One walk of idle deletes every dead thread.
THEOREM IdleReaps == Spec /\ TimerOutside => IdleReapsAll
  <1> DEFINE A == At("idle") /\ at'[cur].pc = "schedule" => \A t \in ToSet(Path) : status[t] # "DEAD"
  <1>1. IInv /\ TimerOutside /\ [Next]_vars => [A]_vars
    <2> SUFFICES ASSUME IInv, TimerOutside, Next, at[cur].pc = "idle", at'[cur].pc = "schedule"
                 PROVE  \A t \in ToSet(Path) : status[t] # "DEAD"
      BY DEF At
    <2>1. PICK q \in Seq(Threads) : Calm(next, prev, status, cur, at[cur], q)
      BY DEF IInv, Linked, Phase, AddPcs, DelPcs
    <2>2. PICK k \in 1 .. Len(q) + 1 : at[cur].node = Cell(q, k) /\ Before(status, q, k, "DEAD")
      BY <2>1 DEF Calm, Standing
    <2>3. ~Interrupted
      BY IrqFacts DEF Outside
    <2>4. Idle
      BY <2>3 DEF Next, Cpu, At, ThreadCommand, TimeCommand, CreateThread, CreateDone, Add1, Add2, Add3,
             Add4, Del1, Del2, Unlink, Schedule, ScheduleEmpty, Walk, Moved, Switch, Foo, FooReturns,
             TimerIrq, TimerIrqToBoot, TimerIrqLost
    <2>5. Cell(q, k) = HList
      <3> SUFFICES ASSUME Cell(q, k) # HList PROVE FALSE
        OBVIOUS
      <3>1. PICK m, r : m = at[cur] /\ r = at'[cur]
        OBVIOUS
      <3>2. m \in Spots /\ m.pc = "idle" /\ r.pc = "schedule"
        BY <3>1, StateFacts
      <3>3. Simple(q) /\ k \in 0 .. Len(q) + 1
        BY <2>1 DEF Calm, Ring
      <3>4. m.node # NULL /\ m.node # HList
        BY <2>2, <3>1, <3>3, CellFacts, NodeFacts
      <3>5. r = IF status[m.node] = "DEAD" THEN Delete(m.node, "unlink") ELSE [m EXCEPT !.node = next[m.node]]
        BY <2>4, <3>1, <3>4 DEF Idle, Goto, my, IInv, Typed
      <3>6. Delete(m.node, "unlink").pc = "del1"
        BY DEF Delete
      <3>7. [m EXCEPT !.node = next[m.node]].pc = "idle"
        BY <3>2 DEF Spots
      <3> QED
        BY <3>2, <3>5, <3>6, <3>7
    <2>6. \A t \in Elements(q) : status[t] # "DEAD"
      BY <2>2, <2>5, BeforeEnd
    <2> QED
      BY <2>1, <2>6, FirstFacts DEF ToSet, Elements
  <1>2. Spec /\ TimerOutside => [][A]_vars
    <2> SUFFICES ASSUME TimerOutside PROVE Spec => [][A]_vars
      OBVIOUS
    <2>1. IInv /\ [Next]_vars => [A]_vars
      BY <1>1
    <2>2. Spec => []IInv
      BY RingInvariant
    <2> HIDE DEF A
    <2> QED
      BY <2>1, <2>2, PTL DEF Spec
  <1> QED
    BY <1>2 DEF IdleReapsAll

-----------------------------------------------------------------------------
(* What is selected from a queue *)

\* What a list operation does that is part of a list_move_tail.
Moves == {"moved", "switch"}

\* The runnable threads.
Runs(st) == {t \in Threads : st[t] = "RUN"}

\* t is the last of q.
LastOf(q, t) == Len(q) # 0 /\ q[Len(q)] = t

\* f[k] is what is selected from the first k elements, of n.
Selects(f, first, q, S, n) ==
    /\ f \in [0 .. n -> Seq(Threads)]
    /\ f[0] = first
    /\ \A k \in 1 .. n : f[k] = IF q[k] \in S THEN Append(f[k - 1], q[k]) ELSE f[k - 1]
    /\ Selected(first, q, S) = f[n]

\* The recursion of Selected, as far as it is needed.
LEMMA SelectedFacts ==
    ASSUME NEW q \in Seq(Threads), NEW first \in Seq(Threads), NEW S, NEW n, n = Len(q)
    PROVE  \E f : Selects(f, first, q, S, n)
  <1>0. PICK T : T = Seq(Threads)
    OBVIOUS
  <1> DEFINE Is(f) == f = [k \in 0 .. n |-> IF k = 0 THEN first
                                            ELSE IF q[k] \in S THEN Append(f[k - 1], q[k]) ELSE f[k - 1]]
             G == [k \in 1 .. n |-> [x \in T |-> IF q[k] \in S THEN Append(x, q[k]) ELSE x]]
  <1>1. n \in Nat /\ first \in T /\ \A k \in 1 .. n : q[k] \in Threads
    BY <1>0
  <1>2. G \in [1 .. n -> [T -> T]]
    <2>1. ASSUME NEW k \in 1 .. n, NEW x \in T PROVE (IF q[k] \in S THEN Append(x, q[k]) ELSE x) \in T
      <3>1. Append(x, q[k]) \in T
        BY <1>0, <1>1
      <3> QED
        BY <3>1
    <2> QED
      BY <2>1
  <1>3. \E f \in [0 .. n -> T] : StepsUp(f, first, n, G)
    <2> HIDE DEF G
    <2> QED
      BY <1>1, <1>2, Stepwise
  <1>4. PICK f \in [0 .. n -> T] : f[0] = first /\ \A k \in 1 .. n : f[k] = G[k][f[k - 1]]
    BY <1>3 DEF StepsUp
  <1>5. \A k \in 1 .. n : f[k] = IF q[k] \in S THEN Append(f[k - 1], q[k]) ELSE f[k - 1]
    <2>1. \A k \in 1 .. n : k - 1 \in 0 .. n
      BY <1>1
    <2> QED
      BY <1>4, <2>1
  <1>6. Is(f)
    <2>1. \A k \in 0 .. n : k = 0 \/ k \in 1 .. n
      BY <1>1
    <2>2. 0 \notin 1 .. n
      OBVIOUS
    <2>3. ASSUME NEW k \in 0 .. n
          PROVE  f[k] = IF k = 0 THEN first ELSE IF q[k] \in S THEN Append(f[k - 1], q[k]) ELSE f[k - 1]
      BY <1>4, <1>5, <2>1
    <2>4. f = [k \in 0 .. n |-> f[k]]
      OBVIOUS
    <2> QED
      BY <2>3, <2>4
  <1>7. \A g : Is(g) => g = f
    <2> SUFFICES ASSUME NEW g, Is(g) PROVE g = f
      OBVIOUS
    <2>1. \A k \in 0 .. n : g[k] = IF k = 0 THEN first
                                   ELSE IF q[k] \in S THEN Append(g[k - 1], q[k]) ELSE g[k - 1]
      OBVIOUS
    <2> HIDE DEF Is
    <2> DEFINE A == {k \in 0 .. n : g[k] = f[k]}
    <2>2. 0 \in A
      BY <1>1, <1>4, <2>1
    <2>3. ASSUME NEW k \in 1 .. n, k - 1 \in A PROVE k \in A
      <3>1. k \in 0 .. n /\ k # 0
        BY <1>1
      <3>2. g[k] = IF q[k] \in S THEN Append(g[k - 1], q[k]) ELSE g[k - 1]
        BY <2>1, <3>1
      <3> QED
        BY <1>5, <2>3, <3>1, <3>2
    <2>4. 0 .. n \subseteq A
      <3> HIDE DEF A
      <3> QED
        BY <1>1, <2>2, <2>3, StepwiseIn
    <2>5. \A k \in 0 .. n : g[k] = f[k]
      BY <2>4
    <2>6. f = [k \in 0 .. n |-> f[k]]
      OBVIOUS
    <2>7. \A k \in 0 .. n : f[k] = IF k = 0 THEN first
                                   ELSE IF q[k] \in S THEN Append(g[k - 1], q[k]) ELSE g[k - 1]
      <3> HIDE DEF A
      <3> QED
        BY <2>1, <2>5
    <2> HIDE DEF A
    <2> USE DEF Is
    <2> QED
      BY <2>6, <2>7, Zenon
  <1>8. Selected(first, q, S) = f[n]
    <2>1. Selected(first, q, S) = (CHOOSE g : Is(g))[n]
      BY <1>0 DEF Selected
    <2> HIDE DEF Is
    <2>2. (CHOOSE g : Is(g)) = f
      BY <1>6, <1>7
    <2> QED
      BY <2>1, <2>2
  <1> QED
    BY <1>0, <1>4, <1>5, <1>8 DEF Selects

\* What is selected is a sequence of threads.
LEMMA SelectTyped ==
    ASSUME NEW q \in Seq(Threads), NEW first \in Seq(Threads), NEW S
    PROVE  Selected(first, q, S) \in Seq(Threads)
  <1>1. PICK n : n = Len(q) /\ n \in Nat /\ n \in 0 .. n
    OBVIOUS
  <1>2. PICK f : Selects(f, first, q, S, n)
    BY <1>1, SelectedFacts
  <1> QED
    BY <1>1, <1>2 DEF Selects

\* What is selected when the queue gets one element more.
LEMMA SelectAppend ==
    ASSUME NEW q \in Seq(Threads), NEW first \in Seq(Threads), NEW S, NEW t \in Threads
    PROVE  /\ Append(q, t) \in Seq(Threads)
           /\ Selected(first, q, S) \in Seq(Threads)
           /\ Selected(first, Append(q, t), S) =
                  IF t \in S THEN Append(Selected(first, q, S), t) ELSE Selected(first, q, S)
  <1>1. PICK r, n : r = Append(q, t) /\ n = Len(q)
    OBVIOUS
  <1>2. r \in Seq(Threads) /\ n \in Nat /\ Len(r) = n + 1 /\ r[n + 1] = t /\ \A k \in 1 .. n : r[k] = q[k]
    BY <1>1
  <1>3. PICK f : Selects(f, first, q, S, n)
    BY <1>1, SelectedFacts
  <1>4. PICK g : Selects(g, first, r, S, n + 1)
    BY <1>2, SelectedFacts
  <1> DEFINE A == {k \in 0 .. n : g[k] = f[k]}
  <1>5. 0 \in A
    BY <1>2, <1>3, <1>4 DEF Selects
  <1>6. ASSUME NEW k \in 1 .. n, k - 1 \in A PROVE k \in A
    <2>1. k \in 0 .. n /\ k \in 1 .. n + 1
      BY <1>2
    <2> QED
      BY <1>1, <1>2, <1>3, <1>4, <1>6, <2>1 DEF Selects
  <1>7. 0 .. n \subseteq A
    <2> HIDE DEF A
    <2> QED
      BY <1>2, <1>5, <1>6, StepwiseIn
  <1>8. g[n] = f[n] /\ f[n] \in Seq(Threads)
    <2>1. n \in 0 .. n
      BY <1>2
    <2> QED
      BY <1>3, <1>7, <2>1 DEF Selects
  <1>9. g[n + 1] = IF t \in S THEN Append(f[n], t) ELSE f[n]
    <2>1. n + 1 \in 1 .. n + 1 /\ n + 1 - 1 = n
      BY <1>2
    <2> QED
      BY <1>2, <1>4, <1>8, <2>1 DEF Selects
  <1> QED
    BY <1>1, <1>2, <1>3, <1>4, <1>8, <1>9 DEF Selects

\* One that is in the set is the last of what is selected.
LEMMA SelectMore ==
    ASSUME NEW q \in Seq(Threads), NEW first \in Seq(Threads), NEW S, NEW t \in Threads, t \in S
    PROVE  Selected(first, Append(q, t), S) = Append(Selected(first, q, S), t)
  BY SelectAppend

\* An element that is not in the set adds nothing.
LEMMA SelectNot ==
    ASSUME NEW q \in Seq(Threads), NEW first \in Seq(Threads), NEW S, NEW t \in Threads, t \notin S
    PROVE  Selected(first, Append(q, t), S) = Selected(first, q, S)
  BY SelectAppend

\* Only the elements of the queue matter.
LEMMA SelectSame ==
    ASSUME NEW q \in Seq(Threads), NEW first \in Seq(Threads), NEW S, NEW T,
           \A t \in Elements(q) : t \in S <=> t \in T
    PROVE  Selected(first, q, S) = Selected(first, q, T)
  <1>1. PICK n : n = Len(q) /\ n \in Nat
    OBVIOUS
  <1>2. PICK f : Selects(f, first, q, S, n)
    BY <1>1, SelectedFacts
  <1>3. PICK g : Selects(g, first, q, T, n)
    BY <1>1, SelectedFacts
  <1> DEFINE A == {k \in 0 .. n : g[k] = f[k]}
  <1>4. 0 \in A
    BY <1>1, <1>2, <1>3 DEF Selects
  <1>5. ASSUME NEW k \in 1 .. n, k - 1 \in A PROVE k \in A
    <2>1. k \in 0 .. n /\ (q[k] \in S <=> q[k] \in T)
      BY <1>1 DEF Elements
    <2> QED
      BY <1>1, <1>2, <1>3, <1>5, <2>1 DEF Selects
  <1>6. 0 .. n \subseteq A
    <2> HIDE DEF A
    <2> QED
      BY <1>1, <1>4, <1>5, StepwiseIn
  <1>7. n \in A
    BY <1>1, <1>6
  <1> QED
    BY <1>2, <1>3, <1>7 DEF Selects

\* Nothing is selected of a queue that has nothing of the set.
LEMMA SelectNone ==
    ASSUME NEW q \in Seq(Threads), NEW first \in Seq(Threads), NEW S, \A t \in Elements(q) : t \notin S
    PROVE  Selected(first, q, S) = first
  <1>1. PICK n : n = Len(q) /\ n \in Nat
    OBVIOUS
  <1>2. PICK f : Selects(f, first, q, S, n)
    BY <1>1, SelectedFacts
  <1> DEFINE A == {k \in 0 .. n : f[k] = first}
  <1>3. 0 \in A
    BY <1>1, <1>2 DEF Selects
  <1>4. ASSUME NEW k \in 1 .. n, k - 1 \in A PROVE k \in A
    <2>1. k \in 0 .. n /\ q[k] \notin S
      BY <1>1 DEF Elements
    <2> QED
      BY <1>1, <1>2, <1>4, <2>1 DEF Selects
  <1>5. 0 .. n \subseteq A
    <2> HIDE DEF A
    <2> QED
      BY <1>1, <1>3, <1>4, StepwiseIn
  <1>6. n \in A
    BY <1>1, <1>5
  <1> QED
    BY <1>2, <1>6 DEF Selects

\* An element that is not in the set may be cut out.
LEMMA SelectCut ==
    ASSUME NEW q \in Seq(Threads), NEW first \in Seq(Threads), NEW S, NEW j \in 1 .. Len(q), q[j] \notin S,
           Cut(q, j) \in Seq(Threads)
    PROVE  Selected(first, Cut(q, j), S) = Selected(first, q, S)
  <1>1. PICK n, r : n = Len(q) /\ n \in Nat /\ r = Cut(q, j)
    OBVIOUS
  <1>2. PICK m : m = n - 1 /\ m \in Nat /\ n \in Nat /\ j \in 1 .. n
    BY <1>1
  <1>3. r \in Seq(Threads) /\ r = [i \in 1 .. m |-> IF i < j THEN q[i] ELSE q[i + 1]]
    BY <1>1, <1>2 DEF Cut
  <1>4. Len(r) = m /\ \A i \in 1 .. m : r[i] = IF i < j THEN q[i] ELSE q[i + 1]
    <2>1. DOMAIN r = 1 .. m
      BY <1>3
    <2>2. Len(r) = m
      BY <1>2, <1>3, <2>1
    <2> QED
      BY <1>3, <2>2
  <1>5. PICK f : Selects(f, first, q, S, n)
    BY <1>1, SelectedFacts
  <1>6. PICK g : Selects(g, first, r, S, m)
    BY <1>3, <1>4, SelectedFacts
  <1>7. /\ f[0] = first /\ g[0] = first
        /\ \A k \in 1 .. n : f[k] = IF q[k] \in S THEN Append(f[k - 1], q[k]) ELSE f[k - 1]
        /\ \A k \in 1 .. m : g[k] = IF r[k] \in S THEN Append(g[k - 1], r[k]) ELSE g[k - 1]
    BY <1>1, <1>4, <1>5, <1>6 DEF Selects
  <1>8. f[j] = f[j - 1]
    BY <1>1, <1>2, <1>7
  <1> DEFINE A == {k \in 0 .. m : g[k] = IF k < j THEN f[k] ELSE f[k + 1]}
  <1>9. 0 \in A
    <2>1. 0 \in 0 .. m /\ 0 < j
      BY <1>2
    <2> QED
      BY <1>7, <2>1
  <1>10. ASSUME NEW k \in 1 .. m, k - 1 \in A PROVE k \in A
    <2>1. k \in 0 .. m /\ k \in 1 .. n /\ k + 1 \in 1 .. n /\ k + 1 - 1 = k /\ k - 1 + 1 = k
      BY <1>2
    <2>2. g[k - 1] = IF k - 1 < j THEN f[k - 1] ELSE f[k]
      BY <1>10, <2>1
    <2>3. g[k] = IF r[k] \in S THEN Append(g[k - 1], r[k]) ELSE g[k - 1]
      BY <1>7
    <2>4. CASE k < j
      <3>1. k - 1 < j /\ r[k] = q[k]
        BY <1>4, <2>1, <2>4, <1>2
      <3> QED
        BY <1>7, <2>1, <2>2, <2>3, <2>4, <3>1
    <2>5. CASE ~(k < j)
      <3>1. r[k] = q[k + 1]
        BY <1>4, <2>5
      <3>2. f[k + 1] = IF q[k + 1] \in S THEN Append(f[k], q[k + 1]) ELSE f[k]
        BY <1>7, <2>1
      <3>3. g[k - 1] = f[k]
        <4>1. k = j \/ ~(k - 1 < j)
          BY <1>2, <2>1, <2>5
        <4> QED
          BY <1>8, <2>2, <4>1
      <3> QED
        BY <2>1, <2>3, <2>5, <3>1, <3>2, <3>3
    <2> QED
      BY <2>4, <2>5
  <1>11. 0 .. m \subseteq A
    <2> HIDE DEF A
    <2> QED
      BY <1>2, <1>9, <1>10, StepwiseIn
  <1>12. m \in A
    BY <1>2, <1>11
  <1>13. g[m] = f[n]
    <2>1. m + 1 = n /\ (m < j => m = j - 1 /\ n = j)
      BY <1>1, <1>2
    <2> QED
      BY <1>8, <1>12, <2>1
  <1> QED
    BY <1>1, <1>5, <1>6, <1>13 DEF Selects

\* The first element that is selected may be put in front.
LEMMA SelectFirst ==
    ASSUME NEW q \in Seq(Threads), Simple(q), NEW S, NEW j \in 1 .. Len(q), NEW t, t = q[j], t \in S,
           \A i \in 1 .. Len(q) : i < j => q[i] \notin S
    PROVE  Selected(<<>>, q, S) = Selected(<<t>>, q, S \ {t})
  <1>0. PICK n : n = Len(q) /\ n \in Nat
    OBVIOUS
  <1>1. PICK e, o : n = Len(q) /\ n \in Nat /\ e = <<>> /\ o = <<t>>
    BY <1>0
  <1>2. t \in Threads /\ e \in Seq(Threads) /\ o \in Seq(Threads) /\ j \in 1 .. n /\ Append(e, t) = o
    BY <1>1
  <1>3. PICK f : Selects(f, e, q, S, n)
    BY <1>1, <1>2, SelectedFacts
  <1>4. PICK g : Selects(g, o, q, S \ {t}, n)
    BY <1>1, <1>2, SelectedFacts
  <1>5. /\ f[0] = e /\ g[0] = o
        /\ \A k \in 1 .. n : f[k] = IF q[k] \in S THEN Append(f[k - 1], q[k]) ELSE f[k - 1]
        /\ \A k \in 1 .. n : g[k] = IF q[k] \in S \ {t} THEN Append(g[k - 1], q[k]) ELSE g[k - 1]
    BY <1>1, <1>3, <1>4 DEF Selects
  <1>6. /\ \A k \in 1 .. n : k < j => q[k] \notin S
        /\ \A k \in 1 .. n : q[k] = t => k = j
    BY <1>1, <1>2 DEF Simple
  <1> DEFINE A == {k \in 0 .. n : IF k < j THEN f[k] = e /\ g[k] = o ELSE f[k] = g[k]}
  <1>7. 0 \in A
    BY <1>1, <1>2, <1>5
  <1>8. ASSUME NEW k \in 1 .. n, k - 1 \in A PROVE k \in A
    <2>1. k \in 0 .. n
      BY <1>1
    <2>2. CASE k < j
      <3>1. k - 1 < j /\ q[k] \notin S
        BY <1>2, <1>6, <2>2
      <3> QED
        BY <1>5, <1>8, <2>1, <2>2, <3>1
    <2>3. CASE k = j
      <3>1. k - 1 < j /\ q[k] = t /\ ~(k < j)
        BY <1>1, <1>2, <2>3
      <3> QED
        BY <1>2, <1>5, <1>8, <2>1, <3>1
    <2>4. CASE k > j
      <3>1. ~(k - 1 < j) /\ ~(k < j) /\ q[k] # t
        BY <1>2, <1>6, <2>4
      <3> QED
        BY <1>5, <1>8, <2>1, <3>1
    <2> QED
      BY <1>2, <2>2, <2>3, <2>4
  <1>9. 0 .. n \subseteq A
    <2> HIDE DEF A
    <2> QED
      BY <1>1, <1>7, <1>8, StepwiseIn
  <1>10. n \in A /\ ~(n < j)
    BY <1>1, <1>2, <1>9
  <1> QED
    BY <1>1, <1>3, <1>4, <1>10 DEF Selects

\* What is selected are threads of the queue, and with one in front that one is
\* the head.
LEMMA SelectIn ==
    ASSUME NEW q \in Seq(Threads), NEW S
    PROVE  ToSet(Selected(<<>>, q, S)) \subseteq Elements(q) \cap S
  <1>1. PICK n : n = Len(q) /\ n \in Nat
    OBVIOUS
  <1>2. PICK e : e = <<>>
    OBVIOUS
  <1>3. n = Len(q) /\ e \in Seq(Threads) /\ e = <<>>
    BY <1>1, <1>2
  <1>4. PICK f : Selects(f, e, q, S, n)
    BY <1>1, <1>3, SelectedFacts
  <1>5. /\ f[0] = e /\ f \in [0 .. n -> Seq(Threads)]
        /\ \A k \in 1 .. n : f[k] = IF q[k] \in S THEN Append(f[k - 1], q[k]) ELSE f[k - 1]
    BY <1>4 DEF Selects
  <1> DEFINE A == {k \in 0 .. n : ToSet(f[k]) \subseteq Elements(q) \cap S}
  <1>6. 0 \in A
    <2>1. ToSet(e) = {}
      BY <1>3 DEF ToSet
    <2> QED
      BY <1>1, <1>5, <2>1
  <1>7. ASSUME NEW k \in 1 .. n, k - 1 \in A PROVE k \in A
    <2>1. k \in 0 .. n /\ k - 1 \in 0 .. n /\ q[k] \in Elements(q) /\ q[k] \in Threads
      BY <1>1 DEF Elements
    <2>2. PICK x, y : x = f[k - 1] /\ y = q[k]
      OBVIOUS
    <2>3. x \in Seq(Threads) /\ ToSet(x) \subseteq Elements(q) \cap S /\ y \in Threads /\ y \in Elements(q)
      BY <1>5, <1>7, <2>1, <2>2
    <2>4. ToSet(Append(x, y)) \subseteq ToSet(x) \cup {y}
      BY <2>3 DEF ToSet
    <2>5. f[k] = IF y \in S THEN Append(x, y) ELSE x
      BY <1>5, <2>2
    <2> QED
      BY <2>1, <2>3, <2>4, <2>5
  <1>8. 0 .. n \subseteq A
    <2> HIDE DEF A
    <2> QED
      BY <1>1, <1>6, <1>7, StepwiseIn
  <1>9. n \in A
    BY <1>1, <1>8
  <1> QED
    BY <1>3, <1>4, <1>9 DEF Selects

\* What is put in front is the head of what is selected.
LEMMA SelectTail ==
    ASSUME NEW q \in Seq(Threads), NEW S, NEW t \in Threads
    PROVE  /\ Selected(<<t>>, q, S) # <<>>
           /\ Head(Selected(<<t>>, q, S)) = t
           /\ Tail(Selected(<<t>>, q, S)) = Selected(<<>>, q, S)
  <1>1. PICK n : n = Len(q) /\ n \in Nat
    OBVIOUS
  <1>2. PICK e, o : e = <<>> /\ o = <<t>>
    OBVIOUS
  <1>3. n = Len(q) /\ e = <<>> /\ o = <<t>> /\ e \in Seq(Threads) /\ o \in Seq(Threads)
    BY <1>1, <1>2
  <1>4. o # <<>> /\ Head(o) = t /\ Tail(o) = e
    BY <1>3
  <1>5. PICK f : Selects(f, e, q, S, n)
    BY <1>1, <1>3, SelectedFacts
  <1>6. PICK g : Selects(g, o, q, S, n)
    BY <1>1, <1>3, SelectedFacts
  <1>7. /\ f[0] = e /\ g[0] = o /\ g \in [0 .. n -> Seq(Threads)]
        /\ \A k \in 1 .. n : f[k] = IF q[k] \in S THEN Append(f[k - 1], q[k]) ELSE f[k - 1]
        /\ \A k \in 1 .. n : g[k] = IF q[k] \in S THEN Append(g[k - 1], q[k]) ELSE g[k - 1]
    BY <1>5, <1>6 DEF Selects
  <1> DEFINE A == {k \in 0 .. n : g[k] # <<>> /\ Head(g[k]) = t /\ Tail(g[k]) = f[k]}
  <1>8. 0 \in A
    BY <1>1, <1>4, <1>7
  <1>9. ASSUME NEW k \in 1 .. n, k - 1 \in A PROVE k \in A
    <2>1. k \in 0 .. n /\ k - 1 \in 0 .. n /\ q[k] \in Threads
      BY <1>1
    <2>2. PICK x, y, z : x = g[k - 1] /\ y = q[k] /\ z = f[k - 1]
      OBVIOUS
    <2>3. x \in Seq(Threads) /\ y \in Threads /\ x # <<>> /\ Head(x) = t /\ Tail(x) = z
      BY <1>7, <1>9, <2>1, <2>2
    <2>4. Append(x, y) # <<>> /\ Head(Append(x, y)) = t /\ Tail(Append(x, y)) = Append(z, y)
      BY <2>3, HeadTailAppend, AppendProperties
    <2>5. g[k] = (IF y \in S THEN Append(x, y) ELSE x) /\ f[k] = (IF y \in S THEN Append(z, y) ELSE z)
      BY <1>7, <2>2
    <2> QED
      BY <2>1, <2>3, <2>4, <2>5
  <1>10. 0 .. n \subseteq A
    <2> HIDE DEF A
    <2> QED
      BY <1>1, <1>8, <1>9, StepwiseIn
  <1>11. n \in A
    BY <1>1, <1>10
  <1> QED
    BY <1>3, <1>5, <1>6, <1>11 DEF Selects

\* The last element, when it is selected, is the last of what is selected.
LEMMA SelectEnd ==
    ASSUME NEW q \in Seq(Threads), Simple(q), NEW S, NEW t \in S, LastOf(q, t)
    PROVE  Selected(<<>>, q, S) = Append(Selected(<<>>, q, S \ {t}), t)
  <1>1. PICK n : n = Len(q) /\ n \in Nat /\ n # 0 /\ q[n] = t
    BY DEF LastOf
  <1>2. PICK e : e = <<>>
    OBVIOUS
  <1>3. n = Len(q) /\ e \in Seq(Threads) /\ e = <<>>
    BY <1>1, <1>2
  <1>4. PICK f : Selects(f, e, q, S, n)
    BY <1>1, <1>3, SelectedFacts
  <1>5. PICK g : Selects(g, e, q, S \ {t}, n)
    BY <1>1, <1>3, SelectedFacts
  <1>6. /\ f[0] = e /\ g[0] = e
        /\ \A k \in 1 .. n : f[k] = IF q[k] \in S THEN Append(f[k - 1], q[k]) ELSE f[k - 1]
        /\ \A k \in 1 .. n : g[k] = IF q[k] \in S \ {t} THEN Append(g[k - 1], q[k]) ELSE g[k - 1]
    BY <1>4, <1>5 DEF Selects
  <1>7. \A k \in 1 .. n : k < n => q[k] # t
    BY <1>1 DEF Simple
  <1>8. PICK m : m = n - 1 /\ m \in Nat /\ n \in 1 .. n
    BY <1>1
  <1> DEFINE A == {k \in 0 .. m : g[k] = f[k]}
  <1>9. 0 \in A
    BY <1>6, <1>8
  <1>10. ASSUME NEW k \in 1 .. m, k - 1 \in A PROVE k \in A
    <2>1. k \in 0 .. m /\ k \in 1 .. n /\ q[k] # t
      BY <1>1, <1>7, <1>8
    <2> QED
      BY <1>6, <1>10, <2>1
  <1>11. 0 .. m \subseteq A
    <2> HIDE DEF A
    <2> QED
      BY <1>8, <1>9, <1>10, StepwiseIn
  <1>12. m \in A
    BY <1>8, <1>11
  <1>13. f[n] = Append(f[n - 1], t) /\ g[n] = g[n - 1]
    BY <1>1, <1>6, <1>8
  <1> QED
    BY <1>3, <1>4, <1>5, <1>8, <1>12, <1>13 DEF Selects

-----------------------------------------------------------------------------
(* The turns *)

\* The order of turns when the running thread is at m, q are the threads of the
\* ring and st their statuses.
Turned(st, m, q) ==
    IF m.then \in Moves THEN Selected(<<m.node>>, q, Runs(st) \ {m.node}) ELSE Selected(<<>>, q, Runs(st))

\* A list operation is a list_move_tail from where schedule picks a thread to the
\* switch; a thread that takes a turn, and one the processor goes to, is the last
\* of the queue.
Turn(c, m, q) ==
    /\ m.pc \in CalmPcs \ {"switch"} => m.then \notin Moves
    /\ m.pc \in {"moved", "unlink"} => m.then = m.pc
    /\ m.pc = "foo" => LastOf(q, c)
    /\ m.pc = "switch" => IF m.node = Boot THEN m.then \notin Moves
                                           ELSE m.then = "switch" /\ LastOf(q, m.node)

\* Nobody else is in a list_move_tail.
Alone == \A c \in Contexts : c # cur => at[c].then \notin Moves

\* The invariant of the order of turns.
Turns == Turn(cur, at[cur], Path) /\ Alone

\* A step of RoundRobin or of nobody.
TakesTurn == [Abstract!Next]_<<Order, cur>>

\* The order of turns by the place of the running thread.
LEMMA OrderFacts == Order = Turned(status, at[cur], Path)
  BY DEF Order, Moving, my, Moves, Running, Runs, Turned

\* The threads that list_for_each comes by are those of a ring.
PathIs == next \in [Ends -> Nodes] => \A q \in Seq(Threads) : \A pv : Ring(next, pv, q) => Path = q

\* It is so now
LEMMA PathFacts == PathIs
  BY RingPath DEF PathIs

\* and after a step.
LEMMA PathNext ==
    ASSUME next' \in [Ends -> Nodes], NEW q \in Seq(Threads), NEW pv, Ring(next', pv, q)
    PROVE  Path' = q
  <1>1. PathIs'
    BY PathFacts, PTL
  <1> QED
    BY <1>1 DEF PathIs

\* Here is nowhere in a list operation.
LEMMA HereFacts == \A p : Here(p).pc = p /\ Here(p).then \notin Moves
  BY Zenon DEF Here, Moves

\* The ring that the invariant speaks of is the one that list_for_each comes by.
LEMMA PhaseIsPath ==
    ASSUME IInv, NEW m, NEW q \in Seq(Threads), Phase(next, prev, status, cur, m, q)
    PROVE  Path = q
  BY StateFacts, PathFacts DEF PathIs, Phase, Calm, Adding, Deleting, Unlinked, Dropping

\* The order of turns and who runs, after a step.
LEMMA OrderNext == Order' = Turned(status', at'[cur'], Path')
  <1>1. (Order = Turned(status, at[cur], Path))'
    BY OrderFacts, PTL
  <1> QED
    BY <1>1

\* What the invariants say of the running thread, with the ring by its path.
LEMMA PathPhase ==
    ASSUME IInv
    PROVE  /\ Path \in Seq(Threads) /\ Simple(Path)
           /\ Phase(next, prev, status, cur, at[cur], Path)
  <1>1. PICK q \in Seq(Threads) : Phase(next, prev, status, cur, at[cur], q)
    BY DEF IInv, Linked
  <1>2. Path = q
    BY <1>1, PhaseIsPath
  <1>3. Simple(q)
    BY <1>1 DEF Phase, Calm, Adding, Deleting, Unlinked, Dropping, Ring
  <1> QED
    BY <1>1, <1>2, <1>3

\* The path is the same when no link forward is written
LEMMA PathKept ==
    ASSUME IInv, next' = next
    PROVE  Path' = Path
  <1>1. next' \in [Ends -> Nodes]
    BY StateFacts
  <1>2. \E pv : Ring(next', pv, Path)
    BY PathPhase DEF Phase, Calm, Adding, Deleting, Unlinked, Dropping
  <1> QED
    BY <1>1, <1>2, PathPhase, PathNext

\* or only that of a thread that is not on it.
LEMMA PathBeside ==
    ASSUME IInv, NEW x \in Threads \ Elements(Path), NEW v \in Nodes, next' = [next EXCEPT ![x] = v]
    PROVE  Path' = Path
  <1>1. next' \in [Ends -> Nodes]
    BY StateFacts
  <1>2. PICK pv \in [Ends -> Nodes] : Ring(next, pv, Path)
    <2>1. at[cur].next \in Nodes /\ at[cur].prev \in Nodes
      BY StateFacts, SpotFacts
    <2>2. CASE \E pv \in [Ends -> Nodes] : Ring(next, pv, Path)
      BY <2>2
    <2>3. CASE Adding(next, prev, status, cur, at[cur], Path)
      <3>1. [prev EXCEPT ![HList] = at[cur].prev] \in [Ends -> Nodes]
        BY <2>1, StateFacts
      <3> QED
        BY <2>3, <3>1 DEF Adding
    <2>4. CASE Deleting(next, prev, status, cur, at[cur], Path)
      <3>1. at[cur].node \in Threads
        BY <2>4, PathPhase DEF Deleting, Target
      <3>2. [prev EXCEPT ![at[cur].next] = at[cur].node] \in [Ends -> Nodes]
        BY <3>1, StateFacts, NodeFacts
      <3> QED
        BY <2>4, <3>2 DEF Deleting
    <2> QED
      BY <2>2, <2>3, <2>4, PathPhase, StateFacts DEF Phase, Calm, Unlinked, Dropping
  <1>3. Ring(next', pv, Path)
    BY <1>2, PathPhase, RingWrite, StateFacts
  <1> QED
    BY <1>1, <1>3, PathPhase, PathNext

\* A step that moves the running thread from one place to another and leaves the
\* path and the order of turns is one of nobody.
LEMMA Steady ==
    ASSUME IInv, Turns, NEW m \in Spots, at' = [at EXCEPT ![cur] = m], cur' = cur, Path' = Path,
           Turn(cur, m, Path), Turned(status', m, Path) = Turned(status, at[cur], Path)
    PROVE  Turns' /\ TakesTurn
  <1>1. at'[cur] = m /\ \A c \in Contexts : c # cur => at'[c] = at[c]
    BY DEF IInv, Typed
  <1>2. Order' = Order
    BY <1>1, OrderFacts, OrderNext
  <1>3. Turns'
    BY <1>1 DEF Turns, Alone
  <1> QED
    BY <1>2, <1>3 DEF TakesTurn

\* The same for a step at a place that is in no list_move_tail, before it and
\* after it.
LEMMA SteadyCalm ==
    ASSUME IInv, Turns, NEW m \in Spots, at' = [at EXCEPT ![cur] = m], cur' = cur, next' = next, status' = status,
           at[cur].pc \in CalmPcs \ {"switch"},
           m.then \notin Moves, m.pc \notin {"moved", "unlink", "foo"}, m.pc = "switch" => m.node = Boot
    PROVE  Turns' /\ TakesTurn
  <1>1. Path' = Path
    BY PathKept
  <1>2. at[cur].then \notin Moves
    BY DEF Turns, Turn
  <1>3. Turned(status', m, Path) = Turned(status, at[cur], Path)
    BY <1>2 DEF Turned
  <1>4. Turn(cur, m, Path)
    BY DEF Turn
  <1> QED
    BY <1>1, <1>3, <1>4, Steady

\* The thread command makes nobody runnable yet.
LEMMA ThreadCommandTurn == ASSUME IInv, Turns, ThreadCommand PROVE Turns' /\ TakesTurn
  <1>1. PICK m : m = Here("create")
    OBVIOUS
  <1>2. m \in Spots /\ m.pc = "create" /\ m.then \notin Moves
    BY <1>1, SpotFacts, PlaceFacts, HereFacts
  <1>3. at' = [at EXCEPT ![cur] = m] /\ cur' = cur /\ next' = next /\ status' = status /\ at[cur].pc = "prompt"
    BY <1>1 DEF ThreadCommand, Goto, At, links
  <1> QED
    BY <1>2, <1>3, SteadyCalm DEF CalmPcs

\* A step that leaves the list, the statuses and where the threads are.
LEMMA SteadyAll ==
    ASSUME IInv, Turns, at' = at, cur' = cur, next' = next, status' = status
    PROVE  Turns' /\ TakesTurn
  <1>1. Path' = Path
    BY PathKept
  <1>2. Order' = Order
    BY <1>1, OrderFacts, OrderNext
  <1>3. Turns'
    BY <1>1 DEF Turns, Alone
  <1> QED
    BY <1>2, <1>3 DEF TakesTurn

\* The time command touches no list.
LEMMA TimeCommandTurn == ASSUME IInv, Turns, TimeCommand PROVE Turns' /\ TakesTurn
  BY SteadyAll DEF TimeCommand, links

\* foo that returns begins again.
LEMMA FooReturnsTurn == ASSUME IInv, Turns, FooReturns PROVE Turns' /\ TakesTurn
  BY SteadyAll DEF FooReturns, links

\* A loop begins at a place of its own.
LEMMA AtNode ==
    ASSUME NEW p \in Places, NEW x \in Nodes \cup {Boot}, NEW m, m = [Here(p) EXCEPT !.node = x]
    PROVE  m \in Spots /\ m.pc = p /\ m.node = x /\ m.then \notin Moves
  <1>1. PICK h : h = Here(p)
    OBVIOUS
  <1>2. h \in Spots /\ h.pc = p /\ h.then \notin Moves
    BY <1>1, SpotFacts, HereFacts
  <1>3. m.then = h.then
    BY <1>1, <1>2 DEF Spots
  <1> QED
    BY <1>1, <1>2, <1>3, SpotFacts

\* The node is another, and the operation the same.
LEMMA OtherNode ==
    ASSUME NEW h \in Spots, NEW x \in Nodes \cup {Boot}, NEW m, m = [h EXCEPT !.node = x]
    PROVE  m \in Spots /\ m.pc = h.pc /\ m.node = x /\ m.then = h.then
  <1>1. m.then = h.then
    BY DEF Spots
  <1> QED
    BY <1>1, SpotFacts

\* The switch to the boot thread is in no list_move_tail.
LEMMA AtBoot ==
    ASSUME NEW m, m = [Here("switch") EXCEPT !.node = Boot]
    PROVE  m \in Spots /\ m.pc = "switch" /\ m.node = Boot /\ m.then \notin Moves
  <1>1. PICK h : h = Here("switch")
    OBVIOUS
  <1>2. h \in Spots /\ h.pc = "switch" /\ h.then \notin Moves
    BY <1>1, SpotFacts, PlaceFacts, HereFacts
  <1> QED
    BY <1>1, <1>2, OtherNode

\* The walk of idle begins
LEMMA CreateDoneTurn == ASSUME IInv, Turns, CreateDone PROVE Turns' /\ TakesTurn
  <1>1. PICK m : m = [Here("idle") EXCEPT !.node = next[HList]]
    OBVIOUS
  <1>2. m \in Spots /\ m.pc = "idle" /\ m.then \notin Moves
    <2>1. "idle" \in Places
      BY PlaceFacts
    <2>2. next[HList] \in Nodes \cup {Boot}
      BY StateFacts, NodeFacts
    <2> QED
      BY <1>1, <2>1, <2>2, AtNode
  <1>3. at' = [at EXCEPT ![cur] = m] /\ cur' = cur /\ next' = next /\ status' = status /\ at[cur].pc = "create"
    BY <1>1 DEF CreateDone, Goto, At, links
  <1> QED
    BY <1>2, <1>3, SteadyCalm DEF CalmPcs

\* and so does that of schedule.
LEMMA ScheduleTurn == ASSUME IInv, Turns, Schedule PROVE Turns' /\ TakesTurn
  <1>1. PICK m : m = [Here("walk") EXCEPT !.node = next[HList]]
    OBVIOUS
  <1>2. m \in Spots /\ m.pc = "walk" /\ m.then \notin Moves
    <2>1. "walk" \in Places
      BY PlaceFacts
    <2>2. next[HList] \in Nodes \cup {Boot}
      BY StateFacts, NodeFacts
    <2> QED
      BY <1>1, <2>1, <2>2, AtNode
  <1>3. /\ at' = [at EXCEPT ![cur] = m] /\ cur' = cur /\ next' = next /\ status' = status
        /\ at[cur].pc \in {"resumed", "schedule"}
    BY <1>1 DEF Schedule, Goto, At, links
  <1> QED
    BY <1>2, <1>3, SteadyCalm DEF CalmPcs

\* The node that a loop stands at is h_list or a thread of the path.
LEMMA StandsAt ==
    ASSUME IInv, at[cur].pc \in {"idle", "walk"}
    PROVE  /\ Ring(next, prev, Path) /\ Holds(status, next, Path, {})
           /\ \E k \in 1 .. Len(Path) + 1 :
                 /\ at[cur].node = Cell(Path, k)
                 /\ at[cur].pc = "walk" => Before(status, Path, k, "RUN")
           /\ at[cur].node # NULL
           /\ at[cur].node # HList => at[cur].node \in Threads /\ next[at[cur].node] \in Nodes
  <1>1. Calm(next, prev, status, cur, at[cur], Path)
    BY PathPhase DEF Phase, AddPcs, DelPcs
  <1>2. PICK k \in 1 .. Len(Path) + 1 : /\ at[cur].node = Cell(Path, k)
                                        /\ at[cur].pc = "walk" => Before(status, Path, k, "RUN")
    BY <1>1 DEF Calm, Standing
  <1>3. Cell(Path, k) \in Ends
    <2>1. k \in 0 .. Len(Path) + 1
      OBVIOUS
    <2> QED
      BY <2>1, PathPhase, CellFacts
  <1>4. at[cur].node # NULL /\ (at[cur].node # HList => at[cur].node \in Threads)
    BY <1>2, <1>3, NodeFacts DEF Ends
  <1>5. at[cur].node # HList => next[at[cur].node] \in Nodes
    BY <1>4, StateFacts, NodeFacts
  <1> QED
    BY <1>1, <1>2, <1>4, <1>5 DEF Calm

\* idle goes on, begins to delete a dead thread or is done.
LEMMA IdleTurn == ASSUME IInv, Turns, Idle PROVE Turns' /\ TakesTurn
  <1>1. PICK m : m = at[cur]
    OBVIOUS
  <1>2. m \in Spots /\ m.pc = "idle" /\ m.node # NULL /\ m.then \notin Moves
    BY <1>1, StateFacts, StandsAt DEF Idle, At, Turns, Turn, CalmPcs
  <1>3. cur' = cur /\ next' = next /\ status' = status
    BY DEF Idle, links
  <1>4. PICK r : at' = [at EXCEPT ![cur] = r]
                 /\ r = IF m.node = HList THEN Here("schedule")
                        ELSE IF status[m.node] = "DEAD" THEN Delete(m.node, "unlink")
                        ELSE [m EXCEPT !.node = next[@]]
    BY <1>1, <1>2 DEF Idle, my, Goto
  <1>5. r \in Spots /\ r.pc \in {"schedule", "del1", "idle"} /\ r.then \notin Moves
    <2>1. CASE m.node = HList
      BY <1>4, <2>1, SpotFacts, PlaceFacts, HereFacts
    <2>2. CASE m.node # HList
      <3>1. m.node \in Threads /\ next[m.node] \in Nodes /\ prev[m.node] \in Nodes /\ m.node \in Nodes
        BY <1>1, <1>2, <2>2, StandsAt, StateFacts, NodeFacts
      <3>2. "unlink" \in Thens /\ "unlink" \notin Moves
        BY ThenFacts DEF Moves
      <3>3. /\ Delete(m.node, "unlink") \in Spots /\ Delete(m.node, "unlink").pc = "del1"
            /\ Delete(m.node, "unlink").then = "unlink"
        BY <3>1, <3>2, ArgFacts
      <3>4. [m EXCEPT !.node = next[@]] = [m EXCEPT !.node = next[m.node]]
        OBVIOUS
      <3>5. LET h == [m EXCEPT !.node = next[m.node]] IN h \in Spots /\ h.pc = "idle" /\ h.then = m.then
        BY <1>2, <3>1, OtherNode
      <3> QED
        BY <1>2, <1>4, <2>2, <3>2, <3>3, <3>4, <3>5
    <2> QED
      BY <2>1, <2>2
  <1> QED
    BY <1>1, <1>2, <1>3, <1>4, <1>5, SteadyCalm DEF CalmPcs

\* The walk picks the head of the order of turns.
LEMMA WalkTurn == ASSUME IInv, Turns, Walk PROVE Turns' /\ TakesTurn
  <1>1. PICK m : m = at[cur]
    OBVIOUS
  <1>2. m \in Spots /\ m.pc = "walk" /\ m.node # NULL /\ m.then \notin Moves
    BY <1>1, StateFacts, StandsAt DEF Walk, At, Turns, Turn, CalmPcs
  <1>3. cur' = cur /\ next' = next /\ status' = status
    BY DEF Walk, links
  <1>4. PICK r : at' = [at EXCEPT ![cur] = r]
                 /\ r = IF m.node = HList THEN [Here("switch") EXCEPT !.node = Boot]
                        ELSE IF status[m.node] = "RUN" THEN Delete(m.node, "moved")
                        ELSE [m EXCEPT !.node = next[@]]
    BY <1>1, <1>2 DEF Walk, my, Goto
  <1>5. CASE m.node = HList
    <2>1. r \in Spots /\ r.pc = "switch" /\ r.node = Boot /\ r.then \notin Moves
      BY <1>4, <1>5, AtBoot
    <2> QED
      BY <1>1, <1>2, <1>3, <1>4, <2>1, SteadyCalm DEF CalmPcs
  <1>6. CASE m.node # HList
    <2>1. m.node \in Threads /\ next[m.node] \in Nodes /\ prev[m.node] \in Nodes
      BY <1>1, <1>2, <1>6, StandsAt, StateFacts, NodeFacts
    <2>2. CASE status[m.node] = "RUN"
      <3>1. PICK t : t = m.node
        OBVIOUS
      <3>2. "moved" \in Thens /\ "moved" \in Moves
        BY ThenFacts DEF Moves
      <3>3. r \in Spots /\ r.pc = "del1" /\ r.node = t /\ r.then = "moved"
        BY <1>4, <1>6, <2>1, <2>2, <3>1, <3>2, ArgFacts
      <3>4. PICK k \in 1 .. Len(Path) + 1 : t = Cell(Path, k) /\ Before(status, Path, k, "RUN")
        BY <1>1, <1>2, <3>1, StandsAt
      <3>5. k \in 1 .. Len(Path) /\ t = Path[k]
        BY <1>6, <3>1, <3>4 DEF Cell
      <3>6. t \in Runs(status) /\ \A i \in 1 .. Len(Path) : i < k => Path[i] \notin Runs(status)
        BY <2>1, <2>2, <3>1, <3>4 DEF Before, Runs
      <3>7. Selected(<<>>, Path, Runs(status)) = Selected(<<t>>, Path, Runs(status) \ {t})
        BY <3>5, <3>6, PathPhase, SelectFirst
      <3>8. Turned(status, r, Path) = Turned(status, m, Path)
        BY <1>2, <3>2, <3>3, <3>7 DEF Turned
      <3>9. Path' = Path
        BY <1>3, PathKept
      <3>10. Turn(cur, r, Path)
        BY <3>3 DEF Turn, CalmPcs
      <3> QED
        BY <1>1, <1>3, <1>4, <3>3, <3>8, <3>9, <3>10, Steady
    <2>3. CASE status[m.node] # "RUN"
      <3>1. [m EXCEPT !.node = next[@]] = [m EXCEPT !.node = next[m.node]]
        OBVIOUS
      <3>2. r \in Spots /\ r.pc = "walk" /\ r.then = m.then
        BY <1>2, <1>4, <1>6, <2>1, <2>3, <3>1, OtherNode
      <3> QED
        BY <1>1, <1>2, <1>3, <1>4, <3>2, SteadyCalm DEF CalmPcs
    <2> QED
      BY <2>2, <2>3
  <1> QED
    BY <1>5, <1>6

\* A step of a list operation that leaves the path.
LEMMA SteadyList ==
    ASSUME IInv, Turns, NEW m \in Spots, at' = [at EXCEPT ![cur] = m], cur' = cur, Path' = Path, status' = status,
           m.node = at[cur].node, m.then = at[cur].then, m.pc \in AddPcs \cup DelPcs
    PROVE  Turns' /\ TakesTurn
  <1>1. Turn(cur, m, Path)
    BY DEF Turn, AddPcs, DelPcs, CalmPcs
  <1>2. Turned(status', m, Path) = Turned(status, at[cur], Path)
    BY DEF Turned
  <1> QED
    BY <1>1, <1>2, Steady

\* The links back that __list_add and __list_del write are not on the path.
LEMMA Add1Turn == ASSUME IInv, Turns, Add1 PROVE Turns' /\ TakesTurn
  <1>1. PICK m : m = [at[cur] EXCEPT !.pc = "add2"]
    OBVIOUS
  <1>2. m \in Spots /\ m.pc = "add2" /\ m.node = at[cur].node /\ m.then = at[cur].then
    BY <1>1, StateFacts, SpotFacts, PlaceFacts
  <1>3. at' = [at EXCEPT ![cur] = m] /\ cur' = cur /\ status' = status /\ Path' = Path
    BY <1>1, PathKept DEF Add1, Pc, Goto
  <1> QED
    BY <1>2, <1>3, SteadyList DEF AddPcs

\* new->prev is one of them
LEMMA Add3Turn == ASSUME IInv, Turns, Add3 PROVE Turns' /\ TakesTurn
  <1>1. PICK m : m = [at[cur] EXCEPT !.pc = "add4"]
    OBVIOUS
  <1>2. m \in Spots /\ m.pc = "add4" /\ m.node = at[cur].node /\ m.then = at[cur].then
    BY <1>1, StateFacts, SpotFacts, PlaceFacts
  <1>3. at' = [at EXCEPT ![cur] = m] /\ cur' = cur /\ status' = status /\ Path' = Path
    BY <1>1, PathKept DEF Add3, Pc, Goto
  <1> QED
    BY <1>2, <1>3, SteadyList DEF AddPcs

\* and next->prev another.
LEMMA Del1Turn == ASSUME IInv, Turns, Del1 PROVE Turns' /\ TakesTurn
  <1>1. PICK m : m = [at[cur] EXCEPT !.pc = "del2"]
    OBVIOUS
  <1>2. m \in Spots /\ m.pc = "del2" /\ m.node = at[cur].node /\ m.then = at[cur].then
    BY <1>1, StateFacts, SpotFacts, PlaceFacts
  <1>3. at' = [at EXCEPT ![cur] = m] /\ cur' = cur /\ status' = status /\ Path' = Path
    BY <1>1, PathKept DEF Del1, Pc, Goto
  <1> QED
    BY <1>2, <1>3, SteadyList DEF DelPcs

\* The link that is written is that of a thread beside the path.
LEMMA Add2Turn == ASSUME IInv, Turns, Add2 PROVE Turns' /\ TakesTurn
  <1>1. PICK m : m = [at[cur] EXCEPT !.pc = "add3"]
    OBVIOUS
  <1>2. m \in Spots /\ m.pc = "add3" /\ m.node = at[cur].node /\ m.then = at[cur].then
    BY <1>1, StateFacts, SpotFacts, PlaceFacts
  <1>3. at' = [at EXCEPT ![cur] = m] /\ cur' = cur /\ status' = status
    BY <1>1 DEF Add2, Pc, Goto
  <1>4. Adding(next, prev, status, cur, at[cur], Path)
    BY PathPhase DEF Add2, At, Phase, CalmPcs, DelPcs
  <1>5. PICK t : t = at[cur].node
    OBVIOUS
  <1>6. t \in Threads \ Elements(Path)
    BY <1>4, <1>5, PathPhase, HoldsFacts DEF Adding
  <1>7. next' = [next EXCEPT ![t] = HList]
    BY <1>4, <1>5, <1>6, NodeFacts DEF Add2, Write, my, Adding
  <1>8. Path' = Path
    BY <1>6, <1>7, PathBeside, NodeFacts
  <1> QED
    BY <1>2, <1>3, <1>8, SteadyList DEF AddPcs

\* The thread that was picked is still the head of the order.
LEMMA MovedTurn == ASSUME IInv, Turns, Moved PROVE Turns' /\ TakesTurn
  <1>1. PICK t, m : t = at[cur].node /\ m = AddTail(t, prev[HList], "switch")
    OBVIOUS
  <1>2. at' = [at EXCEPT ![cur] = m] /\ cur' = cur /\ next' = next /\ status' = status /\ at[cur].pc = "moved"
    BY <1>1 DEF Moved, Goto, At, my, links
  <1>3. t \in Threads
    BY <1>1, <1>2, PathPhase DEF Phase, Unlinked, CalmPcs, AddPcs, DelPcs
  <1>4. "switch" \in Thens /\ "switch" \in Moves /\ "moved" \in Moves
    BY ThenFacts DEF Moves
  <1>5. m \in Spots /\ m.pc = "add1" /\ m.node = t /\ m.then = "switch"
    <2>1. prev[HList] \in Nodes
      BY StateFacts, NodeFacts
    <2> QED
      BY <1>1, <1>3, <1>4, <2>1, ArgFacts
  <1>6. at[cur].then = "moved"
    BY <1>2 DEF Turns, Turn
  <1>7. Turned(status', m, Path) = Turned(status, at[cur], Path)
    BY <1>1, <1>2, <1>4, <1>5, <1>6 DEF Turned
  <1>8. Turn(cur, m, Path) /\ Path' = Path
    BY <1>2, <1>5, PathKept DEF Turn, CalmPcs
  <1> QED
    BY <1>2, <1>5, <1>7, <1>8, Steady

\* list_del of the dead thread: it is beside the path.
LEMMA UnlinkTurn == ASSUME IInv, Turns, Unlink PROVE Turns' /\ TakesTurn
  <1>1. PICK t, x, m : t = at[cur].node /\ x = next'[at[cur].prev] /\ m = [Here("idle") EXCEPT !.node = x]
    OBVIOUS
  <1>2. at' = [at EXCEPT ![cur] = m] /\ cur' = cur /\ status' = status /\ at[cur].pc = "unlink"
    BY <1>1 DEF Unlink, Goto, At, my
  <1>3. Dropping(next, prev, status, cur, at[cur], Path)
    BY <1>2, PathPhase DEF Phase, CalmPcs, AddPcs, DelPcs
  <1>4. t \in Threads \ Elements(Path)
    BY <1>1, <1>3, PathPhase, HoldsFacts DEF Dropping
  <1>5. next' = [next EXCEPT ![t] = NULL]
    BY <1>1, <1>4, NodeFacts DEF Unlink, Write, my
  <1>6. Path' = Path
    BY <1>4, <1>5, PathBeside, NodeFacts
  <1>7. x \in Nodes
    <2>1. PICK k \in 1 .. Len(Path) + 1 : at[cur].prev = Cell(Path, k - 1)
      BY <1>3 DEF Dropping
    <2>2. k - 1 \in 0 .. Len(Path) + 1
      OBVIOUS
    <2>3. at[cur].prev \in Ends
      BY <2>1, <2>2, PathPhase, CellFacts
    <2>4. next' \in [Ends -> Nodes]
      BY <1>5, StateFacts, NodeFacts
    <2> QED
      BY <1>1, <2>3, <2>4
  <1>8. m \in Spots /\ m.pc = "idle" /\ m.then \notin Moves
    <2>1. PICK h : h = Here("idle")
      OBVIOUS
    <2>2. h \in Spots /\ h.pc = "idle" /\ h.then \notin Moves
      BY <2>1, SpotFacts, PlaceFacts, HereFacts
    <2> QED
      BY <1>1, <1>7, <2>1, <2>2, OtherNode
  <1>9. Turn(cur, m, Path)
    BY <1>8 DEF Turn
  <1>10. at[cur].then \notin Moves
    BY <1>2 DEF Turns, Turn, Moves
  <1>11. Turned(status', m, Path) = Turned(status, at[cur], Path)
    BY <1>2, <1>8, <1>10 DEF Turned
  <1> QED
    BY <1>2, <1>6, <1>8, <1>9, <1>11, Steady

\* The new thread is runnable, but it has no turn before it is on the ring.
LEMMA CreateThreadTurn == ASSUME IInv, Turns, CreateThread PROVE Turns' /\ TakesTurn
  <1>1. PICK t, m : t = cur_tid + 1 /\ m = AddTail(t, prev[HList], "create")
    OBVIOUS
  <1>2. /\ at' = [at EXCEPT ![cur] = m] /\ cur' = cur /\ at[cur].pc = "create"
        /\ left > 0 /\ status' = [status EXCEPT ![t] = "RUN"] /\ next' = [next EXCEPT ![t] = t]
    BY <1>1 DEF CreateThread, Goto, At
  <1>3. t \in Threads
    BY <1>1, <1>2, BatchAssumption, NodeFacts DEF IInv, Typed, Threads, Contexts, Boot
  <1>4. status[t] = "none"
    <2>1. t > cur_tid
      BY <1>1, <1>3, NodeFacts DEF IInv, Typed, Contexts, Boot
    <2> QED
      BY <1>3, <2>1 DEF IInv, Others
  <1>5. Holds(status, next, Path, {}) /\ at[cur].then \notin Moves
    BY <1>2, PathPhase DEF Phase, AddPcs, DelPcs, Calm, Turns, Turn, CalmPcs
  <1>6. t \in Threads \ Elements(Path)
    BY <1>3, <1>4, <1>5, PathPhase, HoldsFacts
  <1>7. Path' = Path
    BY <1>2, <1>6, PathBeside, NodeFacts
  <1>8. m \in Spots /\ m.pc = "add1" /\ m.then = "create" /\ "create" \notin Moves
    <2>1. prev[HList] \in Nodes
      BY StateFacts, NodeFacts
    <2>2. "create" \in Thens
      BY ThenFacts
    <2>3. m \in Spots /\ m.pc = "add1" /\ m.then = "create"
      BY <1>1, <1>3, <2>1, <2>2, ArgFacts
    <2> QED
      BY <2>3 DEF Moves
  <1>9. Selected(<<>>, Path, Runs(status')) = Selected(<<>>, Path, Runs(status))
    <2>1. \A u \in Elements(Path) : u \in Runs(status') <=> u \in Runs(status)
      BY <1>2, <1>6 DEF Runs, IInv, Typed
    <2>2. PICK e : e = <<>>
      OBVIOUS
    <2>3. e \in Seq(Threads)
      BY <2>2
    <2>4. PICK S, T : S = Runs(status') /\ T = Runs(status)
      OBVIOUS
    <2>5. Selected(e, Path, S) = Selected(e, Path, T)
      BY <2>1, <2>3, <2>4, PathPhase, SelectSame
    <2> QED
      BY <2>2, <2>4, <2>5
  <1>10. Turned(status', m, Path) = Turned(status, at[cur], Path)
    BY <1>5, <1>8, <1>9 DEF Turned
  <1>11. Turn(cur, m, Path)
    BY <1>8 DEF Turn, CalmPcs
  <1> QED
    BY <1>2, <1>7, <1>8, <1>10, <1>11, Steady

\* The last of a sequence and what is before it.
LEMMA EndOfAppend ==
    ASSUME NEW s \in Seq(Threads), NEW t \in Threads, NEW r, r = Append(s, t)
    PROVE  r # <<>> /\ Last(r) = t /\ Front(r) = s
  <1>1. PICK n : n = Len(s) /\ n \in Nat
    OBVIOUS
  <1>2. r \in Seq(Threads) /\ r # <<>> /\ Len(r) = n + 1 /\ r[n + 1] = t /\ \A i \in 1 .. n : r[i] = s[i]
    BY <1>1
  <1>3. Front(r) = SubSeq(r, 1, n)
    <2>1. Len(r) - 1 = n
      BY <1>1, <1>2
    <2> QED
      BY <2>1 DEF Front
  <1>4. /\ SubSeq(r, 1, n) \in Seq(Threads) /\ Len(SubSeq(r, 1, n)) = n
        /\ \A i \in 1 .. n : SubSeq(r, 1, n)[i] = r[i]
    BY <1>1, <1>2
  <1>5. SubSeq(r, 1, n) = s
    BY <1>1, <1>2, <1>4, SeqEqual
  <1> QED
    BY <1>2, <1>3, <1>5 DEF Last

\* The steps of RoundRobin.  The thread that had the last turn has ended: Finish.
LEMMA FinishIs ==
    ASSUME Order # <<>>, cur = Last(Order), Order' = Front(Order), cur' = cur
    PROVE  TakesTurn
  BY DEF TakesTurn, Abstract!Next, Abstract!Finish, Abstract!Last, Abstract!Front, Last, Front

\* A thread that is linked for the first time: Add.
LEMMA AddIs ==
    ASSUME NEW t \in Threads, cur = Boot, t \notin ToSet(Order), Order' = Append(Order, t), cur' = cur
    PROVE  TakesTurn
  BY DEF TakesTurn, Abstract!Next, Abstract!Add, Abstract!ToSet, ToSet

\* A switch to a thread: Dispatch.
LEMMA DispatchIs ==
    ASSUME Order # <<>>, cur' = Head(Order), Order' = Append(Tail(Order), Head(Order))
    PROVE  TakesTurn
  BY DEF TakesTurn, Abstract!Next, Abstract!Dispatch

\* A switch to the boot thread: BackToBoot.
LEMMA BackToBootIs ==
    ASSUME Order = <<>>, Order' = Order, cur' = Boot
    PROVE  TakesTurn
  BY DEF TakesTurn, Abstract!Next, Abstract!BackToBoot

\* The last turn of foo: the thread is the last of the queue, and has no turn more.
LEMMA FooTurn == ASSUME IInv, Turns, Foo PROVE Turns' /\ TakesTurn
  <1>1. PICK m : m = Here("schedule")
    OBVIOUS
  <1>2. m \in Spots /\ m.pc = "schedule" /\ m.then \notin Moves
    BY <1>1, SpotFacts, PlaceFacts, HereFacts
  <1>3. /\ at' = [at EXCEPT ![cur] = m] /\ cur' = cur /\ next' = next /\ at[cur].pc = "foo"
        /\ status' = IF turns'[cur] = Iterations THEN [status EXCEPT ![cur] = "DEAD"] ELSE status
    BY <1>1 DEF Foo, Goto, At, links
  <1>4. CASE status' = status
    BY <1>2, <1>3, <1>4, SteadyCalm DEF CalmPcs
  <1>5. CASE status' = [status EXCEPT ![cur] = "DEAD"]
    <2>1. at[cur].then \notin Moves /\ LastOf(Path, cur)
      BY <1>3 DEF Turns, Turn, CalmPcs
    <2>2. cur \in Threads /\ status[cur] = "RUN"
      BY <1>3, PathPhase DEF Phase, AddPcs, DelPcs, Calm, Standing
    <2>3. PICK S, T, e : S = Runs(status) /\ T = Runs(status') /\ e = <<>>
      OBVIOUS
    <2>4. cur \in S /\ T = S \ {cur} /\ e \in Seq(Threads)
      BY <1>5, <2>2, <2>3 DEF Runs, IInv, Typed
    <2>5. Order = Selected(e, Path, S)
      BY <2>1, <2>3, OrderFacts DEF Turned
    <2>6. Path' = Path /\ at'[cur] = m /\ \A c \in Contexts : c # cur => at'[c] = at[c]
      BY <1>2, <1>3, PathKept DEF IInv, Typed
    <2>7. Order' = Selected(e, Path, T)
      BY <1>2, <1>3, <2>3, <2>6, OrderNext DEF Turned
    <2>8. Order = Append(Order', cur)
      BY <2>1, <2>3, <2>4, <2>5, <2>7, PathPhase, SelectEnd
    <2>9. Order' \in Seq(Threads)
      BY <2>4, <2>7, PathPhase, SelectTyped
    <2>10. Order # <<>> /\ Last(Order) = cur /\ Front(Order) = Order'
      BY <2>2, <2>8, <2>9, EndOfAppend
    <2>11. TakesTurn
      BY <1>3, <2>10, FinishIs
    <2>12. Turns'
      BY <1>2, <1>3, <2>6 DEF Turns, Turn, Alone
    <2> QED
      BY <2>11, <2>12
  <1> QED
    BY <1>3, <1>4, <1>5

\* The thread is linked: it gets its first turn, or the one that was picked is
\* the last now.
LEMMA Add4Turn == ASSUME IInv, Turns, Add4 PROVE Turns' /\ TakesTurn
  <1>1. PICK m, t, r, q2 : m = at[cur] /\ t = m.node /\ r = [m EXCEPT !.pc = m.then] /\ q2 = Append(Path, t)
    OBVIOUS
  <1>2. m \in Spots /\ m.pc = "add4" /\ at' = [at EXCEPT ![cur] = r] /\ cur' = cur /\ status' = status
    BY <1>1, StateFacts DEF Add4, At, my, Pc, Goto
  <1>3. Adding(next, prev, status, cur, at[cur], Path)
    BY <1>1, <1>2, PathPhase DEF Phase, CalmPcs, DelPcs
  <1>4. m.then \in {"create", "switch"} /\ m.then \in Places /\ (m.then = "create" => cur = Boot) /\ status[t] = "RUN"
    BY <1>1, <1>3, PlaceFacts DEF Adding
  <1>5. r \in Spots /\ r.pc = m.then /\ r.node = t /\ r.then = m.then
    BY <1>1, <1>2, <1>4, SpotFacts
  <1>6. t \in Threads /\ t \notin Elements(Path) /\ q2 \in Seq(Threads) /\ Path' = q2
    <2>1. /\ t \in Threads /\ t \notin Elements(Path) /\ q2 \in Seq(Threads)
          /\ next' \in [Ends -> Nodes] /\ Ring(next', prev, q2)
      BY <1>1, <1>3, PathPhase, Add4Ring
    <2> QED
      BY <2>1, PathNext
  <1>7. at'[cur] = r /\ \A c \in Contexts : c # cur => at'[c] = at[c]
    BY <1>2, <1>5 DEF IInv, Typed
  <1>8. LastOf(q2, t) /\ t # Boot
    <2>1. Len(q2) = Len(Path) + 1 /\ q2[Len(Path) + 1] = t /\ Len(Path) \in Nat
      BY <1>1, <1>6, PathPhase
    <2> QED
      BY <1>6, <2>1, NodeFacts DEF LastOf
  <1>9. Turns'
    <2>1. Turn(cur, r, q2)
      BY <1>4, <1>5, <1>8 DEF Turn, Moves, CalmPcs
    <2> QED
      BY <1>2, <1>6, <1>7, <2>1 DEF Turns, Alone
  <1>10. PICK S, e, o : S = Runs(status) /\ e = <<>> /\ o = <<t>>
    OBVIOUS
  <1>11. t \in S /\ e \in Seq(Threads) /\ o \in Seq(Threads)
    BY <1>4, <1>6, <1>10 DEF Runs
  <1>12. Order = Turned(status, m, Path) /\ Order' = Turned(status, r, q2)
    BY <1>1, <1>2, <1>6, <1>7, OrderFacts, OrderNext
  <1>13. CASE m.then = "create"
    <2>1. m.then \notin Moves
      BY <1>13 DEF Moves
    <2>2. Order = Selected(e, Path, S) /\ Order' = Selected(e, q2, S)
      BY <1>5, <1>10, <1>12, <2>1 DEF Turned
    <2>3. Order' = Append(Order, t)
      <3>1. Selected(e, Append(Path, t), S) = IF t \in S THEN Append(Selected(e, Path, S), t) ELSE Selected(e, Path, S)
        BY <1>6, <1>11, PathPhase, SelectAppend
      <3> QED
        BY <1>1, <1>11, <2>2, <3>1
    <2>4. t \notin ToSet(Order)
      BY <1>6, <1>10, <2>2, PathPhase, SelectIn
    <2> QED
      BY <1>2, <1>4, <1>6, <1>9, <1>13, <2>3, <2>4, AddIs
  <1>14. CASE m.then = "switch"
    <2>1. m.then \in Moves
      BY <1>14 DEF Moves
    <2>2. Order = Selected(o, Path, S \ {t}) /\ Order' = Selected(o, q2, S \ {t})
      BY <1>1, <1>5, <1>10, <1>12, <2>1 DEF Turned
    <2>3. Order' = Order
      <3>1. t \notin S \ {t}
        OBVIOUS
      <3>2. Selected(o, Append(Path, t), S \ {t}) = Selected(o, Path, S \ {t})
        BY <1>6, <1>11, <3>1, PathPhase, SelectNot
      <3> QED
        BY <1>1, <2>2, <3>2
    <2> QED
      BY <1>2, <1>9, <2>3 DEF TakesTurn
  <1> QED
    BY <1>4, <1>13, <1>14

\* The thread is unlinked: it was picked, or has no turn.
LEMMA Del2Turn == ASSUME IInv, Turns, Del2 PROVE Turns' /\ TakesTurn
  <1>1. PICK m, t, r : m = at[cur] /\ t = m.node /\ r = [m EXCEPT !.pc = m.then]
    OBVIOUS
  <1>2. m \in Spots /\ m.pc = "del2" /\ at' = [at EXCEPT ![cur] = r] /\ cur' = cur /\ status' = status
    BY <1>1, StateFacts DEF Del2, At, my, Pc, Goto
  <1>3. Deleting(next, prev, status, cur, at[cur], Path)
    BY <1>1, <1>2, PathPhase DEF Phase, CalmPcs, AddPcs
  <1>4. PICK k \in 1 .. Len(Path) : Target(status, cur, at[cur], Path, k)
    BY <1>3 DEF Deleting
  <1>5. m.then \in {"moved", "unlink"} /\ m.then \in Places /\ (m.then = "unlink" => status[t] = "DEAD")
    BY <1>1, <1>4, PlaceFacts DEF Target
  <1>6. r \in Spots /\ r.pc = m.then /\ r.node = t /\ r.then = m.then
    BY <1>1, <1>2, <1>5, SpotFacts
  <1>7. PICK q2 : q2 = Cut(Path, k)
    OBVIOUS
  <1>8. t = Path[k] /\ q2 \in Seq(Threads) /\ Path' = q2
    <2>1. /\ t = Path[k] /\ q2 \in Seq(Threads) /\ next' \in [Ends -> Nodes] /\ Ring(next', prev, q2)
      BY <1>1, <1>3, <1>4, <1>7, PathPhase, Del2Ring
    <2> QED
      BY <2>1, PathNext
  <1>9. at'[cur] = r /\ \A c \in Contexts : c # cur => at'[c] = at[c]
    BY <1>2, <1>6 DEF IInv, Typed
  <1>10. Turns'
    <2>1. Turn(cur, r, q2)
      BY <1>5, <1>6 DEF Turn, CalmPcs
    <2> QED
      BY <1>2, <1>8, <1>9, <2>1 DEF Turns, Alone
  <1>11. PICK S, e, o : S = Runs(status) /\ e = <<>> /\ o = <<t>>
    OBVIOUS
  <1>12. e \in Seq(Threads) /\ o \in Seq(Threads)
    BY <1>8, <1>11, PathPhase
  <1>13. Order = Turned(status, m, Path) /\ Order' = Turned(status, r, q2)
    BY <1>1, <1>2, <1>8, <1>9, OrderFacts, OrderNext
  <1>14. CASE m.then = "moved"
    <2>1. m.then \in Moves
      BY <1>14 DEF Moves
    <2>2. Order = Selected(o, Path, S \ {t}) /\ Order' = Selected(o, q2, S \ {t})
      BY <1>1, <1>6, <1>11, <1>13, <2>1 DEF Turned
    <2>3. Order' = Order
      BY <1>7, <1>8, <1>12, <2>2, PathPhase, SelectCut
    <2> QED
      BY <1>2, <1>10, <2>3 DEF TakesTurn
  <1>15. CASE m.then = "unlink"
    <2>1. m.then \notin Moves
      BY <1>15 DEF Moves
    <2>2. Order = Selected(e, Path, S) /\ Order' = Selected(e, q2, S)
      BY <1>6, <1>11, <1>13, <2>1 DEF Turned
    <2>3. t \notin S
      BY <1>5, <1>11, <1>15 DEF Runs
    <2>4. Order' = Order
      BY <1>7, <1>8, <1>12, <2>2, <2>3, PathPhase, SelectCut
    <2> QED
      BY <1>2, <1>10, <2>4 DEF TakesTurn
  <1> QED
    BY <1>5, <1>14, <1>15

\* With an empty queue nobody has a turn.
LEMMA ScheduleEmptyTurn == ASSUME IInv, Turns, ScheduleEmpty PROVE Turns' /\ TakesTurn
  <1>1. PICK r, h : r = Here("resumed") /\ h = Here("prompt")
    OBVIOUS
  <1>2. /\ at[cur].pc = "schedule" /\ next[HList] = HList
        /\ at' = [at EXCEPT ![Boot] = h, ![cur] = r]
        /\ cur' = Boot /\ next' = next /\ status' = status
    BY <1>1 DEF ScheduleEmpty, At, SwitchTo, links
  <1>3. r \in Spots /\ r.pc = "resumed" /\ r.then \notin Moves /\ h \in Spots /\ h.then \notin Moves
    BY <1>1, SpotFacts, PlaceFacts, HereFacts
  <1>4. Calm(next, prev, status, cur, at[cur], Path)
    BY <1>2, PathPhase DEF Phase, AddPcs, DelPcs
  <1>5. Holds(status, next, Path, {}) /\ Elements(Path) = {}
    BY <1>2, <1>4, PathPhase, EndFacts DEF Calm
  <1>6. cur = Boot
    <2>1. Alive(status, next) = {}
      BY <1>5 DEF Holds
    <2> QED
      BY <2>1 DEF IInv, Others, Typed, Contexts
  <1>7. at'[cur'] = r /\ \A c \in Contexts : c # Boot => at'[c] = at[c]
    BY <1>2, <1>3, <1>6, NodeFacts DEF IInv, Typed
  <1>8. Path' = Path
    BY <1>2, PathKept
  <1>9. Turns'
    <2>1. Turn(Boot, r, Path)
      BY <1>3 DEF Turn
    <2> QED
      BY <1>2, <1>6, <1>7, <1>8, <2>1 DEF Turns, Alone
  <1>10. PICK e, S : e = <<>> /\ S = Runs(status)
    OBVIOUS
  <1>11. Selected(e, Path, S) = e
    <2>1. e \in Seq(Threads)
      BY <1>10
    <2> QED
      BY <1>5, <2>1, PathPhase, SelectNone
  <1>12. at[cur].then \notin Moves
    BY <1>2 DEF Turns, Turn, CalmPcs
  <1>13. Order = e
    BY <1>10, <1>11, <1>12, OrderFacts DEF Turned
  <1>14. Order' = e
    BY <1>2, <1>3, <1>7, <1>8, <1>10, <1>11, OrderNext DEF Turned
  <1> QED
    BY <1>2, <1>9, <1>10, <1>13, <1>14, BackToBootIs

\* With none runnable nobody has a turn.
LEMMA NoTurns ==
    ASSUME IInv, NoneRuns(status), NEW m, m.then \notin Moves
    PROVE  Turned(status, m, Path) = <<>>
  <1>1. PICK e, S : e = <<>> /\ S = Runs(status)
    OBVIOUS
  <1>2. S = {} /\ e \in Seq(Threads)
    BY <1>1 DEF Runs, NoneRuns
  <1>3. Selected(e, Path, S) = e
    BY <1>2, PathPhase, SelectNone
  <1> QED
    BY <1>1, <1>3 DEF Turned

\* The processor goes to the thread that was picked and moved, or to the boot
\* thread, which nobody waits before.
LEMMA SwitchTurn == ASSUME IInv, Turns, Switch PROVE Turns' /\ TakesTurn
  <1>1. PICK m, t, p, r : m = at[cur] /\ t = m.node /\ p = (IF cur = Boot THEN "prompt" ELSE "foo") /\ r = Here(p)
    OBVIOUS
  <1>2. /\ m \in Spots /\ m.pc = "switch" /\ at' = [at EXCEPT ![cur] = r] /\ cur' = t
        /\ next' = next /\ status' = status
    <2>1. Goto(r)
      BY <1>1, Zenon DEF Switch
    <2> QED
      BY <1>1, <2>1, StateFacts DEF Switch, At, my, Goto, SwitchTo, links
  <1>3. r \in Spots /\ r.then \notin Moves
    <2>1. p \in Places
      BY <1>1, PlaceFacts
    <2> QED
      BY <1>1, <2>1, SpotFacts, HereFacts
  <1>4. Standing(status, cur, m, Path)
    BY <1>1, <1>2, PathPhase DEF Phase, AddPcs, DelPcs, Calm
  <1>5. at'[cur] = r /\ \A c \in Contexts : c # cur => at'[c] = at[c]
    BY <1>2, <1>3 DEF IInv, Typed
  <1>6. Path' = Path
    BY <1>2, PathKept
  <1>7. \A c \in Contexts : at'[c].then \notin Moves
    BY <1>3, <1>5 DEF Turns, Alone
  <1>8. r.pc = IF cur = Boot THEN "prompt" ELSE "foo"
    BY <1>1, SpotFacts, PlaceFacts
  <1>9. t \in Contexts /\ Waits(t, at'[t])
    <2>1. t \in Contexts
      BY <1>1, <1>2, <1>4, NodeFacts DEF Standing
    <2>2. t = cur => at'[t] = r
      BY <1>5
    <2>3. t # cur => Waits(t, at'[t])
      BY <1>5, <2>1 DEF IInv, Others
    <2> QED
      BY <1>8, <2>1, <2>2, <2>3 DEF Waits
  <1>10. at[cur].then = m.then /\ Order = Turned(status, m, Path) /\ Order' = Turned(status, at'[t], Path)
    BY <1>1, <1>2, <1>6, OrderFacts, OrderNext
  <1>11. CASE t = Boot
    <2>1. m.then \notin Moves /\ NoneRuns(status)
      BY <1>1, <1>2, <1>4, <1>11, NodeFacts DEF Turns, Turn, Standing
    <2>2. Order = <<>> /\ Order' = <<>>
      BY <1>7, <1>9, <1>10, <2>1, NoTurns
    <2>3. Turn(t, at'[t], Path)
      BY <1>7, <1>9, <1>11 DEF Turn, Waits
    <2>4. Turns'
      BY <1>2, <1>6, <1>7, <2>3 DEF Turns, Alone
    <2> QED
      BY <1>2, <1>11, <2>2, <2>4, BackToBootIs
  <1>12. CASE t # Boot
    <2>1. m.then = "switch" /\ LastOf(Path, t) /\ t \in Threads /\ status[t] = "RUN"
      BY <1>1, <1>2, <1>4, <1>12 DEF Turns, Turn, Standing
    <2>2. PICK S, e, o : S = Runs(status) /\ e = <<>> /\ o = <<t>>
      OBVIOUS
    <2>3. t \in S
      BY <2>1, <2>2 DEF Runs
    <2>4. Order = Selected(o, Path, S \ {t}) /\ Order' = Selected(e, Path, S)
      BY <1>1, <1>7, <1>9, <1>10, <2>1, <2>2 DEF Turned, Moves
    <2>5. Order' = Append(Selected(e, Path, S \ {t}), t)
      BY <2>1, <2>2, <2>3, <2>4, PathPhase, SelectEnd
    <2>6. Order # <<>> /\ Head(Order) = t /\ Tail(Order) = Selected(e, Path, S \ {t})
      BY <2>1, <2>2, <2>4, PathPhase, SelectTail
    <2>7. TakesTurn
      BY <1>2, <2>5, <2>6, DispatchIs
    <2>8. Turn(t, at'[t], Path)
      BY <1>7, <1>9, <1>12, <2>1 DEF Turn, Waits
    <2>9. Turns'
      BY <1>2, <1>6, <1>7, <2>8 DEF Turns, Alone
    <2> QED
      BY <2>7, <2>9
  <1> QED
    BY <1>11, <1>12

\* The interrupt finds nobody in a list_move_tail.
LEMMA IrqAlone ==
    ASSUME IInv, Turns, TimerOutside, Interrupted
    PROVE  \A c \in Contexts : at[c].then \notin Moves
  <1>1. at[cur].pc \in Outside
    BY IrqFacts
  <1>2. at[cur].then \notin Moves
    BY <1>1 DEF Turns, Turn, Outside, CalmPcs
  <1> QED
    BY <1>2 DEF Turns, Alone

\* What is cut out is not there any more.
LEMMA CutApart ==
    ASSUME NEW q \in Seq(Threads), Simple(q), NEW j \in 1 .. Len(q), Cut(q, j) \in Seq(Threads)
    PROVE  q[j] \notin Elements(Cut(q, j))
  <1>1. PICK n, r : n = Len(q) /\ r = Cut(q, j)
    OBVIOUS
  <1>2. n \in Nat /\ j \in 1 .. n /\ n - 1 \in Nat /\ \A i \in 1 .. n : q[i] = q[j] => i = j
    BY <1>1 DEF Simple
  <1>3. r \in Seq(Threads) /\ r = [i \in 1 .. n - 1 |-> IF i < j THEN q[i] ELSE q[i + 1]]
    BY <1>1 DEF Cut
  <1>4. Len(r) = n - 1
    BY <1>2, <1>3
  <1>5. ASSUME NEW i \in 1 .. n - 1 PROVE r[i] # q[j]
    <2>1. i \in 1 .. n /\ i + 1 \in 1 .. n
      BY <1>2
    <2> QED
      BY <1>2, <1>3, <2>1
  <1> QED
    BY <1>1, <1>4, <1>5 DEF Elements

\* The interrupt switches to the head of the order, and makes it the last.
LEMMA TimerIrqTurn == ASSUME IInv, Turns, TimerOutside, TimerIrq PROVE Turns' /\ TakesTurn
  <1>1. \A c \in Contexts : at[c].then \notin Moves /\ Waits(c, at[c])
    BY IrqAlone, IrqFacts DEF TimerIrq
  <1>2. Calm(next, prev, status, cur, at[cur], Path)
    BY PathPhase, IrqFacts DEF TimerIrq, Phase, AddPcs, DelPcs, Outside
  <1>3. PICK q, t, k : q = Path /\ t = FirstReady /\ k = Min(Ready)
    OBVIOUS
  <1>4. q \in Seq(Threads) /\ Simple(q)
    BY <1>3, PathPhase
  <1>5. /\ k \in 1 .. Len(q) /\ t = q[k] /\ t \in Threads /\ status[t] = "RUN"
        /\ \A i \in 1 .. Len(q) : i < k => status[q[i]] # "RUN"
    BY <1>2, <1>3, <1>4, FirstFacts DEF TimerIrq
  <1>6. MoveTail(t) /\ cur' = t /\ status' = status /\ at' = at
    BY <1>3 DEF TimerIrq
  <1>7. PICK r, q2 : r = Cut(q, k) /\ q2 = Append(r, t)
    OBVIOUS
  <1>8. r \in Seq(Threads) /\ q2 \in Seq(Threads) /\ Path' = q2
    <2>1. Ring(next, prev, q) /\ Holds(status, next, q, {})
      BY <1>2, <1>3 DEF Calm
    <2>2. /\ Cut(q, k) \in Seq(Threads) /\ Append(Cut(q, k), t) \in Seq(Threads)
          /\ next' \in [Ends -> Nodes] /\ Ring(next', prev', Append(Cut(q, k), t))
      BY <1>4, <1>5, <1>6, <2>1, MoveTailFacts, StateFacts
    <2> QED
      BY <1>7, <2>2, PathNext
  <1>9. PICK S, T, e, o : S = Runs(status) /\ T = S \ {t} /\ e = <<>> /\ o = <<t>>
    OBVIOUS
  <1>10. e \in Seq(Threads) /\ t \in S /\ \A i \in 1 .. Len(q) : i < k => q[i] \notin S
    BY <1>5, <1>9 DEF Runs
  <1>11. Order = Selected(e, q, S)
    BY <1>1, <1>3, <1>9, OrderFacts, StateFacts DEF Turned
  <1>12. Order = Selected(o, q, T)
    BY <1>4, <1>5, <1>9, <1>10, <1>11, SelectFirst
  <1>13. Order # <<>> /\ Head(Order) = t /\ Tail(Order) = Selected(e, q, T)
    BY <1>4, <1>5, <1>9, <1>12, SelectTail
  <1>14. t \in Contexts
    BY <1>5, NodeFacts
  <1>15. Order' = Selected(e, q2, S)
    BY <1>1, <1>6, <1>8, <1>9, <1>14, OrderNext DEF Turned
  <1>16. t \notin Elements(r)
    BY <1>4, <1>5, <1>7, <1>8, CutApart
  <1>17. Selected(e, q2, S) = Append(Selected(e, r, S), t)
    <2>1. t \in Threads /\ r \in Seq(Threads) /\ e \in Seq(Threads) /\ t \in S
      BY <1>5, <1>8, <1>10
    <2>2. Selected(e, Append(r, t), S) = Append(Selected(e, r, S), t)
      BY <2>1, SelectMore
    <2> QED
      BY <1>7, <2>2, Zenon
  <1>18. Selected(e, r, S) = Selected(e, r, T)
    <2>1. \A u \in Elements(r) : u \in S <=> u \in T
      BY <1>9, <1>16
    <2> QED
      BY <1>8, <1>10, <2>1, SelectSame
  <1>19. Selected(e, r, T) = Selected(e, q, T)
    <2>1. q[k] \notin T
      BY <1>5, <1>9
    <2> QED
      BY <1>4, <1>5, <1>7, <1>8, <1>10, <2>1, SelectCut
  <1>20. TakesTurn
    BY <1>6, <1>13, <1>15, <1>17, <1>18, <1>19, DispatchIs
  <1>21. LastOf(q2, t)
    <2>1. Len(q2) = Len(r) + 1 /\ q2[Len(r) + 1] = t /\ Len(r) \in Nat
      BY <1>5, <1>7, <1>8
    <2> QED
      BY <2>1 DEF LastOf
  <1>22. Turn(t, at[t], q2)
    <2>1. at[t].pc \in {"foo", "schedule"}
      BY <1>1, <1>5, <1>14, NodeFacts DEF Waits
    <2> QED
      BY <1>1, <1>14, <1>21, <2>1 DEF Turn
  <1>23. Turns'
    BY <1>1, <1>6, <1>8, <1>22 DEF Turns, Alone
  <1> QED
    BY <1>20, <1>23

\* With nobody in the order it goes back to the boot thread.
LEMMA TimerIrqToBootTurn == ASSUME IInv, Turns, TimerOutside, TimerIrqToBoot PROVE Turns' /\ TakesTurn
  <1>1. \A c \in Contexts : at[c].then \notin Moves /\ Waits(c, at[c])
    BY IrqAlone, IrqFacts DEF TimerIrqToBoot
  <1>2. Calm(next, prev, status, cur, at[cur], Path)
    BY PathPhase, IrqFacts DEF TimerIrqToBoot, Phase, AddPcs, DelPcs, Outside
  <1>3. NoneRuns(status)
    BY <1>2, PathPhase, FirstFacts DEF TimerIrqToBoot
  <1>4. next[HList] # HList
    <2>1. Ring(next, prev, Path) /\ Holds(status, next, Path, {})
      BY <1>2 DEF Calm
    <2>2. cur \in Elements(Path)
      BY <2>1 DEF Holds, IInv, Others, Typed, Contexts, TimerIrqToBoot
    <2> QED
      BY <2>1, <2>2, PathPhase, EndFacts
  <1>5. cur' = Boot /\ status' = status /\ at' = at /\ next' = next
    BY <1>4 DEF TimerIrqToBoot, links
  <1>6. Path' = Path /\ Boot \in Contexts
    BY <1>5, PathKept, NodeFacts
  <1>7. Order = <<>> /\ Order' = <<>>
    <2>1. Order = Turned(status, at[cur], Path) /\ Order' = Turned(status, at[Boot], Path)
      BY <1>5, <1>6, OrderFacts, OrderNext
    <2> QED
      BY <1>1, <1>3, <1>6, <2>1, NoTurns, StateFacts
  <1>8. Turn(Boot, at[Boot], Path)
    <2>1. at[Boot].pc \in {"prompt", "create", "schedule"}
      BY <1>1, <1>6 DEF Waits
    <2> QED
      BY <1>1, <1>6, <2>1 DEF Turn
  <1>9. Turns'
    BY <1>1, <1>5, <1>6, <1>8 DEF Turns, Alone
  <1> QED
    BY <1>5, <1>7, <1>9, BackToBootIs

\* Nobody has made a thread yet.
LEMMA InitTurns == ASSUME Init PROVE Turns /\ Abstract!Init
  <1>1. IInv
    BY InitIInv
  <1>2. cur = Boot /\ at = [c \in Contexts |-> Here(IF c = Boot THEN "prompt" ELSE "foo")]
    BY DEF Init
  <1>3. \A c \in Contexts : at[c].then \notin Moves /\ at[c].pc = IF c = Boot THEN "prompt" ELSE "foo"
    <2>1. \A p : Here(p).pc = p /\ Here(p).then \notin Moves
      BY HereFacts
    <2> QED
      BY <1>2, <2>1
  <1>4. at[cur].then \notin Moves /\ at[cur].pc = "prompt"
    BY <1>2, <1>3, NodeFacts
  <1>5. Turns
    BY <1>3, <1>4 DEF Turns, Turn, Alone
  <1>6. Order = <<>>
    <2>1. NoneRuns(status)
      BY DEF Init, NoneRuns
    <2> QED
      BY <1>1, <1>4, <2>1, NoTurns, OrderFacts
  <1> QED
    BY <1>2, <1>5, <1>6 DEF Abstract!Init

\* A thread takes its turn, or nothing is to be seen of the step.
LEMMA TurnsStep == ASSUME IInv, Turns, TimerOutside, [Next]_vars PROVE Turns' /\ TakesTurn
  <1>1. CASE ThreadCommand \/ TimeCommand
    BY <1>1, ThreadCommandTurn, TimeCommandTurn
  <1>2. CASE CreateThread \/ CreateDone
    BY <1>2, CreateThreadTurn, CreateDoneTurn
  <1>3. CASE Add1 \/ Add2 \/ Add3 \/ Add4
    BY <1>3, Add1Turn, Add2Turn, Add3Turn, Add4Turn
  <1>4. CASE Del1 \/ Del2
    BY <1>4, Del1Turn, Del2Turn
  <1>5. CASE Idle \/ Unlink
    BY <1>5, IdleTurn, UnlinkTurn
  <1>6. CASE Schedule \/ ScheduleEmpty \/ Walk
    BY <1>6, ScheduleTurn, ScheduleEmptyTurn, WalkTurn
  <1>7. CASE Moved \/ Switch
    BY <1>7, MovedTurn, SwitchTurn
  <1>8. CASE Foo \/ FooReturns
    BY <1>8, FooTurn, FooReturnsTurn
  <1>9. CASE TimerIrq \/ TimerIrqToBoot \/ TimerIrqLost
    BY <1>9, TimerIrqTurn, TimerIrqToBootTurn, TimerIrqLostStep
  <1>10. CASE UNCHANGED vars
    BY <1>10, SteadyAll DEF vars
  <1> QED
    BY <1>1, <1>2, <1>3, <1>4, <1>5, <1>6, <1>7, <1>8, <1>9, <1>10 DEF Next, Cpu

\* Sched implements RoundRobin: the runnable threads take their turns in the order
\* of the queue, and the boot thread comes when there is none.
THEOREM ImplementsRoundRobin == Spec /\ TimerOutside => TakesTurns
  <1>1. Init => Turns /\ Abstract!Init
    BY InitTurns
  <1>2. Spec /\ TimerOutside => []IInv
    BY RingInvariant
  <1>3. Spec /\ TimerOutside => TakesTurns
    <2> SUFFICES ASSUME TimerOutside PROVE Spec => TakesTurns
      OBVIOUS
    <2>1. IInv /\ Turns /\ [Next]_vars => Turns' /\ [Abstract!Next]_(Abstract!vars)
      BY TurnsStep DEF TakesTurn, Abstract!vars
    <2>2. Spec => []IInv
      BY <1>2
    <2> QED
      BY <1>1, <2>1, <2>2, PTL DEF Spec, TakesTurns, Abstract!Spec
  <1> QED
    BY <1>3
=============================================================================
