----------------------------- MODULE DataLemmas -----------------------------
(***************************************************************************)
(* Facts about numbers and sequences that the proofs of several components *)
(* need, among them induction over the natural numbers in the form of a    *)
(* least element: a property that fails somewhere fails first somewhere.   *)
(***************************************************************************)
EXTENDS Integers, Sequences, FiniteSetsExt, WellFoundedInduction, TLAPS

\* Every non-empty set of natural numbers has a least element.
LEMMA LeastElement ==
    ASSUME NEW S \in SUBSET Nat, S # {}
    PROVE  \E m \in S : \A x \in S : m <= x
  <1>1. \E m \in S : \A x \in S : ~(x < m)
    <2> DEFINE R == OpToRel(<, Nat)
    <2>1. IsWellFoundedOn(R, Nat)
      BY NatLessThanWellFounded
    <2>2. R = {ss \in Nat \X Nat : ss[1] < ss[2]}
      BY DEF OpToRel
    <2> HIDE DEF R
    <2>3. \E x \in S : \A y \in S : ~ (<<y, x>> \in R)
      BY <2>1, WFMin
    <2>4. \A x, y \in Nat : <<y, x>> \in R <=> y < x
      BY <2>2
    <2> QED
      BY <2>3, <2>4, Zenon
  <1> QED
    BY <1>1

\* The least element, as the community modules name it.
LEMMA MinFacts ==
    ASSUME NEW S \in SUBSET Nat, S # {}
    PROVE  Min(S) \in S /\ \A x \in S : Min(S) <= x
  <1>1. \E m \in S : \A x \in S : m <= x
    BY LeastElement
  <1> QED
    BY <1>1 DEF Min

\* Induction: a set that holds 0 and with every number the next one holds all.
LEMMA Induction ==
    ASSUME NEW S, 0 \in S, \A n \in Nat : n \in S => n + 1 \in S
    PROVE  Nat \subseteq S
  <1> SUFFICES ASSUME Nat \ S # {} PROVE FALSE
    OBVIOUS
  <1>1. PICK m \in Nat \ S : \A x \in Nat \ S : m <= x
    BY LeastElement
  <1>2. m # 0 /\ m - 1 \in Nat /\ m - 1 + 1 = m
    BY <1>1
  <1>3. m - 1 \in S
    BY <1>1, <1>2
  <1> QED
    BY <1>1, <1>2, <1>3

\* From every number but 0 the function c leads to a smaller one.
Descends(c) == c \in [Nat -> Nat] /\ \A n \in Nat \ {0} : c[n] < n

\* f has the value z at 0, and at every other n what G makes of its value at c[n].
DefinedBy(f, z, c, G) == f[0] = z /\ \A n \in Nat \ {0} : f[n] = G[n][f[c[n]]]

\* Recursion: a function of the natural numbers may be defined by its value at 0
\* and, at every other n, from its value at a smaller number.
LEMMA Recursion ==
    ASSUME NEW T, NEW z, NEW c, NEW G,
           z \in T, Descends(c), G \in [Nat -> [T -> T]]
    PROVE  \E f \in [Nat -> T] : DefinedBy(f, z, c, G)
  <1> USE DEF Descends
  <1> DEFINE Upto(n, g) == /\ g \in [0 .. n -> T]
                           /\ g[0] = z
                           /\ \A m \in 1 .. n : g[m] = G[m][g[c[m]]]
             S == {n \in Nat : \E g : Upto(n, g)}
  \* What is defined up to n can be defined up to n + 1.
  <1>1. 0 \in S
    <2>1. Upto(0, [m \in 0 .. 0 |-> z])
      OBVIOUS
    <2> QED
      BY <2>1
  <1>2. ASSUME NEW n \in Nat, n \in S PROVE n + 1 \in S
    <2>1. PICK g : Upto(n, g)
      BY <1>2
    <2> DEFINE h == [m \in 0 .. n + 1 |-> IF m = n + 1 THEN G[n + 1][g[c[n + 1]]] ELSE g[m]]
    <2>2. c[n + 1] \in 0 .. n
      OBVIOUS
    <2>3. h \in [0 .. n + 1 -> T]
      <3>1. g[c[n + 1]] \in T
        BY <2>1, <2>2
      <3>2. G[n + 1] \in [T -> T]
        OBVIOUS
      <3>3. G[n + 1][g[c[n + 1]]] \in T
        BY <3>1, <3>2
      <3>4. \A m \in 0 .. n + 1 : m # n + 1 => m \in 0 .. n
        OBVIOUS
      <3> QED
        BY <2>1, <3>3, <3>4
    <2>4. h[0] = z
      BY <2>1
    <2>5. ASSUME NEW m \in 1 .. n + 1 PROVE h[m] = G[m][h[c[m]]]
      <3>1. c[m] \in 0 .. n /\ c[m] # n + 1 /\ c[m] \in 0 .. n + 1
        OBVIOUS
      <3>2. h[c[m]] = g[c[m]]
        BY <3>1
      <3>3. CASE m = n + 1
        BY <3>2, <3>3
      <3>4. CASE m # n + 1
        <4>1. m \in 1 .. n /\ m \in 0 .. n + 1
          BY <3>4
        <4>2. h[m] = g[m]
          BY <3>4, <4>1
        <4> QED
          BY <2>1, <3>2, <4>1, <4>2
      <3> QED
        BY <3>3, <3>4
    <2>6. Upto(n + 1, h)
      BY <2>3, <2>4, <2>5
    <2>7. \E x : Upto(n + 1, x)
      BY <2>6
    <2> HIDE DEF Upto
    <2> QED
      BY <2>7, n + 1 \in Nat
  <1> HIDE DEF S
  <1>3. Nat \subseteq S
    BY <1>1, <1>2, Induction
  <1> USE DEF S
  \* Two of these agree where both are defined.
  <1>4. ASSUME NEW n \in Nat, NEW k \in Nat, NEW g, NEW h, Upto(n, g), Upto(k, h), n <= k
        PROVE  \A m \in 0 .. n : g[m] = h[m]
    <2> DEFINE A == {m \in Nat : m <= n /\ g[m] # h[m]}
    <2>1. SUFFICES ASSUME A # {} PROVE FALSE
      OBVIOUS
    <2> HIDE DEF A
    <2>2. PICK m \in A : \A x \in A : m <= x
      BY <2>1, LeastElement DEF A
    <2>3. m \in Nat /\ m <= n /\ g[m] # h[m]
      BY DEF A
    <2>4. m # 0
      BY <1>4, <2>3
    <2>5. c[m] \in Nat /\ c[m] < m
      BY <2>3, <2>4
    <2>6. g[c[m]] = h[c[m]]
      BY <2>2, <2>3, <2>5 DEF A
    <2>7. m \in 1 .. n /\ m \in 1 .. k
      BY <1>4, <2>3, <2>4
    <2> QED
      BY <1>4, <2>3, <2>6, <2>7
  <1> DEFINE F == [n \in Nat |-> CHOOSE g : Upto(n, g)]
             f == [n \in Nat |-> F[n][n]]
  <1>5. \A n \in Nat : Upto(n, F[n])
    <2> SUFFICES ASSUME NEW n \in Nat PROVE Upto(n, F[n])
      OBVIOUS
    <2>1. \E g : Upto(n, g)
      BY <1>3
    <2> HIDE DEF Upto
    <2> QED
      BY <2>1
  <1> HIDE DEF F
  <1>6. f \in [Nat -> T]
    <2> SUFFICES ASSUME NEW n \in Nat PROVE F[n][n] \in T
      OBVIOUS
    <2> QED
      BY <1>5
  <1>7. f[0] = z
    BY <1>5
  <1>8. ASSUME NEW n \in Nat \ {0} PROVE f[n] = G[n][f[c[n]]]
    <2>1. n \in Nat /\ c[n] \in Nat /\ c[n] < n /\ n \in 1 .. n
      OBVIOUS
    <2>2. F[n][n] = G[n][F[n][c[n]]]
      BY <1>5, <2>1
    <2>3. c[n] <= n /\ c[n] \in 0 .. c[n]
      BY <2>1
    <2> HIDE DEF Upto
    <2>6. Upto(c[n], F[c[n]]) /\ Upto(n, F[n])
      BY <1>5, <2>1, Zenon
    <2>4. \A m \in 0 .. c[n] : F[c[n]][m] = F[n][m]
      <3>1. PICK k, g, h : k = c[n] /\ g = F[c[n]] /\ h = F[n]
        OBVIOUS
      <3>2. k \in Nat /\ n \in Nat /\ Upto(k, g) /\ Upto(n, h) /\ k <= n
        BY <2>1, <2>3, <2>6, <3>1
      <3>3. \A m \in 0 .. k : g[m] = h[m]
        BY <1>4, <3>2
      <3> QED
        BY <3>1, <3>3
    <2>5. F[c[n]][c[n]] = F[n][c[n]]
      BY <2>3, <2>4
    <2> QED
      BY <2>1, <2>2, <2>5
  <1> QED
    BY <1>6, <1>7, <1>8 DEF DefinedBy

\* f has the value z at 0, and up to n what G[k] makes of its value at k - 1.
StepsUp(f, z, n, G) == f[0] = z /\ \A k \in 1 .. n : f[k] = G[k][f[k - 1]]

\* The same for such a function.
LEMMA Stepwise ==
    ASSUME NEW T, NEW z \in T, NEW n \in Nat, NEW G \in [1 .. n -> [T -> T]]
    PROVE  \E f \in [0 .. n -> T] : StepsUp(f, z, n, G)
  <1> DEFINE c == [k \in Nat |-> IF k = 0 THEN 0 ELSE k - 1]
             H == [k \in Nat |-> IF k \in 1 .. n THEN G[k] ELSE [x \in T |-> x]]
  <1>1. Descends(c)
    BY DEF Descends
  <1>2. H \in [Nat -> [T -> T]]
    OBVIOUS
  <1>3. \A k \in 1 .. n : H[k] = G[k] /\ c[k] = k - 1 /\ k \in Nat \ {0}
    OBVIOUS
  <1> HIDE DEF c, H
  <1>4. PICK g \in [Nat -> T] : DefinedBy(g, z, c, H)
    BY <1>1, <1>2, Recursion
  <1>5. g[0] = z /\ \A k \in 1 .. n : g[k] = G[k][g[k - 1]]
    BY <1>3, <1>4 DEF DefinedBy
  <1> DEFINE f == [k \in 0 .. n |-> g[k]]
  <1>6. f \in [0 .. n -> T] /\ f[0] = z
    BY <1>5
  <1>7. \A k \in 1 .. n : f[k] = G[k][f[k - 1]]
    BY <1>5
  <1> QED
    BY <1>6, <1>7 DEF StepsUp

\* What holds at 0 and is kept from k - 1 to k holds everywhere up to n.
LEMMA StepwiseIn ==
    ASSUME NEW n \in Nat, NEW A, 0 \in A, \A k \in 1 .. n : k - 1 \in A => k \in A
    PROVE  0 .. n \subseteq A
  <1> DEFINE S == {k \in Nat : k \in A \/ k > n}
  <1>1. 0 \in S
    OBVIOUS
  <1>2. ASSUME NEW k \in Nat, k \in S PROVE k + 1 \in S
    <2>1. CASE k + 1 > n
      BY <2>1
    <2>2. CASE k + 1 <= n
      <3>1. k + 1 \in 1 .. n /\ k + 1 - 1 = k /\ k \in A
        BY <1>2, <2>2
      <3> QED
        BY <3>1
    <2> QED
      BY <2>1, <2>2
  <1> HIDE DEF S
  <1>3. Nat \subseteq S
    BY <1>1, <1>2, Induction
  <1> QED
    BY <1>3 DEF S

=============================================================================
