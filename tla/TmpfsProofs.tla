----------------------------- MODULE TmpfsProofs -----------------------------
(***************************************************************************)
(* Proofs about Initramfs, the tmpfs with the mount of the initial         *)
(* ramdisk: whatever paths, texts and archives come, and however many      *)
(* entries a directory has, the vnodes stay a tree with unique names, and  *)
(* a path that leads to a vnode leads to it for ever.                      *)
(***************************************************************************)
EXTENDS Initramfs, DataLemmas

(* The tables of vnodes *)

\* The names that an entry can have.
InPaths == UNION {ToSet(p) : p \in Paths}
InArchives == UNION {UNION {ToSet(Tokens(a[k].name)) : k \in DOMAIN a} : a \in Archives}
Labels == InPaths \cup InArchives \cup {Dir} \cup Seq(Chars \cup {NUL})

Types == {"directory", "file"}
Items == [name : Labels, node : Nat]
Vnodes == [type : Types, entry : Seq(Items), data : {NULL}]

Typed(t) ==
    /\ t \in Seq(Vnodes)
    /\ Len(t) >= 1
    /\ t[Root].type = "directory"
    /\ \A n \in 1 .. Len(t) :
          /\ t[n].type = "file" => t[n].entry = <<>>
          /\ Len(t[n].entry) <= Entries

\* Entry i of vnode n is in use.
Link(t, n, i) == n \in 1 .. Len(t) /\ i \in 1 .. Len(t[n].entry)

To(t, n, i) == t[n].entry[i].node
Name(t, n, i) == t[n].entry[i].name

\* Every entry has a name and leads to a younger vnode.
Forward(t) ==
    \A n, i : Link(t, n, i) => To(t, n, i) \in n + 1 .. Len(t) /\ Name(t, n, i) # <<>>

Unique(t) ==
    \A n, i, j : (Link(t, n, i) /\ Link(t, n, j) /\ Name(t, n, i) = Name(t, n, j)) => i = j

\* Every vnode but the root is in an entry, and in no other.
Reached(t) == \A m \in 2 .. Len(t) : \E n, i : Link(t, n, i) /\ To(t, n, i) = m
Once(t) ==
    \A n, i, m, j : (Link(t, n, i) /\ Link(t, m, j) /\ To(t, n, i) = To(t, m, j)) => n = m /\ i = j

Tidy(t) == Typed(t) /\ Forward(t) /\ Unique(t) /\ Reached(t) /\ Once(t)

\* u has what t has, at the same places, and maybe more.
Grows(t, u) ==
    /\ Len(t) <= Len(u)
    /\ \A n \in 1 .. Len(t) : t[n].type = u[n].type
    /\ \A n, i : Link(t, n, i) => Link(u, n, i) /\ u[n].entry[i] = t[n].entry[i]

\* A table has what it has.
LEMMA GrowsItself == \A t : Len(t) \in Nat => Grows(t, t)
  BY DEF Grows

\* What a table has stays there over two changes.
LEMMA GrowsFurther ==
    ASSUME NEW t, NEW u, NEW v, Typed(t), Typed(u), Typed(v), Grows(t, u), Grows(u, v)
    PROVE  Grows(t, v)
  <1>1. Len(t) \in Nat /\ Len(u) \in Nat /\ Len(v) \in Nat
    BY DEF Typed
  <1>2. Len(t) <= Len(v) /\ \A n \in 1 .. Len(t) : n \in 1 .. Len(u)
    BY <1>1 DEF Grows
  <1> QED
    BY <1>2 DEF Grows

\* What tmpfs_lookup finds.
LEMMA ChildFacts ==
    ASSUME NEW t, Typed(t), Forward(t), NEW n \in 1 .. Len(t), NEW name
    PROVE  \/ /\ Child(t, n, name) = NoNode
              /\ \A i : Link(t, n, i) => Name(t, n, i) # name
           \/ \E i : /\ Link(t, n, i)
                     /\ Name(t, n, i) = name
                     /\ Child(t, n, name) = To(t, n, i)
                     /\ Child(t, n, name) \in n + 1 .. Len(t)
  <1> DEFINE hits == {i \in DOMAIN t[n].entry : t[n].entry[i].name = name}
  <1>1. t[n].entry \in Seq(Items) /\ DOMAIN t[n].entry = 1 .. Len(t[n].entry)
    <2>1. t[n] \in Vnodes
      BY DEF Typed
    <2>2. t[n].entry \in Seq(Items)
      BY <2>1 DEF Vnodes
    <2> QED
      BY <2>2
  <1>2. \A i : i \in hits <=> Link(t, n, i) /\ Name(t, n, i) = name
    BY <1>1 DEF Link, Name
  <1>3. Child(t, n, name) = IF hits = {} THEN NoNode ELSE t[n].entry[Min(hits)].node
    BY DEF Child
  <1>4. hits \in SUBSET Nat
    BY <1>1
  <1> HIDE DEF hits
  <1>5. CASE hits = {}
    BY <1>2, <1>3, <1>5
  <1>6. CASE hits # {}
    <2>1. Min(hits) \in hits
      BY <1>4, <1>6, MinFacts
    <2>2. Child(t, n, name) = To(t, n, Min(hits))
      BY <1>3, <1>6 DEF To
    <2> QED
      BY <1>2, <2>1, <2>2 DEF Forward
  <1> QED
    BY <1>5, <1>6

\* What a longer table has of a name that was found.
LEMMA ChildStays ==
    ASSUME NEW t, NEW u, Tidy(t), Tidy(u), Grows(t, u),
           NEW n \in 1 .. Len(t), NEW name, Child(t, n, name) # NoNode
    PROVE  Child(u, n, name) = Child(t, n, name)
  <1>1. n \in 1 .. Len(u)
    BY DEF Grows, Tidy, Typed
  <1>2. PICK i : Link(t, n, i) /\ Name(t, n, i) = name /\ Child(t, n, name) = To(t, n, i)
    BY ChildFacts DEF Tidy
  <1>3. Link(u, n, i) /\ Name(u, n, i) = name /\ To(u, n, i) = To(t, n, i)
    BY <1>2 DEF Grows, Name, To
  <1>4. PICK j : Link(u, n, j) /\ Name(u, n, j) = name /\ Child(u, n, name) = To(u, n, j)
    BY <1>1, <1>3, ChildFacts DEF Tidy
  <1>5. i = j
    BY <1>3, <1>4 DEF Tidy, Unique
  <1> QED
    BY <1>2, <1>3, <1>4, <1>5

\* u is t with the entry e behind the others of dir, and a vnode of the type behind
\* the others.
Extended(t, u, dir, e, type) ==
    /\ Typed(u)
    /\ Len(u) = Len(t) + 1
    /\ \A n \in 1 .. Len(t) : u[n].type = t[n].type
    /\ u[Len(u)] = NewNode(type)
    /\ \A n, i : Link(t, n, i) => Link(u, n, i) /\ u[n].entry[i] = t[n].entry[i]
    /\ Link(u, dir, Len(t[dir].entry) + 1)
    /\ u[dir].entry[Len(t[dir].entry) + 1] = e
    /\ \A n, i : Link(u, n, i) => Link(t, n, i) \/ (n = dir /\ i = Len(t[dir].entry) + 1)

\* What an entry for a new vnode makes of a table.
LEMMA LinkedFacts ==
    ASSUME NEW t, Typed(t), NEW dir \in 1 .. Len(t), NEW name \in Labels, NEW type \in Types,
           t[dir].type # "file", Len(t[dir].entry) # Entries
    PROVE  Extended(t, Linked(t, dir, name, type), dir,
                    [name |-> name, node |-> Len(t) + 1], type)
  <1> DEFINE N == Len(t)
             e == [name |-> name, node |-> N + 1]
             old == t[dir].entry
             d == [t[dir] EXCEPT !.entry = Append(old, e)]
             v == [t EXCEPT ![dir] = d]
             u == Linked(t, dir, name, type)
  <1>1. N \in Nat /\ dir \in 1 .. N /\ t \in Seq(Vnodes) /\ DOMAIN t = 1 .. N
    BY DEF Typed
  <1>2. t[dir] \in Vnodes
    BY <1>1
  <1>3. old \in Seq(Items) /\ Len(old) \in Nat /\ Len(old) < Entries
    <2>1. old \in Seq(Items)
      BY <1>2 DEF Vnodes
    <2>2. Len(old) <= Entries
      BY DEF Typed
    <2> QED
      BY <2>1, <2>2, EntriesAssumption
  <1>4. e \in Items
    BY <1>1 DEF Items
  <1> HIDE DEF e
  <1>5. /\ Append(old, e) \in Seq(Items)
        /\ Len(Append(old, e)) = Len(old) + 1
        /\ Append(old, e)[Len(old) + 1] = e
        /\ \A i \in 1 .. Len(old) : Append(old, e)[i] = old[i]
    BY <1>3, <1>4
  <1>6. d \in Vnodes /\ d.entry = Append(old, e) /\ d.type = t[dir].type
    BY <1>2, <1>5 DEF Vnodes
  <1> HIDE DEF d
  <1>7. /\ v \in Seq(Vnodes)
        /\ Len(v) = N
        /\ v[dir] = d
        /\ \A n \in 1 .. N : n # dir => v[n] = t[n]
    BY <1>1, <1>6
  <1> HIDE DEF v
  <1>8. NewNode(type) \in Vnodes /\ NewNode(type).entry = <<>>
    BY DEF NewNode, Vnodes
  <1>9. u = Append(v, NewNode(type))
    BY DEF Linked, v, d, e
  <1> HIDE DEF u
  <1>10. /\ u \in Seq(Vnodes)
         /\ Len(u) = N + 1
         /\ u[N + 1] = NewNode(type)
         /\ \A n \in 1 .. N : u[n] = v[n]
    BY <1>1, <1>7, <1>8, <1>9
  <1>11. u[dir].entry = Append(old, e) /\ u[dir].type = t[dir].type
    BY <1>1, <1>6, <1>7, <1>10
  <1>12. \A n \in 1 .. N : n # dir => u[n] = t[n]
    BY <1>7, <1>10
  <1>13. ASSUME NEW n \in 1 .. N + 1
         PROVE  \/ n = N + 1 /\ u[n] = NewNode(type) /\ u[n].entry = <<>>
                \/ n = dir
                \/ n \in 1 .. N /\ n # dir /\ u[n] = t[n]
    BY <1>1, <1>8, <1>10, <1>12
  <1>14. \A n \in 1 .. N + 1 : /\ u[n].type = "file" => u[n].entry = <<>>
                               /\ Len(u[n].entry) <= Entries
    <2> SUFFICES ASSUME NEW n \in 1 .. N + 1
                 PROVE  /\ u[n].type = "file" => u[n].entry = <<>>
                        /\ Len(u[n].entry) <= Entries
      OBVIOUS
    <2>1. CASE n = N + 1 /\ u[n].entry = <<>>
      BY <2>1, EntriesAssumption
    <2>2. CASE n = dir
      BY <1>3, <1>5, <1>11, <2>2, EntriesAssumption
    <2>3. CASE n \in 1 .. N /\ u[n] = t[n]
      BY <2>3 DEF Typed
    <2> QED
      BY <1>13, <2>1, <2>2, <2>3
  <1>15. \A n \in 1 .. N : u[n].type = t[n].type
    BY <1>11, <1>12
  <1>16. Typed(u)
    <2>1. Root \in 1 .. N /\ Len(u) >= 1
      BY <1>1, <1>10 DEF Typed, Root
    <2>2. u[Root].type = "directory"
      BY <1>15, <2>1 DEF Typed
    <2> QED
      BY <1>10, <1>14, <2>1, <2>2 DEF Typed
  <1>17. ASSUME NEW n, NEW i, Link(t, n, i) PROVE Link(u, n, i) /\ u[n].entry[i] = t[n].entry[i]
    <2>1. n \in 1 .. N /\ n \in 1 .. N + 1 /\ i \in 1 .. Len(t[n].entry)
      BY <1>1, <1>17 DEF Link
    <2>2. CASE n = dir
      BY <1>3, <1>5, <1>10, <1>11, <2>1, <2>2 DEF Link
    <2>3. CASE n # dir
      BY <1>10, <1>12, <2>1, <2>3 DEF Link
    <2> QED
      BY <2>2, <2>3
  <1>18. Link(u, dir, Len(old) + 1) /\ u[dir].entry[Len(old) + 1] = e
    BY <1>1, <1>3, <1>5, <1>10, <1>11 DEF Link
  <1>19. ASSUME NEW n, NEW i, Link(u, n, i)
         PROVE  Link(t, n, i) \/ (n = dir /\ i = Len(old) + 1)
    <2>1. n \in 1 .. N + 1 /\ i \in 1 .. Len(u[n].entry)
      BY <1>10, <1>19 DEF Link
    <2>2. CASE n = N + 1 /\ u[n].entry = <<>>
      BY <2>1, <2>2
    <2>3. CASE n = dir
      BY <1>1, <1>3, <1>5, <1>11, <2>1, <2>3 DEF Link
    <2>4. CASE n \in 1 .. N /\ u[n] = t[n]
      BY <2>1, <2>4 DEF Link
    <2> QED
      BY <1>13, <2>1, <2>2, <2>3, <2>4
  <1> QED
    BY <1>10, <1>15, <1>16, <1>17, <1>18, <1>19 DEF u, e, Extended

\* The table stays tidy when the name was not there.
LEMMA LinkedTidy ==
    ASSUME NEW t, Tidy(t), NEW dir \in 1 .. Len(t), NEW name \in Labels, NEW type \in Types,
           t[dir].type # "file", Len(t[dir].entry) # Entries,
           name # <<>>, Child(t, dir, name) = NoNode
    PROVE  LET u == Linked(t, dir, name, type)
           IN  /\ Tidy(u)
               /\ Grows(t, u)
               /\ Len(u) = Len(t) + 1
               /\ Child(u, dir, name) = Len(u)
               /\ u[Len(u)] = NewNode(type)
  <1> DEFINE e == [name |-> name, node |-> Len(t) + 1]
  <1>0. PICK u, N, last : /\ u = Linked(t, dir, name, type)
                          /\ N = Len(t)
                          /\ last = Len(t[dir].entry) + 1
    OBVIOUS
  <1>1. Typed(t) /\ Forward(t) /\ Unique(t) /\ Reached(t) /\ Once(t)
    BY DEF Tidy
  <1>2. /\ Typed(u)
        /\ Len(u) = N + 1
        /\ \A n \in 1 .. N : u[n].type = t[n].type
        /\ u[Len(u)] = NewNode(type)
        /\ \A n, i : Link(t, n, i) => Link(u, n, i) /\ u[n].entry[i] = t[n].entry[i]
        /\ Link(u, dir, last)
        /\ u[dir].entry[last] = e
        /\ \A n, i : Link(u, n, i) => Link(t, n, i) \/ (n = dir /\ i = last)
    <2>1. Extended(t, Linked(t, dir, name, type), dir, e, type)
      BY <1>1, LinkedFacts
    <2> HIDE DEF e
    <2>2. Extended(t, u, dir, e, type)
      BY <1>0, <2>1
    <2> QED
      BY <1>0, <2>2 DEF Extended
  <1>3. N \in Nat /\ dir \in 1 .. N
    BY <1>0, <1>1 DEF Typed
  <1>4. To(u, dir, last) = N + 1 /\ Name(u, dir, last) = name
    BY <1>0, <1>2 DEF To, Name
  <1>5. \A n, i : Link(t, n, i) => To(u, n, i) = To(t, n, i) /\ Name(u, n, i) = Name(t, n, i)
    BY <1>2 DEF To, Name
  <1>6. \A n, i : Link(t, n, i) => To(t, n, i) \in n + 1 .. N /\ n \in 1 .. N /\ Name(t, n, i) # <<>>
    BY <1>0, <1>1 DEF Forward, Link
  <1>7. \A i : Link(t, dir, i) => Name(t, dir, i) # name
    <2>1. \A i : Child(t, dir, name) = To(t, dir, i) => ~Link(t, dir, i)
      BY <1>3, <1>6 DEF NoNode
    <2> QED
      BY <1>1, <2>1, ChildFacts
  <1>8. Forward(u)
    <2> SUFFICES ASSUME NEW n, NEW i, Link(u, n, i)
                 PROVE  To(u, n, i) \in n + 1 .. N + 1 /\ Name(u, n, i) # <<>>
      BY <1>2 DEF Forward
    <2>1. CASE Link(t, n, i)
      BY <1>3, <1>5, <1>6, <2>1
    <2>2. CASE n = dir /\ i = last
      BY <1>3, <1>4, <2>2
    <2> QED
      BY <1>2, <2>1, <2>2
  <1>9. Unique(u)
    <2> SUFFICES ASSUME NEW n, NEW i, NEW j, Link(u, n, i), Link(u, n, j),
                        Name(u, n, i) = Name(u, n, j)
                 PROVE  i = j
      BY DEF Unique
    <2>1. CASE Link(t, n, i) /\ Link(t, n, j)
      BY <1>1, <1>5, <2>1 DEF Unique
    <2> QED
      BY <1>2, <1>4, <1>5, <1>7, <2>1
  <1>10. Reached(u)
    <2> SUFFICES ASSUME NEW m \in 2 .. N + 1
                 PROVE  \E n, i : Link(u, n, i) /\ To(u, n, i) = m
      BY <1>2 DEF Reached
    <2>1. CASE m = N + 1
      BY <1>2, <1>4, <2>1
    <2>2. CASE m # N + 1
      <3>1. m \in 2 .. N
        BY <1>3, <2>2
      <3>2. PICK n, i : Link(t, n, i) /\ To(t, n, i) = m
        BY <1>0, <1>1, <3>1 DEF Reached
      <3> QED
        BY <1>2, <1>5, <3>2
    <2> QED
      BY <2>1, <2>2
  <1>11. Once(u)
    <2>1. \A n, i : Link(t, n, i) => To(t, n, i) # N + 1
      BY <1>3, <1>6
    <2> SUFFICES ASSUME NEW n, NEW i, NEW m, NEW j, Link(u, n, i), Link(u, m, j),
                        To(u, n, i) = To(u, m, j)
                 PROVE  n = m /\ i = j
      BY DEF Once
    <2>2. CASE Link(t, n, i) /\ Link(t, m, j)
      <3>1. To(t, n, i) = To(t, m, j)
        BY <1>5, <2>2
      <3> QED
        BY <1>1, <2>2, <3>1 DEF Once
    <2>3. CASE Link(t, n, i) /\ ~Link(t, m, j)
      BY <1>2, <1>4, <1>5, <2>1, <2>3
    <2>4. CASE ~Link(t, n, i) /\ Link(t, m, j)
      BY <1>2, <1>4, <1>5, <2>1, <2>4
    <2>5. CASE ~Link(t, n, i) /\ ~Link(t, m, j)
      BY <1>2, <2>5
    <2> QED
      BY <2>2, <2>3, <2>4, <2>5
  <1>12. Tidy(u)
    BY <1>2, <1>8, <1>9, <1>10, <1>11 DEF Tidy
  <1>13. Grows(t, u)
    <2>1. Len(t) <= Len(u)
      BY <1>0, <1>2, <1>3
    <2>2. \A n \in 1 .. Len(t) : t[n].type = u[n].type
      BY <1>0, <1>2
    <2> QED
      BY <1>2, <2>1, <2>2 DEF Grows
  <1>14. Child(u, dir, name) = N + 1
    <2>1. dir \in 1 .. Len(u)
      BY <1>2, <1>3
    <2>2. PICK i : Link(u, dir, i) /\ Name(u, dir, i) = name /\ Child(u, dir, name) = To(u, dir, i)
      BY <1>2, <1>4, <1>8, <2>1, ChildFacts
    <2>3. i = last
      BY <1>2, <1>4, <1>9, <2>2 DEF Unique
    <2> QED
      BY <1>4, <2>2, <2>3
  <1> QED
    BY <1>0, <1>2, <1>12, <1>13, <1>14

\* tmpfs_create and tmpfs_mkdir keep the table tidy and take nothing from it.
LEMMA MadeFacts ==
    ASSUME NEW t, Tidy(t), NEW dir \in 1 .. Len(t), NEW name \in Labels, NEW type \in Types
    PROVE  LET u == Made(t, dir, name, type)
           IN  /\ Tidy(u)
               /\ Grows(t, u)
               /\ \/ /\ u = t
                     /\ \/ t[dir].type = "file"
                        \/ name = <<>>
                        \/ Child(t, dir, name) # NoNode
                        \/ Len(t[dir].entry) = Entries
                  \/ /\ Len(u) = Len(t) + 1
                     /\ u # t
                     /\ t[dir].type # "file"
                     /\ Child(u, dir, name) = Len(u)
                     /\ u[Len(u)] = NewNode(type)
  <1> DEFINE blocked == \/ t[dir].type = "file"
                        \/ name = <<>> \/ Child(t, dir, name) # NoNode
                        \/ Len(t[dir].entry) = Entries
  <1>1. Len(t) \in Nat
    BY DEF Tidy, Typed
  <1>2. CASE blocked
    <2>1. Made(t, dir, name, type) = t
      BY <1>2 DEF Made
    <2> QED
      BY <1>1, <1>2, <2>1, GrowsItself
  <1>3. CASE ~blocked
    <2>1. Made(t, dir, name, type) = Linked(t, dir, name, type)
      BY <1>3 DEF Made
    <2>2. /\ Tidy(Linked(t, dir, name, type))
          /\ Grows(t, Linked(t, dir, name, type))
          /\ Len(Linked(t, dir, name, type)) = Len(t) + 1
          /\ Child(Linked(t, dir, name, type), dir, name) = Len(Linked(t, dir, name, type))
          /\ Linked(t, dir, name, type)[Len(Linked(t, dir, name, type))] = NewNode(type)
      BY <1>3, LinkedTidy
    <2>3. Linked(t, dir, name, type) # t
      BY <1>1, <2>2
    <2> QED
      BY <1>3, <2>1, <2>2, <2>3
  <1> QED
    BY <1>2, <1>3

-----------------------------------------------------------------------------
(* The walks *)

\* Below a vnode is a vnode of the table, or none.
LEMMA BelowFacts ==
    ASSUME NEW t, Tidy(t), NEW n \in 0 .. Len(t), NEW name
    PROVE  Below(t, n, name) \in 0 .. Len(t)
  <1>1. Len(t) \in Nat
    BY DEF Tidy, Typed
  <1>2. CASE n = NoNode \/ t[n].type = "file"
    BY <1>1, <1>2 DEF Below, NoNode
  <1>3. CASE n # NoNode /\ t[n].type # "file"
    <2>1. n \in 1 .. Len(t) /\ Below(t, n, name) = Child(t, n, name)
      BY <1>1, <1>3 DEF Below, NoNode
    <2>2. Child(t, n, name) = NoNode \/ Child(t, n, name) \in n + 1 .. Len(t)
      BY <2>1, ChildFacts DEF Tidy
    <2> QED
      BY <1>1, <2>1, <2>2 DEF NoNode
  <1> QED
    BY <1>2, <1>3

\* The vnodes that a path leads to, step by step.
LEMMA TrailFacts ==
    ASSUME NEW t, Tidy(t), NEW path, Len(path) \in Nat
    PROVE  /\ Trail(t, path)[0] = Root
           /\ \A k \in 1 .. Len(path) :
                 Trail(t, path)[k] = Below(t, Trail(t, path)[k - 1], path[k])
           /\ \A k \in 0 .. Len(path) : Trail(t, path)[k] \in 0 .. Len(t)
  <1>0. PICK n, T, z : n = Len(path) /\ T = 0 .. Len(t) /\ z = Root
    OBVIOUS
  <1> DEFINE Is(f) == f = [k \in 0 .. n |-> IF k = 0 THEN z ELSE Below(t, f[k - 1], path[k])]
             G == [k \in 1 .. n |-> [s \in T |-> Below(t, s, path[k])]]
             trail == Trail(t, path)
  <1>1. n \in Nat /\ z \in T
    BY <1>0 DEF Root, Tidy, Typed
  <1>2. \A k \in 1 .. n : \A s \in T : Below(t, s, path[k]) \in T
    BY <1>0, BelowFacts
  <1>3. G \in [1 .. n -> [T -> T]]
    BY <1>2
  <1>4. \E f \in [0 .. n -> T] : StepsUp(f, z, n, G)
    <2> HIDE DEF G
    <2> QED
      BY <1>1, <1>3, Stepwise
  <1>5. PICK f \in [0 .. n -> T] : f[0] = z /\ \A k \in 1 .. n : f[k] = G[k][f[k - 1]]
    BY <1>4 DEF StepsUp
  <1>6. Is(f)
    <2>1. \A k \in 1 .. n : k - 1 \in 0 .. n /\ k \in 0 .. n /\ k # 0
      BY <1>1
    <2>2. \A k \in 1 .. n : f[k] = Below(t, f[k - 1], path[k])
      BY <1>5, <2>1
    <2>3. \A k \in 0 .. n : k = 0 \/ k \in 1 .. n
      BY <1>1
    <2> QED
      BY <1>5, <2>2, <2>3
  <1>7. Is(trail)
    <2>1. trail = CHOOSE g : Is(g)
      BY <1>0 DEF Trail
    <2> HIDE DEF Is
    <2> QED
      BY <1>6, <2>1
  <1> HIDE DEF trail
  <1>8. \A k \in 0 .. n : trail[k] = IF k = 0 THEN z ELSE Below(t, trail[k - 1], path[k])
    BY <1>7
  <1>9. trail[0] = Root /\ \A k \in 1 .. n : trail[k] = Below(t, trail[k - 1], path[k])
    <2>1. 0 \in 0 .. n /\ \A k \in 1 .. n : k \in 0 .. n /\ k # 0
      BY <1>1
    <2> QED
      BY <1>0, <1>8, <2>1
  <1> DEFINE A == {k \in 0 .. n : trail[k] \in T}
  <1>10. 0 \in A
    BY <1>0, <1>1, <1>9
  <1>11. ASSUME NEW k \in 1 .. n, k - 1 \in A PROVE k \in A
    <2>1. k \in 0 .. n
      BY <1>1
    <2> QED
      BY <1>2, <1>9, <1>11, <2>1
  <1>12. 0 .. n \subseteq A
    <2> HIDE DEF A
    <2> QED
      BY <1>1, <1>10, <1>11, StepwiseIn
  <1> QED
    BY <1>0, <1>9, <1>12 DEF trail

\* A path leads on to the vnode it led to when the table grows.
LEMMA TrailStays ==
    ASSUME NEW t, NEW u, Tidy(t), Tidy(u), Grows(t, u), NEW path, Len(path) \in Nat,
           NEW k \in 0 .. Len(path), Trail(t, path)[k] # NoNode
    PROVE  Trail(u, path)[k] = Trail(t, path)[k]
  <1>0. PICK n, f, g : n = Len(path) /\ f = Trail(t, path) /\ g = Trail(u, path)
    OBVIOUS
  <1>1. /\ f[0] = Root /\ g[0] = Root
        /\ \A j \in 1 .. n : f[j] = Below(t, f[j - 1], path[j]) /\ g[j] = Below(u, g[j - 1], path[j])
        /\ \A j \in 0 .. n : f[j] \in 0 .. Len(t)
    BY <1>0, TrailFacts
  <1> DEFINE A == {j \in 0 .. n : f[j] # NoNode => g[j] = f[j]}
  <1>2. n \in Nat
    BY <1>0
  <1>3. 0 \in A
    BY <1>1, <1>2
  <1>4. ASSUME NEW j \in 1 .. n, j - 1 \in A PROVE j \in A
    <2>1. j \in 0 .. n /\ j - 1 \in 0 .. n
      BY <1>2
    <2> SUFFICES ASSUME f[j] # NoNode PROVE g[j] = f[j]
      BY <2>1
    <2>2. PICK x : x = f[j - 1]
      OBVIOUS
    <2>3. x # NoNode /\ t[x].type # "file" /\ f[j] = Child(t, x, path[j])
      BY <1>1, <2>2 DEF Below
    <2>4. g[j - 1] = x /\ x \in 1 .. Len(t)
      <3>1. x \in 0 .. Len(t) /\ Len(t) \in Nat
        BY <1>1, <2>1, <2>2 DEF Tidy, Typed
      <3> QED
        BY <1>4, <2>2, <2>3, <3>1 DEF NoNode
    <2>5. u[x].type # "file" /\ g[j] = Child(u, x, path[j])
      <3>1. u[x].type = t[x].type
        BY <2>4 DEF Grows
      <3> QED
        BY <1>1, <2>3, <2>4, <3>1 DEF Below
    <2>6. Child(u, x, path[j]) = Child(t, x, path[j])
      BY <2>3, <2>4, ChildStays
    <2> QED
      BY <2>3, <2>5, <2>6
  <1>5. 0 .. n \subseteq A
    <2> HIDE DEF A
    <2> QED
      BY <1>2, <1>3, <1>4, StepwiseIn
  <1> QED
    BY <1>0, <1>5

\* The walk of vfs_mkdir stays in the table.
LEMMA FollowFacts ==
    ASSUME Tidy(node), NEW n \in 0 .. Len(node), NEW name
    PROVE  Follow(n, name) \in 0 .. Len(node)
  <1>1. Len(node) \in Nat
    BY DEF Tidy, Typed
  <1>2. CASE n = NoNode \/ node[n].type = "file"
    BY <1>1, <1>2 DEF Follow
  <1>3. CASE n # NoNode /\ node[n].type # "file"
    <2>1. n \in 1 .. Len(node) /\ Follow(n, name) = Child(node, n, name)
      BY <1>1, <1>3 DEF Follow, NoNode
    <2>2. Child(node, n, name) = NoNode \/ Child(node, n, name) \in n + 1 .. Len(node)
      BY <2>1, ChildFacts DEF Tidy
    <2> QED
      BY <1>1, <2>1, <2>2 DEF NoNode
  <1> QED
    BY <1>2, <1>3

\* The walk of vfs_mkdir, step by step.
LEMMA ReachFacts ==
    ASSUME Tidy(node), NEW path, Len(path) \in Nat
    PROVE  /\ Reach(path)[0] = Root
           /\ \A k \in 1 .. Len(path) : Reach(path)[k] = Follow(Reach(path)[k - 1], path[k])
           /\ \A k \in 0 .. Len(path) : Reach(path)[k] \in 0 .. Len(node)
  <1>0. PICK n, T, z : n = Len(path) /\ T = 0 .. Len(node) /\ z = Root
    OBVIOUS
  <1> DEFINE Is(f) == f = [k \in 0 .. n |-> IF k = 0 THEN z ELSE Follow(f[k - 1], path[k])]
             G == [k \in 1 .. n |-> [s \in T |-> Follow(s, path[k])]]
             reach == Reach(path)
  <1>1. n \in Nat /\ z \in T
    BY <1>0 DEF Root, Tidy, Typed
  <1>2. \A k \in 1 .. n : \A s \in T : Follow(s, path[k]) \in T
    BY <1>0, FollowFacts
  <1>3. G \in [1 .. n -> [T -> T]]
    BY <1>2
  <1>4. \E f \in [0 .. n -> T] : StepsUp(f, z, n, G)
    <2> HIDE DEF G
    <2> QED
      BY <1>1, <1>3, Stepwise
  <1>5. PICK f \in [0 .. n -> T] : f[0] = z /\ \A k \in 1 .. n : f[k] = G[k][f[k - 1]]
    BY <1>4 DEF StepsUp
  <1>6. Is(f)
    <2>1. \A k \in 1 .. n : k - 1 \in 0 .. n /\ k \in 0 .. n /\ k # 0
      BY <1>1
    <2>2. \A k \in 1 .. n : f[k] = Follow(f[k - 1], path[k])
      BY <1>5, <2>1
    <2>3. \A k \in 0 .. n : k = 0 \/ k \in 1 .. n
      BY <1>1
    <2> QED
      BY <1>5, <2>2, <2>3
  <1>7. Is(reach)
    <2>1. reach = CHOOSE g : Is(g)
      BY <1>0 DEF Reach
    <2> HIDE DEF Is
    <2> QED
      BY <1>6, <2>1
  <1> HIDE DEF reach
  <1>8. \A k \in 0 .. n : reach[k] = IF k = 0 THEN z ELSE Follow(reach[k - 1], path[k])
    BY <1>7
  <1>9. reach[0] = Root /\ \A k \in 1 .. n : reach[k] = Follow(reach[k - 1], path[k])
    <2>1. 0 \in 0 .. n /\ \A k \in 1 .. n : k \in 0 .. n /\ k # 0
      BY <1>1
    <2> QED
      BY <1>0, <1>8, <2>1
  <1> DEFINE A == {k \in 0 .. n : reach[k] \in T}
  <1>10. 0 \in A
    BY <1>0, <1>1, <1>9
  <1>11. ASSUME NEW k \in 1 .. n, k - 1 \in A PROVE k \in A
    <2>1. k \in 0 .. n
      BY <1>1
    <2> QED
      BY <1>2, <1>9, <1>11, <2>1
  <1>12. 0 .. n \subseteq A
    <2> HIDE DEF A
    <2> QED
      BY <1>1, <1>10, <1>11, StepwiseIn
  <1> QED
    BY <1>0, <1>9, <1>12 DEF reach

\* Where the walk of vfs_open can be.
States(creat) ==
    {s \in [table : Seq(Vnodes), at : Nat, creat : {creat}] :
        Tidy(s.table) /\ Grows(node, s.table) /\ s.at \in 0 .. Len(s.table)}

\* One component of vfs_open keeps the table tidy and the walk in it.
LEMMA OpenStepFacts ==
    ASSUME Tidy(node), NEW creat \in BOOLEAN, NEW s \in States(creat), NEW name \in Labels
    PROVE  OpenStep(s, name) \in States(creat) /\ Grows(s.table, OpenStep(s, name).table)
  <1>0. PICK t, a : t = s.table /\ a = s.at
    OBVIOUS
  <1>1. /\ t \in Seq(Vnodes) /\ Tidy(t) /\ Grows(node, t)
        /\ Len(t) \in Nat /\ a \in 0 .. Len(t)
        /\ s = [table |-> t, at |-> a, creat |-> creat]
    <2>1. s \in [table : Seq(Vnodes), at : Nat, creat : {creat}]
      BY DEF States
    <2>2. Tidy(t) /\ Grows(node, t) /\ a \in 0 .. Len(t)
      BY <1>0 DEF States
    <2> QED
      BY <1>0, <2>1, <2>2
  <1>2. ASSUME NEW u, NEW b, Tidy(u), Grows(t, u), b \in 0 .. Len(u)
        PROVE  [table |-> u, at |-> b, creat |-> creat] \in States(creat)
    <2>1. Grows(node, u)
      BY <1>1, <1>2, GrowsFurther DEF Tidy
    <2>2. u \in Seq(Vnodes) /\ b \in Nat
      BY <1>2 DEF Tidy, Typed
    <2> QED
      BY <1>2, <2>1, <2>2 DEF States
  <1>3. CASE a = NoNode \/ t[a].type = "file"
    BY <1>0, <1>1, <1>3, GrowsItself DEF OpenStep
  <1>4. CASE ~(a = NoNode \/ t[a].type = "file")
    <2>1. a \in 1 .. Len(t)
      BY <1>1, <1>4 DEF NoNode
    <2>2. CASE Child(t, a, name) # NoNode
      <3>1. Child(t, a, name) \in a + 1 .. Len(t)
        BY <1>1, <2>1, <2>2, ChildFacts DEF Tidy
      <3>2. Child(t, a, name) \in 0 .. Len(t)
        BY <2>1, <3>1
      <3>3. OpenStep(s, name) = [table |-> t, at |-> Child(t, a, name), creat |-> creat]
        BY <1>0, <1>1, <1>4, <2>2 DEF OpenStep
      <3> QED
        BY <1>1, <1>2, <3>2, <3>3, GrowsItself
    <2>3. CASE Child(t, a, name) = NoNode
      <3>0. PICK u : u = IF creat THEN Made(t, a, name, "file") ELSE t
        OBVIOUS
      <3>1. Tidy(u) /\ Grows(t, u) /\ (u = t \/ Len(u) = Len(t) + 1)
        <4>1. "file" \in Types
          BY DEF Types
        <4> QED
          BY <1>1, <2>1, <3>0, <4>1, MadeFacts, GrowsItself
      <3>2. PICK b : b = IF u # t THEN Len(u) ELSE IF a = Root THEN NoNode ELSE a
        OBVIOUS
      <3>3. b \in 0 .. Len(u)
        BY <1>1, <3>1, <3>2 DEF NoNode
      <3>4. OpenStep(s, name) = [table |-> u, at |-> b, creat |-> creat]
        <4> DEFINE made == IF s.creat THEN Made(s.table, s.at, name, "file") ELSE s.table
        <4>1. s.creat = creat
          BY <1>1
        <4>2. made = u
          BY <1>0, <3>0, <4>1, Zenon
        <4>3. OpenStep(s, name) =
                 [s EXCEPT !.table = made,
                           !.at = IF made # s.table THEN Len(made)
                                  ELSE IF s.at = Root THEN NoNode ELSE s.at]
          BY <1>0, <1>4, <2>3 DEF OpenStep
        <4> HIDE DEF made
        <4>4. OpenStep(s, name) = [s EXCEPT !.table = u, !.at = b]
          BY <1>0, <3>2, <4>2, <4>3
        <4> QED
          BY <1>1, <4>4
      <3> QED
        BY <1>0, <1>2, <3>1, <3>3, <3>4
    <2> QED
      BY <2>2, <2>3
  <1> QED
    BY <1>3, <1>4

\* The walk of vfs_open, step by step.
LEMMA OpenStepsFacts ==
    ASSUME Tidy(node), NEW creat \in BOOLEAN, NEW path, Len(path) \in Nat,
           \A k \in 1 .. Len(path) : path[k] \in Labels
    PROVE  /\ OpenSteps(path, creat)[0] = [table |-> node, at |-> Root, creat |-> creat]
           /\ \A k \in 1 .. Len(path) :
                 OpenSteps(path, creat)[k] = OpenStep(OpenSteps(path, creat)[k - 1], path[k])
           /\ \A k \in 0 .. Len(path) : OpenSteps(path, creat)[k] \in States(creat)
  <1>0. PICK n, T, z : /\ n = Len(path)
                       /\ T = States(creat)
                       /\ z = [table |-> node, at |-> Root, creat |-> creat]
    OBVIOUS
  <1> DEFINE Is(f) == f = [k \in 0 .. n |-> IF k = 0 THEN z ELSE OpenStep(f[k - 1], path[k])]
             G == [k \in 1 .. n |-> [s \in T |-> OpenStep(s, path[k])]]
             steps == OpenSteps(path, creat)
  <1>1. n \in Nat /\ z \in T
    <2>1. Len(node) \in Nat /\ Len(node) >= 1 /\ node \in Seq(Vnodes) /\ Root \in 0 .. Len(node)
      BY DEF Root, Tidy, Typed
    <2>2. Grows(node, node)
      BY <2>1, GrowsItself
    <2>3. z \in [table : Seq(Vnodes), at : Nat, creat : {creat}]
      BY <1>0, <2>1 DEF Root
    <2>4. z.table = node /\ z.at = Root
      BY <1>0
    <2> QED
      BY <1>0, <2>1, <2>2, <2>3, <2>4 DEF States
  <1>2. \A k \in 1 .. n : \A s \in T : OpenStep(s, path[k]) \in T
    BY <1>0, OpenStepFacts
  <1>3. G \in [1 .. n -> [T -> T]]
    BY <1>2
  <1>4. \E f \in [0 .. n -> T] : StepsUp(f, z, n, G)
    <2> HIDE DEF G
    <2> QED
      BY <1>1, <1>3, Stepwise
  <1>5. PICK f \in [0 .. n -> T] : f[0] = z /\ \A k \in 1 .. n : f[k] = G[k][f[k - 1]]
    BY <1>4 DEF StepsUp
  <1>6. Is(f)
    <2>1. \A k \in 1 .. n : k - 1 \in 0 .. n /\ k \in 0 .. n /\ k # 0
      BY <1>1
    <2>2. \A k \in 1 .. n : f[k] = OpenStep(f[k - 1], path[k])
      BY <1>5, <2>1
    <2>3. \A k \in 0 .. n : k = 0 \/ k \in 1 .. n
      BY <1>1
    <2> QED
      BY <1>5, <2>2, <2>3
  <1>7. Is(steps)
    <2>1. steps = CHOOSE g : Is(g)
      BY <1>0 DEF OpenSteps
    <2> HIDE DEF Is
    <2> QED
      BY <1>6, <2>1
  <1> HIDE DEF steps
  <1>8. \A k \in 0 .. n : steps[k] = IF k = 0 THEN z ELSE OpenStep(steps[k - 1], path[k])
    BY <1>7
  <1>9. steps[0] = z /\ \A k \in 1 .. n : steps[k] = OpenStep(steps[k - 1], path[k])
    <2>1. 0 \in 0 .. n /\ \A k \in 1 .. n : k \in 0 .. n /\ k # 0
      BY <1>1
    <2> QED
      BY <1>8, <2>1
  <1> DEFINE A == {k \in 0 .. n : steps[k] \in T}
  <1>10. 0 \in A
    BY <1>1, <1>9
  <1>11. ASSUME NEW k \in 1 .. n, k - 1 \in A PROVE k \in A
    <2>1. k \in 0 .. n
      BY <1>1
    <2> QED
      BY <1>2, <1>9, <1>11, <2>1
  <1>12. 0 .. n \subseteq A
    <2> HIDE DEF A
    <2> QED
      BY <1>1, <1>10, <1>11, StepwiseIn
  <1> QED
    BY <1>0, <1>9, <1>12 DEF steps

-----------------------------------------------------------------------------
(* The archive *)

\* An archive as the assumption has it, with the lengths that matter.
Shaped(a) ==
    /\ Len(a) \in Nat
    /\ DOMAIN a = 1 .. Len(a)
    /\ \A k \in 1 .. Len(a) : /\ IsName(a[k].name) /\ Len(a[k].name) \in Nat
                              /\ a[k].data \in Seq(Chars) /\ Len(a[k].data) \in Nat

\* The archives are such.
LEMMA ArchiveShaped == \A a \in Archives : Shaped(a)
  <1> SUFFICES ASSUME NEW a \in Archives PROVE Shaped(a)
    OBVIOUS
  <1>1. a \in Seq(ToSet(a)) /\ \A k \in DOMAIN a : IsName(a[k].name) /\ a[k].data \in Seq(Chars)
    BY ArchivesAssumption
  <1>2. \A s : IsName(s) => Len(s) \in Nat
    BY DEF IsName, IsString
  <1>3. Len(a) \in Nat /\ DOMAIN a = 1 .. Len(a)
    BY <1>1
  <1> QED
    BY <1>1, <1>2, <1>3 DEF Shaped

\* RoundUp gives the next multiple of four, and is what the code computes.
LEMMA RoundUpFacts ==
    \A x \in Nat : /\ C!RoundUp(x) \in Nat
                  /\ C!RoundUp(x) >= x
                  /\ C!RoundUp(x) <= x + 3
                  /\ C!RoundUp(x) % 4 = 0
                  /\ C!RoundUp(x) = C!Aligned(x)
  BY DEF C!RoundUp, C!Aligned

\* Header and name are aligned together.
LEMMA AlignedNameFacts ==
    \A x, y \in Nat : x % 4 = 0 => x + C!Header + C!AlignedName(y) = C!RoundUp(x + C!Header + y)
  BY DEF C!RoundUp, C!AlignedName, C!Header

\* Where the header behind record k lies, when that of record k lies at x.
NextHeader(a, x, k) ==
    C!RoundUp(C!RoundUp(x + C!Header + C!NameSize(a, k)) + C!FileSize(a, k))

\* Where the walk goes on from x.
NextAddr(a, x) ==
    LET k == C!RecordAt(a, x) IN IF k = 0 THEN x ELSE C!Beyond(a, x, k)

\* c_namesize and c_filesize of a record before the trailer.
LEMMA SizeFacts ==
    ASSUME NEW a, Shaped(a), NEW k \in 1 .. Len(a)
    PROVE  /\ C!NameSize(a, k) = Len(a[k].name) + 1 /\ C!NameSize(a, k) \in Nat
           /\ C!FileSize(a, k) = Len(a[k].data) /\ C!FileSize(a, k) \in Nat
           /\ C!Record(a, k) = a[k]
  <1>1. Len(a) \in Nat /\ ~(k > Len(a)) /\ Len(a[k].name) \in Nat /\ Len(a[k].data) \in Nat
    BY DEF Shaped
  <1> QED
    BY <1>1 DEF C!NameSize, C!FileSize, C!Record

\* The next header lies behind, at a multiple of four.
LEMMA NextHeaderFacts ==
    ASSUME NEW a, Shaped(a), NEW k \in 1 .. Len(a), NEW x \in Nat
    PROVE  /\ NextHeader(a, x, k) \in Nat
           /\ NextHeader(a, x, k) > x
           /\ NextHeader(a, x, k) % 4 = 0
  <1>1. C!NameSize(a, k) \in Nat /\ C!FileSize(a, k) \in Nat
    BY SizeFacts
  <1>2. PICK n, d : n = C!NameSize(a, k) /\ d = C!FileSize(a, k)
    OBVIOUS
  <1>3. PICK m : m = x + C!Header + n
    OBVIOUS
  <1>4. m \in Nat /\ m > x
    BY <1>1, <1>2, <1>3 DEF C!Header
  <1>5. PICK y : y = C!RoundUp(m)
    OBVIOUS
  <1>6. y \in Nat /\ y > x
    BY <1>4, <1>5, RoundUpFacts
  <1>7. PICK z : z = y + d
    OBVIOUS
  <1>8. z \in Nat /\ z > x
    BY <1>1, <1>2, <1>6, <1>7
  <1>9. PICK w : w = C!RoundUp(z)
    OBVIOUS
  <1>10. w % 4 = 0
    BY <1>8, <1>9, RoundUpFacts, Zenon
  <1>11. w \in Nat /\ w > x
    BY <1>8, <1>9, RoundUpFacts
  <1>12. NextHeader(a, x, k) = w
    BY <1>2, <1>3, <1>5, <1>7, <1>9 DEF NextHeader
  <1> QED
    BY <1>10, <1>11, <1>12

\* Where the headers lie.
LEMMA HeaderFacts ==
    ASSUME NEW a, Shaped(a)
    PROVE  /\ C!HeaderAt(a)[1] = 0
           /\ \A k \in 2 .. Len(a) + 1 : C!HeaderAt(a)[k] = NextHeader(a, C!HeaderAt(a)[k - 1], k - 1)
           /\ \A k \in 1 .. Len(a) + 1 : C!HeaderAt(a)[k] \in Nat
  <1>0. PICK n : n = Len(a)
    OBVIOUS
  <1> DEFINE Is(f) == f = [k \in 1 .. n + 1 |-> IF k = 1 THEN 0 ELSE NextHeader(a, f[k - 1], k - 1)]
             G == [k \in 1 .. n |-> [s \in Nat |-> NextHeader(a, s, k + 1 - 1)]]
             at == C!HeaderAt(a)
  <1>1. n \in Nat /\ 0 \in Nat
    BY <1>0 DEF Shaped
  <1>2. \A k \in 2 .. n + 1 : \A s \in Nat : NextHeader(a, s, k - 1) \in Nat
    <2>1. \A k \in 2 .. n + 1 : k - 1 \in 1 .. Len(a)
      BY <1>0, <1>1
    <2> QED
      BY <2>1, NextHeaderFacts
  <1>3. G \in [1 .. n -> [Nat -> Nat]]
    <2>1. \A k \in 1 .. n : k + 1 \in 2 .. n + 1
      BY <1>1
    <2>2. \A k \in 1 .. n : \A s \in Nat : NextHeader(a, s, k + 1 - 1) \in Nat
      BY <1>2, <2>1
    <2> QED
      BY <2>2
  <1>4. \E f \in [0 .. n -> Nat] : StepsUp(f, 0, n, G)
    <2> HIDE DEF G
    <2> QED
      BY <1>1, <1>3, Stepwise
  <1>5. PICK f \in [0 .. n -> Nat] : f[0] = 0 /\ \A k \in 1 .. n : f[k] = G[k][f[k - 1]]
    BY <1>4 DEF StepsUp
  <1> DEFINE g == [k \in 1 .. n + 1 |-> f[k - 1]]
  <1>6. Is(g)
    <2>1. ASSUME NEW k \in 2 .. n + 1 PROVE g[k] = NextHeader(a, g[k - 1], k - 1)
      <3>1. /\ k - 1 \in 1 .. n /\ k - 1 \in 1 .. n + 1 /\ k \in 1 .. n + 1
            /\ k - 1 - 1 \in 0 .. n /\ k - 1 + 1 = k
        BY <1>1
      <3>2. PICK j, s : j = k - 1 /\ s = f[j - 1]
        OBVIOUS
      <3>3. j \in 1 .. n /\ j - 1 \in 0 .. n /\ s \in Nat /\ j + 1 = k /\ j + 1 - 1 = k - 1
        BY <3>1, <3>2
      <3>4. f[j] = NextHeader(a, s, k - 1)
        BY <1>5, <3>2, <3>3
      <3>5. g[k] = f[j] /\ g[k - 1] = s
        BY <3>1, <3>2
      <3> QED
        BY <3>4, <3>5
    <2>2. 1 \in 1 .. n + 1 /\ g[1] = 0
      BY <1>1, <1>5
    <2>3. \A k \in 1 .. n + 1 : k = 1 \/ k \in 2 .. n + 1
      BY <1>1
    <2>4. g = [k \in 1 .. n + 1 |-> g[k]]
      OBVIOUS
    <2> HIDE DEF g
    <2>5. \A k \in 1 .. n + 1 : g[k] = IF k = 1 THEN 0 ELSE NextHeader(a, g[k - 1], k - 1)
      BY <2>1, <2>2, <2>3
    <2> QED
      BY <2>4, <2>5
  <1>7. Is(at)
    <2>1. at = CHOOSE x : Is(x)
      BY <1>0 DEF C!HeaderAt, NextHeader
    <2>2. \E x : Is(x)
      BY <1>6
    <2> HIDE DEF Is
    <2> QED
      BY <2>1, <2>2
  <1> HIDE DEF at
  <1>8. \A k \in 1 .. n + 1 : at[k] = IF k = 1 THEN 0 ELSE NextHeader(a, at[k - 1], k - 1)
    BY <1>7
  <1>9. at[1] = 0 /\ \A k \in 2 .. n + 1 : at[k] = NextHeader(a, at[k - 1], k - 1)
    <2>1. 1 \in 1 .. n + 1 /\ \A k \in 2 .. n + 1 : k \in 1 .. n + 1 /\ k # 1
      BY <1>1
    <2> QED
      BY <1>8, <2>1
  <1> DEFINE A == {k \in 0 .. n : at[k + 1] \in Nat}
  <1>10. 0 \in A
    BY <1>1, <1>9
  <1>11. ASSUME NEW k \in 1 .. n, k - 1 \in A PROVE k \in A
    <2>1. PICK j : j = k + 1
      OBVIOUS
    <2>2. j \in 2 .. n + 1 /\ j - 1 = k - 1 + 1 /\ k \in 0 .. n
      BY <1>1, <2>1
    <2>3. at[j - 1] \in Nat
      BY <1>11, <2>2
    <2>4. at[j] \in Nat
      BY <1>2, <1>9, <2>2, <2>3
    <2> QED
      BY <2>1, <2>2, <2>4
  <1>12. 0 .. n \subseteq A
    <2> HIDE DEF A
    <2> QED
      BY <1>1, <1>10, <1>11, StepwiseIn
  <1>13. \A k \in 1 .. n + 1 : at[k] \in Nat
    <2>1. \A k \in 1 .. n + 1 : k - 1 \in 0 .. n /\ k - 1 + 1 = k
      BY <1>1
    <2> QED
      BY <1>12, <2>1
  <1> QED
    BY <1>0, <1>9, <1>13 DEF at

\* The operators of the community modules are the same in an instance.
LEMMA MinSame == \A S : C!Min(S) = Min(S)
  BY Zenon DEF C!Min, Min

\* One header is behind the other, at multiples of four.
LEMMA HeadersAscend ==
    ASSUME NEW a, Shaped(a)
    PROVE  /\ \A k \in 1 .. Len(a) + 1 : C!HeaderAt(a)[k] % 4 = 0
           /\ \A k \in 1 .. Len(a) + 1 : \A j \in 1 .. k - 1 : C!HeaderAt(a)[j] < C!HeaderAt(a)[k]
  <1>0. PICK n, at : n = Len(a) /\ at = C!HeaderAt(a)
    OBVIOUS
  <1>1. /\ n \in Nat
        /\ at[1] = 0
        /\ \A k \in 2 .. n + 1 : at[k] = NextHeader(a, at[k - 1], k - 1)
        /\ \A k \in 1 .. n + 1 : at[k] \in Nat
    BY <1>0, HeaderFacts DEF Shaped
  <1>2. ASSUME NEW k \in 2 .. n + 1 PROVE at[k] > at[k - 1] /\ at[k] % 4 = 0
    <2>1. k - 1 \in 1 .. Len(a) /\ k - 1 \in 1 .. n + 1
      BY <1>0, <1>1
    <2>2. at[k - 1] \in Nat
      BY <1>1, <2>1
    <2>3. /\ NextHeader(a, at[k - 1], k - 1) > at[k - 1]
          /\ NextHeader(a, at[k - 1], k - 1) % 4 = 0
      BY <2>1, <2>2, NextHeaderFacts, Zenon
    <2>4. at[k] = NextHeader(a, at[k - 1], k - 1)
      BY <1>1
    <2> QED
      BY <2>3, <2>4, Zenon
  <1>3. ASSUME NEW k \in 1 .. n + 1 PROVE at[k] % 4 = 0
    <2>1. CASE k = 1
      BY <1>1, <2>1
    <2>2. CASE k # 1
      <3>1. k \in 2 .. n + 1
        BY <1>1, <2>2
      <3> QED
        BY <1>2, <3>1
    <2> QED
      BY <2>1, <2>2
  <1> DEFINE A == {k \in 0 .. n : \A j \in 1 .. k : at[j] < at[k + 1]}
  <1>4. 0 \in A
    BY <1>1
  <1>5. ASSUME NEW k \in 1 .. n, k - 1 \in A PROVE k \in A
    <2>1. k \in 0 .. n /\ k - 1 + 1 = k /\ k + 1 - 1 = k /\ k + 1 \in 2 .. n + 1
      BY <1>1
    <2>2. \A j \in 1 .. k - 1 : at[j] < at[k]
      BY <1>5, <2>1
    <2>3. at[k] < at[k + 1]
      BY <1>2, <2>1
    <2>4. ASSUME NEW j \in 1 .. k PROVE at[j] < at[k + 1]
      <3>1. at[j] \in Nat /\ at[k] \in Nat /\ at[k + 1] \in Nat
        BY <1>1, <2>1
      <3>2. CASE j = k
        BY <2>3, <3>2
      <3>3. CASE j # k
        <4>1. j \in 1 .. k - 1
          BY <2>1, <3>3
        <4>2. at[j] < at[k]
          BY <2>2, <4>1
        <4> QED
          BY <2>3, <3>1, <4>2
      <3> QED
        BY <3>2, <3>3
    <2> QED
      BY <2>1, <2>4
  <1>6. 0 .. n \subseteq A
    <2> HIDE DEF A
    <2> QED
      BY <1>1, <1>4, <1>5, StepwiseIn
  <1>7. ASSUME NEW k \in 1 .. n + 1 PROVE \A j \in 1 .. k - 1 : at[j] < at[k]
    <2>1. k - 1 \in 0 .. n /\ k - 1 + 1 = k
      BY <1>1
    <2>2. k - 1 \in A
      BY <1>6, <2>1
    <2> QED
      BY <2>1, <2>2
  <1> QED
    BY <1>0, <1>3, <1>7

\* At the header of a record is that record, and none at the trailer.
LEMMA RecordAtFacts ==
    ASSUME NEW a, Shaped(a)
    PROVE  /\ \A x : C!RecordAt(a, x) \in 0 .. Len(a)
           /\ \A k \in 1 .. Len(a) : C!RecordAt(a, C!HeaderAt(a)[k]) = k
           /\ C!RecordAt(a, C!HeaderAt(a)[Len(a) + 1]) = 0
  <1>1. Len(a) \in Nat /\ DOMAIN a = 1 .. Len(a)
    BY DEF Shaped
  <1>2. ASSUME NEW x
        PROVE  \/ C!RecordAt(a, x) = 0 /\ \A k \in 1 .. Len(a) : C!HeaderAt(a)[k] # x
               \/ C!RecordAt(a, x) \in 1 .. Len(a) /\ C!HeaderAt(a)[C!RecordAt(a, x)] = x
    <2> DEFINE hits == {k \in DOMAIN a : C!HeaderAt(a)[k] = x}
    <2>1. C!RecordAt(a, x) = IF hits = {} THEN 0 ELSE Min(hits)
      BY MinSame DEF C!RecordAt
    <2>2. hits \in SUBSET Nat /\ hits \subseteq 1 .. Len(a) /\ \A k \in hits : C!HeaderAt(a)[k] = x
      BY <1>1
    <2>3. hits = {} => \A k \in 1 .. Len(a) : C!HeaderAt(a)[k] # x
      BY <1>1
    <2> HIDE DEF hits
    <2>4. hits # {} => Min(hits) \in hits
      BY <2>2, MinFacts
    <2> QED
      BY <2>1, <2>2, <2>3, <2>4
  <1>3. ASSUME NEW j \in 1 .. Len(a) + 1, NEW k \in 1 .. Len(a) + 1,
               C!HeaderAt(a)[j] = C!HeaderAt(a)[k]
        PROVE  j = k
    <2>1. C!HeaderAt(a)[j] \in Nat /\ C!HeaderAt(a)[k] \in Nat
      BY HeaderFacts
    <2>2. ~(j \in 1 .. k - 1) /\ ~(k \in 1 .. j - 1)
      BY <1>3, <2>1, HeadersAscend
    <2> QED
      BY <1>1, <2>2
  <1>4. \A x : C!RecordAt(a, x) \in 0 .. Len(a)
    BY <1>1, <1>2
  <1>5. ASSUME NEW k \in 1 .. Len(a) PROVE C!RecordAt(a, C!HeaderAt(a)[k]) = k
    <2>1. k \in 1 .. Len(a) + 1 /\ \A j \in 1 .. Len(a) : j \in 1 .. Len(a) + 1
      BY <1>1
    <2> QED
      BY <1>2, <1>3, <2>1
  <1>6. C!RecordAt(a, C!HeaderAt(a)[Len(a) + 1]) = 0
    <2>1. /\ Len(a) + 1 \in 1 .. Len(a) + 1
          /\ \A j \in 1 .. Len(a) : j \in 1 .. Len(a) + 1 /\ j # Len(a) + 1
      BY <1>1
    <2> QED
      BY <1>2, <1>3, <2>1
  <1> QED
    BY <1>4, <1>5, <1>6

\* Behind the name and its padding lie the data, and behind them the next header.
LEMMA BeyondFacts ==
    ASSUME NEW a, Shaped(a), NEW k \in 1 .. Len(a)
    PROVE  /\ C!HeaderAt(a)[k] + C!Header + C!AlignedName(C!NameSize(a, k)) = C!DataAt(a, k)
           /\ C!DataAt(a, k) \in Nat
           /\ C!Beyond(a, C!HeaderAt(a)[k], k) = C!HeaderAt(a)[k + 1]
  <1>1. PICK x, n, d, y : /\ x = C!HeaderAt(a)[k]
                          /\ n = C!NameSize(a, k)
                          /\ d = C!FileSize(a, k)
                          /\ y = C!AlignedName(C!NameSize(a, k))
    OBVIOUS
  <1>2. k \in 1 .. Len(a) + 1 /\ k + 1 \in 2 .. Len(a) + 1 /\ k + 1 - 1 = k
    BY DEF Shaped
  <1>3. x \in Nat /\ x % 4 = 0 /\ n \in Nat /\ d \in Nat
    BY <1>1, <1>2, HeaderFacts, HeadersAscend, SizeFacts
  <1>4. x + C!Header + y = C!RoundUp(x + C!Header + n)
    BY <1>1, <1>3, AlignedNameFacts
  <1>5. x + C!Header + n \in Nat
    BY <1>3 DEF C!Header
  <1>6. C!RoundUp(x + C!Header + n) \in Nat /\ C!RoundUp(x + C!Header + n) % 4 = 0
    BY <1>5, RoundUpFacts
  <1>7. PICK z : z = C!RoundUp(x + C!Header + n)
    OBVIOUS
  <1>8. C!DataAt(a, k) = z
    BY <1>1, <1>7 DEF C!DataAt
  <1>9. z + C!Aligned(d) = C!RoundUp(z + d)
    <2>1. \A u, v \in Nat : u % 4 = 0 => u + C!Aligned(v) = C!RoundUp(u + v)
      BY DEF C!Aligned, C!RoundUp
    <2> QED
      BY <1>3, <1>6, <1>7, <2>1
  <1>10. C!Beyond(a, x, k) = x + C!Header + y + C!Aligned(d)
    BY <1>1 DEF C!Beyond
  <1>11. C!HeaderAt(a)[k + 1] = C!RoundUp(z + d)
    <2>1. C!HeaderAt(a)[k + 1] = NextHeader(a, x, k)
      BY <1>1, <1>2, HeaderFacts
    <2> QED
      BY <1>1, <1>7, <2>1 DEF NextHeader
  <1> QED
    BY <1>1, <1>4, <1>6, <1>7, <1>8, <1>9, <1>10, <1>11

\* From an address the walk goes on to an address.
LEMMA NextAddrFacts ==
    ASSUME NEW a, Shaped(a), NEW x \in Nat
    PROVE  /\ NextAddr(a, x) \in Nat
           /\ \A k \in 1 .. Len(a) : C!Beyond(a, x, k) \in Nat
  <1>1. \A y \in Nat : C!AlignedName(y) \in Nat /\ C!Aligned(y) \in Nat
    BY DEF C!AlignedName, C!Aligned, C!Header
  <1>2. ASSUME NEW k \in 1 .. Len(a) PROVE C!Beyond(a, x, k) \in Nat
    <2>1. PICK n, d : n = C!AlignedName(C!NameSize(a, k)) /\ d = C!Aligned(C!FileSize(a, k))
      OBVIOUS
    <2>2. n \in Nat /\ d \in Nat
      BY <1>1, <2>1, SizeFacts
    <2>3. C!Beyond(a, x, k) = x + C!Header + n + d
      BY <2>1 DEF C!Beyond
    <2> QED
      BY <2>2, <2>3 DEF C!Header
  <1>3. NextAddr(a, x) \in Nat
    <2>1. PICK k : k = C!RecordAt(a, x)
      OBVIOUS
    <2>2. k = 0 \/ k \in 1 .. Len(a)
      <3>1. k \in 0 .. Len(a) /\ Len(a) \in Nat
        BY <2>1, RecordAtFacts DEF Shaped
      <3> QED
        BY <3>1
    <2>3. NextAddr(a, x) = IF k = 0 THEN x ELSE C!Beyond(a, x, k)
      BY <2>1 DEF NextAddr
    <2> QED
      BY <1>2, <2>2, <2>3
  <1> QED
    BY <1>2, <1>3

\* Where the walk comes to.
LEMMA WalkFacts ==
    ASSUME NEW a, Shaped(a)
    PROVE  /\ C!Walk(a)[1] = 0
           /\ \A k \in 2 .. Len(a) + 1 : C!Walk(a)[k] = NextAddr(a, C!Walk(a)[k - 1])
           /\ \A k \in 1 .. Len(a) + 1 : C!Walk(a)[k] \in Nat
  <1>0. PICK n : n = Len(a)
    OBVIOUS
  <1> DEFINE Is(f) == f = [k \in 1 .. n + 1 |-> IF k = 1 THEN 0 ELSE NextAddr(a, f[k - 1])]
             G == [k \in 1 .. n |-> [s \in Nat |-> NextAddr(a, s)]]
             at == C!Walk(a)
  <1>1. n \in Nat /\ 0 \in Nat
    BY <1>0 DEF Shaped
  <1>2. \A s \in Nat : NextAddr(a, s) \in Nat
    BY NextAddrFacts
  <1>3. G \in [1 .. n -> [Nat -> Nat]]
    BY <1>2
  <1>4. \E f \in [0 .. n -> Nat] : StepsUp(f, 0, n, G)
    <2> HIDE DEF G
    <2> QED
      BY <1>1, <1>3, Stepwise
  <1>5. PICK f \in [0 .. n -> Nat] : f[0] = 0 /\ \A k \in 1 .. n : f[k] = G[k][f[k - 1]]
    BY <1>4 DEF StepsUp
  <1> DEFINE g == [k \in 1 .. n + 1 |-> f[k - 1]]
  <1>6. Is(g)
    <2>1. ASSUME NEW k \in 2 .. n + 1 PROVE g[k] = NextAddr(a, g[k - 1])
      <3>1. /\ k - 1 \in 1 .. n /\ k - 1 \in 1 .. n + 1 /\ k \in 1 .. n + 1
            /\ k - 1 - 1 \in 0 .. n
        BY <1>1
      <3>2. PICK j, s : j = k - 1 /\ s = f[j - 1]
        OBVIOUS
      <3>3. j \in 1 .. n /\ j - 1 \in 0 .. n /\ s \in Nat
        BY <3>1, <3>2
      <3>4. f[j] = NextAddr(a, s)
        BY <1>5, <3>2, <3>3
      <3>5. g[k] = f[j] /\ g[k - 1] = s
        BY <3>1, <3>2
      <3> QED
        BY <3>4, <3>5
    <2>2. 1 \in 1 .. n + 1 /\ g[1] = 0
      BY <1>1, <1>5
    <2>3. \A k \in 1 .. n + 1 : k = 1 \/ k \in 2 .. n + 1
      BY <1>1
    <2>4. g = [k \in 1 .. n + 1 |-> g[k]]
      OBVIOUS
    <2> HIDE DEF g
    <2>5. \A k \in 1 .. n + 1 : g[k] = IF k = 1 THEN 0 ELSE NextAddr(a, g[k - 1])
      BY <2>1, <2>2, <2>3
    <2> QED
      BY <2>4, <2>5
  <1>7. Is(at)
    <2>1. at = CHOOSE x : Is(x)
      BY <1>0 DEF C!Walk, NextAddr
    <2>2. \E x : Is(x)
      BY <1>6
    <2> HIDE DEF Is
    <2> QED
      BY <2>1, <2>2
  <1> HIDE DEF at
  <1>8. \A k \in 1 .. n + 1 : at[k] = IF k = 1 THEN 0 ELSE NextAddr(a, at[k - 1])
    BY <1>7
  <1>9. at[1] = 0 /\ \A k \in 2 .. n + 1 : at[k] = NextAddr(a, at[k - 1])
    <2>1. 1 \in 1 .. n + 1 /\ \A k \in 2 .. n + 1 : k \in 1 .. n + 1 /\ k # 1
      BY <1>1
    <2> QED
      BY <1>8, <2>1
  <1> DEFINE A == {k \in 0 .. n : at[k + 1] \in Nat}
  <1>10. 0 \in A
    BY <1>1, <1>9
  <1>11. ASSUME NEW k \in 1 .. n, k - 1 \in A PROVE k \in A
    <2>1. PICK j : j = k + 1
      OBVIOUS
    <2>2. j \in 2 .. n + 1 /\ j - 1 = k - 1 + 1 /\ k \in 0 .. n
      BY <1>1, <2>1
    <2>3. at[j - 1] \in Nat
      BY <1>11, <2>2
    <2>4. at[j] \in Nat
      BY <1>2, <1>9, <2>2, <2>3
    <2> QED
      BY <2>1, <2>2, <2>4
  <1>12. 0 .. n \subseteq A
    <2> HIDE DEF A
    <2> QED
      BY <1>1, <1>10, <1>11, StepwiseIn
  <1>13. \A k \in 1 .. n + 1 : at[k] \in Nat
    <2>1. \A k \in 1 .. n + 1 : k - 1 \in 0 .. n /\ k - 1 + 1 = k
      BY <1>1
    <2> QED
      BY <1>12, <2>1
  <1> QED
    BY <1>0, <1>9, <1>13 DEF at


\* The walk comes to the header of every record.
LEMMA WalkVisits ==
    ASSUME NEW a, Shaped(a)
    PROVE  \A k \in 1 .. Len(a) + 1 : C!Walk(a)[k] = C!HeaderAt(a)[k]
  <1>0. PICK n, at, walk : n = Len(a) /\ at = C!HeaderAt(a) /\ walk = C!Walk(a)
    OBVIOUS
  <1>1. /\ n \in Nat
        /\ at[1] = 0 /\ walk[1] = 0
        /\ \A k \in 2 .. n + 1 : walk[k] = NextAddr(a, walk[k - 1])
    BY <1>0, HeaderFacts, WalkFacts DEF Shaped
  <1>2. ASSUME NEW k \in 1 .. n PROVE NextAddr(a, at[k]) = at[k + 1]
    <2>1. C!RecordAt(a, at[k]) = k /\ k # 0
      BY <1>0, <1>1, RecordAtFacts
    <2>2. C!Beyond(a, at[k], k) = at[k + 1]
      BY <1>0, BeyondFacts
    <2> QED
      BY <2>1, <2>2 DEF NextAddr
  <1> DEFINE A == {k \in 0 .. n : walk[k + 1] = at[k + 1]}
  <1>3. 0 \in A
    BY <1>1
  <1>4. ASSUME NEW k \in 1 .. n, k - 1 \in A PROVE k \in A
    <2>1. k \in 0 .. n /\ k - 1 + 1 = k /\ k + 1 - 1 = k /\ k + 1 \in 2 .. n + 1
      BY <1>1
    <2>2. walk[k] = at[k]
      BY <1>4, <2>1
    <2>3. walk[k + 1] = NextAddr(a, walk[k])
      BY <1>1, <2>1
    <2> QED
      BY <1>2, <2>1, <2>2, <2>3
  <1>5. 0 .. n \subseteq A
    <2> HIDE DEF A
    <2> QED
      BY <1>1, <1>3, <1>4, StepwiseIn
  <1>6. \A k \in 1 .. n + 1 : k - 1 \in 0 .. n /\ k - 1 + 1 = k
    BY <1>1
  <1> QED
    BY <1>0, <1>5, <1>6

\* The longer of two lengths is as long as either.
LEMMA MaxFacts ==
    ASSUME NEW x \in Nat, NEW y \in Nat
    PROVE  C!Max({x, y}) \in Nat /\ C!Max({x, y}) >= x /\ C!Max({x, y}) >= y
  <1>1. \E m \in {x, y} : \A z \in {x, y} : m >= z
    BY x <= y \/ y <= x
  <1> QED
    BY <1>1 DEF C!Max

\* memcmp over the longer of two names tells whether they are the same.
LEMMA SameFacts ==
    ASSUME NEW x, NEW y, IsString(x), IsString(y)
    PROVE  C!Same(x, y) <=> x = y
  <1>1. /\ x \in Seq(ToSet(x)) /\ y \in Seq(ToSet(y))
        /\ Len(x) \in Nat /\ Len(y) \in Nat
    BY DEF IsString
  <1>2. (\A j \in 1 .. Len(x) : x[j] # C!Nul) /\ (\A j \in 1 .. Len(y) : y[j] # C!Nul)
    <2>1. C!Nul = NUL
      BY DEF C!Nul, NUL
    <2>2. (\A j \in 1 .. Len(x) : x[j] \in ToSet(x)) /\ (\A j \in 1 .. Len(y) : y[j] \in ToSet(y))
      BY <1>1 DEF ToSet
    <2> QED
      BY <2>1, <2>2 DEF IsString
  <1>3. PICK m : m = C!Max({Len(x), Len(y)})
    OBVIOUS
  <1>4. m \in Nat /\ m >= Len(x) /\ m >= Len(y)
    BY <1>1, <1>3, MaxFacts
  <1>5. C!Same(x, y) <=> \A j \in 1 .. m : (IF j <= Len(x) THEN x[j] ELSE C!Nul)
                                             = (IF j <= Len(y) THEN y[j] ELSE C!Nul)
    BY <1>3 DEF C!Same
  <1>6. x = y => C!Same(x, y)
    BY <1>5
  <1>7. ASSUME C!Same(x, y) PROVE x = y
    <2>1. \A j \in 1 .. m : (IF j <= Len(x) THEN x[j] ELSE C!Nul)
                               = (IF j <= Len(y) THEN y[j] ELSE C!Nul)
      BY <1>5, <1>7
    <2>2. Len(x) = Len(y)
      <3>1. CASE Len(x) < Len(y)
        <4>1. Len(x) + 1 \in 1 .. m /\ Len(x) + 1 \in 1 .. Len(y) /\ ~(Len(x) + 1 <= Len(x))
          BY <1>1, <1>4, <3>1
        <4>2. C!Nul = y[Len(x) + 1]
          BY <2>1, <4>1
        <4> QED
          BY <1>2, <4>1, <4>2
      <3>2. CASE Len(y) < Len(x)
        <4>1. Len(y) + 1 \in 1 .. m /\ Len(y) + 1 \in 1 .. Len(x) /\ ~(Len(y) + 1 <= Len(y))
          BY <1>1, <1>4, <3>2
        <4>2. C!Nul = x[Len(y) + 1]
          BY <2>1, <4>1
        <4> QED
          BY <1>2, <4>1, <4>2
      <3> QED
        BY <1>1, <3>1, <3>2
    <2>3. \A j \in 1 .. Len(x) : x[j] = y[j]
      <3>1. \A j \in 1 .. Len(x) : j \in 1 .. m /\ j <= Len(x) /\ j <= Len(y)
        BY <1>1, <1>4, <2>2
      <3> QED
        BY <2>1, <3>1
    <2> QED
      BY <1>1, <2>2, <2>3
  <1> QED
    BY <1>6, <1>7

\* What get_cpio_file and get_cpio_file_len find.
LEMMA LookupFacts ==
    ASSUME NEW a, Shaped(a), NEW name, IsString(name)
    PROVE  LET hits == {k \in DOMAIN a : a[k].name = name}
           IN  /\ hits = {} => C!GetCpioFile(a, name) = C!NotFound
               /\ hits # {} =>
                     /\ C!GetCpioFile(a, name) = C!DataAt(a, Min(hits))
                     /\ C!GetCpioFileLen(a, name) - C!FileSize(a, Min(hits)) \in 0 .. 3
  <1> DEFINE hits == {k \in DOMAIN a : a[k].name = name}
  <1>1. Len(a) \in Nat /\ DOMAIN a = 1 .. Len(a)
    BY DEF Shaped
  <1>2. ASSUME NEW j \in 1 .. Len(a)
        PROVE  C!Walk(a)[j] = C!HeaderAt(a)[j] /\ C!RecordAt(a, C!Walk(a)[j]) = j
    <2>1. j \in 1 .. Len(a) + 1
      BY <1>1
    <2> QED
      BY <2>1, WalkVisits, RecordAtFacts
  <1>3. \A j \in 1 .. Len(a) : C!Same(a[j].name, name) <=> a[j].name = name
    BY SameFacts DEF Shaped, IsName
  <1>4. C!Found(a, name) = hits
    <2>1. \A j \in 1 .. Len(a) : j # 0
      OBVIOUS
    <2> QED
      BY <1>1, <1>2, <1>3, <2>1 DEF C!Found
  <1>5. hits \in SUBSET Nat /\ hits \subseteq 1 .. Len(a)
    BY <1>1
  <1> HIDE DEF hits
  <1>6. CASE hits = {}
    <2>1. C!GetCpioFile(a, name) = C!NotFound
      BY <1>4, <1>6 DEF C!GetCpioFile
    <2> QED
      BY <1>6, <2>1 DEF hits
  <1>7. CASE hits # {}
    <2>1. PICK k : k = Min(hits)
      OBVIOUS
    <2>2. k \in 1 .. Len(a)
      BY <1>5, <1>7, <2>1, MinFacts
    <2>3. C!Min(C!Found(a, name)) = k
      BY <1>4, <2>1, MinSame
    <2>4. C!Walk(a)[k] = C!HeaderAt(a)[k] /\ C!RecordAt(a, C!HeaderAt(a)[k]) = k
      BY <1>2, <2>2
    <2>5. C!GetCpioFile(a, name) = C!HeaderAt(a)[k] + C!Header + C!AlignedName(C!NameSize(a, k))
      <3>0. PICK addrs : addrs = C!Walk(a)
        OBVIOUS
      <3>1. C!GetCpioFile(a, name) =
               C!Walk(a)[k] + C!Header + C!AlignedName(C!NameSize(a, C!RecordAt(a, C!Walk(a)[k])))
        <4>1. C!Found(a, name) # {}
          BY <1>4, <1>7
        <4>2. C!GetCpioFile(a, name) =
                 addrs[C!Min(C!Found(a, name))] + C!Header
                   + C!AlignedName(C!NameSize(a, C!RecordAt(a, addrs[C!Min(C!Found(a, name))])))
          BY <3>0, <4>1 DEF C!GetCpioFile
        <4> QED
          BY <2>3, <3>0, <4>2
      <3> QED
        BY <2>4, <3>1, Zenon
    <2>6. C!GetCpioFileLen(a, name) = C!Aligned(C!FileSize(a, k))
      <3>1. C!GetCpioFileLen(a, name) = C!Aligned(C!FileSize(a, C!RecordAt(a, C!Walk(a)[k])))
        BY <1>4, <1>7, <2>3, Zenon DEF C!GetCpioFileLen
      <3> QED
        BY <2>4, <3>1, Zenon
    <2>7. C!Aligned(C!FileSize(a, k)) - C!FileSize(a, k) \in 0 .. 3
      <3>1. \A x \in Nat : C!Aligned(x) - x \in 0 .. 3
        BY DEF C!Aligned
      <3> QED
        BY <2>2, <3>1, SizeFacts, Zenon
    <2>8. C!HeaderAt(a)[k] + C!Header + C!AlignedName(C!NameSize(a, k)) = C!DataAt(a, k)
      BY <2>2, BeyondFacts
    <2>9. /\ C!GetCpioFile(a, name) = C!DataAt(a, Min(hits))
          /\ C!GetCpioFileLen(a, name) - C!FileSize(a, Min(hits)) \in 0 .. 3
      BY <2>1, <2>5, <2>6, <2>7, <2>8, Zenon
    <2> QED
      BY <1>7, <2>9 DEF hits
  <1> QED
    BY <1>6, <1>7 DEF hits


-----------------------------------------------------------------------------
(* The inductive invariant *)

Cells == Chars \cup {NUL}

Files == [vnode : Nat, f_pos : 0 .. LowSize]

Opened ==
    /\ files \in Seq(Files)
    /\ \A f \in 1 .. Len(files) : files[f].vnode \in 1 .. Len(node)

TreeInv ==
    /\ Tidy(node)
    /\ Opened
    /\ low \in [1 .. LowSize -> Cells]
    /\ wild \in BOOLEAN

\* One character more of the string s: what strtok makes of the names u before it.
TokenStep(u, s, k) ==
    IF s[k] = Slash THEN u
    ELSE IF u = <<>> \/ s[k - 1] = Slash THEN Append(u, <<s[k]>>)
    ELSE [u EXCEPT ![Len(u)] = Append(@, s[k])]

\* The names that can come out of a string of the characters of S.
Pieces(S) == Seq(S) \ {<<>>}

\* A character more makes names of names.
LEMMA TokenStepFacts ==
    ASSUME NEW S, NEW u \in Seq(Pieces(S)), NEW s \in Seq(S), NEW k \in 1 .. Len(s)
    PROVE  TokenStep(u, s, k) \in Seq(Pieces(S))
  <1>1. PICK c : c = s[k] /\ c \in S
    OBVIOUS
  <1>2. ASSUME NEW v \in Seq(S) PROVE Append(v, c) \in Pieces(S)
    <2>1. Append(v, c) \in Seq(S) /\ Len(Append(v, c)) = Len(v) + 1 /\ Len(v) \in Nat
      BY <1>1
    <2>2. Append(v, c) # <<>>
      BY <2>1
    <2> QED
      BY <2>1, <2>2 DEF Pieces
  <1>3. <<c>> \in Pieces(S)
    BY <1>1 DEF Pieces
  <1>4. CASE s[k] = Slash
    BY <1>4 DEF TokenStep
  <1>5. CASE s[k] # Slash /\ (u = <<>> \/ s[k - 1] = Slash)
    <2>1. TokenStep(u, s, k) = Append(u, <<c>>)
      BY <1>1, <1>5 DEF TokenStep
    <2> HIDE DEF Pieces
    <2> QED
      BY <1>3, <2>1
  <1>6. CASE s[k] # Slash /\ ~(u = <<>> \/ s[k - 1] = Slash)
    <2>1. TokenStep(u, s, k) = [u EXCEPT ![Len(u)] = Append(u[Len(u)], c)]
      BY <1>1, <1>6 DEF TokenStep
    <2>2. PICK l : l = Len(u)
      OBVIOUS
    <2>3. l \in 1 .. l /\ l \in Nat /\ u \in [1 .. l -> Pieces(S)]
      BY <1>6, <2>2
    <2>4. Append(u[l], c) \in Pieces(S)
      BY <1>2, <2>3 DEF Pieces
    <2>5. [u EXCEPT ![l] = Append(u[l], c)] \in [1 .. l -> Pieces(S)]
      BY <2>3, <2>4
    <2> QED
      BY <2>1, <2>2, <2>3, <2>5
  <1> QED
    BY <1>4, <1>5, <1>6

\* The names into which strtok cuts a string, after each of its characters.
LEMMA TokensSteps ==
    ASSUME NEW S, NEW s \in Seq(S)
    PROVE  \E f \in [0 .. Len(s) -> Seq(Pieces(S))] :
              /\ f[0] = <<>>
              /\ \A k \in 1 .. Len(s) : f[k] = TokenStep(f[k - 1], s, k)
              /\ Tokens(s) = f[Len(s)]
  <1>0. PICK n, T, z : n = Len(s) /\ T = Seq(Pieces(S)) /\ z = <<>>
    OBVIOUS
  <1> DEFINE Is(f) == f = [k \in 0 .. n |-> IF k = 0 THEN z ELSE TokenStep(f[k - 1], s, k)]
             G == [k \in 1 .. n |-> [u \in T |-> TokenStep(u, s, k)]]
             upto == CHOOSE f : Is(f)
  <1>1. n \in Nat /\ z \in T
    BY <1>0
  <1>2. \A k \in 1 .. n : \A u \in T : TokenStep(u, s, k) \in T
    BY <1>0, TokenStepFacts
  <1>3. G \in [1 .. n -> [T -> T]]
    BY <1>2
  <1>4. \E f \in [0 .. n -> T] : StepsUp(f, z, n, G)
    <2> HIDE DEF G
    <2> QED
      BY <1>1, <1>3, Stepwise
  <1>5. PICK f \in [0 .. n -> T] : f[0] = z /\ \A k \in 1 .. n : f[k] = G[k][f[k - 1]]
    BY <1>4 DEF StepsUp
  <1>6. Is(f)
    <2>1. \A k \in 1 .. n : k - 1 \in 0 .. n /\ k \in 0 .. n /\ k # 0
      BY <1>1
    <2>2. \A k \in 1 .. n : f[k] = TokenStep(f[k - 1], s, k)
      BY <1>5, <2>1
    <2>3. \A k \in 0 .. n : k = 0 \/ k \in 1 .. n
      BY <1>1
    <2> QED
      BY <1>5, <2>2, <2>3
  <1>7. Is(upto)
    <2> HIDE DEF Is
    <2> QED
      BY <1>6
  <1>8. Tokens(s) = upto[n]
    BY <1>0 DEF Tokens, TokenStep
  <1> HIDE DEF upto
  <1>9. \A k \in 0 .. n : upto[k] = IF k = 0 THEN z ELSE TokenStep(upto[k - 1], s, k)
    BY <1>7
  <1>10. upto[0] = z /\ \A k \in 1 .. n : upto[k] = TokenStep(upto[k - 1], s, k)
    <2>1. 0 \in 0 .. n /\ \A k \in 1 .. n : k \in 0 .. n /\ k # 0
      BY <1>1
    <2> QED
      BY <1>9, <2>1
  <1> DEFINE A == {k \in 0 .. n : upto[k] \in T}
  <1>11. 0 \in A
    BY <1>1, <1>10
  <1>12. ASSUME NEW k \in 1 .. n, k - 1 \in A PROVE k \in A
    <2>1. k \in 0 .. n
      BY <1>1
    <2> QED
      BY <1>2, <1>10, <1>12, <2>1
  <1>13. 0 .. n \subseteq A
    <2> HIDE DEF A
    <2> QED
      BY <1>1, <1>11, <1>12, StepwiseIn
  <1>14. upto \in [0 .. n -> T]
    <2>1. DOMAIN upto = 0 .. n /\ upto = [k \in 0 .. n |-> upto[k]]
      BY <1>7
    <2> QED
      BY <1>13, <2>1
  <1> QED
    BY <1>0, <1>8, <1>10, <1>14

\* strtok leaves a name without a slash as it is.
THEOREM NamesWithoutSlash ==
    ASSUME NEW s, IsName(s), Slash \notin ToSet(s)
    PROVE  Tokens(s) = <<s>>
  <1>0. PICK n, S : n = Len(s) /\ S = ToSet(s)
    OBVIOUS
  <1>1. s \in Seq(S) /\ n \in Nat \ {0} /\ \A k \in 1 .. n : s[k] # Slash
    <2>1. s \in Seq(S) /\ s # <<>>
      BY <1>0 DEF IsName, IsString
    <2>2. \A k \in DOMAIN s : s[k] \in ToSet(s)
      BY DEF ToSet
    <2> QED
      BY <1>0, <2>1, <2>2
  <1>2. PICK f : /\ f[0] = <<>>
                 /\ \A k \in 1 .. n : f[k] = TokenStep(f[k - 1], s, k)
                 /\ Tokens(s) = f[n]
    BY <1>0, <1>1, TokensSteps
  <1> DEFINE A == {k \in 0 .. n : k = 0 \/ f[k] = <<SubSeq(s, 1, k)>>}
  <1>3. 0 \in A
    BY <1>1
  <1>4. ASSUME NEW k \in 1 .. n, k - 1 \in A PROVE k \in A
    <2>1. k \in 0 .. n /\ s[k] # Slash /\ s[k] \in S
      BY <1>0, <1>1
    <2>2. CASE k = 1
      <3>0. PICK g, c, p : g = f[k] /\ c = s[k] /\ p = SubSeq(s, 1, 1)
        OBVIOUS
      <3>1. f[k] = <<<<s[1]>>>>
        <4>1. f[k - 1] = <<>>
          BY <1>2, <2>2
        <4>2. g = Append(<<>>, <<c>>)
          BY <1>2, <2>1, <3>0, <4>1 DEF TokenStep
        <4>3. Append(<<>>, <<c>>) = <<<<c>>>>
          OBVIOUS
        <4> QED
          BY <2>2, <3>0, <4>2, <4>3
      <3>2. SubSeq(s, 1, 1) = <<s[1]>>
        <4>1. Len(p) = 1 /\ p[1] = s[1] /\ p \in Seq(S)
          BY <1>0, <1>1, <3>0
        <4>2. p = <<p[1]>>
          BY <4>1
        <4> QED
          BY <3>0, <4>1, <4>2
      <3> QED
        BY <2>1, <2>2, <3>1, <3>2
    <2>3. CASE k # 1
      <3>1. k - 1 \in 1 .. n /\ f[k - 1] = <<SubSeq(s, 1, k - 1)>> /\ s[k - 1] # Slash
        BY <1>1, <1>4, <2>3
      <3>2. PICK p, u, c : p = SubSeq(s, 1, k - 1) /\ u = f[k - 1] /\ c = s[k]
        OBVIOUS
      <3>3. u = <<p>> /\ u # <<>> /\ Len(u) = 1
        BY <3>1, <3>2
      <3>4. f[k] = [u EXCEPT ![Len(u)] = Append(u[Len(u)], c)]
        BY <1>2, <2>1, <3>1, <3>2, <3>3 DEF TokenStep
      <3>5. f[k] = <<Append(p, c)>>
        BY <3>3, <3>4
      <3>6. Append(p, c) = SubSeq(s, 1, k)
        BY <1>0, <1>1, <3>1, <3>2
      <3> QED
        BY <2>1, <3>5, <3>6
    <2> QED
      BY <2>2, <2>3
  <1>5. 0 .. n \subseteq A
    <2> HIDE DEF A
    <2> QED
      BY <1>1, <1>3, <1>4, StepwiseIn
  <1>6. f[n] = <<SubSeq(s, 1, n)>>
    BY <1>1, <1>5
  <1>7. SubSeq(s, 1, n) = s
    BY <1>0, <1>1
  <1> QED
    BY <1>2, <1>6, <1>7

\* A path as a caller or mount_initramfs has it.
IsPath(path) == Len(path) \in Nat \ {0} /\ \A k \in 1 .. Len(path) : path[k] \in Labels

\* The paths that callers use are such.
LEMMA PathFacts == \A path \in Paths : IsPath(path)
  <1> SUFFICES ASSUME NEW path \in Paths PROVE IsPath(path)
    OBVIOUS
  <1>1. path \in Seq(ToSet(path)) /\ path # <<>>
    BY PathsAssumption
  <1>2. Len(path) \in Nat \ {0}
    BY <1>1
  <1>3. ASSUME NEW k \in 1 .. Len(path) PROVE path[k] \in Labels
    <2>1. path[k] \in ToSet(path)
      BY <1>1 DEF ToSet
    <2> QED
      BY <2>1 DEF Labels, InPaths
  <1> QED
    BY <1>2, <1>3 DEF IsPath

\* The path that is opened for a record.
LEMMA RecordPathFacts ==
    ASSUME NEW a \in Archives, NEW k \in DOMAIN a, NEW name, name = a[k].name
    PROVE  /\ IsPath(RecordPath(name)) /\ RecordPath(name)[1] = Dir
           /\ Tokens(name) # <<>> =>
                 /\ Len(RecordPath(name)) > 1
                 /\ RecordPath(name)[2] = Head(Tokens(name))
                 /\ Head(Tokens(name)) # <<>>
  <1>0. PICK t, S : t = Tokens(name) /\ S = ToSet(name)
    OBVIOUS
  <1>1. t \in Seq(Pieces(S))
    <2>1. name \in Seq(S)
      BY <1>0, ArchivesAssumption DEF IsName, IsString
    <2> QED
      BY <1>0, <2>1, TokensSteps
  <1>2. PICK n : n = Len(t) /\ n \in Nat
    BY <1>1
  <1>3. ASSUME NEW i \in 1 .. n PROVE t[i] \in Labels /\ t[i] # <<>>
    <2>1. t[i] \in ToSet(t) /\ t[i] \in Pieces(S)
      BY <1>1, <1>2 DEF ToSet
    <2>2. t[i] \in InArchives
      BY <1>0, <2>1 DEF InArchives
    <2> QED
      BY <2>1, <2>2 DEF Labels, Pieces
  <1>4. PICK d, p : d = Dir /\ p = <<d>> \o t /\ d \in Labels /\ p = RecordPath(name)
    BY <1>0 DEF Labels, RecordPath
  <1>5. Len(p) = n + 1 /\ p[1] = d /\ \A i \in 2 .. n + 1 : p[i] = t[i - 1]
    <2> HIDE DEF Pieces
    <2> QED
      BY <1>1, <1>2, <1>4
  <1>6. IsPath(p)
    <2> SUFFICES ASSUME NEW i \in 1 .. n + 1 PROVE p[i] \in Labels
      BY <1>2, <1>5 DEF IsPath
    <2>1. CASE i = 1
      BY <1>4, <1>5, <2>1
    <2>2. CASE i # 1
      <3>1. i \in 2 .. n + 1 /\ i - 1 \in 1 .. n
        BY <1>2, <2>2
      <3> QED
        BY <1>3, <1>5, <3>1
    <2> QED
      BY <2>1, <2>2
  <1>7. ASSUME t # <<>> PROVE Len(p) > 1 /\ p[2] = Head(t) /\ Head(t) # <<>>
    <2>1. 1 \in 1 .. n /\ 2 \in 2 .. n + 1 /\ 2 - 1 = 1 /\ Head(t) = t[1]
      BY <1>1, <1>2, <1>7
    <2> QED
      BY <1>2, <1>3, <1>5, <2>1
  <1> QED
    BY <1>0, <1>4, <1>5, <1>6, <1>7

\* The string at address 0.
LEMMA LowFacts ==
    ASSUME low \in [1 .. LowSize -> Cells]
    PROVE  LowString \in Labels
  <1> DEFINE ends == {a \in 1 .. LowSize : low[a] = NUL} \cup {LowSize + 1}
  <1>1. LowSize \in Nat
    BY LowSizeAssumption
  <1>2. low \in Seq(Cells) /\ Len(low) = LowSize
    BY <1>1
  <1>3. ends \in SUBSET Nat /\ ends \subseteq 1 .. LowSize + 1 /\ ends # {}
    BY <1>1
  <1>4. LowString = SubSeq(low, 1, Min(ends) - 1)
    BY DEF LowString
  <1> HIDE DEF ends
  <1>5. PICK m : m = Min(ends)
    OBVIOUS
  <1>6. m \in 1 .. LowSize + 1
    BY <1>3, <1>5, MinFacts
  <1>7. m - 1 \in 0 .. Len(low)
    BY <1>1, <1>2, <1>6
  <1>8. SubSeq(low, 1, m - 1) \in Seq(Cells)
    <2>1. \A i \in 1 .. m - 1 : low[i] \in Cells
      BY <1>1, <1>6
    <2> QED
      BY <1>2, <1>7, <2>1
  <1> QED
    BY <1>4, <1>5, <1>8 DEF Labels, Cells

\* A longer table does no harm to the opened files.
LEMMA OpenedStays ==
    ASSUME TreeInv, Tidy(node'), Grows(node, node'), files' = files
    PROVE  Opened'
  <1>1. Len(node) \in Nat /\ Len(node') \in Nat /\ Len(node) <= Len(node')
    BY DEF TreeInv, Tidy, Typed, Grows
  <1>2. \A f \in 1 .. Len(files) : files[f].vnode \in 1 .. Len(node')
    BY <1>1 DEF TreeInv, Opened
  <1> QED
    BY <1>2 DEF TreeInv, Opened

\* vfs_mkdir makes an entry in a directory that it has come to, or nothing.
LEMMA VfsMkdirFacts ==
    ASSUME TreeInv, NEW path, IsPath(path), VfsMkdir(path)
    PROVE  \E dir \in 1 .. Len(node), name \in Labels : node' = Made(node, dir, name, "directory")
  <1> DEFINE missing == {k \in 1 .. Len(path) : Reach(path)[k] = NoNode}
  <1>1. node' = IF missing = {}
                THEN Made(node, Reach(path)[Len(path)], LowString, "directory")
                ELSE Made(node, MkdirParent(path, Min(missing)), path[Min(missing)], "directory")
    BY DEF VfsMkdir
  <1>2. Len(path) \in Nat /\ Len(path) # 0 /\ Len(node) \in Nat /\ Len(node) >= 1
    BY DEF IsPath, TreeInv, Tidy, Typed
  <1>3. Reach(path)[0] = Root /\ \A k \in 0 .. Len(path) : Reach(path)[k] \in 0 .. Len(node)
    BY <1>2, ReachFacts DEF TreeInv
  <1>4. ASSUME NEW k \in 0 .. Len(path), k \notin missing PROVE Reach(path)[k] \in 1 .. Len(node)
    <2>1. CASE k = 0
      BY <1>2, <1>3, <2>1 DEF Root
    <2>2. CASE k # 0
      BY <1>2, <1>3, <1>4, <2>2 DEF NoNode
    <2> QED
      BY <2>1, <2>2
  <1>5. missing \in SUBSET Nat /\ missing \subseteq 1 .. Len(path)
    BY <1>2
  <1> HIDE DEF missing
  <1>6. CASE missing = {}
    <2>1. Reach(path)[Len(path)] \in 1 .. Len(node)
      BY <1>2, <1>4, <1>6
    <2>2. LowString \in Labels
      BY LowFacts DEF TreeInv
    <2> QED
      BY <1>1, <1>6, <2>1, <2>2
  <1>7. CASE missing # {}
    <2>1. PICK m : m = Min(missing)
      OBVIOUS
    <2>2. m \in missing /\ \A k \in missing : m <= k
      BY <1>5, <1>7, <2>1, MinFacts
    <2>3. m \in 1 .. Len(path)
      BY <1>5, <2>2
    <2>4. m - 1 \in 0 .. Len(path) /\ m - 1 \notin missing
      <3>1. m \in Nat /\ m - 1 \in 0 .. Len(path) /\ ~(m <= m - 1)
        BY <1>2, <2>3
      <3> QED
        BY <2>2, <3>1
    <2>5. MkdirParent(path, m) \in 1 .. Len(node)
      BY <1>4, <2>4 DEF MkdirParent
    <2>6. path[m] \in Labels
      BY <2>3 DEF IsPath
    <2>7. node' = Made(node, MkdirParent(path, m), path[m], "directory")
      BY <1>1, <1>7, <2>1
    <2> QED
      BY <2>5, <2>6, <2>7
  <1> QED
    BY <1>6, <1>7

\* vfs_mkdir keeps the tree and what is in it.
LEMMA VfsMkdirStep ==
    ASSUME TreeInv, NEW path, IsPath(path), VfsMkdir(path)
    PROVE  TreeInv' /\ Grows(node, node')
  <1>1. PICK dir \in 1 .. Len(node), name \in Labels : node' = Made(node, dir, name, "directory")
    BY VfsMkdirFacts
  <1>2. Tidy(node') /\ Grows(node, node')
    BY <1>1, MadeFacts DEF TreeInv, Types
  <1>3. UNCHANGED <<files, low, wild>>
    BY DEF VfsMkdir
  <1>4. Opened'
    BY <1>2, <1>3, OpenedStays
  <1> QED
    BY <1>2, <1>3, <1>4 DEF TreeInv

\* The end of the walk of vfs_open.
LEMMA OpenWalkFacts ==
    ASSUME Tidy(node), NEW creat \in BOOLEAN, NEW path, IsPath(path)
    PROVE  OpenWalk(path, creat) \in States(creat)
  <1>1. Len(path) \in Nat /\ Len(path) \in 0 .. Len(path)
    BY DEF IsPath
  <1> QED
    BY <1>1, OpenStepsFacts DEF OpenWalk, IsPath

\* What the states of the walk say of the table.
LEMMA StatesFacts ==
    ASSUME NEW creat, NEW s \in States(creat)
    PROVE  /\ Tidy(s.table) /\ Grows(node, s.table)
           /\ s.at \in 0 .. Len(s.table)
           /\ s.at # NoNode => s.at \in 1 .. Len(s.table)
  <1>1. Tidy(s.table) /\ Grows(node, s.table) /\ s.at \in 0 .. Len(s.table)
    BY DEF States
  <1>2. Len(s.table) \in Nat
    BY <1>1 DEF Tidy, Typed
  <1> QED
    BY <1>1, <1>2 DEF NoNode

\* vfs_open keeps the tree and what is in it.
LEMMA VfsOpenStep ==
    ASSUME TreeInv, NEW path, IsPath(path), NEW creat \in BOOLEAN, VfsOpen(path, creat)
    PROVE  TreeInv' /\ Grows(node, node')
  <1>1. PICK end : end = OpenWalk(path, creat)
    OBVIOUS
  <1>2. /\ Tidy(end.table) /\ Grows(node, end.table)
        /\ end.at # NoNode => end.at \in 1 .. Len(end.table)
    BY <1>1, OpenWalkFacts, StatesFacts DEF TreeInv
  <1>3. /\ node' = end.table
        /\ wild' = (end.at = NoNode)
        /\ files' = IF end.at = NoNode THEN files
                    ELSE Append(files, [vnode |-> end.at, f_pos |-> 0])
        /\ low' = low
    BY <1>1 DEF VfsOpen
  <1>4. Tidy(node') /\ Grows(node, node')
    BY <1>2, <1>3
  <1>5. Opened'
    <2>1. CASE end.at = NoNode
      BY <1>3, <1>4, <2>1, OpenedStays
    <2>2. CASE end.at # NoNode
      <3>1. PICK e : e = [vnode |-> end.at, f_pos |-> 0]
        OBVIOUS
      <3>2. PICK v : v = end.at
        OBVIOUS
      <3>3. v \in 1 .. Len(node') /\ Len(node') \in Nat /\ Len(node) \in Nat /\ Len(node) <= Len(node')
        BY <1>2, <1>3, <1>4, <2>2, <3>2 DEF Tidy, Typed, Grows, TreeInv
      <3>4. e \in Files /\ e.vnode = v
        BY <3>1, <3>2, <3>3, LowSizeAssumption DEF Files
      <3>5. files' = Append(files, e)
        BY <1>3, <2>2, <3>1
      <3>6. files \in Seq(Files)
        BY DEF TreeInv, Opened
      <3>7. /\ files' \in Seq(Files)
            /\ Len(files') = Len(files) + 1 /\ Len(files) \in Nat
            /\ files'[Len(files) + 1] = e
            /\ \A f \in 1 .. Len(files) : files'[f] = files[f]
        BY <3>4, <3>5, <3>6
      <3>8. ASSUME NEW f \in 1 .. Len(files') PROVE files'[f].vnode \in 1 .. Len(node')
        <4>1. CASE f = Len(files) + 1
          BY <3>3, <3>4, <3>7, <4>1
        <4>2. CASE f # Len(files) + 1
          <5>1. f \in 1 .. Len(files)
            BY <3>7, <4>2
          <5>2. files[f].vnode \in 1 .. Len(node)
            BY <5>1 DEF TreeInv, Opened
          <5> QED
            BY <3>3, <3>7, <5>1, <5>2
        <4> QED
          BY <4>1, <4>2
      <3> QED
        BY <3>7, <3>8 DEF Opened
    <2> QED
      BY <2>1, <2>2
  <1> QED
    BY <1>3, <1>4, <1>5 DEF TreeInv

\* A write stays in the memory that is looked at.
LEMMA WrittenFacts ==
    ASSUME low \in [1 .. LowSize -> Cells], NEW start \in Nat, NEW text \in Seq(Cells)
    PROVE  Written(start, text) \in [1 .. LowSize -> Cells]
  <1>1. LowSize \in Nat /\ Len(text) \in Nat
    BY LowSizeAssumption
  <1>2. ASSUME NEW a \in 1 .. LowSize
        PROVE  (IF a \in start + 1 .. start + Len(text) THEN text[a - start]
                ELSE IF a = start + Len(text) + 1 THEN NUL ELSE low[a]) \in Cells
    <2>1. CASE a \in start + 1 .. start + Len(text)
      <3>1. a - start \in 1 .. Len(text)
        BY <1>1, <2>1
      <3>2. text[a - start] \in Cells
        BY <3>1
      <3> QED
        BY <2>1, <3>2
    <2>2. CASE a \notin start + 1 .. start + Len(text)
      BY <2>2 DEF Cells
    <2> QED
      BY <2>1, <2>2
  <1> QED
    BY <1>2 DEF Written

\* An opened file, with its vnode.
LEMMA FileFacts ==
    ASSUME TreeInv, NEW f \in DOMAIN files
    PROVE  /\ f \in 1 .. Len(files)
           /\ files[f] \in Files
           /\ files[f].vnode \in 1 .. Len(node) /\ files[f].vnode \in Nat
           /\ files[f].f_pos \in 0 .. LowSize /\ files[f].f_pos \in Nat
           /\ node[files[f].vnode].data = 0
  <1>1. f \in 1 .. Len(files) /\ files \in Seq(Files)
    BY DEF TreeInv, Opened
  <1>2. files[f] \in Files
    BY <1>1
  <1>3. PICK v, p : v = files[f].vnode /\ p = files[f].f_pos
    OBVIOUS
  <1>4. v \in Nat /\ p \in 0 .. LowSize
    BY <1>2, <1>3 DEF Files
  <1>5. v \in 1 .. Len(node)
    BY <1>1, <1>3 DEF TreeInv, Opened
  <1>6. p \in Nat
    BY <1>4, LowSizeAssumption
  <1>7. node[v] \in Vnodes
    BY <1>5 DEF TreeInv, Tidy, Typed
  <1>8. node[v].data = 0
    BY <1>7 DEF Vnodes, NULL
  <1> QED
    BY <1>1, <1>2, <1>3, <1>4, <1>5, <1>6, <1>8

\* A file whose position moves stays within the memory that is looked at.
LEMMA FileMoves ==
    ASSUME TreeInv, NEW f \in DOMAIN files, NEW n \in Nat, files[f].f_pos + n <= LowSize,
           files' = [files EXCEPT ![f].f_pos = @ + n], node' = node
    PROVE  Opened'
  <1>1. PICK v, p, q : v = files[f].vnode /\ p = files[f].f_pos /\ q = p + n
    OBVIOUS
  <1>2. f \in 1 .. Len(files) /\ files \in Seq(Files)
    BY DEF TreeInv, Opened
  <1>3. files[f] \in Files
    BY <1>2
  <1>4. v \in 1 .. Len(node) /\ v \in Nat /\ p \in 0 .. LowSize /\ p \in Nat /\ LowSize \in Nat
    BY <1>1, FileFacts, LowSizeAssumption
  <1>5. q \in 0 .. LowSize
    BY <1>1, <1>4
  <1>6. PICK e : e = [vnode |-> v, f_pos |-> q]
    OBVIOUS
  <1>7. e \in Files /\ e.vnode = v
    BY <1>4, <1>5, <1>6 DEF Files
  <1>8. files' = [files EXCEPT ![f] = [files[f] EXCEPT !.f_pos = q]]
    BY <1>1
  <1>9. [files[f] EXCEPT !.f_pos = q] = e
    BY <1>1, <1>3, <1>6 DEF Files
  <1>10. files' = [files EXCEPT ![f] = e]
    BY <1>8, <1>9
  <1>11. /\ files' \in Seq(Files)
         /\ Len(files') = Len(files)
         /\ \A g \in 1 .. Len(files) : files'[g] = IF g = f THEN e ELSE files[g]
    BY <1>2, <1>7, <1>10
  <1>12. \A g \in 1 .. Len(files') : files'[g].vnode = files[g].vnode
    BY <1>1, <1>7, <1>11
  <1> QED
    BY <1>11, <1>12 DEF TreeInv, Opened

\* vfs_write keeps the tree.
LEMMA VfsWriteStep ==
    ASSUME TreeInv, NEW f \in DOMAIN files, NEW text \in Texts, VfsWrite(f, text)
    PROVE  TreeInv' /\ Grows(node, node')
  <1>1. PICK n, v, p : n = Len(text) /\ v = files[f].vnode /\ p = files[f].f_pos
    OBVIOUS
  <1>2. text \in Seq(Chars) /\ text \in Seq(Cells) /\ n \in Nat
    BY <1>1, TextsAssumption DEF Cells
  <1>4. p \in Nat /\ LowSize \in Nat
    BY <1>1, FileFacts, LowSizeAssumption
  <1>5. node[v].data = 0
    BY <1>1, FileFacts
  <1>6. PICK start : start = node[v].data + p
    OBVIOUS
  <1>7. start = p /\ start \in Nat
    BY <1>4, <1>5, <1>6
  <1>8. /\ start + n < LowSize
        /\ low' = Written(start, text)
        /\ files' = [files EXCEPT ![f].f_pos = @ + n]
        /\ UNCHANGED <<node, wild>>
    BY <1>1, <1>6 DEF VfsWrite
  <1>9. low' \in [1 .. LowSize -> Cells]
    BY <1>2, <1>7, <1>8, WrittenFacts DEF TreeInv
  <1>10. files[f].f_pos + n <= LowSize
    BY <1>1, <1>2, <1>4, <1>7, <1>8
  <1>11. Opened'
    BY <1>2, <1>8, <1>10, FileMoves
  <1>12. Grows(node, node')
    BY <1>8, GrowsItself DEF TreeInv, Tidy, Typed
  <1> QED
    BY <1>8, <1>9, <1>11, <1>12 DEF TreeInv

\* vfs_read keeps the tree.
LEMMA VfsReadStep ==
    ASSUME TreeInv, NEW f \in DOMAIN files, NEW len \in Nat, VfsRead(f, len)
    PROVE  TreeInv' /\ Grows(node, node')
  <1>1. PICK p : p = files[f].f_pos
    OBVIOUS
  <1>3. p \in Nat /\ LowSize \in Nat
    BY <1>1, FileFacts, LowSizeAssumption
  <1>4. /\ p + len < LowSize
        /\ files' = [files EXCEPT ![f].f_pos = @ + len]
        /\ UNCHANGED <<node, low, wild>>
    BY <1>1 DEF VfsRead
  <1>5. files[f].f_pos + len <= LowSize
    BY <1>1, <1>3, <1>4
  <1>6. Opened'
    BY <1>4, <1>5, FileMoves
  <1>7. Grows(node, node')
    BY <1>4, GrowsItself DEF TreeInv, Tidy, Typed
  <1> QED
    BY <1>4, <1>6, <1>7 DEF TreeInv

\* The calls of the file system keep the invariant and take nothing away.
LEMMA NextStep ==
    ASSUME TreeInv, Next
    PROVE  TreeInv' /\ Grows(node, node')
  <1>1. CASE \E path \in Paths : VfsMkdir(path)
    BY <1>1, VfsMkdirStep, PathFacts
  <1>2. CASE \E path \in Paths, creat \in BOOLEAN : VfsOpen(path, creat)
    BY <1>2, VfsOpenStep, PathFacts
  <1>3. CASE \E f \in DOMAIN files, text \in Texts : VfsWrite(f, text)
    BY <1>3, VfsWriteStep
  <1>4. CASE \E f \in DOMAIN files, text \in Texts : VfsRead(f, Len(text))
    <2>1. \A text \in Texts : Len(text) \in Nat
      BY TextsAssumption
    <2> QED
      BY <1>4, <2>1, VfsReadStep
  <1>5. CASE \E f \in DOMAIN files : UseDirectory(f)
    <2>1. wild' = TRUE /\ UNCHANGED <<node, files, low>>
      BY <1>5 DEF UseDirectory
    <2>2. Tidy(node)' /\ Grows(node, node')
      BY <2>1, GrowsItself DEF TreeInv, Tidy, Typed
    <2>3. Opened'
      BY <2>1, <2>2, OpenedStays
    <2> QED
      BY <2>1, <2>2, <2>3 DEF TreeInv
  <1> QED
    BY <1>1, <1>2, <1>3, <1>4, <1>5 DEF Next

\* init_tmpfs makes a tree of the root alone.
LEMMA InitTree == Init => TreeInv
  <1> SUFFICES ASSUME Init PROVE TreeInv
    OBVIOUS
  <1>1. PICK r : r = NewNode("directory")
    OBVIOUS
  <1>2. r \in Vnodes /\ r.type = "directory" /\ r.entry = <<>>
    BY <1>1 DEF NewNode, Vnodes, Types
  <1>3. node = <<r>> /\ files = <<>> /\ low \in [1 .. LowSize -> Cells] /\ wild = FALSE
    BY <1>1 DEF Init, Cells
  <1>4. node \in Seq(Vnodes) /\ Len(node) = 1 /\ node[1] = r
    BY <1>2, <1>3
  <1>5. Typed(node)
    BY <1>2, <1>4, EntriesAssumption DEF Typed, Root
  <1>6. \A n, i : ~Link(node, n, i)
    BY <1>2, <1>4 DEF Link
  <1>7. Tidy(node)
    BY <1>4, <1>5, <1>6 DEF Tidy, Forward, Unique, Reached, Once
  <1>8. Opened
    BY <1>3 DEF Opened
  <1> QED
    BY <1>3, <1>7, <1>8 DEF TreeInv

-----------------------------------------------------------------------------
(* The mount *)

\* The walk of mount_initramfs has come to record k, and the first names of the ones
\* before it are in the directory, when that has still room.
Room(t) ==
    LET d == Child(t, Root, Dir)
    IN  d # NoNode /\ t[d].type = "directory" /\ Len(t[d].entry) < Entries
There(t, name) == Below(t, Child(t, Root, Dir), name) # NoNode
Mounted(t, name) == Tokens(name) # <<>> => There(t, Head(Tokens(name)))
Copied(k) == Room(node) => \A j \in 1 .. k - 1 : Mounted(node, archive[j].name)

MountInv ==
    \/ addr = Idle
    \/ \E k \in 1 .. Len(archive) + 1 : addr = C!HeaderAt(archive)[k] /\ Copied(k)

IInv == TreeInv /\ archive \in Archives /\ MountInv

\* Where paths of one and of two names lead.
LEMMA ShortTrails ==
    ASSUME NEW t, Tidy(t), NEW x, NEW y
    PROVE  /\ Trail(t, <<x>>)[Len(<<x>>)] = Child(t, Root, x)
           /\ Trail(t, <<x, y>>)[Len(<<x, y>>)] = Below(t, Child(t, Root, x), y)
  <1>1. PICK p, q : p = <<x>> /\ q = <<x, y>>
    OBVIOUS
  <1>2. Len(p) = 1 /\ p[1] = x /\ Len(q) = 2 /\ q[1] = x /\ q[2] = y
    BY <1>1
  <1>3. Trail(t, p)[0] = Root /\ Trail(t, p)[1] = Below(t, Trail(t, p)[0], x)
    <2>1. 1 \in 1 .. 1 /\ 1 - 1 = 0
      OBVIOUS
    <2> QED
      BY <1>2, <2>1, TrailFacts
  <1>4. /\ Trail(t, q)[0] = Root /\ Trail(t, q)[1] = Below(t, Trail(t, q)[0], x)
        /\ Trail(t, q)[2] = Below(t, Trail(t, q)[1], y)
    <2>1. 1 \in 1 .. 2 /\ 1 - 1 = 0 /\ 2 \in 1 .. 2 /\ 2 - 1 = 1
      OBVIOUS
    <2> QED
      BY <1>2, <2>1, TrailFacts
  <1>5. Below(t, Root, x) = Child(t, Root, x)
    BY DEF Below, Root, NoNode, Tidy, Typed
  <1> QED
    BY <1>1, <1>2, <1>3, <1>4, <1>5

\* An entry stays, so a directory never has fewer.
LEMMA EntriesGrow ==
    ASSUME NEW t, NEW u, Typed(t), Typed(u), Grows(t, u), NEW n \in 1 .. Len(t)
    PROVE  Len(t[n].entry) \in Nat /\ Len(u[n].entry) \in Nat /\ Len(t[n].entry) <= Len(u[n].entry)
  <1>1. n \in 1 .. Len(u)
    BY DEF Typed, Grows
  <1>2. t[n] \in Vnodes /\ u[n] \in Vnodes
    BY <1>1 DEF Typed
  <1>3. Len(t[n].entry) \in Nat /\ Len(u[n].entry) \in Nat
    BY <1>2 DEF Vnodes
  <1>4. CASE Len(t[n].entry) = 0
    BY <1>3, <1>4
  <1>5. CASE Len(t[n].entry) # 0
    <2>1. Link(t, n, Len(t[n].entry))
      BY <1>3, <1>5 DEF Link
    <2>2. Link(u, n, Len(t[n].entry))
      BY <2>1 DEF Grows
    <2> QED
      BY <1>3, <2>2 DEF Link
  <1> QED
    BY <1>4, <1>5

\* HasRoom and Resolve for the directory of the archive.
LEMMA RoomFacts ==
    ASSUME Tidy(node)
    PROVE  /\ HasRoom(<<Dir>>) <=> Room(node)
           /\ \A x : Resolve(<<Dir, x>>) # NoNode <=> There(node, x)
  BY ShortTrails DEF HasRoom, Resolve, Room, There

\* What is in the directory of the archive stays there.
LEMMA ThereStays ==
    ASSUME NEW t, NEW u, Tidy(t), Tidy(u), Grows(t, u), NEW x, There(t, x)
    PROVE  There(u, x)
  <1>1. PICK path : path = <<Dir, x>>
    OBVIOUS
  <1>2. Len(path) \in Nat /\ Len(path) \in 0 .. Len(path)
    BY <1>1
  <1>3. Trail(t, path)[Len(path)] # NoNode
    BY <1>1, ShortTrails DEF There
  <1>4. Trail(u, path)[Len(path)] = Trail(t, path)[Len(path)]
    BY <1>2, <1>3, TrailStays
  <1> QED
    BY <1>1, <1>3, <1>4, ShortTrails DEF There

\* A directory that has room had room before, when it was there.
LEMMA RoomBefore ==
    ASSUME NEW t, NEW u, Tidy(t), Tidy(u), Grows(t, u), Room(u),
           Child(t, Root, Dir) = Child(u, Root, Dir)
    PROVE  Room(t)
  <1>1. PICK d : d = Child(u, Root, Dir)
    OBVIOUS
  <1>2. d # NoNode /\ u[d].type = "directory" /\ Len(u[d].entry) < Entries /\ d = Child(t, Root, Dir)
    BY <1>1 DEF Room
  <1>3. Root \in 1 .. Len(t) /\ Len(t) \in Nat
    BY DEF Tidy, Typed, Root
  <1>4. d \in 1 .. Len(t)
    <2>1. d \in Root + 1 .. Len(t)
      BY <1>2, <1>3, ChildFacts DEF Tidy
    <2> QED
      BY <1>3, <2>1 DEF Root
  <1>5. t[d].type = "directory"
    BY <1>2, <1>4 DEF Grows
  <1>6. PICK p, q : p = Len(t[d].entry) /\ q = Len(u[d].entry)
    OBVIOUS
  <1>7. p \in Nat /\ q \in Nat /\ p <= q /\ q < Entries
    BY <1>2, <1>4, <1>6, EntriesGrow DEF Tidy
  <1>8. p < Entries
    BY <1>7, EntriesAssumption
  <1> QED
    BY <1>2, <1>5, <1>6, <1>8 DEF Room

\* The table of the walk of vfs_open only grows.
LEMMA OpenStepsGrow ==
    ASSUME Tidy(node), NEW creat \in BOOLEAN, NEW path, IsPath(path), NEW i \in 0 .. Len(path)
    PROVE  Grows(OpenSteps(path, creat)[i].table, OpenWalk(path, creat).table)
  <1>0. PICK n, g : n = Len(path) /\ g = OpenSteps(path, creat)
    OBVIOUS
  <1>1. n \in Nat /\ i \in 0 .. n /\ \A k \in 1 .. n : path[k] \in Labels
    BY <1>0 DEF IsPath
  <1>2. /\ \A k \in 1 .. n : g[k] = OpenStep(g[k - 1], path[k])
        /\ \A k \in 0 .. n : g[k] \in States(creat)
    BY <1>0, <1>1, OpenStepsFacts
  <1>3. \A k \in 0 .. n : Tidy(g[k].table) /\ Grows(g[k].table, g[k].table)
    <2> SUFFICES ASSUME NEW k \in 0 .. n PROVE Tidy(g[k].table) /\ Grows(g[k].table, g[k].table)
      OBVIOUS
    <2>1. Tidy(g[k].table)
      BY <1>2, StatesFacts
    <2> QED
      BY <2>1, GrowsItself DEF Tidy, Typed
  <1>4. \A k \in 1 .. n : Grows(g[k - 1].table, g[k].table)
    <2> SUFFICES ASSUME NEW k \in 1 .. n PROVE Grows(g[k - 1].table, g[k].table)
      OBVIOUS
    <2>1. k - 1 \in 0 .. n
      BY <1>1
    <2>2. PICK s, name : s = g[k - 1] /\ name = path[k]
      OBVIOUS
    <2>3. s \in States(creat) /\ name \in Labels /\ g[k] = OpenStep(s, name)
      BY <1>1, <1>2, <2>1, <2>2
    <2> QED
      BY <2>2, <2>3, OpenStepFacts
  <1> DEFINE A == {k \in 0 .. n : k < i \/ Grows(g[i].table, g[k].table)}
  <1>5. 0 \in A
    BY <1>1, <1>3
  <1>6. ASSUME NEW k \in 1 .. n, k - 1 \in A PROVE k \in A
    <2>1. k \in 0 .. n /\ k - 1 \in 0 .. n /\ (k < i \/ k = i \/ ~(k - 1 < i))
      BY <1>1
    <2>2. ASSUME Grows(g[i].table, g[k - 1].table) PROVE Grows(g[i].table, g[k].table)
      <3>1. PICK t, v, w : t = g[i].table /\ v = g[k - 1].table /\ w = g[k].table
        OBVIOUS
      <3>2. Typed(t) /\ Typed(v) /\ Typed(w) /\ Grows(t, v) /\ Grows(v, w)
        BY <1>1, <1>3, <1>4, <2>1, <2>2, <3>1 DEF Tidy
      <3> QED
        BY <3>1, <3>2, GrowsFurther
    <2> QED
      BY <1>3, <1>6, <2>1, <2>2
  <1>7. 0 .. n \subseteq A
    <2> HIDE DEF A
    <2> QED
      BY <1>1, <1>5, <1>6, StepwiseIn
  <1>8. n \in 0 .. n /\ ~(n < i)
    BY <1>1
  <1> QED
    BY <1>0, <1>7, <1>8 DEF OpenWalk

\* One component of vfs_open where the name is looked for in a directory.
LEMMA OpenStepAt ==
    ASSUME NEW creat \in BOOLEAN, NEW z \in States(creat), NEW t, NEW dir, NEW name \in Labels,
           z.table = t, z.at = dir, dir # NoNode, t[dir].type # "file"
    PROVE  LET s == OpenStep(z, name)
               u == Made(t, dir, name, "file")
           IN  /\ Child(t, dir, name) # NoNode => s.table = t /\ s.at = Child(t, dir, name)
               /\ (Child(t, dir, name) = NoNode /\ creat /\ u # t) =>
                     s.table = u /\ s.at = Len(u)
               /\ (Child(t, dir, name) = NoNode /\ ~(creat /\ u # t)) =>
                     s.table = t /\ s.at = IF dir = Root THEN NoNode ELSE dir
  <1>0. PICK s, u : s = OpenStep(z, name) /\ u = Made(t, dir, name, "file")
    OBVIOUS
  <1>1. z.table = t /\ z.at = dir /\ z.creat = creat
    BY DEF States
  <1>2. z \in [table : Seq(Vnodes), at : Nat, creat : {creat}]
    BY DEF States
  <1>3. CASE Child(t, dir, name) # NoNode
    <2>1. s = [z EXCEPT !.at = Child(t, dir, name)]
      BY <1>0, <1>1, <1>3 DEF OpenStep
    <2>2. s.table = t /\ s.at = Child(t, dir, name)
      BY <1>1, <1>2, <2>1
    <2> QED
      BY <1>0, <1>3, <2>2
  <1>4. CASE Child(t, dir, name) = NoNode
    <2>1. PICK made, at : /\ made = IF z.creat THEN Made(z.table, z.at, name, "file") ELSE z.table
                          /\ at = IF made # z.table THEN Len(made)
                                  ELSE IF z.at = Root THEN NoNode ELSE z.at
      OBVIOUS
    <2>2. s = [z EXCEPT !.table = made, !.at = at]
      BY <1>0, <1>1, <1>4, <2>1 DEF OpenStep
    <2>3. s.table = made /\ s.at = at
      BY <1>2, <2>2
    <2>4. CASE creat /\ u # t
      <3>1. made = u /\ at = Len(u)
        BY <1>0, <1>1, <2>1, <2>4, Zenon
      <3> QED
        BY <1>0, <1>4, <2>3, <2>4, <3>1
    <2>5. CASE ~(creat /\ u # t)
      <3>1. made = t /\ at = IF dir = Root THEN NoNode ELSE dir
        BY <1>0, <1>1, <2>1, <2>5, Zenon
      <3> QED
        BY <1>0, <1>4, <2>3, <2>5, <3>1
    <2> QED
      BY <2>4, <2>5
  <1> QED
    BY <1>3, <1>4

\* One component of vfs_open where the walk cannot go on.
LEMMA OpenStepStays ==
    ASSUME NEW s, NEW name, s.at = NoNode \/ s.table[s.at].type = "file"
    PROVE  OpenStep(s, name) = s
  BY DEF OpenStep

\* What tmpfs_create makes of a table that it changes, and when it does.
LEMMA CreateFacts ==
    ASSUME NEW t, Tidy(t), NEW dir \in 1 .. Len(t), NEW name \in Labels, NEW u,
           u = Made(t, dir, name, "file")
    PROVE  /\ Tidy(u) /\ Grows(t, u)
           /\ u # t => /\ Len(u) = Len(t) + 1
                       /\ Child(u, dir, name) = Len(u)
                       /\ u[Len(u)].type = "file"
           /\ \/ u # t
              \/ t[dir].type = "file" \/ name = <<>>
              \/ Child(t, dir, name) # NoNode \/ Len(t[dir].entry) = Entries
  <1>1. "file" \in Types /\ NewNode("file").type = "file"
    BY DEF Types, NewNode
  <1>2. /\ Tidy(Made(t, dir, name, "file"))
        /\ Grows(t, Made(t, dir, name, "file"))
        /\ \/ /\ Made(t, dir, name, "file") = t
              /\ \/ t[dir].type = "file"
                 \/ name = <<>>
                 \/ Child(t, dir, name) # NoNode
                 \/ Len(t[dir].entry) = Entries
           \/ /\ Len(Made(t, dir, name, "file")) = Len(t) + 1
              /\ Made(t, dir, name, "file") # t
              /\ t[dir].type # "file"
              /\ Child(Made(t, dir, name, "file"), dir, name) = Len(Made(t, dir, name, "file"))
              /\ Made(t, dir, name, "file")[Len(Made(t, dir, name, "file"))] = NewNode("file")
    BY <1>1, MadeFacts
  <1> QED
    BY <1>1, <1>2

\* What one component with O_CREAT does to the table t at the vnode dir.
Creates(t, dir, name, s) ==
    LET u == Made(t, dir, name, "file")
    IN  /\ Child(t, dir, name) # NoNode => s.table = t /\ s.at = Child(t, dir, name)
        /\ (Child(t, dir, name) = NoNode /\ u # t) => s.table = u /\ s.at = Len(u)
        /\ (Child(t, dir, name) = NoNode /\ u = t) =>
              s.table = t /\ s.at = IF dir = Root THEN NoNode ELSE dir

\* OpenStep does that.
LEMMA OpenCreates ==
    ASSUME NEW z \in States(TRUE), NEW name \in Labels, z.at # NoNode, z.table[z.at].type # "file"
    PROVE  Creates(z.table, z.at, name, OpenStep(z, name))
  <1>0. PICK t, dir, s, u, creat : /\ t = z.table /\ dir = z.at /\ creat = TRUE
                                   /\ s = OpenStep(z, name) /\ u = Made(t, dir, name, "file")
    OBVIOUS
  <1>1. creat \in BOOLEAN /\ z \in States(creat)
    BY <1>0, Zenon
  <1>2. z.table = t /\ z.at = dir /\ dir # NoNode /\ t[dir].type # "file"
    BY <1>0
  <1>3. /\ Child(t, dir, name) # NoNode => s.table = t /\ s.at = Child(t, dir, name)
        /\ (Child(t, dir, name) = NoNode /\ creat /\ u # t) => s.table = u /\ s.at = Len(u)
        /\ (Child(t, dir, name) = NoNode /\ ~(creat /\ u # t)) =>
              s.table = t /\ s.at = IF dir = Root THEN NoNode ELSE dir
    <2> HIDE <1>0
    <2>1. s = OpenStep(z, name) /\ u = Made(t, dir, name, "file")
      BY <1>0
    <2> QED
      BY <1>1, <1>2, <2>1, OpenStepAt
  <1> QED
    BY <1>0, <1>3, Zenon DEF Creates

\* A walk that cannot go on behind its first component stays where that led.
LEMMA StuckStays ==
    ASSUME Tidy(node), NEW creat \in BOOLEAN, NEW path, IsPath(path),
           OpenSteps(path, creat)[1].at = NoNode
    PROVE  OpenWalk(path, creat) = OpenSteps(path, creat)[1]
  <1>0. PICK n, g : n = Len(path) /\ g = OpenSteps(path, creat)
    OBVIOUS
  <1>1. n \in Nat \ {0} /\ \A k \in 1 .. n : path[k] \in Labels
    BY <1>0 DEF IsPath
  <1>2. \A k \in 1 .. n : g[k] = OpenStep(g[k - 1], path[k])
    BY <1>0, <1>1, OpenStepsFacts
  <1> DEFINE A == {k \in 0 .. n : k = 0 \/ g[k] = g[1]}
  <1>3. 0 \in A
    BY <1>1
  <1>4. ASSUME NEW k \in 1 .. n, k - 1 \in A PROVE k \in A
    <2>1. k \in 0 .. n /\ (k - 1 = 0 \/ g[k - 1] = g[1])
      BY <1>4
    <2>2. CASE k - 1 = 0
      BY <2>1, <2>2
    <2>3. CASE g[k - 1] = g[1]
      <3>1. PICK s, name : s = g[1] /\ name = path[k]
        OBVIOUS
      <3>2. s.at = NoNode /\ g[k] = OpenStep(s, name)
        BY <1>0, <1>2, <2>3, <3>1
      <3> QED
        BY <2>1, <3>1, <3>2, OpenStepStays
    <2> QED
      BY <2>1, <2>2, <2>3
  <1>5. 0 .. n \subseteq A
    <2> HIDE DEF A
    <2> QED
      BY <1>1, <1>3, <1>4, StepwiseIn
  <1>6. n \in 0 .. n /\ n # 0
    BY <1>1
  <1> QED
    BY <1>0, <1>5, <1>6 DEF OpenWalk

\* The flag of a walk with O_CREAT, opaque to the leaves that have no use for it.
IsCreat(creat) == creat = TRUE

\* Where a walk with O_CREAT leaves the directory with room, the name behind it is there.
LEMMA MountFileTable ==
    ASSUME Tidy(node), NEW path, IsPath(path), path[1] = Dir,
           NEW creat, IsCreat(creat), NEW u, u = OpenWalk(path, creat).table,
           NEW d, d = Child(u, Root, Dir), d # NoNode,
           u[d].type = "directory", Len(u[d].entry) < Entries
    PROVE  /\ Child(node, Root, Dir) = d
           /\ \A name : (Len(path) > 1 /\ name = path[2] /\ name # <<>>) => Below(u, d, name) # NoNode
  <1>0. PICK g, n : g = OpenSteps(path, creat) /\ n = Len(path)
    OBVIOUS
  <1>1. /\ creat \in BOOLEAN /\ n \in Nat \ {0} /\ 0 \in 0 .. n /\ 1 \in 1 .. n /\ 1 \in 0 .. n
        /\ \A k \in 1 .. n : path[k] \in Labels
        /\ u = OpenWalk(path, creat).table /\ OpenWalk(path, creat) = g[n]
    <2>1. n \in Nat \ {0} /\ \A k \in 1 .. n : path[k] \in Labels
      BY <1>0 DEF IsPath
    <2>2. creat \in BOOLEAN /\ u = OpenWalk(path, creat).table
      BY Zenon DEF IsCreat
    <2>3. OpenWalk(path, creat) = g[n]
      BY <1>0 DEF OpenWalk
    <2> QED
      BY <2>1, <2>2, <2>3
  <1>2. PICK z, s : z = g[0] /\ s = g[1]
    OBVIOUS
  <1>3. /\ z = [table |-> node, at |-> Root, creat |-> creat]
        /\ \A k \in 1 .. n : g[k] = OpenStep(g[k - 1], path[k])
        /\ \A k \in 0 .. n : g[k] \in States(creat)
    <2>1. Len(path) \in Nat /\ \A k \in 1 .. Len(path) : path[k] \in Labels
      BY <1>0, <1>1
    <2>2. /\ OpenSteps(path, creat)[0] = [table |-> node, at |-> Root, creat |-> creat]
          /\ \A k \in 1 .. Len(path) :
                OpenSteps(path, creat)[k] = OpenStep(OpenSteps(path, creat)[k - 1], path[k])
          /\ \A k \in 0 .. Len(path) : OpenSteps(path, creat)[k] \in States(creat)
      BY <1>1, <2>1, OpenStepsFacts
    <2> QED
      BY <1>0, <1>2, <2>2, Zenon
  <1>4. /\ s = OpenStep(z, Dir) /\ z \in States(creat) /\ s \in States(creat)
        /\ z.table = node /\ z.at = Root
    <2>1. g[1] = OpenStep(g[1 - 1], path[1]) /\ 1 - 1 = 0
      BY <1>1, <1>3
    <2>2. g[0] \in States(creat) /\ g[1] \in States(creat)
      BY <1>1, <1>3
    <2>3. s = OpenStep(z, Dir)
      BY <1>2, <2>1
    <2>4. z.table = node /\ z.at = Root
      BY <1>3
    <2> QED
      BY <1>2, <2>2, <2>3, <2>4
  <1>5. Root \in 1 .. Len(node) /\ Root # NoNode /\ node[Root].type # "file" /\ Dir \in Labels
    BY DEF Tidy, Typed, Root, NoNode, Labels
  <1>6. Creates(node, Root, Dir, s)
    <2>1. z \in States(TRUE)
      BY <1>4, Zenon DEF IsCreat
    <2>2. Creates(z.table, z.at, Dir, OpenStep(z, Dir))
      BY <1>4, <1>5, <2>1, OpenCreates, Zenon
    <2> QED
      BY <1>4, <2>2, Zenon
  <1>7. Tidy(u) /\ Grows(node, u) /\ Grows(s.table, u)
    <2>1. Tidy(u) /\ Grows(node, u)
      <3>1. OpenWalk(path, creat) \in States(creat)
        BY <1>1, OpenWalkFacts
      <3> QED
        BY <1>1, <3>1, StatesFacts
    <2>2. Grows(g[1].table, OpenWalk(path, creat).table)
      BY <1>0, <1>1, OpenStepsGrow, Zenon
    <2> QED
      BY <1>1, <1>2, <2>1, <2>2
  <1>8. PICK w : w = Made(node, Root, Dir, "file")
    OBVIOUS
  <1>9. CASE Child(node, Root, Dir) = NoNode /\ w # node
    <2>1. s.table = w /\ s.at = Len(w)
      BY <1>6, <1>8, <1>9 DEF Creates
    <2>2. /\ Tidy(w) /\ Child(w, Root, Dir) = Len(w) /\ w[Len(w)].type = "file"
          /\ Len(w) = Len(node) + 1
      BY <1>5, <1>8, <1>9, CreateFacts
    <2>3. Root \in 1 .. Len(w) /\ Len(w) # NoNode /\ Len(w) \in 1 .. Len(w)
      BY <1>5, <2>2 DEF Tidy, Typed, NoNode, Root
    <2>4. d = Len(w)
      BY <1>7, <2>1, <2>2, <2>3, ChildStays
    <2>5. u[d].type = "file"
      BY <1>7, <2>1, <2>2, <2>3, <2>4 DEF Grows
    <2> QED
      BY <2>5
  <1>10. CASE Child(node, Root, Dir) = NoNode /\ w = node
    <2>1. s.table = node /\ s.at = NoNode
      BY <1>6, <1>8, <1>10 DEF Creates
    <2>2. OpenWalk(path, creat) = s
      BY <1>0, <1>1, <1>2, <2>1, StuckStays
    <2> QED
      BY <1>1, <1>10, <2>1, <2>2
  <1>11. CASE Child(node, Root, Dir) # NoNode
    <2>1. d = Child(node, Root, Dir)
      BY <1>5, <1>7, <1>11, ChildStays
    <2>2. d \in 1 .. Len(node) /\ Len(node) \in Nat
      <3>1. d \in Root + 1 .. Len(node) /\ Len(node) \in Nat
        BY <1>5, <1>11, <2>1, ChildFacts DEF Tidy, Typed
      <3> QED
        BY <3>1 DEF Root
    <2>3. node[d].type # "file" /\ u[d].type # "file"
      BY <1>7, <2>2 DEF Grows
    <2>4. Len(node[d].entry) # Entries
      <3>1. PICK x, y : x = Len(node[d].entry) /\ y = Len(u[d].entry)
        OBVIOUS
      <3>2. x \in Nat /\ y \in Nat /\ x <= y /\ y < Entries
        BY <1>7, <2>2, <3>1, EntriesGrow DEF Tidy
      <3> QED
        BY <3>1, <3>2, EntriesAssumption
    <2>5. s.table = node /\ s.at = d
      BY <1>6, <1>11, <2>1 DEF Creates
    <2>6. ASSUME NEW name, n > 1, name = path[2], name # <<>> PROVE Below(u, d, name) # NoNode
      <3>1. PICK r : r = g[2]
        OBVIOUS
      <3>2. 2 \in 1 .. n /\ 2 \in 0 .. n /\ 2 - 1 = 1 /\ name \in Labels
        BY <1>1, <2>6
      <3>3. r = OpenStep(s, name) /\ r \in States(creat)
        BY <1>2, <1>3, <2>6, <3>1, <3>2
      <3>4. Tidy(r.table) /\ Grows(r.table, u)
        <4>1. Grows(g[2].table, OpenWalk(path, creat).table)
          BY <1>0, <1>1, <3>2, OpenStepsGrow, Zenon
        <4> QED
          BY <1>1, <3>1, <3>3, <4>1, StatesFacts
      <3>5. Creates(node, d, name, r)
        <4>1. s \in States(TRUE) /\ s.at # NoNode /\ s.table[s.at].type # "file"
          <5>1. s.at # NoNode /\ s.table[s.at].type # "file"
            BY <2>3, <2>5
          <5> QED
            BY <1>4, <5>1, Zenon DEF IsCreat
        <4>2. Creates(s.table, s.at, name, OpenStep(s, name))
          BY <3>2, <4>1, OpenCreates, Zenon
        <4> QED
          BY <2>5, <3>3, <4>2, Zenon
      <3>6. PICK v : v = Made(node, d, name, "file")
        OBVIOUS
      <3>7. Below(u, d, name) = Child(u, d, name)
        BY <2>3 DEF Below
      <3>8. Child(r.table, d, name) # NoNode /\ d \in 1 .. Len(r.table)
        <4>1. CASE Child(node, d, name) # NoNode
          BY <2>2, <3>5, <4>1 DEF Creates
        <4>2. CASE Child(node, d, name) = NoNode
          <5>1. v # node /\ Child(v, d, name) = Len(v) /\ Len(v) = Len(node) + 1
            BY <2>2, <2>3, <2>4, <2>6, <3>2, <3>6, <4>2, CreateFacts
          <5>2. r.table = v
            BY <3>5, <3>6, <4>2, <5>1 DEF Creates
          <5> QED
            BY <2>2, <5>1, <5>2 DEF NoNode
        <4> QED
          BY <4>1, <4>2
      <3>9. Child(u, d, name) # NoNode
        BY <1>7, <3>4, <3>8, ChildStays
      <3> QED
        BY <3>7, <3>9
    <2> QED
      BY <1>0, <2>1, <2>6
  <1> QED
    BY <1>9, <1>10, <1>11

\* What the copy of open_initramfs_file reads, data of records or what lies between.
LEMMA BytesFacts ==
    ASSUME NEW a, Shaped(a), NEW x \in Int, NEW n \in Nat
    PROVE  C!Bytes(a, x, n) \in Seq(Cells)
  <1> DEFINE hits(b) == {k \in DOMAIN a :
                            b \in C!DataAt(a, k) .. C!DataAt(a, k) + C!FileSize(a, k) - 1}
             Byte(b) == IF hits(b) = {} THEN C!Nul
                        ELSE a[C!Min(hits(b))].data[b - C!DataAt(a, C!Min(hits(b))) + 1]
  <1>1. ASSUME NEW b \in Int PROVE Byte(b) \in Cells
    <2>1. CASE hits(b) = {}
      BY <2>1 DEF Cells, C!Nul, NUL
    <2>2. CASE hits(b) # {}
      <3>1. PICK h : h = hits(b)
        OBVIOUS
      <3>2. h \subseteq 1 .. Len(a) /\ h \in SUBSET Nat /\ h # {}
        BY <2>2, <3>1 DEF Shaped
      <3>3. PICK m : m = C!Min(h)
        OBVIOUS
      <3>4. m \in h /\ m \in 1 .. Len(a)
        BY <3>2, <3>3, MinFacts, MinSame
      <3>5. b \in C!DataAt(a, m) .. C!DataAt(a, m) + C!FileSize(a, m) - 1
        BY <3>1, <3>4
      <3>6. PICK d, f : d = C!DataAt(a, m) /\ f = C!FileSize(a, m)
        OBVIOUS
      <3>7. d \in Nat /\ f = Len(a[m].data) /\ f \in Nat /\ a[m].data \in Seq(Chars)
        BY <3>4, <3>6, BeyondFacts, SizeFacts DEF Shaped
      <3>8. b - d + 1 \in 1 .. Len(a[m].data)
        BY <3>5, <3>6, <3>7
      <3>9. a[m].data[b - d + 1] \in Chars
        BY <3>7, <3>8
      <3>10. Byte(b) = a[m].data[b - d + 1]
        BY <2>2, <3>1, <3>3, <3>6
      <3> QED
        BY <3>9, <3>10 DEF Cells
    <2> QED
      BY <2>1, <2>2
  <1>2. C!Bytes(a, x, n) = [j \in 1 .. n |-> Byte(x + j - 1)]
    BY DEF C!Bytes
  <1> HIDE DEF Byte
  <1>3. \A j \in 1 .. n : Byte(x + j - 1) \in Cells
    <2>1. \A j \in 1 .. n : x + j - 1 \in Int
      OBVIOUS
    <2> QED
      BY <1>1, <2>1
  <1> QED
    BY <1>2, <1>3

\* The step for a record keeps the invariant: the record is in the directory afterwards.
LEMMA MountFileStep ==
    ASSUME IInv, MountFile
    PROVE  IInv' /\ Grows(node, node')
  <1>1. PICK k, end : k = C!RecordAt(archive, addr) /\ end = OpenWalk(RecordPath(archive[k].name), TRUE)
    OBVIOUS
  <1>2. PICK buf, fs, x : /\ fs = C!FileSize(archive, k)
                          /\ x = addr + C!Header + C!NameSize(archive, k)
                          /\ buf = C!Bytes(archive, x, fs)
    OBVIOUS
  <1>3. /\ k # 0
        /\ node' = end.table
        /\ wild' = (end.at = NoNode \/ node'[end.at].type = "directory")
        /\ low' = IF wild' THEN low ELSE Written(node'[end.at].data, buf)
        /\ addr' = C!Beyond(archive, addr, k)
        /\ addr # Idle
        /\ UNCHANGED <<files, archive>>
    BY <1>1, <1>2, Zenon DEF MountFile
  <1>4. TreeInv /\ Tidy(node) /\ archive \in Archives /\ Shaped(archive)
    BY ArchiveShaped DEF IInv, TreeInv
  <1>5. PICK m \in 1 .. Len(archive) + 1 : addr = C!HeaderAt(archive)[m] /\ Copied(m)
    BY <1>3 DEF IInv, MountInv
  <1>6. k = m /\ k \in 1 .. Len(archive) /\ Len(archive) \in Nat
    <2>1. Len(archive) \in Nat /\ (m \in 1 .. Len(archive) \/ m = Len(archive) + 1)
      BY <1>4, <1>5 DEF Shaped
    <2> QED
      BY <1>1, <1>3, <1>4, <1>5, <2>1, RecordAtFacts
  <1>7. PICK name, path : name = archive[k].name /\ path = RecordPath(name)
    OBVIOUS
  <1>15. /\ IsPath(path) /\ path[1] = Dir
         /\ Tokens(name) # <<>> =>
               /\ Len(path) > 1 /\ path[2] = Head(Tokens(name)) /\ Head(Tokens(name)) # <<>>
    <2>1. k \in DOMAIN archive
      BY <1>4, <1>6 DEF Shaped
    <2> QED
      BY <1>4, <1>7, <2>1, RecordPathFacts
  <1>8. Tidy(node') /\ Grows(node, node') /\ (end.at # NoNode => end.at \in 1 .. Len(node'))
    <2>1. /\ Tidy(end.table) /\ Grows(node, end.table)
          /\ end.at # NoNode => end.at \in 1 .. Len(end.table)
      <3>1. PICK creat : creat = TRUE
        OBVIOUS
      <3>2. creat \in BOOLEAN
        BY <3>1
      <3>3. OpenWalk(path, creat) \in States(creat)
        BY <1>4, <1>15, <3>2, OpenWalkFacts
      <3>4. end \in States(creat)
        BY <1>1, <1>7, <3>1, <3>3, Zenon
      <3> QED
        BY <3>4, StatesFacts
    <2> QED
      BY <1>3, <2>1
  <1>9. Opened'
    BY <1>3, <1>4, <1>8, OpenedStays
  <1>10. low' \in [1 .. LowSize -> Cells]
    <2>1. CASE wild'
      BY <1>3, <1>4, <2>1 DEF TreeInv
    <2>2. CASE ~wild'
      <3>1. end.at \in 1 .. Len(node')
        BY <1>3, <1>8, <2>2
      <3>2. node'[end.at] \in Vnodes
        BY <1>8, <3>1 DEF Tidy, Typed
      <3>3. node'[end.at].data = 0
        BY <3>2 DEF Vnodes, NULL
      <3>4. addr \in Nat /\ C!NameSize(archive, k) \in Nat /\ fs \in Nat
        BY <1>2, <1>4, <1>5, <1>6, HeaderFacts, SizeFacts
      <3>5. x \in Int
        BY <1>2, <3>4 DEF C!Header
      <3>6. buf \in Seq(Cells)
        BY <1>2, <1>4, <3>4, <3>5, BytesFacts
      <3>7. low \in [1 .. LowSize -> Cells] /\ 0 \in Nat
        BY <1>4 DEF TreeInv
      <3>8. Written(0, buf) \in [1 .. LowSize -> Cells]
        BY <3>6, <3>7, WrittenFacts
      <3> QED
        BY <1>3, <2>2, <3>3, <3>8
    <2> QED
      BY <2>1, <2>2
  <1>11. TreeInv'
    <2>1. wild' \in BOOLEAN
      BY <1>3
    <2> QED
      BY <1>8, <1>9, <1>10, <2>1 DEF TreeInv
  <1>12. addr' = C!HeaderAt(archive)[k + 1] /\ k + 1 \in 1 .. Len(archive) + 1
    BY <1>3, <1>4, <1>5, <1>6, BeyondFacts
  <1>13. Copied(k + 1)'
    <2> SUFFICES ASSUME Room(node'), NEW j \in 1 .. k
                 PROVE  Mounted(node', archive[j].name)
      BY <1>3, <1>6 DEF Copied
    <2>1. PICK d : d = Child(node', Root, Dir)
      OBVIOUS
    <2>2. d # NoNode /\ node'[d].type = "directory" /\ Len(node'[d].entry) < Entries
      BY <2>1 DEF Room
    <2>3. /\ Child(node, Root, Dir) = d
          /\ Tokens(name) # <<>> => Below(node', d, Head(Tokens(name))) # NoNode
      <3>0. PICK creat, u : creat = TRUE /\ u = OpenWalk(path, creat).table
        OBVIOUS
      <3>1. node' = u /\ IsCreat(creat)
        BY <1>1, <1>3, <1>7, <3>0, Zenon DEF IsCreat
      <3>2. /\ Child(node, Root, Dir) = d
            /\ \A q : (Len(path) > 1 /\ q = path[2] /\ q # <<>>) => Below(node', d, q) # NoNode
        BY <1>4, <1>15, <2>1, <2>2, <3>0, <3>1, MountFileTable
      <3> QED
        BY <1>15, <3>2
    <2>4. CASE j = k
      BY <1>7, <2>1, <2>3, <2>4 DEF There, Mounted
    <2>5. CASE j # k
      <3>1. j \in 1 .. m - 1
        BY <1>6, <2>5
      <3>2. Room(node)
        BY <1>4, <1>8, <2>1, <2>3, RoomBefore
      <3>3. Mounted(node, archive[j].name)
        BY <1>5, <3>1, <3>2 DEF Copied
      <3> QED
        BY <1>4, <1>8, <3>3, ThereStays DEF Mounted
    <2> QED
      BY <2>4, <2>5
  <1>14. MountInv'
    BY <1>3, <1>12, <1>13 DEF MountInv
  <1> QED
    BY <1>3, <1>4, <1>8, <1>11, <1>14 DEF IInv

\* The begin of the mount keeps the invariant.
LEMMA MountStep ==
    ASSUME IInv, Mount
    PROVE  IInv' /\ Grows(node, node')
  <1>1. VfsMkdir(<<Dir>>) /\ addr' = 0 /\ archive' = archive
    BY DEF Mount
  <1>2. PICK path : path = <<Dir>>
    OBVIOUS
  <1>3. Len(path) = 1 /\ path[1] = Dir /\ Dir \in Labels
    BY <1>2 DEF Labels
  <1>4. IsPath(path)
    BY <1>3 DEF IsPath
  <1>5. TreeInv' /\ Grows(node, node')
    BY <1>1, <1>2, <1>4, VfsMkdirStep DEF IInv
  <1>6. Shaped(archive)
    BY ArchiveShaped DEF IInv
  <1>7. C!HeaderAt(archive)[1] = 0 /\ 1 \in 1 .. Len(archive) + 1
    BY <1>6, HeaderFacts DEF Shaped
  <1>8. Copied(1)'
    BY DEF Copied
  <1>9. MountInv'
    BY <1>1, <1>7, <1>8 DEF MountInv
  <1> QED
    BY <1>1, <1>5, <1>9 DEF IInv

\* The invariant holds before the first call.
LEMMA InitInv == InitramfsInit => IInv
  BY InitTree DEF InitramfsInit, IInv, MountInv

\* Every step keeps the invariant, and every vnode and entry.
LEMMA InitramfsStep ==
    ASSUME IInv, [InitramfsNext]_initramfs_vars
    PROVE  IInv' /\ Grows(node, node')
  <1>1. CASE Mount
    BY <1>1, MountStep
  <1>2. CASE MountFile
    BY <1>2, MountFileStep
  <1>3. CASE UNCHANGED vars /\ addr' = Idle /\ archive' = archive
    <2>1. node' = node /\ files' = files /\ low' = low /\ wild' = wild
      BY <1>3 DEF vars
    <2>2. Tidy(node)' /\ Grows(node, node')
      BY <2>1, GrowsItself DEF IInv, TreeInv, Tidy, Typed
    <2>3. Opened'
      BY <2>1, <2>2, OpenedStays DEF IInv, TreeInv
    <2>4. TreeInv'
      BY <2>1, <2>2, <2>3 DEF IInv, TreeInv
    <2>5. MountInv'
      BY <1>3 DEF MountInv
    <2> QED
      BY <1>3, <2>2, <2>4, <2>5 DEF IInv
  <1>4. CASE Call
    <2>1. Next /\ addr' = Idle /\ archive' = archive
      BY <1>4 DEF Call
    <2>2. TreeInv' /\ Grows(node, node')
      BY <2>1, NextStep DEF IInv
    <2>3. MountInv'
      BY <2>1 DEF MountInv
    <2> QED
      BY <2>1, <2>2, <2>3 DEF IInv
  <1>5. CASE UNCHANGED initramfs_vars
    <2>1. /\ node' = node /\ files' = files /\ low' = low /\ wild' = wild
          /\ addr' = addr /\ archive' = archive
      BY <1>5 DEF initramfs_vars, vars
    <2>2. Tidy(node)' /\ Grows(node, node')
      BY <2>1, GrowsItself DEF IInv, TreeInv, Tidy, Typed
    <2>3. Opened'
      BY <2>1, <2>2, OpenedStays DEF IInv, TreeInv
    <2>4. TreeInv'
      BY <2>1, <2>2, <2>3 DEF IInv, TreeInv
    <2>5. \A k : Copied(k)' <=> Copied(k)
      BY <2>1 DEF Copied
    <2>6. MountInv'
      BY <2>1, <2>5 DEF IInv, MountInv
    <2> QED
      BY <2>1, <2>2, <2>4, <2>6 DEF IInv
  <1> QED
    BY <1>1, <1>2, <1>3, <1>4, <1>5 DEF InitramfsNext, MountDone

-----------------------------------------------------------------------------
(* The properties *)

\* The invariant gives the types.
LEMMA TypesFollow == IInv => TypeOK
  <1> SUFFICES ASSUME IInv PROVE TypeOK
    OBVIOUS
  <1>1. Tidy(node) /\ Opened /\ low \in [1 .. LowSize -> Cells] /\ wild \in BOOLEAN
    BY DEF IInv, TreeInv
  <1>2. node \in Seq(Vnodes) /\ DOMAIN node = 1 .. Len(node)
    BY <1>1 DEF Tidy, Typed
  <1>3. ASSUME NEW n \in DOMAIN node
        PROVE  /\ node[n].type \in {"directory", "file"}
               /\ node[n].type = "file" => node[n].entry = <<>>
               /\ Len(node[n].entry) <= Entries
               /\ \A i \in DOMAIN node[n].entry :
                     node[n].entry[i].node \in DOMAIN node /\ node[n].entry[i].name # <<>>
    <2>1. n \in 1 .. Len(node) /\ node[n] \in Vnodes
      BY <1>2
    <2>2. node[n].type \in Types /\ node[n].entry \in Seq(Items)
      BY <2>1 DEF Vnodes
    <2>3. ASSUME NEW i \in DOMAIN node[n].entry
          PROVE  node[n].entry[i].node \in DOMAIN node /\ node[n].entry[i].name # <<>>
      <3>1. Link(node, n, i)
        BY <2>1, <2>2 DEF Link
      <3>2. node[n].entry[i].node \in n + 1 .. Len(node) /\ node[n].entry[i].name # <<>>
        BY <1>1, <3>1 DEF Tidy, Forward, To, Name
      <3>3. node[n].entry[i].node \in 1 .. Len(node)
        BY <1>2, <2>1, <3>2
      <3> QED
        BY <1>2, <3>2, <3>3
    <2> QED
      BY <1>1, <2>1, <2>2, <2>3 DEF Tidy, Typed, Types
  <1>4. ASSUME NEW f \in DOMAIN files
        PROVE  files[f].vnode \in DOMAIN node /\ files[f].f_pos \in 0 .. LowSize
    <2>1. f \in 1 .. Len(files) /\ files[f] \in Files
      BY <1>1 DEF Opened
    <2> QED
      BY <1>1, <1>2, <2>1 DEF Opened, Files
  <1> QED
    BY <1>1, <1>3, <1>4 DEF TypeOK, Cells

\* The invariant gives the unique names.
LEMMA UniqueFollows == IInv => NamesUnique
  <1> SUFFICES ASSUME IInv,
                      NEW n \in DOMAIN node, NEW i \in DOMAIN node[n].entry,
                      NEW j \in DOMAIN node[n].entry,
                      node[n].entry[i].name = node[n].entry[j].name
               PROVE  i = j
    BY DEF NamesUnique
  <1>1. Tidy(node)
    BY DEF IInv, TreeInv
  <1>2. n \in 1 .. Len(node) /\ node[n] \in Vnodes
    BY <1>1 DEF Tidy, Typed
  <1>3. Link(node, n, i) /\ Link(node, n, j)
    BY <1>2 DEF Vnodes, Link
  <1> QED
    BY <1>1, <1>3 DEF Tidy, Unique, Name

\* The invariant gives the tree, in the words of TreeShaped.
LEMMA TreeFollows == IInv => TreeShaped
  <1> SUFFICES ASSUME IInv PROVE TreeShaped
    OBVIOUS
  <1>1. Tidy(node) /\ node \in Seq(Vnodes) /\ DOMAIN node = 1 .. Len(node) /\ Len(node) \in Nat
    BY DEF IInv, TreeInv, Tidy, Typed
  <1> DEFINE links == {l \in (DOMAIN node) \X (1 .. Entries) : l[2] \in DOMAIN node[l[1]].entry}
             Target(link) == node[link[1]].entry[link[2]].node
  <1>2. \A l \in links : Link(node, l[1], l[2]) /\ Target(l) = To(node, l[1], l[2])
                           /\ l = <<l[1], l[2]>>
    <2> SUFFICES ASSUME NEW l \in links
                 PROVE  Link(node, l[1], l[2]) /\ Target(l) = To(node, l[1], l[2])
                          /\ l = <<l[1], l[2]>>
      OBVIOUS
    <2>1. l = <<l[1], l[2]>> /\ l[1] \in DOMAIN node /\ l[2] \in DOMAIN node[l[1]].entry
      OBVIOUS
    <2>2. l[1] \in 1 .. Len(node) /\ node[l[1]] \in Vnodes
      BY <1>1, <2>1
    <2>3. node[l[1]].entry \in Seq(Items)
      BY <2>2 DEF Vnodes
    <2> QED
      BY <2>1, <2>2, <2>3 DEF Link, To
  <1>3. ASSUME NEW n, NEW i, Link(node, n, i)
        PROVE  <<n, i>> \in links /\ Target(<<n, i>>) = To(node, n, i)
    <2>1. n \in 1 .. Len(node) /\ i \in 1 .. Len(node[n].entry) /\ node[n] \in Vnodes
      BY <1>1, <1>3 DEF Link
    <2>2. node[n].entry \in Seq(Items) /\ Len(node[n].entry) <= Entries
      BY <1>1, <2>1 DEF Vnodes, Tidy, Typed
    <2>3. i \in 1 .. Entries /\ i \in DOMAIN node[n].entry /\ n \in DOMAIN node
      BY <1>1, <2>1, <2>2, EntriesAssumption
    <2> QED
      BY <2>3 DEF To
  <1> HIDE DEF links, Target
  <1>4. \A link \in links : Target(link) > link[1]
    <2> SUFFICES ASSUME NEW l \in links PROVE Target(l) > l[1]
      OBVIOUS
    <2>1. Link(node, l[1], l[2]) /\ Target(l) = To(node, l[1], l[2])
      BY <1>2
    <2>2. PICK n, t : n = l[1] /\ t = To(node, l[1], l[2])
      OBVIOUS
    <2>3. t \in n + 1 .. Len(node) /\ n \in 1 .. Len(node)
      BY <1>1, <2>1, <2>2 DEF Tidy, Forward, Link
    <2>4. t > n
      BY <1>1, <2>3
    <2> QED
      BY <2>1, <2>2, <2>4
  <1>5. ASSUME NEW m \in DOMAIN node \ {Root}
        PROVE  \E link \in links : links \cap {l \in links : Target(l) = m} = {link}
    <2>1. m \in 2 .. Len(node)
      BY <1>1 DEF Root
    <2>2. PICK n, i : Link(node, n, i) /\ To(node, n, i) = m
      BY <1>1, <2>1 DEF Tidy, Reached
    <2>3. <<n, i>> \in links /\ Target(<<n, i>>) = m
      BY <1>3, <2>2
    <2>4. ASSUME NEW l \in links, Target(l) = m PROVE l = <<n, i>>
      <3>1. Link(node, l[1], l[2]) /\ To(node, l[1], l[2]) = m /\ l = <<l[1], l[2]>>
        BY <1>2, <2>4
      <3>2. l[1] = n /\ l[2] = i
        BY <1>1, <2>2, <3>1 DEF Tidy, Once
      <3> QED
        BY <3>1, <3>2
    <2> QED
      BY <2>3, <2>4
  <1> QED
    BY <1>4, <1>5 DEF TreeShaped, links, Target

\* What the lookup in the archive finds, for the names in paths.
LEMMA LookupFollows == IInv => LookupFinds
  <1> SUFFICES ASSUME IInv, NEW name \in Names
               PROVE  LET hits == {k \in DOMAIN archive : archive[k].name = name}
                      IN  /\ hits = {} => C!GetCpioFile(archive, name) = C!NotFound
                          /\ hits # {} =>
                                /\ C!GetCpioFile(archive, name) = C!DataAt(archive, Min(hits))
                                /\ C!GetCpioFileLen(archive, name)
                                      - C!FileSize(archive, Min(hits)) \in 0 .. 3
    BY DEF LookupFinds
  <1>1. Shaped(archive)
    BY ArchiveShaped DEF IInv
  <1>2. PICK path \in Paths : name = path[Len(path)]
    BY DEF Names
  <1>3. path \in Seq(ToSet(path)) /\ path # <<>>
    BY PathsAssumption
  <1>4. Len(path) \in DOMAIN path
    BY <1>3
  <1>5. IsString(name)
    BY <1>2, <1>4, PathsAssumption DEF IsName
  <1> QED
    BY <1>1, <1>5, LookupFacts

\* The way of a path: up to its end, when that is a vnode, only vnodes.
LEMMA WayFacts ==
    ASSUME NEW t, Tidy(t), NEW path, Len(path) \in Nat, NEW n \in 0 .. Len(path),
           Trail(t, path)[n] # NoNode
    PROVE  /\ \A k \in 0 .. n : Trail(t, path)[k] # NoNode
           /\ \A k \in 1 .. n :
                 /\ Trail(t, path)[k - 1] \in 1 .. Len(t)
                 /\ t[Trail(t, path)[k - 1]].type # "file"
                 /\ Trail(t, path)[k] = Child(t, Trail(t, path)[k - 1], path[k])
  <1>0. PICK f, l : f = Trail(t, path) /\ l = Len(path)
    OBVIOUS
  <1>1. /\ \A j \in 1 .. l : f[j] = Below(t, f[j - 1], path[j])
        /\ \A j \in 0 .. l : f[j] \in 0 .. Len(t)
        /\ l \in Nat /\ n \in 0 .. l /\ Len(t) \in Nat
    <2>1. Len(t) \in Nat
      BY DEF Tidy, Typed
    <2>2. l \in Nat /\ n \in 0 .. l
      BY <1>0
    <2> QED
      BY <1>0, <2>1, <2>2, TrailFacts
  <1> DEFINE A == {j \in 0 .. n : f[n - j] # NoNode}
  <1>2. n \in Nat /\ 0 \in A
    BY <1>0, <1>1
  <1>3. ASSUME NEW j \in 1 .. n, j - 1 \in A PROVE j \in A
    <2>1. n - (j - 1) \in 1 .. l /\ n - (j - 1) - 1 = n - j /\ j \in 0 .. n
      BY <1>1
    <2>2. f[n - (j - 1)] = Below(t, f[n - j], path[n - (j - 1)])
      BY <1>1, <2>1
    <2>3. f[n - (j - 1)] # NoNode
      BY <1>3
    <2>4. f[n - j] # NoNode
      BY <2>2, <2>3 DEF Below
    <2> QED
      BY <2>1, <2>4
  <1>4. 0 .. n \subseteq A
    <2> HIDE DEF A
    <2> QED
      BY <1>2, <1>3, StepwiseIn
  <1>5. ASSUME NEW k \in 0 .. n PROVE f[k] # NoNode
    <2>1. n - k \in 0 .. n /\ n - (n - k) = k
      BY <1>2
    <2>2. n - k \in A
      BY <1>4, <2>1
    <2> QED
      BY <2>1, <2>2
  <1>6. ASSUME NEW k \in 1 .. n
        PROVE  f[k - 1] \in 1 .. Len(t) /\ t[f[k - 1]].type # "file"
                  /\ f[k] = Child(t, f[k - 1], path[k])
    <2>1. k \in 1 .. l /\ k - 1 \in 0 .. l /\ k \in 0 .. n /\ k - 1 \in 0 .. n
      BY <1>1
    <2>2. PICK x : x = f[k - 1]
      OBVIOUS
    <2>3. x # NoNode /\ f[k] # NoNode /\ x \in 0 .. Len(t)
      BY <1>1, <1>5, <2>1, <2>2
    <2>4. x \in 1 .. Len(t)
      BY <1>1, <2>3 DEF NoNode
    <2>5. f[k] = Below(t, x, path[k])
      BY <1>1, <2>1, <2>2
    <2> QED
      BY <2>2, <2>3, <2>4, <2>5 DEF Below
  <1> QED
    BY <1>0, <1>5, <1>6

\* Along that way vfs_mkdir and vfs_open go.
LEMMA ReachGoes ==
    ASSUME Tidy(node), NEW path, Len(path) \in Nat, NEW n \in 0 .. Len(path),
           Trail(node, path)[n] # NoNode
    PROVE  \A k \in 0 .. n : Reach(path)[k] = Trail(node, path)[k]
  <1>0. PICK f, g, l : f = Trail(node, path) /\ g = Reach(path) /\ l = Len(path)
    OBVIOUS
  <1>1. /\ g[0] = Root /\ f[0] = Root
        /\ \A k \in 1 .. l : g[k] = Follow(g[k - 1], path[k])
        /\ \A k \in 0 .. n : f[k] # NoNode
        /\ \A k \in 1 .. n : node[f[k - 1]].type # "file" /\ f[k] = Child(node, f[k - 1], path[k])
        /\ l \in Nat /\ n \in 0 .. l
    <2>1. l \in Nat /\ n \in 0 .. l
      BY <1>0
    <2>2. f[0] = Root /\ f[n] # NoNode
      BY <1>0, TrailFacts
    <2>3. /\ \A k \in 0 .. n : f[k] # NoNode
          /\ \A k \in 1 .. n : node[f[k - 1]].type # "file" /\ f[k] = Child(node, f[k - 1], path[k])
      <3>1. Len(path) \in Nat /\ n \in 0 .. Len(path) /\ Trail(node, path)[n] # NoNode
        BY <1>0, <2>1
      <3>2. PICK t : t = node
        OBVIOUS
      <3>3. Tidy(t) /\ Trail(t, path)[n] # NoNode
        BY <3>1, <3>2
      <3>4. /\ \A k \in 0 .. n : Trail(t, path)[k] # NoNode
            /\ \A k \in 1 .. n :
                  /\ t[Trail(t, path)[k - 1]].type # "file"
                  /\ Trail(t, path)[k] = Child(t, Trail(t, path)[k - 1], path[k])
        BY <3>1, <3>3, WayFacts
      <3> QED
        BY <1>0, <3>2, <3>4
    <2>4. g[0] = Root /\ \A k \in 1 .. l : g[k] = Follow(g[k - 1], path[k])
      BY <1>0, ReachFacts
    <2> QED
      BY <2>1, <2>2, <2>3, <2>4
  <1> DEFINE A == {k \in 0 .. n : g[k] = f[k]}
  <1>2. n \in Nat /\ 0 \in A
    BY <1>1
  <1>3. ASSUME NEW k \in 1 .. n, k - 1 \in A PROVE k \in A
    <2>1. k \in 1 .. l /\ k - 1 \in 0 .. n /\ k \in 0 .. n
      BY <1>1
    <2>2. PICK x : x = f[k - 1]
      OBVIOUS
    <2>3. x # NoNode /\ node[x].type # "file" /\ f[k] = Child(node, x, path[k])
      BY <1>1, <2>1, <2>2
    <2>4. g[k] = Follow(x, path[k])
      BY <1>1, <1>3, <2>1, <2>2
    <2> QED
      BY <2>1, <2>3, <2>4 DEF Follow
  <1>4. 0 .. n \subseteq A
    <2> HIDE DEF A
    <2> QED
      BY <1>2, <1>3, StepwiseIn
  <1> QED
    BY <1>0, <1>4

\* vfs_open goes along it with the table as it is.
LEMMA OpenGoes ==
    ASSUME Tidy(node), NEW path, IsPath(path), NEW creat \in BOOLEAN, NEW n \in 0 .. Len(path),
           Trail(node, path)[n] # NoNode
    PROVE  \A k \in 0 .. n :
              /\ OpenSteps(path, creat)[k] \in States(creat)
              /\ OpenSteps(path, creat)[k].table = node
              /\ OpenSteps(path, creat)[k].at = Trail(node, path)[k]
  <1>0. PICK f, g, l : f = Trail(node, path) /\ g = OpenSteps(path, creat) /\ l = Len(path)
    OBVIOUS
  <1>1. /\ \A k \in 1 .. l : path[k] \in Labels
        /\ l \in Nat /\ n \in 0 .. l
    BY <1>0 DEF IsPath
  <1>2. /\ g[0] = [table |-> node, at |-> Root, creat |-> creat]
        /\ \A k \in 1 .. l : g[k] = OpenStep(g[k - 1], path[k])
        /\ \A k \in 0 .. l : g[k] \in States(creat)
    BY <1>0, <1>1, OpenStepsFacts
  <1>3. /\ f[0] = Root
        /\ \A k \in 0 .. n : f[k] # NoNode
        /\ \A k \in 1 .. n : node[f[k - 1]].type # "file" /\ f[k] = Child(node, f[k - 1], path[k])
    <2>1. f[0] = Root
      BY <1>0, <1>1, TrailFacts
    <2>2. /\ \A k \in 0 .. n : f[k] # NoNode
          /\ \A k \in 1 .. n : node[f[k - 1]].type # "file" /\ f[k] = Child(node, f[k - 1], path[k])
      <3>1. Len(path) \in Nat /\ n \in 0 .. Len(path) /\ Trail(node, path)[n] # NoNode
        BY <1>0, <1>1
      <3>2. /\ \A k \in 0 .. n : Trail(node, path)[k] # NoNode
            /\ \A k \in 1 .. n :
                  /\ node[Trail(node, path)[k - 1]].type # "file"
                  /\ Trail(node, path)[k] = Child(node, Trail(node, path)[k - 1], path[k])
        BY <3>1, WayFacts
      <3> QED
        BY <1>0, <3>2
    <2> QED
      BY <2>1, <2>2
  <1> DEFINE A == {k \in 0 .. n : g[k].table = node /\ g[k].at = f[k]}
  <1>4. n \in Nat /\ 0 \in A
    BY <1>1, <1>2, <1>3
  <1>5. ASSUME NEW k \in 1 .. n, k - 1 \in A PROVE k \in A
    <2>1. k \in 1 .. l /\ k - 1 \in 0 .. n /\ k \in 0 .. n /\ k - 1 \in 0 .. l
      BY <1>1
    <2>2. PICK x, z, name : x = f[k - 1] /\ z = g[k - 1] /\ name = path[k]
      OBVIOUS
    <2>3. x # NoNode /\ node[x].type # "file" /\ f[k] = Child(node, x, name) /\ f[k] # NoNode
      BY <1>3, <2>1, <2>2
    <2>4. z \in States(creat) /\ z.table = node /\ z.at = x /\ name \in Labels
      BY <1>1, <1>2, <1>5, <2>1, <2>2
    <2>5. PICK s : s = OpenStep(z, name)
      OBVIOUS
    <2>6. s.table = node /\ s.at = Child(node, x, name)
      BY <2>3, <2>4, <2>5, OpenStepAt
    <2>7. g[k] = s
      BY <1>2, <2>1, <2>2, <2>5
    <2> QED
      BY <2>1, <2>3, <2>6, <2>7
  <1>6. 0 .. n \subseteq A
    <2> HIDE DEF A
    <2> QED
      BY <1>4, <1>5, StepwiseIn
  <1>7. \A k \in 0 .. n : k \in 0 .. l
    BY <1>1
  <1> QED
    BY <1>0, <1>2, <1>6, <1>7

\* A path without its last name leads to the vnode before that name.
LEMMA FrontTrail ==
    ASSUME NEW t, Tidy(t), NEW path, path \in Seq(ToSet(path)), path # <<>>
    PROVE  Trail(t, Front(path))[Len(Front(path))] = Trail(t, path)[Len(path) - 1]
  <1>0. PICK q, n, f, g : /\ q = Front(path) /\ n = Len(path) - 1
                          /\ f = Trail(t, path) /\ g = Trail(t, q)
    OBVIOUS
  <1>1. n \in Nat /\ Len(path) = n + 1 /\ Len(q) = n /\ \A k \in 1 .. n : q[k] = path[k]
    BY <1>0 DEF Front
  <1>2. f[0] = Root /\ \A k \in 1 .. n + 1 : f[k] = Below(t, f[k - 1], path[k])
    <2>1. Len(path) \in Nat /\ n + 1 \in Nat
      BY <1>1
    <2>2. f[0] = Root
      BY <1>0, <2>1, TrailFacts
    <2>3. \A k \in 1 .. n + 1 : f[k] = Below(t, f[k - 1], path[k])
      BY <1>0, <1>1, <2>1, TrailFacts
    <2> QED
      BY <2>2, <2>3
  <1>3. g[0] = Root /\ \A k \in 1 .. n : g[k] = Below(t, g[k - 1], q[k])
    <2>1. Len(q) \in Nat
      BY <1>1
    <2>2. Trail(t, q)[0] = Root /\ \A k \in 1 .. Len(q) : Trail(t, q)[k] = Below(t, Trail(t, q)[k - 1], q[k])
      BY <2>1, TrailFacts
    <2> QED
      BY <1>0, <1>1, <2>2
  <1> DEFINE A == {k \in 0 .. n : g[k] = f[k]}
  <1>4. 0 \in A
    BY <1>1, <1>2, <1>3
  <1>5. ASSUME NEW k \in 1 .. n, k - 1 \in A PROVE k \in A
    <2>1. k \in 1 .. n + 1 /\ k \in 0 .. n
      BY <1>1
    <2> QED
      BY <1>1, <1>2, <1>3, <1>5, <2>1
  <1>6. 0 .. n \subseteq A
    <2> HIDE DEF A
    <2> QED
      BY <1>1, <1>4, <1>5, StepwiseIn
  <1>7. n \in 0 .. n
    BY <1>1
  <1> QED
    BY <1>0, <1>1, <1>6, <1>7

\* A name that is missing at the end of a path, in a directory with room.
Gap(path) ==
    LET n   == Len(path)
        dir == Trail(node, path)[n - 1]
    IN  /\ n - 1 \in 0 .. n
        /\ dir \in 1 .. Len(node)
        /\ node[dir].type = "directory"
        /\ Len(node[dir].entry) # Entries
        /\ Child(node, dir, path[n]) = NoNode
        /\ path[n] \in Labels
        /\ path[n] # <<>>

\* That is the case in which vfs_mkdir and vfs_open have something to make.
LEMMA GapFacts ==
    ASSUME Tidy(node), NEW path \in Paths, Resolve(path) = NoNode, HasRoom(Front(path))
    PROVE  Gap(path)
  <1>1. path \in Seq(ToSet(path)) /\ path # <<>> /\ IsPath(path)
    BY PathsAssumption, PathFacts
  <1>2. PICK n, d : n = Len(path) /\ d = Trail(node, path)[n - 1]
    OBVIOUS
  <1>3. Resolve(Front(path)) = d
    BY <1>1, <1>2, FrontTrail DEF Resolve
  <1>4. d # NoNode /\ node[d].type = "directory" /\ Len(node[d].entry) < Entries
    BY <1>3 DEF HasRoom
  <1>5. n \in Nat \ {0} /\ n \in 1 .. n /\ n - 1 \in 0 .. n /\ path[n] \in Labels /\ Len(path) \in Nat
    BY <1>1, <1>2 DEF IsPath
  <1>6. d \in 1 .. Len(node)
    <2>1. d \in 0 .. Len(node) /\ Len(node) \in Nat
      BY <1>2, <1>5, TrailFacts DEF Tidy, Typed
    <2> QED
      BY <1>4, <2>1 DEF NoNode
  <1>7. Trail(node, path)[n] = Below(node, d, path[n])
    BY <1>2, <1>5, TrailFacts
  <1>8. Child(node, d, path[n]) = NoNode
    BY <1>2, <1>4, <1>7 DEF Below, Resolve
  <1>9. path[n] # <<>>
    <2>1. n \in DOMAIN path
      BY <1>1, <1>2, <1>5
    <2> QED
      BY <2>1, PathsAssumption DEF IsName
  <1>10. Len(node[d].entry) # Entries
    <2>1. node[d] \in Vnodes
      BY <1>6 DEF Tidy, Typed
    <2>2. Len(node[d].entry) \in Nat
      BY <2>1 DEF Vnodes
    <2> QED
      BY <1>4, <2>2, EntriesAssumption
  <1> QED
    BY <1>2, <1>4, <1>5, <1>6, <1>8, <1>9, <1>10 DEF Gap

\* What is made there is what the path then leads to.
LEMMA GapFilled ==
    ASSUME Tidy(node), NEW path \in Paths, Gap(path), NEW type \in Types, NEW u,
           u = Made(node, Trail(node, path)[Len(path) - 1], path[Len(path)], type)
    PROVE  /\ Tidy(u) /\ Grows(node, u) /\ u # node
           /\ Len(u) = Len(node) + 1
           /\ Trail(u, path)[Len(path)] = Len(u)
           /\ u[Len(u)] = NewNode(type)
  <1>1. PICK n, d, name : n = Len(path) /\ d = Trail(node, path)[n - 1] /\ name = path[n]
    OBVIOUS
  <1>2. /\ n - 1 \in 0 .. n /\ d \in 1 .. Len(node) /\ node[d].type = "directory"
        /\ Len(node[d].entry) # Entries /\ Child(node, d, name) = NoNode
        /\ name \in Labels /\ name # <<>>
    BY <1>1 DEF Gap
  <1>3. u = Made(node, d, name, type)
    BY <1>1
  <1>4. /\ Tidy(u) /\ Grows(node, u) /\ u # node
        /\ Len(u) = Len(node) + 1
        /\ Child(u, d, name) = Len(u)
        /\ u[Len(u)] = NewNode(type)
    BY <1>2, <1>3, MadeFacts
  <1>5. IsPath(path)
    BY PathFacts
  <1>6. n \in Nat \ {0} /\ n \in 1 .. n /\ n - 1 \in 0 .. n /\ Len(path) \in Nat
    BY <1>1, <1>5 DEF IsPath
  <1>7. d # NoNode
    BY <1>2 DEF NoNode
  <1>8. Trail(u, path)[n - 1] = d
    BY <1>1, <1>4, <1>6, <1>7, TrailStays
  <1>9. Trail(u, path)[n] = Below(u, d, name)
    BY <1>1, <1>4, <1>6, <1>8, TrailFacts
  <1>10. u[d].type = "directory"
    BY <1>2, <1>4 DEF Grows
  <1>11. Below(u, d, name) = Len(u)
    BY <1>4, <1>7, <1>10 DEF Below
  <1> QED
    BY <1>1, <1>4, <1>9, <1>11

\* A path keeps its vnode when the table grows.
LEMMA PathsStay ==
    ASSUME IInv, IInv', Grows(node, node'), NEW path \in Paths, Resolve(path) # NoNode
    PROVE  Resolve(path)' = Resolve(path)
  <1>1. IsPath(path) /\ Tidy(node) /\ Tidy(node')
    BY PathFacts DEF IInv, TreeInv
  <1>2. PICK n : n = Len(path)
    OBVIOUS
  <1>3. n \in Nat /\ n \in 0 .. n /\ Len(path) \in Nat
    BY <1>1, <1>2 DEF IsPath
  <1>4. Trail(node, path)[n] # NoNode
    BY <1>2 DEF Resolve
  <1>5. Trail(node', path)[n] = Trail(node, path)[n]
    BY <1>1, <1>2, <1>3, <1>4, TrailStays
  <1> QED
    BY <1>2, <1>5 DEF Resolve

\* vfs_open ends at the vnode of the path, or at the file it has made in the gap.
LEMMA OpenWalkEnds ==
    ASSUME Tidy(node), NEW path \in Paths, NEW creat \in BOOLEAN
    PROVE  /\ Resolve(path) # NoNode =>
                 OpenWalk(path, creat).table = node /\ OpenWalk(path, creat).at = Resolve(path)
           /\ (Gap(path) /\ creat) =>
                 LET u == Made(node, Trail(node, path)[Len(path) - 1], path[Len(path)], "file")
                 IN  OpenWalk(path, creat).table = u /\ OpenWalk(path, creat).at = Len(u)
  <1>1. IsPath(path)
    BY PathFacts
  <1>2. PICK n, g : n = Len(path) /\ g = OpenSteps(path, creat)
    OBVIOUS
  <1>3. n \in Nat \ {0} /\ n \in 1 .. n /\ n \in 0 .. n /\ n - 1 \in 0 .. n /\ n - 1 \in 0 .. n - 1
        /\ Len(path) \in Nat
    BY <1>1, <1>2 DEF IsPath
  <1>4. OpenWalk(path, creat) = g[n]
    BY <1>2 DEF OpenWalk
  <1>5. ASSUME Resolve(path) # NoNode PROVE g[n].table = node /\ g[n].at = Resolve(path)
    <2>1. Trail(node, path)[n] # NoNode /\ Resolve(path) = Trail(node, path)[n]
      BY <1>2, <1>5 DEF Resolve
    <2> QED
      BY <1>1, <1>2, <1>3, <2>1, OpenGoes
  <1>6. ASSUME Gap(path), creat,
               NEW u, u = Made(node, Trail(node, path)[Len(path) - 1], path[Len(path)], "file")
        PROVE  g[n].table = u /\ g[n].at = Len(u)
    <2>1. PICK d, name, z : d = Trail(node, path)[n - 1] /\ name = path[n] /\ z = g[n - 1]
      OBVIOUS
    <2>2. /\ d \in 1 .. Len(node) /\ node[d].type # "file"
          /\ Child(node, d, name) = NoNode /\ name \in Labels
      BY <1>2, <1>6, <2>1 DEF Gap
    <2>3. d # NoNode
      BY <2>2 DEF NoNode
    <2>4. z \in States(creat) /\ z.table = node /\ z.at = d
      BY <1>1, <1>2, <1>3, <2>1, <2>3, OpenGoes
    <2>5. u # node /\ u = Made(node, d, name, "file")
      BY <1>2, <1>6, <2>1, GapFilled DEF Types
    <2>6. PICK s : s = OpenStep(z, name)
      OBVIOUS
    <2>7. s.table = u /\ s.at = Len(u)
      <3>1. PICK w : w = Made(node, d, name, "file")
        OBVIOUS
      <3>2. (Child(node, d, name) = NoNode /\ w # node) => s.table = w /\ s.at = Len(w)
        <4>1. z \in States(TRUE)
          <5>1. creat = TRUE
            BY <1>6
          <5> QED
            BY <2>4, <5>1, Zenon
        <4>2. z.at # NoNode /\ z.table[z.at].type # "file"
          BY <2>2, <2>3, <2>4
        <4>3. Creates(z.table, z.at, name, s)
          BY <2>2, <2>6, <4>1, <4>2, OpenCreates, Zenon
        <4>4. Creates(node, d, name, s)
          BY <2>4, <4>3
        <4> QED
          BY <3>1, <4>4, Zenon DEF Creates
      <3>3. w = u
        BY <2>5, <3>1
      <3>4. w # node
        BY <2>5, <3>3
      <3> QED
        BY <2>2, <3>2, <3>3, <3>4
    <2>8. g[n] = OpenStep(z, name)
      <3>1. \A k \in 1 .. Len(path) : path[k] \in Labels
        BY <1>1 DEF IsPath
      <3> QED
        BY <1>2, <1>3, <2>1, <3>1, OpenStepsFacts
    <2> QED
      BY <2>6, <2>7, <2>8
  <1> QED
    BY <1>4, <1>5, <1>6

\* What vfs_open does to a path that leads to a vnode, and to one with a gap at its end.
LEMMA OpenFollows ==
    ASSUME IInv, IInv', NEW path \in Paths, NEW creat \in BOOLEAN, VfsOpen(path, creat)
    PROVE  /\ Resolve(path) # NoNode => node' = node /\ Last(files').vnode = Resolve(path)
           /\ (Resolve(path) = NoNode /\ creat /\ HasRoom(Front(path))) =>
                 /\ Len(node') = Len(node) + 1
                 /\ Last(files').vnode = Resolve(path)'
                 /\ node'[Resolve(path)'].type = "file"
  <1>1. PICK end, v : end = OpenWalk(path, creat) /\ v = end.at
    OBVIOUS
  <1>2. node' = end.table /\ (v # NoNode => files' = Append(files, [vnode |-> v, f_pos |-> 0]))
    BY <1>1 DEF VfsOpen
  <1>3. Tidy(node) /\ files \in Seq(Files)
    BY DEF IInv, TreeInv, Opened
  <1>4. ASSUME v # NoNode PROVE Last(files').vnode = v
    <2>1. PICK e : e = [vnode |-> v, f_pos |-> 0]
      OBVIOUS
    <2>3. files' = Append(files, e) /\ Len(files) \in Nat
      BY <1>2, <1>3, <1>4, <2>1
    <2>4. Len(files') = Len(files) + 1 /\ files'[Len(files) + 1] = e
      BY <1>3, <2>3
    <2> QED
      BY <2>1, <2>4 DEF Last
  <1>5. ASSUME Resolve(path) # NoNode
        PROVE  node' = node /\ Last(files').vnode = Resolve(path)
    <2>1. end.table = node /\ v = Resolve(path)
      BY <1>1, <1>3, <1>5, OpenWalkEnds
    <2> QED
      BY <1>2, <1>4, <1>5, <2>1
  <1>6. ASSUME Resolve(path) = NoNode, creat, HasRoom(Front(path))
        PROVE  /\ Len(node') = Len(node) + 1
               /\ Last(files').vnode = Resolve(path)'
               /\ node'[Resolve(path)'].type = "file"
    <2>1. Gap(path)
      BY <1>3, <1>6, GapFacts
    <2>2. PICK u : u = Made(node, Trail(node, path)[Len(path) - 1], path[Len(path)], "file")
      OBVIOUS
    <2>3. end.table = u /\ v = Len(u)
      BY <1>1, <1>3, <1>6, <2>1, <2>2, OpenWalkEnds
    <2>4. PICK type : type = "file"
      OBVIOUS
    <2>5. /\ Tidy(u) /\ Len(u) = Len(node) + 1
          /\ Trail(u, path)[Len(path)] = Len(u)
          /\ u[Len(u)] = NewNode(type)
      BY <1>3, <2>1, <2>2, <2>4, GapFilled DEF Types
    <2>6. Resolve(path)' = Len(u) /\ node' = u
      BY <1>2, <2>3, <2>5 DEF Resolve
    <2>7. v # NoNode
      <3>1. Len(u) \in Nat /\ Len(u) >= 1
        BY <2>5 DEF Tidy, Typed
      <3> QED
        BY <2>3, <3>1 DEF NoNode
    <2>8. u[Len(u)].type = "file"
      BY <2>4, <2>5 DEF NewNode
    <2> QED
      BY <1>4, <2>3, <2>5, <2>6, <2>7, <2>8
  <1> QED
    BY <1>5, <1>6

\* What vfs_mkdir does to a path with a gap at its end.
LEMMA MkdirFollows ==
    ASSUME IInv, NEW path \in Paths, VfsMkdir(path), Resolve(path) = NoNode, HasRoom(Front(path))
    PROVE  /\ Len(node') = Len(node) + 1
           /\ Resolve(path)' = Len(node')
           /\ node'[Len(node')] = NewNode("directory")
  <1>1. Tidy(node) /\ IsPath(path)
    BY PathFacts DEF IInv, TreeInv
  <1>2. Gap(path)
    BY <1>1, GapFacts
  <1>3. PICK n, d, g : n = Len(path) /\ d = Trail(node, path)[n - 1] /\ g = Reach(path)
    OBVIOUS
  <1>4. n \in Nat \ {0} /\ n \in 1 .. n /\ n - 1 \in 0 .. n /\ n - 1 \in 0 .. n - 1 /\ Len(path) \in Nat
    BY <1>1, <1>3 DEF IsPath
  <1>5. d \in 1 .. Len(node) /\ node[d].type = "directory" /\ Child(node, d, path[n]) = NoNode
    BY <1>2, <1>3 DEF Gap
  <1>6. d # NoNode
    BY <1>5 DEF NoNode
  <1>7. \A k \in 0 .. n - 1 : g[k] = Trail(node, path)[k]
    BY <1>1, <1>3, <1>4, <1>6, ReachGoes
  <1>8. \A k \in 0 .. n - 1 : Trail(node, path)[k] # NoNode
    BY <1>1, <1>3, <1>4, <1>6, WayFacts
  <1>9. g[n] = Follow(d, path[n])
    <2>1. g[n] = Follow(g[n - 1], path[n])
      BY <1>1, <1>3, <1>4, ReachFacts
    <2> QED
      BY <1>3, <1>4, <1>7, <2>1
  <1>10. g[n] = NoNode
    BY <1>5, <1>6, <1>9 DEF Follow
  <1>11. {k \in 1 .. Len(path) : Reach(path)[k] = NoNode} = {n}
    <2>1. ASSUME NEW k \in 1 .. n, g[k] = NoNode PROVE k = n
      <3>1. CASE k = n
        BY <3>1
      <3>2. CASE k # n
        <4>1. k \in 0 .. n - 1
          BY <1>4, <3>2
        <4> QED
          BY <1>7, <1>8, <2>1, <4>1
      <3> QED
        BY <3>1, <3>2
    <2> QED
      BY <1>3, <1>4, <1>10, <2>1
  <1>12. Min({n}) = n
    <2>1. {n} \in SUBSET Nat /\ {n} # {}
      BY <1>4
    <2>2. Min({n}) \in {n}
      BY <2>1, MinFacts
    <2> QED
      BY <2>2
  <1>13. node' = Made(node, d, path[n], "directory")
    <2>1. PICK missing : missing = {k \in 1 .. Len(path) : Reach(path)[k] = NoNode}
      OBVIOUS
    <2>2. missing = {n} /\ missing # {} /\ Min(missing) = n
      BY <1>11, <1>12, <2>1
    <2>3. node' = Made(node, MkdirParent(path, Min(missing)), path[Min(missing)], "directory")
      BY <2>1, <2>2 DEF VfsMkdir
    <2>4. MkdirParent(path, n) = d
      BY <1>3, <1>4, <1>7 DEF MkdirParent
    <2> QED
      BY <2>2, <2>3, <2>4
  <1>14. PICK type : type = "directory"
    OBVIOUS
  <1>15. /\ Len(node') = Len(node) + 1
         /\ Trail(node', path)[Len(path)] = Len(node')
         /\ node'[Len(node')] = NewNode(type)
    <2>1. type \in Types /\ node' = Made(node, Trail(node, path)[Len(path) - 1], path[Len(path)], type)
      BY <1>3, <1>13, <1>14 DEF Types
    <2> QED
      BY <1>1, <1>2, <2>1, GapFilled
  <1> QED
    BY <1>14, <1>15 DEF Resolve

\* What the mount has done when it ends.
LEMMA MountFollows ==
    ASSUME IInv, MountDone
    PROVE  /\ addr = C!HeaderAt(archive)[Len(archive) + 1]
           /\ HasRoom(<<Dir>>) =>
                 \A k \in DOMAIN archive :
                     Tokens(archive[k].name) # <<>> =>
                         Resolve(<<Dir, Head(Tokens(archive[k].name))>>) # NoNode
  <1>1. addr # Idle /\ C!RecordAt(archive, addr) = 0
    BY DEF MountDone
  <1>2. Tidy(node) /\ Shaped(archive)
    BY ArchiveShaped DEF IInv, TreeInv
  <1>3. PICK m \in 1 .. Len(archive) + 1 : addr = C!HeaderAt(archive)[m] /\ Copied(m)
    BY <1>1 DEF IInv, MountInv
  <1>4. m = Len(archive) + 1 /\ DOMAIN archive = 1 .. Len(archive) /\ Len(archive) \in Nat
    <2>1. Len(archive) \in Nat /\ DOMAIN archive = 1 .. Len(archive)
      BY <1>2 DEF Shaped
    <2>2. m \notin 1 .. Len(archive)
      <3> SUFFICES ASSUME m \in 1 .. Len(archive) PROVE FALSE
        OBVIOUS
      <3>1. C!RecordAt(archive, C!HeaderAt(archive)[m]) = m
        BY <1>2, RecordAtFacts
      <3> QED
        BY <1>1, <1>3, <2>1, <3>1
    <2> QED
      BY <2>1, <2>2
  <1>5. ASSUME HasRoom(<<Dir>>), NEW k \in DOMAIN archive
        PROVE  Tokens(archive[k].name) # <<>> =>
                   Resolve(<<Dir, Head(Tokens(archive[k].name))>>) # NoNode
    <2>1. Room(node) /\ k \in 1 .. m - 1
      BY <1>2, <1>4, <1>5, RoomFacts
    <2>2. Mounted(node, archive[k].name)
      BY <1>3, <2>1 DEF Copied
    <2> QED
      BY <1>2, <2>2, RoomFacts DEF Mounted
  <1> QED
    BY <1>3, <1>4, <1>5

-----------------------------------------------------------------------------
(* The theorems *)

\* Whatever is called, and however far the mount has come: the vnodes are a tree
\* with unique names, the opened files are files of it, and the records before the
\* one that the walk has come to are in the directory that has still room.
THEOREM TreeInvariant == InitramfsSpec => []IInv
  <1>1. IInv /\ [InitramfsNext]_initramfs_vars => IInv'
    BY InitramfsStep
  <1> QED
    BY InitInv, <1>1, PTL DEF InitramfsSpec

\* Entries lead to vnodes and have names, opened files are vnodes, f_pos stays
\* where the memory is looked at.
THEOREM TypeCorrect == InitramfsSpec => []TypeOK
  BY TreeInvariant, TypesFollow, PTL

\* tmpfs_lookup finds the only entry of a name.
THEOREM NamesStayUnique == InitramfsSpec => []NamesUnique
  BY TreeInvariant, UniqueFollows, PTL

\* tmpfs_create and tmpfs_mkdir keep the vnodes a tree.
THEOREM StaysATree == InitramfsSpec => []TreeShaped
  BY TreeInvariant, TreeFollows, PTL

\* get_cpio_file finds the data of that very record, whatever the lengths of names
\* and data in the archive.
THEOREM LookupExact == InitramfsSpec => []LookupFinds
  BY TreeInvariant, LookupFollows, PTL

\* No call takes from a path the vnode it leads to.
THEOREM PathsKeep == InitramfsSpec => PathsStable
  <1>1. IInv /\ IInv' /\ [InitramfsNext]_initramfs_vars =>
           [\A path \in Paths : Resolve(path) # NoNode => Resolve(path)' = Resolve(path)]_vars
    BY InitramfsStep, PathsStay
  <1> QED
    BY TreeInvariant, <1>1, PTL DEF InitramfsSpec, PathsStable

\* vfs_open gives a file of the vnode that the path leads to, or makes that one file.
THEOREM OpenExact == InitramfsSpec => OpenFinds
  <1>1. IInv /\ IInv' =>
           [\A path \in Paths, creat \in BOOLEAN :
               VfsOpen(path, creat) =>
                   /\ Resolve(path) # NoNode =>
                         node' = node /\ Last(files').vnode = Resolve(path)
                   /\ (Resolve(path) = NoNode /\ creat /\ HasRoom(Front(path))) =>
                         /\ Len(node') = Len(node) + 1
                         /\ Last(files').vnode = Resolve(path)'
                         /\ node'[Resolve(path)'].type = "file"]_vars
    BY OpenFollows
  <1> QED
    BY TreeInvariant, <1>1, PTL DEF OpenFinds

\* vfs_mkdir makes the directory that is missing and nothing else.
THEOREM MkdirExact == InitramfsSpec => MkdirMakes
  <1>1. IInv =>
           [\A path \in Paths :
               (VfsMkdir(path) /\ Resolve(path) = NoNode /\ HasRoom(Front(path))) =>
                   /\ Len(node') = Len(node) + 1
                   /\ Resolve(path)' = Len(node')
                   /\ node'[Len(node')] = NewNode("directory")]_vars
    BY MkdirFollows
  <1> QED
    BY TreeInvariant, <1>1, PTL DEF MkdirMakes

\* mount_initramfs comes to every record, and leaves in its directory, as long as that
\* has room, a vnode for the first name that strtok cuts off each.
THEOREM MountIsComplete == InitramfsSpec => MountComplete
  <1>1. IInv =>
           [MountDone =>
               /\ addr = C!HeaderAt(archive)[Len(archive) + 1]
               /\ HasRoom(<<Dir>>) =>
                     \A k \in DOMAIN archive :
                         Tokens(archive[k].name) # <<>> =>
                             Resolve(<<Dir, Head(Tokens(archive[k].name))>>) # NoNode
           ]_initramfs_vars
    BY MountFollows
  <1> QED
    BY TreeInvariant, <1>1, PTL DEF MountComplete

=============================================================================
