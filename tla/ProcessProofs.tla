---------------------------- MODULE ProcessProofs ----------------------------
(***************************************************************************)
(* Proofs about Process: every thread stays on its own kernel stack, for   *)
(* any number of threads, any batch, any depth of calls and any programs,  *)
(* when the boot thread calls no fork and no interrupt comes on the way    *)
(* out of the kernel.                                                      *)
(***************************************************************************)
EXTENDS Process, DataLemmas

(* The inductive invariant *)

\* Where a thread can be outside of the kernel.
Origins(c) == IF c = Boot THEN {"shell", "create"} ELSE Programs

\* A stack pointer outside of the kernel.
Within(c, sp) == sp \in Top(c) - Depth .. Top(c)

\* At sp is the frame of a thread that came into the kernel from outside.
FrameAt(c, sp, m) ==
    /\ Within(c, sp + 1)
    /\ m[sp].kind = "frame"
    /\ m[sp].pc \in Origins(c)

\* At sp is such a frame, or that of an interrupt in a system call, above it.
OnFrame(c, sp, m) ==
    \/ FrameAt(c, sp, m)
    \/ /\ c # Boot
       /\ m[sp].kind = "frame"
       /\ m[sp].pc = "uart_wait"
       /\ FrameAt(c, sp + 1, m)

\* The thread c can go on from its context x.
Saved(c, x, m) ==
    \/ c # Boot /\ x.lr = "task" /\ x.sp = Top(c)
    \/ x.lr = "schedule" /\ Within(c, x.sp + 1) /\ m[x.sp].pc \in Origins(c)
    \/ x.lr = "load_all" /\ OnFrame(c, x.sp, m)

\* The thread c runs, with the registers r.
Running(c, r, m) ==
    \/ r.pc \in Origins(c) /\ Within(c, r.sp)
    \/ c # Boot /\ r.pc \in Calls /\ r.masked /\ FrameAt(c, r.sp, m)
    \/ c # Boot /\ r.pc = "uart_wait" /\ FrameAt(c, r.sp, m)
    \/ r.pc = "load_all" /\ OnFrame(c, r.sp, m)
    \/ r.pc = "eret" /\ r.elr \in Origins(c) /\ Within(c, r.sp)
    \/ c # Boot /\ r.pc = "eret" /\ r.elr = "uart_wait" /\ FrameAt(c, r.sp, m)

\* The tids given so far are those of the threads made, and there are enough for
\* the rest of a thread command.
Numbered ==
    /\ cur_tid + left <= MaxTid
    /\ \A t \in Threads : status[t] # "none" <=> t <= cur_tid

Exists(c) == c = Boot \/ status[c] # "none"

IInv ==
    /\ TypeOK
    /\ Numbered
    /\ Exists(cur)
    /\ cur # Boot => queue # <<>>
    /\ Running(cur, cpu, mem)
    /\ \A c \in Contexts \ {cur} : Exists(c) => Saved(c, context[c], mem)

-----------------------------------------------------------------------------
(* The memory *)

Cells == [kind : {"none", "local", "return", "frame"},
          pc : Places \cup {""}, x0 : -1 .. MaxTid, masked : BOOLEAN]
Saves == [lr : {"", "shell", "task", "load_all", "schedule"}, sp : 0 .. KStack(MaxTid)]
Region(c) == Top(c) - StackSize .. Top(c) - 1

\* Between the starts of two regions of a size lies at least that size.
LEMMA Distance ==
    ASSUME NEW s \in Nat, NEW a \in Nat, NEW b \in Nat, a < b
    PROVE  a * s <= b * s - s
  <1>1. PICK k \in Nat : b = a + 1 + k
    <2>1. b - a - 1 \in Nat /\ b = a + 1 + (b - a - 1)
      OBVIOUS
    <2> QED
      BY <2>1
  <1>2. b * s = a * s + s + k * s
    BY <1>1
  <1>3. k * s >= 0 /\ a * s \in Nat /\ k * s \in Nat
    OBVIOUS
  <1> QED
    BY <1>2, <1>3

\* The kernel stacks are in the memory, and apart from each other.
LEMMA Layout ==
    /\ StackSize \in Nat /\ StackSize = Depth + 2 /\ Depth \in Nat
    /\ KStack(MaxTid) \in Nat
    /\ \A c \in Contexts : Top(c) \in Nat /\ StackSize <= Top(c) /\ Top(c) <= KStack(MaxTid)
    /\ \A c, d \in Contexts : c # d => Top(c) <= Top(d) - StackSize \/ Top(d) <= Top(c) - StackSize
    /\ \A t \in Threads : KStack(t) = Top(t) /\ t # Boot /\ t \in Contexts
  <1>1. StackSize \in Nat /\ StackSize = Depth + 2 /\ Depth \in Nat
    BY BoundsAssumption DEF StackSize
  <1> DEFINE S == StackSize
  <1>2. \A t \in Nat : t * S \in Nat /\ KStack(t) = 3 * S + t * S /\ KStack(t) \in Nat
    BY <1>1 DEF KStack, PageBase
  <1>3. MaxTid \in Nat \ {0}
    BY BoundsAssumption
  <1>4. \A t \in Threads : t \in Nat /\ t # Boot /\ t <= MaxTid /\ t \in Contexts /\ Top(t) = KStack(t)
    BY <1>3 DEF Threads, Boot, Contexts, Top
  <1>5. \A c \in Contexts : c = Boot \/ c \in Threads
    BY DEF Contexts
  <1>6. Top(Boot) = S
    BY DEF Top, BootTop
  <1>7. \A t \in Threads : Top(t) \in Nat /\ Top(t) >= 3 * S
    BY <1>1, <1>2, <1>4
  <1>8. \A t, u \in Threads : t < u => Top(t) <= Top(u) - S
    <2> SUFFICES ASSUME NEW t \in Threads, NEW u \in Threads, t < u PROVE Top(t) <= Top(u) - S
      OBVIOUS
    <2>1. t \in Nat /\ u \in Nat
      BY <1>4
    <2>2. t * S <= u * S - S
      BY <1>1, <2>1, Distance
    <2> QED
      BY <1>1, <1>2, <1>4, <2>1, <2>2
  <1>9. \A t \in Threads : Top(t) <= KStack(MaxTid)
    <2> SUFFICES ASSUME NEW t \in Threads PROVE Top(t) <= KStack(MaxTid)
      OBVIOUS
    <2>1. CASE t = MaxTid
      BY <1>2, <1>3, <1>4, <2>1
    <2>2. CASE t # MaxTid
      <3>1. MaxTid \in Threads /\ t < MaxTid
        BY <1>3, <1>4, <2>2 DEF Threads
      <3> QED
        BY <1>1, <1>4, <1>7, <1>8, <3>1
    <2> QED
      BY <2>1, <2>2
  <1>10. S <= KStack(MaxTid) /\ KStack(MaxTid) \in Nat
    <2>1. PICK k, m : k = KStack(MaxTid) /\ m = MaxTid * S
      OBVIOUS
    <2>2. MaxTid \in Nat
      BY <1>3
    <2>3. m \in Nat /\ k = 3 * S + m
      BY <1>2, <2>1, <2>2
    <2>4. S <= k /\ k \in Nat
      BY <1>1, <2>3
    <2> QED
      BY <2>1, <2>4
  <1>11. \A c \in Contexts : Top(c) \in Nat /\ S <= Top(c) /\ Top(c) <= KStack(MaxTid)
    BY <1>1, <1>5, <1>6, <1>7, <1>9, <1>10
  <1> HIDE DEF S
  <1>12. ASSUME NEW c \in Contexts, NEW d \in Contexts, c # d
         PROVE  Top(c) <= Top(d) - S \/ Top(d) <= Top(c) - S
    <2>1. CASE c = Boot
      BY <1>1, <1>5, <1>6, <1>7, <1>12, <2>1 DEF S
    <2>2. CASE d = Boot
      BY <1>1, <1>5, <1>6, <1>7, <1>12, <2>2 DEF S
    <2>3. CASE c \in Threads /\ d \in Threads
      <3>1. c < d \/ d < c
        BY <1>4, <1>12, <2>3
      <3> QED
        BY <1>8, <2>3, <3>1
    <2> QED
      BY <1>5, <2>1, <2>2, <2>3
  <1> QED
    BY <1>1, <1>4, <1>10, <1>11, <1>12 DEF S

\* The stacks of the contexts lie apart.
LEMMA Regions ==
    /\ \A c \in Contexts : Region(c) \subseteq Addresses
    /\ \A c, d \in Contexts : c # d => Region(c) \cap Region(d) = {}
    /\ \A t \in Threads : Page(t) = Region(t)
    /\ \A t \in Threads : Page(t) \subseteq Addresses
  <1>1. ASSUME NEW c \in Contexts PROVE Region(c) \subseteq Addresses
    BY Layout DEF Region, Addresses
  <1>2. ASSUME NEW c \in Contexts, NEW d \in Contexts, c # d PROVE Region(c) \cap Region(d) = {}
    <2>1. PICK s, x, y : s = StackSize /\ x = Top(c) /\ y = Top(d)
      OBVIOUS
    <2>2. s \in Nat /\ x \in Nat /\ y \in Nat /\ (x <= y - s \/ y <= x - s)
      BY <1>2, <2>1, Layout
    <2> QED
      BY <2>1, <2>2 DEF Region
  <1>3. ASSUME NEW t \in Threads PROVE Page(t) = Region(t) /\ t \in Contexts
    BY Layout DEF Page, Region
  <1> QED
    BY <1>1, <1>2, <1>3

\* A stack pointer outside of the kernel, and the two cells below it.
LEMMA WithinFacts ==
    ASSUME NEW c \in Contexts, NEW sp \in Int, Within(c, sp)
    PROVE  /\ sp \in 0 .. KStack(MaxTid) /\ sp - 1 \in 0 .. KStack(MaxTid)
           /\ sp \in Top(c) - StackSize .. Top(c)
           /\ sp - 1 \in Region(c) /\ sp - 2 \in Region(c)
  <1>1. PICK s, x, d, k : s = StackSize /\ x = Top(c) /\ d = Depth /\ k = KStack(MaxTid)
    OBVIOUS
  <1>2. s \in Nat /\ s = d + 2 /\ d \in Nat /\ x \in Nat /\ s <= x /\ x <= k /\ k \in Nat
    BY <1>1, Layout
  <1>3. x - d <= sp /\ sp <= x
    BY <1>1, <1>2 DEF Within
  <1> QED
    BY <1>1, <1>2, <1>3 DEF Region

\* A frame that a context is to load lies on its stack, with the word above it.
LEMMA FrameFacts ==
    ASSUME NEW c \in Contexts, NEW sp \in Int, NEW m
    PROVE  /\ FrameAt(c, sp, m) => sp \in Region(c) /\ sp - 1 \in Region(c)
           /\ OnFrame(c, sp, m) => sp \in Region(c) /\ m[sp].kind = "frame"
  <1>1. ASSUME FrameAt(c, sp, m) PROVE sp \in Region(c) /\ sp - 1 \in Region(c)
    <2>1. sp + 1 \in Int /\ sp + 1 - 1 = sp /\ sp + 1 - 2 = sp - 1
      OBVIOUS
    <2> QED
      BY <1>1, <2>1, WithinFacts DEF FrameAt
  <1>2. ASSUME FrameAt(c, sp + 1, m) PROVE sp \in Region(c)
    <2>1. sp + 2 \in Int /\ sp + 2 - 2 = sp /\ sp + 1 + 1 = sp + 2
      OBVIOUS
    <2> QED
      BY <1>2, <2>1, WithinFacts DEF FrameAt
  <1> QED
    BY <1>1, <1>2 DEF FrameAt, OnFrame

\* An address in the region of a context is in the range of sp, and below its top.
LEMMA RegionSp ==
    ASSUME NEW c \in Contexts, NEW sp \in Region(c)
    PROVE  /\ sp \in Int /\ sp \in Addresses /\ sp \in 0 .. KStack(MaxTid)
           /\ sp + 1 \in 0 .. KStack(MaxTid)
           /\ sp \in Top(c) - StackSize .. Top(c) /\ sp < Top(c)
  <1>1. PICK s, x, k : s = StackSize /\ x = Top(c) /\ k = KStack(MaxTid)
    OBVIOUS
  <1>2. s \in Nat /\ x \in Nat /\ s <= x /\ x <= k /\ k \in Nat
    BY <1>1, Layout
  <1>3. x - s <= sp /\ sp <= x - 1 /\ sp \in Int
    BY <1>1, <1>2 DEF Region
  <1> QED
    BY <1>1, <1>2, <1>3 DEF Addresses

\* What is saved of a thread does not depend on the memory outside its region.
LEMMA SavedElsewhere ==
    ASSUME NEW c \in Contexts, NEW m, NEW n, NEW x, x.sp \in Int,
           \A a \in Region(c) : n[a] = m[a], Saved(c, x, m)
    PROVE  Saved(c, x, n)
  <1>1. PICK sp \in Int : sp = x.sp
    OBVIOUS
  <1>2. ASSUME NEW a \in Int, FrameAt(c, a, m) PROVE FrameAt(c, a, n)
    <2>1. n[a] = m[a]
      BY <1>2, FrameFacts
    <2> QED
      BY <1>2, <2>1 DEF FrameAt
  <1>3. ASSUME OnFrame(c, sp, m) PROVE OnFrame(c, sp, n)
    <2>1. n[sp] = m[sp]
      BY <1>3, FrameFacts
    <2>2. sp + 1 \in Int
      OBVIOUS
    <2> QED
      BY <1>2, <1>3, <2>1, <2>2 DEF OnFrame
  <1>4. ASSUME Within(c, sp + 1) PROVE n[sp] = m[sp]
    <2>1. sp + 1 \in Int /\ sp + 1 - 1 = sp
      OBVIOUS
    <2> QED
      BY <1>4, <2>1, WithinFacts
  <1> QED
    BY <1>1, <1>3, <1>4 DEF Saved

\* Where the stack pointer of a thread that waits, or that runs, can be.
LEMMA SavedFacts ==
    ASSUME NEW c \in Contexts, NEW m, NEW x, x.sp \in Int, Saved(c, x, m)
    PROVE  /\ x.sp \in Top(c) - StackSize .. Top(c)
           /\ x.lr = "load_all" => x.sp < Top(c) /\ m[x.sp].kind = "frame"
  <1>1. PICK sp \in Int : sp = x.sp
    OBVIOUS
  <1>2. Top(c) \in Nat /\ StackSize \in Nat
    BY Layout
  <1>3. ASSUME Within(c, sp + 1) PROVE sp \in Top(c) - StackSize .. Top(c)
    <2>1. sp + 1 \in Int /\ sp + 1 - 1 = sp
      OBVIOUS
    <2>2. sp \in Region(c)
      BY <1>3, <2>1, WithinFacts
    <2> QED
      BY <2>2, RegionSp
  <1>4. ASSUME OnFrame(c, sp, m)
        PROVE  sp \in Top(c) - StackSize .. Top(c) /\ sp < Top(c) /\ m[sp].kind = "frame"
    BY <1>4, FrameFacts, RegionSp
  <1> QED
    BY <1>1, <1>2, <1>3, <1>4 DEF Saved

\* The stack pointer of a context that runs is between its top and its bottom.
LEMMA RunningFacts ==
    ASSUME NEW c \in Contexts, NEW m, NEW r, r.sp \in Int, Running(c, r, m)
    PROVE  r.sp \in Top(c) - StackSize .. Top(c)
  <1>1. PICK sp \in Int : sp = r.sp
    OBVIOUS
  <1>2. ASSUME Within(c, sp) PROVE sp \in Top(c) - StackSize .. Top(c)
    BY <1>2, WithinFacts
  <1>3. ASSUME FrameAt(c, sp, m) \/ OnFrame(c, sp, m) PROVE sp \in Top(c) - StackSize .. Top(c)
    BY <1>3, FrameFacts, RegionSp
  <1> QED
    BY <1>1, <1>2, <1>3 DEF Running

-----------------------------------------------------------------------------
(* schedule *)

Regs == [pc : Places, x0 : -1 .. MaxTid, sp : 0 .. KStack(MaxTid), masked : BOOLEAN,
         elr : Places \cup {""}, spsr : BOOLEAN]

\* What cpu_context may hold, before it was first saved too.
LEMMA SavesFacts == Unsaved \in Saves /\ \A x \in Saves : x.sp \in Int
  <1>1. PICK k \in Nat : k = KStack(MaxTid)
    BY Layout
  <1>2. Saves = [lr : {"", "shell", "task", "load_all", "schedule"}, sp : 0 .. k]
    BY <1>1 DEF Saves
  <1>3. [lr |-> "", sp |-> 0] \in Saves
    <2>1. 0 \in 0 .. k
      OBVIOUS
    <2> QED
      BY <1>2, <2>1, Zenon
  <1>4. ASSUME NEW x \in Saves PROVE x.sp \in Int
    <2>1. x.sp \in 0 .. k
      BY <1>2
    <2> QED
      BY <2>1
  <1> QED
    BY <1>3, <1>4 DEF Unsaved

\* The places differ from each other, and the threads from the boot thread.
LEMMA PlaceFacts ==
    /\ \A c \in Contexts : Origins(c) \subseteq Places
    /\ \A c \in Contexts : \A p \in Origins(c) :
           p \notin SystemCalls /\ p # "uart_wait" /\ p # "load_all" /\ p # "eret"
    /\ \A c \in Contexts : c # Boot => c \in Threads /\ Origins(c) = Programs /\ "task" \in Programs
    /\ Origins(Boot) = {"shell", "create"}
    /\ \A p \in Programs : p # "shell" /\ p # "create"
    /\ Calls \subseteq SystemCalls
    /\ \A n \in SystemCalls : n # "uart_wait" /\ n # "load_all" /\ n # "eret" /\ n # "shell" /\ n # "create"
    /\ Kernel \subseteq Places /\ Calls \subseteq Places /\ Programs \subseteq Places
    /\ Boot \in Contexts /\ Boot \notin Threads /\ Boot \in -1 .. MaxTid
    /\ \A t \in Threads : t \in -1 .. MaxTid /\ t \in Nat
    /\ Junk \in -1 .. MaxTid /\ Size \in -1 .. MaxTid /\ 0 \in -1 .. MaxTid
  BY CallsAssumption, ImagesAssumption, BoundsAssumption
  DEF SystemCalls, Origins, Contexts, Threads, Boot, Places, Programs, Kernel, Junk, Size

\* The first runnable thread of a queue is one, and is on the queue.
LEMMA FirstFacts ==
    ASSUME NEW q \in Seq(Threads)
    PROVE  \/ First(q) = 0
           \/ /\ First(q) \in 1 .. Len(q)
              /\ q[First(q)] \in Threads
              /\ status[q[First(q)]] = "RUN"
              /\ RemoveAt(q, First(q)) \in Seq(Threads)
  <1>1. CASE Runnable(q) = {}
    BY <1>1 DEF First
  <1>2. CASE Runnable(q) # {}
    <2>1. Runnable(q) \subseteq 1 .. Len(q) /\ \A i \in Runnable(q) : status[q[i]] = "RUN"
      BY DEF Runnable
    <2>2. Runnable(q) \in SUBSET Nat
      BY <2>1
    <2>3. \E i \in Runnable(q) : \A j \in Runnable(q) : i <= j
      BY <1>2, <2>2, LeastElement
    <2>4. First(q) \in Runnable(q)
      BY <1>2, <2>3 DEF First
    <2>5. PICK i \in 1 .. Len(q) : i = First(q) /\ status[q[i]] = "RUN"
      BY <2>1, <2>4
    <2>6. SubSeq(q, 1, i - 1) \in Seq(Threads) /\ SubSeq(q, i + 1, Len(q)) \in Seq(Threads)
      OBVIOUS
    <2>7. RemoveAt(q, i) \in Seq(Threads)
      BY <2>6 DEF RemoveAt
    <2> QED
      BY <2>5, <2>7
  <1> QED
    BY <1>1, <1>2

\* What idle leaves of the queue is a queue.
LEMMA LivingFacts ==
    ASSUME queue \in Seq(Threads)
    PROVE  Living[Len(queue)] \in Seq(Threads)
  <1>0. PICK n, T, z : n = Len(queue) /\ T = Seq(Threads) /\ z = <<>>
    OBVIOUS
  <1> DEFINE Is(f) == f = [k \in 0 .. n |-> IF k = 0 THEN z ELSE Keep(f[k - 1], queue[k])]
             G == [k \in 1 .. n |-> [s \in T |-> Keep(s, queue[k])]]
  <1>1. n \in Nat /\ z \in T
    BY <1>0
  <1>2. \A k \in 1 .. n : \A s \in T : Keep(s, queue[k]) \in T
    BY <1>0 DEF Keep
  <1>3. G \in [1 .. n -> [T -> T]]
    BY <1>2
  <1>4. \E f \in [0 .. n -> T] : StepsUp(f, z, n, G)
    <2> HIDE DEF G
    <2> QED
      BY <1>1, <1>3, Stepwise
  <1>5. PICK f \in [0 .. n -> T] : f[0] = z /\ \A k \in 1 .. n : f[k] = G[k][f[k - 1]]
    BY <1>4 DEF StepsUp
  <1>6. Is(f)
    <2>1. \A k \in 1 .. n : k - 1 \in 0 .. n /\ k \in 0 .. n /\ k # 0
      BY <1>1
    <2>2. \A k \in 1 .. n : f[k] = Keep(f[k - 1], queue[k])
      BY <1>5, <2>1
    <2>3. \A k \in 0 .. n : k = 0 \/ k \in 1 .. n
      BY <1>1
    <2> QED
      BY <1>5, <2>2, <2>3
  <1>7. Is(Living)
    <2>1. Living = CHOOSE g : Is(g)
      BY <1>0 DEF Living
    <2> HIDE DEF Is
    <2> QED
      BY <1>6, <2>1
  <1>8. \A k \in 0 .. n : Living[k] = IF k = 0 THEN z ELSE Keep(Living[k - 1], queue[k])
    BY <1>7
  <1> DEFINE A == {k \in 0 .. n : Living[k] \in T}
  <1>9. 0 \in A
    BY <1>1, <1>8
  <1>10. ASSUME NEW k \in 1 .. n, k - 1 \in A PROVE k \in A
    <2>1. k \in 0 .. n /\ k # 0
      BY <1>1
    <2>2. Living[k] = Keep(Living[k - 1], queue[k])
      BY <1>8, <2>1
    <2> QED
      BY <1>2, <1>10, <2>1, <2>2
  <1>11. 0 .. n \subseteq A
    <2> HIDE DEF A
    <2> QED
      BY <1>1, <1>9, <1>10, StepwiseIn
  <1>12. n \in 0 .. n
    BY <1>1
  <1> QED
    BY <1>0, <1>11, <1>12

\* load_context of a context that was saved right gives one that runs right, and leaves
\* the stacks of the others alone.
LEMMA LoadRuns ==
    ASSUME NEW c \in Contexts, NEW m \in [Addresses -> Cells], NEW x \in Saves,
           NEW masked \in BOOLEAN, Saved(c, x, m), Load(x, m, masked)
    PROVE  /\ mem' \in [Addresses -> Cells]
           /\ cpu' \in Regs
           /\ Running(c, cpu', mem')
           /\ \A d \in Contexts : d # c => \A a \in Region(d) : mem'[a] = m[a]
  <1>1. PICK sp \in 0 .. KStack(MaxTid) : sp = x.sp
    BY DEF Saves
  <1>2. sp \in Int
    BY <1>1, Layout
  <1>3. CASE x.lr = "schedule"
    <2>1. /\ cpu' = Registers(m[sp].pc, Junk, sp + 1, masked)
          /\ mem' = [m EXCEPT ![sp] = Nothing]
      BY <1>1, <1>3 DEF Load
    <2>2. Within(c, sp + 1) /\ m[sp].pc \in Origins(c)
      BY <1>1, <1>3 DEF Saved
    <2>3. sp \in Region(c)
      <3>1. sp + 1 \in Int /\ sp + 1 - 1 = sp
        BY <1>2
      <3> QED
        BY <2>2, <3>1, WithinFacts
    <2>4. sp \in Addresses /\ sp + 1 \in 0 .. KStack(MaxTid)
      BY <2>3, RegionSp
    <2>5. Nothing \in Cells
      BY PlaceFacts DEF Nothing, Cell, Cells
    <2>6. mem' \in [Addresses -> Cells]
      BY <2>1, <2>4, <2>5
    <2>7. cpu' \in Regs
      BY <2>1, <2>2, <2>4, PlaceFacts DEF Registers, Regs
    <2>8. Running(c, cpu', mem')
      BY <2>1, <2>2 DEF Running, Registers
    <2>9. ASSUME NEW d \in Contexts, d # c, NEW a \in Region(d) PROVE mem'[a] = m[a]
      <3>1. a # sp /\ a \in Addresses
        BY <2>3, <2>9, Regions
      <3> QED
        BY <2>1, <3>1
    <2> QED
      BY <2>6, <2>7, <2>8, <2>9
  <1>4. CASE x.lr # "schedule"
    <2>1. cpu' = Registers(x.lr, Junk, sp, masked) /\ mem' = m
      BY <1>1, <1>4 DEF Load
    <2>2. CASE c # Boot /\ x.lr = "task" /\ sp = Top(c)
      <3>1. Within(c, sp)
        BY <2>2, Layout DEF Within
      <3>2. "task" \in Origins(c) /\ "task" \in Places
        BY <2>2, PlaceFacts
      <3>3. cpu' \in Regs
        BY <2>1, <2>2, <3>2, PlaceFacts DEF Registers, Regs
      <3> QED
        BY <2>1, <2>2, <3>1, <3>2, <3>3 DEF Running, Registers
    <2>3. CASE x.lr = "load_all" /\ OnFrame(c, sp, m)
      <3>1. cpu' \in Regs
        BY <2>1, <2>3, PlaceFacts DEF Registers, Regs, Kernel
      <3> QED
        BY <2>1, <2>3, <3>1 DEF Running, Registers
    <2> QED
      BY <1>1, <1>4, <2>2, <2>3 DEF Saved
  <1> QED
    BY <1>3, <1>4

-----------------------------------------------------------------------------
(* Steps that keep the invariant *)

\* A step of the running thread in its own region of the memory, or one that
\* only ends threads or begins a thread command.
LEMMA LocalStep ==
    ASSUME IInv, UNCHANGED <<queue, cur_tid, context, cur>>,
           left' \in 0 .. Batch, cur_tid + left' <= MaxTid,
           status' \in [Threads -> {"none", "RUN", "DEAD"}],
           \A t \in Threads : status'[t] = "none" <=> status[t] = "none",
           cpu' \in Regs, mem' \in [Addresses -> Cells], Running(cur, cpu', mem'),
           \A c \in Contexts : c # cur => \A a \in Region(c) : mem'[a] = mem[a]
    PROVE  IInv'
  <1>1. TypeOK'
    BY DEF IInv, TypeOK, Regs, Cells
  <1>2. Numbered'
    BY DEF IInv, Numbered
  <1>3. \A c \in Contexts : Exists(c)' <=> Exists(c)
    BY PlaceFacts DEF Exists
  <1>4. cur \in Contexts /\ context \in [Contexts -> Saves]
    BY DEF IInv, TypeOK, Saves
  <1>5. ASSUME NEW c \in Contexts \ {cur}, Exists(c) PROVE Saved(c, context[c], mem')
    <2>1. context[c].sp \in Int
      <3>1. context[c] \in Saves
        BY <1>4
      <3> QED
        BY <3>1, SavesFacts
    <2>2. Saved(c, context[c], mem)
      BY <1>5 DEF IInv
    <2>3. \A a \in Region(c) : mem'[a] = mem[a]
      BY <1>5
    <2> QED
      BY <2>1, <2>2, <2>3, SavedElsewhere
  <1>6. /\ Exists(cur)' /\ (cur' # Boot => queue' # <<>>) /\ Running(cur, cpu, mem)'
        /\ \A c \in Contexts \ {cur'} : Exists(c)' => Saved(c, context[c], mem)'
    BY <1>3, <1>4, <1>5 DEF IInv
  <1> QED
    BY <1>1, <1>2, <1>6 DEF IInv

\* A call of schedule on the queue q and the memory m, when the context of the
\* thread that runs is saved there.
LEMMA ScheduleStep ==
    ASSUME IInv, NEW q \in Seq(Threads), NEW m \in [Addresses -> Cells], NEW saved \in Saves,
           NEW init \in {"shell", "load_all"}, NEW masked \in BOOLEAN,
           cur # Boot => q # <<>>,
           Saved(cur, saved, m),
           \A c \in Contexts : c # cur => \A a \in Region(c) : m[a] = mem[a],
           Schedule(q, m, saved, init, masked),
           UNCHANGED <<cur_tid, left, status>>
    PROVE  IInv'
  <1> DEFINE empty  == [context EXCEPT ![Boot] = IF q = <<>> THEN [lr |-> init, sp |-> saved.sp] ELSE @]
             stored == [empty EXCEPT ![cur] = saved]
  <1>1. PICK n : n = IF First(q) = 0 THEN Boot ELSE q[First(q)]
    OBVIOUS
  <1>2. /\ queue' = IF n = Boot THEN q ELSE Append(RemoveAt(q, First(q)), n)
        /\ context' = [stored EXCEPT ![n] = Unsaved]
        /\ cur' = n
        /\ Load(stored[n], m, masked)
    BY <1>1 DEF Schedule
  <1>3. /\ cur \in Contexts /\ context \in [Contexts -> Saves]
        /\ Exists(cur) /\ status \in [Threads -> {"none", "RUN", "DEAD"}]
    BY DEF IInv, TypeOK, Saves
  <1>4. /\ n \in Contexts /\ Exists(n)
        /\ n # Boot => First(q) # 0 /\ n \in Threads /\ RemoveAt(q, First(q)) \in Seq(Threads)
    <2>1. CASE First(q) = 0
      BY <1>1, <2>1, PlaceFacts DEF Exists
    <2>2. CASE First(q) # 0
      <3>1. n \in Threads /\ status[n] = "RUN" /\ RemoveAt(q, First(q)) \in Seq(Threads)
        BY <1>1, <2>2, FirstFacts
      <3> QED
        BY <2>2, <3>1, Layout DEF Exists
    <2> QED
      BY <2>1, <2>2
  <1>5. stored \in [Contexts -> Saves]
    <2>1. saved.sp \in 0 .. KStack(MaxTid)
      BY DEF Saves
    <2>2. [lr |-> init, sp |-> saved.sp] \in Saves
      BY <2>1 DEF Saves
    <2>3. empty \in [Contexts -> Saves]
      BY <1>3, <2>2
    <2> HIDE DEF empty
    <2> QED
      BY <1>3, <2>3
  <1>6. ASSUME NEW c \in Contexts, Exists(c) PROVE Saved(c, stored[c], m)
    <2>1. CASE c = cur
      BY <1>3, <2>1
    <2>2. CASE c # cur
      <3>1. stored[c] = context[c]
        BY <1>3, <2>2
      <3>2. context[c].sp \in Int
        <4>1. context[c] \in Saves
          BY <1>3
        <4> QED
          BY <4>1, SavesFacts
      <3>3. Saved(c, context[c], mem)
        BY <1>6, <2>2 DEF IInv
      <3>4. \A a \in Region(c) : m[a] = mem[a]
        BY <2>2
      <3> QED
        BY <3>1, <3>2, <3>3, <3>4, SavedElsewhere
    <2> QED
      BY <2>1, <2>2
  <1> HIDE DEF stored
  <1>7. /\ mem' \in [Addresses -> Cells] /\ cpu' \in Regs /\ Running(n, cpu', mem')
        /\ \A d \in Contexts : d # n => \A a \in Region(d) : mem'[a] = m[a]
    <2>1. stored[n] \in Saves /\ Saved(n, stored[n], m)
      BY <1>4, <1>5, <1>6
    <2> QED
      BY <1>2, <1>4, <2>1, LoadRuns
  <1>8. queue' \in Seq(Threads) /\ (n # Boot => queue' # <<>>)
    <2>1. CASE n = Boot
      BY <1>2, <2>1
    <2>2. CASE n # Boot
      <3>1. PICK r \in Seq(Threads) : queue' = Append(r, n)
        BY <1>2, <1>4, <2>2
      <3> QED
        BY <1>4, <2>2, <3>1
    <2> QED
      BY <2>1, <2>2
  <1>9. context' \in [Contexts -> Saves]
    <2>1. Unsaved \in Saves
      BY SavesFacts
    <2> QED
      BY <1>2, <1>5, <2>1
  <1>10. TypeOK'
    BY <1>2, <1>4, <1>7, <1>8, <1>9 DEF IInv, TypeOK, Regs, Cells, Saves
  <1>11. Numbered'
    BY DEF IInv, Numbered
  <1>12. \A c \in Contexts : Exists(c)' <=> Exists(c)
    BY DEF Exists
  <1>13. ASSUME NEW c \in Contexts \ {n}, Exists(c) PROVE Saved(c, context'[c], mem')
    <2>1. context'[c] = stored[c]
      BY <1>2, <1>5
    <2>2. stored[c].sp \in Int
      <3>1. stored[c] \in Saves
        BY <1>5
      <3> QED
        BY <3>1, SavesFacts
    <2>3. Saved(c, stored[c], m)
      BY <1>6, <1>13
    <2>4. \A a \in Region(c) : mem'[a] = m[a]
      BY <1>7
    <2> QED
      BY <2>1, <2>2, <2>3, <2>4, SavedElsewhere
  <1> QED
    <2>1. Exists(cur)' /\ (cur' # Boot => queue' # <<>>) /\ Running(cur, cpu, mem)'
      BY <1>2, <1>4, <1>7, <1>8, <1>12
    <2>2. \A c \in Contexts \ {cur'} : Exists(c)' => Saved(c, context[c], mem)'
      BY <1>2, <1>12, <1>13
    <2> QED
      BY <1>10, <1>11, <2>1, <2>2 DEF IInv

-----------------------------------------------------------------------------
(* Every action keeps the invariant *)

\* The parts of the state that every action looks at.
LEMMA StateFacts ==
    ASSUME IInv
    PROVE  /\ cpu \in Regs /\ mem \in [Addresses -> Cells] /\ cur \in Contexts
           /\ queue \in Seq(Threads) /\ left \in 0 .. Batch /\ cur_tid + left <= MaxTid
           /\ status \in [Threads -> {"none", "RUN", "DEAD"}]
           /\ context \in [Contexts -> Saves]
           /\ cpu.sp \in Int /\ cpu.x0 \in -1 .. MaxTid /\ cpu.masked \in BOOLEAN
           /\ cpu.pc \in Places /\ cpu.elr \in Places \cup {""} /\ cpu.spsr \in BOOLEAN
  <1>1. cpu \in Regs
    BY DEF IInv, TypeOK, Regs
  <1>2. PICK k \in Nat : k = KStack(MaxTid)
    BY Layout
  <1>3. cpu.sp \in 0 .. k
    BY <1>1, <1>2 DEF Regs
  <1>4. cpu.sp \in Int
    BY <1>2, <1>3
  <1>5. /\ cpu.x0 \in -1 .. MaxTid /\ cpu.masked \in BOOLEAN
        /\ cpu.pc \in Places /\ cpu.elr \in Places \cup {""} /\ cpu.spsr \in BOOLEAN
    BY <1>1 DEF Regs
  <1>6. /\ mem \in [Addresses -> Cells] /\ cur \in Contexts
        /\ queue \in Seq(Threads) /\ left \in 0 .. Batch /\ cur_tid + left <= MaxTid
        /\ status \in [Threads -> {"none", "RUN", "DEAD"}]
        /\ context \in [Contexts -> Saves]
    BY DEF IInv, TypeOK, Cells, Saves, Numbered
  <1> QED
    BY <1>1, <1>4, <1>5, <1>6

\* Where the running thread is says where its stack pointer is.
LEMMA Whereabouts ==
    ASSUME IInv
    PROVE  /\ cpu.pc \in Origins(cur) => Within(cur, cpu.sp)
           /\ cpu.pc \in SystemCalls => cpu.masked
           /\ cpu.pc \in SystemCalls \/ cpu.pc = "uart_wait" => cur # Boot /\ FrameAt(cur, cpu.sp, mem)
           /\ cpu.pc = "load_all" => OnFrame(cur, cpu.sp, mem)
           /\ cpu.pc = "eret" =>
                 \/ cpu.elr \in Origins(cur) /\ Within(cur, cpu.sp)
                 \/ cur # Boot /\ cpu.elr = "uart_wait" /\ FrameAt(cur, cpu.sp, mem)
           /\ cpu.pc \in {"shell", "create"} => cur = Boot /\ cpu.pc \in Origins(cur)
           /\ \/ cpu.pc \in Origins(cur) \/ cpu.pc \in SystemCalls
              \/ cpu.pc \in {"uart_wait", "load_all", "eret"}
  BY StateFacts, PlaceFacts DEF IInv, Running

\* A write to the region of the running thread.
Written(m, a, v) ==
    /\ m \in [Addresses -> Cells] /\ m[a] = v
    /\ \A b \in Addresses : b # a => m[b] = mem[b]
    /\ \A c \in Contexts : c # cur => \A b \in Region(c) : m[b] = mem[b]

\* A store to the stack of the running context changes a word of that stack only.
LEMMA WriteFacts ==
    ASSUME IInv, NEW a \in Region(cur), NEW v \in Cells
    PROVE  Written([mem EXCEPT ![a] = v], a, v)
  <1> DEFINE m == [mem EXCEPT ![a] = v]
  <1>1. a \in Addresses /\ cur \in Contexts /\ mem \in [Addresses -> Cells]
    BY StateFacts, RegionSp
  <1>2. ASSUME NEW c \in Contexts, c # cur, NEW b \in Region(c) PROVE m[b] = mem[b]
    <2>1. b # a /\ b \in Addresses
      BY <1>1, <1>2, Regions
    <2> QED
      BY <1>1, <2>1
  <1> QED
    BY <1>1, <1>2 DEF Written

\* What the actions store and load are cells and registers.
LEMMA CellFacts ==
    /\ Nothing \in Cells
    /\ \A kind \in {"local", "return", "frame"}, pc \in Places \cup {""}, x0 \in -1 .. MaxTid,
          masked \in BOOLEAN : Cell(kind, pc, x0, masked) \in Cells
    /\ \A c \in Cells : c.pc \in Places \cup {""} /\ c.x0 \in -1 .. MaxTid /\ c.masked \in BOOLEAN
    /\ \A pc \in Places, x0 \in -1 .. MaxTid, sp \in 0 .. KStack(MaxTid), masked \in BOOLEAN :
          Registers(pc, x0, sp, masked) \in Regs
  BY PlaceFacts DEF Nothing, Cell, Cells, Registers, Regs

\* The call of a function keeps the invariant.
LEMMA CallFunctionStep == IInv /\ CallFunction => IInv'
  <1> SUFFICES ASSUME IInv, CallFunction PROVE IInv'
    OBVIOUS
  <1>0. PICK c, sp : c = cur /\ sp = cpu.sp
    OBVIOUS
  <1>1. c \in Threads /\ c \in Contexts /\ cpu.pc \in Origins(c) /\ sp \in Int
    BY <1>0, StateFacts, PlaceFacts DEF CallFunction, User
  <1>2. Within(c, sp) /\ sp > Top(c) - Depth
    BY <1>0, <1>1, Whereabouts DEF CallFunction
  <1>3. Within(c, sp - 1) /\ sp - 1 \in Region(c) /\ sp - 1 \in 0 .. KStack(MaxTid)
    <2>1. Top(c) \in Nat /\ Depth \in Nat
      BY <1>1, Layout
    <2> QED
      BY <1>1, <1>2, <2>1, WithinFacts DEF Within
  <1>4. Variables(c) \in Cells
    BY <1>1, CellFacts, PlaceFacts DEF Variables
  <1>5. mem' = [mem EXCEPT ![sp - 1] = Variables(c)] /\ UNCHANGED threads
    BY <1>0 DEF CallFunction, Push
  <1>6. Written(mem', sp - 1, Variables(c))
    BY <1>0, <1>3, <1>4, <1>5, WriteFacts
  <1>7. cpu' = [cpu EXCEPT !.sp = sp - 1]
    BY <1>0 DEF CallFunction
  <1>8. cpu' \in Regs /\ cpu'.pc = cpu.pc /\ cpu'.sp = sp - 1
    BY <1>3, <1>7, StateFacts DEF Regs
  <1>9. Running(cur, cpu', mem')
    BY <1>0, <1>1, <1>3, <1>8 DEF Running
  <1> QED
    BY <1>5, <1>6, <1>8, <1>9, StateFacts, LocalStep DEF threads, Written

\* So does the return from one.
LEMMA ReturnFunctionStep == IInv /\ ReturnFunction => IInv'
  <1> SUFFICES ASSUME IInv, ReturnFunction PROVE IInv'
    OBVIOUS
  <1>0. PICK c, sp : c = cur /\ sp = cpu.sp
    OBVIOUS
  <1>1. c \in Threads /\ c \in Contexts /\ cpu.pc \in Origins(c) /\ sp \in Int
    BY <1>0, StateFacts, PlaceFacts DEF ReturnFunction, User
  <1>2. Within(c, sp) /\ sp < Top(c)
    BY <1>0, <1>1, Whereabouts DEF ReturnFunction
  <1>3. Within(c, sp + 1) /\ sp \in Region(c) /\ sp + 1 \in 0 .. KStack(MaxTid)
    <2>1. Top(c) \in Nat /\ Depth \in Nat
      BY <1>1, Layout
    <2>2. Within(c, sp + 1) /\ sp + 1 \in Int /\ sp + 1 - 1 = sp
      BY <1>1, <1>2, <2>1 DEF Within
    <2> QED
      BY <1>1, <2>2, WithinFacts
  <1>5. mem' = [mem EXCEPT ![sp] = Nothing] /\ UNCHANGED threads
    BY <1>0 DEF ReturnFunction, Pop
  <1>6. Written(mem', sp, Nothing)
    BY <1>0, <1>3, <1>5, WriteFacts, CellFacts
  <1>7. cpu' = [cpu EXCEPT !.sp = sp + 1]
    BY <1>0 DEF ReturnFunction
  <1>8. cpu' \in Regs /\ cpu'.pc = cpu.pc /\ cpu'.sp = sp + 1
    BY <1>3, <1>7, StateFacts DEF Regs
  <1>9. Running(cur, cpu', mem')
    BY <1>0, <1>1, <1>3, <1>8 DEF Running
  <1> QED
    BY <1>5, <1>6, <1>8, <1>9, StateFacts, LocalStep DEF threads, Written

\* The stack pointer of a thread outside of the kernel, and the cell below it.
LEMMA BelowFacts ==
    ASSUME IInv, Within(cur, cpu.sp)
    PROVE  /\ cpu.sp - 1 \in Region(cur) /\ cpu.sp - 1 \in 0 .. KStack(MaxTid)
           /\ Within(cur, cpu.sp - 1 + 1) /\ cpu.sp - 1 + 1 = cpu.sp
  <1>1. PICK sp \in Int : sp = cpu.sp
    BY StateFacts
  <1>2. sp - 1 + 1 = sp
    BY <1>1
  <1> QED
    BY <1>1, <1>2, WithinFacts, StateFacts

\* schedule keeps the invariant, for whatever queue it finds.
LEMMA CallScheduleStep ==
    ASSUME IInv, NEW q \in Seq(Threads), NEW pc \in {"shell"} \cup Programs,
           cur # Boot => q = queue,
           cpu.pc \in Origins(cur), pc \in Origins(cur),
           CallSchedule(q, pc), UNCHANGED <<cur_tid, left, status>>
    PROVE  IInv'
  <1> DEFINE cell == Cell("return", pc, Junk, FALSE)
             m == [mem EXCEPT ![cpu.sp - 1] = cell]
             saved == [lr |-> "schedule", sp |-> cpu.sp - 1]
  <1>1. Within(cur, cpu.sp)
    BY Whereabouts
  <1>2. cell \in Cells
    <2>1. pc \in Places \cup {""} /\ Junk \in -1 .. MaxTid
      BY StateFacts, PlaceFacts
    <2> QED
      BY <2>1, CellFacts
  <1>3. Written(m, cpu.sp - 1, cell)
    <2> HIDE DEF cell
    <2> QED
      BY <1>1, <1>2, BelowFacts, WriteFacts
  <1>4. saved \in Saves
    BY <1>1, BelowFacts DEF Saves
  <1>5. Saved(cur, saved, m)
    <2>1. m[saved.sp] = cell /\ cell.pc = pc
      BY <1>3 DEF Written, Cell
    <2>2. saved.lr = "schedule" /\ Within(cur, saved.sp + 1)
      BY <1>1, BelowFacts
    <2> HIDE DEF saved, m, cell
    <2> QED
      BY <2>1, <2>2 DEF Saved
  <1>6. Schedule(q, m, saved, "shell", cpu.masked)
    BY DEF CallSchedule, Push
  <1>7. cpu.masked \in BOOLEAN /\ (cur # Boot => q # <<>>)
    BY StateFacts DEF IInv
  <1> HIDE DEF m, saved, cell
  <1> QED
    BY <1>3, <1>4, <1>5, <1>6, <1>7, ScheduleStep DEF Written

\* idle keeps the invariant, with which the thread command ends.
LEMMA IdleStep == IInv /\ Idle => IInv'
  <1> SUFFICES ASSUME IInv, Idle PROVE IInv'
    OBVIOUS
  <1>1. cur = Boot /\ cpu.pc \in Origins(cur) /\ "shell" \in Origins(cur)
    BY Whereabouts, PlaceFacts DEF Idle
  <1>2. Living[Len(queue)] \in Seq(Threads)
    BY StateFacts, LivingFacts
  <1> QED
    BY <1>1, <1>2, CallScheduleStep DEF Idle

\* A thread that calls schedule keeps the invariant.
LEMMA YieldStep == IInv /\ Yield => IInv'
  <1> SUFFICES ASSUME IInv, Yield PROVE IInv'
    OBVIOUS
  <1>1. cpu.pc \in Programs /\ cpu.pc \in Origins(cur) /\ queue \in Seq(Threads)
    BY StateFacts, PlaceFacts DEF Yield, User
  <1> QED
    BY <1>1, CallScheduleStep DEF Yield

\* The timer interrupt keeps the invariant when it comes to none on its way out of the kernel.
LEMMA TimerIrqStep == IInv /\ IrqInside /\ TimerIrq => IInv'
  <1> SUFFICES ASSUME IInv, IrqInside, TimerIrq PROVE IInv'
    OBVIOUS
  <1> DEFINE cell == Cell("frame", cpu.pc, cpu.x0, cpu.masked)
             m == [mem EXCEPT ![cpu.sp - 1] = cell]
             saved == [lr |-> "load_all", sp |-> cpu.sp - 1]
  <1>1. cell \in Cells /\ cell.kind = "frame" /\ cell.pc = cpu.pc
    BY StateFacts, CellFacts DEF Cell
  <1>2. PICK sp \in Int : sp = cpu.sp
    BY StateFacts
  <1>3. \/ cpu.pc \in Origins(cur) /\ Within(cur, sp)
        \/ cur # Boot /\ cpu.pc = "uart_wait" /\ FrameAt(cur, sp, mem)
    BY <1>2, Whereabouts DEF TimerIrq, IrqInside
  <1>4. sp - 1 \in Region(cur)
    BY <1>2, <1>3, BelowFacts, FrameFacts, StateFacts
  <1>5. Written(m, sp - 1, cell)
    <2> HIDE DEF cell
    <2> QED
      BY <1>1, <1>2, <1>4, WriteFacts
  <1>6. saved \in Saves
    <2>1. sp - 1 \in 0 .. KStack(MaxTid)
      BY <1>4, StateFacts, RegionSp
    <2> QED
      BY <1>2, <2>1 DEF Saves
  <1>7. OnFrame(cur, sp - 1, m)
    <2>1. m[sp - 1] = cell
      BY <1>5 DEF Written
    <2>2. sp - 1 + 1 = sp
      BY <1>2
    <2>3. CASE cpu.pc \in Origins(cur) /\ Within(cur, sp)
      <3> HIDE DEF m, cell
      <3> QED
        BY <1>1, <2>1, <2>2, <2>3 DEF OnFrame, FrameAt
    <2>4. CASE cur # Boot /\ cpu.pc = "uart_wait" /\ FrameAt(cur, sp, mem)
      <3>1. sp \in Region(cur)
        BY <2>4, FrameFacts, StateFacts
      <3>2. sp \in Addresses
        <4> HIDE DEF m, cell, saved
        <4> QED
          BY <3>1, StateFacts, RegionSp
      <3>3. m[sp] = mem[sp]
        <4>1. sp # sp - 1
          OBVIOUS
        <4> HIDE DEF m
        <4> QED
          BY <1>5, <3>2, <4>1 DEF Written
      <3>4. FrameAt(cur, sp, m)
        BY <2>4, <3>3 DEF FrameAt
      <3> HIDE DEF m, cell
      <3> QED
        BY <1>1, <2>1, <2>2, <2>4, <3>4 DEF OnFrame
    <2> QED
      BY <1>3, <2>3, <2>4
  <1>8. Saved(cur, saved, m)
    <2>1. saved.lr = "load_all" /\ saved.sp = sp - 1
      BY <1>2
    <2> HIDE DEF m, saved
    <2> QED
      BY <1>7, <2>1 DEF Saved
  <1>9. /\ Schedule(queue, m, saved, "load_all", TRUE)
        /\ UNCHANGED <<cur_tid, left, status>>
    BY DEF TimerIrq, Push
  <1>10. queue \in Seq(Threads) /\ (cur # Boot => queue # <<>>)
    BY StateFacts DEF IInv
  <1> HIDE DEF m, saved, cell
  <1> QED
    BY <1>5, <1>6, <1>8, <1>9, <1>10, ScheduleStep DEF Written

\* A system call keeps the invariant when only threads fork.
LEMMA SvcStep == ASSUME NEW n \in Calls PROVE IInv /\ ForksByThreads /\ Svc(n) => IInv'
  <1> SUFFICES ASSUME IInv, ForksByThreads, Svc(n) PROVE IInv'
    OBVIOUS
  <1>0. PICK c, sp : c = cur /\ sp = cpu.sp
    OBVIOUS
  <1> DEFINE cell == Cell("frame", cpu.pc, cpu.x0, cpu.masked)
  <1>1. c # Boot /\ c \in Contexts /\ cpu.pc \in Origins(c) /\ sp \in Int
    BY <1>0, StateFacts, PlaceFacts DEF Svc, MayCall, User, ForksByThreads
  <1>2. Within(c, sp)
    BY <1>0, <1>1, Whereabouts
  <1>3. /\ sp - 1 \in Region(c) /\ sp - 1 \in 0 .. KStack(MaxTid)
        /\ sp - 1 + 1 = sp
    BY <1>1, <1>2, WithinFacts
  <1>4. cell \in Cells /\ cell.kind = "frame" /\ cell.pc = cpu.pc
    BY StateFacts, CellFacts DEF Cell
  <1>5. /\ mem' = [mem EXCEPT ![sp - 1] = cell] /\ UNCHANGED threads
        /\ cpu' = Registers(n, cpu.x0, sp - 1, TRUE)
    BY <1>0 DEF Svc, Push
  <1> HIDE DEF cell
  <1>6. Written(mem', sp - 1, cell)
    BY <1>0, <1>3, <1>4, <1>5, WriteFacts
  <1>7. cpu' \in Regs /\ cpu'.pc = n /\ cpu'.sp = sp - 1 /\ cpu'.masked
    <2>1. cpu' \in Regs
      BY <1>3, <1>5, StateFacts, CellFacts, PlaceFacts
    <2> QED
      BY <1>5, <2>1 DEF Registers
  <1>8. FrameAt(c, sp - 1, mem')
    BY <1>1, <1>2, <1>3, <1>4, <1>6 DEF Written, FrameAt
  <1>9. Running(cur, cpu', mem')
    BY <1>0, <1>1, <1>7, <1>8 DEF Running
  <1> QED
    BY <1>5, <1>6, <1>7, <1>9, StateFacts, LocalStep DEF threads, Written

\* load_all keeps the invariant.
LEMMA LoadAllStep == IInv /\ LoadAll => IInv'
  <1> SUFFICES ASSUME IInv, LoadAll PROVE IInv'
    OBVIOUS
  <1>0. PICK c, sp, frame : c = cur /\ sp = cpu.sp /\ frame = mem[sp]
    OBVIOUS
  <1>1. c \in Contexts /\ sp \in Int /\ OnFrame(c, sp, mem)
    BY <1>0, StateFacts, Whereabouts DEF LoadAll
  <1>2. sp \in Region(c) /\ sp \in Addresses /\ sp + 1 \in 0 .. KStack(MaxTid)
    BY <1>1, FrameFacts, RegionSp
  <1>3. frame \in Cells /\ frame.pc \in Places \cup {""} /\ frame.x0 \in -1 .. MaxTid
        /\ frame.masked \in BOOLEAN
    BY <1>0, <1>2, StateFacts, CellFacts
  <1>4. /\ mem' = [mem EXCEPT ![sp] = Nothing] /\ UNCHANGED threads
        /\ cpu' = [pc |-> "eret", x0 |-> frame.x0, sp |-> sp + 1, masked |-> cpu.masked,
                   elr |-> frame.pc, spsr |-> frame.masked]
    BY <1>0 DEF LoadAll, Pop
  <1>5. Written(mem', sp, Nothing)
    BY <1>0, <1>2, <1>4, WriteFacts, CellFacts
  <1>6. cpu' \in Regs
    BY <1>2, <1>3, <1>4, StateFacts, PlaceFacts DEF Regs, Kernel
  <1>7. cpu'.pc = "eret" /\ cpu'.sp = sp + 1 /\ cpu'.elr = frame.pc
    BY <1>4
  <1>8. Running(cur, cpu', mem')
    <2>1. CASE FrameAt(c, sp, mem)
      BY <1>0, <1>7, <2>1 DEF Running, FrameAt
    <2>2. CASE c # Boot /\ frame.pc = "uart_wait" /\ FrameAt(c, sp + 1, mem)
      <3>1. sp + 1 \in Int /\ sp + 1 # sp
        BY <1>1
      <3>2. sp + 1 \in Region(c)
        BY <1>1, <2>2, <3>1, FrameFacts
      <3>3. sp + 1 \in Addresses
        BY <1>1, <3>2, RegionSp
      <3>4. mem'[sp + 1] = mem[sp + 1]
        BY <1>5, <3>1, <3>3 DEF Written
      <3>5. FrameAt(c, sp + 1, mem')
        BY <2>2, <3>4 DEF FrameAt
      <3> QED
        BY <1>0, <1>7, <2>2, <3>5 DEF Running
    <2> QED
      BY <1>0, <1>1, <2>1, <2>2 DEF OnFrame
  <1> QED
    BY <1>4, <1>5, <1>6, <1>8, StateFacts, LocalStep DEF threads, Written

\* eret keeps the invariant.
LEMMA EretStep == IInv /\ Eret => IInv'
  <1> SUFFICES ASSUME IInv, Eret PROVE IInv'
    OBVIOUS
  <1>0. PICK c, sp : c = cur /\ sp = cpu.sp
    OBVIOUS
  <1>1. /\ c \in Contexts /\ sp \in Int
        /\ \/ cpu.elr \in Origins(c) /\ Within(c, sp)
           \/ c # Boot /\ cpu.elr = "uart_wait" /\ FrameAt(c, sp, mem)
    BY <1>0, StateFacts, Whereabouts DEF Eret
  <1>2. cpu.elr \in Places
    BY <1>1, PlaceFacts DEF Kernel
  <1>3. sp \in 0 .. KStack(MaxTid)
    BY <1>0, StateFacts DEF Regs
  <1>4. cpu' = Registers(cpu.elr, cpu.x0, sp, cpu.spsr) /\ mem' = mem /\ UNCHANGED threads
    BY <1>0 DEF Eret
  <1>5. cpu' \in Regs
    BY <1>2, <1>3, <1>4, StateFacts, CellFacts
  <1>6. cpu'.pc = cpu.elr /\ cpu'.sp = sp
    BY <1>4 DEF Registers
  <1>7. Running(cur, cpu', mem')
    BY <1>0, <1>1, <1>4, <1>6 DEF Running
  <1> QED
    BY <1>4, <1>5, <1>7, StateFacts, LocalStep DEF threads

\* A system call leaves its result in the frame.
LEMMA ResultStep ==
    ASSUME IInv, NEW r \in -1 .. MaxTid, Result(r),
           cpu.pc \in SystemCalls \/ cpu.pc = "uart_wait"
    PROVE  IInv'
  <1>0. PICK c, sp, frame : c = cur /\ sp = cpu.sp /\ frame = mem[sp]
    OBVIOUS
  <1> DEFINE done == [frame EXCEPT !.x0 = r]
  <1>1. c \in Contexts /\ sp \in Int /\ c # Boot /\ FrameAt(c, sp, mem)
    BY <1>0, StateFacts, Whereabouts
  <1>2. sp \in Region(c) /\ sp \in Addresses
    BY <1>1, FrameFacts, RegionSp
  <1>3. frame \in Cells
    BY <1>0, <1>2, StateFacts
  <1>4. done \in Cells /\ done.pc = frame.pc /\ done.kind = frame.kind
    BY <1>3 DEF Cells
  <1>5. /\ mem' = [mem EXCEPT ![sp] = done] /\ UNCHANGED threads
        /\ cpu' = [cpu EXCEPT !.pc = "load_all", !.masked = TRUE]
    BY <1>0 DEF Result
  <1> HIDE DEF done
  <1>6. Written(mem', sp, done)
    BY <1>0, <1>2, <1>4, <1>5, WriteFacts
  <1>7. cpu' \in Regs /\ cpu'.pc = "load_all" /\ cpu'.sp = sp
    BY <1>0, <1>5, StateFacts, PlaceFacts DEF Regs, Kernel
  <1>8. FrameAt(c, sp, mem')
    BY <1>0, <1>1, <1>4, <1>6 DEF Written, FrameAt
  <1>9. Running(cur, cpu', mem')
    BY <1>0, <1>7, <1>8 DEF Running, OnFrame
  <1> QED
    BY <1>5, <1>6, <1>7, <1>9, StateFacts, LocalStep DEF threads, Written

\* The system calls that only answer keep the invariant.
LEMMA AnswerStep == IInv /\ (GetPid \/ UartDone \/ MboxCall) => IInv'
  <1> SUFFICES ASSUME IInv, GetPid \/ UartDone \/ MboxCall PROVE IInv'
    OBVIOUS
  <1>1. CASE GetPid
    <2>1. cur \in -1 .. MaxTid /\ cpu.pc \in SystemCalls
      BY <1>1, StateFacts, PlaceFacts DEF GetPid, SystemCalls, Contexts
    <2> QED
      BY <1>1, <2>1, ResultStep DEF GetPid
  <1>2. CASE UartDone
    BY <1>2, ResultStep, PlaceFacts DEF UartDone
  <1>3. CASE MboxCall
    <2>1. PICK valid \in {0, 1} : Result(valid)
      BY <1>3 DEF MboxCall
    <2>2. valid \in -1 .. MaxTid /\ cpu.pc \in SystemCalls
      BY <1>3, BoundsAssumption DEF MboxCall, SystemCalls
    <2> QED
      BY <2>1, <2>2, ResultStep
  <1> QED
    BY <1>1, <1>2, <1>3

\* One that waits for the UART keeps the invariant.
LEMMA UartWaitStep == IInv /\ UartWait => IInv'
  <1> SUFFICES ASSUME IInv, UartWait PROVE IInv'
    OBVIOUS
  <1>1. cur # Boot /\ FrameAt(cur, cpu.sp, mem)
    BY Whereabouts DEF UartWait, SystemCalls
  <1>2. cpu' = [cpu EXCEPT !.pc = "uart_wait", !.masked = FALSE] /\ UNCHANGED <<threads, mem>>
    BY DEF UartWait
  <1>3. cpu' \in Regs /\ cpu'.pc = "uart_wait" /\ cpu'.sp = cpu.sp
    BY <1>2, StateFacts, PlaceFacts DEF Regs, Kernel
  <1>4. Running(cur, cpu', mem')
    BY <1>1, <1>2, <1>3 DEF Running
  <1> QED
    BY <1>2, <1>3, <1>4, StateFacts, LocalStep DEF threads

\* exec keeps the invariant.
LEMMA ExecStep == IInv /\ Exec => IInv'
  <1> SUFFICES ASSUME IInv, Exec PROVE IInv'
    OBVIOUS
  <1>0. PICK c, sp, frame : c = cur /\ sp = cpu.sp /\ frame = mem[sp]
    OBVIOUS
  <1>1. c \in Contexts /\ sp \in Int /\ c # Boot /\ FrameAt(c, sp, mem)
    BY <1>0, StateFacts, Whereabouts DEF Exec, SystemCalls
  <1>2. sp \in Region(c) /\ sp \in Addresses
    BY <1>1, FrameFacts, RegionSp
  <1>3. frame \in Cells
    BY <1>0, <1>2, StateFacts
  <1>4. PICK f \in Images : mem' = [mem EXCEPT ![cpu.sp].pc = f]
    BY DEF Exec
  <1> DEFINE done == [frame EXCEPT !.pc = f]
  <1>5. f \in Programs /\ f \in Places
    BY PlaceFacts DEF Programs
  <1>6. done \in Cells /\ done.pc = f /\ done.kind = frame.kind
    BY <1>3, <1>5 DEF Cells
  <1>7. /\ mem' = [mem EXCEPT ![sp] = done] /\ UNCHANGED threads
        /\ cpu' = [cpu EXCEPT !.pc = "load_all"]
    BY <1>0, <1>4 DEF Exec
  <1> HIDE DEF done
  <1>8. Written(mem', sp, done)
    BY <1>0, <1>2, <1>6, <1>7, WriteFacts
  <1>9. cpu' \in Regs /\ cpu'.pc = "load_all" /\ cpu'.sp = sp
    BY <1>0, <1>7, StateFacts, PlaceFacts DEF Regs, Kernel
  <1>10. FrameAt(c, sp, mem')
    BY <1>0, <1>1, <1>5, <1>6, <1>8, PlaceFacts DEF Written, FrameAt
  <1>11. Running(cur, cpu', mem')
    BY <1>0, <1>9, <1>10 DEF Running, OnFrame
  <1> QED
    BY <1>7, <1>8, <1>9, <1>11, StateFacts, LocalStep DEF threads, Written

\* exit keeps the invariant.
LEMMA ExitStep == IInv /\ Exit => IInv'
  <1> SUFFICES ASSUME IInv, Exit PROVE IInv'
    OBVIOUS
  <1>1. cur # Boot /\ cur \in Threads /\ FrameAt(cur, cpu.sp, mem)
    BY StateFacts, Whereabouts, PlaceFacts DEF Exit, SystemCalls
  <1>2. /\ cpu' = [cpu EXCEPT !.pc = "load_all"]
        /\ UNCHANGED <<queue, cur_tid, left, context, cur, mem>>
        /\ status' = [status EXCEPT ![cur] = "DEAD"]
    BY DEF Exit
  <1>3. cpu' \in Regs /\ cpu'.pc = "load_all" /\ cpu'.sp = cpu.sp
    BY <1>2, StateFacts, PlaceFacts DEF Regs, Kernel
  <1>4. Running(cur, cpu', mem')
    BY <1>1, <1>2, <1>3 DEF Running, OnFrame
  <1>5. status[cur] # "none"
    BY <1>1 DEF IInv, Exists
  <1>6. /\ status' \in [Threads -> {"none", "RUN", "DEAD"}]
        /\ \A t \in Threads : status'[t] = "none" <=> status[t] = "none"
    BY <1>1, <1>2, <1>5, StateFacts
  <1> QED
    BY <1>2, <1>3, <1>4, <1>6, StateFacts, LocalStep

\* The thread command of the shell keeps the invariant.
LEMMA ThreadCommandStep == IInv /\ ThreadCommand => IInv'
  <1> SUFFICES ASSUME IInv, ThreadCommand PROVE IInv'
    OBVIOUS
  <1>1. cur = Boot /\ cpu.pc \in Origins(cur) /\ Within(cur, cpu.sp)
    BY Whereabouts, PlaceFacts DEF ThreadCommand
  <1>2. /\ cpu' = [cpu EXCEPT !.pc = "create"] /\ left' = Batch
        /\ UNCHANGED <<queue, cur_tid, status, context, cur, mem>>
        /\ cur_tid + Batch <= MaxTid
    BY DEF ThreadCommand
  <1>3. cpu' \in Regs /\ cpu'.pc = "create" /\ cpu'.sp = cpu.sp
    BY <1>2, StateFacts, PlaceFacts DEF Regs, Kernel
  <1>4. Running(cur, cpu', mem')
    BY <1>1, <1>2, <1>3, PlaceFacts DEF Running
  <1>5. left' \in 0 .. Batch
    BY <1>2, BoundsAssumption
  <1> QED
    BY <1>2, <1>3, <1>4, <1>5, StateFacts, LocalStep

\* The numbers of threads stay under MaxTid, those that are yet to be made included.
LEMMA NumberFacts ==
    ASSUME IInv
    PROVE  /\ MaxTid \in Nat /\ Batch \in Nat /\ cur_tid \in Nat \ {0} /\ left \in Nat
           /\ left <= Batch /\ cur_tid + left <= MaxTid
  <1>1. cur_tid \in Contexts
    BY DEF IInv, TypeOK
  <1>2. \A c \in Contexts : c \in Nat \ {0}
    BY BoundsAssumption DEF Contexts, Threads, Boot
  <1>3. left \in 0 .. Batch /\ cur_tid + left <= MaxTid
    BY DEF IInv, TypeOK, Numbered
  <1>4. MaxTid \in Nat /\ Batch \in Nat
    BY BoundsAssumption
  <1>5. left \in Nat /\ left <= Batch
    BY <1>3, <1>4
  <1> QED
    BY <1>1, <1>2, <1>3, <1>4, <1>5

\* The next tid, when there is one, is that of a thread that was not made.
LEMMA NextTid ==
    ASSUME IInv, cur_tid < MaxTid
    PROVE  /\ cur_tid + 1 \in Threads /\ status[cur_tid + 1] = "none" /\ cur_tid \in Nat
           /\ ~Exists(cur_tid + 1) /\ cur_tid + 1 \in Contexts
           /\ \A t \in Threads : t <= cur_tid + 1 <=> t <= cur_tid \/ t = cur_tid + 1
  <1>1. MaxTid \in Nat /\ cur_tid \in Nat \ {0}
    BY NumberFacts
  <1>2. cur_tid + 1 \in Threads /\ cur_tid + 1 # Boot
    BY <1>1 DEF Threads, Boot
  <1>3. status[cur_tid + 1] = "none"
    BY <1>1, <1>2 DEF IInv, Numbered
  <1>4. \A t \in Threads : t <= cur_tid + 1 <=> t <= cur_tid \/ t = cur_tid + 1
    BY <1>1 DEF Threads
  <1> QED
    BY <1>1, <1>2, <1>3, <1>4 DEF Exists, Contexts

\* A new thread is made, from whose context it can go on.
LEMMA NewThread ==
    ASSUME IInv, NEW c \in Threads, c = cur_tid + 1, cur_tid < MaxTid,
           NEW x \in Saves, Saved(c, x, mem'),
           cur_tid' = c, c + left' <= MaxTid, left' \in 0 .. Batch,
           status' = [status EXCEPT ![c] = "RUN"],
           context' = [context EXCEPT ![c] = x],
           queue' = Append(queue, c),
           cur' = cur, cpu' \in Regs, mem' \in [Addresses -> Cells],
           Running(cur, cpu', mem'),
           \A d \in Contexts : d # c /\ d # cur => \A a \in Region(d) : mem'[a] = mem[a]
    PROVE  IInv'
  <1>1. /\ status[c] = "none" /\ ~Exists(c) /\ c # Boot /\ c \in Contexts
        /\ \A t \in Threads : t <= c <=> t <= cur_tid \/ t = c
    BY NextTid, Layout
  <1>2. /\ status' \in [Threads -> {"none", "RUN", "DEAD"}]
        /\ context' \in [Contexts -> Saves]
        /\ queue' \in Seq(Threads) /\ queue' # <<>>
    <2>1. PICK q \in Seq(Threads) : q = queue
      BY StateFacts
    <2>2. Append(q, c) \in Seq(Threads) /\ Append(q, c) # <<>>
      OBVIOUS
    <2>3. /\ status' \in [Threads -> {"none", "RUN", "DEAD"}]
          /\ context' \in [Contexts -> Saves]
      BY <1>1, StateFacts
    <2> QED
      BY <2>1, <2>2, <2>3
  <1>3. TypeOK'
    BY <1>1, <1>2, StateFacts DEF TypeOK, Regs, Cells, Saves
  <1>4. Numbered'
    <2>1. \A t \in Threads : status'[t] # "none" <=> status[t] # "none" \/ t = c
      BY StateFacts
    <2>2. \A t \in Threads : status[t] # "none" <=> t <= cur_tid
      BY DEF IInv, Numbered
    <2> QED
      BY <1>1, <2>1, <2>2 DEF Numbered
  <1>5. \A d \in Contexts : d # c => (Exists(d)' <=> Exists(d)) /\ context'[d] = context[d]
    BY StateFacts, PlaceFacts DEF Exists
  <1>6. cur # c /\ Exists(cur) /\ cur \in Contexts
    BY <1>1, StateFacts DEF IInv
  <1>7. ASSUME NEW d \in Contexts \ {cur}, Exists(d)' PROVE Saved(d, context'[d], mem')
    <2>1. CASE d = c
      BY <1>1, <2>1, StateFacts
    <2>2. CASE d # c
      <3>1. context'[d] = context[d] /\ Saved(d, context[d], mem)
        BY <1>5, <1>7, <2>2 DEF IInv
      <3>2. context[d].sp \in Int
        <4>1. context[d] \in Saves
          BY StateFacts
        <4> QED
          BY <4>1, SavesFacts
      <3>3. \A a \in Region(d) : mem'[a] = mem[a]
        BY <2>2
      <3> QED
        BY <3>1, <3>2, <3>3, SavedElsewhere
    <2> QED
      BY <2>1, <2>2
  <1>8. Exists(cur)' /\ (cur' # Boot => queue' # <<>>) /\ Running(cur, cpu, mem)'
    BY <1>2, <1>5, <1>6
  <1>9. \A d \in Contexts \ {cur'} : Exists(d)' => Saved(d, context[d], mem)'
    BY <1>7
  <1> QED
    BY <1>3, <1>4, <1>8, <1>9 DEF IInv

\* thread_create keeps the invariant.
LEMMA CreateThreadStep == IInv /\ CreateThread => IInv'
  <1> SUFFICES ASSUME IInv, CreateThread PROVE IInv'
    OBVIOUS
  <1>1. left > 0 /\ left' = left - 1 /\ cur_tid < MaxTid /\ cur_tid + 1 + left' <= MaxTid
        /\ left' \in 0 .. Batch
    <2>1. left > 0 /\ left' = left - 1
      BY DEF CreateThread
    <2> QED
      BY <2>1, NumberFacts
  <1>2. PICK c \in Threads : c = cur_tid + 1
    BY <1>1, NextTid
  <1>3. KStack(c) = Top(c) /\ c # Boot
    BY Layout
  <1> DEFINE x == [lr |-> "task", sp |-> Top(c)]
  <1>4. x \in Saves
    <2>1. Top(c) \in 0 .. KStack(MaxTid)
      BY Layout
    <2> QED
      BY <2>1 DEF Saves
  <1>5. Saved(c, x, mem')
    BY <1>3 DEF Saved
  <1>6. /\ cur_tid' = c /\ status' = [status EXCEPT ![c] = "RUN"]
        /\ context' = [context EXCEPT ![c] = x] /\ queue' = Append(queue, c)
        /\ UNCHANGED <<cur, mem, cpu>>
    BY <1>2, <1>3 DEF CreateThread
  <1>7. Running(cur, cpu', mem')
    BY <1>6 DEF IInv
  <1> HIDE DEF x
  <1> QED
    BY <1>1, <1>2, <1>4, <1>5, <1>6, <1>7, StateFacts, NewThread

\* The copy of a kernel stack in the page of a new thread.
LEMMA CopyFacts ==
    ASSUME NEW p \in Threads, NEW c \in Threads, p # c, NEW sp \in Region(p)
    PROVE  LET at == KStack(c) - (KStack(p) - sp)
           IN  /\ at \in Region(c) /\ at \in Addresses /\ sp \in Addresses /\ at # sp
               /\ at - KStack(c) + KStack(p) = sp
               /\ at \in Page(c) /\ sp \notin Page(c)
               /\ Within(p, sp + 1) => Within(c, at + 1)
               /\ \A a \in Page(c) : a - KStack(c) + KStack(p) \in Addresses
  <1>0. PICK x, y, s : x = Top(p) /\ y = Top(c) /\ s = StackSize
    OBVIOUS
  <1>1. /\ x \in Nat /\ y \in Nat /\ s \in Nat /\ Depth \in Nat
        /\ KStack(p) = x /\ KStack(c) = y /\ p \in Contexts /\ c \in Contexts
    BY <1>0, Layout
  <1>2. sp \in Int /\ x - s <= sp /\ sp <= x - 1
    BY <1>0, <1>1 DEF Region
  <1>3. PICK at \in Int : at = y - (x - sp)
    BY <1>1, <1>2
  <1>4. at \in Region(c) /\ at - y + x = sp
    BY <1>0, <1>1, <1>2, <1>3 DEF Region
  <1>5. at # sp /\ at \in Addresses /\ sp \in Addresses /\ Page(c) = Region(c) /\ sp \notin Page(c)
    BY <1>1, <1>4, Regions
  <1>6. Within(p, sp + 1) => Within(c, at + 1)
    BY <1>0, <1>1, <1>2, <1>3 DEF Within
  <1>7. ASSUME NEW a \in Page(c) PROVE a - y + x \in Addresses
    <2>1. a \in Int /\ y - s <= a /\ a <= y - 1
      BY <1>0, <1>1, <1>5 DEF Region
    <2>2. a - y + x \in Region(p)
      BY <1>0, <1>1, <2>1 DEF Region
    <2> QED
      BY <1>1, <2>2, Regions
  <1> QED
    BY <1>1, <1>3, <1>4, <1>5, <1>6, <1>7

\* fork keeps the invariant, which copies the stack of the parent to a page of its own.
LEMMA ForkStep == IInv /\ Fork => IInv'
  <1> SUFFICES ASSUME IInv, Fork PROVE IInv'
    OBVIOUS
  <1>1. /\ cur \in Threads /\ cur # Boot /\ FrameAt(cur, cpu.sp, mem)
        /\ cur_tid < MaxTid /\ cur_tid + 1 + left <= MaxTid
    <2>1. MaxTid \in Nat /\ cur_tid \in Nat /\ left \in Nat
      BY NumberFacts
    <2>2. cur_tid + left < MaxTid
      BY DEF Fork
    <2>3. cur \in Threads /\ cur # Boot /\ FrameAt(cur, cpu.sp, mem)
      BY StateFacts, Whereabouts, PlaceFacts DEF Fork, SystemCalls
    <2> QED
      BY <2>1, <2>2, <2>3
  <1>2. PICK c \in Threads, p \in Threads, sp \in Region(cur) :
            c = cur_tid + 1 /\ p = cur /\ sp = cpu.sp
    <2>1. cpu.sp \in Region(cur)
      BY <1>1, StateFacts, FrameFacts
    <2> QED
      BY <1>1, <2>1, NextTid
  <1>3. p # c
    BY <1>1, <1>2, NextTid DEF IInv
  <1>4. PICK at : at = KStack(c) - (KStack(p) - sp)
    OBVIOUS
  <1>5. /\ at \in Region(c) /\ at \in Addresses /\ sp \in Addresses /\ at # sp
        /\ at - KStack(c) + KStack(p) = sp
        /\ at \in Page(c) /\ sp \notin Page(c)
        /\ Within(p, sp + 1) => Within(c, at + 1)
        /\ \A a \in Page(c) : a - KStack(c) + KStack(p) \in Addresses
    <2>1. sp \in Region(p)
      BY <1>2
    <2> QED
      BY <1>3, <1>4, <2>1, CopyFacts
  <1> DEFINE copied == [a \in Addresses |->
                           IF a \in Page(c) THEN mem[a - KStack(c) + KStack(p)] ELSE mem[a]]
             x == [lr |-> "load_all", sp |-> at]
  <1>6. /\ cur_tid' = c /\ status' = [status EXCEPT ![c] = "RUN"]
        /\ queue' = Append(queue, c)
        /\ context' = [context EXCEPT ![c] = x]
        /\ mem' = [copied EXCEPT ![sp].x0 = c, ![at].x0 = 0]
        /\ cpu' = [cpu EXCEPT !.pc = "load_all"]
        /\ left' = left /\ cur' = cur
    BY <1>2, <1>4 DEF Fork
  <1>7. copied \in [Addresses -> Cells]
    BY <1>5, StateFacts
  <1>8. copied[sp] = mem[sp] /\ copied[at] = mem[sp]
    BY <1>5
  <1>9. PICK frame \in Cells : frame = mem[sp]
    BY <1>5, StateFacts
  <1>10. /\ [frame EXCEPT !.x0 = c] \in Cells /\ [frame EXCEPT !.x0 = 0] \in Cells
    BY PlaceFacts DEF Cells
  <1>11. ASSUME NEW d \in Contexts, d # c, d # cur, NEW a \in Region(d) PROVE mem'[a] = mem[a]
    <2>1. a # sp /\ a # at /\ a \in Addresses /\ a \notin Page(c)
      BY <1>2, <1>5, <1>11, Regions, Layout
    <2>2. copied[a] = mem[a]
      BY <2>1
    <2> HIDE DEF copied
    <2> QED
      BY <1>6, <1>7, <2>1, <2>2
  <1> HIDE DEF copied
  <1>12. /\ mem'[sp] = [frame EXCEPT !.x0 = c] /\ mem'[at] = [frame EXCEPT !.x0 = 0]
         /\ mem' \in [Addresses -> Cells]
    <2> DEFINE one == [copied EXCEPT ![sp] = [frame EXCEPT !.x0 = c]]
    <2>1. /\ one \in [Addresses -> Cells] /\ one[sp] = [frame EXCEPT !.x0 = c]
          /\ one[at] = frame
      BY <1>5, <1>7, <1>8, <1>9, <1>10
    <2>2. mem' = [one EXCEPT ![at] = [frame EXCEPT !.x0 = 0]]
      BY <1>5, <1>6, <1>7, <1>8, <1>9
    <2> HIDE DEF one
    <2> QED
      BY <1>5, <1>10, <2>1, <2>2
  <1>13. FrameAt(p, sp, mem') /\ FrameAt(c, at, mem')
    <2>1. Within(p, sp + 1) /\ frame.kind = "frame" /\ frame.pc \in Programs
      BY <1>1, <1>2, <1>9, PlaceFacts, StateFacts DEF FrameAt
    <2>2. /\ mem'[sp].kind = "frame" /\ mem'[sp].pc = frame.pc
          /\ mem'[at].kind = "frame" /\ mem'[at].pc = frame.pc
      BY <1>9, <1>12, <2>1 DEF Cells
    <2>3. Origins(p) = Programs /\ Origins(c) = Programs
      BY PlaceFacts, Layout
    <2> QED
      BY <1>5, <2>1, <2>2, <2>3 DEF FrameAt
  <1>14. x \in Saves /\ Saved(c, x, mem')
    <2>1. at \in 0 .. KStack(MaxTid)
      BY <1>5, RegionSp, Layout
    <2> QED
      BY <1>13, <2>1 DEF Saves, Saved, OnFrame
  <1>15. cpu' \in Regs /\ cpu'.pc = "load_all" /\ cpu'.sp = sp
    BY <1>2, <1>6, StateFacts, PlaceFacts DEF Regs, Kernel
  <1>16. Running(cur, cpu', mem')
    BY <1>2, <1>13, <1>15 DEF Running, OnFrame
  <1>17. c + left' <= MaxTid /\ left' \in 0 .. Batch
    BY <1>1, <1>2, <1>6, StateFacts
  <1> HIDE DEF x
  <1> QED
    BY <1>1, <1>2, <1>6, <1>11, <1>12, <1>14, <1>15, <1>16, <1>17, NewThread

-----------------------------------------------------------------------------
(* The theorems *)

\* The shell begins with its own stack empty and no thread there.
LEMMA InitIInv == Init => IInv
  <1> SUFFICES ASSUME Init PROVE IInv
    OBVIOUS
  <1>1. /\ queue = <<>> /\ cur_tid = Boot /\ left = 0 /\ status = [t \in Threads |-> "none"]
        /\ context = [c \in Contexts |-> Unsaved] /\ cur = Boot
        /\ mem = [a \in Addresses |-> Nothing]
        /\ cpu = Registers("shell", Junk, BootTop, FALSE)
    BY DEF Init
  <1>2. Top(Boot) = BootTop /\ Boot \in Contexts
    BY PlaceFacts DEF Top
  <1>3. Within(Boot, BootTop) /\ BootTop \in 0 .. KStack(MaxTid)
    BY <1>2, Layout DEF Within
  <1>4. cpu \in Regs /\ cpu.pc = "shell" /\ cpu.sp = BootTop
    <2>1. cpu \in Regs
      BY <1>1, <1>3, CellFacts, PlaceFacts DEF Kernel
    <2> QED
      BY <1>1, <2>1 DEF Registers
  <1>5. Running(Boot, cpu, mem)
    BY <1>3, <1>4, PlaceFacts DEF Running
  <1>6. TypeOK
    <2>1. mem \in [Addresses -> Cells] /\ context \in [Contexts -> Saves]
      BY <1>1, CellFacts, SavesFacts
    <2>2. left \in 0 .. Batch
      BY <1>1, BoundsAssumption
    <2> QED
      <3>1. queue \in Seq(Threads) /\ cur_tid \in Contexts /\ cur \in Contexts
        BY <1>1, <1>2
      <3>2. status \in [Threads -> {"none", "RUN", "DEAD"}]
        BY <1>1
      <3> QED
        BY <1>4, <2>1, <2>2, <3>1, <3>2 DEF TypeOK, Regs, Cells, Saves
  <1>7. Numbered
    BY <1>1, BoundsAssumption DEF Numbered, Threads, Boot
  <1>8. \A c \in Contexts \ {Boot} : ~Exists(c)
    BY <1>1 DEF Exists, Contexts
  <1> QED
    BY <1>1, <1>5, <1>6, <1>7, <1>8 DEF IInv, Exists

\* A step that changes nothing keeps the invariant.
LEMMA StutterStep == IInv /\ UNCHANGED vars => IInv'
  <1> SUFFICES ASSUME IInv, UNCHANGED vars PROVE IInv'
    OBVIOUS
  <1>1. Running(cur, cpu', mem')
    BY DEF IInv, vars
  <1> QED
    BY <1>1, StateFacts, LocalStep DEF vars

\* Whatever the threads call and wherever the timer interrupts them, the stacks,
\* contexts and registers fit together.
THEOREM StacksInvariant == Spec /\ ForksByThreads /\ IrqInside => []IInv
  <1>1. Init => IInv
    BY InitIInv
  <1>2. IInv /\ ForksByThreads /\ IrqInside /\ [Next]_vars => IInv'
    <2> SUFFICES ASSUME IInv, ForksByThreads, IrqInside, [Next]_vars PROVE IInv'
      OBVIOUS
    <2>1. CASE ThreadCommand \/ CreateThread \/ Idle
      BY <2>1, ThreadCommandStep, CreateThreadStep, IdleStep
    <2>2. CASE CallFunction \/ ReturnFunction \/ Yield
      BY <2>2, CallFunctionStep, ReturnFunctionStep, YieldStep
    <2>3. CASE \E n \in Calls : Svc(n)
      BY <2>3, SvcStep
    <2>4. CASE GetPid \/ UartWait \/ UartDone \/ MboxCall
      BY <2>4, AnswerStep, UartWaitStep
    <2>5. CASE Exec \/ Fork \/ Exit
      BY <2>5, ExecStep, ForkStep, ExitStep
    <2>6. CASE LoadAll \/ Eret
      BY <2>6, LoadAllStep, EretStep
    <2>7. CASE TimerIrq
      BY <2>7, TimerIrqStep
    <2>8. CASE UNCHANGED vars
      BY <2>8, StutterStep
    <2> QED
      BY <2>1, <2>2, <2>3, <2>4, <2>5, <2>6, <2>7, <2>8 DEF Next
  <1>3. Spec /\ ForksByThreads /\ IrqInside => []IInv
    <2> SUFFICES ASSUME ForksByThreads, IrqInside PROVE Spec => []IInv
      OBVIOUS
    <2>1. IInv /\ [Next]_vars => IInv'
      BY <1>2
    <2> QED
      BY <1>1, <2>1, PTL DEF Spec
  <1> QED
    BY <1>3

\* Every variable keeps its type: no stack pointer leaves the memory, and no
\* thread gets a tid beyond the bound.
THEOREM TypeCorrect == Spec /\ ForksByThreads /\ IrqInside => []TypeOK
  <1>1. IInv => TypeOK
    BY DEF IInv
  <1> QED
    BY <1>1, StacksInvariant, PTL

\* fork, system calls, preemption and preemption inside a system call leave every
\* thread on its own kernel stack, with a frame for load_all where it needs one.
THEOREM StacksApart == Spec /\ ForksByThreads /\ IrqInside => []OwnStack
  <1>1. IInv => OwnStack
    <2> SUFFICES ASSUME IInv, NEW t \in Made
                 PROVE  /\ Sp(t) \in KStack(t) - StackSize .. KStack(t)
                        /\ t # cur /\ context[t].lr = "load_all" =>
                               Sp(t) < KStack(t) /\ mem[Sp(t)].kind = "frame"
      BY DEF OwnStack
    <2>1. t \in Threads /\ t \in Contexts /\ KStack(t) = Top(t) /\ Exists(t)
      BY Layout DEF Made, Exists
    <2>2. CASE t = cur
      <3>1. Sp(t) = cpu.sp /\ cpu.sp \in Int /\ Running(t, cpu, mem)
        BY <2>2, StateFacts DEF Sp, IInv
      <3> QED
        BY <2>1, <2>2, <3>1, RunningFacts
    <2>3. CASE t # cur
      <3>1. Sp(t) = context[t].sp /\ Saved(t, context[t], mem)
        BY <2>1, <2>3 DEF Sp, IInv
      <3>2. context[t].sp \in Int
        <4>1. context[t] \in Saves
          BY <2>1, StateFacts
        <4> QED
          BY <4>1, SavesFacts
      <3> QED
        BY <2>1, <3>1, <3>2, SavedFacts
    <2> QED
      BY <2>2, <2>3
  <1> QED
    BY <1>1, StacksInvariant, PTL
=============================================================================
