------------------------------- MODULE Process -------------------------------
(***************************************************************************)
(* The system calls of src/src/syscall.c and the ways in and out of the    *)
(* kernel: the trap frames of src/exception.S, the contexts of             *)
(* src/context.S and the kernel stacks both are kept on.  A cell of a      *)
(* stack is a trap frame, a return address that schedule was called from,  *)
(* or the variables of a function of the thread.  The kernel runs at the   *)
(* exception level of the threads, on their stacks.  schedule is one step  *)
(* here: its inner steps are those of Sched.                               *)
(***************************************************************************)
EXTENDS Integers, Sequences, SequencesExt

CONSTANTS Batch,       \* the threads one thread command makes: 5 in the code
          MaxTid,      \* a bound on the number of threads
          Depth,       \* a bound on the nested calls of a thread
          Images,      \* the programs of the archive that exec can start
          Calls,       \* the system calls in use
          Commands,    \* the shell commands in use, of {"thread", "fork"}
          IrqAt        \* where the timer may interrupt

ASSUME BoundsAssumption == Batch \in Nat \ {0} /\ MaxTid \in Nat \ {0} /\ Depth \in Nat

SystemCalls == {"get_pid", "uart", "exec", "fork", "exit", "mbox_call"}
ASSUME CallsAssumption == Calls \subseteq SystemCalls
ASSUME CommandsAssumption == Commands \subseteq {"thread", "fork"}

Kernel == {"shell", "create", "uart_wait", "load_all", "eret"}
Programs == {"task"} \cup Images
Places == Programs \cup Calls \cup Kernel

\* Images are loaded to pages of their own.
ASSUME ImagesAssumption == Programs \cap (SystemCalls \cup Kernel) = {}

ASSUME IrqAtAssumption == IrqAt \subseteq Places

VARIABLES queue,     \* run_queue->h_list, the tids in the order of the list
          cur_tid,   \* the tid given last
          left,      \* the threads the running thread command still makes
          status,    \* the status of every thread
          context,   \* lr and sp of every Thread.context
          cur,       \* tpidr_el1
          mem,       \* the cells of the memory that stacks can be in
          cpu        \* the registers: pc, x0, sp, DAIF.I, and elr_el1 and spsr_el1

vars == <<queue, cur_tid, left, status, context, cur, mem, cpu>>
threads == <<queue, cur_tid, left, status, context, cur>>

Boot == 1
Threads == 2 .. MaxTid
Contexts == {Boot} \cup Threads

\* What x0 holds where no call has left a result, and the size that uartread and
\* uartwrite return: a character at a time.
Junk == -1
Size == 1

(* The memory *)

\* A kernel stack holds the calls of the thread, the frame of a system call and
\* that of an interrupt during it.
StackSize == Depth + 2

\* The boot stack ends at _start (src/start.S); the kernel image, then the pages
\* follow.  Every thread has a page for its kernel stack, the boot thread too.
BootTop == StackSize
PageBase == 3 * StackSize
KStack(t) == PageBase + t * StackSize
Top(t) == IF t = Boot THEN BootTop ELSE KStack(t)
Addresses == 0 .. KStack(MaxTid) - 1
Page(t) == KStack(t) - StackSize .. KStack(t) - 1

Cell(kind, pc, x0, masked) == [kind |-> kind, pc |-> pc, x0 |-> x0, masked |-> masked]
Nothing == Cell("none", "", Junk, FALSE)
Unsaved == [lr |-> "", sp |-> 0]
Variables(t) == Cell("local", "", t, FALSE)

Push(cell) == [mem EXCEPT ![cpu.sp - 1] = cell]

\* Nothing reads a cell below the stack pointer, so it is forgotten.
Pop == mem' = [mem EXCEPT ![cpu.sp] = Nothing]

Registers(pc, x0, sp, masked) ==
    [pc |-> pc, x0 |-> x0, sp |-> sp, masked |-> masked, elr |-> "", spsr |-> FALSE]

Init ==
    /\ queue = <<>>
    /\ cur_tid = Boot
    /\ left = 0
    /\ status = [t \in Threads |-> "none"]
    /\ context = [c \in Contexts |-> Unsaved]
    /\ cur = Boot
    /\ mem = [a \in Addresses |-> Nothing]
    /\ cpu = Registers("shell", Junk, BootTop, FALSE)

-----------------------------------------------------------------------------
(* schedule and _switch_to *)

\* lr of a context is the task, the load_all of exception.S, or a place in
\* schedule, which returns to its caller.  At the task and at load_all the
\* interrupt mask is the one of the thread that gave up the processor.
Load(c, m, masked) ==
    IF c.lr = "schedule"
    THEN /\ cpu' = Registers(m[c.sp].pc, Junk, c.sp + 1, masked)
         /\ mem' = [m EXCEPT ![c.sp] = Nothing]
    ELSE /\ cpu' = Registers(c.lr, Junk, c.sp, masked)
         /\ mem' = m

\* Where q has its first runnable thread; 0 when it has none.
Runnable(q) == {i \in DOMAIN q : status[q[i]] = "RUN"}
First(q) == IF Runnable(q) = {} THEN 0
            ELSE CHOOSE i \in Runnable(q) : \A j \in Runnable(q) : i <= j

\* The running thread is saved and the first runnable thread of q, or else the
\* boot thread, goes on, on the memory m.  On an empty queue the context of the
\* boot thread gets the address init_lr and the stack of the caller, before it is
\* saved or loaded.  The context of the thread that runs is not read.
Schedule(q, m, saved, init_lr, masked) ==
    LET next   == IF First(q) = 0 THEN Boot ELSE q[First(q)]
        empty  == [context EXCEPT ![Boot] = IF q = <<>> THEN [lr |-> init_lr, sp |-> saved.sp] ELSE @]
        stored == [empty EXCEPT ![cur] = saved]
    IN  /\ queue' = IF next = Boot THEN q ELSE Append(RemoveAt(q, First(q)), next)
        /\ context' = [stored EXCEPT ![next] = Unsaved]
        /\ cur' = next
        /\ Load(stored[next], m, masked)

\* A call of schedule: the return address is on the stack.
CallSchedule(q, pc) ==
    Schedule(q, Push(Cell("return", pc, Junk, FALSE)),
             [lr |-> "schedule", sp |-> cpu.sp - 1], "shell", cpu.masked)

-----------------------------------------------------------------------------
(* The shell, in the boot thread *)

ThreadCommand ==
    /\ "thread" \in Commands
    /\ cur = Boot /\ cpu.pc = "shell"
    /\ cur_tid + Batch <= MaxTid
    /\ left' = Batch
    /\ cpu' = [cpu EXCEPT !.pc = "create"]
    /\ UNCHANGED <<queue, cur_tid, status, context, cur, mem>>

\* A mutant: the loop makes one thread more.
CreateThread_OneMore ==
    /\ cpu.pc = "create"
    /\ left >= 0
    /\ left' = left - 1
    /\ cur_tid' = cur_tid + 1
    /\ status' = [status EXCEPT ![cur_tid'] = "RUN"]
    /\ context' = [context EXCEPT ![cur_tid'] = [lr |-> "task", sp |-> KStack(cur_tid')]]
    /\ queue' = Append(queue, cur_tid')
    /\ UNCHANGED <<cur, mem, cpu>>

\* A new thread: its context leads to the task, on the top of its kernel stack.
CreateThread ==
    /\ cpu.pc = "create"
    /\ left > 0
    /\ left' = left - 1
    /\ cur_tid' = cur_tid + 1
    /\ status' = [status EXCEPT ![cur_tid'] = "RUN"]
    /\ context' = [context EXCEPT ![cur_tid'] = [lr |-> "task", sp |-> KStack(cur_tid')]]
    /\ queue' = Append(queue, cur_tid')
    /\ UNCHANGED <<cur, mem, cpu>>

\* What the loop of idle leaves of the first k threads of the queue.
Keep(q, t) == IF status[t] = "DEAD" THEN q ELSE Append(q, t)
Living[k \in 0 .. Len(queue)] == IF k = 0 THEN <<>> ELSE Keep(Living[k - 1], queue[k])

\* idle deletes the dead threads from the queue and calls schedule.
Idle ==
    /\ cpu.pc = "create"
    /\ left = 0
    /\ CallSchedule(Living[Len(queue)], "shell")
    /\ UNCHANGED <<cur_tid, left, status>>

-----------------------------------------------------------------------------
(* The program of a thread *)

User == cur # Boot /\ cpu.pc \in Programs

CallFunction ==
    /\ User
    /\ cpu.sp > Top(cur) - Depth
    /\ mem' = Push(Variables(cur))
    /\ cpu' = [cpu EXCEPT !.sp = @ - 1]
    /\ UNCHANGED threads

ReturnFunction ==
    /\ User
    /\ cpu.sp < Top(cur)
    /\ Pop
    /\ cpu' = [cpu EXCEPT !.sp = @ + 1]
    /\ UNCHANGED threads

\* As foo does after every turn.
Yield ==
    /\ User
    /\ CallSchedule(queue, cpu.pc)
    /\ UNCHANGED <<cur_tid, left, status>>

-----------------------------------------------------------------------------
(* The ways into the kernel and out of it *)

\* The commands fork and exec call fork in the boot thread.
MayCall(n) == User \/ (cur = Boot /\ cpu.pc = "shell" /\ n = "fork" /\ "fork" \in Commands)

\* svc and save_all.  The mask goes to spsr_el1, the return address to elr_el1.
Svc(n) ==
    /\ MayCall(n)
    /\ mem' = Push(Cell("frame", cpu.pc, cpu.x0, cpu.masked))
    /\ cpu' = Registers(n, cpu.x0, cpu.sp - 1, TRUE)
    /\ UNCHANGED threads

\* load_all, up to the addition to sp.
LoadAll ==
    /\ cpu.pc = "load_all"
    /\ LET frame == mem[cpu.sp] IN
           cpu' = [pc |-> "eret", x0 |-> frame.x0, sp |-> cpu.sp + 1, masked |-> cpu.masked,
                   elr |-> frame.pc, spsr |-> frame.masked]
    /\ Pop
    /\ UNCHANGED threads

Eret ==
    /\ cpu.pc = "eret"
    /\ cpu' = Registers(cpu.elr, cpu.x0, cpu.sp, cpu.spsr)
    /\ UNCHANGED <<threads, mem>>

\* The timer interrupt: save_all and irq_handler, which calls schedule.  A thread
\* that is switched from here goes on with load_all on its frame.
TimerIrq ==
    /\ ~cpu.masked
    /\ cpu.pc \in IrqAt
    /\ Schedule(queue, Push(Cell("frame", cpu.pc, cpu.x0, cpu.masked)),
                [lr |-> "load_all", sp |-> cpu.sp - 1], "load_all", TRUE)
    /\ UNCHANGED <<cur_tid, left, status>>

-----------------------------------------------------------------------------
(* system_call_handler, on the frame at cur_ksp = cpu.sp *)

\* The call is done: its result is in the frame.
Result(r) ==
    /\ mem' = [mem EXCEPT ![cpu.sp].x0 = r]
    /\ cpu' = [cpu EXCEPT !.pc = "load_all", !.masked = TRUE]
    /\ UNCHANGED threads

GetPid == cpu.pc = "get_pid" /\ Result(cur)

\* __uartread and __uartwrite wait for the UART with interrupts on.
UartWait ==
    /\ cpu.pc = "uart"
    /\ cpu' = [cpu EXCEPT !.pc = "uart_wait", !.masked = FALSE]
    /\ UNCHANGED <<threads, mem>>

UartDone == cpu.pc = "uart_wait" /\ Result(Size)

\* __mbox_call polls with interrupts masked.
MboxCall == cpu.pc = "mbox_call" /\ \E valid \in {0, 1} : Result(valid)

\* __exec copies the image to new pages and sets the return address in the frame.
Exec ==
    /\ cpu.pc = "exec"
    /\ \E f \in Images : mem' = [mem EXCEPT ![cpu.sp].pc = f]
    /\ cpu' = [cpu EXCEPT !.pc = "load_all"]
    /\ UNCHANGED threads

\* A mutant: the child keeps the stack pointer of the parent.
Fork_SameSp ==
    /\ cpu.pc = "fork"
    /\ cur_tid + left < MaxTid
    /\ cur_tid' = cur_tid + 1
    /\ LET c == cur_tid'
           copied == [a \in Addresses |->
                         IF a \in Page(c) THEN mem[a - KStack(c) + KStack(cur)] ELSE mem[a]]
       IN  /\ status' = [status EXCEPT ![c] = "RUN"]
           /\ queue' = Append(queue, c)
           /\ context' = [context EXCEPT ![c] = [lr |-> "load_all", sp |-> cpu.sp]]
           /\ mem' = [copied EXCEPT ![cpu.sp].x0 = c]
    /\ cpu' = [cpu EXCEPT !.pc = "load_all"]
    /\ UNCHANGED <<left, cur>>

\* A mutant: the kernel stack is copied after the results were written.
Fork_LateCopy ==
    /\ cpu.pc = "fork"
    /\ cur_tid + left < MaxTid
    /\ cur_tid' = cur_tid + 1
    /\ LET c == cur_tid'
           sp == KStack(c) - (KStack(cur) - cpu.sp)
           written == [mem EXCEPT ![cpu.sp].x0 = c, ![sp].x0 = 0]
       IN  /\ status' = [status EXCEPT ![c] = "RUN"]
           /\ queue' = Append(queue, c)
           /\ context' = [context EXCEPT ![c] = [lr |-> "load_all", sp |-> sp]]
           /\ mem' = [a \in Addresses |->
                         IF a \in Page(c) THEN written[a - KStack(c) + KStack(cur)] ELSE written[a]]
    /\ cpu' = [cpu EXCEPT !.pc = "load_all"]
    /\ UNCHANGED <<left, cur>>

\* __fork.  The child gets a copy of the page of the kernel stack; its stack
\* pointer is as far below its kstack as cur_ksp is below that of the parent.
Fork ==
    /\ cpu.pc = "fork"
    /\ cur_tid + left < MaxTid
    /\ cur_tid' = cur_tid + 1
    /\ LET c == cur_tid'
           sp == KStack(c) - (KStack(cur) - cpu.sp)
           copied == [a \in Addresses |->
                         IF a \in Page(c) THEN mem[a - KStack(c) + KStack(cur)] ELSE mem[a]]
       IN  /\ status' = [status EXCEPT ![c] = "RUN"]
           /\ queue' = Append(queue, c)
           /\ context' = [context EXCEPT ![c] = [lr |-> "load_all", sp |-> sp]]
           /\ mem' = [copied EXCEPT ![cpu.sp].x0 = c, ![sp].x0 = 0]
    /\ cpu' = [cpu EXCEPT !.pc = "load_all"]
    /\ UNCHANGED <<left, cur>>

\* __exit: the thread goes on until something else calls schedule.
Exit ==
    /\ cpu.pc = "exit"
    /\ status' = [status EXCEPT ![cur] = "DEAD"]
    /\ cpu' = [cpu EXCEPT !.pc = "load_all"]
    /\ UNCHANGED <<queue, cur_tid, left, context, cur, mem>>

-----------------------------------------------------------------------------

Next ==
    \/ ThreadCommand \/ CreateThread \/ Idle
    \/ CallFunction \/ ReturnFunction \/ Yield
    \/ \E n \in Calls : Svc(n)
    \/ GetPid \/ UartWait \/ UartDone \/ MboxCall \/ Exec \/ Fork \/ Exit
    \/ LoadAll \/ Eret
    \/ TimerIrq

Spec == Init /\ [][Next]_vars

-----------------------------------------------------------------------------

TypeOK ==
    /\ queue \in Seq(Threads)
    /\ cur_tid \in Contexts
    /\ left \in 0 .. Batch
    /\ status \in [Threads -> {"none", "RUN", "DEAD"}]
    /\ context \in [Contexts -> [lr : {"", "shell", "task", "load_all", "schedule"},
                                 sp : 0 .. KStack(MaxTid)]]
    /\ cur \in Contexts
    /\ mem \in [Addresses -> [kind : {"none", "local", "return", "frame"},
                              pc : Places \cup {""}, x0 : -1 .. MaxTid, masked : BOOLEAN]]
    /\ cpu \in [pc : Places, x0 : -1 .. MaxTid, sp : 0 .. KStack(MaxTid), masked : BOOLEAN,
                elr : Places \cup {""}, spsr : BOOLEAN]

\* The boot thread calls fork in no command, and no interrupt comes on the way
\* out of the kernel.
ForksByThreads == "fork" \notin Commands
IrqInside == IrqAt \cap {"load_all", "eret"} = {}

\* Where the stack of a thread ends.
Sp(t) == IF t = cur THEN cpu.sp ELSE context[t].sp

Made == {t \in Threads : status[t] # "none"}

\* Every thread that was made is on its own kernel stack, and one that waits for
\* load_all has a frame there: fork, preemption and preemption inside a system
\* call leave no stack pointer in the stack of another thread.
OwnStack ==
    \A t \in Made :
        /\ Sp(t) \in KStack(t) - StackSize .. KStack(t)
        /\ t # cur /\ context[t].lr = "load_all" =>
               Sp(t) < KStack(t) /\ mem[Sp(t)].kind = "frame"

\* The program, the calls and the result of a thread: in the outermost cell that
\* was saved on its stack, or else in the registers.
Stack(t) == [i \in 1 .. Top(t) - Sp(t) |-> mem[Top(t) - i]]
Image(t) ==
    LET locals == SelectSeq(Stack(t), LAMBDA c : c.kind = "local")
        saved  == SelectSeq(Stack(t), LAMBDA c : c.kind # "local")
        outer  == IF saved # <<>> THEN Head(saved)
                  ELSE IF t # cur THEN Cell("", "task", Junk, FALSE)
                  ELSE IF cpu.pc = "eret" THEN [cpu EXCEPT !.pc = cpu.elr]
                  ELSE cpu
    IN  [program |-> outer.pc, x0 |-> outer.x0,
         stack |-> [i \in DOMAIN locals |-> locals[i].x0]]

Abstract == INSTANCE Processes WITH
    Task    <- "task",
    Results <- {0, 1},
    image   <- [t \in Threads |-> IF t \in Made THEN Image(t)
                                  ELSE [program |-> "", stack |-> <<>>, x0 |-> Junk]],
    alive   <- {t \in Threads : status[t] = "RUN"},
    running <- cur

\* Whatever is on the stacks and in the contexts, the threads see what Processes
\* promises them.
ThreadsKeepImages == Abstract!Spec
=============================================================================
