-------------------------------- MODULE Sched --------------------------------
(***************************************************************************)
(* The scheduler of src/src/thread.c: the run queue as the doubly linked   *)
(* list it is, one step per write of a link, so that the timer interrupt   *)
(* can come between any two; schedule, idle, create_thread and the threads *)
(* (foo) that the shell's thread command makes; the switch of contexts and *)
(* what it leaves of the interrupt mask.  The boot thread runs main and    *)
(* the shell; it is on no queue.                                           *)
(***************************************************************************)
EXTENDS Integers, Sequences, SequencesExt

CONSTANTS Batch,        \* the threads one thread command makes: 5 in the code
          MaxCommands,  \* a bound on the number of thread commands
          Iterations,   \* the turns a thread takes: 10 in the code
          Commands,     \* the shell commands in use, of {"thread", "time"}
          IrqAt         \* the places the timer may interrupt: all of them in the
                        \* code, which masks interrupts nowhere

ASSUME BatchAssumption == Batch \in Nat \ {0} /\ MaxCommands \in Nat
ASSUME IterationsAssumption == Iterations \in Nat \ {0}
ASSUME CommandsAssumption == Commands \subseteq {"thread", "time"}

Places == {"prompt", "create", "add1", "add2", "add3", "add4", "del1", "del2", "moved",
           "idle", "unlink", "schedule", "resumed", "walk", "switch", "foo", "wild"}

ASSUME IrqAtAssumption == IrqAt \subseteq Places \ {"wild"}

VARIABLES next, prev,  \* the links of h_list and of the t_list of every thread
          status,      \* the status of every thread, "none" before it is made
          cur_tid,     \* the tid given last
          left,        \* the threads the running thread command still makes
          turns,       \* foo: i
          cur,         \* tpidr_el1: the thread that runs
          at,          \* where each thread is, with the arguments of the list
                       \* operation it is in
          in_irq,      \* the threads that were switched from in the irq handler
          masked,      \* DAIF.I
          timer        \* the core timer is enabled

vars == <<next, prev, status, cur_tid, left, turns, cur, at, in_irq, masked, timer>>
links == <<next, prev>>

HList == 0
NULL == -1
Boot == 1
Size == Batch * MaxCommands
Threads == 2 .. 1 + Size
Contexts == {Boot} \cup Threads

\* A write through a null pointer goes to the first bytes of the memory, where
\* nothing of the program is.
Write(link, x, v) == IF x = NULL THEN link ELSE [link EXCEPT ![x] = v]

Nodes == {HList, NULL} \cup Threads

After == [x \in Nodes |-> IF x \in {HList, NULL} THEN x ELSE next[x]]

\* The nodes that list_for_each comes by: it stops at h_list, and cannot go on
\* from a null link.
Visited[k \in 0 .. Size] == IF k = 0 THEN next[HList] ELSE After[Visited[k - 1]]

\* list_for_each ends: the path leads back to h_list.
Closed == Visited[Size] = HList

\* The threads it comes by.
Path ==
    LET stops == {k \in 0 .. Size : Visited[k] \in {HList, NULL}}
    IN  [k \in 1 .. Min(stops \cup {Size + 1}) |-> Visited[k - 1]]

\* Where runnable ones are, and the first of them.
Ready == LET path == Path IN {k \in DOMAIN path : status[path[k]] = "RUN"}
FirstReady == Path[Min(Ready)]

Here(label) == [pc |-> label, node |-> NULL, prev |-> NULL, next |-> NULL, then |-> ""]

\* list_add_tail(new, &run_queue->h_list), called where h_list is linked by prv.
AddTail(new, prv, then) ==
    [pc |-> "add1", node |-> new, prev |-> prv, next |-> HList, then |-> then]

\* The running thread is at a label, and goes on at another place.
At(label) == at[cur].pc = label
Goto(place) == at' = [at EXCEPT ![cur] = place]
Pc(label) == Goto([at[cur] EXCEPT !.pc = label])
my == at[cur]

Init ==
    /\ next = [x \in {HList} \cup Threads |-> IF x = HList THEN HList ELSE NULL]
    /\ prev = next
    /\ status = [t \in Threads |-> "none"]
    /\ cur_tid = Boot
    /\ left = 0
    /\ turns = [t \in Threads |-> 0]
    /\ cur = Boot
    /\ at = [c \in Contexts |-> Here(IF c = Boot THEN "prompt" ELSE "foo")]
    /\ in_irq = {}
    /\ masked = FALSE
    /\ timer = FALSE

-----------------------------------------------------------------------------
(* The shell: the thread and the time command *)

ThreadCommand ==
    /\ "thread" \in Commands
    /\ At("prompt")
    /\ cur_tid + Batch <= 1 + Size
    /\ left' = Batch
    /\ Goto(Here("create"))
    /\ UNCHANGED <<links, status, cur_tid, turns, cur, in_irq, masked, timer>>

\* Whatever the seconds: _core_timer_enable starts the timer, and irq_handler
\* sets it again each time it comes.
TimeCommand ==
    /\ "time" \in Commands
    /\ At("prompt")
    /\ ~timer
    /\ timer' = TRUE
    /\ UNCHANGED <<links, status, cur_tid, left, turns, cur, at, in_irq, masked>>

\* A mutant: the new thread is linked behind h_list as if the queue were empty.
CreateThread_NoTail ==
    /\ At("create")
    /\ left > 0
    /\ left' = left - 1
    /\ cur_tid' = cur_tid + 1
    /\ status' = [status EXCEPT ![cur_tid'] = "RUN"]
    /\ next' = [next EXCEPT ![cur_tid'] = cur_tid']
    /\ prev' = [prev EXCEPT ![cur_tid'] = cur_tid']
    /\ Goto(AddTail(cur_tid', HList, "create"))
    /\ UNCHANGED <<turns, cur, in_irq, masked, timer>>

CreateThread ==
    /\ At("create")
    /\ left > 0
    /\ left' = left - 1
    /\ cur_tid' = cur_tid + 1
    /\ status' = [status EXCEPT ![cur_tid'] = "RUN"]
    /\ next' = [next EXCEPT ![cur_tid'] = cur_tid']
    /\ prev' = [prev EXCEPT ![cur_tid'] = cur_tid']
    /\ Goto(AddTail(cur_tid', prev[HList], "create"))
    /\ UNCHANGED <<turns, cur, in_irq, masked, timer>>

\* create_thread_interface calls idle.
CreateDone ==
    /\ At("create")
    /\ left = 0
    /\ Goto([Here("idle") EXCEPT !.node = next[HList]])
    /\ UNCHANGED <<links, status, cur_tid, left, turns, cur, in_irq, masked, timer>>

-----------------------------------------------------------------------------
(* __list_add and __list_del, a step for every write *)

\* next->prev = new
Add1 ==
    /\ At("add1")
    /\ prev' = Write(prev, my.next, my.node)
    /\ Pc("add2")
    /\ UNCHANGED <<next, status, cur_tid, left, turns, cur, in_irq, masked, timer>>

\* new->next = next
Add2 ==
    /\ At("add2")
    /\ next' = Write(next, my.node, my.next)
    /\ Pc("add3")
    /\ UNCHANGED <<prev, status, cur_tid, left, turns, cur, in_irq, masked, timer>>

\* new->prev = prev
Add3 ==
    /\ At("add3")
    /\ prev' = Write(prev, my.node, my.prev)
    /\ Pc("add4")
    /\ UNCHANGED <<next, status, cur_tid, left, turns, cur, in_irq, masked, timer>>

\* prev->next = new
Add4 ==
    /\ At("add4")
    /\ next' = Write(next, my.prev, my.node)
    /\ Pc(my.then)
    /\ UNCHANGED <<prev, status, cur_tid, left, turns, cur, in_irq, masked, timer>>

\* next->prev = prev, of list_move_tail in schedule and of list_del in idle
Del1 ==
    /\ At("del1")
    /\ prev' = Write(prev, my.next, my.prev)
    /\ Pc("del2")
    /\ UNCHANGED <<next, status, cur_tid, left, turns, cur, in_irq, masked, timer>>

\* A mutant: the node stays linked from the one before it.
Del2_NoWrite ==
    /\ At("del2")
    /\ Pc(my.then)
    /\ UNCHANGED <<links, status, cur_tid, left, turns, cur, in_irq, masked, timer>>

\* prev->next = next
Del2 ==
    /\ At("del2")
    /\ next' = Write(next, my.prev, my.next)
    /\ Pc(my.then)
    /\ UNCHANGED <<prev, status, cur_tid, left, turns, cur, in_irq, masked, timer>>

\* The arguments of __list_del for a node on the list.
Delete(node, then) ==
    [pc |-> "del1", node |-> node, prev |-> prev[node], next |-> next[node], then |-> then]

-----------------------------------------------------------------------------
(* idle *)

\* A mutant: the loop goes on from the node that was deleted.
Unlink_KeepsPos ==
    /\ At("unlink")
    /\ next' = Write(next, my.node, NULL)
    /\ prev' = Write(prev, my.node, NULL)
    /\ Goto([Here("idle") EXCEPT !.node = next'[my.node]])
    /\ UNCHANGED <<status, cur_tid, left, turns, cur, in_irq, masked, timer>>

\* A mutant: the loop skips the node behind the one that was deleted.
Unlink_Skips ==
    /\ At("unlink")
    /\ next' = Write(next, my.node, NULL)
    /\ prev' = Write(prev, my.node, NULL)
    /\ Goto([Here("idle") EXCEPT !.node = next'[my.next]])
    /\ UNCHANGED <<status, cur_tid, left, turns, cur, in_irq, masked, timer>>

\* list_del clears the links of the entry; the loop goes on from the node that
\* was before it.
Unlink ==
    /\ At("unlink")
    /\ next' = Write(next, my.node, NULL)
    /\ prev' = Write(prev, my.node, NULL)
    /\ Goto([Here("idle") EXCEPT !.node = next'[my.prev]])
    /\ UNCHANGED <<status, cur_tid, left, turns, cur, in_irq, masked, timer>>

\* The loop of idle: it deletes the dead threads and calls schedule.
Idle ==
    /\ At("idle")
    /\ Goto(IF my.node = NULL THEN Here("wild")
            ELSE IF my.node = HList THEN Here("schedule")
            ELSE IF status[my.node] = "DEAD" THEN Delete(my.node, "unlink")
            ELSE [my EXCEPT !.node = next[@]])
    /\ UNCHANGED <<links, status, cur_tid, left, turns, cur, in_irq, masked, timer>>

-----------------------------------------------------------------------------
(* schedule, called by a thread *)

\* The context of t is loaded.  A thread that was switched from in the irq
\* handler returns from the exception and has interrupts on again; any other
\* keeps the mask of the thread that gave up the processor.
SwitchTo(t, mask) ==
    /\ cur' = t
    /\ in_irq' = in_irq \ {t}
    /\ masked' = (mask /\ t \notin in_irq)

Schedule ==
    /\ At("resumed") \/ (At("schedule") /\ next[HList] # HList)
    /\ Goto([Here("walk") EXCEPT !.node = next[HList]])
    /\ UNCHANGED <<links, status, cur_tid, left, turns, cur, in_irq, masked, timer>>

\* The run queue is empty: the boot thread goes on, from the start of the shell
\* when another thread is here.  The thread itself, when something ever goes back
\* to it, goes on with the walk.
ScheduleEmpty ==
    /\ At("schedule")
    /\ next[HList] = HList
    /\ at' = [at EXCEPT ![Boot] = Here("prompt"), ![cur] = Here("resumed")]
    /\ SwitchTo(Boot, masked)
    /\ UNCHANGED <<links, status, cur_tid, left, turns, timer>>

\* A mutant: a dead thread at the front ends the search.
Walk_StopsAtDead ==
    /\ At("walk")
    /\ Goto(IF my.node = NULL THEN Here("wild")
            ELSE IF my.node = HList \/ status[my.node] # "RUN"
            THEN [Here("switch") EXCEPT !.node = Boot]
            ELSE Delete(my.node, "moved"))
    /\ UNCHANGED <<links, status, cur_tid, left, turns, cur, in_irq, masked, timer>>

\* A mutant: the thread that is picked stays where it is on the queue.
Walk_NoMove ==
    /\ At("walk")
    /\ Goto(IF my.node = NULL THEN Here("wild")
            ELSE IF my.node = HList THEN [Here("switch") EXCEPT !.node = Boot]
            ELSE IF status[my.node] = "RUN" THEN [my EXCEPT !.pc = "switch"]
            ELSE [my EXCEPT !.node = next[@]])
    /\ UNCHANGED <<links, status, cur_tid, left, turns, cur, in_irq, masked, timer>>

\* A mutant: the thread at the front is picked, whatever its status.
Walk_PicksAny ==
    /\ At("walk")
    /\ Goto(IF my.node = NULL THEN Here("wild")
            ELSE IF my.node = HList THEN [Here("switch") EXCEPT !.node = Boot]
            ELSE Delete(my.node, "moved"))
    /\ UNCHANGED <<links, status, cur_tid, left, turns, cur, in_irq, masked, timer>>

\* The first runnable thread of the queue is picked, or else the boot thread.
Walk ==
    /\ At("walk")
    /\ Goto(IF my.node = NULL THEN Here("wild")
            ELSE IF my.node = HList THEN [Here("switch") EXCEPT !.node = Boot]
            ELSE IF status[my.node] = "RUN" THEN Delete(my.node, "moved")
            ELSE [my EXCEPT !.node = next[@]])
    /\ UNCHANGED <<links, status, cur_tid, left, turns, cur, in_irq, masked, timer>>

\* list_move_tail: __list_del was done, list_add_tail follows.
Moved ==
    /\ At("moved")
    /\ Goto(AddTail(my.node, prev[HList], "switch"))
    /\ UNCHANGED <<links, status, cur_tid, left, turns, cur, in_irq, masked, timer>>

\* _switch_to.  The thread goes on behind its call of schedule: the boot thread
\* in the shell, any other in the loop of foo.
Switch ==
    /\ At("switch")
    /\ Goto(Here(IF cur = Boot THEN "prompt" ELSE "foo"))
    /\ SwitchTo(my.node, masked)
    /\ UNCHANGED <<links, status, cur_tid, left, turns, timer>>

\* A mutant: the loop has one turn too many.
Foo_OffByOne ==
    /\ At("foo")
    /\ turns[cur] <= Iterations
    /\ turns' = [turns EXCEPT ![cur] = @ + 1]
    /\ status' = IF turns'[cur] = Iterations THEN [status EXCEPT ![cur] = "DEAD"] ELSE status
    /\ Goto(Here("schedule"))
    /\ UNCHANGED <<links, cur_tid, left, cur, in_irq, masked, timer>>

\* A mutant: the thread calls idle itself.
Foo_Idles ==
    /\ At("foo")
    /\ turns[cur] < Iterations
    /\ turns' = [turns EXCEPT ![cur] = @ + 1]
    /\ status' = IF turns'[cur] = Iterations THEN [status EXCEPT ![cur] = "DEAD"] ELSE status
    /\ Goto([Here("idle") EXCEPT !.node = next[HList]])
    /\ UNCHANGED <<links, cur_tid, left, cur, in_irq, masked, timer>>

\* foo: a turn of the loop; the thread is dead in its last.
Foo ==
    /\ At("foo")
    /\ turns[cur] < Iterations
    /\ turns' = [turns EXCEPT ![cur] = @ + 1]
    /\ status' = IF turns'[cur] = Iterations THEN [status EXCEPT ![cur] = "DEAD"] ELSE status
    /\ Goto(Here("schedule"))
    /\ UNCHANGED <<links, cur_tid, left, cur, in_irq, masked, timer>>

\* foo returns, when schedule came back after the last turn, to the address in
\* lr at its first instruction: that is foo, where _switch_to had gone.
FooReturns ==
    /\ At("foo")
    /\ turns[cur] = Iterations
    /\ turns' = [turns EXCEPT ![cur] = 0]
    /\ UNCHANGED <<links, status, cur_tid, left, cur, at, in_irq, masked, timer>>

-----------------------------------------------------------------------------
(* irq_handler, the timer interrupt: schedule with interrupts masked, in one *)
(* step, for nothing can come between its writes                            *)

MoveTail(t) ==
    LET prev1 == Write(prev, next[t], prev[t])
        next1 == Write(next, prev[t], next[t])
        last  == prev1[HList]
    IN  /\ prev' = [prev1 EXCEPT ![HList] = t, ![t] = last]
        /\ next' = Write([next1 EXCEPT ![t] = HList], last, t)

Interrupted == timer /\ ~masked /\ my.pc \in IrqAt

TimerIrq ==
    /\ Interrupted
    /\ next[HList] # HList
    /\ Ready # {}
    /\ MoveTail(FirstReady)
    /\ cur' = FirstReady
    /\ in_irq' = (in_irq \cup {cur}) \ {FirstReady}
    /\ masked' = (FirstReady \notin in_irq \cup {cur})
    /\ UNCHANGED <<status, cur_tid, left, turns, at, timer>>

\* No thread of the queue is runnable: the boot thread goes on.  On an empty
\* queue its context gets the address behind irq_handler and a stack pointer
\* that is not that of the trap frame, unless it was interrupted itself.
TimerIrqToBoot ==
    /\ Interrupted
    /\ Ready = {} /\ Closed
    /\ cur # Boot
    /\ at' = IF next[HList] = HList THEN [at EXCEPT ![Boot] = Here("wild")] ELSE at
    /\ cur' = Boot
    /\ in_irq' = (in_irq \cup {cur}) \ {Boot}
    /\ masked' = (Boot \notin in_irq)
    /\ UNCHANGED <<links, status, cur_tid, left, turns, timer>>

\* The walk follows a null link, or goes round for ever.
TimerIrqLost ==
    /\ Interrupted
    /\ Ready = {} /\ ~Closed
    /\ Goto(Here("wild"))
    /\ masked' = TRUE
    /\ UNCHANGED <<links, status, cur_tid, left, turns, cur, in_irq, timer>>

-----------------------------------------------------------------------------

\* What the processor does without being asked or interrupted.
Cpu ==
    \/ CreateThread \/ CreateDone
    \/ Add1 \/ Add2 \/ Add3 \/ Add4 \/ Del1 \/ Del2
    \/ Idle \/ Unlink
    \/ Schedule \/ ScheduleEmpty \/ Walk \/ Moved \/ Switch
    \/ Foo \/ FooReturns

Next ==
    \/ ThreadCommand
    \/ TimeCommand
    \/ Cpu
    \/ TimerIrq
    \/ TimerIrqToBoot
    \/ TimerIrqLost

Spec == Init /\ [][Next]_vars /\ WF_vars(Cpu)

-----------------------------------------------------------------------------

TypeOK ==
    /\ next \in [{HList} \cup Threads -> Nodes]
    /\ prev \in [{HList} \cup Threads -> Nodes]
    /\ status \in [Threads -> {"none", "RUN", "DEAD"}]
    /\ cur_tid \in Contexts
    /\ left \in 0 .. Batch
    /\ turns \in [Threads -> 0 .. Iterations]
    /\ cur \in Contexts
    /\ DOMAIN at = Contexts
    /\ \A c \in Contexts :
          /\ at[c].pc \in Places
          /\ at[c].node \in Nodes \cup {Boot}
          /\ {at[c].prev, at[c].next} \subseteq Nodes
          /\ at[c].then \in {"", "create", "moved", "switch", "unlink"}
    /\ in_irq \subseteq Contexts
    /\ masked \in BOOLEAN /\ timer \in BOOLEAN

\* No thread is in the middle of a list operation.
Quiet ==
    \A c \in Contexts :
        at[c].pc \notin {"add1", "add2", "add3", "add4", "del1", "del2", "moved", "unlink"}

Made == {t \in Threads : status[t] # "none"}

\* Threads that idle has deleted have null links.
Reaped == {t \in Made : next[t] = NULL}

\* Whenever no list operation is under way, the run queue is a ring through every
\* thread that was made and not yet reaped, once, and the links back agree with
\* the links forward.
RunQueueExact ==
    Quiet =>
        /\ Closed
        /\ IsInjective(Path)
        /\ ToSet(Path) = Made \ Reaped
        /\ \A x \in {HList} \cup ToSet(Path) : prev[next[x]] = x

\* schedule falls back to the boot thread only when no thread is runnable: when
\* the shell reads its next command the threads of the last have all ended.
ShellWaits == cur = Boot /\ At("prompt") => \A t \in Threads : status[t] # "RUN"

\* One walk of idle deletes every dead thread, although it deletes the nodes it
\* walks on.
IdleReapsAll ==
    [][At("idle") /\ at'[cur].pc = "schedule" =>
           \A t \in ToSet(Path) : status[t] # "DEAD"]_vars

\* Every thread that is made takes its turns and ends.
AllEnd == \A t \in Threads : status[t] = "RUN" ~> status[t] = "DEAD"

\* first, and behind it the elements of q that are in S.
Selected(first, q, S) ==
    LET upto[k \in 0 .. Len(q)] ==
            IF k = 0 THEN first
            ELSE IF q[k] \in S THEN Append(upto[k - 1], q[k]) ELSE upto[k - 1]
    IN  upto[Len(q)]

Running == {t \in Threads : status[t] = "RUN"}

\* The order of turns: while list_move_tail is under way the picked thread is
\* still the head of the queue.
Moving == my.then \in {"moved", "switch"}
Order ==
    IF Moving THEN Selected(<<my.node>>, Path, Running \ {my.node})
              ELSE Selected(<<>>, Path, Running)

Abstract == INSTANCE RoundRobin WITH ready <- Order, running <- cur

TakesTurns == Abstract!Spec

\* Whatever the timer interrupts, the processor never goes to a thread that idle
\* has deleted: a dead thread that runs once more is still on the queue.
ReapedNeverRuns == cur \notin Reaped

\* Whatever the timer interrupts, the list operations never write through a null
\* link of a node that idle has deleted.
NoNullWrite ==
    \A c \in Contexts :
        at[c].pc \in {"add1", "add2", "add3", "add4", "del1", "del2"} =>
            at[c].prev # NULL /\ at[c].next # NULL

\* "tid %d is runnable, switch to this thread": no switch goes to a dead thread.
SwitchesToRunnable ==
    [][cur' # cur /\ cur' # Boot => status[cur'] = "RUN"]_vars
=============================================================================
