------------------------------ MODULE Processes ------------------------------
(***************************************************************************)
(* What the system calls and the context switches of the kernel promise to *)
(* a thread: its program, its stack and the result of its last call change *)
(* by its own steps alone, whatever interrupts it; fork returns to two     *)
(* threads that differ in the result only; a thread that has exited and    *)
(* lost the processor never gets it back.                                  *)
(***************************************************************************)
EXTENDS Naturals, Sequences

CONSTANTS Threads,   \* the threads that can be made
          Boot,      \* the thread of the shell
          Task,      \* the program a new thread starts in
          Images,    \* the programs exec can start
          Results,   \* what a call can return
          Junk       \* what x0 holds where the code promises nothing

VARIABLES image,     \* of every thread its program, stack and x0, or NoImage
          alive,     \* the threads that have not exited
          running    \* the thread that has the processor

vars == <<image, alive, running>>

NoImage == [program |-> "", stack |-> <<>>, x0 |-> Junk]
Fresh == [program |-> Task, stack |-> <<>>, x0 |-> Junk]

Init ==
    /\ image = [t \in Threads |-> NoImage]
    /\ alive = {}
    /\ running = Boot

Make(t) ==
    /\ running = Boot
    /\ image[t] = NoImage
    /\ image' = [image EXCEPT ![t] = Fresh]
    /\ alive' = alive \cup {t}
    /\ UNCHANGED running

\* The running thread calls a function, which keeps its variables on the stack,
\* or returns from one.
Call ==
    /\ running \in Threads
    /\ image' = [image EXCEPT ![running].stack = Append(@, running)]
    /\ UNCHANGED <<alive, running>>

Return ==
    /\ running \in Threads
    /\ image[running].stack # <<>>
    /\ image' = [image EXCEPT ![running].stack = SubSeq(@, 1, Len(@) - 1)]
    /\ UNCHANGED <<alive, running>>

\* get_pid, uartread, uartwrite and mbox_call: nothing changes but the result.
Answer ==
    /\ running \in Threads
    /\ \E r \in Results \cup {running} : image' = [image EXCEPT ![running].x0 = r]
    /\ UNCHANGED <<alive, running>>

Exec ==
    /\ running \in Threads
    /\ \E f \in Images : image' = [image EXCEPT ![running].program = f]
    /\ UNCHANGED <<alive, running>>

Fork(c) ==
    /\ running \in Threads
    /\ image[c] = NoImage
    /\ image' = [image EXCEPT ![running].x0 = c, ![c] = [image[running] EXCEPT !.x0 = 0]]
    /\ alive' = alive \cup {c}
    /\ UNCHANGED running

Exit ==
    /\ running \in Threads
    /\ alive' = alive \ {running}
    /\ UNCHANGED <<image, running>>

\* Whoever is interrupted, a thread that lives gets the processor, and the shell
\* when there is none.
Switch ==
    /\ IF alive = {} THEN running' = Boot ELSE running' \in alive
    /\ UNCHANGED alive

Preempt == Switch /\ UNCHANGED image

\* The running thread gives up the processor by a call of schedule.
Yield ==
    /\ running \in Threads
    /\ Switch
    /\ image' = [image EXCEPT ![running].x0 = Junk]

Next ==
    \/ \E t \in Threads : Make(t) \/ Fork(t)
    \/ Call \/ Return
    \/ Answer \/ Exec \/ Exit
    \/ Preempt \/ Yield

Spec == Init /\ [][Next]_vars
=============================================================================
