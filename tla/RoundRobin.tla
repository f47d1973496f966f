----------------------------- MODULE RoundRobin -----------------------------
(***************************************************************************)
(* What the scheduler of src/src/thread.c promises to the threads: the     *)
(* runnable threads take turns in the order of a queue, and the boot       *)
(* thread runs only to make new threads and when none is runnable.         *)
(***************************************************************************)
EXTENDS Naturals, Sequences, SequencesExt

CONSTANTS Threads,  \* the threads that can be made
          Boot      \* the thread that main and the shell run in

VARIABLES ready,    \* the runnable threads in the order of their next turns
          running   \* the thread that has the processor

vars == <<ready, running>>

Init == ready = <<>> /\ running = Boot

Add(t) ==
    /\ running = Boot
    /\ t \notin ToSet(ready)
    /\ ready' = Append(ready, t)
    /\ UNCHANGED running

\* The head of the queue runs and becomes its tail.
Dispatch ==
    /\ ready # <<>>
    /\ running' = Head(ready)
    /\ ready' = Append(Tail(ready), Head(ready))

\* The running thread, the tail of the queue, has ended.
Finish ==
    /\ ready # <<>>
    /\ running = Last(ready)
    /\ ready' = Front(ready)
    /\ UNCHANGED running

BackToBoot ==
    /\ ready = <<>>
    /\ running' = Boot
    /\ UNCHANGED ready

Next ==
    \/ \E t \in Threads : Add(t)
    \/ Dispatch
    \/ Finish
    \/ BackToBoot

Spec == Init /\ [][Next]_vars
=============================================================================
