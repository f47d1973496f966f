------------------------------ MODULE MCProcess ------------------------------
(***************************************************************************)
(* Process with two threads, made by the shell or by fork, and an image.   *)
(***************************************************************************)
EXTENDS Process

MCImages == {"syscall.img"}
MCCalls == {"get_pid", "uart", "exec", "fork", "exit", "mbox_call"}
MCThread == {"thread"}
MCThreadFork == {"thread", "fork"}

\* Not on the way out of the kernel: load_all runs with interrupts on when the
\* thread was resumed by one that called schedule, and an interrupt there loses
\* elr_el1 or leaves one more frame on the stack.
MCIrqAt == Places \ {"load_all", "eret"}

\* What the theorems about Process assume of IrqAt.
ASSUME MCIrqAtAssumption == IrqInside
=============================================================================
