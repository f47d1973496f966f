------------------------------- MODULE MCSched -------------------------------
(***************************************************************************)
(* Sched with two thread commands: the second finds the dead threads of    *)
(* the first on the run queue.                                             *)
(***************************************************************************)
EXTENDS Sched

MCCommands == {"thread", "time"}

\* The timer comes only where no thread holds a pointer into the run queue.
MCOutsideLists == {"prompt", "create", "schedule", "foo"}

MCAnywhere == Places \ {"wild"}
=============================================================================
