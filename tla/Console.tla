------------------------------ MODULE Console ------------------------------
(***************************************************************************)
(* The shell's reading of commands: shell and shell_input of               *)
(* src/src/shell.c over uart_getc and uart_flush of src/src/uart.c, and    *)
(* the receiver of the mini UART.  The shell polls; the rings of queue.c   *)
(* and the UART interrupt are not in use.  Output is left out.             *)
(***************************************************************************)
EXTENDS Integers, Sequences, SequencesExt

CONSTANTS Keys,       \* the keys in use, of Characters and Controls
          FifoSize,   \* the characters the receiver holds: 8 in the device
          MaxLine     \* a bound on the line; char cmd[100] has room for 99

\* "bs" stands for 8 and 127, "a" and "b" for what is no other key.
Controls == {"bs", "etx", "esc", "cr", "nl"}
Characters == {"nul", "a", "b", "C", "D"}

ASSUME KeysAssumption == Keys \subseteq Characters \cup Controls
ASSUME SizesAssumption == FifoSize \in Nat \ {0} /\ MaxLine \in Nat \ {0}

VARIABLES fifo,       \* the characters the receiver holds
          at,         \* what the shell reads: a key, the "[" or the letter of an
                      \* escape sequence, or nothing while it runs a command
          cmd,        \* the buffer of the shell
          idx,        \* the cursor
          end         \* the length of the line

vars == <<fifo, at, cmd, idx, end>>
line == <<cmd, idx, end>>

Cells == 0 .. MaxLine

\* shell_input is entered: cmd is the stack of shell, whatever was there, and
\* only its first character is set.
Init ==
    /\ fifo = <<>> /\ at = "key"
    /\ cmd = [i \in Cells |-> IF i = 0 THEN "nul" ELSE "b"]
    /\ idx = 0 /\ end = 0

\* The receiver takes a character; one that comes when it is full is lost.
Receive(k) ==
    /\ Len(fifo) < FifoSize
    /\ fifo' = Append(fifo, k)
    /\ UNCHANGED <<at, cmd, idx, end>>

\* uart_getc waits for a character and makes a newline of a carriage return.
Getc(k) ==
    /\ fifo # <<>>
    /\ k = IF Head(fifo) = "cr" THEN "nl" ELSE Head(fifo)
    /\ fifo' = Tail(fifo)

ReadKey(k) == at = "key" /\ Getc(k)

\* A mutant: the cursor may go below the first character.
Backspace_NoCheck ==
    /\ ReadKey("bs")
    /\ cmd' = [i \in Cells |-> IF i = end - 1 THEN "nul"
                               ELSE IF i \in idx - 1 .. end - 2 THEN cmd[i + 1]
                               ELSE cmd[i]]
    /\ idx' = idx - 1 /\ end' = end - 1
    /\ UNCHANGED at

Backspace ==
    /\ ReadKey("bs")
    /\ IF idx > 0
       THEN /\ cmd' = [i \in Cells |-> IF i = end - 1 THEN "nul"
                                       ELSE IF i \in idx - 1 .. end - 2 THEN cmd[i + 1]
                                       ELSE cmd[i]]
            /\ idx' = idx - 1 /\ end' = end - 1
       ELSE UNCHANGED line
    /\ UNCHANGED at

\* A mutant: the string ends behind the cursor and not behind the line.
Insert_EndsAtCursor(c) ==
    /\ ReadKey(c) /\ c \in Characters
    /\ end < MaxLine
    /\ cmd' = [i \in Cells |-> IF i = idx + 1 THEN "nul"
                               ELSE IF i = idx THEN c
                               ELSE IF i \in idx + 1 .. end THEN cmd[i - 1]
                               ELSE cmd[i]]
    /\ idx' = idx + 1 /\ end' = end + 1
    /\ UNCHANGED at

\* Nothing but the bound keeps the line in its buffer.
Insert(c) ==
    /\ ReadKey(c) /\ c \in Characters
    /\ end < MaxLine
    /\ cmd' = [i \in Cells |-> IF i = end + 1 THEN "nul"
                               ELSE IF i = idx THEN c
                               ELSE IF i \in idx + 1 .. end THEN cmd[i - 1]
                               ELSE cmd[i]]
    /\ idx' = idx + 1 /\ end' = end + 1
    /\ UNCHANGED at

CtrlC ==
    /\ ReadKey("etx")
    /\ cmd' = [cmd EXCEPT ![0] = "nul"]
    /\ at' = "command"
    /\ UNCHANGED <<idx, end>>

Enter == ReadKey("nl") /\ at' = "command" /\ UNCHANGED line

Escape == ReadKey("esc") /\ at' = "bracket" /\ UNCHANGED line

Bracket == at = "bracket" /\ (\E k \in Keys \cup {"nl"} : Getc(k)) /\ at' = "letter" /\ UNCHANGED line

\* Right and left; anything else empties the receiver with uart_flush, which
\* throws away what was typed after it too.
Letter(k) ==
    /\ at = "letter" /\ at' = "key"
    /\ k \in {"C", "D"} /\ Getc(k)
    /\ idx' = IF k = "C" THEN IF idx < end THEN idx + 1 ELSE idx
                         ELSE IF idx > 0 THEN idx - 1 ELSE idx
    /\ UNCHANGED <<cmd, end>>

Flush ==
    /\ at = "letter" /\ at' = "key"
    /\ \E k \in (Keys \cup {"nl"}) \ {"C", "D"} :
          fifo # <<>> /\ k = IF Head(fifo) = "cr" THEN "nl" ELSE Head(fifo)
    /\ fifo' = <<>>
    /\ UNCHANGED line

\* shell runs the command, which may read keys itself, and calls shell_input
\* again.  A command need not return.
Command ==
    /\ at = "command" /\ at' = "key"
    /\ \E n \in 0 .. Len(fifo) : fifo' = SubSeq(fifo, n + 1, Len(fifo))
    /\ cmd' = [cmd EXCEPT ![0] = "nul"]
    /\ idx' = 0 /\ end' = 0

ShellStep ==
    \/ \E k \in Keys : Insert(k) \/ Letter(k)
    \/ Backspace \/ CtrlC \/ Enter
    \/ Escape \/ Bracket \/ Flush
    \/ Command

Next == (\E k \in Keys : Receive(k)) \/ ShellStep

Spec == Init /\ [][Next]_vars

(* Properties *)

\* The type invariant: the cursor is in the line, the line is in its buffer and
\* ends with a NUL whenever shell_input can return (shell_input).
TypeOK ==
    /\ fifo \in Seq(Keys) /\ Len(fifo) <= FifoSize
    /\ at \in {"key", "bracket", "letter", "command"}
    /\ cmd \in [Cells -> Characters]
    /\ idx \in 0 .. end /\ end \in Cells
    /\ at # "command" => cmd[end] = "nul"

Buffer(from, to) == [i \in 1 .. to - from |-> cmd[from + i - 1]]

\* What strcmp and strncmp of shell see of the buffer.
CString == LET n == CHOOSE n \in Cells : cmd[n] = "nul" /\ \A i \in 0 .. n - 1 : cmd[i] # "nul"
           IN Buffer(0, n)

Editor == INSTANCE LineEditor WITH
    NUL <- "nul",
    before <- IF at = "command" THEN <<>> ELSE Buffer(0, idx),
    after <- IF at = "command" THEN <<>> ELSE Buffer(idx, end),
    command <- IF at = "command" THEN <<CString>> ELSE <<>>

\* shell_input is a line editor: however keys, arrows, erasures and the leavings
\* of earlier lines in the buffer follow each other, the string that shell
\* compares with its commands is the line as edited (shell_input, shell).
EditsLine == Editor!Spec
=============================================================================
