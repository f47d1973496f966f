----------------------------- MODULE LineEditor -----------------------------
(***************************************************************************)
(* What the shell promises to whoever types: a line with a cursor in it,   *)
(* and the line as it stood when Enter was typed as the command.           *)
(***************************************************************************)
EXTENDS Naturals, Sequences, SequencesExt

CONSTANTS Characters,   \* what can be typed into a line
          NUL           \* the character that ends a string, of Characters too

VARIABLES before,       \* the characters before the cursor
          after,        \* the characters from the cursor on
          command       \* <<line>> while a command runs, else empty

vars == <<before, after, command>>

Editing == command = <<>>

\* The string that a line is: it ends at the first NUL, if one was typed.
Text(line) ==
    LET n == SelectInSeq(line, LAMBDA c : c = NUL)
    IN IF n = 0 THEN line ELSE SubSeq(line, 1, n - 1)

Init == before = <<>> /\ after = <<>> /\ command = <<>>

Insert(c) == Editing /\ before' = Append(before, c) /\ UNCHANGED <<after, command>>

Erase ==
    /\ Editing /\ before # <<>>
    /\ before' = Front(before)
    /\ UNCHANGED <<after, command>>

Left ==
    /\ Editing /\ before # <<>>
    /\ before' = Front(before)
    /\ after' = <<Last(before)>> \o after
    /\ UNCHANGED command

Right ==
    /\ Editing /\ after # <<>>
    /\ before' = Append(before, Head(after))
    /\ after' = Tail(after)
    /\ UNCHANGED command

Run(line) ==
    /\ Editing
    /\ command' = <<line>>
    /\ before' = <<>> /\ after' = <<>>

Enter == Run(Text(before \o after))
Abort == Run(<<>>)

Prompt == ~Editing /\ command' = <<>> /\ UNCHANGED <<before, after>>

Next ==
    \/ \E c \in Characters : Insert(c)
    \/ Erase \/ Left \/ Right
    \/ Enter \/ Abort \/ Prompt

Spec == Init /\ [][Next]_vars
=============================================================================
