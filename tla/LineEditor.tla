----------------------------- MODULE LineEditor ------------------------------
(***************************************************************************)
(* What the host may rely on when it types: a line is a sequence of at     *)
(* most MaxLine printable characters, erasing takes the last one back, and *)
(* the newline hands over exactly the line as it stands.  A character that *)
(* finds the line full costs the whole line.                               *)
(***************************************************************************)
EXTENDS Naturals, Sequences

CONSTANTS
    Printable,   \* the characters a line is made of
    MaxLine,     \* the most a line may hold
    NoCommand    \* no line is handed over

VARIABLES
    line,        \* what has been typed of the present line
    command      \* the line this step handed over, or NoCommand

vars == <<line, command>>

Init == line = <<>> /\ command = NoCommand

Insert(c) == Len(line) < MaxLine /\ line' = Append(line, c) /\ command' = NoCommand
Erase == line # <<>> /\ line' = SubSeq(line, 1, Len(line) - 1) /\ command' = NoCommand
Overflow == Len(line) = MaxLine /\ line' = <<>> /\ command' = NoCommand
Submit == command' = line /\ line' = <<>>
Ignore == line' = line /\ command' = NoCommand
Reset == line' = <<>> /\ command' = NoCommand

Next ==
    \/ \E c \in Printable : Insert(c)
    \/ Erase \/ Overflow \/ Submit \/ Ignore \/ Reset

Spec == Init /\ [][Next]_vars
=============================================================================
