----------------------------- MODULE SerialLine ------------------------------
(***************************************************************************)
(* The receive loop of wallet_cli_service, one character per step: the     *)
(* characters of a line are collected in a fixed buffer, a newline closes  *)
(* it with a NUL and hands the buffer to handle_line as a C string.        *)
(* Erasing only moves line_used back, so what was typed stays in the       *)
(* buffer behind it.  The buffer outlives service calls, a lock and the    *)
(* end of a session.                                                       *)
(***************************************************************************)
EXTENDS Naturals, Sequences

CONSTANTS
    Printable,    \* 0x20 .. 0x7e
    Nul,          \* the character zero
    LineSize,     \* kLineSize
    NoCommand     \* handle_line is not called in this step

ASSUME LineAssumption ==
    /\ Nul \notin Printable
    /\ LineSize \in Nat \ {0}
    /\ NoCommand \notin Seq(Printable)

VARIABLES
    line_buffer,
    line_used,
    command       \* the C string handle_line received in this step

vars == <<line_buffer, line_used, command>>

Index == 0 .. LineSize - 1
Zeroes == [i \in Index |-> Nul]

\* The type includes that line_used leaves room for the NUL.
TypeOK ==
    /\ line_buffer \in [Index -> Printable \cup {Nul}]
    /\ line_used \in Index
    /\ command # NoCommand => command \in Seq(Printable)

-----------------------------------------------------------------------------
\* The C string at the start of a buffer: everything before its first NUL.
StringEnd(buffer) ==
    CHOOSE n \in Index : buffer[n] = Nul /\ \A i \in 0 .. n - 1 : buffer[i] # Nul
CString(buffer) == [i \in 1 .. StringEnd(buffer) |-> buffer[i - 1]]

\* Mutant: the line is handed over as it stands in the buffer.
Unterminated == line_buffer

Terminated == [line_buffer EXCEPT ![line_used] = Nul]

Room == line_used + 1 < LineSize

\* Mutant: the buffer is cleared and line_used is not.
secure_zero_only == line_buffer' = Zeroes /\ line_used' = line_used

secure_zero == line_buffer' = Zeroes /\ line_used' = 0

-----------------------------------------------------------------------------
Init == line_buffer = Zeroes /\ line_used = 0 /\ command = NoCommand

Newline == command' = CString(Terminated) /\ secure_zero

\* Backspace or delete.
Erase ==
    /\ line_used # 0
    /\ line_used' = line_used - 1
    /\ command' = NoCommand /\ UNCHANGED line_buffer

Character(c) ==
    /\ Room
    /\ line_buffer' = [line_buffer EXCEPT ![line_used] = c]
    /\ line_used' = line_used + 1
    /\ command' = NoCommand

\* The line is thrown away together with the character that did not fit; what
\* follows of it is collected as a new line.
LineTooLong == ~Room /\ secure_zero /\ command' = NoCommand

\* Carriage returns, other control characters, erasing an empty line.
Ignored == command' = NoCommand /\ UNCHANGED <<line_buffer, line_used>>

\* A power cycle.
Boot == secure_zero /\ command' = NoCommand

Next ==
    \/ Newline \/ Erase \/ LineTooLong \/ Ignored \/ Boot
    \/ \E c \in Printable : Character(c)

Spec == Init /\ [][Next]_vars

-----------------------------------------------------------------------------
(* Properties *)

\* The NUL written at line_used is the first one: what is before it was typed,
\* whatever erased characters are behind it.
LineIsSolid == \A i \in 0 .. line_used - 1 : line_buffer[i] # Nul

\* A handler receives the line as the user sees it: typed characters minus the
\* erased ones, nothing of what was erased, of an earlier line or of what was
\* thrown away because it did not fit.
Typed == [i \in 1 .. line_used |-> line_buffer[i - 1]]
Editor == INSTANCE LineEditor WITH line <- Typed, MaxLine <- LineSize - 1
ReadsLines == Editor!Spec
=============================================================================
