--------------------------- MODULE SerialLineProof ---------------------------
(***************************************************************************)
(* The line buffer for every size and every alphabet: no index leaves it,  *)
(* and SerialLine implements LineEditor.                                   *)
(***************************************************************************)
EXTENDS SerialLine, SequenceTheorems, TLAPS

LineInv == TypeOK /\ LineIsSolid

\* Where a NUL stands right behind solid characters, the C string is those
\* characters.
LEMMA StringOfLine ==
    ASSUME NEW buffer \in [Index -> Printable \cup {Nul}], NEW n \in Index,
           buffer[n] = Nul, \A i \in 0 .. n - 1 : buffer[i] # Nul
    PROVE  /\ CString(buffer) = [i \in 1 .. n |-> buffer[i - 1]]
           /\ CString(buffer) \in Seq(Printable)
  <1>1. \A m \in Index : buffer[m] = Nul /\ (\A i \in 0 .. m - 1 : buffer[i] # Nul) => m = n
    BY LineAssumption DEF Index
  <1>2. StringEnd(buffer) = n
    BY <1>1 DEF StringEnd
  <1>3. CString(buffer) = [i \in 1 .. n |-> buffer[i - 1]]
    BY <1>2 DEF CString
  <1>4. \A i \in 1 .. n : i - 1 \in 0 .. n - 1 /\ i - 1 \in Index
    BY LineAssumption DEF Index
  <1>5. [i \in 1 .. n |-> buffer[i - 1]] \in [1 .. n -> Printable]
    BY <1>4
  <1>6. n \in Nat
    BY LineAssumption DEF Index
  <1> QED
    BY <1>3, <1>5, <1>6

\* What Newline hands over.
LEMMA Handed ==
    ASSUME LineInv
    PROVE  CString(Terminated) = Typed /\ Typed \in Seq(Printable)
  <1>1. Terminated \in [Index -> Printable \cup {Nul}]
    BY DEF LineInv, TypeOK, Terminated
  <1>2. line_used \in Index /\ line_used \in Nat /\ \A i \in 0 .. line_used - 1 : i \in Index /\ i # line_used
    BY LineAssumption DEF LineInv, TypeOK, Index
  <1>3. Terminated[line_used] = Nul
    BY <1>2 DEF LineInv, TypeOK, Terminated
  <1>4. \A i \in 0 .. line_used - 1 : Terminated[i] = line_buffer[i] /\ Terminated[i] # Nul
    BY <1>2 DEF LineInv, TypeOK, LineIsSolid, Terminated
  <1>5. /\ CString(Terminated) = [i \in 1 .. line_used |-> Terminated[i - 1]]
        /\ CString(Terminated) \in Seq(Printable)
    BY <1>1, <1>2, <1>3, <1>4, StringOfLine
  <1>6. \A i \in 1 .. line_used : i - 1 \in 0 .. line_used - 1
    BY <1>2
  <1>7. [i \in 1 .. line_used |-> Terminated[i - 1]] = Typed
    BY <1>4, <1>6 DEF Typed
  <1> QED
    BY <1>5, <1>7

\* The empty buffer is a solid line.
LEMMA LineStart == Init => LineInv
  <1> SUFFICES ASSUME Init PROVE LineInv
    OBVIOUS
  <1>1. 0 \in Index /\ Zeroes \in [Index -> Printable \cup {Nul}]
    BY LineAssumption DEF Index, Zeroes
  <1> QED
    BY <1>1 DEF Init, LineInv, TypeOK, LineIsSolid

\* Every character keeps the line solid.
LEMMA LineStep ==
    ASSUME LineInv, [Next]_vars
    PROVE  LineInv'
  <1>0. 0 \in Index /\ Zeroes \in [Index -> Printable \cup {Nul}]
    BY LineAssumption DEF Index, Zeroes
  <1>1. CASE secure_zero /\ (command' = NoCommand \/ command' = CString(Terminated))
    BY <1>0, <1>1, Handed DEF secure_zero, LineInv, TypeOK, LineIsSolid
  <1>2. CASE Erase
    <2>1. line_used' \in Index /\ \A i \in 0 .. line_used' - 1 : i \in 0 .. line_used - 1
      BY <1>2, LineAssumption DEF Erase, LineInv, TypeOK, Index
    <2> QED
      BY <1>2, <2>1 DEF Erase, LineInv, TypeOK, LineIsSolid
  <1>3. ASSUME NEW c \in Printable, Character(c)
        PROVE  LineInv'
    <2>1. /\ line_used' = line_used + 1 /\ line_used' \in Index /\ line_used \in Index
          /\ \A i \in 0 .. line_used' - 1 : i \in Index /\ (i = line_used \/ i \in 0 .. line_used - 1)
      BY <1>3, LineAssumption DEF Character, Room, LineInv, TypeOK, Index
    <2>2. line_buffer' \in [Index -> Printable \cup {Nul}]
      BY <1>3 DEF Character, LineInv, TypeOK
    <2>3. \A i \in 0 .. line_used' - 1 : line_buffer'[i] # Nul
      BY <1>3, <2>1, LineAssumption DEF Character, LineInv, TypeOK, LineIsSolid
    <2> QED
      BY <1>3, <2>1, <2>2, <2>3 DEF Character, LineInv, TypeOK, LineIsSolid
  <1>4. CASE Ignored \/ UNCHANGED vars
    BY <1>4 DEF Ignored, vars, LineInv, TypeOK, LineIsSolid
  <1> QED
    BY <1>1, <1>2, <1>3, <1>4 DEF Next, Newline, LineTooLong, Boot

\* No character and no closing NUL is ever written outside line_buffer, and the
\* line in it is solid, for every size of the buffer.
THEOREM LineStaysInside == Spec => [](TypeOK /\ LineIsSolid)
  <1>1. Init => LineInv
    BY LineStart
  <1>2. LineInv /\ [Next]_vars => LineInv'
    BY LineStep
  <1>3. LineInv <=> TypeOK /\ LineIsSolid
    BY DEF LineInv
  <1> QED
    BY <1>1, <1>2, <1>3, PTL DEF Spec

\* Every step on the buffer is a step on the line the user sees.
LEMMA EditorStep ==
    ASSUME LineInv, [Next]_vars
    PROVE  [Editor!Next]_(Editor!vars)
  <1>0. /\ line_used \in Index /\ line_used \in Nat /\ LineSize \in Nat
        /\ Typed \in Seq(Printable) /\ Len(Typed) = line_used
        /\ CString(Terminated) = Typed
    BY LineAssumption, Handed DEF LineInv, TypeOK, Index, Typed
  <1>1. CASE Newline
    <2>1. Typed' = <<>> /\ command' = Typed
      BY <1>0, <1>1 DEF Newline, secure_zero, Typed
    <2> QED
      BY <2>1 DEF Editor!Next, Editor!Submit
  <1>2. CASE Erase
    <2>1. line_used' = line_used - 1 /\ line_used # 0 /\ line_buffer' = line_buffer
          /\ command' = NoCommand
      BY <1>2 DEF Erase
    <2>2. Typed' = SubSeq(Typed, 1, Len(Typed) - 1)
      BY <1>0, <2>1 DEF Typed
    <2>3. Typed # <<>>
      BY <1>0, <2>1
    <2> QED
      BY <2>1, <2>2, <2>3 DEF Editor!Next, Editor!Erase
  <1>3. CASE LineTooLong
    <2>1. Typed' = <<>> /\ command' = NoCommand
      BY <1>3 DEF LineTooLong, secure_zero, Typed
    <2>2. Len(Typed) = LineSize - 1
      BY <1>0, <1>3 DEF LineTooLong, Room, Index
    <2> QED
      BY <2>1, <2>2 DEF Editor!Next, Editor!Overflow
  <1>4. CASE Ignored
    BY <1>4 DEF Ignored, Editor!Next, Editor!Ignore, Typed
  <1>5. CASE Boot
    <2>1. Typed' = <<>> /\ command' = NoCommand
      BY <1>5 DEF Boot, secure_zero, Typed
    <2> QED
      BY <2>1 DEF Editor!Next, Editor!Reset
  <1>6. ASSUME NEW c \in Printable, Character(c)
        PROVE  Editor!Next
    <2>1. /\ line_used' = line_used + 1 /\ line_used + 1 < LineSize
          /\ line_buffer' = [line_buffer EXCEPT ![line_used] = c]
          /\ command' = NoCommand
      BY <1>6 DEF Character, Room
    <2>2. \A i \in 1 .. line_used + 1 :
              line_buffer'[i - 1] = IF i = line_used + 1 THEN c ELSE line_buffer[i - 1]
      BY <1>0, <2>1, LineAssumption DEF LineInv, TypeOK, Index
    <2>3. Typed' = Append(Typed, c)
      <3>1. Typed' = [i \in 1 .. line_used + 1 |-> line_buffer'[i - 1]]
        BY <2>1 DEF Typed
      <3>2. \A i \in 1 .. line_used + 1 :
                Typed'[i] = IF i = line_used + 1 THEN c ELSE Typed[i]
        <4>1. \A i \in 1 .. line_used : Typed[i] = line_buffer[i - 1]
          BY DEF Typed
        <4>2. \A i \in 1 .. line_used + 1 : i # line_used + 1 => i \in 1 .. line_used
          BY <1>0
        <4>3. \A i \in 1 .. line_used + 1 : Typed'[i] = line_buffer'[i - 1]
          BY <3>1
        <4> QED
          BY <2>2, <4>1, <4>2, <4>3
      <3>3. Append(Typed, c) \in Seq(Printable) /\ Len(Append(Typed, c)) = line_used + 1
            /\ \A i \in 1 .. line_used : Append(Typed, c)[i] = Typed[i]
            /\ Append(Typed, c)[line_used + 1] = c
        BY <1>0, AppendProperties
      <3>4. Typed' \in Seq(Printable) /\ Len(Typed') = line_used + 1
        <4>1. \A i \in 1 .. line_used : Typed[i] \in Printable
          BY <1>0, ElementOfSeq
        <4>2. \A i \in 1 .. line_used + 1 : Typed'[i] \in Printable
          <5>1. \A i \in 1 .. line_used + 1 : i # line_used + 1 => i \in 1 .. line_used
            BY <1>0
          <5> QED
            BY <3>2, <4>1, <5>1
        <4>3. Typed' \in [1 .. line_used + 1 -> Printable]
          BY <3>1, <4>2
        <4> QED
          BY <1>0, <4>3
      <3>5. \A i \in 1 .. line_used + 1 : Typed'[i] = Append(Typed, c)[i]
        BY <1>0, <3>2, <3>3
      <3> QED
        BY <3>3, <3>4, <3>5, SeqEqual
    <2>4. Len(Typed) < LineSize - 1
      BY <1>0, <2>1
    <2> QED
      BY <2>1, <2>3, <2>4 DEF Editor!Next, Editor!Insert
  <1>7. CASE UNCHANGED vars
    BY <1>7 DEF vars, Editor!vars, Typed
  <1> QED
    BY <1>1, <1>2, <1>3, <1>4, <1>5, <1>6, <1>7 DEF Next

\* handle_line receives the line as typed and edited, for every size of the
\* buffer and every alphabet.
THEOREM LinesAreReadAsTyped == Spec => ReadsLines
  <1>1. Init => Editor!Init
    BY DEF Init, Editor!Init, Typed
  <1>2. LineInv /\ [Next]_vars => [Editor!Next]_(Editor!vars)
    BY EditorStep
  <1>3. Spec => []LineInv
    BY LineStart, LineStep, PTL DEF Spec
  <1> QED
    BY <1>1, <1>2, <1>3, PTL DEF Spec, ReadsLines, Editor!Spec
=============================================================================
