---------------------------- MODULE ConsoleProofs ----------------------------
(***************************************************************************)
(* The line editor of Console, for every set of keys, every receiver and   *)
(* every length of line: its type invariant, and that it is a LineEditor.  *)
(***************************************************************************)
EXTENDS Console, DataLemmas, SequenceTheorems

-----------------------------------------------------------------------------
(* The receiver *)

\* Reading takes a key from the receiver, and a newline may stand for a return.
LEMMA GetcTakes ==
    ASSUME TypeOK, NEW k, Getc(k)
    PROVE  /\ fifo' \in Seq(Keys) /\ Len(fifo') <= FifoSize
           /\ k \in Keys \cup {"nl"}
  <1>1. /\ fifo \in Seq(Keys) /\ fifo # <<>> /\ fifo' = Tail(fifo)
        /\ Len(fifo) \in Nat /\ Len(fifo) <= FifoSize
    BY LenProperties DEF TypeOK, Getc
  <1>2. Head(fifo) \in Keys /\ Tail(fifo) \in Seq(Keys) /\ Len(Tail(fifo)) = Len(fifo) - 1
    BY <1>1, HeadTailProperties
  <1> QED
    BY <1>1, <1>2, SizesAssumption DEF Getc

-----------------------------------------------------------------------------
(* The type invariant *)

\* In the beginning the rings are empty and every pointer is at their start.
LEMMA InitType == Init => TypeOK
  <1> SUFFICES ASSUME Init PROVE TypeOK
    OBVIOUS
  <1>1. fifo \in Seq(Keys) /\ Len(fifo) = 0
    BY EmptySeq DEF Init
  <1> QED
    BY <1>1, SizesAssumption DEF Init, TypeOK, Cells, Characters

\* A character is put into the line at the cursor, and the NUL behind it moves.
LEMMA InsertType ==
    ASSUME TypeOK, NEW c \in Keys, Insert(c)
    PROVE  TypeOK'
  <1>1. /\ ReadKey(c) /\ c \in Characters /\ end < MaxLine /\ at' = at /\ at = "key"
        /\ idx' = idx + 1 /\ end' = end + 1
        /\ idx \in 0 .. end /\ end \in 0 .. MaxLine /\ MaxLine \in Nat
        /\ cmd \in [Cells -> Characters]
    BY SizesAssumption DEF Insert, ReadKey, TypeOK, Cells
  <1>2. fifo' \in Seq(Keys) /\ Len(fifo') <= FifoSize
    BY <1>1, GetcTakes DEF ReadKey
  <1>3. cmd' = [i \in Cells |-> IF i = end + 1 THEN "nul"
                                ELSE IF i = idx THEN c
                                ELSE IF i \in idx + 1 .. end THEN cmd[i - 1]
                                ELSE cmd[i]]
    BY DEF Insert
  <1>4. cmd' \in [Cells -> Characters]
    <2>1. ASSUME NEW i \in Cells
          PROVE  (IF i = end + 1 THEN "nul" ELSE IF i = idx THEN c
                  ELSE IF i \in idx + 1 .. end THEN cmd[i - 1] ELSE cmd[i]) \in Characters
      <3>1. i \in idx + 1 .. end => i - 1 \in Cells
        BY <1>1 DEF Cells
      <3>2. "nul" \in Characters
        BY DEF Characters
      <3> QED
        BY <1>1, <3>1, <3>2
    <2> QED
      BY <1>3, <2>1
  <1>5. end + 1 \in Cells /\ idx + 1 \in 0 .. end + 1
    BY <1>1 DEF Cells
  <1>6. cmd'[end + 1] = "nul"
    BY <1>3, <1>5
  <1> QED
    BY <1>1, <1>2, <1>4, <1>5, <1>6 DEF TypeOK

\* The characters behind the erased one move down, and the NUL with them.
LEMMA BackspaceType ==
    ASSUME TypeOK, Backspace
    PROVE  TypeOK'
  <1>1. /\ ReadKey("bs") /\ at' = at /\ at = "key"
        /\ idx \in 0 .. end /\ end \in 0 .. MaxLine /\ MaxLine \in Nat
        /\ cmd \in [Cells -> Characters] /\ cmd[end] = "nul"
    BY SizesAssumption DEF Backspace, ReadKey, TypeOK, Cells
  <1>2. fifo' \in Seq(Keys) /\ Len(fifo') <= FifoSize
    BY <1>1, GetcTakes DEF ReadKey
  <1>3. CASE idx > 0
    <2>1. /\ idx' = idx - 1 /\ end' = end - 1
          /\ cmd' = [i \in Cells |-> IF i = end - 1 THEN "nul"
                                     ELSE IF i \in idx - 1 .. end - 2 THEN cmd[i + 1]
                                     ELSE cmd[i]]
      BY <1>3 DEF Backspace
    <2>2. cmd' \in [Cells -> Characters]
      <3>1. ASSUME NEW i \in Cells
            PROVE  (IF i = end - 1 THEN "nul"
                    ELSE IF i \in idx - 1 .. end - 2 THEN cmd[i + 1] ELSE cmd[i]) \in Characters
        <4>1. i \in idx - 1 .. end - 2 => i + 1 \in Cells
          BY <1>1, <1>3 DEF Cells
        <4>2. "nul" \in Characters
          BY DEF Characters
        <4> QED
          BY <1>1, <4>1, <4>2
      <3> QED
        BY <2>1, <3>1
    <2>3. end - 1 \in Cells /\ idx - 1 \in 0 .. end - 1
      BY <1>1, <1>3 DEF Cells
    <2>4. cmd'[end - 1] = "nul"
      BY <2>1, <2>3
    <2> QED
      BY <1>1, <1>2, <2>1, <2>2, <2>3, <2>4 DEF TypeOK
  <1>4. CASE ~(idx > 0)
    BY <1>1, <1>2, <1>4 DEF Backspace, line, TypeOK
  <1> QED
    BY <1>3, <1>4

\* Steps that leave the line where it is.
LEMMA NextType == TypeOK /\ [Next]_vars => TypeOK'
  <1> SUFFICES ASSUME TypeOK, [Next]_vars PROVE TypeOK'
    OBVIOUS
  <1>0. /\ fifo \in Seq(Keys) /\ Len(fifo) \in Nat /\ Len(fifo) <= FifoSize
        /\ idx \in 0 .. end /\ end \in 0 .. MaxLine /\ MaxLine \in Nat
        /\ cmd \in [Cells -> Characters] /\ 0 \in Cells
        /\ "nul" \in Characters
    BY SizesAssumption, LenProperties DEF TypeOK, Cells, Characters
  <1>1. ASSUME NEW k \in Keys, Receive(k) PROVE TypeOK'
    <2>1. /\ Append(fifo, k) \in Seq(Keys)
          /\ Len(Append(fifo, k)) = Len(fifo) + 1
      BY <1>0, AppendProperties
    <2> QED
      BY <1>0, <1>1, <2>1, SizesAssumption DEF Receive, TypeOK
  <1>2. ASSUME NEW k \in Keys, Insert(k) PROVE TypeOK'
    BY <1>2, InsertType
  <1>3. ASSUME NEW k \in Keys, Letter(k) PROVE TypeOK'
    <2>1. fifo' \in Seq(Keys) /\ Len(fifo') <= FifoSize
      BY <1>3, GetcTakes DEF Letter
    <2>2. idx' \in 0 .. end
      BY <1>0, <1>3 DEF Letter
    <2> QED
      BY <1>3, <2>1, <2>2 DEF Letter, TypeOK
  <1>4. CASE Backspace
    BY <1>4, BackspaceType
  <1>5. CASE CtrlC
    <2>1. fifo' \in Seq(Keys) /\ Len(fifo') <= FifoSize
      BY <1>5, GetcTakes DEF CtrlC, ReadKey
    <2> QED
      BY <1>0, <1>5, <2>1 DEF CtrlC, TypeOK
  <1>6. CASE Enter \/ Escape
    <2>1. fifo' \in Seq(Keys) /\ Len(fifo') <= FifoSize
      BY <1>6, GetcTakes DEF Enter, Escape, ReadKey
    <2> QED
      BY <1>6, <2>1 DEF Enter, Escape, ReadKey, line, TypeOK
  <1>7. CASE Bracket
    <2>1. fifo' \in Seq(Keys) /\ Len(fifo') <= FifoSize
      BY <1>7, GetcTakes DEF Bracket
    <2> QED
      BY <1>7, <2>1 DEF Bracket, line, TypeOK
  <1>8. CASE Flush
    <2>1. fifo' \in Seq(Keys) /\ Len(fifo') <= FifoSize
      BY <1>8, EmptySeq, SizesAssumption DEF Flush
    <2> QED
      BY <1>8, <2>1 DEF Flush, line, TypeOK
  <1>9. CASE Command
    <2>1. PICK n \in 0 .. Len(fifo) : fifo' = SubSeq(fifo, n + 1, Len(fifo))
      BY <1>9 DEF Command
    <2>2. \A j \in n + 1 .. Len(fifo) : fifo[j] \in Keys
      BY <1>0, ElementOfSeq
    <2>3. fifo' \in Seq(Keys) /\ Len(fifo') <= FifoSize
      BY <1>0, <2>1, <2>2, SubSeqProperties, SizesAssumption
    <2> QED
      BY <1>0, <1>9, <2>3 DEF Command, TypeOK
  <1>10. CASE UNCHANGED vars
    BY <1>10 DEF vars, TypeOK
  <1> QED
    BY <1>1, <1>2, <1>3, <1>4, <1>5, <1>6, <1>7, <1>8, <1>9, <1>10 DEF Next, ShellStep

\* However keys, arrows and erasures follow each other, the cursor stays in the
\* line, the line in its buffer, and a NUL ends the line whenever shell_input can
\* return (shell_input).
THEOREM TypeCorrect == Spec => []TypeOK
  <1> QED
    BY InitType, NextType, PTL DEF Spec

-----------------------------------------------------------------------------
(* Console implements LineEditor *)

\* The cells of a buffer m from a on, up to b.
Part(m, a, b) == [i \in 1 .. b - a |-> m[a + i - 1]]

\* A part of a buffer is a sequence of characters.
LEMMA PartSeq ==
    ASSUME NEW m \in [Cells -> Characters], NEW a \in Nat, NEW b \in Nat,
           a <= b, b <= MaxLine
    PROVE  /\ Part(m, a, b) \in Seq(Characters)
           /\ Len(Part(m, a, b)) = b - a
           /\ \A i \in 1 .. b - a : Part(m, a, b)[i] = m[a + i - 1]
  <1>1. \A i \in 1 .. b - a : a + i - 1 \in Cells
    BY SizesAssumption DEF Cells
  <1>2. \A i \in 1 .. b - a : m[a + i - 1] \in Characters
    BY <1>1
  <1> QED
    BY <1>2 DEF Part

\* One cell more behind a part, or one less.
LEMMA PartEnd ==
    ASSUME NEW m \in [Cells -> Characters], NEW b \in Nat, b + 1 <= MaxLine
    PROVE  /\ Part(m, 0, b + 1) = Append(Part(m, 0, b), m[b])
           /\ Part(m, 0, b + 1) # <<>>
           /\ Editor!Front(Part(m, 0, b + 1)) = Part(m, 0, b)
           /\ Editor!Last(Part(m, 0, b + 1)) = m[b]
  <1> DEFINE s == Part(m, 0, b)
             t == Part(m, 0, b + 1)
  <1>0. b \in Cells /\ m[b] \in Characters /\ MaxLine \in Nat
    BY SizesAssumption DEF Cells
  <1>1. s \in Seq(Characters) /\ Len(s) = b /\ \A i \in 1 .. b : s[i] = m[i - 1]
    <2>1. s \in Seq(Characters) /\ Len(s) = b - 0 /\ \A i \in 1 .. b - 0 : s[i] = m[0 + i - 1]
      BY <1>0, 0 \in Nat, 0 <= b, b <= MaxLine, PartSeq, Zenon
    <2> HIDE DEF s
    <2> QED
      BY <2>1
  <1>2. t \in Seq(Characters) /\ Len(t) = b + 1 /\ \A i \in 1 .. b + 1 : t[i] = m[i - 1]
    <2>1. /\ t \in Seq(Characters) /\ Len(t) = b + 1 - 0
          /\ \A i \in 1 .. b + 1 - 0 : t[i] = m[0 + i - 1]
      <3>1. PICK e \in Nat : e = b + 1
        OBVIOUS
      <3>2. 0 <= e /\ e <= MaxLine
        BY <3>1
      <3>3. /\ Part(m, 0, e) \in Seq(Characters) /\ Len(Part(m, 0, e)) = e - 0
            /\ \A i \in 1 .. e - 0 : Part(m, 0, e)[i] = m[0 + i - 1]
        BY <3>2, 0 \in Nat, PartSeq, Zenon
      <3>4. t = Part(m, 0, e)
        BY <3>1
      <3> HIDE DEF t
      <3>5. /\ t \in Seq(Characters) /\ Len(t) = e - 0
            /\ \A i \in 1 .. e - 0 : t[i] = m[0 + i - 1]
        BY <3>3, <3>4, Zenon
      <3> QED
        BY <3>1, <3>5
    <2> HIDE DEF t
    <2> QED
      BY <2>1
  <1> HIDE DEF s, t
  <1>3. t = Append(s, m[b])
    <2>1. /\ Append(s, m[b]) \in Seq(Characters) /\ Len(Append(s, m[b])) = b + 1
          /\ \A i \in 1 .. b : Append(s, m[b])[i] = s[i]
          /\ Append(s, m[b])[b + 1] = m[b]
      BY <1>0, <1>1, AppendProperties
    <2>2. ASSUME NEW i \in 1 .. b + 1 PROVE t[i] = Append(s, m[b])[i]
      <3>1. CASE i = b + 1
        <4>1. t[i] = m[b + 1 - 1] /\ b + 1 - 1 = b
          BY <1>2, <3>1
        <4> QED
          BY <2>1, <3>1, <4>1
      <3>2. CASE i # b + 1
        <4>1. i \in 1 .. b
          BY <3>2
        <4> QED
          BY <1>1, <1>2, <2>1, <4>1
      <3> QED
        BY <3>1, <3>2
    <2> QED
      BY <1>2, <2>1, <2>2, SeqEqual
  <1>4. SubSeq(t, 1, b) = s
    <2>1. \A i \in 1 .. b : t[i] \in Characters
      BY <1>2, ElementOfSeq
    <2>2. /\ SubSeq(t, 1, b) \in Seq(Characters)
          /\ Len(SubSeq(t, 1, b)) = IF 1 <= b THEN b - 1 + 1 ELSE 0
          /\ \A i \in 1 .. b - 1 + 1 : SubSeq(t, 1, b)[i] = t[1 + i - 1]
      BY <2>1, SubSeqProperties
    <2>3. Len(SubSeq(t, 1, b)) = b /\ \A i \in 1 .. b : SubSeq(t, 1, b)[i] = s[i]
      BY <1>1, <1>2, <2>2
    <2> QED
      BY <1>1, <2>2, <2>3, SeqEqual
  <1>5. t # <<>>
    BY <1>2, EmptySeq
  <1>6. Editor!Front(t) = s
    BY <1>2, <1>4 DEF Editor!Front
  <1>7. Editor!Last(t) = m[b]
    BY <1>2 DEF Editor!Last
  <1> QED
    BY <1>3, <1>5, <1>6, <1>7 DEF s, t

\* One cell more before a part, or one less.
LEMMA PartFront ==
    ASSUME NEW m \in [Cells -> Characters], NEW a \in Nat, NEW b \in Nat, a + 1 <= b,
           b <= MaxLine
    PROVE  /\ Part(m, a, b) # <<>>
           /\ Head(Part(m, a, b)) = m[a]
           /\ Tail(Part(m, a, b)) = Part(m, a + 1, b)
           /\ Part(m, a, b) = <<m[a]>> \o Part(m, a + 1, b)
  <1> DEFINE s == Part(m, a, b)
             t == Part(m, a + 1, b)
  <1>0. a \in Cells /\ m[a] \in Characters /\ MaxLine \in Nat
    BY SizesAssumption DEF Cells
  <1>1. s \in Seq(Characters) /\ Len(s) = b - a /\ \A i \in 1 .. b - a : s[i] = m[a + i - 1]
    BY <1>0, a <= b, PartSeq
  <1>2. /\ t \in Seq(Characters) /\ Len(t) = b - (a + 1)
        /\ \A i \in 1 .. b - (a + 1) : t[i] = m[a + 1 + i - 1]
    BY <1>0, a + 1 \in Nat, PartSeq
  <1> HIDE DEF s, t
  <1>3. s # <<>> /\ Head(s) = m[a]
    <2>1. s # <<>>
      BY <1>1, EmptySeq
    <2>2. Head(s) = s[1] /\ 1 \in 1 .. b - a /\ a + 1 - 1 = a
      BY <1>1, <2>1
    <2> QED
      BY <1>1, <2>1, <2>2
  <1>4. Tail(s) = t
    <2>1. /\ Tail(s) \in Seq(Characters) /\ Len(Tail(s)) = Len(s) - 1
          /\ \A i \in 1 .. Len(Tail(s)) : Tail(s)[i] = s[i + 1]
      BY <1>1, <1>3, HeadTailProperties
    <2>2. Len(Tail(s)) = Len(t) /\ Len(t) = b - (a + 1)
      BY <1>1, <1>2, <2>1
    <2>3. \A i \in 1 .. Len(t) : Tail(s)[i] = t[i]
      BY <1>1, <1>2, <2>1, <2>2
    <2> QED
      BY <1>2, <2>1, <2>2, <2>3, SeqEqual
  <1>5. s = <<m[a]>> \o t
    <2>1. /\ <<m[a]>> \in Seq(Characters) /\ Len(<<m[a]>>) = 1 /\ <<m[a]>>[1] = m[a]
      BY <1>0
    <2> DEFINE h == <<m[a]>>
    <2> HIDE DEF h
    <2>2. /\ h \o t \in Seq(Characters) /\ Len(h \o t) = 1 + Len(t)
          /\ \A i \in 1 .. 1 + Len(t) : (h \o t)[i] = IF i <= 1 THEN h[i] ELSE t[i - 1]
      <3>1. h \in Seq(Characters) /\ Len(h) = 1
        BY <2>1 DEF h
      <3>2. /\ h \o t \in Seq(Characters) /\ Len(h \o t) = Len(h) + Len(t)
            /\ \A i \in 1 .. Len(h) + Len(t) :
                  (h \o t)[i] = IF i <= Len(h) THEN h[i] ELSE t[i - Len(h)]
        BY <1>2, <3>1, ConcatProperties, Zenon
      <3> QED
        BY <3>1, <3>2
    <2>3. 1 + Len(t) = b - a
      BY <1>2
    <2>4. ASSUME NEW i \in 1 .. b - a PROVE s[i] = (h \o t)[i]
      <3>1. CASE i = 1
        BY <1>1, <2>1, <2>2, <2>3, <3>1 DEF h
      <3>2. CASE i # 1
        <4>1. i - 1 \in 1 .. b - (a + 1) /\ a + 1 + (i - 1) - 1 = a + i - 1 /\ ~(i <= 1)
          BY <3>2
        <4> QED
          BY <1>1, <1>2, <2>2, <2>3, <4>1
      <3> QED
        BY <3>1, <3>2
    <2>5. s = h \o t
      BY <1>1, <2>2, <2>3, <2>4, SeqEqual
    <2> QED
      BY <2>5 DEF h
  <1> QED
    BY <1>3, <1>4, <1>5 DEF s, t

\* A part of the buffer of the line is a sequence of characters.
LEMMA BufferSeq ==
    ASSUME TypeOK
    PROVE  \A a, b \in Nat : a <= b /\ b <= end =>
              /\ Buffer(a, b) \in Seq(Characters)
              /\ Len(Buffer(a, b)) = b - a
              /\ \A i \in 1 .. b - a : Buffer(a, b)[i] = cmd[a + i - 1]
  <1> SUFFICES ASSUME NEW a \in Nat, NEW b \in Nat, a <= b, b <= end
               PROVE  /\ Buffer(a, b) \in Seq(Characters)
                      /\ Len(Buffer(a, b)) = b - a
                      /\ \A i \in 1 .. b - a : Buffer(a, b)[i] = cmd[a + i - 1]
    OBVIOUS
  <1>1. cmd \in [Cells -> Characters] /\ b <= MaxLine
    BY SizesAssumption DEF TypeOK, Cells
  <1>2. Buffer(a, b) = Part(cmd, a, b)
    BY DEF Buffer, Part
  <1>3. /\ Part(cmd, a, b) \in Seq(Characters)
        /\ Len(Part(cmd, a, b)) = b - a
        /\ \A i \in 1 .. b - a : Part(cmd, a, b)[i] = cmd[a + i - 1]
    BY <1>1, PartSeq, Zenon
  <1> QED
    BY <1>2, <1>3

\* The string in a buffer that holds a NUL ends at the first one.
LEMMA FirstNul ==
    ASSUME NEW n \in Cells, cmd[n] = "nul", \A i \in 0 .. n - 1 : cmd[i] # "nul"
    PROVE  CString = Buffer(0, n)
  <1> DEFINE P(m) == m \in Cells /\ cmd[m] = "nul" /\ \A i \in 0 .. m - 1 : cmd[i] # "nul"
  <1>1. \A m : P(m) => m = n
    <2> SUFFICES ASSUME NEW m, P(m) PROVE m = n
      OBVIOUS
    <2>1. m \in Nat /\ n \in Nat
      BY SizesAssumption DEF Cells
    <2>2. ~(m < n) /\ ~(n < m)
      BY <2>1
    <2> QED
      BY <2>1, <2>2
  <1>2. (CHOOSE m \in Cells : cmd[m] = "nul" /\ \A i \in 0 .. m - 1 : cmd[i] # "nul") = n
    BY <1>1
  <1> QED
    BY <1>2 DEF CString

\* Text cuts a sequence where the first NUL is, or nowhere.
LEMMA TextCut ==
    ASSUME NEW s \in Seq(Characters), NEW n \in 0 .. Len(s),
           n < Len(s) => s[n + 1] = "nul",
           \A i \in 1 .. n : s[i] # "nul"
    PROVE  Editor!Text(s) = SubSeq(s, 1, n)
  <1> DEFINE I == {i \in 1 .. Len(s) : s[i] = "nul"}
  <1>0. Len(s) \in Nat
    BY LenProperties
  <1>1. Editor!SelectInSeq(s, LAMBDA c : c = "nul") = IF I # {} THEN Editor!Min(I) ELSE 0
    BY DEF Editor!SelectInSeq
  <1>2. CASE n = Len(s)
    <2>1. I = {}
      BY <1>0, <1>2
    <2>2. SubSeq(s, 1, n) = s
      BY <1>2, SubSeqFull
    <2> QED
      BY <1>1, <2>1, <2>2 DEF Editor!Text
  <1>3. CASE n < Len(s)
    <2>1. n + 1 \in I /\ \A i \in I : n + 1 <= i
      BY <1>0, <1>3
    <2>2. Editor!Min(I) = n + 1
      <3>1. \A m \in I : (\A i \in I : m <= i) => m = n + 1
        BY <2>1, <1>0
      <3>2. (CHOOSE m \in I : \A i \in I : m <= i) = n + 1
        BY <2>1, <3>1
      <3> QED
        BY <3>2 DEF Editor!Min
    <2>3. n + 1 # 0 /\ n + 1 - 1 = n
      OBVIOUS
    <2> HIDE DEF I
    <2> QED
      BY <1>1, <2>1, <2>2, <2>3 DEF Editor!Text
  <1> QED
    BY <1>0, <1>2, <1>3

\* The line as LineEditor sees it.
Before == IF at = "command" THEN <<>> ELSE Buffer(0, idx)
After == IF at = "command" THEN <<>> ELSE Buffer(idx, end)
Running == IF at = "command" THEN <<CString>> ELSE <<>>

\* While a line is edited: its two parts, and the whole.
LEMMA LineParts ==
    ASSUME TypeOK
    PROVE  /\ idx \in Nat /\ end \in Nat /\ idx <= end /\ end \in Cells /\ 0 \in Cells
           /\ Buffer(0, idx) \in Seq(Characters) /\ Len(Buffer(0, idx)) = idx
           /\ \A i \in 1 .. idx : Buffer(0, idx)[i] = cmd[i - 1]
           /\ Buffer(idx, end) \in Seq(Characters) /\ Len(Buffer(idx, end)) = end - idx
           /\ \A i \in 1 .. end - idx : Buffer(idx, end)[i] = cmd[idx + i - 1]
           /\ Buffer(0, idx) \o Buffer(idx, end) = Buffer(0, end)
  <1>1. idx \in Nat /\ end \in Nat /\ idx <= end /\ end \in Cells /\ 0 \in Cells
    BY SizesAssumption DEF TypeOK, Cells
  <1>0. 0 \in Nat /\ 0 <= idx /\ 0 <= end /\ idx - 0 = idx /\ end - 0 = end /\ end <= end
    BY <1>1
  <1>2. /\ Buffer(0, idx) \in Seq(Characters) /\ Len(Buffer(0, idx)) = idx - 0
        /\ \A i \in 1 .. idx - 0 : Buffer(0, idx)[i] = cmd[0 + i - 1]
    BY <1>0, <1>1, BufferSeq, Zenon
  <1>3. /\ Buffer(idx, end) \in Seq(Characters) /\ Len(Buffer(idx, end)) = end - idx
        /\ \A i \in 1 .. end - idx : Buffer(idx, end)[i] = cmd[idx + i - 1]
    BY <1>0, <1>1, BufferSeq, Zenon
  <1>4. /\ Buffer(0, end) \in Seq(Characters) /\ Len(Buffer(0, end)) = end - 0
        /\ \A i \in 1 .. end - 0 : Buffer(0, end)[i] = cmd[0 + i - 1]
    BY <1>0, <1>1, BufferSeq, Zenon
  <1>5. Buffer(0, idx) \o Buffer(idx, end) = Buffer(0, end)
    <2> DEFINE s == Buffer(0, idx)
               t == Buffer(idx, end)
               u == Buffer(0, end)
    <2>0. /\ s \in Seq(Characters) /\ t \in Seq(Characters) /\ u \in Seq(Characters)
          /\ Len(s) = idx /\ Len(t) = end - idx /\ Len(u) = end
          /\ \A i \in 1 .. idx : s[i] = cmd[i - 1]
          /\ \A i \in 1 .. end - idx : t[i] = cmd[idx + i - 1]
          /\ \A i \in 1 .. end : u[i] = cmd[i - 1]
      BY <1>1, <1>2, <1>3, <1>4
    <2> HIDE DEF s, t, u
    <2>1. /\ s \o t \in Seq(Characters) /\ Len(s \o t) = idx + (end - idx)
          /\ \A i \in 1 .. idx + (end - idx) :
                (s \o t)[i] = IF i <= idx THEN s[i] ELSE t[i - idx]
      BY <2>0, ConcatProperties
    <2>2. ASSUME NEW i \in 1 .. end PROVE (s \o t)[i] = u[i]
      <3>1. i <= idx => s[i] = cmd[i - 1]
        BY <2>0
      <3>2. ~(i <= idx) => i - idx \in 1 .. end - idx /\ idx + (i - idx) - 1 = i - 1
        BY <1>1
      <3>3. ~(i <= idx) => t[i - idx] = cmd[i - 1]
        BY <2>0, <3>2
      <3> QED
        BY <1>1, <2>0, <2>1, <3>1, <3>3
    <2>3. Len(s \o t) = Len(u)
      BY <1>1, <2>0, <2>1
    <2>4. s \o t = u
      BY <2>0, <2>1, <2>2, <2>3, SeqEqual
    <2> QED
      BY <2>4 DEF s, t, u
  <1> QED
    BY <1>1, <1>2, <1>3, <1>5

\* When shell_input returns the string in the buffer is the text of the line.
LEMMA EnterText ==
    ASSUME TypeOK, at # "command"
    PROVE  CString = Editor!Text(Buffer(0, end))
  <1>1. end \in Nat /\ end \in Cells /\ cmd[end] = "nul"
    BY LineParts DEF TypeOK
  <1> DEFINE N == {m \in Cells : cmd[m] = "nul"}
  <1>2. N \in SUBSET Nat /\ end \in N
    BY <1>1 DEF Cells
  <1>3. PICK n \in N : \A m \in N : n <= m
    BY <1>2, LeastElement
  <1>4. /\ n \in Nat /\ n \in Cells /\ cmd[n] = "nul" /\ n <= end
        /\ \A i \in 0 .. n - 1 : cmd[i] # "nul"
    <2>1. \A i \in 0 .. n - 1 : i \in Cells /\ ~(n <= i)
      BY <1>2, <1>3, SizesAssumption DEF Cells
    <2> QED
      BY <1>2, <1>3, <2>1
  <1>5. CString = Buffer(0, n)
    BY <1>4, FirstNul
  <1> DEFINE L == Buffer(0, end)
  <1>6. L \in Seq(Characters) /\ Len(L) = end /\ \A i \in 1 .. end : L[i] = cmd[i - 1]
    <2>1. /\ L \in Seq(Characters) /\ Len(L) = end - 0
          /\ \A i \in 1 .. end - 0 : L[i] = cmd[0 + i - 1]
      <3>1. 0 \in Nat /\ 0 <= end /\ end <= end
        BY <1>1
      <3> QED
        BY <1>1, <3>1, BufferSeq, Zenon
    <2> HIDE DEF L
    <2> QED
      BY <1>1, <2>1
  <1>7. Buffer(0, n) \in Seq(Characters) /\ Len(Buffer(0, n)) = n
        /\ \A i \in 1 .. n : Buffer(0, n)[i] = cmd[i - 1]
    <2>1. /\ Buffer(0, n) \in Seq(Characters) /\ Len(Buffer(0, n)) = n - 0
          /\ \A i \in 1 .. n - 0 : Buffer(0, n)[i] = cmd[0 + i - 1]
      <3>1. 0 \in Nat /\ 0 <= n
        BY <1>4
      <3> QED
        BY <1>4, <3>1, BufferSeq, Zenon
    <2> QED
      BY <1>4, <2>1
  <1> HIDE DEF L
  <1>8. Editor!Text(L) = SubSeq(L, 1, n)
    <2>1. n \in 0 .. Len(L)
      BY <1>1, <1>4, <1>6
    <2>2. n < Len(L) => L[n + 1] = "nul"
      BY <1>1, <1>4, <1>6
    <2>3. \A i \in 1 .. n : L[i] # "nul"
      BY <1>1, <1>4, <1>6
    <2> QED
      BY <1>6, <2>1, <2>2, <2>3, TextCut
  <1>9. SubSeq(L, 1, n) = Buffer(0, n)
    <2>1. \A i \in 1 .. n : L[i] \in Characters
      BY <1>1, <1>4, <1>6, ElementOfSeq
    <2>2. /\ SubSeq(L, 1, n) \in Seq(Characters)
          /\ Len(SubSeq(L, 1, n)) = IF 1 <= n THEN n - 1 + 1 ELSE 0
          /\ \A i \in 1 .. n - 1 + 1 : SubSeq(L, 1, n)[i] = L[1 + i - 1]
      BY <1>4, <2>1, SubSeqProperties
    <2>3. Len(SubSeq(L, 1, n)) = n /\ \A i \in 1 .. n : SubSeq(L, 1, n)[i] = L[i]
      BY <1>4, <2>2
    <2>4. \A i \in 1 .. n : SubSeq(L, 1, n)[i] = Buffer(0, n)[i]
      BY <1>1, <1>4, <1>6, <1>7, <2>3
    <2> QED
      BY <1>7, <2>2, <2>3, <2>4, SeqEqual
  <1> QED
    BY <1>5, <1>8, <1>9 DEF L

\* Parts that hold the same characters are equal.
LEMMA PartAgree ==
    ASSUME NEW m, NEW a, NEW b, NEW n, NEW c, NEW d, b - a = d - c,
           \A i \in 1 .. b - a : m[a + i - 1] = n[c + i - 1]
    PROVE  Part(m, a, b) = Part(n, c, d)
  <1> QED
    BY DEF Part

\* The state of LineEditor while a line is edited, before and after a step.
LEMMA Edited ==
    /\ at # "command" => /\ Before = Part(cmd, 0, idx)
                         /\ After = Part(cmd, idx, end)
                         /\ Running = <<>>
    /\ at' # "command" => /\ Before' = Part(cmd', 0, idx')
                          /\ After' = Part(cmd', idx', end')
                          /\ Running' = <<>>
  <1> QED
    BY DEF Before, After, Running, Buffer, Part

\* A character goes in before the cursor, and what is behind it stays.
LEMMA InsertStep ==
    ASSUME TypeOK, TypeOK', NEW c \in Keys, Insert(c)
    PROVE  Editor!Insert(c) /\ c \in Characters
  <1>1. /\ at = "key" /\ at' = "key" /\ c \in Characters
        /\ idx' = idx + 1 /\ end' = end + 1 /\ end < MaxLine
        /\ cmd' = [i \in Cells |-> IF i = end + 1 THEN "nul"
                                   ELSE IF i = idx THEN c
                                   ELSE IF i \in idx + 1 .. end THEN cmd[i - 1]
                                   ELSE cmd[i]]
    BY DEF Insert, ReadKey
  <1>2. /\ idx \in Nat /\ end \in Nat /\ MaxLine \in Nat /\ idx <= end /\ end' \in Nat
        /\ idx + 1 <= MaxLine /\ cmd' \in [Cells -> Characters]
    BY <1>1, SizesAssumption DEF TypeOK, Cells
  <1>3. /\ cmd'[idx] = c
        /\ \A i \in 1 .. idx : cmd'[0 + i - 1] = cmd[0 + i - 1]
        /\ \A i \in 1 .. end - idx : cmd'[idx + 1 + i - 1] = cmd[idx + i - 1]
    <2>1. cmd'[idx] = c
      <3>1. idx \in Cells /\ idx # end + 1
        BY <1>1, <1>2 DEF Cells
      <3> QED
        BY <1>1, <3>1
    <2>2. ASSUME NEW i \in 1 .. idx PROVE cmd'[0 + i - 1] = cmd[0 + i - 1]
      <3>1. /\ 0 + i - 1 \in Cells /\ 0 + i - 1 # end + 1 /\ 0 + i - 1 # idx
            /\ ~(0 + i - 1 \in idx + 1 .. end)
        BY <1>1, <1>2 DEF Cells
      <3> QED
        BY <1>1, <3>1
    <2>3. ASSUME NEW i \in 1 .. end - idx PROVE cmd'[idx + 1 + i - 1] = cmd[idx + i - 1]
      <3>1. /\ idx + 1 + i - 1 \in Cells /\ idx + 1 + i - 1 # end + 1 /\ idx + 1 + i - 1 # idx
            /\ idx + 1 + i - 1 \in idx + 1 .. end /\ idx + 1 + i - 1 - 1 = idx + i - 1
        BY <1>1, <1>2 DEF Cells
      <3> QED
        BY <1>1, <3>1
    <2> QED
      BY <2>1, <2>2, <2>3
  <1>4. Part(cmd', 0, idx + 1) = Append(Part(cmd', 0, idx), c)
    BY <1>2, <1>3, PartEnd
  <1>5. Part(cmd', 0, idx) = Part(cmd, 0, idx)
    BY <1>2, <1>3, PartAgree
  <1>6. Part(cmd', idx + 1, end + 1) = Part(cmd, idx, end)
    BY <1>2, <1>3, PartAgree
  <1>7. /\ Before = Part(cmd, 0, idx) /\ Before' = Part(cmd', 0, idx + 1)
        /\ After = Part(cmd, idx, end) /\ After' = Part(cmd', idx + 1, end + 1)
        /\ Running = <<>> /\ Running' = <<>>
    BY <1>1, Edited
  <1>8. Before' = Append(Before, c) /\ After' = After /\ Running' = Running /\ Running = <<>>
    BY <1>4, <1>5, <1>6, <1>7
  <1> QED
    BY <1>1, <1>8 DEF Editor!Insert, Editor!Editing, Before, After, Running

\* The character before the cursor goes, and nothing happens where there is none.
LEMMA BackspaceStep ==
    ASSUME TypeOK, TypeOK', Backspace
    PROVE  Editor!Erase \/ UNCHANGED Editor!vars
  <1>1. at = "key" /\ at' = "key"
    BY DEF Backspace, ReadKey
  <1>2. /\ idx \in Nat /\ end \in Nat /\ MaxLine \in Nat /\ idx <= end /\ end <= MaxLine
        /\ cmd \in [Cells -> Characters]
    BY SizesAssumption DEF TypeOK, Cells
  <1>3. CASE idx > 0
    <2>1. /\ idx' = idx - 1 /\ end' = end - 1
          /\ cmd' = [i \in Cells |-> IF i = end - 1 THEN "nul"
                                     ELSE IF i \in idx - 1 .. end - 2 THEN cmd[i + 1]
                                     ELSE cmd[i]]
      BY <1>3 DEF Backspace
    <2>2. PICK k \in Nat : k = idx - 1 /\ idx = k + 1 /\ k + 1 <= MaxLine
      BY <1>2, <1>3
    <2>3. Part(cmd, 0, k + 1) # <<>> /\ Editor!Front(Part(cmd, 0, k + 1)) = Part(cmd, 0, k)
      BY <1>2, <2>2, PartEnd
    <2>4. ASSUME NEW i \in 1 .. k PROVE cmd'[0 + i - 1] = cmd[0 + i - 1]
      <3>1. /\ 0 + i - 1 \in Cells /\ 0 + i - 1 # end - 1
            /\ ~(0 + i - 1 \in idx - 1 .. end - 2)
        BY <1>2, <2>2 DEF Cells
      <3> QED
        BY <2>1, <3>1
    <2>5. ASSUME NEW i \in 1 .. end - idx PROVE cmd'[k + i - 1] = cmd[idx + i - 1]
      <3>1. /\ k + i - 1 \in Cells /\ k + i - 1 # end - 1
            /\ k + i - 1 \in idx - 1 .. end - 2 /\ k + i - 1 + 1 = idx + i - 1
        BY <1>2, <2>2 DEF Cells
      <3> QED
        BY <2>1, <3>1
    <2>6. Part(cmd', 0, k) = Part(cmd, 0, k)
      BY <2>4, PartAgree
    <2>7. Part(cmd', k, end - 1) = Part(cmd, idx, end)
      <3>1. end - 1 - k = end - idx
        BY <1>2, <2>2
      <3> QED
        BY <2>5, <3>1, PartAgree
    <2>8. /\ Before = Part(cmd, 0, k + 1) /\ Before' = Part(cmd', 0, k)
          /\ After = Part(cmd, idx, end) /\ After' = Part(cmd', k, end - 1)
          /\ Running = <<>> /\ Running' = <<>>
      BY <1>1, <2>1, <2>2, Edited
    <2>9. /\ Before # <<>> /\ Before' = Editor!Front(Before) /\ After' = After
          /\ Running = <<>> /\ Running' = Running
      BY <2>3, <2>6, <2>7, <2>8
    <2> QED
      BY <2>9 DEF Editor!Erase, Editor!Editing, Before, After, Running
  <1>4. CASE ~(idx > 0)
    <2>1. UNCHANGED <<cmd, idx, end, at>>
      BY <1>4 DEF Backspace, line
    <2> QED
      BY <1>1, <2>1 DEF Editor!vars, Buffer
  <1> QED
    BY <1>3, <1>4

\* The arrows move one character from one side of the cursor to the other.
LEMMA LetterStep ==
    ASSUME TypeOK, TypeOK', NEW c, Letter(c)
    PROVE  Editor!Left \/ Editor!Right \/ UNCHANGED Editor!vars
  <1>1. /\ at = "letter" /\ at' = "key" /\ cmd' = cmd /\ end' = end /\ c \in {"C", "D"}
        /\ idx' = IF c = "C" THEN IF idx < end THEN idx + 1 ELSE idx
                             ELSE IF idx > 0 THEN idx - 1 ELSE idx
    BY DEF Letter
  <1>2. /\ idx \in Nat /\ end \in Nat /\ MaxLine \in Nat /\ idx <= end /\ end <= MaxLine
        /\ cmd \in [Cells -> Characters]
    BY SizesAssumption DEF TypeOK, Cells
  <1>3. CASE c = "C" /\ idx < end
    <2>1. idx' = idx + 1 /\ idx + 1 <= MaxLine /\ idx + 1 <= end
      BY <1>1, <1>2, <1>3
    <2>2. Part(cmd, 0, idx + 1) = Append(Part(cmd, 0, idx), cmd[idx])
      BY <1>2, <2>1, PartEnd
    <2>3. /\ Part(cmd, idx, end) # <<>> /\ Head(Part(cmd, idx, end)) = cmd[idx]
          /\ Tail(Part(cmd, idx, end)) = Part(cmd, idx + 1, end)
      BY <1>2, <2>1, PartFront
    <2>4. /\ Before = Part(cmd, 0, idx) /\ Before' = Part(cmd, 0, idx + 1)
          /\ After = Part(cmd, idx, end) /\ After' = Part(cmd, idx + 1, end)
          /\ Running = <<>> /\ Running' = <<>>
      BY <1>1, <2>1, Edited
    <2>5. /\ After # <<>> /\ Before' = Append(Before, Head(After)) /\ After' = Tail(After)
          /\ Running = <<>> /\ Running' = Running
      BY <2>2, <2>3, <2>4
    <2> QED
      BY <2>5 DEF Editor!Right, Editor!Editing, Before, After, Running
  <1>4. CASE c = "D" /\ idx > 0
    <2>1. PICK k \in Nat : idx = k + 1 /\ k + 1 <= MaxLine /\ k + 1 <= end /\ idx' = k
      BY <1>1, <1>2, <1>4
    <2>2. /\ Part(cmd, 0, k + 1) # <<>>
          /\ Editor!Front(Part(cmd, 0, k + 1)) = Part(cmd, 0, k)
          /\ Editor!Last(Part(cmd, 0, k + 1)) = cmd[k]
      BY <1>2, <2>1, PartEnd
    <2>3. Part(cmd, k, end) = <<cmd[k]>> \o Part(cmd, k + 1, end)
      BY <1>2, <2>1, PartFront
    <2>4. /\ Before = Part(cmd, 0, k + 1) /\ Before' = Part(cmd, 0, k)
          /\ After = Part(cmd, k + 1, end) /\ After' = Part(cmd, k, end)
          /\ Running = <<>> /\ Running' = <<>>
      BY <1>1, <2>1, Edited
    <2>5. /\ Before # <<>> /\ Before' = Editor!Front(Before)
          /\ After' = <<Editor!Last(Before)>> \o After
          /\ Running = <<>> /\ Running' = Running
      BY <2>2, <2>3, <2>4
    <2> QED
      BY <2>5 DEF Editor!Left, Editor!Editing, Before, After, Running
  <1>5. CASE idx' = idx
    BY <1>1, <1>5 DEF Editor!vars, Buffer
  <1> QED
    BY <1>1, <1>2, <1>3, <1>4, <1>5

\* shell_input returns with an empty string after CTRL-C.
LEMMA CtrlCStep ==
    ASSUME TypeOK, TypeOK', CtrlC
    PROVE  Editor!Abort
  <1>1. at = "key" /\ at' = "command" /\ cmd' = [cmd EXCEPT ![0] = "nul"]
    BY DEF CtrlC, ReadKey
  <1>2. cmd \in [Cells -> Characters] /\ 0 \in Cells
    BY SizesAssumption DEF TypeOK, Cells
  <1>3. cmd'[0] = "nul"
    BY <1>1, <1>2
  <1>4. CString' = <<>>
    <2>1. \A m \in Cells : (\A i \in 0 .. m - 1 : cmd'[i] # "nul") => m = 0
      BY <1>3, SizesAssumption DEF Cells
    <2>2. \A i \in 0 .. 0 - 1 : cmd'[i] # "nul"
      OBVIOUS
    <2>3. (CHOOSE m \in Cells : cmd'[m] = "nul" /\ \A i \in 0 .. m - 1 : cmd'[i] # "nul") = 0
      BY <1>2, <1>3, <2>1, <2>2
    <2>4. CString' = [i \in 1 .. 0 - 0 |-> cmd'[0 + i - 1]]
      BY <2>3 DEF CString, Buffer
    <2> QED
      BY <2>4
  <1>5. Running = <<>> /\ Running' = << <<>> >> /\ Before' = <<>> /\ After' = <<>>
    BY <1>1, <1>4 DEF Running, Before, After
  <1> QED
    BY <1>5 DEF Editor!Abort, Editor!Run, Editor!Editing, Before, After, Running

\* shell_input returns with the text of the line after a newline.
LEMMA EnterStep ==
    ASSUME TypeOK, TypeOK', Enter
    PROVE  Editor!Enter
  <1>1. at = "key" /\ at' = "command" /\ UNCHANGED <<cmd, idx, end>>
    BY DEF Enter, ReadKey, line
  <1>2. CString = Editor!Text(Buffer(0, idx) \o Buffer(idx, end))
    BY <1>1, EnterText, LineParts
  <1>3. CString' = CString
    BY <1>1 DEF CString, Buffer
  <1>4. /\ Before = Buffer(0, idx) /\ After = Buffer(idx, end)
        /\ Running = <<>> /\ Running' = <<CString'>> /\ Before' = <<>> /\ After' = <<>>
    BY <1>1 DEF Running, Before, After
  <1>5. Running' = <<Editor!Text(Before \o After)>>
    BY <1>2, <1>3, <1>4
  <1> QED
    BY <1>4, <1>5 DEF Editor!Enter, Editor!Run, Editor!Editing, Before, After, Running

\* shell calls shell_input again, with an empty line.
LEMMA CommandStep ==
    ASSUME TypeOK, TypeOK', Command
    PROVE  Editor!Prompt
  <1>1. at = "command" /\ at' = "key" /\ idx' = 0 /\ end' = 0
    BY DEF Command
  <1>2. /\ Before = <<>> /\ After = <<>> /\ Running # <<>>
        /\ Before' = <<>> /\ After' = <<>> /\ Running' = <<>>
    BY <1>1 DEF Before, After, Running, Buffer
  <1> QED
    BY <1>2 DEF Editor!Prompt, Editor!Editing, Before, After, Running

\* Every step of the shell is a step of the line editor or leaves its line alone.
LEMMA EditorNext == TypeOK /\ TypeOK' /\ [Next]_vars => [Editor!Next]_(Editor!vars)
  <1> SUFFICES ASSUME TypeOK, TypeOK', [Next]_vars PROVE [Editor!Next]_(Editor!vars)
    OBVIOUS
  <1>1. ASSUME NEW k \in Keys, Insert(k) PROVE Editor!Next
    BY <1>1, InsertStep DEF Editor!Next
  <1>2. ASSUME NEW k \in Keys, Letter(k) PROVE [Editor!Next]_(Editor!vars)
    BY <1>2, LetterStep DEF Editor!Next
  <1>3. CASE Backspace
    BY <1>3, BackspaceStep DEF Editor!Next
  <1>4. CASE CtrlC
    BY <1>4, CtrlCStep DEF Editor!Next
  <1>5. CASE Enter
    BY <1>5, EnterStep DEF Editor!Next
  <1>6. CASE Command
    BY <1>6, CommandStep DEF Editor!Next
  <1>7. CASE Escape \/ Bracket \/ Flush
    <2>1. UNCHANGED <<cmd, idx, end>> /\ at # "command" /\ at' # "command"
      BY <1>7 DEF Escape, Bracket, Flush, ReadKey, line
    <2>2. UNCHANGED Editor!vars
      BY <2>1 DEF Editor!vars, Buffer
    <2> QED
      BY <2>2
  <1>8. CASE (\E k \in Keys : Receive(k)) \/ UNCHANGED vars
    <2>1. UNCHANGED <<cmd, idx, end, at>>
      BY <1>8 DEF Receive, vars
    <2>2. UNCHANGED Editor!vars
      BY <2>1 DEF Editor!vars, Buffer, CString
    <2> QED
      BY <2>2
  <1> QED
    BY <1>1, <1>2, <1>3, <1>4, <1>5, <1>6, <1>7, <1>8 DEF Next, ShellStep

\* In the beginning the line of the editor is empty, as input_init leaves it.
LEMMA EditorInit == Init => Editor!Init
  <1> QED
    BY DEF Init, Editor!Init, Buffer

\* The string that shell compares with its commands is the line as it was edited,
\* for every set of keys and every length of line: the shell implements LineEditor
\* (shell_input, shell).
THEOREM Refinement == Spec => EditsLine
  <1>1. Spec => []TypeOK
    BY TypeCorrect
  <1> QED
    BY <1>1, EditorInit, EditorNext, PTL DEF Spec, EditsLine, Editor!Spec
=============================================================================
