--------------------------- MODULE DocumentsProofs ---------------------------
(***************************************************************************)
(* Proofs about Documents, for files of any length.  Neither LinesKept nor *)
(* LocationsBound is inductive: both need to know that the buffer and the  *)
(* fragment being read lie behind every fragment that was completed, with  *)
(* no separator among their lines.                                         *)
(***************************************************************************)
EXTENDS Documents, TLAPS

\* What is in the buffer is the unbroken run of lines, from the first one of
\* text, of the fragment being read, and no separator is among its lines.
BufferBound ==
  /\ startLine # 0 => \A n \in startLine .. currentLine : lines[n] \in {"empty", "text"}
  /\ buf # <<>> => startLine # 0 /\ UnbrokenRun(buf, startLine, currentLine)
  /\ startLine # 0 /\ buf = <<>> /\ reading = "open" =>
       \A n \in startLine .. currentLine : lines[n] = "empty"

\* Every fragment ends at a line that was read and, while more are to come,
\* a separator lies between it and what is being read.
PartsBehind ==
  \A i \in 1 .. Len(parts) :
    /\ parts[i].end <= currentLine
    /\ reading = "open" /\ startLine = 0 => parts[i].end < currentLine
    /\ reading = "open" /\ startLine # 0 => parts[i].end + 1 < startLine

ReaderInv ==
  /\ ReaderTypeOK
  /\ BufferBound
  /\ PartsBehind
  /\ LinesKept
  /\ LocationsBound

------------------------------------------------------------------------------
\* A sequence over a set is one over every larger set.
LEMMA Widened ==
  ASSUME NEW S, NEW T, S \subseteq T, NEW s \in Seq(S)
  PROVE  s \in Seq(T)
<1>1. Len(s) \in Nat /\ s \in [1 .. Len(s) -> S]
  OBVIOUS
<1>2. s \in [1 .. Len(s) -> T]
  BY <1>1
<1> QED BY <1>1, <1>2

\* A sequence that is not empty has a first element.
LEMMA NotEmpty ==
  ASSUME NEW S, NEW s \in Seq(S), s # <<>>
  PROVE  Len(s) \in Nat /\ Len(s) >= 1 /\ s[1] \in S
<1>1. Len(s) \in Nat /\ s \in [1 .. Len(s) -> S] /\ Len(s) >= 1
  OBVIOUS
<1>2. 1 \in 1 .. Len(s)
  BY <1>1
<1> QED BY <1>1, <1>2

\* Reading begins with nothing read.
LEMMA InitReader == ASSUME DocumentsAssumption, ReaderInit PROVE ReaderInv
<1>1. lines \in Seq(LineKinds) /\ Len(lines) <= MaxLines
  <2>1. PICK n \in 0 .. MaxLines : lines \in [1 .. n -> LineKinds]
    BY DEF ReaderInit, Files
  <2>2. lines \in Seq(LineKinds) /\ Len(lines) = n
    BY <2>1, DocumentsAssumption DEF DocumentsAssumption
  <2> QED BY <2>1, <2>2, DocumentsAssumption DEF DocumentsAssumption
<1>2. ReaderTypeOK
  BY <1>1 DEF ReaderInit, ReaderTypeOK
<1>3. BufferBound /\ PartsBehind /\ LinesKept /\ LocationsBound
  BY DEF ReaderInit, BufferBound, PartsBehind, LinesKept, LocationsBound
<1> QED BY <1>2, <1>3 DEF ReaderInv

\* What Flushed leaves: the fragments there were, and at most one more.
LEMMA FlushedParts ==
  ASSUME ReaderInv, reading = "open", NEW last \in 0 .. currentLine, last = currentLine
  PROVE  /\ Flushed(last) \in Seq(Fragment)
         /\ \/ buf = <<>> /\ Flushed(last) = parts
            \/ /\ buf # <<>> /\ startLine # 0
               /\ Len(Flushed(last)) = Len(parts) + 1
               /\ \A i \in 1 .. Len(parts) : Flushed(last)[i] = parts[i]
               /\ Flushed(last)[Len(parts) + 1] = [bytes |-> buf, start |-> startLine, end |-> last]
<1>1. CASE buf = <<>>
  BY <1>1 DEF Flushed, ReaderInv, ReaderTypeOK
<1>2. CASE buf # <<>>
  <2> DEFINE new == [bytes |-> buf, start |-> startLine, end |-> last]
  <2>1. startLine # 0 /\ startLine \in 1 .. MaxLines /\ currentLine \in 0 .. MaxLines
    <3>1. lines \in Seq(LineKinds) /\ Len(lines) \in Nat /\ Len(lines) <= MaxLines
      BY DEF ReaderInv, ReaderTypeOK
    <3> QED BY <1>2, <3>1, DocumentsAssumption
            DEF ReaderInv, ReaderTypeOK, BufferBound, DocumentsAssumption
  <2>2. buf \in Seq(1 .. MaxLines)
    <3>1. buf \in Seq(1 .. currentLine)
      BY DEF ReaderInv, ReaderTypeOK
    <3>2. \A n \in 1 .. currentLine : n \in 1 .. MaxLines
      BY <2>1, DocumentsAssumption DEF DocumentsAssumption
    <3> QED BY <3>1, <3>2, Widened
  <2>3. new \in Fragment
    BY <2>1, <2>2 DEF Fragment
  <2>4. Flushed(last) = Append(parts, new)
    BY <1>2 DEF Flushed
  <2>5. parts \in Seq(Fragment)
    BY DEF ReaderInv, ReaderTypeOK
  <2> HIDE DEF new
  <2>6. /\ Append(parts, new) \in Seq(Fragment)
        /\ Len(Append(parts, new)) = Len(parts) + 1
        /\ \A i \in 1 .. Len(parts) : Append(parts, new)[i] = parts[i]
        /\ Append(parts, new)[Len(parts) + 1] = new
    BY <2>3, <2>5
  <2> QED BY <1>2, <2>1, <2>4, <2>6 DEF new
<1> QED BY <1>1, <1>2

\* The lines of a file and where reading stands in it.
LEMMA Position ==
  ASSUME ReaderInv
  PROVE  /\ Len(lines) \in Nat /\ Len(lines) <= MaxLines /\ MaxLines \in Nat
         /\ currentLine \in Nat /\ currentLine <= Len(lines)
         /\ startLine \in Nat /\ startLine <= currentLine
         /\ \A n \in 1 .. Len(lines) : lines[n] \in LineKinds
         /\ Len(parts) \in Nat
         /\ \A i \in 1 .. Len(parts) : parts[i] \in Fragment
         /\ Len(buf) \in Nat /\ (buf # <<>> => Len(buf) >= 1)
         /\ \A k \in 1 .. Len(buf) : buf[k] \in 1 .. currentLine
BY DocumentsAssumption DEF ReaderInv, ReaderTypeOK, DocumentsAssumption

\* The numbers in a fragment are numbers of lines.
LEMMA FragmentFields ==
  ASSUME ReaderInv, NEW i \in 1 .. Len(parts)
  PROVE  /\ parts[i].start \in Nat /\ parts[i].end \in Nat
         /\ Len(parts[i].bytes) \in Nat
         /\ parts[i].bytes # <<>> /\ Len(parts[i].bytes) >= 1 /\ parts[i].bytes[1] \in Nat
         /\ parts[i].end <= currentLine
<1>1. parts[i] \in Fragment /\ MaxLines \in Nat
  BY Position
<1>2. /\ parts[i].start \in Nat /\ parts[i].end \in Nat
      /\ parts[i].bytes \in Seq(1 .. MaxLines)
  BY <1>1 DEF Fragment
<1>3. parts[i].bytes # <<>> /\ parts[i].end <= currentLine
  BY DEF ReaderInv, LocationsBound, PartsBehind
<1>4. Len(parts[i].bytes) \in Nat /\ Len(parts[i].bytes) >= 1 /\ parts[i].bytes[1] \in 1 .. MaxLines
  BY <1>2, <1>3, NotEmpty
<1> QED BY <1>1, <1>2, <1>3, <1>4

\* An unbroken run lies between the lines it is said to lie between.
LEMMA RunWithin ==
  ASSUME NEW bytes, Len(bytes) \in Nat, Len(bytes) >= 1, NEW start \in Nat, NEW end \in Nat,
         bytes[1] \in Nat, UnbrokenRun(bytes, start, end)
  PROVE  \A k \in 1 .. Len(bytes) : bytes[k] \in bytes[1] .. end /\ bytes[k] \in start .. end
<1>1. bytes[Len(bytes)] = bytes[1] + Len(bytes) - 1
  BY DEF UnbrokenRun
<1> QED BY <1>1 DEF UnbrokenRun

------------------------------------------------------------------------------
\* What a separator and the end of the file have in common: the buffer becomes
\* a fragment, and no line of text is passed over.
LEMMA FlushKeeps ==
  ASSUME ReaderInv, reading = "open", lines' = lines, buf' = <<>>, parts' = Flushed(currentLine),
         reading' # "error",
         currentLine < Len(lines) => lines[currentLine + 1] = "separator",
         currentLine' \in {currentLine, currentLine + 1},
         \A n \in 1 .. currentLine' : lines[n] = "text" => n <= currentLine
  PROVE  /\ parts' \in Seq(Fragment)
         /\ \A i \in 1 .. Len(parts') : parts'[i].end \in Nat /\ parts'[i].end <= currentLine
         /\ LinesKept' /\ LocationsBound'
<1>2. /\ parts' \in Seq(Fragment)
      /\ \/ buf = <<>> /\ parts' = parts
         \/ /\ buf # <<>> /\ startLine # 0
            /\ Len(parts') = Len(parts) + 1
            /\ \A i \in 1 .. Len(parts) : parts'[i] = parts[i]
            /\ parts'[Len(parts) + 1] = [bytes |-> buf, start |-> startLine, end |-> currentLine]
  BY FlushedParts, Position
<1>1. Len(parts) \in Nat /\ Len(parts') \in Nat /\ Len(parts) <= Len(parts')
  BY <1>2, Position
<1>3. \A i \in 1 .. Len(parts) : parts'[i] = parts[i]
  BY <1>2
<1>4. ASSUME NEW i \in 1 .. Len(parts'), i \notin 1 .. Len(parts)
      PROVE  /\ i = Len(parts) + 1 /\ buf # <<>> /\ startLine # 0
             /\ parts'[i].bytes = buf /\ parts'[i].start = startLine /\ parts'[i].end = currentLine
             /\ UnbrokenRun(buf, startLine, currentLine)
  <2>1. buf # <<>>
    BY <1>2, <1>4
  <2>2. i = Len(parts) + 1
    BY <1>1, <1>2, <1>4, <2>1
  <2> QED BY <1>2, <2>1, <2>2 DEF ReaderInv, BufferBound
<1>5. \A i \in 1 .. Len(parts') : parts'[i].end \in Nat /\ parts'[i].end <= currentLine
  BY <1>3, <1>4, FragmentFields, Position
<1>6. LinesKept'
  <2>1. ASSUME NEW n \in 1 .. currentLine', lines[n] = "text"
        PROVE  \E i \in 1 .. Len(parts') : Within(n, parts'[i].bytes)
    <3>1. n \in 1 .. currentLine
      BY <2>1, Position
    <3>2. CASE Within(n, buf)
      <4>1. buf # <<>>
        BY <3>2 DEF Within
      <4>2. Len(parts) + 1 \in 1 .. Len(parts') /\ parts'[Len(parts) + 1].bytes = buf
        BY <1>1, <1>2, <4>1
      <4> QED BY <3>2, <4>2
    <3>3. CASE ~Within(n, buf)
      <4>1. PICK i \in 1 .. Len(parts) : Within(n, parts[i].bytes)
        BY <2>1, <3>1, <3>3 DEF ReaderInv, LinesKept
      <4>2. i \in 1 .. Len(parts') /\ parts'[i].bytes = parts[i].bytes
        BY <1>1, <1>3, <4>1
      <4> QED BY <4>1, <4>2
    <3> QED BY <3>2, <3>3
  <2>2. ASSUME NEW i \in 1 .. Len(parts')
        PROVE  /\ UnbrokenRun(parts'[i].bytes, parts'[i].start, parts'[i].end)
               /\ parts'[i].end < Len(lines) => lines[parts'[i].end + 1] = "separator"
               /\ \A j \in 1 .. Len(parts') : i < j => parts'[i].end < parts'[j].bytes[1]
    <3>1. CASE i \in 1 .. Len(parts)
      <4>1. /\ parts'[i] = parts[i]
            /\ UnbrokenRun(parts[i].bytes, parts[i].start, parts[i].end)
            /\ parts[i].end < Len(lines) => lines[parts[i].end + 1] = "separator"
            /\ \A j \in 1 .. Len(parts) : i < j => parts[i].end < parts[j].bytes[1]
            /\ buf # <<>> => parts[i].end < buf[1]
        BY <1>3, <3>1 DEF ReaderInv, LinesKept
      <4>2. ASSUME NEW j \in 1 .. Len(parts'), i < j
            PROVE  parts'[i].end < parts'[j].bytes[1]
        <5>1. CASE j \in 1 .. Len(parts)
          BY <1>3, <4>1, <4>2, <5>1
        <5>2. CASE j \notin 1 .. Len(parts)
          BY <1>4, <4>1, <5>2
        <5> QED BY <5>1, <5>2
      <4> QED BY <4>1, <4>2
    <3>2. CASE i \notin 1 .. Len(parts)
      <4>1. /\ i = Len(parts')
            /\ parts'[i].bytes = buf /\ parts'[i].start = startLine /\ parts'[i].end = currentLine
            /\ UnbrokenRun(buf, startLine, currentLine)
        BY <1>1, <1>2, <1>4, <3>2
      <4> QED BY <1>1, <4>1
    <3> QED BY <3>1, <3>2
  <2> QED BY <2>1, <2>2 DEF LinesKept, UnbrokenRun, Within
<1>7. LocationsBound'
  <2>1. ASSUME NEW i \in 1 .. Len(parts')
        PROVE  /\ parts'[i].bytes # <<>>
               /\ \A k \in 1 .. Len(parts'[i].bytes) : parts'[i].bytes[k] \in parts'[i].start .. parts'[i].end
               /\ \A n \in parts'[i].start .. parts'[i].end : lines[n] \in {"empty", "text"}
               /\ i > 1 => parts'[i - 1].end + 1 < parts'[i].start
    <3>1. CASE i \in 1 .. Len(parts)
      <4>1. i > 1 => i - 1 \in 1 .. Len(parts)
        BY <1>1, <3>1
      <4> QED BY <1>3, <3>1, <4>1 DEF ReaderInv, LocationsBound
    <3>2. CASE i \notin 1 .. Len(parts)
      <4>1. i = Len(parts) + 1 /\ buf # <<>> /\ startLine # 0
            /\ parts'[i].bytes = buf /\ parts'[i].start = startLine /\ parts'[i].end = currentLine
            /\ UnbrokenRun(buf, startLine, currentLine)
        BY <1>4, <3>2
      <4>2. \A k \in 1 .. Len(buf) : buf[k] \in startLine .. currentLine
        <5>1. Len(buf) \in Nat /\ Len(buf) >= 1 /\ buf[1] \in Nat
          BY <4>1, Position
        <5> QED BY <4>1, <5>1, RunWithin, Position
      <4>3. \A n \in startLine .. currentLine : lines[n] \in {"empty", "text"}
        BY <4>1 DEF ReaderInv, BufferBound
      <4>4. i > 1 => i - 1 \in 1 .. Len(parts) /\ parts[i - 1].end + 1 < startLine
        BY <1>1, <4>1 DEF ReaderInv, PartsBehind
      <4> QED BY <1>3, <4>1, <4>2, <4>3, <4>4
    <3> QED BY <3>1, <3>2
  <2> QED BY <2>1 DEF LocationsBound
<1> QED BY <1>2, <1>5, <1>6, <1>7

\* A separator ends a fragment, or nothing.
LEMMA SeparatorStep == ASSUME ReaderInv, ReadSeparator PROVE ReaderInv'
<1>1. /\ reading = "open" /\ reading' = "open" /\ lines' = lines
      /\ currentLine + 1 <= Len(lines) /\ lines[currentLine + 1] = "separator"
      /\ currentLine' = currentLine + 1 /\ buf' = <<>> /\ startLine' = 0
      /\ parts' = Flushed(currentLine)
  BY Position DEF ReadSeparator, Scanning
<1>2. /\ \A n \in 1 .. currentLine' : lines[n] = "text" => n <= currentLine
      /\ reading' # "error"
      /\ currentLine < Len(lines) => lines[currentLine + 1] = "separator"
      /\ currentLine' \in {currentLine, currentLine + 1}
  BY <1>1, Position
<1>3. /\ parts' \in Seq(Fragment)
      /\ \A i \in 1 .. Len(parts') : parts'[i].end \in Nat /\ parts'[i].end <= currentLine
      /\ LinesKept' /\ LocationsBound'
  BY <1>1, <1>2, FlushKeeps
<1>4. ReaderTypeOK'
  BY <1>1, <1>3, Position DEF ReaderInv, ReaderTypeOK
<1>5. BufferBound'
  BY <1>1 DEF BufferBound
<1>6. PartsBehind'
  BY <1>1, <1>3, Position DEF PartsBehind
<1> QED BY <1>3, <1>4, <1>5, <1>6 DEF ReaderInv

\* The end of the file ends a fragment too.
LEMMA EndStep == ASSUME ReaderInv, EndOfFile PROVE ReaderInv'
<1>1. /\ reading = "open" /\ reading' = "done" /\ lines' = lines
      /\ currentLine = Len(lines) /\ currentLine' = currentLine /\ buf' = <<>> /\ startLine' = startLine
      /\ parts' = Flushed(currentLine)
  BY DEF EndOfFile
<1>2. /\ \A n \in 1 .. currentLine' : lines[n] = "text" => n <= currentLine
      /\ reading' # "error"
      /\ currentLine < Len(lines) => lines[currentLine + 1] = "separator"
      /\ currentLine' \in {currentLine, currentLine + 1}
  BY <1>1, Position
<1>3. /\ parts' \in Seq(Fragment)
      /\ \A i \in 1 .. Len(parts') : parts'[i].end \in Nat /\ parts'[i].end <= currentLine
      /\ LinesKept' /\ LocationsBound'
  BY <1>1, <1>2, FlushKeeps
<1>4. ReaderTypeOK'
  BY <1>1, <1>3 DEF ReaderInv, ReaderTypeOK
<1>5. BufferBound'
  BY <1>1 DEF ReaderInv, BufferBound
<1>6. PartsBehind'
  BY <1>1, <1>3 DEF PartsBehind
<1> QED BY <1>3, <1>4, <1>5, <1>6 DEF ReaderInv

\* Any other line goes on with the fragment, or begins one.
LEMMA LineStep == ASSUME ReaderInv, ReadLine PROVE ReaderInv'
<1> DEFINE c == currentLine + 1
<1>1. /\ reading = "open" /\ reading' = "open" /\ lines' = lines /\ parts' = parts
      /\ c <= Len(lines) /\ lines[c] \in {"empty", "text"}
      /\ currentLine' = c
      /\ startLine' = IF startLine = 0 THEN c ELSE startLine
      /\ buf' = IF lines[c] = "text" \/ buf # <<>> THEN Append(buf, c) ELSE buf
  BY Position DEF ReadLine, Scanning
<1>2. c \in Nat /\ c >= 1 /\ startLine' \in 1 .. c
  BY <1>1, Position
<1>3. buf \in Seq(Nat) /\ buf \in Seq(1 .. c)
  <2>1. buf \in Seq(1 .. currentLine)
    BY DEF ReaderInv, ReaderTypeOK
  <2>2. \A n \in 1 .. currentLine : n \in 1 .. c
    BY Position
  <2>3. \A n \in 1 .. currentLine : n \in Nat
    BY Position
  <2> QED BY <2>1, <2>2, <2>3, Widened
<1>4. \/ buf' = buf /\ buf = <<>> /\ lines[c] = "empty"
      \/ /\ buf' # <<>> /\ buf' \in Seq(1 .. c)
         /\ Len(buf') = Len(buf) + 1 /\ buf'[Len(buf) + 1] = c
         /\ \A k \in 1 .. Len(buf) : buf'[k] = buf[k]
         /\ lines[c] = "text" \/ buf # <<>>
  <2>1. CASE lines[c] = "text" \/ buf # <<>>
    <3>1. c \in 1 .. c
      BY <1>2
    <3>2. /\ Append(buf, c) \in Seq(1 .. c) /\ Append(buf, c) # <<>>
          /\ Len(Append(buf, c)) = Len(buf) + 1 /\ Append(buf, c)[Len(buf) + 1] = c
          /\ \A k \in 1 .. Len(buf) : Append(buf, c)[k] = buf[k]
      BY <1>3, <3>1
    <3> QED BY <1>1, <2>1, <3>2
  <2>2. CASE ~(lines[c] = "text" \/ buf # <<>>)
    BY <1>1, <2>2
  <2> QED BY <2>1, <2>2
<1>5. ReaderTypeOK'
  <2>1. buf' \in Seq(1 .. c)
    BY <1>3, <1>4
  <2> QED BY <1>1, <1>2, <2>1, Position DEF ReaderInv, ReaderTypeOK
<1>6. BufferBound'
  <2>1. \A n \in startLine' .. c : lines[n] \in {"empty", "text"}
    BY <1>1, <1>2, Position DEF ReaderInv, BufferBound
  <2>2. ASSUME buf' = <<>> PROVE \A n \in startLine' .. c : lines[n] = "empty"
    <3>1. buf = <<>> /\ lines[c] = "empty"
      BY <1>4, <2>2
    <3> QED BY <1>1, <3>1, Position DEF ReaderInv, BufferBound
  <2>3. ASSUME buf' # <<>> PROVE UnbrokenRun(buf', startLine', c)
    <3>1. /\ Len(buf') = Len(buf) + 1 /\ buf'[Len(buf) + 1] = c
          /\ \A k \in 1 .. Len(buf) : buf'[k] = buf[k]
          /\ lines[c] = "text" \/ buf # <<>>
      BY <1>4, <2>3
    <3>2. CASE buf = <<>>
      <4>1. Len(buf') = 1 /\ buf'[1] = c /\ lines[c] = "text"
        BY <3>1, <3>2
      <4>2. \A n \in startLine' .. c - 1 : lines[n] = "empty"
        BY <1>1, <3>2, Position DEF ReaderInv, BufferBound
      <4> QED BY <1>2, <2>3, <4>1, <4>2 DEF UnbrokenRun
    <3>3. CASE buf # <<>>
      <4>1. UnbrokenRun(buf, startLine, currentLine) /\ startLine' = startLine
        BY <1>1, <3>3 DEF ReaderInv, BufferBound
      <4>2. Len(buf) \in Nat /\ Len(buf) >= 1 /\ buf[1] \in Nat /\ buf'[1] = buf[1]
        BY <3>1, <3>3, Position
      <4>3. buf[1] + Len(buf) - 1 = currentLine
        BY <4>1, <4>2 DEF UnbrokenRun
      <4>4. \A k \in 1 .. Len(buf') : buf'[k] = buf'[1] + k - 1
        <5>1. \A k \in 1 .. Len(buf) : buf[k] = buf[1] + k - 1
          BY <4>1 DEF UnbrokenRun
        <5>2. c = buf[1] + (Len(buf) + 1) - 1
          BY <4>2, <4>3, Position
        <5> SUFFICES ASSUME NEW k \in 1 .. Len(buf) + 1 PROVE buf'[k] = buf[1] + k - 1
          BY <3>1, <4>2
        <5>3. k \in 1 .. Len(buf) \/ k = Len(buf) + 1
          BY <4>2
        <5> QED BY <3>1, <5>1, <5>2, <5>3
      <4>5. /\ startLine' <= buf'[1] /\ lines[buf'[1]] = "text"
            /\ \A n \in startLine' .. buf'[1] - 1 : lines[n] = "empty"
        BY <4>1, <4>2 DEF UnbrokenRun
      <4> QED BY <2>3, <3>1, <4>4, <4>5 DEF UnbrokenRun
    <3> QED BY <3>2, <3>3
  <2>4. startLine' # 0
    BY <1>2
  <2> QED BY <1>1, <2>1, <2>2, <2>3, <2>4 DEF BufferBound, UnbrokenRun
<1>7. \A i \in 1 .. Len(parts) : parts[i].end \in Nat /\ parts[i].end <= currentLine
  BY FragmentFields
<1>8. PartsBehind'
  <2>1. \A i \in 1 .. Len(parts) : parts[i].end + 1 < startLine'
    BY <1>1, <1>7, Position DEF ReaderInv, PartsBehind
  <2> QED BY <1>1, <1>2, <1>7, <2>1, Position DEF PartsBehind
<1>9. LinesKept'
  <2>1. ASSUME NEW n, Within(n, buf) PROVE Within(n, buf')
    <3>1. PICK k \in 1 .. Len(buf) : buf[k] = n
      BY <2>1 DEF Within
    <3>2. buf'[k] = n /\ k \in 1 .. Len(buf')
      BY <1>4, <3>1, Position
    <3> QED BY <3>2 DEF Within
  <2>2. lines[c] = "text" => Within(c, buf')
    BY <1>4, Position DEF Within
  <2>3. ASSUME NEW n \in 1 .. c, lines[n] = "text"
        PROVE  Within(n, buf') \/ \E i \in 1 .. Len(parts) : Within(n, parts[i].bytes)
    <3>1. CASE n = c
      BY <2>2, <2>3, <3>1
    <3>2. CASE n # c
      <4>1. n \in 1 .. currentLine
        BY <3>2, Position
      <4> QED BY <1>1, <2>1, <2>3, <4>1 DEF ReaderInv, LinesKept
    <3> QED BY <3>1, <3>2
  <2>4. ASSUME NEW i \in 1 .. Len(parts), buf' # <<>> PROVE parts[i].end < buf'[1]
    <3>1. CASE buf = <<>>
      <4>1. buf'[1] = c
        BY <1>4, <2>4, <3>1
      <4> QED BY <1>7, <4>1, Position
    <3>2. CASE buf # <<>>
      <4>1. buf'[1] = buf[1]
        BY <1>4, <3>2, Position
      <4> QED BY <1>1, <3>2, <4>1 DEF ReaderInv, LinesKept
    <3> QED BY <3>1, <3>2
  <2>5. \A i \in 1 .. Len(parts) :
          /\ UnbrokenRun(parts[i].bytes, parts[i].start, parts[i].end)
          /\ parts[i].end < Len(lines) => lines[parts[i].end + 1] = "separator"
          /\ \A j \in 1 .. Len(parts) : i < j => parts[i].end < parts[j].bytes[1]
    BY <1>1 DEF ReaderInv, LinesKept
  <2>6. \A n \in 1 .. c : lines'[n] = "text" =>
          Within(n, buf)' \/ \E i \in 1 .. Len(parts') : Within(n, parts'[i].bytes)
    BY <1>1, <2>3 DEF Within
  <2>7. \A i \in 1 .. Len(parts) : buf' # <<>> => parts[i].end < buf'[1]
    BY <2>4
  <2>8. \A i \in 1 .. Len(parts') :
          /\ UnbrokenRun(parts[i].bytes, parts[i].start, parts[i].end)'
          /\ parts'[i].end < Len(lines') => lines'[parts'[i].end + 1] = "separator"
          /\ \A j \in 1 .. Len(parts') : i < j => parts'[i].end < parts'[j].bytes[1]
    BY <1>1, <2>5 DEF UnbrokenRun
  <2> QED BY <1>1, <2>6, <2>7, <2>8 DEF LinesKept, Within
<1>10. LocationsBound'
  BY <1>1 DEF ReaderInv, LocationsBound
<1> QED BY <1>5, <1>6, <1>8, <1>9, <1>10 DEF ReaderInv

\* A line that is too long leaves nothing of the document.
LEMMA FailStep == ASSUME ReaderInv, ScanFails PROVE ReaderInv'
<1>1. /\ reading' = "error" /\ parts' = <<>> /\ buf' = <<>>
      /\ UNCHANGED <<lines, currentLine, startLine>>
  BY DEF ScanFails
<1>2. ReaderTypeOK'
  BY <1>1 DEF ReaderInv, ReaderTypeOK
<1>3. BufferBound'
  BY <1>1 DEF ReaderInv, BufferBound
<1> QED BY <1>1, <1>2, <1>3 DEF ReaderInv, PartsBehind, LinesKept, LocationsBound

------------------------------------------------------------------------------
\* Whatever the file: reading it keeps its lines, in order, and reports, for
\* each fragment, lines that bound it and no others.
THEOREM ReadingCorrect == ReaderSpec => []ReaderInv
<1>1. ReaderInit => ReaderInv
  BY InitReader, DocumentsAssumption
<1>2. ReaderInv /\ [ReadNext]_readerVars => ReaderInv'
  <2> SUFFICES ASSUME ReaderInv, [ReadNext]_readerVars PROVE ReaderInv'
    OBVIOUS
  <2>1. CASE ReadSeparator
    BY <2>1, SeparatorStep
  <2>2. CASE ReadLine
    BY <2>2, LineStep
  <2>3. CASE EndOfFile
    BY <2>3, EndStep
  <2>4. CASE ScanFails
    BY <2>4, FailStep
  <2>5. CASE UNCHANGED readerVars
    <3>1. /\ lines' = lines /\ currentLine' = currentLine /\ startLine' = startLine
          /\ buf' = buf /\ parts' = parts /\ reading' = reading
      BY <2>5 DEF readerVars
    <3>2. ReaderTypeOK' /\ BufferBound'
      BY <3>1 DEF ReaderInv, ReaderTypeOK, BufferBound, UnbrokenRun
    <3>3. PartsBehind' /\ LocationsBound'
      BY <3>1 DEF ReaderInv, PartsBehind, LocationsBound
    <3>4. LinesKept'
      BY <3>1 DEF ReaderInv, LinesKept, UnbrokenRun, Within
    <3> QED BY <3>2, <3>3, <3>4 DEF ReaderInv
  <2> QED BY <2>1, <2>2, <2>3, <2>4, <2>5 DEF ReadNext
<1> QED BY <1>1, <1>2, PTL DEF ReaderSpec

\* For a file of any length: every line of text that was read is in the buffer
\* or a fragment, every fragment is an unbroken run of the file's lines, in
\* their order, to the separator or the end, and the fragments are in order.
THEOREM NoLineLost == ReaderSpec => []LinesKept
<1>1. ReaderInv => LinesKept
  BY DEF ReaderInv
<1> QED BY <1>1, ReadingCorrect, PTL

\* The lines reported for a fragment bound it, for a file of any length.
THEOREM LocationsCorrect == ReaderSpec => []LocationsBound
<1>1. ReaderInv => LocationsBound
  BY DEF ReaderInv
<1> QED BY <1>1, ReadingCorrect, PTL

==============================================================================
