------------------------------ MODULE Documents ------------------------------
(***************************************************************************)
(* pkg/doc: reading a file of fragments that YAML document separators      *)
(* divide, a line at a time, and deciding what each fragment is.  Lines    *)
(* are told apart only by what ReadDocument does with them; bytes are a    *)
(* sequence of the numbers of the lines they are of, in the order in which *)
(* ReadDocument wrote them.                                                *)
(***************************************************************************)
EXTENDS Naturals, Sequences

CONSTANT MaxLines   \* bound: lines of a file

ASSUME DocumentsAssumption == MaxLines \in Nat

VARIABLES
  lines,        \* the file: what each of its lines is
  currentLine,  \* the number of the last line that was read
  startLine,    \* the first line of the fragment being read, 0 for none
  buf,          \* the lines in the buffer, in order
  parts,        \* Document.Parts
  reading       \* what ReadDocument has come to

readerVars == <<lines, currentLine, startLine, buf, parts, reading>>

\* An over-long line is one that bufio.Scanner gives up at.
LineKinds == {"separator", "empty", "text", "overlong"}

Files == UNION {[1 .. n -> LineKinds] : n \in 0 .. MaxLines}

Fragment == [bytes : Seq(1 .. MaxLines), start : 1 .. MaxLines, end : 0 .. MaxLines]

ReaderTypeOK ==
  /\ lines \in Seq(LineKinds) /\ Len(lines) <= MaxLines
  /\ currentLine \in 0 .. Len(lines)
  /\ startLine \in 0 .. currentLine
  /\ buf \in Seq(1 .. currentLine)
  /\ parts \in Seq(Fragment)
  /\ reading \in {"open", "done", "error"}

OpenFile(file) ==
  /\ lines' = file
  /\ currentLine' = 0 /\ startLine' = 0
  /\ buf' = <<>> /\ parts' = <<>>
  /\ reading' = "open"

ReaderInit ==
  /\ lines \in Files
  /\ currentLine = 0 /\ startLine = 0
  /\ buf = <<>> /\ parts = <<>>
  /\ reading = "open"

------------------------------------------------------------------------------
(***************************************************************************)
(* ReadDocument, a turn of its loop at a time.                             *)
(***************************************************************************)
Scanning(kinds) ==
  /\ reading = "open" /\ currentLine < Len(lines)
  /\ lines[currentLine + 1] \in kinds

\* What is in the buffer becomes a fragment, unless that is nothing.
Flushed(last) ==
  IF buf = <<>> THEN parts ELSE Append(parts, [bytes |-> buf, start |-> startLine, end |-> last])

EndsAtSeparator ==
  /\ Scanning({"separator"})
  /\ currentLine' = currentLine + 1
  /\ parts' = Flushed(currentLine + 1)
  /\ buf' = <<>> /\ startLine' = 0
  /\ UNCHANGED <<lines, reading>>

ReadSeparator ==
  /\ Scanning({"separator"})
  /\ currentLine' = currentLine + 1
  /\ parts' = Flushed(currentLine)
  /\ buf' = <<>> /\ startLine' = 0
  /\ UNCHANGED <<lines, reading>>

\* An empty line adds a newline to what is in the buffer already, or nothing.
ReadLine ==
  /\ Scanning({"empty", "text"})
  /\ currentLine' = currentLine + 1
  /\ startLine' = IF startLine = 0 THEN currentLine + 1 ELSE startLine
  /\ buf' = IF lines[currentLine + 1] = "text" \/ buf # <<>> THEN Append(buf, currentLine + 1) ELSE buf
  /\ UNCHANGED <<lines, parts, reading>>

ForgetsTrailer ==
  /\ reading = "open" /\ currentLine = Len(lines)
  /\ buf' = <<>>
  /\ reading' = "done"
  /\ UNCHANGED <<lines, currentLine, startLine, parts>>

EndOfFile ==
  /\ reading = "open" /\ currentLine = Len(lines)
  /\ parts' = Flushed(currentLine)
  /\ buf' = <<>>
  /\ reading' = "done"
  /\ UNCHANGED <<lines, currentLine, startLine>>

\* Nothing of the document is returned with an error.
ScanFails ==
  /\ Scanning({"overlong"})
  /\ reading' = "error"
  /\ parts' = <<>> /\ buf' = <<>>
  /\ UNCHANGED <<lines, currentLine, startLine>>

ReadNext ==
  \/ ReadSeparator
  \/ ReadLine
  \/ EndOfFile
  \/ ScanFails

ReaderSpec == ReaderInit /\ [][ReadNext]_readerVars

------------------------------------------------------------------------------
(***************************************************************************)
(* Fragment.Decode: YAML first, and what is no YAML mapping must be Rego.  *)
(***************************************************************************)
Contents == {"object", "mapping", "rules", "no rules", "neither"}

\* FragmentTypeInvalid comes with an error; a module without rules does not.
Decode(content) ==
  CASE content = "object" -> "object"
    [] content = "rules" -> "module"
    [] content = "no rules" -> "unknown"
    [] OTHER -> "invalid"

\* The text of a $check has to be a Rego module with rules.
NewRegoFragmentFails(content) == Decode(content) # "module"

------------------------------------------------------------------------------
\* Bytes that run on, line after line, from the first text line at or after
\* start up to end: nothing of the empty lines that lead is kept, and nothing
\* behind them is left out, put twice or out of order.
UnbrokenRun(bytes, start, end) ==
  /\ bytes # <<>> /\ bytes[Len(bytes)] = end
  /\ \A k \in 1 .. Len(bytes) : bytes[k] = bytes[1] + k - 1
  /\ start <= bytes[1] /\ lines[bytes[1]] = "text"
  /\ \A n \in start .. bytes[1] - 1 : lines[n] = "empty"

Within(n, bytes) == \E k \in 1 .. Len(bytes) : bytes[k] = n

\* No line is lost, read twice or out of its order, whatever separators and
\* empty lines surround it.  Each line of text that was read is in the buffer
\* or in a fragment; every fragment is the unbroken run of lines, empty ones
\* too, from its first line of text to the separator or the end of the file;
\* and the fragments, with the buffer last, are in the order of the file.
LinesKept ==
  reading # "error" =>
    /\ \A n \in 1 .. currentLine : lines[n] = "text" =>
         Within(n, buf) \/ \E i \in 1 .. Len(parts) : Within(n, parts[i].bytes)
    /\ \A i \in 1 .. Len(parts) :
         /\ UnbrokenRun(parts[i].bytes, parts[i].start, parts[i].end)
         /\ parts[i].end < Len(lines) => lines[parts[i].end + 1] = "separator"
         /\ \A j \in 1 .. Len(parts) : i < j => parts[i].end < parts[j].bytes[1]
         /\ buf # <<>> => parts[i].end < buf[1]

\* The lines reported for a fragment bound it: they hold its bytes and no
\* separator, and they come after those of the fragment before.
LocationsBound ==
  \A i \in 1 .. Len(parts) :
    /\ parts[i].bytes # <<>>
    /\ \A k \in 1 .. Len(parts[i].bytes) : parts[i].bytes[k] \in parts[i].start .. parts[i].end
    /\ \A n \in parts[i].start .. parts[i].end : lines[n] \in {"empty", "text"}
    /\ i > 1 => parts[i - 1].end + 1 < parts[i].start

==============================================================================
