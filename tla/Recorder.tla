------------------------------- MODULE Recorder -------------------------------
(***************************************************************************)
(* The recorder of a modden run (pkg/test): DefaultRecorder, which decides *)
(* whether to go on and whether the run failed, stacked under TreeWriter   *)
(* or TapWriter, which print.  Each step opens, records its results and    *)
(* closes before the next one opens, so a step is one operator.  A result  *)
(* is its severity; results of severity None are only printed, and how     *)
(* many there are of another is left out.                                  *)
(***************************************************************************)
EXTENDS Naturals, Sequences

VARIABLES
  docs,        \* DefaultRecorder: the results of each document
  currentDoc,  \* DefaultRecorder: the document that is open, 0 for none
  format,      \* --format: which writer is on top
  allErrors,   \* TreeWriter: the results of the document so far
  stepSkips,   \* TapWriter: whether it has seen a skip
  marks,       \* TapWriter: the marks it put on steps of the document
  verdicts,    \* what each closed document was printed to have come to
  lastStep     \* the results of the document's last step

recorderVars == <<docs, currentDoc, format, allErrors, stepSkips, marks, verdicts, lastStep>>

Severity == {"Error", "Fatal", "Skip"}

\* Result.IsTerminal and IsFailed.
Terminal == {"Fatal", "Skip"}

Failing == {"Fatal", "Error"}

Has(rs, severities) == rs \cap severities # {}

TreeVerdict(rs) ==
  IF "Skip" \in rs THEN "skipped" ELSE IF Has(rs, Failing) THEN "failed" ELSE "pass"

\* TAP has no verdict of its own: one step that is not ok fails the document.
TapVerdict(ms) == IF "not ok" \in ms THEN "failed" ELSE "pass"

RecorderTypeOK ==
  /\ docs \in Seq(SUBSET Severity)
  /\ currentDoc \in 0 .. Len(docs)
  /\ format \in {"tree", "tap", "other"}
  /\ allErrors \subseteq Severity
  /\ stepSkips \in BOOLEAN
  /\ marks \subseteq {"ok", "skip", "not ok"}
  /\ verdicts \in Seq({"pass", "failed", "skipped"})
  /\ lastStep \subseteq Severity

RecorderInit ==
  /\ docs = <<>> /\ currentDoc = 0
  /\ format \in {"tree", "tap", "other"}
  /\ allErrors = {}
  /\ stepSkips = FALSE /\ marks = {}
  /\ verdicts = <<>>
  /\ lastStep = {}

------------------------------------------------------------------------------
AnyTerminal == \E d \in 1 .. Len(docs) : Has(docs[d], Terminal)

FatalOnly == ~("Fatal" \in docs[currentDoc])

NoneTerminal == ~AnyTerminal

\* While a document is open only its own results count.
ShouldContinue ==
  IF currentDoc # 0 THEN ~Has(docs[currentDoc], Terminal) ELSE ~AnyTerminal

FailedLast == Len(docs) > 0 /\ Has(docs[Len(docs)], Failing)

\* Any document's failure fails the run.
Failed == \E d \in 1 .. Len(docs) : Has(docs[d], Failing)

NewDocumentKeepsErrors ==
  /\ docs' = Append(docs, {})
  /\ currentDoc' = Len(docs) + 1
  /\ marks' = {} /\ lastStep' = {}
  /\ UNCHANGED <<format, allErrors, stepSkips, verdicts>>

NewDocument ==
  /\ docs' = Append(docs, {})
  /\ currentDoc' = Len(docs) + 1
  /\ allErrors' = {} /\ marks' = {} /\ lastStep' = {}
  /\ UNCHANGED <<format, stepSkips, verdicts>>

TapMarkSkipFirst(rs, skips) ==
  IF skips THEN "skip" ELSE IF Has(rs, Failing) THEN "not ok" ELSE "ok"

TapMark(rs, skips) ==
  IF Has(rs, Failing) THEN "not ok" ELSE IF skips THEN "skip" ELSE "ok"

PrintStep(rs) ==
  \/ /\ format = "tree"
     /\ allErrors' = allErrors \cup rs
     /\ UNCHANGED <<stepSkips, marks>>
  \/ /\ format = "tap"
     /\ stepSkips' = (stepSkips \/ "Skip" \in rs)   \* not reset when the step ends
     /\ marks' = marks \cup {TapMark(rs, stepSkips')}
     /\ UNCHANGED allErrors

\* NewStep, Update with the results rs, and the step's Closer.
RecordStep(rs) ==
  /\ docs' = [docs EXCEPT ![currentDoc] = @ \cup rs]
  /\ lastStep' = rs
  /\ PrintStep(rs)
  /\ UNCHANGED <<currentDoc, format, verdicts>>

CloseDocument ==
  /\ verdicts' = Append(verdicts, IF format = "tap" THEN TapVerdict(marks) ELSE TreeVerdict(allErrors))
  /\ currentDoc' = 0
  /\ UNCHANGED <<docs, format, allErrors, stepSkips, marks, lastStep>>

==============================================================================
