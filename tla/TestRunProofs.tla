---------------------------- MODULE TestRunProofs ----------------------------
(***************************************************************************)
(* Theorems about TestRun, for any number of documents and fragments, any  *)
(* timeout and any Rego modules.  The inductive invariant has two parts:   *)
(* what the recorder and the writer on top of it have in common, which     *)
(* holds after each of their calls, and how the command's own variables    *)
(* relate to the results that were recorded.                               *)
(***************************************************************************)
EXTENDS TestRun, SequenceTheorems, TLAPS

------------------------------------------------------------------------------
(***************************************************************************)
(* The recorder.                                                           *)
(***************************************************************************)
\* One document is open at most, the last one, and the others have a verdict.
OneOpen ==
  /\ currentDoc # 0 => currentDoc = Len(docs) /\ Len(docs) = Len(verdicts) + 1
  /\ currentDoc = 0 => Len(docs) = Len(verdicts)

\* TreeWriter counts what the open document has recorded.
TreeInv ==
  format = "tree" =>
    /\ \A d \in 1 .. Len(verdicts) : verdicts[d] = TreeVerdict(docs[d])
    /\ currentDoc # 0 => allErrors = docs[currentDoc]

\* TapWriter's marks agree with what the open document has recorded.
TapInv ==
  format = "tap" =>
    /\ \A d \in 1 .. Len(verdicts) : (verdicts[d] = "failed") <=> Has(docs[d], Failing)
    /\ currentDoc # 0 => (("not ok" \in marks) <=> Has(docs[currentDoc], Failing))
    /\ stepSkips \/ "skip" \in marks => \E d \in 1 .. Len(docs) : "Skip" \in docs[d]

RecorderInv == RecorderTypeOK /\ OneOpen /\ TreeInv /\ TapInv

\* The recorder begins with no documents.
LEMMA InitRecorder == ASSUME RecorderInit PROVE RecorderInv
<1>1. /\ docs = <<>> /\ verdicts = <<>> /\ Len(docs) = 0 /\ Len(verdicts) = 0
      /\ currentDoc = 0 /\ stepSkips = FALSE /\ marks = {}
  BY DEF RecorderInit
<1>2. RecorderTypeOK
  <2>1. docs \in Seq(SUBSET Severity) /\ verdicts \in Seq({"pass", "failed", "skipped"})
    BY <1>1
  <2>2. currentDoc \in 0 .. Len(docs)
    BY <1>1
  <2>3. stepSkips \in BOOLEAN
    BY <1>1
  <2> QED BY <2>1, <2>2, <2>3, <1>1 DEF RecorderInit, RecorderTypeOK
<1>3. 1 .. Len(docs) = {} /\ 1 .. Len(verdicts) = {}
  BY <1>1
<1>4. OneOpen
  BY <1>1 DEF OneOpen
<1>5. TreeInv
  BY <1>1, <1>3 DEF TreeInv
<1>6. TapInv
  BY <1>1, <1>3 DEF TapInv
<1> QED BY <1>2, <1>4, <1>5, <1>6 DEF RecorderInv

\* What a sequence is with an element appended to it.
LEMMA Appended ==
  ASSUME NEW S, NEW s \in Seq(S), NEW e \in S
  PROVE  /\ Append(s, e) \in Seq(S) /\ Len(s) \in Nat
         /\ Len(Append(s, e)) = Len(s) + 1
         /\ \A d \in 1 .. Len(s) : Append(s, e)[d] = s[d]
         /\ Append(s, e)[Len(s) + 1] = e
         /\ \A d \in 1 .. Len(s) + 1 : d \in 1 .. Len(s) \/ d = Len(s) + 1
OBVIOUS

\* What the invariant says of the lengths.
LEMMA Lengths ==
  ASSUME RecorderInv
  PROVE  /\ docs \in Seq(SUBSET Severity) /\ Len(docs) \in Nat
         /\ verdicts \in Seq({"pass", "failed", "skipped"}) /\ Len(verdicts) \in Nat
         /\ currentDoc \in Nat
         /\ currentDoc # 0 =>
              currentDoc = Len(docs) /\ currentDoc \in 1 .. Len(docs) /\ Len(docs) = Len(verdicts) + 1
         /\ currentDoc = 0 => Len(docs) = Len(verdicts)
<1>1. docs \in Seq(SUBSET Severity) /\ verdicts \in Seq({"pass", "failed", "skipped"})
  BY DEF RecorderInv, RecorderTypeOK
<1>2. Len(docs) \in Nat /\ Len(verdicts) \in Nat
  BY <1>1
<1>3. currentDoc \in 0 .. Len(docs)
  BY DEF RecorderInv, RecorderTypeOK
<1>4. OneOpen
  BY DEF RecorderInv
<1> QED BY <1>1, <1>2, <1>3, <1>4 DEF OneOpen

\* Nothing of the recorder changes with its variables unchanged.
LEMMA RecorderRests ==
  ASSUME RecorderInv, UNCHANGED recorderVars
  PROVE  /\ RecorderInv'
         /\ docs' = docs /\ currentDoc' = currentDoc /\ verdicts' = verdicts
         /\ format' = format /\ lastStep' = lastStep
         /\ (ShouldContinue' <=> ShouldContinue) /\ (Failed' <=> Failed)
<1>1. /\ docs' = docs /\ currentDoc' = currentDoc /\ verdicts' = verdicts
      /\ format' = format /\ lastStep' = lastStep
      /\ allErrors' = allErrors /\ stepSkips' = stepSkips /\ marks' = marks
  BY DEF recorderVars
<1>2. RecorderTypeOK' /\ OneOpen'
  BY <1>1 DEF RecorderInv, RecorderTypeOK, OneOpen
<1>3. TreeInv' /\ TapInv'
  BY <1>1 DEF RecorderInv, TreeInv, TapInv
<1>4. (ShouldContinue' <=> ShouldContinue) /\ (Failed' <=> Failed)
  BY <1>1 DEF ShouldContinue, AnyTerminal, Failed
<1> QED BY <1>1, <1>2, <1>3, <1>4 DEF RecorderInv

\* A document opens with nothing recorded and nothing printed.
LEMMA DocumentOpens ==
  ASSUME RecorderInv, currentDoc = 0, NewDocument
  PROVE  /\ RecorderInv'
         /\ Len(docs') = Len(docs) + 1 /\ currentDoc' = Len(docs) + 1 /\ currentDoc' # 0
         /\ \A d \in 1 .. Len(docs) : docs'[d] = docs[d]
         /\ docs'[currentDoc'] = {}
         /\ verdicts' = verdicts /\ format' = format
<1>1. docs \in Seq(SUBSET Severity) /\ Len(docs) \in Nat /\ Len(docs) = Len(verdicts)
  BY Lengths
<1>2. /\ docs' \in Seq(SUBSET Severity)
      /\ Len(docs') = Len(docs) + 1 /\ currentDoc' = Len(docs) + 1
      /\ \A d \in 1 .. Len(docs) : docs'[d] = docs[d]
      /\ docs'[Len(docs) + 1] = {}
  BY <1>1, Appended DEF NewDocument
<1>3. /\ verdicts' = verdicts /\ format' = format /\ stepSkips' = stepSkips
      /\ allErrors' = {} /\ marks' = {} /\ lastStep' = {}
  BY DEF NewDocument
<1>4. RecorderTypeOK'
  <2>1. stepSkips' \in BOOLEAN
    BY <1>3 DEF RecorderInv, RecorderTypeOK
  <2>2. currentDoc' \in 0 .. Len(docs')
    BY <1>1, <1>2
  <2> QED BY <1>2, <1>3, <2>1, <2>2 DEF RecorderInv, RecorderTypeOK
<1>5. OneOpen'
  BY <1>1, <1>2, <1>3 DEF OneOpen
<1>6. TreeInv'
  BY <1>1, <1>2, <1>3 DEF RecorderInv, TreeInv
<1>7. TapInv'
  <2> SUFFICES ASSUME format = "tap" PROVE TapInv'
    BY <1>3 DEF TapInv
  <2>1. ~Has({}, Failing)
    BY DEF Has
  <2>2. "not ok" \notin marks' /\ "skip" \notin marks'
    BY <1>3
  <2>3. \A d \in 1 .. Len(verdicts) : (verdicts[d] = "failed") <=> Has(docs'[d], Failing)
    BY <1>1, <1>2 DEF RecorderInv, TapInv
  <2>4. stepSkips' => \E d \in 1 .. Len(docs') : "Skip" \in docs'[d]
    <3> SUFFICES ASSUME stepSkips PROVE \E d \in 1 .. Len(docs') : "Skip" \in docs'[d]
      BY <1>3
    <3>1. PICK d \in 1 .. Len(docs) : "Skip" \in docs[d]
      BY DEF RecorderInv, TapInv
    <3>2. d \in 1 .. Len(docs') /\ "Skip" \in docs'[d]
      BY <1>1, <1>2, <3>1
    <3> QED BY <3>2
  <2> QED BY <1>2, <1>3, <2>1, <2>2, <2>3, <2>4 DEF TapInv
<1> QED BY <1>1, <1>2, <1>3, <1>4, <1>5, <1>6, <1>7 DEF RecorderInv

\* A step adds its results to the open document, whichever writer prints it.
LEMMA StepRecorded ==
  ASSUME RecorderInv, currentDoc # 0, NEW rs \in SUBSET Severity, RecordStep(rs)
  PROVE  /\ RecorderInv'
         /\ Len(docs') = Len(docs) /\ currentDoc' = currentDoc
         /\ \A d \in 1 .. Len(docs) : d # currentDoc => docs'[d] = docs[d]
         /\ docs'[currentDoc] = docs[currentDoc] \cup rs
         /\ verdicts' = verdicts /\ format' = format /\ lastStep' = rs
         /\ ShouldContinue' => ShouldContinue
         /\ rs \cap Terminal = {} => ShouldContinue' = ShouldContinue
         /\ rs \cap Terminal # {} => ~ShouldContinue'
<1>1. /\ docs \in Seq(SUBSET Severity) /\ Len(docs) \in Nat
      /\ currentDoc = Len(docs) /\ currentDoc \in 1 .. Len(docs)
      /\ Len(docs) = Len(verdicts) + 1 /\ Len(verdicts) \in Nat
  BY Lengths
<1>2. /\ docs' \in Seq(SUBSET Severity)
      /\ Len(docs') = Len(docs)
      /\ \A d \in 1 .. Len(docs) : d # currentDoc => docs'[d] = docs[d]
      /\ docs'[currentDoc] = docs[currentDoc] \cup rs
  BY <1>1 DEF RecordStep
<1>3. /\ lastStep' = rs /\ currentDoc' = currentDoc /\ format' = format /\ verdicts' = verdicts
      /\ PrintStep(rs)
  BY DEF RecordStep
<1>4. RecorderTypeOK'
  <2>1. allErrors' \subseteq Severity
    BY <1>3 DEF PrintStep, RecorderInv, RecorderTypeOK
  <2>2. stepSkips' \in BOOLEAN
    BY <1>3 DEF PrintStep, RecorderInv, RecorderTypeOK
  <2>3. marks' \subseteq {"ok", "skip", "not ok"}
    BY <1>3 DEF PrintStep, RecorderInv, RecorderTypeOK, TapMark
  <2>4. currentDoc' \in 0 .. Len(docs')
    BY <1>1, <1>2, <1>3
  <2> QED BY <1>2, <1>3, <2>1, <2>2, <2>3, <2>4 DEF RecorderInv, RecorderTypeOK
<1>5. OneOpen'
  BY <1>1, <1>2, <1>3 DEF OneOpen
<1>6. \A d \in 1 .. Len(verdicts) : docs'[d] = docs[d]
  BY <1>1, <1>2
<1>7. TreeInv'
  <2> SUFFICES ASSUME format = "tree" PROVE TreeInv'
    BY <1>3 DEF TreeInv
  <2>1. allErrors' = allErrors \cup rs
    BY <1>3 DEF PrintStep
  <2> QED BY <1>1, <1>2, <1>3, <1>6, <2>1 DEF RecorderInv, TreeInv
<1>8. TapInv'
  <2> SUFFICES ASSUME format = "tap" PROVE TapInv'
    BY <1>3 DEF TapInv
  <2>1. /\ stepSkips' = (stepSkips \/ "Skip" \in rs)
        /\ marks' = marks \cup {TapMark(rs, stepSkips')}
    BY <1>3 DEF PrintStep
  <2>2. TapMark(rs, stepSkips') = "not ok" <=> Has(rs, Failing)
    BY DEF TapMark
  <2>3. Has(docs'[currentDoc], Failing) <=> Has(docs[currentDoc], Failing) \/ Has(rs, Failing)
    BY <1>2 DEF Has
  <2>4. ("not ok" \in marks') <=> Has(docs'[currentDoc], Failing)
    BY <1>1, <2>1, <2>2, <2>3 DEF RecorderInv, TapInv
  <2>5. stepSkips' => \E d \in 1 .. Len(docs') : "Skip" \in docs'[d]
    <3>1. CASE "Skip" \in rs
      BY <1>1, <1>2, <3>1
    <3>2. CASE stepSkips
      <4>1. PICK d \in 1 .. Len(docs) : "Skip" \in docs[d]
        BY <3>2 DEF RecorderInv, TapInv
      <4>2. "Skip" \in docs'[d]
        BY <1>2, <4>1
      <4> QED BY <1>2, <4>1, <4>2
    <3> QED BY <2>1, <3>1, <3>2
  <2>6. "skip" \in marks' => \E d \in 1 .. Len(docs') : "Skip" \in docs'[d]
    <3> SUFFICES ASSUME "skip" \in marks' PROVE \E d \in 1 .. Len(docs') : "Skip" \in docs'[d]
      OBVIOUS
    <3>1. CASE "skip" \in marks
      <4>1. PICK d \in 1 .. Len(docs) : "Skip" \in docs[d]
        BY <3>1 DEF RecorderInv, TapInv
      <4>2. "Skip" \in docs'[d]
        BY <1>2, <4>1
      <4> QED BY <1>2, <4>1, <4>2
    <3>2. CASE TapMark(rs, stepSkips') = "skip"
      <4>1. stepSkips'
        BY <3>2 DEF TapMark
      <4> QED BY <2>5, <4>1
    <3> QED BY <2>1, <3>1, <3>2
  <2>7. \A d \in 1 .. Len(verdicts) : (verdicts[d] = "failed") <=> Has(docs'[d], Failing)
    BY <1>6 DEF RecorderInv, TapInv
  <2> QED BY <1>3, <2>4, <2>5, <2>6, <2>7 DEF TapInv
<1>9. /\ ShouldContinue <=> docs[currentDoc] \cap Terminal = {}
      /\ ShouldContinue' <=> (docs[currentDoc] \cup rs) \cap Terminal = {}
  BY <1>2, <1>3 DEF ShouldContinue, Has
<1>10. /\ ShouldContinue' => ShouldContinue
       /\ rs \cap Terminal = {} => ShouldContinue' = ShouldContinue
       /\ rs \cap Terminal # {} => ~ShouldContinue'
  <2>1. ShouldContinue \in BOOLEAN /\ ShouldContinue' \in BOOLEAN
    BY DEF ShouldContinue, Has, AnyTerminal
  <2> QED BY <1>9, <2>1
<1> QED BY <1>2, <1>3, <1>4, <1>5, <1>7, <1>8, <1>10 DEF RecorderInv

\* Closing a document prints what it came to.
LEMMA DocumentCloses ==
  ASSUME RecorderInv, currentDoc # 0, format # "other", CloseDocument
  PROVE  /\ RecorderInv'
         /\ docs' = docs /\ currentDoc' = 0 /\ format' = format
         /\ Len(verdicts') = Len(verdicts) + 1 /\ Len(docs) = Len(verdicts')
<1>1. /\ docs' = docs /\ currentDoc' = 0 /\ format' = format /\ allErrors' = allErrors
      /\ stepSkips' = stepSkips /\ marks' = marks /\ lastStep' = lastStep
      /\ verdicts' = Append(verdicts, IF format = "tap" THEN TapVerdict(marks) ELSE TreeVerdict(allErrors))
  BY DEF CloseDocument
<1>2. /\ verdicts \in Seq({"pass", "failed", "skipped"}) /\ Len(verdicts) \in Nat
      /\ currentDoc = Len(docs) /\ Len(docs) = Len(verdicts) + 1
  BY Lengths
<1>3. (IF format = "tap" THEN TapVerdict(marks) ELSE TreeVerdict(allErrors)) \in {"pass", "failed", "skipped"}
  BY DEF TapVerdict, TreeVerdict
<1>4. /\ verdicts' \in Seq({"pass", "failed", "skipped"})
      /\ Len(verdicts') = Len(verdicts) + 1 /\ Len(docs) = Len(verdicts')
      /\ \A d \in 1 .. Len(verdicts) : verdicts'[d] = verdicts[d]
      /\ verdicts'[Len(verdicts) + 1] =
           IF format = "tap" THEN TapVerdict(marks) ELSE TreeVerdict(allErrors)
      /\ \A d \in 1 .. Len(verdicts') : d \in 1 .. Len(verdicts) \/ d = Len(verdicts) + 1
  BY <1>1, <1>2, <1>3, Appended
<1>5. RecorderTypeOK'
  <2>1. stepSkips' \in BOOLEAN
    BY <1>1 DEF RecorderInv, RecorderTypeOK
  <2>2. currentDoc' \in 0 .. Len(docs')
    BY <1>1, <1>2
  <2> QED BY <1>1, <1>4, <2>1, <2>2 DEF RecorderInv, RecorderTypeOK
<1>6. OneOpen'
  BY <1>1, <1>4 DEF OneOpen
<1>7. TreeInv'
  <2> SUFFICES ASSUME format = "tree", NEW d \in 1 .. Len(verdicts')
               PROVE  verdicts'[d] = TreeVerdict(docs[d])
    BY <1>1 DEF TreeInv
  <2>1. CASE d \in 1 .. Len(verdicts)
    BY <1>4, <2>1 DEF RecorderInv, TreeInv
  <2>2. CASE d = Len(verdicts) + 1
    <3>1. allErrors = docs[d]
      BY <1>2, <2>2 DEF RecorderInv, TreeInv
    <3> QED BY <1>4, <2>2, <3>1
  <2> QED BY <1>4, <2>1, <2>2
<1>8. TapInv'
  <2> SUFFICES ASSUME format = "tap" PROVE TapInv'
    BY <1>1 DEF TapInv
  <2>1. (TapVerdict(marks) = "failed") <=> Has(docs[currentDoc], Failing)
    BY DEF RecorderInv, TapInv, TapVerdict
  <2>2. ASSUME NEW d \in 1 .. Len(verdicts') PROVE (verdicts'[d] = "failed") <=> Has(docs[d], Failing)
    <3>1. CASE d \in 1 .. Len(verdicts)
      BY <1>4, <3>1 DEF RecorderInv, TapInv
    <3>2. CASE d = Len(verdicts) + 1
      BY <1>2, <1>4, <2>1, <3>2
    <3> QED BY <1>4, <3>1, <3>2
  <2>3. stepSkips \/ "skip" \in marks => \E d \in 1 .. Len(docs) : "Skip" \in docs[d]
    BY DEF RecorderInv, TapInv
  <2> QED BY <1>1, <2>2, <2>3 DEF TapInv
<1> QED BY <1>1, <1>4, <1>5, <1>6, <1>7, <1>8 DEF RecorderInv

------------------------------------------------------------------------------
(***************************************************************************)
(* The command.                                                            *)
(***************************************************************************)
\* The steps of the command within a document, and those of them between an
\* operation on the cluster and the cleanup.
DocumentSteps == Steps \ {"start", "next document", "over"}

LeftSteps == {"next fragment", "hydrate", "match", "update", "check object", "check module",
               "checking", "clean up"}

RunTypeOK ==
  /\ args \in 0 .. MaxDocs
  /\ preserve \in BOOLEAN
  /\ pc \in Steps
  /\ parts \in Seq(FragmentTypes)
  /\ obj \in {"nil", "named", "anonymous"}
  /\ opResult \in {"nil", "result"}
  /\ check \subseteq RuleName /\ raised \subseteq check
  /\ turns \in 0 .. CheckTimeout
  /\ results \subseteq Severity
  /\ left \in {"none", "some", "undeleted"}
  /\ exit \in {"running", "ok", "failed", "usage", "error", "panic"}

\* A document is open within its steps and only there; the command has no exit
\* status before it is over, and succeeds only with no failure recorded.
PlaceInv ==
  /\ pc \in DocumentSteps => currentDoc # 0
  /\ pc \in {"start", "next document"} => currentDoc = 0
  /\ Len(docs) <= args
  /\ exit = "running" <=> pc # "over"
  /\ pc \notin {"start", "over"} => format # "other"
  /\ exit = "ok" => ~Failed /\ format # "other"

\* Validation is the first step; some steps begin only in a document without
\* terminal results; and a check goes on only while it has something to report.
ControlInv ==
  /\ pc = "validate" => docs[currentDoc] = {}
  /\ pc = "run" => docs[currentDoc] = lastStep /\ lastStep \subseteq {"Fatal"}
  /\ pc \in {"hydrate", "check module", "checking"} => ShouldContinue
  /\ pc = "checking" /\ turns > 0 => results # {}

LeftInv == ~preserve /\ left = "some" => pc \in LeftSteps

RunInv == RecorderInv /\ RunTypeOK /\ PlaceInv /\ ControlInv /\ NoNilDereference /\ LeftInv

\* What a step may do outside of DocumentSteps is all that PlaceInv depends on.
LEMMA PlaceStays ==
  ASSUME PlaceInv, pc \in DocumentSteps, pc' \in DocumentSteps, currentDoc' # 0,
         Len(docs') = Len(docs), UNCHANGED <<format, args, exit>>
  PROVE  PlaceInv'
BY DEF PlaceInv, DocumentSteps, Steps

\* The invariant holds in the beginning.
LEMMA InitRun == Init => RunInv
<1> SUFFICES ASSUME Init PROVE RunInv
  OBVIOUS
<1>1. RecorderInv
  BY InitRecorder DEF Init
<1>2. RunTypeOK
  <2>1. parts \in Seq(FragmentTypes) /\ turns \in 0 .. CheckTimeout
    BY TestRunAssumption DEF Init
  <2>2. left \in {"none", "some", "undeleted"}
    BY DEF Init
  <2> QED BY <2>1, <2>2 DEF Init, RunTypeOK, Steps
<1>3. PlaceInv
  <2>1. docs = <<>> /\ currentDoc = 0 /\ args \in Nat
    BY TestRunAssumption DEF Init, RecorderInit
  <2>2. Len(docs) <= args
    BY <2>1
  <2> QED BY <2>1, <2>2 DEF Init, PlaceInv, DocumentSteps
<1>4. ControlInv /\ NoNilDereference
  BY DEF Init, ControlInv, NoNilDereference
<1>5. LeftInv
  BY DEF Init, LeftInv
<1> QED BY <1>1, <1>2, <1>3, <1>4, <1>5 DEF RunInv

\* A step of the command that records nothing and moves within the document.
LEMMA NothingRecorded ==
  ASSUME RunInv, UNCHANGED <<recorderVars, args, exit>>, pc \in DocumentSteps, pc' \in DocumentSteps
  PROVE  RecorderInv' /\ PlaceInv'
<1>1. RecorderInv' /\ docs' = docs /\ currentDoc' = currentDoc /\ format' = format
  BY RecorderRests DEF RunInv
<1>2. currentDoc # 0
  BY DEF RunInv, PlaceInv
<1>3. PlaceInv'
  BY <1>1, <1>2, PlaceStays DEF RunInv
<1> QED BY <1>1, <1>3

\* And one that records the results rs.
LEMMA ResultsRecorded ==
  ASSUME RunInv, NEW rs \in SUBSET Severity, RecordStep(rs), UNCHANGED <<args, exit>>,
         pc \in DocumentSteps, pc' \in DocumentSteps
  PROVE  /\ RecorderInv' /\ PlaceInv'
         /\ docs'[currentDoc'] = docs[currentDoc] \cup rs /\ lastStep' = rs
         /\ ShouldContinue' => ShouldContinue
         /\ rs \cap Terminal # {} => ~ShouldContinue'
<1>1. currentDoc # 0
  BY DEF RunInv, PlaceInv
<1>2. /\ RecorderInv' /\ Len(docs') = Len(docs) /\ currentDoc' = currentDoc
      /\ docs'[currentDoc] = docs[currentDoc] \cup rs
      /\ format' = format /\ lastStep' = rs
      /\ ShouldContinue' => ShouldContinue
      /\ rs \cap Terminal # {} => ~ShouldContinue'
  BY <1>1, StepRecorded DEF RunInv
<1>3. PlaceInv'
  BY <1>1, <1>2, PlaceStays DEF RunInv
<1> QED BY <1>2, <1>3

\* The command begins, or ends at once.
LEMMA StartKeeps == RunInv /\ Start => RunInv'
<1> SUFFICES ASSUME RunInv, Start PROVE RunInv'
  OBVIOUS
<1>1. /\ RecorderInv' /\ docs' = docs /\ currentDoc' = currentDoc /\ format' = format
      /\ lastStep' = lastStep
  BY RecorderRests DEF RunInv, Start
<1>2. pc = "start" /\ pc' \in {"over", "next document"} /\ currentDoc = 0
  BY DEF RunInv, PlaceInv, Start, Goto
<1>3. RunTypeOK'
  BY <1>2 DEF RunInv, RunTypeOK, Start, Steps, checkVars, Goto
<1>4. PlaceInv'
  <2>1. exit' = "running" <=> pc' # "over"
    BY DEF RunInv, PlaceInv, Start, Goto
  <2>2. exit' # "ok" /\ (pc' = "next document" => format # "other") /\ args' = args
    BY DEF RunInv, PlaceInv, Start, Goto
  <2> QED BY <1>1, <1>2, <2>1, <2>2 DEF RunInv, PlaceInv, DocumentSteps
<1>5. ControlInv' /\ NoNilDereference'
  BY <1>2 DEF ControlInv, NoNilDereference
<1>6. LeftInv'
  BY <1>2 DEF RunInv, LeftInv, LeftSteps, Start
<1> QED BY <1>1, <1>3, <1>4, <1>5, <1>6 DEF RunInv

\* A document opens.
LEMMA OpenKeeps == RunInv /\ OpenDocument => RunInv'
<1> SUFFICES ASSUME RunInv, OpenDocument PROVE RunInv'
  OBVIOUS
<1>1. pc = "next document" /\ pc' = "validate" /\ currentDoc = 0 /\ Len(docs) < args /\ args' = args
  BY DEF RunInv, PlaceInv, OpenDocument, Goto
<1>2. /\ RecorderInv' /\ Len(docs') = Len(docs) + 1 /\ currentDoc' # 0
      /\ docs'[currentDoc'] = {} /\ format' = format
  BY <1>1, DocumentOpens DEF RunInv, OpenDocument
<1>3. RunTypeOK'
  BY <1>1 DEF RunInv, RunTypeOK, OpenDocument, Steps, checkVars
<1>4. PlaceInv'
  <2>1. exit' = exit /\ exit = "running" /\ format # "other"
    BY <1>1 DEF RunInv, PlaceInv, OpenDocument
  <2>2. Len(docs') <= args'
    <3>1. args \in Int
      BY DEF RunInv, RunTypeOK
    <3>2. Len(docs) \in Nat
      BY Lengths DEF RunInv
    <3>3. Len(docs') = Len(docs) + 1 /\ Len(docs) < args /\ args' = args
      BY <1>1, <1>2
    <3> QED BY <3>1, <3>2, <3>3
  <2> QED BY <1>1, <1>2, <2>1, <2>2 DEF PlaceInv
<1>5. ControlInv' /\ NoNilDereference'
  BY <1>1, <1>2 DEF ControlInv, NoNilDereference
<1>6. LeftInv'
  BY <1>1 DEF RunInv, LeftInv, LeftSteps, OpenDocument
<1> QED BY <1>2, <1>3, <1>4, <1>5, <1>6 DEF RunInv

\* It is validated.
LEMMA ValidateKeeps == RunInv /\ ValidateDocument => RunInv'
<1> SUFFICES ASSUME RunInv, ValidateDocument PROVE RunInv'
  OBVIOUS
<1>1. pc = "validate" /\ pc' = "run" /\ UNCHANGED <<args, exit>>
  BY DEF ValidateDocument, Goto
<1>2. PICK rs \in {{}, {"Fatal"}} : RecordStep(rs)
  BY DEF ValidateDocument
<1>3. rs \in SUBSET Severity /\ rs \subseteq {"Fatal"}
  BY <1>2 DEF Severity
<1>4. /\ RecorderInv' /\ PlaceInv' /\ lastStep' = rs
      /\ docs'[currentDoc'] = docs[currentDoc] \cup rs
  BY <1>1, <1>2, <1>3, ResultsRecorded DEF DocumentSteps, Steps
<1>5. RunTypeOK'
  <2>1. parts' \in Seq(FragmentTypes)
    BY DEF ValidateDocument, Fragments, RunInv
  <2> QED BY <1>1, <2>1 DEF RunInv, RunTypeOK, ValidateDocument, Steps, checkVars
<1>6. ControlInv' /\ NoNilDereference'
  <2>1. docs[currentDoc] = {}
    BY <1>1 DEF RunInv, ControlInv
  <2>2. docs'[currentDoc'] = lastStep'
    BY <1>4, <2>1
  <2> QED BY <1>1, <1>3, <1>4, <2>2 DEF ControlInv, NoNilDereference
<1>7. LeftInv'
  BY <1>1 DEF RunInv, LeftInv, LeftSteps, ValidateDocument
<1> QED BY <1>4, <1>5, <1>6, <1>7 DEF RunInv

\* test.Run begins, passes over an invalid document or ends the command.
LEMMA StartRunKeeps == RunInv /\ StartRun => RunInv'
<1> SUFFICES ASSUME RunInv, StartRun PROVE RunInv'
  OBVIOUS
<1>1. /\ pc = "run" /\ pc' \in {"close", "compile", "over"}
      /\ UNCHANGED <<recorderVars, args, preserve, left>>
  BY DEF StartRun, Goto
<1>2. RecorderInv' /\ docs' = docs /\ currentDoc' = currentDoc /\ format' = format
  BY <1>1, RecorderRests DEF RunInv
<1>3. PlaceInv'
  <2>1. CASE pc' = "over"
    <3>1. exit' \in {"error", "panic"}
      BY <2>1 DEF StartRun, Goto
    <3> QED BY <1>1, <1>2, <2>1, <3>1 DEF RunInv, PlaceInv, DocumentSteps
  <2>2. CASE pc' # "over"
    <3>1. exit' = exit
      BY <2>2 DEF StartRun, Goto
    <3> QED BY <1>1, <2>2, <3>1, NothingRecorded DEF DocumentSteps, Steps
  <2> QED BY <2>1, <2>2
<1>4. RunTypeOK'
  BY <1>1 DEF RunInv, RunTypeOK, StartRun, Steps, checkVars
<1>5. ControlInv' /\ NoNilDereference'
  BY <1>1 DEF ControlInv, NoNilDereference
<1>6. LeftInv'
  BY <1>1 DEF RunInv, LeftInv, LeftSteps
<1> QED BY <1>2, <1>3, <1>4, <1>5, <1>6 DEF RunInv

\* The checks of the document are compiled.
LEMMA CompileKeeps == RunInv /\ Compile => RunInv'
<1> SUFFICES ASSUME RunInv, Compile PROVE RunInv'
  OBVIOUS
<1>1. pc = "compile" /\ pc' = "next fragment" /\ UNCHANGED <<args, exit>>
  BY DEF Compile, Goto
<1>2. PICK rs \in {{}, {"Fatal"}} : RecordStep(rs)
  BY DEF Compile
<1>3. rs \in SUBSET Severity
  BY <1>2 DEF Severity
<1>4. RecorderInv' /\ PlaceInv'
  BY <1>1, <1>2, <1>3, ResultsRecorded DEF DocumentSteps, Steps
<1>5. RunTypeOK'
  BY <1>1 DEF RunInv, RunTypeOK, Compile, Steps, checkVars
<1>6. ControlInv' /\ NoNilDereference' /\ LeftInv'
  BY <1>1 DEF ControlInv, NoNilDereference, LeftInv, LeftSteps
<1> QED BY <1>4, <1>5, <1>6 DEF RunInv

\* The next fragment is taken, if the document is to go on.
LEMMA NextFragmentKeeps == RunInv /\ NextFragment => RunInv'
<1> SUFFICES ASSUME RunInv, NextFragment PROVE RunInv'
  OBVIOUS
<1>1. pc = "next fragment" /\ UNCHANGED <<recorderVars, args, exit>>
  BY DEF NextFragment
<1>2. parts \in Seq(FragmentTypes) /\ (parts # <<>> => Head(parts) \in FragmentTypes)
  BY DEF RunInv, RunTypeOK
<1>3. /\ pc' \in {"clean up", "hydrate", "check module", "next fragment"}
      /\ pc' # "clean up" => ShouldContinue
      /\ parts' \in Seq(FragmentTypes)
  <2>1. CASE parts # <<>> /\ ShouldContinue /\ pc' = FirstStep[Head(parts)] /\ parts' = Tail(parts)
    <3>0. \A t \in FragmentTypes : FirstStep[t] \in {"hydrate", "check module", "next fragment"}
      <4>1. FirstStep["object"] = "hydrate"
        BY DEF FirstStep
      <4>2. FirstStep["module"] = "check module"
        BY DEF FirstStep
      <4>3. FirstStep["unknown"] = "next fragment"
        BY DEF FirstStep
      <4> QED BY <4>1, <4>2, <4>3 DEF FragmentTypes
    <3>1. FirstStep[Head(parts)] \in {"hydrate", "check module", "next fragment"}
      BY <1>2, <2>1, <3>0
    <3>2. parts' \in Seq(FragmentTypes)
      BY <1>2, <2>1
    <3> QED BY <2>1, <3>1, <3>2
  <2>2. CASE pc' = "clean up" /\ parts' = parts
    BY <1>2, <2>2
  <2> QED BY <2>1, <2>2 DEF NextFragment, Goto
<1>4. RecorderInv' /\ PlaceInv'
  BY <1>1, <1>3, NothingRecorded DEF DocumentSteps, Steps
<1>5. RunTypeOK'
  BY <1>3 DEF RunInv, RunTypeOK, NextFragment, Steps, checkVars
<1>6. ShouldContinue' <=> ShouldContinue
  BY <1>1, RecorderRests DEF RunInv
<1>7. ControlInv' /\ NoNilDereference' /\ LeftInv'
  BY <1>3, <1>6 DEF ControlInv, NoNilDereference, LeftInv, LeftSteps
<1> QED BY <1>4, <1>5, <1>7 DEF RunInv

\* An object is hydrated, or the document is at its end.
LEMMA HydrateKeeps == RunInv /\ Hydrate => RunInv'
<1> SUFFICES ASSUME RunInv, Hydrate PROVE RunInv'
  OBVIOUS
<1>1. pc = "hydrate" /\ pc' = "match" /\ UNCHANGED <<args, exit>>
  BY DEF Hydrate, Goto
<1>2. PICK rs \in {{}, {"Fatal"}} :
        RecordStep(rs) /\ (IF rs = {} THEN obj' \in {"named", "anonymous"} ELSE obj' = obj)
  BY DEF Hydrate
<1>3. rs \in SUBSET Severity
  BY <1>2 DEF Severity
<1>4. RecorderInv' /\ PlaceInv' /\ (rs \cap Terminal # {} => ~ShouldContinue')
  BY <1>1, <1>2, <1>3, ResultsRecorded DEF DocumentSteps, Steps
<1>5. RunTypeOK'
  BY <1>1, <1>2 DEF RunInv, RunTypeOK, Hydrate, Steps, checkVars
<1>6. rs # {} => ~ShouldContinue'
  BY <1>2, <1>4 DEF Terminal
<1>7. ControlInv' /\ NoNilDereference' /\ LeftInv'
  BY <1>1, <1>2, <1>6 DEF ControlInv, NoNilDereference, LeftInv, LeftSteps
<1> QED BY <1>4, <1>5, <1>7 DEF RunInv

\* An anonymous object is matched.
LEMMA MatchKeeps == RunInv /\ Match => RunInv'
<1> SUFFICES ASSUME RunInv, Match PROVE RunInv'
  OBVIOUS
<1>1. pc = "match" /\ pc' = "update" /\ UNCHANGED <<args, exit>>
  BY DEF Match, Skipping, Goto
<1>2. PICK rs \in {{}, {"Fatal"}} :
        /\ RecordStep(rs)
        /\ obj' \in {obj, "named"}
        /\ obj' = "named" \/ rs = {"Fatal"} \/ ~ShouldContinue
  BY DEF Match, Skipping
<1>3. rs \in SUBSET Severity
  BY <1>2 DEF Severity
<1>4. /\ RecorderInv' /\ PlaceInv' /\ (ShouldContinue' => ShouldContinue)
      /\ rs \cap Terminal # {} => ~ShouldContinue'
  BY <1>1, <1>2, <1>3, ResultsRecorded DEF DocumentSteps, Steps
<1>5. RunTypeOK'
  BY <1>1, <1>2 DEF RunInv, RunTypeOK, Match, Steps, checkVars
<1>6. ShouldContinue' => obj' = "named"
  BY <1>2, <1>4 DEF Terminal
<1>7. ControlInv' /\ NoNilDereference' /\ LeftInv'
  BY <1>1, <1>6 DEF ControlInv, NoNilDereference, LeftInv, LeftSteps
<1> QED BY <1>4, <1>5, <1>7 DEF RunInv

\* The object is sent to the cluster.
LEMMA UpdateKeeps == RunInv /\ Update => RunInv'
<1> SUFFICES ASSUME RunInv, Update PROVE RunInv'
  OBVIOUS
<1>1. pc = "update" /\ pc' = "check object" /\ obj' = obj /\ UNCHANGED <<args, exit>>
  BY DEF Update, Skipping, Goto
<1>2. PICK rs \in {{}, {"Fatal"}} :
        /\ RecordStep(rs)
        /\ opResult' \in {opResult, "nil", "result"}
        /\ opResult' = "result" \/ rs = {"Fatal"} \/ ~ShouldContinue
  BY DEF Update, Skipping
<1>3. rs \in SUBSET Severity
  BY <1>2 DEF Severity
<1>4. /\ RecorderInv' /\ PlaceInv' /\ (ShouldContinue' => ShouldContinue)
      /\ rs \cap Terminal # {} => ~ShouldContinue'
  BY <1>1, <1>2, <1>3, ResultsRecorded DEF DocumentSteps, Steps
<1>5. RunTypeOK'
  <2>1. left' \in {"none", "some", "undeleted"}
    BY DEF Update, RunInv, RunTypeOK
  <2> QED BY <1>1, <1>2, <2>1 DEF RunInv, RunTypeOK, Update, Steps, checkVars
<1>6. ShouldContinue' => opResult' = "result" /\ obj' = "named"
  BY <1>1, <1>2, <1>4 DEF Terminal, RunInv, NoNilDereference
<1>7. ControlInv' /\ NoNilDereference' /\ LeftInv'
  BY <1>1, <1>6 DEF ControlInv, NoNilDereference, LeftInv, LeftSteps
<1> QED BY <1>4, <1>5, <1>7 DEF RunInv

\* The severity of a rule is one of the three.
LEMMA StemSeverity == \A stem \in {"error", "fatal", "skip"} : Stems[stem] \in Severity
<1>1. Stems["error"] = "Error"
  BY DEF Stems
<1>2. Stems["fatal"] = "Fatal"
  BY DEF Stems
<1>3. Stems["skip"] = "Skip"
  BY DEF Stems
<1> QED BY <1>1, <1>2, <1>3 DEF Severity

\* The stems are the three names.
LEMMA StemsDomain == DOMAIN Stems = {"error", "fatal", "skip"}
BY DEF Stems

\* The default checks are modules like others.
LEMMA DefaultChecks == \A m \in Range(DefaultObjectCheckForOperation) : m \subseteq RuleName
<1>1. ruleNamed("fatal", "_") \in RuleName /\ ruleNamed("fatal", "") \in RuleName
  BY StemsDomain DEF ruleNamed, RuleName
<1>2. ruleNamed("other", "more") \in RuleName
  BY DEF ruleNamed, RuleName
<1>3. DefaultObjectCheckForOperation["update"] \subseteq RuleName
  BY <1>1, <1>2 DEF DefaultObjectCheckForOperation
<1>4. DefaultObjectCheckForOperation["delete"] \subseteq RuleName
  BY <1>1 DEF DefaultObjectCheckForOperation
<1>5. DOMAIN DefaultObjectCheckForOperation = {"update", "delete"}
  BY DEF DefaultObjectCheckForOperation
<1> QED BY <1>3, <1>4, <1>5 DEF Range

\* The results of an evaluation are severities; and a rule with a severity
\* that has a value gives one.
LEMMA Evaluated ==
  ASSUME NEW m \in SUBSET RuleName, NEW answers \in Evaluations(m)
  PROVE  /\ EvalResults(m, answers) \subseteq Severity
         /\ \A n \in m : answers[n] = "value" /\ matchRuleByName(n) => EvalResults(m, answers) # {}
<1>1. ASSUME NEW n \in findAssertionRules(m)
      PROVE  severityForRuleName(n) \in Severity
  <2>1. n \in RuleName /\ n.stem # "other"
    BY DEF findAssertionRules, matchRuleByName
  <2>2. n.stem \in {"error", "fatal", "skip"}
    BY <2>1, StemsDomain DEF RuleName
  <2> QED BY <2>2, StemSeverity DEF severityForRuleName
<1>2. ASSUME NEW n \in findAssertionRules(m)
      PROVE  extractResult(n, answers[n]) \subseteq Severity
  BY <1>1 DEF extractResult, Severity
<1>3. ASSUME NEW n \in m, answers[n] = "value", matchRuleByName(n)
      PROVE  EvalResults(m, answers) # {}
  <2>1. n \in findAssertionRules(m)
    BY <1>3 DEF findAssertionRules
  <2>2. severityForRuleName(n) \in extractResult(n, answers[n])
    BY <1>3 DEF extractResult
  <2> QED BY <2>1, <2>2 DEF EvalResults
<1> QED BY <1>2, <1>3 DEF EvalResults

\* A check begins, or is skipped.
LEMMA StartCheckKeeps == RunInv /\ StartCheck => RunInv'
<1> SUFFICES ASSUME RunInv, StartCheck PROVE RunInv'
  OBVIOUS
<1>1. /\ pc \in {"check object", "check module"}
      /\ UNCHANGED <<args, exit>>
  BY DEF StartCheck
<1>2. CASE pc' = "next fragment" /\ RecordStep({}) /\ UNCHANGED checkVars
  <2>1. RecorderInv' /\ PlaceInv'
    BY <1>1, <1>2, ResultsRecorded DEF DocumentSteps, Steps
  <2>2. RunTypeOK'
    BY <1>2 DEF RunInv, RunTypeOK, StartCheck, Steps, checkVars
  <2>3. ControlInv' /\ NoNilDereference' /\ LeftInv'
    BY <1>2 DEF ControlInv, NoNilDereference, LeftInv, LeftSteps
  <2> QED BY <2>1, <2>2, <2>3 DEF RunInv
<1>3. CASE /\ pc' = "checking" /\ UNCHANGED recorderVars
           /\ check' \in Modules \cup Range(DefaultObjectCheckForOperation)
           /\ turns' = 0 /\ results' = {} /\ raised' = {}
           /\ ShouldContinue
  <2>1. RecorderInv' /\ PlaceInv'
    BY <1>1, <1>3, NothingRecorded DEF DocumentSteps, Steps
  <2>2. check' \subseteq RuleName
    BY <1>3, DefaultChecks, TestRunAssumption
  <2>3. turns' \in 0 .. CheckTimeout
    BY <1>3, TestRunAssumption
  <2>4. RunTypeOK'
    BY <1>3, <2>2, <2>3 DEF RunInv, RunTypeOK, StartCheck, Steps
  <2>5. ShouldContinue'
    BY <1>3, RecorderRests DEF RunInv
  <2>6. ControlInv' /\ NoNilDereference' /\ LeftInv'
    BY <1>3, <2>5 DEF ControlInv, NoNilDereference, LeftInv, LeftSteps
  <2> QED BY <2>1, <2>4, <2>6 DEF RunInv
<1>4. pc = "check module" => ShouldContinue
  BY DEF RunInv, ControlInv
<1> QED BY <1>2, <1>3, <1>4 DEF StartCheck, Skipping, Goto

\* A check ends in the course of a step.
LEMMA CheckEnds ==
  ASSUME RunInv, pc = "checking", pc' = "next fragment", NEW rs \in SUBSET Severity, RecordStep(rs),
         UNCHANGED <<args, exit>>
  PROVE  RecorderInv' /\ PlaceInv' /\ ControlInv' /\ NoNilDereference' /\ LeftInv'
<1>1. RecorderInv' /\ PlaceInv'
  BY ResultsRecorded DEF DocumentSteps, Steps
<1>2. ControlInv' /\ NoNilDereference' /\ LeftInv'
  BY DEF ControlInv, NoNilDereference, LeftInv, LeftSteps
<1> QED BY <1>1, <1>2

\* A check is evaluated.
LEMMA EvaluateKeeps == RunInv /\ Evaluate => RunInv'
<1> SUFFICES ASSUME RunInv, Evaluate PROVE RunInv'
  OBVIOUS
<1>1. /\ pc = "checking" /\ turns < CheckTimeout /\ turns' = turns + 1
      /\ UNCHANGED <<args, preserve, parts, obj, opResult, check, left, exit>>
  BY DEF Evaluate, Checking, CheckUnchanged
<1>2. PICK answers \in Evaluations(check) :
        /\ results' = EvalResults(check, answers)
        /\ raised' = {n \in check : answers[n] = "value"}
  BY DEF Evaluate, Evaluation
<1>3. check \in SUBSET RuleName
  BY DEF RunInv, RunTypeOK
<1>4. results' \in SUBSET Severity
  BY <1>2, <1>3, Evaluated
<1>5. pc' \in Steps => RunTypeOK'
  <2>1. turns' \in 0 .. CheckTimeout
    BY <1>1, TestRunAssumption DEF RunInv, RunTypeOK
  <2>2. raised' \subseteq check'
    BY <1>1, <1>2
  <2> QED BY <1>1, <1>4, <2>1, <2>2 DEF RunInv, RunTypeOK
<1>6. CASE EndsCheck(results')
  <2>1. RecordStep(results') /\ pc' = "next fragment"
    BY <1>6 DEF Evaluate, Goto
  <2>2. RecorderInv' /\ PlaceInv' /\ ControlInv' /\ NoNilDereference' /\ LeftInv'
    BY <1>1, <1>4, <2>1, CheckEnds
  <2> QED BY <1>5, <2>1, <2>2 DEF RunInv, Steps
<1>7. CASE ~EndsCheck(results')
  <2>1. UNCHANGED recorderVars /\ pc' = "checking" /\ results' # {}
    BY <1>1, <1>7 DEF Evaluate, EndsCheck
  <2>2. RecorderInv' /\ PlaceInv'
    BY <1>1, <2>1, NothingRecorded DEF DocumentSteps, Steps
  <2>3. ShouldContinue'
    BY <1>1, <2>1, RecorderRests DEF RunInv, ControlInv
  <2>4. ControlInv' /\ NoNilDereference' /\ LeftInv'
    BY <2>1, <2>3 DEF ControlInv, NoNilDereference, LeftInv, LeftSteps
  <2> QED BY <1>5, <2>1, <2>2, <2>4 DEF RunInv, Steps
<1> QED BY <1>6, <1>7

\* A check is in error.
LEMMA EvaluateFailsKeeps == RunInv /\ EvaluateFails => RunInv'
<1> SUFFICES ASSUME RunInv, EvaluateFails PROVE RunInv'
  OBVIOUS
<1>1. /\ pc = "checking" /\ turns < CheckTimeout /\ turns' = turns + 1
      /\ pc' = "next fragment" /\ RecordStep({"Fatal"})
      /\ UNCHANGED <<args, preserve, parts, obj, opResult, check, left, exit, results, raised>>
  BY DEF EvaluateFails, Checking, CheckUnchanged, Goto
<1>2. {"Fatal"} \in SUBSET Severity
  BY DEF Severity
<1>3. turns' \in 0 .. CheckTimeout
  <2>1. turns \in 0 .. CheckTimeout /\ CheckTimeout \in Nat
    BY TestRunAssumption DEF RunInv, RunTypeOK
  <2>2. turns < CheckTimeout /\ turns' = turns + 1
    BY <1>1
  <2> QED BY <2>1, <2>2
<1>4. RunTypeOK'
  BY <1>1, <1>3 DEF RunInv, RunTypeOK, Steps
<1> QED BY <1>1, <1>2, <1>4, CheckEnds DEF RunInv

\* A check is given up.
LEMMA CheckTimesOutKeeps == RunInv /\ CheckTimesOut => RunInv'
<1> SUFFICES ASSUME RunInv, CheckTimesOut PROVE RunInv'
  OBVIOUS
<1>1. /\ pc = "checking" /\ pc' = "next fragment" /\ RecordStep(results)
      /\ UNCHANGED <<args, preserve, parts, obj, opResult, check, left, exit, turns, results, raised>>
  BY DEF CheckTimesOut, CheckUnchanged, Goto
<1>2. results \in SUBSET Severity
  BY DEF RunInv, RunTypeOK
<1>3. RunTypeOK'
  BY <1>1 DEF RunInv, RunTypeOK, Steps
<1> QED BY <1>1, <1>2, <1>3, CheckEnds DEF RunInv

\* The objects are deleted, or are to stay.
LEMMA CleanUpKeeps == RunInv /\ CleanUp => RunInv'
<1> SUFFICES ASSUME RunInv, CleanUp PROVE RunInv'
  OBVIOUS
<1>1. /\ pc = "clean up" /\ pc' \in {"close", "over"}
      /\ UNCHANGED <<recorderVars, args, preserve>>
  BY DEF CleanUp, Goto
<1>2. RecorderInv' /\ docs' = docs /\ currentDoc' = currentDoc /\ format' = format
  BY <1>1, RecorderRests DEF RunInv
<1>3. PlaceInv'
  <2>1. CASE pc' = "over"
    <3>1. exit' = "panic"
      BY <2>1 DEF CleanUp, Goto
    <3> QED BY <1>1, <1>2, <2>1, <3>1 DEF RunInv, PlaceInv, DocumentSteps
  <2>2. CASE pc' = "close"
    <3>1. exit' = exit
      BY <2>2 DEF CleanUp, Goto
    <3> QED BY <1>1, <2>2, <3>1, NothingRecorded DEF DocumentSteps, Steps
  <2> QED BY <1>1, <2>1, <2>2
<1>4. RunTypeOK'
  <2>1. left' \in {"none", "some", "undeleted"}
    BY DEF CleanUp, RunInv, RunTypeOK
  <2>2. exit' \in {"running", "ok", "failed", "usage", "error", "panic"}
    BY DEF CleanUp, RunInv, RunTypeOK
  <2> QED BY <1>1, <2>1, <2>2 DEF RunInv, RunTypeOK, CleanUp, Steps, checkVars
<1>5. ControlInv' /\ NoNilDereference'
  BY <1>1 DEF ControlInv, NoNilDereference
<1>6. LeftInv'
  <2>1. preserve' \/ left' # "some"
    BY DEF CleanUp
  <2> QED BY <2>1 DEF LeftInv
<1> QED BY <1>2, <1>3, <1>4, <1>5, <1>6 DEF RunInv

\* The document is closed.
LEMMA CloseKeeps == RunInv /\ CloseDoc => RunInv'
<1> SUFFICES ASSUME RunInv, CloseDoc PROVE RunInv'
  OBVIOUS
<1>1. /\ pc = "close" /\ pc' = "next document"
      /\ UNCHANGED <<args, preserve, parts, obj, opResult, checkVars, left, exit>>
  BY DEF CloseDoc, Goto
<1>2. currentDoc # 0 /\ format # "other" /\ exit = "running"
  BY <1>1 DEF RunInv, PlaceInv, DocumentSteps, Steps
<1>3. RecorderInv' /\ docs' = docs /\ currentDoc' = 0 /\ format' = format
  BY <1>2, DocumentCloses DEF RunInv, CloseDoc
<1>4. PlaceInv'
  BY <1>1, <1>2, <1>3 DEF RunInv, PlaceInv, DocumentSteps
<1>5. RunTypeOK'
  BY <1>1 DEF RunInv, RunTypeOK, Steps, checkVars
<1>6. ControlInv' /\ NoNilDereference'
  BY <1>1 DEF ControlInv, NoNilDereference
<1>7. LeftInv'
  BY <1>1 DEF RunInv, LeftInv, LeftSteps
<1> QED BY <1>3, <1>4, <1>5, <1>6, <1>7 DEF RunInv

\* The command comes to its end.
LEMMA FinishKeeps == RunInv /\ Finish => RunInv'
<1> SUFFICES ASSUME RunInv, Finish PROVE RunInv'
  OBVIOUS
<1>1. /\ pc = "next document" /\ pc' = "over"
      /\ exit' = IF Failed THEN "failed" ELSE "ok"
      /\ UNCHANGED <<recorderVars, args, preserve, parts, obj, opResult, checkVars, left>>
  BY DEF Finish, Goto
<1>2. /\ RecorderInv' /\ docs' = docs /\ currentDoc' = currentDoc /\ format' = format
      /\ Failed' <=> Failed
  BY <1>1, RecorderRests DEF RunInv
<1>3. PlaceInv'
  BY <1>1, <1>2 DEF RunInv, PlaceInv, DocumentSteps
<1>4. RunTypeOK'
  BY <1>1 DEF RunInv, RunTypeOK, Steps, checkVars
<1>5. ControlInv' /\ NoNilDereference'
  BY <1>1 DEF ControlInv, NoNilDereference
<1>6. LeftInv'
  BY <1>1 DEF RunInv, LeftInv, LeftSteps
<1> QED BY <1>2, <1>3, <1>4, <1>5, <1>6 DEF RunInv

\* A step in which nothing happens.
LEMMA RestKeeps == RunInv /\ UNCHANGED vars => RunInv'
<1> SUFFICES ASSUME RunInv, UNCHANGED vars PROVE RunInv'
  OBVIOUS
<1>1. UNCHANGED <<recorderVars, args, preserve, pc, parts, obj, opResult, check, turns, results, raised,
                  left, exit>>
  BY DEF vars, runVars, checkVars
<1>2. /\ RecorderInv' /\ docs' = docs /\ currentDoc' = currentDoc /\ format' = format
      /\ lastStep' = lastStep
      /\ (Failed' <=> Failed) /\ (ShouldContinue' <=> ShouldContinue)
  BY <1>1, RecorderRests DEF RunInv
<1>3. RunTypeOK'
  BY <1>1 DEF RunInv, RunTypeOK
<1>4. PlaceInv'
  BY <1>1, <1>2 DEF RunInv, PlaceInv
<1>5. ControlInv' /\ NoNilDereference'
  BY <1>1, <1>2 DEF RunInv, ControlInv, NoNilDereference
<1>6. LeftInv'
  BY <1>1 DEF RunInv, LeftInv
<1> QED BY <1>2, <1>3, <1>4, <1>5, <1>6 DEF RunInv

\* The invariant holds after every step.
LEMMA NextKeeps == RunInv /\ [Next]_vars => RunInv'
<1> SUFFICES ASSUME RunInv, [Next]_vars PROVE RunInv'
  OBVIOUS
<1>1. Next => RunInv'
  BY StartKeeps, OpenKeeps, ValidateKeeps, StartRunKeeps, CompileKeeps, NextFragmentKeeps, HydrateKeeps,
     MatchKeeps, UpdateKeeps, StartCheckKeeps, EvaluateKeeps, EvaluateFailsKeeps, CheckTimesOutKeeps,
     CleanUpKeeps, CloseKeeps, FinishKeeps, RestKeeps
     DEF Next, Fragment, Over
<1> QED BY <1>1, RestKeeps

\* So it always holds.
LEMMA Invariant == Spec => []RunInv
BY InitRun, NextKeeps, PTL DEF Spec

------------------------------------------------------------------------------
(***************************************************************************)
(* What follows from the invariant.                                        *)
(***************************************************************************)
\* Every variable of the command and of its recorder keeps its type.
THEOREM TypeCorrect == Spec => []TypeOK
<1>1. RunInv => TypeOK
  BY DEF RunInv, RecorderInv, RunTypeOK, TypeOK
<1> QED BY <1>1, Invariant, PTL

\* No step's body that runs finds its object or its result nil.
THEOREM StepsHaveObjects == Spec => []NoNilDereference
<1>1. RunInv => NoNilDereference
  BY DEF RunInv
<1> QED BY <1>1, Invariant, PTL

\* What DeleteAll came to an error for is left by a command that has panicked.
PanicInv == left = "undeleted" => pc = "over" /\ exit = "panic"

\* Only CleanUp leaves objects that way, and it is then the last step.
LEMMA PanicStep ==
  ASSUME PanicInv, [Next]_vars
  PROVE  PanicInv'
<1>1. CASE pc = "over"
  <2>1. UNCHANGED vars
    BY <1>1 DEF Next, Start, OpenDocument, ValidateDocument, StartRun, Compile, NextFragment,
       Fragment, Hydrate, Match, Update, StartCheck, Evaluate, EvaluateFails, Checking,
       CheckTimesOut, CleanUp, CloseDoc, Finish, Over
  <2> QED BY <2>1 DEF PanicInv, vars, runVars
<1>2. CASE pc # "over" /\ CleanUp
  BY <1>2 DEF PanicInv, CleanUp, Goto
<1>3. CASE pc # "over" /\ ~CleanUp
  <2>1. left' = left \/ left' = "some"
    BY <1>3 DEF Next, Start, OpenDocument, ValidateDocument, StartRun, Compile, NextFragment,
       Fragment, Hydrate, Match, Update, StartCheck, Evaluate, EvaluateFails, CheckUnchanged,
       CheckTimesOut, CloseDoc, Finish, Over, vars, runVars
  <2> QED BY <1>3, <2>1 DEF PanicInv
<1> QED BY <1>1, <1>2, <1>3

\* When a document is closed or the command over, nothing of it is left in the
\* cluster but what DeleteAll came to an error for, and then the command has
\* panicked there and then (runner.go:384).
THEOREM ClusterCleaned == Spec => []CleanedUp
<1>1. Init => PanicInv
  BY DEF Init, PanicInv
<1>2. PanicInv /\ [Next]_vars => PanicInv'
  BY PanicStep
<1>3. RunInv /\ PanicInv => CleanedUp
  <2> SUFFICES ASSUME RunInv, PanicInv, ~preserve, currentDoc = 0 \/ pc = "over"
               PROVE  left = "none" \/ (left = "undeleted" /\ exit = "panic")
    BY DEF CleanedUp
  <2>1. pc \notin LeftSteps
    BY DEF RunInv, PlaceInv, LeftSteps, DocumentSteps, Steps
  <2>2. left \in {"none", "some", "undeleted"}
    BY DEF RunInv, RunTypeOK
  <2> QED BY <2>1, <2>2 DEF RunInv, LeftInv, PanicInv
<1> QED BY <1>1, <1>2, <1>3, Invariant, PTL DEF Spec

\* TreeWriter prints of a document what was recorded of it.
THEOREM TreeWriterAgrees == Spec => []TreeAgrees
<1>1. RunInv => TreeAgrees
  BY DEF RunInv, RecorderInv, TreeInv, TreeAgrees
<1> QED BY <1>1, Invariant, PTL

\* TapWriter has a step that is not ok in the documents with a failure.
THEOREM TapWriterAgrees == Spec => []TapAgrees
<1>1. RunInv => TapAgrees
  BY DEF RunInv, RecorderInv, TapInv, TapAgrees
<1> QED BY <1>1, Invariant, PTL

\* A command that succeeds has printed no document as failed.
THEOREM FailuresCount == Spec => []NoFailureLost
<1>1. RunInv => NoFailureLost
  <2> SUFFICES ASSUME RunInv, exit = "ok", NEW d \in 1 .. Len(verdicts), verdicts[d] = "failed"
               PROVE  FALSE
    BY DEF NoFailureLost
  <2>1. d \in 1 .. Len(docs)
    BY Lengths DEF RunInv
  <2>2. ~Has(docs[d], Failing)
    BY <2>1 DEF RunInv, PlaceInv, Failed
  <2>3. format \in {"tree", "tap"}
    BY DEF RunInv, PlaceInv, RecorderInv, RecorderTypeOK
  <2>4. CASE format = "tree"
    BY <2>2, <2>4 DEF RunInv, RecorderInv, TreeInv, TreeVerdict
  <2>5. CASE format = "tap"
    BY <2>2, <2>5 DEF RunInv, RecorderInv, TapInv
  <2> QED BY <2>3, <2>4, <2>5
<1> QED BY <1>1, Invariant, PTL

------------------------------------------------------------------------------
(***************************************************************************)
(* What no step does.                                                      *)
(***************************************************************************)
\* A document that is to go on has no terminal result.
LEMMA GoesOn ==
  ASSUME RunInv, pc \in DocumentSteps, ShouldContinue
  PROVE  ~Has(docs[currentDoc], Terminal)
BY DEF RunInv, PlaceInv, ShouldContinue

\* After a terminal result no object is hydrated or matched, no operation has a
\* result and no check is evaluated.
THEOREM StopsAtTerminal == Spec => NothingAfterTerminal
<1>1. ASSUME RunInv, [Next]_vars
      PROVE  [pc' = "checking" \/ obj' \notin {obj, "nil"} \/ opResult' \notin {opResult, "nil"}
              => ~Has(docs[currentDoc], Terminal)]_vars
  <2> SUFFICES ASSUME Next,
                      pc' = "checking" \/ obj' \notin {obj, "nil"} \/ opResult' \notin {opResult, "nil"}
               PROVE  (pc \in DocumentSteps /\ ShouldContinue) \/ vars' = vars
    BY <1>1, GoesOn
  <2>1. pc \in {"hydrate", "check module", "checking"} => pc \in DocumentSteps /\ ShouldContinue
    BY <1>1 DEF RunInv, ControlInv, DocumentSteps, Steps
  <2>2. pc \in {"match", "update", "check object"} => pc \in DocumentSteps
    BY DEF DocumentSteps, Steps
  <2>3. CASE Start \/ OpenDocument \/ ValidateDocument \/ StartRun \/ Compile \/ CleanUp \/ CloseDoc \/ Finish
    BY <2>3 DEF Start, OpenDocument, ValidateDocument, StartRun, Compile, CleanUp, CloseDoc, Finish, Goto
  <2>4. CASE NextFragment
    <3>1. pc' # "checking"
      <4>1. parts # <<>> => Head(parts) \in FragmentTypes
        BY <1>1 DEF RunInv, RunTypeOK
      <4>2. FirstStep["object"] = "hydrate"
        BY DEF FirstStep
      <4>3. FirstStep["module"] = "check module"
        BY DEF FirstStep
      <4>4. FirstStep["unknown"] = "next fragment"
        BY DEF FirstStep
      <4>5. \A t \in FragmentTypes : FirstStep[t] # "checking"
        BY <4>2, <4>3, <4>4 DEF FragmentTypes
      <4> QED BY <2>4, <4>1, <4>5 DEF NextFragment, Goto
    <3> QED BY <2>4, <3>1 DEF NextFragment
  <2>5. CASE Hydrate
    BY <2>1, <2>5 DEF Hydrate
  <2>6. CASE Match
    BY <2>2, <2>6 DEF Match, Skipping, Goto
  <2>7. CASE Update
    BY <2>2, <2>7 DEF Update, Skipping, Goto
  <2>8. CASE StartCheck
    BY <2>1, <2>2, <2>8 DEF StartCheck, Skipping, Goto
  <2>9. CASE Evaluate \/ EvaluateFails \/ CheckTimesOut
    BY <2>1, <2>9 DEF Evaluate, EvaluateFails, CheckTimesOut, Checking
  <2>10. CASE Over
    BY <2>10 DEF Over
  <2> QED BY <2>3, <2>4, <2>5, <2>6, <2>7, <2>8, <2>9, <2>10 DEF Next, Fragment
<1> QED BY <1>1, Invariant, PTL DEF NothingAfterTerminal, Spec

\* Only a document with an error of its own is passed over.
THEOREM OwnErrorsOnly == Spec => DocumentsIndependent
<1>1. ASSUME RunInv, [Next]_vars
      PROVE  [pc = "run" /\ pc' = "close" => "Fatal" \in lastStep]_vars
  <2> SUFFICES ASSUME Next, pc = "run", pc' = "close" PROVE "Fatal" \in lastStep
    BY <1>1
  <2>1. StartRun
    BY DEF Next, Fragment, Start, OpenDocument, ValidateDocument, Compile, NextFragment, Hydrate, Match,
           Update, StartCheck, Skipping, Evaluate, EvaluateFails, CheckTimesOut, Checking, CleanUp,
           CloseDoc, Finish, Over
  <2>2. ~ShouldContinue
    BY <2>1 DEF StartRun, Goto
  <2>3. currentDoc # 0 /\ docs[currentDoc] = lastStep /\ lastStep \subseteq {"Fatal"}
    BY <1>1 DEF RunInv, PlaceInv, ControlInv, DocumentSteps, Steps
  <2> QED BY <2>2, <2>3 DEF ShouldContinue, Has, Terminal
<1> QED BY <1>1, Invariant, PTL DEF DocumentsIndependent, Spec

\* Given time for one evaluation at least, a check passes only when its module
\* was evaluated and the last evaluation raised no rule with a severity.
THEOREM PassesEvaluated == ASSUME CheckTimeout > 0 PROVE Spec => PassMeansEvaluated
<1>1. ASSUME RunInv, [Next]_vars
      PROVE  [pc = "checking" /\ pc' # "checking" /\ lastStep' = {}
              => turns' > 0 /\ ~\E n \in raised' : n.stem # "other" /\ n.rest \in {"", "_"}]_vars
  <2> SUFFICES ASSUME Next, pc = "checking", pc' # "checking", lastStep' = {}
               PROVE  turns' > 0 /\ ~\E n \in raised' : n.stem # "other" /\ n.rest \in {"", "_"}
    BY <1>1
  <2>1. Evaluate \/ EvaluateFails \/ CheckTimesOut
    BY DEF Next, Fragment, Start, OpenDocument, ValidateDocument, StartRun, Compile, NextFragment, Hydrate,
           Match, Update, StartCheck, CleanUp, CloseDoc, Finish, Over
  <2>2. ~EvaluateFails
    BY DEF EvaluateFails, RecordStep
  <2>3. turns \in Nat /\ check \in SUBSET RuleName
    BY <1>1, TestRunAssumption DEF RunInv, RunTypeOK
  <2>4. ~CheckTimesOut
    <3> SUFFICES ASSUME CheckTimesOut PROVE FALSE
      OBVIOUS
    <3>1. results = {}
      BY DEF CheckTimesOut, RecordStep
    <3>2. turns > 0
      <4>1. turns > 0 \/ CheckTimeout = 0
        BY DEF CheckTimesOut
      <4>2. CheckTimeout # 0
        BY TestRunAssumption
      <4> QED BY <4>1, <4>2
    <3> QED BY <1>1, <3>1, <3>2 DEF RunInv, ControlInv
  <2>5. turns' > 0 /\ results' = {}
    <3>1. turns' = turns + 1 /\ (EndsCheck(results') => RecordStep(results'))
      BY <2>1, <2>2, <2>4 DEF Evaluate
    <3>2. EndsCheck(results')
      BY <2>1, <2>2, <2>4 DEF Evaluate
    <3>3. lastStep' = results'
      BY <3>1, <3>2 DEF RecordStep
    <3> QED BY <2>3, <3>1, <3>3
  <2>6. PICK answers \in Evaluations(check) :
          /\ results' = EvalResults(check, answers)
          /\ raised' = {n \in check : answers[n] = "value"}
    BY <2>1, <2>2, <2>4 DEF Evaluate, Evaluation
  <2>7. ASSUME NEW n \in raised', n.stem # "other", n.rest \in {"", "_"} PROVE FALSE
    <3>1. n \in check /\ answers[n] = "value" /\ matchRuleByName(n)
      BY <2>6, <2>7 DEF matchRuleByName
    <3> QED BY <2>3, <2>5, <2>6, <3>1, Evaluated
  <2> QED BY <2>5, <2>7
<1> QED BY <1>1, Invariant, PTL DEF PassMeansEvaluated, Spec

------------------------------------------------------------------------------
(***************************************************************************)
(* The command implements Suite: a document comes to what is recorded of   *)
(* it when it is closed.                                                   *)
(***************************************************************************)
Outcomes == SubSeq(docs, 1, Len(verdicts))

\* What the front of a sequence is.
LEMMA Front ==
  ASSUME NEW S, NEW s \in Seq(S), NEW n \in Nat, n <= Len(s)
  PROVE  /\ SubSeq(s, 1, n) \in Seq(S) /\ Len(SubSeq(s, 1, n)) = n
         /\ \A d \in 1 .. n : SubSeq(s, 1, n)[d] = s[d]
<1>1. \A d \in 1 .. n : s[d] \in S
  OBVIOUS
<1>2. n - 1 + 1 = n /\ (1 <= n \/ n = 0) /\ n \in Int /\ 1 \in Int
  OBVIOUS
<1>3. /\ SubSeq(s, 1, n) \in Seq(S)
      /\ Len(SubSeq(s, 1, n)) = IF 1 <= n THEN n - 1 + 1 ELSE 0
      /\ \A d \in 1 .. n - 1 + 1 : SubSeq(s, 1, n)[d] = s[1 + d - 1]
  BY <1>1, <1>2, SubSeqProperties
<1>4. \A d \in 1 .. n : 1 + d - 1 = d
  OBVIOUS
<1> QED BY <1>2, <1>3, <1>4

\* Sequences with the same first elements have the same front.
LEMMA SameFront ==
  ASSUME NEW S, NEW s \in Seq(S), NEW t \in Seq(S), NEW n \in Nat, n <= Len(s), n <= Len(t),
         \A d \in 1 .. n : s[d] = t[d]
  PROVE  SubSeq(s, 1, n) = SubSeq(t, 1, n)
<1>1. /\ SubSeq(s, 1, n) \in Seq(S) /\ Len(SubSeq(s, 1, n)) = n
      /\ \A d \in 1 .. n : SubSeq(s, 1, n)[d] = s[d]
  BY Front
<1>2. /\ SubSeq(t, 1, n) \in Seq(S) /\ Len(SubSeq(t, 1, n)) = n
      /\ \A d \in 1 .. n : SubSeq(t, 1, n)[d] = t[d]
  BY Front
<1> QED BY <1>1, <1>2, SeqEqual

\* A front that is longer by one ends with the next element.
LEMMA LongerFront ==
  ASSUME NEW S, NEW s \in Seq(S), NEW n \in Nat, n + 1 <= Len(s)
  PROVE  SubSeq(s, 1, n + 1) = Append(SubSeq(s, 1, n), s[n + 1])
<1>1. /\ SubSeq(s, 1, n) \in Seq(S) /\ Len(SubSeq(s, 1, n)) = n
      /\ \A d \in 1 .. n : SubSeq(s, 1, n)[d] = s[d]
  BY Front
<1>2. /\ SubSeq(s, 1, n + 1) \in Seq(S) /\ Len(SubSeq(s, 1, n + 1)) = n + 1
      /\ \A d \in 1 .. n + 1 : SubSeq(s, 1, n + 1)[d] = s[d]
  BY Front
<1>3. s[n + 1] \in S
  OBVIOUS
<1>4. /\ Append(SubSeq(s, 1, n), s[n + 1]) \in Seq(S)
      /\ Len(Append(SubSeq(s, 1, n), s[n + 1])) = n + 1
      /\ \A d \in 1 .. n : Append(SubSeq(s, 1, n), s[n + 1])[d] = SubSeq(s, 1, n)[d]
      /\ Append(SubSeq(s, 1, n), s[n + 1])[n + 1] = s[n + 1]
  BY <1>1, <1>3, Appended
<1>5. \A d \in 1 .. n + 1 : d \in 1 .. n \/ d = n + 1
  OBVIOUS
<1>6. \A d \in 1 .. n + 1 : SubSeq(s, 1, n + 1)[d] = Append(SubSeq(s, 1, n), s[n + 1])[d]
  BY <1>1, <1>2, <1>4, <1>5
<1> QED BY <1>2, <1>4, <1>6, SeqEqual

\* A step that changes at most the open document leaves the outcomes.
LEMMA OutcomesStay ==
  ASSUME RecorderInv, RecorderInv', verdicts' = verdicts,
         \A d \in 1 .. Len(verdicts) : docs'[d] = docs[d]
  PROVE  Outcomes' = Outcomes
<1>1. /\ docs \in Seq(SUBSET Severity) /\ Len(verdicts) \in Nat /\ Len(verdicts) <= Len(docs)
  BY Lengths
<1>2. docs' \in Seq(SUBSET Severity) /\ Len(docs') \in Nat
  <2>1. docs' \in Seq(SUBSET Severity)
    BY DEF RecorderInv, RecorderTypeOK
  <2> QED BY <2>1
<1>3. Len(verdicts) <= Len(docs')
  <2>1. \/ currentDoc' # 0 /\ Len(docs') = Len(verdicts') + 1
        \/ currentDoc' = 0 /\ Len(docs') = Len(verdicts')
    BY DEF RecorderInv, OneOpen
  <2> QED BY <1>1, <1>2, <2>1
<1>4. SubSeq(docs', 1, Len(verdicts)) = SubSeq(docs, 1, Len(verdicts))
  BY <1>1, <1>2, <1>3, SameFront
<1> QED BY <1>4 DEF Outcomes

\* As does one that records something.
LEMMA RecordingKeepsOutcomes ==
  ASSUME RunInv, pc \in DocumentSteps, NEW rs \in SUBSET Severity, RecordStep(rs)
  PROVE  Outcomes' = Outcomes
<1>1. currentDoc # 0
  BY DEF RunInv, PlaceInv
<1>2. /\ RecorderInv' /\ verdicts' = verdicts
      /\ \A d \in 1 .. Len(docs) : d # currentDoc => docs'[d] = docs[d]
  BY <1>1, StepRecorded DEF RunInv
<1>3. currentDoc = Len(docs) /\ Len(docs) = Len(verdicts) + 1 /\ Len(verdicts) \in Nat
  BY <1>1, Lengths DEF RunInv
<1>4. \A d \in 1 .. Len(verdicts) : docs'[d] = docs[d]
  BY <1>2, <1>3
<1> QED BY <1>2, <1>4, OutcomesStay DEF RunInv

\* And one that changes nothing of the recorder.
LEMMA RestingKeepsOutcomes == ASSUME UNCHANGED recorderVars PROVE Outcomes' = Outcomes
BY DEF recorderVars, Outcomes

\* A document that is closed adds what it came to.
LEMMA CloseRuns == RunInv /\ CloseDoc => Promised!RunDocument
<1> SUFFICES ASSUME RunInv, CloseDoc PROVE Promised!RunDocument
  OBVIOUS
<1>1. pc = "close" /\ UNCHANGED <<args, exit>>
  BY DEF CloseDoc
<1>2. currentDoc # 0 /\ format # "other" /\ exit = "running" /\ Len(docs) <= args
  BY <1>1 DEF RunInv, PlaceInv, DocumentSteps, Steps
<1>3. docs' = docs /\ Len(verdicts') = Len(verdicts) + 1
  BY <1>2, DocumentCloses DEF RunInv, CloseDoc
<1>4. /\ docs \in Seq(SUBSET Severity) /\ Len(verdicts) \in Nat /\ Len(docs) = Len(verdicts) + 1
      /\ Len(verdicts) <= Len(docs)
  BY <1>2, Lengths DEF RunInv
<1>5. Outcomes' = Append(Outcomes, docs[Len(verdicts) + 1])
  BY <1>3, <1>4, LongerFront DEF Outcomes
<1>6. docs[Len(verdicts) + 1] \in SUBSET Severity
  BY <1>4
<1>7. Len(Outcomes) < args
  <2>1. Len(Outcomes) = Len(verdicts)
    BY <1>4, Front DEF Outcomes
  <2>2. args \in Int
    BY DEF RunInv, RunTypeOK
  <2>3. Len(verdicts) + 1 <= args
    BY <1>2, <1>4
  <2>4. Len(verdicts) < args
    BY <1>4, <2>2, <2>3
  <2> QED BY <2>1, <2>4
<1> QED BY <1>1, <1>2, <1>5, <1>6, <1>7 DEF Promised!RunDocument, Outcomes

\* The command ends with the status that the outcomes call for.
LEMMA FinishFinishes == RunInv /\ Finish => Promised!Finish
<1> SUFFICES ASSUME RunInv, Finish PROVE Promised!Finish
  OBVIOUS
<1>1. /\ pc = "next document" /\ Len(docs) = args
      /\ exit' = IF Failed THEN "failed" ELSE "ok"
      /\ UNCHANGED <<recorderVars, args>>
  BY DEF Finish
<1>2. exit = "running" /\ currentDoc = 0
  BY <1>1 DEF RunInv, PlaceInv
<1>3. docs \in Seq(SUBSET Severity) /\ Len(docs) \in Nat /\ Len(docs) = Len(verdicts)
  BY <1>2, Lengths DEF RunInv
<1>4. Len(Outcomes) = Len(docs) /\ \A d \in 1 .. Len(docs) : Outcomes[d] = docs[d]
  BY <1>3, Front DEF Outcomes
<1>5. Failed <=> \E d \in 1 .. Len(Outcomes) : Outcomes[d] \cap Failing # {}
  BY <1>4 DEF Failed, Has
<1>6. Outcomes' = Outcomes
  BY <1>1, RestingKeepsOutcomes
<1> QED BY <1>1, <1>2, <1>4, <1>5, <1>6 DEF Promised!Finish, Outcomes

\* Each step of the command is one of Suite's, or none.
LEMMA StepsImplement == RunInv /\ [Next]_vars => [Promised!Next]_(Promised!suiteVars)
<1> SUFFICES ASSUME RunInv, [Next]_vars
             PROVE  \/ Promised!Next
                    \/ UNCHANGED <<args, exit>> /\ Outcomes' = Outcomes
  BY DEF Promised!suiteVars, Outcomes
<1>1. ASSUME UNCHANGED <<recorderVars, args>>, exit = "running",
             exit' = exit \/ exit' \in {"usage", "error", "panic"}
      PROVE  \/ Promised!EndEarly
             \/ UNCHANGED <<args, exit>> /\ Outcomes' = Outcomes
  BY <1>1, RestingKeepsOutcomes DEF Promised!EndEarly, Outcomes
<1>2. ASSUME NEW rs \in SUBSET Severity, RecordStep(rs), pc \in DocumentSteps
      PROVE  Outcomes' = Outcomes
  BY <1>2, RecordingKeepsOutcomes
<1>3. {} \in SUBSET Severity /\ {"Fatal"} \in SUBSET Severity
  BY DEF Severity
<1>4. CASE Start \/ StartRun \/ CleanUp
  <2>1. exit = "running"
    BY <1>4 DEF RunInv, PlaceInv, Start, StartRun, CleanUp
  <2>2. UNCHANGED <<recorderVars, args>>
    BY <1>4 DEF Start, StartRun, CleanUp
  <2>3. exit' = exit \/ exit' \in {"usage", "error", "panic"}
    BY <1>4 DEF Start, StartRun, CleanUp
  <2> QED BY <1>1, <2>1, <2>2, <2>3 DEF Promised!Next
<1>5. CASE OpenDocument
  <2>1. pc = "next document" /\ UNCHANGED <<args, exit>>
    BY <1>5 DEF OpenDocument
  <2>2. currentDoc = 0
    BY <2>1 DEF RunInv, PlaceInv
  <2>3. /\ RecorderInv' /\ verdicts' = verdicts /\ Len(docs) = Len(verdicts)
        /\ \A d \in 1 .. Len(docs) : docs'[d] = docs[d]
    BY <1>5, <2>2, DocumentOpens, Lengths DEF RunInv, OpenDocument
  <2>4. Outcomes' = Outcomes
    BY <2>3, OutcomesStay DEF RunInv
  <2> QED BY <2>1, <2>4
<1>6. CASE ValidateDocument \/ Compile \/ Hydrate \/ Match \/ Update \/ EvaluateFails
  <2>1. \E rs \in {{}, {"Fatal"}} : RecordStep(rs)
    BY <1>6 DEF ValidateDocument, Compile, Hydrate, Match, Update, EvaluateFails, Skipping
  <2>2. pc \in DocumentSteps
    BY <1>6 DEF ValidateDocument, Compile, Hydrate, Match, Update, EvaluateFails, Checking,
                DocumentSteps, Steps
  <2>3. UNCHANGED <<args, exit>>
    BY <1>6 DEF ValidateDocument, Compile, Hydrate, Match, Update, EvaluateFails, CheckUnchanged
  <2> QED BY <1>2, <1>3, <2>1, <2>2, <2>3
<1>7. CASE NextFragment
  <2>1. UNCHANGED <<recorderVars, args, exit>>
    BY <1>7 DEF NextFragment
  <2> QED BY <2>1, RestingKeepsOutcomes
<1>8. CASE StartCheck
  <2>1. pc \in DocumentSteps /\ UNCHANGED <<args, exit>>
    BY <1>8 DEF StartCheck, DocumentSteps, Steps
  <2>2. RecordStep({}) \/ UNCHANGED recorderVars
    BY <1>8 DEF StartCheck, Skipping
  <2> QED BY <1>2, <1>3, <2>1, <2>2, RestingKeepsOutcomes
<1>9. CASE Evaluate
  <2>1. pc \in DocumentSteps /\ UNCHANGED <<args, exit>>
    BY <1>9 DEF Evaluate, Checking, CheckUnchanged, DocumentSteps, Steps
  <2>2. RecordStep(results') \/ UNCHANGED recorderVars
    BY <1>9 DEF Evaluate
  <2>3. results' \in SUBSET Severity
    <3>1. check \in SUBSET RuleName
      BY DEF RunInv, RunTypeOK
    <3>2. PICK answers \in Evaluations(check) : results' = EvalResults(check, answers)
      BY <1>9 DEF Evaluate, Evaluation
    <3> QED BY <3>1, <3>2, Evaluated
  <2> QED BY <1>2, <2>1, <2>2, <2>3, RestingKeepsOutcomes
<1>10. CASE CheckTimesOut
  <2>1. pc \in DocumentSteps /\ UNCHANGED <<args, exit>> /\ RecordStep(results)
    BY <1>10 DEF CheckTimesOut, CheckUnchanged, DocumentSteps, Steps
  <2>2. results \in SUBSET Severity
    BY DEF RunInv, RunTypeOK
  <2> QED BY <1>2, <2>1, <2>2
<1>11. CASE CloseDoc
  BY <1>11, CloseRuns DEF Promised!Next
<1>12. CASE Finish
  BY <1>12, FinishFinishes DEF Promised!Next
<1>13. CASE UNCHANGED vars
  <2>1. UNCHANGED <<recorderVars, args, exit>>
    BY <1>13 DEF vars, runVars
  <2> QED BY <2>1, RestingKeepsOutcomes
<1> QED BY <1>4, <1>5, <1>6, <1>7, <1>8, <1>9, <1>10, <1>11, <1>12, <1>13 DEF Next, Fragment, Over

\* The command keeps the promises of Suite: one outcome for each document, in
\* order and for good, and a status that tells whether any of them failed.
THEOREM SuiteImplemented == Spec => ImplementsSuite
<1>1. Init => Promised!Init
  <2> SUFFICES ASSUME Init PROVE Promised!Init
    OBVIOUS
  <2>1. docs = <<>> /\ Len(verdicts) = 0
    BY DEF Init, RecorderInit
  <2>2. Outcomes = <<>>
    BY <2>1, SubSeqEmpty DEF Outcomes
  <2> QED BY <2>2 DEF Init, Promised!Init, Outcomes
<1> QED BY <1>1, StepsImplement, Invariant, PTL DEF Spec, ImplementsSuite, Promised!Spec

==============================================================================
