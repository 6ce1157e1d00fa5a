------------------------------- MODULE TestRun -------------------------------
(***************************************************************************)
(* `modden run`: cmd/run.go takes the documents one after the other,       *)
(* validates each and has pkg/test Run execute its fragments, step by      *)
(* step, into the recorder.  What the cluster and the Rego checks answer   *)
(* is not determined here: an operation may succeed, be refused (which is  *)
(* for its check to judge) or fail, and each evaluation of a check may     *)
(* find anything, since the cluster changes under it.                      *)
(***************************************************************************)
EXTENDS Checks, Functions

CONSTANTS
  MaxDocs,      \* bound: documents on the command line
  MaxParts,     \* bound: fragments of a document
  CheckTimeout, \* --check-timeout, in evaluations that fit into it
  Modules       \* what a Rego module may be, in its rules' names

ASSUME TestRunAssumption ==
  /\ MaxDocs \in Nat /\ MaxParts \in Nat /\ CheckTimeout \in Nat
  /\ Modules \subseteq SUBSET RuleName

VARIABLES
  args,      \* how many documents the command line names
  preserve,  \* --preserve
  pc,        \* where the command is
  parts,     \* the fragments of the document that are still to run
  obj,       \* Run: the hydrated object, once it has a name or before
  opResult,  \* Run: the result of the object's operation
  check,     \* runCheck: the module to evaluate
  turns,     \* runCheck: evaluations since startTime
  results,   \* runCheck: what the last evaluation found
  raised,    \* history: the rules that had a value in that evaluation
  left,      \* history: whether objects that were sent to the cluster are left
             \* there, and if so, whether DeleteAll has tried to delete them
  exit       \* how the command ended

checkVars == <<check, turns, results, raised>>
runVars == <<args, preserve, pc, parts, obj, opResult, checkVars, left, exit>>
vars == <<recorderVars, runVars>>

FragmentTypes == {"object", "module", "unknown"}

Fragments == UNION {[1 .. n -> FragmentTypes] : n \in 0 .. MaxParts}

Steps == {"start", "next document", "validate", "run", "compile", "next fragment", "hydrate", "match",
          "update", "check object", "check module", "checking", "clean up", "close", "over"}

\* Every variable has its type, and runCheck does not go beyond its timeout.
TypeOK ==
  /\ RecorderTypeOK
  /\ args \in 0 .. MaxDocs
  /\ preserve \in BOOLEAN
  /\ pc \in Steps
  /\ parts \in Seq(FragmentTypes)
  /\ obj \in {"nil", "named", "anonymous"}
  /\ opResult \in {"nil", "result"}
  /\ check \subseteq RuleName /\ raised \subseteq check
  /\ turns \in 0 .. CheckTimeout
  /\ results \subseteq Severity
  /\ left \in {"none", "some", "undeleted"}
  /\ exit \in {"running", "ok", "failed", "usage", "error", "panic"}

Init ==
  /\ RecorderInit
  /\ args \in 0 .. MaxDocs
  /\ preserve \in BOOLEAN
  /\ pc = "start"
  /\ parts = <<>>
  /\ obj = "nil" /\ opResult = "nil"
  /\ check = {} /\ turns = 0 /\ results = {} /\ raised = {}
  /\ left = "none"
  /\ exit = "running"

Goto(step) == pc' = step

\* A step whose body is skipped, since the document has a terminal result.
Skipping(next) == ~ShouldContinue /\ RecordStep({}) /\ Goto(next)

------------------------------------------------------------------------------
(***************************************************************************)
(* cmd/run.go: the loop over the documents.                                *)
(***************************************************************************)
\* No file named, or an unknown format: the only errors with a status of their
\* own.  Those of fixtures, parameters, the client, --watch and policies carry
\* an ExitError by value, or none, which main takes for a plain failure.
Start ==
  /\ pc = "start"
  /\ \/ args = 0 /\ Goto("over") /\ exit' = "usage"
     \/ args > 0 /\ Goto("over") /\ exit' = "error"
     \/ args > 0 /\ format = "other" /\ Goto("over") /\ exit' = "usage"
     \/ args > 0 /\ format # "other" /\ Goto("next document") /\ UNCHANGED exit
  /\ UNCHANGED <<recorderVars, args, preserve, parts, obj, opResult, checkVars, left>>

OpenDocument ==
  /\ pc = "next document" /\ Len(docs) < args
  /\ NewDocument
  /\ Goto("validate")
  /\ UNCHANGED <<args, preserve, parts, obj, opResult, checkVars, left, exit>>

\* A document that cannot be read or decoded is a fatal result.
ValidateDocument ==
  /\ pc = "validate"
  /\ parts' \in Fragments
  /\ \E rs \in {{}, {"Fatal"}} : RecordStep(rs)
  /\ Goto("run")
  /\ UNCHANGED <<args, preserve, obj, opResult, checkVars, left, exit>>

\* test.Run, unless the document is invalid, up to its first step.  Failing to
\* list or store the server's resources ends the command; a parameter that
\* cannot be stored makes it panic.
StartRun ==
  /\ pc = "run"
  /\ \/ ~ShouldContinue /\ Goto("close") /\ UNCHANGED exit
     \/ ShouldContinue /\ Goto("compile") /\ UNCHANGED exit
     \/ ShouldContinue /\ Goto("over") /\ exit' \in {"error", "panic"}
  /\ UNCHANGED <<recorderVars, args, preserve, parts, obj, opResult, checkVars, left>>

CloseDoc ==
  /\ pc = "close"
  /\ CloseDocument
  /\ Goto("next document")
  /\ UNCHANGED <<args, preserve, parts, obj, opResult, checkVars, left, exit>>

Finish ==
  /\ pc = "next document" /\ Len(docs) = args
  /\ exit' = IF Failed THEN "failed" ELSE "ok"
  /\ Goto("over")
  /\ UNCHANGED <<recorderVars, args, preserve, parts, obj, opResult, checkVars, left>>

------------------------------------------------------------------------------
(***************************************************************************)
(* pkg/test Run: the fragments of one document.                            *)
(***************************************************************************)
Compile ==
  /\ pc = "compile"
  /\ \E rs \in {{}, {"Fatal"}} : RecordStep(rs)
  /\ Goto("next fragment")
  /\ UNCHANGED <<args, preserve, parts, obj, opResult, checkVars, left, exit>>

FirstStep == [object |-> "hydrate", module |-> "check module", unknown |-> "next fragment"]

NextFragment ==
  /\ pc = "next fragment"
  /\ \/ /\ parts = <<>> \/ ~ShouldContinue
        /\ Goto("clean up") /\ UNCHANGED parts
     \/ /\ parts # <<>> /\ ShouldContinue
        /\ Goto(FirstStep[Head(parts)]) /\ parts' = Tail(parts)
  /\ obj' = "nil" /\ opResult' = "nil"
  /\ UNCHANGED <<recorderVars, args, preserve, checkVars, left, exit>>

HydrateReportsError ==
  /\ pc = "hydrate" /\ Goto("match")
  /\ \/ RecordStep({}) /\ obj' \in {"named", "anonymous"}
     \/ RecordStep({"Error"}) /\ UNCHANGED obj
  /\ UNCHANGED <<args, preserve, parts, opResult, checkVars, left, exit>>

\* The fragment's first step is never skipped: NextFragment has just asked.
Hydrate ==
  /\ pc = "hydrate" /\ Goto("match")
  /\ \/ RecordStep({}) /\ obj' \in {"named", "anonymous"}
     \/ RecordStep({"Fatal"}) /\ UNCHANGED obj
  /\ UNCHANGED <<args, preserve, parts, opResult, checkVars, left, exit>>

\* An object without a name is looked for by its labels and the run ID.
Match ==
  /\ pc = "match"
  /\ \/ Skipping("update") /\ UNCHANGED obj
     \/ /\ ShouldContinue /\ obj = "named"
        /\ RecordStep({}) /\ Goto("update") /\ UNCHANGED obj
     \/ /\ ShouldContinue /\ obj = "anonymous"
        /\ \/ RecordStep({}) /\ obj' = "named"
           \/ RecordStep({"Fatal"}) /\ UNCHANGED obj
        /\ Goto("update")
  /\ UNCHANGED <<args, preserve, parts, opResult, checkVars, left, exit>>

\* The operation gives a result or fails; or the result cannot be stored.
Update ==
  /\ pc = "update"
  /\ \/ Skipping("check object") /\ UNCHANGED <<opResult, left>>
     \/ /\ ShouldContinue
        /\ \/ RecordStep({}) /\ opResult' = "result"
           \/ RecordStep({"Fatal"}) /\ opResult' \in {"nil", "result"}
        /\ left' = "some"
        /\ Goto("check object")
  /\ UNCHANGED <<args, preserve, parts, obj, checkVars, exit>>

\* Either kind of check runs runCheck, within a step; an object without a
\* check of its own has the default for its operation.
StartCheck ==
  /\ \/ pc = "check object" /\ Skipping("next fragment") /\ UNCHANGED checkVars
     \/ /\ \/ pc = "check module" /\ check' \in Modules
           \/ /\ pc = "check object" /\ ShouldContinue
              /\ check' \in Modules \cup Range(DefaultObjectCheckForOperation)
        /\ turns' = 0 /\ results' = {} /\ raised' = {}
        /\ Goto("checking")
        /\ UNCHANGED recorderVars
  /\ UNCHANGED <<args, preserve, parts, obj, opResult, left, exit>>

Checking == pc = "checking" /\ turns < CheckTimeout

CheckUnchanged == UNCHANGED <<args, preserve, parts, obj, opResult, check, left, exit>>

\* What one evaluation finds.  No results are success and a skip is final;
\* anything else is tried again after a pause.
Evaluation ==
  \E answers \in Evaluations(check) :
    /\ ~EvalFails(check, answers)
    /\ results' = EvalResults(check, answers)
    /\ raised' = {n \in check : answers[n] = "value"}

EndsCheck(rs) == rs = {} \/ "Skip" \in rs

EvaluateOnceMore ==
  /\ pc = "checking" /\ turns <= CheckTimeout
  /\ Evaluation /\ turns' = turns + 1
  /\ IF EndsCheck(results') THEN RecordStep(results') /\ Goto("next fragment")
     ELSE UNCHANGED <<recorderVars, pc>>
  /\ CheckUnchanged

EvaluateRestartsClock ==
  /\ Checking /\ Evaluation
  /\ IF EndsCheck(results')
     THEN turns' = turns + 1 /\ RecordStep(results') /\ Goto("next fragment")
     ELSE turns' = 0 /\ UNCHANGED <<recorderVars, pc>>
  /\ CheckUnchanged

\* One turn of runCheck's loop.
Evaluate ==
  /\ Checking /\ Evaluation
  /\ turns' = turns + 1
  /\ IF EndsCheck(results') THEN RecordStep(results') /\ Goto("next fragment")
     ELSE UNCHANGED <<recorderVars, pc>>
  /\ CheckUnchanged

\* The check itself is in error.
EvaluateFails ==
  /\ Checking
  /\ \E answers \in Evaluations(check) : EvalFails(check, answers)
  /\ turns' = turns + 1
  /\ RecordStep({"Fatal"}) /\ Goto("next fragment")
  /\ UNCHANGED <<results, raised>> /\ CheckUnchanged

CheckTimesOutQuietly ==
  /\ pc = "checking" /\ (turns > 0 \/ CheckTimeout = 0)
  /\ RecordStep({}) /\ Goto("next fragment")
  /\ UNCHANGED <<turns, results, raised>> /\ CheckUnchanged

\* The timeout is up, sooner if an evaluation was slow; what the last
\* evaluation found is the result.
CheckTimesOut ==
  /\ pc = "checking" /\ (turns > 0 \/ CheckTimeout = 0)
  /\ RecordStep(results) /\ Goto("next fragment")
  /\ UNCHANGED <<turns, results, raised>> /\ CheckUnchanged

CleanUpAfterSuccess ==
  /\ pc = "clean up"
  /\ \/ /\ preserve \/ ~ShouldContinue
        /\ Goto("close") /\ UNCHANGED <<left, exit>>
     \/ /\ ~preserve /\ ShouldContinue
        /\ \/ left' = "none" /\ Goto("close") /\ UNCHANGED exit
           \/ left = "some" /\ left' = "undeleted" /\ Goto("over") /\ exit' = "panic"
  /\ UNCHANGED <<recorderVars, args, preserve, parts, obj, opResult, checkVars>>

\* DeleteAll deletes what is left, or comes to an error for some of it: then
\* must.Must panics, and the command with it.
CleanUp ==
  /\ pc = "clean up"
  /\ \/ /\ preserve
        /\ Goto("close") /\ UNCHANGED <<left, exit>>
     \/ /\ ~preserve
        /\ \/ left' = "none" /\ Goto("close") /\ UNCHANGED exit
           \/ left = "some" /\ left' = "undeleted" /\ Goto("over") /\ exit' = "panic"
  /\ UNCHANGED <<recorderVars, args, preserve, parts, obj, opResult, checkVars>>

------------------------------------------------------------------------------
Fragment ==
  \/ Hydrate
  \/ Match
  \/ Update
  \/ StartCheck
  \/ Evaluate
  \/ EvaluateFails
  \/ CheckTimesOut

Over == pc = "over" /\ UNCHANGED vars

Next ==
  \/ Start
  \/ OpenDocument
  \/ ValidateDocument
  \/ StartRun
  \/ Compile
  \/ NextFragment
  \/ Fragment
  \/ CleanUp
  \/ CloseDoc
  \/ Finish
  \/ Over

Spec == Init /\ [][Next]_vars

\* The command is one goroutine, and the calls it makes return.
FairSpec == Spec /\ WF_vars(Next)

------------------------------------------------------------------------------
(***************************************************************************)
(* Safety.                                                                 *)
(***************************************************************************)
\* The step closures share obj and opResult: whatever failed before, no body
\* that runs finds them nil.
NoNilDereference ==
  ShouldContinue =>
    /\ pc \in {"match", "update", "check object"} => obj # "nil"
    /\ pc = "update" => obj = "named"
    /\ pc = "check object" => opResult # "nil"

\* Whatever made a document stop, and unless its objects are to be preserved,
\* they are deleted before the next one opens and before the command ends; or
\* DeleteAll could not delete them all, and then the command has panicked before
\* any other document opened.
CleanedUp ==
  ~preserve /\ (currentDoc = 0 \/ pc = "over") =>
    left = "none" \/ (left = "undeleted" /\ exit = "panic")

\* The two recorders agree: what TreeWriter says of a document is what
\* DefaultRecorder recorded of it, nothing carried over from another one.
TreeAgrees ==
  format = "tree" => \A d \in 1 .. Len(verdicts) : verdicts[d] = TreeVerdict(docs[d])

\* And TapWriter: some step of a document is printed as not ok if and only if
\* a failure was recorded.  Its skip marks say only that something was skipped
\* by then, in this document or in an earlier one.
TapAgrees ==
  format = "tap" =>
    /\ \A d \in 1 .. Len(verdicts) : (verdicts[d] = "failed") <=> Has(docs[d], Failing)
    /\ "skip" \in marks => \E d \in 1 .. Len(docs) : "Skip" \in docs[d]

\* A command that exits with success has printed no document as failed.
NoFailureLost ==
  exit = "ok" => \A d \in 1 .. Len(verdicts) : verdicts[d] # "failed"

\* After a fatal result or a skip the document looks for no object, sends
\* nothing to the cluster and evaluates no check.
NothingAfterTerminal ==
  [][ pc' = "checking" \/ obj' \notin {obj, "nil"} \/ opResult' \notin {opResult, "nil"}
      => ~Has(docs[currentDoc], Terminal) ]_vars

\* A document is passed over only for its own errors, never for what an
\* earlier document of the command came to.
DocumentsIndependent ==
  [][ pc = "run" /\ pc' = "close" => "Fatal" \in lastStep ]_vars

\* A check passes only when its module was evaluated and the last evaluation
\* raised no rule whose name is error, fatal or skip, or begins so with _.
PassMeansEvaluated ==
  [][ pc = "checking" /\ pc' # "checking" /\ lastStep' = {}
      => turns' > 0 /\ ~\E n \in raised' : n.stem # "other" /\ n.rest \in {"", "_"} ]_vars

Promised == INSTANCE Suite
              WITH Severities <- Severity, Failures <- Failing, MaxDocuments <- MaxDocs,
                   documents <- args, outcomes <- SubSeq(docs, 1, Len(verdicts)), status <- exit

\* The command keeps the promises of Suite, whatever its steps come to.
ImplementsSuite == Promised!Spec

(***************************************************************************)
(* Liveness.                                                               *)
(***************************************************************************)
\* No check is tried for ever, so the command comes to its end.
CommandEnds == <>(pc = "over")

------------------------------------------------------------------------------
(***************************************************************************)
(* What the repository says and this does not bear out.                    *)
(***************************************************************************)
\* A skipped test is not considered failed: a command whose documents were all
\* skipped or passed, in what it printed, exits with success.
SkippedNotFailed ==
  exit = "failed" => \E d \in 1 .. Len(verdicts) : verdicts[d] = "failed"

==============================================================================
