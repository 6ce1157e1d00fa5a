-------------------------------- MODULE Checks --------------------------------
(***************************************************************************)
(* pkg/driver's rules.go and Eval: which rules of a Rego module are        *)
(* assertions, how severe each is, and what one evaluation of the module   *)
(* comes to.  A rule's name is one of the stems the program knows, or      *)
(* another, and what follows it; what a query of the rule gives is not     *)
(* determined here, since it depends on the cluster.                       *)
(***************************************************************************)
EXTENDS Recorder

Stems == [error |-> "Error", fatal |-> "Fatal", skip |-> "Skip"]

\* After the stem: nothing, an underscore, or the name just goes on.
RuleName == [stem : DOMAIN Stems \cup {"other"}, rest : {"", "_", "more"}]

ruleNamed(stem, rest) == [stem |-> stem, rest |-> rest]

\* Whether a name is one of the rules' or has the prefix of one.
matchRuleByName(n) == n.stem # "other" /\ n.rest \in {"", "_"}

\* The rules with a severity; a name counts once, however often it is defined.
findAssertionRules(m) == {n \in m : matchRuleByName(n)}

severityForRuleName(n) == Stems[n.stem]

(***************************************************************************)
(* What the query of a rule gives: nothing, a set of no messages, a value  *)
(* of some other kind, or an error, which may be one of a builtin.         *)
(***************************************************************************)
Answers == {"undefined", "no messages", "value", "builtin error", "error"}

extractResult(n, answer) ==
  CASE answer = "value" -> {severityForRuleName(n)}
    [] answer = "builtin error" -> {"Error"}
    [] OTHER -> {}

Evaluations(m) == [m -> Answers]

\* Eval queries each assertion, and fails with the first that fails.
EvalFails(m, answers) == \E n \in findAssertionRules(m) : answers[n] = "error"

EvalResults(m, answers) == UNION {extractResult(n, answers[n]) : n \in findAssertionRules(m)}

\* The built-in checks of an update and of a deletion.
DefaultObjectCheckForOperation ==
  [update |-> {ruleNamed("fatal", "_"), ruleNamed("other", "more")},
   delete |-> {ruleNamed("fatal", "")}]

==============================================================================
