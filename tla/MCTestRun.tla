------------------------------ MODULE MCTestRun ------------------------------
(***************************************************************************)
(* The modules that the runs of TestRun check: one whose rules skip or     *)
(* fail, one that may be fatal beside a rule that only looks like one, and *)
(* one that asserts nothing.                                               *)
(***************************************************************************)
EXTENDS TestRun

ThreeModules ==
  {{ruleNamed("error", ""), ruleNamed("skip", "_")},
   {ruleNamed("fatal", "_"), ruleNamed("skip", "more")},
   {ruleNamed("other", "more")}}

==============================================================================
