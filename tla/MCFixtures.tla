------------------------------ MODULE MCFixtures ------------------------------
(***************************************************************************)
(* Objects and texts for the runs of Fixtures: a deployment, with a        *)
(* template, pods, in two namespaces, and fragments of every form.         *)
(***************************************************************************)
EXTENDS Fixtures

Plain(kind, name, ns, alias, template) ==
  [kind |-> kind, name |-> name, ns |-> ns, alias |-> alias,
   marks |-> Unmarked, template |-> template, child |-> Unmarked]

Full == {"labels", "containers"}

FixtureObjects ==
  {Plain("Deployment", "web", "", FALSE, Full),
   Plain("Deployment", "web", "prod", FALSE, Full),
   Plain("Deployment", "prod", "", TRUE, Full)}

Says(o, apply, as, check) == [object |-> o, apply |-> apply, as |-> as, check |-> check]

FragmentTexts ==
  LET web == Plain("Deployment", "web", "", FALSE, {})
      pod == Plain("Pod", "", "", FALSE, {})
      new == [ns |-> "prod", name |-> "web"]
  IN  {Says(web, "fixture", as, "absent") : as \in {None, new, [new EXCEPT !.ns = None]}}
        \cup {Says([web EXCEPT !.ns = "prod"], "fixture", as, "absent") : as \in {None, new}}
        \cup {Says(Plain("Deployment", "prod", "prod", FALSE, {}), "fixture", new, "absent"),
              Says(Plain("Deployment", "web", "", FALSE, {"containers"}), "absent", None, "rules"),
              Says(Plain("Pod", "web", "", FALSE, {}), "update", None, "absent"),
              Says(Plain("Namespace", "prod", "", FALSE, {}), "delete", None, "absent"),
              Says(web, "delete", None, "absent"), Says(web, "absent", None, "mapping"),
              Says(web, "sequence", None, "absent"), Says(web, "absent", None, "rules")}
        \cup {Says(pod, apply, None, "absent") : apply \in {"absent", "delete"}}

==============================================================================
