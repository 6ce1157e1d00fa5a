---------------------------- MODULE MCObjectDriver ----------------------------
(***************************************************************************)
(* Small clusters for the runs of ObjectDriver.                            *)
(***************************************************************************)
EXTENDS ObjectDriver, TLC

CONSTANTS pod, ns, pods, namespaces, otherPods

\* A pod in the default namespace.
OneNamespaceOf == (pod :> None)

OneWatches == (pods :> {pod})

OneResourceOf == (pod :> pods)

\* Two resources that show the same objects, as an API group and the one that
\* replaces it do.
OverlappingWatches == (pods :> {pod}) @@ (otherPods :> {pod})

\* A pod in a namespace of its own.
PodNamespaceOf == (ns :> None) @@ (pod :> ns)

PodWatches == (namespaces :> {ns}) @@ (pods :> {pod})

PodResourceOf == (ns :> namespaces) @@ (pod :> pods)

==============================================================================
