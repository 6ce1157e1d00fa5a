--------------------------- MODULE MCResourceStore ---------------------------
(***************************************************************************)
(* Objects for the run of ResourceStore: two of a custom kind that has a   *)
(* status subresource, in the default namespace and in another.            *)
(***************************************************************************)
EXTENDS ResourceStore

ProxyResources ==
  <<[name |-> "proxies", kind |-> "Proxy", sub |-> FALSE],
    [name |-> "proxies/status", kind |-> "Proxy", sub |-> TRUE]>>

TwoProxies == [kind : {"Proxy"}, ns : {"default", "system"}, name : {"one"}]

OneParam == {<<"image", "tag">>}

==============================================================================
