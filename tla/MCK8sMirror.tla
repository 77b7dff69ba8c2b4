----------------------------- MODULE MCK8sMirror -----------------------------
(* Two replicas of one workload and a destination whose name, in another    *)
(* namespace, is that of the first replica; two policies that share a key.  *)
EXTENDS K8sMirror

CONSTANTS web1, web2, db

MCPods == {web1, web2, db}
MCName(p) == IF p = web2 THEN "b" ELSE "a"
MCSpiffe(p) == IF p = db THEN "data" ELSE "web"

MCListed == <<db, web1>>

MCSpecs ==
    {[sources |-> {"web"}, selects |-> {db}, action |-> "Allow"],
     [sources |-> {"web"}, selects |-> {db, web2}, action |-> "Deny"]}
=============================================================================
