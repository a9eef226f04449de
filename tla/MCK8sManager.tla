---------------------------- MODULE MCK8sManager ----------------------------
(***************************************************************************)
(* Small instances of K8sManager: an external cluster that came with       *)
(* some plugins or none, and one a blueprint creates.                      *)
(***************************************************************************)
EXTENDS K8sManager

CONSTANTS ext, blue, ips1, ips2, d1, d2, none, empty

MCClusters == {ext, blue}
MCBlueprintClusters == {blue}
MCDocs == {d1, d2}
MCPoolNames == {"area1", "p", "q"}
MCPoolIps == {ips1, ips2}
MCNoPool == none
MCEmptyDoc == empty

MCRequests ==
    {[op |-> "install", plugins |-> <<"metallb", "flannel">>, pool |-> [name |-> "p", ips |-> ips1]],
     [op |-> "install", plugins |-> <<"openebs", "openebs", "istio">>, pool |-> [name |-> "q", ips |-> ips2]],
     [op |-> "install", plugins |-> <<"calico">>, pool |-> [name |-> "p", ips |-> ips1]],
     [op |-> "install", plugins |-> <<"flannel">>, pool |-> none],
     [op |-> "yaml", docs |-> <<d1, d2>>],
     [op |-> "yaml", docs |-> <<d2, d1, empty>>]}

Charts(there) == [p \in Plugins |-> IF p \in there THEN "manifest" ELSE "absent"]
MCCharts ==
    {[c \in MCClusters |-> Charts(IF c = ext THEN there ELSE {})] :
        there \in {{"calico"}, {"flannel", "metallb"}}}
MCOneArea == <<ips1>>
MCTwoAreas == <<ips1, ips2>>
=============================================================================
