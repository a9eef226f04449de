-------------------------- MODULE MCTopologyStore --------------------------
(***************************************************************************)
(* Instances of TopologyStore for TLC: documents the process may start     *)
(* with and the requests and operations that arrive.                       *)
(***************************************************************************)
EXTENDS TopologyStore

CONSTANTS v1, v2, n1, r1, p1, p2, k1, b1

\* Nothing but defaults.
EmptyTopology ==
    [vims |-> {}, vim_networks |-> [v \in Vim |-> {}], networks |-> {}, routers |-> {},
     pdus |-> {}, locked_by |-> [p \in Pdu |-> NoBlue],
     kubernetes |-> {}, deployed_blueprints |-> [k \in Cluster |-> [b \in Blue |-> 0]]]

\* Two VIMs with a network, a router and a PDU.
SmallTopology ==
    [EmptyTopology EXCEPT !.vims = Vim, !.vim_networks[v1] = Net, !.networks = Net,
                          !.routers = Router, !.pdus = Pdu]

\* PDUs and clusters for blueprints to use, and a network on a VIM.
SharedTopology == [SmallTopology EXCEPT !.kubernetes = Cluster]

AddVim(v, nets, tf) == [call |-> "add_vim", vim |-> v, networks |-> nets, terraform |-> tf]
OnVim(call, v, n) == [call |-> call, vim |-> v, net |-> n, terraform |-> FALSE]
OnNet(call, n, tf) == [call |-> call, net |-> n, terraform |-> tf]
OnVimRouter(call) == [call |-> call, vim |-> v1, router |-> r1, terraform |-> FALSE]
UpdateVim(edits) == <<[call |-> "update_vim", vim |-> v1]>> \o edits \o <<[call |-> "save"]>>
OnCluster(call, k) == <<[call |-> call, cluster |-> k]>>

VimRequests ==
    {<<[call |-> "create", topology |-> EmptyTopology], AddVim(v1, {}, FALSE),
       AddVim(v2, {}, FALSE), [call |-> "save"]>>,
     <<[call |-> "delete", terraform |-> FALSE]>>,
     <<[call |-> "delete", terraform |-> TRUE]>>,
     <<AddVim(v1, {n1}, FALSE)>>, <<AddVim(v1, {n1}, TRUE)>>,
     <<[call |-> "del_vim", vim |-> v1, terraform |-> FALSE]>>,
     UpdateVim(<<OnVim("add_vim_net", v1, n1), OnVimRouter("del_vim_router")>>),
     UpdateVim(<<OnVim("del_vim_net", v1, n1), OnVimRouter("add_vim_router")>>)}

EntryRequests ==
    {<<OnNet("add_network", n1, tf)>> : tf \in BOOLEAN}
    \cup {<<OnNet("del_network_by_name", n1, tf)>> : tf \in BOOLEAN}
    \cup {<<[call |-> call, router |-> r1]>> : call \in {"add_router", "del_router"}}
    \cup {<<[call |-> call, pdu |-> p1]>> : call \in {"add_pdu", "del_pdu"}}
    \cup {OnCluster(call, k1) : call \in {"add_k8scluster", "del_k8scluster"}}
    \cup {<<[call |-> "update_k8scluster", cluster |-> k1, deployed |-> [b \in Blue |-> 0]]>>}

AllRequests == VimRequests \cup EntryRequests

\* Requests that take several saves, and the deletion of a cluster.
SharedRequests ==
    {UpdateVim(<<OnVim("del_vim_net", v1, n1)>>),
     UpdateVim(<<OnVim("del_vim_net", v1, n1), OnVimRouter("add_vim_router")>>)}
    \cup {OnCluster("del_k8scluster", k1)}

NoOperations == [b \in Blue |-> {}]

\* A UERANSIM blueprint adds its gNB as a PDU and takes it away.
RadioOperations ==
    [b \in Blue |-> IF b = b1 THEN {<<[call |-> call, pdu |-> p1]>> : call \in {"add_pdu", "del_pdu"}}
                    ELSE {}]

\* A blueprint that besides on-boards its cluster and takes it away.
OwnEntries ==
    [b \in Blue |-> RadioOperations[b] \cup {OnCluster("add_k8scluster", k1), OnCluster("del_k8scluster", k1)}]
=============================================================================
