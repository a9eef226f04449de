----------------------------- MODULE MCK8sAccess -----------------------------
(***************************************************************************)
(* A small instance of K8sAccess: one namespace, two users, a deployment,  *)
(* and every handler (labelling a node is labelling a deployment).  A      *)
(* binding or a secret of the users' own may take a name that the handler  *)
(* would form for u1, or another.                                          *)
(***************************************************************************)
EXTENDS K8sAccess

CONSTANTS n1, u1, u2, l1, other

MCNamespaces == {n1}
MCUsers == {u1, u2}
MCLabels == {l1}

MCNames == {u1, u2, other}

R(op, name, u, k) == [op |-> op, ns |-> n1, name |-> name, user |-> u, label |-> l1, replicas |-> k]

MCRequests ==
    {R(op, other, u1, 0) : op \in DOMAIN Handlers \ {"add_label_to_k8s_node"}}
      \cup {R(op, u1, u2, 0) : op \in {"create_admin_sa_for_namespace", "create_k8s_kubectl_user",
                                   "give_admin_rights_to_user_namespaced", "create_secret_for_sa"}}
      \cup {R("scale_k8s_deployment", other, u1, MaxReplicas)}
=============================================================================
