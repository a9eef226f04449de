------------------------------ MODULE K8sAccess ------------------------------
(***************************************************************************)
(* The REST interface to one cluster of the topology: namespaces, service  *)
(* accounts, roles, role bindings, secrets, quotas, kubectl users, labels  *)
(* and replicas.  A handler is a sequence of calls to the cluster's API,   *)
(* made by the functions of kube_api_utils; the first call that raises     *)
(* ends it with an error and leaves what the earlier ones have made.       *)
(*                                                                         *)
(* The handlers are coroutines that never await: the event loop runs one   *)
(* at a time.  Between two calls of a handler the cluster goes on: its     *)
(* controllers remove the content of a deleted namespace and issue         *)
(* certificates, and operators use kubectl.                                *)
(***************************************************************************)
EXTENDS Naturals, Sequences, FiniteSets

CONSTANTS
    Namespaces, Users, Labels,
    Names,          \* of bindings and secrets; a name formed from a user's is the user's
    MaxReplicas,    \* replica numbers asked for are 0..MaxReplicas
    Requests,       \* the requests of the users: see RequestType
    MaxCalls,       \* bound: REST calls
    MaxOutside      \* bound: changes made by others to a deployment or a namespace


VARIABLES
    ns,         \* the namespaces: "absent", "active" or "terminating"
    accounts,   \* the service accounts
    roles,      \* the namespaces that have the role nfvclAdmin
    bindings,   \* the role bindings of the namespaces
    admins,     \* the cluster role bindings
    secrets,    \* the token secrets of the service accounts
    quotas,     \* the resource quotas
    csr,        \* the certificate signing requests
    workload,   \* a deployment (or a node): labels, replicas, resource version
    call,       \* the handler that is running
    answers,    \* the calls answered so far
    outside     \* bound

objects == <<ns, accounts, roles, bindings, admins, secrets, quotas, csr>>
vars == <<objects, workload, call, answers, outside>>

Calls == 1..MaxCalls
Now == Len(answers) + 1             \* the number of the call that is running
Idle == [op |-> "none"]

TypeOK ==
    /\ ns \in [Namespaces -> {"absent", "active", "terminating"}]
    /\ accounts \subseteq [ns : Namespaces, user : Users, by : Calls]
    /\ roles \subseteq Namespaces
    /\ bindings \subseteq [ns : Namespaces, name : Names, user : Users, role : {"admin", "nfvclAdmin"}, by : Calls]
    /\ admins \subseteq [name : Names, user : Users, by : Calls]
    /\ secrets \subseteq [ns : Namespaces, name : Names, owner : Users, by : Calls]
    /\ quotas \subseteq Namespaces
    /\ csr \subseteq [user : Users, key : Calls, state : {"new", "approved", "issued"}]
    /\ workload.labels \subseteq Labels /\ workload.replicas \in 0..MaxReplicas /\ workload.version \in Nat
    /\ Len(answers) <= MaxCalls

-----------------------------------------------------------------------------
(* What kube_api_utils reads.                                              *)

k8s_check_namespace_exist(n) == ns[n] # "absent"

get_service_accounts(n, u) == {a \in accounts : a.ns = n /\ a.user = u}

k8s_check_sa_exist(n, u) == k8s_check_namespace_exist(n) /\ Cardinality(get_service_accounts(n, u)) = 1

k8s_check_role_exist(n) == k8s_check_namespace_exist(n) /\ n \in roles

k8s_get_secrets(n, name) == {s \in secrets : s.ns = n /\ s.name = name}

-----------------------------------------------------------------------------
(* The calls a function of kube_api_utils makes, and those of each handler *)
(* of rest_endpoints/k8s.py, in order.                                     *)

k8s_admin_role_to_sa == <<"check_ns", "check_sa", "bind_admin">>
k8s_admin_role_over_namespace == <<"check_ns", "check_role", "bind_nfvclAdmin">>
k8s_create_secret_for_user == <<"check_ns", "check_sa", "create_secret">>
k8s_cert_sign_req == <<"create_csr", "approve_csr", "read_csr">>
create_k8s_namespace == <<"create_ns">>
delete_k8s_namespace == <<"delete_ns">>
create_service_account == <<"create_sa">>
give_admin_rights_to_sa == k8s_admin_role_to_sa
give_admin_rights_to_user_namespaced == k8s_admin_role_over_namespace
give_cluster_admin_rights == <<"bind_cluster">>
create_secret_for_sa == k8s_create_secret_for_user
create_admin_sa_for_namespace ==
    <<"create_sa">> \o k8s_admin_role_to_sa \o k8s_create_secret_for_user \o <<"get_secrets">>
create_k8s_kubectl_user == k8s_cert_sign_req
apply_resource_quota_namespace == <<"create_quota">>
add_label_to_k8s_node == <<"read", "patch_labels">>
add_label_to_k8s_deployment == <<"read", "patch_labels">>
scale_k8s_deployment == <<"read", "patch_replicas">>

Handlers ==
    [create_k8s_namespace |-> create_k8s_namespace,
     delete_k8s_namespace |-> delete_k8s_namespace,
     create_service_account |-> create_service_account,
     give_admin_rights_to_sa |-> give_admin_rights_to_sa,
     give_admin_rights_to_user_namespaced |-> give_admin_rights_to_user_namespaced,
     give_cluster_admin_rights |-> give_cluster_admin_rights,
     create_secret_for_sa |-> create_secret_for_sa,
     create_admin_sa_for_namespace |-> create_admin_sa_for_namespace,
     create_k8s_kubectl_user |-> create_k8s_kubectl_user,
     apply_resource_quota_namespace |-> apply_resource_quota_namespace,
     add_label_to_k8s_node |-> add_label_to_k8s_node,
     add_label_to_k8s_deployment |-> add_label_to_k8s_deployment,
     scale_k8s_deployment |-> scale_k8s_deployment]

RequestType ==
    [op : DOMAIN Handlers, ns : Namespaces, name : Names, user : Users, label : Labels, replicas : 0..MaxReplicas]

ASSUME AccessAssumption ==
    /\ Requests \subseteq RequestType /\ Users \subseteq Names
    /\ MaxReplicas \in Nat /\ MaxCalls \in Nat /\ MaxOutside \in Nat

(* The user gives the names of bindings and secrets; the handler that      *)
(* makes an account with its token forms them from the user's name.        *)
NameFor(r) == IF r.op = "create_admin_sa_for_namespace" THEN r.user ELSE r.name

Request(r) ==
    /\ call = Idle /\ Now \in Calls
    /\ call' = [op |-> r.op, ns |-> r.ns, name |-> NameFor(r), user |-> r.user, label |-> r.label, replicas |-> r.replicas,
                todo |-> Handlers[r.op], seen |-> workload, certificate |-> 0]
    /\ UNCHANGED <<objects, workload, answers, outside>>

(* ApiException and ValueError become an error answer; the handlers of     *)
(* labels and replicas let it through to the framework, which answers 500. *)
Answer(ok) ==
    /\ answers' = Append(answers, [op |-> call.op, ns |-> call.ns, user |-> call.user, ok |-> ok,
                                   certificate |-> call.certificate])
    /\ call' = Idle

Raise == Answer(FALSE)

Continue(c) == call' = [c EXCEPT !.todo = Tail(@)] /\ UNCHANGED answers

At(step) == call # Idle /\ call.todo # <<>> /\ Head(call.todo) = step

Finish ==
    /\ call # Idle /\ call.todo = <<>>
    /\ Answer(TRUE)
    /\ UNCHANGED <<objects, workload, outside>>

(* Any call may fail: the API refuses or does not answer, or it has done   *)
(* what was asked and the reply is lost, the one to the last call too.     *)
ApiException ==
    /\ call # Idle
    /\ Raise
    /\ UNCHANGED <<objects, workload, outside>>

Check(step, found) ==
    /\ At(step) /\ found
    /\ Continue(call)
    /\ UNCHANGED <<objects, workload, outside>>

check_ns == Check("check_ns", k8s_check_namespace_exist(call.ns))

check_sa == Check("check_sa", k8s_check_sa_exist(call.ns, call.user))

(* ValueError: the role is missing, and k8s_create_admin_role makes it.    *)
check_role ==
    /\ At("check_role")
    /\ IF k8s_check_role_exist(call.ns) THEN Continue(call)
       ELSE call' = [call EXCEPT !.todo = <<"check_ns", "create_role">> \o Tail(@)] /\ UNCHANGED answers
    /\ UNCHANGED <<objects, workload, outside>>

get_secrets == Check("get_secrets", k8s_check_namespace_exist(call.ns))

-----------------------------------------------------------------------------
(* What kube_api_utils creates.  The API refuses an object whose name is   *)
(* taken, and anything new in a namespace that is not active.              *)

Active == ns[call.ns] = "active"

k8s_create_namespace ==
    /\ At("create_ns") /\ ns[call.ns] = "absent"
    /\ ns' = [ns EXCEPT ![call.ns] = "active"]
    /\ Continue(call)
    /\ UNCHANGED <<accounts, roles, bindings, admins, secrets, quotas, csr, workload, outside>>

k8s_delete_namespace ==
    /\ At("delete_ns") /\ ns[call.ns] # "absent"
    /\ ns' = [ns EXCEPT ![call.ns] = "terminating"]
    /\ Continue(call)
    /\ UNCHANGED <<accounts, roles, bindings, admins, secrets, quotas, csr, workload, outside>>

(* Mutant: an account that exists is taken for the new one.                *)
k8s_create_service_accountMutant ==
    /\ At("create_sa") /\ Active
    /\ accounts' = IF get_service_accounts(call.ns, call.user) # {} THEN accounts
                   ELSE accounts \cup {[ns |-> call.ns, user |-> call.user, by |-> Now]}
    /\ Continue(call)
    /\ UNCHANGED <<ns, roles, bindings, admins, secrets, quotas, csr, workload, outside>>

k8s_create_service_account ==
    /\ At("create_sa") /\ Active /\ get_service_accounts(call.ns, call.user) = {}
    /\ accounts' = accounts \cup {[ns |-> call.ns, user |-> call.user, by |-> Now]}
    /\ Continue(call)
    /\ UNCHANGED <<ns, roles, bindings, admins, secrets, quotas, csr, workload, outside>>

k8s_create_admin_role ==
    /\ At("create_role") /\ Active /\ call.ns \notin roles
    /\ roles' = roles \cup {call.ns}
    /\ Continue(call)
    /\ UNCHANGED <<ns, accounts, bindings, admins, secrets, quotas, csr, workload, outside>>

(* The bindings to both roles share their names, and one user may have     *)
(* several.                                                                *)
create_namespaced_role_binding(step, role) ==
    /\ At(step) /\ Active
    /\ ~\E b \in bindings : b.ns = call.ns /\ b.name = call.name
    /\ bindings' = bindings \cup
         {[ns |-> call.ns, name |-> call.name, user |-> call.user, role |-> role, by |-> Now]}
    /\ Continue(call)
    /\ UNCHANGED <<ns, accounts, roles, admins, secrets, quotas, csr, workload, outside>>

k8s_cluster_admin ==
    /\ At("bind_cluster") /\ ~\E b \in admins : b.name = call.name
    /\ admins' = admins \cup {[name |-> call.name, user |-> call.user, by |-> Now]}
    /\ Continue(call)
    /\ UNCHANGED <<ns, accounts, roles, bindings, secrets, quotas, csr, workload, outside>>

create_namespaced_secret ==
    /\ At("create_secret") /\ Active /\ k8s_get_secrets(call.ns, call.name) = {}
    /\ secrets' = secrets \cup {[ns |-> call.ns, name |-> call.name, owner |-> call.user, by |-> Now]}
    /\ Continue(call)
    /\ UNCHANGED <<ns, accounts, roles, bindings, admins, quotas, csr, workload, outside>>

k8s_add_quota_to_namespace ==
    /\ At("create_quota") /\ Active /\ call.ns \notin quotas
    /\ quotas' = quotas \cup {call.ns}
    /\ Continue(call)
    /\ UNCHANGED <<ns, accounts, roles, bindings, admins, secrets, csr, workload, outside>>

(* Mutant: the request that is stored under the name is kept.              *)
create_csrMutant ==
    /\ At("create_csr")
    /\ csr' = IF \E s \in csr : s.user = call.user THEN csr
              ELSE csr \cup {[user |-> call.user, key |-> Now, state |-> "new"]}
    /\ Continue(call)
    /\ UNCHANGED <<ns, accounts, roles, bindings, admins, secrets, quotas, workload, outside>>

(* k8s_cert_sign_req: a new key is made, its request stored under the      *)
(* user's name, approved, and read back 0.1 s later, signed or not.        *)
create_csr ==
    /\ At("create_csr") /\ ~\E s \in csr : s.user = call.user
    /\ csr' = csr \cup {[user |-> call.user, key |-> Now, state |-> "new"]}
    /\ Continue(call)
    /\ UNCHANGED <<ns, accounts, roles, bindings, admins, secrets, quotas, workload, outside>>

approve_csr ==
    /\ At("approve_csr")
    /\ \E s \in csr :
         /\ s.user = call.user
         /\ csr' = (csr \ {s}) \cup {[s EXCEPT !.state = IF @ = "new" THEN "approved" ELSE @]}
    /\ Continue(call)
    /\ UNCHANGED <<ns, accounts, roles, bindings, admins, secrets, quotas, workload, outside>>

read_csr ==
    /\ At("read_csr")
    /\ \E s \in csr :
         s.user = call.user /\ Continue([call EXCEPT !.certificate = IF s.state = "issued" THEN s.key ELSE 0])
    /\ UNCHANGED <<objects, workload, outside>>

(* The object that was read is changed and sent back whole.  It carries    *)
(* the resource version it was read at, and the API refuses it when the    *)
(* object has changed since.                                               *)
read ==
    /\ At("read")
    /\ Continue([call EXCEPT !.seen = workload])
    /\ UNCHANGED <<objects, workload, outside>>

(* Mutant: the body is sent without the version it was read at.            *)
PatchMutant(step, body) ==
    /\ At(step)
    /\ workload' = [body EXCEPT !.version = workload.version + 1]
    /\ Continue(call)
    /\ UNCHANGED <<objects, outside>>

Patch(step, body) ==
    /\ At(step)
    /\ body.version = workload.version
    /\ workload' = [body EXCEPT !.version = @ + 1]
    /\ Continue(call)
    /\ UNCHANGED <<objects, outside>>

k8s_add_label_to_k8s_deployment == Patch("patch_labels", [call.seen EXCEPT !.labels = @ \cup {call.label}])

k8s_scale_k8s_deployment == Patch("patch_replicas", [call.seen EXCEPT !.replicas = call.replicas])

-----------------------------------------------------------------------------
(* The rest of the cluster.                                                *)

(* The namespace controller empties a deleted namespace, kind by kind in   *)
(* any order, and removes it once nothing is left in it.                   *)
Kinds == {"account", "role", "binding", "secret", "quota"}

collect(n, kind) ==
    /\ ns[n] = "terminating"
    /\ accounts' = {a \in accounts : ~(kind = "account" /\ a.ns = n)}
    /\ roles' = {m \in roles : ~(kind = "role" /\ m = n)}
    /\ bindings' = {b \in bindings : ~(kind = "binding" /\ b.ns = n)}
    /\ secrets' = {s \in secrets : ~(kind = "secret" /\ s.ns = n)}
    /\ quotas' = {m \in quotas : ~(kind = "quota" /\ m = n)}
    /\ UNCHANGED <<ns, admins, csr, workload, call, answers, outside>>

finalize(n) ==
    /\ ns[n] = "terminating"
    /\ n \notin roles \cup quotas
    /\ \A o \in accounts \cup bindings \cup secrets : o.ns # n
    /\ ns' = [ns EXCEPT ![n] = "absent"]
    /\ UNCHANGED <<accounts, roles, bindings, admins, secrets, quotas, csr, workload, call, answers, outside>>

sign(s) ==
    /\ s.state = "approved"
    /\ csr' = (csr \ {s}) \cup {[s EXCEPT !.state = "issued"]}
    /\ UNCHANGED <<ns, accounts, roles, bindings, admins, secrets, quotas, workload, call, answers, outside>>

(* Old requests are cleaned up.                                            *)
clean(s) ==
    /\ s.state = "issued"
    /\ csr' = csr \ {s}
    /\ UNCHANGED <<ns, accounts, roles, bindings, admins, secrets, quotas, workload, call, answers, outside>>

kubectl_delete_namespace(n) ==
    /\ outside < MaxOutside /\ ns[n] = "active"
    /\ ns' = [ns EXCEPT ![n] = "terminating"]
    /\ outside' = outside + 1
    /\ UNCHANGED <<accounts, roles, bindings, admins, secrets, quotas, csr, workload, call, answers>>

(* An operator, an autoscaler or a controller writes the object.           *)
kubectl_scale(k) ==
    /\ outside < MaxOutside
    /\ workload' = [workload EXCEPT !.replicas = k, !.version = @ + 1]
    /\ outside' = outside + 1
    /\ UNCHANGED <<objects, call, answers>>

-----------------------------------------------------------------------------
Init ==
    /\ ns = [n \in Namespaces |-> "absent"]
    /\ accounts = {} /\ roles = {} /\ bindings = {} /\ admins = {} /\ secrets = {} /\ quotas = {} /\ csr = {}
    /\ workload = [labels |-> {}, replicas |-> 0, version |-> 0]
    /\ call = Idle
    /\ answers = <<>>
    /\ outside = 0

Step ==
    \/ Finish \/ ApiException
    \/ check_ns \/ check_sa \/ check_role \/ get_secrets
    \/ k8s_create_namespace \/ k8s_delete_namespace \/ k8s_create_service_account \/ k8s_create_admin_role
    \/ create_namespaced_role_binding("bind_admin", "admin")
    \/ create_namespaced_role_binding("bind_nfvclAdmin", "nfvclAdmin")
    \/ k8s_cluster_admin \/ create_namespaced_secret \/ k8s_add_quota_to_namespace
    \/ create_csr \/ approve_csr \/ read_csr
    \/ read \/ k8s_add_label_to_k8s_deployment \/ k8s_scale_k8s_deployment

Outside ==
    \/ \E n \in Namespaces : finalize(n) \/ kubectl_delete_namespace(n) \/ \E kind \in Kinds : collect(n, kind)
    \/ \E s \in csr : sign(s) \/ clean(s)
    \/ \E k \in 0..MaxReplicas : kubectl_scale(k)

Next ==
    \/ \E r \in Requests : Request(r)
    \/ Step
    \/ Outside

(* The event loop runs the handler it has started; every call has a        *)
(* timeout.                                                                *)
Spec == Init /\ [][Next]_vars /\ WF_vars(Step)

-----------------------------------------------------------------------------
(* A handler that labels or scales sends back all it has read, replicas    *)
(* and labels included, and never undoes what an operator or an autoscaler *)
(* has written in between: the replicas change only to what was asked for, *)
(* and no label is lost.                                                   *)
OwnChangeOnly ==
    [][/\ workload'.replicas # workload.replicas
            => outside' # outside \/ (At("patch_replicas") /\ workload'.replicas = call.replicas)
       /\ workload.labels \subseteq workload'.labels]_vars

OpOf(k) == IF k \in DOMAIN answers THEN answers[k].op ELSE call.op

(* create_admin_sa_for_namespace makes an account, binds it to its role    *)
(* and gives it a token, and may stop anywhere, after a call that was done *)
(* and seemed to fail included.  A token it has made belongs, as long as   *)
(* its namespace is not being deleted, to an account and a binding of the  *)
(* same call: it never goes on with those of an earlier call.              *)
TokenOfOneCall ==
    \A s \in secrets :
      OpOf(s.by) = "create_admin_sa_for_namespace" /\ ns[s.ns] = "active" =>
        /\ [ns |-> s.ns, user |-> s.owner, by |-> s.by] \in accounts
        /\ [ns |-> s.ns, name |-> s.owner, user |-> s.owner, role |-> "admin", by |-> s.by] \in bindings

(* A kubectl user gets a certificate signed for the key of the same        *)
(* answer, also when a request under the same name was there before.       *)
CertificateFitsKey ==
    \A k \in DOMAIN answers : answers[k].certificate \in {0, k}

=============================================================================
