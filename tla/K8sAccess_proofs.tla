-------------------------- MODULE K8sAccess_proofs --------------------------
(***************************************************************************)
(* For any number of calls and writers: a handler that reads an object,    *)
(* changes it and sends it back never undoes another writer's change, a    *)
(* certificate handed out fits its key, and a token comes from one call.   *)
(***************************************************************************)
EXTENDS K8sAccess, SequenceTheorems, TLAPS

(* What is known of an object that was read: it has a version, not later   *)
(* than the object's own, and equal versions mean equal objects.           *)
Seen ==
    call # Idle =>
      /\ "seen" \in DOMAIN call
      /\ DOMAIN call.seen = {"labels", "replicas", "version"}
      /\ call.seen.version \in Nat
      /\ call.seen.version <= workload.version
      /\ call.seen.version = workload.version => call.seen = workload

Versioned ==
    /\ DOMAIN workload = {"labels", "replicas", "version"}
    /\ workload.version \in Nat

IInv == Versioned /\ Seen

(* Every step that leaves the object alone and goes on with what the       *)
(* handler has read, or ends the handler, keeps the invariant.             *)
LEMMA KeepsSeen ==
    ASSUME IInv, UNCHANGED workload,
           \/ call' = Idle
           \/ call # Idle /\ \E t : call' = [call EXCEPT !.todo = t]
    PROVE  IInv'
<1>1. Versioned' BY DEF IInv, Versioned
<1>2. CASE call' = Idle BY <1>1, <1>2 DEF IInv, Seen
<1>3. CASE call # Idle /\ \E t : call' = [call EXCEPT !.todo = t]
  <2>1. PICK t : call' = [call EXCEPT !.todo = t] BY <1>3
  <2>2. DOMAIN call' = DOMAIN call /\ call'.seen = call.seen BY <2>1, <1>3 DEF IInv, Seen
  <2> QED BY <1>1, <1>3, <2>2 DEF IInv, Seen
<1> QED BY <1>2, <1>3

(* A patch that is accepted is the next version of the object.             *)
LEMMA PatchKeeps ==
    ASSUME NEW step, NEW body, IInv, Patch(step, body),
           DOMAIN body = {"labels", "replicas", "version"},
           body.version = call.seen.version
    PROVE  IInv'
<1>1. call # Idle BY DEF Patch, At
<1>2. /\ body.version = workload.version
      /\ workload' = [body EXCEPT !.version = @ + 1]
      /\ call' = [call EXCEPT !.todo = Tail(@)]
      BY DEF Patch, Continue
<1>3. Versioned'
  BY <1>2 DEF IInv, Versioned
<1>4. workload'.version = workload.version + 1 BY <1>2
<1>5. DOMAIN call' = DOMAIN call /\ call'.seen = call.seen BY <1>1, <1>2 DEF IInv, Seen
<1> QED BY <1>1, <1>3, <1>4, <1>5 DEF IInv, Seen, Versioned

LEMMA LabelBody ==
    ASSUME IInv, call # Idle
    PROVE  LET body == [call.seen EXCEPT !.labels = @ \cup {call.label}]
           IN  /\ DOMAIN body = {"labels", "replicas", "version"}
               /\ body.version = call.seen.version
               /\ body.replicas = call.seen.replicas
               /\ body.labels = call.seen.labels \cup {call.label}
BY DEF IInv, Seen

LEMMA ScaleBody ==
    ASSUME IInv, call # Idle
    PROVE  LET body == [call.seen EXCEPT !.replicas = call.replicas]
           IN  /\ DOMAIN body = {"labels", "replicas", "version"}
               /\ body.version = call.seen.version
               /\ body.replicas = call.replicas
               /\ body.labels = call.seen.labels
BY DEF IInv, Seen

(* The steps of a handler that are not a read, a certificate or a patch.   *)
PlainStep ==
    \/ Finish \/ ApiException
    \/ check_ns \/ check_sa \/ check_role \/ get_secrets
    \/ k8s_create_namespace \/ k8s_delete_namespace \/ k8s_create_service_account \/ k8s_create_admin_role
    \/ create_namespaced_role_binding("bind_admin", "admin")
    \/ create_namespaced_role_binding("bind_nfvclAdmin", "nfvclAdmin")
    \/ k8s_cluster_admin \/ create_namespaced_secret \/ k8s_add_quota_to_namespace
    \/ create_csr \/ approve_csr

LEMMA PlainStepKeeps == ASSUME IInv, PlainStep PROVE IInv' /\ UNCHANGED workload
<1>1. UNCHANGED workload
  BY DEF PlainStep, Finish, ApiException, check_ns, check_sa, check_role, get_secrets, Check,
         k8s_create_namespace, k8s_delete_namespace, k8s_create_service_account, k8s_create_admin_role,
         create_namespaced_role_binding, k8s_cluster_admin, create_namespaced_secret,
         k8s_add_quota_to_namespace, create_csr, approve_csr
<1>2. \/ call' = Idle
      \/ call # Idle /\ \E t : call' = [call EXCEPT !.todo = t]
  BY DEF PlainStep, Finish, ApiException, check_ns, check_sa, check_role, get_secrets, Check, At, Continue,
         Raise, Answer,
         k8s_create_namespace, k8s_delete_namespace, k8s_create_service_account, k8s_create_admin_role,
         create_namespaced_role_binding, k8s_cluster_admin, create_namespaced_secret,
         k8s_add_quota_to_namespace, create_csr, approve_csr
<1> QED BY <1>1, <1>2, KeepsSeen

LEMMA StepCases ==
    Step => \/ PlainStep \/ read_csr \/ read
            \/ k8s_add_label_to_k8s_deployment \/ k8s_scale_k8s_deployment
BY DEF Step, PlainStep

LEMMA NextKeeps == IInv /\ [Next]_vars => IInv'
<1> SUFFICES ASSUME IInv, [Next]_vars PROVE IInv' OBVIOUS
<1>1. CASE \E r \in Requests : Request(r)
  <2>1. PICK r \in Requests : Request(r) BY <1>1
  <2>2. /\ UNCHANGED workload
        /\ "seen" \in DOMAIN call' /\ call'.seen = workload
        BY <2>1 DEF Request
  <2> QED BY <2>2 DEF IInv, Versioned, Seen
<1>2. CASE PlainStep BY <1>2, PlainStepKeeps
<1>3. CASE read_csr
  <2>1. call # Idle /\ UNCHANGED workload BY <1>3 DEF read_csr, At
  <2>2. PICK s \in csr : Continue([call EXCEPT !.certificate = IF s.state = "issued" THEN s.key ELSE 0])
    BY <1>3 DEF read_csr
  <2>3. DOMAIN call' = DOMAIN call /\ call'.seen = call.seen BY <2>1, <2>2 DEF Continue, IInv, Seen
  <2> QED BY <2>1, <2>3 DEF IInv, Seen, Versioned
<1>4. CASE read
  <2>1. call # Idle /\ UNCHANGED workload BY <1>4 DEF read, At
  <2>2. Continue([call EXCEPT !.seen = workload]) BY <1>4 DEF read
  <2>3. DOMAIN call' = DOMAIN call /\ call'.seen = workload BY <2>1, <2>2 DEF Continue, IInv, Seen
  <2> QED BY <2>1, <2>3 DEF IInv, Seen, Versioned
<1>5. CASE k8s_add_label_to_k8s_deployment
  <2>1. call # Idle BY <1>5 DEF k8s_add_label_to_k8s_deployment, Patch, At
  <2> QED BY <1>5, <2>1, LabelBody, PatchKeeps DEF k8s_add_label_to_k8s_deployment
<1>6. CASE k8s_scale_k8s_deployment
  <2>1. call # Idle BY <1>6 DEF k8s_scale_k8s_deployment, Patch, At
  <2> QED BY <1>6, <2>1, ScaleBody, PatchKeeps DEF k8s_scale_k8s_deployment
<1>7. CASE Outside
  <2>1. UNCHANGED call BY <1>7 DEF Outside, finalize, collect, kubectl_delete_namespace, sign, clean, kubectl_scale
  <2>2. CASE UNCHANGED workload BY <2>1, <2>2 DEF IInv, Versioned, Seen
  <2>3. CASE \E k \in 0..MaxReplicas : kubectl_scale(k)
    <3>1. PICK k \in 0..MaxReplicas : kubectl_scale(k) BY <2>3
    <3>2. workload' = [workload EXCEPT !.replicas = k, !.version = @ + 1] BY <3>1 DEF kubectl_scale
    <3>3. DOMAIN workload' = DOMAIN workload /\ workload'.version = workload.version + 1
      BY <3>2 DEF IInv, Versioned
    <3> QED BY <2>1, <3>3 DEF IInv, Versioned, Seen
  <2> QED BY <1>7, <2>2, <2>3 DEF Outside, finalize, collect, kubectl_delete_namespace, sign, clean
<1>8. CASE UNCHANGED vars BY <1>8 DEF vars, IInv, Versioned, Seen
<1> QED BY <1>1, <1>2, <1>3, <1>4, <1>5, <1>6, <1>7, <1>8, StepCases DEF Next

LEMMA InitHolds == Init => IInv /\ outside \in Nat
BY DEF Init, IInv, Versioned, Seen

(* The count of the others' changes is a number: a change of theirs is     *)
(* told from a change of a handler.                                        *)
LEMMA OutsideCounts == outside \in Nat /\ [Next]_vars => outside' \in Nat
<1> SUFFICES ASSUME outside \in Nat, [Next]_vars PROVE outside' \in Nat OBVIOUS
<1>1. CASE UNCHANGED vars BY <1>1 DEF vars
<1>2. CASE \E r \in Requests : Request(r) BY <1>2 DEF Request
<1>3. CASE Step
  <2>1. UNCHANGED outside
    BY <1>3
    DEF Step, Finish, ApiException, check_ns, check_sa, check_role, get_secrets, Check,
        k8s_create_namespace, k8s_delete_namespace, k8s_create_service_account, k8s_create_admin_role,
        create_namespaced_role_binding, k8s_cluster_admin, create_namespaced_secret,
        k8s_add_quota_to_namespace, create_csr, approve_csr, read_csr, read, k8s_add_label_to_k8s_deployment,
        k8s_scale_k8s_deployment, Patch
  <2> QED BY <2>1
<1>4. CASE Outside
  <2>1. UNCHANGED outside \/ outside' = outside + 1
    <3>1. CASE \E n \in Namespaces : finalize(n) \/ kubectl_delete_namespace(n) \/ \E kind \in Kinds : collect(n, kind)
      BY <3>1 DEF finalize, collect, kubectl_delete_namespace
    <3>2. CASE \E s \in csr : sign(s) \/ clean(s) BY <3>2 DEF sign, clean
    <3>3. CASE \E k \in 0..MaxReplicas : kubectl_scale(k) BY <3>3 DEF kubectl_scale
    <3> QED BY <1>4, <3>1, <3>2, <3>3 DEF Outside
  <2> QED BY <2>1
<1> QED BY <1>1, <1>2, <1>3, <1>4 DEF Next

(* What one step may do to the object.                                     *)
OwnChange ==
    /\ workload'.replicas # workload.replicas
         => outside' # outside \/ (At("patch_replicas") /\ workload'.replicas = call.replicas)
    /\ workload.labels \subseteq workload'.labels

LEMMA StepIsOwnChange == IInv /\ outside \in Nat /\ Next => OwnChange
<1> SUFFICES ASSUME IInv, outside \in Nat, Next PROVE OwnChange OBVIOUS
<1>1. CASE UNCHANGED workload BY <1>1 DEF OwnChange
<1>2. CASE k8s_add_label_to_k8s_deployment
  <2> DEFINE body == [call.seen EXCEPT !.labels = @ \cup {call.label}]
  <2>1. call # Idle /\ body.version = workload.version /\ workload' = [body EXCEPT !.version = @ + 1]
    BY <1>2 DEF k8s_add_label_to_k8s_deployment, Patch, At
  <2>2. /\ DOMAIN body = {"labels", "replicas", "version"} /\ body.version = call.seen.version
        /\ body.replicas = call.seen.replicas /\ body.labels = call.seen.labels \cup {call.label}
    BY <2>1, LabelBody
  <2>3. call.seen = workload BY <2>1, <2>2 DEF IInv, Seen
  <2> HIDE DEF body
  <2>4. workload'.replicas = body.replicas /\ workload'.labels = body.labels BY <2>1, <2>2
  <2> QED BY <2>2, <2>3, <2>4 DEF OwnChange
<1>3. CASE k8s_scale_k8s_deployment
  <2> DEFINE body == [call.seen EXCEPT !.replicas = call.replicas]
  <2>1. /\ call # Idle /\ body.version = workload.version /\ workload' = [body EXCEPT !.version = @ + 1]
        /\ At("patch_replicas")
    BY <1>3 DEF k8s_scale_k8s_deployment, Patch, At
  <2>2. /\ DOMAIN body = {"labels", "replicas", "version"} /\ body.version = call.seen.version
        /\ body.replicas = call.replicas /\ body.labels = call.seen.labels
    BY <2>1, ScaleBody
  <2>3. call.seen = workload BY <2>1, <2>2 DEF IInv, Seen
  <2> HIDE DEF body
  <2>4. workload'.replicas = body.replicas /\ workload'.labels = body.labels BY <2>1, <2>2
  <2> QED BY <2>1, <2>2, <2>3, <2>4 DEF OwnChange
<1>4. CASE \E k \in 0..MaxReplicas : kubectl_scale(k)
  <2>1. PICK k \in 0..MaxReplicas : kubectl_scale(k) BY <1>4
  <2>2. workload' = [workload EXCEPT !.replicas = k, !.version = @ + 1] /\ outside' = outside + 1
    BY <2>1 DEF kubectl_scale
  <2>3. workload'.labels = workload.labels BY <2>2 DEF IInv, Versioned
  <2>4. outside' # outside BY <2>2
  <2> QED BY <2>3, <2>4 DEF OwnChange
<1>5. CASE PlainStep BY <1>5, PlainStepKeeps DEF OwnChange
<1> QED
  BY <1>1, <1>2, <1>3, <1>4, <1>5, StepCases
  DEF Next, Request, read_csr, read, Outside, finalize, collect, kubectl_delete_namespace, sign, clean

(* Spec implies OwnChangeOnly: labelling or scaling a deployment through   *)
(* the REST interface never undoes what another writer did between the     *)
(* handler's read and its patch, for any number of writers and calls.      *)
THEOREM NeverUndone == Spec => OwnChangeOnly
<1> DEFINE Counted == outside \in Nat
<1>1. Spec => [](IInv /\ Counted)
  <2>1. Init => IInv /\ Counted BY InitHolds
  <2>2. IInv /\ Counted /\ [Next]_vars => IInv' /\ Counted' BY NextKeeps, OutsideCounts
  <2> HIDE DEF Counted
  <2> QED BY <2>1, <2>2, PTL DEF Spec
<1>2. IInv /\ Counted /\ [Next]_vars => [OwnChange]_vars BY StepIsOwnChange
<1> HIDE DEF Counted
<1> QED BY <1>1, <1>2, PTL DEF Spec, OwnChangeOnly, OwnChange

-----------------------------------------------------------------------------
(* Types.                                                                  *)

ApiStep ==
    {"check_ns", "check_sa", "check_role", "get_secrets", "create_ns", "delete_ns", "create_sa", "create_role",
     "bind_admin", "bind_nfvclAdmin", "bind_cluster", "create_secret", "create_quota",
     "create_csr", "approve_csr", "read_csr", "read", "patch_labels", "patch_replicas"}

Workload == [labels : SUBSET Labels, replicas : 0..MaxReplicas, version : Nat]

CallType ==
    [op : DOMAIN Handlers, ns : Namespaces, name : Names, user : Users, label : Labels, replicas : 0..MaxReplicas,
     todo : Seq(ApiStep), seen : Workload, certificate : {0} \cup Calls]

AnswerType ==
    [op : DOMAIN Handlers, ns : Namespaces, user : Users, ok : BOOLEAN, certificate : {0} \cup Calls]

(* The type invariant, with the types of the call and of the answers.      *)
Typed ==
    /\ TypeOK
    /\ workload \in Workload
    /\ call \in CallType \cup {Idle}
    /\ call # Idle => call \in CallType /\ Now \in Calls
    /\ answers \in Seq(AnswerType)

(* What a concatenation holds.                                             *)
LEMMA Concatenated ==
    ASSUME NEW S, NEW s \in Seq(S), NEW t \in Seq(S), NEW st, st = s \o t
    PROVE  /\ st \in Seq(S) /\ Len(st) = Len(s) + Len(t)
           /\ \A i \in 1..(Len(s) + Len(t)) : st[i] = IF i <= Len(s) THEN s[i] ELSE t[i - Len(s)]
BY ConcatProperties, Zenon

(* The calls of the handler that makes an account, one by one.             *)
LEMMA AdminSteps ==
    LET h == create_admin_sa_for_namespace
    IN  /\ h \in Seq(ApiStep) /\ Len(h) = 8
        /\ h[1] = "create_sa" /\ h[2] = "check_ns" /\ h[3] = "check_sa" /\ h[4] = "bind_admin"
        /\ h[5] = "check_ns" /\ h[6] = "check_sa" /\ h[7] = "create_secret" /\ h[8] = "get_secrets"
<1>pa. PICK a : a = <<"create_sa">>
  OBVIOUS
<1>pb. PICK b : b = k8s_admin_role_to_sa
  OBVIOUS
<1>pc. PICK c : c = k8s_create_secret_for_user
  OBVIOUS
<1>pd. PICK d : d = <<"get_secrets">>
  OBVIOUS
<1>pab. PICK ab : ab = a \o b
  OBVIOUS
<1>pabc. PICK abc : abc = ab \o c
  OBVIOUS
<1>pabcd. PICK abcd : abcd = abc \o d
  OBVIOUS
<1>1. create_admin_sa_for_namespace = abcd
  BY <1>pa, <1>pb, <1>pc, <1>pd, <1>pab, <1>pabc, <1>pabcd DEF create_admin_sa_for_namespace
<1>2. /\ a \in Seq(ApiStep) /\ Len(a) = 1 /\ a[1] = "create_sa"
      /\ b \in Seq(ApiStep) /\ Len(b) = 3 /\ b[1] = "check_ns" /\ b[2] = "check_sa" /\ b[3] = "bind_admin"
      /\ c \in Seq(ApiStep) /\ Len(c) = 3 /\ c[1] = "check_ns" /\ c[2] = "check_sa" /\ c[3] = "create_secret"
      /\ d \in Seq(ApiStep) /\ Len(d) = 1 /\ d[1] = "get_secrets"
  BY <1>pa, <1>pb, <1>pc, <1>pd DEF ApiStep, k8s_admin_role_to_sa, k8s_create_secret_for_user
<1>3. /\ ab \in Seq(ApiStep) /\ Len(ab) = 4
      /\ ab[1] = a[1] /\ ab[2] = b[1] /\ ab[3] = b[2] /\ ab[4] = b[3]
  <2>0. a \in Seq(ApiStep) /\ b \in Seq(ApiStep)
    BY <1>2
  <2>1. ab \in Seq(ApiStep) /\ Len(ab) = Len(a) + Len(b)
    BY <2>0, <1>pab, Concatenated
  <2>2. \A i \in 1..(Len(a) + Len(b)) : ab[i] = IF i <= Len(a) THEN a[i] ELSE b[i - Len(a)]
    BY <2>0, <1>pab, Concatenated
  <2> QED BY <1>2, <2>1, <2>2
<1>4. /\ abc \in Seq(ApiStep) /\ Len(abc) = 7
      /\ abc[1] = ab[1] /\ abc[2] = ab[2] /\ abc[3] = ab[3] /\ abc[4] = ab[4]
      /\ abc[5] = c[1] /\ abc[6] = c[2] /\ abc[7] = c[3]
  <2>0. ab \in Seq(ApiStep) /\ c \in Seq(ApiStep)
    BY <1>2, <1>3
  <2>1. abc \in Seq(ApiStep) /\ Len(abc) = Len(ab) + Len(c)
    BY <2>0, <1>pabc, Concatenated
  <2>2. \A i \in 1..(Len(ab) + Len(c)) : abc[i] = IF i <= Len(ab) THEN ab[i] ELSE c[i - Len(ab)]
    BY <2>0, <1>pabc, Concatenated
  <2> QED BY <1>2, <1>3, <2>1, <2>2
<1>5. /\ abcd \in Seq(ApiStep) /\ Len(abcd) = 8
      /\ abcd[1] = abc[1] /\ abcd[2] = abc[2] /\ abcd[3] = abc[3] /\ abcd[4] = abc[4]
      /\ abcd[5] = abc[5] /\ abcd[6] = abc[6] /\ abcd[7] = abc[7] /\ abcd[8] = d[1]
  <2>0. abc \in Seq(ApiStep) /\ d \in Seq(ApiStep)
    BY <1>2, <1>4
  <2>1. abcd \in Seq(ApiStep) /\ Len(abcd) = Len(abc) + Len(d)
    BY <2>0, <1>pabcd, Concatenated
  <2>2. \A i \in 1..(Len(abc) + Len(d)) : abcd[i] = IF i <= Len(abc) THEN abc[i] ELSE d[i - Len(abc)]
    BY <2>0, <1>pabcd, Concatenated
  <2> QED BY <1>2, <1>4, <2>1, <2>2
<1> QED BY <1>1, <1>2, <1>3, <1>4, <1>5

(* A handler is a sequence of calls, and only kubectl users have           *)
(* certificates read.                                                      *)
LEMMA HandlerSteps ==
    \A op \in DOMAIN Handlers :
      /\ Handlers[op] \in Seq(ApiStep)
      /\ op # "create_k8s_kubectl_user" => \A i \in 1..Len(Handlers[op]) : Handlers[op][i] # "read_csr"
<1> DEFINE Plain(h) == h \in Seq(ApiStep) /\ \A i \in 1..Len(h) : h[i] # "read_csr"
<1>1. Plain(create_admin_sa_for_namespace)
  <2> DEFINE h == create_admin_sa_for_namespace
  <2>1. \A i \in 1..8 : h[i] # "read_csr"
    BY AdminSteps
  <2> QED BY <2>1, AdminSteps
<1>2. Plain(create_k8s_namespace) /\ Plain(delete_k8s_namespace) /\ Plain(create_service_account)
  BY DEF ApiStep, create_k8s_namespace, delete_k8s_namespace, create_service_account
<1>3. Plain(give_admin_rights_to_sa)
  BY DEF ApiStep, give_admin_rights_to_sa, k8s_admin_role_to_sa
<1>4. Plain(give_admin_rights_to_user_namespaced)
  BY DEF ApiStep, give_admin_rights_to_user_namespaced, k8s_admin_role_over_namespace
<1>5. Plain(give_cluster_admin_rights) /\ Plain(apply_resource_quota_namespace)
  BY DEF ApiStep, give_cluster_admin_rights, apply_resource_quota_namespace
<1>6. Plain(create_secret_for_sa)
  BY DEF ApiStep, create_secret_for_sa, k8s_create_secret_for_user
<1>7. Plain(add_label_to_k8s_node) /\ Plain(add_label_to_k8s_deployment) /\ Plain(scale_k8s_deployment)
  BY DEF ApiStep, add_label_to_k8s_node, add_label_to_k8s_deployment, scale_k8s_deployment
<1>8. create_k8s_kubectl_user \in Seq(ApiStep)
  BY DEF ApiStep, create_k8s_kubectl_user, k8s_cert_sign_req
<1> HIDE DEF Plain
<1>9. \A op \in DOMAIN Handlers : Plain(Handlers[op]) \/ (op = "create_k8s_kubectl_user" /\ Handlers[op] \in Seq(ApiStep))
  BY <1>1, <1>2, <1>3, <1>4, <1>5, <1>6, <1>7, <1>8 DEF Handlers
<1> QED BY <1>9 DEF Plain

(* A handler that goes on.                                                 *)
LEMMA CallGoesOn ==
    ASSUME NEW c \in CallType, c.todo # <<>>
    PROVE  LET d == [c EXCEPT !.todo = Tail(@)]
           IN  /\ d \in CallType /\ d # Idle
               /\ d.op = c.op /\ d.ns = c.ns /\ d.name = c.name /\ d.user = c.user
               /\ d.certificate = c.certificate /\ d.todo = Tail(c.todo)
<1> DEFINE S == Seq(ApiStep)
           C == {0} \cup Calls
           W == Workload
<1>1. CallType = [op : DOMAIN Handlers, ns : Namespaces, name : Names, user : Users, label : Labels, replicas : 0..MaxReplicas,
                  todo : S, seen : W, certificate : C]
  BY DEF CallType
<1>2. Tail(c.todo) \in S
  BY DEF CallType
<1> HIDE DEF S, C, W
<1>3. "ns" \notin DOMAIN Idle
  BY DEF Idle
<1> QED BY <1>1, <1>2, <1>3

(* The answer of a handler.                                                *)
LEMMA AnswerTyped ==
    ASSUME Typed, call # Idle, NEW ok \in BOOLEAN, Answer(ok)
    PROVE  /\ call' = Idle /\ answers' \in Seq(AnswerType) /\ Len(answers') = Len(answers) + 1
           /\ Len(answers) \in Nat
           /\ \A k \in 1..Len(answers) : answers'[k] = answers[k]
           /\ answers'[Now].op = call.op /\ answers'[Now].certificate = call.certificate
<1> DEFINE a == [op |-> call.op, ns |-> call.ns, user |-> call.user, ok |-> ok, certificate |-> call.certificate]
<1>1. call \in CallType /\ answers \in Seq(AnswerType)
  BY DEF Typed
<1>2. a \in AnswerType /\ a.op = call.op /\ a.certificate = call.certificate
  BY <1>1 DEF CallType, AnswerType
<1>3. answers' = Append(answers, a) /\ call' = Idle
  BY DEF Answer
<1> HIDE DEF a
<1> QED BY <1>1, <1>2, <1>3 DEF Now

(* The handler ends with an answer.                                        *)
Answering == call # Idle /\ (\E ok \in BOOLEAN : Answer(ok)) /\ UNCHANGED <<objects, workload>>

(* The handler has made a call and goes on.                                *)
GoingOn ==
    /\ call # Idle /\ call.todo # <<>>
    /\ call' \in CallType /\ call' # Idle /\ answers' = answers
    /\ call'.op = call.op /\ call'.ns = call.ns /\ call'.name = call.name /\ call'.user = call.user
    /\ \/ call'.todo = Tail(call.todo)
       \/ At("check_role") /\ call'.todo = <<"check_ns", "create_role">> \o Tail(call.todo)
    /\ \/ call'.certificate = call.certificate
       \/ At("read_csr") /\ \E s \in csr : s.user = call.user /\ call'.certificate \in {0, s.key}

(* A handler with other calls to make.                                     *)
LEMMA WithTodo ==
    ASSUME NEW c \in CallType, NEW x \in Seq(ApiStep)
    PROVE  LET d == [c EXCEPT !.todo = x]
           IN  /\ d \in CallType /\ d.todo = x
               /\ d.op = c.op /\ d.ns = c.ns /\ d.name = c.name /\ d.user = c.user /\ d.certificate = c.certificate
<1> DEFINE S == Seq(ApiStep)
           C == {0} \cup Calls
           W == Workload
<1>1. CallType = [op : DOMAIN Handlers, ns : Namespaces, name : Names, user : Users, label : Labels, replicas : 0..MaxReplicas,
                  todo : S, seen : W, certificate : C]
  BY DEF CallType
<1>2. x \in S
  OBVIOUS
<1> HIDE DEF S, C, W
<1> QED BY <1>1, <1>2

(* A handler with the certificate it has read.                             *)
LEMMA WithCertificate ==
    ASSUME NEW c \in CallType, NEW x \in {0} \cup Calls
    PROVE  LET d == [c EXCEPT !.certificate = x]
           IN  /\ d \in CallType /\ d.certificate = x
               /\ d.op = c.op /\ d.ns = c.ns /\ d.name = c.name /\ d.user = c.user /\ d.todo = c.todo
<1> DEFINE S == Seq(ApiStep)
           C == {0} \cup Calls
           W == Workload
<1>1. CallType = [op : DOMAIN Handlers, ns : Namespaces, name : Names, user : Users, label : Labels, replicas : 0..MaxReplicas,
                  todo : S, seen : W, certificate : C]
  BY DEF CallType
<1>2. x \in C
  OBVIOUS
<1> HIDE DEF S, C, W
<1> QED BY <1>1, <1>2

(* A handler with the object it has read.                                  *)
LEMMA WithSeen ==
    ASSUME NEW c \in CallType, NEW x \in Workload
    PROVE  LET d == [c EXCEPT !.seen = x]
           IN  /\ d \in CallType /\ d.seen = x
               /\ d.op = c.op /\ d.ns = c.ns /\ d.name = c.name /\ d.user = c.user /\ d.todo = c.todo /\ d.certificate = c.certificate
<1> DEFINE S == Seq(ApiStep)
           C == {0} \cup Calls
           W == Workload
<1>1. CallType = [op : DOMAIN Handlers, ns : Namespaces, name : Names, user : Users, label : Labels, replicas : 0..MaxReplicas,
                  todo : S, seen : W, certificate : C]
  BY DEF CallType
<1>2. x \in W
  OBVIOUS
<1> HIDE DEF S, C, W
<1> QED BY <1>1, <1>2

(* A call after which nothing but the rest of the handler is left.         *)
LEMMA ContinueGoesOn ==
    ASSUME Typed, call # Idle, call.todo # <<>>, Continue(call)
    PROVE  GoingOn
<1>1. call \in CallType
  BY DEF Typed
<1>2. answers' = answers /\ call' = [call EXCEPT !.todo = Tail(@)]
  BY DEF Continue
<1> QED BY <1>1, <1>2, CallGoesOn DEF GoingOn

(* No handler is running or one is.                                        *)
LEMMA IdleIsNoCall == Idle \notin CallType
<1>1. \A c \in CallType : "ns" \in DOMAIN c
  BY DEF CallType
<1>2. "ns" \notin DOMAIN Idle
  BY DEF Idle
<1> QED BY <1>1, <1>2

(* Every step of a handler is one or the other.                            *)
LEMMA StepShape ==
    ASSUME Typed, Step
    PROVE  Answering \/ GoingOn
<1>0. call # Idle => call \in CallType
  BY DEF Typed
<1>1. CASE Finish \/ ApiException
  BY <1>1 DEF Finish, ApiException, Raise, Answering
<1>2. CASE check_ns \/ check_sa \/ get_secrets \/ k8s_create_namespace \/ k8s_delete_namespace
  BY <1>2, ContinueGoesOn DEF check_ns, check_sa, get_secrets, Check, At, k8s_create_namespace, k8s_delete_namespace
<1>3. CASE k8s_create_service_account \/ k8s_create_admin_role \/ k8s_cluster_admin \/ create_namespaced_secret
  BY <1>3, ContinueGoesOn DEF k8s_create_service_account, k8s_create_admin_role, k8s_cluster_admin, create_namespaced_secret, At
<1>4. CASE \/ create_namespaced_role_binding("bind_admin", "admin")
           \/ create_namespaced_role_binding("bind_nfvclAdmin", "nfvclAdmin")
  BY <1>4, ContinueGoesOn DEF create_namespaced_role_binding, At
<1>5. CASE k8s_add_quota_to_namespace \/ create_csr \/ approve_csr
  BY <1>5, ContinueGoesOn DEF k8s_add_quota_to_namespace, create_csr, approve_csr, At
<1>6. CASE k8s_add_label_to_k8s_deployment \/ k8s_scale_k8s_deployment
  BY <1>6, ContinueGoesOn DEF k8s_add_label_to_k8s_deployment, k8s_scale_k8s_deployment, Patch, At
<1>7. CASE check_role
  <2>1. At("check_role") /\ call # Idle /\ call.todo # <<>>
    BY <1>7 DEF check_role, At
  <2>2. CASE Continue(call)
    BY <2>1, <2>2, ContinueGoesOn
  <2>3. CASE ~ Continue(call)
    <3>1. answers' = answers /\ call' = [call EXCEPT !.todo = <<"check_ns", "create_role">> \o Tail(@)]
      BY <1>7, <2>3 DEF check_role
    <3>2. Tail(call.todo) \in Seq(ApiStep) /\ <<"check_ns", "create_role">> \in Seq(ApiStep)
      BY <1>0, <2>1 DEF CallType, ApiStep
    <3>3. PICK t : t = <<"check_ns", "create_role">> \o Tail(call.todo)
      OBVIOUS
    <3>4. t \in Seq(ApiStep)
      BY <3>2, <3>3, Concatenated
    <3>5. call' = [call EXCEPT !.todo = t]
      BY <3>1, <3>3
    <3>6. call' \in CallType /\ call'.op = call.op /\ call'.ns = call.ns /\ call'.name = call.name /\ call'.user = call.user
          /\ call'.todo = t /\ call'.certificate = call.certificate
      BY <1>0, <2>1, <3>4, <3>5, WithTodo
    <3> QED BY <2>1, <3>1, <3>3, <3>6, IdleIsNoCall DEF GoingOn
  <2> QED BY <2>2, <2>3
<1>8. CASE read_csr
  <2>1. At("read_csr") /\ call # Idle /\ call.todo # <<>>
    BY <1>8 DEF read_csr, At
  <2>2. PICK s \in csr : s.user = call.user /\ Continue([call EXCEPT !.certificate = IF s.state = "issued" THEN s.key ELSE 0])
    BY <1>8 DEF read_csr
  <2> DEFINE x == IF s.state = "issued" THEN s.key ELSE 0
             c == [call EXCEPT !.certificate = x]
  <2>3. x \in {0} \cup Calls /\ x \in {0, s.key}
    BY <2>2 DEF Typed, TypeOK
  <2> HIDE DEF x
  <2>4. c \in CallType /\ c.op = call.op /\ c.ns = call.ns /\ c.name = call.name /\ c.user = call.user /\ c.todo = call.todo /\ c.certificate = x
    BY <1>0, <2>1, <2>3, WithCertificate
  <2>5. answers' = answers /\ call' = [c EXCEPT !.todo = Tail(@)]
    BY <2>2 DEF Continue, x
  <2> HIDE DEF c
  <2> QED BY <2>1, <2>2, <2>3, <2>4, <2>5, CallGoesOn DEF GoingOn
<1>9. CASE read
  <2>1. call # Idle /\ call.todo # <<>> /\ Continue([call EXCEPT !.seen = workload])
    BY <1>9 DEF read, At
  <2> DEFINE c == [call EXCEPT !.seen = workload]
  <2>2. workload \in Workload
    BY DEF Typed
  <2>3. c \in CallType /\ c.op = call.op /\ c.ns = call.ns /\ c.name = call.name /\ c.user = call.user /\ c.todo = call.todo
        /\ c.certificate = call.certificate
    BY <1>0, <2>1, <2>2, WithSeen
  <2>4. answers' = answers /\ call' = [c EXCEPT !.todo = Tail(@)]
    BY <2>1 DEF Continue
  <2> HIDE DEF c
  <2> QED BY <2>1, <2>3, <2>4, CallGoesOn DEF GoingOn
<1> QED BY <1>1, <1>2, <1>3, <1>4, <1>5, <1>6, <1>7, <1>8, <1>9 DEF Step

(* The types of the objects of the cluster.                                *)
ObjectsOK ==
    /\ ns \in [Namespaces -> {"absent", "active", "terminating"}]
    /\ accounts \subseteq [ns : Namespaces, user : Users, by : Calls]
    /\ roles \subseteq Namespaces
    /\ bindings \subseteq [ns : Namespaces, name : Names, user : Users, role : {"admin", "nfvclAdmin"}, by : Calls]
    /\ admins \subseteq [name : Names, user : Users, by : Calls]
    /\ secrets \subseteq [ns : Namespaces, name : Names, owner : Users, by : Calls]
    /\ quotas \subseteq Namespaces
    /\ csr \subseteq [user : Users, key : Calls, state : {"new", "approved", "issued"}]

(* What a call of a handler does to the objects.                           *)
LEMMA StepObjects ==
    ASSUME Typed, Step
    PROVE  ObjectsOK'
<1>0. /\ ObjectsOK /\ workload \in Workload
      /\ (call # Idle => call.ns \in Namespaces /\ call.name \in Names /\ call.user \in Users /\ Now \in Calls)
  BY DEF Typed, TypeOK, ObjectsOK, CallType
<1>1. CASE UNCHANGED objects
  BY <1>0, <1>1 DEF objects, ObjectsOK
<1>2. CASE k8s_create_namespace \/ k8s_delete_namespace
  BY <1>0, <1>2 DEF ObjectsOK, k8s_create_namespace, k8s_delete_namespace, At
<1>3. CASE k8s_create_service_account
  BY <1>0, <1>3 DEF ObjectsOK, k8s_create_service_account, At
<1>4. CASE k8s_create_admin_role
  BY <1>0, <1>4 DEF ObjectsOK, k8s_create_admin_role, At
<1>5. CASE create_namespaced_role_binding("bind_admin", "admin")
  BY <1>0, <1>5 DEF ObjectsOK, create_namespaced_role_binding, At
<1>6. CASE create_namespaced_role_binding("bind_nfvclAdmin", "nfvclAdmin")
  BY <1>0, <1>6 DEF ObjectsOK, create_namespaced_role_binding, At
<1>7. CASE k8s_cluster_admin
  BY <1>0, <1>7 DEF ObjectsOK, k8s_cluster_admin, At
<1>8. CASE create_namespaced_secret
  BY <1>0, <1>8 DEF ObjectsOK, create_namespaced_secret, At
<1>9. CASE k8s_add_quota_to_namespace
  BY <1>0, <1>9 DEF ObjectsOK, k8s_add_quota_to_namespace, At
<1>10. CASE create_csr
  BY <1>0, <1>10 DEF ObjectsOK, create_csr, At
<1>11. CASE approve_csr
  <2>1. PICK s \in csr : csr' = (csr \ {s}) \cup {[s EXCEPT !.state = IF @ = "new" THEN "approved" ELSE @]}
    BY <1>11 DEF approve_csr
  <2>2. s \in [user : Users, key : Calls, state : {"new", "approved", "issued"}]
    BY <1>0 DEF ObjectsOK
  <2>3. [s EXCEPT !.state = IF @ = "new" THEN "approved" ELSE @]
          \in [user : Users, key : Calls, state : {"new", "approved", "issued"}]
    BY <2>2
  <2> QED BY <1>0, <1>11, <2>1, <2>3 DEF ObjectsOK, approve_csr
<1>12. Step => \/ UNCHANGED objects \/ k8s_create_namespace \/ k8s_delete_namespace
               \/ k8s_create_service_account \/ k8s_create_admin_role
               \/ create_namespaced_role_binding("bind_admin", "admin")
               \/ create_namespaced_role_binding("bind_nfvclAdmin", "nfvclAdmin")
               \/ k8s_cluster_admin \/ create_namespaced_secret \/ k8s_add_quota_to_namespace
               \/ create_csr \/ approve_csr
  BY DEF Step, Finish, ApiException, check_ns, check_sa, check_role, get_secrets, Check, read_csr, read,
         k8s_add_label_to_k8s_deployment, k8s_scale_k8s_deployment, Patch
<1> QED BY <1>1, <1>2, <1>3, <1>4, <1>5, <1>6, <1>7, <1>8, <1>9, <1>10, <1>11, <1>12

(* The next version of an object.                                          *)
LEMMA NextVersion ==
    ASSUME NEW w \in Workload
    PROVE  [w EXCEPT !.version = @ + 1] \in Workload
<1>1. w.version + 1 \in Nat
  BY DEF Workload
<1> QED BY <1>1 DEF Workload

(* What a call of a handler does to the object it labels or scales.        *)
LEMMA StepWorkload ==
    ASSUME Typed, Step
    PROVE  workload' \in Workload
<1>0. workload \in Workload /\ (call # Idle => call \in CallType)
  BY DEF Typed
<1>1. CASE k8s_add_label_to_k8s_deployment
  <2>1. call # Idle /\ workload' = [[call.seen EXCEPT !.labels = @ \cup {call.label}] EXCEPT !.version = @ + 1]
    BY <1>1 DEF k8s_add_label_to_k8s_deployment, Patch, At
  <2>2. call.seen \in Workload /\ call.label \in Labels
    BY <1>0, <2>1 DEF CallType
  <2>3. [call.seen EXCEPT !.labels = @ \cup {call.label}] \in Workload
    BY <2>2 DEF Workload
  <2> QED BY <2>1, <2>3, NextVersion
<1>2. CASE k8s_scale_k8s_deployment
  <2>1. call # Idle /\ workload' = [[call.seen EXCEPT !.replicas = call.replicas] EXCEPT !.version = @ + 1]
    BY <1>2 DEF k8s_scale_k8s_deployment, Patch, At
  <2>2. call.seen \in Workload /\ call.replicas \in 0..MaxReplicas
    BY <1>0, <2>1 DEF CallType
  <2>3. [call.seen EXCEPT !.replicas = call.replicas] \in Workload
    BY <2>2 DEF Workload
  <2> QED BY <2>1, <2>3, NextVersion
<1>3. Step => \/ UNCHANGED workload \/ k8s_add_label_to_k8s_deployment \/ k8s_scale_k8s_deployment
  BY DEF Step, Finish, ApiException, check_ns, check_sa, check_role, get_secrets, Check,
         k8s_create_namespace, k8s_delete_namespace, k8s_create_service_account, k8s_create_admin_role,
         create_namespaced_role_binding, k8s_cluster_admin, create_namespaced_secret,
         k8s_add_quota_to_namespace, create_csr, approve_csr, read_csr, read
<1> QED BY <1>0, <1>1, <1>2, <1>3

(* Every step keeps the types.                                             *)
LEMMA TypedStep == Typed /\ [Next]_vars => Typed'
<1> SUFFICES ASSUME Typed, [Next]_vars PROVE Typed'
  OBVIOUS
<1>0. /\ ObjectsOK /\ workload \in Workload /\ answers \in Seq(AnswerType) /\ Len(answers) <= MaxCalls
      /\ Len(answers) \in Nat /\ MaxCalls \in Nat
  BY AccessAssumption DEF Typed, TypeOK, ObjectsOK
<1>1. CASE \E r \in Requests : Request(r)
  <2>1. PICK r \in Requests : Request(r)
    BY <1>1
  <2>2. r \in RequestType
    BY AccessAssumption
  <2>3. Handlers[r.op] \in Seq(ApiStep) /\ 0 \in {0} \cup Calls
    BY <2>2, HandlerSteps DEF RequestType
  <2>8. NameFor(r) \in Names
    BY <2>2, AccessAssumption DEF RequestType, NameFor
  <2>4. call' = [op |-> r.op, ns |-> r.ns, name |-> NameFor(r), user |-> r.user, label |-> r.label, replicas |-> r.replicas,
                 todo |-> Handlers[r.op], seen |-> workload, certificate |-> 0]
    BY <2>1 DEF Request
  <2>5. call' \in CallType
    BY <1>0, <2>2, <2>3, <2>4, <2>8 DEF RequestType, CallType
  <2>6. UNCHANGED <<objects, workload, answers>> /\ Now' \in Calls
    BY <2>1 DEF Request, Now
  <2>7. ObjectsOK'
    BY <1>0, <2>6 DEF objects, ObjectsOK
  <2> QED BY <1>0, <2>5, <2>6, <2>7 DEF Typed, TypeOK, ObjectsOK, Workload
<1>2. CASE Step
  <2>1. ObjectsOK' /\ workload' \in Workload
    BY <1>2, StepObjects, StepWorkload
  <2>2. CASE Answering
    <3>1. PICK ok \in BOOLEAN : Answer(ok)
      BY <2>2 DEF Answering
    <3>2. call' = Idle /\ answers' \in Seq(AnswerType) /\ Len(answers') = Len(answers) + 1
      BY <2>2, <3>1, AnswerTyped DEF Answering
    <3>3. Now \in Calls
      BY <2>2 DEF Typed, Answering
    <3>4. Len(answers') <= MaxCalls
      BY <1>0, <3>2, <3>3 DEF Now, Calls
    <3> QED BY <2>1, <3>2, <3>4 DEF Typed, TypeOK, ObjectsOK, Workload
  <2>3. CASE GoingOn
    <3>1. call' \in CallType /\ answers' = answers /\ Now' = Now /\ Now \in Calls
      BY <2>3 DEF GoingOn, Typed, Now
    <3> QED BY <1>0, <2>1, <3>1 DEF Typed, TypeOK, ObjectsOK, Workload
  <2> QED BY <1>2, <2>2, <2>3, StepShape
<1>3. CASE Outside
  <2>1. UNCHANGED <<call, answers>>
    BY <1>3 DEF Outside, finalize, collect, kubectl_delete_namespace, sign, clean, kubectl_scale
  <2>2. ObjectsOK' /\ workload' \in Workload
    <3>1. CASE \E n \in Namespaces : finalize(n) \/ kubectl_delete_namespace(n) \/ \E kind \in Kinds : collect(n, kind)
      BY <1>0, <3>1 DEF ObjectsOK, finalize, collect, kubectl_delete_namespace
    <3>2. CASE \E s \in csr : sign(s) \/ clean(s)
      <4>1. PICK s \in csr : sign(s) \/ clean(s)
        BY <3>2
      <4>2. s \in [user : Users, key : Calls, state : {"new", "approved", "issued"}]
        BY <1>0 DEF ObjectsOK
      <4>3. [s EXCEPT !.state = "issued"] \in [user : Users, key : Calls, state : {"new", "approved", "issued"}]
        BY <4>2
      <4> QED BY <1>0, <4>1, <4>3 DEF ObjectsOK, sign, clean
    <3>3. CASE \E k \in 0..MaxReplicas : kubectl_scale(k)
      <4>1. PICK k \in 0..MaxReplicas : kubectl_scale(k)
        BY <3>3
      <4>2. workload' \in Workload
        <5>1. [workload EXCEPT !.replicas = k] \in Workload
          BY <1>0 DEF Workload
        <5>2. workload' = [[workload EXCEPT !.replicas = k] EXCEPT !.version = @ + 1]
          BY <1>0, <4>1 DEF kubectl_scale, Workload
        <5> QED BY <5>1, <5>2, NextVersion
      <4> QED BY <1>0, <4>1, <4>2 DEF kubectl_scale, ObjectsOK, objects
    <3> QED BY <1>3, <3>1, <3>2, <3>3 DEF Outside
  <2>3. Now' = Now
    BY <2>1 DEF Now
  <2> QED BY <1>0, <2>1, <2>2, <2>3 DEF Typed, TypeOK, ObjectsOK, Workload
<1>4. CASE UNCHANGED vars
  BY <1>4 DEF vars, objects, Typed, TypeOK, Now
<1> QED BY <1>1, <1>2, <1>3, <1>4 DEF Next

(* The types hold at first.                                                *)
LEMMA TypedInit == Init => Typed
<1> SUFFICES ASSUME Init PROVE Typed
  OBVIOUS
<1>1. ObjectsOK /\ workload \in Workload
  BY AccessAssumption DEF Init, ObjectsOK, Workload
<1>2. answers \in Seq(AnswerType) /\ Len(answers) <= MaxCalls /\ call = Idle
  BY AccessAssumption DEF Init
<1> QED BY <1>1, <1>2 DEF Typed, TypeOK, ObjectsOK, Workload

(* The objects, the call and the answers have their types: an answer never *)
(* carries a certificate that is not one of the keys made.                 *)
THEOREM TypeCorrect == Spec => []TypeOK
<1>1. Spec => []Typed
  BY TypedInit, TypedStep, PTL DEF Spec
<1>2. Typed => TypeOK
  BY DEF Typed
<1> QED BY <1>1, <1>2, PTL

-----------------------------------------------------------------------------
(* What is left of a handler.                                              *)

(* todo is the end of the sequence of calls full.                          *)
Rest(todo, full) ==
    /\ Len(todo) <= Len(full)
    /\ \A i \in 1..Len(todo) : todo[i] = full[i + Len(full) - Len(todo)]

(* At first everything is left.                                            *)
LEMMA WholeIsRest ==
    ASSUME NEW h, Len(h) \in Nat
    PROVE  Rest(h, h)
<1>1. \A i \in 1..Len(h) : i + Len(h) - Len(h) = i
  OBVIOUS
<1> QED BY <1>1 DEF Rest

(* One call fewer is left.                                                 *)
LEMMA RestTail ==
    ASSUME NEW todo \in Seq(ApiStep), NEW full \in Seq(ApiStep), todo # <<>>, Rest(todo, full)
    PROVE  /\ Rest(Tail(todo), full)
           /\ Len(Tail(todo)) = Len(todo) - 1 /\ Len(todo) \in 1..Len(full)
           /\ Head(todo) = full[1 + Len(full) - Len(todo)]
<1>1. Len(todo) \in Nat \ {0} /\ Len(full) \in Nat /\ Len(Tail(todo)) = Len(todo) - 1
  OBVIOUS
<1>2. \A i \in 1..Len(Tail(todo)) : i \in Nat /\ i + 1 \in 1..Len(todo) /\ Tail(todo)[i] = todo[i + 1]
  BY <1>1
<1>3. \A i \in 1..Len(Tail(todo)) : Tail(todo)[i] = full[i + Len(full) - Len(Tail(todo))]
  <2>1. \A i \in 1..Len(Tail(todo)) : todo[i + 1] = full[(i + 1) + Len(full) - Len(todo)]
    BY <1>2 DEF Rest
  <2>2. \A i \in 1..Len(Tail(todo)) : (i + 1) + Len(full) - Len(todo) = i + Len(full) - Len(Tail(todo))
    BY <1>1, <1>2
  <2> QED BY <1>2, <2>1, <2>2
<1>4. Head(todo) = todo[1] /\ 1 \in 1..Len(todo)
  BY <1>1
<1> QED BY <1>1, <1>3, <1>4 DEF Rest

(* Where the call that is next stands, when n of 3 are left.               *)
LEMMA Place3 ==
    ASSUME NEW n \in 1..3, NEW k, k = 1 + 3 - n
    PROVE  /\ n = 3 => k = 1
           /\ n = 2 => k = 2
           /\ n = 1 => k = 3
OBVIOUS

(* Where the call that is next stands, when n of 8 are left.               *)
LEMMA Place8 ==
    ASSUME NEW n \in 1..8, NEW k, k = 1 + 8 - n
    PROVE  /\ n = 8 => k = 1
           /\ n = 7 => k = 2
           /\ n = 6 => k = 3
           /\ n = 5 => k = 4
           /\ n = 4 => k = 5
           /\ n = 3 => k = 6
           /\ n = 2 => k = 7
           /\ n = 1 => k = 8
OBVIOUS

(* Which calls can come next: the handler of a kubectl user, and the one   *)
(* that makes an account, take theirs in order.                            *)
LEMMA CertificateOrder ==
    ASSUME NEW todo \in Seq(ApiStep), todo # <<>>, Rest(todo, k8s_cert_sign_req)
    PROVE  /\ Rest(Tail(todo), k8s_cert_sign_req) /\ Len(Tail(todo)) = Len(todo) - 1 /\ Len(todo) \in 1..3
           /\ Head(todo) = "create_csr" <=> Len(todo) = 3
           /\ Head(todo) = "approve_csr" <=> Len(todo) = 2
           /\ Head(todo) = "read_csr" <=> Len(todo) = 1
           /\ Head(todo) # "check_role"
<1>1. k8s_cert_sign_req \in Seq(ApiStep) /\ Len(k8s_cert_sign_req) = 3
      /\ k8s_cert_sign_req[1] = "create_csr" /\ k8s_cert_sign_req[2] = "approve_csr" /\ k8s_cert_sign_req[3] = "read_csr"
  BY DEF k8s_cert_sign_req, ApiStep
<1>2. /\ Rest(Tail(todo), k8s_cert_sign_req) /\ Len(Tail(todo)) = Len(todo) - 1
      /\ Len(todo) \in 1..Len(k8s_cert_sign_req)
      /\ Head(todo) = k8s_cert_sign_req[1 + Len(k8s_cert_sign_req) - Len(todo)]
  BY <1>1, RestTail
<1>5. Len(k8s_cert_sign_req) = 3 /\ Len(todo) \in 1..Len(k8s_cert_sign_req)
  BY <1>1, <1>2
<1>3. Len(todo) \in {1, 2, 3} /\ Len(todo) \in 1..3
  BY <1>5
<1>4. /\ Len(todo) = 3 => Head(todo) = "create_csr"
      /\ Len(todo) = 2 => Head(todo) = "approve_csr"
      /\ Len(todo) = 1 => Head(todo) = "read_csr"
  <2>1. PICK k : k = 1 + Len(k8s_cert_sign_req) - Len(todo)
    OBVIOUS
  <2>4. k = 1 + 3 - Len(todo) /\ Len(todo) \in 1..3
    BY <1>5, <2>1
  <2>2. (Len(todo) = 3 => k = 1) /\ (Len(todo) = 2 => k = 2) /\ (Len(todo) = 1 => k = 3)
    BY <2>4, Place3
  <2>3. Head(todo) = k8s_cert_sign_req[k]
    BY <1>2, <2>1
  <2> QED BY <1>1, <2>2, <2>3
<1> QED BY <1>2, <1>3, <1>4

(* The same for the account.                                               *)
LEMMA AdminOrder ==
    ASSUME NEW todo \in Seq(ApiStep), todo # <<>>, Rest(todo, create_admin_sa_for_namespace)
    PROVE  /\ Rest(Tail(todo), create_admin_sa_for_namespace) /\ Len(Tail(todo)) = Len(todo) - 1 /\ Len(todo) \in 1..8
           /\ Len(todo) = 8 => Head(todo) = "create_sa"
           /\ Len(todo) = 5 => Head(todo) = "bind_admin"
           /\ Head(todo) = "create_secret" => Len(todo) = 2
           /\ Head(todo) \notin {"check_role", "create_ns"}
<1>0. PICK h : h = create_admin_sa_for_namespace
  OBVIOUS
<1>1. /\ h \in Seq(ApiStep) /\ Len(h) = 8
      /\ h[1] = "create_sa" /\ h[2] = "check_ns" /\ h[3] = "check_sa" /\ h[4] = "bind_admin"
      /\ h[5] = "check_ns" /\ h[6] = "check_sa" /\ h[7] = "create_secret" /\ h[8] = "get_secrets"
  BY <1>0, AdminSteps
<1>2. /\ Rest(Tail(todo), h) /\ Len(Tail(todo)) = Len(todo) - 1
      /\ Len(todo) \in 1..Len(h)
      /\ Head(todo) = h[1 + Len(h) - Len(todo)]
  <2>1. h \in Seq(ApiStep) /\ Rest(todo, h)
    BY <1>0, <1>1
  <2> QED BY <2>1, RestTail
<1>5. Len(h) = 8 /\ Len(todo) \in 1..Len(h)
  BY <1>1, <1>2
<1>3. Len(todo) \in {1, 2, 3, 4, 5, 6, 7, 8} /\ Len(todo) \in 1..8
  BY <1>5
<1>4. /\ Len(todo) = 8 => Head(todo) = "create_sa"
      /\ Len(todo) = 7 => Head(todo) = "check_ns"
      /\ Len(todo) = 6 => Head(todo) = "check_sa"
      /\ Len(todo) = 5 => Head(todo) = "bind_admin"
      /\ Len(todo) = 4 => Head(todo) = "check_ns"
      /\ Len(todo) = 3 => Head(todo) = "check_sa"
      /\ Len(todo) = 2 => Head(todo) = "create_secret"
      /\ Len(todo) = 1 => Head(todo) = "get_secrets"
  <2>1. PICK k : k = 1 + Len(h) - Len(todo)
    OBVIOUS
  <2>4. k = 1 + 8 - Len(todo) /\ Len(todo) \in 1..8
    BY <1>5, <2>1
  <2>2. /\ (Len(todo) = 8 => k = 1) /\ (Len(todo) = 7 => k = 2) /\ (Len(todo) = 6 => k = 3) /\ (Len(todo) = 5 => k = 4)
        /\ (Len(todo) = 4 => k = 5) /\ (Len(todo) = 3 => k = 6) /\ (Len(todo) = 2 => k = 7) /\ (Len(todo) = 1 => k = 8)
    BY <2>4, Place8
  <2>3. Head(todo) = h[k]
    BY <1>2, <2>1
  <2> QED BY <1>1, <2>2, <2>3
<1> QED BY <1>0, <1>2, <1>3, <1>4

-----------------------------------------------------------------------------
(* Certificates.                                                           *)

(* While a kubectl user is made, the request stored under the name is the  *)
(* one of this call.                                                       *)
Certificates ==
    /\ CertificateFitsKey
    /\ call # Idle /\ call.op = "create_k8s_kubectl_user" =>
         /\ Rest(call.todo, k8s_cert_sign_req)
         /\ Len(call.todo) \in {1, 2} => \A s \in csr : s.user = call.user => s.key = Now
         /\ call.certificate \in {0, Now}
    /\ call # Idle /\ call.op # "create_k8s_kubectl_user" =>
         /\ \A i \in 1..Len(call.todo) : call.todo[i] # "read_csr"
         /\ call.certificate = 0

(* Approving a request leaves its key.                                     *)
LEMMA ApproveKeepsKeys ==
    ASSUME csr \subseteq [user : Users, key : Calls, state : {"new", "approved", "issued"}],
           csr' = csr \/ approve_csr
    PROVE  \A s \in csr' : \E t \in csr : s.user = t.user /\ s.key = t.key
<1>1. CASE approve_csr
  <2>1. PICK t \in csr : csr' = (csr \ {t}) \cup {[t EXCEPT !.state = IF @ = "new" THEN "approved" ELSE @]}
    BY <1>1 DEF approve_csr
  <2>2. t \in [user : Users, key : Calls, state : {"new", "approved", "issued"}]
    OBVIOUS
  <2>3. LET u == [t EXCEPT !.state = IF @ = "new" THEN "approved" ELSE @] IN u.user = t.user /\ u.key = t.key
    BY <2>2
  <2> QED BY <2>1, <2>3
<1> QED BY <1>1

(* What is not in a handler does not come into it.                         *)
LEMMA TailHasNo ==
    ASSUME NEW todo \in Seq(ApiStep), todo # <<>>, \A i \in 1..Len(todo) : todo[i] # "read_csr",
           NEW t, t = Tail(todo) \/ t = <<"check_ns", "create_role">> \o Tail(todo)
    PROVE  \A i \in 1..Len(t) : t[i] # "read_csr"
<1>1. /\ Tail(todo) \in Seq(ApiStep) /\ Len(Tail(todo)) \in Nat
      /\ \A i \in 1..Len(Tail(todo)) : Tail(todo)[i] # "read_csr"
  OBVIOUS
<1>2. CASE t = Tail(todo)
  BY <1>1, <1>2
<1>3. CASE t = <<"check_ns", "create_role">> \o Tail(todo)
  <2>1. PICK p : p = <<"check_ns", "create_role">>
    OBVIOUS
  <2>2. p \in Seq(ApiStep) /\ Len(p) = 2 /\ p[1] = "check_ns" /\ p[2] = "create_role"
    BY <2>1 DEF ApiStep
  <2>3. PICK q : q = Tail(todo)
    OBVIOUS
  <2>4. q \in Seq(ApiStep) /\ Len(q) \in Nat
    BY <1>1, <2>3
  <2>7. t = p \o q
    BY <1>3, <2>1, <2>3
  <2>5. /\ Len(t) = Len(p) + Len(q)
        /\ \A i \in 1..(Len(p) + Len(q)) : t[i] = IF i <= Len(p) THEN p[i] ELSE q[i - Len(p)]
    <3>0. p \in Seq(ApiStep) /\ q \in Seq(ApiStep)
      BY <2>2, <2>4
    <3>1. Len(t) = Len(p) + Len(q)
      BY <3>0, <2>7, Concatenated
    <3>2. \A i \in 1..(Len(p) + Len(q)) : t[i] = IF i <= Len(p) THEN p[i] ELSE q[i - Len(p)]
      BY <3>0, <2>7, Concatenated
    <3> QED BY <3>1, <3>2
  <2>6. ASSUME NEW i \in 1..Len(t)
        PROVE  t[i] # "read_csr"
    <3>1. CASE i <= 2
      <4>1. i \in {1, 2}
        BY <2>2, <2>4, <2>5, <3>1
      <4> QED BY <2>2, <2>4, <2>5, <3>1, <4>1
    <3>2. CASE ~ (i <= 2)
      <4>1. i - 2 \in 1..Len(q) /\ t[i] = q[i - 2]
        BY <2>2, <2>4, <2>5, <3>2
      <4> QED BY <1>1, <2>3, <4>1
    <3> QED BY <3>1, <3>2
  <2> QED BY <2>6
<1> QED BY <1>2, <1>3

(* What a step does to the requests for certificates.                      *)
LEMMA CertificatesStep == Typed /\ Certificates /\ [Next]_vars => Certificates'
<1> SUFFICES ASSUME Typed, Certificates, [Next]_vars PROVE Certificates'
  OBVIOUS
<1>0. /\ (call # Idle => call \in CallType /\ call.todo \in Seq(ApiStep)) /\ answers \in Seq(AnswerType)
      /\ csr \subseteq [user : Users, key : Calls, state : {"new", "approved", "issued"}]
      /\ Len(answers) \in Nat
  BY DEF Typed, TypeOK, CallType
<1>1. CASE \E r \in Requests : Request(r)
  <2>1. PICK r \in Requests : Request(r)
    BY <1>1
  <2>2. /\ call'.op = r.op /\ call'.todo = Handlers[r.op] /\ call'.certificate = 0 /\ answers' = answers
        /\ r.op \in DOMAIN Handlers
    BY <2>1, AccessAssumption DEF Request, RequestType
  <2>3. CASE r.op = "create_k8s_kubectl_user"
    <3>1. call'.todo = k8s_cert_sign_req
      BY <2>2, <2>3 DEF Handlers, create_k8s_kubectl_user
    <3>2. Len(call'.todo) = 3 /\ Rest(call'.todo, k8s_cert_sign_req)
      <4>1. Len(k8s_cert_sign_req) = 3
        BY DEF k8s_cert_sign_req
      <4>2. Rest(k8s_cert_sign_req, k8s_cert_sign_req)
        BY <4>1, WholeIsRest
      <4> QED BY <3>1, <4>1, <4>2
    <3>3. CertificateFitsKey' /\ Len(call'.todo) \notin {1, 2}
      BY <2>2, <3>2 DEF Certificates, CertificateFitsKey
    <3> QED BY <2>2, <2>3, <3>2, <3>3 DEF Certificates
  <2>4. CASE r.op # "create_k8s_kubectl_user"
    BY <2>2, <2>4, HandlerSteps DEF Certificates, CertificateFitsKey
  <2> QED BY <2>3, <2>4
<1>2. CASE Step /\ Answering
  <2>1. PICK ok \in BOOLEAN : Answer(ok)
    BY <1>2 DEF Answering
  <2>2. /\ call' = Idle /\ answers' \in Seq(AnswerType) /\ Len(answers') = Len(answers) + 1
        /\ \A k \in 1..Len(answers) : answers'[k] = answers[k]
        /\ answers'[Now].certificate = call.certificate /\ call # Idle
    BY <1>2, <2>1, AnswerTyped DEF Answering
  <2>3. call.certificate \in {0, Now}
    BY <2>2 DEF Certificates
  <2>4. \A k \in 1..Len(answers') : k \in 1..Len(answers) \/ k = Now
    BY <1>0, <2>2 DEF Now
  <2>5. \A k \in 1..Len(answers') : answers'[k].certificate \in {0, k}
    BY <1>0, <2>2, <2>3, <2>4 DEF Certificates, CertificateFitsKey
  <2> QED BY <2>2, <2>5 DEF Certificates, CertificateFitsKey
<1>3. CASE Step /\ GoingOn
  <2>1. /\ call # Idle /\ call.todo # <<>> /\ call' # Idle /\ answers' = answers /\ Now' = Now
        /\ call'.op = call.op /\ call'.user = call.user /\ call'.ns = call.ns /\ call'.name = call.name
    BY <1>3 DEF GoingOn, Now
  <2>2. CASE call.op = "create_k8s_kubectl_user"
    <3>1. /\ call'.todo = Tail(call.todo) /\ Rest(call'.todo, k8s_cert_sign_req)
          /\ Len(call'.todo) = Len(call.todo) - 1 /\ Len(call.todo) \in 1..3
      BY <1>0, <1>3, <2>1, <2>2, CertificateOrder DEF GoingOn, Certificates, At
    <3>2. call'.certificate \in {0, Now}
      BY <1>0, <1>3, <2>1, <2>2, CertificateOrder DEF GoingOn, Certificates, At
    <3>3. Len(call'.todo) \in {1, 2} => \A s \in csr' : s.user = call.user => s.key = Now
      <4>1. CASE create_csr
        BY <1>0, <4>1 DEF create_csr
      <4>2. CASE ~ create_csr /\ Len(call'.todo) \in {1, 2}
        <5>1. Head(call.todo) # "create_csr" /\ Len(call.todo) = 2
          <6>1. Head(call.todo) = "create_csr" => create_csr
            BY <1>3, <2>1
            DEF Step, GoingOn, At, Finish, ApiException, Raise, Answer, check_ns, check_sa, check_role, get_secrets, Check,
                k8s_create_namespace, k8s_delete_namespace, k8s_create_service_account, k8s_create_admin_role,
                create_namespaced_role_binding, k8s_cluster_admin, create_namespaced_secret,
                k8s_add_quota_to_namespace, approve_csr, read_csr, read, k8s_add_label_to_k8s_deployment,
                k8s_scale_k8s_deployment, Patch
          <6>2. Rest(call.todo, k8s_cert_sign_req)
            BY <2>1, <2>2 DEF Certificates
          <6>3. Head(call.todo) # "create_csr"
            BY <6>1, <4>2
          <6> QED BY <1>0, <2>1, <3>1, <4>2, <6>2, <6>3, CertificateOrder
        <5>2. \A s \in csr : s.user = call.user => s.key = Now
          BY <2>1, <2>2, <5>1 DEF Certificates
        <5>3. Head(call.todo) = "approve_csr"
          BY <1>0, <2>1, <2>2, <5>1, CertificateOrder DEF Certificates
        <5>4. csr' = csr \/ approve_csr
          BY <1>3, <4>2
          DEF Step, Finish, ApiException, check_ns, check_sa, check_role, get_secrets, Check,
              k8s_create_namespace, k8s_delete_namespace, k8s_create_service_account, k8s_create_admin_role,
              create_namespaced_role_binding, k8s_cluster_admin, create_namespaced_secret,
              k8s_add_quota_to_namespace, read_csr, read, k8s_add_label_to_k8s_deployment,
              k8s_scale_k8s_deployment, Patch, objects
        <5> QED BY <1>0, <5>2, <5>4, ApproveKeepsKeys
      <4> QED BY <4>1, <4>2
    <3> QED BY <2>1, <2>2, <3>1, <3>2, <3>3 DEF Certificates, CertificateFitsKey
  <2>3. CASE call.op # "create_k8s_kubectl_user"
    <3>1. \A i \in 1..Len(call.todo) : call.todo[i] # "read_csr"
      BY <2>1, <2>3 DEF Certificates
    <3>2. Head(call.todo) # "read_csr"
      BY <1>0, <2>1, <3>1
    <3>3. call'.certificate = 0
      BY <1>3, <2>1, <2>3, <3>2 DEF GoingOn, At, Certificates
    <3>4. \A i \in 1..Len(call'.todo) : call'.todo[i] # "read_csr"
      BY <1>0, <1>3, <2>1, <3>1, TailHasNo DEF GoingOn
    <3> QED BY <2>1, <2>3, <3>3, <3>4 DEF Certificates, CertificateFitsKey
  <2> QED BY <2>2, <2>3
<1>4. CASE Outside
  <2>1. UNCHANGED <<call, answers>> /\ Now' = Now
    BY <1>4 DEF Outside, finalize, collect, kubectl_delete_namespace, sign, clean, kubectl_scale, Now
  <2>2. \A s \in csr' : \E t \in csr : s.user = t.user /\ s.key = t.key
    <3>1. CASE csr' = csr
      BY <3>1
    <3>2. CASE \E s \in csr : csr' = csr \ {s}
      BY <3>2
    <3>3. CASE \E s \in csr : csr' = (csr \ {s}) \cup {[s EXCEPT !.state = "issued"]}
      <4>1. PICK s \in csr : csr' = (csr \ {s}) \cup {[s EXCEPT !.state = "issued"]}
        BY <3>3
      <4>2. PICK n : n = [s EXCEPT !.state = "issued"]
        OBVIOUS
      <4>3. s \in [user : Users, key : Calls, state : {"new", "approved", "issued"}]
        BY <1>0 DEF ObjectsOK
      <4>4. n.user = s.user /\ n.key = s.key
        BY <4>2, <4>3
      <4> QED BY <4>1, <4>2, <4>4
    <3> QED BY <1>4, <3>1, <3>2, <3>3 DEF Outside, finalize, collect, kubectl_delete_namespace, sign, clean, kubectl_scale, objects
  <2> QED BY <2>1, <2>2 DEF Certificates, CertificateFitsKey
<1>5. CASE UNCHANGED vars
  BY <1>5 DEF vars, objects, Certificates, CertificateFitsKey, Now
<1> QED BY <1>1, <1>2, <1>3, <1>4, <1>5, StepShape DEF Next

(* A kubectl user gets a certificate signed for the key of the same        *)
(* answer, or none, whatever requests were stored under the name before    *)
(* (k8s_cert_sign_req): for any number of calls, users and signers.        *)
THEOREM CertificatesFit == Spec => []CertificateFitsKey
<1>1. Init => Certificates
  BY DEF Init, Certificates, CertificateFitsKey
<1>2. Spec => []Typed
  BY TypedInit, TypedStep, PTL DEF Spec
<1>3. Spec => []Certificates
  BY <1>1, <1>2, CertificatesStep, PTL DEF Spec
<1>4. Certificates => CertificateFitsKey
  BY DEF Certificates
<1> QED BY <1>3, <1>4, PTL

-----------------------------------------------------------------------------
(* Tokens.                                                                 *)

Account(n, u, k) == [ns |-> n, user |-> u, by |-> k]
Binding(n, u, k) == [ns |-> n, name |-> u, user |-> u, role |-> "admin", by |-> k]

(* A token is of a call that has been made, and a namespace that is gone   *)
(* has taken its tokens with it.  While an account is made, the account    *)
(* and the binding of this call are there, or the namespace is on its way  *)
(* out and nothing more can be put into it.                                *)
Tokens ==
    /\ TokenOfOneCall
    /\ \A s \in secrets : s.by \in 1..Len(answers) \/ (call # Idle /\ s.by = Now)
    /\ \A s \in secrets : ns[s.ns] # "absent"
    /\ call # Idle /\ call.op = "create_admin_sa_for_namespace" =>
         /\ call.name = call.user
         /\ Rest(call.todo, create_admin_sa_for_namespace)
         /\ ns[call.ns] = "active" =>
              /\ Len(call.todo) < 8 => Account(call.ns, call.user, Now) \in accounts
              /\ Len(call.todo) < 5 => Binding(call.ns, call.user, Now) \in bindings

(* The operation of a call, while it runs and when it is answered.         *)
LEMMA OpIsKept ==
    ASSUME Typed, Tokens, [Next]_vars, NEW s \in secrets
    PROVE  OpOf(s.by)' = OpOf(s.by)
<1>0. answers \in Seq(AnswerType) /\ Len(answers) \in Nat /\ DOMAIN answers = 1..Len(answers)
  BY DEF Typed
<1>1. CASE UNCHANGED <<call, answers>>
  BY <1>1 DEF OpOf
<1>2. CASE \E r \in Requests : Request(r)
  <2>1. answers' = answers /\ call = Idle
    BY <1>2 DEF Request
  <2> QED BY <1>0, <2>1 DEF OpOf, Tokens
<1>3. CASE Answering
  <2>1. PICK ok \in BOOLEAN : Answer(ok)
    BY <1>3 DEF Answering
  <2>2. /\ answers' \in Seq(AnswerType) /\ Len(answers') = Len(answers) + 1
        /\ \A k \in 1..Len(answers) : answers'[k] = answers[k]
        /\ answers'[Now].op = call.op /\ call # Idle
    BY <1>3, <2>1, AnswerTyped DEF Answering
  <2>3. DOMAIN answers' = 1..(Len(answers) + 1)
    BY <2>2
  <2>4. s.by \in 1..Len(answers) \/ s.by = Now
    BY DEF Tokens
  <2>5. Now \notin 1..Len(answers) /\ Now \in 1..(Len(answers) + 1)
    BY <1>0 DEF Now
  <2>6. \A k \in 1..Len(answers) : k \in 1..(Len(answers) + 1)
    BY <1>0
  <2> QED BY <1>0, <2>2, <2>3, <2>4, <2>5, <2>6 DEF OpOf
<1>4. CASE GoingOn
  BY <1>4 DEF GoingOn, OpOf
<1>5. CASE Outside
  BY <1>1, <1>5 DEF Outside, finalize, collect, kubectl_delete_namespace, sign, clean, kubectl_scale
<1>6. CASE UNCHANGED vars
  BY <1>1, <1>6 DEF vars
<1> QED BY <1>2, <1>3, <1>4, <1>5, <1>6, StepShape DEF Next

(* What a step of a handler can do to accounts, bindings and tokens.       *)
LEMMA StepTokens ==
    ASSUME Typed, Step
    PROVE  /\ accounts \subseteq accounts' /\ bindings \subseteq bindings'
           /\ \/ secrets' = secrets
              \/ /\ At("create_secret") /\ ns[call.ns] = "active"
                 /\ secrets' = secrets \cup {[ns |-> call.ns, name |-> call.name, owner |-> call.user, by |-> Now]}
           /\ \A n \in Namespaces : ns'[n] = "active" => ns[n] = "active" \/ (At("create_ns") /\ n = call.ns /\ ns[n] = "absent")
           /\ \A n \in Namespaces : ns'[n] = "absent" => ns[n] = "absent"
           /\ At("create_sa") => Answering \/ Account(call.ns, call.user, Now) \in accounts'
           /\ At("bind_admin") /\ call.name = call.user => Answering \/ Binding(call.ns, call.user, Now) \in bindings'
<1>0. ns \in [Namespaces -> {"absent", "active", "terminating"}]
      /\ (call # Idle => call.ns \in Namespaces)
  BY DEF Typed, TypeOK, CallType
<1>1. CASE Answering
  BY <1>1 DEF Answering, objects
<1>2. CASE \/ check_ns \/ check_sa \/ check_role \/ get_secrets \/ read_csr \/ read
           \/ k8s_add_label_to_k8s_deployment \/ k8s_scale_k8s_deployment
  <2>1. UNCHANGED objects
    BY <1>2 DEF check_ns, check_sa, check_role, get_secrets, Check, read_csr, read,
                k8s_add_label_to_k8s_deployment, k8s_scale_k8s_deployment, Patch
  <2>2. ~ At("create_sa") /\ ~ At("bind_admin")
    BY <1>2 DEF check_ns, check_sa, check_role, get_secrets, Check, read_csr, read, At,
                k8s_add_label_to_k8s_deployment, k8s_scale_k8s_deployment, Patch
  <2> QED BY <2>1, <2>2 DEF objects
<1>3. CASE k8s_create_namespace \/ k8s_delete_namespace
  BY <1>0, <1>3 DEF k8s_create_namespace, k8s_delete_namespace, At
<1>4. CASE k8s_create_service_account
  BY <1>0, <1>4 DEF k8s_create_service_account, At, Account
<1>5. CASE create_namespaced_role_binding("bind_admin", "admin")
  BY <1>0, <1>5 DEF create_namespaced_role_binding, At, Binding
<1>6. CASE create_namespaced_role_binding("bind_nfvclAdmin", "nfvclAdmin")
  BY <1>0, <1>6 DEF create_namespaced_role_binding, At
<1>7. CASE k8s_create_admin_role \/ k8s_cluster_admin \/ k8s_add_quota_to_namespace
  BY <1>0, <1>7 DEF k8s_create_admin_role, k8s_cluster_admin, k8s_add_quota_to_namespace, At
<1>8. CASE create_namespaced_secret
  BY <1>0, <1>8 DEF create_namespaced_secret, At, Active
<1>9. CASE create_csr \/ approve_csr
  BY <1>0, <1>9 DEF create_csr, approve_csr, At
<1>10. CASE Finish \/ ApiException
  BY <1>1, <1>10 DEF Finish, ApiException, Raise, Answering
<1> QED BY <1>2, <1>3, <1>4, <1>5, <1>6, <1>7, <1>8, <1>9, <1>10 DEF Step

(* Counting the calls that are left.                                       *)
LEMMA Fewer ==
    ASSUME NEW n \in 1..8, NEW m, m = n - 1
    PROVE  (n = 8 \/ n < 8) /\ (m < 5 => n = 5 \/ n < 5)
OBVIOUS

(* A handler that has only started has all its eight calls left.           *)
LEMMA AllAreLeft ==
    ASSUME NEW n, n = 8
    PROVE  ~ (n < 8) /\ ~ (n < 5)
OBVIOUS

(* What a step does to tokens.                                             *)
LEMMA TokensStep == Typed /\ Tokens /\ [Next]_vars => Tokens'
<1> SUFFICES ASSUME Typed, Tokens, [Next]_vars PROVE Tokens'
  OBVIOUS
<1>0. /\ (call # Idle => call \in CallType /\ call.todo \in Seq(ApiStep) /\ call.ns \in Namespaces /\ call.user \in Users)
      /\ answers \in Seq(AnswerType) /\ Len(answers) \in Nat
      /\ secrets \subseteq [ns : Namespaces, name : Names, owner : Users, by : Calls]
      /\ ns \in [Namespaces -> {"absent", "active", "terminating"}]
  BY DEF Typed, TypeOK, CallType
<1>op. \A s \in secrets : OpOf(s.by)' = OpOf(s.by)
  BY OpIsKept
<1>1. CASE \E r \in Requests : Request(r)
  <2>1. PICK r \in Requests : Request(r)
    BY <1>1
  <2>2. /\ call = Idle /\ call'.op = r.op /\ call'.todo = Handlers[r.op] /\ answers' = answers
        /\ UNCHANGED <<secrets, accounts, bindings, ns>> /\ r.op \in DOMAIN Handlers
        /\ (r.op = "create_admin_sa_for_namespace" => call'.name = call'.user)
    BY <2>1, AccessAssumption DEF Request, RequestType, objects, NameFor
  <2>3. TokenOfOneCall'
    BY <1>op, <2>2 DEF Tokens, TokenOfOneCall
  <2>4. \A s \in secrets' : s.by \in 1..Len(answers')
    BY <2>2 DEF Tokens
  <2>5. r.op = "create_admin_sa_for_namespace" =>
           Rest(call'.todo, create_admin_sa_for_namespace) /\ Len(call'.todo) = 8
    <3>1. Handlers["create_admin_sa_for_namespace"] = create_admin_sa_for_namespace
      BY DEF Handlers
    <3>2. Len(create_admin_sa_for_namespace) = 8
      BY AdminSteps
    <3>3. Rest(create_admin_sa_for_namespace, create_admin_sa_for_namespace)
      BY <3>2, WholeIsRest
    <3> QED BY <2>2, <3>1, <3>2, <3>3
  <2>6. r.op = "create_admin_sa_for_namespace" => ~ (Len(call'.todo) < 8) /\ ~ (Len(call'.todo) < 5)
    <3> DEFINE n == Len(call'.todo)
    <3>1. r.op = "create_admin_sa_for_namespace" => n = 8
      BY <2>5
    <3> HIDE DEF n
    <3>2. r.op = "create_admin_sa_for_namespace" => ~ (n < 8) /\ ~ (n < 5)
      BY <3>1, AllAreLeft
    <3> QED BY <3>2 DEF n
  <2> QED BY <2>2, <2>3, <2>4, <2>5, <2>6 DEF Tokens
<1>2. CASE Step /\ Answering
  <2>1. PICK ok \in BOOLEAN : Answer(ok)
    BY <1>2 DEF Answering
  <2>2. /\ call' = Idle /\ Len(answers') = Len(answers) + 1
        /\ UNCHANGED <<secrets, accounts, bindings, ns>>
    BY <1>2, <2>1, AnswerTyped DEF Answering, objects
  <2>3. TokenOfOneCall'
    BY <1>op, <2>2 DEF Tokens, TokenOfOneCall
  <2>4. \A s \in secrets' : s.by \in 1..Len(answers')
    BY <1>0, <2>2 DEF Tokens, Now
  <2> QED BY <2>2, <2>3, <2>4 DEF Tokens
<1>3. CASE Step /\ GoingOn
  <2>1. /\ call # Idle /\ call.todo # <<>> /\ call' # Idle /\ answers' = answers /\ Now' = Now
        /\ call'.op = call.op /\ call'.user = call.user /\ call'.ns = call.ns /\ call'.name = call.name
    BY <1>3 DEF GoingOn, Now
  <2>2. ~ Answering
    BY <2>1 DEF Answering, Answer
  <2>3. /\ accounts \subseteq accounts' /\ bindings \subseteq bindings'
        /\ \/ secrets' = secrets
           \/ /\ At("create_secret") /\ ns[call.ns] = "active"
              /\ secrets' = secrets \cup {[ns |-> call.ns, name |-> call.name, owner |-> call.user, by |-> Now]}
        /\ ns'[call.ns] = "active" => ns[call.ns] = "active" \/ At("create_ns")
        /\ \A n \in Namespaces : /\ ns'[n] = "active" => ns[n] = "active" \/ ns[n] = "absent"
                                 /\ ns'[n] = "absent" => ns[n] = "absent"
        /\ At("create_sa") => Account(call.ns, call.user, Now) \in accounts'
        /\ At("bind_admin") /\ call.name = call.user => Binding(call.ns, call.user, Now) \in bindings'
    BY <1>0, <1>3, <2>1, <2>2, StepTokens
  <2>4. \A s \in secrets' : s.by \in 1..Len(answers') \/ s.by = Now'
    BY <2>1, <2>3 DEF Tokens
  <2>7. \A s \in secrets' : ns'[s.ns] # "absent"
    <3>1. SUFFICES ASSUME NEW s \in secrets' PROVE ns'[s.ns] # "absent"
      OBVIOUS
    <3>2. CASE s \in secrets
      BY <1>0, <2>3, <3>2 DEF Tokens
    <3>3. CASE s \notin secrets
      <4>1. ns[call.ns] = "active" /\ s = [ns |-> call.ns, name |-> call.name, owner |-> call.user, by |-> Now]
        BY <2>3, <3>1, <3>3
      <4>2. s.ns = call.ns
        BY <4>1
      <4> QED BY <1>0, <2>1, <2>3, <4>1, <4>2
    <3> QED BY <3>2, <3>3
  <2>5. call.op = "create_admin_sa_for_namespace" =>
          /\ call'.name = call'.user
          /\ Rest(call'.todo, create_admin_sa_for_namespace)
          /\ ns'[call.ns] = "active" =>
               /\ Len(call'.todo) < 8 => Account(call.ns, call.user, Now) \in accounts'
               /\ Len(call'.todo) < 5 => Binding(call.ns, call.user, Now) \in bindings'
    <3>1. SUFFICES ASSUME call.op = "create_admin_sa_for_namespace"
                   PROVE  /\ call'.name = call'.user
                          /\ Rest(call'.todo, create_admin_sa_for_namespace)
                          /\ ns'[call.ns] = "active" =>
                               /\ Len(call'.todo) < 8 => Account(call.ns, call.user, Now) \in accounts'
                               /\ Len(call'.todo) < 5 => Binding(call.ns, call.user, Now) \in bindings'
      OBVIOUS
    <3>2. Rest(call.todo, create_admin_sa_for_namespace) /\ call.name = call.user
      BY <2>1, <3>1 DEF Tokens
    <3>3. /\ Rest(Tail(call.todo), create_admin_sa_for_namespace) /\ Len(Tail(call.todo)) = Len(call.todo) - 1
          /\ Len(call.todo) \in 1..8
          /\ Len(call.todo) = 8 => Head(call.todo) = "create_sa"
          /\ Len(call.todo) = 5 => Head(call.todo) = "bind_admin"
          /\ Head(call.todo) \notin {"check_role", "create_ns"}
      BY <1>0, <2>1, <3>2, AdminOrder
    <3>4. call'.todo = Tail(call.todo) /\ ~ At("create_ns")
      BY <1>3, <3>3 DEF GoingOn, At
    <3>9. Len(call.todo) \in 1..8 /\ Len(call'.todo) = Len(call.todo) - 1
      BY <3>3, <3>4
    <3>5. Len(call.todo) = 8 \/ Len(call.todo) < 8
      BY <3>9, Fewer
    <3>6. Len(call'.todo) < 5 => Len(call.todo) = 5 \/ Len(call.todo) < 5
      BY <3>9, Fewer
    <3>7. ns'[call.ns] = "active" => Account(call.ns, call.user, Now) \in accounts'
      BY <2>1, <2>3, <3>1, <3>3, <3>4, <3>5 DEF Tokens, At
    <3>8. ns'[call.ns] = "active" /\ Len(call'.todo) < 5 => Binding(call.ns, call.user, Now) \in bindings'
      BY <2>1, <2>3, <3>1, <3>2, <3>3, <3>4, <3>6 DEF Tokens, At
    <3> QED BY <2>1, <3>2, <3>3, <3>4, <3>7, <3>8
  <2>6. TokenOfOneCall'
    <3>1. SUFFICES ASSUME NEW s \in secrets', OpOf(s.by)' = "create_admin_sa_for_namespace", ns'[s.ns] = "active"
                   PROVE  /\ Account(s.ns, s.owner, s.by) \in accounts'
                          /\ Binding(s.ns, s.owner, s.by) \in bindings'
      BY DEF TokenOfOneCall, Account, Binding
    <3>2. CASE s \in secrets
      <4>1. ns[s.ns] = "active"
        BY <1>0, <2>3, <3>1, <3>2 DEF Tokens
      <4> QED BY <1>op, <2>3, <3>1, <3>2, <4>1 DEF Tokens, TokenOfOneCall, Account, Binding
    <3>3. CASE s \notin secrets
      <4>1. At("create_secret") /\ ns[call.ns] = "active" /\ s = [ns |-> call.ns, name |-> call.name, owner |-> call.user, by |-> Now]
        BY <2>3, <3>1, <3>3
      <4>2. s.ns = call.ns /\ s.owner = call.user /\ s.by = Now
        BY <4>1
      <4>3. Now \notin DOMAIN answers'
        BY <1>0, <2>1 DEF Now
      <4>4. call.op = "create_admin_sa_for_namespace"
        BY <2>1, <3>1, <4>2, <4>3 DEF OpOf
      <4>5. Len(call.todo) = 2
        BY <1>0, <2>1, <4>1, <4>4, AdminOrder DEF Tokens, At
      <4>6. Account(call.ns, call.user, Now) \in accounts /\ Binding(call.ns, call.user, Now) \in bindings
        BY <2>1, <4>1, <4>4, <4>5 DEF Tokens
      <4> QED BY <2>3, <4>2, <4>6
    <3> QED BY <3>2, <3>3
  <2> QED BY <2>1, <2>4, <2>5, <2>6, <2>7 DEF Tokens
<1>4. CASE Outside
  <2>1. UNCHANGED <<call, answers>> /\ Now' = Now
    BY <1>4 DEF Outside, finalize, collect, kubectl_delete_namespace, sign, clean, kubectl_scale, Now
  <2>2. CASE \E n \in Namespaces, kind \in Kinds : collect(n, kind)
    <3>1. PICK n \in Namespaces, kind \in Kinds : collect(n, kind)
      BY <2>2
    <3>2. /\ ns' = ns /\ ns[n] = "terminating"
          /\ accounts' = {a \in accounts : ~(kind = "account" /\ a.ns = n)}
          /\ bindings' = {b \in bindings : ~(kind = "binding" /\ b.ns = n)}
          /\ secrets' = {s \in secrets : ~(kind = "secret" /\ s.ns = n)}
      BY <3>1 DEF collect
    <3>3. \A m, u, k : /\ Account(m, u, k) \in accounts /\ m # n => Account(m, u, k) \in accounts'
                       /\ Binding(m, u, k) \in bindings /\ m # n => Binding(m, u, k) \in bindings'
      BY <3>2 DEF Account, Binding
    <3>4. TokenOfOneCall'
      <4>1. SUFFICES ASSUME NEW s \in secrets', OpOf(s.by)' = "create_admin_sa_for_namespace", ns'[s.ns] = "active"
                     PROVE  /\ Account(s.ns, s.owner, s.by) \in accounts'
                            /\ Binding(s.ns, s.owner, s.by) \in bindings'
        BY DEF TokenOfOneCall, Account, Binding
      <4>2. s \in secrets /\ ns[s.ns] = "active" /\ s.ns # n /\ OpOf(s.by) = "create_admin_sa_for_namespace"
        BY <1>op, <3>2, <4>1
      <4>3. Account(s.ns, s.owner, s.by) \in accounts /\ Binding(s.ns, s.owner, s.by) \in bindings
        BY <4>2 DEF Tokens, TokenOfOneCall, Account, Binding
      <4> QED BY <3>3, <4>2, <4>3
    <3>5. \A s \in secrets' : (s.by \in 1..Len(answers) \/ (call # Idle /\ s.by = Now)) /\ ns[s.ns] # "absent"
      BY <3>2 DEF Tokens
    <3>6. call # Idle /\ call.op = "create_admin_sa_for_namespace" =>
            /\ call.name = call.user
            /\ Rest(call.todo, create_admin_sa_for_namespace)
            /\ ns[call.ns] = "active" =>
                 /\ Len(call.todo) < 8 => Account(call.ns, call.user, Now) \in accounts'
                 /\ Len(call.todo) < 5 => Binding(call.ns, call.user, Now) \in bindings'
      BY <1>0, <3>2, <3>3 DEF Tokens
    <3> QED BY <2>1, <3>2, <3>4, <3>5, <3>6 DEF Tokens
  <2>3. CASE ~ \E n \in Namespaces, kind \in Kinds : collect(n, kind)
    <3>1. /\ UNCHANGED <<accounts, bindings, secrets>>
          /\ \A n \in Namespaces : ns'[n] = "active" => ns[n] = "active"
          /\ \A s \in secrets : s.ns \in Namespaces /\ (ns'[s.ns] = "absent" => ns[s.ns] = "absent")
      BY <1>0, <1>4, <2>3 DEF Outside, finalize, kubectl_delete_namespace, sign, clean, kubectl_scale, objects
    <3>2. TokenOfOneCall'
      BY <1>op, <3>1 DEF Tokens, TokenOfOneCall
    <3> QED BY <1>0, <2>1, <3>1, <3>2 DEF Tokens
  <2> QED BY <2>2, <2>3
<1>5. CASE UNCHANGED vars
  <2>1. UNCHANGED <<call, answers, secrets, accounts, bindings, ns>> /\ Now' = Now
    BY <1>5 DEF vars, objects, Now
  <2>2. TokenOfOneCall'
    BY <1>op, <2>1 DEF Tokens, TokenOfOneCall
  <2> QED BY <2>1, <2>2 DEF Tokens
<1> QED BY <1>1, <1>2, <1>3, <1>4, <1>5, StepShape DEF Next

(* A token that create_admin_sa_for_namespace has made belongs to an       *)
(* account and a binding of the same call, for any number of calls and     *)
(* users, with namespaces deleted under a running handler.                 *)
THEOREM TokensOfOneCall == Spec => []TokenOfOneCall
<1>1. Init => Tokens
  BY DEF Init, Tokens, TokenOfOneCall
<1>2. Spec => []Typed
  BY TypedInit, TypedStep, PTL DEF Spec
<1>3. Spec => []Tokens
  BY <1>1, <1>2, TokensStep, PTL DEF Spec
<1>4. Tokens => TokenOfOneCall
  BY DEF Tokens
<1> QED BY <1>3, <1>4, PTL
=============================================================================
