----------------------------- MODULE K8sManager -----------------------------
(***************************************************************************)
(* The Kubernetes manager: a process of its own that takes the requests    *)
(* the REST interface publishes on a redis channel and installs plugins    *)
(* or applies YAML definitions on a cluster of the topology.  The class    *)
(* that installs plugins, HelmPluginManager, is shared with the Kubernetes *)
(* blueprint, which installs the default ones while it creates a cluster.  *)
(*                                                                         *)
(* A plugin is a Helm chart, installed by a helm process that outlives its *)
(* caller, and for MetalLB and OpenEBS a piece of configuration that is    *)
(* applied after the chart.  Any call to a cluster's API may fail.         *)
(***************************************************************************)
EXTENDS Naturals, Sequences, Functions

CONSTANTS
    Clusters,           \* every cluster there will be
    BlueprintClusters,  \* those a Kubernetes blueprint creates
    Requests,           \* the requests a user may send: see RequestType
    Docs,               \* the documents of the YAML definitions
    EmptyDoc,           \* an empty document, as a trailing --- leaves one
    AreaIps,            \* load_balancer_ips_area: a blueprint's addresses, by area
    PoolNames,          \* the names of pools
    PoolIps,            \* the addresses of a pool
    NoPool,             \* load_balancer_pool is None
    InitialCharts,      \* what may be on the clusters before the first step
    MaxRequests,        \* bound: requests sent
    MaxStarts           \* bound: starts of the manager

Network == {"flannel", "calico"}
Plugins == Network \cup {"openebs", "metallb"}
K8sPluginName == Plugins \cup {"istio"}     \* one for the four nobody installs
ChartState == {"absent", "pending", "upgrading", "installed", "manifest"}
PoolType == [name : PoolNames, ips : PoolIps]

(* load_balancer_pools_ips, plugin_list, body: what a request carries      *)
RequestType ==
    [op : {"install"}, plugins : Seq(K8sPluginName), pool : PoolType \cup {NoPool}]
      \cup [op : {"yaml"}, docs : Seq(Docs \cup {EmptyDoc})]

ASSUME ManagerAssumption ==
    /\ BlueprintClusters \subseteq Clusters
    /\ Requests \subseteq RequestType
    /\ AreaIps \in Seq(PoolIps) /\ "area1" \in PoolNames
    /\ InitialCharts \subseteq [Clusters -> [Plugins -> {"absent", "manifest"}]]
    /\ \A charts \in InitialCharts :
         /\ \A c \in BlueprintClusters, p \in Plugins : charts[c][p] = "absent"
         /\ \A c \in Clusters : \E p \in Network : charts[c][p] = "absent"
    /\ MaxRequests \in Nat /\ MaxStarts \in Nat
    /\ NoPool \notin PoolType /\ EmptyDoc \notin Docs /\ "manager" \notin Clusters

VARIABLES
    topo,       \* the clusters of the topology
    chart,      \* the state of each plugin's release on each cluster
    default,    \* the clusters whose default storage class is openebs-hostpath
    pools,      \* the MetalLB pools of each cluster, by name
    objs,       \* the documents on each cluster, with the request that made them
    alive,      \* the manager's process runs and is subscribed
    channel,    \* the messages redis has delivered to it, by request number
    sent,       \* the requests accepted so far, with what became of them
    job,        \* what each installer is doing
    phase,      \* how far the creation of each blueprint's cluster is
    unfinished, \* history: the plugins whose installation broke off, by cluster
    dropped,    \* history: the requests for which a refusal was dropped
    starts      \* bound

history == <<unfinished, dropped>>
cluster == <<chart, default, pools, objs, history>>
vars == <<topo, cluster, alive, channel, sent, job, phase, starts>>

(* Those who install: the manager, and the worker of a cluster's blueprint *)
Installers == {"manager"} \cup BlueprintClusters

Idle == [pc |-> "idle"]

PluginLists == Seq(K8sPluginName)
PoolLists == Seq(PoolType)
DocLists == Seq(Docs \cup {EmptyDoc})

(* An installation: the list asked for and the places of it that are left, *)
(* the one it is at, and the plugins it found on the cluster.              *)
InstallJobs ==
    [pc : {"check", "next", "wait", "config", "retry"}, request : Nat, cluster : Clusters,
     plugins : PluginLists, pools : PoolLists, left : SUBSET Nat, at : Nat, found : SUBSET Plugins]

(* A YAML definition being applied: the documents left, and whether the    *)
(* last one made something.                                                *)
YamlJobs ==
    [pc : {"yaml"}, request : Nat, cluster : Clusters, docs : DocLists, result : BOOLEAN]

RequestState == [on : Clusters, what : Requests, status : {"queued", "running", "done", "failed", "lost"}]

TypeOK ==
    /\ topo \subseteq Clusters
    /\ chart \in [Clusters -> [Plugins -> ChartState]]
    /\ default \subseteq Clusters
    /\ DOMAIN pools = Clusters
    /\ \A c \in Clusters : \A n \in DOMAIN pools[c] : pools[c][n] \in PoolIps
    /\ DOMAIN objs = Clusters
    /\ \A c \in Clusters : DOMAIN objs[c] \subseteq Docs
    /\ alive \in BOOLEAN
    /\ sent \in Seq(RequestState)
    /\ channel \in Seq(Nat) /\ \A n \in DOMAIN channel : channel[n] \in DOMAIN sent
    /\ job \in [Installers -> {Idle} \cup InstallJobs \cup YamlJobs]
    /\ phase \in [BlueprintClusters -> {"none", "installing", "failed", "installed", "ready"}]
    /\ unfinished \subseteq Clusters \X Plugins /\ dropped \subseteq Nat

-----------------------------------------------------------------------------
(* The REST interface and the topology.                                    *)

(* get_k8s_cluster_by_id raises 404 for a cluster that is not in the       *)
(* topology; a publication nobody is subscribed to is gone.                *)
RestRequest(c, r) ==
    /\ Len(sent) < MaxRequests
    /\ c \in topo
    /\ sent' = Append(sent, [on |-> c, what |-> r, status |-> IF alive THEN "queued" ELSE "lost"])
    /\ channel' = IF alive THEN Append(channel, Len(sent')) ELSE channel
    /\ UNCHANGED <<topo, cluster, alive, job, phase, starts>>

add_k8scluster(c) ==
    /\ c \notin topo
    /\ c \in BlueprintClusters => phase[c] = "ready"
    /\ topo' = topo \cup {c}
    /\ UNCHANGED <<cluster, alive, channel, sent, job, phase, starts>>

del_k8scluster(c) ==
    /\ c \in topo
    /\ topo' = topo \ {c}
    /\ UNCHANGED <<cluster, alive, channel, sent, job, phase, starts>>

-----------------------------------------------------------------------------
(* How an installer's work ends.                                           *)

Report(i, status) ==
    IF i = "manager"
    THEN /\ sent' = [sent EXCEPT ![job[i].request].status = status]
         /\ phase' = phase
    ELSE /\ sent' = sent
         /\ phase' = [phase EXCEPT ![i] = IF status = "done" THEN "installed" ELSE "failed"]

(* listen_to_k8s_management catches every exception and takes the next     *)
(* message; the worker of a blueprint leaves create with an error.         *)
Raise(i) == job' = [job EXCEPT ![i] = Idle] /\ Report(i, "failed")

Succeed(i) == job' = [job EXCEPT ![i] = Idle] /\ Report(i, "done")

Go(i, j) == job' = [job EXCEPT ![i] = j] /\ UNCHANGED <<sent, phase>>

-----------------------------------------------------------------------------
(* HelmPluginManager: each operator is a step of installer i.              *)

(* The answers the listing of the daemon sets may give.  Those of a        *)
(* release in progress may be on the cluster or not.  The label "app" that *)
(* tells MetalLB is set by its manifest and not by its chart.              *)
get_installed_plugins(c) ==
    LET labelled(states) == {p \in Plugins : /\ chart[c][p] \in states
                                             /\ p = "metallb" => chart[c][p] = "manifest"}
    IN  {labelled({"installed", "upgrading", "manifest"}) \cup seen :
            seen \in SUBSET labelled({"pending"})}

(* The places of the list that are left to install: the first occurrence   *)
(* of every installed plugin is dropped, and a name that is none of the    *)
(* four is passed over.                                                    *)
NotInstalled(plugins, installed) ==
    {n \in DOMAIN plugins :
       /\ plugins[n] \in Plugins
       /\ plugins[n] \in installed => \E k \in 1..(n - 1) : plugins[k] = plugins[n]}

(* Mutant: the plugins in the order of the request.                        *)
PrecedesMutant(plugins, m, n) == m < n

(* The network plugin comes first (there is one at most, when the check    *)
(* has passed), the others in the order of the list.                       *)
Precedes(plugins, m, n) ==
    IF plugins[m] \in Network THEN plugins[n] \in Network => m < n
                              ELSE plugins[n] \notin Network /\ m < n

(* The place whose turn it is.                                             *)
First(j) == {n \in j.left : \A m \in j.left : ~Precedes(j.plugins, m, n)}

(* The plugin an installation is at.                                       *)
Current(j) == j.plugins[j.at]

(* Job j is installing plugin p on cluster c.                              *)
At(j, c, p) == j.pc \in {"wait", "config", "retry"} /\ j.cluster = c /\ Current(j) = p

(* A network plugin is installed once, however often it is in the list.    *)
Installed(j) ==
    [j EXCEPT !.pc = "next", !.at = 0,
              !.left = {n \in @ : n # j.at /\ j.plugins[n] \notin Network}]

(* Mutant: what is on the cluster is left out of the union.                *)
ConflictMutant(plugins, installed) == Network \subseteq Range(plugins)

Conflict(plugins, installed) == Network \subseteq Range(plugins) \cup installed

install_plugins(i) ==
    LET j == job[i]
    IN
    /\ j.pc = "check"
    /\ \/ Raise(i)                              \* list_daemon_set fails
       \/ \E installed \in get_installed_plugins(j.cluster) :
            \/ Conflict(j.plugins, installed) /\ Raise(i)
            \/ /\ ~Conflict(j.plugins, installed)
               /\ Go(i, [j EXCEPT !.pc = "next", !.found = installed,
                                  !.left = NotInstalled(j.plugins, installed)])
    /\ UNCHANGED <<topo, cluster, alive, channel, starts>>

(* yaml.safe_load is given a Path, which has no read(): _install_calico    *)
(* raises before it calls helm.                                            *)
_install_calico(i) ==
    /\ job[i].pc = "next"
    /\ \E n \in First(job[i]) : job[i].plugins[n] = "calico"
    /\ Raise(i)
    /\ UNCHANGED <<topo, cluster, alive, channel, starts>>

(* install_or_upgrade_release refuses a release with an operation pending, *)
(* and objects on the cluster that no release owns.                        *)
install_plugin(i) ==
    LET j == job[i]
    IN
    /\ j.pc = "next"
    /\ \E n \in First(j) :
         LET p == j.plugins[n]
         IN
         /\ p # "calico"
         /\ \/ /\ chart[j.cluster][p] \in {"pending", "upgrading", "manifest"}
               /\ Raise(i)
               /\ UNCHANGED chart
            \/ /\ chart[j.cluster][p] \in {"absent", "installed"}
               /\ chart' = [chart EXCEPT ![j.cluster][p] =
                              IF @ = "absent" THEN "pending" ELSE "upgrading"]
               /\ Go(i, [j EXCEPT !.pc = "wait", !.at = n])
    /\ UNCHANGED <<topo, default, pools, objs, history, alive, channel, starts>>

AfterChart(j) == IF Current(j) \in Network THEN Installed(j) ELSE [j EXCEPT !.pc = "config"]

(* The helm process ends, with the release ready or (atomic=True) rolled   *)
(* back, whether or not the installer that started it is still there.      *)
helm_ends(c, p) ==
    /\ chart[c][p] \in {"pending", "upgrading"}
    /\ \E ok \in BOOLEAN :
         LET waiting == {i \in Installers : job[i].pc = "wait" /\ At(job[i], c, p)}
         IN
         /\ chart' = [chart EXCEPT ![c][p] = IF ok \/ @ = "upgrading" THEN "installed" ELSE "absent"]
         /\ IF waiting = {} THEN UNCHANGED <<job, sent, phase>>
            ELSE \E i \in waiting : IF ok THEN Go(i, AfterChart(job[i])) ELSE Raise(i)
    /\ UNCHANGED <<topo, default, pools, objs, history, alive, channel, starts>>

(* The storage class is read and patched to be the default.                *)
_install_openebs(i) ==
    LET j == job[i]
    IN
    /\ j.pc = "config" /\ Current(j) = "openebs"
    /\ \/ /\ default' = default \cup {j.cluster}
          /\ Go(i, Installed(j))
          /\ UNCHANGED unfinished
       \/ /\ Raise(i)
          /\ unfinished' = unfinished \cup {<<j.cluster, "openebs">>}
          /\ UNCHANGED default
    /\ UNCHANGED <<topo, chart, pools, objs, dropped, alive, channel, starts>>

(* create_from_yaml_custom: the documents one after the other.  What is    *)
(* already there is skipped, what fails is collected, and a refusal whose  *)
(* body is not JSON ("plain") is dropped by skip_if_already_exists.        *)
Outcome == {"created", "error", "plain"}

WithPools(have, given, outcome) ==
    LET created == {n \in DOMAIN given :
                      /\ given[n].name \notin DOMAIN have
                      /\ outcome[n] = "created"
                      /\ \A k \in 1..(n - 1) : given[k].name = given[n].name => outcome[k] # "created"}
    IN  [name \in DOMAIN have \cup {given[n].name : n \in created} |->
           IF name \in DOMAIN have THEN have[name]
           ELSE given[CHOOSE n \in created : given[n].name = name].ips]

(* Mutant: skip_if_already_exists skips every failure.                     *)
create_from_yaml_customMutant(have, given, outcome) ==
    [pools |-> WithPools(have, given, outcome), failures |-> {}]

create_from_yaml_custom(have, given, outcome) ==
    [pools |-> WithPools(have, given, outcome),
     failures |-> {n \in DOMAIN given : outcome[n] = "error"}]

(* Mutant: retried until it works.                                         *)
_install_metallbMutant(i) ==
    LET j == job[i]
    IN
    /\ j.pc \in {"config", "retry"} /\ Current(j) = "metallb"
    /\ \E outcome \in [DOMAIN j.pools -> Outcome] :
         LET made == create_from_yaml_custom(pools[j.cluster], j.pools, outcome)
         IN
         /\ pools' = [pools EXCEPT ![j.cluster] = made.pools]
         /\ dropped' = IF \E n \in DOMAIN outcome : outcome[n] = "plain"
                       THEN dropped \cup {j.request} ELSE dropped
         /\ \/ made.failures = {} /\ Go(i, Installed(j))
            \/ made.failures # {} /\ Go(i, [j EXCEPT !.pc = IF @ = "config" THEN "retry" ELSE "config"])
    /\ UNCHANGED <<topo, chart, default, objs, unfinished, alive, channel, starts>>

(* A FailToCreateError is retried once, 30 seconds later; a failure that   *)
(* is no answer of the API, such as a lost connection, is not caught.      *)
_install_metallb(i) ==
    LET j == job[i]
    IN
    /\ j.pc \in {"config", "retry"} /\ Current(j) = "metallb"
    /\ \E outcome \in [DOMAIN j.pools -> Outcome] :
         LET made == create_from_yaml_custom(pools[j.cluster], j.pools, outcome)
         IN
         /\ pools' = [pools EXCEPT ![j.cluster] = made.pools]
         /\ dropped' = IF \E n \in DOMAIN outcome : outcome[n] = "plain"
                       THEN dropped \cup {j.request} ELSE dropped
         /\ \/ made.failures = {} /\ Go(i, Installed(j))
            \/ made.failures # {} /\ j.pc = "config" /\ Go(i, [j EXCEPT !.pc = "retry"])
            \/ made.failures # {} /\ Raise(i)
    /\ UNCHANGED <<topo, chart, default, objs, unfinished, alive, channel, starts>>

installed_plugins(i) ==
    /\ job[i].pc = "next" /\ job[i].left = {}
    /\ Succeed(i)
    /\ UNCHANGED <<topo, cluster, alive, channel, starts>>

-----------------------------------------------------------------------------
(* The manager.                                                            *)

(* _delegate_operation: the topology is read again, and the request fails  *)
(* when its cluster has gone.  install_plugins reads the pod network from  *)
(* the cluster, then builds K8sPluginAdditionalData(areas=[lb_pool]), which*)
(* refuses None.                                                           *)
InstallJob(r, rid) ==
    [pc |-> "check", request |-> rid, cluster |-> sent[rid].on, plugins |-> r.plugins,
     pools |-> <<r.pool>>, left |-> {}, at |-> 0, found |-> {}]

YamlJob(r, rid) ==
    [pc |-> "yaml", request |-> rid, cluster |-> sent[rid].on, docs |-> r.docs, result |-> FALSE]

_delegate_operation ==
    /\ alive /\ job["manager"].pc = "idle" /\ channel # <<>>
    /\ channel' = Tail(channel)
    /\ LET rid == Head(channel)
           r == sent[rid].what
           Fail == sent' = [sent EXCEPT ![rid].status = "failed"] /\ UNCHANGED job
           Run(j) == /\ sent' = [sent EXCEPT ![rid].status = "running"]
                     /\ job' = [job EXCEPT !["manager"] = j]
       IN
       \/ sent[rid].on \notin topo /\ Fail
       \/ /\ sent[rid].on \in topo /\ r.op = "install"
          /\ \/ Fail                            \* get_k8s_cidr_info fails
             \/ r.pool = NoPool /\ Fail
             \/ r.pool # NoPool /\ Run(InstallJob(r, rid))
       \/ sent[rid].on \in topo /\ r.op = "yaml" /\ Run(YamlJob(r, rid))
    /\ UNCHANGED <<topo, cluster, alive, phase, starts>>

(* apply_to_k8s: document after document.  One that is already there is a  *)
(* 409 and ends the request; the ones before it stay.                      *)
apply_def_to_cluster ==
    LET j == job["manager"]
        d == Head(j.docs)
        rest == [j EXCEPT !.docs = Tail(@)]
    IN
    /\ j.pc = "yaml" /\ j.docs # <<>>
    /\ \/ /\ d = EmptyDoc
          /\ Go("manager", [rest EXCEPT !.result = FALSE])
          /\ UNCHANGED objs
       \/ /\ d # EmptyDoc /\ d \notin DOMAIN objs[j.cluster]
          /\ objs' = [objs EXCEPT ![j.cluster] =
                        [e \in DOMAIN @ \cup {d} |-> IF e = d THEN j.request ELSE @[e]]]
          /\ Go("manager", [rest EXCEPT !.result = TRUE])
       \/ d # EmptyDoc /\ Raise("manager") /\ UNCHANGED objs  \* 409, or another failure
    /\ UNCHANGED <<topo, chart, default, pools, history, alive, channel, starts>>

(* The loop over result[0] raises when the last document was empty, or     *)
(* when there was none.                                                    *)
applied_to_k8s ==
    /\ job["manager"].pc = "yaml" /\ job["manager"].docs = <<>>
    /\ IF job["manager"].result THEN Succeed("manager") ELSE Raise("manager")
    /\ UNCHANGED <<topo, cluster, alive, channel, starts>>

(* SIGTERM: close() kills the process where it stands.  What redis had     *)
(* delivered goes with it; a helm process goes on.                         *)
close ==
    /\ alive
    /\ alive' = FALSE
    /\ channel' = <<>>
    /\ job' = [job EXCEPT !["manager"] = Idle]
    /\ sent' = [r \in DOMAIN sent |->
                  IF sent[r].status \in {"queued", "running"} THEN [sent[r] EXCEPT !.status = "lost"]
                                                              ELSE sent[r]]
    /\ unfinished' = unfinished \cup {u \in Clusters \X Plugins : At(job["manager"], u[1], u[2])}
    /\ UNCHANGED <<topo, chart, default, pools, objs, dropped, phase, starts>>

initialize_k8s_man_subscriber ==
    /\ ~alive /\ starts < MaxStarts
    /\ alive' = TRUE
    /\ starts' = starts + 1
    /\ UNCHANGED <<topo, cluster, channel, sent, job, phase>>

-----------------------------------------------------------------------------
(* The blueprint, from the moment its nodes are configured.                *)

(* One pool for each area that has addresses, and one name for all.        *)
setup_load_balancer_pool == [n \in DOMAIN AreaIps |-> [name |-> "area1", ips |-> AreaIps[n]]]

(* fix_dns_problem and get_k8s_cidr_info may fail.  The plugins are the    *)
(* same three whatever the cni asked for.                                  *)
install_default_plugins(c) ==
    /\ phase[c] = "none"
    /\ \/ /\ phase' = [phase EXCEPT ![c] = "installing"]
          /\ job' = [job EXCEPT ![c] =
               [pc |-> "check", request |-> 0, cluster |-> c,
                plugins |-> <<"flannel", "metallb", "openebs">>, pools |-> setup_load_balancer_pool,
                left |-> {}, at |-> 0, found |-> {}]]
       \/ phase' = [phase EXCEPT ![c] = "failed"] /\ UNCHANGED job
       \/ phase' = [phase EXCEPT ![c] = "installed"] /\ UNCHANGED job  \* install_plugins is False
    /\ UNCHANGED <<topo, cluster, alive, channel, sent, starts>>

topology_onboard(c) ==
    /\ phase[c] = "installed"
    /\ phase' = [phase EXCEPT ![c] = "ready"]
    /\ \/ topo' = topo \cup {c}
       \/ topo' = topo                          \* topology_onboard is False
    /\ UNCHANGED <<cluster, alive, channel, sent, job, starts>>

-----------------------------------------------------------------------------
Init ==
    /\ topo = Clusters \ BlueprintClusters
    /\ chart \in InitialCharts
    /\ default = {}
    /\ pools = [c \in Clusters |-> <<>>]
    /\ objs = [c \in Clusters |-> <<>>]
    /\ alive = FALSE
    /\ channel = <<>>
    /\ sent = <<>>
    /\ job = [i \in Installers |-> Idle]
    /\ phase = [c \in BlueprintClusters |-> "none"]
    /\ unfinished = {} /\ dropped = {}
    /\ starts = 0

Install(i) ==
    \/ install_plugins(i) \/ _install_calico(i) \/ install_plugin(i)
    \/ _install_openebs(i) \/ _install_metallb(i) \/ installed_plugins(i)

Manager == _delegate_operation \/ apply_def_to_cluster \/ applied_to_k8s \/ Install("manager")

Next ==
    \/ \E c \in Clusters, r \in Requests : RestRequest(c, r)
    \/ \E c \in Clusters : add_k8scluster(c) \/ del_k8scluster(c)
    \/ Manager
    \/ \E c \in Clusters, p \in Plugins : helm_ends(c, p)
    \/ close \/ initialize_k8s_man_subscriber
    \/ \E c \in BlueprintClusters :
         install_default_plugins(c) \/ topology_onboard(c) \/ Install(c)

(* The process that listens is scheduled by the system, every API call and *)
(* every helm process has a timeout.                                       *)
Fairness ==
    /\ WF_vars(Manager)
    /\ \A c \in Clusters, p \in Plugins : WF_vars(helm_ends(c, p))

Spec == Init /\ [][Next]_vars /\ Fairness

-----------------------------------------------------------------------------
(* Two network plugins on one cluster fight for its routes.  The check of  *)
(* install_plugins sees what the cluster lists and what is asked for; it   *)
(* may miss a release that a killed manager left in progress, which is     *)
(* then always Flannel's, as _install_calico never gets to its chart.      *)
OneNetworkPlugin ==
    \A c \in Clusters : \E p \in Network : chart[c][p] = "absent"

(* "Network plugins must be installed before the others": no other chart   *)
(* of an installation is started before the network plugin it asked for    *)
(* works, or was found on the cluster.                                     *)
NetworkFirst ==
    \A i \in Installers :
      job[i].pc \in {"wait", "config", "retry"} /\ Current(job[i]) \notin Network
        => \A p \in Network \cap Range(job[i].plugins) :
             p \in job[i].found \/ chart[job[i].cluster][p] = "installed"

(* A request is reported as done only when every plugin it asks for is     *)
(* there with what is applied after its chart: a failed chart, a failed    *)
(* patch of the storage class or a second failure of the pools is never    *)
(* taken for a success.  There are three exceptions and no more.  The      *)
(* refusal of a pool may have been dropped: the docstring of               *)
(* skip_if_already_exists says that every failure but alreadyExists is     *)
(* added to the list, its code drops one whose body is not JSON.  A plugin *)
(* found on the cluster is passed over when the cluster came with it, and  *)
(* also when it is what an earlier installation left behind that was       *)
(* killed or could not patch the storage class: the retry does not repair  *)
(* it.  A YAML request is done only when it has itself created every       *)
(* document ("MUST NOT exist"), also after an earlier one failed half-way. *)
DoneIsInstalled ==
    [][\A r \in DOMAIN sent :
         sent[r].status # "done" /\ sent'[r].status = "done"
           => LET c == sent[r].on
                  what == sent[r].what
              IN  /\ what.op = "install" =>
                       \A p \in Range(what.plugins) \cap Plugins :
                         \/ /\ chart'[c][p] = "installed"
                            /\ p = "openebs" => c \in default'
                            /\ p = "metallb" => what.pool.name \in DOMAIN pools'[c] \/ r \in dropped'
                         \/ /\ p \in job["manager"].found
                            /\ chart'[c][p] = "manifest" \/ <<c, p>> \in unfinished'
                  /\ what.op = "yaml" =>
                       \A d \in Range(what.docs) \ {EmptyDoc} :
                         d \in DOMAIN objs'[c] /\ objs'[c][d] = r]_vars

(* Every request answered with 202 comes to an end, done, failed or lost   *)
(* with the process: a failure of one does not stop the loop that takes    *)
(* the next.                                                               *)
AcceptedIsHandled ==
    \A r \in 1..MaxRequests :
      (r \in DOMAIN sent /\ sent[r].status \in {"queued", "running"})
        ~> (r \in DOMAIN sent /\ sent[r].status \notin {"queued", "running"})

(* The addresses of every area are in a pool of the cluster once its       *)
(* blueprint has installed MetalLB without an error and no refusal was     *)
(* dropped.                                                                *)
AreasAreServed ==
    [][\A c \in BlueprintClusters :
         phase[c] = "installing" /\ phase'[c] = "installed" /\ 0 \notin dropped'
           => \A n \in DOMAIN AreaIps :
                \E name \in DOMAIN pools'[c] : pools'[c][name] = AreaIps[n]]_vars
=============================================================================
