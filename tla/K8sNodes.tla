------------------------------- MODULE K8sNodes -------------------------------
(***************************************************************************)
(* The nodes of a Kubernetes cluster blueprint: the blueprint, its record  *)
(* in the database, the servers and flavors that the OpenStack provider    *)
(* makes for it, and the nodes of the cluster itself.                      *)
(*                                                                         *)
(* An operation (create, add_worker, del_workers, destroy) is run by the   *)
(* worker thread of the blueprint, one at a time.  Any call to the VIM, to *)
(* Ansible or to the topology may raise: create and day-2 operations then  *)
(* end with an error and the blueprint is saved as it is; an exception of  *)
(* destroy ends the thread.  The process may be killed between two steps;  *)
(* it comes back with what was last saved.                                 *)
(*                                                                         *)
(* VMs are numbered in the order in which their resources are made, which  *)
(* is the order of every list of the blueprint's state that holds them.    *)
(* Of networks, images and areas only this is kept: that they may be       *)
(* missing.  Flavors are the ones the provider names after the VM, which   *)
(* is what it does when a request does not name one.                       *)
(***************************************************************************)
EXTENDS Integers, Sequences, FiniteSets

CONSTANTS
    Numbers,        \* how many worker numbers there are (18 in the code)
    CreatePlans,    \* what create may be asked for: sequences over Machine
    AddPlans,       \* what add_worker may be asked for
    DelRequests,    \* the node names of del_workers: sequences over Number and Controller
    MaxVm,          \* bound: VMs made
    MaxRequests,    \* bound: requests after create
    MaxFaults,      \* bound: calls that raise for a reason outside the blueprint
    MaxKills        \* bound: kills of the process

VARIABLES
    mem,        \* the blueprint in memory
    db,         \* its record
    num,        \* the number in the name of a VM
    fresh,      \* the next VM resource
    servers,    \* on the VIM: the servers
    flavors,    \* on the VIM: the flavors, by the number of their VM
    nodes,      \* in the cluster: the worker nodes
    joined,     \* the VMs that have run kubeadm join
    topo,       \* the topology lists the cluster
    pc, job,    \* the operation that is running, or the last one
    lost,       \* history: what was made on the VIM and never recorded
    requests, faults, kills

outside == <<servers, flavors, nodes, joined, topo>>
bounds == <<requests, faults, kills>>
vars == <<mem, db, num, fresh, outside, pc, job, lost, bounds>>

Number == 0..(Numbers - 1)
Controller == -1                    \* stands for the number in the controller's name
Vm == 1..MaxVm
NoVm == 0
NoRecord == [gone |-> TRUE]

\* A VM to deploy: the controller, a worker, or a worker in an area that has no VIM.
Machine == {"controller", "worker", "stranded"}

ASSUME BoundsAssumption ==
    /\ Numbers \in Nat \ {0} /\ MaxVm \in Nat
    /\ CreatePlans \subseteq Seq(Machine) /\ AddPlans \subseteq Seq(Machine)
    /\ DelRequests \subseteq Seq(Number \cup {Controller})
    /\ MaxRequests \in Nat /\ MaxFaults \in Nat /\ MaxKills \in Nat

\* K8sCreateModel.check_areas and K8sAddNodeModel.check_areas: create is asked for
\* one controller at most, add_worker for none.
ASSUME PlansAssumption ==
    /\ \A plan \in CreatePlans : \A i, j \in 1..Len(plan) :
          plan[i] = "controller" /\ plan[j] = "controller" => i = j
    /\ \A plan \in AddPlans : \A i \in 1..Len(plan) : plan[i] # "controller"

\* The state of the blueprint, its registered resources and its provider's data.
StateType ==
    [master : Vm \cup {NoVm},           \* vm_master
     vms : SUBSET Vm,                   \* vm_workers
     numbers : SUBSET Number,           \* worker_numbers that are reserved
     configurators : SUBSET Vm,         \* day_0_workers_configurators, by their VM
     pending : SUBSET Vm,               \* day_0_workers_configurators_tobe_exec
     registered : SUBSET Vm,            \* the VMs in registered_resources
     os_dict : SUBSET Vm,               \* VMs whose server id the provider knows
     created : SUBSET Vm,               \* VmResource.created
     flavors : SUBSET (Number \cup {Controller}),
     key : BOOLEAN,                     \* master_key_add_worker has been read
     onboarded : BOOLEAN]               \* topology_onboarded

NewState ==
    [master |-> NoVm, vms |-> {}, numbers |-> {}, configurators |-> {}, pending |-> {},
     registered |-> {}, os_dict |-> {}, created |-> {}, flavors |-> {},
     key |-> FALSE, onboarded |-> FALSE]

Steps == {"idle", "deploy", "flavor", "access", "server", "record", "network", "configurator",
          "master", "workers", "plugins", "onboard", "drain", "destroying", "deregister", "end",
          "offboard", "teardown", "cleanup", "ranges", "forget", "dead", "gone"}

\* What is left of a request: the machines to deploy, the VM in hand, the VMs
\* still to configure or to tear down, the VMs to delete and the next of them.
JobType ==
    [op : {"create", "add_worker", "del_workers", "destroy", "none"},
     plan : Seq(Machine), vm : Vm \cup {NoVm}, left : SUBSET Vm,
     targets : Seq(Vm \cup {NoVm}), at : Nat \ {0}, ok : BOOLEAN]

TypeOK ==
    /\ mem \in StateType
    /\ db \in StateType \cup {NoRecord}
    /\ num \in [Vm -> Number \cup {Controller}]
    /\ fresh \in 1..(MaxVm + 1)
    /\ servers \subseteq Vm /\ nodes \subseteq Vm /\ joined \subseteq Vm
    /\ flavors \subseteq Number \cup {Controller}
    /\ topo \in BOOLEAN
    /\ pc \in Steps /\ job \in JobType
    /\ lost \in [servers : SUBSET Vm, flavors : SUBSET (Number \cup {Controller}), topo : BOOLEAN]
    /\ requests \in 0..MaxRequests /\ faults \in 0..MaxFaults /\ kills \in 0..MaxKills

Least(S) == CHOOSE x \in S : \A y \in S : x <= y

-----------------------------------------------------------------------------
(* How an operation begins and ends.                                       *)

Job(op, plan, targets) ==
    [op |-> op, plan |-> plan, vm |-> NoVm, left |-> {}, targets |-> targets, at |-> 1, ok |-> FALSE]

\* BlueprintWorker._listen, DAY0 and DAY2: the exception is caught and the
\* blueprint saved, with what the operation has changed so far.
Raise(state) ==
    /\ mem' = state /\ db' = state
    /\ pc' = "idle"
    /\ UNCHANGED job

\* A call that raises for a reason of its own.
Fault == faults < MaxFaults /\ faults' = faults + 1

\* The next step of the operation, with the blueprint changed and not saved.
Go(step, state) ==
    /\ pc' = step
    /\ mem' = state /\ UNCHANGED db

\* The next step, after save_to_db.
GoSaved(step, state) ==
    /\ pc' = step
    /\ mem' = state /\ db' = state

\* _listen, after the operation: the answer is OK and the blueprint is saved.
end ==
    /\ pc = "end"
    /\ GoSaved("idle", mem)
    /\ job' = [job EXCEPT !.ok = TRUE]
    /\ UNCHANGED <<num, fresh, outside, lost, bounds>>

Request ==
    /\ pc = "idle"
    /\ requests < MaxRequests /\ requests' = requests + 1
    /\ UNCHANGED <<num, fresh, outside, lost, faults, kills>>

-----------------------------------------------------------------------------
(* Deploying the machines of a request.                                    *)

\* Mutant: workers are counted instead.
reserve_worker_numberMutant == Cardinality(mem.vms)

reserve_worker_number == Least(Number \ mem.numbers)

\* K8sBlueprint.deploy_master_node, up to create_vm.  register_resource refuses
\* an area without a VIM, when the controller is in the state already.
deploy_master_node ==
    /\ Head(job.plan) = "controller" /\ fresh \in Vm
    /\ num' = [num EXCEPT ![fresh] = Controller]
    /\ fresh' = fresh + 1
    /\ \/ /\ job' = [job EXCEPT !.vm = fresh]
          /\ Go("flavor", [mem EXCEPT !.master = fresh, !.registered = @ \cup {fresh}])
       \/ Raise([mem EXCEPT !.master = fresh])

\* The body of the loop of K8sBlueprint.deploy_area, up to create_vm: all
\* numbers may be taken, and register_resource refuses an area without a VIM,
\* when the worker is in the list already.
deploy_worker ==
    LET added == [mem EXCEPT !.numbers = @ \cup {reserve_worker_number},
                             !.vms = @ \cup {fresh}]
    IN /\ Head(job.plan) # "controller"
       /\ \/ /\ Number \subseteq mem.numbers
             /\ Raise(mem)
             /\ UNCHANGED <<num, fresh>>
          \/ /\ ~ (Number \subseteq mem.numbers) /\ fresh \in Vm
             /\ num' = [num EXCEPT ![fresh] = reserve_worker_number]
             /\ fresh' = fresh + 1
             /\ \/ /\ Head(job.plan) = "stranded"
                   /\ Raise(added)
                \/ /\ Head(job.plan) = "worker"
                   /\ job' = [job EXCEPT !.vm = fresh]
                   /\ Go("flavor", [added EXCEPT !.registered = @ \cup {fresh}])

\* When every machine is there, create configures the controller; add_worker
\* goes on to the workers (K8sBlueprint.create, add_worker).
deployed ==
    /\ job.plan = <<>>
    /\ job' = [job EXCEPT !.left = mem.pending]
    /\ Go(IF job.op = "create" THEN "master" ELSE "workers", mem)
    /\ UNCHANGED <<num, fresh>>

deploy_area ==
    /\ pc = "deploy"
    /\ \/ job.plan # <<>> /\ (deploy_master_node \/ deploy_worker)
       \/ deployed
    /\ UNCHANGED <<outside, lost, bounds>>

\* create_vm up to the flavor: the checks of networks and image, and
\* create_get_flavor, which makes a flavor unless the provider has recorded
\* one; the VIM refuses a second flavor with the name.
create_get_flavor ==
    LET name == num[job.vm]
    IN /\ pc = "flavor"
       /\ \/ Fault /\ Raise(mem) /\ UNCHANGED flavors
          \/ /\ (name \in mem.flavors) = (name \in flavors)
             /\ Go(IF name \in mem.flavors THEN "server" ELSE "access", mem)
             /\ flavors' = flavors \cup {name}
             /\ UNCHANGED <<job, faults>>
          \/ /\ (name \in mem.flavors) # (name \in flavors)
             /\ Raise(mem)
             /\ UNCHANGED <<flavors, faults>>
       /\ UNCHANGED <<num, fresh, servers, nodes, joined, topo, lost, requests, kills>>

\* create_get_flavor, after create_flavor: access for the project, then the record.
add_flavor_access ==
    LET name == num[job.vm]
    IN /\ pc = "access"
       /\ \/ /\ Fault /\ Raise(mem)
             /\ lost' = [lost EXCEPT !.flavors = @ \cup {name}]
          \/ /\ Go("server", [mem EXCEPT !.flavors = @ \cup {name}])
             /\ UNCHANGED <<job, faults, lost>>
       /\ UNCHANGED <<num, fresh, outside, requests, kills>>

\* conn.create_server(wait=True): when it raises, the VIM may have the server.
create_server ==
    /\ pc = "server"
    /\ \/ /\ servers' = servers \cup {job.vm}
          /\ Go("record", mem)
          /\ UNCHANGED <<job, faults, lost>>
       \/ /\ Fault /\ Raise(mem)
          /\ UNCHANGED <<servers, lost>>
       \/ /\ Fault /\ Raise(mem)
          /\ servers' = servers \cup {job.vm}
          /\ lost' = [lost EXCEPT !.servers = @ \cup {job.vm}]
    /\ UNCHANGED <<num, fresh, flavors, nodes, joined, topo, requests, kills>>

\* Mutant: the server's id is saved with the rest, at the end of create_vm.
record_serverMutant ==
    /\ pc = "record"
    /\ Go("network", [mem EXCEPT !.os_dict = @ \cup {job.vm}])
    /\ UNCHANGED <<num, fresh, outside, job, lost, bounds>>

\* create_vm: os_dict and save_to_db, before anything else can raise.
record_server ==
    /\ pc = "record"
    /\ GoSaved("network", [mem EXCEPT !.os_dict = @ \cup {job.vm}])
    /\ UNCHANGED <<num, fresh, outside, job, lost, bounds>>

\* The rest of create_vm: addresses, facts gathered over SSH, port security.
update_net_info_vm ==
    /\ pc = "network"
    /\ \/ Fault /\ Raise(mem)
       \/ /\ GoSaved("configurator", [mem EXCEPT !.created = @ \cup {job.vm}])
          /\ UNCHANGED <<job, faults>>
    /\ UNCHANGED <<num, fresh, outside, lost, requests, kills>>

\* deploy_area and deploy_master_node, after create_vm.
add_configurator ==
    /\ pc = "configurator"
    /\ Go("deploy",
          IF job.vm = mem.master THEN mem
          ELSE [mem EXCEPT !.configurators = @ \cup {job.vm}, !.pending = @ \cup {job.vm}])
    /\ job' = [job EXCEPT !.plan = Tail(@)]
    /\ UNCHANGED <<num, fresh, outside, lost, bounds>>

-----------------------------------------------------------------------------
(* Configuring them.                                                       *)

\* day0conf, the controller: configure_vm saves before the key of the cluster
\* is put into the state.
configure_master ==
    /\ pc = "master"
    /\ \/ Fault /\ Raise(mem)
       \/ /\ pc' = "workers"
          /\ db' = mem /\ mem' = [mem EXCEPT !.key = TRUE]
          /\ UNCHANGED <<job, faults>>
    /\ UNCHANGED <<num, fresh, outside, lost, requests, kills>>

\* kubeadm join needs the key and a machine that has not joined before; the
\* playbook may fail before it and after it.
configure_worker(v) ==
    \/ /\ mem.key /\ v \notin joined /\ v \in mem.created
       /\ nodes' = nodes \cup {v} /\ joined' = joined \cup {v}
       /\ \/ /\ GoSaved("workers", mem)
             /\ job' = [job EXCEPT !.left = @ \ {v}]
             /\ UNCHANGED faults
          \/ Fault /\ Raise(mem)
    \/ /\ ~ mem.key \/ v \in joined \/ v \notin mem.created
       /\ Raise(mem)
       /\ UNCHANGED <<nodes, joined, faults>>
    \/ /\ Fault /\ Raise(mem)
       /\ UNCHANGED <<nodes, joined>>

\* day0conf, the workers: the list is emptied when all have been configured.
day0conf ==
    /\ pc = "workers"
    /\ \/ job.left # {} /\ configure_worker(Least(job.left))
       \/ /\ job.left = {}
          /\ Go(IF job.op = "create" THEN "plugins" ELSE "end", [mem EXCEPT !.pending = {}])
          /\ UNCHANGED <<job, nodes, joined, faults>>
    /\ UNCHANGED <<num, fresh, servers, flavors, topo, lost, requests, kills>>

\* fix_dns_problem and install_default_plugins; topology_onboard may be off.
install_plugins ==
    /\ pc = "plugins"
    /\ \/ Fault /\ Raise(mem)
       \/ /\ \E step \in {"onboard", "end"} : Go(step, mem)
          /\ UNCHANGED <<job, faults>>
    /\ UNCHANGED <<num, fresh, outside, lost, requests, kills>>

\* Mutant: the flag is left out.
topology_onboardMutant ==
    /\ pc = "onboard"
    /\ topo' = TRUE
    /\ Go("end", mem)
    /\ UNCHANGED <<num, fresh, servers, flavors, nodes, joined, job, lost, bounds>>

\* create, the last step: add_k8scluster, then the flag in the state.
topology_onboard ==
    /\ pc = "onboard"
    /\ \/ Fault /\ Raise(mem) /\ UNCHANGED topo
       \/ /\ topo' = TRUE
          /\ Go("end", [mem EXCEPT !.onboarded = TRUE])
          /\ UNCHANGED <<job, faults>>
    /\ UNCHANGED <<num, fresh, servers, flavors, nodes, joined, lost, requests, kills>>

add_worker ==
    \E plan \in AddPlans :
       /\ fresh + Len(plan) <= MaxVm + 1
       /\ Request
       /\ GoSaved("deploy", mem)
       /\ job' = Job("add_worker", plan, <<>>)

-----------------------------------------------------------------------------
(* Deleting workers.                                                       *)

\* The VMs to delete, by name; a name that is no worker's is skipped.
Targets(names) ==
    [i \in 1..Len(names) |->
        IF \E v \in mem.vms : num[v] = names[i]
        THEN CHOOSE v \in mem.vms : num[v] = names[i] ELSE NoVm]

\* K8sBlueprint.del_workers: raises without a controller, does nothing when
\* there is at most one worker.
del_workers ==
    \E names \in DelRequests :
       /\ Request
       /\ \/ /\ mem.master = NoVm
             /\ GoSaved("idle", mem)
             /\ job' = Job("del_workers", <<>>, <<>>)
          \/ /\ mem.master # NoVm /\ Cardinality(mem.vms) <= 1
             /\ GoSaved("end", mem)
             /\ job' = Job("del_workers", <<>>, <<>>)
          \/ /\ mem.master # NoVm /\ Cardinality(mem.vms) > 1
             /\ GoSaved("drain", mem)
             /\ job' = Job("del_workers", <<>>, Targets(names))

\* Mutant: a node that is not in the cluster is skipped.
drainMutant ==
    LET v == job.targets[job.at]
    IN /\ pc = "drain"
       /\ nodes' = IF job.at <= Len(job.targets) THEN nodes \ {v} ELSE nodes
       /\ job' = [job EXCEPT !.at = IF @ <= Len(job.targets) THEN @ + 1 ELSE 1]
       /\ Go(IF job.at <= Len(job.targets) THEN "drain" ELSE "destroying", mem)
       /\ UNCHANGED <<num, fresh, servers, flavors, joined, topo, lost, bounds>>

\* Mutant: the result of the playbook is not looked at.
drainUnchecked ==
    LET v == job.targets[job.at]
    IN /\ pc = "drain"
       /\ \/ /\ job.at <= Len(job.targets)
             /\ nodes' \in {nodes, nodes \ {v}}
             /\ job' = [job EXCEPT !.at = @ + 1]
             /\ Go("drain", mem)
          \/ /\ job.at > Len(job.targets)
             /\ job' = [job EXCEPT !.at = 1]
             /\ GoSaved("destroying", mem)
             /\ UNCHANGED nodes
       /\ UNCHANGED <<num, fresh, servers, flavors, joined, topo, lost, bounds>>

\* The playbook that VmK8sDayNConfigurator builds, on the controller: drain
\* and delete each node; the first command that fails ends it.
drain ==
    LET v == job.targets[job.at]
        named == {n \in nodes : num[n] = num[v]}
    IN /\ pc = "drain"
       /\ \/ /\ mem.master \notin mem.created
             /\ Raise(mem)
             /\ UNCHANGED <<nodes, faults>>
          \/ /\ mem.master \in mem.created /\ job.at <= Len(job.targets) /\ v = NoVm
             /\ job' = [job EXCEPT !.at = @ + 1]
             /\ Go("drain", mem)
             /\ UNCHANGED <<nodes, faults>>
          \/ /\ mem.master \in mem.created /\ job.at <= Len(job.targets) /\ v # NoVm
             /\ \/ /\ named = {}
                   /\ Raise(mem)
                   /\ UNCHANGED <<nodes, faults>>
                \/ /\ named # {}
                   /\ nodes' = nodes \ named
                   /\ job' = [job EXCEPT !.at = @ + 1]
                   /\ Go("drain", mem)
                   /\ UNCHANGED faults
                \/ /\ Fault /\ Raise(mem)
                   /\ nodes' \in {nodes, nodes \ named}
          \/ /\ mem.master \in mem.created /\ job.at > Len(job.targets)
             /\ job' = [job EXCEPT !.at = 1]
             /\ GoSaved("destroying", mem)
             /\ UNCHANGED <<nodes, faults>>
       /\ UNCHANGED <<num, fresh, servers, flavors, joined, topo, lost, requests, kills>>

\* VirtualizationProviderOpenstack.destroy_vm: a VM whose id is not known is
\* only logged.
destroy_vm(v) == servers' = IF v \in mem.os_dict THEN servers \ {v} ELSE servers

\* del_workers, the loop after the playbook.
destroy_workers ==
    /\ pc = "destroying"
    /\ \/ /\ job.at <= Len(job.targets) /\ job.targets[job.at] # NoVm
          /\ \/ /\ destroy_vm(job.targets[job.at])
                /\ GoSaved("deregister", mem)
                /\ UNCHANGED <<job, faults>>
             \/ Fault /\ Raise(mem) /\ UNCHANGED servers
       \/ /\ job.at <= Len(job.targets) /\ job.targets[job.at] = NoVm
          /\ job' = [job EXCEPT !.at = @ + 1]
          /\ Go("destroying", mem)
          /\ UNCHANGED <<servers, faults>>
       \/ /\ job.at > Len(job.targets)
          /\ Go("end", mem)
          /\ UNCHANGED <<servers, job, faults>>
    /\ UNCHANGED <<num, fresh, flavors, nodes, joined, topo, lost, requests, kills>>

\* Mutant: the configurators still to run are not looked at.
remove_workerMutant(v) ==
    LET same == {w \in Vm : num[w] = num[v]}
    IN [mem EXCEPT !.vms = @ \ same,
                   !.numbers = @ \ {num[w] : w \in mem.configurators \cap same},
                   !.configurators = @ \ same,
                   !.registered = @ \ {v}]

\* K8sBlueprintNGState.remove_worker: by name; the number is released with the
\* configurator.
remove_worker(v) ==
    LET same == {w \in Vm : num[w] = num[v]}
    IN [mem EXCEPT !.vms = @ \ same,
                   !.numbers = @ \ {num[w] : w \in mem.configurators \cap same},
                   !.configurators = @ \ same,
                   !.pending = @ \ same,
                   !.registered = @ \ {v}]

\* deregister_resource of the VM, remove_worker and deregister_resource of its
\* configurators.  deregister_resource raises for a VM that is not registered;
\* none is, or OperationEnds would fail here.
deregister ==
    LET v == job.targets[job.at]
    IN /\ pc = "deregister"
       /\ v \in mem.registered
       /\ Go("destroying", remove_worker(v))
       /\ job' = [job EXCEPT !.at = @ + 1]
       /\ UNCHANGED <<num, fresh, outside, lost, bounds>>

-----------------------------------------------------------------------------
(* Destroying the blueprint.  Nothing catches what destroy raises: the     *)
(* thread of the worker ends and nothing is saved.                         *)

Die ==
    /\ pc' = "dead"
    /\ UNCHANGED <<mem, db>>

destroy ==
    /\ Request
    /\ Go("offboard", mem)
    /\ job' = Job("destroy", <<>>, <<>>)

\* del_k8scluster raises when the cluster is not listed, and when another
\* blueprint has charts on it.
offboard ==
    /\ pc = "offboard"
    /\ \/ /\ mem.onboarded /\ ~ topo
          /\ Die
          /\ UNCHANGED <<topo, job, faults>>
       \/ /\ mem.onboarded /\ Fault
          /\ Die
          /\ UNCHANGED <<topo, job>>
       \/ /\ mem.onboarded => topo
          /\ topo' = (topo /\ ~ mem.onboarded)
          /\ job' = [job EXCEPT !.left = mem.registered]
          /\ Go("teardown", mem)
          /\ UNCHANGED faults
    /\ UNCHANGED <<num, fresh, servers, flavors, nodes, joined, lost, requests, kills>>

\* Mutant: the loop runs until no VM is registered.
teardownMutant ==
    /\ pc = "teardown" /\ mem.registered # {}
    /\ destroy_vm(Least(mem.registered))
    /\ GoSaved("teardown", mem)
    /\ UNCHANGED <<num, fresh, flavors, nodes, joined, topo, job, lost, bounds>>

\* BlueprintNG.destroy: destroy_vm for every registered VM.
teardown ==
    /\ pc = "teardown"
    /\ \/ /\ job.left # {}
          /\ \/ /\ destroy_vm(Least(job.left))
                /\ job' = [job EXCEPT !.left = @ \ {Least(@)}]
                /\ GoSaved("teardown", mem)
                /\ UNCHANGED faults
             \/ Fault /\ Die /\ UNCHANGED <<servers, job>>
       \/ /\ job.left = {}
          /\ Go("cleanup", mem)
          /\ UNCHANGED <<servers, job, faults>>
    /\ UNCHANGED <<num, fresh, flavors, nodes, joined, topo, lost, requests, kills>>

\* VirtualizationProviderOpenstack.final_cleanup.
final_cleanup ==
    /\ pc = "cleanup"
    /\ \/ /\ flavors' = flavors \ mem.flavors
          /\ Go("ranges", mem)
          /\ UNCHANGED faults
       \/ /\ Fault /\ Die
          /\ \E some \in SUBSET mem.flavors : flavors' = flavors \ some
    /\ UNCHANGED <<num, fresh, servers, nodes, joined, topo, job, lost, requests, kills>>

\* K8sBlueprint.destroy, the last step.  Nothing of src reserves a range for a
\* cluster, so there is none to release; reading the topology may raise.
release_ranges ==
    /\ pc = "ranges"
    /\ \/ Go("forget", mem) /\ UNCHANGED faults
       \/ Fault /\ Die
    /\ UNCHANGED <<num, fresh, outside, job, lost, requests, kills>>

\* destroy_ng_blue.
destroy_ng_blue ==
    /\ pc = "forget"
    /\ pc' = "gone"
    /\ db' = NoRecord
    /\ UNCHANGED <<mem, num, fresh, outside, job, lost, bounds>>

-----------------------------------------------------------------------------
\* The process is killed and started again.  What the provider had just made
\* and not yet saved is lost: a server, a flavor, the entry of the topology.
kill ==
    /\ pc \notin {"idle", "gone"}
    /\ kills < MaxKills /\ kills' = kills + 1
    /\ mem' = db
    /\ pc' = "idle"
    /\ job' = Job("none", <<>>, <<>>)
    /\ lost' = [servers |-> IF pc = "record" THEN lost.servers \cup {job.vm} ELSE lost.servers,
                flavors |-> IF pc \in {"access", "server", "record"}
                            THEN lost.flavors \cup ({num[job.vm]} \ db.flavors) ELSE lost.flavors,
                topo |-> lost.topo \/ (pc = "end" /\ job.op = "create" /\ mem.onboarded)]
    /\ UNCHANGED <<db, num, fresh, outside, requests, faults>>

\* The manager has saved the new blueprint and its worker has taken DAY0.
Init ==
    /\ mem = NewState /\ db = NewState
    /\ num = [v \in Vm |-> Controller] /\ fresh = 1
    /\ servers = {} /\ flavors = {} /\ nodes = {} /\ joined = {} /\ topo = FALSE
    /\ pc = "deploy"
    /\ \E plan \in CreatePlans : Len(plan) <= MaxVm /\ job = Job("create", plan, <<>>)
    /\ lost = [servers |-> {}, flavors |-> {}, topo |-> FALSE]
    /\ requests = 0 /\ faults = 0 /\ kills = 0

create_vm == create_get_flavor \/ add_flavor_access \/ create_server \/ record_server \/ update_net_info_vm

\* What the worker's thread does between two requests.
Operate ==
    \/ deploy_area \/ create_vm \/ add_configurator
    \/ configure_master \/ day0conf \/ install_plugins \/ topology_onboard
    \/ drain \/ destroy_workers \/ deregister
    \/ offboard \/ teardown \/ final_cleanup \/ release_ranges \/ destroy_ng_blue
    \/ end

Next == Operate \/ add_worker \/ del_workers \/ destroy \/ kill

Spec == Init /\ [][Next]_vars

\* Every call to the VIM, Ansible, helm and the database returns or raises.
FairSpec == Spec /\ WF_vars(Operate)

-----------------------------------------------------------------------------
(* Properties.                                                             *)

\* worker_numbers holds the numbers of the workers in vm_workers, each used by
\* one of them, in memory and in the record: a worker that failed to deploy, to
\* join or to be deleted neither frees its number for another one nor keeps a
\* number after it has gone (reserve_worker_number, remove_worker).
NumbersMatch ==
    \A s \in {mem, db} \ {NoRecord} :
       /\ s.numbers = {num[v] : v \in s.vms}
       /\ \A v, w \in s.vms : num[v] = num[w] => v = w

\* Two servers that create_vm has been answered for never have one name.
OneServerPerName ==
    \A v, w \in servers \ lost.servers : num[v] = num[w] => v = w

\* A server on the VIM is one that the record leads to: registered, with its
\* id in os_dict.  The exceptions are the server of the create_vm that is about
\* to save it, and one whose create_server raised or that a kill caught there.
ServersAreRecorded ==
    \A v \in servers \ lost.servers :
       \/ pc = "record" /\ v = job.vm
       \/ db # NoRecord /\ v \in db.registered \cap db.os_dict

\* Until the blueprint is destroyed a server is deleted only after its node has
\* left the cluster (del_workers drains before it destroys).
NodeLeavesFirst ==
    [][\A v \in servers \ servers' : pc = "teardown" \/ v \notin nodes]_vars

\* When del_workers has answered OK, none of the workers it took on is left
\* on the VIM, in the cluster or in the blueprint.
DeletedIsGone ==
    pc = "idle" /\ job.op = "del_workers" /\ job.ok =>
       \A i \in 1..Len(job.targets) :
          job.targets[i] \notin servers \cup nodes \cup mem.vms \cup mem.registered
                                \cup mem.configurators \cup mem.pending

\* A destroyed blueprint leaves nothing on the VIM and in the topology but what
\* a failed call or a kill kept out of its record.
ClusterLeavesNothing ==
    pc = "gone" => /\ servers \subseteq lost.servers
                   /\ flavors \subseteq lost.flavors
                   /\ topo => lost.topo

\* An operation ends, with an answer or with the end of the worker's thread.
OperationEnds == pc # "idle" ~> pc \in {"idle", "dead", "gone"}

\* "Configuring ONLY worker nodes that have not yet been configured": day0conf
\* takes up no worker that has joined the cluster.
JoinedOnce == pc = "workers" /\ job.left # {} => Least(job.left) \notin joined

=============================================================================
