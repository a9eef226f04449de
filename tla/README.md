# A TLA+ verification of the ePEM / NFVCL

ePEM (the NFVCL) deploys *blueprints*, descriptions of network services, on VIMs
(OpenStack, Proxmox) and Kubernetes clusters, and keeps them running. It is one
Python process: a FastAPI server, one thread per loaded blueprint, a topology
worker thread, MongoDB for everything that has to survive, redis for events.
Paths below are relative to `src/src/nfvcl/`.

## Inventory

| part | state | operations | what makes it hard, what makes it correct |
|---|---|---|---|
| Blueprint manager `blueprints_ng/lcm/blueprint_manager.py` | `worker_collection` (in memory) | `get_worker`, `create_blueprint`, `delete_blueprint`, `delete_all_blueprints` | called from a thread pool and from other blueprints' threads without a lock; one worker per blueprint, deleted means deleted |
| Blueprint worker `lcm/blueprint_worker.py` | queue, in-memory blueprint, thread | `put_message(_sync)`, `call_function_sync`, `destroy_blueprint(_sync)`, `protect_blueprint`, `_listen` | callbacks and blocking calls without timeout, exceptions outside the `try`, saves from two threads; every call answered, nothing unsaved at rest |
| Blueprint base class `blueprint_ng.py`, `utils/database.py` | the record in `blue-inst-v2` | `to_db` (upsert), `from_db`, `destroy`, resource and child registers | a save after the delete inserts again; a kill at any point |
| VM providers `providers/virtualization/` | `os_dict` (resource -> server id), flavors, networks | `create_vm`, `configure_vm`, `destroy_vm`, `final_cleanup` | the window between the VIM's work and the save; nothing deployed that no record knows |
| Helm provider `providers/kubernetes/` | helm dictionary per area | `install_helm_chart`, `uninstall_helm_chart` | same window |
| Blueprint provider `providers/blueprint/` | `deployed_blueprints` | `create_blueprint`, `delete_blueprint`, `call_blueprint_function`, `final_cleanup`, all synchronous | a parent waits for its child's worker; ERROR answers are ignored; cycles of calls |
| PDU provider, PDU manager | `locked_by` in the topology document | `lock_pdu`, `unlock_pdu` | read, check and write of a shared document |
| Topology `topology/topology.py`, worker | one document in MongoDB | VIMs, networks, routers, ranges, PDUs, clusters, Prometheus | every operation reads the document without the lock and saves all of it under the lock; nothing lost, no operation inside another |
| Address management `utils/ipam.py`, `models/network/` | pools and reserved ranges | reserve, release | nothing in the repository reserves a range |
| Kubernetes blueprint `modules/k8s/` | workers, their numbers and configurators, the join key | `create`, `add_worker`, `del_workers`, `destroy` | workers that fail half-way, retries, kills; numbers, servers and nodes agree |
| Kubernetes manager `subscribe_endpoints/k8s_manager.py`, `utils/k8s/helm_plugin_manager.py` | charts, pools and documents on each cluster | plugin and YAML requests over redis | a second process, lost messages, helm running on after a kill; done means installed |
| REST interface to clusters `rest_endpoints/k8s.py`, `utils/k8s/kube_api_utils.py` | none: the objects are the cluster's | accounts, roles, bindings, tokens, certificates, quotas, labels, replicas | several API calls per handler, other writers in between |
| Generic 5G blueprint `modules/generic_5g/` and the four cores | core, edge areas, RAN areas, child blueprints | create, add/del area, slices, subscribers, gNBs | partial failure half-way through an area, children that answer ERROR; nothing unreachable, nothing half configured |
| Values of a core `models/blueprint_ng/core5g/`, `free5gc/`, `*_utils.py` | lists in the defaults of a Helm chart | `update_core_values` | clear and fill of nested lists, possibly interrupted; the lists agree |
| Performance manager | operations pending per blueprint | start/end operation and provider call | shared dictionaries, `del` of a missing key |
| HORSE endpoint `rest_endpoints/HORSE/horse.py` | none of its own | RTR requests, forwarding to DOC, call-backs | remote modules that are absent or slow |
| Process `main.py` | - | start, `handle_exit` | SIGKILL to the process group |

REST handlers are plain functions, so FastAPI runs each in a thread of its pool:
any two of them interleave with each other and with the workers. A blueprint that
owns children calls the manager from its own worker thread through its
`BlueprintProvider`. Threads share `worker_collection`, the worker objects and the
in-memory blueprints; only `queue.Queue` synchronises. `PROJECT.json` lists every
part with its status and the main hazards at their lines.

## Modules

* `BlueprintLCM` - manager, workers, callers, database and kill. It declares the
  state, one action per step between two points where another thread can be seen,
  the properties, and a faulty variant of some definitions (`Mutant:` comments).
* `BlueprintLifecycle` - the abstract life cycle of a blueprint: created once,
  deploys only while it exists, forgotten only when nothing of it is deployed,
  never back.
* `MCBlueprintLCM` - instances for TLC.
* `BlueprintLCM_proofs` - theorems and proofs for any callers; `BlueprintOwner_proofs` -
  those for blueprints that only their parent uses, the refinement of
  `BlueprintLifecycle` included.
* `TopologyStore` - the topology document, the topology worker and its queue, the
  lock, and the blueprints' use of it: PDU locks, charts on clusters, PDUs and
  clusters they add. `MCTopologyStore` has its instances, `TopologyStore_proofs` its
  theorems.

* `Core5GValues` - what a 5G core computes from its configuration, without state: the
  reference for the next two.
* `Generic5G` - a 5G core blueprint (OAI, free5GC, SD-Core or Athonet) with its router
  and UPF blueprints, its chart, subscribers and gNBs. `MCGeneric5G`, `Generic5G_proofs`.
* `CoreLists` - how the values of a core are really filled, list by list and entry by
  entry, checked against `Core5GValues`. `MCCoreLists`, `CoreLists_proofs`.
* `K8sManager` - the Kubernetes manager's process, its messages, and the installation of
  plugins that it shares with the cluster blueprint. `MCK8sManager`, `K8sManager_proofs`.
* `K8sAccess` - the handlers that change a cluster through its API, with the cluster's
  controllers and other writers at work. `MCK8sAccess`, `K8sAccess_proofs`.
* `K8sNodes` - a cluster blueprint: its workers, the OpenStack provider below it, the
  nodes of the cluster, failures and kills. `MCK8sNodes`, `K8sNodes_proofs`.

The components meet in a blueprint's worker thread: `BlueprintLCM` says when such a
thread runs an operation and what becomes of its exceptions, `TopologyStore` what
operations do to the topology, `Generic5G` and `K8sNodes` what two kinds of blueprint do
inside an operation. They share no state but the blueprint's own record, so each is
checked by itself; where one uses another, it has the outcomes the other allows
(`Generic5G` has children that answer ERROR or disappear, `K8sNodes` has the two
exception paths of `_listen`).

### How `BlueprintLCM` corresponds to the code

| model | code |
|---|---|
| `db[b]` | the record of blueprint `b`: operation and error of its status, `protected`, `resources` = whether provider data registers something deployed |
| `infra[b]`, `stray[b]` | what the VIMs host for `b`: registered in provider data, or known to nobody |
| `used` | identifiers handed out; `generate_blueprint_id` draws 6 characters of 36 and is taken not to repeat |
| `worker_collection` | `BlueprintManager.worker_collection` |
| `worker[w]` | a `BlueprintWorker`: position in `_listen`, in-memory blueprint (`base_model`), queue, message being handled, and the serialised blueprint between `__serialize_content` and the write |
| `thread[c]` | a REST thread or a parent's thread: position in the manager's code, the worker object it holds, its answer (`namespace["msg"]`) |

Caller side: `create_blueprint`, `create_worker`, `put_day0` are the three visible
parts of `create_blueprint`, `create_worker_raises` is the exception between them that
leaves a record without a worker; `begin_request` is a REST handler or provider call;
`get_worker_loaded`, `get_worker_from_db`, `get_worker_start` are `get_worker`, which
tests, reads and stores in separate steps; `delete_refused`, `put_stop`, `pop_worker`
are `delete_blueprint`; `begin_delete_all`, `next_delete` the loop of
`delete_all_blueprints`; `protect_blueprint`, `protect_to_db` run in the caller's
thread; `wake_up` is the return from `event.wait()`.

Worker side, `_listen`: `receive` (message taken, status set), `save_started`,
`create_server` and `save_to_db` (what the blueprint's own code does through
`create_vm`), `operation_ok` (callback: the answer is OK whenever the operation has
returned, whatever it deployed), `set_idle`, `save_ended`; the exception
paths `operation_error`, `create_failed` (the VIM's call raises, with or without a
server left), `event_error` (the success event cannot be published and the handler
calls back a second time) and `die` (an exception that nothing catches); for STOP
`destroy_resources`, `final_cleanup` (which saves once more), `destroy_ng_blue`,
`stop`. `kill` is `handle_exit`: memory is gone, database and VIMs stay.

Abstractions: a blueprint's resources are one bit; redis events, performance
records, call history and the payloads are left out; a callback that posts to a URL
is no callback, since `call_callback_url` swallows failures; a save is one atomic
upsert of the serialised record.

### How `TopologyStore` corresponds to the code

| model | code |
|---|---|
| `topology` | the document in the `topology` collection, `NoTopology` when there is none |
| `topology_msg_queue` | the queue of `topology_worker.py`; a request is the sequence of steps its handler leads to |
| `lock` | the thread inside `topology_lock` (an `RLock`: an operation that calls another one keeps it) |
| `thread[t]` | a thread with a `Topology` object: the object (`model`), the steps left (`todo`), and for the properties the document it was built from (`base`) and whether it has saved (`saved`) |
| `blue[b]` | what blueprint `b` has in its own record: `locked_pdus`, its charts, where its destruction is and the charts it still has to uninstall; `lost` remembers the PDUs whose unlocking failed |

An operation is `Begin` (the call is decided), `build_topology` (the document is read,
without the lock) and steps inside the lock. A step has the name of the method of
`Topology` that it models, together with the method of `TopologyModel` and `VimModel`
that it delegates to, its early returns and its exceptions. `Raise` and `Leave` are the
two ways out of the decorator, `SaveTopology` is `_save_topology_from_model`, `Keep` a
change of the object that is not saved yet. `create`, `delete` and `update_vim` consist
of several steps, because they save several times and each save is visible to whoever
reads without the lock. `submit` is a REST handler (the update of a cluster looks first
whether it is there), `receive` the loop of `listen`. Every read and every save may raise.
An exception inside an operation is caught by `listen`; one of `build_topology`
(`build_topology_raises`) is not, and the topology worker's thread is `dead` from then on.
The message itself always validates, being the dump of a valid one.

A blueprint's thread: `find_pdu`, `lock_pdu`, `unlock_pdu`, `final_cleanup` and
`find_by_name` are `PDUProvider`; `install_helm_chart` and `uninstall_helm_chart` end in
`append_blueprint` and `remove_blueprint`, which are `update_k8scluster` on an object
whose list they have changed. Both may raise before that: a release that is installed
but not seen as deployed is not listed in the topology, and one whose removal cannot be
confirmed stays listed. `final_cleanup` swallows the exception of a failed unlock and
goes on. `own_operation` stands for the PDUs of UERANSIM and the cluster of a Kubernetes
blueprint; `destroy` goes through charts and PDUs as `BlueprintNG.destroy` does, and an
exception on the way abandons it (`Abandon`).

Abstractions: entries are names; a cluster has one area; a redis event does not raise;
Prometheus servers, address ranges, areas, and the routers a VIM is declared with are
left out; names of routers and VIMs differ. `delete` deletes half of the VIMs, in any
order: it iterates over the list it removes from.

### How `Generic5G`, `Core5GValues` and `CoreLists` correspond to the code

The variables of `Generic5G` have the names of the fields of the blueprint's state:
`current_config`, `edge_areas`, `ran_areas`, `children_blue_ids`, `deployed_blueprints`,
`core_deployed`; `routers` and `upfs` are the child blueprints, `live` the values the
core runs with, `udr` the subscribers it knows, `gnb` what the gNBs were told. An
operation is a *program*, the sequence of calls that a core's method makes; the four
cores differ in their programs and in how they treat areas and subscribers. One action
carries out one call, or one visit of an area within `update_edge_areas`. A call may
raise: the program ends, a day-2 operation puts `backup_config` back and nothing else.

A child is created in steps: `deploy_router_blueprint` and `deploy_upf_blueprint` are the
manager's part, from which on the child exists, and `RegisterRouter` and `RegisterUpf` the
provider's record, `register_children` and the first call to the child. An exception in
between leaves a child that its parent does not know (`lost`). A child may answer ERROR,
which the blueprint provider does not look at (`silent`); its user may delete or protect
it. A synchronous call to a child whose `destroy` has raised, or that waits behind its
user's STOP, is never answered: the parent is `hung`.

Exceptions that are swallowed or not there are part of the model. An Athonet PDU may refuse
any part of its configuration, and `configure` does not look (`live` is then `Mixed`); its
subscribers are deleted by a loop that only a 204 ends (`del_user`, `delete_all_supis`, the
latter in `create` and `destroy` too); a failed unlock leaves the PDU locked (`Unlock`); the
status of a Helm release is read when the release is there already, so an installation or
an update that raises may have happened; the checks at the start of `create` may raise with
PDUs locked (`create_raises`).

`Core5GValues` gives for each core the values computed from a configuration and the
predicate of the configurations for which the computation does not raise: OAI needs both
bit rates of a data network (`OaiDnnUsable`, they are optional in the configuration),
SD-Core one unit it knows for all of a slice (`SdcoreSliceUsable`), Athonet a data network
whose addresses the PDU serves (`CidrOf`, `DnnVrf`). `CoreLists` has the same computation
as the code performs it: clear the lists in the defaults, then loop over areas, slices,
data networks and subscribers, adding what is not there yet. Lists in which an entry could
come twice are counted or kept as sequences (links, subscribers of a group, interfaces of a
UPF); SD-Core's UPF of a slice is looked up in what the UPFs reported (`Reports`), which
need not be what the configuration says. A configuration that itself lists a slice or a
subscriber twice is outside the model.

### How `K8sManager` and `K8sAccess` correspond to the code

`K8sManager`: `RestRequest` publishes and is answered, redis delivers to a manager that
is up, `receive` takes the next message; an installation is one action per plugin step
(chart, pools, storage class), with helm as a process that goes on after its caller is
killed. The list asked for is not rewritten: a job keeps it with the places of it that are
still to install (`left`) and the one it is at (`at`), which is the same as the code's
union, difference and sort, network plugins first. A call of the API creates the object,
is refused with a JSON body, or is refused in plain text, which `skip_if_already_exists`
drops (`Outcome`); `dropped` and `unfinished` remember, for `DoneIsInstalled`, the requests
whose pool was dropped and the plugins an earlier installation did not finish. `PoolNames` are the names a pool may
carry, `area1` among them (the one the cluster blueprint gives to every pool). `topology_onboard` and `install_default_plugins` are the cluster blueprint's use
of the same class. `K8sAccess`: `Handlers` maps each handler to its sequence of API
calls; one action is one call, which may raise, before the cluster has done what it asks
or, when the answer is lost, after. The name of a binding or a secret is a parameter of the
request where the handler has one. Objects carry the number of the call that made them and
a resource version, as the API server checks it. A deleted namespace is emptied kind by
kind (`collect`) before it is gone (`finalize`).

### How `K8sNodes` corresponds to the code

| model | code |
|---|---|
| `mem`, `db` | `K8sBlueprintNGState`, `registered_resources` and the provider's data: in memory, and as last saved |
| `num`, `fresh` | the names of the VMs, in the order in which the resources are made |
| `servers`, `flavors` | what the VIM hosts |
| `nodes`, `joined` | the cluster: its worker nodes, and the machines that have run `kubeadm join` |
| `job`, `pc` | the operation: machines to deploy, configurators to run, workers to delete, and where it is |
| `lost` | history: what a call that raised, or a kill, left on the VIM without a record |

`deploy_area`, `create_vm` (five steps, one for each point at which it may raise or
saves), `add_configurator`, `configure_master` and `day0conf` are `create` and
`add_worker`; `drain`, `destroy_workers` and `deregister` are `del_workers`; `offboard`,
`teardown`, `final_cleanup`, `release_ranges` and `destroy_ng_blue` are `destroy`. An area
without a VIM is refused by `register_resource` when the machine, controller or worker, is
already in the state. `Raise` is the handler
of `_listen` for create and day-2 operations, which saves the blueprint as it is; `Die`
is an exception of `destroy`, which nothing catches. `kill` brings back what was saved.

Abstractions: networks, images and areas are only there or missing; a flavor is the one
that the provider names after the VM.

## Runs

Each run uses the `MC` module of its component. Requests and operations are bounded, so
a behaviour may end: deadlock checking is off except in `K8sManage`.

| run | instance | result |
|---|---|---|
| `LcmShared` | 1 blueprint, 2 worker objects, REST thread and parent sharing it, 3 requests, 1 kill | types, `CallbackReachesItsCaller`, `StoppedWorkerIsBeingPopped` hold (1.8 M states) |
| `LcmSharedLive` | 1 blueprint, 2 workers, two parents sharing it, 3 requests, fairness | `WaitEndsOrWorkerEnded` holds |
| `LcmOwner` | 2 blueprints each used only by its parent, 4 requests, 1 kill | `IdleWorkerIsSaved`, `DeployedIsRecorded` and the refinement `LifecycleSpec` hold |
| `LcmHang` | REST thread and parent, fairness | violated: a synchronous call behind STOP waits for ever |
| `TopoBlueprint` | 1 blueprint, 2 PDUs, 1 cluster, up to 2 charts, 9 operations, no request, any access to the database or to helm failing | `ClaimsAreKnown`, `DestroyedLeavesNoTrace` hold |
| `TopoShared` | 1 blueprint and the topology worker, every kind of request, 2 of them, 3 operations, fairness | types, `OneOperationAtATime`, `QueueDrains` hold (1 M states) |
| `G5Core` | each of the four cores, 2 areas (one with an external router), 3 slices, 1 subscriber, up to 2 operations after create and 2 failures, 3 of them together, fairness | `ChildrenReachable`, `DestroyedLeavesNothing`, `SettledIsServed`, `ConfigIsDeployable`, `OperationEnds` hold (355 k states) |
| `G5Lists` | OAI, free5GC and SD-Core, 2 updates in a row from any of the configurations | `ToldAsComputed`, `ListsAgree`, `UserPlaneConnected`, `RefusesExactlyInfeasible` hold |
| `K8sManage` | an external cluster and one of a blueprint, 2 requests out of 6, 2 starts of the manager, fairness | `OneNetworkPlugin`, `NetworkFirst`, `DoneIsInstalled`, `AcceptedIsHandled` hold (540 k states) |
| `K8sRest` | 1 namespace, 2 users, 3 calls of any handler, 2 changes from outside | `TokenOfOneCall`, `CertificateFitsKey`, `OwnChangeOnly` hold (890 k states) |
| `K8sCluster` | 3 worker numbers, 6 VMs, create and 3 requests, 2 failing calls, 1 kill, fairness | `NumbersMatch`, `OneServerPerName`, `ServersAreRecorded`, `DeletedIsGone`, `ClusterLeavesNothing`, `NodeLeavesFirst`, `OperationEnds` hold (620 k states) |
| `K8sRejoin` | 2 worker numbers, 5 VMs, 1 failing call, no kill | violated: a worker that has joined is configured again |

The runs of the 5G and Kubernetes modules leave their `TypeOK` out: it is a theorem of
each of them and says the least.

### Further disagreements

Eight more configurations reproduce disagreements between the code and what its
comments, docs or tests say. TLC violates the one property each of them names.

| configuration | module | what happens | code; what says otherwise |
|---|---|---|---|
| `LcmTwoWorkers` | `MCBlueprintLCM` | a second worker on one blueprint after an asynchronous delete | `blueprint_manager.py:187`; `blueprint_manager.py:56` |
| `LcmResurrection` | `MCBlueprintLCM` | the record of a deleted blueprint is inserted again | `database.py:156`; `blueprint_manager.py:170` |
| `LcmProtected` | `MCBlueprintLCM` | protected while STOP is queued, destroyed all the same | `blueprint_manager.py:180`; `http_models.py:25` |
| `LcmStray` | `MCBlueprintLCM` | a server created by a failed call survives the deletion | `virtualization_provider_openstack.py:192`; `same file:204-205` |
| `TopoLost` | `MCTopologyStore` | a save undoes the change of another thread | `topology.py:62`; `decorators.py:12` |
| `TopoPdu` | `MCTopologyStore` | two blueprints hold the same PDU | `pdu_provider.py:94`; `pdu_provider.py:98` |
| `G5NewArea` | `MCGeneric5G` | the UPF of an area added to a running OAI core is never configured: its first configuration is already the final one, and later ones are compared with it | `OpenAirInterfaceUpf_blue.py:70`; `generic_5g.py:85-86` |
| `K8sPools` | `MCK8sManager` | the address pools of two areas get one name; the second is dropped as already there | `k8s_blueprint.py:267`; `k8s_rest_models.py:17` |

The `Lcm` configurations draw a line: under the discipline of `BlueprintProvider` (one
parent, synchronous calls) the life cycle is right even with kills; what breaks it is
the asynchronous delete of the REST interface together with the unlocked `get_worker`
and the upserting save. For the topology the line is the number of writers: the lock
does keep operations apart, but since the document is read before it is taken, that is
enough only while one thread changes the topology. That is why `OneWorkerPerBlueprint` and
`NoLostUpdate` are in no passing run: where only one caller, or one writer, is at work they
hold for lack of anyone to break them.

`QueueDrains`, `OperationEnds` of `Generic5G`, `SettledIsServed`, `DoneIsInstalled` and
`ChildrenReachable` carry exceptions. Each names one thing the code does not do (catch what
`build_topology` raises, give up a wait, look at an answer), and the property says that
there is no other way to break the promise; the comment above each lists them.

What the models showed besides, without a run of its own:

* `find_router_index` searches the VIMs, so `del_router` and `add_vim_router` raise for
  every router.
* Cluster blueprint: a worker that never joined cannot be removed (`kubectl drain` of a
  missing node ends the playbook), nor can one whose node has been drained and whose
  `destroy_vm` has failed. `del_workers` refuses only when there is one worker left
  before it starts, so it may delete all. A `destroy` that fails after `del_k8scluster`
  cannot be repeated: the second one finds the cluster missing, and each attempt ends
  the worker's thread.
* A topology worker whose `build_topology` raises once (the database is down for a moment)
  is gone until the process is restarted; requests go on being accepted with 202.
* An Athonet core that refuses its configuration answers OK like one that took it.
* MetalLB's chart has no label `app`, so `get_installed_plugins` never finds it; Calico
  never installs (`yaml.safe_load` of a path); a request without a pool always fails.
* `k8s_admin_role_to_sa` binds a role `admin` that need not exist;
  `create_admin_sa_for_namespace` cannot be repeated after a partial failure; the
  certificate of a new user is `None` when it is not issued within 0.1 s.

### Bounds

`Lcm`: three requests are enough for create, delete and a third request between them,
from two threads; a kill restarts everything from the database, so one kill at every
point is the interesting case. Two worker objects let a second worker on one blueprint
appear. `LcmOwner` uses four requests, two for each of two parents that run in parallel.

`Topo`: nine operations of one blueprint are enough to lock two PDUs, put two charts on
the cluster, take one of them away, try to delete the cluster and be destroyed. Two
requests reach the deletion of the topology and its creation anew, and with three
operations each side can start again while the other is still at work; one PDU and one
cluster make them meet. More threads are left to the theorems.

`G5`: two areas are where the cores differ, three slices of which two share a data
network are what the feasibility check tells apart; two operations with two failures
reach an operation after a failed one, the failing destruction of what it left, and a child
that hangs because its own destruction failed. Two updates
show what the first, finished or not, leaves to the second; a third starts from no other
lists.

`K8sManage`: two requests meet on one cluster, or one follows another's failure; two
starts are a kill and a restart. `K8sRest`: three calls are a failed one, its retry and
one of another user. `K8sCluster`: three numbers with plans of up to three machines
exhaust the numbers; two failing calls are a failed operation and the failure of what
repairs it; three requests are add, delete and destroy in any order, with a kill.

### Fairness

`Lcm`: weak fairness of the manager's code in each calling thread and of each worker's
loop: threads of one Python process are all scheduled, and a provider call is assumed to
return or raise. No request has to arrive and no exception or kill has to happen.
Without that assumption a hanging VIM call would hold its blueprint for ever.

`Topo`: an operation that has begun goes on or raises (`Progress`) and the topology worker
takes its next message (`receive`), both weakly fair. A thread may wait for the lock while
others take it in turn, but only finitely often: operations are bounded, so weak
fairness is enough and no fairness of the lock itself is assumed.

`Generic5G`, `K8sNodes`: one thread runs the operation; it is weakly fair that it takes its
next step, since every call to a cluster or a VIM returns or raises. `OperationEnds` of
`Generic5G` excepts the loops that wait for another program (the AMF becoming ready, the
204 of the Athonet UDR), which are fair in nothing, and a call to a child that is never
answered. `K8sManager`: weak fairness
of the manager's process and of each helm process; the blueprint's thread owes nothing.

## Proofs

Every invariant and every action property that a passing run checks is also a theorem, for every
value of the constants that satisfies the named `ASSUME`s of the module. The table gives
the theorem of each property and the hypothesis it has besides, if any.

| module | theorem: property | hypothesis |
|---|---|---|
| `BlueprintLCM_proofs` | `TypeCorrect`: `TypeOK`; `CallbacksReachTheirCallers`: `CallbackReachesItsCaller`; `StoppedWorkersArePopped`: `StoppedWorkerIsBeingPopped` | |
| `BlueprintOwner_proofs` | `IdleWorkersAreSaved`: `IdleWorkerIsSaved`; `DeployedIsAlwaysRecorded`: `DeployedIsRecorded`; `OwnersRefineLifecycle`: `LifecycleSpec` | `OwnersOnly` |
| `TopologyStore_proofs` | `TypeCorrect`: `TypeOK`; `OneOperation`: `OneOperationAtATime` | |
| | `ClaimsAlwaysKnown`: `ClaimsAreKnown`; `DestroyedLeftNoTrace`: `DestroyedLeavesNoTrace` | `SoleBlueprint` |
| `Generic5G_proofs` | `Reachable`: `ChildrenReachable`; `NothingLeft`: `DestroyedLeavesNothing`; `TypeCorrect`: `TypeOK`; `ConfigStaysDeployable`: `ConfigIsDeployable`; `SettledServed`: `SettledIsServed` | |
| `CoreLists_proofs` | `TypeCorrect`: `TypeOK`; `ToldIsComputed`: `ToldAsComputed`; `ListsAllAgree`: `ListsAgree`; `UserPlaneIsConnected`: `UserPlaneConnected`; `RefusesExactly`: `RefusesExactlyInfeasible` | |
| `K8sManager_proofs` | `TypeCorrect`: `TypeOK`; `NoSecondNetwork`: `OneNetworkPlugin`; `NetworkIsFirst`: `NetworkFirst`; `DoneMeansInstalled`: `DoneIsInstalled` | |
| `K8sAccess_proofs` | `TypeCorrect`: `TypeOK`; `NeverUndone`: `OwnChangeOnly`; `CertificatesFit`: `CertificateFitsKey`; `TokensOfOneCall`: `TokenOfOneCall` | |
| `K8sNodes_proofs` | `TypeCorrect`: `TypeOK`; `NumbersAreUnique`: `NumbersMatch`; `ServersRecorded`: `ServersAreRecorded`; `DrainedBeforeDeleted`: `NodeLeavesFirst`; `NothingLeft`: `ClusterLeavesNothing`; `DeletedIsNowhere`: `DeletedIsGone`; `NamesAreUnique`: `OneServerPerName` | |

The hypotheses are the lines that the violations draw, and each is met by the instance of
the run that checks the property (`LcmOwner`, `TopoBlueprint`):

* `OwnersOnly`: there are no REST callers and no two parents address the same blueprint. A
  `BlueprintProvider` calls only the children it has created, and identifiers are not
  handed out twice. With REST callers the properties fail (`LcmTwoWorkers`,
  `LcmResurrection`).
* `SoleBlueprint`: one blueprint works on the topology, without requests; besides its locks
  and charts it adds or deletes PDUs and clusters, in one call each, as UERANSIM and the
  cluster blueprint do; and nothing is locked or deployed to begin with. With two blueprints
  both may hold one PDU (`TopoPdu`), and a save of one undoes a lock of the other
  (`TopoLost`).

What the `ASSUME`s ask for: scopes are sets of blueprints, requests and plans are sequences
of steps, bounds are naturals, null values are none of the values they stand for. Three
say more. `PlansAssumption` of `K8sNodes`: a create request has one core area at most and
an add-worker request none, which the validators `check_areas` enforce
(`models/k8s/k8s_rest_models.py:46-56` and `72-82`); the name of the controller is unique
for no other reason. `ListsAssumption` of `CoreLists`: configurations are finite and have
passed `configuration_feasibility_check`, as every configuration a core is given has.
`NoneAssumption` of `Generic5G`: `None` is neither an operation nor a position.

### The inductive invariants

`BlueprintLCM_proofs`: `IInv` adds three parts. `HoldsInv`: a thread past the look-up holds
a real worker on its target blueprint (without it nothing is known of the queue a message
goes to). `WorkerInv`: a worker that has been started has a blueprint, one that has not is
as `Unborn` says (a fresh worker has an empty queue, so it starts with no callbacks).
`StopInv`: from the moment STOP is queued until the pop, some deletion of that blueprint is
under way - either it is about to pop or it is the blocked caller of that very STOP; this is
what carries `StoppedWorkerIsBeingPopped` over the steps between. Each action has its own
step; frame lemmas say which parts a step that touches only one thread, or one worker,
cannot disturb.

`BlueprintOwner_proofs`: `Own` on top of `IInv`. A parent waits for every call, so a worker
has work only while its parent is blocked on it, and the message tells what the parent
asked for (`WorkerOk`); between looking at the collection and starting a worker nobody else
touches the blueprint, and an answer to a deletion comes from a worker that has stopped
(`ThreadOk`); what is deployed is recorded (`StoreOk`). `OwnersRefineLifecycle` maps the database
and the VIMs to the abstract life cycle: `Init` maps to `Init`, every action to one step of
`BlueprintLifecycle` or to a stutter; the invariant is what rules out a save after the
delete.

`TopologyStore_proofs`: `IInv` adds `FoundInv` (a PDU that was found is a well-formed
argument of the `upd_pdu` to come) and `LockInv`: a thread that has saved is still in its
operation, holds the lock, and the document is what it saved. `EditOutcome` reduces the 23
steps under the lock to five outcomes, so that the induction itself has five cases;
`OutsideLock` covers everything that happens without the lock. For `ClaimsAreKnown`, the
topology worker is idle without requests (`WorkerInv`), and `Agreement` says at each point of
an operation what the document may hold that the blueprint's own data does not: `lock_pdu`
and the charts change one before the other, a step may have failed with the change still
outstanding (`Outstanding`, `ThreadAgrees`), and a destruction still has to unlock what it
has not (`CleanUp`).

`Generic5G_proofs`: `ChildrenReachable` and `DestroyedLeavesNothing` together are `IInv`:
`destroy` ends with no child registered, and every child there is is registered, being
created, or lost. `Fine` says of one child that it is within reach, `Careful` that a step
leaves every such child so; only the steps that create, register or delete one need an
argument of their own. `CoreInv`, which these and the other theorems need, follows an operation through its program, the sequence of steps still to come (`Has`,
`Preceded` and `Followed` speak about it, and `ProgramsAreSane` is the one place that looks
at the programs themselves):

* `ConfigInv`: while an operation is in progress its backup is deployable if the core was
  created, and the program still computes the values, or never reaches its end, or the
  configuration is feasible already;
* `EdgeInv`: the areas that `update_edge_areas` has visited are as the configuration wants
  them (`EdgeOk`), what it records of a UPF is what the UPF was told, but for silent or
  deleted ones, and a router has its routes except in the middle of a visit;
* `SoundInv`: what is not up to date in a complete operation is still to come in its
  program, and values that are told later are computed before;
* `UeInv`: a step that adds subscribers has some.

Most actions are reduced to one shape, `CoreMove`, before the invariant is looked at; the
visits of an area leave all other areas alone (`OthersStay`). A free5GC core never creates
(`NF5GType` has no WEBUI), so its part of the invariant is that it is never created and
never learns the addresses of its core; it can be sound only without areas.

`CoreLists_proofs`: the loop invariant `Loops` says which areas, slices and data networks a
running update has taken (`Walk`, `SdWalk`) and that the lists hold exactly those and
nothing older (`OaiOf`, `IsFree5gc`, `IsSdcore`); `Ended` and `Refused` say what that
means of an update that has finished or raised, `SmfConnects` that every node of free5GC's
user plane has its link at every moment. A loop takes its elements one per step from a
set, so the induction is over the steps of the specification and not over data.

`K8sManager_proofs`: `Apart` (the manager and a blueprint are never at work on one cluster:
the manager knows a blueprint's cluster from the topology only, which it enters when its
plugins are installed), `Checked` (after its check an installation is sound with respect to
the charts of its cluster: the list and what was found name one network plugin at most, no
other is on the cluster, and it works or is still to come), `Asked` (the manager's job is that of its request, and each document
that the request names is left or made by it) and `Achieved` (each plugin of the request is
left or there, with its pools and its storage class, or it was found as an earlier
installation left it). `Kept`: a release in
progress, or an OpenEBS without its storage class, is what an installer is at work on or
what one has left unfinished.

`K8sAccess_proofs`: `Seen`, what a handler has read is not newer than the object, and of
equal version only if it is equal; the API server's version check does the rest. `Certificates`:
while a kubectl user is made, the signing request stored under the name is the one of this
call, from the moment an old one has been replaced. `Tokens`: while an account is made, the
account and the binding of this call are there, or the namespace is on its way out and
nothing more can be put into it.

`K8sNodes_proofs`: `IInv` says of the state in memory *and* of the record, because a kill
turns the one into the other, that numbers, workers, configurators and nodes agree
(`Numbered`) and that they lead to every server (`Recorded`). The rest follows an
operation: the VM in hand is registered (`InHand`), the configurators being run are pending
ones (`Pending`), what the playbook has drained are different workers that had joined
(`Draining`), which is what the later loop needs so that it never deregisters a worker
twice and frees no number of another one (`Deleting`), and `destroy` has still to delete
every server that is not lost (`Tearing`). `SoundAdd` and `SoundRemove` are the two places
where numbers change hands. `FlavorsKept` and `EntryKept` carry flavors and the topology's
entry through in the same way for `NothingLeft`.

Only model-checked: the liveness properties (`WaitEndsOrWorkerEnded`, `QueueDrains`,
`OperationEnds` of `Generic5G` and of `K8sNodes`, `AcceptedIsHandled`), since fairness and ENABLED are beyond
the prover, and the violations, which are single behaviours.

## Not modelled

See `components` in `PROJECT.json`. Data declarations, default configurations beyond the
lists that a core changes, templates and text generation (Ansible, cloud-init, PDU
configurators), log and configuration code have no behaviour that a state machine would
tell more about. Address ranges: nothing in the repository reserves one
(`reserve_range` and `reserve_range_lb_pool` have no caller). Proxmox: the provider runs
shell commands on the hypervisor whose outcomes `src/` does not show. HORSE: one
handler without state that forwards a request and passes the answer on. Performance
manager: its dictionaries feed reports; its exceptions are those of the worker in
`BlueprintLCM`.

## Plan

1. `TopologyStore`: a kill between `upd_pdu` and the blueprint's own save, and Prometheus
   servers.
2. The OpenStack provider's networks and images (`create_net`, `attach_nets`) in a module
   of its own, below `K8sNodes` and `BlueprintLCM`.
3. Theorems: the invariants of `BlueprintLCM` that hold with REST callers too, under a
   weaker hypothesis than `OwnersOnly` (REST clients that wait for a deletion).
