--------------------------- MODULE TopologyStore ---------------------------
(***************************************************************************)
(* The topology: one document in MongoDB, changed by the topology worker   *)
(* (which serves the REST requests one by one from a queue) and by the     *)
(* threads of the blueprints (PDU locks, helm charts, clusters and PDUs    *)
(* that a blueprint adds).  Every change builds a Topology object from the *)
(* document without a lock, and then edits and saves that object under     *)
(* topology_lock.                                                          *)
(*                                                                         *)
(* Entries are identified by their names; of their contents only what a    *)
(* change depends on is kept.  Prometheus servers and reserved address     *)
(* ranges follow the same pattern and are left out, and so are the areas   *)
(* and the routers that a VIM is declared with.                            *)
(***************************************************************************)
EXTENDS Naturals, Sequences, FiniteSets

CONSTANTS
    Vim, Net, Router, Pdu,  \* names of the entries
    Cluster,                \* Kubernetes clusters, one per area
    Blue,                   \* blueprints, each with its worker thread
    TopologyWorker,         \* the thread of the topology worker
    Requests,               \* what REST clients may submit: sequences of steps
    OwnOperations,          \* OwnOperations[b]: PDUs and clusters that the code
                            \* of blueprint b adds and deletes
    InitialTopology,        \* the document when the process starts
    MaxRequests,            \* bound on submitted requests
    MaxOperations,          \* bound on operations blueprints start
    MaxCharts,              \* bound on charts of one blueprint on one cluster
    NoTopology, NoBlue, NoThread

Thread == Blue \cup {TopologyWorker}

\* vim_networks, locked_by and deployed_blueprints are fields of the VIMs, PDUs
\* and clusters; they hold their default for names that are not present.
\* deployed_blueprints is a list of identifiers, kept as a count of each.
TopologyModel ==
    [vims : SUBSET Vim, vim_networks : [Vim -> SUBSET Net],
     networks : SUBSET Net, routers : SUBSET Router,
     pdus : SUBSET Pdu, locked_by : [Pdu -> Blue \cup {NoBlue}],
     kubernetes : SUBSET Cluster,
     deployed_blueprints : [Cluster -> [Blue -> Nat]]]

Document == TopologyModel \cup {NoTopology}

\* The steps that operations on a Topology object consist of.  Most operations
\* are one step; create is <<create, add_vim, ..., save>> and update_vim is
\* <<update_vim, add_vim_net, ..., del_vim_router, ..., save>>.
VimStep ==
    [call : {"add_vim"}, vim : Vim, networks : SUBSET Net, terraform : BOOLEAN]
    \cup [call : {"del_vim"}, vim : Vim, terraform : BOOLEAN]
    \cup [call : {"update_vim"}, vim : Vim]
    \cup [call : {"add_vim_net", "del_vim_net"}, vim : Vim, net : Net, terraform : BOOLEAN]
    \cup [call : {"add_vim_router", "del_vim_router"}, vim : Vim, router : Router,
          terraform : BOOLEAN]
NetworkStep == [call : {"add_network", "del_network_by_name"}, net : Net, terraform : BOOLEAN]
RouterStep == [call : {"add_router", "del_router"}, router : Router]
PduStep ==
    [call : {"add_pdu", "del_pdu"}, pdu : Pdu]
    \cup [call : {"upd_pdu"}, pdu : Pdu, locked_by : Blue \cup {NoBlue}]
ClusterStep ==
    [call : {"add_k8scluster", "del_k8scluster"}, cluster : Cluster]
    \cup [call : {"update_k8scluster"}, cluster : Cluster, deployed : [Blue -> Nat]]
    \cup [call : {"append_blueprint", "remove_blueprint"}, cluster : Cluster, blue : Blue]
Step ==
    [call : {"create"}, topology : TopologyModel]
    \cup [call : {"delete"}, terraform : BOOLEAN]
    \cup [call : {"delete_topology", "save"}]
    \cup VimStep \cup NetworkStep \cup RouterStep \cup PduStep \cup ClusterStep

ASSUME NullAssumption ==
    /\ NoTopology \notin TopologyModel
    /\ NoBlue \notin Blue
    /\ TopologyWorker \notin Blue
    /\ NoThread \notin Thread
ASSUME RequestAssumption ==
    /\ Requests \subseteq Seq(Step) \ {<<>>}
    /\ \A b \in Blue : OwnOperations[b] \subseteq Seq(Step) \ {<<>>}
    /\ InitialTopology \in Document
ASSUME BoundAssumption ==
    MaxRequests \in Nat /\ MaxOperations \in Nat /\ MaxCharts \in Nat

VARIABLES
    topology,            \* the document in the "topology" collection
    topology_msg_queue,  \* requests for the topology worker
    lock,                \* the thread inside topology_lock
    thread,              \* threads that work on a Topology object
    blue,                \* what each blueprint believes it has
    requests, operations \* how many were submitted and started

vars == <<topology, topology_msg_queue, lock, thread, blue, requests, operations>>

\* pc "found": find_pdu has returned; "building": about to call build_topology;
\* "editing": has its Topology object (model) and steps to do; "dead": the thread
\* has ended with an exception.  base is the document that model was built from or last saved as, saved whether the
\* operation has saved yet: both only for the properties.
ThreadState ==
    [pc : {"idle", "found", "building", "editing", "dead"}, model : Document,
     base : Document, saved : BOOLEAN, todo : Seq(Step)]

Idle == [pc |-> "idle", model |-> NoTopology, base |-> NoTopology,
         saved |-> FALSE, todo |-> <<>>]

\* locked_pdus is PDUProviderData (a list; the second entry that a PDU deleted,
\* added and locked again would have is not kept); charts counts the registered
\* helm charts on each cluster, removing those that destroy has still to
\* uninstall, cleaning are the PDUs final_cleanup still has to unlock.  lost, only
\* for the properties: PDUs whose unlocking failed after they had left locked_pdus,
\* or in final_cleanup, which swallows the exception.
BlueState ==
    [state : {"running", "destroying", "cleaning", "destroyed"},
     locked_pdus : SUBSET Pdu, charts : [Cluster -> Nat],
     removing : [Cluster -> Nat], cleaning : SUBSET Pdu, lost : SUBSET Pdu]

NoCharts == [k \in Cluster |-> 0]

Init ==
    /\ topology = InitialTopology
    /\ topology_msg_queue = <<>>
    /\ lock = NoThread
    /\ thread = [t \in Thread |-> Idle]
    /\ blue = [b \in Blue |-> [state |-> "running", locked_pdus |-> {},
                               charts |-> NoCharts, removing |-> NoCharts,
                               cleaning |-> {}, lost |-> {}]]
    /\ requests = 0
    /\ operations = 0

(***************************************************************************)
(* A Topology object: build_topology, then steps under the lock.           *)
(***************************************************************************)

\* t goes on to build a Topology object and to do todo with it.
Begin(t, todo) ==
    thread' = [thread EXCEPT ![t] = [Idle EXCEPT !.pc = "building", !.todo = todo]]

\* The PDU that unlock_pdu of blueprint b has taken off the provider data and that
\* the topology is still to be told of.
Unlocking(b) ==
    {p \in Pdu : thread[b].todo = <<[call |-> "upd_pdu", pdu |-> p, locked_by |-> NoBlue]>>}

\* An exception ends the operation of blueprint b: a destruction is abandoned, a
\* final_cleanup goes on with the next PDU.
Abandon(b) ==
    [blue[b] EXCEPT !.state = IF @ = "destroying" THEN "running" ELSE @,
                    !.lost = @ \cup Unlocking(b)]

\* build_topology and from_db: the document is read without the lock.
build_topology(t) ==
    /\ thread[t].pc = "building"
    /\ thread' = [thread EXCEPT ![t].pc = "editing", ![t].model = topology,
                                ![t].base = topology]
    /\ UNCHANGED <<topology, topology_msg_queue, lock, blue, requests, operations>>

\* The database or the validation of the document raises.  The loop of the
\* topology worker calls build_topology outside its try: its thread ends.
build_topology_raises(t) ==
    /\ thread[t].pc = "building"
    /\ thread' = [thread EXCEPT ![t] = IF t = TopologyWorker
                                       THEN [Idle EXCEPT !.pc = "dead"] ELSE Idle]
    /\ blue' = [b \in Blue |-> IF b = t THEN Abandon(b) ELSE blue[b]]
    /\ UNCHANGED <<topology, topology_msg_queue, lock, requests, operations>>

\* Mutant: the decorator does not acquire.
Calls_unlocked(t, call) ==
    /\ thread[t].pc = "editing"
    /\ thread[t].todo # <<>>
    /\ Head(thread[t].todo).call = call

\* obj_multiprocess_lock: t is inside the lock, or acquires it.
Calls(t, call) ==
    /\ thread[t].pc = "editing"
    /\ thread[t].todo # <<>>
    /\ Head(thread[t].todo).call = call
    /\ lock \in {NoThread, t}

\* The operation of t ends without an exception; the lock is released.
Leave(t) ==
    /\ thread' = [thread EXCEPT ![t] = Idle]
    /\ lock' = NoThread
    /\ UNCHANGED <<topology, blue>>

\* Mutant: an exception leaves the lock acquired.
Raise_locked(t) ==
    /\ thread' = [thread EXCEPT ![t] = Idle]
    /\ lock' = t
    /\ UNCHANGED <<topology, blue>>

\* The operation of t raises: the lock is released all the same and what has been
\* saved stays saved.
Raise(t) ==
    /\ thread' = [thread EXCEPT ![t] = Idle]
    /\ lock' = NoThread
    /\ blue' = [b \in Blue |-> IF b = t THEN Abandon(b) ELSE blue[b]]
    /\ UNCHANGED topology

\* The step changes the Topology object only.
Keep(t, m) ==
    /\ thread' = [thread EXCEPT ![t].model = m, ![t].todo = Tail(thread[t].todo)]
    /\ lock' = t
    /\ UNCHANGED <<topology, blue>>

\* The operation goes on with the steps todo.
Plan(t, todo) ==
    /\ thread' = [thread EXCEPT ![t].todo = todo]
    /\ lock' = t
    /\ UNCHANGED <<topology, blue>>

\* The step changes the object and saves all of it: update_one with $set, or an
\* insert when there is no document.
SaveTopology(t, m) ==
    /\ topology' = m
    /\ UNCHANGED blue
    /\ IF Tail(thread[t].todo) = <<>>
       THEN thread' = [thread EXCEPT ![t] = Idle] /\ lock' = NoThread
       ELSE /\ thread' = [thread EXCEPT ![t].model = m, ![t].base = m,
                                        ![t].saved = TRUE,
                                        ![t].todo = Tail(thread[t].todo)]
            /\ lock' = t

\* With a step at hand: the Topology object and the arguments of the call.
Model(t) == thread[t].model
Arg(t) == Head(thread[t].todo)

\* The call raises before its save when fails holds; otherwise it saves, and the
\* access to the database may raise.
SaveUnless(t, fails, m) ==
    \/ Raise(t)
    \/ ~fails /\ SaveTopology(t, m)

(***************************************************************************)
(* The operations of class Topology with those of TopologyModel that they  *)
(* delegate to.  Without a topology every one but create raises on None.   *)
(* _os_terraformer is never filled: whatever asks it to work on a VIM      *)
(* raises KeyError.                                                        *)
(***************************************************************************)
create(t) ==
    /\ Calls(t, "create")
    /\ \/ Model(t) # NoTopology /\ Raise(t)
       \/ Model(t) = NoTopology /\ Keep(t, [Arg(t).topology EXCEPT !.vims = {}])

save(t) ==
    /\ Calls(t, "save")
    /\ SaveUnless(t, Model(t) = NoTopology, Model(t))

\* The loop runs over the list that del_vim pops from, so it deletes and saves
\* the first VIM, the third and so on: half of them, in the list's order.
delete(t) ==
    /\ Calls(t, "delete")
    /\ \/ Model(t) = NoTopology /\ Raise(t)
       \/ /\ Model(t) # NoTopology
          /\ \E n \in 0..Cardinality(Model(t).vims) :
               /\ 2 * n \in {Cardinality(Model(t).vims), Cardinality(Model(t).vims) + 1}
               /\ \E vim \in [1..n -> Model(t).vims] :
                    /\ \A i, j \in 1..n : vim[i] = vim[j] => i = j
                    /\ Plan(t, Append([i \in 1..n |->
                                         [call |-> "del_vim", vim |-> vim[i],
                                          terraform |-> Arg(t).terraform]],
                                      [call |-> "delete_topology"]))

\* The last statement of delete: the document goes, and the event that should
\* tell so raises on the None it has just assigned.
delete_topology(t) ==
    /\ Calls(t, "delete_topology")
    /\ SaveUnless(t, FALSE, NoTopology)

add_vim(t) ==
    /\ Calls(t, "add_vim")
    /\ SaveUnless(t, \/ Model(t) = NoTopology
                     \/ Arg(t).vim \in Model(t).vims
                     \/ Arg(t).terraform /\ Arg(t).networks # {},
                  [Model(t) EXCEPT !.vims = @ \cup {Arg(t).vim},
                                   !.vim_networks[Arg(t).vim] = Arg(t).networks])

del_vim(t) ==
    /\ Calls(t, "del_vim")
    /\ SaveUnless(t, \/ Model(t) = NoTopology
                     \/ Arg(t).vim \notin Model(t).vims
                     \/ /\ Arg(t).terraform
                        /\ Model(t).vim_networks[Arg(t).vim] \cap Model(t).networks # {},
                  [Model(t) EXCEPT !.vims = @ \ {Arg(t).vim},
                                   !.vim_networks[Arg(t).vim] = {}])

\* A VIM that is not found ends the operation at once.
update_vim(t) ==
    /\ Calls(t, "update_vim")
    /\ \/ Model(t) = NoTopology /\ Raise(t)
       \/ Model(t) # NoTopology /\ Arg(t).vim \notin Model(t).vims /\ Leave(t)
       \/ Model(t) # NoTopology /\ Arg(t).vim \in Model(t).vims /\ Keep(t, Model(t))

\* _add_vim_net; VimModel.add_net only warns when the network is listed already.
add_vim_net(t) ==
    /\ Calls(t, "add_vim_net")
    /\ LET fails == \/ Model(t) = NoTopology
                    \/ Arg(t).net \notin Model(t).networks
                    \/ Arg(t).terraform
       IN  IF fails
           THEN Raise(t)
           ELSE Keep(t, [Model(t) EXCEPT !.vim_networks[Arg(t).vim] = @ \cup {Arg(t).net}])

\* _del_vim_net, which saves in the middle of update_vim.
del_vim_net(t) ==
    /\ Calls(t, "del_vim_net")
    /\ SaveUnless(t, Model(t) = NoTopology \/ Arg(t).terraform,
                  [Model(t) EXCEPT !.vim_networks[Arg(t).vim] = @ \ {Arg(t).net}])

\* get_router looks the router up by find_router_index, which searches the VIMs.
add_vim_router(t) ==
    /\ Calls(t, "add_vim_router")
    /\ Raise(t)

\* VimModel.del_router looks for the router among the networks and warns.
del_vim_router(t) ==
    /\ Calls(t, "del_vim_router")
    /\ \/ Arg(t).terraform /\ Raise(t)
       \/ ~Arg(t).terraform /\ Keep(t, Model(t))

\* The topology worker passes terraform as the list of VIMs: TypeError if true.
add_network(t) ==
    /\ Calls(t, "add_network")
    /\ SaveUnless(t, \/ Model(t) = NoTopology
                     \/ Arg(t).net \in Model(t).networks
                     \/ Arg(t).terraform,
                  [Model(t) EXCEPT !.networks = @ \cup {Arg(t).net}])

del_network_by_name(t) ==
    /\ Calls(t, "del_network_by_name")
    /\ SaveUnless(t, \/ Model(t) = NoTopology
                     \/ Arg(t).net \notin Model(t).networks
                     \/ /\ Arg(t).terraform
                        /\ \E v \in Model(t).vims : Arg(t).net \in Model(t).vim_networks[v],
                  [Model(t) EXCEPT !.networks = @ \ {Arg(t).net}])

add_router(t) ==
    /\ Calls(t, "add_router")
    /\ SaveUnless(t, Model(t) = NoTopology \/ Arg(t).router \in Model(t).routers,
                  [Model(t) EXCEPT !.routers = @ \cup {Arg(t).router}])

\* find_router_index searches the VIMs for the name of the router (the names of
\* routers and VIMs are taken to differ).
del_router(t) ==
    /\ Calls(t, "del_router")
    /\ Raise(t)

\* The ValueError of a PDU that exists is caught.
add_pdu(t) ==
    /\ Calls(t, "add_pdu")
    /\ LET exists == Model(t) # NoTopology /\ Arg(t).pdu \in Model(t).pdus
       IN  \/ exists /\ Leave(t)
           \/ /\ ~exists
              /\ SaveUnless(t, Model(t) = NoTopology,
                            [Model(t) EXCEPT !.pdus = @ \cup {Arg(t).pdu}])

del_pdu(t) ==
    /\ Calls(t, "del_pdu")
    /\ SaveUnless(t, Model(t) = NoTopology \/ Arg(t).pdu \notin Model(t).pdus,
                  [Model(t) EXCEPT !.pdus = @ \ {Arg(t).pdu},
                                   !.locked_by[Arg(t).pdu] = NoBlue])

upd_pdu(t) ==
    /\ Calls(t, "upd_pdu")
    /\ SaveUnless(t, Model(t) = NoTopology \/ Arg(t).pdu \notin Model(t).pdus,
                  [Model(t) EXCEPT !.locked_by[Arg(t).pdu] = Arg(t).locked_by])

add_k8scluster(t) ==
    /\ Calls(t, "add_k8scluster")
    /\ SaveUnless(t, Model(t) = NoTopology \/ Arg(t).cluster \in Model(t).kubernetes,
                  [Model(t) EXCEPT !.kubernetes = @ \cup {Arg(t).cluster}])

NotOnTopology(t) ==
    ~(Model(t) # NoTopology /\ Arg(t).cluster \in Model(t).kubernetes)

del_k8scluster(t) ==
    /\ Calls(t, "del_k8scluster")
    /\ SaveUnless(t, \/ NotOnTopology(t)
                     \/ \E b \in Blue : Model(t).deployed_blueprints[Arg(t).cluster][b] > 0,
                  [Model(t) EXCEPT !.kubernetes = @ \ {Arg(t).cluster},
                                   !.deployed_blueprints[Arg(t).cluster] = [b \in Blue |-> 0]])

\* A REST client sends the whole entry, its deployed_blueprints included.
update_k8scluster(t) ==
    /\ Calls(t, "update_k8scluster")
    /\ SaveUnless(t, NotOnTopology(t),
                  [Model(t) EXCEPT !.deployed_blueprints[Arg(t).cluster] = Arg(t).deployed])

\* The end of install_helm_chart: the list is extended on the object that
\* update_k8scluster then saves.
append_blueprint(t) ==
    /\ Calls(t, "append_blueprint")
    /\ SaveUnless(t, NotOnTopology(t),
                  [Model(t) EXCEPT !.deployed_blueprints[Arg(t).cluster][Arg(t).blue] = @ + 1])

\* Mutant: removes from the list without looking whether it is there.
remove_blueprint_any(t) ==
    /\ Calls(t, "remove_blueprint")
    /\ SaveUnless(t, NotOnTopology(t),
                  [Model(t) EXCEPT !.deployed_blueprints[Arg(t).cluster][Arg(t).blue] = @ - 1])

\* The end of uninstall_helm_chart.  list.remove takes one entry away, and its
\* ValueError when there is none is caught; a missing cluster is not.
remove_blueprint(t) ==
    /\ Calls(t, "remove_blueprint")
    /\ LET missing == /\ ~NotOnTopology(t)
                      /\ Model(t).deployed_blueprints[Arg(t).cluster][Arg(t).blue] = 0
       IN  \/ missing /\ Leave(t)
           \/ /\ ~missing
              /\ SaveUnless(t, NotOnTopology(t),
                    [Model(t) EXCEPT
                       !.deployed_blueprints[Arg(t).cluster][Arg(t).blue] = @ - 1])

Edit(t) ==
    /\ \/ create(t) \/ save(t) \/ delete(t) \/ delete_topology(t)
       \/ add_vim(t) \/ del_vim(t) \/ update_vim(t)
       \/ add_vim_net(t) \/ del_vim_net(t) \/ add_vim_router(t) \/ del_vim_router(t)
       \/ add_network(t) \/ del_network_by_name(t) \/ add_router(t) \/ del_router(t)
       \/ add_pdu(t) \/ del_pdu(t) \/ upd_pdu(t)
       \/ add_k8scluster(t) \/ del_k8scluster(t) \/ update_k8scluster(t)
       \/ append_blueprint(t) \/ remove_blueprint(t)
    /\ UNCHANGED <<topology_msg_queue, requests, operations>>

(***************************************************************************)
(* The topology worker and its clients.                                    *)
(***************************************************************************)

\* A REST handler puts a message on the queue and returns; the one that updates a
\* cluster reads the topology first and refuses a cluster that is not there.
submit(request) ==
    /\ requests < MaxRequests
    /\ Head(request).call = "update_k8scluster" =>
          topology # NoTopology /\ Head(request).cluster \in topology.kubernetes
    /\ requests' = requests + 1
    /\ topology_msg_queue' = Append(topology_msg_queue, request)
    /\ UNCHANGED <<topology, lock, thread, blue, operations>>

\* listen takes the next message, a dump of a valid TopologyWorkerMessage, which
\* therefore validates.  An exception of the operation that follows is logged and
\* the loop goes on; one of build_topology is not caught.
receive ==
    /\ thread[TopologyWorker].pc = "idle"
    /\ topology_msg_queue # <<>>
    /\ topology_msg_queue' = Tail(topology_msg_queue)
    /\ Begin(TopologyWorker, Head(topology_msg_queue))
    /\ UNCHANGED <<topology, lock, blue, requests, operations>>

(***************************************************************************)
(* Blueprints.  A blueprint's operations run one after another on its      *)
(* worker thread.                                                          *)
(***************************************************************************)
AtRest(b) == thread[b].pc = "idle"

\* An operation on blueprint b starts.
Start(b) ==
    /\ AtRest(b)
    /\ blue[b].state = "running"
    /\ operations < MaxOperations
    /\ operations' = operations + 1
    /\ UNCHANGED <<topology, topology_msg_queue, lock, requests>>

\* add_pdu, del_pdu (UERANSIM), add_k8scluster, del_k8scluster (Kubernetes).
own_operation(b) ==
    /\ Start(b)
    /\ \E todo \in OwnOperations[b] : Begin(b, todo)
    /\ UNCHANGED blue

\* The PduModel that a blueprint has read from a topology of its own: the
\* argument of the upd_pdu that may follow.
Found(b, p) ==
    thread' = [thread EXCEPT ![b] =
        [Idle EXCEPT !.pc = "found",
                     !.todo = <<[call |-> "upd_pdu", pdu |-> p,
                                 locked_by |-> topology.locked_by[p]]>>]]

HasPdu(p) == topology # NoTopology /\ p \in topology.pdus

find_pdu(b) ==
    /\ Start(b)
    /\ \E p \in Pdu : HasPdu(p) /\ Found(b, p)
    /\ UNCHANGED blue

PduModel(b) == Head(thread[b].todo)

\* The check reads the model that find_pdu returned; a PDU locked by somebody
\* else raises, one of this blueprint's own is left as it is.
lock_pdu(b) ==
    /\ thread[b].pc = "found"
    /\ blue[b].state = "running"
    /\ \/ /\ PduModel(b).locked_by # NoBlue
          /\ thread' = [thread EXCEPT ![b] = Idle]
          /\ UNCHANGED blue
       \/ /\ PduModel(b).locked_by = NoBlue
          /\ blue' = [blue EXCEPT ![b].locked_pdus = @ \cup {PduModel(b).pdu}]
          /\ Begin(b, <<[PduModel(b) EXCEPT !.locked_by = b]>>)
    /\ UNCHANGED <<topology, topology_msg_queue, lock, requests, operations>>

\* Raises unless the model that was read says that b holds the PDU, and (in
\* list.remove) unless the provider data do.
unlock_pdu(b) ==
    /\ thread[b].pc = "found"
    /\ LET holds == /\ PduModel(b).locked_by = b
                    /\ PduModel(b).pdu \in blue[b].locked_pdus
       IN  \/ /\ ~holds
              /\ thread' = [thread EXCEPT ![b] = Idle]
              /\ UNCHANGED blue
           \/ /\ holds
              /\ blue' = [blue EXCEPT ![b].locked_pdus = @ \ {PduModel(b).pdu}]
              /\ Begin(b, <<[PduModel(b) EXCEPT !.locked_by = NoBlue]>>)
    /\ UNCHANGED <<topology, topology_msg_queue, lock, requests, operations>>

\* The chart is registered; the provider is made for a cluster of the topology and
\* kept afterwards.  Helm may raise, and so may the check of the release's status
\* once it is installed: the topology is told only if neither does.
install_helm_chart(b) ==
    /\ Start(b)
    /\ \E k \in Cluster :
         /\ \/ topology # NoTopology /\ k \in topology.kubernetes
            \/ blue[b].charts[k] > 0
         /\ blue[b].charts[k] < MaxCharts
         /\ blue' = [blue EXCEPT ![b].charts[k] = @ + 1]
         /\ \/ Begin(b, <<[call |-> "append_blueprint", cluster |-> k, blue |-> b]>>)
            \/ UNCHANGED thread

\* destroy goes through the registered charts, which stay registered.
destroy(b) ==
    /\ Start(b)
    /\ blue' = [blue EXCEPT ![b].state = "destroying", ![b].removing = blue[b].charts]
    /\ UNCHANGED thread

\* Mutant: the chart is deregistered before the topology is told.
uninstall_helm_chart_deregisters(b) ==
    /\ AtRest(b)
    /\ blue[b].state = "destroying"
    /\ \E k \in Cluster :
         /\ blue[b].removing[k] > 0
         /\ \/ /\ blue' = [blue EXCEPT ![b].state = "running"]
               /\ UNCHANGED thread
            \/ /\ blue' = [blue EXCEPT ![b].removing[k] = @ - 1, ![b].charts[k] = @ - 1]
               /\ Begin(b, <<[call |-> "remove_blueprint", cluster |-> k, blue |-> b]>>)
    /\ UNCHANGED <<topology, topology_msg_queue, lock, requests, operations>>

\* Only destroy calls it.  Helm may raise, and so may the check that the release is
\* gone: the entry stays in the topology and the destruction is abandoned.
uninstall_helm_chart(b) ==
    /\ AtRest(b)
    /\ blue[b].state = "destroying"
    /\ \E k \in Cluster :
         /\ blue[b].removing[k] > 0
         /\ \/ /\ blue' = [blue EXCEPT ![b].state = "running"]
               /\ UNCHANGED thread
            \/ /\ blue' = [blue EXCEPT ![b].removing[k] = @ - 1]
               /\ Begin(b, <<[call |-> "remove_blueprint", cluster |-> k, blue |-> b]>>)
    /\ UNCHANGED <<topology, topology_msg_queue, lock, requests, operations>>

\* Mutant: locked_pdus itself is iterated while unlock_pdu removes from it, so
\* that PDUs are skipped.
final_cleanup_skipping(b) ==
    /\ AtRest(b)
    /\ blue[b].state = "destroying"
    /\ \A k \in Cluster : blue[b].removing[k] = 0
    /\ \E some \in SUBSET blue[b].locked_pdus :
         /\ Cardinality(some) = (Cardinality(blue[b].locked_pdus) + 1) \div 2
         /\ blue' = [blue EXCEPT ![b].state = "cleaning", ![b].cleaning = some]
    /\ UNCHANGED <<topology, topology_msg_queue, lock, thread, requests, operations>>

\* All charts are gone: PDUProvider.final_cleanup starts on a copy of locked_pdus.
final_cleanup(b) ==
    /\ AtRest(b)
    /\ blue[b].state = "destroying"
    /\ \A k \in Cluster : blue[b].removing[k] = 0
    /\ blue' = [blue EXCEPT ![b].state = "cleaning", ![b].cleaning = blue[b].locked_pdus]
    /\ UNCHANGED <<topology, topology_msg_queue, lock, thread, requests, operations>>

\* find_by_name in the loop of final_cleanup; unlock_pdu follows.  Every exception
\* is swallowed, that of a PDU that is gone and that of the database.
find_by_name(b) ==
    /\ AtRest(b)
    /\ blue[b].state = "cleaning"
    /\ \E p \in blue[b].cleaning :
         \/ /\ HasPdu(p) /\ Found(b, p)
            /\ blue' = [blue EXCEPT ![b].cleaning = @ \ {p}]
         \/ /\ UNCHANGED thread
            /\ blue' = [blue EXCEPT ![b].cleaning = @ \ {p}, ![b].lost = @ \cup {p}]
    /\ UNCHANGED <<topology, topology_msg_queue, lock, requests, operations>>

destroyed(b) ==
    /\ AtRest(b)
    /\ blue[b].state = "cleaning"
    /\ blue[b].cleaning = {}
    /\ blue' = [blue EXCEPT ![b].state = "destroyed"]
    /\ UNCHANGED <<topology, topology_msg_queue, lock, thread, requests, operations>>

(***************************************************************************)
(* Specification.                                                          *)
(***************************************************************************)

\* What a thread does once an operation is on its way.
Progress(t) == build_topology(t) \/ build_topology_raises(t) \/ Edit(t)

BlueprintStep(b) ==
    \/ own_operation(b) \/ find_pdu(b) \/ lock_pdu(b) \/ unlock_pdu(b)
    \/ install_helm_chart(b) \/ uninstall_helm_chart(b)
    \/ destroy(b) \/ final_cleanup(b) \/ find_by_name(b) \/ destroyed(b)

Next ==
    \/ \E request \in Requests : submit(request)
    \/ receive
    \/ \E t \in Thread : Progress(t)
    \/ \E b \in Blue : BlueprintStep(b)

Spec == Init /\ [][Next]_vars

\* All threads of the process are scheduled: an operation on its way goes on,
\* and the topology worker takes its next message.
Fairness ==
    /\ \A t \in Thread : WF_vars(Progress(t))
    /\ WF_vars(receive)

FairSpec == Spec /\ Fairness

(***************************************************************************)
(* Properties.                                                             *)
(***************************************************************************)

\* The variables have their types: in particular deployed_blueprints never
\* counts below zero and every step of an operation works on a real topology.
TypeOK ==
    /\ topology \in Document
    /\ topology_msg_queue \in Seq(Seq(Step))
    /\ lock \in Thread \cup {NoThread}
    /\ thread \in [Thread -> ThreadState]
    /\ blue \in [Blue -> BlueState]
    /\ requests \in Nat /\ operations \in Nat

\* obj_multiprocess_lock: "Locks the topology such that only ONE operation is
\* made at the same time".  What the lock does achieve: from the first save of an
\* operation to its end nobody else changes the document, so the saves of two
\* operations never interleave.
OneOperationAtATime ==
    \A t \in Thread : thread[t].saved => lock = t /\ topology = thread[t].base

\* What only one operation at a time is for: no save undoes a change made since
\* its Topology object was built.
NoLostUpdate ==
    [][\A t \in Thread :
         topology' # topology /\ thread'[t] # thread[t]
           => thread[t].base = topology]_vars

\* Every request is handled in the end, unless the topology worker has died in
\* build_topology: no operation keeps the lock for ever and no exception inside an
\* operation, of the worker or of a blueprint, stops the queue.
QueueDrains ==
    []<>(\/ topology_msg_queue = <<>> /\ thread[TopologyWorker].pc = "idle"
         \/ thread[TopologyWorker].pc = "dead")

\* A PDU is in the hands of at most one blueprint: lock_pdu raises for a PDU that
\* is "already locked by blueprint ...".
ExclusivePdu ==
    \A b, c \in Blue : b # c => blue[b].locked_pdus \cap blue[c].locked_pdus = {}

\* Between its operations a blueprint knows of everything the topology holds for it:
\* a PDU locked in its name is in its provider data, or its unlocking has failed
\* (and no later operation can unlock it), and a cluster lists it at most once for
\* every chart that destroy will come to.  So what calls that failed half-way have
\* left behind is found again by a later destroy.
ClaimsAreKnown ==
    \A b \in Blue : AtRest(b) /\ topology # NoTopology =>
        /\ \A p \in topology.pdus : topology.locked_by[p] = b =>
             p \in blue[b].locked_pdus \cup blue[b].lost
        /\ \A k \in Cluster : topology.deployed_blueprints[k][b] <= blue[b].charts[k]

\* A blueprint that has been destroyed has left nothing in the topology: no cluster
\* that can never be deleted, and no PDU that stays locked for ever but those whose
\* unlocking failed.
DestroyedLeavesNoTrace ==
    \A b \in Blue : blue[b].state = "destroyed" /\ topology # NoTopology =>
        /\ \A p \in topology.pdus : topology.locked_by[p] = b => p \in blue[b].lost
        /\ \A k \in topology.kubernetes : topology.deployed_blueprints[k][b] = 0
=============================================================================
