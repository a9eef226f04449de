----------------------- MODULE TopologyStore_proofs -----------------------
(***************************************************************************)
(* Theorems about TopologyStore: types, what topology_lock guarantees for  *)
(* every number of threads, and, when one blueprint alone changes the      *)
(* topology, that it knows of everything the topology holds for it, even   *)
(* when its calls raise half-way.                                          *)
(***************************************************************************)
EXTENDS TopologyStore, SequenceTheorems, TLAPS

\* What a step of an operation may do, whatever the operation is.
Outcome(t) ==
    \/ Raise(t)
    \/ Leave(t)
    \/ \E m \in Document : Keep(t, m)
    \/ \E m \in Document : SaveTopology(t, m)
    \/ \E todo \in Seq(Step) : Plan(t, todo)

InsideLock(t) ==
    /\ thread[t].pc = "editing"
    /\ thread[t].todo # <<>>
    /\ lock \in {NoThread, t}

(***************************************************************************)
(* Steps carry the arguments of their call.                                *)
(***************************************************************************)
\* Other networks on the VIMs.
LEMMA NewVimNetworks ==
    ASSUME NEW M \in TopologyModel, NEW v \in Vim, NEW n \in Net, NEW m,
           m = [M EXCEPT !.vim_networks[v] = @ \cup {n}]
    PROVE  /\ m \in TopologyModel /\ m.kubernetes = M.kubernetes
           /\ m.deployed_blueprints = M.deployed_blueprints
<1>1. PICK W : W = [M.vim_networks EXCEPT ![v] = @ \cup {n}]
  OBVIOUS
<1>2. M.vim_networks \in [Vim -> SUBSET Net]
  BY DEF TopologyModel
<1>3. W \in [Vim -> SUBSET Net]
  BY <1>1, <1>2
<1>4. m = [M EXCEPT !.vim_networks = W]
  BY <1>1
<1> QED
  BY <1>3, <1>4 DEF TopologyModel

LEMMA StepTypes ==
    ASSUME NEW s \in Step
    PROVE  /\ s.call = "create" => s.topology \in TopologyModel
           /\ s.call \in {"add_vim", "del_vim", "add_vim_net", "del_vim_net"} => s.vim \in Vim
           /\ s.call \in {"delete", "del_vim"} => s.terraform \in BOOLEAN
           /\ s.call = "add_vim" => s.networks \in SUBSET Net
           /\ s.call \in {"add_vim_net", "del_vim_net", "add_network", "del_network_by_name"} => s.net \in Net
           /\ s.call = "add_router" => s.router \in Router
           /\ s.call \in {"add_pdu", "del_pdu", "upd_pdu"} => s.pdu \in Pdu
           /\ s.call = "upd_pdu" => s.locked_by \in Blue \cup {NoBlue}
           /\ s.call \in {"add_k8scluster", "del_k8scluster", "update_k8scluster",
                          "append_blueprint", "remove_blueprint"} => s.cluster \in Cluster
           /\ s.call = "update_k8scluster" => s.deployed \in [Blue -> Nat]
           /\ s.call \in {"append_blueprint", "remove_blueprint"} => s.blue \in Blue
BY DEF Step, VimStep, NetworkStep, RouterStep, PduStep, ClusterStep

(***************************************************************************)
(* Every step of an operation is taken inside the lock and has one of the  *)
(* five outcomes, with a well-formed document.                             *)
(***************************************************************************)
LEMMA EditOutcome ==
    ASSUME TypeOK, NEW t \in Thread, Edit(t)
    PROVE  /\ InsideLock(t)
           /\ Outcome(t)
           /\ UNCHANGED <<topology_msg_queue, requests, operations>>
<1>1. Model(t) \in Document /\ (Model(t) # NoTopology => Model(t) \in TopologyModel)
  BY DEF TypeOK, ThreadState, Model, Document
<1>2. ASSUME NEW c, Calls(t, c)
      PROVE  InsideLock(t) /\ Arg(t) \in Step /\ Arg(t).call = c
  <2>1. thread[t].todo \in Seq(Step) /\ thread[t].todo # <<>>
    BY <1>2 DEF TypeOK, ThreadState, Calls
  <2>2. Head(thread[t].todo) \in Step
    BY <2>1
  <2>3. QED
    BY <1>2, <2>2 DEF Calls, Arg, InsideLock
<1>3. ASSUME save(t) PROVE InsideLock(t) /\ Outcome(t)
  BY <1>1, <1>2, <1>3 DEF save, SaveUnless, Outcome, Document
<1>4. ASSUME add_vim(t) PROVE InsideLock(t) /\ Outcome(t)
  <2>1. InsideLock(t) /\ Arg(t) \in Step /\ Arg(t).call = "add_vim"
    BY <1>4, <1>2 DEF add_vim
  <2> DEFINE m == [Model(t) EXCEPT !.vims = @ \cup {Arg(t).vim},
                           !.vim_networks[Arg(t).vim] = Arg(t).networks]
  <2>2. ASSUME Model(t) # NoTopology PROVE m \in Document
    <3>1. Model(t) \in TopologyModel /\ Arg(t).vim \in Vim /\ Arg(t).networks \in SUBSET Net
      BY <1>1, <2>1, <2>2, StepTypes
    <3>2. QED
      BY <3>1 DEF TopologyModel, Document
  <2> HIDE DEF m
  <2>3. Raise(t) \/ (Model(t) # NoTopology /\ SaveTopology(t, m))
    BY <1>4 DEF add_vim, SaveUnless, m
  <2>4. QED
    BY <2>1, <2>2, <2>3 DEF Outcome
<1>5. ASSUME del_vim(t) PROVE InsideLock(t) /\ Outcome(t)
  <2>1. InsideLock(t) /\ Arg(t) \in Step /\ Arg(t).call = "del_vim"
    BY <1>5, <1>2 DEF del_vim
  <2> DEFINE m == [Model(t) EXCEPT !.vims = @ \ {Arg(t).vim},
                           !.vim_networks[Arg(t).vim] = {}]
  <2>2. ASSUME Model(t) # NoTopology PROVE m \in Document
    BY <1>1, <2>1, <2>2, StepTypes DEF TopologyModel, Document
  <2> HIDE DEF m
  <2>3. Raise(t) \/ (Model(t) # NoTopology /\ SaveTopology(t, m))
    BY <1>5 DEF del_vim, SaveUnless, m
  <2>4. QED
    BY <2>1, <2>2, <2>3 DEF Outcome
<1>6. ASSUME del_vim_net(t) PROVE InsideLock(t) /\ Outcome(t)
  <2>1. InsideLock(t) /\ Arg(t) \in Step /\ Arg(t).call = "del_vim_net"
    BY <1>6, <1>2 DEF del_vim_net
  <2> DEFINE m == [Model(t) EXCEPT !.vim_networks[Arg(t).vim] = @ \ {Arg(t).net}]
  <2>2. ASSUME Model(t) # NoTopology PROVE m \in Document
    BY <1>1, <2>1, <2>2, StepTypes DEF TopologyModel, Document
  <2> HIDE DEF m
  <2>3. Raise(t) \/ (Model(t) # NoTopology /\ SaveTopology(t, m))
    BY <1>6 DEF del_vim_net, SaveUnless, m
  <2>4. QED
    BY <2>1, <2>2, <2>3 DEF Outcome
<1>7. ASSUME add_network(t) PROVE InsideLock(t) /\ Outcome(t)
  <2>1. InsideLock(t) /\ Arg(t) \in Step /\ Arg(t).call = "add_network"
    BY <1>7, <1>2 DEF add_network
  <2> DEFINE m == [Model(t) EXCEPT !.networks = @ \cup {Arg(t).net}]
  <2>2. ASSUME Model(t) # NoTopology PROVE m \in Document
    BY <1>1, <2>1, <2>2, StepTypes DEF TopologyModel, Document
  <2> HIDE DEF m
  <2>3. Raise(t) \/ (Model(t) # NoTopology /\ SaveTopology(t, m))
    BY <1>7 DEF add_network, SaveUnless, m
  <2>4. QED
    BY <2>1, <2>2, <2>3 DEF Outcome
<1>8. ASSUME del_network_by_name(t) PROVE InsideLock(t) /\ Outcome(t)
  <2>1. InsideLock(t) /\ Arg(t) \in Step /\ Arg(t).call = "del_network_by_name"
    BY <1>8, <1>2 DEF del_network_by_name
  <2> DEFINE m == [Model(t) EXCEPT !.networks = @ \ {Arg(t).net}]
  <2>2. ASSUME Model(t) # NoTopology PROVE m \in Document
    BY <1>1, <2>1, <2>2, StepTypes DEF TopologyModel, Document
  <2> HIDE DEF m
  <2>3. Raise(t) \/ (Model(t) # NoTopology /\ SaveTopology(t, m))
    BY <1>8 DEF del_network_by_name, SaveUnless, m
  <2>4. QED
    BY <2>1, <2>2, <2>3 DEF Outcome
<1>9. ASSUME add_router(t) PROVE InsideLock(t) /\ Outcome(t)
  <2>1. InsideLock(t) /\ Arg(t) \in Step /\ Arg(t).call = "add_router"
    BY <1>9, <1>2 DEF add_router
  <2> DEFINE m == [Model(t) EXCEPT !.routers = @ \cup {Arg(t).router}]
  <2>2. ASSUME Model(t) # NoTopology PROVE m \in Document
    BY <1>1, <2>1, <2>2, StepTypes DEF TopologyModel, Document
  <2> HIDE DEF m
  <2>3. Raise(t) \/ (Model(t) # NoTopology /\ SaveTopology(t, m))
    BY <1>9 DEF add_router, SaveUnless, m
  <2>4. QED
    BY <2>1, <2>2, <2>3 DEF Outcome
<1>10. ASSUME del_pdu(t) PROVE InsideLock(t) /\ Outcome(t)
  <2>1. InsideLock(t) /\ Arg(t) \in Step /\ Arg(t).call = "del_pdu"
    BY <1>10, <1>2 DEF del_pdu
  <2> DEFINE m == [Model(t) EXCEPT !.pdus = @ \ {Arg(t).pdu},
                           !.locked_by[Arg(t).pdu] = NoBlue]
  <2>2. ASSUME Model(t) # NoTopology PROVE m \in Document
    BY <1>1, <2>1, <2>2, StepTypes DEF TopologyModel, Document
  <2> HIDE DEF m
  <2>3. Raise(t) \/ (Model(t) # NoTopology /\ SaveTopology(t, m))
    BY <1>10 DEF del_pdu, SaveUnless, m
  <2>4. QED
    BY <2>1, <2>2, <2>3 DEF Outcome
<1>11. ASSUME upd_pdu(t) PROVE InsideLock(t) /\ Outcome(t)
  <2>1. InsideLock(t) /\ Arg(t) \in Step /\ Arg(t).call = "upd_pdu"
    BY <1>11, <1>2 DEF upd_pdu
  <2> DEFINE m == [Model(t) EXCEPT !.locked_by[Arg(t).pdu] = Arg(t).locked_by]
  <2>2. ASSUME Model(t) # NoTopology PROVE m \in Document
    BY <1>1, <2>1, <2>2, StepTypes DEF TopologyModel, Document
  <2> HIDE DEF m
  <2>3. Raise(t) \/ (Model(t) # NoTopology /\ SaveTopology(t, m))
    BY <1>11 DEF upd_pdu, SaveUnless, m
  <2>4. QED
    BY <2>1, <2>2, <2>3 DEF Outcome
<1>12. ASSUME add_k8scluster(t) PROVE InsideLock(t) /\ Outcome(t)
  <2>1. InsideLock(t) /\ Arg(t) \in Step /\ Arg(t).call = "add_k8scluster"
    BY <1>12, <1>2 DEF add_k8scluster
  <2> DEFINE m == [Model(t) EXCEPT !.kubernetes = @ \cup {Arg(t).cluster}]
  <2>2. ASSUME Model(t) # NoTopology PROVE m \in Document
    BY <1>1, <2>1, <2>2, StepTypes DEF TopologyModel, Document
  <2> HIDE DEF m
  <2>3. Raise(t) \/ (Model(t) # NoTopology /\ SaveTopology(t, m))
    BY <1>12 DEF add_k8scluster, SaveUnless, m
  <2>4. QED
    BY <2>1, <2>2, <2>3 DEF Outcome
<1>13. ASSUME del_k8scluster(t) PROVE InsideLock(t) /\ Outcome(t)
  <2>1. InsideLock(t) /\ Arg(t) \in Step /\ Arg(t).call = "del_k8scluster"
    BY <1>13, <1>2 DEF del_k8scluster
  <2> DEFINE m == [Model(t) EXCEPT !.kubernetes = @ \ {Arg(t).cluster},
                           !.deployed_blueprints[Arg(t).cluster] = [b \in Blue |-> 0]]
  <2>2. ASSUME Model(t) # NoTopology PROVE m \in Document
    BY <1>1, <2>1, <2>2, StepTypes DEF TopologyModel, Document
  <2> HIDE DEF m
  <2>3. Raise(t) \/ (Model(t) # NoTopology /\ SaveTopology(t, m))
    BY <1>13 DEF del_k8scluster, SaveUnless, m, NotOnTopology
  <2>4. QED
    BY <2>1, <2>2, <2>3 DEF Outcome
<1>14. ASSUME update_k8scluster(t) PROVE InsideLock(t) /\ Outcome(t)
  <2>1. InsideLock(t) /\ Arg(t) \in Step /\ Arg(t).call = "update_k8scluster"
    BY <1>14, <1>2 DEF update_k8scluster
  <2> DEFINE m == [Model(t) EXCEPT !.deployed_blueprints[Arg(t).cluster] = Arg(t).deployed]
  <2>2. ASSUME Model(t) # NoTopology PROVE m \in Document
    BY <1>1, <2>1, <2>2, StepTypes DEF TopologyModel, Document
  <2> HIDE DEF m
  <2>3. Raise(t) \/ (Model(t) # NoTopology /\ SaveTopology(t, m))
    BY <1>14 DEF update_k8scluster, SaveUnless, m, NotOnTopology
  <2>4. QED
    BY <2>1, <2>2, <2>3 DEF Outcome
<1>15. ASSUME append_blueprint(t) PROVE InsideLock(t) /\ Outcome(t)
  <2>1. InsideLock(t) /\ Arg(t) \in Step /\ Arg(t).call = "append_blueprint"
    BY <1>15, <1>2 DEF append_blueprint
  <2> DEFINE m == [Model(t) EXCEPT !.deployed_blueprints[Arg(t).cluster][Arg(t).blue] = @ + 1]
  <2>2. ASSUME Model(t) # NoTopology PROVE m \in Document
    <3>1. Model(t) \in TopologyModel /\ Arg(t).cluster \in Cluster /\ Arg(t).blue \in Blue
      BY <1>1, <2>1, <2>2, StepTypes
    <3>2. Model(t).deployed_blueprints[Arg(t).cluster][Arg(t).blue] + 1 \in Nat
      BY <3>1 DEF TopologyModel
    <3>3. QED
      BY <3>1, <3>2 DEF TopologyModel, Document
  <2> HIDE DEF m
  <2>3. Raise(t) \/ (Model(t) # NoTopology /\ SaveTopology(t, m))
    BY <1>15 DEF append_blueprint, SaveUnless, m, NotOnTopology
  <2>4. QED
    BY <2>1, <2>2, <2>3 DEF Outcome
<1>16. ASSUME add_vim_net(t) PROVE InsideLock(t) /\ Outcome(t)
  <2>1. InsideLock(t) /\ Arg(t) \in Step /\ Arg(t).call = "add_vim_net"
    BY <1>16, <1>2 DEF add_vim_net
  <2> DEFINE m == [Model(t) EXCEPT !.vim_networks[Arg(t).vim] = @ \cup {Arg(t).net}]
  <2>2. ASSUME Model(t) # NoTopology PROVE m \in Document
    <3>1. PICK M \in TopologyModel : M = Model(t)
      BY <1>1, <2>2 DEF Document
    <3>2. PICK v \in Vim, n \in Net : v = Arg(t).vim /\ n = Arg(t).net
      BY <2>1, StepTypes
    <3>3. m \in TopologyModel
      BY <3>1, <3>2, NewVimNetworks
    <3> QED
      BY <3>1, <3>2, <3>3 DEF Document
  <2> HIDE DEF m
  <2>3. Raise(t) \/ (Model(t) # NoTopology /\ Keep(t, m))
    BY <1>16 DEF add_vim_net, m
  <2>4. QED
    BY <2>1, <2>2, <2>3 DEF Outcome
<1>17. ASSUME add_pdu(t) PROVE InsideLock(t) /\ Outcome(t)
  <2>1. InsideLock(t) /\ Arg(t) \in Step /\ Arg(t).call = "add_pdu"
    BY <1>17, <1>2 DEF add_pdu
  <2> DEFINE m == [Model(t) EXCEPT !.pdus = @ \cup {Arg(t).pdu}]
  <2>2. ASSUME Model(t) # NoTopology PROVE m \in Document
    BY <1>1, <2>1, <2>2, StepTypes DEF TopologyModel, Document
  <2> HIDE DEF m
  <2>3. Leave(t) \/ Raise(t) \/ (Model(t) # NoTopology /\ SaveTopology(t, m))
    BY <1>17 DEF add_pdu, SaveUnless, m
  <2>4. QED
    BY <2>1, <2>2, <2>3 DEF Outcome
<1>18. ASSUME remove_blueprint(t) PROVE InsideLock(t) /\ Outcome(t)
  <2>1. InsideLock(t) /\ Arg(t) \in Step /\ Arg(t).call = "remove_blueprint"
    BY <1>18, <1>2 DEF remove_blueprint
  <2> DEFINE m == [Model(t) EXCEPT !.deployed_blueprints[Arg(t).cluster][Arg(t).blue] = @ - 1]
  <2>2. ASSUME ~NotOnTopology(t),
               Model(t).deployed_blueprints[Arg(t).cluster][Arg(t).blue] # 0
        PROVE  m \in Document
    <3>1. Model(t) \in TopologyModel /\ Arg(t).cluster \in Cluster /\ Arg(t).blue \in Blue
      BY <1>1, <2>1, <2>2, StepTypes DEF NotOnTopology
    <3>2. Model(t).deployed_blueprints[Arg(t).cluster][Arg(t).blue] - 1 \in Nat
      BY <2>2, <3>1 DEF TopologyModel
    <3>3. QED
      BY <3>1, <3>2 DEF TopologyModel, Document
  <2> HIDE DEF m
  <2>3. \/ Leave(t) \/ Raise(t)
        \/ /\ ~NotOnTopology(t)
           /\ Model(t).deployed_blueprints[Arg(t).cluster][Arg(t).blue] # 0
           /\ SaveTopology(t, m)
    BY <1>18 DEF remove_blueprint, SaveUnless, m
  <2>4. QED
    BY <2>1, <2>2, <2>3 DEF Outcome
<1>19. ASSUME create(t) PROVE InsideLock(t) /\ Outcome(t)
  <2>1. InsideLock(t) /\ Arg(t) \in Step /\ Arg(t).call = "create"
    BY <1>19, <1>2 DEF create
  <2>2. [Arg(t).topology EXCEPT !.vims = {}] \in Document
    BY <2>1, StepTypes DEF TopologyModel, Document
  <2>3. QED
    BY <1>19, <2>1, <2>2 DEF create, Outcome
<1>20. ASSUME delete(t) PROVE InsideLock(t) /\ Outcome(t)
  <2>1. InsideLock(t) /\ Arg(t) \in Step /\ Arg(t).call = "delete"
    BY <1>20, <1>2 DEF delete
  <2>2. CASE Model(t) = NoTopology
    BY <1>20, <2>1, <2>2 DEF delete, Outcome
  <2>3. CASE Model(t) # NoTopology
    <3> DEFINE steps(n, vim) == [i \in 1..n |-> [call |-> "del_vim", vim |-> vim[i],
                                               terraform |-> Arg(t).terraform]]
               last == [call |-> "delete_topology"]
    <3>1. PICK n \in 0..Cardinality(Model(t).vims) : \E vim \in [1..n -> Model(t).vims] :
            Plan(t, Append(steps(n, vim), last))
      BY <1>20, <2>3 DEF delete
    <3>2. n \in Nat
      OBVIOUS
    <3>3. PICK vim \in [1..n -> Model(t).vims] : Plan(t, Append(steps(n, vim), last))
      BY <3>1
    <3>4. Model(t).vims \subseteq Vim /\ Arg(t).terraform \in BOOLEAN
      BY <1>1, <2>1, <2>3, StepTypes DEF TopologyModel
    <3>5. \A i \in 1..n : steps(n, vim)[i] \in Step
      BY <3>4 DEF Step, VimStep, NetworkStep, RouterStep, PduStep, ClusterStep
    <3>6. steps(n, vim) \in Seq(Step)
      BY <3>2, <3>5, IsASeq
    <3>7. last \in Step
      BY DEF Step, VimStep, NetworkStep, RouterStep, PduStep, ClusterStep
    <3>8. Append(steps(n, vim), last) \in Seq(Step)
      BY <3>6, <3>7
    <3>9. QED
      BY <2>1, <3>3, <3>8 DEF Outcome
  <2>4. QED
    BY <2>2, <2>3
<1>21. ASSUME delete_topology(t) PROVE InsideLock(t) /\ Outcome(t)
  BY <1>1, <1>2, <1>21 DEF delete_topology, SaveUnless, Outcome, Document
<1>22. ASSUME update_vim(t) PROVE InsideLock(t) /\ Outcome(t)
  BY <1>1, <1>2, <1>22 DEF update_vim, Outcome, Document
<1>23. ASSUME add_vim_router(t) PROVE InsideLock(t) /\ Outcome(t)
  BY <1>1, <1>2, <1>23 DEF add_vim_router, Outcome, Document
<1>24. ASSUME del_vim_router(t) PROVE InsideLock(t) /\ Outcome(t)
  BY <1>1, <1>2, <1>24 DEF del_vim_router, Outcome, Document
<1>25. ASSUME del_router(t) PROVE InsideLock(t) /\ Outcome(t)
  BY <1>1, <1>2, <1>25 DEF del_router, Outcome, Document
<1>26. QED
  BY <1>4, <1>5, <1>6, <1>7, <1>8, <1>9, <1>10, <1>11, <1>12, <1>13, <1>14, <1>15, <1>16, <1>17, <1>18, <1>3, <1>19, <1>20, <1>21, <1>22, <1>23, <1>24, <1>25 DEF Edit

(***************************************************************************)
(* The inductive invariant.                                                *)
(***************************************************************************)

\* A thread that has found a PDU holds its PduModel.
FoundInv ==
    \A t \in Thread : thread[t].pc = "found" =>
        \E p \in Pdu, l \in Blue \cup {NoBlue} :
            thread[t].todo = <<[call |-> "upd_pdu", pdu |-> p, locked_by |-> l]>>

\* Only an operation that is under way has saved.
LockInv ==
    \A t \in Thread : thread[t].saved =>
        /\ thread[t].pc = "editing"
        /\ lock = t
        /\ topology = thread[t].base

IInv == TypeOK /\ FoundInv /\ LockInv

\* A thread between its operations is well typed and has not saved.
LEMMA IdleType == Idle \in ThreadState /\ Idle.pc = "idle" /\ ~Idle.saved
  <1>1. <<>> \in Seq(Step)
    OBVIOUS
  <1>2. QED
    BY <1>1 DEF Idle, ThreadState, Document

\* The state of a thread outside the lock, with steps to do later.
Waiting(pc, todo) == [Idle EXCEPT !.pc = pc, !.todo = todo]

\* A thread that is about to read the document is well typed and has not saved.
LEMMA WaitingType ==
    ASSUME NEW pc \in {"found", "building"}, NEW todo \in Seq(Step)
    PROVE  /\ Waiting(pc, todo) \in ThreadState
           /\ Waiting(pc, todo).pc = pc
           /\ Waiting(pc, todo).todo = todo
           /\ ~Waiting(pc, todo).saved
  BY DEF Waiting, Idle, ThreadState, Document

\* The process starts in a state of the invariant: no thread works on the topology.
LEMMA InitIInv == Init => IInv
<1> SUFFICES ASSUME Init PROVE IInv
  OBVIOUS
<1>1. TypeOK
  <2>1. topology \in Document /\ requests \in Nat /\ operations \in Nat
    BY RequestAssumption DEF Init
  <2>2. topology_msg_queue \in Seq(Seq(Step))
    BY DEF Init
  <2>3. lock \in Thread \cup {NoThread} /\ thread \in [Thread -> ThreadState]
    BY IdleType DEF Init
  <2>4. blue \in [Blue -> BlueState]
    BY DEF Init, BlueState, NoCharts
  <2>5. QED
    BY <2>1, <2>2, <2>3, <2>4 DEF TypeOK
<1>2. FoundInv /\ LockInv
  BY IdleType DEF Init, FoundInv, LockInv
<1>3. QED
  BY <1>1, <1>2 DEF IInv

(***************************************************************************)
(* Steps outside the lock keep the invariant: thread u takes a state that  *)
(* has not saved, and the document and the lock stay as they are.          *)
(***************************************************************************)
LEMMA OutsideLock ==
    ASSUME IInv, NEW u \in Thread, NEW s \in ThreadState, ~s.saved,
           s.pc = "found" => \E p \in Pdu, l \in Blue \cup {NoBlue} :
               s.todo = <<[call |-> "upd_pdu", pdu |-> p, locked_by |-> l]>>,
           thread' = [thread EXCEPT ![u] = s],
           UNCHANGED <<topology, lock>>
    PROVE  /\ thread' \in [Thread -> ThreadState]
           /\ FoundInv' /\ LockInv'
<1>1. thread \in [Thread -> ThreadState]
  BY DEF IInv, TypeOK
<1>2. thread'[u] = s /\ \A t \in Thread \ {u} : thread'[t] = thread[t]
  BY <1>1
<1>3. thread' \in [Thread -> ThreadState]
  BY <1>1
<1>4. FoundInv'
  BY <1>2 DEF IInv, FoundInv
<1>5. LockInv'
  BY <1>2 DEF IInv, LockInv
<1>6. QED
  BY <1>3, <1>4, <1>5

\* What an exception leaves of a blueprint's record is well typed.
LEMMA AbandonType ==
    ASSUME NEW b \in Blue, blue[b] \in BlueState
    PROVE  Abandon(b) \in BlueState
  BY DEF Abandon, Unlocking, BlueState

(***************************************************************************)
(* Steps inside the lock keep the invariant: nobody else has saved when u  *)
(* holds the lock, so a save of u is the only change of the document.      *)
(***************************************************************************)
LEMMA EditIInv ==
    ASSUME IInv, NEW u \in Thread, Edit(u)
    PROVE  IInv'
<1>1. /\ InsideLock(u) /\ Outcome(u)
      /\ UNCHANGED <<topology_msg_queue, requests, operations>>
  BY EditOutcome DEF IInv
<1>2. /\ thread \in [Thread -> ThreadState] /\ blue \in [Blue -> BlueState]
      /\ topology \in Document /\ topology_msg_queue \in Seq(Seq(Step))
      /\ requests \in Nat /\ operations \in Nat
  BY DEF IInv, TypeOK
<1>3. \A t \in Thread \ {u} : ~thread[t].saved
  BY <1>1, NullAssumption DEF IInv, LockInv, InsideLock
<1>4. thread[u].pc = "editing" /\ thread[u].todo \in Seq(Step) /\ thread[u].todo # <<>>
  BY <1>1, <1>2 DEF InsideLock, ThreadState
<1>5. Tail(thread[u].todo) \in Seq(Step)
  BY <1>4
<1>6. ASSUME NEW s \in ThreadState, thread' = [thread EXCEPT ![u] = s],
             s.pc # "found", lock' \in Thread \cup {NoThread},
             topology' \in Document, blue' \in [Blue -> BlueState],
             s.saved => s.pc = "editing" /\ lock' = u /\ topology' = s.base
      PROVE  IInv'
  <2>1. thread'[u] = s /\ \A t \in Thread \ {u} : thread'[t] = thread[t]
    BY <1>2, <1>6
  <2>2. TypeOK'
    BY <1>1, <1>2, <1>6 DEF TypeOK
  <2>3. FoundInv'
    BY <1>6, <2>1 DEF IInv, FoundInv
  <2>4. LockInv'
    BY <1>3, <1>6, <2>1 DEF LockInv
  <2>5. QED
    BY <2>2, <2>3, <2>4 DEF IInv
<1>7. CASE Raise(u)
  <2>1. blue' \in [Blue -> BlueState]
    BY <1>2, <1>7, AbandonType DEF Raise
  <2>2. QED
    BY <1>2, <1>6, <1>7, <2>1, IdleType DEF Raise
<1>8. CASE Leave(u)
  BY <1>2, <1>6, <1>8, IdleType DEF Leave
<1>9. ASSUME NEW m \in Document, Keep(u, m) PROVE IInv'
  <2> DEFINE s == [thread[u] EXCEPT !.model = m, !.todo = Tail(thread[u].todo)]
  <2>1. s \in ThreadState /\ s.pc = "editing"
    BY <1>2, <1>4, <1>5 DEF ThreadState
  <2>2. s.saved = thread[u].saved /\ s.base = thread[u].base
    BY <1>2 DEF ThreadState
  <2>3. thread' = [thread EXCEPT ![u] = s]
    BY <1>2, <1>9 DEF Keep
  <2>4. lock' = u /\ UNCHANGED <<topology, blue>>
    BY <1>9 DEF Keep
  <2>5. s.saved => topology' = s.base
    BY <2>2, <2>4 DEF IInv, LockInv
  <2> HIDE DEF s
  <2>6. QED
    BY <1>2, <1>6, <2>1, <2>3, <2>4, <2>5
<1>10. ASSUME NEW todo \in Seq(Step), Plan(u, todo) PROVE IInv'
  <2> DEFINE s == [thread[u] EXCEPT !.todo = todo]
  <2>1. s \in ThreadState /\ s.pc = "editing"
    BY <1>2, <1>4 DEF ThreadState
  <2>2. s.saved = thread[u].saved /\ s.base = thread[u].base
    BY <1>2 DEF ThreadState
  <2>3. thread' = [thread EXCEPT ![u] = s]
    BY <1>2, <1>10 DEF Plan
  <2>4. lock' = u /\ UNCHANGED <<topology, blue>>
    BY <1>10 DEF Plan
  <2>5. s.saved => topology' = s.base
    BY <2>2, <2>4 DEF IInv, LockInv
  <2> HIDE DEF s
  <2>6. QED
    BY <1>2, <1>6, <2>1, <2>3, <2>4, <2>5
<1>11. ASSUME NEW m \in Document, SaveTopology(u, m) PROVE IInv'
  <2> DEFINE s == [thread[u] EXCEPT !.model = m, !.base = m, !.saved = TRUE,
                                    !.todo = Tail(thread[u].todo)]
  <2>1. topology' = m /\ UNCHANGED blue
    BY <1>11 DEF SaveTopology
  <2>2. CASE Tail(thread[u].todo) = <<>>
    <3>1. thread' = [thread EXCEPT ![u] = Idle] /\ lock' = NoThread
      BY <1>11, <2>2 DEF SaveTopology
    <3>2. QED
      BY <1>2, <1>6, <2>1, <3>1, IdleType
  <2>3. CASE Tail(thread[u].todo) # <<>>
    <3>1. s \in ThreadState /\ s.pc = "editing" /\ s.base = m
      BY <1>2, <1>4, <1>5 DEF ThreadState
    <3>2. thread' = [thread EXCEPT ![u] = s] /\ lock' = u
      BY <1>2, <1>11, <2>3 DEF SaveTopology
    <3> HIDE DEF s
    <3>3. QED
      BY <1>2, <1>6, <2>1, <3>1, <3>2
  <2>4. QED
    BY <2>2, <2>3
<1>12. QED
  BY <1>1, <1>7, <1>8, <1>9, <1>10, <1>11 DEF Outcome

(***************************************************************************)
(* Steps of a blueprint's thread outside the lock keep the invariant: they *)
(* leave the document and the lock alone, and a PDU that was found is a    *)
(* well-formed argument of upd_pdu.                                        *)
(***************************************************************************)
LEMMA BlueprintIInv ==
    ASSUME IInv, NEW b \in Blue, BlueprintStep(b)
    PROVE  IInv'
<1>1. /\ thread \in [Thread -> ThreadState] /\ blue \in [Blue -> BlueState]
      /\ topology \in Document /\ topology_msg_queue \in Seq(Seq(Step))
      /\ requests \in Nat /\ operations \in Nat /\ lock \in Thread \cup {NoThread}
      /\ b \in Thread
  BY DEF IInv, TypeOK, Thread
<1>2. ASSUME NEW s \in ThreadState, ~s.saved,
             s.pc = "found" => \E p \in Pdu, l \in Blue \cup {NoBlue} :
                 s.todo = <<[call |-> "upd_pdu", pdu |-> p, locked_by |-> l]>>,
             thread' = [thread EXCEPT ![b] = s],
             UNCHANGED <<topology, topology_msg_queue, lock, requests>>,
             blue' \in [Blue -> BlueState], operations' \in Nat
      PROVE  IInv'
  <2>1. thread' \in [Thread -> ThreadState] /\ FoundInv' /\ LockInv'
    BY <1>1, <1>2, OutsideLock
  <2>2. TypeOK'
    BY <1>1, <1>2, <2>1 DEF TypeOK
  <2>3. QED
    BY <2>1, <2>2 DEF IInv
<1>3. ASSUME UNCHANGED <<topology, topology_msg_queue, lock, requests, thread>>,
             blue' \in [Blue -> BlueState], operations' \in Nat
      PROVE  IInv'
  <2>1. TypeOK'
    BY <1>1, <1>3 DEF TypeOK
  <2>2. FoundInv' /\ LockInv'
    BY <1>3 DEF IInv, FoundInv, LockInv
  <2>3. QED
    BY <2>1, <2>2 DEF IInv
<1>4. ASSUME NEW todo \in Seq(Step), Begin(b, todo),
             UNCHANGED <<topology, topology_msg_queue, lock, requests>>,
             blue' \in [Blue -> BlueState], operations' \in Nat
      PROVE  IInv'
  <2>1. thread' = [thread EXCEPT ![b] = Waiting("building", todo)]
    BY <1>4 DEF Begin, Waiting
  <2>2. /\ Waiting("building", todo) \in ThreadState
        /\ Waiting("building", todo).pc = "building"
        /\ ~Waiting("building", todo).saved
    BY WaitingType
  <2>3. QED
    BY <1>2, <1>4, <2>1, <2>2
<1>5. ASSUME NEW p \in Pdu, HasPdu(p), Found(b, p),
             UNCHANGED <<topology, topology_msg_queue, lock, requests>>,
             blue' \in [Blue -> BlueState], operations' \in Nat
      PROVE  IInv'
  <2> DEFINE step == [call |-> "upd_pdu", pdu |-> p, locked_by |-> topology.locked_by[p]]
  <2>1. topology.locked_by[p] \in Blue \cup {NoBlue}
    BY <1>1, <1>5 DEF HasPdu, Document, TopologyModel
  <2>2. step \in Step
    BY <2>1 DEF Step, VimStep, NetworkStep, RouterStep, PduStep, ClusterStep
  <2>3. <<step>> \in Seq(Step)
    BY <2>2
  <2>4. thread' = [thread EXCEPT ![b] = Waiting("found", <<step>>)]
    BY <1>5 DEF Found, Waiting
  <2>5. /\ Waiting("found", <<step>>) \in ThreadState
        /\ Waiting("found", <<step>>).todo = <<step>>
        /\ ~Waiting("found", <<step>>).saved
    BY <2>3, WaitingType
  <2>6. \E q \in Pdu, l \in Blue \cup {NoBlue} :
          Waiting("found", <<step>>).todo = <<[call |-> "upd_pdu", pdu |-> q, locked_by |-> l]>>
    BY <2>1, <2>5
  <2>7. QED
    BY <1>2, <1>5, <2>4, <2>5, <2>6
<1>6. ASSUME thread[b].pc = "found"
      PROVE  /\ PduModel(b).pdu \in Pdu
             /\ \A l \in Blue \cup {NoBlue} :
                  <<[PduModel(b) EXCEPT !.locked_by = l]>> \in Seq(Step)
  <2>1. PICK p \in Pdu, k \in Blue \cup {NoBlue} :
          thread[b].todo = <<[call |-> "upd_pdu", pdu |-> p, locked_by |-> k]>>
    BY <1>1, <1>6 DEF IInv, FoundInv
  <2>2. PduModel(b) = [call |-> "upd_pdu", pdu |-> p, locked_by |-> k]
    BY <2>1 DEF PduModel
  <2>3. ASSUME NEW l \in Blue \cup {NoBlue}
        PROVE  [PduModel(b) EXCEPT !.locked_by = l] \in Step
    <3>1. [PduModel(b) EXCEPT !.locked_by = l]
            = [call |-> "upd_pdu", pdu |-> p, locked_by |-> l]
      BY <2>2
    <3>2. QED
      BY <3>1 DEF Step, VimStep, NetworkStep, RouterStep, PduStep, ClusterStep
  <2>4. QED
    BY <2>2, <2>3
<1>7. ASSUME Start(b)
      PROVE  /\ UNCHANGED <<topology, topology_msg_queue, lock, requests>>
             /\ operations' \in Nat
  BY <1>1, <1>7 DEF Start
<1>8. CASE own_operation(b)
  <2>1. PICK todo \in OwnOperations[b] : Begin(b, todo)
    BY <1>8 DEF own_operation
  <2>2. todo \in Seq(Step)
    BY <2>1, RequestAssumption
  <2>3. QED
    BY <1>1, <1>4, <1>7, <1>8, <2>1, <2>2 DEF own_operation
<1>9. CASE find_pdu(b)
  BY <1>1, <1>5, <1>7, <1>9 DEF find_pdu
<1>10. CASE lock_pdu(b)
  <2>1. /\ thread[b].pc = "found" /\ operations' \in Nat
        /\ UNCHANGED <<topology, topology_msg_queue, lock, requests>>
    BY <1>1, <1>10 DEF lock_pdu
  <2>2. CASE thread' = [thread EXCEPT ![b] = Idle] /\ UNCHANGED blue
    BY <1>1, <1>2, <2>1, <2>2, IdleType
  <2>3. CASE /\ blue' = [blue EXCEPT ![b].locked_pdus = @ \cup {PduModel(b).pdu}]
             /\ Begin(b, <<[PduModel(b) EXCEPT !.locked_by = b]>>)
    <3>1. blue' \in [Blue -> BlueState]
      BY <1>1, <1>6, <2>1, <2>3 DEF BlueState
    <3>2. <<[PduModel(b) EXCEPT !.locked_by = b]>> \in Seq(Step)
      BY <1>6, <2>1
    <3>3. QED
      BY <1>4, <2>1, <2>3, <3>1, <3>2
  <2>4. QED
    BY <1>10, <2>2, <2>3 DEF lock_pdu
<1>11. CASE unlock_pdu(b)
  <2>1. /\ thread[b].pc = "found" /\ operations' \in Nat
        /\ UNCHANGED <<topology, topology_msg_queue, lock, requests>>
    BY <1>1, <1>11 DEF unlock_pdu
  <2>2. CASE thread' = [thread EXCEPT ![b] = Idle] /\ UNCHANGED blue
    BY <1>1, <1>2, <2>1, <2>2, IdleType
  <2>3. CASE /\ blue' = [blue EXCEPT ![b].locked_pdus = @ \ {PduModel(b).pdu}]
             /\ Begin(b, <<[PduModel(b) EXCEPT !.locked_by = NoBlue]>>)
    <3>1. blue' \in [Blue -> BlueState]
      BY <1>1, <2>3 DEF BlueState
    <3>2. <<[PduModel(b) EXCEPT !.locked_by = NoBlue]>> \in Seq(Step)
      BY <1>6, <2>1
    <3>3. QED
      BY <1>4, <2>1, <2>3, <3>1, <3>2
  <2>4. QED
    BY <1>11, <2>2, <2>3 DEF unlock_pdu
<1>12. CASE install_helm_chart(b)
  <2>1. PICK k \in Cluster :
          /\ blue' = [blue EXCEPT ![b].charts[k] = @ + 1]
          /\ \/ Begin(b, <<[call |-> "append_blueprint", cluster |-> k, blue |-> b]>>)
             \/ UNCHANGED thread
    BY <1>12 DEF install_helm_chart
  <2>2. blue[b].charts[k] + 1 \in Nat
    BY <1>1 DEF BlueState
  <2>3. blue' \in [Blue -> BlueState]
    BY <1>1, <2>1, <2>2 DEF BlueState
  <2>4. [call |-> "append_blueprint", cluster |-> k, blue |-> b] \in Step
    BY DEF Step, VimStep, NetworkStep, RouterStep, PduStep, ClusterStep
  <2>5. <<[call |-> "append_blueprint", cluster |-> k, blue |-> b]>> \in Seq(Step)
    BY <2>4
  <2>6. QED
    BY <1>3, <1>4, <1>7, <1>12, <2>1, <2>3, <2>5 DEF install_helm_chart
<1>13. CASE uninstall_helm_chart(b)
  <2>1. /\ UNCHANGED <<topology, topology_msg_queue, lock, requests>>
        /\ operations' \in Nat
    BY <1>1, <1>13 DEF uninstall_helm_chart
  <2>2. PICK k \in Cluster :
          /\ blue[b].removing[k] > 0
          /\ \/ blue' = [blue EXCEPT ![b].state = "running"] /\ UNCHANGED thread
             \/ /\ blue' = [blue EXCEPT ![b].removing[k] = @ - 1]
                /\ Begin(b, <<[call |-> "remove_blueprint", cluster |-> k, blue |-> b]>>)
    BY <1>13 DEF uninstall_helm_chart
  <2>3. blue[b].removing[k] - 1 \in Nat
    BY <1>1, <2>2 DEF BlueState
  <2>4. blue' \in [Blue -> BlueState]
    <3>1. CASE blue' = [blue EXCEPT ![b].state = "running"]
      BY <1>1, <3>1 DEF BlueState
    <3>2. CASE blue' = [blue EXCEPT ![b].removing[k] = @ - 1]
      BY <1>1, <2>3, <3>2 DEF BlueState
    <3>. QED
      BY <2>2, <3>1, <3>2
  <2>5. [call |-> "remove_blueprint", cluster |-> k, blue |-> b] \in Step
    BY DEF Step, VimStep, NetworkStep, RouterStep, PduStep, ClusterStep
  <2>6. <<[call |-> "remove_blueprint", cluster |-> k, blue |-> b]>> \in Seq(Step)
    BY <2>5
  <2>7. QED
    BY <1>3, <1>4, <2>1, <2>2, <2>4, <2>6
<1>14. CASE destroy(b)
  <2>1. blue' \in [Blue -> BlueState]
    BY <1>1, <1>14 DEF destroy, BlueState
  <2>2. QED
    BY <1>3, <1>7, <1>14, <2>1 DEF destroy
<1>15. CASE final_cleanup(b)
  <2>1. blue' \in [Blue -> BlueState]
    BY <1>1, <1>15 DEF final_cleanup, BlueState
  <2>2. QED
    BY <1>1, <1>3, <1>15, <2>1 DEF final_cleanup
<1>16. CASE find_by_name(b)
  <2>1. PICK p \in blue[b].cleaning :
          \/ /\ HasPdu(p) /\ Found(b, p)
             /\ blue' = [blue EXCEPT ![b].cleaning = @ \ {p}]
          \/ /\ UNCHANGED thread
             /\ blue' = [blue EXCEPT ![b].cleaning = @ \ {p}, ![b].lost = @ \cup {p}]
    BY <1>16 DEF find_by_name
  <2>2. p \in Pdu /\ blue' \in [Blue -> BlueState]
    <3>1. p \in Pdu
      BY <1>1 DEF BlueState
    <3>2. CASE blue' = [blue EXCEPT ![b].cleaning = @ \ {p}]
      BY <1>1, <3>1, <3>2 DEF BlueState
    <3>3. CASE blue' = [blue EXCEPT ![b].cleaning = @ \ {p}, ![b].lost = @ \cup {p}]
      BY <1>1, <3>1, <3>3 DEF BlueState
    <3>. QED
      BY <2>1, <3>1, <3>2, <3>3
  <2>3. /\ UNCHANGED <<topology, topology_msg_queue, lock, requests>>
        /\ operations' \in Nat
    BY <1>1, <1>16 DEF find_by_name
  <2>4. QED
    BY <1>3, <1>5, <2>1, <2>2, <2>3
<1>17. CASE destroyed(b)
  <2>1. blue' \in [Blue -> BlueState]
    BY <1>1, <1>17 DEF destroyed, BlueState
  <2>2. QED
    BY <1>1, <1>3, <1>17, <2>1 DEF destroyed
<1>18. QED
  BY <1>8, <1>9, <1>10, <1>11, <1>12, <1>13, <1>14, <1>15, <1>16, <1>17 DEF BlueprintStep

(***************************************************************************)
(* The topology worker's queue, and the reading of the document, keep the  *)
(* invariant: an object is built before anything is saved from it.         *)
(***************************************************************************)
LEMMA WorkerIInv ==
    ASSUME IInv,
           \/ \E request \in Requests : submit(request)
           \/ receive
           \/ \E t \in Thread : build_topology(t) \/ build_topology_raises(t)
    PROVE  IInv'
<1>1. /\ thread \in [Thread -> ThreadState] /\ blue \in [Blue -> BlueState]
      /\ topology \in Document /\ topology_msg_queue \in Seq(Seq(Step))
      /\ requests \in Nat /\ operations \in Nat /\ lock \in Thread \cup {NoThread}
      /\ TopologyWorker \in Thread
  BY DEF IInv, TypeOK, Thread
<1>2. ASSUME NEW request \in Requests, submit(request) PROVE IInv'
  <2>1. request \in Seq(Step)
    BY RequestAssumption
  <2>2. topology_msg_queue' \in Seq(Seq(Step))
    BY <1>1, <1>2, <2>1 DEF submit
  <2>3. TypeOK'
    BY <1>1, <1>2, <2>2 DEF submit, TypeOK
  <2>4. FoundInv' /\ LockInv'
    BY <1>2 DEF submit, IInv, FoundInv, LockInv
  <2>5. QED
    BY <2>3, <2>4 DEF IInv
<1>3. CASE receive
  <2>1. topology_msg_queue # <<>>
    BY <1>3 DEF receive
  <2>2. Head(topology_msg_queue) \in Seq(Step) /\ Tail(topology_msg_queue) \in Seq(Seq(Step))
    BY <1>1, <2>1
  <2> DEFINE s == Waiting("building", Head(topology_msg_queue))
  <2>3. s \in ThreadState /\ s.pc = "building" /\ ~s.saved
    BY <2>2, WaitingType
  <2>4. thread' = [thread EXCEPT ![TopologyWorker] = s]
    BY <1>3 DEF receive, Begin, Waiting
  <2> HIDE DEF s
  <2>5. thread' \in [Thread -> ThreadState] /\ FoundInv' /\ LockInv'
    BY <1>1, <1>3, <2>3, <2>4, OutsideLock DEF receive
  <2>6. TypeOK'
    BY <1>1, <1>3, <2>2, <2>5 DEF receive, TypeOK
  <2>7. QED
    BY <2>5, <2>6 DEF IInv
<1>4. ASSUME NEW t \in Thread, build_topology(t) PROVE IInv'
  <2> DEFINE s == [thread[t] EXCEPT !.pc = "editing", !.model = topology, !.base = topology]
  <2>1. ~thread[t].saved
    BY <1>4 DEF build_topology, IInv, LockInv
  <2>2. s \in ThreadState /\ s.pc = "editing" /\ ~s.saved
    BY <1>1, <2>1 DEF ThreadState
  <2>3. thread' = [thread EXCEPT ![t] = s]
    BY <1>1, <1>4 DEF build_topology
  <2> HIDE DEF s
  <2>4. thread' \in [Thread -> ThreadState] /\ FoundInv' /\ LockInv'
    BY <1>4, <2>2, <2>3, OutsideLock DEF build_topology
  <2>5. TypeOK'
    BY <1>1, <1>4, <2>4 DEF build_topology, TypeOK
  <2>6. QED
    BY <2>4, <2>5 DEF IInv
<1>5. ASSUME NEW t \in Thread, build_topology_raises(t) PROVE IInv'
  <2>1. PICK s : s = IF t = TopologyWorker THEN [Idle EXCEPT !.pc = "dead"] ELSE Idle
    OBVIOUS
  <2>2. s \in ThreadState /\ s.pc # "found" /\ ~s.saved
    BY <2>1, IdleType DEF Idle, ThreadState
  <2>3. thread' = [thread EXCEPT ![t] = s]
    BY <1>5, <2>1 DEF build_topology_raises
  <2>4. thread' \in [Thread -> ThreadState] /\ FoundInv' /\ LockInv'
    BY <1>5, <2>2, <2>3, OutsideLock DEF build_topology_raises
  <2>5. blue' \in [Blue -> BlueState]
    BY <1>1, <1>5, AbandonType DEF build_topology_raises
  <2>6. TypeOK'
    BY <1>1, <1>5, <2>4, <2>5 DEF build_topology_raises, TypeOK
  <2>7. QED
    BY <2>4, <2>6 DEF IInv
<1>6. QED
  BY <1>2, <1>3, <1>4, <1>5

(***************************************************************************)
(* Every step of the specification keeps the invariant.                    *)
(***************************************************************************)
LEMMA NextIInv == IInv /\ [Next]_vars => IInv'
<1> SUFFICES ASSUME IInv, [Next]_vars PROVE IInv'
  OBVIOUS
<1>1. CASE Next
  <2>1. \/ \E request \in Requests : submit(request)
        \/ receive
        \/ \E t \in Thread : build_topology(t) \/ build_topology_raises(t)
        \/ \E t \in Thread : Edit(t)
        \/ \E b \in Blue : BlueprintStep(b)
    BY <1>1 DEF Next, Progress
  <2>2. QED
    BY <2>1, WorkerIInv, EditIInv, BlueprintIInv
<1>2. CASE UNCHANGED vars
  BY <1>2 DEF vars, IInv, TypeOK, FoundInv, LockInv
<1>3. QED
  BY <1>1, <1>2

(***************************************************************************)
(* The inductive invariant holds in every reachable state.                 *)
(***************************************************************************)
THEOREM Invariance == Spec => []IInv
  BY InitIInv, NextIInv, PTL DEF Spec

(***************************************************************************)
(* Type correctness, for every set of threads, requests and entries:       *)
(* documents stay well formed through all operations, and the count of     *)
(* charts in deployed_blueprints never falls below zero.                   *)
(***************************************************************************)
THEOREM TypeCorrect == Spec => []TypeOK
<1>1. IInv => TypeOK
  BY DEF IInv
<1>2. QED
  BY <1>1, Invariance, PTL

(***************************************************************************)
(* obj_multiprocess_lock, for every number of threads: between the saves   *)
(* of one operation (create, delete, update_vim) no other thread changes   *)
(* the document.                                                           *)
(***************************************************************************)
THEOREM OneOperation == Spec => []OneOperationAtATime
<1>1. IInv => OneOperationAtATime
  BY DEF IInv, LockInv, OneOperationAtATime
<1>2. QED
  BY <1>1, Invariance, PTL

(***************************************************************************)
(* A blueprint that works alone on the topology.                           *)
(***************************************************************************)

\* What a blueprint calls on its own account, one call at a time.
OwnCalls == {"add_pdu", "del_pdu", "add_k8scluster", "del_k8scluster"}

\* One blueprint alone works on a topology that had nothing locked or deployed
\* when the process started.
SoleBlueprint ==
    /\ Requests = {} /\ \A b, c \in Blue : b = c
    /\ \A b \in Blue : \A todo \in OwnOperations[b] : \E s \in Step : todo = <<s>> /\ s.call \in OwnCalls
    /\ InitialTopology # NoTopology =>
          /\ \A p \in Pdu : InitialTopology.locked_by[p] = NoBlue
          /\ \A k \in Cluster, b \in Blue : InitialTopology.deployed_blueprints[k][b] = 0

\* Without requests the topology worker has nothing to do.
WorkerInv == topology_msg_queue = <<>> /\ thread[TopologyWorker].pc = "idle"

\* Document m holds the default for PDUs that are not there.
Defaults(m) == \A p \in Pdu \ m.pdus : m.locked_by[p] = NoBlue

\* What document m holds for blueprint b, against b's own data e: the PDUs locked
\* in its name it knows, but for those in U, and each cluster lists it at most once
\* per chart, with one entry to come for the clusters in A.
Held(m, b) == {p \in m.pdus : m.locked_by[p] = b}
LocksKnown(m, b, e, U) == Held(m, b) \subseteq e.locked_pdus \cup e.lost \cup U
ChartsKnown(m, b, e, A) ==
    \A k \in Cluster : m.deployed_blueprints[k][b] + (IF k \in A THEN 1 ELSE 0) <= e.charts[k]

\* The same for what destroy has still to undo: one entry of the clusters in R and
\* the PDUs in U are not counted among removing and cleaning any more.
ChartsLeft(m, b, e, R) ==
    e.state # "running" =>
        \A k \in Cluster : m.deployed_blueprints[k][b] <= e.removing[k] + (IF k \in R THEN 1 ELSE 0)
LocksLeft(m, b, e, U) ==
    e.state \in {"cleaning", "destroyed"} => Held(m, b) \subseteq e.cleaning \cup e.lost \cup U

\* How far the destruction has come.
CleanUp(e, pc) ==
    /\ e.state \in {"cleaning", "destroyed"} => \A k \in Cluster : e.removing[k] = 0
    /\ e.state = "destroyed" => pc = "idle" /\ e.cleaning = {}

\* Nothing is under way.
Agrees(m, b, e) ==
    /\ LocksKnown(m, b, e, {}) /\ ChartsKnown(m, b, e, {})
    /\ ChartsLeft(m, b, e, {}) /\ LocksLeft(m, b, e, {})

\* The step s is under way.
Outstanding(m, b, e, s) ==
    \/ s.call \in OwnCalls /\ e.state = "running" /\ Agrees(m, b, e)
    \/ /\ s.call = "upd_pdu" /\ s.locked_by = b
       /\ e.state = "running" /\ s.pdu \in e.locked_pdus /\ Agrees(m, b, e)
    \/ /\ s.call = "upd_pdu" /\ s.locked_by = NoBlue
       /\ LocksKnown(m, b, e, {s.pdu}) /\ ChartsKnown(m, b, e, {})
       /\ ChartsLeft(m, b, e, {}) /\ LocksLeft(m, b, e, {s.pdu})
    \/ /\ s.call = "append_blueprint" /\ s.blue = b /\ e.state = "running"
       /\ LocksKnown(m, b, e, {}) /\ ChartsKnown(m, b, e, {s.cluster})
    \/ /\ s.call = "remove_blueprint" /\ s.blue = b /\ e.state = "destroying"
       /\ LocksKnown(m, b, e, {}) /\ ChartsKnown(m, b, e, {})
       /\ ChartsLeft(m, b, e, {s.cluster})

\* A PDU has been found: the thread holds it as the document has it.
FoundAgrees(m, b, e, s) ==
    /\ s.pdu \in m.pdus /\ s.locked_by = m.locked_by[s.pdu]
    /\ LocksKnown(m, b, e, {}) /\ ChartsKnown(m, b, e, {})
    /\ ChartsLeft(m, b, e, {}) /\ LocksLeft(m, b, e, {s.pdu})

\* A thread works on the document m as it is, one call at a time.
SingleCalls == OwnCalls \cup {"upd_pdu", "append_blueprint", "remove_blueprint"}
SingleCall(m, th) ==
    /\ th.pc \in {"building", "editing"} => \E s \in Step : th.todo = <<s>> /\ s.call \in SingleCalls
    /\ th.pc = "editing" => th.model = m

\* The blueprint's thread in state th, its data e and the document m.
ThreadAgrees(m, b, e, th) ==
    /\ CleanUp(e, th.pc)
    /\ th.pc = "idle" => Agrees(m, b, e)
    /\ th.pc = "found" => \E s \in Step : th.todo = <<s>> /\ FoundAgrees(m, b, e, s)
    /\ th.pc \in {"building", "editing"} => \E s \in Step : th.todo = <<s>> /\ Outstanding(m, b, e, s)

Agreement ==
    /\ \A b \in Blue : thread[b].pc # "dead" /\ SingleCall(topology, thread[b])
    /\ topology # NoTopology =>
         Defaults(topology) /\ \A b \in Blue : ThreadAgrees(topology, b, blue[b], thread[b])

\* A step of a blueprint's thread leaves the other threads and the queue alone.
LEMMA OthersStay ==
    ASSUME IInv, NEW t \in Thread,
           \/ build_topology(t) \/ build_topology_raises(t) \/ Edit(t)
           \/ t \in Blue /\ BlueprintStep(t)
    PROVE  /\ topology_msg_queue' = topology_msg_queue
           /\ \A u \in Thread \ {t} : thread'[u] = thread[u]
<1>1. thread \in [Thread -> ThreadState]
  BY DEF IInv, TypeOK
<1>2. ASSUME NEW s, thread' = [thread EXCEPT ![t] = s]
      PROVE  \A u \in Thread \ {t} : thread'[u] = thread[u]
  BY <1>1, <1>2
<1>3. CASE build_topology(t) \/ build_topology_raises(t)
  BY <1>1, <1>3 DEF build_topology, build_topology_raises
<1>4. CASE Edit(t)
  <2>1. Outcome(t) /\ UNCHANGED topology_msg_queue
    BY <1>4, EditOutcome DEF IInv
  <2>. QED
    BY <1>1, <2>1 DEF Outcome, Raise, Leave, Keep, SaveTopology, Plan
<1>5. CASE t \in Blue /\ BlueprintStep(t)
  <2>1. UNCHANGED topology_msg_queue
    BY <1>5 DEF BlueprintStep, own_operation, find_pdu, lock_pdu, unlock_pdu, install_helm_chart,
       uninstall_helm_chart, destroy, final_cleanup, find_by_name, destroyed, Start
  <2>2. UNCHANGED thread \/ \E s : thread' = [thread EXCEPT ![t] = s]
    BY <1>5 DEF BlueprintStep, own_operation, find_pdu, lock_pdu, unlock_pdu, install_helm_chart,
       uninstall_helm_chart, destroy, final_cleanup, find_by_name, destroyed, Begin, Found
  <2>. QED
    BY <1>1, <2>1, <2>2
<1>. QED
  BY <1>3, <1>4, <1>5

\* Only the blueprint's thread ever works.
LEMMA WorkerRests ==
    ASSUME IInv, SoleBlueprint, WorkerInv, [Next]_vars
    PROVE  WorkerInv'
<1>1. ~(\E request \in Requests : submit(request)) /\ ~receive
  BY DEF SoleBlueprint, WorkerInv, receive
<1>2. TopologyWorker \in Thread /\ TopologyWorker \notin Blue /\ Blue \subseteq Thread
  BY NullAssumption DEF Thread
<1>3. ASSUME NEW t \in Thread, Progress(t) PROVE WorkerInv'
  <2>1. build_topology(t) \/ build_topology_raises(t) \/ Edit(t)
    BY <1>3 DEF Progress
  <2>2. Edit(t) => InsideLock(t)
    BY EditOutcome DEF IInv
  <2>3. t # TopologyWorker
    BY <2>1, <2>2 DEF WorkerInv, build_topology, build_topology_raises, InsideLock
  <2>. QED
    BY <1>2, <2>1, <2>3, OthersStay DEF WorkerInv
<1>4. ASSUME NEW b \in Blue, BlueprintStep(b) PROVE WorkerInv'
  <2>1. b \in Thread /\ b # TopologyWorker
    BY <1>2
  <2>. QED
    BY <1>2, <1>4, <2>1, OthersStay DEF WorkerInv
<1>5. CASE UNCHANGED vars
  BY <1>5 DEF vars, WorkerInv
<1>. QED
  BY <1>1, <1>3, <1>4, <1>5 DEF Next

\* A step that leaves the document alone has to be right about its blueprint only.
LEMMA AgreementFrame ==
    ASSUME SoleBlueprint, Agreement, NEW b \in Blue, NEW th, NEW e,
           thread'[b] = th, blue'[b] = e, topology' = topology, th.pc # "dead", SingleCall(topology, th),
           topology # NoTopology => ThreadAgrees(topology, b, e, th)
    PROVE  Agreement'
  BY DEF SoleBlueprint, Agreement

\* The thread of the blueprint and what it knows.
LEMMA BlueParts ==
    ASSUME IInv, Agreement, NEW b \in Blue
    PROVE  /\ b \in Thread /\ thread[b] \in ThreadState /\ blue[b] \in BlueState
           /\ SingleCall(topology, thread[b])
           /\ topology # NoTopology => /\ ThreadAgrees(topology, b, blue[b], thread[b])
                                       /\ Defaults(topology) /\ topology \in TopologyModel
  BY DEF IInv, TypeOK, Agreement, Thread, Document

\* A thread with one call ahead of it.
LEMMA BeginsOne ==
    ASSUME IInv, NEW b \in Blue, NEW todo, NEW s \in Step, todo = <<s>>, Begin(b, todo), s.call \in SingleCalls
    PROVE  \E th : thread'[b] = th /\ th.pc = "building" /\ th.todo = <<s>> /\ SingleCall(topology, th)
<1>1. PICK th : th = Waiting("building", todo)
  OBVIOUS
<1>2. th.pc = "building" /\ th.todo = todo
  BY <1>1 DEF Waiting, Idle
<1>3. thread'[b] = th
  BY <1>1 DEF Begin, Waiting, IInv, TypeOK, Thread
<1>. QED
  BY <1>2, <1>3 DEF SingleCall

\* The blueprint adds and deletes PDUs and clusters of its own.
LEMMA OwnAgrees ==
    ASSUME IInv, SoleBlueprint, Agreement, NEW b \in Blue, own_operation(b)
    PROVE  Agreement'
<1>1. PICK todo \in OwnOperations[b] : Begin(b, todo)
  BY DEF own_operation
<1>2. PICK s \in Step : todo = <<s>> /\ s.call \in OwnCalls
  BY <1>1 DEF SoleBlueprint
<1>3. PICK th : thread'[b] = th /\ th.pc = "building" /\ th.todo = <<s>> /\ SingleCall(topology, th)
  BY <1>1, <1>2, BeginsOne DEF SingleCalls
<1>4. thread[b].pc = "idle" /\ blue[b].state = "running" /\ UNCHANGED <<topology, blue>>
  BY DEF own_operation, Start, AtRest
<1>5. PICK e : e = blue[b]
  OBVIOUS
<1>6. topology # NoTopology => ThreadAgrees(topology, b, e, th)
  BY <1>2, <1>3, <1>4, <1>5, BlueParts DEF ThreadAgrees, CleanUp, Outstanding
<1>. QED
  BY <1>3, <1>4, <1>5, <1>6, AgreementFrame

\* find_pdu and find_by_name return the PDU as the document has it.
LEMMA FoundOne ==
    ASSUME IInv, NEW b \in Blue, NEW p \in Pdu, HasPdu(p), Found(b, p)
    PROVE  \E th : /\ thread'[b] = th /\ th.pc = "found" /\ SingleCall(topology, th)
                   /\ \E s \in Step : th.todo = <<s>> /\ s.pdu = p /\ s.locked_by = topology.locked_by[p]
<1>1. PICK r : r = [call |-> "upd_pdu", pdu |-> p, locked_by |-> topology.locked_by[p]]
  OBVIOUS
<1>2. PICK th : th = Waiting("found", <<r>>)
  OBVIOUS
<1>3. th.pc = "found" /\ th.todo = <<r>>
  BY <1>2 DEF Waiting, Idle
<1>4. thread'[b] = th
  BY <1>1, <1>2 DEF Found, Waiting, IInv, TypeOK, Thread
<1>5. topology.locked_by[p] \in Blue \cup {NoBlue}
  BY DEF HasPdu, IInv, TypeOK, Document, TopologyModel
<1>6. r \in Step /\ r.pdu = p /\ r.locked_by = topology.locked_by[p]
  BY <1>1, <1>5 DEF Step, VimStep, NetworkStep, RouterStep, PduStep, ClusterStep
<1>. QED
  BY <1>3, <1>4, <1>6 DEF SingleCall

LEMMA FindAgrees ==
    ASSUME IInv, SoleBlueprint, Agreement, NEW b \in Blue, find_pdu(b)
    PROVE  Agreement'
<1>1. PICK p \in Pdu : HasPdu(p) /\ Found(b, p)
  BY DEF find_pdu
<1>2. PICK th : /\ thread'[b] = th /\ th.pc = "found" /\ SingleCall(topology, th)
                /\ \E s \in Step : th.todo = <<s>> /\ s.pdu = p /\ s.locked_by = topology.locked_by[p]
  BY <1>1, FoundOne
<1>3. thread[b].pc = "idle" /\ blue[b].state = "running" /\ UNCHANGED <<topology, blue>>
  BY DEF find_pdu, Start, AtRest
<1>4. PICK e : e = blue[b]
  OBVIOUS
<1>5. ASSUME topology # NoTopology PROVE ThreadAgrees(topology, b, e, th)
  <2>1. Agrees(topology, b, e)
    BY <1>3, <1>4, <1>5, BlueParts DEF ThreadAgrees
  <2>2. \E s \in Step : th.todo = <<s>> /\ FoundAgrees(topology, b, e, s)
    BY <1>1, <1>2, <1>3, <1>4, <2>1 DEF FoundAgrees, Agrees, LocksLeft, HasPdu
  <2>. QED
    BY <1>2, <1>3, <1>4, <2>2 DEF ThreadAgrees, CleanUp
<1>. QED
  BY <1>2, <1>3, <1>4, <1>5, AgreementFrame

\* The PDU that lock_pdu and unlock_pdu find.
LEMMA FoundParts ==
    ASSUME IInv, Agreement, NEW b \in Blue, thread[b].pc = "found"
    PROVE  /\ PduModel(b).pdu \in Pdu
           /\ \A l \in Blue \cup {NoBlue} : \E s \in Step :
                 s = [PduModel(b) EXCEPT !.locked_by = l] /\ s.call = "upd_pdu" /\ s.pdu = PduModel(b).pdu /\ s.locked_by = l
           /\ topology # NoTopology => FoundAgrees(topology, b, blue[b], PduModel(b))
<1>1. b \in Thread
  BY DEF Thread
<1>2. PICK p \in Pdu, x \in Blue \cup {NoBlue} :
         thread[b].todo = <<[call |-> "upd_pdu", pdu |-> p, locked_by |-> x]>>
  BY <1>1 DEF IInv, FoundInv
<1>3. PICK r : r = [call |-> "upd_pdu", pdu |-> p, locked_by |-> x]
  OBVIOUS
<1>4. PduModel(b) = r /\ r.pdu = p /\ thread[b].todo = <<r>>
  BY <1>2, <1>3 DEF PduModel
<1>5. ASSUME NEW l \in Blue \cup {NoBlue}
      PROVE  \E s \in Step : s = [r EXCEPT !.locked_by = l] /\ s.call = "upd_pdu" /\ s.pdu = p /\ s.locked_by = l
  <2>1. PICK s : s = [call |-> "upd_pdu", pdu |-> p, locked_by |-> l]
    OBVIOUS
  <2>2. s \in [call : {"upd_pdu"}, pdu : Pdu, locked_by : Blue \cup {NoBlue}]
    BY <2>1
  <2>3. s \in Step
    BY <2>2 DEF Step, VimStep, NetworkStep, RouterStep, PduStep, ClusterStep
  <2>4. s = [r EXCEPT !.locked_by = l]
    BY <1>3, <2>1
  <2>. QED
    BY <2>1, <2>3, <2>4
<1>6. ASSUME topology # NoTopology PROVE FoundAgrees(topology, b, blue[b], r)
  <2>1. PICK s \in Step : thread[b].todo = <<s>> /\ FoundAgrees(topology, b, blue[b], s)
    BY <1>6, BlueParts DEF ThreadAgrees
  <2>2. s = r
    BY <1>4, <2>1
  <2>. QED
    BY <2>1, <2>2
<1>. QED
  BY <1>4, <1>5, <1>6

\* A call that is given up leaves the thread idle and everything else as it was:
\* the PDU that was found is not one that only its unlocking accounts for.
LEMMA GivenUpAgrees ==
    ASSUME IInv, SoleBlueprint, Agreement, NEW b \in Blue, thread[b].pc = "found",
           thread' = [thread EXCEPT ![b] = Idle], UNCHANGED <<topology, blue>>,
           topology # NoTopology /\ blue[b].state = "cleaning" =>
               PduModel(b).pdu \notin Held(topology, b) \/ PduModel(b).pdu \in blue[b].lost
    PROVE  Agreement'
<1>1. thread'[b] = Idle /\ Idle.pc = "idle"
  BY IdleType, BlueParts DEF IInv, TypeOK
<1>2. PICK th, e : th = Idle /\ e = blue[b]
  OBVIOUS
<1>3. th.pc = "idle" /\ SingleCall(topology, th)
  BY <1>1, <1>2 DEF SingleCall
<1>4. ASSUME topology # NoTopology PROVE ThreadAgrees(topology, b, e, th)
  <2>1. FoundAgrees(topology, b, e, PduModel(b)) /\ CleanUp(e, "found")
    BY <1>2, <1>4, FoundParts, BlueParts DEF ThreadAgrees
  <2>2. LocksLeft(topology, b, e, {})
    BY <1>2, <1>4, <2>1 DEF FoundAgrees, LocksLeft, CleanUp
  <2>. QED
    BY <1>3, <2>1, <2>2 DEF ThreadAgrees, FoundAgrees, Agrees, CleanUp
<1>. QED
  BY <1>1, <1>2, <1>3, <1>4, AgreementFrame

\* The provider data are told before the topology.
LEMMA LockAgrees ==
    ASSUME IInv, SoleBlueprint, Agreement, NEW b \in Blue, lock_pdu(b)
    PROVE  Agreement'
<1>1. thread[b].pc = "found" /\ blue[b].state = "running" /\ UNCHANGED topology
  BY DEF lock_pdu
<1>2. CASE thread' = [thread EXCEPT ![b] = Idle] /\ UNCHANGED blue
  BY <1>1, <1>2, GivenUpAgrees
<1>3. CASE /\ blue' = [blue EXCEPT ![b].locked_pdus = @ \cup {PduModel(b).pdu}]
           /\ Begin(b, <<[PduModel(b) EXCEPT !.locked_by = b]>>)
  <2>1. PICK s \in Step : /\ s = [PduModel(b) EXCEPT !.locked_by = b] /\ s.call = "upd_pdu"
                          /\ s.pdu = PduModel(b).pdu /\ s.locked_by = b
    BY <1>1, FoundParts
  <2>2. PICK todo : todo = <<s>> /\ Begin(b, todo)
    BY <1>3, <2>1
  <2>3. PICK th : thread'[b] = th /\ th.pc = "building" /\ th.todo = <<s>> /\ SingleCall(topology, th)
    BY <2>1, <2>2, BeginsOne DEF SingleCalls
  <2>4. PICK o \in BlueState : o = blue[b]
    BY BlueParts
  <2>5. PICK e : e = [o EXCEPT !.locked_pdus = @ \cup {s.pdu}]
    OBVIOUS
  <2>6. blue'[b] = e
    BY <1>3, <2>1, <2>4, <2>5 DEF IInv, TypeOK
  <2>7. e.locked_pdus = o.locked_pdus \cup {s.pdu} /\ e.charts = o.charts /\ e.lost = o.lost /\ e.state = "running"
    BY <1>1, <2>4, <2>5 DEF BlueState
  <2>8. ASSUME topology # NoTopology PROVE ThreadAgrees(topology, b, e, th)
    <3>1. LocksKnown(topology, b, o, {}) /\ ChartsKnown(topology, b, o, {})
      BY <1>1, <2>4, <2>8, FoundParts DEF FoundAgrees
    <3>2. Agrees(topology, b, e)
      BY <2>7, <3>1 DEF Agrees, LocksKnown, ChartsKnown, ChartsLeft, LocksLeft
    <3>. QED
      BY <2>1, <2>3, <2>7, <3>2 DEF ThreadAgrees, CleanUp, Outstanding
  <2>. QED
    BY <1>1, <2>3, <2>6, <2>8, AgreementFrame
<1>. QED
  BY <1>2, <1>3 DEF lock_pdu

\* Until the topology is told, the call itself accounts for the PDU.
LEMMA UnlockAgrees ==
    ASSUME IInv, SoleBlueprint, Agreement, NEW b \in Blue, unlock_pdu(b)
    PROVE  Agreement'
<1>1. thread[b].pc = "found" /\ UNCHANGED topology
  BY DEF unlock_pdu
<1>2. PICK p \in Pdu : p = PduModel(b).pdu
  BY <1>1, FoundParts
<1>3. PICK o \in BlueState : o = blue[b]
  BY BlueParts
<1>4. topology # NoTopology => FoundAgrees(topology, b, o, PduModel(b)) /\ CleanUp(o, "found")
  BY <1>1, <1>3, BlueParts, FoundParts DEF ThreadAgrees
<1>5. CASE /\ ~(PduModel(b).locked_by = b /\ p \in o.locked_pdus)
           /\ thread' = [thread EXCEPT ![b] = Idle] /\ UNCHANGED blue
  <2>1. topology # NoTopology => p \notin Held(topology, b) \/ p \in o.lost
    BY <1>2, <1>4, <1>5 DEF FoundAgrees, Held, LocksKnown
  <2>. QED
    BY <1>1, <1>2, <1>3, <1>5, <2>1, GivenUpAgrees
<1>6. CASE /\ blue' = [blue EXCEPT ![b].locked_pdus = @ \ {p}]
           /\ Begin(b, <<[PduModel(b) EXCEPT !.locked_by = NoBlue]>>)
  <2>1. PICK s \in Step : /\ s = [PduModel(b) EXCEPT !.locked_by = NoBlue] /\ s.call = "upd_pdu"
                          /\ s.pdu = p /\ s.locked_by = NoBlue
    <3>1. PICK l \in Blue \cup {NoBlue} : l = NoBlue
      OBVIOUS
    <3>2. PICK s \in Step : /\ s = [PduModel(b) EXCEPT !.locked_by = l] /\ s.call = "upd_pdu"
                            /\ s.pdu = PduModel(b).pdu /\ s.locked_by = l
      BY <1>1, FoundParts
    <3>. QED
      BY <1>2, <3>1, <3>2
  <2>2. PICK todo : todo = <<s>> /\ Begin(b, todo)
    BY <1>6, <2>1
  <2>3. PICK th : thread'[b] = th /\ th.pc = "building" /\ th.todo = <<s>> /\ SingleCall(topology, th)
    BY <2>1, <2>2, BeginsOne DEF SingleCalls
  <2>4. PICK e : e = [o EXCEPT !.locked_pdus = @ \ {p}]
    OBVIOUS
  <2>5. blue'[b] = e
    BY <1>3, <1>6, <2>4 DEF IInv, TypeOK
  <2>6. /\ e.locked_pdus = o.locked_pdus \ {p} /\ e.charts = o.charts /\ e.lost = o.lost /\ e.state = o.state
        /\ e.removing = o.removing /\ e.cleaning = o.cleaning
    BY <1>3, <2>4 DEF BlueState
  <2>7. ASSUME topology # NoTopology PROVE ThreadAgrees(topology, b, e, th)
    <3>1. FoundAgrees(topology, b, o, PduModel(b)) /\ CleanUp(o, "found")
      BY <1>4, <2>7
    <3>2. LocksKnown(topology, b, e, {s.pdu}) /\ LocksLeft(topology, b, e, {s.pdu})
      BY <1>2, <2>1, <2>6, <3>1 DEF FoundAgrees, LocksKnown, LocksLeft
    <3>3. ChartsKnown(topology, b, e, {}) /\ ChartsLeft(topology, b, e, {})
      BY <2>6, <3>1 DEF FoundAgrees, ChartsKnown, ChartsLeft
    <3>4. Outstanding(topology, b, e, s)
      BY <2>1, <3>2, <3>3 DEF Outstanding
    <3>. QED
      BY <2>3, <2>6, <3>1, <3>4 DEF ThreadAgrees, CleanUp
  <2>. QED
    BY <1>1, <2>3, <2>5, <2>7, AgreementFrame
<1>. QED
  BY <1>2, <1>3, <1>5, <1>6 DEF unlock_pdu

\* A chart is registered before the topology is told, if it is told at all.
LEMMA InstallAgrees ==
    ASSUME IInv, SoleBlueprint, Agreement, NEW b \in Blue, install_helm_chart(b)
    PROVE  Agreement'
<1>1. PICK k \in Cluster :
         /\ blue' = [blue EXCEPT ![b].charts[k] = @ + 1]
         /\ \/ Begin(b, <<[call |-> "append_blueprint", cluster |-> k, blue |-> b]>>)
            \/ UNCHANGED thread
  BY DEF install_helm_chart
<1>2. thread[b].pc = "idle" /\ blue[b].state = "running" /\ UNCHANGED topology
  BY DEF install_helm_chart, Start, AtRest
<1>3. PICK s : s = [call |-> "append_blueprint", cluster |-> k, blue |-> b]
  OBVIOUS
<1>4. s \in Step /\ s.call = "append_blueprint" /\ s.cluster = k /\ s.blue = b
  BY <1>3 DEF Step, VimStep, NetworkStep, RouterStep, PduStep, ClusterStep
<1>7. PICK o \in BlueState : o = blue[b]
  BY BlueParts
<1>8. PICK e : e = [o EXCEPT !.charts[k] = @ + 1]
  OBVIOUS
<1>9. blue'[b] = e
  BY <1>1, <1>7, <1>8 DEF IInv, TypeOK
<1>10. /\ e.locked_pdus = o.locked_pdus /\ e.lost = o.lost /\ e.state = "running"
       /\ \A j \in Cluster : o.charts[j] \in Nat /\ e.charts[j] = o.charts[j] + (IF j = k THEN 1 ELSE 0)
  BY <1>2, <1>7, <1>8 DEF BlueState
<1>11. ASSUME topology # NoTopology
       PROVE  /\ LocksKnown(topology, b, e, {}) /\ ChartsKnown(topology, b, e, {k})
              /\ Agrees(topology, b, e)
  <2>1. LocksKnown(topology, b, o, {}) /\ ChartsKnown(topology, b, o, {}) /\ topology \in TopologyModel
    BY <1>2, <1>7, <1>11, BlueParts DEF ThreadAgrees, Agrees
  <2>2. LocksKnown(topology, b, e, {})
    BY <1>10, <2>1 DEF LocksKnown
  <2>3. \A j \in Cluster : topology.deployed_blueprints[j][b] \in Nat
    BY <2>1 DEF TopologyModel
  <2>4. ChartsKnown(topology, b, e, {k}) /\ ChartsKnown(topology, b, e, {})
    BY <1>10, <2>1, <2>3 DEF ChartsKnown
  <2>. QED
    BY <1>10, <2>2, <2>4 DEF Agrees, ChartsLeft, LocksLeft
<1>12. CASE Begin(b, <<[call |-> "append_blueprint", cluster |-> k, blue |-> b]>>)
  <2>1. PICK todo : todo = <<s>> /\ Begin(b, todo)
    BY <1>3, <1>12
  <2>2. PICK th : thread'[b] = th /\ th.pc = "building" /\ th.todo = <<s>> /\ SingleCall(topology, th)
    BY <1>4, <2>1, BeginsOne DEF SingleCalls
  <2>3. topology # NoTopology => ThreadAgrees(topology, b, e, th)
    BY <1>4, <1>10, <1>11, <2>2 DEF ThreadAgrees, CleanUp, Outstanding
  <2>. QED
    BY <1>2, <1>9, <2>2, <2>3, AgreementFrame
<1>13. CASE UNCHANGED thread
  <2>1. PICK th : th = thread[b] /\ th.pc = "idle" /\ SingleCall(topology, th)
    BY <1>2, BlueParts
  <2>2. topology # NoTopology => ThreadAgrees(topology, b, e, th)
    BY <1>10, <1>11, <2>1 DEF ThreadAgrees, CleanUp
  <2>. QED
    BY <1>2, <1>9, <1>13, <2>1, <2>2, AgreementFrame
<1>. QED
  BY <1>1, <1>12, <1>13

\* destroy counts a chart as removed when the topology is still to be told.
LEMMA UninstallAgrees ==
    ASSUME IInv, SoleBlueprint, Agreement, NEW b \in Blue, uninstall_helm_chart(b)
    PROVE  Agreement'
<1>1. PICK k \in Cluster :
         /\ blue[b].removing[k] > 0
         /\ \/ blue' = [blue EXCEPT ![b].state = "running"] /\ UNCHANGED thread
            \/ /\ blue' = [blue EXCEPT ![b].removing[k] = @ - 1]
               /\ Begin(b, <<[call |-> "remove_blueprint", cluster |-> k, blue |-> b]>>)
  BY DEF uninstall_helm_chart
<1>2. thread[b].pc = "idle" /\ blue[b].state = "destroying" /\ UNCHANGED topology
  BY DEF uninstall_helm_chart, AtRest
<1>3. PICK s : s = [call |-> "remove_blueprint", cluster |-> k, blue |-> b]
  OBVIOUS
<1>4. s \in Step /\ s.call = "remove_blueprint" /\ s.cluster = k /\ s.blue = b
  BY <1>3 DEF Step, VimStep, NetworkStep, RouterStep, PduStep, ClusterStep
<1>5. PICK o \in BlueState : o = blue[b]
  BY BlueParts
<1>6. topology # NoTopology => Agrees(topology, b, o) /\ topology \in TopologyModel
  BY <1>2, <1>5, BlueParts DEF ThreadAgrees
<1>7. CASE blue' = [blue EXCEPT ![b].state = "running"] /\ UNCHANGED thread
  <2>1. PICK e : e = [o EXCEPT !.state = "running"]
    OBVIOUS
  <2>2. blue'[b] = e
    BY <1>5, <1>7, <2>1 DEF IInv, TypeOK
  <2>3. e.locked_pdus = o.locked_pdus /\ e.lost = o.lost /\ e.charts = o.charts /\ e.state = "running"
    BY <2>1 DEF BlueState
  <2>4. PICK th : th = thread[b] /\ th.pc = "idle" /\ SingleCall(topology, th)
    BY <1>2, BlueParts
  <2>5. topology # NoTopology => ThreadAgrees(topology, b, e, th)
    BY <1>6, <2>3, <2>4 DEF ThreadAgrees, CleanUp, Agrees, LocksKnown, ChartsKnown, ChartsLeft, LocksLeft
  <2>. QED
    BY <1>2, <1>7, <2>2, <2>4, <2>5, AgreementFrame
<1>8. CASE /\ blue' = [blue EXCEPT ![b].removing[k] = @ - 1]
           /\ Begin(b, <<[call |-> "remove_blueprint", cluster |-> k, blue |-> b]>>)
  <2>1. PICK todo : todo = <<s>> /\ Begin(b, todo)
    BY <1>3, <1>8
  <2>2. PICK th : thread'[b] = th /\ th.pc = "building" /\ th.todo = <<s>> /\ SingleCall(topology, th)
    BY <1>4, <2>1, BeginsOne DEF SingleCalls
  <2>3. PICK e : e = [o EXCEPT !.removing[k] = @ - 1]
    OBVIOUS
  <2>4. blue'[b] = e
    BY <1>5, <1>8, <2>3 DEF IInv, TypeOK
  <2>5. /\ e.locked_pdus = o.locked_pdus /\ e.lost = o.lost /\ e.charts = o.charts /\ e.state = "destroying"
        /\ \A j \in Cluster : o.removing[j] \in Nat /\ o.removing[j] = e.removing[j] + (IF j = k THEN 1 ELSE 0)
    BY <1>2, <1>5, <2>3 DEF BlueState
  <2>6. ASSUME topology # NoTopology PROVE ThreadAgrees(topology, b, e, th)
    <3>1. LocksKnown(topology, b, e, {}) /\ ChartsKnown(topology, b, e, {})
      BY <1>6, <2>5, <2>6 DEF Agrees, LocksKnown, ChartsKnown
    <3>2. ChartsLeft(topology, b, o, {}) /\ o.state = "destroying"
      BY <1>2, <1>5, <1>6, <2>6 DEF Agrees
    <3>3. \A j \in Cluster : topology.deployed_blueprints[j][b] \in Nat
      BY <1>6, <2>6 DEF TopologyModel
    <3>4. ChartsLeft(topology, b, e, {k})
      BY <2>5, <3>2, <3>3 DEF ChartsLeft
    <3>. QED
      BY <1>4, <2>2, <2>5, <3>1, <3>4 DEF ThreadAgrees, CleanUp, Outstanding
  <2>. QED
    BY <1>2, <2>2, <2>4, <2>6, AgreementFrame
<1>. QED
  BY <1>1, <1>7, <1>8

\* destroy sets out with every registered chart, final_cleanup with every PDU of the
\* provider data, when no chart is left.
LEMMA DestroyAgrees ==
    ASSUME IInv, SoleBlueprint, Agreement, NEW b \in Blue,
           destroy(b) \/ final_cleanup(b) \/ destroyed(b)
    PROVE  Agreement'
<1>1. PICK o \in BlueState : o = blue[b]
  BY BlueParts
<1>2. thread[b].pc = "idle" /\ UNCHANGED <<topology, thread>>
  BY DEF destroy, final_cleanup, destroyed, Start, AtRest
<1>3. PICK th : th = thread[b] /\ th.pc = "idle" /\ SingleCall(topology, th)
  BY <1>2, BlueParts
<1>4. topology # NoTopology => Agrees(topology, b, o) /\ CleanUp(o, "idle") /\ topology \in TopologyModel
  BY <1>1, <1>2, BlueParts DEF ThreadAgrees
<1>5. ASSUME NEW e, blue'[b] = e, e.charts = o.charts, e.locked_pdus = o.locked_pdus, e.lost = o.lost,
             topology # NoTopology => /\ CleanUp(e, "idle") /\ ChartsLeft(topology, b, e, {})
                                      /\ LocksLeft(topology, b, e, {})
      PROVE  Agreement'
  <2>1. topology # NoTopology => ThreadAgrees(topology, b, e, th)
    BY <1>3, <1>4, <1>5 DEF ThreadAgrees, Agrees, LocksKnown, ChartsKnown
  <2>. QED
    BY <1>2, <1>3, <1>5, <2>1, AgreementFrame
<1>6. CASE destroy(b)
  <2>1. PICK e : e = [o EXCEPT !.state = "destroying", !.removing = o.charts]
    OBVIOUS
  <2>2. /\ blue'[b] = e /\ e.charts = o.charts /\ e.locked_pdus = o.locked_pdus /\ e.lost = o.lost
        /\ e.state = "destroying" /\ e.removing = o.charts
    BY <1>1, <1>6, <2>1 DEF destroy, IInv, TypeOK, BlueState
  <2>3. ASSUME topology # NoTopology PROVE ChartsLeft(topology, b, e, {})
    <3>1. \A k \in Cluster : topology.deployed_blueprints[k][b] \in Nat /\ o.charts[k] \in Nat
      BY <1>4, <2>3 DEF TopologyModel, BlueState
    <3>. QED
      BY <1>4, <2>2, <2>3, <3>1 DEF Agrees, ChartsKnown, ChartsLeft
  <2>. QED
    BY <1>5, <2>2, <2>3 DEF CleanUp, LocksLeft
<1>7. CASE final_cleanup(b)
  <2>1. PICK e : e = [o EXCEPT !.state = "cleaning", !.cleaning = o.locked_pdus]
    OBVIOUS
  <2>2. /\ blue'[b] = e /\ e.charts = o.charts /\ e.locked_pdus = o.locked_pdus /\ e.lost = o.lost
        /\ e.state = "cleaning" /\ e.cleaning = o.locked_pdus /\ e.removing = o.removing
    BY <1>1, <1>7, <2>1 DEF final_cleanup, IInv, TypeOK, BlueState
  <2>3. o.state = "destroying" /\ \A k \in Cluster : o.removing[k] = 0
    BY <1>1, <1>7 DEF final_cleanup
  <2>4. topology # NoTopology => ChartsLeft(topology, b, e, {}) /\ LocksLeft(topology, b, e, {})
    BY <1>4, <2>2, <2>3 DEF Agrees, ChartsLeft, LocksKnown, LocksLeft
  <2>. QED
    BY <1>5, <2>2, <2>3, <2>4 DEF CleanUp
<1>8. CASE destroyed(b)
  <2>1. PICK e : e = [o EXCEPT !.state = "destroyed"]
    OBVIOUS
  <2>2. /\ blue'[b] = e /\ e.charts = o.charts /\ e.locked_pdus = o.locked_pdus /\ e.lost = o.lost
        /\ e.state = "destroyed" /\ e.cleaning = o.cleaning /\ e.removing = o.removing
    BY <1>1, <1>8, <2>1 DEF destroyed, IInv, TypeOK, BlueState
  <2>3. o.state = "cleaning" /\ o.cleaning = {}
    BY <1>1, <1>8 DEF destroyed
  <2>4. topology # NoTopology => ChartsLeft(topology, b, e, {}) /\ LocksLeft(topology, b, e, {})
    BY <1>4, <2>2, <2>3 DEF Agrees, ChartsLeft, LocksLeft
  <2>. QED
    BY <1>4, <1>5, <2>2, <2>3, <2>4 DEF CleanUp
<1>. QED
  BY <1>6, <1>7, <1>8

\* The loop of final_cleanup finds the next PDU, or swallows the exception.
LEMMA FindByNameAgrees ==
    ASSUME IInv, SoleBlueprint, Agreement, NEW b \in Blue, find_by_name(b)
    PROVE  Agreement'
<1>1. PICK o \in BlueState : o = blue[b]
  BY BlueParts
<1>2. thread[b].pc = "idle" /\ o.state = "cleaning" /\ UNCHANGED topology
  BY <1>1 DEF find_by_name, AtRest
<1>3. PICK p \in o.cleaning :
         \/ /\ HasPdu(p) /\ Found(b, p)
            /\ blue' = [blue EXCEPT ![b].cleaning = @ \ {p}]
         \/ /\ UNCHANGED thread
            /\ blue' = [blue EXCEPT ![b].cleaning = @ \ {p}, ![b].lost = @ \cup {p}]
  BY <1>1 DEF find_by_name
<1>4. p \in Pdu
  BY <1>3 DEF BlueState
<1>5. topology # NoTopology => Agrees(topology, b, o) /\ CleanUp(o, "idle")
  BY <1>1, <1>2, BlueParts DEF ThreadAgrees
<1>6. CASE /\ HasPdu(p) /\ Found(b, p)
           /\ blue' = [blue EXCEPT ![b].cleaning = @ \ {p}]
  <2>1. PICK e : e = [o EXCEPT !.cleaning = @ \ {p}]
    OBVIOUS
  <2>2. /\ blue'[b] = e /\ e.charts = o.charts /\ e.locked_pdus = o.locked_pdus /\ e.state = "cleaning"
        /\ e.lost = o.lost /\ e.removing = o.removing /\ e.cleaning = o.cleaning \ {p}
    BY <1>1, <1>2, <1>6, <2>1 DEF IInv, TypeOK, BlueState
  <2>3. PICK th : /\ thread'[b] = th /\ th.pc = "found" /\ SingleCall(topology, th)
                  /\ \E s \in Step : th.todo = <<s>> /\ s.pdu = p /\ s.locked_by = topology.locked_by[p]
    BY <1>4, <1>6, FoundOne
  <2>4. PICK s \in Step : th.todo = <<s>> /\ s.pdu = p /\ s.locked_by = topology.locked_by[p]
    BY <2>3
  <2>5. ASSUME topology # NoTopology PROVE FoundAgrees(topology, b, e, s)
    <3>1. LocksKnown(topology, b, e, {}) /\ LocksLeft(topology, b, e, {p})
      BY <1>2, <1>5, <2>2, <2>5 DEF Agrees, LocksKnown, LocksLeft
    <3>2. ChartsKnown(topology, b, e, {}) /\ ChartsLeft(topology, b, e, {})
      BY <1>2, <1>5, <2>2, <2>5 DEF Agrees, ChartsKnown, ChartsLeft
    <3>. QED
      BY <1>6, <2>4, <3>1, <3>2 DEF FoundAgrees, HasPdu
  <2>6. topology # NoTopology => ThreadAgrees(topology, b, e, th)
    BY <1>2, <1>5, <2>2, <2>3, <2>4, <2>5 DEF ThreadAgrees, CleanUp
  <2>. QED
    BY <1>2, <2>2, <2>3, <2>6, AgreementFrame
<1>7. CASE /\ UNCHANGED thread
           /\ blue' = [blue EXCEPT ![b].cleaning = @ \ {p}, ![b].lost = @ \cup {p}]
  <2>1. PICK e : e = [o EXCEPT !.cleaning = @ \ {p}, !.lost = @ \cup {p}]
    OBVIOUS
  <2>2. /\ blue'[b] = e /\ e.charts = o.charts /\ e.locked_pdus = o.locked_pdus /\ e.state = "cleaning"
        /\ e.lost = o.lost \cup {p} /\ e.removing = o.removing /\ e.cleaning = o.cleaning \ {p}
    BY <1>1, <1>2, <1>7, <2>1 DEF IInv, TypeOK, BlueState
  <2>3. PICK th : th = thread[b] /\ th.pc = "idle" /\ SingleCall(topology, th)
    BY <1>2, BlueParts
  <2>4. ASSUME topology # NoTopology PROVE ThreadAgrees(topology, b, e, th)
    <3>1. LocksKnown(topology, b, e, {}) /\ LocksLeft(topology, b, e, {})
      BY <1>2, <1>5, <2>2, <2>4 DEF Agrees, LocksKnown, LocksLeft
    <3>2. ChartsKnown(topology, b, e, {}) /\ ChartsLeft(topology, b, e, {})
      BY <1>2, <1>5, <2>2, <2>4 DEF Agrees, ChartsKnown, ChartsLeft
    <3>. QED
      BY <1>2, <1>5, <2>2, <2>3, <2>4, <3>1, <3>2 DEF ThreadAgrees, CleanUp, Agrees
  <2>. QED
    BY <1>2, <1>7, <2>2, <2>3, <2>4, AgreementFrame
<1>. QED
  BY <1>3, <1>6, <1>7

\* build_topology reads the document that the blueprint's step will be applied to.
LEMMA BuildAgrees ==
    ASSUME IInv, SoleBlueprint, Agreement, NEW b \in Blue, build_topology(b)
    PROVE  Agreement'
<1>1. PICK o \in ThreadState : o = thread[b]
  BY BlueParts
<1>2. PICK th : th = [o EXCEPT !.pc = "editing", !.model = topology, !.base = topology]
  OBVIOUS
<1>3. o.pc = "building" /\ thread'[b] = th /\ UNCHANGED <<topology, blue>>
  BY <1>1, <1>2, BlueParts DEF build_topology, IInv, TypeOK
<1>4. th.pc = "editing" /\ th.model = topology /\ th.todo = o.todo
  BY <1>2 DEF ThreadState
<1>5. PICK e : e = blue[b]
  OBVIOUS
<1>6. SingleCall(topology, o) /\ (topology # NoTopology => ThreadAgrees(topology, b, e, o))
  BY <1>1, <1>5, BlueParts
<1>7. SingleCall(topology, th)
  BY <1>3, <1>4, <1>6 DEF SingleCall
<1>8. topology # NoTopology => ThreadAgrees(topology, b, e, th)
  BY <1>3, <1>4, <1>6 DEF ThreadAgrees, CleanUp
<1>. QED
  BY <1>3, <1>4, <1>5, <1>7, <1>8, AgreementFrame

\* The step that a thread has under way.
LEMMA Underway ==
    ASSUME IInv, Agreement, NEW b \in Blue, thread[b].pc \in {"building", "editing"}
    PROVE  \E s \in Step : /\ thread[b].todo = <<s>> /\ s.call \in SingleCalls
                           /\ topology # NoTopology => Outstanding(topology, b, blue[b], s)
<1>1. PICK s \in Step : thread[b].todo = <<s>> /\ s.call \in SingleCalls
  BY BlueParts DEF SingleCall
<1>2. ASSUME topology # NoTopology PROVE Outstanding(topology, b, blue[b], s)
  <2>1. PICK x \in Step : thread[b].todo = <<x>> /\ Outstanding(topology, b, blue[b], x)
    BY <1>2, BlueParts DEF ThreadAgrees
  <2>2. x = s
    BY <1>1, <2>1
  <2>. QED
    BY <2>1, <2>2
<1>. QED
  BY <1>1, <1>2

\* An exception, in build_topology or under the lock: an unlocking that fails is
\* remembered as lost, everything else is still known to the blueprint.
LEMMA RaisedAgrees ==
    ASSUME IInv, SoleBlueprint, Agreement, NEW b \in Blue, thread[b].pc \in {"building", "editing"},
           thread'[b] = Idle, blue'[b] = Abandon(b), topology' = topology
    PROVE  Agreement'
<1>1. PICK o \in BlueState : o = blue[b]
  BY BlueParts
<1>2. PICK U : U = Unlocking(b)
  OBVIOUS
<1>3. PICK e : e = [o EXCEPT !.state = IF @ = "destroying" THEN "running" ELSE @, !.lost = @ \cup U]
  OBVIOUS
<1>4. blue'[b] = e
  BY <1>1, <1>2, <1>3 DEF Abandon
<1>5. /\ e.locked_pdus = o.locked_pdus /\ e.charts = o.charts /\ e.removing = o.removing
      /\ e.cleaning = o.cleaning /\ e.lost = o.lost \cup U
      /\ o.state = "destroying" => e.state = "running"
      /\ o.state # "destroying" => e.state = o.state
  BY <1>3 DEF BlueState
<1>6. PICK th : th = Idle /\ th.pc = "idle"
  BY IdleType
<1>7. SingleCall(topology, th)
  BY <1>6 DEF SingleCall
<1>8. ASSUME topology # NoTopology PROVE ThreadAgrees(topology, b, e, th)
  <2>1. PICK s \in Step : thread[b].todo = <<s>> /\ Outstanding(topology, b, o, s)
    BY <1>1, <1>8, Underway
  <2>2. CleanUp(o, thread[b].pc) /\ topology \in TopologyModel
    BY <1>1, <1>8, BlueParts DEF ThreadAgrees
  <2>3. CleanUp(e, "idle")
    BY <1>5, <2>2 DEF CleanUp
  <2>4. CASE /\ s.call = "upd_pdu" /\ s.locked_by = NoBlue
             /\ LocksKnown(topology, b, o, {s.pdu}) /\ ChartsKnown(topology, b, o, {})
             /\ ChartsLeft(topology, b, o, {}) /\ LocksLeft(topology, b, o, {s.pdu})
    <3>1. s.pdu \in Pdu
      BY <2>4, StepTypes
    <3>2. s = [call |-> "upd_pdu", pdu |-> s.pdu, locked_by |-> NoBlue]
      BY <2>4 DEF Step, VimStep, NetworkStep, RouterStep, PduStep, ClusterStep
    <3>3. s.pdu \in U
      BY <1>2, <2>1, <3>1, <3>2 DEF Unlocking
    <3>4. LocksKnown(topology, b, e, {}) /\ LocksLeft(topology, b, e, {})
      BY <1>5, <2>4, <3>3 DEF LocksKnown, LocksLeft
    <3>5. ChartsKnown(topology, b, e, {}) /\ ChartsLeft(topology, b, e, {})
      BY <1>5, <2>4 DEF ChartsKnown, ChartsLeft
    <3>. QED
      BY <1>6, <2>3, <3>4, <3>5 DEF ThreadAgrees, Agrees
  <2>5. CASE /\ o.state \in {"running", "destroying"} /\ LocksKnown(topology, b, o, {})
             /\ \E A : ChartsKnown(topology, b, o, A)
    <3>1. e.state = "running"
      BY <1>5, <2>5
    <3>2. LocksKnown(topology, b, e, {})
      BY <1>5, <2>5 DEF LocksKnown
    <3>3. \A k \in Cluster : topology.deployed_blueprints[k][b] \in Nat /\ o.charts[k] \in Nat
      BY <2>2 DEF TopologyModel, BlueState
    <3>4. ChartsKnown(topology, b, e, {})
      BY <1>5, <2>5, <3>3 DEF ChartsKnown
    <3>. QED
      BY <1>6, <2>3, <3>1, <3>2, <3>4 DEF ThreadAgrees, Agrees, ChartsLeft, LocksLeft
  <2>. QED
    BY <2>1, <2>4, <2>5 DEF Outstanding, Agrees
<1>. QED
  BY <1>4, <1>6, <1>7, <1>8, AgreementFrame

(***************************************************************************)
(* What the calls of a blueprint make of the document d.                   *)
(***************************************************************************)

\* PDUs come unlocked, and go with their lock.
LEMMA AddPduAgrees ==
    ASSUME NEW d \in TopologyModel, NEW b \in Blue, NEW e, NEW p \in Pdu, NEW m,
           Defaults(d), Agrees(d, b, e), e.state = "running",
           p \notin d.pdus, m = [d EXCEPT !.pdus = @ \cup {p}]
    PROVE  Defaults(m) /\ Agrees(m, b, e)
<1>1. /\ m.deployed_blueprints = d.deployed_blueprints
      /\ m.pdus = d.pdus \cup {p} /\ m.locked_by = d.locked_by
  BY DEF TopologyModel
<1>. QED
  BY <1>1, NullAssumption DEF Defaults, Agrees, LocksKnown, ChartsKnown, ChartsLeft, LocksLeft, Held

LEMMA DelPduAgrees ==
    ASSUME NEW d \in TopologyModel, NEW b \in Blue, NEW e, NEW p \in Pdu, NEW m,
           Defaults(d), Agrees(d, b, e), e.state = "running",
           m.deployed_blueprints = d.deployed_blueprints, m.pdus = d.pdus \ {p},
           \A q \in Pdu : m.locked_by[q] = IF q = p THEN NoBlue ELSE d.locked_by[q]
    PROVE  Defaults(m) /\ Agrees(m, b, e)
<1>1. d.pdus \subseteq Pdu
  BY DEF TopologyModel
<1>. QED
  BY <1>1, NullAssumption DEF Defaults, Agrees, LocksKnown, ChartsKnown, ChartsLeft, LocksLeft, Held

\* A PDU is locked or unlocked in the document.
LEMMA UpdPduAgrees ==
    ASSUME NEW d \in TopologyModel, NEW b \in Blue, NEW e, NEW s, s.pdu \in d.pdus, NEW m,
           s.call = "upd_pdu", Defaults(d), Outstanding(d, b, e, s),
           m = [d EXCEPT !.locked_by[s.pdu] = s.locked_by]
    PROVE  Defaults(m) /\ Agrees(m, b, e)
<1>1. /\ m.pdus = d.pdus /\ m.deployed_blueprints = d.deployed_blueprints /\ d.pdus \subseteq Pdu
      /\ \A q \in Pdu : m.locked_by[q] = IF q = s.pdu THEN s.locked_by ELSE d.locked_by[q]
  BY DEF TopologyModel
<1>2. Defaults(m)
  BY <1>1 DEF Defaults
<1>3. CASE s.locked_by = b /\ e.state = "running" /\ s.pdu \in e.locked_pdus /\ Agrees(d, b, e)
  BY <1>1, <1>2, <1>3 DEF Agrees, LocksKnown, ChartsKnown, ChartsLeft, LocksLeft, Held
<1>4. CASE /\ s.locked_by = NoBlue
           /\ LocksKnown(d, b, e, {s.pdu}) /\ ChartsKnown(d, b, e, {})
           /\ ChartsLeft(d, b, e, {}) /\ LocksLeft(d, b, e, {s.pdu})
  <2>1. Held(m, b) \subseteq Held(d, b) /\ s.pdu \notin Held(m, b)
    BY <1>1, <1>4, NullAssumption DEF Held
  <2>. QED
    BY <1>1, <1>2, <1>4, <2>1 DEF Agrees, LocksKnown, ChartsKnown, ChartsLeft, LocksLeft
<1>. QED
  BY <1>3, <1>4 DEF Outstanding, OwnCalls

\* Clusters are added and deleted.
LEMMA AddClusterAgrees ==
    ASSUME NEW d \in TopologyModel, NEW b \in Blue, NEW e, NEW k \in Cluster, NEW m,
           Defaults(d), Agrees(d, b, e), e.state = "running",
           m = [d EXCEPT !.kubernetes = @ \cup {k}]
    PROVE  Defaults(m) /\ Agrees(m, b, e)
<1>1. m.pdus = d.pdus /\ m.locked_by = d.locked_by /\ m.deployed_blueprints = d.deployed_blueprints
  BY DEF TopologyModel
<1>. QED
  BY <1>1 DEF Defaults, Agrees, LocksKnown, ChartsKnown, ChartsLeft, LocksLeft, Held

LEMMA DelClusterAgrees ==
    ASSUME NEW d \in TopologyModel, NEW b \in Blue, NEW e \in BlueState, NEW k \in Cluster, NEW m,
           Defaults(d), Agrees(d, b, e), e.state = "running",
           m.pdus = d.pdus, m.locked_by = d.locked_by,
           \A j \in Cluster : m.deployed_blueprints[j][b] \in {0, d.deployed_blueprints[j][b]}
    PROVE  Defaults(m) /\ Agrees(m, b, e)
<1>3. \A j \in Cluster : e.charts[j] \in Nat /\ d.deployed_blueprints[j][b] \in Nat
  BY DEF BlueState, TopologyModel
<1>4. ChartsKnown(m, b, e, {})
  BY <1>3 DEF Agrees, ChartsKnown
<1>. QED
  BY <1>4 DEF Defaults, Agrees, LocksKnown, ChartsLeft, LocksLeft, Held

\* The entry of a chart that was installed.
LEMMA AppendAgrees ==
    ASSUME NEW d \in TopologyModel, NEW b \in Blue, NEW e \in BlueState, NEW s, s.cluster \in Cluster, NEW m,
           s.call = "append_blueprint", Defaults(d), Outstanding(d, b, e, s),
           m = [d EXCEPT !.deployed_blueprints[s.cluster][s.blue] = @ + 1]
    PROVE  Defaults(m) /\ Agrees(m, b, e)
<1>1. /\ s.blue = b /\ e.state = "running" /\ LocksKnown(d, b, e, {}) /\ ChartsKnown(d, b, e, {s.cluster})
  BY DEF Outstanding, OwnCalls
<1>2. /\ m.pdus = d.pdus /\ m.locked_by = d.locked_by
      /\ \A j \in Cluster : m.deployed_blueprints[j][b] =
            d.deployed_blueprints[j][b] + (IF j = s.cluster THEN 1 ELSE 0)
  BY <1>1 DEF TopologyModel
<1>3. \A j \in Cluster : e.charts[j] \in Nat /\ d.deployed_blueprints[j][b] \in Nat
  BY DEF BlueState, TopologyModel
<1>4. ChartsKnown(m, b, e, {})
  BY <1>1, <1>2, <1>3 DEF ChartsKnown
<1>. QED
  BY <1>1, <1>2, <1>4 DEF Defaults, Agrees, LocksKnown, ChartsLeft, LocksLeft, Held

\* The entry of a chart that was uninstalled goes, or is not there.
LEMMA RemoveAgrees ==
    ASSUME NEW d \in TopologyModel, NEW b \in Blue, NEW e \in BlueState, NEW s, s.cluster \in Cluster, NEW m,
           s.call = "remove_blueprint", Defaults(d), Outstanding(d, b, e, s),
           \/ m = d /\ d.deployed_blueprints[s.cluster][s.blue] = 0
           \/ m = [d EXCEPT !.deployed_blueprints[s.cluster][s.blue] = @ - 1]
    PROVE  Defaults(m) /\ Agrees(m, b, e)
<1>1. /\ s.blue = b /\ e.state = "destroying" /\ LocksKnown(d, b, e, {})
      /\ ChartsKnown(d, b, e, {}) /\ ChartsLeft(d, b, e, {s.cluster})
  BY DEF Outstanding, OwnCalls
<1>2. \A j \in Cluster : e.charts[j] \in Nat /\ e.removing[j] \in Nat /\ d.deployed_blueprints[j][b] \in Nat
  BY DEF BlueState, TopologyModel
<1>3. CASE m = d /\ d.deployed_blueprints[s.cluster][s.blue] = 0
  <2>1. ChartsLeft(m, b, e, {})
    BY <1>1, <1>2, <1>3 DEF ChartsLeft
  <2>. QED
    BY <1>1, <1>3, <2>1 DEF Agrees, LocksLeft
<1>4. CASE m = [d EXCEPT !.deployed_blueprints[s.cluster][s.blue] = @ - 1]
  <2>1. /\ m.pdus = d.pdus /\ m.locked_by = d.locked_by
        /\ \A j \in Cluster : m.deployed_blueprints[j][b] =
              d.deployed_blueprints[j][b] - (IF j = s.cluster THEN 1 ELSE 0)
    BY <1>1, <1>4 DEF TopologyModel
  <2>2. ChartsKnown(m, b, e, {}) /\ ChartsLeft(m, b, e, {})
    BY <1>1, <1>2, <2>1 DEF ChartsKnown, ChartsLeft
  <2>. QED
    BY <1>1, <2>1, <2>2 DEF Defaults, Agrees, LocksKnown, LocksLeft, Held
<1>. QED
  BY <1>3, <1>4

\* A call ends without an exception, with the document as it was or saved as m.
LEMMA EndAgrees ==
    ASSUME IInv, SoleBlueprint, Agreement, NEW b \in Blue, thread[b].pc = "editing", topology # NoTopology,
           NEW m, Defaults(m), Agrees(m, b, blue[b]),
           \/ Leave(b) /\ m = topology
           \/ SaveTopology(b, m) /\ Tail(thread[b].todo) = <<>>
    PROVE  Agreement'
<1>1. thread'[b] = Idle /\ blue' = blue /\ topology' = m
  BY BlueParts DEF Leave, SaveTopology, IInv, TypeOK
<1>2. PICK th : th = Idle /\ th.pc = "idle"
  BY IdleType
<1>3. SingleCall(topology', th)
  BY <1>2 DEF SingleCall
<1>4. ThreadAgrees(topology, b, blue[b], thread[b])
  BY BlueParts
<1>5. CleanUp(blue[b], th.pc)
  BY <1>2, <1>4 DEF ThreadAgrees, CleanUp
<1>6. ThreadAgrees(m, b, blue[b], th)
  BY <1>2, <1>5 DEF ThreadAgrees
<1>. QED
  BY <1>1, <1>2, <1>3, <1>6 DEF SoleBlueprint, Agreement

\* A blueprint's step under the lock is one of its seven calls, on the document.
LEMMA OneCall ==
    ASSUME IInv, SoleBlueprint, WorkerInv, Agreement, NEW u \in Thread, Edit(u)
    PROVE  /\ u \in Blue /\ thread[u].pc = "editing" /\ Model(u) = topology
           /\ \/ add_pdu(u) \/ del_pdu(u) \/ upd_pdu(u) \/ add_k8scluster(u) \/ del_k8scluster(u)
              \/ append_blueprint(u) \/ remove_blueprint(u)
<1>1. InsideLock(u)
  BY EditOutcome DEF IInv
<1>2. u \in Blue /\ thread[u].pc = "editing"
  BY <1>1 DEF InsideLock, Thread, WorkerInv
<1>3. SingleCall(topology, thread[u])
  BY <1>2 DEF Agreement
<1>4. PICK s \in Step : thread[u].todo = <<s>> /\ s.call \in SingleCalls
  BY <1>2, <1>3 DEF SingleCall
<1>5. Model(u) = topology
  BY <1>2, <1>3 DEF SingleCall, Model
<1>6. \A c : Calls(u, c) => c \in SingleCalls
  BY <1>4 DEF Calls
<1>7. \/ add_pdu(u) \/ del_pdu(u) \/ upd_pdu(u) \/ add_k8scluster(u) \/ del_k8scluster(u)
      \/ append_blueprint(u) \/ remove_blueprint(u)
  <2>1. \A c \in {"create", "save", "delete", "delete_topology", "add_vim", "del_vim",
                 "update_vim", "add_vim_net", "del_vim_net", "add_vim_router", "del_vim_router",
                 "add_network", "del_network_by_name", "add_router", "del_router", "update_k8scluster"} :
           ~Calls(u, c)
    BY <1>6 DEF SingleCalls, OwnCalls
  <2>2. /\ ~create(u) /\ ~save(u) /\ ~delete(u) /\ ~delete_topology(u) /\ ~add_vim(u)
        /\ ~del_vim(u) /\ ~update_vim(u) /\ ~add_vim_net(u) /\ ~del_vim_net(u) /\ ~add_vim_router(u)
        /\ ~del_vim_router(u) /\ ~add_network(u) /\ ~del_network_by_name(u) /\ ~add_router(u) /\ ~del_router(u)
        /\ ~update_k8scluster(u)
    BY <2>1 DEF create, save, delete, delete_topology, add_vim, del_vim, update_vim, add_vim_net, del_vim_net,
       add_vim_router, del_vim_router, add_network, del_network_by_name, add_router, del_router, update_k8scluster
  <2>. QED
    BY <2>2 DEF Edit
<1>. QED
  BY <1>2, <1>5, <1>7

\* Every step of the blueprint under the lock keeps the agreement.
LEMMA EditAgrees ==
    ASSUME IInv, SoleBlueprint, WorkerInv, Agreement, NEW u \in Thread, Edit(u)
    PROVE  Agreement'
<1>1. u \in Blue /\ thread[u].pc = "editing" /\ Model(u) = topology
  BY OneCall
<1>2. PICK s \in Step : thread[u].todo = <<s>> /\ (topology # NoTopology => Outstanding(topology, u, blue[u], s))
  BY <1>1, Underway
<1>3. PICK d, e : d = topology /\ e = blue[u]
  OBVIOUS
<1>4. Arg(u) = s /\ Tail(thread[u].todo) = <<>> /\ \A c : Calls(u, c) => s.call = c
  BY <1>2 DEF Calls, Arg
<1>5. e \in BlueState /\ (d # NoTopology => d \in TopologyModel /\ Defaults(d) /\ Outstanding(d, u, e, s))
  BY <1>1, <1>2, <1>3, BlueParts
<1>6. CASE Raise(u)
  <2>1. thread'[u] = Idle /\ blue'[u] = Abandon(u) /\ topology' = topology
    BY <1>1, <1>6 DEF Raise, IInv, TypeOK
  <2>. QED
    BY <1>1, <2>1, RaisedAgrees
<1>7. ASSUME d # NoTopology, NEW m, SaveTopology(u, m) \/ (Leave(u) /\ m = d), Defaults(m) /\ Agrees(m, u, e)
      PROVE  Agreement'
  BY <1>1, <1>3, <1>4, <1>7, EndAgrees
<1>8. ASSUME d # NoTopology, s.call \in OwnCalls PROVE Agrees(d, u, e) /\ e.state = "running"
  BY <1>5, <1>8 DEF Outstanding, OwnCalls
<1>9. CASE add_pdu(u)
  <2>1. s.call = "add_pdu" /\ s.pdu \in Pdu
    BY <1>4, <1>9, StepTypes DEF add_pdu
  <2>2. PICK p \in Pdu : p = s.pdu
    BY <2>1
  <2>3. PICK m : m = [d EXCEPT !.pdus = @ \cup {p}]
    OBVIOUS
  <2>4. Raise(u) \/ (d # NoTopology /\ (Leave(u) \/ (p \notin d.pdus /\ SaveTopology(u, m))))
    BY <1>1, <1>3, <1>4, <1>9, <2>2, <2>3 DEF add_pdu, SaveUnless
  <2>5. CASE d # NoTopology
    <3>1. Agrees(d, u, e) /\ e.state = "running" /\ Defaults(d) /\ d \in TopologyModel
      BY <1>5, <1>8, <2>1, <2>5 DEF OwnCalls
    <3>2. p \notin d.pdus => Defaults(m) /\ Agrees(m, u, e)
      BY <1>1, <2>3, <3>1, AddPduAgrees
    <3>. QED
      BY <1>6, <1>7, <2>4, <2>5, <3>1, <3>2
  <2>. QED
    BY <1>6, <2>4, <2>5
<1>10. CASE del_pdu(u)
  <2>1. s.call = "del_pdu" /\ s.pdu \in Pdu
    BY <1>4, <1>10, StepTypes DEF del_pdu
  <2>2. PICK p \in Pdu : p = s.pdu
    BY <2>1
  <2>3. PICK m : m = [d EXCEPT !.pdus = @ \ {p}, !.locked_by[p] = NoBlue]
    OBVIOUS
  <2>4. Raise(u) \/ (d # NoTopology /\ SaveTopology(u, m))
    BY <1>1, <1>3, <1>4, <1>10, <2>2, <2>3 DEF del_pdu, SaveUnless
  <2>5. d # NoTopology => Agrees(d, u, e) /\ e.state = "running" /\ Defaults(d) /\ d \in TopologyModel
    BY <1>5, <1>8, <2>1 DEF OwnCalls
  <2>6. ASSUME d # NoTopology PROVE Defaults(m) /\ Agrees(m, u, e)
    <3>1. /\ m.deployed_blueprints = d.deployed_blueprints /\ m.pdus = d.pdus \ {p}
          /\ \A q \in Pdu : m.locked_by[q] = IF q = p THEN NoBlue ELSE d.locked_by[q]
      BY <2>3, <2>5, <2>6 DEF TopologyModel
    <3>. QED
      BY <1>1, <2>5, <2>6, <3>1, DelPduAgrees
  <2>. QED
    BY <1>6, <1>7, <2>4, <2>6
<1>11. CASE upd_pdu(u)
  <2>1. s.call = "upd_pdu"
    BY <1>4, <1>11 DEF upd_pdu
  <2>2. PICK m : m = [d EXCEPT !.locked_by[s.pdu] = s.locked_by]
    OBVIOUS
  <2>3. Raise(u) \/ (d # NoTopology /\ s.pdu \in d.pdus /\ SaveTopology(u, m))
    BY <1>1, <1>3, <1>4, <1>11, <2>2 DEF upd_pdu, SaveUnless
  <2>4. d # NoTopology /\ s.pdu \in d.pdus => Defaults(m) /\ Agrees(m, u, e)
    BY <1>1, <1>5, <2>1, <2>2, UpdPduAgrees
  <2>. QED
    BY <1>6, <1>7, <2>3, <2>4
<1>12. CASE add_k8scluster(u) \/ del_k8scluster(u)
  <2>1. s.call \in {"add_k8scluster", "del_k8scluster"} /\ s.cluster \in Cluster
    BY <1>4, <1>12, StepTypes DEF add_k8scluster, del_k8scluster
  <2>2. PICK k \in Cluster : k = s.cluster
    BY <2>1
  <2>3. PICK m, n : /\ m = [d EXCEPT !.kubernetes = @ \cup {k}]
                    /\ n = [d EXCEPT !.kubernetes = @ \ {k}, !.deployed_blueprints[k] = [c \in Blue |-> 0]]
    OBVIOUS
  <2>4. Raise(u) \/ (d # NoTopology /\ (SaveTopology(u, m) \/ SaveTopology(u, n)))
    BY <1>1, <1>3, <1>4, <1>12, <2>2, <2>3 DEF add_k8scluster, del_k8scluster, SaveUnless, NotOnTopology
  <2>5. d # NoTopology => Agrees(d, u, e) /\ e.state = "running" /\ Defaults(d) /\ d \in TopologyModel
    BY <1>5, <1>8, <2>1 DEF OwnCalls
  <2>6. d # NoTopology => Defaults(m) /\ Agrees(m, u, e)
    BY <1>1, <1>5, <2>3, <2>5, AddClusterAgrees
  <2>7. ASSUME d # NoTopology PROVE Defaults(n) /\ Agrees(n, u, e)
    <3>1. /\ n.pdus = d.pdus /\ n.locked_by = d.locked_by
          /\ \A j \in Cluster : n.deployed_blueprints[j][u] \in {0, d.deployed_blueprints[j][u]}
      BY <1>1, <2>3, <2>5, <2>7 DEF TopologyModel
    <3>. QED
      BY <1>1, <1>5, <2>5, <2>7, <3>1, DelClusterAgrees
  <2>. QED
    BY <1>6, <1>7, <2>4, <2>6, <2>7
<1>14. CASE append_blueprint(u)
  <2>1. s.call = "append_blueprint" /\ s.cluster \in Cluster
    BY <1>4, <1>14, StepTypes DEF append_blueprint
  <2>2. PICK m : m = [d EXCEPT !.deployed_blueprints[s.cluster][s.blue] = @ + 1]
    OBVIOUS
  <2>3. Raise(u) \/ (d # NoTopology /\ SaveTopology(u, m))
    BY <1>1, <1>3, <1>4, <1>14, <2>2 DEF append_blueprint, SaveUnless, NotOnTopology
  <2>4. d # NoTopology => Defaults(m) /\ Agrees(m, u, e)
    BY <1>1, <1>5, <2>1, <2>2, AppendAgrees
  <2>. QED
    BY <1>6, <1>7, <2>3, <2>4
<1>15. CASE remove_blueprint(u)
  <2>1. s.call = "remove_blueprint" /\ s.cluster \in Cluster
    BY <1>4, <1>15, StepTypes DEF remove_blueprint
  <2>2. PICK m : m = [d EXCEPT !.deployed_blueprints[s.cluster][s.blue] = @ - 1]
    OBVIOUS
  <2>3. \/ Raise(u)
        \/ /\ d # NoTopology
           /\ \/ d.deployed_blueprints[s.cluster][s.blue] = 0 /\ Leave(u)
              \/ SaveTopology(u, m)
    BY <1>1, <1>3, <1>4, <1>15, <2>2 DEF remove_blueprint, SaveUnless, NotOnTopology
  <2>4. d # NoTopology => Defaults(m) /\ Agrees(m, u, e)
    BY <1>1, <1>5, <2>1, <2>2, RemoveAgrees
  <2>5. d # NoTopology /\ d.deployed_blueprints[s.cluster][s.blue] = 0 => Defaults(d) /\ Agrees(d, u, e)
    BY <1>1, <1>5, <2>1, RemoveAgrees
  <2>. QED
    BY <1>6, <1>7, <2>3, <2>4, <2>5
<1>. QED
  BY <1>9, <1>10, <1>11, <1>12, <1>14, <1>15, OneCall

\* Nothing is locked or deployed at the start.
LEMMA InitAgrees == ASSUME SoleBlueprint, Init PROVE Agreement
<1>1. ASSUME NEW b \in Blue
      PROVE  /\ thread[b] = Idle /\ Idle.pc = "idle" /\ blue[b].state = "running"
             /\ \A k \in Cluster : blue[b].charts[k] = 0
  BY <1>1, IdleType DEF Init, Thread, NoCharts
<1>2. topology = InitialTopology /\ InitialTopology \in Document
  BY RequestAssumption DEF Init
<1>3. topology # NoTopology => topology.pdus \subseteq Pdu
  BY <1>2 DEF Document, TopologyModel
<1>4. ASSUME topology # NoTopology, NEW b \in Blue PROVE Agrees(topology, b, blue[b])
  BY <1>1, <1>2, <1>3, <1>4, NullAssumption
     DEF SoleBlueprint, Agrees, LocksKnown, ChartsKnown, ChartsLeft, LocksLeft, Held
<1>. QED
  BY <1>1, <1>2, <1>4 DEF SoleBlueprint, Agreement, SingleCall, Defaults, ThreadAgrees, CleanUp

\* Every step of a sole blueprint keeps the agreement.
LEMMA StepAgrees ==
    ASSUME IInv, SoleBlueprint, WorkerInv, Agreement, [Next]_vars
    PROVE  Agreement'
<1>1. ~(\E request \in Requests : submit(request)) /\ ~receive
  BY DEF SoleBlueprint, WorkerInv, receive
<1>2. ASSUME NEW t \in Thread, build_topology(t) \/ build_topology_raises(t) PROVE Agreement'
  <2>1. t \in Blue /\ t # TopologyWorker /\ thread[t].pc = "building"
    BY <1>2, NullAssumption DEF build_topology, build_topology_raises, WorkerInv, Thread
  <2>2. CASE build_topology_raises(t)
    <3>1. thread'[t] = Idle /\ blue'[t] = Abandon(t) /\ topology' = topology
      BY <2>1, <2>2 DEF build_topology_raises, IInv, TypeOK
    <3>. QED
      BY <2>1, <3>1, RaisedAgrees
  <2>. QED
    BY <1>2, <2>1, <2>2, BuildAgrees
<1>3. ASSUME NEW b \in Blue, BlueprintStep(b) PROVE Agreement'
  BY <1>3, OwnAgrees, FindAgrees, LockAgrees, UnlockAgrees, InstallAgrees, UninstallAgrees, DestroyAgrees,
     FindByNameAgrees DEF BlueprintStep
<1>4. CASE UNCHANGED vars
  BY <1>4 DEF vars, Agreement
<1>. QED
  BY <1>1, <1>2, <1>3, <1>4, EditAgrees DEF Next, Progress

\* What the document holds for a sole blueprint and what that blueprint knows stay
\* in agreement, whatever raises.
THEOREM SoleBlueprintAgrees ==
    ASSUME SoleBlueprint
    PROVE  Spec => [](IInv /\ WorkerInv /\ Agreement)
<1> DEFINE Sole == IInv /\ WorkerInv /\ Agreement
<1>1. Init => Sole
  <2>1. Init => WorkerInv
    BY IdleType DEF Init, WorkerInv, Thread
  <2>. QED
    BY <2>1, InitIInv, InitAgrees
<1>2. Sole /\ [Next]_vars => Sole'
  BY NextIInv, WorkerRests, StepAgrees
<1> HIDE DEF Sole
<1>3. Spec => []Sole
  BY <1>1, <1>2, PTL DEF Spec
<1>. QED
  BY <1>3 DEF Sole

(***************************************************************************)
(* For a blueprint that works alone on the topology, with every call of    *)
(* helm and every access to the database free to raise: between its        *)
(* operations everything the topology holds for it (lock_pdu,              *)
(* install_helm_chart) is known to it or has been recorded as lost, so     *)
(* that destroy comes to it.                                               *)
(***************************************************************************)
THEOREM ClaimsAlwaysKnown ==
    ASSUME SoleBlueprint
    PROVE  Spec => []ClaimsAreKnown
<1>1. IInv /\ WorkerInv /\ Agreement => ClaimsAreKnown
  <2> SUFFICES ASSUME IInv, Agreement, NEW b \in Blue, thread[b].pc = "idle", topology # NoTopology
               PROVE  /\ \A p \in topology.pdus : topology.locked_by[p] = b =>
                           p \in blue[b].locked_pdus \cup blue[b].lost
                      /\ \A k \in Cluster : topology.deployed_blueprints[k][b] <= blue[b].charts[k]
    BY DEF ClaimsAreKnown, AtRest
  <2>1. Agrees(topology, b, blue[b]) /\ topology \in TopologyModel
    BY BlueParts DEF ThreadAgrees
  <2>2. \A k \in Cluster : topology.deployed_blueprints[k][b] \in Nat
    BY <2>1 DEF TopologyModel
  <2>. QED
    BY <2>1, <2>2 DEF Agrees, LocksKnown, ChartsKnown, Held
<1>. QED
  BY <1>1, SoleBlueprintAgrees, PTL

(***************************************************************************)
(* A blueprint that worked alone leaves no entry of deployed_blueprints    *)
(* behind when it has been destroyed, and no locked PDU but those whose    *)
(* unlocking raised (final_cleanup).                                       *)
(***************************************************************************)
THEOREM DestroyedLeftNoTrace ==
    ASSUME SoleBlueprint
    PROVE  Spec => []DestroyedLeavesNoTrace
<1>1. IInv /\ WorkerInv /\ Agreement => DestroyedLeavesNoTrace
  <2> SUFFICES ASSUME IInv, Agreement, NEW b \in Blue, blue[b].state = "destroyed", topology # NoTopology
               PROVE  /\ \A p \in topology.pdus : topology.locked_by[p] = b => p \in blue[b].lost
                      /\ \A k \in topology.kubernetes : topology.deployed_blueprints[k][b] = 0
    BY DEF DestroyedLeavesNoTrace
  <2>1. ThreadAgrees(topology, b, blue[b], thread[b]) /\ topology \in TopologyModel
    BY BlueParts
  <2>2. CleanUp(blue[b], thread[b].pc)
    BY <2>1 DEF ThreadAgrees
  <2>3. /\ Agrees(topology, b, blue[b]) /\ blue[b].cleaning = {}
        /\ \A k \in Cluster : blue[b].removing[k] = 0
    BY <2>1, <2>2 DEF ThreadAgrees, CleanUp
  <2>4. topology.kubernetes \subseteq Cluster /\ \A k \in Cluster : topology.deployed_blueprints[k][b] \in Nat
    BY <2>1 DEF TopologyModel
  <2>. QED
    BY <2>3, <2>4 DEF Agrees, ChartsLeft, LocksLeft, Held
<1>. QED
  BY <1>1, SoleBlueprintAgrees, PTL
=============================================================================
