---------------------------- MODULE K8sNodes_proofs ----------------------------
(***************************************************************************)
(* Proofs about K8sNodes, for any number of worker numbers and VMs, any    *)
(* requests, failures and kills.                                           *)
(***************************************************************************)
EXTENDS K8sNodes, WellFoundedInduction, TLAPS

-----------------------------------------------------------------------------
(* The inductive invariant.                                                *)

Known == Number \cup {Controller}

\* A state of the blueprint in which numbers and workers agree, given the names
\* nm of the VMs made before fr and the nodes nd of the cluster.
Sound(s, nm, fr, nd) ==
    /\ s.numbers = {nm[v] : v \in s.vms}
    /\ \A v, w \in s.vms : nm[v] = nm[w] => v = w
    /\ \A v \in s.vms : v < fr
    /\ s.configurators \subseteq s.vms
    /\ s.pending \subseteq s.configurators
    /\ nd \subseteq s.configurators

Numbered ==
    /\ Sound(mem, num, fresh, nodes)
    /\ IF pc = "gone" THEN db = NoRecord
       ELSE db # NoRecord /\ Sound(db, num, fresh, nodes)

\* The servers that are not lost, but for the one about to be recorded.
Found == {v \in servers \ lost.servers : pc # "record" \/ v # job.vm}

Recorded ==
    /\ Found \subseteq mem.registered \cap mem.os_dict
    /\ pc # "gone" => Found \subseteq db.registered \cap db.os_dict

\* create_vm is working on a VM that is registered, for a machine of the plan.
InHand ==
    pc \in {"flavor", "access", "server", "record", "network", "configurator"} =>
       /\ job.plan # <<>>
       /\ job.vm \in mem.registered
       /\ job.vm = mem.master \/ job.vm \in mem.vms

\* day0conf runs configurators of the list.
Pending == pc \in {"master", "workers"} => job.left \subseteq mem.pending

\* The part of the playbook that has been run has removed different workers
\* that had joined.
Draining ==
    pc = "drain" =>
       \A i \in 1..Len(job.targets) :
          job.targets[i] # NoVm =>
             /\ job.targets[i] \in mem.vms
             /\ i < job.at =>
                   /\ job.targets[i] \in mem.configurators \ nodes
                   /\ \A j \in 1..Len(job.targets) : i < j /\ j < job.at => job.targets[i] # job.targets[j]

\* The workers still to be destroyed are different, have a configurator and
\* have left the cluster.
Deleting ==
    /\ pc \in {"destroying", "deregister"} =>
          \A i \in 1..Len(job.targets) :
             i >= job.at /\ job.targets[i] # NoVm =>
                /\ job.targets[i] \in mem.configurators \ nodes
                /\ \A j \in 1..Len(job.targets) : i < j => job.targets[i] # job.targets[j]
    /\ pc = "deregister" =>
          /\ job.at \in 1..Len(job.targets)
          /\ job.targets[job.at] # NoVm
          /\ job.targets[job.at] \notin servers \ lost.servers

\* The servers that destroy has still to delete.
Tearing ==
    /\ pc = "teardown" => servers \ lost.servers \subseteq job.left
    /\ pc \in {"cleanup", "ranges", "forget", "gone"} => servers \subseteq lost.servers

IInv == TypeOK /\ Numbered /\ Recorded /\ InHand /\ Pending /\ Draining /\ Deleting /\ Tearing

-----------------------------------------------------------------------------
(* Facts about single operators.                                           *)

\* A state is not the mark of a missing record.
LEMMA StateIsRecord == \A s \in StateType : s # NoRecord
<1>1. SUFFICES ASSUME NEW s \in StateType, s = NoRecord PROVE FALSE
  OBVIOUS
<1>2. "vms" \in DOMAIN s
  BY <1>1 DEF StateType
<1>3. DOMAIN s = {"gone"}
  BY <1>1 DEF NoRecord
<1> QED BY <1>2, <1>3

\* Least picks a member.
LEMMA LeastIsMember ==
  ASSUME NEW S \in SUBSET Nat, S # {}
  PROVE  Least(S) \in S
<1> DEFINE R == OpToRel(<, Nat)
<1>1. IsWellFoundedOn(R, Nat)
  BY NatLessThanWellFounded
<1>2. \A x, y \in Nat : y < x => <<y, x>> \in R
  BY DEF OpToRel
<1> HIDE DEF R
<1>3. PICK x \in S : \A y \in S : ~ (<<y, x>> \in R)
  BY <1>1, WFMin
<1>4. \A y \in S : ~ (y < x)
  BY <1>2, <1>3
<1>5. \A y \in S : x <= y
  BY <1>4
<1> QED BY <1>5 DEF Least

\* The rest of a plan is a plan.
LEMMA TailOfPlan ==
  ASSUME NEW S, NEW plan \in Seq(S), plan # <<>>
  PROVE  Tail(plan) \in Seq(S)
OBVIOUS

\* Turning to another worker.
LEMMA JobAt ==
  ASSUME NEW j \in JobType, NEW x \in Nat \ {0}
  PROVE  LET k == [j EXCEPT !.at = x]
         IN k \in JobType /\ k.targets = j.targets /\ k.at = x
<1> DEFINE O == {"create", "add_worker", "del_workers", "destroy", "none"}
           P == Seq(Machine)
           V == Vm \cup {NoVm}
           Q == Seq(Vm \cup {NoVm})
           L == SUBSET Vm
           N == Nat \ {0}
<1>1. JobType = [op : O, plan : P, vm : V, left : L, targets : Q, at : N, ok : BOOLEAN]
  BY DEF JobType
<1>2. x \in N
  OBVIOUS
<1> HIDE DEF O, P, V, Q, L, N
<1> QED BY <1>1, <1>2

\* The next one in the list.
LEMMA NextTarget ==
  ASSUME NEW j \in JobType
  PROVE  LET k == [j EXCEPT !.at = @ + 1]
         IN k \in JobType /\ k.targets = j.targets /\ k.at = j.at + 1
<1>1. j.at \in Nat \ {0}
  BY DEF JobType
<1>2. j.at + 1 \in Nat \ {0}
  BY <1>1
<1> QED BY <1>2, JobAt

\* A job for one of the operations.
LEMMA JobMade ==
  ASSUME NEW op \in {"create", "add_worker", "del_workers", "destroy", "none"},
         NEW targets \in Seq(Vm \cup {NoVm})
  PROVE  Job(op, <<>>, targets) \in JobType
<1>1. <<>> \in Seq(Machine)
  OBVIOUS
<1> QED BY <1>1 DEF Job, JobType

\* A new VM resource disturbs nothing that was there.
LEMMA SoundFresh ==
  ASSUME NEW s \in StateType, NEW nm \in [Vm -> Known], NEW fr \in Vm, NEW nd, NEW x \in Known,
         Sound(s, nm, fr, nd)
  PROVE  Sound(s, [nm EXCEPT ![fr] = x], fr + 1, nd)
<1> DEFINE nm2 == [nm EXCEPT ![fr] = x]
<1>1. \A v \in s.vms : v \in Vm /\ v < fr
  BY DEF Sound, StateType
<1>2. \A v \in s.vms : nm2[v] = nm[v] /\ v < fr + 1
  BY <1>1 DEF Vm
<1> QED BY <1>2 DEF Sound

\* Nor does a worker with a number that was free.
LEMMA SoundAdd ==
  ASSUME NEW s \in StateType, NEW nm \in [Vm -> Known], NEW fr \in Vm, NEW nd,
         NEW x \in Number \ s.numbers, Sound(s, nm, fr, nd), NEW t \in StateType,
         t.vms = s.vms \cup {fr}, t.numbers = s.numbers \cup {x},
         t.configurators = s.configurators, t.pending = s.pending
  PROVE  Sound(t, [nm EXCEPT ![fr] = x], fr + 1, nd)
<1> DEFINE nm2 == [nm EXCEPT ![fr] = x]
<1>1. \A v \in s.vms : v \in Vm /\ v < fr
  BY DEF Sound, StateType
<1>2. \A v \in s.vms : nm2[v] = nm[v] /\ v < fr + 1 /\ nm[v] \in s.numbers
  BY <1>1 DEF Vm, Sound
<1>3. nm2[fr] = x /\ fr < fr + 1
  BY DEF Vm
<1> HIDE DEF nm2
<1>4. t.numbers = {nm2[v] : v \in t.vms}
  <2>1. s.numbers = {nm[v] : v \in s.vms}
    BY DEF Sound
  <2> QED BY <2>1, <1>2, <1>3
<1>5. \A v, w \in t.vms : nm2[v] = nm2[w] => v = w
  BY <1>2, <1>3 DEF Sound
<1> QED BY <1>2, <1>3, <1>4, <1>5 DEF Sound, nm2

\* Sound is about four fields, and fewer nodes do no harm.
LEMMA SoundSame ==
  ASSUME NEW s, NEW t, NEW nm, NEW fr, NEW nd, NEW nd2, Sound(s, nm, fr, nd),
         t.vms = s.vms, t.numbers = s.numbers, t.configurators = s.configurators,
         t.pending \subseteq s.pending, nd2 \subseteq nd
  PROVE  Sound(t, nm, fr, nd2)
BY DEF Sound

\* remove_worker of a worker that has a configurator and has left the cluster.
LEMMA SoundRemove ==
  ASSUME TypeOK, Sound(mem, num, fresh, nodes), NEW v \in mem.configurators \ nodes
  PROVE  /\ remove_worker(v) \in StateType
         /\ Sound(remove_worker(v), num, fresh, nodes)
         /\ remove_worker(v).configurators = mem.configurators \ {v}
         /\ remove_worker(v).registered = mem.registered \ {v}
         /\ remove_worker(v).os_dict = mem.os_dict
         /\ remove_worker(v).vms = mem.vms \ {v}
         /\ remove_worker(v).master = mem.master
<1> DEFINE same == {w \in Vm : num[w] = num[v]}
           t == remove_worker(v)
<1>1. /\ mem \in StateType /\ mem.configurators \subseteq mem.vms /\ mem.vms \subseteq Vm
      /\ v \in Vm /\ v \in mem.vms
  BY DEF TypeOK, StateType, Sound
<1>2. /\ t.vms = mem.vms \ same
      /\ t.numbers = mem.numbers \ {num[w] : w \in mem.configurators \cap same}
      /\ t.configurators = mem.configurators \ same
      /\ t.pending = mem.pending \ same
      /\ t.registered = mem.registered \ {v}
      /\ t.os_dict = mem.os_dict
      /\ t.master = mem.master
      /\ t \in StateType
  BY <1>1 DEF remove_worker, StateType
<1> HIDE DEF t
<1>3. mem.vms \cap same = {v}
  BY <1>1 DEF Sound
<1>4. {num[w] : w \in mem.configurators \cap same} = {num[v]}
  BY <1>1, <1>3
<1>5. t.numbers = {num[w] : w \in t.vms}
  <2>1. mem.numbers = {num[w] : w \in mem.vms}
    BY DEF Sound
  <2> QED BY <2>1, <1>1, <1>2, <1>3, <1>4
<1>6. t.vms = mem.vms \ {v} /\ t.configurators = mem.configurators \ {v}
  BY <1>1, <1>2, <1>3
<1>7. Sound(t, num, fresh, nodes)
  BY <1>1, <1>2, <1>5, <1>6 DEF Sound
<1> QED BY <1>2, <1>6, <1>7 DEF t

-----------------------------------------------------------------------------
(* The invariant holds at first and every step keeps it.                   *)

\* The new blueprint satisfies the invariant.
LEMMA Initially == Init => IInv
<1> SUFFICES ASSUME Init PROVE IInv
  OBVIOUS
<1> USE BoundsAssumption
<1>0. PICK plan \in CreatePlans : job = Job("create", plan, <<>>)
  BY DEF Init
<1>1. NewState \in StateType
  BY DEF NewState, StateType, NoVm
<1>2. job \in JobType
  BY <1>0 DEF Job, JobType, NoVm
<1>3. TypeOK
  <2>1. num \in [Vm -> Number \cup {Controller}]
    BY DEF Init
  <2>2. lost \in [servers : SUBSET Vm, flavors : SUBSET (Number \cup {Controller}), topo : BOOLEAN]
    BY DEF Init
  <2>3. fresh \in 1..(MaxVm + 1) /\ requests \in 0..MaxRequests /\ faults \in 0..MaxFaults /\ kills \in 0..MaxKills
    BY DEF Init
  <2>4. mem \in StateType /\ db \in StateType \cup {NoRecord} /\ pc \in Steps /\ topo \in BOOLEAN
    BY <1>1 DEF Init, Steps
  <2>5. servers \subseteq Vm /\ nodes \subseteq Vm /\ joined \subseteq Vm /\ flavors \subseteq Number \cup {Controller}
    BY DEF Init
  <2> QED BY <1>2, <2>1, <2>2, <2>3, <2>4, <2>5 DEF TypeOK
<1>4. Numbered
  BY <1>1, StateIsRecord DEF Init, Numbered, Sound, NewState
<1> QED BY <1>3, <1>4
  DEF IInv, Init, Recorded, Found, InHand, Pending, Draining, Deleting, Tearing

\* An exception saves the blueprint: the record is as good as the memory.
LEMMA Raising ==
  ASSUME IInv, NEW s \in StateType, Raise(s), TypeOK',
         Sound(s, num, fresh, nodes)', Found' \subseteq s.registered \cap s.os_dict
  PROVE  IInv'
<1>1. s # NoRecord /\ mem' = s /\ db' = s /\ pc' = "idle"
  BY StateIsRecord DEF Raise
<1>2. Numbered'
  BY <1>1 DEF Numbered
<1>3. Recorded'
  BY <1>1 DEF Recorded
<1>4. InHand' /\ Pending' /\ Draining' /\ Deleting' /\ Tearing'
  BY <1>1 DEF InHand, Pending, Draining, Deleting, Tearing
<1> QED BY <1>2, <1>3, <1>4 DEF IInv

\* The common case: the step that raises has changed nothing that is recorded.
LEMMA RaisingAsIs ==
  ASSUME IInv, Raise(mem), TypeOK', pc # "record",
         UNCHANGED <<num, fresh, servers>>, lost'.servers = lost.servers, nodes' \subseteq nodes
  PROVE  IInv'
<1>1. mem \in StateType /\ Sound(mem, num, fresh, nodes)
  BY DEF IInv, TypeOK, Numbered
<1>2. Sound(mem, num, fresh, nodes')
  BY <1>1, SoundSame
<1>3. Sound(mem, num, fresh, nodes)'
  BY <1>2 DEF Raise
<1>4. Found' \subseteq mem.registered \cap mem.os_dict
  BY DEF Raise, IInv, Recorded, Found
<1> QED BY <1>1, <1>2, <1>3, <1>4, Raising

\* A step that changes no worker and makes no server, saved or not.
LEMMA Moving ==
  ASSUME IInv, TypeOK', pc \notin {"gone", "record"}, pc' # "gone",
         UNCHANGED <<num, fresh>>, servers' \subseteq servers, lost'.servers = lost.servers, nodes' \subseteq nodes,
         mem'.vms = mem.vms, mem'.numbers = mem.numbers, mem'.configurators = mem.configurators,
         mem'.pending \subseteq mem.pending,
         mem'.registered = mem.registered, mem'.os_dict = mem.os_dict,
         db' \in {db, mem, mem'}
  PROVE  Numbered' /\ Recorded'
<1>1. /\ mem \in StateType /\ mem' \in StateType /\ db # NoRecord /\ db \in StateType
      /\ Sound(mem, num, fresh, nodes) /\ Sound(db, num, fresh, nodes)
  BY DEF IInv, TypeOK, Numbered
<1>2. Sound(mem', num, fresh, nodes') /\ Sound(mem, num, fresh, nodes') /\ Sound(db, num, fresh, nodes')
  BY <1>1, SoundSame
<1>3. db' # NoRecord
  BY <1>1, StateIsRecord
<1>4. Numbered'
  BY <1>2, <1>3 DEF Numbered
<1>5. Found' \subseteq Found
  BY DEF Found
<1>6. Recorded'
  BY <1>5 DEF IInv, Recorded
<1> QED BY <1>4, <1>6

\* Steps that change neither the workers nor the servers.

\* A flavor is made or found.
LEMMA FlavorStep == IInv /\ create_get_flavor => IInv'
<1> SUFFICES ASSUME IInv, create_get_flavor PROVE IInv'
  OBVIOUS
<1>1. TypeOK'
  <2>1. mem' \in StateType /\ db' \in StateType \cup {NoRecord}
    BY DEF IInv, TypeOK, StateType, InHand, create_get_flavor, Go, GoSaved, Raise
  <2>2. requests' \in 0..MaxRequests /\ faults' \in 0..MaxFaults /\ kills' \in 0..MaxKills
    BY BoundsAssumption DEF IInv, TypeOK, create_get_flavor, Fault, bounds
  <2>3. job' \in JobType
    BY DEF IInv, TypeOK, create_get_flavor, Raise
  <2>4. lost' \in [servers : SUBSET Vm, flavors : SUBSET Known, topo : BOOLEAN]
    BY DEF IInv, TypeOK, StateType, InHand, Known, create_get_flavor
  <2>5. flavors' \subseteq Known /\ pc' \in Steps /\ topo' \in BOOLEAN
    BY DEF IInv, TypeOK, StateType, InHand, Known, Steps, create_get_flavor, Go, GoSaved, Raise, outside
  <2>6. UNCHANGED <<num, fresh, servers, joined>> /\ nodes' \subseteq nodes
    BY DEF create_get_flavor, outside
  <2> QED BY <2>1, <2>2, <2>3, <2>4, <2>5, <2>6 DEF IInv, TypeOK, Known
<1>2. CASE Raise(mem)
  BY <1>1, <1>2, RaisingAsIs DEF IInv, TypeOK, create_get_flavor, outside
<1>3. CASE ~ Raise(mem)
  <2>1. Numbered' /\ Recorded'
    BY <1>1, <1>3, Moving DEF create_get_flavor, Go, GoSaved, outside, IInv, TypeOK, StateType
  <2>2. InHand' /\ Pending' /\ Draining' /\ Deleting' /\ Tearing'
    BY <1>3 DEF IInv, TypeOK, StateType, create_get_flavor, Go, GoSaved, outside, InHand, Pending, Draining, Deleting, Tearing
  <2> QED BY <1>1, <2>1, <2>2 DEF IInv
<1> QED BY <1>2, <1>3

\* A flavor is recorded.
LEMMA AccessStep == IInv /\ add_flavor_access => IInv'
<1> SUFFICES ASSUME IInv, add_flavor_access PROVE IInv'
  OBVIOUS
<1>1. TypeOK'
  <2>1. mem' \in StateType /\ db' \in StateType \cup {NoRecord}
    BY DEF IInv, TypeOK, StateType, InHand, add_flavor_access, Go, GoSaved, Raise
  <2>2. requests' \in 0..MaxRequests /\ faults' \in 0..MaxFaults /\ kills' \in 0..MaxKills
    BY BoundsAssumption DEF IInv, TypeOK, add_flavor_access, Fault, bounds
  <2>3. job' \in JobType
    BY DEF IInv, TypeOK, add_flavor_access, Raise
  <2>4. lost' \in [servers : SUBSET Vm, flavors : SUBSET Known, topo : BOOLEAN]
    BY DEF IInv, TypeOK, StateType, InHand, Known, add_flavor_access
  <2>5. flavors' \subseteq Known /\ pc' \in Steps /\ topo' \in BOOLEAN
    BY DEF IInv, TypeOK, StateType, InHand, Known, Steps, add_flavor_access, Go, GoSaved, Raise, outside
  <2>6. UNCHANGED <<num, fresh, servers, joined>> /\ nodes' \subseteq nodes
    BY DEF add_flavor_access, outside
  <2> QED BY <2>1, <2>2, <2>3, <2>4, <2>5, <2>6 DEF IInv, TypeOK, Known
<1>2. CASE Raise(mem)
  BY <1>1, <1>2, RaisingAsIs DEF IInv, TypeOK, add_flavor_access, outside
<1>3. CASE ~ Raise(mem)
  <2>1. Numbered' /\ Recorded'
    BY <1>1, <1>3, Moving DEF add_flavor_access, Go, GoSaved, outside, IInv, TypeOK, StateType
  <2>2. InHand' /\ Pending' /\ Draining' /\ Deleting' /\ Tearing'
    BY <1>3 DEF IInv, TypeOK, StateType, add_flavor_access, Go, GoSaved, outside, InHand, Pending, Draining, Deleting, Tearing
  <2> QED BY <1>1, <2>1, <2>2 DEF IInv
<1> QED BY <1>2, <1>3

\* A VM is created.
LEMMA NetworkStep == IInv /\ update_net_info_vm => IInv'
<1> SUFFICES ASSUME IInv, update_net_info_vm PROVE IInv'
  OBVIOUS
<1>1. TypeOK'
  <2>1. mem' \in StateType /\ db' \in StateType \cup {NoRecord}
    BY DEF IInv, TypeOK, StateType, InHand, update_net_info_vm, Go, GoSaved, Raise
  <2>2. requests' \in 0..MaxRequests /\ faults' \in 0..MaxFaults /\ kills' \in 0..MaxKills
    BY BoundsAssumption DEF IInv, TypeOK, update_net_info_vm, Fault, bounds
  <2>3. job' \in JobType
    BY DEF IInv, TypeOK, update_net_info_vm, Raise
  <2>4. lost' \in [servers : SUBSET Vm, flavors : SUBSET Known, topo : BOOLEAN]
    BY DEF IInv, TypeOK, StateType, InHand, Known, update_net_info_vm
  <2>5. flavors' \subseteq Known /\ pc' \in Steps /\ topo' \in BOOLEAN
    BY DEF IInv, TypeOK, StateType, InHand, Known, Steps, update_net_info_vm, Go, GoSaved, Raise, outside
  <2>6. UNCHANGED <<num, fresh, servers, joined>> /\ nodes' \subseteq nodes
    BY DEF update_net_info_vm, outside
  <2> QED BY <2>1, <2>2, <2>3, <2>4, <2>5, <2>6 DEF IInv, TypeOK, Known
<1>2. CASE Raise(mem)
  BY <1>1, <1>2, RaisingAsIs DEF IInv, TypeOK, update_net_info_vm, outside
<1>3. CASE ~ Raise(mem)
  <2>1. Numbered' /\ Recorded'
    BY <1>1, <1>3, Moving DEF update_net_info_vm, Go, GoSaved, outside, IInv, TypeOK, StateType
  <2>2. InHand' /\ Pending' /\ Draining' /\ Deleting' /\ Tearing'
    BY <1>3 DEF IInv, TypeOK, StateType, update_net_info_vm, Go, GoSaved, outside, InHand, Pending, Draining, Deleting, Tearing
  <2> QED BY <1>1, <2>1, <2>2 DEF IInv
<1> QED BY <1>2, <1>3

\* The controller is configured.
LEMMA MasterStep == IInv /\ configure_master => IInv'
<1> SUFFICES ASSUME IInv, configure_master PROVE IInv'
  OBVIOUS
<1>1. TypeOK'
  <2>1. mem' \in StateType /\ db' \in StateType \cup {NoRecord}
    BY DEF IInv, TypeOK, StateType, InHand, configure_master, Go, GoSaved, Raise
  <2>2. requests' \in 0..MaxRequests /\ faults' \in 0..MaxFaults /\ kills' \in 0..MaxKills
    BY BoundsAssumption DEF IInv, TypeOK, configure_master, Fault, bounds
  <2>3. job' \in JobType
    BY DEF IInv, TypeOK, configure_master, Raise
  <2>4. lost' \in [servers : SUBSET Vm, flavors : SUBSET Known, topo : BOOLEAN]
    BY DEF IInv, TypeOK, StateType, InHand, Known, configure_master
  <2>5. flavors' \subseteq Known /\ pc' \in Steps /\ topo' \in BOOLEAN
    BY DEF IInv, TypeOK, StateType, InHand, Known, Steps, configure_master, Go, GoSaved, Raise, outside
  <2>6. UNCHANGED <<num, fresh, servers, joined>> /\ nodes' \subseteq nodes
    BY DEF configure_master, outside
  <2> QED BY <2>1, <2>2, <2>3, <2>4, <2>5, <2>6 DEF IInv, TypeOK, Known
<1>2. CASE Raise(mem)
  BY <1>1, <1>2, RaisingAsIs DEF IInv, TypeOK, configure_master, outside
<1>3. CASE ~ Raise(mem)
  <2>1. Numbered' /\ Recorded'
    BY <1>1, <1>3, Moving DEF configure_master, Go, GoSaved, outside, IInv, TypeOK, StateType
  <2>2. InHand' /\ Pending' /\ Draining' /\ Deleting' /\ Tearing'
    BY <1>3 DEF IInv, TypeOK, StateType, configure_master, Go, GoSaved, outside, InHand, Pending, Draining, Deleting, Tearing
  <2> QED BY <1>1, <2>1, <2>2 DEF IInv
<1> QED BY <1>2, <1>3

\* Plugins are installed.
LEMMA PluginStep == IInv /\ install_plugins => IInv'
<1> SUFFICES ASSUME IInv, install_plugins PROVE IInv'
  OBVIOUS
<1>1. TypeOK'
  <2>1. mem' \in StateType /\ db' \in StateType \cup {NoRecord}
    BY DEF IInv, TypeOK, StateType, InHand, install_plugins, Go, GoSaved, Raise
  <2>2. requests' \in 0..MaxRequests /\ faults' \in 0..MaxFaults /\ kills' \in 0..MaxKills
    BY BoundsAssumption DEF IInv, TypeOK, install_plugins, Fault, bounds
  <2>3. job' \in JobType
    BY DEF IInv, TypeOK, install_plugins, Raise
  <2>4. lost' \in [servers : SUBSET Vm, flavors : SUBSET Known, topo : BOOLEAN]
    BY DEF IInv, TypeOK, StateType, InHand, Known, install_plugins
  <2>5. flavors' \subseteq Known /\ pc' \in Steps /\ topo' \in BOOLEAN
    BY DEF IInv, TypeOK, StateType, InHand, Known, Steps, install_plugins, Go, GoSaved, Raise, outside
  <2>6. UNCHANGED <<num, fresh, servers, joined>> /\ nodes' \subseteq nodes
    BY DEF install_plugins, outside
  <2> QED BY <2>1, <2>2, <2>3, <2>4, <2>5, <2>6 DEF IInv, TypeOK, Known
<1>2. CASE Raise(mem)
  BY <1>1, <1>2, RaisingAsIs DEF IInv, TypeOK, install_plugins, outside
<1>3. CASE ~ Raise(mem)
  <2>1. Numbered' /\ Recorded'
    BY <1>1, <1>3, Moving DEF install_plugins, Go, GoSaved, outside, IInv, TypeOK, StateType
  <2>2. InHand' /\ Pending' /\ Draining' /\ Deleting' /\ Tearing'
    BY <1>3 DEF IInv, TypeOK, StateType, install_plugins, Go, GoSaved, outside, InHand, Pending, Draining, Deleting, Tearing
  <2> QED BY <1>1, <2>1, <2>2 DEF IInv
<1> QED BY <1>2, <1>3

\* The cluster is listed.
LEMMA OnboardStep == IInv /\ topology_onboard => IInv'
<1> SUFFICES ASSUME IInv, topology_onboard PROVE IInv'
  OBVIOUS
<1>1. TypeOK'
  <2>1. mem' \in StateType /\ db' \in StateType \cup {NoRecord}
    BY DEF IInv, TypeOK, StateType, InHand, topology_onboard, Go, GoSaved, Raise
  <2>2. requests' \in 0..MaxRequests /\ faults' \in 0..MaxFaults /\ kills' \in 0..MaxKills
    BY BoundsAssumption DEF IInv, TypeOK, topology_onboard, Fault, bounds
  <2>3. job' \in JobType
    BY DEF IInv, TypeOK, topology_onboard, Raise
  <2>4. lost' \in [servers : SUBSET Vm, flavors : SUBSET Known, topo : BOOLEAN]
    BY DEF IInv, TypeOK, StateType, InHand, Known, topology_onboard
  <2>5. flavors' \subseteq Known /\ pc' \in Steps /\ topo' \in BOOLEAN
    BY DEF IInv, TypeOK, StateType, InHand, Known, Steps, topology_onboard, Go, GoSaved, Raise, outside
  <2>6. UNCHANGED <<num, fresh, servers, joined>> /\ nodes' \subseteq nodes
    BY DEF topology_onboard, outside
  <2> QED BY <2>1, <2>2, <2>3, <2>4, <2>5, <2>6 DEF IInv, TypeOK, Known
<1>2. CASE Raise(mem)
  BY <1>1, <1>2, RaisingAsIs DEF IInv, TypeOK, topology_onboard, outside
<1>3. CASE ~ Raise(mem)
  <2>1. Numbered' /\ Recorded'
    BY <1>1, <1>3, Moving DEF topology_onboard, Go, GoSaved, outside, IInv, TypeOK, StateType
  <2>2. InHand' /\ Pending' /\ Draining' /\ Deleting' /\ Tearing'
    BY <1>3 DEF IInv, TypeOK, StateType, topology_onboard, Go, GoSaved, outside, InHand, Pending, Draining, Deleting, Tearing
  <2> QED BY <1>1, <2>1, <2>2 DEF IInv
<1> QED BY <1>2, <1>3

\* An operation ends.
LEMMA EndStep == IInv /\ end => IInv'
<1> SUFFICES ASSUME IInv, end PROVE IInv'
  OBVIOUS
<1>1. TypeOK'
  <2>1. mem' \in StateType /\ db' \in StateType \cup {NoRecord}
    BY DEF IInv, TypeOK, StateType, InHand, end, Go, GoSaved, Raise
  <2>2. requests' \in 0..MaxRequests /\ faults' \in 0..MaxFaults /\ kills' \in 0..MaxKills
    BY BoundsAssumption DEF IInv, TypeOK, end, Fault, bounds
  <2>3. job' \in JobType
    BY DEF IInv, TypeOK, JobType, end, Raise
  <2>4. lost' \in [servers : SUBSET Vm, flavors : SUBSET Known, topo : BOOLEAN]
    BY DEF IInv, TypeOK, StateType, InHand, Known, end
  <2>5. flavors' \subseteq Known /\ pc' \in Steps /\ topo' \in BOOLEAN
    BY DEF IInv, TypeOK, StateType, InHand, Known, Steps, end, Go, GoSaved, Raise, outside
  <2>6. UNCHANGED <<num, fresh, servers, joined>> /\ nodes' \subseteq nodes
    BY DEF end, outside
  <2> QED BY <2>1, <2>2, <2>3, <2>4, <2>5, <2>6 DEF IInv, TypeOK, Known
<1>2. CASE Raise(mem)
  BY <1>1, <1>2, RaisingAsIs DEF IInv, TypeOK, end, outside
<1>3. CASE ~ Raise(mem)
  <2>1. Numbered' /\ Recorded'
    BY <1>1, <1>3, Moving DEF end, Go, GoSaved, outside, IInv, TypeOK, StateType
  <2>2. InHand' /\ Pending' /\ Draining' /\ Deleting' /\ Tearing'
    BY <1>3 DEF IInv, TypeOK, StateType, JobType, end, Go, GoSaved, outside, InHand, Pending, Draining, Deleting, Tearing
  <2> QED BY <1>1, <2>1, <2>2 DEF IInv
<1> QED BY <1>2, <1>3

\* add_worker is taken up.
LEMMA AddStep == IInv /\ add_worker => IInv'
<1> SUFFICES ASSUME IInv, add_worker PROVE IInv'
  OBVIOUS
<1>1. TypeOK'
  <2>1. mem' \in StateType /\ db' \in StateType \cup {NoRecord}
    BY DEF IInv, TypeOK, StateType, InHand, add_worker, Go, GoSaved, Raise, Request, Job, NoVm
  <2>2. requests' \in 0..MaxRequests /\ faults' \in 0..MaxFaults /\ kills' \in 0..MaxKills
    BY BoundsAssumption DEF IInv, TypeOK, add_worker, Fault, bounds, Request, Job, NoVm
  <2>3. job' \in JobType
    BY BoundsAssumption DEF JobType, add_worker, Job, NoVm
  <2>4. lost' \in [servers : SUBSET Vm, flavors : SUBSET Known, topo : BOOLEAN]
    BY DEF IInv, TypeOK, StateType, InHand, Known, add_worker, Request, Job, NoVm
  <2>5. flavors' \subseteq Known /\ pc' \in Steps /\ topo' \in BOOLEAN
    BY DEF IInv, TypeOK, StateType, InHand, Known, Steps, add_worker, Go, GoSaved, Raise, outside, Request, Job, NoVm
  <2>6. UNCHANGED <<num, fresh, servers, joined>> /\ nodes' \subseteq nodes
    BY DEF add_worker, outside, Request, Job, NoVm
  <2> QED BY <2>1, <2>2, <2>3, <2>4, <2>5, <2>6 DEF IInv, TypeOK, Known
<1>2. CASE Raise(mem)
  BY <1>1, <1>2, RaisingAsIs DEF IInv, TypeOK, add_worker, outside, Request, Job, NoVm
<1>3. CASE ~ Raise(mem)
  <2>1. Numbered' /\ Recorded'
    BY <1>1, <1>3, Moving DEF add_worker, Go, GoSaved, outside, IInv, TypeOK, StateType, Request, Job, NoVm
  <2>2. InHand' /\ Pending' /\ Draining' /\ Deleting' /\ Tearing'
    BY <1>3 DEF IInv, TypeOK, StateType, JobType, add_worker, Go, GoSaved, outside, InHand, Pending, Draining, Deleting, Tearing, Request, Job, NoVm
  <2> QED BY <1>1, <2>1, <2>2 DEF IInv
<1> QED BY <1>2, <1>3

\* destroy is taken up.
LEMMA DestroyStep == IInv /\ destroy => IInv'
<1> SUFFICES ASSUME IInv, destroy PROVE IInv'
  OBVIOUS
<1>1. TypeOK'
  <2>1. mem' \in StateType /\ db' \in StateType \cup {NoRecord}
    BY DEF IInv, TypeOK, StateType, InHand, destroy, Go, GoSaved, Raise, Request, Job, NoVm
  <2>2. requests' \in 0..MaxRequests /\ faults' \in 0..MaxFaults /\ kills' \in 0..MaxKills
    BY BoundsAssumption DEF IInv, TypeOK, destroy, Fault, bounds, Request, Job, NoVm
  <2>3. job' \in JobType
    BY DEF IInv, TypeOK, JobType, destroy, Raise, Request, Job, NoVm
  <2>4. lost' \in [servers : SUBSET Vm, flavors : SUBSET Known, topo : BOOLEAN]
    BY DEF IInv, TypeOK, StateType, InHand, Known, destroy, Request, Job, NoVm
  <2>5. flavors' \subseteq Known /\ pc' \in Steps /\ topo' \in BOOLEAN
    BY DEF IInv, TypeOK, StateType, InHand, Known, Steps, destroy, Go, GoSaved, Raise, outside, Request, Job, NoVm
  <2>6. UNCHANGED <<num, fresh, servers, joined>> /\ nodes' \subseteq nodes
    BY DEF destroy, outside, Request, Job, NoVm
  <2> QED BY <2>1, <2>2, <2>3, <2>4, <2>5, <2>6 DEF IInv, TypeOK, Known
<1>2. CASE Raise(mem)
  BY <1>1, <1>2, RaisingAsIs DEF IInv, TypeOK, destroy, outside, Request, Job, NoVm
<1>3. CASE ~ Raise(mem)
  <2>1. Numbered' /\ Recorded'
    BY <1>1, <1>3, Moving DEF destroy, Go, GoSaved, outside, IInv, TypeOK, StateType, Request, Job, NoVm
  <2>2. InHand' /\ Pending' /\ Draining' /\ Deleting' /\ Tearing'
    BY <1>3 DEF IInv, TypeOK, StateType, JobType, destroy, Go, GoSaved, outside, InHand, Pending, Draining, Deleting, Tearing, Request, Job, NoVm
  <2> QED BY <1>1, <2>1, <2>2 DEF IInv
<1> QED BY <1>2, <1>3

\* A node is drained.
LEMMA DrainStep == IInv /\ drain => IInv'
<1> SUFFICES ASSUME IInv, drain PROVE IInv'
  OBVIOUS
<1>1. TypeOK'
  <2>1. mem' \in StateType /\ db' \in StateType \cup {NoRecord}
    BY DEF IInv, TypeOK, StateType, InHand, drain, Go, GoSaved, Raise
  <2>2. requests' \in 0..MaxRequests /\ faults' \in 0..MaxFaults /\ kills' \in 0..MaxKills
    BY BoundsAssumption DEF IInv, TypeOK, drain, Fault, bounds
  <2>3. job' \in JobType
    <3>1. job \in JobType
      BY DEF IInv, TypeOK
    <3>2. [job EXCEPT !.at = @ + 1] \in JobType /\ [job EXCEPT !.at = 1] \in JobType
      BY <3>1, NextTarget, JobAt
    <3> QED BY <3>1, <3>2 DEF drain, Raise
  <2>4. lost' \in [servers : SUBSET Vm, flavors : SUBSET Known, topo : BOOLEAN]
    BY DEF IInv, TypeOK, StateType, InHand, Known, drain
  <2>5. flavors' \subseteq Known /\ pc' \in Steps /\ topo' \in BOOLEAN
    BY DEF IInv, TypeOK, StateType, InHand, Known, Steps, drain, Go, GoSaved, Raise, outside
  <2>6. UNCHANGED <<num, fresh, servers, joined>> /\ nodes' \subseteq nodes
    BY DEF drain, outside
  <2> QED BY <2>1, <2>2, <2>3, <2>4, <2>5, <2>6 DEF IInv, TypeOK, Known
<1>2. CASE Raise(mem)
  BY <1>1, <1>2, RaisingAsIs DEF IInv, TypeOK, drain, outside
<1>3. CASE ~ Raise(mem)
  <2>1. Numbered' /\ Recorded'
    BY <1>1, <1>3, Moving DEF drain, Go, GoSaved, outside, IInv, TypeOK, StateType
  <2>2. InHand' /\ Pending' /\ Draining' /\ Deleting' /\ Tearing'
    <3> DEFINE T == job.targets
               L == 1..Len(T)
               v == T[job.at]
               named == {n \in nodes : num[n] = num[v]}
    <3>1. /\ T \in Seq(Vm \cup {NoVm}) /\ Len(T) \in Nat /\ job.at \in Nat \ {0}
          /\ \A i \in L : T[i] # NoVm =>
                /\ T[i] \in mem.vms
                /\ i < job.at =>
                      /\ T[i] \in mem.configurators \ nodes
                      /\ \A j \in L : i < j /\ j < job.at => T[i] # T[j]
      BY DEF IInv, TypeOK, JobType, drain, Draining
    <3>2. CASE job.at <= Len(T) /\ v # NoVm /\ named # {} /\ nodes' = nodes \ named /\ pc' = "drain"
                 /\ mem' = mem /\ job' = [job EXCEPT !.at = @ + 1]
      <4>1. job'.targets = T /\ job'.at = job.at + 1
        BY <3>2 DEF IInv, TypeOK, JobType
      <4>2. job.at \in L
        BY <3>1, <3>2
      <4>3. v \in mem.vms
        BY <3>1, <3>2, <4>2
      <4>4. PICK n \in nodes : num[n] = num[v]
        BY <3>2
      <4>5. n = v /\ v \in mem.configurators
        BY <4>3, <4>4 DEF IInv, Numbered, Sound
      <4>6. v \in nodes /\ v \notin nodes'
        BY <4>4, <4>5, <3>2
      <4>7. \A i \in L : i < job.at /\ T[i] # NoVm => T[i] # v
        BY <3>1, <4>6
      <4>8. ASSUME NEW i \in L, T[i] # NoVm
            PROVE  /\ T[i] \in mem.vms
                   /\ i < job.at + 1 =>
                      /\ T[i] \in mem.configurators \ nodes'
                      /\ \A j \in L : i < j /\ j < job.at + 1 => T[i] # T[j]
        <5>1. CASE i < job.at
          <6>1. T[i] \in mem.configurators \ nodes /\ T[i] \in mem.vms
            BY <3>1, <4>8, <5>1
          <6>2. \A j \in L : i < j /\ j < job.at => T[i] # T[j]
            BY <3>1, <4>8, <5>1
          <6>3. \A j \in L : j < job.at + 1 => j < job.at \/ j = job.at
            BY <3>1
          <6> QED BY <6>1, <6>2, <6>3, <4>7, <4>8, <5>1, <3>2
        <5>2. CASE i = job.at
          BY <3>1, <4>3, <4>5, <4>6, <5>2
        <5>3. CASE i > job.at
          BY <3>1, <4>8, <5>3
        <5> QED BY <3>1, <5>1, <5>2, <5>3
      <4> QED BY <3>2, <4>1, <4>8 DEF InHand, Pending, Draining, Deleting, Tearing
    <3>3. CASE job.at <= Len(T) /\ v = NoVm /\ nodes' = nodes /\ pc' = "drain"
                 /\ mem' = mem /\ job' = [job EXCEPT !.at = @ + 1]
      <4>1. job'.targets = T /\ job'.at = job.at + 1
        BY <3>3 DEF IInv, TypeOK, JobType
      <4>2. ASSUME NEW i \in L, T[i] # NoVm
            PROVE  /\ T[i] \in mem.vms
                   /\ i < job.at + 1 =>
                      /\ T[i] \in mem.configurators \ nodes'
                      /\ \A j \in L : i < j /\ j < job.at + 1 => T[i] # T[j]
        <5>1. i < job.at + 1 => i < job.at
          BY <3>1, <3>3, <4>2
        <5>2. \A j \in L : j < job.at + 1 => j < job.at \/ j = job.at
          BY <3>1
        <5> QED BY <3>1, <3>3, <4>2, <5>1, <5>2
      <4> QED BY <3>3, <4>1, <4>2 DEF InHand, Pending, Draining, Deleting, Tearing
    <3>4. CASE job.at > Len(T) /\ nodes' = nodes /\ pc' = "destroying" /\ mem' = mem
                 /\ job' = [job EXCEPT !.at = 1]
      <4>1. job'.targets = T /\ job'.at = 1
        BY <3>4 DEF IInv, TypeOK, JobType
      <4>2. \A i \in L : i < job.at
        BY <3>1, <3>4
      <4>3. \A i \in L : T[i] # NoVm =>
               /\ T[i] \in mem.configurators \ nodes
               /\ \A j \in L : i < j => T[i] # T[j]
        BY <3>1, <4>2
      <4> QED BY <3>4, <4>1, <4>3 DEF InHand, Pending, Draining, Deleting, Tearing
    <3> QED BY <1>3, <3>2, <3>3, <3>4 DEF drain, Go, GoSaved
  <2> QED BY <1>1, <2>1, <2>2 DEF IInv
<1> QED BY <1>2, <1>3

\* The cluster leaves the topology.
LEMMA OffboardStep == IInv /\ offboard => IInv'
<1> SUFFICES ASSUME IInv, offboard PROVE IInv'
  OBVIOUS
<1>1. TypeOK'
  <2>1. mem' \in StateType /\ db' \in StateType \cup {NoRecord}
    BY DEF IInv, TypeOK, StateType, InHand, offboard, Go, GoSaved, Raise, Die
  <2>2. requests' \in 0..MaxRequests /\ faults' \in 0..MaxFaults /\ kills' \in 0..MaxKills
    BY BoundsAssumption DEF IInv, TypeOK, offboard, Fault, bounds, Die
  <2>3. job' \in JobType
    BY DEF IInv, TypeOK, StateType, JobType, offboard, Die
  <2>4. lost' \in [servers : SUBSET Vm, flavors : SUBSET Known, topo : BOOLEAN]
    BY DEF IInv, TypeOK, StateType, InHand, Known, offboard, Die
  <2>5. flavors' \subseteq Known /\ pc' \in Steps /\ topo' \in BOOLEAN
    BY DEF IInv, TypeOK, StateType, InHand, Known, Steps, offboard, Go, GoSaved, Raise, outside, Die
  <2>6. UNCHANGED <<num, fresh, servers, joined>> /\ nodes' \subseteq nodes
    BY DEF offboard, outside, Die
  <2> QED BY <2>1, <2>2, <2>3, <2>4, <2>5, <2>6 DEF IInv, TypeOK, Known
<1>2. CASE Raise(mem)
  BY <1>1, <1>2, RaisingAsIs DEF IInv, TypeOK, offboard, outside, Die
<1>3. CASE ~ Raise(mem)
  <2>1. Numbered' /\ Recorded'
    BY <1>1, <1>3, Moving DEF offboard, Go, GoSaved, outside, IInv, TypeOK, StateType, Die
  <2>2. InHand' /\ Pending' /\ Draining' /\ Deleting' /\ Tearing'
    <3>1. servers \ lost.servers \subseteq mem.registered
      BY DEF IInv, Recorded, Found, offboard
    <3> QED BY <3>1 DEF IInv, TypeOK, StateType, JobType, offboard, Go, outside, InHand, Pending, Draining, Deleting, Tearing, Die
  <2> QED BY <1>1, <2>1, <2>2 DEF IInv
<1> QED BY <1>2, <1>3

\* The flavors are deleted.
LEMMA CleanupStep == IInv /\ final_cleanup => IInv'
<1> SUFFICES ASSUME IInv, final_cleanup PROVE IInv'
  OBVIOUS
<1>1. TypeOK'
  <2>1. mem' \in StateType /\ db' \in StateType \cup {NoRecord}
    BY DEF IInv, TypeOK, StateType, InHand, final_cleanup, Go, GoSaved, Raise, Die
  <2>2. requests' \in 0..MaxRequests /\ faults' \in 0..MaxFaults /\ kills' \in 0..MaxKills
    BY BoundsAssumption DEF IInv, TypeOK, final_cleanup, Fault, bounds, Die
  <2>3. job' \in JobType
    BY DEF IInv, TypeOK, final_cleanup, Raise, Die
  <2>4. lost' \in [servers : SUBSET Vm, flavors : SUBSET Known, topo : BOOLEAN]
    BY DEF IInv, TypeOK, StateType, InHand, Known, final_cleanup, Die
  <2>5. flavors' \subseteq Known /\ pc' \in Steps /\ topo' \in BOOLEAN
    BY DEF IInv, TypeOK, StateType, InHand, Known, Steps, final_cleanup, Go, GoSaved, Raise, outside, Die
  <2>6. UNCHANGED <<num, fresh, servers, joined>> /\ nodes' \subseteq nodes
    BY DEF final_cleanup, outside, Die
  <2> QED BY <2>1, <2>2, <2>3, <2>4, <2>5, <2>6 DEF IInv, TypeOK, Known
<1>2. CASE Raise(mem)
  BY <1>1, <1>2, RaisingAsIs DEF IInv, TypeOK, final_cleanup, outside, Die
<1>3. CASE ~ Raise(mem)
  <2>1. Numbered' /\ Recorded'
    BY <1>1, <1>3, Moving DEF final_cleanup, Go, GoSaved, outside, IInv, TypeOK, StateType, Die
  <2>2. InHand' /\ Pending' /\ Draining' /\ Deleting' /\ Tearing'
    BY <1>3 DEF IInv, TypeOK, StateType, final_cleanup, Go, GoSaved, outside, InHand, Pending, Draining, Deleting, Tearing, Die
  <2> QED BY <1>1, <2>1, <2>2 DEF IInv
<1> QED BY <1>2, <1>3

\* The ranges of the cluster are released.
LEMMA RangesStep == IInv /\ release_ranges => IInv'
<1> SUFFICES ASSUME IInv, release_ranges PROVE IInv'
  OBVIOUS
<1>1. TypeOK'
  <2>1. mem' \in StateType /\ db' \in StateType \cup {NoRecord}
    BY DEF IInv, TypeOK, StateType, InHand, release_ranges, Go, GoSaved, Raise, Die
  <2>2. requests' \in 0..MaxRequests /\ faults' \in 0..MaxFaults /\ kills' \in 0..MaxKills
    BY BoundsAssumption DEF IInv, TypeOK, release_ranges, Fault, bounds, Die
  <2>3. job' \in JobType
    BY DEF IInv, TypeOK, release_ranges, Raise, Die
  <2>4. lost' \in [servers : SUBSET Vm, flavors : SUBSET Known, topo : BOOLEAN]
    BY DEF IInv, TypeOK, StateType, InHand, Known, release_ranges, Die
  <2>5. flavors' \subseteq Known /\ pc' \in Steps /\ topo' \in BOOLEAN
    BY DEF IInv, TypeOK, StateType, InHand, Known, Steps, release_ranges, Go, GoSaved, Raise, outside, Die
  <2>6. UNCHANGED <<num, fresh, servers, joined>> /\ nodes' \subseteq nodes
    BY DEF release_ranges, outside, Die
  <2> QED BY <2>1, <2>2, <2>3, <2>4, <2>5, <2>6 DEF IInv, TypeOK, Known
<1>2. CASE Raise(mem)
  BY <1>1, <1>2, RaisingAsIs DEF IInv, TypeOK, release_ranges, outside, Die
<1>3. CASE ~ Raise(mem)
  <2>1. Numbered' /\ Recorded'
    BY <1>1, <1>3, Moving DEF release_ranges, Go, GoSaved, outside, IInv, TypeOK, StateType, Die
  <2>2. InHand' /\ Pending' /\ Draining' /\ Deleting' /\ Tearing'
    BY <1>3 DEF IInv, TypeOK, StateType, release_ranges, Go, GoSaved, outside, InHand, Pending, Draining, Deleting, Tearing, Die
  <2> QED BY <1>1, <2>1, <2>2 DEF IInv
<1> QED BY <1>2, <1>3

\* create_server is answered or raises.
LEMMA ServerStep == IInv /\ create_server => IInv'
<1> SUFFICES ASSUME IInv, create_server PROVE IInv'
  OBVIOUS
<1>0. job.vm \in Vm /\ pc = "server"
  BY DEF IInv, TypeOK, StateType, InHand, create_server
<1>1. TypeOK'
  <2>1. mem' \in StateType /\ db' \in StateType \cup {NoRecord}
    BY DEF IInv, TypeOK, create_server, Go, Raise
  <2>2. requests' \in 0..MaxRequests /\ faults' \in 0..MaxFaults /\ kills' \in 0..MaxKills
    BY BoundsAssumption DEF IInv, TypeOK, create_server, Fault
  <2>3. job' = job /\ pc' \in Steps
    BY DEF Steps, create_server, Go, Raise
  <2>4. lost' \in [servers : SUBSET Vm, flavors : SUBSET Known, topo : BOOLEAN]
    BY <1>0 DEF IInv, TypeOK, Known, create_server
  <2>5. servers' \subseteq Vm
    BY <1>0 DEF IInv, TypeOK, create_server
  <2>6. UNCHANGED <<num, fresh, joined, nodes, flavors, topo>>
    BY DEF create_server
  <2> QED BY <2>1, <2>2, <2>3, <2>4, <2>5, <2>6 DEF IInv, TypeOK, Known
<1>2. /\ mem \in StateType /\ Sound(mem, num, fresh, nodes)
      /\ servers \ lost.servers \subseteq mem.registered \cap mem.os_dict
      /\ db # NoRecord /\ Sound(db, num, fresh, nodes)
      /\ servers \ lost.servers \subseteq db.registered \cap db.os_dict
  BY <1>0 DEF IInv, TypeOK, Numbered, Recorded, Found
<1>3. CASE Raise(mem)
  <2>1. servers' \ lost'.servers \subseteq servers \ lost.servers
    BY <1>3 DEF create_server, Go, Raise, IInv, TypeOK
  <2>2. Found' \subseteq mem.registered \cap mem.os_dict
    BY <1>2, <2>1 DEF Found
  <2>3. Sound(mem, num', fresh', nodes')
    BY <1>2 DEF create_server
  <2> QED BY <1>1, <1>2, <1>3, <2>2, <2>3, Raising
<1>4. CASE ~ Raise(mem)
  <2>1. /\ pc' = "record" /\ mem' = mem /\ db' = db /\ job' = job /\ lost' = lost
        /\ servers' = servers \cup {job.vm} /\ UNCHANGED <<num, fresh, nodes>>
    BY <1>4 DEF create_server, Go
  <2>2. Found' \subseteq servers \ lost.servers
    BY <2>1 DEF Found
  <2>3. Numbered' /\ Recorded'
    BY <1>2, <2>1, <2>2 DEF Numbered, Recorded
  <2>4. InHand' /\ Pending' /\ Draining' /\ Deleting' /\ Tearing'
    BY <1>0, <2>1 DEF IInv, InHand, Pending, Draining, Deleting, Tearing
  <2> QED BY <1>1, <2>3, <2>4 DEF IInv
<1> QED BY <1>3, <1>4

\* The id of a server is saved.
LEMMA RecordStep == IInv /\ record_server => IInv'
<1> SUFFICES ASSUME IInv, record_server PROVE IInv'
  OBVIOUS
<1> DEFINE s == [mem EXCEPT !.os_dict = @ \cup {job.vm}]
<1>0. /\ pc = "record" /\ pc' = "network" /\ mem' = s /\ db' = s
      /\ UNCHANGED <<num, fresh, outside, job, lost, bounds>>
      /\ job.vm \in mem.registered /\ mem \in StateType
  BY DEF IInv, TypeOK, InHand, record_server, GoSaved
<1>1. /\ s \in StateType /\ s # NoRecord /\ s.vms = mem.vms /\ s.numbers = mem.numbers
      /\ s.configurators = mem.configurators /\ s.pending = mem.pending
      /\ s.registered = mem.registered /\ s.master = mem.master
      /\ s.os_dict = mem.os_dict \cup {job.vm}
  BY <1>0, StateIsRecord DEF StateType
<1> HIDE DEF s
<1>2. TypeOK'
  BY <1>0, <1>1 DEF IInv, TypeOK, Steps, outside, bounds
<1>3. Sound(s, num, fresh, nodes)
  BY <1>1, SoundSame DEF IInv, Numbered
<1>4. Numbered'
  BY <1>0, <1>1, <1>3 DEF Numbered, outside
<1>5. Found' \subseteq Found \cup {job.vm}
  BY <1>0 DEF Found, outside
<1>6. Recorded'
  BY <1>0, <1>1, <1>5 DEF IInv, Recorded
<1>7. InHand' /\ Pending' /\ Draining' /\ Deleting' /\ Tearing'
  BY <1>0, <1>1 DEF IInv, InHand, Pending, Draining, Deleting, Tearing
<1> QED BY <1>2, <1>4, <1>6, <1>7 DEF IInv

\* A worker gets its configurator.
LEMMA ConfiguratorStep == IInv /\ add_configurator => IInv'
<1> SUFFICES ASSUME IInv, add_configurator PROVE IInv'
  OBVIOUS
<1> DEFINE s == IF job.vm = mem.master THEN mem
                ELSE [mem EXCEPT !.configurators = @ \cup {job.vm}, !.pending = @ \cup {job.vm}]
<1>0. /\ pc = "configurator" /\ pc' = "deploy" /\ mem' = s /\ db' = db
      /\ job' = [job EXCEPT !.plan = Tail(@)] /\ job.plan # <<>>
      /\ UNCHANGED <<num, fresh, outside, lost, bounds>>
      /\ job.vm \in mem.registered /\ mem \in StateType
      /\ job.vm = mem.master \/ job.vm \in mem.vms
  BY DEF IInv, TypeOK, InHand, add_configurator, Go
<1>1. /\ s \in StateType /\ s.vms = mem.vms /\ s.numbers = mem.numbers
      /\ s.registered = mem.registered /\ s.os_dict = mem.os_dict
      /\ \/ s.configurators = mem.configurators /\ s.pending = mem.pending
         \/ /\ job.vm \in mem.vms
            /\ s.configurators = mem.configurators \cup {job.vm}
            /\ s.pending = mem.pending \cup {job.vm}
  BY <1>0 DEF StateType
<1> HIDE DEF s
<1>2. job' \in JobType
  <2>1. job \in JobType /\ Tail(job.plan) \in Seq(Machine)
    BY <1>0, TailOfPlan DEF IInv, TypeOK, JobType
  <2> QED BY <1>0, <2>1 DEF JobType
<1>3. TypeOK'
  BY <1>0, <1>1, <1>2 DEF IInv, TypeOK, Steps, outside, bounds
<1>4. Sound(s, num, fresh, nodes)
  BY <1>1 DEF IInv, Numbered, Sound
<1>5. Numbered'
  BY <1>0, <1>4 DEF IInv, Numbered, outside
<1>6. Found' \subseteq Found
  BY <1>0 DEF Found, outside
<1>7. Recorded'
  BY <1>0, <1>1, <1>6 DEF IInv, Recorded
<1>8. InHand' /\ Pending' /\ Draining' /\ Deleting' /\ Tearing'
  BY <1>0 DEF InHand, Pending, Draining, Deleting, Tearing
<1> QED BY <1>3, <1>5, <1>7, <1>8 DEF IInv

\* The record is deleted.
LEMMA ForgetStep == IInv /\ destroy_ng_blue => IInv'
<1> SUFFICES ASSUME IInv, destroy_ng_blue PROVE IInv'
  OBVIOUS
<1>1. /\ pc = "forget" /\ pc' = "gone" /\ db' = NoRecord
      /\ UNCHANGED <<mem, num, fresh, outside, job, lost, bounds>>
  BY DEF destroy_ng_blue
<1>2. TypeOK'
  BY <1>1 DEF IInv, TypeOK, Steps, outside, bounds
<1>3. Numbered' /\ Recorded'
  BY <1>1 DEF IInv, Numbered, Recorded, Found, outside
<1>4. InHand' /\ Pending' /\ Draining' /\ Deleting' /\ Tearing'
  BY <1>1 DEF IInv, InHand, Pending, Draining, Deleting, Tearing, outside
<1> QED BY <1>2, <1>3, <1>4 DEF IInv

\* The process comes back with its record; the server that was about to be
\* saved is lost.
LEMMA KillStep == IInv /\ kill => IInv'
<1> SUFFICES ASSUME IInv, kill PROVE IInv'
  OBVIOUS
<1>1. /\ pc \notin {"idle", "gone"} /\ pc' = "idle" /\ mem' = db
      /\ job' = Job("none", <<>>, <<>>)
      /\ UNCHANGED <<db, num, fresh, outside, requests, faults>>
      /\ db \in StateType /\ db # NoRecord
      /\ lost'.servers = IF pc = "record" THEN lost.servers \cup {job.vm} ELSE lost.servers
  BY DEF IInv, TypeOK, Numbered, kill
<1>2. TypeOK'
  <2>1. job' \in JobType
    BY <1>1 DEF Job, JobType, NoVm
  <2>2. kills' \in 0..MaxKills
    BY BoundsAssumption DEF IInv, TypeOK, kill
  <2>3. pc \in {"access", "server", "record"} => job.vm \in Vm
    BY DEF IInv, TypeOK, StateType, InHand
  <2>4. lost'.servers \subseteq Vm
    BY <1>1, <2>3 DEF IInv, TypeOK
  <2>5. lost'.flavors \subseteq Known
    BY <2>3 DEF IInv, TypeOK, Known, kill
  <2>6. lost'.topo \in BOOLEAN
    BY DEF IInv, TypeOK, StateType, kill
  <2>7. lost' = [servers |-> lost'.servers, flavors |-> lost'.flavors, topo |-> lost'.topo]
    BY DEF kill
  <2>8. lost' \in [servers : SUBSET Vm, flavors : SUBSET Known, topo : BOOLEAN]
    BY <2>4, <2>5, <2>6, <2>7
  <2> QED BY <1>1, <2>1, <2>2, <2>8 DEF IInv, TypeOK, Steps, Known, outside
<1>3. Numbered'
  BY <1>1 DEF IInv, Numbered, outside
<1>4. Found' \subseteq Found
  BY <1>1 DEF Found, outside
<1>5. Recorded'
  BY <1>1, <1>4 DEF IInv, Recorded
<1>6. InHand' /\ Pending' /\ Draining' /\ Deleting' /\ Tearing'
  BY <1>1 DEF InHand, Pending, Draining, Deleting, Tearing
<1> QED BY <1>2, <1>3, <1>5, <1>6 DEF IInv

\* A worker that has left the cluster and the VIM leaves the blueprint.
LEMMA DeregisterStep == IInv /\ deregister => IInv'
<1> SUFFICES ASSUME IInv, deregister PROVE IInv'
  OBVIOUS
<1> DEFINE T == job.targets
           L == 1..Len(T)
           v == T[job.at]
           s == remove_worker(v)
<1>0. /\ pc = "deregister" /\ pc' = "destroying" /\ mem' = s /\ db' = db
      /\ job' = [job EXCEPT !.at = @ + 1] /\ job \in JobType
      /\ UNCHANGED <<num, fresh, outside, lost, bounds>>
      /\ job.at \in L /\ Len(T) \in Nat /\ job.at \in Nat \ {0}
      /\ v # NoVm /\ v \notin servers \ lost.servers
      /\ \A i \in L : i >= job.at /\ T[i] # NoVm =>
            /\ T[i] \in mem.configurators \ nodes
            /\ \A j \in L : i < j => T[i] # T[j]
  BY DEF IInv, TypeOK, JobType, Deleting, deregister, Go
<1>1. v \in mem.configurators \ nodes
  BY <1>0
<1>2. TypeOK /\ Sound(mem, num, fresh, nodes)
  BY DEF IInv, Numbered
<1>3. /\ s \in StateType /\ Sound(s, num, fresh, nodes)
      /\ s.configurators = mem.configurators \ {v}
      /\ s.registered = mem.registered \ {v} /\ s.os_dict = mem.os_dict
  BY <1>1, <1>2, SoundRemove
<1> HIDE DEF s
<1>4. job' \in JobType /\ job'.targets = T /\ job'.at = job.at + 1
  BY <1>0, NextTarget
<1>5. TypeOK'
  BY <1>0, <1>2, <1>3, <1>4 DEF TypeOK, Steps, outside, bounds
<1>6. Numbered'
  BY <1>0, <1>3 DEF IInv, Numbered, outside
<1>7. Found' = Found /\ v \notin Found
  BY <1>0 DEF Found, outside
<1>8. Recorded'
  BY <1>0, <1>3, <1>7 DEF IInv, Recorded
<1>9. \A i \in L : i >= job.at + 1 /\ T[i] # NoVm =>
         /\ T[i] \in s.configurators \ nodes
         /\ \A j \in L : i < j => T[i] # T[j]
  <2>1. SUFFICES ASSUME NEW i \in L, i >= job.at + 1, T[i] # NoVm
                 PROVE  /\ T[i] \in s.configurators \ nodes
                        /\ \A j \in L : i < j => T[i] # T[j]
    OBVIOUS
  <2>2. i >= job.at /\ job.at < i
    BY <1>0, <2>1
  <2>3. v # T[i]
    BY <1>0, <2>2
  <2> QED BY <1>0, <1>3, <2>1, <2>2, <2>3
<1>10. InHand' /\ Pending' /\ Draining' /\ Tearing'
  BY <1>0 DEF InHand, Pending, Draining, Tearing
<1>11. Deleting'
  BY <1>0, <1>4, <1>9 DEF Deleting, outside
<1> QED BY <1>5, <1>6, <1>8, <1>10, <1>11 DEF IInv

\* The server of a worker is deleted, or the loop goes on.
LEMMA DeleteStep == IInv /\ destroy_workers => IInv'
<1> SUFFICES ASSUME IInv, destroy_workers PROVE IInv'
  OBVIOUS
<1> DEFINE T == job.targets
           L == 1..Len(T)
           v == T[job.at]
<1>0. /\ pc = "destroying" /\ mem \in StateType /\ job \in JobType
      /\ Len(T) \in Nat /\ job.at \in Nat \ {0}
      /\ servers \subseteq Vm /\ servers \ lost.servers \subseteq mem.os_dict
      /\ \A i \in L : i >= job.at /\ T[i] # NoVm =>
            /\ T[i] \in mem.configurators \ nodes
            /\ \A j \in L : i < j => T[i] # T[j]
  BY DEF IInv, TypeOK, JobType, Recorded, Found, Deleting, destroy_workers
<1>1. /\ UNCHANGED <<num, fresh, flavors, nodes, joined, topo, lost, requests, kills>>
      /\ servers' \subseteq servers /\ mem' = mem /\ db' \in {db, mem}
      /\ pc' \in {"deregister", "idle", "destroying", "end"}
  BY DEF destroy_workers, destroy_vm, Go, GoSaved, Raise
<1>2. TypeOK'
  <2>1. job' \in JobType
    BY <1>0, NextTarget DEF destroy_workers, Raise
  <2>2. faults' \in 0..MaxFaults
    BY BoundsAssumption DEF IInv, TypeOK, destroy_workers, Fault
  <2> QED BY <1>0, <1>1, <2>1, <2>2 DEF IInv, TypeOK, Steps
<1>3. Numbered' /\ Recorded'
  BY <1>0, <1>1, <1>2, Moving
<1>4. InHand' /\ Pending' /\ Draining' /\ Tearing'
  BY <1>1 DEF InHand, Pending, Draining, Tearing
<1>5. Deleting'
  <2>1. CASE pc' = "deregister"
    <3>1. job' = job /\ job.at <= Len(T) /\ v # NoVm /\ destroy_vm(v)
      BY <2>1 DEF destroy_workers, Go, Raise
    <3>2. v \notin servers' \ lost.servers
      BY <1>0, <3>1 DEF destroy_vm
    <3>3. job.at \in L
      BY <1>0, <3>1
    <3> QED BY <1>0, <1>1, <2>1, <3>1, <3>2, <3>3 DEF Deleting
  <2>2. CASE pc' = "destroying"
    <3>1. job' = [job EXCEPT !.at = @ + 1]
      BY <2>2 DEF destroy_workers, GoSaved, Go, Raise
    <3>2. job'.targets = T /\ job'.at = job.at + 1
      BY <1>0, <3>1 DEF JobType
    <3>3. \A i \in L : i >= job.at + 1 => i >= job.at
      BY <1>0
    <3> QED BY <1>0, <1>1, <2>2, <3>2, <3>3 DEF Deleting
  <2>3. CASE pc' \in {"idle", "end"}
    BY <2>3 DEF Deleting
  <2> QED BY <1>1, <2>1, <2>2, <2>3
<1> QED BY <1>2, <1>3, <1>4, <1>5 DEF IInv

\* destroy deletes the servers one by one.
LEMMA TeardownStep == IInv /\ teardown => IInv'
<1> SUFFICES ASSUME IInv, teardown PROVE IInv'
  OBVIOUS
<1> DEFINE v == Least(job.left)
<1>0. /\ pc = "teardown" /\ mem \in StateType /\ job \in JobType /\ job.left \subseteq Vm
      /\ servers \subseteq Vm /\ servers \ lost.servers \subseteq job.left
      /\ servers \ lost.servers \subseteq mem.os_dict
  BY DEF IInv, TypeOK, JobType, Recorded, Found, Tearing, teardown
<1>1. /\ UNCHANGED <<num, fresh, flavors, nodes, joined, topo, lost, requests, kills>>
      /\ servers' \subseteq servers /\ mem' = mem /\ db' \in {db, mem}
      /\ pc' \in {"teardown", "dead", "cleanup"}
  BY DEF teardown, destroy_vm, Go, GoSaved, Die
<1>2. TypeOK'
  <2>1. job' \in JobType
    BY <1>0 DEF teardown, JobType
  <2>2. faults' \in 0..MaxFaults
    BY BoundsAssumption DEF IInv, TypeOK, teardown, Fault
  <2> QED BY <1>0, <1>1, <2>1, <2>2 DEF IInv, TypeOK, Steps
<1>3. Numbered' /\ Recorded'
  BY <1>0, <1>1, <1>2, Moving
<1>4. InHand' /\ Pending' /\ Draining' /\ Deleting'
  BY <1>1 DEF InHand, Pending, Draining, Deleting
<1>5. Tearing'
  <2>1. CASE pc' = "teardown"
    <3>1. job' = [job EXCEPT !.left = @ \ {v}] /\ destroy_vm(v)
      BY <2>1 DEF teardown, Go, Die
    <3>2. job'.left = job.left \ {v}
      BY <1>0, <3>1 DEF JobType
    <3>3. v \notin servers' \ lost.servers
      BY <1>0, <3>1 DEF destroy_vm
    <3> QED BY <1>0, <1>1, <2>1, <3>2, <3>3 DEF Tearing
  <2>2. CASE pc' = "cleanup"
    <3>1. job.left = {}
      BY <2>2 DEF teardown, GoSaved, Die
    <3> QED BY <1>0, <1>1, <2>2, <3>1 DEF Tearing
  <2>3. CASE pc' = "dead"
    BY <2>3 DEF Tearing
  <2> QED BY <1>1, <2>1, <2>2, <2>3
<1> QED BY <1>2, <1>3, <1>4, <1>5 DEF IInv

\* del_workers is taken up.
LEMMA DelStep == IInv /\ del_workers => IInv'
<1> SUFFICES ASSUME IInv, del_workers PROVE IInv'
  OBVIOUS
<1>0. PICK names \in DelRequests :
         /\ Request
         /\ \/ /\ mem.master = NoVm
               /\ GoSaved("idle", mem)
               /\ job' = Job("del_workers", <<>>, <<>>)
            \/ /\ mem.master # NoVm /\ Cardinality(mem.vms) <= 1
               /\ GoSaved("end", mem)
               /\ job' = Job("del_workers", <<>>, <<>>)
            \/ /\ mem.master # NoVm /\ Cardinality(mem.vms) > 1
               /\ GoSaved("drain", mem)
               /\ job' = Job("del_workers", <<>>, Targets(names))
  BY DEF del_workers
<1>1. /\ pc = "idle" /\ mem' = mem /\ db' = mem /\ pc' \in {"idle", "end", "drain"}
      /\ UNCHANGED <<num, fresh, outside, lost, faults, kills>>
      /\ mem \in StateType
  BY <1>0 DEF Request, GoSaved, IInv, TypeOK
<1> DEFINE T == Targets(names)
<1>2. Len(names) \in Nat
  BY BoundsAssumption
<1>3. \A i \in 1..Len(names) : T[i] = NoVm \/ T[i] \in mem.vms
  BY DEF Targets
<1>4. T \in Seq(Vm \cup {NoVm}) /\ Len(T) = Len(names)
  <2>1. \A i \in 1..Len(names) : T[i] \in Vm \cup {NoVm}
    BY <1>1, <1>3 DEF StateType
  <2>2. T \in [1..Len(names) -> Vm \cup {NoVm}]
    BY <2>1 DEF Targets
  <2> HIDE DEF T
  <2> QED BY <1>2, <2>2
<1> HIDE DEF T
<1>5. \/ job' = Job("del_workers", <<>>, <<>>) /\ pc' # "drain"
      \/ job' = Job("del_workers", <<>>, T)
  BY <1>0 DEF T, GoSaved
<1>6. job' \in JobType
  <2>1. <<>> \in Seq(Vm \cup {NoVm})
    OBVIOUS
  <2> QED BY <1>4, <1>5, <2>1, JobMade
<1>7. TypeOK'
  <2>1. requests' \in 0..MaxRequests
    BY <1>0, BoundsAssumption DEF IInv, TypeOK, Request
  <2> QED BY <1>1, <1>6, <2>1 DEF IInv, TypeOK, Steps, outside
<1>8. Numbered' /\ Recorded'
  BY <1>1, <1>7, Moving DEF outside
<1>9. InHand' /\ Pending' /\ Deleting' /\ Tearing'
  BY <1>1 DEF InHand, Pending, Deleting, Tearing
<1>10. Draining'
  <2>1. CASE pc' = "drain"
    <3>1. job'.targets = T /\ job'.at = 1
      BY <1>5, <2>1 DEF Job
    <3> QED BY <1>1, <1>2, <1>3, <1>4, <3>1 DEF Draining
  <2> QED BY <2>1 DEF Draining
<1> QED BY <1>7, <1>8, <1>9, <1>10 DEF IInv

\* A worker joins the cluster, or all have.
LEMMA Day0Step == IInv /\ day0conf => IInv'
<1> SUFFICES ASSUME IInv, day0conf PROVE IInv'
  OBVIOUS
<1> DEFINE v == Least(job.left)
<1>0. /\ pc = "workers" /\ mem \in StateType /\ job \in JobType
      /\ job.left \subseteq mem.pending /\ job.left \subseteq Vm
      /\ Sound(mem, num, fresh, nodes)
      /\ servers \ lost.servers \subseteq mem.registered \cap mem.os_dict
      /\ UNCHANGED <<num, fresh, servers, flavors, topo, lost, requests, kills>>
  BY DEF IInv, TypeOK, JobType, Numbered, Recorded, Found, Pending, day0conf
<1>1. CASE job.left = {}
  <2> DEFINE s == [mem EXCEPT !.pending = {}]
  <2>1. /\ pc' \in {"plugins", "end"} /\ mem' = s /\ db' = db
        /\ UNCHANGED <<job, nodes, joined, faults>>
    BY <1>1 DEF day0conf, Go
  <2>2. /\ s \in StateType /\ s.vms = mem.vms /\ s.numbers = mem.numbers
        /\ s.configurators = mem.configurators /\ s.pending \subseteq mem.pending
        /\ s.registered = mem.registered /\ s.os_dict = mem.os_dict
    BY <1>0 DEF StateType
  <2> HIDE DEF s
  <2>3. TypeOK'
    BY <1>0, <2>1, <2>2 DEF IInv, TypeOK, Steps
  <2>4. Numbered' /\ Recorded'
    BY <1>0, <2>1, <2>2, <2>3, Moving
  <2>5. InHand' /\ Pending' /\ Draining' /\ Deleting' /\ Tearing'
    BY <2>1 DEF InHand, Pending, Draining, Deleting, Tearing
  <2> QED BY <2>3, <2>4, <2>5 DEF IInv
<1>2. CASE job.left # {}
  <2>1. configure_worker(v)
    BY <1>2 DEF day0conf
  <2>2. v \in job.left
    BY <1>0, <1>2, LeastIsMember DEF Vm
  <2>3. v \in mem.configurators /\ v \in Vm
    BY <1>0, <2>2 DEF Sound
  <2> HIDE DEF v
  <2>4. /\ mem' = mem /\ db' = mem /\ nodes' \subseteq nodes \cup {v} /\ joined' \subseteq joined \cup {v}
        /\ \/ Raise(mem)
           \/ pc' = "workers" /\ job' = [job EXCEPT !.left = @ \ {v}]
        /\ pc' \in {"idle", "workers"}
    BY <2>1 DEF configure_worker, GoSaved, Raise
  <2>5. job' \in JobType /\ job'.left \subseteq job.left
    <3>1. [job EXCEPT !.left = @ \ {v}] \in JobType /\ [job EXCEPT !.left = @ \ {v}].left \subseteq job.left
      BY <1>0 DEF JobType
    <3> QED BY <1>0, <2>4, <3>1 DEF Raise
  <2>6. TypeOK'
    <3>1. faults' \in 0..MaxFaults
      BY <2>1, BoundsAssumption DEF IInv, TypeOK, configure_worker, Fault
    <3>2. nodes' \subseteq Vm /\ joined' \subseteq Vm
      BY <2>3, <2>4 DEF IInv, TypeOK
    <3> QED BY <1>0, <2>4, <2>5, <3>1, <3>2 DEF IInv, TypeOK, Steps
  <2>7. Sound(mem, num, fresh, nodes')
    BY <1>0, <2>3, <2>4 DEF Sound
  <2>8. Numbered'
    BY <1>0, <2>4, <2>7, StateIsRecord DEF Numbered
  <2>9. Recorded'
    BY <1>0, <2>4 DEF Recorded, Found
  <2>10. InHand' /\ Pending' /\ Draining' /\ Deleting' /\ Tearing'
    BY <1>0, <2>4, <2>5 DEF InHand, Pending, Draining, Deleting, Tearing
  <2> QED BY <2>6, <2>8, <2>9, <2>10 DEF IInv
<1> QED BY <1>1, <1>2

\* A machine of the plan is registered, or the plan is done.
LEMMA DeployStep == IInv /\ deploy_area => IInv'
<1> SUFFICES ASSUME IInv, deploy_area PROVE IInv'
  OBVIOUS
<1>0. /\ pc = "deploy" /\ mem \in StateType /\ job \in JobType /\ num \in [Vm -> Known]
      /\ db \in StateType /\ db # NoRecord /\ fresh \in 1..(MaxVm + 1) /\ MaxVm \in Nat
      /\ Sound(mem, num, fresh, nodes) /\ Sound(db, num, fresh, nodes)
      /\ servers \ lost.servers \subseteq mem.registered \cap mem.os_dict
      /\ servers \ lost.servers \subseteq db.registered \cap db.os_dict
      /\ UNCHANGED <<outside, lost, bounds>>
  BY BoundsAssumption DEF IInv, TypeOK, Known, Numbered, Recorded, Found, deploy_area
<1>1. CASE deployed
  <2> DEFINE k == [job EXCEPT !.left = mem.pending]
  <2>1. /\ pc' \in {"master", "workers"} /\ mem' = mem /\ db' = db /\ job' = k
        /\ UNCHANGED <<num, fresh>>
    BY <1>1 DEF deployed, Go
  <2>2. k \in JobType /\ k.left = mem.pending
    BY <1>0 DEF JobType, StateType
  <2> HIDE DEF k
  <2>3. TypeOK'
    BY <1>0, <2>1, <2>2 DEF IInv, TypeOK, Steps, outside, bounds
  <2>4. Numbered' /\ Recorded'
    BY <1>0, <2>1, <2>3, Moving DEF outside
  <2>5. InHand' /\ Pending' /\ Draining' /\ Deleting' /\ Tearing'
    BY <2>1, <2>2 DEF InHand, Pending, Draining, Deleting, Tearing
  <2> QED BY <2>3, <2>4, <2>5 DEF IInv
<1>2. CASE Number \subseteq mem.numbers /\ Raise(mem) /\ UNCHANGED <<num, fresh>>
  <2>1. TypeOK'
    BY <1>0, <1>2 DEF IInv, TypeOK, Steps, Raise, outside, bounds
  <2> QED BY <1>0, <1>2, <2>1, RaisingAsIs DEF outside
<1>3. ASSUME NEW x \in Known, NEW s \in StateType, fresh \in Vm,
             num' = [num EXCEPT ![fresh] = x], fresh' = fresh + 1,
             Sound(s, [num EXCEPT ![fresh] = x], fresh + 1, nodes),
             mem.registered \subseteq s.registered, s.os_dict = mem.os_dict,
             \/ Raise(s)
             \/ /\ Go("flavor", s) /\ job' = [job EXCEPT !.vm = fresh] /\ job.plan # <<>>
                /\ fresh \in s.registered
                /\ fresh = s.master \/ fresh \in s.vms
      PROVE  IInv'
  <2>1. /\ mem' = s /\ db' \in {db, s} /\ pc' \in {"idle", "flavor"}
    BY <1>3 DEF Raise, Go
  <2>2. [job EXCEPT !.vm = fresh] \in JobType
    BY <1>0, <1>3 DEF JobType
  <2>3. [job EXCEPT !.vm = fresh].vm = fresh /\ [job EXCEPT !.vm = fresh].plan = job.plan
    BY <1>0 DEF JobType
  <2>4. TypeOK'
    <3>1. num' \in [Vm -> Known]
      BY <1>0, <1>3
    <3>2. fresh' \in 1..(MaxVm + 1)
      BY <1>0, <1>3 DEF Vm
    <3>3. job' \in JobType
      BY <1>0, <1>3, <2>2 DEF Raise
    <3> QED BY <1>0, <1>3, <2>1, <3>1, <3>2, <3>3 DEF IInv, TypeOK, Known, Steps, outside, bounds
  <2>5. Sound(db, [num EXCEPT ![fresh] = x], fresh + 1, nodes)
    BY <1>0, <1>3, SoundFresh
  <2>6. Numbered'
    BY <1>0, <1>3, <2>1, <2>5, StateIsRecord DEF Numbered, outside
  <2>7. Recorded'
    BY <1>0, <1>3, <2>1 DEF Recorded, Found, outside
  <2>8. InHand'
    BY <1>3, <2>1, <2>3 DEF InHand, Raise, Go
  <2>9. Pending' /\ Draining' /\ Deleting' /\ Tearing'
    BY <2>1 DEF Pending, Draining, Deleting, Tearing
  <2> QED BY <2>4, <2>6, <2>7, <2>8, <2>9 DEF IInv
<1>4. CASE job.plan # <<>> /\ deploy_master_node
  <2> DEFINE r == [mem EXCEPT !.master = fresh]
             s == [mem EXCEPT !.master = fresh, !.registered = @ \cup {fresh}]
  <2>1. /\ fresh \in Vm /\ num' = [num EXCEPT ![fresh] = Controller] /\ fresh' = fresh + 1
        /\ \/ Raise(r)
           \/ Go("flavor", s) /\ job' = [job EXCEPT !.vm = fresh]
    BY <1>4 DEF deploy_master_node
  <2>2. /\ s \in StateType /\ s.vms = mem.vms /\ s.numbers = mem.numbers
        /\ s.configurators = mem.configurators /\ s.pending = mem.pending
        /\ s.registered = mem.registered \cup {fresh} /\ s.os_dict = mem.os_dict
        /\ s.master = fresh
    BY <1>0, <2>1 DEF StateType
  <2>6. /\ r \in StateType /\ r.vms = mem.vms /\ r.numbers = mem.numbers
        /\ r.configurators = mem.configurators /\ r.pending = mem.pending
        /\ r.registered = mem.registered /\ r.os_dict = mem.os_dict
    BY <1>0, <2>1 DEF StateType
  <2> HIDE DEF r, s
  <2>3. Sound(s, num, fresh, nodes) /\ Sound(r, num, fresh, nodes)
    BY <1>0, <2>2, <2>6, SoundSame
  <2>4. Controller \in Known
    BY DEF Known
  <2>5. /\ Sound(s, [num EXCEPT ![fresh] = Controller], fresh + 1, nodes)
        /\ Sound(r, [num EXCEPT ![fresh] = Controller], fresh + 1, nodes)
    BY <1>0, <2>1, <2>2, <2>3, <2>4, <2>6, SoundFresh
  <2>7. CASE Raise(r)
    BY <1>3, <1>4, <2>1, <2>4, <2>5, <2>6, <2>7
  <2>8. CASE Go("flavor", s) /\ job' = [job EXCEPT !.vm = fresh]
    BY <1>3, <1>4, <2>1, <2>2, <2>4, <2>5, <2>8
  <2> QED BY <2>1, <2>7, <2>8
<1>5. CASE /\ job.plan # <<>> /\ deploy_worker
           /\ ~ (Number \subseteq mem.numbers) /\ fresh \in Vm
  <2> DEFINE x == reserve_worker_number
             s == [mem EXCEPT !.numbers = @ \cup {x}, !.vms = @ \cup {fresh}]
             t == [s EXCEPT !.registered = @ \cup {fresh}]
  <2>1. /\ num' = [num EXCEPT ![fresh] = x] /\ fresh' = fresh + 1
        /\ \/ Raise(s)
           \/ Go("flavor", t) /\ job' = [job EXCEPT !.vm = fresh]
    BY <1>5 DEF deploy_worker
  <2>2. x \in Number \ mem.numbers /\ x \in Known
    <3>1. Number \ mem.numbers \in SUBSET Nat /\ Number \ mem.numbers # {}
      BY <1>5, BoundsAssumption DEF Number
    <3> QED BY <3>1, LeastIsMember DEF reserve_worker_number, Known
  <2> HIDE DEF x
  <2>3. /\ s \in StateType /\ s.vms = mem.vms \cup {fresh} /\ s.numbers = mem.numbers \cup {x}
        /\ s.configurators = mem.configurators /\ s.pending = mem.pending
        /\ s.registered = mem.registered /\ s.os_dict = mem.os_dict
    BY <1>0, <1>5, <2>2 DEF StateType
  <2>4. /\ t \in StateType /\ t.vms = mem.vms \cup {fresh} /\ t.numbers = mem.numbers \cup {x}
        /\ t.configurators = mem.configurators /\ t.pending = mem.pending
        /\ t.registered = mem.registered \cup {fresh} /\ t.os_dict = mem.os_dict
    BY <1>0, <1>5, <2>2 DEF StateType
  <2> HIDE DEF s, t
  <2>5. Sound(s, [num EXCEPT ![fresh] = x], fresh + 1, nodes)
    BY <1>0, <1>5, <2>2, <2>3, SoundAdd
  <2>6. Sound(t, [num EXCEPT ![fresh] = x], fresh + 1, nodes)
    BY <1>0, <1>5, <2>2, <2>4, SoundAdd
  <2>7. CASE Raise(s)
    BY <1>3, <1>5, <2>1, <2>2, <2>3, <2>5, <2>7
  <2>8. CASE Go("flavor", t) /\ job' = [job EXCEPT !.vm = fresh]
    BY <1>3, <1>5, <2>1, <2>2, <2>4, <2>6, <2>8
  <2> QED BY <2>1, <2>7, <2>8
<1> QED BY <1>1, <1>2, <1>4, <1>5 DEF deploy_area, deploy_worker

\* Every step keeps the invariant.
LEMMA Inductive == IInv /\ [Next]_vars => IInv'
<1> SUFFICES ASSUME IInv, [Next]_vars PROVE IInv'
  OBVIOUS
<1>1. CASE deploy_area \/ create_vm \/ add_configurator
  BY <1>1, DeployStep, FlavorStep, AccessStep, ServerStep, RecordStep, NetworkStep, ConfiguratorStep
  DEF create_vm
<1>2. CASE configure_master \/ day0conf \/ install_plugins \/ topology_onboard
  BY <1>2, MasterStep, Day0Step, PluginStep, OnboardStep
<1>3. CASE drain \/ destroy_workers \/ deregister
  BY <1>3, DrainStep, DeleteStep, DeregisterStep
<1>4. CASE offboard \/ teardown \/ final_cleanup \/ release_ranges \/ destroy_ng_blue \/ end
  BY <1>4, OffboardStep, TeardownStep, CleanupStep, RangesStep, ForgetStep, EndStep
<1>5. CASE add_worker \/ del_workers \/ destroy \/ kill
  BY <1>5, AddStep, DelStep, DestroyStep, KillStep
<1>6. CASE UNCHANGED vars
  BY <1>6 DEF vars, outside, bounds, IInv, TypeOK, Numbered, Recorded, Found, InHand, Pending,
              Draining, Deleting, Tearing
<1> QED BY <1>1, <1>2, <1>3, <1>4, <1>5, <1>6 DEF Next, Operate

-----------------------------------------------------------------------------
(* The theorems.                                                           *)

\* The invariant holds throughout: every create, add_worker, del_workers and
\* destroy, however it fails and wherever the process is killed, keeps it.
THEOREM Invariance == Spec => []IInv
BY Initially, Inductive, PTL DEF Spec

\* Every variable of the model keeps its type.
THEOREM TypeCorrect == Spec => []TypeOK
<1>1. IInv => TypeOK
  BY DEF IInv
<1> QED BY <1>1, Invariance, PTL

\* worker_numbers are the numbers of the workers, and no two workers share one,
\* in memory and in the record (reserve_worker_number, remove_worker).
THEOREM NumbersAreUnique == Spec => []NumbersMatch
<1>1. IInv => NumbersMatch
  <2>1. ASSUME IInv, pc # "gone" PROVE NumbersMatch
    BY <2>1 DEF IInv, Numbered, Sound, NumbersMatch
  <2>2. ASSUME IInv, pc = "gone" PROVE NumbersMatch
    <3>1. db = NoRecord
      BY <2>2 DEF IInv, Numbered
    <3> QED BY <2>2, <3>1 DEF IInv, Numbered, Sound, NumbersMatch
  <2> QED BY <2>1, <2>2
<1> QED BY <1>1, Invariance, PTL

\* The record leads to every server that is not lost (create_vm saves the id of
\* a server before anything else can fail; destroy_vm deletes before
\* deregister_resource forgets).
THEOREM ServersRecorded == Spec => []ServersAreRecorded
<1>1. IInv => ServersAreRecorded
  <2>1. ASSUME IInv, pc # "gone" PROVE ServersAreRecorded
    BY <2>1 DEF IInv, Numbered, Recorded, Found, ServersAreRecorded
  <2>2. ASSUME IInv, pc = "gone" PROVE ServersAreRecorded
    BY <2>2 DEF IInv, Tearing, ServersAreRecorded
  <2> QED BY <2>1, <2>2
<1> QED BY <1>1, Invariance, PTL

\* A server is deleted only after its node has left the cluster, unless the
\* whole blueprint is destroyed (the playbook of del_workers has drained every
\* worker before the first destroy_vm).
THEOREM DrainedBeforeDeleted == Spec => NodeLeavesFirst
<1> DEFINE Left == \A v \in servers \ servers' : pc = "teardown" \/ v \notin nodes
<1>1. IInv /\ [Next]_vars => [Left]_vars
  <2> SUFFICES ASSUME IInv, Next PROVE Left
    OBVIOUS
  <2>1. CASE destroy_workers
    <3>1. SUFFICES ASSUME NEW v \in servers \ servers' PROVE v \notin nodes
      OBVIOUS
    <3>2. /\ job.at <= Len(job.targets) /\ job.targets[job.at] # NoVm /\ v = job.targets[job.at]
          /\ pc = "destroying"
      BY <2>1, <3>1 DEF destroy_workers, destroy_vm
    <3>3. job.at \in 1..Len(job.targets) /\ job.at >= job.at
      BY <3>2 DEF IInv, TypeOK, JobType
    <3> QED BY <3>2, <3>3 DEF IInv, Deleting
  <2>2. CASE teardown
    BY <2>2 DEF teardown
  <2>3. CASE ~ (destroy_workers \/ teardown)
    <3>1. servers \subseteq servers'
      BY <2>3 DEF Next, Operate, deploy_area, create_vm, create_get_flavor, add_flavor_access, create_server,
         record_server, update_net_info_vm, add_configurator, configure_master, day0conf, install_plugins,
         topology_onboard, drain, deregister, offboard, final_cleanup, release_ranges, destroy_ng_blue, end, add_worker,
         del_workers, destroy, Request, kill, outside
    <3> QED BY <3>1
  <2> QED BY <2>1, <2>2, <2>3
<1> QED BY <1>1, Invariance, PTL DEF Spec, NodeLeavesFirst

-----------------------------------------------------------------------------
(* What a destroyed cluster leaves.                                        *)

\* The flavors that are not lost, but for the ones that create_vm has in hand.
FlavorsKept ==
    LET kept == flavors \ lost.flavors
        inhand(steps) == IF pc \in steps THEN {num[job.vm]} ELSE {}
    IN /\ kept \subseteq mem.flavors \cup inhand({"access"})
       /\ pc # "gone" => kept \subseteq db.flavors \cup inhand({"access", "server", "record"})
       /\ pc \in {"ranges", "forget", "gone"} => kept = {}

\* The entry of the topology has its flag, but for the one about to be saved.
EntryKept ==
    /\ topo /\ ~ lost.topo => mem.onboarded
    /\ topo /\ ~ lost.topo /\ pc # "gone" =>
          db.onboarded \/ (pc = "end" /\ job.op = "create")
    /\ pc \in {"plugins", "onboard"} => job.op = "create"
    /\ pc \in {"teardown", "cleanup", "ranges", "forget", "gone"} /\ topo => lost.topo

\* A new blueprint has nothing to leave.
LEMMA NothingAtFirst == Init => FlavorsKept /\ EntryKept
BY DEF Init, FlavorsKept, EntryKept

\* What a step does to the flavors.
LEMMA FlavorsStep == IInv /\ FlavorsKept /\ [Next]_vars => FlavorsKept'
<1> SUFFICES ASSUME IInv, FlavorsKept, [Next]_vars PROVE FlavorsKept'
  OBVIOUS
<1>0. /\ mem \in StateType /\ (pc # "gone" => db \in StateType) /\ job \in JobType
      /\ lost \in [servers : SUBSET Vm, flavors : SUBSET Known, topo : BOOLEAN]
  BY DEF IInv, TypeOK, Known, Numbered
<1>1. CASE deploy_area
  <2>1. /\ mem'.flavors = mem.flavors /\ mem'.onboarded = mem.onboarded
        /\ db' = db \/ db' = mem'
        /\ pc = "deploy" /\ pc' \in {"flavor", "idle", "master", "workers"}
        /\ UNCHANGED <<flavors, topo, lost>>
    <3>1. CASE deployed
      BY <1>1, <3>1 DEF deploy_area, deployed, Go, outside
    <3>2. CASE deploy_master_node
      BY <1>0, <1>1, <3>2 DEF deploy_area, deploy_master_node, Go, Raise, StateType, outside
    <3>3. CASE deploy_worker
      BY <1>0, <1>1, <3>3 DEF deploy_area, deploy_worker, Go, Raise, StateType, outside
    <3> QED BY <1>1, <3>1, <3>2, <3>3 DEF deploy_area
  <2> QED BY <2>1 DEF FlavorsKept
<1>2. CASE create_get_flavor
  BY <1>0, <1>2 DEF FlavorsKept, StateType, JobType, create_get_flavor, Go, Raise
<1>3. CASE add_flavor_access
  BY <1>0, <1>3 DEF FlavorsKept, StateType, JobType, add_flavor_access, Go, Raise, outside
<1>4. CASE create_server
  BY <1>0, <1>4 DEF FlavorsKept, StateType, JobType, create_server, Go, Raise
<1>5. CASE record_server
  BY <1>0, <1>5 DEF FlavorsKept, StateType, JobType, record_server, GoSaved, outside
<1>6. CASE update_net_info_vm
  BY <1>0, <1>6 DEF FlavorsKept, StateType, JobType, update_net_info_vm, GoSaved, Raise, outside
<1>7. CASE add_configurator
  BY <1>0, <1>7 DEF FlavorsKept, StateType, JobType, add_configurator, Go, outside
<1>8. CASE configure_master
  BY <1>0, <1>8 DEF FlavorsKept, StateType, JobType, configure_master, Raise, outside
<1>9. CASE day0conf
  BY <1>0, <1>9 DEF FlavorsKept, StateType, JobType, day0conf, configure_worker, Go, GoSaved, Raise
<1>10. CASE install_plugins
  BY <1>0, <1>10 DEF FlavorsKept, StateType, JobType, install_plugins, Go, Raise, outside
<1>11. CASE topology_onboard
  BY <1>0, <1>11 DEF FlavorsKept, StateType, JobType, topology_onboard, Go, Raise
<1>12. CASE drain
  BY <1>0, <1>12 DEF FlavorsKept, StateType, JobType, drain, Go, GoSaved, Raise
<1>13. CASE destroy_workers
  BY <1>0, <1>13 DEF FlavorsKept, StateType, JobType, destroy_workers, Go, GoSaved, Raise
<1>14. CASE deregister
  <2>1. /\ pc = "deregister" /\ pc' = "destroying" /\ mem' = remove_worker(job.targets[job.at]) /\ db' = db
        /\ UNCHANGED <<flavors, topo, lost>> /\ job' = [job EXCEPT !.at = @ + 1]
    BY <1>14 DEF deregister, Go, outside
  <2>2. mem'.flavors = mem.flavors /\ mem'.onboarded = mem.onboarded
    BY <1>0, <2>1 DEF remove_worker, StateType
  <2> QED BY <2>1, <2>2 DEF FlavorsKept
<1>15. CASE offboard
  BY <1>0, <1>15 DEF FlavorsKept, StateType, JobType, offboard, Go, Die
<1>16. CASE teardown
  BY <1>0, <1>16 DEF FlavorsKept, StateType, JobType, teardown, Go, GoSaved, Die
<1>17. CASE final_cleanup
  BY <1>0, <1>17 DEF FlavorsKept, StateType, JobType, final_cleanup, Go, Die
<1>25. CASE release_ranges
  BY <1>0, <1>25 DEF FlavorsKept, StateType, JobType, release_ranges, Go, Die, outside
<1>18. CASE destroy_ng_blue
  BY <1>0, <1>18 DEF FlavorsKept, StateType, JobType, destroy_ng_blue, outside
<1>19. CASE end
  BY <1>0, <1>19 DEF FlavorsKept, StateType, JobType, end, GoSaved, outside
<1>20. CASE add_worker
  BY <1>0, <1>20 DEF FlavorsKept, StateType, JobType, add_worker, Request, GoSaved, Job, outside
<1>21. CASE del_workers
  BY <1>0, <1>21 DEF FlavorsKept, StateType, JobType, del_workers, Request, GoSaved, Job, outside
<1>22. CASE destroy
  BY <1>0, <1>22 DEF FlavorsKept, StateType, JobType, destroy, Request, Go, Job, outside
<1>23. CASE kill
  BY <1>0, <1>23 DEF FlavorsKept, StateType, JobType, kill, Job, outside
<1>24. CASE UNCHANGED vars
  BY <1>24 DEF vars, outside, FlavorsKept
<1> QED BY <1>1, <1>2, <1>3, <1>4, <1>5, <1>6, <1>7, <1>8, <1>9, <1>10, <1>11, <1>12, <1>13, <1>14, <1>15, <1>16, <1>17, <1>18, <1>19, <1>20, <1>21, <1>22, <1>23, <1>24, <1>25
  DEF Next, Operate, create_vm

\* What a step does to the topology.
LEMMA EntryStep == IInv /\ EntryKept /\ [Next]_vars => EntryKept'
<1> SUFFICES ASSUME IInv, EntryKept, [Next]_vars PROVE EntryKept'
  OBVIOUS
<1>0. /\ mem \in StateType /\ (pc # "gone" => db \in StateType) /\ job \in JobType
      /\ lost \in [servers : SUBSET Vm, flavors : SUBSET Known, topo : BOOLEAN]
  BY DEF IInv, TypeOK, Known, Numbered
<1>1. CASE deploy_area
  <2>1. /\ mem'.flavors = mem.flavors /\ mem'.onboarded = mem.onboarded
        /\ db' = db \/ db' = mem'
        /\ pc = "deploy" /\ pc' \in {"flavor", "idle", "master", "workers"}
        /\ UNCHANGED <<flavors, topo, lost>>
    <3>1. CASE deployed
      BY <1>1, <3>1 DEF deploy_area, deployed, Go, outside
    <3>2. CASE deploy_master_node
      BY <1>0, <1>1, <3>2 DEF deploy_area, deploy_master_node, Go, Raise, StateType, outside
    <3>3. CASE deploy_worker
      BY <1>0, <1>1, <3>3 DEF deploy_area, deploy_worker, Go, Raise, StateType, outside
    <3> QED BY <1>1, <3>1, <3>2, <3>3 DEF deploy_area
  <2> QED BY <2>1 DEF EntryKept
<1>2. CASE create_get_flavor
  BY <1>0, <1>2 DEF EntryKept, StateType, JobType, create_get_flavor, Go, Raise
<1>3. CASE add_flavor_access
  BY <1>0, <1>3 DEF EntryKept, StateType, JobType, add_flavor_access, Go, Raise, outside
<1>4. CASE create_server
  BY <1>0, <1>4 DEF EntryKept, StateType, JobType, create_server, Go, Raise
<1>5. CASE record_server
  BY <1>0, <1>5 DEF EntryKept, StateType, JobType, record_server, GoSaved, outside
<1>6. CASE update_net_info_vm
  BY <1>0, <1>6 DEF EntryKept, StateType, JobType, update_net_info_vm, GoSaved, Raise, outside
<1>7. CASE add_configurator
  BY <1>0, <1>7 DEF EntryKept, StateType, JobType, add_configurator, Go, outside
<1>8. CASE configure_master
  BY <1>0, <1>8 DEF EntryKept, StateType, JobType, configure_master, Raise, outside
<1>9. CASE day0conf
  BY <1>0, <1>9 DEF EntryKept, StateType, JobType, day0conf, configure_worker, Go, GoSaved, Raise
<1>10. CASE install_plugins
  BY <1>0, <1>10 DEF EntryKept, StateType, JobType, install_plugins, Go, Raise, outside
<1>11. CASE topology_onboard
  BY <1>0, <1>11 DEF EntryKept, StateType, JobType, topology_onboard, Go, Raise
<1>12. CASE drain
  BY <1>0, <1>12 DEF EntryKept, StateType, JobType, drain, Go, GoSaved, Raise
<1>13. CASE destroy_workers
  BY <1>0, <1>13 DEF EntryKept, StateType, JobType, destroy_workers, Go, GoSaved, Raise
<1>14. CASE deregister
  <2>1. /\ pc = "deregister" /\ pc' = "destroying" /\ mem' = remove_worker(job.targets[job.at]) /\ db' = db
        /\ UNCHANGED <<flavors, topo, lost>> /\ job' = [job EXCEPT !.at = @ + 1]
    BY <1>14 DEF deregister, Go, outside
  <2>2. mem'.flavors = mem.flavors /\ mem'.onboarded = mem.onboarded
    BY <1>0, <2>1 DEF remove_worker, StateType
  <2> QED BY <2>1, <2>2 DEF EntryKept
<1>15. CASE offboard
  BY <1>0, <1>15 DEF EntryKept, StateType, JobType, offboard, Go, Die
<1>16. CASE teardown
  BY <1>0, <1>16 DEF EntryKept, StateType, JobType, teardown, Go, GoSaved, Die
<1>17. CASE final_cleanup
  BY <1>0, <1>17 DEF EntryKept, StateType, JobType, final_cleanup, Go, Die
<1>25. CASE release_ranges
  BY <1>0, <1>25 DEF EntryKept, StateType, JobType, release_ranges, Go, Die, outside
<1>18. CASE destroy_ng_blue
  BY <1>0, <1>18 DEF EntryKept, StateType, JobType, destroy_ng_blue, outside
<1>19. CASE end
  BY <1>0, <1>19 DEF EntryKept, StateType, JobType, end, GoSaved, outside
<1>20. CASE add_worker
  BY <1>0, <1>20 DEF EntryKept, StateType, JobType, add_worker, Request, GoSaved, Job, outside
<1>21. CASE del_workers
  BY <1>0, <1>21 DEF EntryKept, StateType, JobType, del_workers, Request, GoSaved, Job, outside
<1>22. CASE destroy
  BY <1>0, <1>22 DEF EntryKept, StateType, JobType, destroy, Request, Go, Job, outside
<1>23. CASE kill
  BY <1>0, <1>23 DEF EntryKept, StateType, JobType, kill, Job, outside
<1>24. CASE UNCHANGED vars
  BY <1>24 DEF vars, outside, EntryKept
<1> QED BY <1>1, <1>2, <1>3, <1>4, <1>5, <1>6, <1>7, <1>8, <1>9, <1>10, <1>11, <1>12, <1>13, <1>14, <1>15, <1>16, <1>17, <1>18, <1>19, <1>20, <1>21, <1>22, <1>23, <1>24, <1>25
  DEF Next, Operate, create_vm

\* A destroyed blueprint leaves no server, flavor or entry of the topology that
\* its record has known (BlueprintNG.destroy, K8sBlueprint.destroy,
\* final_cleanup, destroy_ng_blue).
THEOREM NothingLeft == Spec => []ClusterLeavesNothing
<1>1. IInv /\ FlavorsKept /\ EntryKept => ClusterLeavesNothing
  BY DEF IInv, Tearing, FlavorsKept, EntryKept, ClusterLeavesNothing
<1>2. Spec => [](FlavorsKept /\ EntryKept)
  BY NothingAtFirst, FlavorsStep, EntryStep, Invariance, PTL DEF Spec
<1> QED BY <1>1, <1>2, Invariance, PTL

-----------------------------------------------------------------------------
(* What del_workers has deleted.                                           *)

\* A configurator is made for a VM whose server is known, so that a worker
\* with one can be destroyed (create_vm before add_configurator).
ConfiguratorsKept ==
    /\ mem.configurators \subseteq mem.os_dict
    /\ pc # "gone" => db.configurators \subseteq db.os_dict
    /\ pc \in {"network", "configurator"} => job.vm \in mem.os_dict

\* What a step does to the configurators.
LEMMA ConfiguratorsStep == IInv /\ IInv' /\ ConfiguratorsKept /\ [Next]_vars => ConfiguratorsKept'
<1> SUFFICES ASSUME IInv, IInv', ConfiguratorsKept, [Next]_vars PROVE ConfiguratorsKept'
  OBVIOUS
<1>0. /\ mem \in StateType /\ mem' \in StateType /\ job \in JobType /\ job' \in JobType
      /\ (pc # "gone" => db \in StateType)
  BY DEF IInv, TypeOK, Numbered
<1>1. CASE deploy_area
  <2>1. CASE deployed
    BY <1>0, <1>1, <2>1 DEF ConfiguratorsKept, deploy_area, deployed, Go
  <2>2. CASE deploy_master_node
    BY <1>0, <1>1, <2>2 DEF ConfiguratorsKept, StateType, JobType, deploy_area, deploy_master_node, Go, Raise
  <2>3. CASE deploy_worker
    BY <1>0, <1>1, <2>3 DEF ConfiguratorsKept, StateType, JobType, deploy_area, deploy_worker, Go, Raise
  <2> QED BY <1>1, <2>1, <2>2, <2>3 DEF deploy_area
<1>2. CASE create_get_flavor
  BY <1>0, <1>2 DEF ConfiguratorsKept, StateType, JobType, create_get_flavor, Go, Raise
<1>3. CASE add_flavor_access
  BY <1>0, <1>3 DEF ConfiguratorsKept, StateType, JobType, add_flavor_access, Go, Raise, outside
<1>4. CASE create_server
  BY <1>0, <1>4 DEF ConfiguratorsKept, StateType, JobType, create_server, Go, Raise
<1>5. CASE record_server
  BY <1>0, <1>5 DEF ConfiguratorsKept, StateType, JobType, record_server, GoSaved, outside
<1>6. CASE update_net_info_vm
  BY <1>0, <1>6 DEF ConfiguratorsKept, StateType, JobType, update_net_info_vm, GoSaved, Raise, outside
<1>7. CASE add_configurator
  BY <1>0, <1>7 DEF ConfiguratorsKept, StateType, JobType, add_configurator, Go, outside
<1>8. CASE configure_master
  BY <1>0, <1>8 DEF ConfiguratorsKept, StateType, JobType, configure_master, Raise, outside
<1>9. CASE day0conf
  BY <1>0, <1>9 DEF ConfiguratorsKept, StateType, JobType, day0conf, configure_worker, Go, GoSaved, Raise
<1>10. CASE install_plugins
  BY <1>0, <1>10 DEF ConfiguratorsKept, StateType, JobType, install_plugins, Go, Raise, outside
<1>11. CASE topology_onboard
  BY <1>0, <1>11 DEF ConfiguratorsKept, StateType, JobType, topology_onboard, Go, Raise
<1>12. CASE drain
  BY <1>0, <1>12 DEF ConfiguratorsKept, StateType, JobType, drain, Go, GoSaved, Raise
<1>13. CASE destroy_workers
  BY <1>0, <1>13 DEF ConfiguratorsKept, StateType, JobType, destroy_workers, Go, GoSaved, Raise
<1>14. CASE deregister
  <2>1. /\ pc = "deregister" /\ pc' = "destroying" /\ mem' = remove_worker(job.targets[job.at]) /\ db' = db
        /\ job' = [job EXCEPT !.at = @ + 1]
    BY <1>14 DEF deregister, Go, outside
  <2>2. mem'.configurators \subseteq mem.configurators /\ mem'.os_dict = mem.os_dict
    BY <1>0, <2>1 DEF remove_worker, StateType
  <2> QED BY <1>0, <2>1, <2>2 DEF ConfiguratorsKept, JobType
<1>15. CASE offboard
  BY <1>0, <1>15 DEF ConfiguratorsKept, StateType, JobType, offboard, Go, Die
<1>16. CASE teardown
  BY <1>0, <1>16 DEF ConfiguratorsKept, StateType, JobType, teardown, Go, GoSaved, Die
<1>17. CASE final_cleanup
  BY <1>0, <1>17 DEF ConfiguratorsKept, StateType, JobType, final_cleanup, Go, Die
<1>25. CASE release_ranges
  BY <1>0, <1>25 DEF ConfiguratorsKept, StateType, JobType, release_ranges, Go, Die, outside
<1>18. CASE destroy_ng_blue
  BY <1>0, <1>18 DEF ConfiguratorsKept, StateType, JobType, destroy_ng_blue, outside
<1>19. CASE end
  BY <1>0, <1>19 DEF ConfiguratorsKept, StateType, JobType, end, GoSaved, outside
<1>20. CASE add_worker
  BY <1>0, <1>20 DEF ConfiguratorsKept, StateType, JobType, add_worker, Request, GoSaved, Job, outside
<1>21. CASE del_workers
  BY <1>0, <1>21 DEF ConfiguratorsKept, StateType, JobType, del_workers, Request, GoSaved, Job, outside
<1>22. CASE destroy
  BY <1>0, <1>22 DEF ConfiguratorsKept, StateType, JobType, destroy, Request, Go, Job, outside
<1>23. CASE kill
  BY <1>0, <1>23 DEF ConfiguratorsKept, StateType, JobType, kill, Job, outside
<1>24. CASE UNCHANGED vars
  BY <1>24 DEF vars, outside, ConfiguratorsKept
<1> QED BY <1>1, <1>2, <1>3, <1>4, <1>5, <1>6, <1>7, <1>8, <1>9, <1>10, <1>11, <1>12, <1>13, <1>14, <1>15, <1>16, <1>17, <1>18, <1>19, <1>20, <1>21, <1>22, <1>23, <1>24, <1>25
  DEF Next, Operate, create_vm

\* Which operation takes which steps; the answer of an operation is its last.
OperationsKept ==
    /\ pc \in {"drain", "destroying", "deregister"} => job.op = "del_workers"
    /\ pc \in {"deploy", "flavor", "access", "server", "record", "network", "configurator",
               "master", "workers", "plugins", "onboard"} => job.op # "del_workers"
    /\ job.ok => pc = "idle"

\* What a step does to the operation in hand.
LEMMA OperationsStep == IInv /\ IInv' /\ OperationsKept /\ [Next]_vars => OperationsKept'
<1> SUFFICES ASSUME IInv, IInv', OperationsKept, [Next]_vars PROVE OperationsKept'
  OBVIOUS
<1>0. /\ mem \in StateType /\ mem' \in StateType /\ job \in JobType /\ job' \in JobType
      /\ (pc # "gone" => db \in StateType)
  BY DEF IInv, TypeOK, Numbered
<1>1. CASE deploy_area
  <2>1. pc = "deploy" /\ job'.op = job.op /\ job'.ok = job.ok
    BY <1>0, <1>1 DEF JobType, deploy_area, deployed, deploy_master_node, deploy_worker, Raise
  <2>2. pc' \in {"idle", "flavor", "master", "workers"}
    BY <1>1 DEF deploy_area, deployed, deploy_master_node, deploy_worker, Go, Raise
  <2> QED BY <2>1, <2>2 DEF OperationsKept
<1>2. CASE create_get_flavor
  BY <1>0, <1>2 DEF OperationsKept, StateType, JobType, create_get_flavor, Go, Raise
<1>3. CASE add_flavor_access
  BY <1>0, <1>3 DEF OperationsKept, StateType, JobType, add_flavor_access, Go, Raise, outside
<1>4. CASE create_server
  BY <1>0, <1>4 DEF OperationsKept, StateType, JobType, create_server, Go, Raise
<1>5. CASE record_server
  BY <1>0, <1>5 DEF OperationsKept, StateType, JobType, record_server, GoSaved, outside
<1>6. CASE update_net_info_vm
  BY <1>0, <1>6 DEF OperationsKept, StateType, JobType, update_net_info_vm, GoSaved, Raise, outside
<1>7. CASE add_configurator
  BY <1>0, <1>7 DEF OperationsKept, StateType, JobType, add_configurator, Go, outside
<1>8. CASE configure_master
  BY <1>0, <1>8 DEF OperationsKept, StateType, JobType, configure_master, Raise, outside
<1>9. CASE day0conf
  BY <1>0, <1>9 DEF OperationsKept, StateType, JobType, day0conf, configure_worker, Go, GoSaved, Raise
<1>10. CASE install_plugins
  BY <1>0, <1>10 DEF OperationsKept, StateType, JobType, install_plugins, Go, Raise, outside
<1>11. CASE topology_onboard
  BY <1>0, <1>11 DEF OperationsKept, StateType, JobType, topology_onboard, Go, Raise
<1>12. CASE drain
  BY <1>0, <1>12 DEF OperationsKept, StateType, JobType, drain, Go, GoSaved, Raise
<1>13. CASE destroy_workers
  BY <1>0, <1>13 DEF OperationsKept, StateType, JobType, destroy_workers, Go, GoSaved, Raise
<1>14. CASE deregister
  BY <1>0, <1>14 DEF OperationsKept, StateType, JobType, deregister, Go, outside
<1>15. CASE offboard
  BY <1>0, <1>15 DEF OperationsKept, StateType, JobType, offboard, Go, Die
<1>16. CASE teardown
  BY <1>0, <1>16 DEF OperationsKept, StateType, JobType, teardown, Go, GoSaved, Die
<1>17. CASE final_cleanup
  BY <1>0, <1>17 DEF OperationsKept, StateType, JobType, final_cleanup, Go, Die
<1>25. CASE release_ranges
  BY <1>0, <1>25 DEF OperationsKept, StateType, JobType, release_ranges, Go, Die, outside
<1>18. CASE destroy_ng_blue
  BY <1>0, <1>18 DEF OperationsKept, StateType, JobType, destroy_ng_blue, outside
<1>19. CASE end
  BY <1>0, <1>19 DEF OperationsKept, StateType, JobType, end, GoSaved, outside
<1>20. CASE add_worker
  BY <1>0, <1>20 DEF OperationsKept, StateType, JobType, add_worker, Request, GoSaved, Job, outside
<1>21. CASE del_workers
  BY <1>0, <1>21 DEF OperationsKept, StateType, JobType, del_workers, Request, GoSaved, Job, outside
<1>22. CASE destroy
  BY <1>0, <1>22 DEF OperationsKept, StateType, JobType, destroy, Request, Go, Job, outside
<1>23. CASE kill
  BY <1>0, <1>23 DEF OperationsKept, StateType, JobType, kill, Job, outside
<1>24. CASE UNCHANGED vars
  BY <1>24 DEF vars, outside, OperationsKept
<1> QED BY <1>1, <1>2, <1>3, <1>4, <1>5, <1>6, <1>7, <1>8, <1>9, <1>10, <1>11, <1>12, <1>13, <1>14, <1>15, <1>16, <1>17, <1>18, <1>19, <1>20, <1>21, <1>22, <1>23, <1>24, <1>25
  DEF Next, Operate, create_vm

\* What has been deleted so far is nowhere.
DeletedKept ==
    /\ \A i \in 1..Len(job.targets) :
          /\ job.op = "del_workers"
          /\ \/ pc \in {"destroying", "deregister"} /\ i < job.at
             \/ pc = "end"
             \/ job.ok
          => job.targets[i] \notin servers \cup mem.vms \cup mem.registered
    /\ pc = "deregister" => job.targets[job.at] \notin servers

\* What a step does to the workers that have been deleted.
LEMMA DeletedStep == IInv /\ IInv' /\ ConfiguratorsKept /\ OperationsKept /\ DeletedKept /\ [Next]_vars => DeletedKept'
<1> SUFFICES ASSUME IInv, IInv', ConfiguratorsKept, OperationsKept, DeletedKept, [Next]_vars PROVE DeletedKept'
  OBVIOUS
<1>0. /\ mem \in StateType /\ mem' \in StateType /\ job \in JobType /\ job' \in JobType
      /\ (pc # "gone" => db \in StateType)
  BY DEF IInv, TypeOK, Numbered
<1>1. CASE deploy_area
  <2>1. pc = "deploy" /\ job'.op = job.op /\ job'.ok = job.ok
    BY <1>0, <1>1 DEF JobType, deploy_area, deployed, deploy_master_node, deploy_worker, Raise
  <2>2. pc' \in {"idle", "flavor", "master", "workers"}
    BY <1>1 DEF deploy_area, deployed, deploy_master_node, deploy_worker, Go, Raise
  <2> QED BY <2>1, <2>2 DEF OperationsKept, DeletedKept
<1>2. CASE create_get_flavor
  BY <1>0, <1>2 DEF DeletedKept, ConfiguratorsKept, OperationsKept, StateType, JobType, create_get_flavor, Go, Raise
<1>3. CASE add_flavor_access
  BY <1>0, <1>3 DEF DeletedKept, ConfiguratorsKept, OperationsKept, StateType, JobType, add_flavor_access, Go, Raise, outside
<1>4. CASE create_server
  BY <1>0, <1>4 DEF DeletedKept, ConfiguratorsKept, OperationsKept, StateType, JobType, create_server, Go, Raise
<1>5. CASE record_server
  BY <1>0, <1>5 DEF DeletedKept, ConfiguratorsKept, OperationsKept, StateType, JobType, record_server, GoSaved, outside
<1>6. CASE update_net_info_vm
  BY <1>0, <1>6 DEF DeletedKept, ConfiguratorsKept, OperationsKept, StateType, JobType, update_net_info_vm, GoSaved, Raise, outside
<1>7. CASE add_configurator
  BY <1>0, <1>7 DEF DeletedKept, ConfiguratorsKept, OperationsKept, StateType, JobType, add_configurator, Go, outside
<1>8. CASE configure_master
  BY <1>0, <1>8 DEF DeletedKept, ConfiguratorsKept, OperationsKept, StateType, JobType, configure_master, Raise, outside
<1>9. CASE day0conf
  BY <1>0, <1>9 DEF DeletedKept, ConfiguratorsKept, OperationsKept, StateType, JobType, day0conf, configure_worker, Go, GoSaved, Raise
<1>10. CASE install_plugins
  BY <1>0, <1>10 DEF DeletedKept, ConfiguratorsKept, OperationsKept, StateType, JobType, install_plugins, Go, Raise, outside
<1>11. CASE topology_onboard
  BY <1>0, <1>11 DEF DeletedKept, ConfiguratorsKept, OperationsKept, StateType, JobType, topology_onboard, Go, Raise
<1>12. CASE drain
  <2>1. CASE pc' = "destroying"
    <3>1. job' = [job EXCEPT !.at = 1] /\ pc = "drain"
      BY <1>12, <2>1 DEF drain, Go, GoSaved, Raise
    <3>2. job'.at = 1 /\ ~ job'.ok
      BY <1>0, <3>1 DEF JobType, OperationsKept
    <3>3. Len(job'.targets) \in Nat
      BY <1>0 DEF JobType
    <3> QED BY <2>1, <3>2, <3>3 DEF DeletedKept
  <2>2. CASE pc' # "destroying"
    <3>1. pc = "drain" /\ pc' \in {"idle", "drain"} /\ job'.ok = job.ok
      BY <1>0, <1>12, <2>2 DEF drain, Go, GoSaved, Raise, JobType
    <3> QED BY <3>1 DEF OperationsKept, DeletedKept
  <2> QED BY <2>1, <2>2
<1>13. CASE destroy_workers
  <2>0. /\ pc = "destroying" /\ mem' = mem /\ ~ job.ok /\ job.at \in Nat \ {0}
        /\ Len(job.targets) \in Nat
        /\ \A i \in 1..Len(job.targets) : i < job.at =>
              job.targets[i] \notin servers \cup mem.vms \cup mem.registered
        /\ mem.vms \subseteq Vm /\ mem.registered \subseteq Vm /\ servers \subseteq Vm
        /\ job.op = "del_workers"
    BY <1>0, <1>13 DEF IInv, TypeOK, OperationsKept, DeletedKept, StateType, JobType, destroy_workers, Go, GoSaved, Raise
  <2>1. CASE pc' = "deregister"
    <3>1. /\ job' = job /\ job.at \in 1..Len(job.targets) /\ job.targets[job.at] # NoVm
          /\ destroy_vm(job.targets[job.at])
      BY <1>13, <2>0, <2>1 DEF destroy_workers, Go, Raise
    <3>2. job.targets[job.at] \in mem.os_dict
      BY <2>0, <3>1 DEF IInv, Deleting, ConfiguratorsKept
    <3>3. servers' = servers \ {job.targets[job.at]}
      BY <3>1, <3>2 DEF destroy_vm
    <3> QED BY <2>0, <2>1, <3>1, <3>3 DEF DeletedKept
  <2>2. CASE pc' = "destroying"
    <3>1. job.targets[job.at] = NoVm /\ job' = [job EXCEPT !.at = @ + 1] /\ servers' = servers
      BY <1>13, <2>2 DEF destroy_workers, Go, GoSaved, Raise
    <3>2. job'.targets = job.targets /\ job'.at = job.at + 1 /\ job'.ok = job.ok
      BY <1>0, <3>1 DEF JobType
    <3>3. job.targets[job.at] \notin servers \cup mem.vms \cup mem.registered
      BY <2>0, <3>1 DEF NoVm, Vm
    <3>4. \A i \in 1..Len(job.targets) : i < job.at + 1 =>
             job.targets[i] \notin servers \cup mem.vms \cup mem.registered
      <4>1. \A i \in 1..Len(job.targets) : i < job.at + 1 => i < job.at \/ i = job.at
        BY <2>0
      <4> QED BY <2>0, <3>3, <4>1
    <3> QED BY <2>0, <2>2, <3>1, <3>2, <3>4 DEF DeletedKept
  <2>3. CASE pc' = "end"
    <3>1. job.at > Len(job.targets) /\ job' = job /\ servers' = servers
      BY <1>13, <2>3 DEF destroy_workers, Go, GoSaved, Raise
    <3>2. \A i \in 1..Len(job.targets) : i < job.at
      BY <2>0, <3>1
    <3> QED BY <2>0, <2>3, <3>1, <3>2 DEF DeletedKept
  <2>4. CASE pc' = "idle"
    <3>1. job' = job
      BY <1>13, <2>4 DEF destroy_workers, Go, GoSaved, Raise
    <3> QED BY <2>0, <2>4, <3>1 DEF DeletedKept
  <2> QED BY <1>13, <2>1, <2>2, <2>3, <2>4 DEF destroy_workers, Go, GoSaved, Raise
<1>14. CASE deregister
  <2> DEFINE v == job.targets[job.at]
  <2>0. /\ pc = "deregister" /\ pc' = "destroying" /\ mem' = remove_worker(v) /\ servers' = servers
        /\ job' = [job EXCEPT !.at = @ + 1] /\ job.at \in Nat \ {0} /\ ~ job.ok
        /\ Len(job.targets) \in Nat
        /\ \A i \in 1..Len(job.targets) : i < job.at =>
              job.targets[i] \notin servers \cup mem.vms \cup mem.registered
        /\ v \notin servers /\ job.op = "del_workers"
    BY <1>0, <1>14 DEF OperationsKept, DeletedKept, JobType, deregister, Go, outside
  <2>1. job.at \in 1..Len(job.targets) /\ v # NoVm
    BY <2>0 DEF IInv, Deleting
  <2>2. v \in mem.configurators \ nodes
    BY <2>0, <2>1 DEF IInv, Deleting
  <2>3. mem'.vms = mem.vms \ {v} /\ mem'.registered = mem.registered \ {v}
    BY <2>0, <2>2, SoundRemove DEF IInv, Numbered
  <2>4. job'.targets = job.targets /\ job'.at = job.at + 1 /\ job'.ok = job.ok
    BY <1>0, <2>0 DEF JobType
  <2>5. \A i \in 1..Len(job.targets) : i < job.at + 1 =>
           job.targets[i] \notin servers \cup mem'.vms \cup mem'.registered
    <3>1. \A i \in 1..Len(job.targets) : i < job.at + 1 => i < job.at \/ i = job.at
      BY <2>0
    <3> QED BY <2>0, <2>3, <3>1
  <2> QED BY <2>0, <2>4, <2>5 DEF DeletedKept
<1>15. CASE offboard
  BY <1>0, <1>15 DEF DeletedKept, ConfiguratorsKept, OperationsKept, StateType, JobType, offboard, Go, Die
<1>16. CASE teardown
  BY <1>0, <1>16 DEF DeletedKept, ConfiguratorsKept, OperationsKept, StateType, JobType, teardown, Go, GoSaved, Die
<1>17. CASE final_cleanup
  BY <1>0, <1>17 DEF DeletedKept, ConfiguratorsKept, OperationsKept, StateType, JobType, final_cleanup, Go, Die
<1>25. CASE release_ranges
  BY <1>0, <1>25 DEF DeletedKept, ConfiguratorsKept, OperationsKept, StateType, JobType, release_ranges, Go, Die, outside
<1>18. CASE destroy_ng_blue
  BY <1>0, <1>18 DEF DeletedKept, ConfiguratorsKept, OperationsKept, StateType, JobType, destroy_ng_blue, outside
<1>19. CASE end
  BY <1>0, <1>19 DEF DeletedKept, ConfiguratorsKept, OperationsKept, StateType, JobType, end, GoSaved, outside
<1>20. CASE add_worker
  BY <1>0, <1>20 DEF DeletedKept, ConfiguratorsKept, OperationsKept, StateType, JobType, add_worker, Request, GoSaved, Job, outside
<1>21. CASE del_workers
  <2>1. /\ pc' \in {"idle", "end", "drain"} /\ ~ job'.ok
        /\ pc' = "end" => job'.targets = <<>>
    BY <1>0, <1>21 DEF del_workers, GoSaved, Job, JobType
  <2> QED BY <2>1 DEF DeletedKept
<1>22. CASE destroy
  BY <1>0, <1>22 DEF DeletedKept, ConfiguratorsKept, OperationsKept, StateType, JobType, destroy, Request, Go, Job, outside
<1>23. CASE kill
  BY <1>0, <1>23 DEF DeletedKept, ConfiguratorsKept, OperationsKept, StateType, JobType, kill, Job, outside
<1>24. CASE UNCHANGED vars
  BY <1>24 DEF vars, outside, DeletedKept
<1> QED BY <1>1, <1>2, <1>3, <1>4, <1>5, <1>6, <1>7, <1>8, <1>9, <1>10, <1>11, <1>12, <1>13, <1>14, <1>15, <1>16, <1>17, <1>18, <1>19, <1>20, <1>21, <1>22, <1>23, <1>24, <1>25
  DEF Next, Operate, create_vm

\* When del_workers has answered OK the workers it took on have left the VIM,
\* the cluster and the blueprint, whatever failed or was killed before (the loop
\* of K8sBlueprint.del_workers, remove_worker, destroy_vm).
THEOREM DeletedIsNowhere == Spec => []DeletedIsGone
<1>1. Init => ConfiguratorsKept /\ OperationsKept /\ DeletedKept
  <2>1. Init => pc = "deploy" /\ mem = NewState /\ db = NewState /\ job.op = "create" /\ job.ok = FALSE
    BY DEF Init, Job
  <2> QED BY <2>1 DEF ConfiguratorsKept, OperationsKept, DeletedKept, NewState
<1>2. Spec => [](ConfiguratorsKept /\ OperationsKept /\ DeletedKept)
  BY <1>1, ConfiguratorsStep, OperationsStep, DeletedStep, Invariance, PTL DEF Spec
<1>3. IInv /\ DeletedKept => DeletedIsGone
  BY DEF IInv, Numbered, Sound, DeletedKept, DeletedIsGone
<1> QED BY <1>2, <1>3, Invariance, PTL

-----------------------------------------------------------------------------
(* The names of the servers.                                               *)

\* What is registered is the controller or a worker; the controller has a name
\* of its own.
Housed(s, nm, fr) ==
    /\ s.registered \subseteq s.vms \cup {s.master}
    /\ s.master # NoVm => s.master < fr /\ nm[s.master] = Controller

\* There is no second controller to deploy.
HousedKept ==
    /\ Housed(mem, num, fresh)
    /\ pc # "gone" => Housed(db, num, fresh)
    /\ pc = "deploy" =>
          /\ \A i, j \in 1..Len(job.plan) : job.plan[i] = "controller" /\ job.plan[j] = "controller" => i = j
          /\ mem.master # NoVm => \A i \in 1..Len(job.plan) : job.plan[i] # "controller"
    /\ pc \in {"flavor", "access", "server", "record", "network", "configurator"} =>
          /\ \A i, j \in 1..Len(job.plan) : job.plan[i] = "controller" /\ job.plan[j] = "controller" => i = j
          /\ mem.master # NoVm => \A i \in 1..Len(job.plan) : i > 1 => job.plan[i] # "controller"

\* A new name is given to a new VM.
LEMMA HousedFresh ==
  ASSUME NEW s \in StateType, NEW nm \in [Vm -> Known], NEW fr \in Vm, NEW x \in Known, Housed(s, nm, fr)
  PROVE  Housed(s, [nm EXCEPT ![fr] = x], fr + 1)
<1>1. s.master \in Vm \cup {NoVm} /\ fr \in Nat
  BY DEF StateType, Vm
<1>2. s.master # NoVm => s.master \in Vm /\ s.master # fr /\ s.master < fr + 1
  BY <1>1 DEF Housed, Vm, NoVm
<1> QED BY <1>2 DEF Housed

\* A number that is free.
LEMMA LeastNumber ==
  ASSUME NEW S, ~ (Number \subseteq S)
  PROVE  Least(Number \ S) \in Number
<1>1. Number \ S \in SUBSET Nat /\ Number \ S # {}
  BY BoundsAssumption DEF Number
<1> QED BY <1>1, LeastIsMember

\* What a step does to the registered VMs and to the plan.
LEMMA HousedStep == IInv /\ IInv' /\ HousedKept /\ [Next]_vars => HousedKept'
<1> SUFFICES ASSUME IInv, IInv', HousedKept, [Next]_vars PROVE HousedKept'
  OBVIOUS
<1>0. /\ mem \in StateType /\ mem' \in StateType /\ job \in JobType /\ job' \in JobType
      /\ (pc # "gone" => db \in StateType)
  BY DEF IInv, TypeOK, Numbered
<1>1. CASE deploy_area
  <2>0. /\ pc = "deploy" /\ fresh \in Nat /\ (db' = db \/ db' = mem') /\ db \in StateType
        /\ Housed(mem, num, fresh) /\ Housed(db, num, fresh) /\ num \in [Vm -> Known]
    BY <1>0, <1>1 DEF IInv, TypeOK, Known, HousedKept, deploy_area, deployed, deploy_master_node, deploy_worker, Go, Raise
  <2>1. CASE deployed
    BY <1>0, <1>1, <2>0, <2>1 DEF HousedKept, deploy_area, deployed, Go
  <2>2. CASE deploy_master_node
    <3>1. /\ fresh \in Vm /\ fresh' = fresh + 1 /\ num' = [num EXCEPT ![fresh] = Controller]
          /\ mem'.master = fresh /\ mem'.registered \subseteq mem.registered \cup {fresh} /\ mem'.vms = mem.vms
          /\ job'.plan = job.plan /\ pc' \in {"flavor", "idle"}
          /\ Head(job.plan) = "controller" /\ job.plan # <<>>
      BY <1>0, <2>2, <1>1 DEF deploy_area, deploy_master_node, deployed, deploy_worker, Go, Raise, StateType, JobType
    <3>2. job.plan \in Seq(Machine) /\ job.plan[1] = "controller"
      BY <1>0, <3>1 DEF JobType
    <3>3. mem.master = NoVm
      BY <2>0, <3>1, <3>2 DEF HousedKept
    <3>5. Housed(mem', num', fresh')
      <4>1. mem.registered \subseteq mem.vms
        BY <1>0, <2>0, <3>3 DEF Housed, StateType, NoVm, Vm
      <4> QED BY <2>0, <3>1, <4>1 DEF Housed
    <3>6. Housed(db, num', fresh')
      BY <2>0, <3>1, HousedFresh DEF Known
    <3>7. \A i \in 1..Len(job.plan) : i > 1 => job.plan[i] # "controller"
      BY <2>0, <3>2 DEF HousedKept
    <3> QED BY <2>0, <3>1, <3>2, <3>5, <3>6, <3>7 DEF HousedKept
  <2>3. CASE deploy_worker /\ num' = num /\ fresh' = fresh
    <3>1. mem' = mem /\ db' = mem /\ pc' = "idle"
      BY <2>3, <2>0 DEF deploy_worker, Raise
    <3> QED BY <2>0, <2>3, <3>1 DEF HousedKept
  <2>4. CASE deploy_worker /\ ~ (num' = num /\ fresh' = fresh)
    <3>1. /\ fresh \in Vm /\ fresh' = fresh + 1 /\ num' = [num EXCEPT ![fresh] = reserve_worker_number]
          /\ ~ (Number \subseteq mem.numbers) /\ job'.plan = job.plan
      BY <1>0, <2>4 DEF deploy_worker, Raise, JobType
    <3>2. /\ mem'.master = mem.master /\ mem'.vms = mem.vms \cup {fresh}
          /\ mem'.registered \subseteq mem.registered \cup {fresh}
          /\ pc' \in {"idle", "flavor"}
      BY <1>0, <2>4 DEF deploy_worker, Raise, Go, StateType
    <3>3. reserve_worker_number \in Known
      BY <3>1, LeastNumber DEF reserve_worker_number, Known
    <3>4. Housed(mem, num', fresh') /\ Housed(db, num', fresh')
      BY <1>0, <2>0, <3>1, <3>3, HousedFresh
    <3>5. Housed(mem', num', fresh')
      BY <3>2, <3>4 DEF Housed
    <3>6. pc' = "flavor" => /\ \A i, j \in 1..Len(job.plan) : job.plan[i] = "controller" /\ job.plan[j] = "controller" => i = j
                            /\ mem.master # NoVm => \A i \in 1..Len(job.plan) : i > 1 => job.plan[i] # "controller"
      BY <2>0 DEF HousedKept
    <3> QED BY <2>0, <3>1, <3>2, <3>4, <3>5, <3>6 DEF HousedKept
  <2> QED BY <1>1, <2>1, <2>2, <2>3, <2>4 DEF deploy_area
<1>2. CASE create_get_flavor
  BY <1>0, <1>2 DEF HousedKept, StateType, JobType, create_get_flavor, Go, Raise, Housed
<1>3. CASE add_flavor_access
  <2>1. /\ mem'.registered = mem.registered /\ mem'.vms = mem.vms /\ mem'.master = mem.master
        /\ (db' = db \/ db' = mem') /\ num' = num /\ fresh' = fresh /\ job' = job
        /\ pc = "access" /\ pc' \in {"idle", "server"}
    BY <1>0, <1>3 DEF StateType, add_flavor_access, Go, GoSaved, Raise, outside
  <2> QED BY <2>1 DEF HousedKept, Housed
<1>4. CASE create_server
  BY <1>0, <1>4 DEF HousedKept, StateType, JobType, create_server, Go, Raise, Housed
<1>5. CASE record_server
  BY <1>0, <1>5 DEF HousedKept, StateType, JobType, record_server, GoSaved, outside, Housed
<1>6. CASE update_net_info_vm
  <2>1. /\ mem'.registered = mem.registered /\ mem'.vms = mem.vms /\ mem'.master = mem.master
        /\ (db' = db \/ db' = mem') /\ num' = num /\ fresh' = fresh /\ job' = job
        /\ pc = "network" /\ pc' \in {"idle", "configurator"}
    BY <1>0, <1>6 DEF StateType, update_net_info_vm, Go, GoSaved, Raise, outside
  <2> QED BY <2>1 DEF HousedKept, Housed
<1>7. CASE add_configurator
  <2>1. /\ pc = "configurator" /\ pc' = "deploy" /\ db' = db /\ num' = num /\ fresh' = fresh
        /\ mem'.registered = mem.registered /\ mem'.vms = mem.vms /\ mem'.master = mem.master
        /\ job' = [job EXCEPT !.plan = Tail(@)]
    BY <1>0, <1>7 DEF add_configurator, Go, StateType
  <2>2. job.plan # <<>> /\ job.plan \in Seq(Machine)
    BY <1>0, <2>1 DEF IInv, InHand, JobType
  <2>3. job'.plan = Tail(job.plan)
    BY <1>0, <2>1 DEF JobType
  <2>4. Len(job'.plan) = Len(job.plan) - 1 /\ Len(job.plan) \in Nat
        /\ \A i \in 1..Len(job'.plan) : job'.plan[i] = job.plan[i + 1]
    BY <2>2, <2>3
  <2>5. \A i \in 1..Len(job'.plan) : i + 1 \in 1..Len(job.plan) /\ i + 1 > 1 /\ i \in Nat
    BY <2>4
  <2>6. \A i, j \in 1..Len(job'.plan) : job'.plan[i] = "controller" /\ job'.plan[j] = "controller" => i = j
    <3>1. \A i, j \in 1..Len(job.plan) : job.plan[i] = "controller" /\ job.plan[j] = "controller" => i = j
      BY <2>1 DEF HousedKept
    <3>2. ASSUME NEW i \in 1..Len(job'.plan), NEW j \in 1..Len(job'.plan),
                 job'.plan[i] = "controller", job'.plan[j] = "controller"
          PROVE  i = j
      <4>1. i + 1 = j + 1
        BY <2>4, <2>5, <3>1, <3>2
      <4> QED BY <2>5, <4>1
    <3> QED BY <3>2
  <2>7. mem.master # NoVm => \A i \in 1..Len(job'.plan) : job'.plan[i] # "controller"
    BY <2>1, <2>4, <2>5 DEF HousedKept
  <2> QED BY <2>1, <2>6, <2>7 DEF HousedKept, Housed
<1>8. CASE configure_master
  BY <1>0, <1>8 DEF HousedKept, StateType, JobType, configure_master, Raise, outside, Housed
<1>9. CASE day0conf
  BY <1>0, <1>9 DEF HousedKept, StateType, JobType, day0conf, configure_worker, Go, GoSaved, Raise, Housed
<1>10. CASE install_plugins
  BY <1>0, <1>10 DEF HousedKept, StateType, JobType, install_plugins, Go, Raise, outside, Housed
<1>11. CASE topology_onboard
  BY <1>0, <1>11 DEF HousedKept, StateType, JobType, topology_onboard, Go, Raise, Housed
<1>12. CASE drain
  BY <1>0, <1>12 DEF HousedKept, StateType, JobType, drain, Go, GoSaved, Raise, Housed
<1>13. CASE destroy_workers
  BY <1>0, <1>13 DEF HousedKept, StateType, JobType, destroy_workers, Go, GoSaved, Raise, Housed
<1>14. CASE deregister
  <2> DEFINE v == job.targets[job.at]
  <2>1. /\ pc = "deregister" /\ pc' = "destroying" /\ mem' = remove_worker(v) /\ db' = db /\ num' = num /\ fresh' = fresh
    BY <1>14 DEF deregister, Go, outside
  <2>2. v \in mem.configurators \ nodes
    BY <2>1 DEF IInv, Deleting
  <2>3. mem'.vms = mem.vms \ {v} /\ mem'.registered = mem.registered \ {v} /\ mem'.master = mem.master
    BY <2>1, <2>2, SoundRemove DEF IInv, Numbered
  <2> QED BY <2>1, <2>3 DEF HousedKept, Housed
<1>15. CASE offboard
  BY <1>0, <1>15 DEF HousedKept, StateType, JobType, offboard, Go, Die, Housed
<1>16. CASE teardown
  BY <1>0, <1>16 DEF HousedKept, StateType, JobType, teardown, Go, GoSaved, Die, Housed
<1>17. CASE final_cleanup
  BY <1>0, <1>17 DEF HousedKept, StateType, JobType, final_cleanup, Go, Die, Housed
<1>25. CASE release_ranges
  BY <1>0, <1>25 DEF HousedKept, StateType, JobType, release_ranges, Go, Die, outside, Housed
<1>18. CASE destroy_ng_blue
  BY <1>0, <1>18 DEF HousedKept, StateType, JobType, destroy_ng_blue, outside, Housed
<1>19. CASE end
  BY <1>0, <1>19 DEF HousedKept, StateType, JobType, end, GoSaved, outside, Housed
<1>20. CASE add_worker
  <2>1. PICK plan \in AddPlans : job' = Job("add_worker", plan, <<>>)
    BY <1>20 DEF add_worker
  <2>2. job'.plan = plan
    BY <2>1 DEF Job
  <2>3. /\ pc = "idle" /\ pc' = "deploy" /\ mem' = mem /\ db' = mem /\ num' = num /\ fresh' = fresh
    BY <1>20 DEF add_worker, Request, GoSaved
  <2> QED BY <2>1, <2>2, <2>3, PlansAssumption DEF HousedKept
<1>21. CASE del_workers
  BY <1>0, <1>21 DEF HousedKept, StateType, JobType, del_workers, Request, GoSaved, Job, outside, Housed
<1>22. CASE destroy
  BY <1>0, <1>22 DEF HousedKept, StateType, JobType, destroy, Request, Go, Job, outside, Housed
<1>23. CASE kill
  BY <1>0, <1>23 DEF HousedKept, StateType, JobType, kill, Job, outside, Housed
<1>24. CASE UNCHANGED vars
  BY <1>24 DEF vars, outside, HousedKept, Housed
<1> QED BY <1>1, <1>2, <1>3, <1>4, <1>5, <1>6, <1>7, <1>8, <1>9, <1>10, <1>11, <1>12, <1>13, <1>14, <1>15, <1>16, <1>17, <1>18, <1>19, <1>20, <1>21, <1>22, <1>23, <1>24, <1>25
  DEF Next, Operate, create_vm

\* Two servers that create_vm has been answered for have different names, after
\* any failures, deletions and kills (reserve_worker_number, deploy_master_node,
\* remove_worker, and the check of areas in the request models).
THEOREM NamesAreUnique == Spec => []OneServerPerName
<1>1. Init => HousedKept
  <2>1. SUFFICES ASSUME Init PROVE HousedKept
    OBVIOUS
  <2>2. PICK plan \in CreatePlans : job = Job("create", plan, <<>>)
    BY <2>1 DEF Init
  <2>3. job.plan = plan /\ pc = "deploy" /\ mem = NewState /\ db = NewState
    BY <2>1, <2>2 DEF Init, Job
  <2> QED BY <2>2, <2>3, PlansAssumption DEF HousedKept, Housed, NewState
<1>2. Spec => []HousedKept
  BY <1>1, HousedStep, Invariance, PTL DEF Spec
<1>3. ASSUME IInv, HousedKept PROVE OneServerPerName
  <2>1. servers \ lost.servers \subseteq mem.registered
    BY <1>3 DEF IInv, Recorded, Found, InHand
  <2>2. \A v \in servers \ lost.servers : v \in Vm /\ (v \in mem.vms \/ (v = mem.master /\ num[v] = Controller))
    <3>1. servers \subseteq Vm /\ NoVm \notin Vm
      BY <1>3 DEF IInv, TypeOK, NoVm, Vm
    <3>2. mem.registered \subseteq mem.vms \cup {mem.master} /\ (mem.master # NoVm => num[mem.master] = Controller)
      BY <1>3 DEF HousedKept, Housed
    <3> QED BY <2>1, <3>1, <3>2
  <2>3. \A v \in mem.vms : num[v] \in Number
    BY <1>3 DEF IInv, TypeOK, StateType, Numbered, Sound
  <2>4. Controller \notin Number
    BY BoundsAssumption DEF Controller, Number
  <2>5. \A v, w \in mem.vms : num[v] = num[w] => v = w
    BY <1>3 DEF IInv, Numbered, Sound
  <2> QED BY <2>2, <2>3, <2>4, <2>5 DEF OneServerPerName
<1>4. IInv /\ HousedKept => OneServerPerName
  BY <1>3
<1> QED BY <1>2, <1>4, Invariance, PTL

=============================================================================
