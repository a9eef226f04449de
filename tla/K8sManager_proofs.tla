------------------------- MODULE K8sManager_proofs --------------------------
(***************************************************************************)
(* Proofs about the Kubernetes manager: for any clusters, requests and     *)
(* plugin lists, a cluster never gets two network plugins, an installation *)
(* starts with its network plugin, and a request is reported as done only  *)
(* when all it asked for is there.                                         *)
(***************************************************************************)
EXTENDS K8sManager, SequenceTheorems, TLAPS

Jobs == {Idle} \cup InstallJobs \cup YamlJobs

(* What a job is, told by its program counter.                             *)
LEMMA KindOfJob ==
    ASSUME NEW j \in Jobs
    PROVE  /\ j.pc \in {"check", "next", "wait", "config", "retry"} => j \in InstallJobs
           /\ j.pc = "yaml" => j \in YamlJobs
           /\ j.pc = "idle" => j = Idle
           /\ j \in InstallJobs => j # Idle /\ j \notin YamlJobs /\ j.pc # "idle" /\ j.pc # "yaml"
           /\ j \in YamlJobs => j # Idle /\ j.pc = "yaml"
           /\ Idle.pc = "idle"
BY DEF Jobs, InstallJobs, YamlJobs, Idle

(* The next job of an installation, as each step makes it: with another    *)
(* program counter only, ...                                               *)
LEMMA JobWithPc ==
    ASSUME NEW j \in InstallJobs, NEW pc \in {"check", "next", "wait", "config", "retry"},
           NEW x, x = [j EXCEPT !.pc = pc]
    PROVE  /\ x \in InstallJobs /\ x.pc = pc /\ x.request = j.request /\ x.cluster = j.cluster
           /\ x.plugins = j.plugins /\ x.pools = j.pools
           /\ x.left = j.left /\ x.at = j.at /\ x.found = j.found
BY DEF InstallJobs

(* ... after the check, ...                                                *)
LEMMA CheckedJob ==
    ASSUME NEW j \in InstallJobs, NEW F \in SUBSET Plugins, NEW L \in SUBSET Nat,
           NEW x, x = [j EXCEPT !.pc = "next", !.found = F, !.left = L]
    PROVE  /\ x \in InstallJobs /\ x.pc = "next" /\ x.request = j.request /\ x.cluster = j.cluster
           /\ x.plugins = j.plugins /\ x.pools = j.pools
           /\ x.left = L /\ x.at = j.at /\ x.found = F
BY DEF InstallJobs

(* ... with a chart being installed, ...                                   *)
LEMMA WaitingJob ==
    ASSUME NEW j \in InstallJobs, NEW n \in Nat, NEW x, x = [j EXCEPT !.pc = "wait", !.at = n]
    PROVE  /\ x \in InstallJobs /\ x.pc = "wait" /\ x.request = j.request /\ x.cluster = j.cluster
           /\ x.plugins = j.plugins /\ x.pools = j.pools
           /\ x.left = j.left /\ x.at = n /\ x.found = j.found
BY DEF InstallJobs

(* ... and with a plugin done.                                             *)
LEMMA InstalledJob ==
    ASSUME NEW j \in InstallJobs, NEW x, x = Installed(j)
    PROVE  /\ x \in InstallJobs /\ x.pc = "next" /\ x.request = j.request /\ x.cluster = j.cluster
           /\ x.plugins = j.plugins /\ x.pools = j.pools /\ x.found = j.found
           /\ x.left = {n \in j.left : n # j.at /\ j.plugins[n] \notin Network}
<1> DEFINE L == {n \in j.left : n # j.at /\ j.plugins[n] \notin Network}
<1>1. Installed(j) = [j EXCEPT !.pc = "next", !.at = 0, !.left = L]
  BY DEF Installed, InstallJobs
<1>2. L \in SUBSET Nat
  BY DEF InstallJobs
<1> HIDE DEF L
<1>3. ASSUME NEW n \in Nat, NEW K \in SUBSET Nat, x = [j EXCEPT !.pc = "next", !.at = n, !.left = K]
      PROVE  /\ x \in InstallJobs /\ x.pc = "next" /\ x.request = j.request /\ x.cluster = j.cluster
             /\ x.plugins = j.plugins /\ x.pools = j.pools /\ x.found = j.found /\ x.left = K
  BY <1>3 DEF InstallJobs
<1>4. 0 \in Nat
  OBVIOUS
<1>5. /\ x \in InstallJobs /\ x.pc = "next" /\ x.request = j.request /\ x.cluster = j.cluster
      /\ x.plugins = j.plugins /\ x.pools = j.pools /\ x.found = j.found /\ x.left = L
  BY <1>1, <1>2, <1>3, <1>4
<1> QED BY <1>5 DEF L

(* A job and its next, of the same installation.                           *)
SameWork(j, x) ==
    /\ x \in InstallJobs /\ x.request = j.request /\ x.cluster = j.cluster
    /\ x.plugins = j.plugins /\ x.pools = j.pools

(* An installer's step ends its job or goes on with it.                    *)
Moves(i) ==
    /\ job[i] \in InstallJobs
    /\ \/ job' = [job EXCEPT ![i] = Idle] /\ (Report(i, "failed") \/ Report(i, "done"))
       \/ \E x : SameWork(job[i], x) /\ Go(i, x)

(* The next job of an installation is the same work.                       *)
LEMMA WorkKept ==
    ASSUME NEW j \in InstallJobs
    PROVE  /\ \A pc \in {"config", "retry"} : SameWork(j, [j EXCEPT !.pc = pc])
           /\ \A F \in SUBSET Plugins, L \in SUBSET Nat :
                SameWork(j, [j EXCEPT !.pc = "next", !.found = F, !.left = L])
           /\ \A n \in Nat : SameWork(j, [j EXCEPT !.pc = "wait", !.at = n])
           /\ SameWork(j, Installed(j))
<1>1. ASSUME NEW pc \in {"config", "retry"} PROVE SameWork(j, [j EXCEPT !.pc = pc])
  BY DEF SameWork, InstallJobs
<1>2. ASSUME NEW F \in SUBSET Plugins, NEW L \in SUBSET Nat
      PROVE  SameWork(j, [j EXCEPT !.pc = "next", !.found = F, !.left = L])
  BY DEF SameWork, InstallJobs
<1>3. ASSUME NEW n \in Nat PROVE SameWork(j, [j EXCEPT !.pc = "wait", !.at = n])
  BY DEF SameWork, InstallJobs
<1>4. SameWork(j, Installed(j))
  <2>1. PICK x : x = Installed(j)
    OBVIOUS
  <2>2. SameWork(j, x)
    BY <2>1, InstalledJob DEF SameWork
  <2> QED BY <2>1, <2>2
<1> QED BY <1>1, <1>2, <1>3, <1>4

(* What a listing F of the plugins on a cluster with charts ch says.       *)
Lists(F, ch) ==
    /\ F \in SUBSET Plugins
    /\ \A p \in Plugins : ch[p] = "manifest" => p \in F
    /\ \A p \in F : ch[p] # "absent" /\ (p = "metallb" => ch[p] = "manifest")

LEMMA Listing ==
    ASSUME NEW c \in Clusters, NEW F \in get_installed_plugins(c)
    PROVE  Lists(F, chart[c])
BY DEF get_installed_plugins, Lists

(* The places of a list of plugins are natural numbers.                    *)
LEMMA PlacesAreNumbers ==
    ASSUME NEW plugins \in PluginLists, NEW installed
    PROVE  NotInstalled(plugins, installed) \in SUBSET Nat
<1>1. DOMAIN plugins = 1 .. Len(plugins) /\ Len(plugins) \in Nat
  BY LenProperties DEF PluginLists
<1> QED BY <1>1 DEF NotInstalled

(* Every step of HelmPluginManager is a move of its installer.             *)
LEMMA InstallMoves ==
    ASSUME TypeOK, NEW i \in Installers, Install(i)
    PROVE  Moves(i) /\ UNCHANGED <<topo, objs, alive, channel, starts>>
<1>0. job[i] \in Jobs
  BY DEF TypeOK, Jobs
<1>1. CASE install_plugins(i)
  <2>1. job[i] \in InstallJobs
    BY <1>0, <1>1, KindOfJob DEF install_plugins
  <2>2. CASE Raise(i)
    BY <1>1, <2>1, <2>2 DEF install_plugins, Raise, Moves, cluster, history
  <2>3. CASE ~ Raise(i)
    <3>0. PICK F \in get_installed_plugins(job[i].cluster) :
            Go(i, [job[i] EXCEPT !.pc = "next", !.found = F, !.left = NotInstalled(job[i].plugins, F)])
      BY <1>1, <2>3 DEF install_plugins
    <3> DEFINE L == NotInstalled(job[i].plugins, F)
               x == [job[i] EXCEPT !.pc = "next", !.found = F, !.left = L]
    <3>1. Go(i, x)
      BY <3>0
    <3>2. F \in SUBSET Plugins
      BY <2>1, Listing DEF Lists, InstallJobs
    <3>3. job[i].plugins \in PluginLists
      BY <2>1 DEF InstallJobs
    <3>4. L \in SUBSET Nat
      BY <3>3, PlacesAreNumbers
    <3> HIDE DEF L
    <3>5. SameWork(job[i], x)
      BY <2>1, <3>2, <3>4, WorkKept
    <3> QED BY <1>1, <2>1, <3>1, <3>5 DEF install_plugins, Moves, cluster, history
  <2> QED BY <2>2, <2>3
<1>2. CASE _install_calico(i)
  <2>1. job[i] \in InstallJobs
    BY <1>0, <1>2, KindOfJob DEF _install_calico
  <2> QED BY <1>2, <2>1 DEF _install_calico, Raise, Moves, cluster, history
<1>3. CASE install_plugin(i)
  <2>1. job[i] \in InstallJobs
    BY <1>0, <1>3, KindOfJob DEF install_plugin
  <2>2. PICK n \in First(job[i]) : Raise(i) \/ Go(i, [job[i] EXCEPT !.pc = "wait", !.at = n])
    BY <1>3 DEF install_plugin
  <2>3. n \in Nat
    BY <2>1 DEF First, InstallJobs
  <2>4. SameWork(job[i], [job[i] EXCEPT !.pc = "wait", !.at = n])
    BY <2>1, <2>3, WorkKept
  <2> QED BY <1>3, <2>1, <2>2, <2>4 DEF install_plugin, Raise, Moves
<1>4. CASE _install_openebs(i)
  <2>1. job[i] \in InstallJobs
    BY <1>0, <1>4, KindOfJob DEF _install_openebs
  <2>2. Raise(i) \/ Go(i, Installed(job[i]))
    BY <1>4 DEF _install_openebs
  <2>3. SameWork(job[i], Installed(job[i]))
    BY <2>1, WorkKept
  <2> QED BY <1>4, <2>1, <2>2, <2>3 DEF _install_openebs, Raise, Moves
<1>5. CASE _install_metallb(i)
  <2>1. job[i] \in InstallJobs
    BY <1>0, <1>5, KindOfJob DEF _install_metallb
  <2>2. Raise(i) \/ Go(i, Installed(job[i])) \/ Go(i, [job[i] EXCEPT !.pc = "retry"])
    BY <1>5 DEF _install_metallb
  <2>3. SameWork(job[i], Installed(job[i])) /\ SameWork(job[i], [job[i] EXCEPT !.pc = "retry"])
    BY <2>1, WorkKept
  <2> QED BY <1>5, <2>1, <2>2, <2>3 DEF _install_metallb, Raise, Moves
<1>6. CASE installed_plugins(i)
  <2>1. job[i] \in InstallJobs
    BY <1>0, <1>6, KindOfJob DEF installed_plugins
  <2> QED BY <1>6, <2>1 DEF installed_plugins, Succeed, Moves, cluster, history
<1> QED BY <1>1, <1>2, <1>3, <1>4, <1>5, <1>6 DEF Install

(* So is the end of the helm process it waits for.                         *)
LEMMA HelmMoves ==
    ASSUME TypeOK, NEW c \in Clusters, NEW p \in Plugins, helm_ends(c, p)
    PROVE  /\ UNCHANGED <<job, sent, phase>> \/ \E i \in Installers : Moves(i)
           /\ UNCHANGED <<topo, default, pools, objs, history, alive, channel, starts>>
<1>1. CASE UNCHANGED <<job, sent, phase>>
  BY <1>1 DEF helm_ends
<1>2. CASE ~ UNCHANGED <<job, sent, phase>>
  <2>1. PICK i \in Installers : job[i].pc = "wait" /\ (Go(i, AfterChart(job[i])) \/ Raise(i))
    BY <1>2 DEF helm_ends
  <2>2. job[i] \in InstallJobs
    BY <2>1, KindOfJob DEF TypeOK, Jobs
  <2>3. SameWork(job[i], AfterChart(job[i]))
    BY <2>2, WorkKept DEF AfterChart
  <2> QED BY <2>1, <2>2, <2>3 DEF helm_ends, Raise, Moves
<1> QED BY <1>1, <1>2

Statuses == {"queued", "running", "done", "failed", "lost"}

(* A sequence with other elements of the same kind is a sequence.          *)
LEMMA SameLength ==
    ASSUME NEW S, NEW s \in Seq(S), NEW t \in [DOMAIN s -> S]
    PROVE  t \in Seq(S) /\ Len(t) = Len(s) /\ DOMAIN t = DOMAIN s
<1>1. DOMAIN s = 1 .. Len(s) /\ Len(s) \in Nat
  BY LenProperties
<1>2. t \in [1 .. Len(s) -> S]
  BY <1>1
<1>3. t \in Seq(S)
  BY <1>1, <1>2
<1>4. Len(t) = Len(s)
  BY <1>1, <1>2, <1>3
<1> QED BY <1>2, <1>3, <1>4, <1>1

(* Request r gets status st.                                               *)
Restatus(s, r, st, t) == t = [s EXCEPT ![r].status = st]

(* The requests stay requests.                                             *)
LEMMA WithStatus ==
    ASSUME NEW s \in Seq(RequestState), NEW r, NEW st \in Statuses, NEW t, Restatus(s, r, st, t)
    PROVE  t \in Seq(RequestState) /\ DOMAIN t = DOMAIN s
<1>1. \A n \in DOMAIN s : s[n] \in RequestState
  BY LenProperties, ElementOfSeq
<1>2. DOMAIN t = DOMAIN s
  BY DEF Restatus
<1>3. \A n \in DOMAIN s : t[n] = IF n = r THEN [s[n] EXCEPT !.status = st] ELSE s[n]
  BY DEF Restatus
<1>4. \A n \in DOMAIN s : t[n] \in RequestState
  BY <1>1, <1>3 DEF RequestState, Statuses
<1>5. t = [n \in DOMAIN s |-> t[n]]
  BY DEF Restatus
<1>6. t \in [DOMAIN s -> RequestState]
  BY <1>2, <1>4, <1>5
<1> QED BY <1>2, <1>6, SameLength

(* A report changes one status or one phase.                               *)
LEMMA ReportChanges ==
    ASSUME TypeOK, NEW i \in Installers, NEW st \in {"done", "failed"}, Report(i, st)
    PROVE  /\ sent' \in Seq(RequestState) /\ DOMAIN sent' = DOMAIN sent
           /\ \A n \in DOMAIN sent :
                /\ sent'[n].on = sent[n].on /\ sent'[n].what = sent[n].what
                /\ sent'[n].status =
                     IF i = "manager" /\ n = job[i].request THEN st ELSE sent[n].status
           /\ phase' = IF i = "manager" THEN phase
                       ELSE [phase EXCEPT ![i] = IF st = "done" THEN "installed" ELSE "failed"]
<1>0. sent \in Seq(RequestState) /\ st \in Statuses
  BY DEF TypeOK, Statuses
<1>1. CASE i = "manager"
  <2>1. sent' = [sent EXCEPT ![job[i].request].status = st]
    BY <1>1 DEF Report
  <2>r. PICK r : r = job[i].request
    OBVIOUS
  <2>2. PICK t : t = sent'
    OBVIOUS
  <2>4. Restatus(sent, r, st, t)
    BY <2>1, <2>r, <2>2 DEF Restatus
  <2>3. t \in Seq(RequestState) /\ DOMAIN t = DOMAIN sent
    BY <1>0, <2>4, WithStatus, Zenon
  <2>5. \A n \in DOMAIN sent : sent[n] \in RequestState
    BY <1>0, LenProperties, ElementOfSeq
  <2>6. \A n \in DOMAIN sent : t[n] = IF n = r THEN [sent[n] EXCEPT !.status = st] ELSE sent[n]
    BY <2>4 DEF Restatus
  <2>7. \A n \in DOMAIN sent :
          /\ t[n].on = sent[n].on /\ t[n].what = sent[n].what
          /\ t[n].status = IF n = r THEN st ELSE sent[n].status
    BY <2>5, <2>6 DEF RequestState
  <2> QED BY <1>1, <2>1, <2>r, <2>2, <2>3, <2>7 DEF Report
<1>2. CASE i # "manager"
  BY <1>0, <1>2 DEF Report
<1> QED BY <1>1, <1>2

Phases == {"none", "installing", "failed", "installed", "ready"}

(* A move leaves the other installers, and the other phases, alone.        *)
LEMMA MoveChanges ==
    ASSUME TypeOK, NEW i \in Installers, Moves(i)
    PROVE  /\ job' \in [Installers -> Jobs]
           /\ \A k \in Installers : k # i => job'[k] = job[k]
           /\ job'[i] = Idle \/ (SameWork(job[i], job'[i]) /\ UNCHANGED <<sent, phase>>)
           /\ sent' \in Seq(RequestState) /\ DOMAIN sent' = DOMAIN sent
           /\ \A n \in DOMAIN sent : sent'[n].on = sent[n].on /\ sent'[n].what = sent[n].what
           /\ i # "manager" => sent' = sent
           /\ phase' \in [BlueprintClusters -> Phases]
           /\ \A c \in BlueprintClusters : c # i => phase'[c] = phase[c]
<1>0. /\ job \in [Installers -> Jobs] /\ phase \in [BlueprintClusters -> Phases]
      /\ sent \in Seq(RequestState) /\ Idle \in Jobs
  BY DEF TypeOK, Jobs, Phases
<1>1. CASE job' = [job EXCEPT ![i] = Idle] /\ (Report(i, "failed") \/ Report(i, "done"))
  <2>1. PICK st \in {"done", "failed"} : Report(i, st)
    BY <1>1
  <2>2. /\ sent' \in Seq(RequestState) /\ DOMAIN sent' = DOMAIN sent
        /\ \A n \in DOMAIN sent : sent'[n].on = sent[n].on /\ sent'[n].what = sent[n].what
        /\ phase' = IF i = "manager" THEN phase
                    ELSE [phase EXCEPT ![i] = IF st = "done" THEN "installed" ELSE "failed"]
    BY <2>1, ReportChanges
  <2>3. i # "manager" => sent' = sent
    BY <2>1 DEF Report
  <2>4. phase' \in [BlueprintClusters -> Phases] /\ \A c \in BlueprintClusters : c # i => phase'[c] = phase[c]
    BY <1>0, <2>2 DEF Phases
  <2>5. /\ job' \in [Installers -> Jobs] /\ job'[i] = Idle
        /\ \A k \in Installers : k # i => job'[k] = job[k]
    BY <1>0, <1>1
  <2> QED BY <2>2, <2>3, <2>4, <2>5
<1>2. CASE \E x : SameWork(job[i], x) /\ Go(i, x)
  <2>1. PICK x : SameWork(job[i], x) /\ Go(i, x)
    BY <1>2
  <2>2. x \in Jobs
    BY <2>1 DEF SameWork, Jobs
  <2>3. job' = [job EXCEPT ![i] = x] /\ UNCHANGED <<sent, phase>>
    BY <2>1 DEF Go
  <2>4. /\ job' \in [Installers -> Jobs] /\ job'[i] = x
        /\ \A k \in Installers : k # i => job'[k] = job[k]
    BY <1>0, <2>2, <2>3
  <2> QED BY <1>0, <2>1, <2>3, <2>4
<1> QED BY <1>1, <1>2 DEF Moves

(* The pools there, and the ones created, have addresses.                  *)
LEMMA PoolsTyped ==
    ASSUME NEW have, \A n \in DOMAIN have : have[n] \in PoolIps,
           NEW given \in PoolLists, NEW outcome
    PROVE  /\ \A n \in DOMAIN WithPools(have, given, outcome) : WithPools(have, given, outcome)[n] \in PoolIps
           /\ DOMAIN have \subseteq DOMAIN WithPools(have, given, outcome)
<1> DEFINE created == {n \in DOMAIN given :
                      /\ given[n].name \notin DOMAIN have
                      /\ outcome[n] = "created"
                      /\ \A k \in 1..(n - 1) : given[k].name = given[n].name => outcome[k] # "created"}
           W == WithPools(have, given, outcome)
<1>1. W = [name \in DOMAIN have \cup {given[n].name : n \in created} |->
           IF name \in DOMAIN have THEN have[name]
           ELSE given[CHOOSE n \in created : given[n].name = name].ips]
  BY DEF WithPools
<1>2. \A n \in DOMAIN given : given[n] \in PoolType
  BY LenProperties, ElementOfSeq DEF PoolLists
<1>3. \A n \in created : given[n] \in PoolType /\ given[n].ips \in PoolIps
  BY <1>2 DEF PoolType
<1> HIDE DEF created
<1>4. ASSUME NEW name \in DOMAIN W PROVE W[name] \in PoolIps
  <2>1. CASE name \in DOMAIN have
    BY <1>1, <2>1
  <2>2. CASE name \notin DOMAIN have
    <3>1. \E n \in created : given[n].name = name
      BY <1>1, <1>4, <2>2
    <3>2. PICK m : m = CHOOSE n \in created : given[n].name = name
      OBVIOUS
    <3>3. m \in created
      BY <3>1, <3>2
    <3>4. W[name] = given[m].ips
      BY <1>1, <1>4, <2>2, <3>2
    <3> QED BY <1>3, <3>3, <3>4
  <2> QED BY <2>1, <2>2
<1>5. DOMAIN have \subseteq DOMAIN W
  BY <1>1
<1> QED BY <1>4, <1>5

ClusterTyped ==
    /\ chart \in [Clusters -> [Plugins -> ChartState]]
    /\ default \subseteq Clusters
    /\ DOMAIN pools = Clusters
    /\ \A c \in Clusters : \A n \in DOMAIN pools[c] : pools[c][n] \in PoolIps
    /\ unfinished \subseteq Clusters \X Plugins /\ dropped \subseteq Nat

(* The steps of an installation keep the types of what is on a cluster.    *)
LEMMA InstallTyped ==
    ASSUME TypeOK, NEW i \in Installers, Install(i)
    PROVE  ClusterTyped'
<1>0. ClusterTyped /\ job[i] \in Jobs
  BY DEF TypeOK, ClusterTyped, Jobs
<1>j. job[i] \in InstallJobs
  BY InstallMoves DEF Moves
<1>c. job[i].cluster \in Clusters /\ job[i].pools \in PoolLists
  BY <1>j DEF InstallJobs
<1>1. CASE install_plugins(i) \/ _install_calico(i) \/ installed_plugins(i)
  BY <1>0, <1>1 DEF install_plugins, _install_calico, installed_plugins, cluster, history, ClusterTyped
<1>2. CASE install_plugin(i)
  <2>1. default' = default /\ pools' = pools
    BY <1>2 DEF install_plugin
  <2>2. PICK n \in First(job[i]) :
          \/ chart' = chart
          \/ /\ chart[job[i].cluster][job[i].plugins[n]] \in {"absent", "installed"}
             /\ chart' = [chart EXCEPT ![job[i].cluster][job[i].plugins[n]] =
                           IF @ = "absent" THEN "pending" ELSE "upgrading"]
    BY <1>2 DEF install_plugin
  <2>3. chart' \in [Clusters -> [Plugins -> ChartState]]
    <3>1. CASE chart' = chart
      BY <1>0, <3>1 DEF ClusterTyped
    <3>2. CASE chart' = [chart EXCEPT ![job[i].cluster][job[i].plugins[n]] =
                           IF @ = "absent" THEN "pending" ELSE "upgrading"]
      <4>1. chart[job[i].cluster] \in [Plugins -> ChartState]
        BY <1>0, <1>c DEF ClusterTyped
      <4>2. [chart[job[i].cluster] EXCEPT ![job[i].plugins[n]] =
               IF @ = "absent" THEN "pending" ELSE "upgrading"] \in [Plugins -> ChartState]
        BY <4>1 DEF ChartState
      <4> QED BY <1>0, <3>2, <4>2 DEF ClusterTyped
    <3> QED BY <2>2, <3>1, <3>2
  <2>4. UNCHANGED <<unfinished, dropped>>
    BY <1>2 DEF install_plugin, history
  <2> QED BY <1>0, <2>1, <2>3, <2>4 DEF ClusterTyped
<1>3. CASE _install_openebs(i)
  <2>1. "openebs" \in Plugins
    BY DEF Plugins
  <2> QED BY <1>0, <1>3, <1>c, <2>1 DEF _install_openebs, ClusterTyped
<1>4. CASE _install_metallb(i)
  <2>1. chart' = chart /\ default' = default
    BY <1>4 DEF _install_metallb
  <2>2. PICK outcome : pools' = [pools EXCEPT ![job[i].cluster] =
                                   WithPools(pools[job[i].cluster], job[i].pools, outcome)]
    BY <1>4 DEF _install_metallb, create_from_yaml_custom
  <2>3. \A n \in DOMAIN pools[job[i].cluster] : pools[job[i].cluster][n] \in PoolIps
    BY <1>0, <1>c DEF ClusterTyped
  <2>4. PICK W : W = WithPools(pools[job[i].cluster], job[i].pools, outcome)
    OBVIOUS
  <2>5. \A n \in DOMAIN W : W[n] \in PoolIps
    BY <1>c, <2>3, <2>4, PoolsTyped
  <2>6. DOMAIN pools' = Clusters
    BY <1>0, <2>2 DEF ClusterTyped
  <2>7. \A c \in Clusters : pools'[c] = IF c = job[i].cluster THEN W ELSE pools[c]
    BY <1>0, <2>2, <2>4 DEF ClusterTyped
  <2>8. \A c \in Clusters : \A n \in DOMAIN pools'[c] : pools'[c][n] \in PoolIps
    BY <1>0, <2>5, <2>7 DEF ClusterTyped
  <2>9. unfinished' = unfinished /\ dropped' \subseteq Nat
    BY <1>0, <1>4, <1>j DEF _install_metallb, ClusterTyped, InstallJobs
  <2> QED BY <1>0, <2>1, <2>6, <2>8, <2>9 DEF ClusterTyped
<1> QED BY <1>1, <1>2, <1>3, <1>4 DEF Install

(* So does the end of a helm process.                                      *)
LEMMA HelmTyped ==
    ASSUME TypeOK, NEW c \in Clusters, NEW p \in Plugins, helm_ends(c, p)
    PROVE  ClusterTyped'
<1>0. ClusterTyped
  BY DEF TypeOK, ClusterTyped
<1>1. PICK v \in ChartState : chart' = [chart EXCEPT ![c][p] = v]
  <2>1. PICK ok \in BOOLEAN :
          chart' = [chart EXCEPT ![c][p] = IF ok \/ @ = "upgrading" THEN "installed" ELSE "absent"]
    BY DEF helm_ends
  <2> QED BY <2>1 DEF ChartState
<1>2. [chart[c] EXCEPT ![p] = v] \in [Plugins -> ChartState]
  BY <1>0 DEF ClusterTyped
<1>3. chart' \in [Clusters -> [Plugins -> ChartState]]
  BY <1>0, <1>1, <1>2 DEF ClusterTyped
<1> QED BY <1>0, <1>3 DEF ClusterTyped, helm_ends, history

RequestsTyped ==
    /\ sent \in Seq(RequestState)
    /\ channel \in Seq(Nat) /\ \A n \in DOMAIN channel : channel[n] \in DOMAIN sent

(* A new request is a request.                                             *)
LEMMA RestTyped ==
    ASSUME TypeOK, NEW c \in Clusters, NEW r \in Requests, RestRequest(c, r)
    PROVE  /\ RequestsTyped'
           /\ DOMAIN sent \subseteq DOMAIN sent'
           /\ \A n \in DOMAIN sent : sent'[n] = sent[n]
<1> DEFINE q == [on |-> c, what |-> r, status |-> IF alive THEN "queued" ELSE "lost"]
<1>0. sent \in Seq(RequestState) /\ channel \in Seq(Nat) /\ \A n \in DOMAIN channel : channel[n] \in DOMAIN sent
  BY DEF TypeOK
<1>1. q \in RequestState
  BY DEF RequestState
<1>2. sent' = Append(sent, q)
  BY DEF RestRequest
<1> HIDE DEF q
<1>3. sent' \in Seq(RequestState) /\ Len(sent') = Len(sent) + 1 /\ \A n \in 1 .. Len(sent) : sent'[n] = sent[n]
  BY <1>0, <1>1, <1>2, AppendProperties
<1>4. /\ DOMAIN sent = 1 .. Len(sent) /\ Len(sent) \in Nat
      /\ DOMAIN sent' = 1 .. Len(sent') /\ Len(sent') \in Nat
  BY <1>0, <1>3, LenProperties
<1>5. DOMAIN sent \subseteq DOMAIN sent' /\ Len(sent') \in DOMAIN sent'
  BY <1>3, <1>4
<1>6. channel' \in Seq(Nat) /\ \A n \in DOMAIN channel' : channel'[n] \in DOMAIN sent'
  <2>1. CASE channel' = channel
    BY <1>0, <1>5, <2>1
  <2>2. CASE channel' = Append(channel, Len(sent'))
    <3>1. /\ channel' \in Seq(Nat) /\ Len(channel') = Len(channel) + 1
          /\ \A n \in 1 .. Len(channel) : channel'[n] = channel[n]
          /\ channel'[Len(channel) + 1] = Len(sent')
      BY <1>0, <1>4, <2>2, AppendProperties
    <3>2. /\ DOMAIN channel = 1 .. Len(channel) /\ Len(channel) \in Nat
          /\ DOMAIN channel' = 1 .. Len(channel')
      BY <1>0, <3>1, LenProperties
    <3>3. \A n \in DOMAIN channel' : n \in DOMAIN channel \/ n = Len(channel) + 1
      BY <3>1, <3>2
    <3> QED BY <1>0, <1>5, <3>1, <3>2, <3>3
  <2> QED BY <2>1, <2>2 DEF RestRequest
<1> QED BY <1>3, <1>4, <1>5, <1>6 DEF RequestsTyped

(* What a request carries.                                                 *)
LEMMA RequestFields ==
    ASSUME NEW r \in Requests
    PROVE  /\ r.op = "install" => r.plugins \in PluginLists /\ r.pool \in PoolType \cup {NoPool}
           /\ r.op = "yaml" => r.docs \in DocLists
<1> DEFINE D == Docs \cup {EmptyDoc}
           P == PoolType \cup {NoPool}
<1> HIDE DEF D, P
<1>1. r \in [op : {"install"}, plugins : PluginLists, pool : P]
        \/ r \in [op : {"yaml"}, docs : Seq(D)]
  BY ManagerAssumption DEF RequestType, PluginLists, D, P
<1>2. CASE r \in [op : {"install"}, plugins : PluginLists, pool : P]
  BY <1>2 DEF P
<1>3. CASE r \in [op : {"yaml"}, docs : Seq(D)]
  BY <1>3 DEF D, DocLists
<1> QED BY <1>1, <1>2, <1>3

(* The manager takes a message: the job it starts is the request's.        *)
LEMMA DelegateChanges ==
    ASSUME TypeOK, _delegate_operation
    PROVE  LET rid == Head(channel)
           IN  /\ RequestsTyped' /\ rid \in DOMAIN sent /\ DOMAIN sent' = DOMAIN sent
               /\ \A n \in DOMAIN sent :
                    /\ sent'[n].on = sent[n].on /\ sent'[n].what = sent[n].what
                    /\ sent'[n].status = sent[n].status \/ sent'[n].status \in {"failed", "running"}
               /\ job["manager"] = Idle
               /\ \/ job' = job
                  \/ \E x \in Jobs :
                       /\ job' = [job EXCEPT !["manager"] = x]
                       /\ x.request = rid /\ x.cluster = sent[rid].on /\ x.cluster \in topo
                       /\ sent'[rid].status = "running"
                       /\ \/ /\ x \in InstallJobs /\ x.pc = "check" /\ sent[rid].what.op = "install"
                             /\ x.plugins = sent[rid].what.plugins /\ x.pools = <<sent[rid].what.pool>>
                          \/ /\ x \in YamlJobs /\ sent[rid].what.op = "yaml"
                             /\ x.docs = sent[rid].what.docs
<1>0. /\ sent \in Seq(RequestState) /\ channel \in Seq(Nat)
      /\ \A n \in DOMAIN channel : channel[n] \in DOMAIN sent
      /\ channel # <<>>
  BY DEF TypeOK, _delegate_operation
<1>h. PICK rid : rid = Head(channel)
  OBVIOUS
<1>1. /\ rid \in DOMAIN sent /\ rid \in Nat /\ sent[rid] \in RequestState
      /\ Tail(channel) \in Seq(Nat) /\ \A n \in DOMAIN Tail(channel) : Tail(channel)[n] \in DOMAIN sent
  <2>1. DOMAIN channel = 1 .. Len(channel) /\ Len(channel) \in Nat /\ Len(channel) # 0
    BY <1>0, EmptySeq, LenProperties
  <2>2. /\ Tail(channel) \in Seq(Nat) /\ Len(Tail(channel)) = Len(channel) - 1
        /\ \A n \in 1 .. Len(Tail(channel)) : Tail(channel)[n] = channel[n + 1]
    BY <1>0, HeadTailProperties
  <2>3. DOMAIN Tail(channel) = 1 .. Len(Tail(channel))
    BY <2>2, LenProperties
  <2>4. \A n \in 1 .. Len(Tail(channel)) : n + 1 \in DOMAIN channel
    BY <2>1, <2>2
  <2>5. \A n \in DOMAIN Tail(channel) : Tail(channel)[n] \in DOMAIN sent
    BY <1>0, <2>2, <2>3, <2>4
  <2>6. 1 \in DOMAIN channel /\ rid = channel[1]
    BY <1>0, <1>h, <2>1
  <2>7. rid \in DOMAIN sent /\ rid \in Nat
    BY <1>0, <2>6, <2>1, ElementOfSeq
  <2>8. sent[rid] \in RequestState
    BY <1>0, <2>7, LenProperties, ElementOfSeq
  <2> QED BY <2>2, <2>5, <2>7, <2>8
<1>2. channel' = Tail(channel) /\ job["manager"].pc = "idle"
  BY DEF _delegate_operation
<1>3. PICK st \in {"failed", "running"} :
         /\ Restatus(sent, rid, st, sent')
         /\ \/ job' = job
            \/ /\ st = "running" /\ sent[rid].on \in topo /\ sent[rid].what.op = "install"
               /\ sent[rid].what.pool # NoPool
               /\ job' = [job EXCEPT !["manager"] = InstallJob(sent[rid].what, rid)]
            \/ /\ st = "running" /\ sent[rid].on \in topo /\ sent[rid].what.op = "yaml"
               /\ job' = [job EXCEPT !["manager"] = YamlJob(sent[rid].what, rid)]
  BY <1>h DEF _delegate_operation, Restatus
<1>4. sent' \in Seq(RequestState) /\ DOMAIN sent' = DOMAIN sent
  <2>1. PICK t : t = sent'
    OBVIOUS
  <2>2. st \in Statuses /\ Restatus(sent, rid, st, t)
    BY <1>3, <2>1 DEF Statuses
  <2> QED BY <1>0, <2>1, <2>2, WithStatus, Zenon
<1>5. /\ \A n \in DOMAIN sent :
           /\ sent'[n].on = sent[n].on /\ sent'[n].what = sent[n].what
           /\ sent'[n].status = sent[n].status \/ sent'[n].status \in {"failed", "running"}
      /\ sent'[rid].status = st
  <2>1. \A n \in DOMAIN sent : sent[n] \in RequestState
    BY <1>0, LenProperties, ElementOfSeq
  <2>2. \A n \in DOMAIN sent : sent'[n] = IF n = rid THEN [sent[n] EXCEPT !.status = st] ELSE sent[n]
    BY <1>3 DEF Restatus
  <2> QED BY <1>1, <2>1, <2>2 DEF RequestState
<1>6. RequestsTyped'
  BY <1>1, <1>2, <1>4 DEF RequestsTyped
<1>7. job["manager"] = Idle
  BY <1>2, KindOfJob DEF TypeOK, Jobs, Installers
<1>8. sent[rid].on \in Clusters /\ sent[rid].what \in Requests
  BY <1>1 DEF RequestState
<1>9. ASSUME sent[rid].on \in topo, sent[rid].what.op = "install", sent[rid].what.pool # NoPool,
             NEW x, x = InstallJob(sent[rid].what, rid)
      PROVE  /\ x \in InstallJobs /\ x.pc = "check" /\ x.request = rid /\ x.cluster = sent[rid].on
             /\ x.plugins = sent[rid].what.plugins /\ x.pools = <<sent[rid].what.pool>>
  <2>1. sent[rid].what.plugins \in PluginLists /\ sent[rid].what.pool \in PoolType
    BY <1>8, <1>9, RequestFields
  <2>2. <<sent[rid].what.pool>> \in PoolLists
    BY <2>1 DEF PoolLists
  <2> QED BY <1>1, <1>8, <1>9, <2>1, <2>2 DEF InstallJob, InstallJobs
<1>10. ASSUME sent[rid].on \in topo, sent[rid].what.op = "yaml", NEW x, x = YamlJob(sent[rid].what, rid)
       PROVE  /\ x \in YamlJobs /\ x.request = rid /\ x.cluster = sent[rid].on
              /\ x.docs = sent[rid].what.docs
  <2>1. sent[rid].what.docs \in DocLists
    BY <1>8, <1>10, RequestFields
  <2> QED BY <1>1, <1>8, <1>10, <2>1 DEF YamlJob, YamlJobs
<1> QED BY <1>h, <1>1, <1>3, <1>4, <1>5, <1>6, <1>7, <1>9, <1>10 DEF Jobs

(* The steps of a YAML request: the job ends, or goes on with the          *)
(* documents after the first.                                              *)
LEMMA YamlMoves ==
    ASSUME TypeOK, apply_def_to_cluster \/ applied_to_k8s
    PROVE  /\ job["manager"] \in YamlJobs
           /\ \/ /\ job' = [job EXCEPT !["manager"] = Idle]
                 /\ Report("manager", "failed") \/ Report("manager", "done")
              \/ \E x \in YamlJobs :
                   /\ job' = [job EXCEPT !["manager"] = x] /\ UNCHANGED <<sent, phase>>
                   /\ x.request = job["manager"].request /\ x.cluster = job["manager"].cluster
                   /\ x.docs = Tail(job["manager"].docs)
           /\ UNCHANGED <<topo, chart, default, pools, history, alive, channel, starts>>
<1> DEFINE j == job["manager"]
<1>1. j \in YamlJobs
  BY KindOfJob DEF TypeOK, Jobs, Installers, apply_def_to_cluster, applied_to_k8s
<1>2. CASE applied_to_k8s
  BY <1>1, <1>2 DEF applied_to_k8s, Succeed, Raise, cluster, history
<1>3. CASE apply_def_to_cluster
  <2>1. j.docs \in DocLists /\ j.docs # <<>>
    BY <1>1, <1>3 DEF YamlJobs, apply_def_to_cluster
  <2>2. Tail(j.docs) \in DocLists
    BY <2>1, HeadTailProperties DEF DocLists
  <2>3. ASSUME NEW res \in BOOLEAN, NEW x, x = [[j EXCEPT !.docs = Tail(@)] EXCEPT !.result = res]
        PROVE  x \in YamlJobs /\ x.request = j.request /\ x.cluster = j.cluster /\ x.docs = Tail(j.docs)
    BY <1>1, <2>2, <2>3 DEF YamlJobs
  <2>4. \/ Raise("manager")
        \/ \E res \in BOOLEAN : Go("manager", [[j EXCEPT !.docs = Tail(@)] EXCEPT !.result = res])
    BY <1>3 DEF apply_def_to_cluster
  <2>5. CASE Raise("manager")
    BY <1>1, <1>3, <2>5 DEF apply_def_to_cluster, Raise
  <2>6. CASE \E res \in BOOLEAN : Go("manager", [[j EXCEPT !.docs = Tail(@)] EXCEPT !.result = res])
    <3>1. PICK res \in BOOLEAN : Go("manager", [[j EXCEPT !.docs = Tail(@)] EXCEPT !.result = res])
      BY <2>6
    <3>2. PICK x : x = [[j EXCEPT !.docs = Tail(@)] EXCEPT !.result = res]
      OBVIOUS
    <3>3. x \in YamlJobs /\ x.request = j.request /\ x.cluster = j.cluster /\ x.docs = Tail(j.docs)
      BY <2>3, <3>2
    <3>4. job' = [job EXCEPT !["manager"] = x] /\ UNCHANGED <<sent, phase>>
      BY <3>1, <3>2 DEF Go
    <3> QED BY <1>1, <1>3, <3>3, <3>4 DEF apply_def_to_cluster
  <2> QED BY <2>4, <2>5, <2>6
<1> QED BY <1>2, <1>3

(* The documents on the clusters stay documents.                           *)
LEMMA YamlObjects ==
    ASSUME TypeOK, apply_def_to_cluster
    PROVE  DOMAIN objs' = Clusters /\ \A c \in Clusters : DOMAIN objs'[c] \subseteq Docs
<1> DEFINE j == job["manager"]
           d == Head(j.docs)
<1>0. DOMAIN objs = Clusters /\ \A c \in Clusters : DOMAIN objs[c] \subseteq Docs
  BY DEF TypeOK
<1>1. j \in YamlJobs /\ j.docs # <<>>
  BY YamlMoves DEF apply_def_to_cluster
<1>2. j.docs \in DocLists /\ j.cluster \in Clusters
  BY <1>1 DEF YamlJobs
<1>3. d \in Docs \cup {EmptyDoc}
  BY <1>1, <1>2, HeadTailProperties DEF DocLists
<1>4. CASE objs' = objs
  BY <1>0, <1>4
<1>5. CASE objs' # objs
  <2>1. /\ d # EmptyDoc
        /\ objs' = [objs EXCEPT ![j.cluster] =
                        [e \in DOMAIN @ \cup {d} |-> IF e = d THEN j.request ELSE @[e]]]
    BY <1>5 DEF apply_def_to_cluster
  <2>2. \A c \in Clusters : DOMAIN objs'[c] = IF c = j.cluster THEN DOMAIN objs[c] \cup {d} ELSE DOMAIN objs[c]
    BY <1>0, <2>1
  <2> QED BY <1>0, <1>3, <2>1, <2>2
<1> QED BY <1>4, <1>5

(* The manager's process ends with its job and its messages.               *)
LEMMA CloseChanges ==
    ASSUME TypeOK, close
    PROVE  /\ RequestsTyped' /\ job' \in [Installers -> Jobs] /\ DOMAIN sent' = DOMAIN sent
           /\ \A n \in DOMAIN sent :
                /\ sent'[n].on = sent[n].on /\ sent'[n].what = sent[n].what
                /\ sent'[n].status = sent[n].status \/ sent'[n].status = "lost"
<1>0. sent \in Seq(RequestState) /\ job \in [Installers -> Jobs] /\ Idle \in Jobs
  BY DEF TypeOK, Jobs
<1>1. \A n \in DOMAIN sent : sent[n] \in RequestState
  BY <1>0, LenProperties, ElementOfSeq
<1>2. /\ DOMAIN sent' = DOMAIN sent
      /\ \A n \in DOMAIN sent : sent'[n] = sent[n] \/ sent'[n] = [sent[n] EXCEPT !.status = "lost"]
      /\ sent' = [n \in DOMAIN sent |-> sent'[n]]
  BY DEF close
<1>3. \A n \in DOMAIN sent :
           /\ sent'[n] \in RequestState
           /\ sent'[n].on = sent[n].on /\ sent'[n].what = sent[n].what
           /\ sent'[n].status = sent[n].status \/ sent'[n].status = "lost"
  BY <1>1, <1>2 DEF RequestState
<1>4. sent' \in [DOMAIN sent -> RequestState]
  BY <1>2, <1>3
<1>5. sent' \in Seq(RequestState)
  BY <1>0, <1>4, SameLength
<1>6. channel' \in Seq(Nat) /\ DOMAIN channel' = {}
  BY EmptySeq DEF close
<1>7. job' \in [Installers -> Jobs]
  BY <1>0 DEF close
<1> QED BY <1>2, <1>3, <1>5, <1>6, <1>7 DEF RequestsTyped

(* The blueprint's plugins.                                                *)
LEMMA DefaultJob ==
    ASSUME NEW c \in Clusters, NEW x,
           x = [pc |-> "check", request |-> 0, cluster |-> c,
                plugins |-> <<"flannel", "metallb", "openebs">>, pools |-> setup_load_balancer_pool,
                left |-> {}, at |-> 0, found |-> {}]
    PROVE  x \in InstallJobs /\ x.cluster = c /\ x.pc = "check"
<1>1. <<"flannel", "metallb", "openebs">> \in PluginLists
  BY DEF PluginLists, K8sPluginName, Plugins, Network
<1>2. setup_load_balancer_pool \in PoolLists
  <2>1. \A n \in DOMAIN AreaIps : AreaIps[n] \in PoolIps
    BY ManagerAssumption, LenProperties, ElementOfSeq
  <2>2. DOMAIN AreaIps = 1 .. Len(AreaIps) /\ Len(AreaIps) \in Nat
    BY ManagerAssumption, LenProperties
  <2>3. \A n \in DOMAIN AreaIps : [name |-> "area1", ips |-> AreaIps[n]] \in PoolType
    BY <2>1, ManagerAssumption DEF PoolType
  <2>4. setup_load_balancer_pool \in [1 .. Len(AreaIps) -> PoolType]
    BY <2>2, <2>3 DEF setup_load_balancer_pool
  <2> QED BY <2>2, <2>4 DEF PoolLists
<1>3. {} \in SUBSET Nat /\ 0 \in Nat /\ {} \in SUBSET Plugins
  OBVIOUS
<1> QED BY <1>1, <1>2, <1>3 DEF InstallJobs

(* The parts of the type invariant, as the steps above give them.          *)
LEMMA TypeParts ==
    TypeOK <=> /\ topo \subseteq Clusters /\ ClusterTyped /\ RequestsTyped
               /\ DOMAIN objs = Clusters /\ \A c \in Clusters : DOMAIN objs[c] \subseteq Docs
               /\ alive \in BOOLEAN /\ job \in [Installers -> Jobs]
               /\ phase \in [BlueprintClusters -> Phases]
BY DEF TypeOK, ClusterTyped, RequestsTyped, Jobs, Phases

(* A new request.                                                          *)
LEMMA TypeRest ==
    ASSUME TypeOK, NEW c \in Clusters, NEW r \in Requests, RestRequest(c, r)
    PROVE  TypeOK'
<1>1. RequestsTyped'
  BY RestTyped
<1> QED BY <1>1, TypeParts DEF RestRequest, cluster, history, TypeOK, ClusterTyped, RequestsTyped, Jobs, Phases

(* The parts that a move of an installer can change.                       *)
LEMMA TypeMove ==
    ASSUME TypeOK, NEW i \in Installers, Moves(i), ClusterTyped',
           UNCHANGED <<topo, objs, alive, channel>>
    PROVE  TypeOK'
<1>1. /\ job' \in [Installers -> Jobs] /\ phase' \in [BlueprintClusters -> Phases]
      /\ sent' \in Seq(RequestState) /\ DOMAIN sent' = DOMAIN sent
  BY MoveChanges
<1> QED BY <1>1 DEF TypeOK, ClusterTyped, Jobs, Phases

(* Type correctness: every step keeps the types.                           *)
LEMMA TypeStep == TypeOK /\ [Next]_vars => TypeOK'
<1> SUFFICES ASSUME TypeOK, [Next]_vars PROVE TypeOK'
  OBVIOUS
<1>m. "manager" \in Installers /\ BlueprintClusters \subseteq Installers /\ BlueprintClusters \subseteq Clusters
  BY ManagerAssumption DEF Installers
<1>1. CASE \E c \in Clusters, r \in Requests : RestRequest(c, r)
  BY <1>1, TypeRest
<1>2. CASE \E c \in Clusters : add_k8scluster(c) \/ del_k8scluster(c)
  BY <1>2 DEF add_k8scluster, del_k8scluster, cluster, history, TypeOK
<1>3. CASE \E i \in Installers : Install(i)
  BY <1>3, InstallMoves, InstallTyped, TypeMove
<1>4. CASE _delegate_operation
  <2>1. /\ RequestsTyped'
        /\ \/ job' = job
           \/ \E x \in Jobs : job' = [job EXCEPT !["manager"] = x]
    BY <1>4, DelegateChanges
  <2>2. job' \in [Installers -> Jobs]
    BY <2>1 DEF TypeOK, Jobs
  <2> QED BY <1>4, <2>1, <2>2 DEF _delegate_operation, cluster, history, TypeOK, RequestsTyped, Jobs
<1>5. CASE apply_def_to_cluster \/ applied_to_k8s
  <2>1. job' \in [Installers -> Jobs]
    BY <1>5, YamlMoves DEF TypeOK, Jobs
  <2>2. sent' \in Seq(RequestState) /\ DOMAIN sent' = DOMAIN sent /\ phase' = phase
    <3>1. CASE UNCHANGED <<sent, phase>>
      BY <3>1 DEF TypeOK
    <3>2. CASE Report("manager", "failed") \/ Report("manager", "done")
      BY <1>m, <3>2, ReportChanges
    <3> QED BY <1>5, <3>1, <3>2, YamlMoves
  <2>3. DOMAIN objs' = Clusters /\ \A c \in Clusters : DOMAIN objs'[c] \subseteq Docs
    BY <1>5, YamlObjects DEF applied_to_k8s, cluster, history, TypeOK
  <2>4. UNCHANGED <<topo, chart, default, pools, unfinished, dropped, alive, channel>>
    BY <1>5, YamlMoves DEF history
  <2> QED BY <2>1, <2>2, <2>3, <2>4 DEF TypeOK, Jobs
<1>6. CASE \E c \in Clusters, p \in Plugins : helm_ends(c, p)
  <2>1. PICK c \in Clusters, p \in Plugins : helm_ends(c, p)
    BY <1>6
  <2>2. ClusterTyped' /\ UNCHANGED <<topo, objs, alive, channel>>
    BY <2>1, HelmTyped, HelmMoves
  <2>3. CASE UNCHANGED <<job, sent, phase>>
    BY <2>2, <2>3 DEF TypeOK, ClusterTyped
  <2>4. CASE \E i \in Installers : Moves(i)
    BY <2>2, <2>4, TypeMove
  <2> QED BY <2>1, <2>3, <2>4, HelmMoves
<1>7. CASE close
  <2>1. RequestsTyped' /\ job' \in [Installers -> Jobs]
    BY <1>7, CloseChanges
  <2> QED BY <1>7, <2>1 DEF close, cluster, history, TypeOK, RequestsTyped, Jobs
<1>8. CASE initialize_k8s_man_subscriber
  BY <1>8 DEF initialize_k8s_man_subscriber, cluster, history, TypeOK
<1>9. CASE \E c \in BlueprintClusters : install_default_plugins(c)
  <2>1. PICK c \in BlueprintClusters : install_default_plugins(c)
    BY <1>9
  <2>2. phase' \in [BlueprintClusters -> {"none", "installing", "failed", "installed", "ready"}]
    BY <2>1 DEF install_default_plugins, TypeOK
  <2>3. CASE job' = job
    BY <2>1, <2>2, <2>3 DEF install_default_plugins, cluster, history, TypeOK
  <2>4. CASE job' # job
    <3>1. PICK x : x = [pc |-> "check", request |-> 0, cluster |-> c,
                plugins |-> <<"flannel", "metallb", "openebs">>, pools |-> setup_load_balancer_pool,
                left |-> {}, at |-> 0, found |-> {}]
      OBVIOUS
    <3>2. job' = [job EXCEPT ![c] = x]
      BY <2>1, <2>4, <3>1 DEF install_default_plugins
    <3>3. x \in InstallJobs
      BY <1>m, <3>1, DefaultJob
    <3>4. job' \in [Installers -> {Idle} \cup InstallJobs \cup YamlJobs]
      BY <3>2, <3>3 DEF TypeOK
    <3> QED BY <2>1, <2>2, <3>4 DEF install_default_plugins, cluster, history, TypeOK
  <2> QED BY <2>3, <2>4
<1>10. CASE \E c \in BlueprintClusters : topology_onboard(c)
  BY <1>m, <1>10 DEF topology_onboard, cluster, history, TypeOK
<1>11. CASE UNCHANGED vars
  BY <1>11 DEF vars, cluster, history, TypeOK
<1> QED BY <1>m, <1>1, <1>2, <1>3, <1>4, <1>5, <1>6, <1>7, <1>8, <1>9, <1>10, <1>11 DEF Next, Manager

(* The first state has the types.                                          *)
LEMMA TypeInit == Init => TypeOK
<1> SUFFICES ASSUME Init PROVE TypeOK
  OBVIOUS
<1>1. chart \in [Clusters -> [Plugins -> ChartState]]
  <2>1. chart \in [Clusters -> [Plugins -> {"absent", "manifest"}]]
    BY ManagerAssumption DEF Init
  <2> QED BY <2>1 DEF ChartState
<1>2. pools = [c \in Clusters |-> <<>>] /\ objs = [c \in Clusters |-> <<>>]
  BY DEF Init
<1>3. \A n \in DOMAIN <<>> : FALSE
  OBVIOUS
<1>4. \A c \in Clusters : pools[c] = <<>> /\ objs[c] = <<>>
  BY <1>2
<1>5. /\ DOMAIN pools = Clusters /\ DOMAIN objs = Clusters
      /\ \A c \in Clusters : DOMAIN objs[c] \subseteq Docs
      /\ \A c \in Clusters : \A n \in DOMAIN pools[c] : pools[c][n] \in PoolIps
  BY <1>2, <1>3, <1>4
<1>6. job \in [Installers -> {Idle} \cup InstallJobs \cup YamlJobs]
  BY DEF Init
<1>7. phase \in [BlueprintClusters -> {"none", "installing", "failed", "installed", "ready"}]
  BY DEF Init
<1>8. sent \in Seq(RequestState) /\ channel \in Seq(Nat) /\ DOMAIN channel = {}
  BY EmptySeq DEF Init
<1> QED BY <1>1, <1>5, <1>6, <1>7, <1>8 DEF Init, TypeOK

(* Type correctness of the manager, its clusters and their blueprints: of  *)
(* install_plugins, create_from_yaml_custom and listen_to_k8s_management   *)
(* for every list of plugins and every sequence of requests.               *)
THEOREM TypeCorrect == Spec => []TypeOK
BY TypeInit, TypeStep, PTL DEF Spec

-----------------------------------------------------------------------------
(* Who works where.  A blueprint's cluster is in the topology, and within  *)
(* the manager's reach, only when the blueprint has installed its plugins. *)
Apart ==
    /\ \A c \in BlueprintClusters : c \in topo => phase[c] = "ready"
    /\ \A c \in BlueprintClusters :
         job[c] # Idle => job[c] \in InstallJobs /\ job[c].cluster = c /\ phase[c] = "installing"
    /\ \A c \in BlueprintClusters :
         job["manager"] # Idle /\ job["manager"].cluster = c => phase[c] = "ready"

(* Two installers are never on one cluster.                                *)
LEMMA OneInstallerEach ==
    ASSUME Apart, NEW i \in Installers, NEW k \in Installers, i # k, job[i] # Idle, job[k] # Idle
    PROVE  job[i].cluster # job[k].cluster
BY ManagerAssumption DEF Apart, Installers

(* A move keeps the installers apart.                                      *)
LEMMA ApartMove ==
    ASSUME TypeOK, Apart, NEW i \in Installers, Moves(i), topo' = topo
    PROVE  Apart'
<1>1. /\ \A k \in Installers : k # i => job'[k] = job[k]
      /\ job'[i] = Idle \/ (SameWork(job[i], job'[i]) /\ UNCHANGED <<sent, phase>>)
      /\ \A c \in BlueprintClusters : c # i => phase'[c] = phase[c]
  BY MoveChanges
<1>2. job[i] \in InstallJobs /\ job[i] # Idle
  BY KindOfJob DEF Moves, Jobs
<1>3. "manager" \in Installers /\ "manager" \notin BlueprintClusters /\ BlueprintClusters \subseteq Installers
  BY ManagerAssumption DEF Installers
<1>4. CASE i = "manager"
  BY <1>1, <1>2, <1>3, <1>4 DEF Apart, SameWork
<1>5. CASE i # "manager"
  <2>1. i \in BlueprintClusters /\ phase[i] = "installing" /\ i \notin topo /\ job'["manager"] = job["manager"]
    BY <1>1, <1>2, <1>3, <1>5 DEF Apart, Installers
  <2>2. ~ (job["manager"] # Idle /\ job["manager"].cluster = i)
    BY <2>1 DEF Apart
  <2>3. \A c \in BlueprintClusters : c \in topo' => phase'[c] = "ready"
    BY <1>1, <2>1 DEF Apart
  <2>4. \A c \in BlueprintClusters :
          job'[c] # Idle => job'[c] \in InstallJobs /\ job'[c].cluster = c /\ phase'[c] = "installing"
    BY <1>1, <1>2, <1>3, <2>1 DEF Apart, SameWork
  <2>5. \A c \in BlueprintClusters :
         job'["manager"] # Idle /\ job'["manager"].cluster = c => phase'[c] = "ready"
    BY <1>1, <2>1, <2>2 DEF Apart
  <2> QED BY <2>3, <2>4, <2>5 DEF Apart
<1> QED BY <1>4, <1>5

(* Every step keeps the installers apart.                                  *)
LEMMA ApartStep == TypeOK /\ Apart /\ [Next]_vars => Apart'
<1> SUFFICES ASSUME TypeOK, Apart, [Next]_vars PROVE Apart'
  OBVIOUS
<1>m. /\ "manager" \in Installers /\ "manager" \notin BlueprintClusters
      /\ BlueprintClusters \subseteq Installers /\ BlueprintClusters \subseteq Clusters
  BY ManagerAssumption DEF Installers
<1>t. job \in [Installers -> Jobs] /\ phase \in [BlueprintClusters -> Phases]
  BY DEF TypeOK, Jobs, Phases
<1>1. CASE \E c \in Clusters, r \in Requests : RestRequest(c, r)
  BY <1>1 DEF RestRequest, Apart
<1>2. CASE \E c \in Clusters : add_k8scluster(c) \/ del_k8scluster(c)
  BY <1>2 DEF add_k8scluster, del_k8scluster, Apart
<1>3. CASE \E i \in Installers : Install(i)
  BY <1>3, InstallMoves, ApartMove
<1>4. CASE _delegate_operation
  <2>1. topo' = topo /\ phase' = phase
    BY <1>4 DEF _delegate_operation
  <2>2. CASE job' = job
    BY <2>1, <2>2 DEF Apart
  <2>3. CASE \E x \in Jobs : job' = [job EXCEPT !["manager"] = x] /\ x.cluster \in topo
    <3>1. PICK x \in Jobs : job' = [job EXCEPT !["manager"] = x] /\ x.cluster \in topo
      BY <2>3
    <3>2. job'["manager"] = x /\ \A c \in BlueprintClusters : job'[c] = job[c]
      BY <1>m, <1>t, <3>1
    <3> QED BY <2>1, <3>1, <3>2 DEF Apart
  <2> QED BY <1>4, <2>2, <2>3, DelegateChanges
<1>5. CASE apply_def_to_cluster \/ applied_to_k8s
  <2>1. topo' = topo /\ phase' = phase /\ job["manager"] # Idle
    <3>1. topo' = topo /\ job["manager"] \in YamlJobs
      BY <1>5, YamlMoves
    <3>2. job["manager"] # Idle
      BY <3>1, KindOfJob DEF Jobs
    <3>3. CASE Report("manager", "failed") \/ Report("manager", "done")
      BY <3>1, <3>2, <3>3 DEF Report
    <3>4. CASE UNCHANGED <<sent, phase>>
      BY <3>1, <3>2, <3>4
    <3> QED BY <1>5, <3>3, <3>4, YamlMoves
  <2>2. PICK x : job' = [job EXCEPT !["manager"] = x] /\ (x = Idle \/ x.cluster = job["manager"].cluster)
    BY <1>5, YamlMoves
  <2>3. job'["manager"] = x /\ \A c \in BlueprintClusters : job'[c] = job[c]
    BY <1>m, <1>t, <2>2
  <2> QED BY <2>1, <2>2, <2>3 DEF Apart
<1>6. CASE \E c \in Clusters, p \in Plugins : helm_ends(c, p)
  <2>1. PICK c \in Clusters, p \in Plugins : helm_ends(c, p)
    BY <1>6
  <2>2. topo' = topo
    BY <2>1, HelmMoves
  <2>3. CASE UNCHANGED <<job, sent, phase>>
    BY <2>2, <2>3 DEF Apart
  <2>4. CASE \E i \in Installers : Moves(i)
    BY <2>2, <2>4, ApartMove
  <2> QED BY <2>1, <2>3, <2>4, HelmMoves
<1>7. CASE close
  BY <1>m, <1>t, <1>7 DEF close, Apart
<1>8. CASE initialize_k8s_man_subscriber
  BY <1>8 DEF initialize_k8s_man_subscriber, Apart
<1>9. CASE \E c \in BlueprintClusters : install_default_plugins(c)
  <2>1. PICK c \in BlueprintClusters : install_default_plugins(c)
    BY <1>9
  <2>2. phase[c] = "none" /\ topo' = topo
    BY <2>1 DEF install_default_plugins
  <2>3. c \notin topo /\ job[c] = Idle /\ ~ (job["manager"] # Idle /\ job["manager"].cluster = c)
    BY <2>2 DEF Apart
  <2>4. CASE job' = job /\ \E v \in {"failed", "installed"} : phase' = [phase EXCEPT ![c] = v]
    <3>1. \A b \in BlueprintClusters : b # c => phase'[b] = phase[b]
      BY <1>t, <2>4
    <3> QED BY <2>2, <2>3, <2>4, <3>1 DEF Apart
  <2>5. CASE ~ (job' = job /\ \E v \in {"failed", "installed"} : phase' = [phase EXCEPT ![c] = v])
    <3>1. PICK x : x = [pc |-> "check", request |-> 0, cluster |-> c,
                plugins |-> <<"flannel", "metallb", "openebs">>, pools |-> setup_load_balancer_pool,
                left |-> {}, at |-> 0, found |-> {}]
      OBVIOUS
    <3>2. job' = [job EXCEPT ![c] = x] /\ phase' = [phase EXCEPT ![c] = "installing"]
      BY <2>1, <2>5, <3>1 DEF install_default_plugins
    <3>3. x \in InstallJobs /\ x.cluster = c
      BY <1>m, <3>1, DefaultJob
    <3>4. /\ job'[c] = x /\ phase'[c] = "installing" /\ job'["manager"] = job["manager"]
          /\ \A b \in BlueprintClusters : b # c => phase'[b] = phase[b] /\ job'[b] = job[b]
      BY <1>m, <1>t, <3>2
    <3> QED BY <2>2, <2>3, <3>3, <3>4 DEF Apart
  <2> QED BY <2>4, <2>5
<1>10. CASE \E c \in BlueprintClusters : topology_onboard(c)
  <2>1. PICK c \in BlueprintClusters : topology_onboard(c)
    BY <1>10
  <2>2. /\ job' = job /\ phase[c] = "installed" /\ phase' = [phase EXCEPT ![c] = "ready"]
        /\ topo' \subseteq topo \cup {c}
    BY <2>1 DEF topology_onboard
  <2>3. phase'[c] = "ready" /\ \A b \in BlueprintClusters : b # c => phase'[b] = phase[b]
    BY <1>t, <2>2
  <2> QED BY <2>2, <2>3 DEF Apart
<1>11. CASE UNCHANGED vars
  BY <1>11 DEF vars, Apart
<1> QED BY <1>m, <1>1, <1>2, <1>3, <1>4, <1>5, <1>6, <1>7, <1>8, <1>9, <1>10, <1>11 DEF Next, Manager

-----------------------------------------------------------------------------
(* What is true of an installation past its check, on a cluster whose      *)
(* charts are ch: the plugins asked for and found do not conflict, what    *)
(* the cluster came with was found, a network plugin asked for works or is still to *)
(* come, and no other plugin's turn comes before it.                       *)
AtOne(j) == j.pc \in {"wait", "config", "retry"}

Sound(j, ch) ==
    /\ ~Conflict(j.plugins, j.found)
    /\ \A p \in Network : ch[p] = "manifest" => p \in j.found
    /\ \A n \in j.left : n \in DOMAIN j.plugins /\ j.plugins[n] \in Plugins
    /\ \A p \in Network \cap Range(j.plugins) :
         p \in j.found \/ ch[p] = "installed" \/ \E n \in j.left : j.plugins[n] = p
    /\ AtOne(j) => /\ j.at \in j.left
                   /\ Current(j) \notin Network => \A n \in j.left : j.plugins[n] \notin Network
    /\ j.pc \in {"config", "retry"} => Current(j) \notin Network /\ ch[Current(j)] = "installed"

ChartsOf == [Plugins -> ChartState]

(* Where Flannel is asked for, Calico is not then on the cluster.          *)
LEMMA SoundOne ==
    ASSUME NEW j, NEW ch, Sound(j, ch), ch["calico"] \in {"absent", "manifest"},
           "flannel" \in Range(j.plugins)
    PROVE  ch["calico"] = "absent"
BY DEF Sound, Conflict, Network

(* The check makes an installation sound.                                  *)
LEMMA SoundCheck ==
    ASSUME NEW j \in InstallJobs, NEW ch \in ChartsOf, NEW F,
           Lists(F, ch), ~Conflict(j.plugins, F), NEW L, L = NotInstalled(j.plugins, F),
           NEW x, x.plugins = j.plugins, x.found = F, x.left = L, x.pc = "next"
    PROVE  Sound(x, ch)
<1>1. ~Conflict(x.plugins, x.found)
  OBVIOUS
<1>2. \A p \in Network : ch[p] = "manifest" => p \in x.found
  BY DEF Network, Plugins, Lists
<1>3. \A n \in x.left : n \in DOMAIN x.plugins /\ x.plugins[n] \in Plugins
  BY DEF NotInstalled
<1>4. \A p \in Network \cap Range(x.plugins) :
         p \in x.found \/ ch[p] = "installed" \/ \E n \in x.left : x.plugins[n] = p
  <2> SUFFICES ASSUME NEW p \in Network, p \in Range(j.plugins), p \notin F
               PROVE  \E n \in L : j.plugins[n] = p
    OBVIOUS
  <2>1. PICK n \in DOMAIN j.plugins : j.plugins[n] = p
    BY DEF Range
  <2>2. n \in L
    BY <2>1 DEF NotInstalled, Plugins
  <2> QED BY <2>1, <2>2
<1> QED BY <1>1, <1>2, <1>3, <1>4 DEF Sound, AtOne

(* A chart is started for the plugin whose turn it is.                     *)
LEMMA SoundWait ==
    ASSUME NEW j \in InstallJobs, NEW ch \in ChartsOf, Sound(j, ch), j.pc = "next",
           NEW n \in First(j), NEW v \in {"pending", "upgrading"},
           NEW x, x.plugins = j.plugins, x.found = j.found, x.left = j.left, x.pc = "wait", x.at = n,
           NEW dh, dh = [ch EXCEPT ![j.plugins[n]] = v]
    PROVE  Sound(x, dh)
<1>0. n \in j.left /\ n \in DOMAIN j.plugins /\ j.plugins[n] \in Plugins
  BY DEF First, Sound
<1>1. ~Conflict(x.plugins, x.found)
  BY DEF Sound
<1>2. j.plugins[n] \in Range(j.plugins)
  BY <1>0 DEF Range
<1>3. \A p \in Plugins : p # j.plugins[n] => dh[p] = ch[p]
  BY DEF ChartsOf
<1>p. Network \subseteq Plugins
  BY DEF Plugins
<1>4. \A p \in Network : dh[p] = "manifest" => p \in x.found
  BY <1>0, <1>2, <1>3, <1>p DEF Sound
<1>5. \A m \in x.left : m \in DOMAIN x.plugins /\ x.plugins[m] \in Plugins
  BY DEF Sound
<1>6. \A p \in Network \cap Range(x.plugins) :
         p \in x.found \/ dh[p] = "installed" \/ \E m \in x.left : x.plugins[m] = p
  BY <1>0, <1>3, <1>p DEF Sound
<1>7. Current(x) \notin Network => \A m \in x.left : x.plugins[m] \notin Network
  BY DEF First, Precedes, Current
<1> QED BY <1>0, <1>1, <1>4, <1>5, <1>6, <1>7 DEF Sound, AtOne

(* The end of a helm process, seen by one who does not wait for it.        *)
LEMMA SoundHelm ==
    ASSUME NEW j \in InstallJobs, NEW ch \in ChartsOf, Sound(j, ch),
           NEW p \in Plugins, ch[p] \in {"pending", "upgrading"}, NEW v \in {"installed", "absent"},
           NEW dh, dh = [ch EXCEPT ![p] = v]
    PROVE  Sound(j, dh)
<1>0. dh[p] = v /\ \A q \in Plugins : q # p => dh[q] = ch[q]
  BY DEF ChartsOf
<1>p. Network \subseteq Plugins
  BY DEF Plugins
<1>1. \A q \in Network : dh[q] = "manifest" => q \in j.found
  BY <1>0, <1>p DEF Sound
<1>2. \A q \in Network \cap Range(j.plugins) :
         q \in j.found \/ dh[q] = "installed" \/ \E n \in j.left : j.plugins[n] = q
  BY <1>0, <1>p DEF Sound
<1>3. j.pc \in {"config", "retry"} => Current(j) \notin Network /\ dh[Current(j)] = "installed"
  BY <1>0 DEF Sound, AtOne, Current
<1> QED BY <1>1, <1>2, <1>3 DEF Sound

(* The chart an installation waits for is there: a network plugin is done, *)
(* another is configured.                                                  *)
LEMMA SoundChart ==
    ASSUME NEW j \in InstallJobs, NEW ch \in ChartsOf, Sound(j, ch), j.pc = "wait",
           NEW p \in Plugins, p = Current(j), NEW dh, dh = [ch EXCEPT ![p] = "installed"],
           ch[p] \in {"pending", "upgrading"}, NEW x, x = AfterChart(j)
    PROVE  Sound(x, dh)
<1>0. dh[p] = "installed" /\ \A q \in Plugins : q # p => dh[q] = ch[q]
  BY DEF ChartsOf
<1>1. Sound(j, dh)
  BY SoundHelm
<1>2. j.at \in j.left /\ p \in Range(j.plugins)
  BY DEF Sound, AtOne, Current, Range
<1>3. CASE p \in Network
  <2>1. /\ x.pc = "next" /\ x.plugins = j.plugins /\ x.found = j.found
        /\ x.left = {n \in j.left : n # j.at /\ j.plugins[n] \notin Network}
    <3>1. x = Installed(j)
      BY <1>3 DEF AfterChart
    <3> QED BY <3>1, InstalledJob
  <2>2. \A q \in Network \cap Range(j.plugins) : q = p
    BY <1>2, <1>3 DEF Sound, Conflict, Network
  <2> QED BY <1>0, <1>1, <2>1, <2>2 DEF Sound, AtOne
<1>4. CASE p \notin Network
  <2>1. x = [j EXCEPT !.pc = "config"]
    BY <1>4 DEF AfterChart
  <2>2. /\ x.pc = "config" /\ x.plugins = j.plugins /\ x.found = j.found /\ x.left = j.left /\ x.at = j.at
    BY <2>1, JobWithPc
  <2> QED BY <1>0, <1>1, <1>4, <2>2 DEF Sound, AtOne, Current
<1> QED BY <1>3, <1>4

(* A plugin is configured, or is tried once more.                          *)
LEMMA SoundConfigured ==
    ASSUME NEW j \in InstallJobs, NEW ch, Sound(j, ch), j.pc \in {"config", "retry"},
           NEW x, x = Installed(j) \/ x = [j EXCEPT !.pc = "retry"]
    PROVE  Sound(x, ch)
<1>1. CASE x = Installed(j)
  <2>1. /\ x.pc = "next" /\ x.plugins = j.plugins /\ x.found = j.found
        /\ x.left = {n \in j.left : n # j.at /\ j.plugins[n] \notin Network}
    BY <1>1, InstalledJob
  <2>2. \A n \in j.left : j.plugins[n] \notin Network
    BY DEF Sound, AtOne
  <2> QED BY <2>1, <2>2 DEF Sound, AtOne
<1>2. CASE x = [j EXCEPT !.pc = "retry"]
  <2>1. /\ x.pc = "retry" /\ x.plugins = j.plugins /\ x.found = j.found /\ x.left = j.left /\ x.at = j.at
    BY <1>2, JobWithPc
  <2> QED BY <2>1 DEF Sound, AtOne, Current
<1> QED BY <1>1, <1>2

(* The inductive invariant for the network plugins.                        *)
Past(j) == j \in InstallJobs /\ j.pc # "check"

Checked ==
    /\ OneNetworkPlugin
    /\ \A c \in Clusters : chart[c]["calico"] \in {"absent", "manifest"}
    /\ \A i \in Installers : Past(job[i]) => Sound(job[i], chart[job[i].cluster])

(* The other installers are on other clusters.                             *)
LEMMA OthersSound ==
    ASSUME TypeOK, Apart, Checked, NEW i \in Installers, Moves(i),
           \A c \in Clusters : c # job[i].cluster => chart'[c] = chart[c]
    PROVE  \A k \in Installers : k # i /\ Past(job'[k]) => Sound(job'[k], chart'[job'[k].cluster])
<1> SUFFICES ASSUME NEW k \in Installers, k # i, Past(job'[k])
             PROVE  Sound(job'[k], chart'[job'[k].cluster])
  OBVIOUS
<1>1. job'[k] = job[k] /\ job[i] \in InstallJobs
  BY MoveChanges DEF Moves
<1>2. job[k] # Idle /\ job[i] # Idle /\ job[k].cluster \in Clusters
  BY <1>1, KindOfJob DEF Past, Jobs, InstallJobs
<1>3. job[k].cluster # job[i].cluster
  BY <1>2, OneInstallerEach
<1> QED BY <1>1, <1>2, <1>3 DEF Checked

(* A step of HelmPluginManager keeps the invariant.                        *)
LEMMA CheckedInstall ==
    ASSUME TypeOK, Apart, Checked, NEW i \in Installers, Install(i)
    PROVE  Checked'
<1> DEFINE j == job[i]
           ch == chart[job[i].cluster]
<1>0. /\ Moves(i) /\ j \in InstallJobs /\ j.cluster \in Clusters /\ ch \in ChartsOf
      /\ chart \in [Clusters -> ChartsOf] /\ j \in Jobs /\ job \in [Installers -> Jobs]
  BY InstallMoves DEF Moves, TypeOK, InstallJobs, ChartsOf, Jobs
<1>1. ASSUME \A c \in Clusters : c # j.cluster => chart'[c] = chart[c],
             job'[i] = Idle \/ Sound(job'[i], chart'[j.cluster]),
             \E p \in Network : chart'[j.cluster][p] = "absent",
             chart'[j.cluster]["calico"] \in {"absent", "manifest"}
      PROVE  Checked'
  <2>1. job'[i] # Idle => job'[i].cluster = j.cluster
    BY <1>0, MoveChanges DEF SameWork
  <2>2. Past(job'[i]) => Sound(job'[i], chart'[job'[i].cluster])
    BY <1>1, <2>1, KindOfJob DEF Past, Jobs
  <2>3. \A k \in Installers : k # i /\ Past(job'[k]) => Sound(job'[k], chart'[job'[k].cluster])
    BY <1>0, <1>1, OthersSound
  <2>4. OneNetworkPlugin'
    BY <1>1 DEF Checked, OneNetworkPlugin
  <2>5. \A c \in Clusters : chart'[c]["calico"] \in {"absent", "manifest"}
    BY <1>1 DEF Checked
  <2> QED BY <2>2, <2>3, <2>4, <2>5 DEF Checked
<1>2. CASE job'[i] = Idle /\ chart' = chart
  BY <1>0, <1>1, <1>2 DEF Checked, OneNetworkPlugin
<1>3. CASE install_plugins(i) /\ job'[i] # Idle
  <2>1. PICK F \in get_installed_plugins(j.cluster) :
          /\ chart' = chart /\ ~Conflict(j.plugins, F)
          /\ Go(i, [j EXCEPT !.pc = "next", !.found = F, !.left = NotInstalled(j.plugins, F)])
    BY <1>0, <1>3 DEF install_plugins, Raise, cluster
  <2>2. PICK L : L = NotInstalled(j.plugins, F)
    OBVIOUS
  <2>3. PICK x : x = [j EXCEPT !.pc = "next", !.found = F, !.left = L]
    OBVIOUS
  <2>4. chart' = chart /\ ~Conflict(j.plugins, F) /\ job' = [job EXCEPT ![i] = x]
    BY <2>1, <2>2, <2>3 DEF Go
  <2>5. Lists(F, ch)
    BY <1>0, <2>1, Listing
  <2>6. F \in SUBSET Plugins /\ L \in SUBSET Nat
    BY <1>0, <2>2, <2>5, PlacesAreNumbers DEF InstallJobs, Lists
  <2>7. x.plugins = j.plugins /\ x.found = F /\ x.left = L /\ x.pc = "next"
    BY <1>0, <2>3, <2>6 DEF InstallJobs
  <2>8. Sound(x, ch)
    BY <1>0, <2>2, <2>4, <2>5, <2>7, SoundCheck
  <2>9. job'[i] = x /\ chart'[j.cluster] = ch
    BY <1>0, <2>4
  <2> QED BY <1>0, <1>1, <2>4, <2>8, <2>9 DEF Checked, OneNetworkPlugin
<1>4. CASE install_plugin(i) /\ ~ (job'[i] = Idle /\ chart' = chart)
  <2>1. PICK n \in First(j) :
          /\ j.pc = "next" /\ j.plugins[n] # "calico"
          /\ chart' = [chart EXCEPT ![j.cluster][j.plugins[n]] =
                         IF @ = "absent" THEN "pending" ELSE "upgrading"]
          /\ Go(i, [j EXCEPT !.pc = "wait", !.at = n])
    BY <1>0, <1>4 DEF install_plugin, Raise
  <2>2. PICK v \in {"pending", "upgrading"} : v = IF ch[j.plugins[n]] = "absent" THEN "pending" ELSE "upgrading"
    OBVIOUS
  <2>3. PICK dh : dh = [ch EXCEPT ![j.plugins[n]] = v]
    OBVIOUS
  <2>4. PICK x : x = [j EXCEPT !.pc = "wait", !.at = n]
    OBVIOUS
  <2>5. Sound(j, ch)
    BY <1>0, <2>1 DEF Checked, Past
  <2>6. n \in Nat
    BY <1>0 DEF First, InstallJobs
  <2>7. x.plugins = j.plugins /\ x.found = j.found /\ x.left = j.left /\ x.pc = "wait" /\ x.at = n
    BY <1>0, <2>4, <2>6 DEF InstallJobs
  <2>8. Sound(x, dh)
    BY <1>0, <2>1, <2>2, <2>3, <2>5, <2>7, SoundWait
  <2>9. chart' = [chart EXCEPT ![j.cluster] = dh]
    BY <1>0, <2>1, <2>2, <2>3
  <2>10. chart'[j.cluster] = dh /\ \A c \in Clusters : c # j.cluster => chart'[c] = chart[c]
    BY <1>0, <2>9
  <2>11. job'[i] = x
    BY <1>0, <2>1, <2>4 DEF Go
  <2>12. /\ Network = {"flannel", "calico"} /\ Network \subseteq Plugins
         /\ ch["calico"] \in {"absent", "manifest"} /\ \E p \in Network : ch[p] = "absent"
    BY <1>0 DEF Network, Plugins, Checked, OneNetworkPlugin
  <2>13. \A p \in Plugins : p # j.plugins[n] => dh[p] = ch[p]
    BY <1>0, <2>3 DEF ChartsOf
  <2>14. dh["calico"] = ch["calico"]
    BY <2>1, <2>12, <2>13
  <2>15. \E p \in Network : dh[p] = "absent"
    <3>1. CASE j.plugins[n] = "flannel"
      <4>1. "flannel" \in Range(j.plugins)
        BY <2>5, <3>1 DEF First, Sound, Range
      <4>2. ch["calico"] = "absent"
        BY <2>5, <2>12, <4>1, SoundOne
      <4> QED BY <2>12, <2>14, <4>2
    <3>2. CASE j.plugins[n] # "flannel"
      BY <2>1, <2>12, <2>13, <3>2
    <3> QED BY <3>1, <3>2
  <2> QED BY <1>1, <2>8, <2>10, <2>11, <2>12, <2>14, <2>15
<1>5. CASE (_install_openebs(i) \/ _install_metallb(i)) /\ job'[i] # Idle
  <2>1. /\ j.pc \in {"config", "retry"} /\ chart' = chart
        /\ Go(i, Installed(j)) \/ Go(i, [j EXCEPT !.pc = "retry"])
    BY <1>0, <1>5 DEF _install_openebs, _install_metallb, Raise
  <2>2. PICK x : (x = Installed(j) \/ x = [j EXCEPT !.pc = "retry"]) /\ job'[i] = x
    BY <1>0, <2>1 DEF Go
  <2>3. Sound(j, ch)
    BY <1>0, <2>1 DEF Checked, Past
  <2>4. Sound(x, ch)
    BY <1>0, <2>1, <2>2, <2>3, SoundConfigured
  <2> QED BY <1>0, <1>1, <2>1, <2>2, <2>4 DEF Checked, OneNetworkPlugin
<1>6. install_plugins(i) \/ _install_openebs(i) \/ _install_metallb(i) => chart' = chart
  BY DEF install_plugins, _install_openebs, _install_metallb, cluster, history
<1>7. _install_calico(i) \/ installed_plugins(i) => job'[i] = Idle /\ chart' = chart
  BY <1>0 DEF _install_calico, installed_plugins, Raise, Succeed, cluster, history
<1> QED BY <1>2, <1>3, <1>4, <1>5, <1>6, <1>7 DEF Install

(* The end of a helm process keeps it.                                     *)
LEMMA CheckedHelm ==
    ASSUME TypeOK, Apart, Checked, NEW c \in Clusters, NEW p \in Plugins, helm_ends(c, p)
    PROVE  Checked'
<1> DEFINE ch == chart[c]
<1>0. /\ ch \in ChartsOf /\ chart \in [Clusters -> ChartsOf] /\ job \in [Installers -> Jobs]
      /\ ch[p] \in {"pending", "upgrading"}
  BY DEF TypeOK, ChartsOf, Jobs, helm_ends
<1>1. PICK ok \in BOOLEAN :
        LET waiting == {i \in Installers : job[i].pc = "wait" /\ At(job[i], c, p)}
        IN  /\ chart' = [chart EXCEPT ![c][p] = IF ok \/ @ = "upgrading" THEN "installed" ELSE "absent"]
            /\ IF waiting = {} THEN UNCHANGED <<job, sent, phase>>
               ELSE \E i \in waiting : IF ok THEN Go(i, AfterChart(job[i])) ELSE Raise(i)
  BY DEF helm_ends
<1>2. PICK v \in {"installed", "absent"} : v = IF ok \/ ch[p] = "upgrading" THEN "installed" ELSE "absent"
  OBVIOUS
<1>3. PICK dh : dh = [ch EXCEPT ![p] = v]
  OBVIOUS
<1>4. chart' = [chart EXCEPT ![c] = dh]
  BY <1>0, <1>1, <1>2, <1>3
<1>5. chart'[c] = dh /\ \A b \in Clusters : b # c => chart'[b] = chart[b]
  BY <1>0, <1>4
<1>6. OneNetworkPlugin'
  <2>1. \A q \in Plugins : ch[q] = "absent" => dh[q] = "absent"
    BY <1>0, <1>3 DEF ChartsOf
  <2>2. Network \subseteq Plugins
    BY DEF Plugins
  <2>3. \E q \in Network : dh[q] = "absent"
    BY <2>1, <2>2 DEF Checked, OneNetworkPlugin
  <2> QED BY <1>5, <2>3 DEF Checked, OneNetworkPlugin
<1>c. \A b \in Clusters : chart'[b]["calico"] \in {"absent", "manifest"}
  <2>1. "calico" \in Plugins /\ ch["calico"] \in {"absent", "manifest"}
    BY DEF Plugins, Network, Checked
  <2>2. p # "calico"
    BY <1>0, <2>1
  <2>3. dh["calico"] = ch["calico"]
    BY <1>0, <1>3, <2>1, <2>2 DEF ChartsOf
  <2> QED BY <1>5, <2>1, <2>3 DEF Checked
<1>7. ASSUME NEW k \in Installers, Past(job[k])
      PROVE  Sound(job[k], chart'[job[k].cluster])
  <2>1. job[k] \in InstallJobs /\ job[k].cluster \in Clusters /\ Sound(job[k], chart[job[k].cluster])
    BY <1>7 DEF Checked, Past, InstallJobs
  <2>2. CASE job[k].cluster = c
    <3>1. Sound(job[k], ch)
      BY <2>1, <2>2
    <3>2. PICK q : q = job[k]
      OBVIOUS
    <3>3. Sound(q, dh)
      BY <1>0, <1>3, <2>1, <3>1, <3>2, SoundHelm
    <3> QED BY <1>5, <2>2, <3>2, <3>3
  <2>3. CASE job[k].cluster # c
    BY <1>5, <2>1, <2>3
  <2> QED BY <2>2, <2>3
<1>8. CASE job' = job
  BY <1>6, <1>7, <1>8, <1>c DEF Checked
<1>9. CASE job' # job
  <2>1. PICK i \in Installers : /\ job[i].pc = "wait" /\ job[i].cluster = c /\ Current(job[i]) = p
                                /\ IF ok THEN Go(i, AfterChart(job[i])) ELSE Raise(i)
    BY <1>1, <1>9 DEF At
  <2>2. job[i] \in InstallJobs /\ Past(job[i])
    BY <1>0, <2>1, KindOfJob DEF Past
  <2>3. PICK x : x = AfterChart(job[i])
    OBVIOUS
  <2>4. /\ \A k \in Installers : k # i => job'[k] = job[k]
        /\ job'[i] = IF ok THEN x ELSE Idle
    BY <1>0, <2>1, <2>3 DEF Go, Raise
  <2>5. ok => Sound(x, dh) /\ x.cluster = c
    <3>1. SUFFICES ASSUME ok PROVE Sound(x, dh) /\ x.cluster = c
      OBVIOUS
    <3>2. dh = [ch EXCEPT ![p] = "installed"]
      BY <1>2, <1>3, <3>1
    <3>3. Sound(job[i], ch)
      BY <2>1, <2>2 DEF Checked
    <3>4. Sound(x, dh)
      BY <1>0, <2>1, <2>2, <2>3, <3>2, <3>3, SoundChart
    <3>5. x.cluster = c
      BY <2>1, <2>2, <2>3, WorkKept DEF AfterChart, SameWork
    <3> QED BY <3>4, <3>5
  <2>6. Past(job'[i]) => Sound(job'[i], chart'[job'[i].cluster])
    BY <1>5, <2>4, <2>5, KindOfJob DEF Past, Jobs
  <2>7. \A k \in Installers : k # i /\ Past(job'[k]) => Sound(job'[k], chart'[job'[k].cluster])
    BY <1>7, <2>4
  <2> QED BY <1>6, <1>c, <2>6, <2>7 DEF Checked
<1> QED BY <1>8, <1>9

(* Steps that start or end jobs, and touch no chart.                       *)
LEMMA CheckedElsewhere ==
    ASSUME Checked, chart' = chart,
           \A i \in Installers : job'[i] = job[i] \/ ~Past(job'[i])
    PROVE  Checked'
BY DEF Checked, OneNetworkPlugin

(* Every step keeps the invariant.                                         *)
LEMMA CheckedStep == TypeOK /\ Apart /\ Checked /\ [Next]_vars => Checked'
<1> SUFFICES ASSUME TypeOK, Apart, Checked, [Next]_vars PROVE Checked'
  OBVIOUS
<1>m. /\ "manager" \in Installers /\ "manager" \notin BlueprintClusters
      /\ BlueprintClusters \subseteq Installers /\ BlueprintClusters \subseteq Clusters
  BY ManagerAssumption DEF Installers
<1>t. job \in [Installers -> Jobs] /\ ~Past(Idle)
  BY KindOfJob DEF TypeOK, Jobs, Past
<1>1. CASE \E c \in Clusters, r \in Requests : RestRequest(c, r)
  BY <1>1, CheckedElsewhere DEF RestRequest, cluster, history
<1>2. CASE \E c \in Clusters : add_k8scluster(c) \/ del_k8scluster(c)
  BY <1>2, CheckedElsewhere DEF add_k8scluster, del_k8scluster, cluster, history
<1>3. CASE \E i \in Installers : Install(i)
  BY <1>3, CheckedInstall
<1>4. CASE _delegate_operation
  <2>1. chart' = chart
    BY <1>4 DEF _delegate_operation, cluster, history
  <2>2. CASE job' = job
    BY <2>1, <2>2, CheckedElsewhere
  <2>3. CASE \E x \in Jobs : job' = [job EXCEPT !["manager"] = x] /\ (x.pc = "check" \/ x \in YamlJobs)
    <3>1. PICK x \in Jobs : job' = [job EXCEPT !["manager"] = x] /\ (x.pc = "check" \/ x \in YamlJobs)
      BY <2>3
    <3>2. ~Past(x)
      BY <3>1, KindOfJob DEF Past
    <3>3. \A i \in Installers : job'[i] = job[i] \/ job'[i] = x
      BY <1>t, <3>1
    <3> QED BY <2>1, <3>2, <3>3, CheckedElsewhere
  <2> QED BY <1>4, <2>2, <2>3, DelegateChanges
<1>5. CASE apply_def_to_cluster \/ applied_to_k8s
  <2>1. chart' = chart
    BY <1>5, YamlMoves
  <2>2. PICK x : job' = [job EXCEPT !["manager"] = x] /\ (x = Idle \/ x \in YamlJobs)
    BY <1>5, YamlMoves
  <2>3. ~Past(x)
    BY <1>t, <2>2, KindOfJob DEF Past, Jobs
  <2>4. \A i \in Installers : job'[i] = job[i] \/ job'[i] = x
    BY <1>t, <2>2
  <2> QED BY <2>1, <2>3, <2>4, CheckedElsewhere
<1>6. CASE \E c \in Clusters, p \in Plugins : helm_ends(c, p)
  BY <1>6, CheckedHelm
<1>7. CASE close
  BY <1>t, <1>7, CheckedElsewhere DEF close, cluster, history
<1>8. CASE initialize_k8s_man_subscriber
  BY <1>8, CheckedElsewhere DEF initialize_k8s_man_subscriber, cluster, history
<1>9. CASE \E c \in BlueprintClusters : install_default_plugins(c)
  <2>1. PICK c \in BlueprintClusters : install_default_plugins(c)
    BY <1>9
  <2>2. chart' = chart
    BY <2>1 DEF install_default_plugins, cluster, history
  <2>3. CASE job' = job
    BY <2>2, <2>3, CheckedElsewhere
  <2>4. CASE job' # job
    <3>1. PICK x : x = [pc |-> "check", request |-> 0, cluster |-> c,
                plugins |-> <<"flannel", "metallb", "openebs">>, pools |-> setup_load_balancer_pool,
                left |-> {}, at |-> 0, found |-> {}]
      OBVIOUS
    <3>2. job' = [job EXCEPT ![c] = x]
      BY <2>1, <2>4, <3>1 DEF install_default_plugins
    <3>3. ~Past(x)
      BY <1>m, <3>1, DefaultJob DEF Past
    <3>4. \A i \in Installers : job'[i] = job[i] \/ job'[i] = x
      BY <1>t, <3>2
    <3> QED BY <2>2, <3>3, <3>4, CheckedElsewhere
  <2> QED BY <2>3, <2>4
<1>10. CASE \E c \in BlueprintClusters : topology_onboard(c)
  BY <1>10, CheckedElsewhere DEF topology_onboard, cluster, history
<1>11. CASE UNCHANGED vars
  BY <1>11, CheckedElsewhere DEF vars, cluster, history
<1> QED BY <1>m, <1>1, <1>2, <1>3, <1>4, <1>5, <1>6, <1>7, <1>8, <1>9, <1>10, <1>11 DEF Next, Manager

(* The first state: nobody is at work, and the clusters that came with     *)
(* plugins have one network plugin.                                        *)
LEMMA CheckedInit == Init => Apart /\ Checked
<1> SUFFICES ASSUME Init PROVE Apart /\ Checked
  OBVIOUS
<1>1. "manager" \in Installers /\ BlueprintClusters \subseteq Installers /\ ~Past(Idle)
  BY KindOfJob DEF Installers, Jobs, Past
<1>2. \A i \in Installers : job[i] = Idle
  BY DEF Init
<1>3. Apart
  BY <1>1, <1>2 DEF Init, Apart
<1>4. OneNetworkPlugin
  BY ManagerAssumption DEF Init, OneNetworkPlugin
<1>5. \A c \in Clusters : chart[c]["calico"] \in {"absent", "manifest"}
  BY ManagerAssumption DEF Init, Plugins, Network
<1> QED BY <1>1, <1>2, <1>3, <1>4, <1>5 DEF Checked

(* The invariant, of every reachable state.                                *)
LEMMA AlwaysChecked == Spec => [](TypeOK /\ Apart /\ Checked)
<1>1. Init => TypeOK /\ Apart /\ Checked
  BY TypeInit, CheckedInit
<1>2. TypeOK /\ Apart /\ Checked /\ [Next]_vars => (TypeOK /\ Apart /\ Checked)'
  BY TypeStep, ApartStep, CheckedStep
<1> QED BY <1>1, <1>2, PTL DEF Spec

(* A cluster never has two network plugins, or releases of them in         *)
(* progress: what another installer, an orphaned helm process or a         *)
(* restarted manager does between the check of install_plugins and the     *)
(* chart does not undo it.  The check alone is not enough, since it may    *)
(* miss a release in progress; the proof also uses that _install_calico    *)
(* raises before it starts a chart, so only Flannel's is ever in progress. *)
THEOREM NoSecondNetwork == Spec => []OneNetworkPlugin
<1>1. TypeOK /\ Apart /\ Checked => OneNetworkPlugin
  BY DEF Checked
<1> QED BY <1>1, AlwaysChecked, PTL

(* "Network plugins must be installed before the others": the chart of     *)
(* another plugin is started only when the network plugin of the same      *)
(* list works, or was found on the cluster, and it stays so while the      *)
(* other plugins are installed and configured.                             *)
THEOREM NetworkIsFirst == Spec => []NetworkFirst
<1>1. TypeOK /\ Apart /\ Checked => NetworkFirst
  <2> SUFFICES ASSUME TypeOK, Checked, NEW i \in Installers,
                      job[i].pc \in {"wait", "config", "retry"}, Current(job[i]) \notin Network,
                      NEW p \in Network \cap Range(job[i].plugins)
               PROVE  p \in job[i].found \/ chart[job[i].cluster][p] = "installed"
    BY DEF NetworkFirst
  <2>1. Past(job[i])
    BY KindOfJob DEF TypeOK, Jobs, Past
  <2>2. Sound(job[i], chart[job[i].cluster])
    BY <2>1 DEF Checked
  <2> QED BY <2>2 DEF Sound, AtOne
<1> QED BY <1>1, AlwaysChecked, PTL

-----------------------------------------------------------------------------
(* What the manager's installation has achieved, on a cluster with charts  *)
(* ch, D the clusters with a default storage class and N the names of the  *)
(* cluster's pools: every plugin asked for was found, is to come, or is    *)
(* complete.                                                               *)
Complete(j, p, ch, D, N) ==
    /\ ch[p] = "installed"
    /\ p = "openebs" => j.cluster \in D
    /\ p = "metallb" => j.pools[1].name \in N

Served(j, ch, D, N) ==
    \A p \in Range(j.plugins) \cap Plugins :
      p \in j.found \/ (\E n \in j.left : j.plugins[n] = p) \/ Complete(j, p, ch, D, N)

(* What works stays, whatever else is added.                               *)
LEMMA ServedGrows ==
    ASSUME NEW j, NEW ch, NEW dh, NEW D, NEW E, NEW N, NEW M, Served(j, ch, D, N),
           D \subseteq E, N \subseteq M,
           \A p \in Plugins : ch[p] = "installed" => dh[p] = "installed"
    PROVE  Served(j, dh, E, M)
BY DEF Served, Complete

(* After the check nothing is complete, and nothing is forgotten.          *)
LEMMA ServedCheck ==
    ASSUME NEW j, NEW ch, NEW D, NEW N, NEW F, NEW L, L = NotInstalled(j.plugins, F),
           NEW x, x.plugins = j.plugins, x.found = F, x.left = L
    PROVE  Served(x, ch, D, N)
<1> SUFFICES ASSUME NEW p \in Plugins, p \in Range(j.plugins), p \notin F
             PROVE  \E n \in L : j.plugins[n] = p
  BY DEF Served
<1>1. PICK n \in DOMAIN j.plugins : j.plugins[n] = p
  BY DEF Range
<1>2. n \in L
  BY <1>1 DEF NotInstalled
<1> QED BY <1>1, <1>2

(* The chart of a plugin in the list is started again.                     *)
LEMMA ServedWait ==
    ASSUME NEW j, NEW ch \in ChartsOf, NEW D, NEW N, Served(j, ch, D, N), NEW n \in j.left, NEW v,
           NEW x, x.plugins = j.plugins, x.found = j.found, x.left = j.left,
           x.cluster = j.cluster, x.pools = j.pools,
           NEW dh, dh = [ch EXCEPT ![j.plugins[n]] = v]
    PROVE  Served(x, dh, D, N)
<1>1. \A p \in Plugins : p # j.plugins[n] => dh[p] = ch[p]
  BY DEF ChartsOf
<1> QED BY <1>1 DEF Served, Complete

(* A plugin that is complete is taken from the list; when it is a network  *)
(* plugin, with its other occurrences.                                     *)
LEMMA ServedDone ==
    ASSUME NEW j \in InstallJobs, NEW ch, NEW D, NEW N, Served(j, ch, D, N), Sound(j, ch), AtOne(j),
           Complete(j, Current(j), ch, D, N), NEW x, x = Installed(j)
    PROVE  Served(x, ch, D, N)
<1>1. /\ x.plugins = j.plugins /\ x.found = j.found /\ x.cluster = j.cluster /\ x.pools = j.pools
      /\ x.left = {n \in j.left : n # j.at /\ j.plugins[n] \notin Network}
  BY InstalledJob
<1>2. j.at \in j.left /\ j.at \in DOMAIN j.plugins
  BY DEF Sound, AtOne
<1>3. Current(j) \in Range(j.plugins)
  BY <1>2 DEF Current, Range
<1>4. \A n \in j.left : j.plugins[n] \in Network => j.plugins[n] = Current(j)
  <2> SUFFICES ASSUME NEW n \in j.left, j.plugins[n] \in Network PROVE j.plugins[n] = Current(j)
    OBVIOUS
  <2>1. Current(j) \in Network
    BY DEF Sound, AtOne
  <2>2. j.plugins[n] \in Range(j.plugins)
    BY DEF Sound, Range
  <2> QED BY <1>3, <2>1, <2>2 DEF Sound, Conflict, Network
<1>5. SUFFICES ASSUME NEW p \in Range(j.plugins) \cap Plugins,
                      p \notin j.found, ~Complete(j, p, ch, D, N)
               PROVE  \E n \in x.left : j.plugins[n] = p
  BY <1>1 DEF Served, Complete
<1>6. PICK n \in j.left : j.plugins[n] = p
  BY <1>5 DEF Served
<1>7. p # Current(j)
  BY <1>5
<1>8. n \in x.left
  BY <1>1, <1>4, <1>6, <1>7 DEF Current
<1> QED BY <1>6, <1>8

(* A pool that is applied without a refusal, and with none dropped, is     *)
(* there.                                                                  *)
LEMMA PoolMade ==
    ASSUME NEW have, NEW g, NEW given, given = <<g>>,
           NEW outcome \in [DOMAIN given -> Outcome], \A n \in DOMAIN outcome : outcome[n] # "plain",
           create_from_yaml_custom(have, given, outcome).failures = {}
    PROVE  given[1].name \in DOMAIN create_from_yaml_custom(have, given, outcome).pools
<1>1. DOMAIN given = {1} /\ given[1] = g
  OBVIOUS
<1>2. outcome[1] \in {"created", "error"}
  BY <1>1 DEF Outcome
<1>3. {n \in DOMAIN given : outcome[n] = "error"} = {}
  BY DEF create_from_yaml_custom
<1>4. outcome[1] = "created"
  BY <1>1, <1>2, <1>3
<1>5. create_from_yaml_custom(have, given, outcome).pools = WithPools(have, given, outcome)
  BY DEF create_from_yaml_custom
<1>6. CASE g.name \in DOMAIN have
  BY <1>1, <1>5, <1>6 DEF WithPools
<1>7. CASE g.name \notin DOMAIN have
  <2> DEFINE created == {n \in DOMAIN given :
                      /\ given[n].name \notin DOMAIN have
                      /\ outcome[n] = "created"
                      /\ \A k \in 1..(n - 1) : given[k].name = given[n].name => outcome[k] # "created"}
  <2>1. 1 \in created
    <3>1. \A k \in 1..(1 - 1) : FALSE
      OBVIOUS
    <3> QED BY <1>1, <1>4, <1>7, <3>1
  <2>2. DOMAIN WithPools(have, given, outcome) = DOMAIN have \cup {given[n].name : n \in created}
    BY DEF WithPools
  <2> QED BY <1>5, <2>1, <2>2
<1> QED BY <1>6, <1>7

(* What ties the manager's job j to its request q, o being the documents   *)
(* on its cluster with the request that made each.                         *)
AskedFor(j, q, o) ==
    /\ q.on = j.cluster
    /\ j \in InstallJobs => /\ q.what.op = "install" /\ j.plugins = q.what.plugins
                            /\ j.pools = <<q.what.pool>>
    /\ j \in YamlJobs => /\ q.what.op = "yaml"
                         /\ \A d \in Range(q.what.docs) \ {EmptyDoc} :
                              d \in Range(j.docs) \/ (d \in DOMAIN o /\ o[d] = j.request)

Asked ==
    job["manager"] # Idle =>
      /\ job["manager"].request \in DOMAIN sent
      /\ AskedFor(job["manager"], sent[job["manager"].request], objs[job["manager"].cluster])

(* Another status, the same work.                                          *)
LEMMA AskedSame ==
    ASSUME NEW j, NEW x, NEW q, NEW u, NEW o, AskedFor(j, q, o), u.on = q.on, u.what = q.what,
           x = j \/ (j \in InstallJobs /\ SameWork(j, x))
    PROVE  AskedFor(x, u, o)
<1>1. CASE x = j
  BY <1>1 DEF AskedFor
<1>2. CASE j \in InstallJobs /\ SameWork(j, x)
  <2>1. x \in InstallJobs /\ x \notin YamlJobs
    BY <1>2, KindOfJob DEF SameWork, Jobs
  <2> QED BY <1>2, <2>1 DEF AskedFor, SameWork
<1> QED BY <1>1, <1>2

(* The first document, or one after it.                                    *)
LEMMA FirstOrLater ==
    ASSUME NEW s \in DocLists, s # <<>>, NEW d \in Range(s)
    PROVE  d = Head(s) \/ d \in Range(Tail(s))
<1>0. s \in Seq(Docs \cup {EmptyDoc})
  BY DEF DocLists
<1>1. DOMAIN s = 1 .. Len(s) /\ Len(s) \in Nat
  BY <1>0, LenProperties
<1>2. PICK n \in 1 .. Len(s) : d = s[n]
  BY <1>1 DEF Range
<1>3. CASE n = 1
  BY <1>0, <1>2, <1>3
<1>4. CASE n # 1
  <2>1. /\ Tail(s) \in Seq(Docs \cup {EmptyDoc}) /\ Len(Tail(s)) = Len(s) - 1
        /\ \A k \in 1 .. Len(Tail(s)) : Tail(s)[k] = s[k + 1]
    BY <1>0, HeadTailProperties
  <2>2. DOMAIN Tail(s) = 1 .. Len(Tail(s))
    BY <2>1, LenProperties
  <2>3. n - 1 \in 1 .. Len(Tail(s)) /\ (n - 1) + 1 = n
    BY <1>1, <1>2, <1>4, <2>1
  <2>4. Tail(s)[n - 1] = d
    BY <1>2, <2>1, <2>3
  <2> QED BY <2>2, <2>3, <2>4 DEF Range
<1> QED BY <1>3, <1>4

(* A move keeps the manager's job tied to its request.                     *)
LEMMA AskedMove ==
    ASSUME TypeOK, Asked, NEW i \in Installers, Moves(i), objs' = objs
    PROVE  Asked'
<1>0. "manager" \in Installers
  BY DEF Installers
<1>1. /\ \A k \in Installers : k # i => job'[k] = job[k]
      /\ job'[i] = Idle \/ SameWork(job[i], job'[i])
      /\ DOMAIN sent' = DOMAIN sent
      /\ \A n \in DOMAIN sent : sent'[n].on = sent[n].on /\ sent'[n].what = sent[n].what
      /\ job[i] \in InstallJobs /\ job[i] # Idle
  BY MoveChanges, KindOfJob DEF Moves, Jobs
<1>2. SUFFICES ASSUME job'["manager"] # Idle PROVE Asked'
  BY DEF Asked
<1>3. /\ job["manager"] # Idle
      /\ \/ job'["manager"] = job["manager"]
         \/ job["manager"] \in InstallJobs /\ SameWork(job["manager"], job'["manager"])
  BY <1>0, <1>1, <1>2
<1>4. /\ job'["manager"].request = job["manager"].request
      /\ job'["manager"].cluster = job["manager"].cluster
  BY <1>3 DEF SameWork
<1>5. /\ job["manager"].request \in DOMAIN sent
      /\ AskedFor(job["manager"], sent[job["manager"].request], objs[job["manager"].cluster])
  BY <1>3 DEF Asked
<1>6. AskedFor(job'["manager"], sent'[job["manager"].request], objs[job["manager"].cluster])
  BY <1>1, <1>3, <1>5, AskedSame
<1> QED BY <1>1, <1>4, <1>5, <1>6 DEF Asked

(* So do the steps of a YAML request: the document that is taken is empty  *)
(* or is made.                                                             *)
LEMMA AskedYaml ==
    ASSUME TypeOK, Asked, apply_def_to_cluster \/ applied_to_k8s
    PROVE  Asked'
<1>t. job \in [Installers -> Jobs] /\ "manager" \in Installers
  BY DEF TypeOK, Jobs, Installers
<1>1. SUFFICES ASSUME job'["manager"] # Idle PROVE Asked'
  BY DEF Asked
<1>2. PICK x \in YamlJobs :
        /\ job' = [job EXCEPT !["manager"] = x] /\ UNCHANGED <<sent, phase>>
        /\ x.request = job["manager"].request /\ x.cluster = job["manager"].cluster
        /\ x.docs = Tail(job["manager"].docs)
  BY <1>t, <1>1, YamlMoves
<1>3. job'["manager"] = x /\ job["manager"] \in YamlJobs /\ job["manager"] # Idle
  BY <1>t, <1>2, YamlMoves, KindOfJob DEF Jobs
<1>4. apply_def_to_cluster /\ ~Raise("manager")
  BY <1>t, <1>1 DEF applied_to_k8s, Succeed, Raise
<1> DEFINE j == job["manager"]
           q == sent[j.request]
           d == Head(j.docs)
<1>5. j.docs \in DocLists /\ j.docs # <<>> /\ j.cluster \in Clusters
  BY <1>3, <1>4 DEF YamlJobs, apply_def_to_cluster
<1>6. j.request \in DOMAIN sent /\ AskedFor(j, q, objs[j.cluster])
  BY <1>3 DEF Asked
<1>7. /\ \A e \in DOMAIN objs[j.cluster] : e \in DOMAIN objs'[j.cluster] /\ objs'[j.cluster][e] = objs[j.cluster][e]
      /\ d # EmptyDoc => d \in DOMAIN objs'[j.cluster] /\ objs'[j.cluster][d] = j.request
  <2>1. CASE d = EmptyDoc
    BY <1>4, <2>1 DEF apply_def_to_cluster
  <2>2. CASE d # EmptyDoc
    <3>1. /\ d \notin DOMAIN objs[j.cluster]
          /\ objs' = [objs EXCEPT ![j.cluster] =
                        [e \in DOMAIN @ \cup {d} |-> IF e = d THEN j.request ELSE @[e]]]
      BY <1>4, <2>2 DEF apply_def_to_cluster
    <3>2. objs'[j.cluster] = [e \in DOMAIN objs[j.cluster] \cup {d} |->
                                IF e = d THEN j.request ELSE objs[j.cluster][e]]
      BY <1>5, <3>1 DEF TypeOK
    <3> QED BY <2>2, <3>1, <3>2
  <2> QED BY <2>1, <2>2
<1>8. x \notin InstallJobs
  BY KindOfJob DEF Jobs
<1>9. \A e \in Range(q.what.docs) \ {EmptyDoc} :
        e \in Range(x.docs) \/ (e \in DOMAIN objs'[j.cluster] /\ objs'[j.cluster][e] = x.request)
  <2> SUFFICES ASSUME NEW e \in Range(q.what.docs), e # EmptyDoc, e \notin Range(x.docs)
               PROVE  e \in DOMAIN objs'[j.cluster] /\ objs'[j.cluster][e] = x.request
    OBVIOUS
  <2>1. CASE e \in Range(j.docs)
    <3>1. e = d
      BY <1>2, <1>5, <2>1, FirstOrLater
    <3> QED BY <1>2, <1>7, <3>1
  <2>2. CASE e \notin Range(j.docs)
    BY <1>2, <1>3, <1>6, <1>7, <2>2 DEF AskedFor
  <2> QED BY <2>1, <2>2
<1>10. AskedFor(x, q, objs'[j.cluster])
  BY <1>2, <1>3, <1>6, <1>8, <1>9 DEF AskedFor
<1> QED BY <1>2, <1>3, <1>6, <1>10 DEF Asked

(* The manager starts the job its message asks for.                        *)
LEMMA AskedDelegate ==
    ASSUME TypeOK, Asked, _delegate_operation
    PROVE  Asked'
<1>t. job \in [Installers -> Jobs] /\ "manager" \in Installers
  BY DEF TypeOK, Jobs, Installers
<1>h. PICK rid : rid = Head(channel)
  OBVIOUS
<1>1. /\ rid \in DOMAIN sent /\ DOMAIN sent' = DOMAIN sent /\ job["manager"] = Idle
      /\ sent'[rid].on = sent[rid].on /\ sent'[rid].what = sent[rid].what
  BY <1>h, DelegateChanges
<1>2. CASE job' = job
  BY <1>1, <1>2 DEF Asked
<1>3. CASE job' # job
  <2>1. PICK x \in Jobs :
          /\ job' = [job EXCEPT !["manager"] = x]
          /\ x.request = rid /\ x.cluster = sent[rid].on
          /\ \/ /\ x \in InstallJobs /\ sent[rid].what.op = "install"
                /\ x.plugins = sent[rid].what.plugins /\ x.pools = <<sent[rid].what.pool>>
             \/ x \in YamlJobs /\ sent[rid].what.op = "yaml" /\ x.docs = sent[rid].what.docs
    BY <1>h, <1>3, DelegateChanges
  <2>2. job'["manager"] = x
    BY <1>t, <2>1
  <2>3. ~ (x \in InstallJobs /\ x \in YamlJobs)
    BY KindOfJob
  <2>4. PICK o : o = objs'[x.cluster]
    OBVIOUS
  <2>5. AskedFor(x, sent'[rid], o)
    BY <1>1, <2>1, <2>3 DEF AskedFor
  <2> QED BY <1>1, <2>1, <2>2, <2>4, <2>5 DEF Asked
<1> QED BY <1>2, <1>3

(* Every step keeps the job tied to its request.                           *)
LEMMA AskedStep == TypeOK /\ Asked /\ [Next]_vars => Asked'
<1> SUFFICES ASSUME TypeOK, Asked, [Next]_vars PROVE Asked'
  OBVIOUS
<1>m. /\ "manager" \in Installers /\ "manager" \notin BlueprintClusters
      /\ BlueprintClusters \subseteq Installers
  BY ManagerAssumption DEF Installers
<1>t. job \in [Installers -> Jobs]
  BY DEF TypeOK, Jobs
<1>1. CASE \E c \in Clusters, r \in Requests : RestRequest(c, r)
  <2>1. DOMAIN sent \subseteq DOMAIN sent' /\ \A n \in DOMAIN sent : sent'[n] = sent[n]
    BY <1>1, RestTyped
  <2> QED BY <1>1, <2>1 DEF RestRequest, cluster, history, Asked
<1>2. CASE \E c \in Clusters : add_k8scluster(c) \/ del_k8scluster(c)
  BY <1>2 DEF add_k8scluster, del_k8scluster, cluster, history, Asked
<1>3. CASE \E i \in Installers : Install(i)
  BY <1>3, InstallMoves, AskedMove
<1>4. CASE _delegate_operation
  BY <1>4, AskedDelegate
<1>5. CASE apply_def_to_cluster \/ applied_to_k8s
  BY <1>5, AskedYaml
<1>6. CASE \E c \in Clusters, p \in Plugins : helm_ends(c, p)
  <2>1. PICK c \in Clusters, p \in Plugins : helm_ends(c, p)
    BY <1>6
  <2>2. objs' = objs
    BY <2>1, HelmMoves
  <2>3. CASE UNCHANGED <<job, sent, phase>>
    BY <2>2, <2>3 DEF Asked
  <2>4. CASE \E i \in Installers : Moves(i)
    BY <2>2, <2>4, AskedMove
  <2> QED BY <2>1, <2>3, <2>4, HelmMoves
<1>7. CASE close
  BY <1>m, <1>t, <1>7 DEF close, Asked
<1>8. CASE initialize_k8s_man_subscriber
  BY <1>8 DEF initialize_k8s_man_subscriber, cluster, history, Asked
<1>9. CASE \E c \in BlueprintClusters : install_default_plugins(c) \/ topology_onboard(c)
  <2>1. job'["manager"] = job["manager"] /\ sent' = sent /\ objs' = objs
    BY <1>m, <1>t, <1>9 DEF install_default_plugins, topology_onboard, cluster, history
  <2> QED BY <2>1 DEF Asked
<1>10. CASE UNCHANGED vars
  BY <1>10 DEF vars, cluster, history, Asked
<1> QED BY <1>m, <1>1, <1>2, <1>3, <1>4, <1>5, <1>6, <1>7, <1>8, <1>9, <1>10 DEF Next, Manager

-----------------------------------------------------------------------------
(* The names of a cluster's pools pl, and the one of job j when a refusal  *)
(* was dropped for its request, one of X.                                  *)
Named(j, pl, X) == DOMAIN pl \cup {name \in {j.pools[1].name} : j.request \in X}

(* What the manager's installation has achieved so far.                    *)
Achieved ==
    LET j == job["manager"]
    IN  Past(j) => Served(j, chart[j.cluster], default, Named(j, pools[j.cluster], dropped))

(* Steps of others leave the manager's cluster as it is, or add to it.     *)
LEMMA AchievedElsewhere ==
    ASSUME TypeOK, Achieved, ~Past(job'["manager"]) \/ job'["manager"] = job["manager"],
           Past(job["manager"]) =>
             LET c == job["manager"].cluster
             IN  /\ default \subseteq default' /\ dropped \subseteq dropped'
                 /\ DOMAIN pools[c] \subseteq DOMAIN pools'[c]
                 /\ \A p \in Plugins : chart[c][p] = "installed" => chart'[c][p] = "installed"
    PROVE  Achieved'
<1>1. CASE ~Past(job'["manager"])
  BY <1>1 DEF Achieved
<1>2. CASE Past(job'["manager"]) /\ job'["manager"] = job["manager"]
  <2> DEFINE j == job["manager"]
  <2>1. Served(j, chart[j.cluster], default, Named(j, pools[j.cluster], dropped))
    BY <1>2 DEF Achieved
  <2>3. Named(j, pools[j.cluster], dropped) \subseteq Named(j, pools'[j.cluster], dropped')
    BY <1>2 DEF Named
  <2>2. Served(j, chart'[j.cluster], default', Named(j, pools'[j.cluster], dropped'))
    BY <1>2, <2>1, <2>3, ServedGrows
  <2> QED BY <1>2, <2>2 DEF Achieved
<1> QED BY <1>1, <1>2

(* What a step of an installer does to the clusters: only its own changes, *)
(* and of that only a chart in the list is touched.                        *)
LEMMA InstallAdds ==
    ASSUME TypeOK, NEW i \in Installers, Install(i)
    PROVE  /\ default \subseteq default' /\ dropped \subseteq dropped'
           /\ \A c \in Clusters : DOMAIN pools[c] \subseteq DOMAIN pools'[c]
           /\ \A c \in Clusters : c # job[i].cluster => chart'[c] = chart[c]
<1>0. /\ job[i] \in InstallJobs /\ job[i].cluster \in Clusters /\ job[i].pools \in PoolLists
      /\ ClusterTyped /\ chart \in [Clusters -> ChartsOf]
  BY InstallMoves DEF Moves, InstallJobs, TypeOK, ClusterTyped, ChartsOf
<1>1. CASE install_plugins(i) \/ _install_calico(i) \/ installed_plugins(i)
  BY <1>1 DEF install_plugins, _install_calico, installed_plugins, cluster, history
<1>2. CASE install_plugin(i)
  BY <1>0, <1>2 DEF install_plugin, history
<1>3. CASE _install_openebs(i)
  BY <1>3 DEF _install_openebs
<1>4. CASE _install_metallb(i)
  <2>1. chart' = chart /\ default' = default /\ dropped \subseteq dropped'
    BY <1>4 DEF _install_metallb
  <2>2. PICK outcome : pools' = [pools EXCEPT ![job[i].cluster] =
                                   WithPools(pools[job[i].cluster], job[i].pools, outcome)]
    BY <1>4 DEF _install_metallb, create_from_yaml_custom
  <2>3. PICK W : W = WithPools(pools[job[i].cluster], job[i].pools, outcome)
    OBVIOUS
  <2>4. DOMAIN pools[job[i].cluster] \subseteq DOMAIN W
    BY <1>0, <2>3, PoolsTyped DEF ClusterTyped
  <2>5. \A c \in Clusters : pools'[c] = IF c = job[i].cluster THEN W ELSE pools[c]
    BY <1>0, <2>2, <2>3 DEF ClusterTyped
  <2> QED BY <2>1, <2>4, <2>5
<1> QED BY <1>1, <1>2, <1>3, <1>4 DEF Install

(* The manager's own steps.                                                *)
LEMMA AchievedInstall ==
    ASSUME TypeOK, Checked, Asked, Achieved, Install("manager")
    PROVE  Achieved'
<1> DEFINE i == "manager"
           j == job[i]
           ch == chart[job[i].cluster]
<1>0. /\ i \in Installers /\ j \in InstallJobs /\ j.cluster \in Clusters /\ ch \in ChartsOf
      /\ chart \in [Clusters -> ChartsOf] /\ j \in Jobs /\ job \in [Installers -> Jobs] /\ j # Idle
  BY InstallMoves, KindOfJob DEF Moves, TypeOK, InstallJobs, ChartsOf, Jobs, Installers
<1>1. CASE job'[i] = Idle
  <2>1. ~Past(Idle)
    BY KindOfJob DEF Past, Jobs
  <2> QED BY <1>1, <2>1 DEF Achieved
<1>2. CASE install_plugins(i) /\ job'[i] # Idle
  <2>1. PICK F :
          Go(i, [j EXCEPT !.pc = "next", !.found = F, !.left = NotInstalled(j.plugins, F)])
    BY <1>0, <1>2 DEF install_plugins, Raise
  <2>2. PICK L : L = NotInstalled(j.plugins, F)
    OBVIOUS
  <2>3. PICK x : x = [j EXCEPT !.pc = "next", !.found = F, !.left = L]
    OBVIOUS
  <2>4. job' = [job EXCEPT ![i] = x]
    BY <2>1, <2>2, <2>3 DEF Go
  <2>5. x.plugins = j.plugins /\ x.found = F /\ x.left = L
    BY <1>0, <2>3 DEF InstallJobs
  <2>6. \A c, D, N : Served(x, c, D, N)
    BY <2>2, <2>5, ServedCheck
  <2>7. job'[i] = x
    BY <1>0, <2>4
  <2> QED BY <2>6, <2>7 DEF Achieved
<1>3. CASE install_plugin(i) /\ job'[i] # Idle
  <2>1. PICK n \in First(j) :
          /\ j.pc = "next"
          /\ chart' = [chart EXCEPT ![j.cluster][j.plugins[n]] =
                         IF @ = "absent" THEN "pending" ELSE "upgrading"]
          /\ Go(i, [j EXCEPT !.pc = "wait", !.at = n])
          /\ default' = default /\ pools' = pools /\ dropped' = dropped
    BY <1>0, <1>3 DEF install_plugin, Raise, history
  <2>2. PICK v : v = IF ch[j.plugins[n]] = "absent" THEN "pending" ELSE "upgrading"
    OBVIOUS
  <2>3. PICK dh : dh = [ch EXCEPT ![j.plugins[n]] = v]
    OBVIOUS
  <2>4. PICK x : x = [j EXCEPT !.pc = "wait", !.at = n]
    OBVIOUS
  <2>5. Served(j, ch, default, Named(j, pools[j.cluster], dropped))
    BY <1>0, <2>1 DEF Achieved, Past
  <2>6. n \in j.left
    BY DEF First
  <2>7. /\ x.plugins = j.plugins /\ x.found = j.found /\ x.left = j.left
        /\ x.cluster = j.cluster /\ x.pools = j.pools /\ x.request = j.request
    BY <1>0, <2>4 DEF InstallJobs
  <2>8. Served(x, dh, default, Named(j, pools[j.cluster], dropped))
    BY <1>0, <2>3, <2>5, <2>6, <2>7, ServedWait
  <2>9. chart' = [chart EXCEPT ![j.cluster] = dh]
    BY <1>0, <2>1, <2>2, <2>3
  <2>10. job'[i] = x /\ chart'[j.cluster] = dh
    BY <1>0, <2>1, <2>4, <2>9 DEF Go
  <2> QED BY <2>1, <2>7, <2>8, <2>10 DEF Achieved, Named
<1>4. CASE (_install_openebs(i) \/ _install_metallb(i)) /\ job'[i] # Idle
  <2>0. j.pc \in {"config", "retry"} /\ chart' = chart
    BY <1>4 DEF _install_openebs, _install_metallb
  <2>1. Served(j, ch, default, Named(j, pools[j.cluster], dropped)) /\ Sound(j, ch) /\ AtOne(j)
    BY <1>0, <2>0 DEF Achieved, Checked, Past, AtOne
  <2>2. ch[Current(j)] = "installed"
    BY <2>0, <2>1 DEF Sound
  <2>n. PICK N : N = Named(j, pools'[j.cluster], dropped')
    OBVIOUS
  <2>m. Named(j, pools[j.cluster], dropped) \subseteq N
    BY <1>0, <2>n, InstallAdds DEF Named
  <2>3. Served(j, ch, default', N)
    BY <1>0, <2>1, <2>m, ServedGrows, InstallAdds
  <2>4. PICK y : y = Installed(j)
    OBVIOUS
  <2>5. y.cluster = j.cluster /\ y.pools = j.pools /\ y.request = j.request
    BY <1>0, <2>4, InstalledJob
  <2>6. ASSUME Complete(j, Current(j), ch, default', N), job'[i] = y
        PROVE  Achieved'
    <3>1. Served(y, ch, default', N)
      BY <1>0, <2>1, <2>3, <2>4, <2>6, ServedDone
    <3>2. N = Named(y, pools'[j.cluster], dropped')
      BY <2>5, <2>n DEF Named
    <3> QED BY <2>0, <2>5, <2>6, <3>1, <3>2 DEF Achieved
  <2>7. CASE _install_openebs(i)
    <3>1. Current(j) = "openebs" /\ j.cluster \in default' /\ job'[i] = y
      BY <1>0, <1>4, <2>4, <2>7 DEF _install_openebs, Raise, Go
    <3> QED BY <2>2, <2>6, <3>1 DEF Complete
  <2>8. CASE _install_metallb(i)
    <3>1. PICK outcome \in [DOMAIN j.pools -> Outcome] :
            LET made == create_from_yaml_custom(pools[j.cluster], j.pools, outcome)
            IN  /\ pools' = [pools EXCEPT ![j.cluster] = made.pools]
                /\ dropped' = IF \E n \in DOMAIN outcome : outcome[n] = "plain"
                              THEN dropped \cup {j.request} ELSE dropped
                /\ \/ made.failures = {} /\ Go(i, Installed(j))
                   \/ made.failures # {} /\ j.pc = "config" /\ Go(i, [j EXCEPT !.pc = "retry"])
                   \/ made.failures # {} /\ Raise(i)
      BY <2>8 DEF _install_metallb
    <3>2. CASE create_from_yaml_custom(pools[j.cluster], j.pools, outcome).failures = {}
      <4>1. job'[i] = y
        BY <1>0, <2>4, <3>1, <3>2 DEF Go
      <4>2. PICK g : j.pools = <<g>>
        BY <1>0 DEF Asked, AskedFor
      <4>3. PICK have : have = pools[j.cluster]
        OBVIOUS
      <4>4. PICK given : given = j.pools
        OBVIOUS
      <4>5. \/ j.request \in dropped'
            \/ given[1].name \in DOMAIN create_from_yaml_custom(have, given, outcome).pools
        <5>1. CASE \E n \in DOMAIN outcome : outcome[n] = "plain"
          BY <3>1, <5>1
        <5>2. CASE \A n \in DOMAIN outcome : outcome[n] # "plain"
          BY <3>2, <4>2, <4>3, <4>4, <5>2, PoolMade
        <5> QED BY <5>1, <5>2
      <4>6. pools'[j.cluster] = create_from_yaml_custom(have, given, outcome).pools
        BY <1>0, <3>1, <4>3, <4>4 DEF TypeOK
      <4>7. Current(j) = "metallb"
        BY <2>8 DEF _install_metallb
      <4>8. j.pools[1].name \in N
        BY <2>n, <4>4, <4>5, <4>6 DEF Named
      <4> QED BY <2>2, <2>6, <4>1, <4>7, <4>8 DEF Complete
    <3>3. CASE ~ (create_from_yaml_custom(pools[j.cluster], j.pools, outcome).failures = {})
      <4>1. PICK x : x = [j EXCEPT !.pc = "retry"]
        OBVIOUS
      <4>2. job'[i] = x
        BY <1>0, <1>4, <3>1, <3>3, <4>1 DEF Go, Raise
      <4>3. /\ x.plugins = j.plugins /\ x.found = j.found /\ x.left = j.left
            /\ x.cluster = j.cluster /\ x.pools = j.pools /\ x.request = j.request
        BY <1>0, <4>1, JobWithPc
      <4>4. Served(x, ch, default', N)
        BY <2>3, <4>3 DEF Served, Complete
      <4>5. N = Named(x, pools'[j.cluster], dropped')
        BY <2>n, <4>3 DEF Named
      <4> QED BY <2>0, <4>2, <4>3, <4>4, <4>5 DEF Achieved
    <3> QED BY <3>2, <3>3
  <2> QED BY <1>4, <2>7, <2>8
<1>5. _install_calico(i) \/ installed_plugins(i) => job'[i] = Idle
  BY <1>0 DEF _install_calico, installed_plugins, Raise, Succeed
<1> QED BY <1>1, <1>2, <1>3, <1>4, <1>5 DEF Install

(* A blueprint's steps: it is on another cluster.                          *)
LEMMA AchievedBlueprint ==
    ASSUME TypeOK, Apart, Achieved, NEW i \in Installers, i # "manager", Install(i)
    PROVE  Achieved'
<1>0. "manager" \in Installers
  BY DEF Installers
<1>1. Moves(i) /\ job'["manager"] = job["manager"] /\ job[i] \in InstallJobs
  BY <1>0, InstallMoves, MoveChanges DEF Moves
<1>2. SUFFICES ASSUME Past(job["manager"])
               PROVE  LET c == job["manager"].cluster
                      IN  /\ default \subseteq default' /\ dropped \subseteq dropped'
                          /\ DOMAIN pools[c] \subseteq DOMAIN pools'[c]
                          /\ \A p \in Plugins : chart[c][p] = "installed" => chart'[c][p] = "installed"
  BY <1>1, AchievedElsewhere
<1>3. job["manager"] # Idle /\ job[i] # Idle /\ job["manager"].cluster \in Clusters
  BY <1>1, <1>2, KindOfJob DEF Past, Jobs, InstallJobs
<1>4. job["manager"].cluster # job[i].cluster
  BY <1>0, <1>3, OneInstallerEach
<1> QED BY <1>3, <1>4, InstallAdds

(* The end of a helm process.                                              *)
LEMMA AchievedHelm ==
    ASSUME TypeOK, Apart, Checked, Achieved, NEW c \in Clusters, NEW p \in Plugins, helm_ends(c, p)
    PROVE  Achieved'
<1>0. /\ chart \in [Clusters -> ChartsOf] /\ job \in [Installers -> Jobs] /\ "manager" \in Installers
      /\ chart[c] \in ChartsOf /\ chart[c][p] \in {"pending", "upgrading"}
      /\ default' = default /\ pools' = pools /\ dropped' = dropped
  BY DEF TypeOK, ChartsOf, Jobs, helm_ends, Installers, history
<1>1. PICK ok \in BOOLEAN :
        LET waiting == {i \in Installers : job[i].pc = "wait" /\ At(job[i], c, p)}
        IN  /\ chart' = [chart EXCEPT ![c][p] = IF ok \/ @ = "upgrading" THEN "installed" ELSE "absent"]
            /\ IF waiting = {} THEN UNCHANGED <<job, sent, phase>>
               ELSE \E i \in waiting : IF ok THEN Go(i, AfterChart(job[i])) ELSE Raise(i)
  BY DEF helm_ends
<1>2. PICK v : v = IF ok \/ chart[c][p] = "upgrading" THEN "installed" ELSE "absent"
  OBVIOUS
<1>3. chart' = [chart EXCEPT ![c] = [chart[c] EXCEPT ![p] = v]]
  BY <1>0, <1>1, <1>2
<1>4. \A b \in Clusters : \A q \in Plugins : chart[b][q] = "installed" => chart'[b][q] = "installed"
  <2> SUFFICES ASSUME NEW b \in Clusters, NEW q \in Plugins, chart[b][q] = "installed"
               PROVE  chart'[b][q] = "installed"
    OBVIOUS
  <2>1. CASE b # c
    BY <1>0, <1>3, <2>1
  <2>2. CASE b = c
    <3>1. q # p
      BY <1>0, <2>2
    <3>2. chart'[c] = [chart[c] EXCEPT ![p] = v]
      BY <1>0, <1>3
    <3> QED BY <1>0, <2>2, <3>1, <3>2 DEF ChartsOf
  <2> QED BY <2>1, <2>2
<1>5. \A j : Past(j) => j.cluster \in Clusters
  BY DEF Past, InstallJobs
<1>6. CASE job'["manager"] = job["manager"] \/ ~Past(job'["manager"])
  BY <1>0, <1>4, <1>5, <1>6, AchievedElsewhere
<1>7. CASE job'["manager"] # job["manager"] /\ Past(job'["manager"])
  <2> DEFINE j == job["manager"]
  <2>0. ~Past(Idle)
    BY KindOfJob DEF Past, Jobs
  <2>1. /\ ok /\ job' = [job EXCEPT !["manager"] = AfterChart(j)]
        /\ j.pc = "wait" /\ j.cluster = c /\ Current(j) = p
    BY <1>0, <1>1, <1>7, <2>0 DEF Go, Raise, At
  <2>2. PICK x : x = AfterChart(j)
    OBVIOUS
  <2>3. job'["manager"] = x
    BY <1>0, <2>1, <2>2
  <2>4. j \in InstallJobs /\ Past(j)
    BY <1>0, <2>1, KindOfJob DEF Past
  <2>5. PICK dh : dh = [chart[c] EXCEPT ![p] = "installed"]
    OBVIOUS
  <2>6. chart'[c] = dh /\ dh[p] = "installed"
    BY <1>0, <1>2, <1>3, <2>1, <2>5 DEF ChartsOf
  <2>7. PICK N : N = Named(j, pools[c], dropped)
    OBVIOUS
  <2>8. Sound(j, chart[c]) /\ Served(j, chart[c], default, N)
    BY <2>1, <2>4, <2>7, <1>0 DEF Checked, Achieved
  <2>9. Sound(j, dh)
    <3>1. PICK q : q = j
      OBVIOUS
    <3>2. PICK ch : ch = chart[c]
      OBVIOUS
    <3>3. Sound(q, dh)
      BY <1>0, <2>4, <2>5, <2>8, <3>1, <3>2, SoundHelm
    <3> QED BY <3>1, <3>3
  <2>10. Served(j, dh, default, N)
    BY <1>4, <2>6, <2>8, ServedGrows
  <2>11. CASE p \in Network
    <3>1. x = Installed(j) /\ p # "openebs" /\ p # "metallb"
      BY <2>1, <2>2, <2>11 DEF AfterChart, Network
    <3>2. Complete(j, Current(j), dh, default, N) /\ AtOne(j)
      BY <2>1, <2>6, <3>1 DEF Complete, AtOne
    <3>3. Served(x, dh, default, N)
      BY <2>4, <2>9, <2>10, <3>1, <3>2, ServedDone
    <3>4. x.cluster = c /\ x.pools = j.pools /\ x.request = j.request
      BY <2>1, <2>4, <3>1, InstalledJob
    <3> QED BY <1>0, <2>3, <2>6, <2>7, <3>3, <3>4 DEF Achieved, Named
  <2>12. CASE p \notin Network
    <3>1. x = [j EXCEPT !.pc = "config"]
      BY <2>1, <2>2, <2>12 DEF AfterChart
    <3>2. /\ x.plugins = j.plugins /\ x.found = j.found /\ x.left = j.left
          /\ x.cluster = j.cluster /\ x.pools = j.pools /\ x.request = j.request
      BY <2>4, <3>1 DEF InstallJobs
    <3>3. Served(x, dh, default, N)
      BY <2>10, <3>2 DEF Served, Complete
    <3> QED BY <1>0, <2>1, <2>3, <2>6, <2>7, <3>2, <3>3 DEF Achieved, Named
  <2> QED BY <2>11, <2>12
<1> QED BY <1>6, <1>7

(* Every step keeps what the manager's installation has achieved.          *)
LEMMA AchievedStep == TypeOK /\ Apart /\ Checked /\ Asked /\ Achieved /\ [Next]_vars => Achieved'
<1> SUFFICES ASSUME TypeOK, Apart, Checked, Asked, Achieved, [Next]_vars PROVE Achieved'
  OBVIOUS
<1>m. /\ "manager" \in Installers /\ "manager" \notin BlueprintClusters
      /\ BlueprintClusters \subseteq Installers
  BY ManagerAssumption DEF Installers
<1>t. job \in [Installers -> Jobs] /\ ~Past(Idle)
  BY KindOfJob DEF TypeOK, Jobs, Past
<1>a. ASSUME UNCHANGED <<chart, default, pools, dropped>>, job'["manager"] = job["manager"] \/ ~Past(job'["manager"])
      PROVE  Achieved'
  BY <1>a, AchievedElsewhere
<1>1. CASE \E c \in Clusters, r \in Requests : RestRequest(c, r)
  BY <1>1, <1>a DEF RestRequest, cluster, history
<1>2. CASE \E c \in Clusters : add_k8scluster(c) \/ del_k8scluster(c)
  BY <1>2, <1>a DEF add_k8scluster, del_k8scluster, cluster, history
<1>3. CASE \E i \in Installers : Install(i)
  BY <1>3, AchievedInstall, AchievedBlueprint
<1>4. CASE _delegate_operation
  <2>1. UNCHANGED <<chart, default, pools, dropped>>
    BY <1>4 DEF _delegate_operation, cluster, history
  <2>2. CASE job' = job
    BY <1>a, <2>1, <2>2
  <2>3. CASE \E x \in Jobs : job' = [job EXCEPT !["manager"] = x] /\ (x.pc = "check" \/ x \in YamlJobs)
    <3>1. PICK x \in Jobs : job' = [job EXCEPT !["manager"] = x] /\ (x.pc = "check" \/ x \in YamlJobs)
      BY <2>3
    <3>2. ~Past(x)
      BY <3>1, KindOfJob DEF Past
    <3> QED BY <1>a, <1>m, <1>t, <2>1, <3>1, <3>2
  <2> QED BY <1>4, <2>2, <2>3, DelegateChanges
<1>5. CASE apply_def_to_cluster \/ applied_to_k8s
  <2>1. UNCHANGED <<chart, default, pools, dropped>>
    BY <1>5, YamlMoves DEF history
  <2>2. PICK x : job' = [job EXCEPT !["manager"] = x] /\ (x = Idle \/ x \in YamlJobs)
    BY <1>5, YamlMoves
  <2>3. ~Past(x)
    BY <1>t, <2>2, KindOfJob DEF Past, Jobs
  <2> QED BY <1>a, <1>m, <1>t, <2>1, <2>2, <2>3
<1>6. CASE \E c \in Clusters, p \in Plugins : helm_ends(c, p)
  BY <1>6, AchievedHelm
<1>7. CASE close
  BY <1>a, <1>m, <1>t, <1>7 DEF close, cluster, history
<1>8. CASE initialize_k8s_man_subscriber
  BY <1>8, <1>a DEF initialize_k8s_man_subscriber, cluster, history
<1>9. CASE \E c \in BlueprintClusters : install_default_plugins(c) \/ topology_onboard(c)
  BY <1>a, <1>m, <1>t, <1>9 DEF install_default_plugins, topology_onboard, cluster, history
<1>10. CASE UNCHANGED vars
  BY <1>10, <1>a DEF vars, cluster, history
<1> QED BY <1>m, <1>1, <1>2, <1>3, <1>4, <1>5, <1>6, <1>7, <1>8, <1>9, <1>10 DEF Next, Manager

-----------------------------------------------------------------------------
(* What is left behind on the clusters.  A release is in progress only     *)
(* when an installer waits for it or its installation broke off, and an    *)
(* OpenEBS without its storage class is being configured or broke off.     *)
Solid == {"manifest", "installed", "upgrading"}

KeptOne(c, p) ==
    /\ chart[c][p] \in {"pending", "upgrading"} =>
         <<c, p>> \in unfinished \/ \E i \in Installers : job[i].pc = "wait" /\ At(job[i], c, p)
    /\ p = "openebs" /\ chart[c][p] \in {"upgrading", "installed"} =>
         \/ c \in default \/ <<c, p>> \in unfinished
         \/ \E i \in Installers : job[i].pc = "config" /\ At(job[i], c, p)

Kept == \A c \in Clusters, p \in Plugins : KeptOne(c, p)

(* A plugin whose installers, chart and records stay.                      *)
LEMMA KeptBy ==
    ASSUME NEW c, NEW p, KeptOne(c, p), chart'[c][p] = chart[c][p],
           default \subseteq default', unfinished \subseteq unfinished',
           \A i \in Installers : At(job[i], c, p) => job'[i] = job[i]
    PROVE  KeptOne(c, p)'
BY DEF KeptOne, At

(* Steps that touch no chart, of an installer that is at no plugin.        *)
LEMMA KeptElsewhere ==
    ASSUME Kept, chart' = chart, default \subseteq default', unfinished \subseteq unfinished',
           \A i \in Installers : job'[i] = job[i] \/ ~AtOne(job[i])
    PROVE  Kept'
<1> SUFFICES ASSUME NEW c \in Clusters, NEW p \in Plugins PROVE KeptOne(c, p)'
  BY DEF Kept
<1>1. KeptOne(c, p) /\ \A i \in Installers : At(job[i], c, p) => job'[i] = job[i]
  BY DEF Kept, At, AtOne
<1> QED BY <1>1, KeptBy

(* No installer but i is at a plugin of the cluster of i.                  *)
LEMMA NobodyElse ==
    ASSUME TypeOK, Apart, NEW i \in Installers, job[i] # Idle, NEW c, c = job[i].cluster, NEW p,
           NEW k \in Installers, At(job[k], c, p)
    PROVE  k = i
<1>1. job[k] # Idle
  BY KindOfJob DEF TypeOK, Jobs, At
<1> QED BY <1>1, OneInstallerEach DEF At

(* A chart is started.                                                     *)
LEMMA KeptStart ==
    ASSUME TypeOK, Apart, Kept, NEW i \in Installers, install_plugin(i)
    PROVE  Kept'
<1> DEFINE j == job[i]
<1>0. /\ j \in InstallJobs /\ j.cluster \in Clusters /\ j # Idle /\ j.pc = "next"
      /\ chart \in [Clusters -> ChartsOf] /\ job \in [Installers -> Jobs]
      /\ default' = default /\ unfinished' = unfinished
  BY KindOfJob DEF install_plugin, TypeOK, Jobs, ChartsOf, InstallJobs, history
<1>1. CASE chart' = chart
  <2>1. \A k \in Installers : job'[k] = job[k] \/ ~AtOne(job[k])
    BY <1>0 DEF install_plugin, Raise, Go, AtOne
  <2> QED BY <1>0, <1>1, <2>1, KeptElsewhere
<1>2. CASE chart' # chart
  <2>1. PICK n \in First(j) :
          /\ chart[j.cluster][j.plugins[n]] \in {"absent", "installed"}
          /\ chart' = [chart EXCEPT ![j.cluster][j.plugins[n]] =
                         IF @ = "absent" THEN "pending" ELSE "upgrading"]
          /\ Go(i, [j EXCEPT !.pc = "wait", !.at = n])
    BY <1>2 DEF install_plugin
  <2>2. PICK b : b = j.cluster
    OBVIOUS
  <2>3. PICK q : q = j.plugins[n]
    OBVIOUS
  <2>4. PICK v : v = IF chart[b][q] = "absent" THEN "pending" ELSE "upgrading"
    OBVIOUS
  <2>5. chart' = [chart EXCEPT ![b] = [chart[b] EXCEPT ![q] = v]]
    BY <1>0, <2>1, <2>2, <2>3, <2>4
  <2>6. /\ \A c \in Clusters, p \in Plugins : c # b \/ p # q => chart'[c][p] = chart[c][p]
        /\ q \in Plugins => chart'[b][q] = v
    BY <1>0, <2>2, <2>5 DEF ChartsOf
  <2>7. n \in Nat
    BY <1>0 DEF First, InstallJobs
  <2>8. PICK x : x = [j EXCEPT !.pc = "wait", !.at = n]
    OBVIOUS
  <2>9. x.pc = "wait" /\ x.cluster = b /\ Current(x) = q
    <3>1. x.pc = "wait" /\ x.cluster = j.cluster /\ x.plugins = j.plugins /\ x.at = n
      BY <1>0, <2>7, <2>8 DEF InstallJobs
    <3> QED BY <2>2, <2>3, <3>1 DEF Current
  <2>10. job'[i] = x /\ \A k \in Installers : k # i => job'[k] = job[k]
    BY <1>0, <2>1, <2>8 DEF Go
  <2> SUFFICES ASSUME NEW c \in Clusters, NEW p \in Plugins PROVE KeptOne(c, p)'
    BY DEF Kept
  <2>11. KeptOne(c, p)
    BY DEF Kept
  <2>12. CASE c # b \/ p # q
    <3>1. \A k \in Installers : At(job[k], c, p) => job'[k] = job[k]
      BY <1>0, <2>10 DEF At
    <3> QED BY <1>0, <2>6, <2>11, <2>12, <3>1, KeptBy
  <2>13. CASE c = b /\ p = q
    <3>1. job'[i].pc = "wait" /\ At(job'[i], c, p)
      BY <2>9, <2>10, <2>13 DEF At
    <3>2. ASSUME p = "openebs", chart'[c][p] \in {"upgrading", "installed"}
          PROVE  c \in default \/ <<c, p>> \in unfinished
      <4>1. chart[c][p] = "installed"
        BY <2>1, <2>2, <2>3, <2>4, <2>6, <2>13, <3>2
      <4>2. \A k \in Installers : At(job[k], c, p) => k = i
        BY <1>0, <2>2, <2>13, NobodyElse
      <4> QED BY <1>0, <2>11, <3>2, <4>1, <4>2 DEF KeptOne
    <3> QED BY <1>0, <3>1, <3>2 DEF KeptOne
  <2> QED BY <2>12, <2>13
<1> QED BY <1>1, <1>2

(* A plugin is configured, tried once more, or given up.                   *)
LEMMA KeptConfig ==
    ASSUME TypeOK, Apart, Checked, Kept, NEW i \in Installers, _install_openebs(i) \/ _install_metallb(i)
    PROVE  Kept'
<1> DEFINE j == job[i]
<1>0. /\ j \in InstallJobs /\ j.cluster \in Clusters /\ j.pc \in {"config", "retry"} /\ chart' = chart
      /\ default \subseteq default' /\ unfinished \subseteq unfinished' /\ job \in [Installers -> Jobs]
  BY KindOfJob DEF _install_openebs, _install_metallb, TypeOK, Jobs, InstallJobs
<1>1. chart[j.cluster][Current(j)] = "installed"
  BY <1>0 DEF Checked, Past, Sound
<1>2. \A k \in Installers : k # i => job'[k] = job[k]
  BY <1>0 DEF _install_openebs, _install_metallb, Go, Raise
<1> SUFFICES ASSUME NEW c \in Clusters, NEW p \in Plugins PROVE KeptOne(c, p)'
  BY DEF Kept
<1>3. KeptOne(c, p)
  BY DEF Kept
<1>4. CASE ~At(j, c, p)
  BY <1>0, <1>2, <1>3, <1>4, KeptBy
<1>5. CASE At(j, c, p)
  <2>1. chart'[c][p] = "installed"
    BY <1>0, <1>1, <1>5 DEF At
  <2>2. p = "openebs" => c \in default' \/ <<c, p>> \in unfinished'
    BY <1>5 DEF At, _install_openebs, _install_metallb
  <2> QED BY <2>1, <2>2 DEF KeptOne
<1> QED BY <1>4, <1>5

(* A helm process ends.                                                    *)
LEMMA KeptHelm ==
    ASSUME TypeOK, Apart, Checked, Kept, NEW b \in Clusters, NEW q \in Plugins, helm_ends(b, q)
    PROVE  Kept'
<1>0. /\ chart \in [Clusters -> ChartsOf] /\ job \in [Installers -> Jobs]
      /\ chart[b][q] \in {"pending", "upgrading"} /\ default' = default /\ unfinished' = unfinished
  BY DEF helm_ends, TypeOK, Jobs, ChartsOf, history
<1>1. PICK ok \in BOOLEAN :
        LET waiting == {i \in Installers : job[i].pc = "wait" /\ At(job[i], b, q)}
        IN  /\ chart' = [chart EXCEPT ![b][q] = IF ok \/ @ = "upgrading" THEN "installed" ELSE "absent"]
            /\ IF waiting = {} THEN UNCHANGED <<job, sent, phase>>
               ELSE \E i \in waiting : IF ok THEN Go(i, AfterChart(job[i])) ELSE Raise(i)
  BY DEF helm_ends
<1>2. PICK v : v = IF ok \/ chart[b][q] = "upgrading" THEN "installed" ELSE "absent"
  OBVIOUS
<1>3. chart' = [chart EXCEPT ![b] = [chart[b] EXCEPT ![q] = v]]
  BY <1>0, <1>1, <1>2
<1>4. /\ \A c \in Clusters, p \in Plugins : c # b \/ p # q => chart'[c][p] = chart[c][p]
      /\ chart'[b][q] = v
  BY <1>0, <1>3 DEF ChartsOf
<1>5. \A k \in Installers : job'[k] = job[k] \/ (job[k].pc = "wait" /\ At(job[k], b, q))
  BY <1>0, <1>1 DEF Go, Raise
<1> SUFFICES ASSUME NEW c \in Clusters, NEW p \in Plugins PROVE KeptOne(c, p)'
  BY DEF Kept
<1>6. KeptOne(c, p)
  BY DEF Kept
<1>7. CASE c # b \/ p # q
  <2>1. \A k \in Installers : At(job[k], c, p) => job'[k] = job[k]
    BY <1>5, <1>7 DEF At
  <2> QED BY <1>0, <1>4, <1>6, <1>7, <2>1, KeptBy
<1>8. CASE c = b /\ p = q
  <2>1. SUFFICES ASSUME p = "openebs", v = "installed"
                 PROVE  \/ c \in default \/ <<c, p>> \in unfinished
                        \/ \E i \in Installers : job'[i].pc = "config" /\ At(job'[i], c, p)
    BY <1>0, <1>2, <1>4, <1>8 DEF KeptOne
  <2>2. CASE chart[c][p] = "upgrading"
    <3>1. ASSUME NEW k \in Installers, job[k].pc = "config", At(job[k], c, p) PROVE FALSE
      <4>1. Past(job[k])
        BY <1>0, <3>1, KindOfJob DEF Past
      <4>2. chart[c][p] = "installed"
        BY <3>1, <4>1 DEF Checked, Sound, At
      <4> QED BY <2>2, <4>2
    <3> QED BY <1>6, <2>1, <2>2, <3>1 DEF KeptOne
  <2>3. CASE chart[c][p] = "pending"
    <3>1. CASE <<c, p>> \in unfinished
      BY <3>1
    <3>2. CASE <<c, p>> \notin unfinished
      <4>1. \E i \in Installers : job[i].pc = "wait" /\ At(job[i], b, q)
        BY <1>6, <1>8, <2>3, <3>2 DEF KeptOne
      <4>2. ok
        BY <1>2, <1>8, <2>1, <2>3
      <4>3. PICK i \in Installers : /\ job[i].pc = "wait" /\ At(job[i], b, q)
                                    /\ Go(i, AfterChart(job[i]))
        BY <1>1, <4>1, <4>2
      <4>4. job[i] \in InstallJobs
        BY <1>0, <4>3, KindOfJob
      <4>5. PICK x : x = AfterChart(job[i])
        OBVIOUS
      <4>6. x = [job[i] EXCEPT !.pc = "config"]
        BY <1>8, <2>1, <4>3, <4>5 DEF AfterChart, At, Network
      <4>7. x.pc = "config" /\ x.cluster = job[i].cluster /\ x.plugins = job[i].plugins /\ x.at = job[i].at
        BY <4>4, <4>6, JobWithPc
      <4>8. job'[i] = x
        BY <1>0, <4>3, <4>5 DEF Go
      <4>9. At(x, c, p)
        BY <1>8, <4>3, <4>7 DEF At, Current
      <4> QED BY <4>7, <4>8, <4>9
    <3> QED BY <3>1, <3>2
  <2> QED BY <1>0, <1>8, <2>2, <2>3
<1> QED BY <1>7, <1>8

(* SIGTERM: what the manager was at is recorded as unfinished.             *)
LEMMA KeptClose ==
    ASSUME TypeOK, Kept, close
    PROVE  Kept'
<1>0. /\ chart' = chart /\ default' = default /\ unfinished \subseteq unfinished'
      /\ \A k \in Installers : k # "manager" => job'[k] = job[k]
  BY DEF close, TypeOK
<1> SUFFICES ASSUME NEW c \in Clusters, NEW p \in Plugins PROVE KeptOne(c, p)'
  BY DEF Kept
<1>1. KeptOne(c, p)
  BY DEF Kept
<1>2. CASE ~At(job["manager"], c, p)
  BY <1>0, <1>1, <1>2, KeptBy
<1>3. CASE At(job["manager"], c, p)
  <2>1. <<c, p>> \in unfinished'
    BY <1>3 DEF close
  <2> QED BY <2>1 DEF KeptOne
<1> QED BY <1>2, <1>3

(* Every step keeps it.                                                    *)
LEMMA KeptStep == TypeOK /\ Apart /\ Checked /\ Kept /\ [Next]_vars => Kept'
<1> SUFFICES ASSUME TypeOK, Apart, Checked, Kept, [Next]_vars PROVE Kept'
  OBVIOUS
<1>m. /\ "manager" \in Installers /\ BlueprintClusters \subseteq Installers
      /\ BlueprintClusters \subseteq Clusters
  BY ManagerAssumption DEF Installers
<1>t. job \in [Installers -> Jobs] /\ ~AtOne(Idle)
  BY KindOfJob DEF TypeOK, Jobs, AtOne
<1>1. CASE \E c \in Clusters, r \in Requests : RestRequest(c, r)
  BY <1>1, KeptElsewhere DEF RestRequest, cluster, history
<1>2. CASE \E c \in Clusters : add_k8scluster(c) \/ del_k8scluster(c)
  BY <1>2, KeptElsewhere DEF add_k8scluster, del_k8scluster, cluster, history
<1>3. CASE \E i \in Installers : Install(i)
  <2>1. PICK i \in Installers : Install(i)
    BY <1>3
  <2>2. CASE install_plugins(i) \/ _install_calico(i) \/ installed_plugins(i)
    <3>1. chart' = chart /\ default' = default /\ unfinished' = unfinished
      BY <2>2 DEF install_plugins, _install_calico, installed_plugins, cluster, history
    <3>2. ~AtOne(job[i]) /\ \A k \in Installers : k # i => job'[k] = job[k]
      BY <1>t, <2>2 DEF install_plugins, _install_calico, installed_plugins, Go, Raise, Succeed, AtOne
    <3> QED BY <3>1, <3>2, KeptElsewhere
  <2> QED BY <2>1, <2>2, KeptStart, KeptConfig DEF Install
<1>4. CASE _delegate_operation
  <2>1. chart' = chart /\ default' = default /\ unfinished' = unfinished
    BY <1>4 DEF _delegate_operation, cluster, history
  <2>2. \A k \in Installers : job'[k] = job[k] \/ ~AtOne(job[k])
    BY <1>t, <1>4 DEF _delegate_operation, AtOne
  <2> QED BY <2>1, <2>2, KeptElsewhere
<1>5. CASE apply_def_to_cluster \/ applied_to_k8s
  <2>1. chart' = chart /\ default' = default /\ unfinished' = unfinished
    BY <1>5, YamlMoves DEF history
  <2>2. job["manager"] \in YamlJobs /\ \E x : job' = [job EXCEPT !["manager"] = x]
    BY <1>5, YamlMoves
  <2>3. \A k \in Installers : job'[k] = job[k] \/ ~AtOne(job[k])
    BY <1>t, <2>2, KindOfJob DEF AtOne
  <2> QED BY <2>1, <2>3, KeptElsewhere
<1>6. CASE \E c \in Clusters, p \in Plugins : helm_ends(c, p)
  BY <1>6, KeptHelm
<1>7. CASE close
  BY <1>7, KeptClose
<1>8. CASE initialize_k8s_man_subscriber
  BY <1>8, KeptElsewhere DEF initialize_k8s_man_subscriber, cluster, history
<1>9. CASE \E c \in BlueprintClusters : install_default_plugins(c) \/ topology_onboard(c)
  <2>1. PICK c \in BlueprintClusters : install_default_plugins(c) \/ topology_onboard(c)
    BY <1>9
  <2>2. chart' = chart /\ default' = default /\ unfinished' = unfinished
    BY <2>1 DEF install_default_plugins, topology_onboard, cluster, history
  <2>3. install_default_plugins(c) => job[c] = Idle
    BY DEF install_default_plugins, Apart
  <2>4. \A k \in Installers : job'[k] = job[k] \/ ~AtOne(job[k])
    BY <1>t, <2>1, <2>3 DEF install_default_plugins, topology_onboard
  <2> QED BY <2>2, <2>4, KeptElsewhere
<1>10. CASE UNCHANGED vars
  BY <1>10, KeptElsewhere DEF vars, cluster, history
<1> QED BY <1>m, <1>1, <1>2, <1>3, <1>4, <1>5, <1>6, <1>7, <1>8, <1>9, <1>10 DEF Next, Manager

(* What is on a cluster stays, and what broke off is not forgotten.        *)
Steady ==
    /\ unfinished \subseteq unfinished'
    /\ \A c \in Clusters, p \in Plugins :
         /\ chart[c][p] \in Solid => chart'[c][p] \in Solid
         /\ chart[c][p] = "manifest" => chart'[c][p] = "manifest"

LEMMA SteadyStep ==
    ASSUME TypeOK, [Next]_vars
    PROVE  Steady
<1>t. chart \in [Clusters -> ChartsOf]
  BY DEF TypeOK, ChartsOf
<1>m. "manager" \in Installers /\ BlueprintClusters \subseteq Installers
  BY DEF Installers
<1>1. ASSUME chart' = chart, unfinished \subseteq unfinished' PROVE Steady
  BY <1>1 DEF Steady
<1>2. ASSUME NEW b \in Clusters, NEW q, NEW v, unfinished' = unfinished,
             chart' = [chart EXCEPT ![b][q] = v],
             chart[b][q] # "manifest", chart[b][q] \in Solid => v \in Solid
      PROVE  Steady
  <2>1. \A c \in Clusters, p \in Plugins :
          \/ chart'[c][p] = chart[c][p]
          \/ c = b /\ p = q /\ chart'[c][p] = v
    BY <1>t, <1>2 DEF ChartsOf
  <2> QED BY <1>2, <2>1 DEF Steady
<1>3. CASE \E i \in Installers : Install(i)
  <2>1. PICK i \in Installers : Install(i)
    BY <1>3
  <2>2. CASE install_plugin(i) /\ chart' # chart
    <3>1. PICK n \in First(job[i]) :
          /\ chart[job[i].cluster][job[i].plugins[n]] \in {"absent", "installed"}
          /\ chart' = [chart EXCEPT ![job[i].cluster][job[i].plugins[n]] =
                         IF @ = "absent" THEN "pending" ELSE "upgrading"]
      BY <2>2 DEF install_plugin
    <3>2. PICK v : v = IF chart[job[i].cluster][job[i].plugins[n]] = "absent" THEN "pending" ELSE "upgrading"
      OBVIOUS
    <3>3. job[i].cluster \in Clusters /\ unfinished' = unfinished
      BY <2>1, <2>2, InstallMoves DEF Moves, InstallJobs, install_plugin, history
    <3>4. chart' = [chart EXCEPT ![job[i].cluster][job[i].plugins[n]] = v]
      BY <1>t, <3>1, <3>2, <3>3
    <3> QED BY <1>2, <3>1, <3>2, <3>3, <3>4 DEF Solid
  <2>3. CASE ~(install_plugin(i) /\ chart' # chart)
    BY <1>1, <2>1, <2>3 DEF Install, install_plugins, _install_calico, install_plugin,
                           _install_openebs, _install_metallb, installed_plugins, cluster, history
  <2> QED BY <2>2, <2>3
<1>4. CASE \E c \in Clusters, p \in Plugins : helm_ends(c, p)
  <2>1. PICK c \in Clusters, p \in Plugins : helm_ends(c, p)
    BY <1>4
  <2>2. PICK ok \in BOOLEAN :
          chart' = [chart EXCEPT ![c][p] = IF ok \/ @ = "upgrading" THEN "installed" ELSE "absent"]
    BY <2>1 DEF helm_ends
  <2>3. PICK v : v = IF ok \/ chart[c][p] = "upgrading" THEN "installed" ELSE "absent"
    OBVIOUS
  <2>4. chart' = [chart EXCEPT ![c][p] = v]
    BY <1>t, <2>2, <2>3
  <2>5. chart[c][p] \in {"pending", "upgrading"} /\ unfinished' = unfinished
    BY <2>1 DEF helm_ends, history
  <2> QED BY <1>2, <2>3, <2>4, <2>5 DEF Solid
<1>5. CASE ~ (\E i \in Installers : Install(i)) /\ ~ (\E c \in Clusters, p \in Plugins : helm_ends(c, p))
  <2>1. chart' = chart /\ unfinished \subseteq unfinished'
    BY <1>m, <1>5 DEF Next, Manager, vars, RestRequest, add_k8scluster, del_k8scluster, _delegate_operation,
       apply_def_to_cluster, applied_to_k8s, close, initialize_k8s_man_subscriber,
       install_default_plugins, topology_onboard, cluster, history
  <2> QED BY <1>1, <2>1
<1> QED BY <1>3, <1>4, <1>5

(* What the manager found is there, or is something that broke off.        *)
FoundOn(F, c, U, ch) ==
    \A p \in F : /\ <<c, p>> \in U \/ ch[p] \in Solid
                 /\ p = "metallb" => ch[p] = "manifest"

Found ==
    LET j == job["manager"]
    IN  Past(j) => FoundOn(j.found, j.cluster, unfinished, chart[j.cluster])

LEMMA FoundStep == TypeOK /\ Apart /\ Kept /\ Found /\ [Next]_vars => Found'
<1> SUFFICES ASSUME TypeOK, Apart, Kept, Found, [Next]_vars, Past(job'["manager"])
             PROVE  FoundOn(job'["manager"].found, job'["manager"].cluster, unfinished',
                            chart'[job'["manager"].cluster])
  BY DEF Found
<1> DEFINE i == "manager"
           j == job[i]
<1>m. /\ i \in Installers /\ i \notin BlueprintClusters /\ BlueprintClusters \subseteq Installers
  BY ManagerAssumption DEF Installers
<1>t. job \in [Installers -> Jobs] /\ ~Past(Idle) /\ chart \in [Clusters -> ChartsOf]
  BY KindOfJob DEF TypeOK, Jobs, Past, ChartsOf
<1>1. CASE Past(j) /\ job'[i].found = j.found /\ job'[i].cluster = j.cluster
  <2>1. /\ Steady /\ FoundOn(j.found, j.cluster, unfinished, chart[j.cluster])
        /\ j.cluster \in Clusters /\ j.found \subseteq Plugins
    BY <1>1, SteadyStep DEF Found, Past, InstallJobs
  <2> QED BY <1>1, <2>1 DEF Steady, FoundOn
<1>2. CASE install_plugins(i)
  <2>1. j \in InstallJobs /\ j.pc = "check" /\ j.cluster \in Clusters /\ j # Idle
    <3>1. j \in Jobs /\ j.pc = "check"
      BY <1>t, <1>m, <1>2 DEF install_plugins
    <3>2. j \in InstallJobs /\ j # Idle
      BY <3>1, KindOfJob
    <3> QED BY <3>1, <3>2 DEF InstallJobs
  <2>2. PICK F \in get_installed_plugins(j.cluster) :
          Go(i, [j EXCEPT !.pc = "next", !.found = F, !.left = NotInstalled(j.plugins, F)])
    BY <1>t, <1>m, <1>2 DEF install_plugins, Raise
  <2>3. Lists(F, chart[j.cluster])
    BY <2>1, Listing
  <2>x. PICK x : x = [j EXCEPT !.pc = "next", !.found = F, !.left = NotInstalled(j.plugins, F)]
    OBVIOUS
  <2>y. x.found = F /\ x.cluster = j.cluster
    BY <2>1, <2>x DEF InstallJobs
  <2>4. job'[i].found = F /\ job'[i].cluster = j.cluster
    BY <1>t, <1>m, <2>2, <2>x, <2>y DEF Go
  <2>5. chart' = chart /\ unfinished' = unfinished
    BY <1>2 DEF install_plugins, cluster, history
  <2>6. ASSUME NEW p \in F PROVE <<j.cluster, p>> \in unfinished \/ chart[j.cluster][p] \in Solid
    <3>1. p \in Plugins /\ chart[j.cluster][p] # "absent"
      BY <2>3 DEF Lists
    <3>2. chart[j.cluster][p] \in ChartState
      BY <1>t, <2>1, <3>1 DEF ChartsOf
    <3>3. CASE chart[j.cluster][p] = "pending"
      <4>1. KeptOne(j.cluster, p)
        BY <2>1, <3>1 DEF Kept
      <4>2. \A k \in Installers : At(job[k], j.cluster, p) => k = i
        BY <1>m, <2>1, NobodyElse
      <4> QED BY <2>1, <3>3, <4>1, <4>2 DEF KeptOne
    <3> QED BY <3>1, <3>2, <3>3 DEF ChartState, Solid
  <2> QED BY <2>3, <2>4, <2>5, <2>6 DEF FoundOn, Lists
<1>3. CASE job'[i] = j
  BY <1>1, <1>3
<1>4. CASE Install(i) /\ ~install_plugins(i)
  <2>1. j \in InstallJobs /\ job'[i] # Idle
    BY <1>t, <1>m, <1>4, InstallMoves DEF Moves
  <2>2. j.pc # "check" /\ Past(j)
    BY <1>4, <2>1 DEF Install, _install_calico, install_plugin, _install_openebs, _install_metallb,
                      installed_plugins, Past
  <2>3. PICK x : /\ job' = [job EXCEPT ![i] = x]
                 /\ \/ x = Installed(j) \/ x = [j EXCEPT !.pc = "retry"]
                    \/ \E n \in First(j) : x = [j EXCEPT !.pc = "wait", !.at = n]
    BY <1>t, <1>m, <1>4, <2>1 DEF Install, _install_calico, install_plugin, _install_openebs,
         _install_metallb, installed_plugins, Go, Raise, Succeed
  <2>4. x.found = j.found /\ x.cluster = j.cluster
    <3>1. CASE x = Installed(j)
      BY <2>1, <3>1, InstalledJob
    <3>2. CASE x = [j EXCEPT !.pc = "retry"]
      BY <2>1, <3>2, JobWithPc
    <3>3. CASE \E n \in First(j) : x = [j EXCEPT !.pc = "wait", !.at = n]
      BY <2>1, <3>3, WaitingJob DEF First, InstallJobs
    <3> QED BY <2>3, <3>1, <3>2, <3>3
  <2>5. job'[i] = x
    BY <1>t, <1>m, <2>3
  <2> QED BY <1>1, <2>2, <2>4, <2>5
<1>5. CASE \E c \in Clusters, p \in Plugins : helm_ends(c, p)
  <2>1. CASE job'[i] # j
    <3>1. j.pc = "wait" /\ job' = [job EXCEPT ![i] = AfterChart(j)]
      BY <1>t, <1>m, <1>5, <2>1 DEF helm_ends, Go, Raise
    <3>2. j \in InstallJobs /\ Past(j)
      BY <1>t, <1>m, <3>1, KindOfJob DEF Past
    <3>3. PICK x : x = AfterChart(j)
      OBVIOUS
    <3>4. x = Installed(j) \/ x = [j EXCEPT !.pc = "config"]
      BY <3>3 DEF AfterChart
    <3>5. x.found = j.found /\ x.cluster = j.cluster
      <4>1. CASE x = Installed(j)
        BY <3>2, <4>1, InstalledJob
      <4>2. CASE x = [j EXCEPT !.pc = "config"]
        BY <3>2, <4>2, JobWithPc
      <4> QED BY <3>4, <4>1, <4>2
    <3>6. job'[i] = x
      BY <1>t, <1>m, <3>1, <3>3
    <3> QED BY <1>1, <3>2, <3>5, <3>6
  <2> QED BY <1>3, <2>1
<1>6. CASE _delegate_operation
  <2>1. CASE \E x \in Jobs : job' = [job EXCEPT ![i] = x] /\ (x.pc = "check" \/ x \in YamlJobs)
    <3>1. PICK x \in Jobs : job' = [job EXCEPT ![i] = x] /\ (x.pc = "check" \/ x \in YamlJobs)
      BY <2>1
    <3>2. ~Past(x)
      BY <3>1, KindOfJob DEF Past
    <3> QED BY <1>m, <1>t, <3>1, <3>2
  <2> QED BY <1>3, <1>6, <2>1, DelegateChanges
<1>7. CASE apply_def_to_cluster \/ applied_to_k8s
  <2>1. PICK x : job' = [job EXCEPT ![i] = x] /\ (x = Idle \/ x \in YamlJobs)
    BY <1>7, YamlMoves
  <2>2. ~Past(x)
    BY <1>t, <2>1, KindOfJob DEF Past, Jobs
  <2> QED BY <1>m, <1>t, <2>1, <2>2
<1>8. CASE \E c \in BlueprintClusters : Install(c)
  <2>1. PICK c \in BlueprintClusters : Install(c)
    BY <1>8
  <2>2. job'[i] = j
    BY <1>m, <2>1, InstallMoves, MoveChanges
  <2> QED BY <1>3, <2>2
<1>9. CASE \E c \in BlueprintClusters : install_default_plugins(c) \/ topology_onboard(c)
  <2>1. job'[i] = j
    BY <1>m, <1>t, <1>9 DEF install_default_plugins, topology_onboard
  <2> QED BY <1>3, <2>1
<1>10. CASE close
  BY <1>m, <1>t, <1>10 DEF close
<1>11. CASE \/ UNCHANGED vars \/ initialize_k8s_man_subscriber
            \/ \E c \in Clusters, r \in Requests : RestRequest(c, r)
            \/ \E c \in Clusters : add_k8scluster(c) \/ del_k8scluster(c)
  <2>1. job'[i] = j
    BY <1>11 DEF vars, initialize_k8s_man_subscriber, RestRequest, add_k8scluster, del_k8scluster
  <2> QED BY <1>3, <2>1
<1> QED BY <1>2, <1>4, <1>5, <1>6, <1>7, <1>8, <1>9, <1>10, <1>11 DEF Next, Manager

(* A request is done only by the last step of the manager's job for it.    *)
LEMMA DoneByLastStep ==
    ASSUME TypeOK, [Next]_vars, NEW r \in DOMAIN sent, sent[r].status # "done", sent'[r].status = "done"
    PROVE  /\ r = job["manager"].request
           /\ installed_plugins("manager") \/ (applied_to_k8s /\ job["manager"].result)
<1>m. /\ "manager" \in Installers /\ "manager" \notin BlueprintClusters
      /\ BlueprintClusters \subseteq Installers
  BY ManagerAssumption DEF Installers
<1>0. sent' # sent
  OBVIOUS
<1>r. ASSUME NEW i \in Installers, Report(i, "failed") PROVE FALSE
  BY <1>r, ReportChanges
<1>d. ASSUME Report("manager", "done") PROVE r = job["manager"].request
  BY <1>m, <1>d, ReportChanges
<1>b. ASSUME NEW i \in BlueprintClusters, NEW st, Report(i, st) PROVE FALSE
  BY <1>m, <1>0, <1>b DEF Report
<1>1. CASE \E c \in Clusters, q \in Requests : RestRequest(c, q)
  BY <1>1, RestTyped
<1>2. CASE \E c \in Clusters : add_k8scluster(c) \/ del_k8scluster(c)
  BY <1>0, <1>2 DEF add_k8scluster, del_k8scluster
<1>3. CASE Install("manager")
  <2>1. CASE installed_plugins("manager")
    BY <1>d, <2>1 DEF installed_plugins, Succeed
  <2>2. CASE ~installed_plugins("manager")
    <3>1. Raise("manager") \/ UNCHANGED sent
      BY <1>3, <2>2 DEF Install, install_plugins, _install_calico, install_plugin,
                        _install_openebs, _install_metallb, Go
    <3> QED BY <1>0, <1>m, <1>r, <3>1 DEF Raise
  <2> QED BY <2>1, <2>2
<1>4. CASE _delegate_operation
  BY <1>4, DelegateChanges
<1>5. CASE apply_def_to_cluster
  BY <1>0, <1>m, <1>r, <1>5 DEF apply_def_to_cluster, Go, Raise
<1>6. CASE applied_to_k8s
  BY <1>m, <1>r, <1>d, <1>6 DEF applied_to_k8s, Raise, Succeed
<1>7. CASE \E c \in Clusters, p \in Plugins : helm_ends(c, p)
  <2>1. UNCHANGED sent \/ \E i \in Installers : Raise(i)
    BY <1>7 DEF helm_ends, Go
  <2> QED BY <1>0, <1>r, <2>1 DEF Raise
<1>8. CASE close
  BY <1>8, CloseChanges
<1>9. CASE initialize_k8s_man_subscriber
  BY <1>0, <1>9 DEF initialize_k8s_man_subscriber
<1>10. CASE \E c \in BlueprintClusters : install_default_plugins(c) \/ topology_onboard(c)
  BY <1>0, <1>10 DEF install_default_plugins, topology_onboard
<1>11. CASE \E c \in BlueprintClusters : Install(c)
  <2>1. PICK c \in BlueprintClusters : Install(c)
    BY <1>11
  <2>2. sent' = sent
    BY <1>m, <2>1, InstallMoves, MoveChanges
  <2> QED BY <1>0, <2>2
<1>12. CASE UNCHANGED vars
  BY <1>0, <1>12 DEF vars
<1> QED BY <1>1, <1>2, <1>3, <1>4, <1>5, <1>6, <1>7, <1>8, <1>9, <1>10, <1>11, <1>12 DEF Next, Manager

(* What the property says of a request that becomes done.                  *)
Fulfilled(r) ==
    LET c == sent[r].on
        what == sent[r].what
    IN  /\ what.op = "install" =>
             \A p \in Range(what.plugins) \cap Plugins :
               \/ /\ chart'[c][p] = "installed"
                  /\ p = "openebs" => c \in default'
                  /\ p = "metallb" => what.pool.name \in DOMAIN pools'[c] \/ r \in dropped'
               \/ /\ p \in job["manager"].found
                  /\ chart'[c][p] = "manifest" \/ <<c, p>> \in unfinished'
        /\ what.op = "yaml" =>
             \A d \in Range(what.docs) \ {EmptyDoc} :
               d \in DOMAIN objs'[c] /\ objs'[c][d] = r

(* A plugin the manager found, at the end of its installation.             *)
LEMMA FoundAtEnd ==
    ASSUME TypeOK, Apart, Kept, Found, NEW j, j = job["manager"], Past(j), j.pc = "next",
           NEW c, c = j.cluster, NEW p \in j.found
    PROVE  \/ chart[c][p] = "manifest" \/ <<c, p>> \in unfinished
           \/ chart[c][p] = "installed" /\ p # "metallb" /\ (p = "openebs" => c \in default)
<1>0. /\ "manager" \in Installers /\ j # Idle /\ c \in Clusters /\ p \in Plugins
      /\ FoundOn(j.found, c, unfinished, chart[c])
  BY KindOfJob DEF Installers, Past, InstallJobs, Jobs, Found
<1>1. \A k \in Installers : At(job[k], c, p) => k = "manager"
  BY <1>0, NobodyElse
<1>2. KeptOne(c, p)
  BY <1>0 DEF Kept
<1>3. <<c, p>> \in unfinished \/ chart[c][p] \in Solid
  BY <1>0 DEF FoundOn
<1>4. p = "metallb" => chart[c][p] = "manifest"
  BY <1>0 DEF FoundOn
<1> QED BY <1>1, <1>2, <1>3, <1>4 DEF KeptOne, Solid

(* A step that makes a request done fulfils it.                            *)
LEMMA DoneStep ==
    ASSUME TypeOK, Apart, Asked, Achieved, Kept, Found, [Next]_vars,
           NEW r \in DOMAIN sent, sent[r].status # "done", sent'[r].status = "done"
    PROVE  Fulfilled(r)
<1> DEFINE j == job["manager"]
<1>0. /\ r = j.request
      /\ installed_plugins("manager") \/ (applied_to_k8s /\ j.result)
  BY DoneByLastStep
<1>1. UNCHANGED <<chart, default, pools, objs, unfinished, dropped>>
  BY <1>0 DEF installed_plugins, applied_to_k8s, cluster, history
<1>2. j \in Jobs
  BY DEF TypeOK, Jobs, Installers
<1>3. CASE installed_plugins("manager")
  <2>1. j \in InstallJobs /\ j # Idle /\ Past(j) /\ j.left = {} /\ j.pc = "next"
    BY <1>2, <1>3, KindOfJob DEF installed_plugins, Past
  <2>2. AskedFor(j, sent[r], objs[j.cluster])
    BY <1>0, <2>1 DEF Asked
  <2>3. /\ sent[r].on = j.cluster /\ sent[r].what.op = "install"
        /\ j.plugins = sent[r].what.plugins /\ j.pools = <<sent[r].what.pool>>
    BY <2>1, <2>2 DEF AskedFor
  <2>4. PICK N : N = Named(j, pools[j.cluster], dropped)
    OBVIOUS
  <2>5. Served(j, chart[j.cluster], default, N)
    BY <2>1, <2>4 DEF Achieved
  <2>6. \A p \in Range(j.plugins) \cap Plugins :
          p \in j.found \/ Complete(j, p, chart[j.cluster], default, N)
    BY <2>1, <2>5 DEF Served
  <2>7. j.pools[1].name = sent[r].what.pool.name
    BY <2>3
  <2>8. j.pools[1].name \in N => sent[r].what.pool.name \in DOMAIN pools[j.cluster] \/ r \in dropped
    BY <1>0, <2>4, <2>7 DEF Named
  <2>9. \A p \in j.found : \/ chart[j.cluster][p] = "manifest" \/ <<j.cluster, p>> \in unfinished
                           \/ /\ chart[j.cluster][p] = "installed" /\ p # "metallb"
                              /\ p = "openebs" => j.cluster \in default
    BY <2>1, FoundAtEnd
  <2> QED BY <1>1, <2>3, <2>6, <2>8, <2>9 DEF Fulfilled, Complete
<1>4. CASE applied_to_k8s
  <2>1. j \in YamlJobs /\ j # Idle /\ j.docs = <<>>
    BY <1>2, <1>4, KindOfJob DEF applied_to_k8s
  <2>2. AskedFor(j, sent[r], objs[j.cluster])
    BY <1>0, <2>1 DEF Asked
  <2>3. Range(j.docs) = {}
    BY <2>1 DEF Range
  <2> QED BY <1>0, <1>1, <2>1, <2>2, <2>3 DEF AskedFor, Fulfilled
<1> QED BY <1>0, <1>3, <1>4

(* A request is reported as done only when all it asked for is there: each *)
(* plugin with what is applied after its chart, or each document, made by  *)
(* this request.  The exceptions are those the property names, and the     *)
(* theorem says there is no other: a pool's refusal that                   *)
(* skip_if_already_exists dropped, a plugin the cluster came with, and one *)
(* that get_installed_plugins takes for installed although the             *)
(* installation that put it there broke off.                               *)
THEOREM DoneMeansInstalled == Spec => DoneIsInstalled
<1> DEFINE Inv == TypeOK /\ Apart /\ Checked /\ Asked /\ Achieved /\ Kept /\ Found
<1>1. Init => Inv
  <2>1. Init => job["manager"] = Idle
    BY DEF Init, Installers
  <2>2. ~Past(Idle)
    BY KindOfJob DEF Jobs, Past
  <2>3. Init => Kept
    <3>1. Init => \A c \in Clusters, p \in Plugins : chart[c][p] \in {"absent", "manifest"}
      BY ManagerAssumption DEF Init
    <3> QED BY <3>1 DEF Kept, KeptOne
  <2> QED BY <2>1, <2>2, <2>3, TypeInit, CheckedInit DEF Asked, Achieved, Found
<1>2. Inv /\ [Next]_vars => Inv'
  BY TypeStep, ApartStep, CheckedStep, AskedStep, AchievedStep, KeptStep, FoundStep
<1>3. Inv /\ [Next]_vars =>
        [\A r \in DOMAIN sent :
         sent[r].status # "done" /\ sent'[r].status = "done"
           => LET c == sent[r].on
                  what == sent[r].what
              IN  /\ what.op = "install" =>
                       \A p \in Range(what.plugins) \cap Plugins :
                         \/ /\ chart'[c][p] = "installed"
                            /\ p = "openebs" => c \in default'
                            /\ p = "metallb" => what.pool.name \in DOMAIN pools'[c] \/ r \in dropped'
                         \/ /\ p \in job["manager"].found
                            /\ chart'[c][p] = "manifest" \/ <<c, p>> \in unfinished'
                  /\ what.op = "yaml" =>
                       \A d \in Range(what.docs) \ {EmptyDoc} :
                         d \in DOMAIN objs'[c] /\ objs'[c][d] = r]_vars
  BY DoneStep DEF Fulfilled
<1> QED BY <1>1, <1>2, <1>3, PTL DEF Spec, DoneIsInstalled
=============================================================================
