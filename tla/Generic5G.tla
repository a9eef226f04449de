------------------------------ MODULE Generic5G ------------------------------
(***************************************************************************)
(* One 5G core blueprint: Generic5GBlueprintNG and what the four cores     *)
(* (OAI, free5GC, SD-Core, Athonet) make of it.  The core is the parent of *)
(* a router and a UPF blueprint for every area, drives them through the    *)
(* blueprint provider, tells the core network its values and configures    *)
(* the gNB (a PDU) of every area.                                          *)
(*                                                                         *)
(* An operation is a program: the sequence of steps a core's method calls  *)
(* in order.  One action carries out one step, or one call to a child      *)
(* within it.  An exception ends the program; a day-2 operation then puts  *)
(* its copy of the configuration back, and nothing else.  The process that *)
(* runs all this does not die here: see BlueprintLCM for that.             *)
(***************************************************************************)
EXTENDS Core5GValues, Sequences, TLC

CONSTANTS
    Kinds,      \* the types of core, among "oai", "free5gc", "sdcore", "athonet"
    External,   \* the areas that come with an external router
    Configs,    \* the configurations a core is created with
    Mixed,      \* what an Athonet core runs with that refused part of its configuration
    MaxOps,     \* bound: operations after create
    MaxFaults,  \* bound: calls that fail, children deleted or protected by their user
    MaxEvents   \* bound: both together

ASSUME KindsAssumption == Kinds \subseteq {"oai", "free5gc", "sdcore", "athonet"}
ASSUME ConfigsAssumption == Configs \subseteq Config
ASSUME BoundsAssumption == MaxOps \in Nat /\ MaxFaults \in Nat /\ MaxEvents \in Nat

(* A dictionary with the entry x, and without it. *)
With(f, x, v) == [y \in DOMAIN f \cup {x} |-> IF y = x THEN v ELSE f[y]]
Without(f, x) == [y \in DOMAIN f \ {x} |-> f[y]]

VARIABLES
    kind,                   \* the type of this core
    current_config,         \* state.current_config
    backup_config,          \* the copy a day-2 operation takes
    edge_areas,             \* state.edge_areas
    ran_areas,              \* state.ran_areas
    children_blue_ids,      \* base_model.children_blue_ids
    deployed_blueprints,    \* the blueprint provider's record of them
    routers,                \* the router blueprints there are
    upfs,                   \* the UPF blueprints there are
    protected,              \* the children their user has protected from deletion
    lost,                   \* ghost: children whose create_blueprint raised, PDUs whose unlock did
    chart,                  \* the core's Helm chart, or the PDU of an Athonet core
    core_deployed,          \* state.core_deployed
    values,                 \* the values computed last
    live,                   \* the values the core runs with
    ue_dict,                \* OAI: subscribers associated with a slice
    udr,                    \* the subscribers the core knows
    locked,                 \* the areas whose gNB PDU this blueprint locks
    gnb,                    \* what each gNB was configured with
    op,                     \* the operation in progress, None if there is none
    todo,                   \* the steps it has left
    left,                   \* update_edge_areas: areas not looked at yet
    at,                     \* update_edge_areas: the area half-way, and where
    answer,                 \* the answer to the last operation
    alive,                  \* "yes", "gone" (destroyed), "stuck" (its worker's thread died)
                            \* or "hung" (its worker waits for a child that never answers)
    created,                \* ghost: create has answered OK
    sound,                  \* ghost: the last complete update answered OK, nothing failed since
    silent,                 \* ghost: the children that answered ERROR, unnoticed, to the last call
    ops, faults             \* bounds

parentVars == <<children_blue_ids, deployed_blueprints, edge_areas>>
childVars == <<routers, upfs, protected, lost>>
coreVars == <<chart, core_deployed, values, live, ue_dict, udr>>
ranVars == <<ran_areas, locked, gnb>>
vars == <<kind, current_config, backup_config, parentVars, childVars, coreVars, ranVars,
          op, todo, left, at, answer, alive, created, sound, silent, ops, faults>>

Child == Areas \X {"router", "upf"}
Edge == [router : {"none", "own", "external"}, upf : BOOLEAN,
         config : UpfConfig \cup {None}, list : Partial(Slices, SUBSET Dnns) \cup {None}]
Router == [up : BOOLEAN, routes : SUBSET Dnns]
Steps == {"edge", "chart", "values", "install", "functions", "ready", "pdu", "push", "gnb",
          "subscribers", "infos", "disassociate", "udr_del", "del_user", "raise", "restore", "supis",
          "children"}
Ops == {"create", "add_slice", "del_slice", "add_tac", "del_tac", "add_dnn", "del_dnn",
        "add_ues", "del_ues", "destroy"}

Operation == [name : Ops, ue : Ues \cup {None}]
Position == Areas \X {"router", "deploy", "upf", "routes", "undeploy"}

ASSUME NoneAssumption == None \notin Operation /\ None \notin Position

TypeOK ==
    /\ kind \in Kinds
    /\ current_config \in Config /\ backup_config \in Config
    /\ IsPartial(edge_areas, Areas, Edge)
    /\ ran_areas \subseteq Areas /\ locked \subseteq Areas
    /\ gnb \in Partial(Areas, SUBSET Slices)
    /\ children_blue_ids \subseteq Child /\ deployed_blueprints \subseteq Child
    /\ IsPartial(routers, Areas, Router) /\ IsPartial(upfs, Areas, Upf)
    /\ protected \subseteq Child /\ silent \subseteq Child
    /\ lost \subseteq Areas \X {"router", "upf", "pdu", "core"}
    /\ chart \in {"none", "locked", "registered", "running"}
    /\ core_deployed \in BOOLEAN /\ created \in BOOLEAN /\ sound \in BOOLEAN
    /\ alive \in {"yes", "gone", "stuck", "hung"}
    /\ values \in Values \cup {None} /\ live \in Values \cup {None, Mixed}
    /\ ue_dict \subseteq Ues /\ udr \subseteq Ues
    /\ op \in Operation \cup {None}
    /\ todo \in Seq(Steps)
    /\ left \subseteq Areas
    /\ at \in Position \cup {None}
    /\ answer \in {"none", "ok", "error"}
    /\ ops \in 0 .. MaxOps /\ faults \in 0 .. MaxFaults

EmptyConfig == [areas |-> <<>>, profiles |-> {}, nets |-> {}, subs |-> <<>>]

Init ==
    /\ kind \in Kinds
    /\ current_config = EmptyConfig /\ backup_config = EmptyConfig
    /\ edge_areas = <<>> /\ ran_areas = {} /\ locked = {} /\ gnb = <<>>
    /\ children_blue_ids = {} /\ deployed_blueprints = {} /\ routers = <<>> /\ upfs = <<>>
    /\ protected = {} /\ silent = {} /\ lost = {}
    /\ chart = "none" /\ core_deployed = FALSE /\ values = None /\ live = None
    /\ ue_dict = {} /\ udr = {}
    /\ op = None /\ todo = <<>> /\ left = {} /\ at = None /\ answer = "none"
    /\ alive = "yes" /\ created = FALSE /\ sound = FALSE /\ ops = 0 /\ faults = 0

(* Mutant: update_core is left out. *)
GenericProgramMutant(name) ==
    CASE name \in {"add_slice", "del_slice", "add_tac", "del_tac"} -> <<"edge", "gnb">>
      [] OTHER -> <<"values", "push">>

-----------------------------------------------------------------------------
(* The programs: what create and the day-2 methods of each core call, in   *)
(* order.                                                                  *)

GenericProgram(name) ==
    CASE name \in {"add_slice", "del_slice", "add_tac", "del_tac"} -> <<"edge", "gnb", "values", "push">>
      [] OTHER -> <<"values", "push">>

SdcoreProgram(name) ==
    IF name = "create"
    THEN <<"edge", "values", "chart", "install", "functions", "ready", "edge", "gnb">>
    ELSE GenericProgram(name)

OaiUpdate == <<"edge", "values", "push", "edge", "gnb">>

(* add_dnn_to_conf and del_dnn_from_conf look for the data network the     *)
(* generic method has added, or removed, already: both raise.              *)
OaiProgram(name) ==
    CASE name = "create" -> <<"edge", "chart", "values", "install", "functions", "subscribers", "edge", "gnb">>
      [] name = "add_ues" -> <<"subscribers">>
      [] name = "del_ues" -> <<"disassociate", "values", "push", "gnb", "udr_del">>
      [] name \in {"add_dnn", "del_dnn"} -> <<"raise">>
      [] OTHER -> OaiUpdate

(* NF5GType has no WEBUI: network_functions_dictionary raises, and with it *)
(* create.  The address of the web interface is therefore never known, and *)
(* get_api_token raises in whatever calls it.                              *)
Free5gcProgram(name) ==
    CASE name = "create" -> <<"edge", "chart", "values", "install", "raise">>
      [] name \in {"add_ues", "del_ues", "del_slice"} -> <<"raise">>
      [] name \in {"add_dnn", "del_dnn"} -> <<>>
      [] OTHER -> OaiUpdate

AthonetProgram(name) ==
    CASE name = "create" -> <<"edge", "pdu", "supis", "values", "push", "subscribers", "edge", "gnb">>
      [] name = "add_ues" -> <<"infos", "values", "push", "subscribers">>
      [] name = "del_ues" -> <<"del_user", "values", "push">>
      [] name \in {"add_dnn", "del_dnn"} -> <<"values", "push", "values", "push", "edge">>
      [] name \in {"add_slice", "del_slice"} -> GenericProgram(name) \o <<"values", "push">>
      [] OTHER -> GenericProgram(name)

Program(name) ==
    IF name = "destroy"
    THEN IF kind = "athonet" THEN <<"restore", "supis", "children">> ELSE <<"children">>
    ELSE CASE kind = "oai" -> OaiProgram(name)
           [] kind = "free5gc" -> Free5gcProgram(name)
           [] kind = "sdcore" -> SdcoreProgram(name)
           [] kind = "athonet" -> AthonetProgram(name)

Feasible(c) ==
    CASE kind = "oai" -> OaiFeasible(c)
      [] kind = "free5gc" -> Free5gcFeasible(c)
      [] kind = "sdcore" -> SdcoreFeasible(c)
      [] kind = "athonet" -> AthonetFeasible(c)

ValuesOf(c) ==
    CASE kind = "oai" -> OaiValues(c)
      [] kind = "free5gc" -> Free5gcValues(c)
      [] kind = "sdcore" -> SdcoreValues(c)
      [] kind = "athonet" -> AthonetValues(c)

UpfCreated(c) ==
    CASE kind = "oai" -> OaiUpfCreated(NewUpf, c)
      [] kind = "free5gc" -> Free5gcUpfCreated(NewUpf, c)
      [] kind = "sdcore" -> SdcoreUpfDeployed(NewUpf, c)
      [] kind = "athonet" -> AthonetUpfCreated(NewUpf, c)

UpfUpdated(u, c) ==
    CASE kind = "oai" -> OaiUpfUpdated(u, c)
      [] kind = "free5gc" -> Free5gcUpfUpdated(u, c)
      [] kind = "sdcore" -> SdcoreUpfDeployed(u, c)
      [] kind = "athonet" -> AthonetUpfUpdated(u, c)

UpfCanUpdate(c) == kind = "oai" => OaiUpfCanUpdate(c)
-----------------------------------------------------------------------------
(* How a step ends.  Advance goes on with the next step of the program,    *)
(* Within stays in update_edge_areas, Abort is an exception: a day-2       *)
(* method puts its backup_config back and raises again.  Hang is a call to *)
(* a child that nobody will answer: event.wait() has no timeout.           *)

LeftAfter(t, c) == IF t # <<>> /\ Head(t) = "edge" THEN AreasOf(c) ELSE {}

At(step) == alive = "yes" /\ op # None /\ todo # <<>> /\ Head(todo) = step

NoAnswer == UNCHANGED <<kind, current_config, backup_config, op, answer, created, sound, alive, ops>>

Advance ==
    /\ NoAnswer
    /\ todo' = Tail(todo) /\ left' = LeftAfter(Tail(todo), current_config) /\ at' = None

(* Mutant: no configuration is put back. *)
restoredMutant == current_config

Within(l, p) == NoAnswer /\ left' = l /\ at' = p /\ UNCHANGED todo

restored == IF op.name = "create" THEN current_config ELSE backup_config

Abort ==
    /\ current_config' = restored
    /\ op' = None /\ todo' = <<>> /\ left' = {} /\ at' = None /\ answer' = "error" /\ sound' = FALSE
    /\ UNCHANGED <<kind, backup_config, created, alive, ops>>

(* An exception of destroy is not caught: the worker's thread ends, and    *)
(* the blueprint can neither be used nor destroyed again.                  *)
Stuck ==
    /\ alive' = "stuck" /\ op' = None /\ todo' = <<>> /\ at' = None /\ left' = {} /\ answer' = "error"
    /\ UNCHANGED <<kind, current_config, backup_config, created, sound, ops>>

Hang ==
    /\ alive' = "hung"
    /\ UNCHANGED <<kind, current_config, backup_config, op, todo, left, at, answer, created, sound, ops>>

(* A call that fails for a reason of its own. *)
Fault == faults < MaxFaults /\ ops + faults < MaxEvents /\ faults' = faults + 1
NoFault == UNCHANGED faults

-----------------------------------------------------------------------------
(* update_edge_areas: the areas of the configuration one after the other,  *)
(* then those that are left over.  A child blueprint that fails answers    *)
(* ERROR, which create_blueprint and call_blueprint_function do not look   *)
(* at; a child that is not there any more is an exception.  The child      *)
(* exists as soon as the manager has saved it: create_blueprint may raise  *)
(* before that and after it, and a child of the second kind is lost.       *)

EdgeVars == <<coreVars, ranVars>>
NewEdge == [router |-> "none", upf |-> FALSE, config |-> None, list |-> None]

(* Mutant: register_children is forgotten. *)
register_childrenMutant(c) == UNCHANGED children_blue_ids

register_children(c) == children_blue_ids' = children_blue_ids \cup {c}

(* The provider's own record, once create_blueprint has returned. *)
Deployed(c) == deployed_blueprints' = deployed_blueprints \cup {c}

(* BlueprintProvider.delete_blueprint, without and with the                *)
(* deregister_children that follows.                                       *)
Dropped(c) ==
    /\ deployed_blueprints' = deployed_blueprints \ {c}
    /\ UNCHANGED children_blue_ids
Disown(c) ==
    /\ children_blue_ids' = children_blue_ids \ {c}
    /\ deployed_blueprints' = deployed_blueprints \ {c}

NewArea(a) == At("edge") /\ at = None /\ a \in left /\ a \notin DOMAIN edge_areas

ExternalRouter(a) ==
    /\ NewArea(a) /\ a \in External
    /\ edge_areas' = With(edge_areas, a, [NewEdge EXCEPT !.router = "external"])
    /\ Within(left, <<a, "deploy">>) /\ NoFault
    /\ UNCHANGED <<children_blue_ids, deployed_blueprints, childVars, silent, EdgeVars>>

NewRouter(b) == [up |-> b, routes |-> {}]

(* The manager's create_blueprint, the synchronous create of the child     *)
(* included.                                                               *)
deploy_router_blueprint(a) ==
    /\ NewArea(a) /\ a \notin External
    /\ edge_areas' = With(edge_areas, a, NewEdge)
    /\ \/ /\ \/ NoFault /\ routers' = With(routers, a, NewRouter(TRUE))
             \/ Fault /\ routers' = With(routers, a, NewRouter(FALSE))       \* it answers ERROR
          /\ Within(left, <<a, "router">>) /\ UNCHANGED lost
       \/ /\ Fault /\ Abort
          /\ \/ UNCHANGED <<routers, lost>>
             \/ routers' = With(routers, a, NewRouter(FALSE)) /\ lost' = lost \cup {<<a, "router">>}
    /\ UNCHANGED <<children_blue_ids, deployed_blueprints, upfs, protected, silent, EdgeVars>>

RouterUp(a) == a \in DOMAIN routers /\ routers[a].up

(* The provider's record and its save, register_children, get_router_info: *)
(* without a result Router5GInfo raises, and behind its user's STOP the    *)
(* call is never answered.                                                 *)
RegisterRouter(a) ==
    /\ At("edge") /\ at = <<a, "router">> /\ Deployed(<<a, "router">>)
    /\ \/ /\ NoFault /\ register_children(<<a, "router">>) /\ UNCHANGED routers
          /\ \/ /\ RouterUp(a) /\ edge_areas' = [edge_areas EXCEPT ![a].router = "own"]
                /\ Within(left, <<a, "deploy">>)
             \/ ~RouterUp(a) /\ Abort /\ UNCHANGED edge_areas
       \/ Fault /\ Abort /\ UNCHANGED <<children_blue_ids, edge_areas, routers>>     \* save_to_db
       \/ /\ Fault /\ Hang /\ a \in DOMAIN routers /\ <<a, "router">> \notin protected
          /\ register_children(<<a, "router">>)
          /\ routers' = Without(routers, a) /\ UNCHANGED edge_areas
    /\ UNCHANGED <<upfs, protected, lost, silent, EdgeVars>>

(* _create_upf_config reads the router's addresses and every slice's profile. *)
UpfConfigRaises(a) ==
    \/ edge_areas[a].router = "none"
    \/ ~HasProfiles(current_config, a)

newConfig(a) == create_upf_config(current_config, a, core_deployed)

deploy_upf_blueprint(a) ==
    /\ At("edge") /\ at = <<a, "deploy">> /\ ~UpfConfigRaises(a)
    /\ \/ /\ NoFault /\ upfs' = With(upfs, a, UpfCreated(newConfig(a)))
          /\ Within(left, <<a, "upf">>) /\ UNCHANGED <<silent, lost>>
       \/ /\ Fault /\ upfs' = With(upfs, a, NewUpf) /\ silent' = silent \cup {<<a, "upf">>}
          /\ Within(left, <<a, "upf">>) /\ UNCHANGED lost
       \/ /\ Fault /\ Abort /\ UNCHANGED silent
          /\ \/ UNCHANGED <<upfs, lost>>
             \/ upfs' = With(upfs, a, NewUpf) /\ lost' = lost \cup {<<a, "upf">>}
    /\ UNCHANGED <<parentVars, routers, protected, EdgeVars>>

(* The provider's record and its save, register_children, get_upfs_info. *)
RegisterUpf(a) ==
    /\ At("edge") /\ at = <<a, "upf">> /\ Deployed(<<a, "upf">>)
    /\ \/ /\ NoFault /\ register_children(<<a, "upf">>) /\ UNCHANGED upfs
          /\ \/ /\ a \in DOMAIN upfs
                /\ edge_areas' = [edge_areas EXCEPT ![a].upf = TRUE, ![a].config = newConfig(a), ![a].list = upfs[a].list]
                /\ Within(left, <<a, "routes">>)
             \/ a \notin DOMAIN upfs /\ Abort /\ UNCHANGED edge_areas
       \/ Fault /\ Abort /\ UNCHANGED <<children_blue_ids, edge_areas, upfs>>        \* save_to_db
       \/ /\ Fault /\ Hang /\ a \in DOMAIN upfs /\ <<a, "upf">> \notin protected
          /\ register_children(<<a, "upf">>)
          /\ upfs' = Without(upfs, a) /\ UNCHANGED edge_areas
    /\ UNCHANGED <<routers, protected, lost, silent, EdgeVars>>

OldArea(a) == At("edge") /\ at = None /\ a \in left /\ a \in DOMAIN edge_areas

UpdateRaises(a) ==
    \/ UpfConfigRaises(a) \/ ~edge_areas[a].upf
    \/ edge_areas[a].config # newConfig(a) /\ a \notin DOMAIN upfs

UpfIsCurrent(a) ==
    /\ OldArea(a) /\ ~UpdateRaises(a) /\ edge_areas[a].config = newConfig(a)
    /\ Within(left, <<a, "routes">>) /\ NoFault
    /\ UNCHANGED <<parentVars, childVars, silent, EdgeVars>>

(* Whatever the child answers to update, the new configuration is recorded. *)
UpdateUpf(a) ==
    /\ OldArea(a) /\ ~UpdateRaises(a) /\ edge_areas[a].config # newConfig(a)
    /\ \/ /\ UpfCanUpdate(newConfig(a)) /\ NoFault
          /\ upfs' = [upfs EXCEPT ![a] = UpfUpdated(upfs[a], newConfig(a))]
          /\ silent' = silent \ {<<a, "upf">>}
       \/ /\ IF UpfCanUpdate(newConfig(a)) THEN Fault ELSE NoFault
          /\ silent' = silent \cup {<<a, "upf">>}
          /\ UNCHANGED upfs
    /\ edge_areas' = [edge_areas EXCEPT ![a].config = newConfig(a), ![a].list = upfs'[a].list]
    /\ Within(left, <<a, "routes">>)
    /\ UNCHANGED <<children_blue_ids, deployed_blueprints, routers, protected, lost, EdgeVars>>

(* Mutant: the area is looked at again. *)
add_route_to_routerMutant(a) ==
    /\ At("edge") /\ at = <<a, "routes">> /\ NoFault
    /\ Within(left, None)
    /\ UNCHANGED <<parentVars, childVars, silent, EdgeVars>>

(* The data networks the router of a must route; an Athonet core leaves    *)
(* them out, an external router is left to its owner.                      *)
routed(a) ==
    IF kind = "athonet" \/ edge_areas[a].router # "own" \/ edge_areas[a].list = None THEN {}
    ELSE UNION {edge_areas[a].list[s] : s \in DOMAIN edge_areas[a].list}

add_route_to_router(a) ==
    /\ At("edge") /\ at = <<a, "routes">> /\ (routed(a) # {} => a \in DOMAIN routers)
    /\ \/ /\ NoFault
          /\ routers' = IF routed(a) = {} THEN routers
                        ELSE [routers EXCEPT ![a].routes = @ \cup routed(a)]
          /\ silent' = silent \ {<<a, "router">>}
       \/ /\ routed(a) # {} /\ Fault
          /\ \E D \in SUBSET routed(a) :
                D # routed(a) /\ routers' = [routers EXCEPT ![a].routes = @ \cup D]
          /\ silent' = silent \cup {<<a, "router">>}
    /\ Within(left \ {a}, None)
    /\ UNCHANGED <<parentVars, upfs, protected, lost, EdgeVars>>

(* An area that is not in the configuration any more: first the router.    *)
OverArea(a) ==
    /\ At("edge") /\ at = None /\ left = {}
    /\ a \in DOMAIN edge_areas \ AreasOf(current_config)

Deletable(c, f) == c[1] \in DOMAIN f /\ c \notin protected

(* delete_blueprint: its save may raise once the child is gone, and a      *)
(* child whose destroy raises never answers.                               *)
undeploy_router_blueprint(a) ==
    /\ OverArea(a) /\ edge_areas[a].router # "none"
    /\ \/ /\ edge_areas[a].router = "external" /\ NoFault
          /\ Within(left, <<a, "undeploy">>)
          /\ UNCHANGED <<routers, children_blue_ids, deployed_blueprints, silent>>
       \/ /\ edge_areas[a].router = "own" /\ Deletable(<<a, "router">>, routers)
          /\ routers' = Without(routers, a) /\ silent' = silent \ {<<a, "router">>}
          /\ \/ NoFault /\ Disown(<<a, "router">>) /\ Within(left, <<a, "undeploy">>)
             \/ Fault /\ Dropped(<<a, "router">>) /\ Abort
       \/ /\ edge_areas[a].router = "own" /\ Deletable(<<a, "router">>, routers)
          /\ Fault /\ Hang /\ UNCHANGED <<routers, children_blue_ids, deployed_blueprints, silent>>
    /\ UNCHANGED <<edge_areas, upfs, protected, lost, EdgeVars>>

undeploy_upf_blueprint(a) ==
    /\ At("edge") /\ at = <<a, "undeploy">> /\ edge_areas[a].upf /\ Deletable(<<a, "upf">>, upfs)
    /\ \/ /\ upfs' = Without(upfs, a) /\ silent' = silent \ {<<a, "upf">>}
          /\ \/ /\ NoFault /\ Disown(<<a, "upf">>) /\ edge_areas' = Without(edge_areas, a)
                /\ Within(left, None)
             \/ Fault /\ Dropped(<<a, "upf">>) /\ Abort /\ UNCHANGED edge_areas
       \/ Fault /\ Hang /\ UNCHANGED <<upfs, parentVars, silent>>
    /\ UNCHANGED <<routers, protected, lost, EdgeVars>>

(* What update_edge_areas raises: an entry that an earlier exception left  *)
(* half filled, a slice without a profile, a child that is gone or that    *)
(* its user has protected.                                                 *)
EdgeRaises(a) ==
    /\ \/ at = <<a, "deploy">> /\ UpfConfigRaises(a)
       \/ OldArea(a) /\ UpdateRaises(a)
       \/ at = <<a, "routes">> /\ routed(a) # {} /\ a \notin DOMAIN routers
       \/ OverArea(a) /\ (\/ edge_areas[a].router = "none"
                          \/ edge_areas[a].router = "own" /\ ~Deletable(<<a, "router">>, routers))
       \/ at = <<a, "undeploy">> /\ ~(edge_areas[a].upf /\ Deletable(<<a, "upf">>, upfs))
    /\ At("edge") /\ Abort /\ NoFault
    /\ UNCHANGED <<parentVars, childVars, silent, EdgeVars>>

EdgeDone ==
    /\ At("edge") /\ at = None /\ left = {} /\ DOMAIN edge_areas \subseteq AreasOf(current_config)
    /\ Advance /\ NoFault
    /\ UNCHANGED <<parentVars, childVars, silent, EdgeVars>>

update_edge_areas ==
    \/ \E a \in Areas :
          \/ ExternalRouter(a) \/ deploy_router_blueprint(a) \/ RegisterRouter(a)
          \/ deploy_upf_blueprint(a) \/ RegisterUpf(a)
          \/ UpfIsCurrent(a) \/ UpdateUpf(a) \/ add_route_to_router(a)
          \/ undeploy_router_blueprint(a) \/ undeploy_upf_blueprint(a) \/ EdgeRaises(a)
    \/ EdgeDone
-----------------------------------------------------------------------------
(* The core itself. *)

CoreStep(step) == At(step) /\ UNCHANGED <<parentVars, childVars, silent>>

(* create_5g registers the chart before it installs it. *)
register_resource ==
    /\ CoreStep("chart") /\ chart' = "registered"
    /\ Advance /\ NoFault
    /\ UNCHANGED <<core_deployed, values, live, ue_dict, udr, ranVars>>

Served(s) == \E a \in DOMAIN edge_areas : edge_areas[a].list # None /\ s \in DOMAIN edge_areas[a].list

(* OAI and free5GC read upf_list[0] of every area, SD-Core looks for a UPF *)
(* of every slice (in every area), Athonet for the PDU of its first area.  *)
UpfsKnown ==
    CASE kind \in {"oai", "free5gc"} ->
            \A a \in AreasOf(current_config) : a \in DOMAIN edge_areas /\ edge_areas[a].list # None
      [] kind = "sdcore" ->
            \/ OfferedSlices(current_config) = {}
            \/ /\ \A a \in DOMAIN edge_areas : edge_areas[a].upf
               /\ \A s \in OfferedSlices(current_config) : Served(s)
      [] kind = "athonet" -> AreasOf(current_config) # {}

(* create_5g makes the values it starts from; a core whose create failed   *)
(* before that has none, and an Athonet core has no PDU to read them from. *)
HasDefaults == chart # "none" \/ (op.name = "create" /\ kind # "athonet")

(* The values are cleared first: an exception leaves them half filled.     *)
update_core_values ==
    /\ CoreStep("values") /\ NoFault
    /\ \/ /\ HasDefaults /\ Feasible(current_config) /\ UpfsKnown
          /\ values' = ValuesOf(current_config) /\ Advance
       \/ /\ ~(HasDefaults /\ Feasible(current_config) /\ UpfsKnown)
          /\ values' = None /\ Abort
    /\ UNCHANGED <<chart, core_deployed, live, ue_dict, udr, ranVars>>

(* An exception may come after the release is there (its status is read    *)
(* last), for an installation and for an update.                           *)
install_helm_chart ==
    /\ CoreStep("install")
    /\ \/ chart' = "running" /\ live' = values /\ ((Advance /\ NoFault) \/ (Abort /\ Fault))
       \/ Abort /\ Fault /\ UNCHANGED <<chart, live>>
    /\ UNCHANGED <<core_deployed, values, ue_dict, udr, ranVars>>

(* The addresses of the network functions; only now core_deployed is set. *)
update_k8s_network_functions ==
    /\ CoreStep("functions")
    /\ \/ core_deployed' = TRUE /\ Advance /\ NoFault
       \/ Abort /\ Fault /\ UNCHANGED core_deployed
    /\ UNCHANGED <<chart, values, live, ue_dict, udr, ranVars>>

(* SD-Core polls the log of the AMF, for as long as it takes. *)
wait_core_ready ==
    /\ CoreStep("ready") /\ Advance /\ NoFault
    /\ UNCHANGED <<coreVars, ranVars>>

(* AthonetCore.create_5g: find and lock the core's PDU, which must have a  *)
(* pool for every data network.                                            *)
LockCorePdu ==
    /\ CoreStep("pdu")
    /\ LET single == Cardinality(AreasOf(current_config)) = 1
           enough == Cardinality(current_config.nets) <= Cardinality(DnnVrf)
       IN  \/ single /\ enough /\ chart' = "locked" /\ Advance /\ NoFault
           \/ single /\ ~enough /\ chart' = "locked" /\ Abort /\ NoFault
           \/ ~single /\ Abort /\ NoFault /\ UNCHANGED chart
           \/ Fault /\ chart' \in {"none", "locked"} /\ Abort
    /\ UNCHANGED <<core_deployed, values, live, ue_dict, udr, ranVars>>

(* The update of a release installs it where it is not there yet. *)
update_values_helm_chart ==
    /\ CoreStep("push") /\ kind # "athonet"
    /\ \/ /\ chart # "none" /\ chart' = "running" /\ live' = values
          /\ (Advance /\ NoFault) \/ (Abort /\ Fault)
       \/ Abort /\ UNCHANGED <<chart, live>> /\ IF chart = "none" THEN NoFault ELSE Fault
    /\ UNCHANGED <<core_deployed, values, ue_dict, udr, ranVars>>

(* Athonet.  The status of the requests is not looked at: what the AMF or  *)
(* the SMF refuses goes unnoticed.                                         *)
configure ==
    /\ CoreStep("push") /\ kind = "athonet"
    /\ \/ live' = values /\ Advance /\ NoFault
       \/ live' = Mixed /\ Fault /\ (Advance \/ Abort)
       \/ Abort /\ Fault /\ UNCHANGED live
    /\ UNCHANGED <<chart, core_deployed, values, ue_dict, udr, ranVars>>

-----------------------------------------------------------------------------
(* Subscribers. *)

(* create adds the subscribers of its model, add_ues the one it is given. *)
newUes == IF op.name = "create" THEN DOMAIN current_config.subs ELSE {op.ue}

(* What adding u raises before it is associated: OAI uses the first of the *)
(* subscriber's slices, Athonet all of them.                               *)
Unknown(u) ==
    CASE kind = "oai" -> u \in ue_dict \/ \E s \in current_config.subs[u] : ~get_slice(current_config, s)
      [] kind = "athonet" -> \E s \in current_config.subs[u] :
                                ~get_slice(current_config, s) \/ \E d \in DnnsOf[s] : ~get_dnn(current_config, d)

(* OAI: the slice is there, and its data networks can be used or not. *)
FirstSlice(u, usable) ==
    /\ u \notin ue_dict
    /\ \E s \in current_config.subs[u] :
          get_slice(current_config, s) /\ usable = (\A d \in DnnsOf[s] : OaiDnnUsable(current_config, d))
Known(u) ==
    CASE kind = "oai" -> FirstSlice(u, TRUE)
      [] kind = "athonet" -> ~Unknown(u)

ues_additional_infos ==
    /\ CoreStep("infos") /\ NoFault
    /\ IF Unknown(op.ue) THEN Abort ELSE Advance
    /\ UNCHANGED <<coreVars, ranVars>>

associated(D) == IF kind = "oai" THEN ue_dict \cup D ELSE ue_dict

(* add_subscriber_to_conf and then associating_subscriber_with_slice, one  *)
(* subscriber after the other: the ones in D are done when u fails.  OAI   *)
(* records the association before it stores it.  The status of the         *)
(* requests is not looked at: with E refused, the operation goes on.       *)
add_ues ==
    /\ CoreStep("subscribers")
    /\ \/ /\ \A u \in newUes : Known(u)
          /\ \E E \in SUBSET newUes :
                udr' = udr \cup (newUes \ E) /\ IF E = {} THEN NoFault ELSE Fault
          /\ ue_dict' = associated(newUes) /\ Advance
       \/ \E D \in SUBSET newUes : \E u \in newUes \ D :
             /\ \/ Fault /\ udr' = udr \cup D /\ ue_dict' = associated(D)
                \/ Unknown(u) /\ NoFault /\ udr' = udr \cup D \cup {u} /\ ue_dict' = associated(D)
                \/ /\ kind = "oai" /\ ((Known(u) /\ Fault) \/ (FirstSlice(u, FALSE) /\ NoFault))
                   /\ udr' = udr \cup D \cup {u} /\ ue_dict' = associated(D \cup {u})
             /\ Abort
    /\ UNCHANGED <<chart, core_deployed, values, live, ranVars>>

(* An answer other than 204 is not looked at: the association stays. *)
disassociating_subscriber_from_slice ==
    /\ CoreStep("disassociate")
    /\ \/ op.ue \in ue_dict /\ ue_dict' = ue_dict \ {op.ue} /\ Advance /\ NoFault
       \/ op.ue \in ue_dict /\ UNCHANGED ue_dict /\ Fault /\ (Advance \/ Abort)
       \/ op.ue \notin ue_dict /\ UNCHANGED ue_dict /\ NoFault /\ Abort
    /\ UNCHANGED <<chart, core_deployed, values, live, udr, ranVars>>

del_subscriber_to_conf ==
    /\ CoreStep("udr_del")
    /\ \/ udr' = udr \ {op.ue} /\ Advance /\ NoFault
       \/ Fault /\ Abort /\ UNCHANGED udr
    /\ UNCHANGED <<chart, core_deployed, values, live, ue_dict, ranVars>>

(* Athonet: repeated, without a limit, until the answer is 204. *)
del_user ==
    /\ CoreStep("del_user") /\ udr' = udr \ {op.ue}
    /\ Advance /\ NoFault
    /\ UNCHANGED <<chart, core_deployed, values, live, ue_dict, ranVars>>

(* create_5g and destroy of an Athonet core remove every subscriber of the *)
(* PDU, each with the same unlimited loop; create_5g then takes the copy   *)
(* destroy will put back.                                                  *)
delete_all_supis ==
    /\ CoreStep("supis")
    /\ \/ udr' = {} /\ chart' = "registered" /\ Advance /\ NoFault
       \/ /\ Fault /\ \E U \in SUBSET udr : udr' = U
          /\ UNCHANGED chart
          /\ IF op.name = "create" THEN Abort ELSE Stuck
    /\ UNCHANGED <<core_deployed, values, live, ue_dict, ranVars>>

AlwaysRaises ==
    /\ CoreStep("raise") /\ Abort /\ NoFault
    /\ UNCHANGED <<coreVars, ranVars>>

-----------------------------------------------------------------------------
(* The gNBs. *)

(* What configuring the gNB of area a needs: a first slice, the address of *)
(* the AMF, a UPF for that slice, and the UPF of the area itself.          *)
GnbReady(a, s) ==
    /\ s \in current_config.areas[a]
    /\ core_deployed \/ (kind = "athonet" /\ chart # "none")
    /\ \A b \in DOMAIN edge_areas : edge_areas[b].upf
    /\ Served(s)
    /\ edge_areas[a].list # None

GnbRaises(a) ==
    \/ current_config.areas[a] = {}
    \/ \E s \in current_config.areas[a] : ~GnbReady(a, s)

(* All PDUs are found and locked before the first gNB is configured; D are *)
(* the ones configured when something raises.                              *)
update_gnb_config ==
    /\ CoreStep("gnb")
    /\ LET areas == AreasOf(current_config)
           configured(D) == [a \in DOMAIN gnb \cup D |-> IF a \in D THEN current_config.areas[a] ELSE gnb[a]]
       IN  \/ /\ \A a \in areas : \E s \in Slices : GnbReady(a, s)
              /\ gnb' = configured(areas)
              /\ ran_areas' = areas
              /\ locked' = (locked \cup areas) \ (ran_areas \ areas)
              /\ Advance /\ NoFault
           \/ /\ Fault /\ \E L \in SUBSET areas : locked' = locked \cup L
              /\ Abort /\ UNCHANGED <<gnb, ran_areas>>
           \/ \E D \in SUBSET areas : \E a \in areas \ D :
                 /\ \A b \in D : \E s \in Slices : GnbReady(b, s)
                 /\ \/ GnbRaises(a) /\ NoFault
                    \/ Fault
                 /\ locked' = locked \cup areas
                 /\ gnb' = configured(D) /\ ran_areas' = ran_areas \cup D
                 /\ Abort
    /\ UNCHANGED coreVars

-----------------------------------------------------------------------------
(* Requests.  The worker takes one message after the other, so none starts *)
(* while another is in progress.  A check that fails changes nothing and   *)
(* is left out, unless the configuration has been touched before it.       *)

Idle == alive = "yes" /\ op = None

Start(name, ue, config) ==
    /\ op' = [name |-> name, ue |-> ue]
    /\ backup_config' = current_config /\ current_config' = config
    /\ todo' = Program(name) /\ left' = LeftAfter(Program(name), config) /\ at' = None
    /\ UNCHANGED <<kind, created, sound, answer, alive, faults>>

Day2(name, ue, config) ==
    /\ Idle /\ answer # "none" /\ ops < MaxOps /\ ops + faults < MaxEvents /\ ops' = ops + 1
    /\ Start(name, ue, config)
    /\ UNCHANGED <<parentVars, childVars, silent, coreVars, ranVars>>

(* create: the configuration is recorded and then checked, all gNB PDUs    *)
(* are locked.                                                             *)
create(c) ==
    /\ Idle /\ answer = "none" /\ configuration_feasibility_check(c)
    /\ Start("create", None, c)
    /\ locked' = AreasOf(c)
    /\ UNCHANGED <<ops, parentVars, childVars, silent, coreVars, ran_areas, gnb>>

(* The check fails, or a PDU is missing or locked by another blueprint;    *)
(* what has been locked until then stays so.                               *)
create_raises(c) ==
    /\ Idle /\ answer = "none"
    /\ \/ ~configuration_feasibility_check(c) /\ NoFault /\ UNCHANGED locked
       \/ /\ configuration_feasibility_check(c) /\ Fault
          /\ \E L \in SUBSET AreasOf(c) : locked' = L
    /\ current_config' = c /\ answer' = "error"
    /\ UNCHANGED <<kind, backup_config, op, todo, left, at, alive, created, sound, ops,
                   parentVars, childVars, silent, coreVars, ran_areas, gnb>>

day2_add_ues(u, S) ==
    /\ u \notin DOMAIN current_config.subs
    /\ S \cap current_config.profiles # {}
    /\ Day2("add_ues", u, [current_config EXCEPT !.subs = With(@, u, S)])

day2_del_ues(u) ==
    /\ u \in DOMAIN current_config.subs
    /\ Day2("del_ues", u, [current_config EXCEPT !.subs = Without(@, u)])

day2_add_dnn(d) ==
    /\ d \notin current_config.nets
    /\ Day2("add_dnn", None, [current_config EXCEPT !.nets = @ \cup {d}])

day2_del_dnn(d) ==
    /\ d \in current_config.nets
    /\ \A s \in current_config.profiles : d \notin DnnsOf[s]
    /\ Day2("del_dnn", None, [current_config EXCEPT !.nets = @ \ {d}])

(* The configuration day2_add_slice_generic makes: the slice in the areas  *)
(* A, which all exist, and its profile.                                    *)
WithSlice(s, A) ==
    [current_config EXCEPT
        !.profiles = @ \cup {s},
        !.areas = [a \in DOMAIN @ |-> IF a \in A THEN @[a] \cup {s} ELSE @[a]]]

(* oss: the request must name areas *)
day2_add_slice_generic(s, A, oss) ==
    /\ configuration_feasibility_check(WithSlice(s, A))
    /\ s \notin current_config.profiles
    /\ oss => A # {}
    /\ A \subseteq AreasOf(current_config)
    /\ Day2("add_slice", None, WithSlice(s, A))

day2_add_slice_oss(s, A) == day2_add_slice_generic(s, A, TRUE)
day2_add_slice_operator(s, A) == A = {} /\ day2_add_slice_generic(s, A, FALSE)

(* Nothing is checked, and the subscribers of the slice keep naming it. *)
day2_del_slice(s) ==
    Day2("del_slice", None, [current_config EXCEPT
             !.profiles = @ \ {s}, !.areas = [a \in DOMAIN @ |-> @[a] \ {s}]])

day2_add_tac(a, S) ==
    /\ a \notin AreasOf(current_config)
    /\ Day2("add_tac", None, [current_config EXCEPT !.areas = With(@, a, S)])

day2_del_tac(a) ==
    /\ a \in AreasOf(current_config)
    /\ Day2("del_tac", None, [current_config EXCEPT !.areas = Without(@, a)])

(* The end of the program: the worker answers OK.  An operation that has   *)
(* brought areas, values and gNBs up to date makes the core sound again.   *)
Complete(name) == name \in {"create", "add_slice", "del_slice", "add_tac", "del_tac"}

Answer ==
    /\ alive = "yes" /\ op # None /\ todo = <<>>
    /\ op' = None /\ answer' = "ok"
    /\ created' = (created \/ op.name = "create")
    /\ sound' = (sound \/ Complete(op.name))
    /\ UNCHANGED <<kind, current_config, backup_config, todo, left, at, alive, ops, faults,
                   parentVars, childVars, silent, coreVars, ranVars>>

-----------------------------------------------------------------------------
(* destroy. *)

destroy ==
    /\ Idle /\ answer # "none" /\ ops < MaxOps /\ ops + faults < MaxEvents /\ ops' = ops + 1
    /\ Start("destroy", None, current_config)
    /\ UNCHANGED <<parentVars, childVars, silent, coreVars, ranVars>>

(* AthonetCore.destroy puts the PDU's configuration back before all else. *)
restore_base_config ==
    /\ CoreStep("restore")
    /\ LET can == AreasOf(current_config) # {} /\ chart = "registered"
       IN  \/ can /\ Advance /\ NoFault
           \/ ~can /\ Stuck /\ NoFault
           \/ can /\ Stuck /\ Fault
    /\ UNCHANGED <<coreVars, ranVars>>

Exists(c) == IF c[2] = "router" THEN c[1] \in DOMAIN routers ELSE c[1] \in DOMAIN upfs

(* BlueprintNotFoundException is tolerated, BlueprintProtectedException    *)
(* and a save that fails are not.                                          *)
DestroyChild(c) ==
    /\ At("children") /\ c \in children_blue_ids
    /\ \/ /\ ~Exists(c) /\ NoFault /\ Within(left, at)
          /\ children_blue_ids' = children_blue_ids \ {c}
          /\ UNCHANGED <<deployed_blueprints, routers, upfs>>
       \/ /\ Exists(c) /\ c \in protected /\ NoFault /\ Stuck
          /\ UNCHANGED <<children_blue_ids, deployed_blueprints, routers, upfs>>
       \/ /\ Exists(c) /\ c \notin protected
          /\ routers' = IF c[2] = "router" THEN Without(routers, c[1]) ELSE routers
          /\ upfs' = IF c[2] = "upf" THEN Without(upfs, c[1]) ELSE upfs
          /\ \/ NoFault /\ Disown(c) /\ Within(left, at)
             \/ Fault /\ Dropped(c) /\ Stuck
       \/ /\ Exists(c) /\ c \notin protected /\ Fault /\ Hang       \* its destroy raises
          /\ UNCHANGED <<children_blue_ids, deployed_blueprints, routers, upfs>>
    /\ UNCHANGED <<edge_areas, protected, lost, silent, coreVars, ranVars>>

(* Mutant: the PDUs stay locked. *)
final_cleanupMutant ==
    /\ CoreStep("children") /\ children_blue_ids = {} /\ NoFault
    /\ chart' = "none" /\ live' = None
    /\ alive' = "gone" /\ op' = None /\ todo' = <<>> /\ answer' = "ok"
    /\ UNCHANGED <<kind, current_config, backup_config, created, sound, ops, left, at,
                   core_deployed, values, ue_dict, udr, ranVars>>

(* All children done: the chart, then what the provider still lists,       *)
(* as far as they can be deleted, and the PDUs; then the record in the     *)
(* database.                                                               *)
Leftover(f, k) == [a \in {b \in DOMAIN f : <<b, k>> \in deployed_blueprints => <<b, k>> \in protected} |-> f[a]]

(* The PDU of an Athonet core is one of those to unlock. *)
CorePdu == IF kind = "athonet" /\ chart # "none" THEN AreasOf(current_config) ELSE {}

(* A PDU whose unlocking fails is left as it is. *)
Unlock(L, K) ==
    /\ locked' = L /\ lost' = lost \cup (L \X {"pdu"}) \cup (K \X {"core"})
    /\ chart' = IF K = {} THEN "none" ELSE chart
    /\ IF L \cup K = {} THEN NoFault ELSE Fault

final_cleanup ==
    /\ At("children") /\ children_blue_ids = {}
    /\ \/ /\ \E L \in SUBSET locked, K \in {{}, CorePdu} : Unlock(L, K)
          /\ live' = None
          /\ routers' = Leftover(routers, "router") /\ upfs' = Leftover(upfs, "upf")
          /\ deployed_blueprints' = {}
          /\ alive' = "gone" /\ op' = None /\ todo' = <<>> /\ answer' = "ok"
          /\ UNCHANGED <<kind, current_config, backup_config, created, sound, ops, left, at>>
       \/ /\ chart \in {"registered", "running"} /\ kind # "athonet"
          /\ Fault /\ Stuck
          /\ UNCHANGED <<chart, live, locked, lost, routers, upfs, deployed_blueprints>>
       \/ /\ \E c \in deployed_blueprints : Exists(c) /\ c \notin protected    \* its destroy raises
          /\ Fault /\ Hang /\ chart' = IF kind = "athonet" THEN chart ELSE "none"
          /\ UNCHANGED <<live, locked, lost, routers, upfs, deployed_blueprints>>
    /\ UNCHANGED <<children_blue_ids, edge_areas, protected, silent, core_deployed, values, ue_dict, udr, ran_areas, gnb>>

(* The child the next call goes to. *)
Calling(c) ==
    LET a == c[1]
    IN  \/ At("children") /\ c \in (IF children_blue_ids = {} THEN deployed_blueprints ELSE children_blue_ids)
        \/ /\ At("edge") /\ c[2] = "router"
           /\ \/ at = <<a, "routes">> /\ routed(a) # {}
              \/ OverArea(a) /\ edge_areas[a].router = "own"
        \/ /\ At("edge") /\ c[2] = "upf"
           /\ \/ OldArea(a) /\ ~UpdateRaises(a) /\ edge_areas[a].config # newConfig(a)
              \/ at = <<a, "undeploy">> /\ edge_areas[a].upf

(* The user of a child may delete it, or protect it, at any time.  A call  *)
(* of the parent that the user's STOP gets ahead of is never answered.     *)
UserOfChild(c) ==
    /\ Exists(c) /\ c \notin protected /\ Fault
    /\ \/ /\ routers' = IF c[2] = "router" THEN Without(routers, c[1]) ELSE routers
          /\ upfs' = IF c[2] = "upf" THEN Without(upfs, c[1]) ELSE upfs
          /\ alive' \in IF Calling(c) THEN {alive, "hung"} ELSE {alive}
          /\ UNCHANGED protected
       \/ /\ protected' = protected \cup {c}
          /\ UNCHANGED <<routers, upfs, alive>>
    /\ UNCHANGED <<kind, current_config, backup_config, parentVars, lost, coreVars, ranVars,
                   op, todo, left, at, answer, created, sound, silent, ops>>

Request ==
    \/ \E c \in Configs : create(c) \/ create_raises(c)
    \/ \E u \in Ues, S \in SUBSET Slices : day2_add_ues(u, S)
    \/ \E u \in Ues : day2_del_ues(u)
    \/ \E d \in Dnns : day2_add_dnn(d) \/ day2_del_dnn(d)
    \/ \E s \in Slices, A \in SUBSET Areas : day2_add_slice_oss(s, A) \/ day2_add_slice_operator(s, A)
    \/ \E s \in Slices : day2_del_slice(s)
    \/ \E a \in Areas, S \in SUBSET Slices : day2_add_tac(a, S)
    \/ \E a \in Areas : day2_del_tac(a)
    \/ destroy

(* The worker's own steps; wait_core_ready, and what deletes subscribers   *)
(* from an Athonet core, wait for something else.                          *)
Step ==
    \/ update_edge_areas \/ register_resource \/ update_core_values \/ install_helm_chart
    \/ update_k8s_network_functions \/ LockCorePdu \/ update_values_helm_chart \/ configure
    \/ ues_additional_infos \/ add_ues \/ disassociating_subscriber_from_slice
    \/ del_subscriber_to_conf \/ AlwaysRaises \/ update_gnb_config \/ Answer
    \/ restore_base_config \/ (\E c \in Child : DestroyChild(c)) \/ final_cleanup

Wait == wait_core_ready \/ del_user \/ delete_all_supis

Next == Request \/ Step \/ Wait \/ \E c \in Child : UserOfChild(c)

Spec == Init /\ [][Next]_vars /\ WF_vars(Step)

-----------------------------------------------------------------------------
(* Properties. *)

InUse(c) ==
    /\ c[1] \in DOMAIN edge_areas
    /\ IF c[2] = "router" THEN edge_areas[c[1]].router = "own" ELSE edge_areas[c[1]].upf

(* Every router and UPF blueprint that exists is in its parent's blueprint *)
(* provider, whose final_cleanup will delete it, and every one the parent  *)
(* uses is registered as its child, whatever failed half-way through       *)
(* update_edge_areas or a deletion.  Only a child that is being created    *)
(* (at = c), or whose create_blueprint raised after the manager had saved  *)
(* it (lost), is out of reach.                                             *)
ChildrenReachable ==
    \A c \in Child : Exists(c) /\ alive # "gone" =>
        /\ c \in deployed_blueprints \/ at = c \/ c \in lost
        /\ InUse(c) => c \in children_blue_ids

(* A core that has been destroyed leaves no chart, no locked PDU and no    *)
(* child blueprint behind, whatever operations had failed before, but for  *)
(* what was lost (a child whose create_blueprint raised, a PDU whose       *)
(* unlocking failed unnoticed) and a child its user protects.              *)
DestroyedLeavesNothing ==
    alive = "gone" =>
        /\ \A c \in Child : Exists(c) => c \in lost \cup protected
        /\ \A a \in locked : <<a, "pdu">> \in lost
        /\ chart # "none" => kind = "athonet" /\ \E a \in Areas : <<a, "core">> \in lost

(* What the core promises once an operation has brought it up to date and  *)
(* nothing has failed since: an edge for exactly the areas of the          *)
(* configuration, in each a UPF that runs with the area's slices and, but  *)
(* for external routers, a router with the routes of what the UPF serves;  *)
(* a gNB configured with the area's slices and locked; and the core runs   *)
(* with the values of this configuration.  A child that answered ERROR     *)
(* (silent) or that its user deleted is excepted, so is an OAI UPF that    *)
(* was never configured (see NewAreaIsConfigured), and so are the values   *)
(* of an Athonet core that refused them: nobody looks at its answers.      *)
UpfServes(a) ==
    \/ <<a, "upf">> \in silent \/ a \notin DOMAIN upfs
    \/ kind = "oai" /\ upfs[a].applied = None
    \/ upfs[a].applied = create_upf_config(current_config, a, core_deployed)
RouterRoutes(a) ==
    \/ <<a, "router">> \in silent \/ a \notin DOMAIN routers
    \/ routed(a) \subseteq routers[a].routes
SettledIsServed ==
    (Idle /\ sound) =>
        /\ DOMAIN edge_areas = AreasOf(current_config)
        /\ \A a \in AreasOf(current_config) :
              /\ UpfServes(a) /\ RouterRoutes(a)
              /\ a \in locked \cap ran_areas /\ gnb[a] = current_config.areas[a]
        /\ live = ValuesOf(current_config) \/ (kind = "athonet" /\ live = Mixed)

(* The comment above the second update_edge_areas of create: the UPFs are  *)
(* updated "with new data gathered after the core deployment".  An area    *)
(* that add_tac adds later should end up with a configured UPF too.        *)
NewAreaIsConfigured ==
    (Idle /\ sound) =>
        \A a \in DOMAIN upfs : <<a, "upf">> \in silent \/ upfs[a].applied # None

(* Once create has succeeded, the configuration an idle core records is    *)
(* one its values can be computed from: no failed day-2 operation leaves   *)
(* one behind that every later operation would fail on.                    *)
ConfigIsDeployable ==
    (Idle /\ created) => Feasible(current_config) /\ configuration_feasibility_check(current_config)

(* An operation, destroy included, ends, with an answer or by losing the   *)
(* worker, unless it waits for something else: the readiness of the AMF,   *)
(* the 204 of an Athonet UDR (del_user, delete_all_supis), or a child      *)
(* whose destroy raised or that its user stopped first (hung).             *)
OperationEnds ==
    op # None ~> (op = None \/ alive = "hung" \/ At("ready") \/ At("del_user") \/ At("supis"))
=============================================================================
