---------------------------- MODULE Core5GValues ----------------------------
(***************************************************************************)
(* What the 5G blueprints compute from a core's configuration, without any *)
(* state: the configuration of an area's UPF, what each type of core       *)
(* (OpenAirInterface, free5GC, SD-Core, Athonet) is told, and what each    *)
(* type of UPF does with its own configuration.                            *)
(*                                                                         *)
(* The lists of a configuration name nothing twice: they are sets, lists   *)
(* of lists are relations.  The exceptions a computation may raise are a   *)
(* predicate of their own (OaiFeasible, ...), so that the values need no   *)
(* error case.                                                             *)
(***************************************************************************)
EXTENDS Naturals, FiniteSets

CONSTANTS
    Areas,      \* identifiers of areas (tracking area codes)
    Slices,     \* slice identifiers
    Dnns,       \* data networks
    Ues,        \* IMSIs
    DnnsOf,     \* the dnnList of each slice's profile
    AmbrOf,     \* the bit rates of each data network: "none" (left out), "odd" (in units
                \* that differ or that SD-Core does not know) or "plain"
    CidrOf,     \* the first address pool of each data network
    DnnVrf,     \* the pools the PDU of an Athonet core can serve
    None        \* Python's None

ASSUME DnnsAssumption == DnnsOf \in [Slices -> SUBSET Dnns]
ASSUME AmbrAssumption == AmbrOf \in [Dnns -> {"none", "odd", "plain"}]

(* Partial functions from S to T. *)
Partial(S, T) == UNION {[D -> T] : D \in SUBSET S}
IsPartial(f, S, T) == DOMAIN f \subseteq S /\ f \in [DOMAIN f -> T]

(* Create5gModel: the slices of each area, the slice profiles, the data    *)
(* networks and the slices of each subscriber.                             *)
Config == [areas : Partial(Areas, SUBSET Slices), profiles : SUBSET Slices,
           nets : SUBSET Dnns, subs : Partial(Ues, SUBSET Slices)]

AreasOf(c) == DOMAIN c.areas

(* No two slices of the configuration name the same DNN. *)
configuration_feasibility_check(c) ==
    \A s, t \in c.profiles : s # t => DnnsOf[s] \cap DnnsOf[t] = {}

(* SliceModel.from_slice_profile raises for a slice without a profile *)
HasProfiles(c, a) == c.areas[a] \subseteq c.profiles

(* The data networks the UPF of a slice is told: those that exist. *)
from_slice_profile(c, s) == DnnsOf[s] \cap c.nets

UpfConfig == [slices : Partial(Slices, SUBSET Dnns), nrf : BOOLEAN]

(* The configuration of the UPF of area a; nrf says whether the address of *)
(* the core is known already.                                              *)
create_upf_config(c, a, nrf) ==
    [slices |-> [s \in c.areas[a] |-> from_slice_profile(c, s)], nrf |-> nrf]

-----------------------------------------------------------------------------
(* What a core is told, whatever its type:                                 *)
(*   tac    which slices which area offers (AMF),                          *)
(*   smf    which data networks which slice has (SMF),                     *)
(*   upf    the areas whose UPF the SMF knows,                             *)
(*   subs   the subscribers that come with the values.                     *)
Values == [tac : SUBSET (Areas \X Slices), smf : SUBSET (Slices \X Dnns),
           upf : SUBSET Areas, subs : SUBSET Ues]

Offered(c) == {p \in AreasOf(c) \X Slices : p[2] \in c.areas[p[1]]}
OfferedSlices(c) == UNION {c.areas[a] : a \in AreasOf(c)}
DnnPairs(S) == {p \in S \X Dnns : p[2] \in DnnsOf[p[1]]}

(* add_snssai, and the NSSF's list of supported slices, refuse a slice     *)
(* they already hold: no slice may be in two areas.                        *)
EachSliceOnce(c) ==
    \A a, b \in AreasOf(c) : a # b => c.areas[a] \cap c.areas[b] = {}

(* get_slice and get_dnn raise for what is not in the configuration. *)
get_slice(c, s) == s \in c.profiles
get_dnn(c, d) == d \in c.nets

SlicesAndDnnsExist(c) ==
    \A s \in OfferedSlices(c) : get_slice(c, s) /\ \A d \in DnnsOf[s] : get_dnn(c, d)

(* OpenAirInterface.update_core_values and the helpers it calls; the bit   *)
(* rates of a data network are optional in the model and not here.         *)
OaiDnnUsable(c, d) == get_dnn(c, d) /\ AmbrOf[d] # "none"

OaiFeasible(c) ==
    /\ EachSliceOnce(c) /\ SlicesAndDnnsExist(c)
    /\ \A s \in OfferedSlices(c) : \A d \in DnnsOf[s] : OaiDnnUsable(c, d)

add_plmn_item(c) == Offered(c)
add_dnn_snssai_smf_info_list_item(c) == DnnPairs(OfferedSlices(c))
add_available_upf(c) == AreasOf(c)

OaiValues(c) ==
    [tac |-> add_plmn_item(c), smf |-> add_dnn_snssai_smf_info_list_item(c),
     upf |-> add_available_upf(c), subs |-> {}]

(* Free5gc.update_core_values: a UPF is a node of the SMF's topology only  *)
(* once one of its slices has a data network.                              *)
Free5gcFeasible(c) == EachSliceOnce(c) /\ SlicesAndDnnsExist(c)

add_tai_supportedsnssailist(c) == Offered(c)
add_dnn_info_smf_item(c) == DnnPairs(OfferedSlices(c))
add_dnnupfinfolist_smf(c) == {a \in AreasOf(c) : \E s \in c.areas[a] : DnnsOf[s] # {}}

Free5gcValues(c) ==
    [tac |-> add_tai_supportedsnssailist(c), smf |-> add_dnn_info_smf_item(c),
     upf |-> add_dnnupfinfolist_smf(c), subs |-> {}]

(* SimAppYamlConfiguration.from_generic_5g_model: one data network for     *)
(* each profile, a gNB only for a slice of exactly one area, and the       *)
(* subscribers with the slices they name.  Which UPF a slice gets depends  *)
(* on what the UPFs report, not on the configuration (see CoreLists).      *)
AreasWith(c, s) == {a \in AreasOf(c) : s \in c.areas[a]}

(* One data network, which exists and has its bit rates in one known unit. *)
SdcoreSliceUsable(c, s) ==
    /\ Cardinality(DnnsOf[s]) = 1
    /\ \A d \in DnnsOf[s] : d \in c.nets /\ AmbrOf[d] = "plain"

SdcoreFeasible(c) ==
    /\ \A s \in c.profiles : SdcoreSliceUsable(c, s)
    /\ \A u \in DOMAIN c.subs : c.subs[u] \subseteq c.profiles

add_slice_from_generic_model(c) ==
    {p \in Offered(c) : p[2] \in c.profiles /\ AreasWith(c, p[2]) = {p[1]}}

SdcoreValues(c) ==
    [tac |-> add_slice_from_generic_model(c), smf |-> DnnPairs(c.profiles),
     upf |-> {}, subs |-> DOMAIN c.subs]

(* The AMF and SMF of an Athonet core: each profile's dnnList[0], if its   *)
(* pool is one the PDU can serve; the UPF is the one the PDU names.        *)
AthonetFeasible(c) == \A s \in c.profiles : DnnsOf[s] # {} \/ c.nets = {}

AthonetSmf(c) ==
    {<<s, CHOOSE d \in DnnsOf[s] : TRUE>> : s \in {t \in c.profiles : DnnsOf[t] # {}}}
        \cap (Slices \X {d \in c.nets : CidrOf[d] \in DnnVrf})

AthonetValues(c) ==
    [tac |-> Offered(c), smf |-> AthonetSmf(c), upf |-> {}, subs |-> {}]

-----------------------------------------------------------------------------
(* A UPF blueprint: the configuration its machine runs with, and the       *)
(* upf_list it reports (None: an empty list).                              *)
Upf == [applied : UpfConfig \cup {None}, list : Partial(Slices, SUBSET Dnns) \cup {None}]

NewUpf == [applied |-> None, list |-> None]

(* OpenAirInterfaceUpf: the machine is configured by the first update, not *)
(* by create_upf, and only once the address of the NRF is known.           *)
OaiUpfCreated(u, c) == [u EXCEPT !.list = c.slices]
OaiUpfCanUpdate(c) == c.nrf
OaiUpfUpdated(u, c) == [applied |-> c, list |-> c.slices]

(* Free5GCUpf: update_upf does not refresh upf_list. *)
Free5gcUpfCreated(u, c) == [u EXCEPT !.list = c.slices]
Free5gcUpfUpdated(u, c) == [u EXCEPT !.applied = c]

(* AthonetUPF: configured at once; update_upf does not refresh upf_list. *)
AthonetUpfCreated(u, c) == [applied |-> c, list |-> c.slices]
AthonetUpfUpdated(u, c) == [u EXCEPT !.applied = c]

(* SdCoreUPFBlueprintNG.update_deployments: a machine per data network.    *)
(* One that is already deployed is left alone, with the slice it was       *)
(* deployed for; one that no slice names any more is destroyed.            *)
Wanted(c) == UNION {c.slices[s] : s \in DOMAIN c.slices}
SdcoreUpfDeployed(u, c) ==
    LET old  == IF u.list = None THEN {} ELSE DOMAIN u.list
        dnns == UNION {u.list[s] : s \in old}
        kept == {s \in old : u.list[s] \cap Wanted(c) # {}}
        new  == {s \in DOMAIN c.slices : c.slices[s] \ dnns # {}}
    IN  [applied |-> c,
         list |-> IF kept \cup new = {} THEN None
                  ELSE [s \in kept \cup new |-> IF s \in kept THEN u.list[s] ELSE c.slices[s]]]
=============================================================================
