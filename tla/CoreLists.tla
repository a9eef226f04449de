------------------------------ MODULE CoreLists ------------------------------
(***************************************************************************)
(* How a core's values are filled: update_core_values of the OAI and the   *)
(* free5GC core and update_sdcore_values of the SD-Core one.  The values   *)
(* are lists inside the defaults of a Helm chart.  Every update clears     *)
(* them and adds entry after entry, area by area, slice by slice, data     *)
(* network by data network, and may raise anywhere; the next update starts *)
(* from what is left.  Core5GValues says what the outcome should be.       *)
(*                                                                         *)
(* A list whose append is guarded by "not in" is a set, a list of items    *)
(* that hold lists is a relation; the list an entry is appended to without *)
(* a test (networkInstances, imsis) is a sequence, and of the links, which *)
(* always join the gNB and the UPF of one area, their number is kept.      *)
(***************************************************************************)
EXTENDS Core5GValues, Sequences

CONSTANTS
    Kinds,          \* among "oai", "free5gc", "sdcore"
    Configs,        \* the configurations an update may see
    Reports,        \* the slices the UPF of each area reports, whatever the configuration
    DefaultArea,    \* what the chart's defaults name
    DefaultSlice,
    DefaultDnn,
    DefaultUe,
    DefaultPlmn,
    Plmn,           \* the PLMN of the configuration
    MaxUpdates      \* bound: updates one after the other

ASSUME ListsAssumption ==
    /\ Kinds \subseteq {"oai", "free5gc", "sdcore"} /\ Configs \subseteq Config /\ MaxUpdates \in Nat
    /\ \A c \in Configs : configuration_feasibility_check(c)
    /\ DefaultArea \notin Areas /\ DefaultSlice \notin Slices /\ DefaultDnn \notin Dnns /\ DefaultUe \notin Ues
    /\ None \notin Areas \cup {DefaultArea}
    /\ \A c \in Configs : IsFiniteSet(AreasOf(c))          \* the model holds Python lists
    /\ \A s \in Slices : IsFiniteSet(DnnsOf[s])
    /\ \A r \in Reports : IsPartial(r, Areas, SUBSET Slices)

VARIABLES
    kind,           \* the type of the core
    config,         \* state.current_config
    served,         \* edge_areas: the served_slices of the UPFs that have reported an upf_list
    lists,          \* the values: oai_config_values, free5gc_config_values, sdcore_config_values
    areasLeft, slicesLeft, dnnsLeft, subsLeft,  \* the loops' iterators
    area, slice,    \* the loops' variables
    next_id,        \* free5GC: nsi_nssf_id and supported_nssai_availability_nssf_id
    result,         \* "none", "running", "filled" or "raised"
    updates         \* bound

loopVars == <<areasLeft, slicesLeft, dnnsLeft, subsLeft, area, slice>>
vars == <<kind, config, served, lists, loopVars, next_id, result, updates>>

AllAreas == Areas \cup {DefaultArea}
AllSlices == Slices \cup {DefaultSlice}
AllDnns == Dnns \cup {DefaultDnn}
Plmns == {Plmn, DefaultPlmn}

-----------------------------------------------------------------------------
(* OpenAirInterface: the defaults of the chart and the helpers of          *)
(* oai_utils.                                                              *)

OaiLists ==
    [served_guami_list : SUBSET Plmns, hostAliases : SUBSET AllAreas, upfs : SUBSET AllAreas,
     snssais : SUBSET AllSlices, plmn_support_list : SUBSET (AllAreas \X AllSlices),
     sNssaiSmfInfoList : SUBSET (AllSlices \X AllDnns),
     local_subscription_infos : SUBSET (AllSlices \X AllDnns), dnns : SUBSET AllDnns]

oai_default_core_config ==
    [served_guami_list |-> {DefaultPlmn}, hostAliases |-> {DefaultArea}, upfs |-> {DefaultArea},
     snssais |-> {DefaultSlice}, plmn_support_list |-> {<<DefaultArea, DefaultSlice>>},
     sNssaiSmfInfoList |-> {<<DefaultSlice, DefaultDnn>>},
     local_subscription_infos |-> {<<DefaultSlice, DefaultDnn>>}, dnns |-> {DefaultDnn}]

add_served_guami_list_item(l) == [l EXCEPT !.served_guami_list = @ \cup {Plmn}]
add_host_aliases(l, a) == [l EXCEPT !.hostAliases = @ \cup {a}]
add_upf(l, a) == [l EXCEPT !.upfs = @ \cup {a}]
add_snssai(l, s) == [l EXCEPT !.snssais = @ \cup {s}]
add_plmn(l, a, s) == [l EXCEPT !.plmn_support_list = @ \cup {<<a, s>>}]
add_local_subscription_info(l, s, d) == [l EXCEPT !.local_subscription_infos = @ \cup {<<s, d>>}]
add_dnn_dnns(l, d) == [l EXCEPT !.dnns = @ \cup {d}]
add_dnn_snssai_smf(l, s, d) == [l EXCEPT !.sNssaiSmfInfoList = @ \cup {<<s, d>>}]

OaiCleared(l) ==
    [served_guami_list |-> {}, hostAliases |-> {}, upfs |-> {}, snssais |-> {},
     plmn_support_list |-> {}, sNssaiSmfInfoList |-> {}, local_subscription_infos |-> {}, dnns |-> {}]

(* add_snssai and add_host_aliases raise for what is there already. *)
OaiHeader(l) == add_served_guami_list_item(OaiCleared(l))
OaiAreaRaises(l, a) == a \notin DOMAIN served \/ a \in l.hostAliases
OaiArea(l, a) == add_upf(add_host_aliases(l, a), a)
OaiSliceRaises(l, s) == s \in l.snssais
OaiSlice(l, a, s) == add_plmn(add_snssai(l, s), a, s)
OaiDnn(l, s, d) == add_dnn_snssai_smf(add_dnn_dnns(add_local_subscription_info(l, s, d), d), s, d)

-----------------------------------------------------------------------------
(* free5GC: the lists of AMF, SMF, AUSF and NSSF and the methods of        *)
(* Free5gcCoreConfig that fill them.  The NRF's default PLMN is overwritten*)
(* and not cleared.                                                        *)

Nodes == AllAreas \X {"gNB", "UPF"}

AmfLists ==
    [served_guami_list : SUBSET Plmns, support_tai_list : SUBSET AllAreas,
     plmn_support_list : SUBSET AllSlices, support_dnn_list : SUBSET AllDnns]
SmfLists ==
    [plmn_list : SUBSET Plmns, snssai_infos : SUBSET (AllSlices \X AllDnns),
     up_nodes : SUBSET Nodes, links : [AllAreas -> Nat],
     s_nssai_upf_infos : SUBSET (AllAreas \X AllSlices),
     dnn_upf_info_list : SUBSET (AllAreas \X AllSlices \X AllDnns),
     network_instances : [AllAreas -> Seq(AllDnns)]]
NssfLists ==
    [supported_plmn_list : SUBSET Plmns, supported_nssai_in_plmn_list : SUBSET AllSlices,
     nsi_list : SUBSET (AllSlices \X Nat), amf_set_list : SUBSET (Nat \X AllAreas \X AllSlices),
     ta_list : SUBSET (AllAreas \X AllSlices)]
Free5gcLists ==
    [amf : AmfLists, smf : SmfLists, nssf : NssfLists, ausf : SUBSET Plmns, default_plmn_id : Plmns]

amf_defaults ==
    [served_guami_list |-> {DefaultPlmn}, support_tai_list |-> {DefaultArea},
     plmn_support_list |-> {DefaultSlice}, support_dnn_list |-> {DefaultDnn}]
smf_defaults ==
    [plmn_list |-> {DefaultPlmn}, snssai_infos |-> {<<DefaultSlice, DefaultDnn>>},
     up_nodes |-> {DefaultArea} \X {"gNB", "UPF"},
     links |-> [a \in AllAreas |-> IF a = DefaultArea THEN 1 ELSE 0],
     s_nssai_upf_infos |-> {<<DefaultArea, DefaultSlice>>},
     dnn_upf_info_list |-> {<<DefaultArea, DefaultSlice, DefaultDnn>>},
     network_instances |-> [a \in AllAreas |-> IF a = DefaultArea THEN <<DefaultDnn>> ELSE <<>>]]
nssf_defaults ==
    [supported_plmn_list |-> {DefaultPlmn}, supported_nssai_in_plmn_list |-> {DefaultSlice},
     nsi_list |-> {<<DefaultSlice, 10>>}, amf_set_list |-> {<<1, DefaultArea, DefaultSlice>>},
     ta_list |-> {<<DefaultArea, DefaultSlice>>}]
free5gc_default_core_config ==
    [amf |-> amf_defaults, smf |-> smf_defaults, nssf |-> nssf_defaults,
     ausf |-> {DefaultPlmn}, default_plmn_id |-> DefaultPlmn]

set_default_nrf_plmnd(l) == [l EXCEPT !.default_plmn_id = Plmn]
add_item_amf_servedGuamiList(l) == [l EXCEPT !.amf.served_guami_list = @ \cup {Plmn}]
add_plmn_smf_item(l) == [l EXCEPT !.smf.plmn_list = @ \cup {Plmn}]
add_plmn_ausf_item(l) == [l EXCEPT !.ausf = @ \cup {Plmn}]
add_supported_plmn_nssf(l) == [l EXCEPT !.nssf.supported_plmn_list = @ \cup {Plmn}]
add_item_amf_supportTaiList(l, a) == [l EXCEPT !.amf.support_tai_list = @ \cup {a}]
add_plmn_amf_item(l, s) == [l EXCEPT !.amf.plmn_support_list = @ \cup {s}]
add_supportedsnssailist_item_nssf(l, s) == [l EXCEPT !.nssf.supported_nssai_in_plmn_list = @ \cup {s}]

add_nsi_list_item_nssf(l, s, id) ==
    IF \E e \in l.nssf.nsi_list : e[1] = s THEN l
    ELSE [l EXCEPT !.nssf.nsi_list = @ \cup {<<s, id>>}]

add_supported_nssai_nssf(l, id, a, s) == [l EXCEPT !.nssf.amf_set_list = @ \cup {<<id, a, s>>}]
add_tai_supportedsnssailist_nssf_item(l, a, s) == [l EXCEPT !.nssf.ta_list = @ \cup {<<a, s>>}]
add_dnn_amf_item(l, d) == [l EXCEPT !.amf.support_dnn_list = @ \cup {d}]
add_dnn_info_smf(l, s, d) == [l EXCEPT !.smf.snssai_infos = @ \cup {<<s, d>>}]

add_upf_smf(l, a) == [l EXCEPT !.smf.up_nodes = @ \cup {<<a, "UPF">>}]
add_gnb_smf(l, a) == [l EXCEPT !.smf.up_nodes = @ \cup {<<a, "gNB">>}]

(* Looks for a link from UPF to gNB, which is never there, and appends one *)
(* from gNB to UPF.                                                        *)
add_link_smf(l, a) == [l EXCEPT !.smf.links[a] = @ + 1]

(* Mutant: nodes and link are added for a UPF that is there already. *)
add_snssaiupfinfos_smfMutant(l, a, s) ==
    LET n == add_link_smf(add_gnb_smf(add_upf_smf(l, a), a), a)
    IN  [n EXCEPT !.smf.s_nssai_upf_infos = @ \cup {<<a, s>>}]

(* The nodes and their link when the UPF is new, then the slice's entry. *)
add_snssaiupfinfos_smf(l, a, s) ==
    LET n == IF <<a, "UPF">> \in l.smf.up_nodes THEN l
             ELSE add_link_smf(add_gnb_smf(add_upf_smf(l, a), a), a)
    IN  [n EXCEPT !.smf.s_nssai_upf_infos = @ \cup {<<a, s>>}]

add_dnnupfinfolist(l, a, s, d) ==
    LET n == IF <<a, s>> \in l.smf.s_nssai_upf_infos THEN l ELSE add_snssaiupfinfos_smf(l, a, s)
    IN  IF <<a, s, d>> \in n.smf.dnn_upf_info_list THEN n
        ELSE [n EXCEPT !.smf.dnn_upf_info_list = @ \cup {<<a, s, d>>},
                       !.smf.network_instances[a] = Append(@, d)]

(* Mutant: the NSSF's tracking areas are kept. *)
clear_core_valuesMutant(l) ==
    [l EXCEPT
        !.amf = [served_guami_list |-> {}, support_tai_list |-> {}, plmn_support_list |-> {}, support_dnn_list |-> {}],
        !.smf = [plmn_list |-> {}, snssai_infos |-> {}, up_nodes |-> {}, links |-> [a \in AllAreas |-> 0], s_nssai_upf_infos |-> {},
                 dnn_upf_info_list |-> {}, network_instances |-> [a \in AllAreas |-> <<>>]],
        !.nssf = [supported_plmn_list |-> {}, supported_nssai_in_plmn_list |-> {}, nsi_list |-> {},
                  amf_set_list |-> {}, ta_list |-> @.ta_list],
        !.ausf = {}]

(* A UPF's node takes its slices and interfaces with it. *)
clear_core_values(l) ==
    [l EXCEPT
        !.amf = [served_guami_list |-> {}, support_tai_list |-> {}, plmn_support_list |-> {}, support_dnn_list |-> {}],
        !.smf = [plmn_list |-> {}, snssai_infos |-> {}, up_nodes |-> {}, links |-> [a \in AllAreas |-> 0], s_nssai_upf_infos |-> {},
                 dnn_upf_info_list |-> {}, network_instances |-> [a \in AllAreas |-> <<>>]],
        !.nssf = [supported_plmn_list |-> {}, supported_nssai_in_plmn_list |-> {}, nsi_list |-> {},
                  amf_set_list |-> {}, ta_list |-> {}],
        !.ausf = {}]

Free5gcHeader(l) ==
    add_supported_plmn_nssf(add_plmn_ausf_item(add_plmn_smf_item(
        add_item_amf_servedGuamiList(set_default_nrf_plmnd(clear_core_values(l))))))

(* A slice the NSSF holds already makes add_supportedsnssailist_item_nssf  *)
(* call itself for ever: RecursionError.                                   *)
Free5gcSliceRaises(l, s) == s \in l.nssf.supported_nssai_in_plmn_list

Free5gcSlice(l, a, s, id) ==
    add_tai_supportedsnssailist_nssf_item(add_supported_nssai_nssf(add_nsi_list_item_nssf(
        add_supportedsnssailist_item_nssf(add_plmn_amf_item(l, s), s), s, id), id, a, s), a, s)

Free5gcDnn(l, a, s, d) == add_dnnupfinfolist(add_dnn_info_smf(add_dnn_amf_item(l, d), s, d), a, s, d)

-----------------------------------------------------------------------------
(* SD-Core: SimAppYamlConfiguration.  gnb and upf are the area of the one  *)
(* gNB and of the UPF of a slice.                                          *)

SdcoreLists ==
    [device_groups : SUBSET (AllSlices \X AllDnns), imsis : [AllSlices -> Seq(Ues \cup {DefaultUe})],
     network_slices : SUBSET AllSlices,
     gnb : [AllSlices -> AllAreas \cup {None}], upf : [AllSlices -> AllAreas \cup {None}],
     subscribers : SUBSET (Ues \cup {DefaultUe})]

sdcore_default_config ==
    [device_groups |-> {<<DefaultSlice, DefaultDnn>>},
     imsis |-> [s \in AllSlices |-> IF s = DefaultSlice THEN <<DefaultUe>> ELSE <<>>],
     network_slices |-> {DefaultSlice},
     gnb |-> [s \in AllSlices |-> IF s = DefaultSlice THEN DefaultArea ELSE None],
     upf |-> [s \in AllSlices |-> IF s = DefaultSlice THEN DefaultArea ELSE None],
     subscribers |-> {DefaultUe}]

SdcoreHeader(l) ==
    [device_groups |-> {}, imsis |-> [s \in AllSlices |-> <<>>], network_slices |-> {},
     gnb |-> [s \in AllSlices |-> None], upf |-> [s \in AllSlices |-> None], subscribers |-> {}]

SdcoreSliceRaises(s) == ~SdcoreSliceUsable(config, s)

add_slice(l, s) ==
    [l EXCEPT !.device_groups = @ \cup {<<s, CHOOSE d \in DnnsOf[s] : TRUE>>},
              !.network_slices = @ \cup {s},
              !.gnb[s] = IF Cardinality(AreasWith(config, s)) = 1 THEN CHOOSE a \in AreasWith(config, s) : TRUE
                         ELSE None]

(* Mutant: only the subscriber, and not its device groups. *)
add_subscriberMutant(l, u, S) == [l EXCEPT !.subscribers = @ \cup {u}]

(* S: the slices whose device groups it gets to. *)
add_subscriber(l, u, S) ==
    [l EXCEPT !.subscribers = @ \cup {u},
              !.imsis = [s \in AllSlices |-> IF s \in S THEN Append(@[s], u) ELSE @[s]]]

(* Only a slice that has a profile is found. *)
set_upf_ip(l, s, a) == IF s \in l.network_slices THEN [l EXCEPT !.upf[s] = a] ELSE l

-----------------------------------------------------------------------------
Lists ==
    CASE kind = "oai" -> OaiLists
      [] kind = "free5gc" -> Free5gcLists
      [] kind = "sdcore" -> SdcoreLists

TypeOK ==
    /\ kind \in Kinds /\ config \in Configs /\ IsPartial(served, Areas, SUBSET Slices)
    /\ lists \in Lists
    /\ areasLeft \subseteq Areas /\ slicesLeft \subseteq Slices /\ dnnsLeft \subseteq Dnns /\ subsLeft \subseteq Ues
    /\ area \in Areas \cup {None} /\ slice \in Slices \cup {None}
    /\ next_id \in Nat /\ result \in {"none", "running", "filled", "raised"} /\ updates \in 0 .. MaxUpdates

Init ==
    /\ kind \in Kinds /\ config \in Configs /\ served = <<>>
    /\ lists = CASE kind = "oai" -> oai_default_core_config
                 [] kind = "free5gc" -> free5gc_default_core_config
                 [] kind = "sdcore" -> sdcore_default_config
    /\ areasLeft = {} /\ slicesLeft = {} /\ dnnsLeft = {} /\ subsLeft = {} /\ area = None /\ slice = None
    /\ next_id = 1 /\ result = "none" /\ updates = 0

FirstId == 1

(* An update begins: whatever the configuration is by now, and whichever   *)
(* UPFs have reported, which an SD-Core UPF does for the slices its        *)
(* machines were first deployed for.  SD-Core goes through the slice       *)
(* profiles first.                                                         *)
Begin(c, S) ==
    /\ result # "running" /\ updates < MaxUpdates /\ updates' = updates + 1
    /\ config' = c /\ served' = S /\ result' = "running" /\ next_id' = FirstId
    /\ lists' = CASE kind = "oai" -> OaiHeader(lists)
                  [] kind = "free5gc" -> Free5gcHeader(lists)
                  [] kind = "sdcore" -> SdcoreHeader(lists)
    /\ areasLeft' = AreasOf(c) /\ area' = None /\ slice' = None /\ dnnsLeft' = {}
    /\ slicesLeft' = IF kind = "sdcore" THEN c.profiles ELSE {}
    /\ subsLeft' = IF kind = "sdcore" THEN DOMAIN c.subs ELSE {}
    /\ UNCHANGED kind

Running == result = "running"
Goes == UNCHANGED <<kind, config, served, result, updates>>
RaiseWith(l) == result' = "raised" /\ lists' = l /\ UNCHANGED <<kind, config, served, updates, loopVars, next_id>>
Raise == RaiseWith(lists)

(* The loops.  A data network before the next slice, a slice before the    *)
(* next area; the order within a list is its own.                          *)
NextArea(a) ==
    /\ Running /\ dnnsLeft = {} /\ slicesLeft = {} /\ subsLeft = {} /\ a \in areasLeft
    /\ IF kind = "sdcore" \/ (a \in DOMAIN served /\ (kind = "oai" => ~OaiAreaRaises(lists, a)))
       THEN /\ lists' = CASE kind = "oai" -> OaiArea(lists, a)
                          [] kind = "free5gc" -> add_item_amf_supportTaiList(lists, a)
                          [] kind = "sdcore" -> lists
            /\ areasLeft' = areasLeft \ {a} /\ area' = a /\ slicesLeft' = config.areas[a]
            /\ Goes /\ UNCHANGED <<dnnsLeft, subsLeft, slice, next_id>>
       ELSE Raise

(* Mutant: a slice that is there already is taken again. *)
SliceRaisesMutant(s) == FALSE

SliceRaises(s) == IF kind = "oai" THEN OaiSliceRaises(lists, s) ELSE Free5gcSliceRaises(lists, s)

(* The slice is added before its profile is looked for. *)
NextSlice(s) ==
    /\ Running /\ kind # "sdcore" /\ dnnsLeft = {} /\ s \in slicesLeft
    /\ LET added == IF kind = "oai" THEN OaiSlice(lists, area, s) ELSE Free5gcSlice(lists, area, s, next_id)
       IN  \/ SliceRaises(s) /\ Raise
           \/ ~SliceRaises(s) /\ ~get_slice(config, s) /\ RaiseWith(added)
           \/ /\ ~SliceRaises(s) /\ get_slice(config, s) /\ lists' = added
              /\ next_id' = IF kind = "free5gc" THEN next_id + 1 ELSE next_id
              /\ slicesLeft' = slicesLeft \ {s} /\ slice' = s /\ dnnsLeft' = DnnsOf[s]
              /\ Goes /\ UNCHANGED <<areasLeft, subsLeft, area>>

(* The bit rates are the first thing OAI needs of a data network. *)
DnnRaises(d) == ~get_dnn(config, d) \/ (kind = "oai" /\ ~OaiDnnUsable(config, d))

NextDnn(d) ==
    /\ Running /\ d \in dnnsLeft
    /\ IF DnnRaises(d) THEN Raise
       ELSE /\ lists' = IF kind = "oai" THEN OaiDnn(lists, slice, d) ELSE Free5gcDnn(lists, area, slice, d)
            /\ dnnsLeft' = dnnsLeft \ {d}
            /\ Goes /\ UNCHANGED <<areasLeft, slicesLeft, subsLeft, area, slice, next_id>>

(* from_generic_5g_model: the profiles, then the subscribers. *)
NextProfile(s) ==
    /\ Running /\ kind = "sdcore" /\ area = None /\ s \in slicesLeft
    /\ IF SdcoreSliceRaises(s) THEN Raise
       ELSE /\ lists' = add_slice(lists, s) /\ slicesLeft' = slicesLeft \ {s}
            /\ Goes /\ UNCHANGED <<areasLeft, dnnsLeft, subsLeft, area, slice, next_id>>

NextSubscriber(u) ==
    /\ Running /\ kind = "sdcore" /\ area = None /\ slicesLeft = {} /\ u \in subsLeft
    /\ IF config.subs[u] \subseteq lists.network_slices
       THEN /\ lists' = add_subscriber(lists, u, config.subs[u]) /\ subsLeft' = subsLeft \ {u}
            /\ Goes /\ UNCHANGED <<areasLeft, slicesLeft, dnnsLeft, area, slice, next_id>>
       ELSE \E S \in SUBSET (config.subs[u] \cap lists.network_slices) : RaiseWith(add_subscriber(lists, u, S))

(* The areas with a UPF that says it serves the slice, whether the area    *)
(* still offers it or not.                                                 *)
get_upfs_for_slice(S, s) == {b \in DOMAIN S : s \in S[b]}

(* update_sdcore_values: the first UPF that serves the slice. *)
SetUpf(s) ==
    /\ Running /\ kind = "sdcore" /\ area # None /\ s \in slicesLeft
    /\ IF get_upfs_for_slice(served, s) = {} THEN Raise
       ELSE /\ \E b \in get_upfs_for_slice(served, s) : lists' = set_upf_ip(lists, s, b)
            /\ slicesLeft' = slicesLeft \ {s}
            /\ Goes /\ UNCHANGED <<areasLeft, dnnsLeft, subsLeft, area, slice, next_id>>

Finish ==
    /\ Running /\ areasLeft = {} /\ slicesLeft = {} /\ dnnsLeft = {} /\ subsLeft = {}
    /\ result' = "filled"
    /\ UNCHANGED <<kind, config, served, lists, loopVars, next_id, updates>>

Fill ==
    \/ \E a \in Areas : NextArea(a)
    \/ \E s \in Slices : NextSlice(s) \/ NextProfile(s) \/ SetUpf(s)
    \/ \E d \in Dnns : NextDnn(d)
    \/ \E u \in Ues : NextSubscriber(u)
    \/ Finish

Next == Fill \/ \E c \in Configs, S \in Reports : Begin(c, S)

Spec == Init /\ [][Next]_vars

-----------------------------------------------------------------------------
(* Properties. *)

(* Core5GValues' view of the lists. *)
Told ==
    CASE kind = "oai" ->
            [tac |-> lists.plmn_support_list, smf |-> lists.sNssaiSmfInfoList, upf |-> lists.upfs, subs |-> {}]
      [] kind = "free5gc" ->
            [tac |-> lists.nssf.ta_list, smf |-> lists.smf.snssai_infos,
             upf |-> {a \in AllAreas : <<a, "UPF">> \in lists.smf.up_nodes}, subs |-> {}]
      [] kind = "sdcore" ->
            [tac |-> {p \in AllAreas \X lists.network_slices : lists.gnb[p[2]] = p[1]},
             smf |-> lists.device_groups, upf |-> {}, subs |-> lists.subscribers]

Computed ==
    CASE kind = "oai" -> OaiValues(config)
      [] kind = "free5gc" -> Free5gcValues(config)
      [] kind = "sdcore" -> SdcoreValues(config)

(* However the entries were added one by one, and whatever an earlier,     *)
(* possibly failed update and the chart's defaults had left, a finished    *)
(* update tells the core what Core5GValues computes from the present       *)
(* configuration, nothing less and nothing more; and each SD-Core slice    *)
(* that an area offers has a UPF that says it serves the slice.            *)
ToldAsComputed ==
    result = "filled" =>
        /\ Told = Computed
        /\ kind = "sdcore" =>
              \A s \in OfferedSlices(config) \cap config.profiles : lists.upf[s] \in get_upfs_for_slice(served, s)

(* The lists of one core agree with each other: the OAI lists of slices,   *)
(* data networks and UPF host names with the relations that use them, the  *)
(* lists of free5GC's four network functions among themselves (its slice   *)
(* instances and AMF sets numbered from 1, without a gap and never twice,  *)
(* in every update anew), and each SD-Core subscriber is once in the       *)
(* device group of each of its slices.                                     *)
ListsAgree ==
    result = "filled" =>
        CASE kind = "oai" ->
                /\ lists.hostAliases = lists.upfs /\ lists.served_guami_list = {Plmn}
                /\ lists.snssais = {p[2] : p \in lists.plmn_support_list}
                /\ lists.local_subscription_infos = lists.sNssaiSmfInfoList
                /\ lists.dnns = {p[2] : p \in lists.sNssaiSmfInfoList}
          [] kind = "free5gc" ->
                LET amf == lists.amf  smf == lists.smf  nssf == lists.nssf
                IN  /\ amf.served_guami_list = {Plmn} /\ smf.plmn_list = {Plmn} /\ nssf.supported_plmn_list = {Plmn}
                    /\ lists.ausf = {Plmn} /\ lists.default_plmn_id = Plmn
                    /\ amf.plmn_support_list = nssf.supported_nssai_in_plmn_list
                    /\ amf.plmn_support_list = {p[2] : p \in nssf.ta_list}
                    /\ amf.support_dnn_list = {p[2] : p \in smf.snssai_infos}
                    /\ {<<p[2], p[3]>> : p \in smf.dnn_upf_info_list} = smf.snssai_infos
                    /\ {p[2] : p \in nssf.nsi_list} = 1 .. Cardinality(amf.plmn_support_list)
                    /\ {<<p[3], p[1]>> : p \in nssf.amf_set_list} = nssf.nsi_list
                    /\ Cardinality(nssf.nsi_list) = Cardinality(amf.plmn_support_list)
          [] kind = "sdcore" ->
                /\ lists.network_slices = {p[1] : p \in lists.device_groups}
                /\ \A s \in Slices, u \in lists.subscribers :
                      Cardinality({i \in DOMAIN lists.imsis[s] : lists.imsis[s][i] = u})
                        = IF s \in config.subs[u] THEN 1 ELSE 0

(* free5GC, at every moment: a gNB is a node if the UPF of its area is, in *)
(* which case exactly one link joins them, and none otherwise; the slices  *)
(* and data networks of a UPF belong to a node, and its N3 interface lists *)
(* each of its data networks exactly once.                                 *)
UserPlaneConnected ==
    kind = "free5gc" =>
        /\ \A a \in AllAreas :
              /\ <<a, "gNB">> \in lists.smf.up_nodes <=> <<a, "UPF">> \in lists.smf.up_nodes
              /\ lists.smf.links[a] = IF <<a, "UPF">> \in lists.smf.up_nodes THEN 1 ELSE 0
        /\ \A p \in lists.smf.s_nssai_upf_infos : <<p[1], "UPF">> \in lists.smf.up_nodes
        /\ \A p \in lists.smf.dnn_upf_info_list : <<p[1], p[2]>> \in lists.smf.s_nssai_upf_infos
        /\ \A a \in AllAreas :
              LET n == lists.smf.network_instances[a]
              IN  /\ {n[i] : i \in DOMAIN n} = {p[3] : p \in {q \in lists.smf.dnn_upf_info_list : q[1] = a}}
                  /\ \A i, j \in DOMAIN n : n[i] = n[j] => i = j

(* An update raises exactly for the configurations the predicates of       *)
(* Core5GValues call infeasible, or when a UPF has not reported: no        *)
(* feasible configuration is refused, no infeasible one slips through.     *)
Feasible ==
    CASE kind = "oai" -> OaiFeasible(config) /\ AreasOf(config) \subseteq DOMAIN served
      [] kind = "free5gc" -> Free5gcFeasible(config) /\ AreasOf(config) \subseteq DOMAIN served
      [] kind = "sdcore" -> /\ SdcoreFeasible(config)
                            /\ \A s \in OfferedSlices(config) : get_upfs_for_slice(served, s) # {}
RefusesExactlyInfeasible ==
    /\ result = "filled" => Feasible
    /\ result = "raised" => ~Feasible
=============================================================================
