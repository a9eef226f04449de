--------------------------- MODULE CoreLists_proofs ---------------------------
(***************************************************************************)
(* What the loops of CoreLists leave in a core's values, for every         *)
(* configuration, every earlier update and every order of the lists.       *)
(*                                                                         *)
(* The loop invariant says, of a running update, which areas, slices and   *)
(* data networks have been taken (Walk, and SdWalk for SD-Core) and that   *)
(* the lists hold exactly those (OaiOf, IsFree5gc, IsSdcore).  It is kept  *)
(* by every step, so a finished update holds everything, and an update     *)
(* that raises has met something infeasible.                               *)
(***************************************************************************)
EXTENDS CoreLists, FiniteSetTheorems, TLAPS

(* The pairs of area and slice the loops have taken, when the areas in     *)
(* left and the slices sl of area a are still to come.                     *)
Taken(c, left, a, sl) == {p \in Offered(c) : p[1] \notin left /\ ~(p[1] = a /\ p[2] \in sl)}

Names(P) == {p[2] : p \in P}

(* The pairs of slice and data network, when dl are still to come for s. *)
Joined(P, s, dl) == {q \in DnnPairs(Names(P)) : ~(q[1] = s /\ q[2] \in dl)}

(* The loops of the OAI and the free5GC core. *)
Walk(c, S, left, a, sl, s, dl) ==
    LET P == Taken(c, left, a, sl)
    IN  /\ left \subseteq AreasOf(c) /\ AreasOf(c) \ left \subseteq S
        /\ \/ a = None /\ left = AreasOf(c) /\ sl = {} /\ dl = {}
           \/ a \in AreasOf(c) \ left /\ sl \subseteq c.areas[a]
        /\ dl # {} => <<a, s>> \in P /\ dl \subseteq DnnsOf[s]
        /\ \A p, q \in P : p[2] = q[2] => p[1] = q[1]
        /\ \A p \in P : p[2] \in c.profiles
        /\ \A q \in Joined(P, s, dl) : q[2] \in c.nets

-----------------------------------------------------------------------------
(* The configurations. *)

LEMMA ConfigTypes ==
    ASSUME NEW c \in Configs
    PROVE  /\ AreasOf(c) \subseteq Areas /\ \A a \in AreasOf(c) : c.areas[a] \subseteq Slices
           /\ c.profiles \subseteq Slices /\ c.nets \subseteq Dnns
           /\ DOMAIN c.subs \subseteq Ues /\ \A u \in DOMAIN c.subs : c.subs[u] \subseteq Slices
<1>1. c \in Config
  BY ListsAssumption
<1>2. PICK D \in SUBSET Areas : c.areas \in [D -> SUBSET Slices]
  BY <1>1 DEF Config, Partial
<1>3. PICK E \in SUBSET Ues : c.subs \in [E -> SUBSET Slices]
  BY <1>1 DEF Config, Partial
<1>. QED
  BY <1>1, <1>2, <1>3 DEF Config, AreasOf

LEMMA DnnsOfTypes == \A s \in Slices : DnnsOf[s] \subseteq Dnns
  BY DnnsAssumption

(* What the loops have taken: at first, after the next area, at the end. *)
LEMMA TakenArea ==
    ASSUME NEW c \in Configs, NEW left \in SUBSET AreasOf(c), NEW a \in left, NEW b
    PROVE  Taken(c, left \ {a}, a, c.areas[a]) = Taken(c, left, b, {})
  BY DEF Taken, Offered

LEMMA TakenAll ==
    ASSUME NEW c \in Configs, NEW a
    PROVE  Taken(c, {}, a, {}) = Offered(c)
  BY DEF Taken, Offered

LEMMA TakenNone ==
    ASSUME NEW c \in Configs, NEW a, NEW sl
    PROVE  Taken(c, AreasOf(c), a, sl) = {}
  BY DEF Taken, Offered

LEMMA NamesAdd ==
    ASSUME NEW P, NEW a, NEW s
    PROVE  Names(P \cup {<<a, s>>}) = Names(P) \cup {s}
<1>1. ASSUME NEW t \in Names(P \cup {<<a, s>>}) PROVE t \in Names(P) \cup {s}
  BY <1>1 DEF Names
<1>2. ASSUME NEW t \in Names(P) PROVE t \in Names(P \cup {<<a, s>>})
  BY <1>2 DEF Names
<1>3. s \in Names(P \cup {<<a, s>>})
  <2>1. <<a, s>>[2] = s
    OBVIOUS
  <2>. QED
    BY <2>1 DEF Names
<1>. QED
  BY <1>1, <1>2, <1>3

LEMMA OfferedNames ==
    ASSUME NEW c \in Configs
    PROVE  Names(Offered(c)) = OfferedSlices(c)
<1>1. ASSUME NEW s \in OfferedSlices(c) PROVE s \in Names(Offered(c))
  <2>1. PICK a \in AreasOf(c) : s \in c.areas[a]
    BY <1>1 DEF OfferedSlices
  <2>2. <<a, s>> \in Offered(c)
    BY <2>1, ConfigTypes DEF Offered
  <2>. QED
    BY <2>2 DEF Names
<1>2. ASSUME NEW s \in Names(Offered(c)) PROVE s \in OfferedSlices(c)
  BY <1>2 DEF Names, Offered, OfferedSlices
<1>. QED
  BY <1>1, <1>2

LEMMA JoinedSlice ==
    ASSUME NEW P, NEW a, NEW s, s \notin Names(P), NEW b
    PROVE  Joined(P \cup {<<a, s>>}, s, DnnsOf[s]) = Joined(P, b, {})
<1>1. Names(P \cup {<<a, s>>}) = Names(P) \cup {s}
  BY NamesAdd
<1>2. PICK N : N = Names(P)
  OBVIOUS
<1>3. {q \in DnnPairs(N \cup {s}) : ~(q[1] = s /\ q[2] \in DnnsOf[s])} = DnnPairs(N)
  BY <1>2 DEF DnnPairs
<1>. QED
  BY <1>1, <1>2, <1>3 DEF Joined

LEMMA JoinedDnn ==
    ASSUME NEW P, NEW s \in Names(P), NEW dl, NEW d \in dl, dl \subseteq DnnsOf[s], s \in Slices
    PROVE  Joined(P, s, dl \ {d}) = Joined(P, s, dl) \cup {<<s, d>>}
  BY DnnsOfTypes DEF Joined, DnnPairs

LEMMA JoinedAll ==
    ASSUME NEW P, NEW s
    PROVE  Joined(P, s, {}) = DnnPairs(Names(P))
  BY DEF Joined

-----------------------------------------------------------------------------
(* The loops of the OAI and the free5GC core keep Walk. *)

LEMMA WalkBegin ==
    ASSUME NEW c \in Configs, NEW S, NEW s
    PROVE  Walk(c, S, AreasOf(c), None, {}, s, {})
<1>1. Taken(c, AreasOf(c), None, {}) = {}
  BY TakenNone
<1>2. Joined({}, s, {}) = {}
  BY DEF Joined, DnnPairs, Names
<1>. QED
  BY <1>1, <1>2 DEF Walk

LEMMA WalkArea ==
    ASSUME NEW c \in Configs, NEW S, NEW left, NEW b, NEW s, Walk(c, S, left, b, {}, s, {}),
           NEW a \in left \cap S
    PROVE  /\ Walk(c, S, left \ {a}, a, c.areas[a], s, {})
           /\ Taken(c, left \ {a}, a, c.areas[a]) = Taken(c, left, b, {})
<1>1. Taken(c, left \ {a}, a, c.areas[a]) = Taken(c, left, b, {})
  BY TakenArea DEF Walk
<1>. QED
  BY <1>1 DEF Walk

(* A slice can be taken again only where the configuration has it twice. *)
LEMMA WalkTwice ==
    ASSUME NEW c \in Configs, NEW S, NEW left, NEW a, NEW sl, NEW s, Walk(c, S, left, a, sl, s, {}),
           NEW t \in sl, t \in Names(Taken(c, left, a, sl))
    PROVE  ~EachSliceOnce(c)
<1>1. a \in AreasOf(c) \ left /\ sl \subseteq c.areas[a]
  BY DEF Walk
<1>2. PICK p \in Taken(c, left, a, sl) : p[2] = t
  BY DEF Names
<1>3. p[1] \in AreasOf(c) /\ p[1] # a /\ t \in c.areas[p[1]]
  BY <1>2 DEF Taken, Offered
<1>. QED
  BY <1>1, <1>3 DEF EachSliceOnce

LEMMA WalkSlice ==
    ASSUME NEW c \in Configs, NEW S, NEW left, NEW a, NEW sl, NEW s, Walk(c, S, left, a, sl, s, {}),
           NEW t \in sl, t \notin Names(Taken(c, left, a, sl)), t \in c.profiles
    PROVE  LET P == Taken(c, left, a, sl)
           IN  /\ Walk(c, S, left, a, sl \ {t}, t, DnnsOf[t])
               /\ Taken(c, left, a, sl \ {t}) = P \cup {<<a, t>>}
               /\ Joined(P \cup {<<a, t>>}, t, DnnsOf[t]) = Joined(P, s, {})
<1>. DEFINE P == Taken(c, left, a, sl)
<1>1. a \in AreasOf(c) \ left /\ sl \subseteq c.areas[a]
  BY DEF Walk
<1>2. Taken(c, left, a, sl \ {t}) = P \cup {<<a, t>>}
  <2>1. a \in AreasOf(c) \ left /\ sl \in SUBSET c.areas[a] /\ t \in sl
    BY <1>1
  <2>. HIDE DEF P
  <2>2. Taken(c, left, a, sl \ {t}) = Taken(c, left, a, sl) \cup {<<a, t>>}
    BY <2>1, ConfigTypes DEF Taken, Offered
  <2>. QED
    BY <2>2 DEF P
<1>3. Joined(P \cup {<<a, t>>}, t, DnnsOf[t]) = Joined(P, s, {})
  BY JoinedSlice
<1>4. \A p \in P : p[2] # t
  BY DEF Names
<1>5. PICK N : N = P \cup {<<a, t>>}
  OBVIOUS
<1>6. \A p, q \in N : p[2] = q[2] => p[1] = q[1]
  BY <1>4, <1>5 DEF Walk
<1>7. \A p \in N : p[2] \in c.profiles
  BY <1>5 DEF Walk
<1>8. \A q \in Joined(N, t, DnnsOf[t]) : q[2] \in c.nets
  BY <1>3, <1>5 DEF Walk
<1>9. <<a, t>> \in N
  BY <1>5
<1>10. Walk(c, S, left, a, sl \ {t}, t, DnnsOf[t])
  <2>1. left \subseteq AreasOf(c) /\ AreasOf(c) \ left \subseteq S
    BY DEF Walk
  <2>. QED
    BY <2>1, <1>1, <1>2, <1>5, <1>6, <1>7, <1>8, <1>9 DEF Walk
<1>. QED
  BY <1>2, <1>3, <1>10

LEMMA WalkDnn ==
    ASSUME NEW c \in Configs, NEW S, NEW left, NEW a, NEW sl, NEW s, NEW dl, Walk(c, S, left, a, sl, s, dl),
           NEW d \in dl, d \in c.nets
    PROVE  LET P == Taken(c, left, a, sl)
           IN  /\ Walk(c, S, left, a, sl, s, dl \ {d})
               /\ Joined(P, s, dl \ {d}) = Joined(P, s, dl) \cup {<<s, d>>}
<1>. DEFINE P == Taken(c, left, a, sl)
<1>1. <<a, s>> \in P /\ dl \subseteq DnnsOf[s]
  BY DEF Walk
<1>2. s \in Names(P) /\ s \in Slices
  <2>1. <<a, s>>[2] = s
    OBVIOUS
  <2>. QED
    BY <1>1, <2>1, ConfigTypes DEF Names, Taken, Offered
<1>3. Joined(P, s, dl \ {d}) = Joined(P, s, dl) \cup {<<s, d>>}
  BY <1>1, <1>2, JoinedDnn
<1>4. \A q \in Joined(P, s, dl \ {d}) : q[2] \in c.nets
  BY <1>3 DEF Walk
<1>. QED
  BY <1>1, <1>3, <1>4 DEF Walk

(* At their end the loops have taken everything, and it was feasible. *)
LEMMA WalkEnd ==
    ASSUME NEW c \in Configs, NEW S, NEW a, NEW s, Walk(c, S, {}, a, {}, s, {})
    PROVE  /\ Taken(c, {}, a, {}) = Offered(c)
           /\ Joined(Offered(c), s, {}) = DnnPairs(OfferedSlices(c))
           /\ EachSliceOnce(c) /\ SlicesAndDnnsExist(c) /\ AreasOf(c) \subseteq S
<1>1. Taken(c, {}, a, {}) = Offered(c)
  BY TakenAll
<1>2. Joined(Offered(c), s, {}) = DnnPairs(OfferedSlices(c))
  BY JoinedAll, OfferedNames
<1>3. ASSUME NEW b1 \in AreasOf(c), NEW b2 \in AreasOf(c), b1 # b2, NEW t \in c.areas[b1] \cap c.areas[b2]
      PROVE  FALSE
  <2>1. <<b1, t>> \in Offered(c) /\ <<b2, t>> \in Offered(c)
    BY <1>3, ConfigTypes DEF Offered
  <2>. QED
    BY <1>1, <1>3, <2>1 DEF Walk
<1>4. ASSUME NEW t \in OfferedSlices(c) PROVE t \in c.profiles /\ DnnsOf[t] \subseteq c.nets
  <2>1. PICK b \in AreasOf(c) : t \in c.areas[b]
    BY <1>4 DEF OfferedSlices
  <2>2. <<b, t>> \in Offered(c) /\ t \in Slices
    BY <2>1, ConfigTypes DEF Offered
  <2>3. t \in c.profiles
    BY <1>1, <2>2 DEF Walk
  <2>4. ASSUME NEW d \in DnnsOf[t] PROVE d \in c.nets
    <3>1. <<t, d>> \in DnnPairs(OfferedSlices(c))
      BY <1>4, <2>2, <2>4, DnnsOfTypes DEF DnnPairs
    <3>. QED
      BY <1>1, <1>2, <3>1 DEF Walk
  <2>. QED
    BY <2>3, <2>4
<1>5. AreasOf(c) \subseteq S
  BY DEF Walk
<1>. QED
  BY <1>1, <1>2, <1>3, <1>4, <1>5 DEF EachSliceOnce, SlicesAndDnnsExist, get_slice, get_dnn

-----------------------------------------------------------------------------
(* OpenAirInterface: the values are a function of what has been taken, the *)
(* areas A, the pairs P of area and slice and the pairs Q of slice and     *)
(* data network.                                                           *)
OaiRecord(g, h, u, n, t, m, i, d) ==
    [served_guami_list |-> g, hostAliases |-> h, upfs |-> u, snssais |-> n,
     plmn_support_list |-> t, sNssaiSmfInfoList |-> m, local_subscription_infos |-> i, dnns |-> d]
OaiOf(A, P, Q) == OaiRecord({Plmn}, A, A, Names(P), P, Q, Q, Names(Q))

LEMMA NamesNone == Names({}) = {}
  BY DEF Names

LEMMA OaiBegin == ASSUME NEW l PROVE OaiHeader(l) = OaiOf({}, {}, {})
  BY NamesNone DEF OaiHeader, add_served_guami_list_item, OaiCleared, OaiOf, OaiRecord

LEMMA OaiAreaAdded ==
    ASSUME NEW A, NEW P, NEW Q, NEW l, l = OaiOf(A, P, Q), NEW a
    PROVE  OaiArea(l, a) = OaiOf(A \cup {a}, P, Q)
<1>1. PICK N : N = Names(P)
  OBVIOUS
<1>2. PICK D : D = Names(Q)
  OBVIOUS
<1>3. PICK m : m = add_host_aliases(l, a)
  OBVIOUS
<1>4. m = OaiRecord({Plmn}, A \cup {a}, A, N, P, Q, Q, D)
  BY <1>1, <1>2, <1>3 DEF OaiOf, OaiRecord, add_host_aliases
<1>5. add_upf(m, a) = OaiRecord({Plmn}, A \cup {a}, A \cup {a}, N, P, Q, Q, D)
  BY <1>4 DEF OaiRecord, add_upf
<1>. QED
  BY <1>1, <1>2, <1>3, <1>5 DEF OaiArea, OaiOf

LEMMA OaiSliceAdded ==
    ASSUME NEW A, NEW P, NEW Q, NEW l, l = OaiOf(A, P, Q), NEW a, NEW s
    PROVE  OaiSlice(l, a, s) = OaiOf(A, P \cup {<<a, s>>}, Q)
<1>1. Names(P \cup {<<a, s>>}) = Names(P) \cup {s}
  BY NamesAdd
<1>2. PICK N : N = Names(P)
  OBVIOUS
<1>3. PICK D : D = Names(Q)
  OBVIOUS
<1>4. PICK m : m = add_snssai(l, s)
  OBVIOUS
<1>5. m = OaiRecord({Plmn}, A, A, N \cup {s}, P, Q, Q, D)
  BY <1>2, <1>3, <1>4 DEF OaiOf, OaiRecord, add_snssai
<1>6. add_plmn(m, a, s) = OaiRecord({Plmn}, A, A, N \cup {s}, P \cup {<<a, s>>}, Q, Q, D)
  BY <1>5 DEF OaiRecord, add_plmn
<1>. QED
  BY <1>1, <1>2, <1>3, <1>4, <1>6 DEF OaiSlice, OaiOf

LEMMA OaiDnnAdded ==
    ASSUME NEW A, NEW P, NEW Q, NEW l, l = OaiOf(A, P, Q), NEW s, NEW d
    PROVE  OaiDnn(l, s, d) = OaiOf(A, P, Q \cup {<<s, d>>})
<1>1. Names(Q \cup {<<s, d>>}) = Names(Q) \cup {d}
  BY NamesAdd
<1>2. PICK N : N = Names(P)
  OBVIOUS
<1>3. PICK D : D = Names(Q)
  OBVIOUS
<1>4. PICK m : m = add_local_subscription_info(l, s, d)
  OBVIOUS
<1>5. PICK R : R = Q \cup {<<s, d>>}
  OBVIOUS
<1>6. m = OaiRecord({Plmn}, A, A, N, P, Q, R, D)
  BY <1>2, <1>3, <1>4, <1>5 DEF OaiOf, OaiRecord, add_local_subscription_info
<1>7. PICK k : k = add_dnn_dnns(m, d)
  OBVIOUS
<1>8. k = OaiRecord({Plmn}, A, A, N, P, Q, R, D \cup {d})
  BY <1>6, <1>7 DEF OaiRecord, add_dnn_dnns
<1>9. add_dnn_snssai_smf(k, s, d) = OaiRecord({Plmn}, A, A, N, P, R, R, D \cup {d})
  <2>1. add_dnn_snssai_smf(k, s, d) = [k EXCEPT !.sNssaiSmfInfoList = k.sNssaiSmfInfoList \cup {<<s, d>>}]
    BY DEF add_dnn_snssai_smf
  <2>2. k.sNssaiSmfInfoList \cup {<<s, d>>} = R
    BY <1>5, <1>8 DEF OaiRecord
  <2>3. [k EXCEPT !.sNssaiSmfInfoList = R] = OaiRecord({Plmn}, A, A, N, P, R, R, D \cup {d})
    BY <1>8 DEF OaiRecord
  <2>. QED
    BY <2>1, <2>2, <2>3
<1>. QED
  BY <1>1, <1>2, <1>3, <1>4, <1>5, <1>7, <1>9 DEF OaiDnn, OaiOf

-----------------------------------------------------------------------------
(* free5GC. *)

AmfRecord(g, t, n, d) ==
    [served_guami_list |-> g, support_tai_list |-> t, plmn_support_list |-> n, support_dnn_list |-> d]
SmfRecord(g, q, n, k, s, t, i) ==
    [plmn_list |-> g, snssai_infos |-> q, up_nodes |-> n, links |-> k,
     s_nssai_upf_infos |-> s, dnn_upf_info_list |-> t, network_instances |-> i]
NssfRecord(g, n, i, m, t) ==
    [supported_plmn_list |-> g, supported_nssai_in_plmn_list |-> n, nsi_list |-> i, amf_set_list |-> m, ta_list |-> t]
Free5gcRecord(x, y, z, u, p) == [amf |-> x, smf |-> y, nssf |-> z, ausf |-> u, default_plmn_id |-> p]

(* The SMF's lists, when T are the triples of area, slice and data network *)
(* and ni the data networks of each UPF's N3 interface.                    *)
AreasIn(T) == {t[1] : t \in T}
PairsIn(T) == {<<t[1], t[2]>> : t \in T}
NodesOf(A) == A \X {"gNB", "UPF"}
LinksOf(A) == [a \in AllAreas |-> IF a \in A THEN 1 ELSE 0]
SmfOf(Q, T, ni) == SmfRecord({Plmn}, Q, NodesOf(AreasIn(T)), LinksOf(AreasIn(T)), PairsIn(T), T, ni)

Entries(q) == {q[i] : i \in DOMAIN q}
Once(q) == \A i, j \in DOMAIN q : q[i] = q[j] => i = j
DnnsAt(T, a) == {t[3] : t \in {u \in T : u[1] = a}}

(* add_dnnupfinfolist appends to the interface of one area. *)
Extended(ni, a, d) == [ni EXCEPT ![a] = Append(@, d)]

(* Each data network of a UPF is in its interface, once. *)
Interfaces(T, ni) ==
    /\ ni \in [AllAreas -> Seq(AllDnns)]
    /\ \A a \in AllAreas : Entries(ni[a]) = DnnsAt(T, a) /\ Once(ni[a])

(* The triples belong to the pairs that have been taken. *)
Triples(P, Q) == {t \in Areas \X Slices \X Dnns : <<t[1], t[2]>> \in P /\ <<t[2], t[3]>> \in Q}

LEMMA AppendOnce ==
    ASSUME NEW S, NEW q \in Seq(S), NEW d \in S, d \notin Entries(q), Once(q)
    PROVE  /\ Append(q, d) \in Seq(S)
           /\ Entries(Append(q, d)) = Entries(q) \cup {d} /\ Once(Append(q, d))
<1>1. Append(q, d) \in Seq(S) /\ Len(Append(q, d)) = Len(q) + 1 /\ Len(q) \in Nat
  OBVIOUS
<1>2. DOMAIN Append(q, d) = 1 .. Len(q) + 1 /\ DOMAIN q = 1 .. Len(q)
  BY <1>1
<1>3. \A i \in 1 .. Len(q) : Append(q, d)[i] = q[i]
  OBVIOUS
<1>4. Append(q, d)[Len(q) + 1] = d
  OBVIOUS
<1>. PICK r, n : r = Append(q, d) /\ n = Len(q)
  OBVIOUS
<1>5. n \in Nat /\ DOMAIN r = 1 .. n + 1 /\ DOMAIN q = 1 .. n /\ r[n + 1] = d /\ \A i \in 1 .. n : r[i] = q[i]
  BY <1>1, <1>2, <1>3, <1>4
<1>6. \A i \in 1 .. n + 1 : i = n + 1 \/ i \in 1 .. n
  BY <1>5
<1>7. Entries(r) = Entries(q) \cup {d}
  BY <1>5, <1>6 DEF Entries
<1>8. Once(r)
  BY <1>5, <1>6 DEF Entries, Once
<1>. QED
  BY <1>1, <1>7, <1>8

LEMMA TripleAdded ==
    ASSUME NEW T, NEW e
    PROVE  /\ AreasIn(T \cup {e}) = AreasIn(T) \cup {e[1]}
           /\ PairsIn(T \cup {e}) = PairsIn(T) \cup {<<e[1], e[2]>>}
  BY DEF AreasIn, PairsIn

LEMMA AreaAdded ==
    ASSUME NEW A, NEW a
    PROVE  /\ NodesOf(A) \cup {<<a, "UPF">>} \cup {<<a, "gNB">>} = NodesOf(A \cup {a})
           /\ <<a, "UPF">> \in NodesOf(A) <=> a \in A
           /\ <<a, "gNB">> \in NodesOf(A) <=> a \in A
  BY DEF NodesOf

LEMMA LinkAdded ==
    ASSUME NEW A, NEW a \in AllAreas, a \notin A
    PROVE  [LinksOf(A) EXCEPT ![a] = @ + 1] = LinksOf(A \cup {a})
<1>1. PICK K : K = LinksOf(A)
  OBVIOUS
<1>2. K = [b \in AllAreas |-> IF b \in A THEN 1 ELSE 0] /\ K[a] = 0
  BY <1>1 DEF LinksOf
<1>3. [K EXCEPT ![a] = @ + 1] = [b \in AllAreas |-> IF b \in A \cup {a} THEN 1 ELSE 0]
  BY <1>2
<1>. QED
  BY <1>1, <1>3 DEF LinksOf

LEMMA PairHasArea ==
    ASSUME NEW T, NEW a, NEW s, <<a, s>> \in PairsIn(T)
    PROVE  a \in AreasIn(T)
<1>1. PICK t \in T : <<a, s>> = <<t[1], t[2]>>
  BY DEF PairsIn
<1>2. a = t[1]
  BY <1>1
<1>. QED
  BY <1>2 DEF AreasIn

(* The values, when the SMF has the UPFs of the areas A and the entries B. *)
WithUpfs(x, z, u, p, Q, A, B, T, ni) ==
    Free5gcRecord(x, SmfRecord({Plmn}, Q, NodesOf(A), LinksOf(A), B, T, ni), z, u, p)

(* The slice's entry, and its area's nodes and link when they are new. *)
LEMMA SliceOfUpf ==
    ASSUME NEW x, NEW z, NEW u, NEW p, NEW Q, NEW A, NEW B, NEW T, NEW ni, NEW a, NEW s, NEW l,
           NEW D, NEW E, a \in AllAreas, l = WithUpfs(x, z, u, p, Q, A, B, T, ni), D = A \cup {a}, E = B \cup {<<a, s>>}
    PROVE  add_snssaiupfinfos_smf(l, a, s) = WithUpfs(x, z, u, p, Q, D, E, T, ni)
<1>. USE DEF WithUpfs
<1>. DEFINE upf == <<a, "UPF">>
            gnb == <<a, "gNB">>
<1>1. CASE a \in A
  <2>1. A \cup {a} = A
    BY <1>1
  <2>2. l.smf.up_nodes = NodesOf(A)
    BY DEF Free5gcRecord, SmfRecord
  <2>3. upf \in l.smf.up_nodes
    BY <1>1, <2>2, AreaAdded
  <2>4. add_snssaiupfinfos_smf(l, a, s) = [l EXCEPT !.smf.s_nssai_upf_infos = @ \cup {<<a, s>>}]
    BY <2>3 DEF add_snssaiupfinfos_smf
  <2>. QED
    BY <2>1, <2>4 DEF Free5gcRecord, SmfRecord
<1>2. CASE a \notin A
  <2>. PICK N, K : N = NodesOf(A) /\ K = LinksOf(A)
    OBVIOUS
  <2>1. upf \notin N
    BY <1>2, AreaAdded
  <2>2. PICK l1 : l1 = add_upf_smf(l, a)
    OBVIOUS
  <2>3. l1 = Free5gcRecord(x, SmfRecord({Plmn}, Q, N \cup {upf}, K, B, T, ni), z, u, p)
    BY <2>2 DEF add_upf_smf, Free5gcRecord, SmfRecord
  <2>4. PICK l2 : l2 = add_gnb_smf(l1, a)
    OBVIOUS
  <2>5. l2 = Free5gcRecord(x, SmfRecord({Plmn}, Q, N \cup {upf} \cup {gnb}, K, B, T, ni), z, u, p)
    BY <2>3, <2>4 DEF add_gnb_smf, Free5gcRecord, SmfRecord
  <2>6. PICK l3 : l3 = add_link_smf(l2, a)
    OBVIOUS
  <2>7. PICK N2, K2 : N2 = N \cup {upf} \cup {gnb} /\ K2 = [K EXCEPT ![a] = @ + 1]
    OBVIOUS
  <2>8. PICK y : y = l2.smf
    OBVIOUS
  <2>9. /\ y = SmfRecord({Plmn}, Q, N2, K, B, T, ni) /\ y.links = K
        /\ l2 = Free5gcRecord(x, y, z, u, p)
    BY <2>5, <2>7, <2>8 DEF Free5gcRecord, SmfRecord
  <2>10. l3 = Free5gcRecord(x, SmfRecord({Plmn}, Q, N2, K2, B, T, ni), z, u, p)
    <3>1. l3 = [l2 EXCEPT !.smf = [l2.smf EXCEPT !.links = [l2.smf.links EXCEPT ![a] = @ + 1]]]
      BY <2>6 DEF add_link_smf
    <3>2. [y EXCEPT !.links = K2] = SmfRecord({Plmn}, Q, N2, K2, B, T, ni)
      BY ONLY <2>9 DEF SmfRecord
    <3>3. PICK w : w = SmfRecord({Plmn}, Q, N2, K2, B, T, ni)
      OBVIOUS
    <3>4. l3 = [l2 EXCEPT !.smf = w]
      BY <2>7, <2>8, <2>9, <3>1, <3>2, <3>3
    <3>5. [l2 EXCEPT !.smf = w] = Free5gcRecord(x, w, z, u, p)
      BY ONLY <2>9 DEF Free5gcRecord
    <3>. QED
      BY <3>3, <3>4, <3>5
  <2>11. l.smf.up_nodes = N
    BY DEF Free5gcRecord, SmfRecord
  <2>12. add_snssaiupfinfos_smf(l, a, s) = [l3 EXCEPT !.smf.s_nssai_upf_infos = @ \cup {<<a, s>>}]
    BY <2>1, <2>2, <2>4, <2>6, <2>11 DEF add_snssaiupfinfos_smf
  <2>13. N2 = NodesOf(A \cup {a}) /\ K2 = LinksOf(A \cup {a})
    BY <1>2, <2>7, AreaAdded, LinkAdded
  <2>14. PICK C : C = B \cup {<<a, s>>}
    OBVIOUS
  <2>15. [l3 EXCEPT !.smf.s_nssai_upf_infos = @ \cup {<<a, s>>}] = Free5gcRecord(x, SmfRecord({Plmn}, Q, N2, K2, C, T, ni), z, u, p)
    BY ONLY <2>10, <2>14 DEF Free5gcRecord, SmfRecord
  <2>. QED
    BY <2>12, <2>13, <2>14, <2>15
<1>. QED
  BY <1>1, <1>2

(* The data network's entry and its place in the interface. *)
LEMMA DnnOfUpf ==
    ASSUME NEW x, NEW z, NEW u, NEW p, NEW Q, NEW T, NEW ni, NEW a \in AllAreas, NEW s, NEW d, NEW l,
           NEW e, NEW nj, NEW U,
           l = Free5gcRecord(x, SmfOf(Q, T, ni), z, u, p), e = <<a, s, d>>, e \notin T,
           nj = Extended(ni, a, d), U = T \cup {e}
    PROVE  add_dnnupfinfolist(l, a, s, d) = Free5gcRecord(x, SmfOf(Q, U, nj), z, u, p)
<1>. DEFINE n == IF <<a, s>> \in l.smf.s_nssai_upf_infos THEN l ELSE add_snssaiupfinfos_smf(l, a, s)
<1>0. PICK A, B : A = AreasIn(T) /\ B = PairsIn(T)
  OBVIOUS
<1>1. AreasIn(U) = A \cup {a} /\ PairsIn(U) = B \cup {<<a, s>>}
  <2>1. e[1] = a /\ e[2] = s
    OBVIOUS
  <2>. QED
    BY <1>0, <2>1, TripleAdded
<1>2. l.smf.s_nssai_upf_infos = B
  BY <1>0 DEF SmfOf, SmfRecord, Free5gcRecord
<1>3. n = Free5gcRecord(x, SmfRecord({Plmn}, Q, NodesOf(A \cup {a}), LinksOf(A \cup {a}), B \cup {<<a, s>>}, T, ni), z, u, p)
  <2>1. CASE <<a, s>> \in B
    <3>1. a \in A
      BY <1>0, <2>1, PairHasArea
    <3>2. A \cup {a} = A /\ B \cup {<<a, s>>} = B
      BY <2>1, <3>1
    <3>3. n = l
      BY <1>2, <2>1
    <3>. QED
      BY <1>0, <3>2, <3>3 DEF SmfOf
  <2>2. CASE <<a, s>> \notin B
    <3>1. n = add_snssaiupfinfos_smf(l, a, s)
      BY <1>2, <2>2
    <3>2. l = Free5gcRecord(x, SmfRecord({Plmn}, Q, NodesOf(A), LinksOf(A), B, T, ni), z, u, p)
      BY <1>0 DEF SmfOf
    <3>. QED
      <4>1. PICK D, E : D = A \cup {a} /\ E = B \cup {<<a, s>>}
        OBVIOUS
      <4>2. l = WithUpfs(x, z, u, p, Q, A, B, T, ni)
        BY <3>2 DEF WithUpfs
      <4>3. add_snssaiupfinfos_smf(l, a, s) = WithUpfs(x, z, u, p, Q, D, E, T, ni)
        BY <4>1, <4>2, SliceOfUpf
      <4>. QED
        BY <3>1, <4>1, <4>3 DEF WithUpfs
  <2>. QED
    BY <2>1, <2>2
<1>4. PICK m, N, K, C : m = n /\ N = NodesOf(A \cup {a}) /\ K = LinksOf(A \cup {a}) /\ C = B \cup {<<a, s>>}
  OBVIOUS
<1>5. m = Free5gcRecord(x, SmfRecord({Plmn}, Q, N, K, C, T, ni), z, u, p)
  BY <1>3, <1>4
<1>6. m.smf.dnn_upf_info_list = T
  BY <1>5 DEF Free5gcRecord, SmfRecord
<1>7. add_dnnupfinfolist(l, a, s, d) =
        [m EXCEPT !.smf.dnn_upf_info_list = @ \cup {e}, !.smf.network_instances[a] = Append(@, d)]
  BY <1>4, <1>6 DEF add_dnnupfinfolist
<1>8. [m EXCEPT !.smf.dnn_upf_info_list = @ \cup {e}, !.smf.network_instances[a] = Append(@, d)]
        = Free5gcRecord(x, SmfRecord({Plmn}, Q, N, K, C, U, nj), z, u, p)
  <2>1. PICK k : k = [m EXCEPT !.smf.dnn_upf_info_list = @ \cup {e}]
    OBVIOUS
  <2>2. k = Free5gcRecord(x, SmfRecord({Plmn}, Q, N, K, C, T \cup {e}, ni), z, u, p)
    BY <1>5, <2>1 DEF Free5gcRecord, SmfRecord
  <2>3. [m EXCEPT !.smf.dnn_upf_info_list = @ \cup {e}, !.smf.network_instances[a] = Append(@, d)]
          = [k EXCEPT !.smf.network_instances[a] = Append(@, d)]
    BY <2>1
  <2>4. [k EXCEPT !.smf.network_instances[a] = Append(@, d)]
          = [k EXCEPT !.smf = [k.smf EXCEPT !.network_instances[a] = Append(@, d)]]
    OBVIOUS
  <2>5. [k.smf EXCEPT !.network_instances[a] = Append(@, d)]
          = [k.smf EXCEPT !.network_instances = [k.smf.network_instances EXCEPT ![a] = Append(@, d)]]
    OBVIOUS
  <2>6. PICK y : y = k.smf
    OBVIOUS
  <2>7. y = SmfRecord({Plmn}, Q, N, K, C, U, ni) /\ y.network_instances = ni
    BY <2>2, <2>6 DEF Free5gcRecord, SmfRecord
  <2>8. [y EXCEPT !.network_instances = nj] = SmfRecord({Plmn}, Q, N, K, C, U, nj)
    BY ONLY <2>7 DEF SmfRecord
  <2>9. PICK w : w = SmfRecord({Plmn}, Q, N, K, C, U, nj)
    OBVIOUS
  <2>10. [k EXCEPT !.smf.network_instances[a] = Append(@, d)] = [k EXCEPT !.smf = w]
    BY <2>4, <2>5, <2>6, <2>7, <2>8, <2>9 DEF Extended
  <2>11. [k EXCEPT !.smf = w] = Free5gcRecord(x, w, z, u, p)
    BY <2>2 DEF Free5gcRecord
  <2>. QED
    BY <2>3, <2>6, <2>9, <2>10, <2>11
<1>. QED
  BY <1>0, <1>1, <1>4, <1>7, <1>8 DEF SmfOf

LEMMA InterfaceAdded ==
    ASSUME NEW T, NEW ni, Interfaces(T, ni), NEW a \in AllAreas, NEW d \in AllDnns, NEW e, e[1] = a, e[3] = d,
           \A t \in T : t[1] = a => t[3] # d
    PROVE  Interfaces(T \cup {e}, Extended(ni, a, d))
<1>1. PICK q, r, U, nj : q = ni[a] /\ r = Append(q, d) /\ U = T \cup {e} /\ nj = [ni EXCEPT ![a] = r]
  OBVIOUS
<1>2. ni \in [AllAreas -> Seq(AllDnns)] /\ q \in Seq(AllDnns)
  BY <1>1 DEF Interfaces
<1>3. Entries(q) = DnnsAt(T, a) /\ Once(q)
  BY <1>1 DEF Interfaces
<1>4. d \notin DnnsAt(T, a)
  BY DEF DnnsAt
<1>5. r \in Seq(AllDnns) /\ Entries(r) = Entries(q) \cup {d} /\ Once(r)
  BY <1>1, <1>2, <1>3, <1>4, AppendOnce
<1>6. nj \in [AllAreas -> Seq(AllDnns)] /\ nj[a] = r /\ \A b \in AllAreas : b # a => nj[b] = ni[b]
  BY <1>1, <1>2, <1>5
<1>7. DnnsAt(U, a) = DnnsAt(T, a) \cup {d}
  BY <1>1 DEF DnnsAt
<1>8. \A b \in AllAreas : b # a => DnnsAt(U, b) = DnnsAt(T, b)
  BY <1>1 DEF DnnsAt
<1>9. ASSUME NEW b \in AllAreas PROVE Entries(nj[b]) = DnnsAt(U, b) /\ Once(nj[b])
  BY <1>3, <1>5, <1>6, <1>7, <1>8 DEF Interfaces
<1>10. Interfaces(U, nj)
  BY <1>6, <1>9 DEF Interfaces
<1>. QED
  BY <1>1, <1>10 DEF Extended

(* The slices S are numbered 1, 2, ... id - 1 in the NSSF's slice          *)
(* instances N and AMF sets M.                                             *)
Numbered(N, M, S, id) ==
    /\ id \in Nat \ {0} /\ N \subseteq Slices \X Nat /\ M \subseteq Nat \X Areas \X Slices
    /\ IsFiniteSet(N) /\ Cardinality(N) = id - 1 /\ IsFiniteSet(S) /\ Cardinality(S) = id - 1
    /\ {n[1] : n \in N} = S /\ {n[2] : n \in N} = 1 .. id - 1 /\ {<<m[3], m[1]>> : m \in M} = N

LEMMA NumberedNone == Numbered({}, {}, {}, 1)
<1>1. IsFiniteSet({}) /\ Cardinality({}) = 0
  BY FS_EmptySet
<1>. QED
  BY <1>1 DEF Numbered

LEMMA NumberAdded ==
    ASSUME NEW N, NEW M, NEW S, NEW id, Numbered(N, M, S, id), NEW a \in Areas, NEW s \in Slices \ S,
           NEW n, n = <<s, id>>, NEW m, m = <<id, a, s>>
    PROVE  Numbered(N \cup {n}, M \cup {m}, S \cup {s}, id + 1)
<1>1. id \in Nat \ {0} /\ (id + 1) - 1 = id /\ id + 1 \in Nat \ {0}
  BY DEF Numbered
<1>2. n[1] = s /\ n[2] = id /\ m[1] = id /\ m[3] = s /\ n \in Slices \X Nat /\ m \in Nat \X Areas \X Slices
  BY <1>1
<1>3. n \notin N
  BY <1>2 DEF Numbered
<1>4. IsFiniteSet(N \cup {n}) /\ Cardinality(N \cup {n}) = id
  <2>1. IsFiniteSet(N) /\ Cardinality(N) = id - 1
    BY DEF Numbered
  <2>2. IsFiniteSet(N \cup {n}) /\ Cardinality(N \cup {n}) = Cardinality(N) + 1
    BY <1>3, <2>1, FS_AddElement
  <2>. QED
    BY <1>1, <2>1, <2>2
<1>5. IsFiniteSet(S \cup {s}) /\ Cardinality(S \cup {s}) = id
  <2>1. IsFiniteSet(S) /\ Cardinality(S) = id - 1
    BY DEF Numbered
  <2>2. IsFiniteSet(S \cup {s}) /\ Cardinality(S \cup {s}) = Cardinality(S) + 1
    BY <2>1, FS_AddElement
  <2>. QED
    BY <1>1, <2>1, <2>2
<1>6. {e[1] : e \in N \cup {n}} = S \cup {s}
  BY <1>2 DEF Numbered
<1>7. {e[2] : e \in N \cup {n}} = 1 .. id
  <2>1. {e[2] : e \in N \cup {n}} = {e[2] : e \in N} \cup {id}
    BY <1>2
  <2>2. {e[2] : e \in N} = 1 .. id - 1
    BY DEF Numbered
  <2>3. (1 .. id - 1) \cup {id} = 1 .. id
    BY <1>1
  <2>. QED
    BY <2>1, <2>2, <2>3
<1>8. {<<e[3], e[1]>> : e \in M \cup {m}} = N \cup {n}
  <2>1. {<<e[3], e[1]>> : e \in M} = N
    BY DEF Numbered
  <2>2. <<m[3], m[1]>> = n
    BY <1>2
  <2>3. {<<e[3], e[1]>> : e \in M \cup {m}} = {<<e[3], e[1]>> : e \in M} \cup {<<m[3], m[1]>>}
    OBVIOUS
  <2>. QED
    BY <2>1, <2>2, <2>3
<1>9. N \cup {n} \subseteq Slices \X Nat /\ M \cup {m} \subseteq Nat \X Areas \X Slices
  BY <1>2 DEF Numbered
<1>. QED
  BY <1>1, <1>4, <1>5, <1>6, <1>7, <1>8, <1>9 DEF Numbered

LEMMA TriplesSlice ==
    ASSUME NEW P, NEW Q, NEW b, \A q \in Q : q[1] # b[2], NEW R, R = P \cup {b}
    PROVE  Triples(R, Q) = Triples(P, Q)
<1>1. ASSUME NEW t \in Areas \X Slices \X Dnns, <<t[1], t[2]>> \in R, <<t[2], t[3]>> \in Q
      PROVE  <<t[1], t[2]>> \in P
  <2>1. <<t[2], t[3]>>[1] = t[2] /\ <<t[1], t[2]>>[2] = t[2]
    OBVIOUS
  <2>2. <<t[1], t[2]>> # b
    BY <1>1, <2>1
  <2>. QED
    BY <1>1, <2>2
<1>. QED
  BY <1>1 DEF Triples

LEMMA TriplesDnn ==
    ASSUME NEW P, NEW Q, NEW a \in Areas, NEW s \in Slices, NEW d \in Dnns, <<a, s>> \in P,
           \A p \in P : p[2] = s => p[1] = a, NEW e, e = <<a, s, d>>
    PROVE  Triples(P, Q \cup {<<s, d>>}) = Triples(P, Q) \cup {e}
<1>1. e \in Triples(P, Q \cup {<<s, d>>})
  <2>1. e \in Areas \X Slices \X Dnns /\ e[1] = a /\ e[2] = s /\ e[3] = d
    OBVIOUS
  <2>. QED
    BY <2>1 DEF Triples
<1>2. ASSUME NEW t \in Triples(P, Q \cup {<<s, d>>}), t # e PROVE t \in Triples(P, Q)
  <2>1. t \in Areas \X Slices \X Dnns /\ <<t[1], t[2]>> \in P /\ <<t[2], t[3]>> \in Q \cup {<<s, d>>}
    BY <1>2 DEF Triples
  <2>2. t = <<t[1], t[2], t[3]>>
    BY <2>1
  <2>3. CASE <<t[2], t[3]>> = <<s, d>>
    <3>1. t[2] = s /\ t[3] = d
      BY <2>3
    <3>2. PICK p : p = <<t[1], t[2]>>
      OBVIOUS
    <3>3. p \in P /\ p[1] = t[1] /\ p[2] = s
      BY <2>1, <3>1, <3>2
    <3>4. t[1] = a
      BY <3>3
    <3>. QED
      BY <1>2, <2>2, <3>1, <3>4
  <2>4. CASE <<t[2], t[3]>> \in Q
    BY <2>1, <2>4 DEF Triples
  <2>. QED
    BY <2>1, <2>3, <2>4
<1>3. ASSUME NEW t \in Triples(P, Q) PROVE t \in Triples(P, Q \cup {<<s, d>>})
  BY <1>3 DEF Triples
<1>. QED
  BY <1>1, <1>2, <1>3

(* The values of a free5GC core, from what has been taken. *)
IsFree5gc(l, A, P, Q, id) ==
    \E N, M, ni :
       /\ l = Free5gcRecord(AmfRecord({Plmn}, A, Names(P), Names(Q)), SmfOf(Q, Triples(P, Q), ni),
                            NssfRecord({Plmn}, Names(P), N, M, P), {Plmn}, Plmn)
       /\ Interfaces(Triples(P, Q), ni) /\ Numbered(N, M, Names(P), id)

LEMMA Free5gcAreaAdded ==
    ASSUME NEW A, NEW P, NEW Q, NEW id, NEW l, IsFree5gc(l, A, P, Q, id), NEW a
    PROVE  IsFree5gc(add_item_amf_supportTaiList(l, a), A \cup {a}, P, Q, id)
<1>1. PICK N, M, ni :
       /\ l = Free5gcRecord(AmfRecord({Plmn}, A, Names(P), Names(Q)), SmfOf(Q, Triples(P, Q), ni),
                            NssfRecord({Plmn}, Names(P), N, M, P), {Plmn}, Plmn)
       /\ Interfaces(Triples(P, Q), ni) /\ Numbered(N, M, Names(P), id)
  BY DEF IsFree5gc
<1>2. PICK y, z, n, d : y = SmfOf(Q, Triples(P, Q), ni) /\ z = NssfRecord({Plmn}, Names(P), N, M, P)
                        /\ n = Names(P) /\ d = Names(Q)
  OBVIOUS
<1>3. l = Free5gcRecord(AmfRecord({Plmn}, A, n, d), y, z, {Plmn}, Plmn)
  BY <1>1, <1>2
<1>4. add_item_amf_supportTaiList(l, a) = Free5gcRecord(AmfRecord({Plmn}, A \cup {a}, n, d), y, z, {Plmn}, Plmn)
  BY ONLY <1>3 DEF add_item_amf_supportTaiList, Free5gcRecord, AmfRecord
<1>. QED
  BY <1>1, <1>2, <1>4 DEF IsFree5gc

LEMMA Free5gcSliceAdded ==
    ASSUME NEW A, NEW P, NEW Q, NEW id, NEW l, IsFree5gc(l, A, P, Q, id), NEW a \in Areas, NEW s \in Slices,
           s \notin Names(P), \A q \in Q : q[1] # s
    PROVE  IsFree5gc(Free5gcSlice(l, a, s, id), A, P \cup {<<a, s>>}, Q, id + 1)
<1>1. PICK N, M, ni :
       /\ l = Free5gcRecord(AmfRecord({Plmn}, A, Names(P), Names(Q)), SmfOf(Q, Triples(P, Q), ni),
                            NssfRecord({Plmn}, Names(P), N, M, P), {Plmn}, Plmn)
       /\ Interfaces(Triples(P, Q), ni) /\ Numbered(N, M, Names(P), id)
  BY DEF IsFree5gc
<1>2. PICK y, n, d : y = SmfOf(Q, Triples(P, Q), ni) /\ n = Names(P) /\ d = Names(Q)
  OBVIOUS
<1>3. PICK b, i, m : b = <<a, s>> /\ i = <<s, id>> /\ m = <<id, a, s>>
  OBVIOUS
<1>4. PICK l1 : l1 = add_plmn_amf_item(l, s)
  OBVIOUS
<1>5. l1 = Free5gcRecord(AmfRecord({Plmn}, A, n \cup {s}, d), y, NssfRecord({Plmn}, n, N, M, P), {Plmn}, Plmn)
  BY <1>1, <1>2, <1>4 DEF add_plmn_amf_item, Free5gcRecord, AmfRecord
<1>6. PICK x, k : x = AmfRecord({Plmn}, A, n \cup {s}, d) /\ k = n \cup {s}
  OBVIOUS
<1>7. PICK l2 : l2 = add_supportedsnssailist_item_nssf(l1, s)
  OBVIOUS
<1>8. l2 = Free5gcRecord(x, y, NssfRecord({Plmn}, k, N, M, P), {Plmn}, Plmn)
  BY <1>5, <1>6, <1>7 DEF add_supportedsnssailist_item_nssf, Free5gcRecord, NssfRecord
<1>9. PICK l3 : l3 = add_nsi_list_item_nssf(l2, s, id)
  OBVIOUS
<1>10. l3 = Free5gcRecord(x, y, NssfRecord({Plmn}, k, N \cup {i}, M, P), {Plmn}, Plmn)
  <2>1. l2.nssf.nsi_list = N
    BY <1>8 DEF Free5gcRecord, NssfRecord
  <2>2. \A e \in N : e[1] # s
    BY <1>1 DEF Numbered
  <2>3. l3 = [l2 EXCEPT !.nssf.nsi_list = @ \cup {i}]
    BY <1>3, <1>9, <2>1, <2>2 DEF add_nsi_list_item_nssf
  <2>. QED
    BY <1>8, <2>3 DEF Free5gcRecord, NssfRecord
<1>11. PICK l4 : l4 = add_supported_nssai_nssf(l3, id, a, s)
  OBVIOUS
<1>12. PICK V, W : V = N \cup {i} /\ W = M \cup {m}
  OBVIOUS
<1>13. l4 = Free5gcRecord(x, y, NssfRecord({Plmn}, k, V, W, P), {Plmn}, Plmn)
  <2>1. l4 = [l3 EXCEPT !.nssf.amf_set_list = @ \cup {m}]
    BY <1>3, <1>11 DEF add_supported_nssai_nssf
  <2>. QED
    BY <1>10, <1>12, <2>1 DEF Free5gcRecord, NssfRecord
<1>14. PICK R, l5 : R = P \cup {b} /\ l5 = add_tai_supportedsnssailist_nssf_item(l4, a, s)
  OBVIOUS
<1>15. l5 = Free5gcRecord(x, y, NssfRecord({Plmn}, k, V, W, R), {Plmn}, Plmn)
  <2>1. l5 = [l4 EXCEPT !.nssf.ta_list = @ \cup {b}]
    BY <1>3, <1>14 DEF add_tai_supportedsnssailist_nssf_item
  <2>. QED
    BY <1>13, <1>14, <2>1 DEF Free5gcRecord, NssfRecord
<1>16. l5 = Free5gcSlice(l, a, s, id)
  BY <1>4, <1>7, <1>9, <1>11, <1>14 DEF Free5gcSlice
<1>17. Triples(R, Q) = Triples(P, Q)
  <2>1. R = P \cup {b} /\ \A q \in Q : q[1] # b[2]
    BY <1>3, <1>14
  <2>. QED
    BY ONLY <2>1, TriplesSlice
<1>18. Names(R) = k
  BY <1>2, <1>3, <1>6, <1>14, NamesAdd
<1>19. Numbered(V, W, k, id + 1)
  BY <1>1, <1>2, <1>3, <1>6, <1>12, NumberAdded
<1>20. IsFree5gc(l5, A, R, Q, id + 1)
  <2>1. /\ l5 = Free5gcRecord(AmfRecord({Plmn}, A, Names(R), Names(Q)), SmfOf(Q, Triples(R, Q), ni),
                            NssfRecord({Plmn}, Names(R), V, W, R), {Plmn}, Plmn)
        /\ Interfaces(Triples(R, Q), ni) /\ Numbered(V, W, Names(R), id + 1)
    BY <1>1, <1>2, <1>6, <1>15, <1>17, <1>18, <1>19
  <2>. QED
    BY <2>1 DEF IsFree5gc
<1>. QED
  BY <1>3, <1>14, <1>16, <1>20

(* A data network of one slice is in no other slice of the profiles, so it *)
(* is new for the interface of the area's UPF.                             *)
LEMMA Free5gcDnnAdded ==
    ASSUME NEW A, NEW P, NEW Q, NEW id, NEW l, IsFree5gc(l, A, P, Q, id), NEW c \in Configs,
           NEW a \in Areas, NEW s \in Slices, <<a, s>> \in P, NEW d \in DnnsOf[s], <<s, d>> \notin Q,
           \A p, q \in P : p[2] = q[2] => p[1] = q[1], \A p \in P : p[2] \in c.profiles,
           Q \subseteq DnnPairs(Names(P))
    PROVE  IsFree5gc(Free5gcDnn(l, a, s, d), A, P, Q \cup {<<s, d>>}, id)
<1>1. PICK N, M, ni :
       /\ l = Free5gcRecord(AmfRecord({Plmn}, A, Names(P), Names(Q)), SmfOf(Q, Triples(P, Q), ni),
                            NssfRecord({Plmn}, Names(P), N, M, P), {Plmn}, Plmn)
       /\ Interfaces(Triples(P, Q), ni) /\ Numbered(N, M, Names(P), id)
  BY DEF IsFree5gc
<1>2. PICK T, z, n, k : T = Triples(P, Q) /\ z = NssfRecord({Plmn}, Names(P), N, M, P) /\ n = Names(P) /\ k = Names(Q)
  OBVIOUS
<1>3. PICK b, e, R : b = <<s, d>> /\ e = <<a, s, d>> /\ R = Q \cup {b}
  OBVIOUS
<1>4. d \in Dnns
  BY DnnsOfTypes
<1>5. PICK l1 : l1 = add_dnn_amf_item(l, d)
  OBVIOUS
<1>6. l1 = Free5gcRecord(AmfRecord({Plmn}, A, n, k \cup {d}), SmfOf(Q, T, ni), z, {Plmn}, Plmn)
  BY <1>1, <1>2, <1>5 DEF add_dnn_amf_item, Free5gcRecord, AmfRecord
<1>7. PICK x, l2 : x = AmfRecord({Plmn}, A, n, k \cup {d}) /\ l2 = add_dnn_info_smf(l1, s, d)
  OBVIOUS
<1>8. l2 = Free5gcRecord(x, SmfOf(R, T, ni), z, {Plmn}, Plmn)
  <2>1. l2 = [l1 EXCEPT !.smf.snssai_infos = @ \cup {b}]
    BY <1>3, <1>7 DEF add_dnn_info_smf
  <2>2. PICK v, w, i : v = NodesOf(AreasIn(T)) /\ w = LinksOf(AreasIn(T)) /\ i = PairsIn(T)
    OBVIOUS
  <2>3. l1 = Free5gcRecord(x, SmfRecord({Plmn}, Q, v, w, i, T, ni), z, {Plmn}, Plmn)
    BY <1>6, <1>7, <2>2 DEF SmfOf
  <2>4. l2 = Free5gcRecord(x, SmfRecord({Plmn}, R, v, w, i, T, ni), z, {Plmn}, Plmn)
    BY ONLY <1>3, <2>1, <2>3 DEF Free5gcRecord, SmfRecord
  <2>. QED
    BY <2>2, <2>4 DEF SmfOf
<1>9. \A t \in T : t[1] = a => t[3] # d
  <2>1. SUFFICES ASSUME NEW t \in T, t[1] = a, t[3] = d PROVE FALSE
    OBVIOUS
  <2>2. t \in Areas \X Slices \X Dnns /\ <<t[2], d>> \in Q
    BY <1>2, <2>1 DEF Triples
  <2>3. t[2] \in Names(P) /\ d \in DnnsOf[t[2]]
    BY <2>2 DEF DnnPairs
  <2>4. t[2] \in c.profiles
    BY <2>3 DEF Names
  <2>5. s \in c.profiles
    <3>1. <<a, s>>[2] = s
      OBVIOUS
    <3>. QED
      BY <3>1
  <2>6. configuration_feasibility_check(c)
    BY ListsAssumption
  <2>7. t[2] = s
    BY <2>3, <2>4, <2>5, <2>6 DEF configuration_feasibility_check
  <2>. QED
    BY <2>2, <2>7
<1>10. e \notin T /\ e[1] = a /\ e[3] = d
  BY <1>3, <1>9
<1>11. PICK U, nj : U = T \cup {e} /\ nj = Extended(ni, a, d)
  OBVIOUS
<1>12. add_dnnupfinfolist(l2, a, s, d) = Free5gcRecord(x, SmfOf(R, U, nj), z, {Plmn}, Plmn)
  <2>1. a \in AllAreas
    BY DEF AllAreas
  <2>. QED
    BY ONLY <2>1, <1>3, <1>8, <1>10, <1>11, DnnOfUpf
<1>13. Interfaces(U, nj)
  <2>1. a \in AllAreas /\ d \in AllDnns
    BY <1>4 DEF AllAreas, AllDnns
  <2>2. Interfaces(T, ni)
    BY <1>1, <1>2
  <2>. QED
    BY ONLY <2>1, <2>2, <1>9, <1>10, <1>11, InterfaceAdded
<1>14. Triples(P, R) = U
  <2>1. \A p \in P : p[2] = s => p[1] = a
    <3>1. <<a, s>>[2] = s /\ <<a, s>>[1] = a
      OBVIOUS
    <3>. QED
      BY <3>1
  <2>2. Triples(P, Q \cup {<<s, d>>}) = Triples(P, Q) \cup {e}
    BY <1>3, <1>4, <2>1, TriplesDnn
  <2>. QED
    BY <1>2, <1>3, <1>11, <2>2
<1>15. Names(R) = k \cup {d}
  BY <1>2, <1>3, NamesAdd
<1>16. PICK m : m = Free5gcDnn(l, a, s, d)
  OBVIOUS
<1>17. m = Free5gcRecord(x, SmfOf(R, U, nj), z, {Plmn}, Plmn)
  BY <1>5, <1>7, <1>12, <1>16 DEF Free5gcDnn
<1>18. IsFree5gc(m, A, P, R, id)
  <2>1. /\ m = Free5gcRecord(AmfRecord({Plmn}, A, Names(P), Names(R)), SmfOf(R, Triples(P, R), nj),
                            NssfRecord({Plmn}, Names(P), N, M, P), {Plmn}, Plmn)
        /\ Interfaces(Triples(P, R), nj) /\ Numbered(N, M, Names(P), id)
    BY <1>1, <1>2, <1>7, <1>13, <1>14, <1>15, <1>17
  <2>. QED
    BY <2>1 DEF IsFree5gc
<1>. QED
  BY <1>3, <1>16, <1>18

LEMMA Free5gcBegin ==
    ASSUME NEW x, NEW y, NEW z, NEW u, NEW p, NEW l, l = Free5gcRecord(x, y, z, u, p)
    PROVE  IsFree5gc(Free5gcHeader(l), {}, {}, {}, 1)
<1>1. PICK ni, k : ni = [a \in AllAreas |-> <<>>] /\ k = [a \in AllAreas |-> 0]
  OBVIOUS
<1>2. PICK l1 : l1 = clear_core_values(l)
  OBVIOUS
<1>3. l1 = Free5gcRecord(AmfRecord({}, {}, {}, {}), SmfRecord({}, {}, {}, k, {}, {}, ni), NssfRecord({}, {}, {}, {}, {}), {}, p)
  BY <1>1, <1>2 DEF clear_core_values, Free5gcRecord, AmfRecord, SmfRecord, NssfRecord
<1>4. PICK l2 : l2 = set_default_nrf_plmnd(l1)
  OBVIOUS
<1>5. l2 = Free5gcRecord(AmfRecord({}, {}, {}, {}), SmfRecord({}, {}, {}, k, {}, {}, ni), NssfRecord({}, {}, {}, {}, {}), {}, Plmn)
  BY <1>3, <1>4 DEF set_default_nrf_plmnd, Free5gcRecord
<1>6. PICK l3 : l3 = add_item_amf_servedGuamiList(l2)
  OBVIOUS
<1>7. l3 = Free5gcRecord(AmfRecord({Plmn}, {}, {}, {}), SmfRecord({}, {}, {}, k, {}, {}, ni), NssfRecord({}, {}, {}, {}, {}), {}, Plmn)
  BY <1>5, <1>6 DEF add_item_amf_servedGuamiList, Free5gcRecord, AmfRecord
<1>8. PICK l4 : l4 = add_plmn_smf_item(l3)
  OBVIOUS
<1>9. l4 = Free5gcRecord(AmfRecord({Plmn}, {}, {}, {}), SmfRecord({Plmn}, {}, {}, k, {}, {}, ni), NssfRecord({}, {}, {}, {}, {}), {}, Plmn)
  BY <1>7, <1>8 DEF add_plmn_smf_item, Free5gcRecord, SmfRecord
<1>10. PICK l5 : l5 = add_plmn_ausf_item(l4)
  OBVIOUS
<1>11. l5 = Free5gcRecord(AmfRecord({Plmn}, {}, {}, {}), SmfRecord({Plmn}, {}, {}, k, {}, {}, ni), NssfRecord({}, {}, {}, {}, {}), {Plmn}, Plmn)
  BY <1>9, <1>10 DEF add_plmn_ausf_item, Free5gcRecord
<1>12. PICK l6 : l6 = add_supported_plmn_nssf(l5)
  OBVIOUS
<1>13. l6 = Free5gcRecord(AmfRecord({Plmn}, {}, {}, {}), SmfRecord({Plmn}, {}, {}, k, {}, {}, ni), NssfRecord({Plmn}, {}, {}, {}, {}), {Plmn}, Plmn)
  BY <1>11, <1>12 DEF add_supported_plmn_nssf, Free5gcRecord, NssfRecord
<1>14. l6 = Free5gcHeader(l)
  BY <1>2, <1>4, <1>6, <1>8, <1>10, <1>12 DEF Free5gcHeader
<1>15. Triples({}, {}) = {} /\ Names({}) = {} /\ AreasIn({}) = {} /\ PairsIn({}) = {} /\ NodesOf({}) = {} /\ LinksOf({}) = k
  BY <1>1, NamesNone DEF Triples, AreasIn, PairsIn, NodesOf, LinksOf
<1>16. Interfaces({}, ni)
  <2>1. ni \in [AllAreas -> Seq(AllDnns)] /\ \A a \in AllAreas : ni[a] = <<>>
    BY <1>1
  <2>2. DOMAIN <<>> = {}
    OBVIOUS
  <2>3. Entries(<<>>) = {} /\ Once(<<>>)
    BY <2>2 DEF Entries, Once
  <2>4. \A a \in AllAreas : DnnsAt({}, a) = {}
    BY DEF DnnsAt
  <2>. QED
    BY <2>1, <2>3, <2>4 DEF Interfaces
<1>17. SmfOf({}, {}, ni) = SmfRecord({Plmn}, {}, {}, k, {}, {}, ni)
  BY <1>15 DEF SmfOf
<1>18. /\ l6 = Free5gcRecord(AmfRecord({Plmn}, {}, Names({}), Names({})), SmfOf({}, Triples({}, {}), ni),
                            NssfRecord({Plmn}, Names({}), {}, {}, {}), {Plmn}, Plmn)
       /\ Interfaces(Triples({}, {}), ni) /\ Numbered({}, {}, Names({}), 1)
  BY <1>13, <1>15, <1>16, <1>17, NumberedNone
<1>19. IsFree5gc(l6, {}, {}, {}, 1)
  BY <1>18 DEF IsFree5gc
<1>. QED
  BY <1>14, <1>19

-----------------------------------------------------------------------------
(* SD-Core.  The loops: the profiles and the subscribers while no area has *)
(* been taken, then the slices of each area.                               *)
Registered(c, a, sl) == IF a = None THEN c.profiles \ sl ELSE c.profiles

SdWalk(c, S, left, a, sl, ul) ==
    /\ left \subseteq AreasOf(c)
    /\ \/ /\ a = None /\ left = AreasOf(c) /\ sl \subseteq c.profiles /\ ul \subseteq DOMAIN c.subs
          /\ ul # DOMAIN c.subs => sl = {}
       \/ a \in AreasOf(c) \ left /\ sl \subseteq c.areas[a] /\ ul = {}
    /\ \A s \in Registered(c, a, sl) : SdcoreSliceUsable(c, s)
    /\ \A u \in DOMAIN c.subs \ ul : c.subs[u] \subseteq c.profiles
    /\ \A p \in Taken(c, left, a, sl) : get_upfs_for_slice(S, p[2]) # {}

LEMMA SdWalkBegin ==
    ASSUME NEW c \in Configs, NEW S
    PROVE  SdWalk(c, S, AreasOf(c), None, c.profiles, DOMAIN c.subs)
<1>1. Taken(c, AreasOf(c), None, c.profiles) = {}
  BY TakenNone
<1>. QED
  BY <1>1 DEF SdWalk, Registered

LEMMA SdWalkProfile ==
    ASSUME NEW c \in Configs, NEW S, NEW left, NEW sl, NEW ul, SdWalk(c, S, left, None, sl, ul),
           NEW s \in sl, SdcoreSliceUsable(c, s)
    PROVE  /\ SdWalk(c, S, left, None, sl \ {s}, ul) /\ s \in c.profiles
           /\ Registered(c, None, sl \ {s}) = Registered(c, None, sl) \cup {s}
<1>1. None \notin AreasOf(c)
  BY ConfigTypes, ListsAssumption
<1>2. left = AreasOf(c) /\ sl \subseteq c.profiles /\ ul \subseteq DOMAIN c.subs /\ (ul # DOMAIN c.subs => sl = {})
  BY <1>1 DEF SdWalk
<1>3. Taken(c, left, None, sl \ {s}) = {}
  BY <1>2, TakenNone
<1>4. Registered(c, None, sl \ {s}) = Registered(c, None, sl) \cup {s}
  BY <1>2 DEF Registered
<1>5. \A t \in Registered(c, None, sl \ {s}) : SdcoreSliceUsable(c, t)
  BY <1>4 DEF SdWalk
<1>6. \A u \in DOMAIN c.subs \ ul : c.subs[u] \subseteq c.profiles
  BY DEF SdWalk
<1>. QED
  BY <1>2, <1>3, <1>4, <1>5, <1>6 DEF SdWalk

LEMMA SdWalkSubscriber ==
    ASSUME NEW c \in Configs, NEW S, NEW left, NEW ul, SdWalk(c, S, left, None, {}, ul),
           NEW u \in ul, c.subs[u] \subseteq c.profiles
    PROVE  SdWalk(c, S, left, None, {}, ul \ {u}) /\ u \in DOMAIN c.subs
<1>1. None \notin AreasOf(c)
  BY ConfigTypes, ListsAssumption
<1>. QED
  BY <1>1 DEF SdWalk

LEMMA SdWalkArea ==
    ASSUME NEW c \in Configs, NEW S, NEW left, NEW b, SdWalk(c, S, left, b, {}, {}), NEW a \in left
    PROVE  /\ SdWalk(c, S, left \ {a}, a, c.areas[a], {})
           /\ Registered(c, a, c.areas[a]) = Registered(c, b, {})
<1>1. None \notin AreasOf(c) /\ a \in AreasOf(c)
  BY ConfigTypes, ListsAssumption DEF SdWalk
<1>2. Taken(c, left \ {a}, a, c.areas[a]) = Taken(c, left, b, {})
  BY TakenArea DEF SdWalk
<1>3. Registered(c, a, c.areas[a]) = Registered(c, b, {}) /\ Registered(c, b, {}) = c.profiles
  BY <1>1 DEF Registered
<1>. QED
  BY <1>1, <1>2, <1>3 DEF SdWalk

LEMMA SdWalkSlice ==
    ASSUME NEW c \in Configs, NEW S, NEW left, NEW a, a # None, NEW sl, NEW ul, SdWalk(c, S, left, a, sl, ul),
           NEW s \in sl, get_upfs_for_slice(S, s) # {}
    PROVE  SdWalk(c, S, left, a, sl \ {s}, ul)
<1>1. a \in AreasOf(c) \ left /\ sl \subseteq c.areas[a] /\ ul = {}
  BY DEF SdWalk
<1>2. Taken(c, left, a, sl \ {s}) = Taken(c, left, a, sl) \cup {<<a, s>>}
  BY <1>1, ConfigTypes DEF Taken, Offered
<1>3. \A p \in Taken(c, left, a, sl \ {s}) : get_upfs_for_slice(S, p[2]) # {}
  <2>1. <<a, s>>[2] = s
    OBVIOUS
  <2>. QED
    BY <1>2, <2>1 DEF SdWalk
<1>4. Registered(c, a, sl \ {s}) = Registered(c, a, sl)
  BY DEF Registered
<1>. QED
  BY <1>1, <1>3, <1>4 DEF SdWalk

LEMMA SdWalkEnd ==
    ASSUME NEW c \in Configs, NEW S, NEW a, SdWalk(c, S, {}, a, {}, {})
    PROVE  SdcoreFeasible(c) /\ \A s \in OfferedSlices(c) : get_upfs_for_slice(S, s) # {}
<1>1. \A p \in Offered(c) : get_upfs_for_slice(S, p[2]) # {}
  BY TakenAll DEF SdWalk
<1>2. \A s \in OfferedSlices(c) : get_upfs_for_slice(S, s) # {}
  BY <1>1, OfferedNames DEF Names
<1>3. SdcoreFeasible(c)
  BY DEF SdWalk, Registered, SdcoreFeasible
<1>. QED
  BY <1>2, <1>3

SdcoreRecord(g, im, n, gn, up, U) ==
    [device_groups |-> g, imsis |-> im, network_slices |-> n, gnb |-> gn, upf |-> up, subscribers |-> U]

(* The gNB of a slice of one area only. *)
GnbOf(c, s) == IF Cardinality(AreasWith(c, s)) = 1 THEN CHOOSE a \in AreasWith(c, s) : TRUE ELSE None

Places(q, u) == {i \in DOMAIN q : q[i] = u}

(* Each of the subscribers U is once in the group of each of its slices,   *)
(* and nobody else is in a group.                                          *)
Grouped(c, U, im) ==
    /\ im \in [AllSlices -> Seq(Ues \cup {DefaultUe})]
    /\ \A s \in Slices : Entries(im[s]) \subseteq U
    /\ \A s \in Slices, u \in U : Cardinality(Places(im[s], u)) = IF s \in c.subs[u] THEN 1 ELSE 0

GnbsFit(c, G, gn) == gn \in [AllSlices -> AllAreas \cup {None}] /\ \A s \in G : gn[s] = GnbOf(c, s)
UpfsFit(up) == up \in [AllSlices -> AllAreas \cup {None}]

IsSdcore(l, c, G, U) ==
    \E im, gn, up :
       /\ l = SdcoreRecord(DnnPairs(G), im, G, gn, up, U)
       /\ Grouped(c, U, im) /\ GnbsFit(c, G, gn) /\ UpfsFit(up)

LEMMA SdcoreBegin ==
    ASSUME NEW c \in Configs, NEW l
    PROVE  IsSdcore(SdcoreHeader(l), c, {}, {})
<1>1. PICK im, nn : im = [s \in AllSlices |-> <<>>] /\ nn = [s \in AllSlices |-> None]
  OBVIOUS
<1>2. DnnPairs({}) = {}
  BY DEF DnnPairs
<1>3. SdcoreHeader(l) = SdcoreRecord(DnnPairs({}), im, {}, nn, nn, {})
  BY <1>1, <1>2 DEF SdcoreHeader, SdcoreRecord
<1>4. Grouped(c, {}, im)
  <2>1. im \in [AllSlices -> Seq(Ues \cup {DefaultUe})] /\ \A s \in Slices : im[s] = <<>>
    BY <1>1 DEF AllSlices
  <2>2. DOMAIN <<>> = {}
    OBVIOUS
  <2>3. Entries(<<>>) = {}
    BY <2>2 DEF Entries
  <2>. QED
    BY <2>1, <2>3 DEF Grouped
<1>5. GnbsFit(c, {}, nn) /\ UpfsFit(nn)
  BY <1>1 DEF GnbsFit, UpfsFit
<1>. QED
  BY <1>3, <1>4, <1>5 DEF IsSdcore

(* The one data network of a profile. *)
LEMMA OneDnn ==
    ASSUME NEW G, NEW s \in Slices, Cardinality(DnnsOf[s]) = 1
    PROVE  DnnPairs(G \cup {s}) = DnnPairs(G) \cup {<<s, CHOOSE d \in DnnsOf[s] : TRUE>>}
<1>1. IsFiniteSet(DnnsOf[s])
  BY ListsAssumption
<1>2. PICK x : DnnsOf[s] = {x}
  BY <1>1, FS_Singleton
<1>3. (CHOOSE d \in DnnsOf[s] : TRUE) = x
  BY <1>2
<1>4. x \in Dnns
  BY <1>2, DnnsOfTypes
<1>5. DnnPairs(G \cup {s}) = DnnPairs(G) \cup {<<s, x>>}
  BY <1>2, <1>4 DEF DnnPairs
<1>. QED
  BY <1>3, <1>5

(* A slice's gNB is one of its areas. *)
LEMMA OneArea ==
    ASSUME NEW c \in Configs, NEW s
    PROVE  /\ GnbOf(c, s) = None \/ AreasWith(c, s) = {GnbOf(c, s)}
           /\ \A a : AreasWith(c, s) = {a} => GnbOf(c, s) = a
           /\ GnbOf(c, s) \in AllAreas \cup {None}
<1>1. IsFiniteSet(AreasWith(c, s))
  <2>1. AreasWith(c, s) \subseteq AreasOf(c)
    BY DEF AreasWith
  <2>. QED
    BY <2>1, FS_Subset, ListsAssumption
<1>2. ASSUME NEW a, AreasWith(c, s) = {a} PROVE GnbOf(c, s) = a
  <2>1. Cardinality({a}) = 1
    BY FS_Singleton
  <2>. QED
    BY <1>2, <2>1 DEF GnbOf
<1>3. CASE Cardinality(AreasWith(c, s)) = 1
  <2>1. PICK a : AreasWith(c, s) = {a}
    BY <1>1, <1>3, FS_Singleton
  <2>2. GnbOf(c, s) = a
    BY <1>2, <2>1
  <2>3. a \in Areas
    BY <2>1, ConfigTypes DEF AreasWith
  <2>. QED
    BY <1>2, <2>1, <2>2, <2>3 DEF AllAreas
<1>4. CASE Cardinality(AreasWith(c, s)) # 1
  BY <1>2, <1>4 DEF GnbOf
<1>. QED
  BY <1>3, <1>4

LEMMA SdcoreProfileAdded ==
    ASSUME config \in Configs, NEW G, NEW U, NEW l, IsSdcore(l, config, G, U), NEW s \in Slices,
           Cardinality(DnnsOf[s]) = 1
    PROVE  IsSdcore(add_slice(l, s), config, G \cup {s}, U)
<1>1. PICK im, gn, up :
       /\ l = SdcoreRecord(DnnPairs(G), im, G, gn, up, U)
       /\ Grouped(config, U, im) /\ GnbsFit(config, G, gn) /\ UpfsFit(up)
  BY DEF IsSdcore
<1>2. PICK g, e, a, hn : /\ g = DnnPairs(G) /\ e = <<s, CHOOSE d \in DnnsOf[s] : TRUE>>
                         /\ a = GnbOf(config, s) /\ hn = [gn EXCEPT ![s] = a]
  OBVIOUS
<1>3. add_slice(l, s) = [l EXCEPT !.device_groups = @ \cup {e}, !.network_slices = @ \cup {s}, !.gnb[s] = a]
  BY <1>2 DEF add_slice, GnbOf
<1>4. l = SdcoreRecord(g, im, G, gn, up, U)
  BY <1>1, <1>2
<1>5. PICK l1 : l1 = [l EXCEPT !.device_groups = @ \cup {e}, !.network_slices = @ \cup {s}]
  OBVIOUS
<1>6. l1 = SdcoreRecord(g \cup {e}, im, G \cup {s}, gn, up, U)
  BY <1>4, <1>5 DEF SdcoreRecord
<1>7. add_slice(l, s) = [l1 EXCEPT !.gnb[s] = a]
  BY <1>3, <1>5
<1>8. l1.gnb = gn
  BY <1>6 DEF SdcoreRecord
<1>9. add_slice(l, s) = [l1 EXCEPT !.gnb = hn]
  BY <1>2, <1>7, <1>8
<1>10. add_slice(l, s) = SdcoreRecord(g \cup {e}, im, G \cup {s}, hn, up, U)
  BY ONLY <1>6, <1>9 DEF SdcoreRecord
<1>11. g \cup {e} = DnnPairs(G \cup {s})
  BY <1>2, OneDnn
<1>12. GnbsFit(config, G \cup {s}, hn)
  <2>1. a \in AllAreas \cup {None} /\ s \in AllSlices
    BY <1>2, OneArea DEF AllSlices
  <2>. QED
    BY <1>1, <1>2, <2>1 DEF GnbsFit
<1>. QED
  BY <1>1, <1>10, <1>11, <1>12 DEF IsSdcore

(* Only slice s has another UPF, a. *)
Replaced(l, m, G, s, a) == \A r \in G : m.upf[r] = IF r = s THEN a ELSE l.upf[r]

LEMMA SdcoreUpfSet ==
    ASSUME NEW c \in Configs, NEW G \in SUBSET Slices, NEW U, NEW l, NEW s, NEW a, NEW m,
           IsSdcore(l, c, G, U), s \in Slices, a \in AllAreas, m = set_upf_ip(l, s, a)
    PROVE  IsSdcore(m, c, G, U) /\ Replaced(l, m, G, s, a)
<1>1. PICK im, gn, up :
       /\ l = SdcoreRecord(DnnPairs(G), im, G, gn, up, U)
       /\ Grouped(c, U, im) /\ GnbsFit(c, G, gn) /\ UpfsFit(up)
  BY DEF IsSdcore
<1>2. PICK g, vp : g = DnnPairs(G) /\ vp = [up EXCEPT ![s] = a]
  OBVIOUS
<1>3. l = SdcoreRecord(g, im, G, gn, up, U) /\ l.upf = up
  BY <1>1, <1>2 DEF SdcoreRecord
<1>4. CASE s \in l.network_slices
  <2>1. set_upf_ip(l, s, a) = [l EXCEPT !.upf[s] = a]
    BY <1>4 DEF set_upf_ip
  <2>2. set_upf_ip(l, s, a) = [l EXCEPT !.upf = vp]
    BY <1>2, <1>3, <2>1
  <2>3. set_upf_ip(l, s, a) = SdcoreRecord(g, im, G, gn, vp, U)
    BY ONLY <1>3, <2>2 DEF SdcoreRecord
  <2>4. UpfsFit(vp)
    BY <1>1, <1>2 DEF UpfsFit
  <2>5. IsSdcore(set_upf_ip(l, s, a), c, G, U)
    BY <1>1, <1>2, <2>3, <2>4 DEF IsSdcore
  <2>6. set_upf_ip(l, s, a).upf = vp
    BY <2>3 DEF SdcoreRecord
  <2>7. \A r \in G : vp[r] = IF r = s THEN a ELSE up[r]
    BY <1>1, <1>2 DEF UpfsFit, AllSlices
  <2>. QED
    BY <1>3, <2>5, <2>6, <2>7 DEF Replaced
<1>5. CASE s \notin l.network_slices
  <2>1. set_upf_ip(l, s, a) = l /\ s \notin G
    BY <1>3, <1>5 DEF set_upf_ip, SdcoreRecord
  <2>. QED
    BY <2>1 DEF Replaced
<1>. QED
  BY <1>4, <1>5

LEMMA AppendPlaces ==
    ASSUME NEW X, NEW q \in Seq(X), NEW u \in X
    PROVE  /\ Append(q, u) \in Seq(X) /\ Entries(Append(q, u)) = Entries(q) \cup {u}
           /\ \A v : v # u => Places(Append(q, u), v) = Places(q, v)
           /\ u \notin Entries(q) => Places(Append(q, u), u) = {Len(q) + 1}
<1>1. Append(q, u) \in Seq(X) /\ Len(Append(q, u)) = Len(q) + 1 /\ Len(q) \in Nat
  OBVIOUS
<1>2. DOMAIN Append(q, u) = 1 .. Len(q) + 1 /\ DOMAIN q = 1 .. Len(q)
  BY <1>1
<1>3. \A i \in 1 .. Len(q) : Append(q, u)[i] = q[i]
  OBVIOUS
<1>4. Append(q, u)[Len(q) + 1] = u
  OBVIOUS
<1>. PICK r, n : r = Append(q, u) /\ n = Len(q)
  OBVIOUS
<1>5. n \in Nat /\ DOMAIN r = 1 .. n + 1 /\ DOMAIN q = 1 .. n /\ r[n + 1] = u /\ \A i \in 1 .. n : r[i] = q[i]
  BY <1>1, <1>2, <1>3, <1>4
<1>6. (\A i \in 1 .. n + 1 : i = n + 1 \/ i \in 1 .. n) /\ n + 1 \in 1 .. n + 1 /\ \A i \in 1 .. n : i \in 1 .. n + 1
  BY <1>5
<1>7. Entries(r) = Entries(q) \cup {u}
  BY <1>5, <1>6 DEF Entries
<1>8. \A v : v # u => Places(r, v) = Places(q, v)
  BY <1>5, <1>6 DEF Places
<1>9. ASSUME u \notin Entries(q) PROVE Places(r, u) = {n + 1}
  <2>1. \A i \in 1 .. n : q[i] # u
    BY <1>5, <1>9 DEF Entries
  <2>. QED
    BY <1>5, <1>6, <2>1 DEF Places
<1>. QED
  BY <1>1, <1>7, <1>8, <1>9

LEMMA GroupsAdded ==
    ASSUME NEW c \in Configs, NEW U, NEW im, Grouped(c, U, im), NEW u \in Ues, u \notin U, u \in DOMAIN c.subs,
           NEW jm, jm = [s \in AllSlices |-> IF s \in c.subs[u] THEN Append(im[s], u) ELSE im[s]]
    PROVE  Grouped(c, U \cup {u}, jm)
<1>1. im \in [AllSlices -> Seq(Ues \cup {DefaultUe})] /\ Slices \subseteq AllSlices
  BY DEF Grouped, AllSlices
<1>2. jm \in [AllSlices -> Seq(Ues \cup {DefaultUe})]
  <2>1. \A s \in AllSlices : Append(im[s], u) \in Seq(Ues \cup {DefaultUe})
    BY <1>1, AppendPlaces
  <2>. QED
    BY <1>1, <2>1
<1>3. ASSUME NEW s \in Slices
      PROVE  /\ Entries(jm[s]) \subseteq U \cup {u}
             /\ \A v \in U \cup {u} : Cardinality(Places(jm[s], v)) = IF s \in c.subs[v] THEN 1 ELSE 0
  <2>1. PICK q, r : q = im[s] /\ r = jm[s]
    OBVIOUS
  <2>2. q \in Seq(Ues \cup {DefaultUe}) /\ Entries(q) \subseteq U /\ u \in Ues \cup {DefaultUe} /\ u \notin Entries(q)
    BY <1>1, <1>3, <2>1 DEF Grouped
  <2>3. \A v \in U : Cardinality(Places(q, v)) = IF s \in c.subs[v] THEN 1 ELSE 0
    BY <1>3, <2>1 DEF Grouped
  <2>4. CASE s \in c.subs[u]
    <3>1. r = Append(q, u)
      BY <1>1, <1>3, <2>1, <2>4
    <3>2. /\ Entries(r) = Entries(q) \cup {u} /\ \A v : v # u => Places(r, v) = Places(q, v)
          /\ Places(r, u) = {Len(q) + 1}
      BY <2>2, <3>1, AppendPlaces
    <3>3. Cardinality(Places(r, u)) = 1
      BY <3>2, FS_Singleton
    <3>. QED
      BY <2>1, <2>2, <2>3, <2>4, <3>2, <3>3
  <2>5. CASE s \notin c.subs[u]
    <3>1. r = q
      BY <1>1, <1>3, <2>1, <2>5
    <3>2. Places(r, u) = {}
      BY <2>2, <3>1 DEF Places, Entries
    <3>3. Cardinality(Places(r, u)) = 0
      BY <3>2, FS_EmptySet
    <3>4. \A v \in U : Cardinality(Places(r, v)) = IF s \in c.subs[v] THEN 1 ELSE 0
      BY <2>3, <3>1
    <3>5. Cardinality(Places(r, u)) = IF s \in c.subs[u] THEN 1 ELSE 0
      BY <2>5, <3>3
    <3>6. Entries(r) \subseteq U \cup {u}
      BY <2>2, <3>1
    <3>. QED
      BY <2>1, <3>4, <3>5, <3>6
  <2>. QED
    BY <2>4, <2>5
<1>. QED
  BY <1>2, <1>3 DEF Grouped

LEMMA SubscriberAdded ==
    ASSUME NEW g, NEW im, NEW n, NEW gn, NEW up, NEW U, NEW l, l = SdcoreRecord(g, im, n, gn, up, U), NEW u, NEW S
    PROVE  add_subscriber(l, u, S) =
             SdcoreRecord(g, [s \in AllSlices |-> IF s \in S THEN Append(im[s], u) ELSE im[s]], n, gn, up, U \cup {u})
<1>1. PICK jm : jm = [s \in AllSlices |-> IF s \in S THEN Append(im[s], u) ELSE im[s]]
  OBVIOUS
<1>2. l.imsis = im
  BY DEF SdcoreRecord
<1>3. add_subscriber(l, u, S) = [l EXCEPT !.subscribers = @ \cup {u}, !.imsis = jm]
  BY <1>1, <1>2 DEF add_subscriber
<1>4. add_subscriber(l, u, S) = SdcoreRecord(g, jm, n, gn, up, U \cup {u})
  BY ONLY <1>3, l = SdcoreRecord(g, im, n, gn, up, U) DEF SdcoreRecord
<1>. QED
  BY <1>1, <1>4

LEMMA SdcoreSubscriberAdded ==
    ASSUME NEW c \in Configs, NEW G, NEW U, NEW l, IsSdcore(l, c, G, U), NEW u \in Ues, u \notin U, u \in DOMAIN c.subs
    PROVE  IsSdcore(add_subscriber(l, u, c.subs[u]), c, G, U \cup {u})
<1>1. PICK im, gn, up :
       /\ l = SdcoreRecord(DnnPairs(G), im, G, gn, up, U)
       /\ Grouped(c, U, im) /\ GnbsFit(c, G, gn) /\ UpfsFit(up)
  BY DEF IsSdcore
<1>0. PICK g, S : g = DnnPairs(G) /\ S = c.subs[u]
  OBVIOUS
<1>2. PICK jm, m : /\ m = add_subscriber(l, u, S)
                   /\ jm = [s \in AllSlices |-> IF s \in S THEN Append(im[s], u) ELSE im[s]]
  OBVIOUS
<1>3. m = SdcoreRecord(g, jm, G, gn, up, U \cup {u})
  BY <1>0, <1>1, <1>2, SubscriberAdded
<1>4. Grouped(c, U \cup {u}, jm)
  BY <1>0, <1>1, <1>2, GroupsAdded
<1>. QED
  BY <1>0, <1>1, <1>2, <1>3, <1>4 DEF IsSdcore

-----------------------------------------------------------------------------
(* The types of the values, and what the SMF's lists say of each other. *)

LEMMA OaiTypes ==
    ASSUME NEW A \in SUBSET Areas, NEW P \in SUBSET (Areas \X Slices), NEW Q \in SUBSET (Slices \X Dnns)
    PROVE  OaiOf(A, P, Q) \in OaiLists
<1>1. Names(P) \subseteq AllSlices /\ Names(Q) \subseteq AllDnns
  BY DEF Names, AllSlices, AllDnns
<1>2. /\ A \subseteq AllAreas /\ P \subseteq AllAreas \X AllSlices /\ Q \subseteq AllSlices \X AllDnns
      /\ {Plmn} \subseteq Plmns
  BY DEF AllAreas, AllSlices, AllDnns, Plmns
<1>. QED
  BY <1>1, <1>2 DEF OaiOf, OaiRecord, OaiLists

LEMMA SmfTypes ==
    ASSUME NEW Q \in SUBSET (Slices \X Dnns), NEW T \in SUBSET (Areas \X Slices \X Dnns), NEW ni, Interfaces(T, ni)
    PROVE  SmfOf(Q, T, ni) \in SmfLists
<1>1. AreasIn(T) \subseteq AllAreas
  BY DEF AreasIn, AllAreas
<1>2. PICK A : A = AreasIn(T)
  OBVIOUS
<1>3. NodesOf(A) \subseteq Nodes
  BY <1>1, <1>2 DEF NodesOf, Nodes
<1>4. LinksOf(A) \in [AllAreas -> Nat]
  BY DEF LinksOf
<1>5. PairsIn(T) \subseteq AllAreas \X AllSlices
  BY DEF PairsIn, AllAreas, AllSlices
<1>6. Q \subseteq AllSlices \X AllDnns /\ T \subseteq AllAreas \X AllSlices \X AllDnns /\ {Plmn} \subseteq Plmns
  BY DEF AllAreas, AllSlices, AllDnns, Plmns
<1>7. ni \in [AllAreas -> Seq(AllDnns)]
  BY DEF Interfaces
<1>. QED
  BY <1>2, <1>3, <1>4, <1>5, <1>6, <1>7 DEF SmfOf, SmfRecord, SmfLists

LEMMA Free5gcTypes ==
    ASSUME NEW A \in SUBSET Areas, NEW P \in SUBSET (Areas \X Slices), NEW Q \in SUBSET (Slices \X Dnns),
           NEW id, NEW l, IsFree5gc(l, A, P, Q, id)
    PROVE  l \in Free5gcLists
<1>1. PICK N, M, ni :
       /\ l = Free5gcRecord(AmfRecord({Plmn}, A, Names(P), Names(Q)), SmfOf(Q, Triples(P, Q), ni),
                            NssfRecord({Plmn}, Names(P), N, M, P), {Plmn}, Plmn)
       /\ Interfaces(Triples(P, Q), ni) /\ Numbered(N, M, Names(P), id)
  BY DEF IsFree5gc
<1>2. Names(P) \subseteq AllSlices /\ Names(Q) \subseteq AllDnns
  BY DEF Names, AllSlices, AllDnns
<1>3. A \subseteq AllAreas /\ P \subseteq AllAreas \X AllSlices /\ {Plmn} \subseteq Plmns /\ Plmn \in Plmns
  BY DEF AllAreas, AllSlices, Plmns
<1>4. N \subseteq AllSlices \X Nat /\ M \subseteq Nat \X AllAreas \X AllSlices
  BY <1>1 DEF Numbered, AllAreas, AllSlices
<1>5. SmfOf(Q, Triples(P, Q), ni) \in SmfLists
  BY <1>1, SmfTypes DEF Triples
<1>6. AmfRecord({Plmn}, A, Names(P), Names(Q)) \in AmfLists
  BY <1>2, <1>3 DEF AmfRecord, AmfLists
<1>7. NssfRecord({Plmn}, Names(P), N, M, P) \in NssfLists
  BY <1>2, <1>3, <1>4 DEF NssfRecord, NssfLists
<1>. QED
  BY <1>1, <1>3, <1>5, <1>6, <1>7 DEF Free5gcRecord, Free5gcLists

LEMMA Free5gcShape ==
    ASSUME NEW l \in Free5gcLists
    PROVE  l = Free5gcRecord(l.amf, l.smf, l.nssf, l.ausf, l.default_plmn_id)
  BY DEF Free5gcLists, Free5gcRecord

LEMMA SdcoreTypes ==
    ASSUME NEW c \in Configs, NEW G \in SUBSET Slices, NEW U \in SUBSET Ues, NEW l, IsSdcore(l, c, G, U)
    PROVE  l \in SdcoreLists
<1>1. PICK im, gn, up :
       /\ l = SdcoreRecord(DnnPairs(G), im, G, gn, up, U)
       /\ Grouped(c, U, im) /\ GnbsFit(c, G, gn) /\ UpfsFit(up)
  BY DEF IsSdcore
<1>2. DnnPairs(G) \subseteq AllSlices \X AllDnns /\ G \subseteq AllSlices /\ U \subseteq Ues \cup {DefaultUe}
  BY DEF DnnPairs, AllSlices, AllDnns
<1>3. im \in [AllSlices -> Seq(Ues \cup {DefaultUe})]
  BY <1>1 DEF Grouped
<1>4. gn \in [AllSlices -> AllAreas \cup {None}] /\ up \in [AllSlices -> AllAreas \cup {None}]
  BY <1>1 DEF GnbsFit, UpfsFit
<1>. QED
  BY <1>1, <1>2, <1>3, <1>4 DEF SdcoreRecord, SdcoreLists

LEMMA SubscriberTypes ==
    ASSUME NEW l \in SdcoreLists, NEW u \in Ues, NEW S
    PROVE  add_subscriber(l, u, S) \in SdcoreLists
<1>1. PICK jm : jm = [s \in AllSlices |-> IF s \in S THEN Append(l.imsis[s], u) ELSE l.imsis[s]]
  OBVIOUS
<1>2. l.imsis \in [AllSlices -> Seq(Ues \cup {DefaultUe})]
  BY DEF SdcoreLists
<1>3. jm \in [AllSlices -> Seq(Ues \cup {DefaultUe})]
  <2>1. \A s \in AllSlices : Append(l.imsis[s], u) \in Seq(Ues \cup {DefaultUe})
    BY <1>2
  <2>. QED
    BY <1>1, <1>2, <2>1
<1>4. add_subscriber(l, u, S) = [l EXCEPT !.subscribers = @ \cup {u}, !.imsis = jm]
  BY <1>1 DEF add_subscriber
<1>5. PICK F : F = [AllSlices -> Seq(Ues \cup {DefaultUe})]
  OBVIOUS
<1>6. jm \in F
  BY <1>3, <1>5
<1>7. SdcoreLists = [device_groups : SUBSET (AllSlices \X AllDnns), imsis : F, network_slices : SUBSET AllSlices,
                     gnb : [AllSlices -> AllAreas \cup {None}], upf : [AllSlices -> AllAreas \cup {None}],
                     subscribers : SUBSET (Ues \cup {DefaultUe})]
  BY <1>5 DEF SdcoreLists
<1>8. [l EXCEPT !.subscribers = @ \cup {u}, !.imsis = jm] \in SdcoreLists
  BY ONLY <1>6, <1>7, l \in SdcoreLists, u \in Ues
<1>. QED
  BY <1>4, <1>8

(* UserPlaneConnected, of the SMF's lists. *)
Connected(m) ==
    /\ \A a \in AllAreas : /\ <<a, "gNB">> \in m.up_nodes <=> <<a, "UPF">> \in m.up_nodes
                           /\ m.links[a] = IF <<a, "UPF">> \in m.up_nodes THEN 1 ELSE 0
    /\ \A p \in m.s_nssai_upf_infos : <<p[1], "UPF">> \in m.up_nodes
    /\ \A p \in m.dnn_upf_info_list : <<p[1], p[2]>> \in m.s_nssai_upf_infos
    /\ \A a \in AllAreas :
          Entries(m.network_instances[a]) = DnnsAt(m.dnn_upf_info_list, a) /\ Once(m.network_instances[a])

LEMMA SmfConnected ==
    ASSUME NEW Q, NEW T, NEW ni, Interfaces(T, ni)
    PROVE  Connected(SmfOf(Q, T, ni))
<1>1. PICK A, m : A = AreasIn(T) /\ m = SmfOf(Q, T, ni)
  OBVIOUS
<1>2. /\ m.links = LinksOf(A) /\ m.up_nodes = NodesOf(A) /\ m.s_nssai_upf_infos = PairsIn(T)
      /\ m.dnn_upf_info_list = T /\ m.network_instances = ni
  BY <1>1 DEF SmfOf, SmfRecord
<1>3. \A a \in AllAreas : (<<a, "gNB">> \in NodesOf(A) <=> a \in A) /\ (<<a, "UPF">> \in NodesOf(A) <=> a \in A)
  BY AreaAdded
<1>4. \A a \in AllAreas : LinksOf(A)[a] = IF a \in A THEN 1 ELSE 0
  BY DEF LinksOf
<1>5. \A p \in PairsIn(T) : <<p[1], "UPF">> \in NodesOf(A)
  BY <1>1 DEF PairsIn, AreasIn, NodesOf
<1>6. \A p \in T : <<p[1], p[2]>> \in PairsIn(T)
  BY DEF PairsIn
<1>7. \A a \in AllAreas : Entries(ni[a]) = DnnsAt(T, a) /\ Once(ni[a])
  BY DEF Interfaces
<1>8. Connected(m)
  BY <1>2, <1>3, <1>4, <1>5, <1>6, <1>7 DEF Connected
<1>. QED
  BY <1>1, <1>8

LEMMA Free5gcConnected ==
    ASSUME NEW A, NEW P, NEW Q, NEW id, NEW l, IsFree5gc(l, A, P, Q, id)
    PROVE  Connected(l.smf)
<1>1. PICK N, M, ni :
       /\ l = Free5gcRecord(AmfRecord({Plmn}, A, Names(P), Names(Q)), SmfOf(Q, Triples(P, Q), ni),
                            NssfRecord({Plmn}, Names(P), N, M, P), {Plmn}, Plmn)
       /\ Interfaces(Triples(P, Q), ni) /\ Numbered(N, M, Names(P), id)
  BY DEF IsFree5gc
<1>2. l.smf = SmfOf(Q, Triples(P, Q), ni)
  BY <1>1 DEF Free5gcRecord
<1>. QED
  BY <1>1, <1>2, SmfConnected

-----------------------------------------------------------------------------
(* The loop invariants: what has been taken is what the lists hold. *)

OaiAt(l, c, S, left, a, sl, s, dl, ul) ==
    /\ Walk(c, S, left, a, sl, s, dl) /\ ul = {}
    /\ l = OaiOf(AreasOf(c) \ left, Taken(c, left, a, sl), Joined(Taken(c, left, a, sl), s, dl))
    /\ \A q \in Joined(Taken(c, left, a, sl), s, dl) : AmbrOf[q[2]] # "none"

Free5gcAt(l, c, S, left, a, sl, s, dl, ul, id) ==
    /\ Walk(c, S, left, a, sl, s, dl) /\ ul = {}
    /\ IsFree5gc(l, AreasOf(c) \ left, Taken(c, left, a, sl), Joined(Taken(c, left, a, sl), s, dl), id)

(* The slices of the pairs P that have a profile have a UPF that serves    *)
(* them.                                                                   *)
UpfsChosen(l, S, P, G) == \A p \in P : p[2] \in G => l.upf[p[2]] \in get_upfs_for_slice(S, p[2])

SdcoreAt(l, c, S, left, a, sl, dl, ul) ==
    /\ SdWalk(c, S, left, a, sl, ul) /\ dl = {}
    /\ IsSdcore(l, c, Registered(c, a, sl), DOMAIN c.subs \ ul)
    /\ UpfsChosen(l, S, Taken(c, left, a, sl), c.profiles)

LEMMA WalkTypes ==
    ASSUME NEW c \in Configs, NEW left, NEW a, NEW sl, NEW s, NEW dl
    PROVE  /\ AreasOf(c) \ left \in SUBSET Areas /\ Taken(c, left, a, sl) \in SUBSET (Areas \X Slices)
           /\ Joined(Taken(c, left, a, sl), s, dl) \in SUBSET (Slices \X Dnns)
<1>1. AreasOf(c) \ left \in SUBSET Areas
  BY ConfigTypes
<1>2. Taken(c, left, a, sl) \in SUBSET (Areas \X Slices)
  BY ConfigTypes DEF Taken, Offered
<1>3. PICK P : P = Taken(c, left, a, sl)
  OBVIOUS
<1>4. Joined(P, s, dl) \in SUBSET (Slices \X Dnns)
  BY <1>2, <1>3 DEF Joined, DnnPairs, Names
<1>. QED
  BY <1>1, <1>2, <1>3, <1>4

LEMMA OaiAtTypes ==
    ASSUME NEW l, NEW c \in Configs, NEW S, NEW left, NEW a, NEW sl, NEW s, NEW dl, NEW ul,
           OaiAt(l, c, S, left, a, sl, s, dl, ul)
    PROVE  l \in OaiLists
  BY WalkTypes, OaiTypes DEF OaiAt

LEMMA Free5gcAtTypes ==
    ASSUME NEW l, NEW c \in Configs, NEW S, NEW left, NEW a, NEW sl, NEW s, NEW dl, NEW ul, NEW id,
           Free5gcAt(l, c, S, left, a, sl, s, dl, ul, id)
    PROVE  l \in Free5gcLists /\ Connected(l.smf) /\ id \in Nat
<1>1. PICK A, P, Q : /\ A = AreasOf(c) \ left /\ P = Taken(c, left, a, sl)
                     /\ Q = Joined(Taken(c, left, a, sl), s, dl)
  OBVIOUS
<1>2. IsFree5gc(l, A, P, Q, id)
  BY <1>1 DEF Free5gcAt
<1>3. A \in SUBSET Areas /\ P \in SUBSET (Areas \X Slices) /\ Q \in SUBSET (Slices \X Dnns)
  BY <1>1, WalkTypes
<1>4. id \in Nat
  BY <1>2 DEF IsFree5gc, Numbered
<1>. QED
  BY <1>2, <1>3, <1>4, Free5gcTypes, Free5gcConnected

LEMMA SdcoreAtTypes ==
    ASSUME NEW l, NEW c \in Configs, NEW S, NEW left, NEW a, NEW sl, NEW dl, NEW ul,
           SdcoreAt(l, c, S, left, a, sl, dl, ul)
    PROVE  l \in SdcoreLists
<1>1. Registered(c, a, sl) \in SUBSET Slices /\ DOMAIN c.subs \ ul \in SUBSET Ues
  BY ConfigTypes DEF Registered
<1>. QED
  BY <1>1, SdcoreTypes DEF SdcoreAt

(* Each kind's first step, next area, next slice, next data network. *)
LEMMA OaiAtBegin ==
    ASSUME NEW l, NEW c \in Configs, NEW S, NEW s
    PROVE  OaiAt(OaiHeader(l), c, S, AreasOf(c), None, {}, s, {}, {})
<1>1. Taken(c, AreasOf(c), None, {}) = {}
  BY TakenNone
<1>2. Joined({}, s, {}) = {}
  BY DEF Joined, DnnPairs, Names
<1>3. AreasOf(c) \ AreasOf(c) = {}
  OBVIOUS
<1>. QED
  BY <1>1, <1>2, <1>3, WalkBegin, OaiBegin DEF OaiAt

LEMMA OaiAtArea ==
    ASSUME NEW l, NEW c \in Configs, NEW S, NEW left, NEW b, NEW s, OaiAt(l, c, S, left, b, {}, s, {}, {}),
           NEW a \in left \cap S
    PROVE  OaiAt(OaiArea(l, a), c, S, left \ {a}, a, c.areas[a], s, {}, {})
<1>1. PICK A, P, Q : A = AreasOf(c) \ left /\ P = Taken(c, left, b, {}) /\ Q = Joined(Taken(c, left, b, {}), s, {})
  OBVIOUS
<1>2. l = OaiOf(A, P, Q) /\ Walk(c, S, left, b, {}, s, {}) /\ \A q \in Q : AmbrOf[q[2]] # "none"
  BY <1>1 DEF OaiAt
<1>3. Walk(c, S, left \ {a}, a, c.areas[a], s, {}) /\ Taken(c, left \ {a}, a, c.areas[a]) = P
  BY <1>1, <1>2, WalkArea
<1>4. OaiArea(l, a) = OaiOf(A \cup {a}, P, Q)
  BY <1>2, OaiAreaAdded
<1>5. AreasOf(c) \ (left \ {a}) = A \cup {a}
  BY <1>1, <1>2 DEF Walk
<1>. QED
  BY <1>1, <1>2, <1>3, <1>4, <1>5 DEF OaiAt

LEMMA OaiAtSlice ==
    ASSUME NEW l, NEW c \in Configs, NEW S, NEW left, NEW a, NEW sl, NEW s, OaiAt(l, c, S, left, a, sl, s, {}, {}),
           NEW t \in sl
    PROVE  /\ OaiSliceRaises(l, t) => ~EachSliceOnce(c)
           /\ OaiSlice(l, a, t) \in OaiLists
           /\ ~OaiSliceRaises(l, t) /\ t \in c.profiles =>
                OaiAt(OaiSlice(l, a, t), c, S, left, a, sl \ {t}, t, DnnsOf[t], {})
<1>1. PICK A, P, Q : A = AreasOf(c) \ left /\ P = Taken(c, left, a, sl) /\ Q = Joined(Taken(c, left, a, sl), s, {})
  OBVIOUS
<1>2. l = OaiOf(A, P, Q) /\ Walk(c, S, left, a, sl, s, {}) /\ \A q \in Q : AmbrOf[q[2]] # "none"
  BY <1>1 DEF OaiAt
<1>3. OaiSliceRaises(l, t) <=> t \in Names(P)
  BY <1>2 DEF OaiSliceRaises, OaiOf, OaiRecord
<1>4. OaiSliceRaises(l, t) => ~EachSliceOnce(c)
  BY <1>1, <1>2, <1>3, WalkTwice
<1>5. OaiSlice(l, a, t) = OaiOf(A, P \cup {<<a, t>>}, Q)
  BY <1>2, OaiSliceAdded
<1>6. OaiSlice(l, a, t) \in OaiLists
  <2>1. a \in AreasOf(c) /\ t \in c.areas[a]
    BY <1>2 DEF Walk
  <2>2. P \cup {<<a, t>>} \in SUBSET (Areas \X Slices) /\ A \in SUBSET Areas /\ Q \in SUBSET (Slices \X Dnns)
    BY <1>1, <2>1, WalkTypes, ConfigTypes
  <2>. QED
    BY <1>5, <2>2, OaiTypes
<1>7. ASSUME ~OaiSliceRaises(l, t), t \in c.profiles
      PROVE  OaiAt(OaiSlice(l, a, t), c, S, left, a, sl \ {t}, t, DnnsOf[t], {})
  <2>1. /\ Walk(c, S, left, a, sl \ {t}, t, DnnsOf[t])
        /\ Taken(c, left, a, sl \ {t}) = P \cup {<<a, t>>}
        /\ Joined(P \cup {<<a, t>>}, t, DnnsOf[t]) = Q
    BY <1>1, <1>2, <1>3, <1>7, WalkSlice
  <2>. QED
    BY <1>1, <1>2, <1>5, <2>1 DEF OaiAt
<1>. QED
  BY <1>4, <1>6, <1>7

LEMMA OaiAtDnn ==
    ASSUME NEW l, NEW c \in Configs, NEW S, NEW left, NEW a, NEW sl, NEW s, NEW dl,
           OaiAt(l, c, S, left, a, sl, s, dl, {}), NEW d \in dl, d \in c.nets, AmbrOf[d] # "none"
    PROVE  OaiAt(OaiDnn(l, s, d), c, S, left, a, sl, s, dl \ {d}, {})
<1>1. PICK A, P, Q : A = AreasOf(c) \ left /\ P = Taken(c, left, a, sl) /\ Q = Joined(Taken(c, left, a, sl), s, dl)
  OBVIOUS
<1>2. l = OaiOf(A, P, Q) /\ Walk(c, S, left, a, sl, s, dl) /\ \A q \in Q : AmbrOf[q[2]] # "none"
  BY <1>1 DEF OaiAt
<1>3. Walk(c, S, left, a, sl, s, dl \ {d}) /\ Joined(P, s, dl \ {d}) = Q \cup {<<s, d>>}
  BY <1>1, <1>2, WalkDnn
<1>4. OaiDnn(l, s, d) = OaiOf(A, P, Q \cup {<<s, d>>})
  BY <1>2, OaiDnnAdded
<1>5. \A q \in Joined(P, s, dl \ {d}) : AmbrOf[q[2]] # "none"
  <2>1. <<s, d>>[2] = d
    OBVIOUS
  <2>. QED
    BY <1>2, <1>3, <2>1
<1>. QED
  BY <1>1, <1>3, <1>4, <1>5 DEF OaiAt

LEMMA Free5gcAtBegin ==
    ASSUME NEW l \in Free5gcLists, NEW c \in Configs, NEW S, NEW s
    PROVE  Free5gcAt(Free5gcHeader(l), c, S, AreasOf(c), None, {}, s, {}, {}, 1)
<1>1. Taken(c, AreasOf(c), None, {}) = {}
  BY TakenNone
<1>2. Joined({}, s, {}) = {}
  BY DEF Joined, DnnPairs, Names
<1>3. AreasOf(c) \ AreasOf(c) = {}
  OBVIOUS
<1>4. IsFree5gc(Free5gcHeader(l), {}, {}, {}, 1)
  BY Free5gcShape, Free5gcBegin
<1>. QED
  BY <1>1, <1>2, <1>3, <1>4, WalkBegin DEF Free5gcAt

LEMMA Free5gcAtArea ==
    ASSUME NEW l, NEW c \in Configs, NEW S, NEW left, NEW b, NEW s, NEW id,
           Free5gcAt(l, c, S, left, b, {}, s, {}, {}, id), NEW a \in left \cap S
    PROVE  Free5gcAt(add_item_amf_supportTaiList(l, a), c, S, left \ {a}, a, c.areas[a], s, {}, {}, id)
<1>1. PICK A, P, Q : A = AreasOf(c) \ left /\ P = Taken(c, left, b, {}) /\ Q = Joined(Taken(c, left, b, {}), s, {})
  OBVIOUS
<1>2. IsFree5gc(l, A, P, Q, id) /\ Walk(c, S, left, b, {}, s, {})
  BY <1>1 DEF Free5gcAt
<1>3. Walk(c, S, left \ {a}, a, c.areas[a], s, {}) /\ Taken(c, left \ {a}, a, c.areas[a]) = P
  BY <1>1, <1>2, WalkArea
<1>4. IsFree5gc(add_item_amf_supportTaiList(l, a), A \cup {a}, P, Q, id)
  BY <1>2, Free5gcAreaAdded
<1>5. AreasOf(c) \ (left \ {a}) = A \cup {a}
  BY <1>1, <1>2 DEF Walk
<1>. QED
  BY <1>1, <1>3, <1>4, <1>5 DEF Free5gcAt

LEMMA Free5gcAtSlice ==
    ASSUME NEW l, NEW c \in Configs, NEW S, NEW left, NEW a, NEW sl, NEW s, NEW id,
           Free5gcAt(l, c, S, left, a, sl, s, {}, {}, id), NEW t \in sl
    PROVE  /\ Free5gcSliceRaises(l, t) => ~EachSliceOnce(c)
           /\ ~Free5gcSliceRaises(l, t) =>
                Free5gcSlice(l, a, t, id) \in Free5gcLists /\ Connected(Free5gcSlice(l, a, t, id).smf)
           /\ ~Free5gcSliceRaises(l, t) /\ t \in c.profiles =>
                Free5gcAt(Free5gcSlice(l, a, t, id), c, S, left, a, sl \ {t}, t, DnnsOf[t], {}, id + 1)
<1>1. PICK A, P, Q : A = AreasOf(c) \ left /\ P = Taken(c, left, a, sl) /\ Q = Joined(Taken(c, left, a, sl), s, {})
  OBVIOUS
<1>2. IsFree5gc(l, A, P, Q, id) /\ Walk(c, S, left, a, sl, s, {})
  BY <1>1 DEF Free5gcAt
<1>3. Free5gcSliceRaises(l, t) <=> t \in Names(P)
  <2>1. PICK N, M, ni :
         /\ l = Free5gcRecord(AmfRecord({Plmn}, A, Names(P), Names(Q)), SmfOf(Q, Triples(P, Q), ni),
                              NssfRecord({Plmn}, Names(P), N, M, P), {Plmn}, Plmn)
         /\ Interfaces(Triples(P, Q), ni) /\ Numbered(N, M, Names(P), id)
    BY <1>2 DEF IsFree5gc
  <2>. QED
    BY <2>1 DEF Free5gcSliceRaises, Free5gcRecord, NssfRecord
<1>4. Free5gcSliceRaises(l, t) => ~EachSliceOnce(c)
  BY <1>1, <1>2, <1>3, WalkTwice
<1>5. a \in Areas /\ t \in Slices
  <2>1. a \in AreasOf(c) /\ t \in c.areas[a]
    BY <1>2 DEF Walk
  <2>. QED
    BY <2>1, ConfigTypes
<1>6. ASSUME ~Free5gcSliceRaises(l, t)
      PROVE  /\ IsFree5gc(Free5gcSlice(l, a, t, id), A, P \cup {<<a, t>>}, Q, id + 1)
             /\ Free5gcSlice(l, a, t, id) \in Free5gcLists /\ Connected(Free5gcSlice(l, a, t, id).smf)
  <2>1. \A q \in Q : q[1] # t
    BY <1>1, <1>3, <1>6 DEF Joined, DnnPairs
  <2>2. IsFree5gc(Free5gcSlice(l, a, t, id), A, P \cup {<<a, t>>}, Q, id + 1)
    BY <1>2, <1>3, <1>5, <1>6, <2>1, Free5gcSliceAdded
  <2>3. P \cup {<<a, t>>} \in SUBSET (Areas \X Slices) /\ A \in SUBSET Areas /\ Q \in SUBSET (Slices \X Dnns)
    BY <1>1, <1>5, WalkTypes
  <2>. QED
    BY <2>2, <2>3, Free5gcTypes, Free5gcConnected
<1>7. ASSUME ~Free5gcSliceRaises(l, t), t \in c.profiles
      PROVE  Free5gcAt(Free5gcSlice(l, a, t, id), c, S, left, a, sl \ {t}, t, DnnsOf[t], {}, id + 1)
  <2>1. /\ Walk(c, S, left, a, sl \ {t}, t, DnnsOf[t])
        /\ Taken(c, left, a, sl \ {t}) = P \cup {<<a, t>>}
        /\ Joined(P \cup {<<a, t>>}, t, DnnsOf[t]) = Q
    <3>1. Walk(c, S, left, a, sl, s, {}) /\ t \notin Names(Taken(c, left, a, sl)) /\ t \in c.profiles
      BY <1>1, <1>2, <1>3, <1>7
    <3>. QED
      BY ONLY <1>1, <3>1, c \in Configs, t \in sl, WalkSlice
  <2>. QED
    BY <1>1, <1>6, <1>7, <2>1 DEF Free5gcAt
<1>. QED
  BY <1>4, <1>6, <1>7

LEMMA Free5gcAtDnn ==
    ASSUME NEW l, NEW c \in Configs, NEW S, NEW left, NEW a, NEW sl, NEW s, NEW dl, NEW id,
           Free5gcAt(l, c, S, left, a, sl, s, dl, {}, id), NEW d \in dl, d \in c.nets
    PROVE  Free5gcAt(Free5gcDnn(l, a, s, d), c, S, left, a, sl, s, dl \ {d}, {}, id)
<1>1. PICK A, P, Q : A = AreasOf(c) \ left /\ P = Taken(c, left, a, sl) /\ Q = Joined(Taken(c, left, a, sl), s, dl)
  OBVIOUS
<1>2. IsFree5gc(l, A, P, Q, id) /\ Walk(c, S, left, a, sl, s, dl)
  BY <1>1 DEF Free5gcAt
<1>3. Walk(c, S, left, a, sl, s, dl \ {d}) /\ Joined(P, s, dl \ {d}) = Q \cup {<<s, d>>}
  BY <1>1, <1>2, WalkDnn
<1>4. <<a, s>> \in P /\ d \in DnnsOf[s] /\ a \in Areas /\ s \in Slices
  <2>1. <<a, s>> \in P /\ dl \subseteq DnnsOf[s]
    BY <1>1, <1>2 DEF Walk
  <2>2. P \in SUBSET (Areas \X Slices)
    BY <1>1, WalkTypes
  <2>. QED
    BY <2>1, <2>2
<1>5. <<s, d>> \notin Q /\ Q \subseteq DnnPairs(Names(P))
  BY <1>1 DEF Joined
<1>6. (\A p, q \in P : p[2] = q[2] => p[1] = q[1]) /\ \A p \in P : p[2] \in c.profiles
  BY <1>1, <1>2 DEF Walk
<1>7. IsFree5gc(Free5gcDnn(l, a, s, d), A, P, Q \cup {<<s, d>>}, id)
  BY <1>2, <1>4, <1>5, <1>6, Free5gcDnnAdded
<1>. QED
  BY <1>1, <1>3, <1>7 DEF Free5gcAt

LEMMA SdcoreAtBegin ==
    ASSUME NEW l, NEW c \in Configs, NEW S
    PROVE  SdcoreAt(SdcoreHeader(l), c, S, AreasOf(c), None, c.profiles, {}, DOMAIN c.subs)
<1>1. Registered(c, None, c.profiles) = {} /\ DOMAIN c.subs \ DOMAIN c.subs = {}
  BY DEF Registered
<1>2. Taken(c, AreasOf(c), None, c.profiles) = {}
  BY TakenNone
<1>. QED
  BY <1>1, <1>2, SdWalkBegin, SdcoreBegin DEF SdcoreAt, UpfsChosen

LEMMA SdcoreAtArea ==
    ASSUME NEW l, NEW c \in Configs, NEW S, NEW left, NEW b, SdcoreAt(l, c, S, left, b, {}, {}, {}), NEW a \in left
    PROVE  SdcoreAt(l, c, S, left \ {a}, a, c.areas[a], {}, {})
<1>1. Taken(c, left \ {a}, a, c.areas[a]) = Taken(c, left, b, {})
  BY TakenArea DEF SdcoreAt, SdWalk
<1>. QED
  BY <1>1, SdWalkArea DEF SdcoreAt

LEMMA SdcoreAtUpf ==
    ASSUME NEW l, NEW c \in Configs, NEW S, NEW left, NEW a, a # None, NEW sl, NEW ul,
           SdcoreAt(l, c, S, left, a, sl, {}, ul), NEW s \in sl, s \in Slices, NEW b \in get_upfs_for_slice(S, s), b \in AllAreas
    PROVE  SdcoreAt(set_upf_ip(l, s, b), c, S, left, a, sl \ {s}, {}, ul)
<1>1. SdWalk(c, S, left, a, sl \ {s}, ul)
  BY SdWalkSlice DEF SdcoreAt
<1>2. Registered(c, a, sl \ {s}) = Registered(c, a, sl) /\ Registered(c, a, sl) \in SUBSET Slices
  BY ConfigTypes DEF Registered
<1>3. Registered(c, a, sl) = c.profiles
  BY DEF Registered
<1>4. PICK U, m : U = DOMAIN c.subs \ ul /\ m = set_upf_ip(l, s, b)
  OBVIOUS
<1>5. IsSdcore(m, c, c.profiles, U) /\ \A r \in c.profiles : m.upf[r] = IF r = s THEN b ELSE l.upf[r]
  <2>1. PICK G : G = c.profiles
    OBVIOUS
  <2>2. G \in SUBSET Slices /\ IsSdcore(l, c, G, U)
    BY <1>2, <1>3, <1>4, <2>1 DEF SdcoreAt
  <2>3. IsSdcore(m, c, G, U) /\ Replaced(l, m, G, s, b)
    BY <1>4, <2>2, SdcoreUpfSet
  <2>. QED
    BY <1>4, <2>1, <2>3 DEF Replaced
<1>6. PICK P : P = Taken(c, left, a, sl)
  OBVIOUS
<1>7. Taken(c, left, a, sl \ {s}) \subseteq P \cup {<<a, s>>}
  BY <1>6 DEF Taken, Offered
<1>8. UpfsChosen(m, S, P \cup {<<a, s>>}, c.profiles)
  <2>1. UpfsChosen(l, S, P, c.profiles)
    BY <1>6 DEF SdcoreAt
  <2>2. <<a, s>>[2] = s
    OBVIOUS
  <2>. QED
    BY <1>5, <2>1, <2>2 DEF UpfsChosen
<1>9. UpfsChosen(m, S, Taken(c, left, a, sl \ {s}), c.profiles)
  BY <1>7, <1>8 DEF UpfsChosen
<1>. QED
  BY <1>1, <1>2, <1>3, <1>4, <1>5, <1>9 DEF SdcoreAt

LEMMA SdcoreAtSubscriber ==
    ASSUME NEW l, NEW c \in Configs, NEW S, NEW left, NEW ul, SdcoreAt(l, c, S, left, None, {}, {}, ul),
           NEW u \in ul, u \in Ues, c.subs[u] \subseteq c.profiles
    PROVE  SdcoreAt(add_subscriber(l, u, c.subs[u]), c, S, left, None, {}, {}, ul \ {u})
<1>1. SdWalk(c, S, left, None, {}, ul \ {u}) /\ u \in DOMAIN c.subs
  BY SdWalkSubscriber DEF SdcoreAt
<1>2. DOMAIN c.subs \ (ul \ {u}) = (DOMAIN c.subs \ ul) \cup {u} /\ u \notin DOMAIN c.subs \ ul
  BY <1>1
<1>3. PICK G, U : G = Registered(c, None, {}) /\ U = DOMAIN c.subs \ ul
  OBVIOUS
<1>4. IsSdcore(add_subscriber(l, u, c.subs[u]), c, G, U \cup {u})
  BY <1>1, <1>2, <1>3, SdcoreSubscriberAdded DEF SdcoreAt
<1>5. Taken(c, left, None, {}) = {}
  <2>1. None \notin AreasOf(c)
    BY ConfigTypes, ListsAssumption
  <2>2. left = AreasOf(c)
    BY <2>1 DEF SdcoreAt, SdWalk
  <2>. QED
    BY <2>2, TakenNone
<1>. QED
  BY <1>1, <1>2, <1>3, <1>4, <1>5 DEF SdcoreAt, UpfsChosen

-----------------------------------------------------------------------------
(* The inductive invariant. *)

Loops ==
    result \in {"running", "filled"} =>
        /\ kind = "oai" => OaiAt(lists, config, DOMAIN served, areasLeft, area, slicesLeft, slice, dnnsLeft, subsLeft)
        /\ kind = "free5gc" =>
              Free5gcAt(lists, config, DOMAIN served, areasLeft, area, slicesLeft, slice, dnnsLeft, subsLeft, next_id)
        /\ kind = "sdcore" => SdcoreAt(lists, config, served, areasLeft, area, slicesLeft, dnnsLeft, subsLeft)

Ended == result = "filled" => areasLeft = {} /\ slicesLeft = {} /\ dnnsLeft = {} /\ subsLeft = {}

Refused == result = "raised" => ~Feasible

SmfConnects == kind = "free5gc" => Connected(lists.smf)

IInv == TypeOK /\ Loops /\ Ended /\ Refused /\ SmfConnects

(* The part of TypeOK that is not about the lists. *)
Scalars ==
    /\ kind \in Kinds /\ config \in Configs /\ IsPartial(served, Areas, SUBSET Slices)
    /\ areasLeft \subseteq Areas /\ slicesLeft \subseteq Slices /\ dnnsLeft \subseteq Dnns /\ subsLeft \subseteq Ues
    /\ area \in Areas \cup {None} /\ slice \in Slices \cup {None}
    /\ next_id \in Nat /\ result \in {"none", "running", "filled", "raised"} /\ updates \in 0 .. MaxUpdates

LEMMA OneKind == TypeOK => kind = "oai" \/ kind = "free5gc" \/ kind = "sdcore"
  BY ListsAssumption DEF TypeOK

(* A step that goes on with the loops has to keep the scalars' types and   *)
(* the loop invariant of its kind.                                         *)
LEMMA OaiGoesOn ==
    ASSUME TypeOK, kind = "oai", Running, Goes, Scalars',
           OaiAt(lists', config, DOMAIN served, areasLeft', area', slicesLeft', slice', dnnsLeft', subsLeft')
    PROVE  IInv'
<1>1. kind' = "oai" /\ config' = config /\ served' = served /\ result' = "running" /\ config \in Configs
  BY DEF Goes, Running, TypeOK
<1>2. lists' \in OaiLists
  BY <1>1, OaiAtTypes
<1>3. TypeOK'
  BY <1>1, <1>2 DEF Scalars, TypeOK, Lists
<1>. QED
  BY <1>1, <1>3 DEF IInv, Loops, Ended, Refused, SmfConnects

LEMMA Free5gcGoesOn ==
    ASSUME TypeOK, kind = "free5gc", Running, Goes, Scalars',
           Free5gcAt(lists', config, DOMAIN served, areasLeft', area', slicesLeft', slice', dnnsLeft', subsLeft', next_id')
    PROVE  IInv'
<1>1. kind' = "free5gc" /\ config' = config /\ served' = served /\ result' = "running" /\ config \in Configs
  BY DEF Goes, Running, TypeOK
<1>2. lists' \in Free5gcLists /\ Connected(lists'.smf)
  BY <1>1, Free5gcAtTypes
<1>3. TypeOK'
  BY <1>1, <1>2 DEF Scalars, TypeOK, Lists
<1>. QED
  BY <1>1, <1>2, <1>3 DEF IInv, Loops, Ended, Refused, SmfConnects

LEMMA SdcoreGoesOn ==
    ASSUME TypeOK, kind = "sdcore", Running, Goes, Scalars',
           SdcoreAt(lists', config, served, areasLeft', area', slicesLeft', dnnsLeft', subsLeft')
    PROVE  IInv'
<1>1. kind' = "sdcore" /\ config' = config /\ served' = served /\ result' = "running" /\ config \in Configs
  BY DEF Goes, Running, TypeOK
<1>2. lists' \in SdcoreLists
  BY <1>1, SdcoreAtTypes
<1>3. TypeOK'
  BY <1>1, <1>2 DEF Scalars, TypeOK, Lists
<1>. QED
  BY <1>1, <1>3 DEF IInv, Loops, Ended, Refused, SmfConnects

(* A step that raises has to have met something infeasible. *)
LEMMA RaiseKeeps ==
    ASSUME IInv, NEW l, RaiseWith(l), l \in Lists, kind = "free5gc" => Connected(l.smf), ~Feasible
    PROVE  IInv'
<1>1. /\ kind' = kind /\ config' = config /\ served' = served /\ result' = "raised" /\ lists' = l
      /\ UNCHANGED <<updates, areasLeft, slicesLeft, dnnsLeft, subsLeft, area, slice, next_id>>
  BY DEF RaiseWith, loopVars
<1>2. Lists' = Lists /\ Feasible' = Feasible
  BY <1>1 DEF Lists, Feasible
<1>3. TypeOK'
  BY <1>1, <1>2 DEF IInv, TypeOK
<1>. QED
  BY <1>1, <1>2, <1>3 DEF IInv, Loops, Ended, Refused, SmfConnects

LEMMA PlainRaiseKeeps ==
    ASSUME IInv, Raise, ~Feasible
    PROVE  IInv'
<1>1. PICK l : l = lists
  OBVIOUS
<1>2. RaiseWith(l) /\ l \in Lists /\ (kind = "free5gc" => Connected(l.smf))
  BY <1>1 DEF Raise, IInv, TypeOK, SmfConnects
<1>. QED
  BY <1>2, RaiseKeeps

-----------------------------------------------------------------------------
(* The steps. *)

LEMMA AreaStep ==
    ASSUME IInv, NEW a \in Areas, NextArea(a)
    PROVE  IInv'
<1>1. /\ Running /\ dnnsLeft = {} /\ slicesLeft = {} /\ subsLeft = {} /\ a \in areasLeft
      /\ result = "running" /\ TypeOK /\ config \in Configs
  BY DEF NextArea, Running, IInv, TypeOK
<1>. DEFINE Ok == kind = "sdcore" \/ (a \in DOMAIN served /\ (kind = "oai" => ~OaiAreaRaises(lists, a)))
<1>2. CASE ~Ok
  <2>1. kind # "sdcore" /\ Raise
    BY <1>2 DEF NextArea
  <2>2. Walk(config, DOMAIN served, areasLeft, area, slicesLeft, slice, dnnsLeft)
    BY <1>1, <2>1, OneKind DEF IInv, Loops, OaiAt, Free5gcAt
  <2>3. a \in AreasOf(config)
    BY <1>1, <2>2 DEF Walk
  <2>4. a \notin DOMAIN served
    <3>1. CASE kind = "oai"
      <4>1. lists.hostAliases = AreasOf(config) \ areasLeft
        BY <1>1, <3>1 DEF IInv, Loops, OaiAt, OaiOf, OaiRecord
      <4>. QED
        BY <1>1, <1>2, <4>1 DEF OaiAreaRaises
    <3>2. CASE kind = "free5gc"
      BY <1>2, <3>2
    <3>. QED
      BY <1>1, <2>1, <3>1, <3>2, OneKind
  <2>5. ~Feasible
    BY <1>1, <2>1, <2>3, <2>4, OneKind DEF Feasible
  <2>. QED
    BY <2>1, <2>5, PlainRaiseKeeps
<1>3. CASE Ok
  <2>1. /\ lists' = CASE kind = "oai" -> OaiArea(lists, a)
                      [] kind = "free5gc" -> add_item_amf_supportTaiList(lists, a)
                      [] kind = "sdcore" -> lists
        /\ areasLeft' = areasLeft \ {a} /\ area' = a /\ slicesLeft' = config.areas[a]
        /\ Goes /\ dnnsLeft' = {} /\ subsLeft' = {} /\ slice' = slice /\ next_id' = next_id
    BY <1>1, <1>3 DEF NextArea
  <2>2. a \in AreasOf(config)
    BY <1>1, OneKind DEF IInv, Loops, OaiAt, Free5gcAt, SdcoreAt, Walk, SdWalk
  <2>3. Scalars'
    BY <1>1, <2>1, <2>2, ConfigTypes DEF Scalars, TypeOK, Goes
  <2>4. CASE kind = "oai"
    <3>1. lists' = OaiArea(lists, a) /\ a \in areasLeft \cap DOMAIN served
      BY <1>1, <1>3, <2>1, <2>4
    <3>2. OaiAt(lists, config, DOMAIN served, areasLeft, area, {}, slice, {}, {})
      BY <1>1, <2>4 DEF IInv, Loops
    <3>3. OaiAt(lists', config, DOMAIN served, areasLeft', area', slicesLeft', slice', dnnsLeft', subsLeft')
      <4>1. OaiAt(OaiArea(lists, a), config, DOMAIN served, areasLeft \ {a}, a, config.areas[a], slice, {}, {})
        BY <1>1, <3>1, <3>2, OaiAtArea
      <4>. QED
        BY <2>1, <3>1, <4>1
    <3>. QED
      BY <1>1, <2>1, <2>3, <2>4, <3>3, OaiGoesOn
  <2>5. CASE kind = "free5gc"
    <3>1. lists' = add_item_amf_supportTaiList(lists, a) /\ a \in areasLeft \cap DOMAIN served
      BY <1>1, <1>3, <2>1, <2>5
    <3>2. Free5gcAt(lists, config, DOMAIN served, areasLeft, area, {}, slice, {}, {}, next_id)
      BY <1>1, <2>5 DEF IInv, Loops
    <3>3. Free5gcAt(lists', config, DOMAIN served, areasLeft', area', slicesLeft', slice', dnnsLeft', subsLeft', next_id')
      <4>1. Free5gcAt(add_item_amf_supportTaiList(lists, a), config, DOMAIN served, areasLeft \ {a}, a, config.areas[a],
                      slice, {}, {}, next_id)
        BY <1>1, <3>1, <3>2, Free5gcAtArea
      <4>. QED
        BY <2>1, <3>1, <4>1
    <3>. QED
      BY <1>1, <2>1, <2>3, <2>5, <3>3, Free5gcGoesOn
  <2>6. CASE kind = "sdcore"
    <3>1. lists' = lists
      BY <2>1, <2>6
    <3>2. SdcoreAt(lists, config, served, areasLeft, area, {}, {}, {})
      BY <1>1, <2>6 DEF IInv, Loops
    <3>3. SdcoreAt(lists', config, served, areasLeft', area', slicesLeft', dnnsLeft', subsLeft')
      BY <1>1, <2>1, <3>1, <3>2, SdcoreAtArea
    <3>. QED
      BY <1>1, <2>1, <2>3, <2>6, <3>3, SdcoreGoesOn
  <2>. QED
    BY <1>1, <2>4, <2>5, <2>6, OneKind
<1>. QED
  BY <1>2, <1>3

LEMMA SliceStep ==
    ASSUME IInv, NEW s \in Slices, NextSlice(s)
    PROVE  IInv'
<1>1. /\ Running /\ dnnsLeft = {} /\ s \in slicesLeft /\ kind # "sdcore"
      /\ result = "running" /\ TypeOK /\ config \in Configs
  BY DEF NextSlice, Running, IInv, TypeOK
<1>2. PICK added : added = IF kind = "oai" THEN OaiSlice(lists, area, s) ELSE Free5gcSlice(lists, area, s, next_id)
  OBVIOUS
<1>3. \/ SliceRaises(s) /\ Raise
      \/ ~SliceRaises(s) /\ ~get_slice(config, s) /\ RaiseWith(added)
      \/ /\ ~SliceRaises(s) /\ s \in config.profiles /\ lists' = added
         /\ next_id' = IF kind = "free5gc" THEN next_id + 1 ELSE next_id
         /\ slicesLeft' = slicesLeft \ {s} /\ slice' = s /\ dnnsLeft' = DnnsOf[s]
         /\ Goes /\ areasLeft' = areasLeft /\ subsLeft' = subsLeft /\ area' = area
  BY <1>2 DEF NextSlice, get_slice
<1>4. s \in OfferedSlices(config)
  <2>1. Walk(config, DOMAIN served, areasLeft, area, slicesLeft, slice, dnnsLeft)
    BY <1>1, OneKind DEF IInv, Loops, OaiAt, Free5gcAt
  <2>2. area \in AreasOf(config) /\ slicesLeft \subseteq config.areas[area]
    BY <1>1, <2>1 DEF Walk
  <2>. QED
    BY <1>1, <2>2 DEF OfferedSlices
<1>5. subsLeft = {}
  BY <1>1, OneKind DEF IInv, Loops, OaiAt, Free5gcAt
<1>6. CASE kind = "oai"
  <2>1. OaiAt(lists, config, DOMAIN served, areasLeft, area, slicesLeft, slice, {}, {})
    BY <1>1, <1>5, <1>6 DEF IInv, Loops
  <2>2. added = OaiSlice(lists, area, s) /\ (SliceRaises(s) <=> OaiSliceRaises(lists, s))
    BY <1>2, <1>6 DEF SliceRaises
  <2>3. /\ SliceRaises(s) => ~EachSliceOnce(config)
        /\ added \in OaiLists
        /\ ~SliceRaises(s) /\ s \in config.profiles =>
             OaiAt(added, config, DOMAIN served, areasLeft, area, slicesLeft \ {s}, s, DnnsOf[s], {})
    BY <1>1, <2>1, <2>2, OaiAtSlice
  <2>4. CASE SliceRaises(s) /\ Raise
    <3>1. ~Feasible
      BY <1>6, <2>3, <2>4 DEF Feasible, OaiFeasible
    <3>. QED
      BY <2>4, <3>1, PlainRaiseKeeps
  <2>5. CASE ~get_slice(config, s) /\ RaiseWith(added)
    <3>1. ~Feasible
      BY <1>4, <1>6, <2>5 DEF Feasible, OaiFeasible, SlicesAndDnnsExist
    <3>2. added \in Lists
      BY <1>6, <2>3 DEF Lists
    <3>. QED
      BY <1>6, <2>5, <3>1, <3>2, RaiseKeeps
  <2>6. CASE /\ ~SliceRaises(s) /\ s \in config.profiles /\ lists' = added
             /\ next_id' = IF kind = "free5gc" THEN next_id + 1 ELSE next_id
             /\ slicesLeft' = slicesLeft \ {s} /\ slice' = s /\ dnnsLeft' = DnnsOf[s]
             /\ Goes /\ areasLeft' = areasLeft /\ subsLeft' = subsLeft /\ area' = area
    <3>1. Scalars'
      BY <1>1, <1>6, <2>6, DnnsOfTypes DEF Scalars, TypeOK, Goes
    <3>2. OaiAt(lists', config, DOMAIN served, areasLeft', area', slicesLeft', slice', dnnsLeft', subsLeft')
      BY <1>5, <2>3, <2>6
    <3>. QED
      BY <1>1, <1>6, <2>6, <3>1, <3>2, OaiGoesOn
  <2>. QED
    BY <1>3, <2>4, <2>5, <2>6
<1>7. CASE kind = "free5gc"
  <2>1. Free5gcAt(lists, config, DOMAIN served, areasLeft, area, slicesLeft, slice, {}, {}, next_id)
    BY <1>1, <1>5, <1>7 DEF IInv, Loops
  <2>2. added = Free5gcSlice(lists, area, s, next_id) /\ (SliceRaises(s) <=> Free5gcSliceRaises(lists, s))
    BY <1>2, <1>7 DEF SliceRaises
  <2>3. /\ SliceRaises(s) => ~EachSliceOnce(config)
        /\ ~SliceRaises(s) => added \in Free5gcLists /\ Connected(added.smf)
        /\ ~SliceRaises(s) /\ s \in config.profiles =>
             Free5gcAt(added, config, DOMAIN served, areasLeft, area, slicesLeft \ {s}, s, DnnsOf[s], {}, next_id + 1)
    BY <1>1, <2>1, <2>2, Free5gcAtSlice
  <2>4. CASE SliceRaises(s) /\ Raise
    <3>1. ~Feasible
      BY <1>7, <2>3, <2>4 DEF Feasible, Free5gcFeasible
    <3>. QED
      BY <2>4, <3>1, PlainRaiseKeeps
  <2>5. CASE ~SliceRaises(s) /\ ~get_slice(config, s) /\ RaiseWith(added)
    <3>1. ~Feasible
      BY <1>4, <1>7, <2>5 DEF Feasible, Free5gcFeasible, SlicesAndDnnsExist
    <3>2. added \in Lists /\ Connected(added.smf)
      BY <1>7, <2>3, <2>5 DEF Lists
    <3>. QED
      BY <2>5, <3>1, <3>2, RaiseKeeps
  <2>6. CASE /\ ~SliceRaises(s) /\ s \in config.profiles /\ lists' = added
             /\ next_id' = IF kind = "free5gc" THEN next_id + 1 ELSE next_id
             /\ slicesLeft' = slicesLeft \ {s} /\ slice' = s /\ dnnsLeft' = DnnsOf[s]
             /\ Goes /\ areasLeft' = areasLeft /\ subsLeft' = subsLeft /\ area' = area
    <3>1. Scalars'
      BY <1>1, <1>7, <2>6, DnnsOfTypes DEF Scalars, TypeOK, Goes
    <3>2. Free5gcAt(lists', config, DOMAIN served, areasLeft', area', slicesLeft', slice', dnnsLeft', subsLeft', next_id')
      BY <1>5, <1>7, <2>3, <2>6
    <3>. QED
      BY <1>1, <1>7, <2>6, <3>1, <3>2, Free5gcGoesOn
  <2>. QED
    BY <1>3, <2>4, <2>5, <2>6
<1>. QED
  BY <1>1, <1>6, <1>7, OneKind

LEMMA DnnStep ==
    ASSUME IInv, NEW d \in Dnns, NextDnn(d)
    PROVE  IInv'
<1>1. Running /\ d \in dnnsLeft /\ result = "running" /\ TypeOK /\ config \in Configs
  BY DEF NextDnn, Running, IInv, TypeOK
<1>2. kind # "sdcore"
  BY <1>1 DEF IInv, Loops, SdcoreAt
<1>3. subsLeft = {}
  BY <1>1, <1>2, OneKind DEF IInv, Loops, OaiAt, Free5gcAt
<1>4. CASE DnnRaises(d)
  <2>1. Walk(config, DOMAIN served, areasLeft, area, slicesLeft, slice, dnnsLeft)
    BY <1>1, <1>2, OneKind DEF IInv, Loops, OaiAt, Free5gcAt
  <2>2. <<area, slice>> \in Offered(config) /\ d \in DnnsOf[slice]
    BY <1>1, <2>1 DEF Walk, Taken
  <2>3. slice \in OfferedSlices(config)
    BY <2>2 DEF Offered, OfferedSlices
  <2>4. ~Feasible
    BY <1>1, <1>2, <1>4, <2>2, <2>3, OneKind
       DEF DnnRaises, Feasible, OaiFeasible, Free5gcFeasible, SlicesAndDnnsExist
  <2>. QED
    BY <1>4, <2>4, PlainRaiseKeeps DEF NextDnn
<1>5. CASE ~DnnRaises(d)
  <2>1. /\ lists' = IF kind = "oai" THEN OaiDnn(lists, slice, d) ELSE Free5gcDnn(lists, area, slice, d)
        /\ dnnsLeft' = dnnsLeft \ {d} /\ Goes /\ areasLeft' = areasLeft /\ slicesLeft' = slicesLeft
        /\ subsLeft' = subsLeft /\ area' = area /\ slice' = slice /\ next_id' = next_id
    BY <1>5 DEF NextDnn
  <2>2. Scalars'
    BY <1>1, <2>1 DEF Scalars, TypeOK, Goes
  <2>3. d \in config.nets /\ (kind = "oai" => AmbrOf[d] # "none")
    BY <1>5 DEF DnnRaises, get_dnn, OaiDnnUsable
  <2>4. CASE kind = "oai"
    <3>1. OaiAt(lists, config, DOMAIN served, areasLeft, area, slicesLeft, slice, dnnsLeft, {})
      BY <1>1, <1>3, <2>4 DEF IInv, Loops
    <3>2. OaiAt(OaiDnn(lists, slice, d), config, DOMAIN served, areasLeft, area, slicesLeft, slice, dnnsLeft \ {d}, {})
      BY <1>1, <2>3, <2>4, <3>1, OaiAtDnn
    <3>3. OaiAt(lists', config, DOMAIN served, areasLeft', area', slicesLeft', slice', dnnsLeft', subsLeft')
      BY <1>3, <2>1, <2>4, <3>2
    <3>. QED
      BY <1>1, <2>1, <2>2, <2>4, <3>3, OaiGoesOn
  <2>5. CASE kind = "free5gc"
    <3>1. Free5gcAt(lists, config, DOMAIN served, areasLeft, area, slicesLeft, slice, dnnsLeft, {}, next_id)
      BY <1>1, <1>3, <2>5 DEF IInv, Loops
    <3>2. Free5gcAt(Free5gcDnn(lists, area, slice, d), config, DOMAIN served, areasLeft, area, slicesLeft, slice,
                    dnnsLeft \ {d}, {}, next_id)
      BY <1>1, <2>3, <3>1, Free5gcAtDnn
    <3>3. Free5gcAt(lists', config, DOMAIN served, areasLeft', area', slicesLeft', slice', dnnsLeft', subsLeft', next_id')
      BY <1>3, <2>1, <2>5, <3>2
    <3>. QED
      BY <1>1, <2>1, <2>2, <2>5, <3>3, Free5gcGoesOn
  <2>. QED
    BY <1>1, <1>2, <2>4, <2>5, OneKind
<1>. QED
  BY <1>4, <1>5

LEMMA ProfileStep ==
    ASSUME IInv, NEW s \in Slices, NextProfile(s)
    PROVE  IInv'
<1>1. /\ Running /\ kind = "sdcore" /\ area = None /\ s \in slicesLeft
      /\ result = "running" /\ TypeOK /\ config \in Configs
  BY DEF NextProfile, Running, IInv, TypeOK
<1>2. /\ SdWalk(config, served, areasLeft, None, slicesLeft, subsLeft) /\ dnnsLeft = {}
      /\ IsSdcore(lists, config, Registered(config, None, slicesLeft), DOMAIN config.subs \ subsLeft)
  BY <1>1 DEF IInv, Loops, SdcoreAt
<1>3. s \in config.profiles
  <2>1. None \notin AreasOf(config)
    BY <1>1, ConfigTypes, ListsAssumption
  <2>. QED
    BY <1>1, <1>2, <2>1 DEF SdWalk
<1>4. CASE SdcoreSliceRaises(s)
  <2>1. ~Feasible
    BY <1>1, <1>3, <1>4 DEF SdcoreSliceRaises, Feasible, SdcoreFeasible
  <2>. QED
    BY <1>4, <2>1, PlainRaiseKeeps DEF NextProfile
<1>5. CASE ~SdcoreSliceRaises(s)
  <2>1. /\ lists' = add_slice(lists, s) /\ slicesLeft' = slicesLeft \ {s} /\ Goes
        /\ UNCHANGED <<areasLeft, dnnsLeft, subsLeft, area, slice, next_id>>
    BY <1>5 DEF NextProfile
  <2>2. SdcoreSliceUsable(config, s) /\ Cardinality(DnnsOf[s]) = 1
    BY <1>5 DEF SdcoreSliceRaises, SdcoreSliceUsable
  <2>3. /\ SdWalk(config, served, areasLeft, None, slicesLeft \ {s}, subsLeft)
        /\ Registered(config, None, slicesLeft \ {s}) = Registered(config, None, slicesLeft) \cup {s}
    BY <1>1, <1>2, <2>2, SdWalkProfile
  <2>4. PICK G, U, l : G = Registered(config, None, slicesLeft) /\ U = DOMAIN config.subs \ subsLeft /\ l = lists
    OBVIOUS
  <2>5. IsSdcore(add_slice(l, s), config, G \cup {s}, U)
    BY <1>1, <1>2, <2>2, <2>4, SdcoreProfileAdded
  <2>6. Scalars'
    BY <1>1, <2>1 DEF Scalars, TypeOK, Goes
  <2>7. Taken(config, areasLeft, None, slicesLeft \ {s}) = {}
    <3>1. None \notin AreasOf(config)
      BY <1>1, ConfigTypes, ListsAssumption
    <3>2. areasLeft = AreasOf(config)
      BY <1>2, <3>1 DEF SdWalk
    <3>. QED
      BY <1>1, <3>2, TakenNone
  <2>8. SdcoreAt(lists', config, served, areasLeft', area', slicesLeft', dnnsLeft', subsLeft')
    BY <1>1, <1>2, <2>1, <2>3, <2>4, <2>5, <2>7 DEF SdcoreAt, UpfsChosen
  <2>. QED
    BY <1>1, <2>1, <2>6, <2>8, SdcoreGoesOn
<1>. QED
  BY <1>4, <1>5

LEMMA SubscriberStep ==
    ASSUME IInv, NEW u \in Ues, NextSubscriber(u)
    PROVE  IInv'
<1>1. /\ Running /\ kind = "sdcore" /\ area = None /\ slicesLeft = {} /\ u \in subsLeft
      /\ result = "running" /\ TypeOK /\ config \in Configs
  BY DEF NextSubscriber, Running, IInv, TypeOK
<1>2. SdcoreAt(lists, config, served, areasLeft, None, {}, {}, subsLeft) /\ dnnsLeft = {}
  BY <1>1 DEF IInv, Loops, SdcoreAt
<1>3. lists.network_slices = config.profiles /\ u \in DOMAIN config.subs
  <2>1. None \notin AreasOf(config)
    BY <1>1, ConfigTypes, ListsAssumption
  <2>2. u \in DOMAIN config.subs
    BY <1>1, <1>2, <2>1 DEF SdcoreAt, SdWalk
  <2>3. Registered(config, None, {}) = config.profiles
    BY DEF Registered
  <2>4. lists.network_slices = Registered(config, None, {})
    BY <1>2 DEF SdcoreAt, IsSdcore, SdcoreRecord
  <2>. QED
    BY <2>2, <2>3, <2>4
<1>4. CASE config.subs[u] \subseteq lists.network_slices
  <2>1. /\ lists' = add_subscriber(lists, u, config.subs[u]) /\ subsLeft' = subsLeft \ {u} /\ Goes
        /\ UNCHANGED <<areasLeft, slicesLeft, dnnsLeft, area, slice, next_id>>
    BY <1>4 DEF NextSubscriber
  <2>2. SdcoreAt(add_subscriber(lists, u, config.subs[u]), config, served, areasLeft, None, {}, {}, subsLeft \ {u})
    BY <1>1, <1>2, <1>3, <1>4, SdcoreAtSubscriber
  <2>3. SdcoreAt(lists', config, served, areasLeft', area', slicesLeft', dnnsLeft', subsLeft')
    BY <1>1, <1>2, <2>1, <2>2
  <2>4. Scalars'
    BY <1>1, <2>1 DEF Scalars, TypeOK, Goes
  <2>. QED
    BY <1>1, <2>1, <2>3, <2>4, SdcoreGoesOn
<1>5. CASE ~(config.subs[u] \subseteq lists.network_slices)
  <2>1. PICK S : RaiseWith(add_subscriber(lists, u, S))
    BY <1>5 DEF NextSubscriber
  <2>2. ~Feasible
    BY <1>1, <1>3, <1>5 DEF Feasible, SdcoreFeasible
  <2>3. PICK l : l = add_subscriber(lists, u, S)
    OBVIOUS
  <2>4. lists \in SdcoreLists
    BY <1>1 DEF TypeOK, Lists
  <2>5. l \in Lists
    BY <1>1, <2>3, <2>4, SubscriberTypes DEF Lists
  <2>6. RaiseWith(l)
    BY <2>1, <2>3
  <2>. QED
    BY <1>1, <2>2, <2>5, <2>6, RaiseKeeps
<1>. QED
  BY <1>4, <1>5

LEMMA UpfStep ==
    ASSUME IInv, NEW s \in Slices, SetUpf(s)
    PROVE  IInv'
<1>1. /\ Running /\ kind = "sdcore" /\ area # None /\ s \in slicesLeft
      /\ result = "running" /\ TypeOK /\ config \in Configs
  BY DEF SetUpf, Running, IInv, TypeOK
<1>2. SdcoreAt(lists, config, served, areasLeft, area, slicesLeft, {}, subsLeft) /\ dnnsLeft = {}
  BY <1>1 DEF IInv, Loops, SdcoreAt
<1>3. CASE get_upfs_for_slice(served, s) = {}
  <2>1. s \in OfferedSlices(config)
    BY <1>1, <1>2 DEF SdcoreAt, SdWalk, OfferedSlices
  <2>2. ~Feasible
    BY <1>1, <1>3, <2>1 DEF Feasible
  <2>. QED
    BY <1>3, <2>2, PlainRaiseKeeps DEF SetUpf
<1>4. CASE get_upfs_for_slice(served, s) # {}
  <2>1. PICK b \in get_upfs_for_slice(served, s) : lists' = set_upf_ip(lists, s, b)
    BY <1>4 DEF SetUpf
  <2>2. slicesLeft' = slicesLeft \ {s} /\ Goes /\ UNCHANGED <<areasLeft, dnnsLeft, subsLeft, area, slice, next_id>>
    BY <1>4 DEF SetUpf
  <2>3. SdcoreAt(set_upf_ip(lists, s, b), config, served, areasLeft, area, slicesLeft \ {s}, {}, subsLeft)
    <3>1. b \in AllAreas
      BY <1>1, <2>1 DEF get_upfs_for_slice, TypeOK, IsPartial, AllAreas
    <3>. QED
      BY <1>1, <1>2, <2>1, <3>1, SdcoreAtUpf
  <2>4. SdcoreAt(lists', config, served, areasLeft', area', slicesLeft', dnnsLeft', subsLeft')
    BY <1>2, <2>1, <2>2, <2>3
  <2>5. Scalars'
    BY <1>1, <2>2 DEF Scalars, TypeOK, Goes
  <2>. QED
    BY <1>1, <2>2, <2>4, <2>5, SdcoreGoesOn
<1>. QED
  BY <1>3, <1>4

LEMMA FinishStep ==
    ASSUME IInv, Finish
    PROVE  IInv'
<1>1. /\ result = "running" /\ result' = "filled" /\ areasLeft = {} /\ slicesLeft = {} /\ dnnsLeft = {} /\ subsLeft = {}
      /\ UNCHANGED <<kind, config, served, lists, areasLeft, slicesLeft, dnnsLeft, subsLeft, area, slice, next_id, updates>>
  BY DEF Finish, Running, loopVars
<1>2. Lists' = Lists
  BY <1>1 DEF Lists
<1>3. TypeOK'
  BY <1>1, <1>2 DEF IInv, TypeOK
<1>4. Loops'
  BY <1>1 DEF IInv, Loops
<1>. QED
  BY <1>1, <1>3, <1>4 DEF IInv, Ended, Refused, SmfConnects

LEMMA BeginStep ==
    ASSUME IInv, NEW c \in Configs, NEW S \in Reports, Begin(c, S)
    PROVE  IInv'
<1>1. /\ updates < MaxUpdates /\ updates' = updates + 1 /\ kind' = kind
      /\ config' = c /\ served' = S /\ result' = "running" /\ next_id' = 1
      /\ areasLeft' = AreasOf(c) /\ area' = None /\ slice' = None /\ dnnsLeft' = {} /\ TypeOK
      /\ IsPartial(S, Areas, SUBSET Slices)
  BY ListsAssumption DEF Begin, FirstId, IInv
<1>2. updates' \in 0 .. MaxUpdates
  <2>1. updates \in 0 .. MaxUpdates /\ MaxUpdates \in Nat
    BY <1>1, ListsAssumption DEF TypeOK
  <2>. QED
    BY <1>1, <2>1
<1>3. CASE kind = "oai"
  <2>1. lists' = OaiHeader(lists) /\ slicesLeft' = {} /\ subsLeft' = {}
    BY <1>3 DEF Begin
  <2>2. OaiAt(OaiHeader(lists), c, DOMAIN S, AreasOf(c), None, {}, None, {}, {})
    BY OaiAtBegin
  <2>3. OaiAt(lists', config', DOMAIN served', areasLeft', area', slicesLeft', slice', dnnsLeft', subsLeft')
    BY <1>1, <2>1, <2>2
  <2>4. lists' \in OaiLists
    BY <2>1, <2>2, OaiAtTypes
  <2>5. TypeOK'
    BY <1>1, <1>2, <1>3, <2>1, <2>4, ConfigTypes DEF TypeOK, Lists
  <2>. QED
    BY <1>1, <1>3, <2>3, <2>5 DEF IInv, Loops, Ended, Refused, SmfConnects
<1>4. CASE kind = "free5gc"
  <2>1. lists' = Free5gcHeader(lists) /\ slicesLeft' = {} /\ subsLeft' = {} /\ lists \in Free5gcLists
    BY <1>1, <1>4 DEF Begin, TypeOK, Lists
  <2>2. Free5gcAt(Free5gcHeader(lists), c, DOMAIN S, AreasOf(c), None, {}, None, {}, {}, 1)
    BY <2>1, Free5gcAtBegin
  <2>3. Free5gcAt(lists', config', DOMAIN served', areasLeft', area', slicesLeft', slice', dnnsLeft', subsLeft', next_id')
    BY <1>1, <2>1, <2>2
  <2>4. lists' \in Free5gcLists /\ Connected(lists'.smf)
    BY <2>1, <2>2, Free5gcAtTypes
  <2>5. TypeOK'
    BY <1>1, <1>2, <1>4, <2>1, <2>4, ConfigTypes DEF TypeOK, Lists
  <2>. QED
    BY <1>1, <1>4, <2>3, <2>4, <2>5 DEF IInv, Loops, Ended, Refused, SmfConnects
<1>5. CASE kind = "sdcore"
  <2>1. lists' = SdcoreHeader(lists) /\ slicesLeft' = c.profiles /\ subsLeft' = DOMAIN c.subs
    BY <1>5 DEF Begin
  <2>2. SdcoreAt(SdcoreHeader(lists), c, S, AreasOf(c), None, c.profiles, {}, DOMAIN c.subs)
    BY SdcoreAtBegin
  <2>3. SdcoreAt(lists', config', served', areasLeft', area', slicesLeft', dnnsLeft', subsLeft')
    BY <1>1, <2>1, <2>2
  <2>4. lists' \in SdcoreLists
    BY <2>1, <2>2, SdcoreAtTypes
  <2>5. TypeOK'
    BY <1>1, <1>2, <1>5, <2>1, <2>4, ConfigTypes DEF TypeOK, Lists
  <2>. QED
    BY <1>1, <1>5, <2>3, <2>5 DEF IInv, Loops, Ended, Refused, SmfConnects
<1>. QED
  BY <1>1, <1>3, <1>4, <1>5, OneKind

-----------------------------------------------------------------------------
(* The defaults of the charts. *)

LEMMA OaiDefaults == oai_default_core_config \in OaiLists
  BY DEF oai_default_core_config, OaiLists, AllAreas, AllSlices, AllDnns, Plmns

LEMMA SmfDefaults == smf_defaults \in SmfLists /\ Connected(smf_defaults)
<1>1. PICK a0, s0, d0, e, ni :
        /\ a0 = DefaultArea /\ s0 = DefaultSlice /\ d0 = DefaultDnn /\ e = <<DefaultArea, DefaultSlice, DefaultDnn>>
        /\ ni = [a \in AllAreas |-> IF a = DefaultArea THEN <<DefaultDnn>> ELSE <<>>]
  OBVIOUS
<1>2. a0 \in AllAreas /\ s0 \in AllSlices /\ d0 \in AllDnns /\ e[1] = a0 /\ e[2] = s0 /\ e[3] = d0 /\ e = <<a0, s0, d0>>
  BY <1>1 DEF AllAreas, AllSlices, AllDnns
<1>3. ni \in [AllAreas -> Seq(AllDnns)] /\ ni[a0] = <<d0>> /\ \A a \in AllAreas : a # a0 => ni[a] = <<>>
  BY <1>1, <1>2
<1>4. PICK m, N, K : m = smf_defaults /\ N = {a0} \X {"gNB", "UPF"} /\ K = [a \in AllAreas |-> IF a = a0 THEN 1 ELSE 0]
  OBVIOUS
<1>5. m = [plmn_list |-> {DefaultPlmn}, snssai_infos |-> {<<s0, d0>>}, up_nodes |-> N, links |-> K,
           s_nssai_upf_infos |-> {<<a0, s0>>}, dnn_upf_info_list |-> {e}, network_instances |-> ni]
  BY <1>1, <1>4 DEF smf_defaults
<1>6. /\ N \subseteq Nodes /\ K \in [AllAreas -> Nat] /\ {<<a0, s0>>} \subseteq AllAreas \X AllSlices
      /\ {<<s0, d0>>} \subseteq AllSlices \X AllDnns /\ {e} \subseteq AllAreas \X AllSlices \X AllDnns
      /\ {DefaultPlmn} \subseteq Plmns
  BY <1>2, <1>4 DEF Nodes, Plmns
<1>7. m \in SmfLists
  BY <1>3, <1>5, <1>6 DEF SmfLists
<1>8. /\ m.links = K /\ m.up_nodes = N /\ m.s_nssai_upf_infos = {<<a0, s0>>} /\ m.dnn_upf_info_list = {e}
      /\ m.network_instances = ni
  BY ONLY <1>5
<1>9. \A a \in AllAreas : (<<a, "gNB">> \in N <=> a = a0) /\ (<<a, "UPF">> \in N <=> a = a0)
  BY <1>4
<1>10. \A a \in AllAreas : K[a] = IF a = a0 THEN 1 ELSE 0
  BY <1>4
<1>11. \A p \in {<<a0, s0>>} : <<p[1], "UPF">> \in N
  BY <1>4
<1>12. \A p \in {e} : <<p[1], p[2]>> \in {<<a0, s0>>}
  BY <1>2
<1>13. ASSUME NEW a \in AllAreas PROVE Entries(ni[a]) = DnnsAt({e}, a) /\ Once(ni[a])
  <2>1. CASE a = a0
    <3>1. DOMAIN <<d0>> = {1} /\ <<d0>>[1] = d0
      OBVIOUS
    <3>2. Entries(<<d0>>) = {d0} /\ Once(<<d0>>)
      BY <3>1 DEF Entries, Once
    <3>3. DnnsAt({e}, a0) = {d0}
      BY <1>2 DEF DnnsAt
    <3>. QED
      BY <1>3, <2>1, <3>2, <3>3
  <2>2. CASE a # a0
    <3>1. DOMAIN <<>> = {}
      OBVIOUS
    <3>2. Entries(<<>>) = {} /\ Once(<<>>)
      BY <3>1 DEF Entries, Once
    <3>3. DnnsAt({e}, a) = {}
      BY <1>2, <2>2 DEF DnnsAt
    <3>. QED
      BY <1>3, <1>13, <2>2, <3>2, <3>3
  <2>. QED
    BY <2>1, <2>2
<1>14. Connected(m)
  BY <1>8, <1>9, <1>10, <1>11, <1>12, <1>13 DEF Connected
<1>. QED
  BY <1>4, <1>7, <1>14

LEMMA Free5gcDefaults ==
    free5gc_default_core_config \in Free5gcLists /\ Connected(free5gc_default_core_config.smf)
<1>1. amf_defaults \in AmfLists
  BY DEF amf_defaults, AmfLists, Plmns, AllAreas, AllSlices, AllDnns
<1>2. nssf_defaults \in NssfLists
  BY DEF nssf_defaults, NssfLists, Plmns, AllAreas, AllSlices
<1>3. {DefaultPlmn} \subseteq Plmns /\ DefaultPlmn \in Plmns
  BY DEF Plmns
<1>. QED
  BY <1>1, <1>2, <1>3, SmfDefaults DEF free5gc_default_core_config, Free5gcLists

LEMMA SdcoreDefaults == sdcore_default_config \in SdcoreLists
<1>1. PICK im, gn : /\ im = [s \in AllSlices |-> IF s = DefaultSlice THEN <<DefaultUe>> ELSE <<>>]
                    /\ gn = [s \in AllSlices |-> IF s = DefaultSlice THEN DefaultArea ELSE None]
  OBVIOUS
<1>2. im \in [AllSlices -> Seq(Ues \cup {DefaultUe})]
  <2>1. PICK U : U = Ues \cup {DefaultUe}
    OBVIOUS
  <2>2. <<>> \in Seq(U) /\ <<DefaultUe>> \in Seq(U)
    BY <2>1
  <2>. QED
    BY <1>1, <2>1, <2>2
<1>3. gn \in [AllSlices -> AllAreas \cup {None}]
  BY <1>1 DEF AllAreas
<1>4. {<<DefaultSlice, DefaultDnn>>} \subseteq AllSlices \X AllDnns /\ {DefaultSlice} \subseteq AllSlices
  BY DEF AllSlices, AllDnns
<1>. QED
  BY <1>1, <1>2, <1>3, <1>4 DEF sdcore_default_config, SdcoreLists

LEMMA Initially == Init => IInv
<1>. SUFFICES ASSUME Init PROVE IInv
  OBVIOUS
<1>1. kind \in Kinds /\ (kind = "oai" \/ kind = "free5gc" \/ kind = "sdcore") /\ result = "none"
  BY ListsAssumption DEF Init
<1>2. lists \in Lists
  BY <1>1, OaiDefaults, Free5gcDefaults, SdcoreDefaults DEF Init, Lists
<1>3. TypeOK
  <2>1. IsPartial(served, Areas, SUBSET Slices)
    <3>1. served = <<>> /\ DOMAIN <<>> = {} /\ <<>> \in [{} -> SUBSET Slices]
      BY DEF Init
    <3>. QED
      BY <3>1 DEF IsPartial
  <2>. QED
    BY <1>1, <1>2, <2>1, ListsAssumption DEF Init, TypeOK
<1>4. SmfConnects
  BY Free5gcDefaults DEF Init, SmfConnects
<1>. QED
  BY <1>1, <1>3, <1>4 DEF IInv, Loops, Ended, Refused

LEMMA Inductive == IInv /\ [Next]_vars => IInv'
<1>. SUFFICES ASSUME IInv, [Next]_vars PROVE IInv'
  OBVIOUS
<1>1. ASSUME NEW a \in Areas, NextArea(a) PROVE IInv'
  BY <1>1, AreaStep
<1>2. ASSUME NEW s \in Slices, NextSlice(s) PROVE IInv'
  BY <1>2, SliceStep
<1>3. ASSUME NEW s \in Slices, NextProfile(s) PROVE IInv'
  BY <1>3, ProfileStep
<1>4. ASSUME NEW s \in Slices, SetUpf(s) PROVE IInv'
  BY <1>4, UpfStep
<1>5. ASSUME NEW d \in Dnns, NextDnn(d) PROVE IInv'
  BY <1>5, DnnStep
<1>6. ASSUME NEW u \in Ues, NextSubscriber(u) PROVE IInv'
  BY <1>6, SubscriberStep
<1>7. CASE Finish
  BY <1>7, FinishStep
<1>8. ASSUME NEW c \in Configs, NEW S \in Reports, Begin(c, S) PROVE IInv'
  BY <1>8, BeginStep
<1>9. CASE UNCHANGED vars
  BY <1>9 DEF vars, loopVars, IInv, TypeOK, Lists, Loops, Ended, Refused, Feasible, SmfConnects
<1>. QED
  BY <1>1, <1>2, <1>3, <1>4, <1>5, <1>6, <1>7, <1>8, <1>9 DEF Next, Fill

(* The invariant of the loops holds of every update: whatever its          *)
(* configuration and the UPFs that have reported, and whatever an earlier  *)
(* update has left in the values.                                          *)
THEOREM Invariance == Spec => []IInv
  BY Initially, Inductive, PTL DEF Spec

(* The values and the iterators of the three cores keep their types: no    *)
(* helper puts an entry of one list into another.                          *)
THEOREM TypeCorrect == Spec => []TypeOK
<1>1. IInv => TypeOK
  BY DEF IInv
<1>. QED
  BY <1>1, Invariance, PTL

(* At every moment, the topology of free5GC's SMF is connected and the N3  *)
(* interface of each UPF has each data network once: add_dnnupfinfolist    *)
(* and the helpers it calls never leave a node without its link, nor give  *)
(* it a second one.                                                        *)
THEOREM UserPlaneIsConnected == Spec => []UserPlaneConnected
<1>1. IInv => UserPlaneConnected
  BY DEF IInv, SmfConnects, Connected, UserPlaneConnected, Entries, Once, DnnsAt
<1>. QED
  BY <1>1, Invariance, PTL

(* update_core_values raises exactly for an infeasible configuration (the  *)
(* bit rates that OAI and SD-Core need among it) or for lack of a UPF that *)
(* has reported, for each of the three cores.                              *)
THEOREM RefusesExactly == Spec => []RefusesExactlyInfeasible
<1>1. IInv => RefusesExactlyInfeasible
  <2>. SUFFICES ASSUME IInv, result = "filled" PROVE Feasible
    BY DEF IInv, Refused, RefusesExactlyInfeasible
  <2>1. areasLeft = {} /\ slicesLeft = {} /\ dnnsLeft = {} /\ subsLeft = {} /\ TypeOK /\ config \in Configs
    BY DEF IInv, Ended, TypeOK
  <2>2. CASE kind = "oai"
    <3>1. /\ Walk(config, DOMAIN served, {}, area, {}, slice, {})
          /\ \A q \in Joined(Taken(config, {}, area, {}), slice, {}) : AmbrOf[q[2]] # "none"
      BY <2>1, <2>2 DEF IInv, Loops, OaiAt
    <3>2. \A q \in DnnPairs(OfferedSlices(config)) : AmbrOf[q[2]] # "none"
      BY <2>1, <3>1, WalkEnd
    <3>3. ASSUME NEW s \in OfferedSlices(config), NEW d \in DnnsOf[s] PROVE AmbrOf[d] # "none"
      <4>1. s \in Slices
        BY <2>1, ConfigTypes DEF OfferedSlices
      <4>2. <<s, d>> \in DnnPairs(OfferedSlices(config)) /\ <<s, d>>[2] = d
        BY <4>1, DnnsOfTypes DEF DnnPairs
      <4>. QED
        BY <3>2, <4>2
    <3>4. EachSliceOnce(config) /\ SlicesAndDnnsExist(config) /\ AreasOf(config) \subseteq DOMAIN served
      BY <2>1, <3>1, WalkEnd
    <3>. QED
      BY <2>2, <3>3, <3>4 DEF Feasible, OaiFeasible, OaiDnnUsable, SlicesAndDnnsExist
  <2>3. CASE kind = "free5gc"
    <3>1. Walk(config, DOMAIN served, {}, area, {}, slice, {})
      BY <2>1, <2>3 DEF IInv, Loops, Free5gcAt
    <3>. QED
      BY <2>1, <2>3, <3>1, WalkEnd DEF Feasible, Free5gcFeasible
  <2>4. CASE kind = "sdcore"
    <3>1. SdWalk(config, served, {}, area, {}, {})
      BY <2>1, <2>4 DEF IInv, Loops, SdcoreAt
    <3>. QED
      BY <2>1, <2>4, <3>1, SdWalkEnd DEF Feasible
  <2>. QED
    BY <2>1, <2>2, <2>3, <2>4, OneKind
<1>. QED
  BY <1>1, Invariance, PTL

-----------------------------------------------------------------------------
(* What a finished update has left. *)

LEMMA OaiEnd ==
    IInv /\ result = "filled" /\ kind = "oai" =>
        lists = OaiOf(AreasOf(config), Offered(config), DnnPairs(OfferedSlices(config)))
<1>. SUFFICES ASSUME IInv, result = "filled", kind = "oai"
              PROVE  lists = OaiOf(AreasOf(config), Offered(config), DnnPairs(OfferedSlices(config)))
  OBVIOUS
<1>1. areasLeft = {} /\ slicesLeft = {} /\ dnnsLeft = {} /\ config \in Configs
  BY DEF IInv, Ended, TypeOK
<1>2. /\ Walk(config, DOMAIN served, {}, area, {}, slice, {})
      /\ lists = OaiOf(AreasOf(config) \ {}, Taken(config, {}, area, {}), Joined(Taken(config, {}, area, {}), slice, {}))
  BY <1>1 DEF IInv, Loops, OaiAt
<1>3. AreasOf(config) \ {} = AreasOf(config)
  OBVIOUS
<1>. QED
  BY <1>1, <1>2, <1>3, WalkEnd

LEMMA Free5gcEnd ==
    IInv /\ result = "filled" /\ kind = "free5gc" =>
        IsFree5gc(lists, AreasOf(config), Offered(config), DnnPairs(OfferedSlices(config)), next_id)
<1>. SUFFICES ASSUME IInv, result = "filled", kind = "free5gc"
              PROVE  IsFree5gc(lists, AreasOf(config), Offered(config), DnnPairs(OfferedSlices(config)), next_id)
  OBVIOUS
<1>1. areasLeft = {} /\ slicesLeft = {} /\ dnnsLeft = {} /\ config \in Configs
  BY DEF IInv, Ended, TypeOK
<1>2. /\ Walk(config, DOMAIN served, {}, area, {}, slice, {})
      /\ IsFree5gc(lists, AreasOf(config) \ {}, Taken(config, {}, area, {}),
                   Joined(Taken(config, {}, area, {}), slice, {}), next_id)
  BY <1>1 DEF IInv, Loops, Free5gcAt
<1>3. AreasOf(config) \ {} = AreasOf(config)
  OBVIOUS
<1>. QED
  BY <1>1, <1>2, <1>3, WalkEnd

LEMMA SdcoreEnd ==
    IInv /\ result = "filled" /\ kind = "sdcore" =>
        /\ IsSdcore(lists, config, config.profiles, DOMAIN config.subs) /\ SdcoreFeasible(config)
        /\ UpfsChosen(lists, served, Offered(config), config.profiles)
<1>. SUFFICES ASSUME IInv, result = "filled", kind = "sdcore"
              PROVE  /\ IsSdcore(lists, config, config.profiles, DOMAIN config.subs) /\ SdcoreFeasible(config)
                     /\ UpfsChosen(lists, served, Offered(config), config.profiles)
  OBVIOUS
<1>1. areasLeft = {} /\ slicesLeft = {} /\ dnnsLeft = {} /\ subsLeft = {} /\ config \in Configs
  BY DEF IInv, Ended, TypeOK
<1>2. /\ SdWalk(config, served, {}, area, {}, {})
      /\ IsSdcore(lists, config, Registered(config, area, {}), DOMAIN config.subs \ {})
      /\ UpfsChosen(lists, served, Taken(config, {}, area, {}), config.profiles)
  BY <1>1 DEF IInv, Loops, SdcoreAt
<1>3. Registered(config, area, {}) = config.profiles /\ DOMAIN config.subs \ {} = DOMAIN config.subs
  BY DEF Registered
<1>. QED
  BY <1>1, <1>2, <1>3, SdWalkEnd, TakenAll

(* The triples of free5GC's SMF: every pair of slice and data network that *)
(* is offered has its area, and the areas are those with a data network.   *)
LEMMA TripleOf ==
    ASSUME NEW c \in Configs, NEW a \in AreasOf(c), NEW s \in c.areas[a], NEW d \in DnnsOf[s]
    PROVE  <<a, s, d>> \in Triples(Offered(c), DnnPairs(OfferedSlices(c)))
<1>1. a \in Areas /\ s \in Slices /\ d \in Dnns /\ s \in OfferedSlices(c)
  BY ConfigTypes, DnnsOfTypes DEF OfferedSlices
<1>2. <<a, s>> \in Offered(c) /\ <<s, d>> \in DnnPairs(OfferedSlices(c))
  BY <1>1 DEF Offered, DnnPairs
<1>. QED
  BY <1>1, <1>2 DEF Triples

LEMMA TripleIs ==
    ASSUME NEW c \in Configs, NEW t \in Triples(Offered(c), DnnPairs(OfferedSlices(c)))
    PROVE  /\ t[1] \in AreasOf(c) /\ t[2] \in c.areas[t[1]] /\ t[3] \in DnnsOf[t[2]]
           /\ <<t[2], t[3]>> \in DnnPairs(OfferedSlices(c))
<1>1. <<t[1], t[2]>> \in Offered(c) /\ <<t[2], t[3]>> \in DnnPairs(OfferedSlices(c))
  BY DEF Triples
<1>2. t[1] \in AreasOf(c) /\ t[2] \in c.areas[t[1]]
  BY <1>1 DEF Offered
<1>3. t[3] \in DnnsOf[t[2]]
  BY <1>1 DEF DnnPairs
<1>. QED
  BY <1>1, <1>2, <1>3

LEMMA TriplesAreas ==
    ASSUME NEW c \in Configs, NEW T, T = Triples(Offered(c), DnnPairs(OfferedSlices(c)))
    PROVE  AreasIn(T) = add_dnnupfinfolist_smf(c)
<1>1. ASSUME NEW a \in add_dnnupfinfolist_smf(c) PROVE a \in AreasIn(T)
  <2>1. PICK s \in c.areas[a] : DnnsOf[s] # {}
    BY <1>1 DEF add_dnnupfinfolist_smf
  <2>2. PICK d : d \in DnnsOf[s]
    BY <2>1
  <2>3. a \in AreasOf(c)
    BY <1>1 DEF add_dnnupfinfolist_smf
  <2>4. <<a, s, d>> \in T
    BY <2>1, <2>2, <2>3, TripleOf
  <2>5. <<a, s, d>>[1] = a
    OBVIOUS
  <2>. QED
    BY <2>4, <2>5 DEF AreasIn
<1>2. ASSUME NEW t \in T PROVE t[1] \in add_dnnupfinfolist_smf(c)
  BY <1>2, TripleIs DEF add_dnnupfinfolist_smf
<1>. QED
  BY <1>1, <1>2 DEF AreasIn

LEMMA TriplesPairs ==
    ASSUME NEW c \in Configs, NEW T, T = Triples(Offered(c), DnnPairs(OfferedSlices(c)))
    PROVE  {<<p[2], p[3]>> : p \in T} = DnnPairs(OfferedSlices(c))
<1>1. ASSUME NEW q \in DnnPairs(OfferedSlices(c)) PROVE q \in {<<p[2], p[3]>> : p \in T}
  <2>1. PICK s, d : q = <<s, d>> /\ s \in OfferedSlices(c) /\ d \in DnnsOf[s]
    BY <1>1 DEF DnnPairs
  <2>2. PICK a \in AreasOf(c) : s \in c.areas[a]
    BY <2>1 DEF OfferedSlices
  <2>3. <<a, s, d>> \in T
    BY <2>1, <2>2, TripleOf
  <2>4. <<a, s, d>>[2] = s /\ <<a, s, d>>[3] = d
    OBVIOUS
  <2>. QED
    BY <2>1, <2>3, <2>4
<1>2. ASSUME NEW t \in T PROVE <<t[2], t[3]>> \in DnnPairs(OfferedSlices(c))
  BY <1>2, TripleIs
<1>. QED
  BY <1>1, <1>2

(* The three cores' part of ToldAsComputed, of the values l. *)
LEMMA Free5gcTold ==
    ASSUME NEW c \in Configs, NEW l, NEW id,
           IsFree5gc(l, AreasOf(c), Offered(c), DnnPairs(OfferedSlices(c)), id)
    PROVE  /\ l.nssf.ta_list = Offered(c) /\ l.smf.snssai_infos = DnnPairs(OfferedSlices(c))
           /\ {a \in AllAreas : <<a, "UPF">> \in l.smf.up_nodes} = add_dnnupfinfolist_smf(c)
<1>1. PICK P, Q, T : /\ P = Offered(c) /\ Q = DnnPairs(OfferedSlices(c)) /\ T = Triples(P, Q)
  OBVIOUS
<1>2. PICK N, M, ni :
       l = Free5gcRecord(AmfRecord({Plmn}, AreasOf(c), Names(P), Names(Q)), SmfOf(Q, T, ni),
                         NssfRecord({Plmn}, Names(P), N, M, P), {Plmn}, Plmn)
  BY <1>1 DEF IsFree5gc
<1>3. l.smf = SmfOf(Q, T, ni) /\ l.nssf = NssfRecord({Plmn}, Names(P), N, M, P)
  BY <1>2 DEF Free5gcRecord
<1>4. l.smf.snssai_infos = Q /\ l.smf.up_nodes = NodesOf(AreasIn(T)) /\ l.nssf.ta_list = P
  BY <1>3 DEF SmfOf, SmfRecord, NssfRecord
<1>5. AreasIn(T) = add_dnnupfinfolist_smf(c)
  BY <1>1, TriplesAreas
<1>6. add_dnnupfinfolist_smf(c) \subseteq AllAreas
  BY ConfigTypes DEF add_dnnupfinfolist_smf, AllAreas
<1>7. \A a : <<a, "UPF">> \in NodesOf(AreasIn(T)) <=> a \in AreasIn(T)
  BY DEF NodesOf
<1>. QED
  BY <1>1, <1>4, <1>5, <1>6, <1>7

LEMMA SdcoreGnbs ==
    ASSUME NEW c \in Configs, NEW gn, GnbsFit(c, c.profiles, gn)
    PROVE  {p \in AllAreas \X c.profiles : gn[p[2]] = p[1]} = add_slice_from_generic_model(c)
<1>1. ASSUME NEW p \in AllAreas \X c.profiles, gn[p[2]] = p[1]
      PROVE  p \in add_slice_from_generic_model(c)
  <2>1. PICK a, s : p = <<a, s>> /\ a \in AllAreas /\ s \in c.profiles
    BY <1>1
  <2>2. GnbOf(c, s) = a /\ a # None
    BY <1>1, <2>1, ListsAssumption DEF GnbsFit, AllAreas
  <2>3. AreasWith(c, s) = {a}
    BY <2>2, OneArea
  <2>4. a \in AreasOf(c) /\ s \in c.areas[a] /\ s \in Slices
    BY <2>1, <2>3, ConfigTypes DEF AreasWith
  <2>5. p \in Offered(c)
    BY <2>1, <2>4 DEF Offered
  <2>. QED
    BY <2>1, <2>3, <2>5 DEF add_slice_from_generic_model
<1>2. ASSUME NEW p \in add_slice_from_generic_model(c)
      PROVE  p \in AllAreas \X c.profiles /\ gn[p[2]] = p[1]
  <2>1. PICK a, s : p = <<a, s>> /\ a \in AreasOf(c) /\ s \in Slices
    BY <1>2 DEF add_slice_from_generic_model, Offered
  <2>2. s \in c.profiles /\ AreasWith(c, s) = {a}
    BY <1>2, <2>1 DEF add_slice_from_generic_model
  <2>3. GnbOf(c, s) = a
    BY <2>2, OneArea
  <2>. QED
    BY <2>1, <2>2, <2>3, ConfigTypes DEF GnbsFit, AllAreas
<1>. QED
  BY <1>1, <1>2

LEMMA SdcoreTold ==
    ASSUME NEW c \in Configs, NEW l, IsSdcore(l, c, c.profiles, DOMAIN c.subs)
    PROVE  /\ {p \in AllAreas \X l.network_slices : l.gnb[p[2]] = p[1]} = add_slice_from_generic_model(c)
           /\ l.device_groups = DnnPairs(c.profiles) /\ l.subscribers = DOMAIN c.subs
<1>1. PICK im, gn, up :
       /\ l = SdcoreRecord(DnnPairs(c.profiles), im, c.profiles, gn, up, DOMAIN c.subs)
       /\ GnbsFit(c, c.profiles, gn)
  BY DEF IsSdcore
<1>2. /\ l.device_groups = DnnPairs(c.profiles) /\ l.network_slices = c.profiles /\ l.gnb = gn
      /\ l.subscribers = DOMAIN c.subs
  BY <1>1 DEF SdcoreRecord
<1>. QED
  BY <1>1, <1>2, SdcoreGnbs

(* A finished update has told the core what Core5GValues computes from the *)
(* configuration: the entries that update_core_values adds one by one are  *)
(* complete, none of an earlier update or of the chart's defaults is left, *)
(* and SD-Core's slices have UPFs that report them.                        *)
THEOREM ToldIsComputed == Spec => []ToldAsComputed
<1>1. IInv => ToldAsComputed
  <2>. SUFFICES ASSUME IInv, result = "filled"
                PROVE  /\ Told = Computed
                       /\ kind = "sdcore" => \A s \in OfferedSlices(config) \cap config.profiles :
                                                lists.upf[s] \in get_upfs_for_slice(served, s)
    BY DEF ToldAsComputed
  <2>1. config \in Configs /\ TypeOK
    BY DEF IInv, TypeOK
  <2>2. CASE kind = "oai"
    <3>1. lists = OaiOf(AreasOf(config), Offered(config), DnnPairs(OfferedSlices(config)))
      BY <2>2, OaiEnd
    <3>2. /\ lists.plmn_support_list = Offered(config) /\ lists.upfs = AreasOf(config)
          /\ lists.sNssaiSmfInfoList = DnnPairs(OfferedSlices(config))
      BY <3>1 DEF OaiOf, OaiRecord
    <3>. QED
      BY <2>2, <3>2 DEF Told, Computed, OaiValues, add_plmn_item, add_dnn_snssai_smf_info_list_item, add_available_upf
  <2>3. CASE kind = "free5gc"
    <3>1. IsFree5gc(lists, AreasOf(config), Offered(config), DnnPairs(OfferedSlices(config)), next_id)
      BY <2>3, Free5gcEnd
    <3>2. /\ lists.nssf.ta_list = Offered(config) /\ lists.smf.snssai_infos = DnnPairs(OfferedSlices(config))
          /\ {a \in AllAreas : <<a, "UPF">> \in lists.smf.up_nodes} = add_dnnupfinfolist_smf(config)
      BY <2>1, <3>1, Free5gcTold
    <3>. QED
      BY <2>3, <3>2 DEF Told, Computed, Free5gcValues, add_tai_supportedsnssailist, add_dnn_info_smf_item
  <2>4. CASE kind = "sdcore"
    <3>1. /\ IsSdcore(lists, config, config.profiles, DOMAIN config.subs)
          /\ UpfsChosen(lists, served, Offered(config), config.profiles)
      BY <2>4, SdcoreEnd
    <3>2. /\ {p \in AllAreas \X lists.network_slices : lists.gnb[p[2]] = p[1]} = add_slice_from_generic_model(config)
          /\ lists.device_groups = DnnPairs(config.profiles) /\ lists.subscribers = DOMAIN config.subs
      BY <2>1, <3>1, SdcoreTold
    <3>3. ASSUME NEW s \in OfferedSlices(config) \cap config.profiles
          PROVE  lists.upf[s] \in get_upfs_for_slice(served, s)
      <4>1. PICK p \in Offered(config) : p[2] = s
        BY <2>1, OfferedNames DEF Names
      <4>. QED
        BY <3>1, <4>1 DEF UpfsChosen
    <3>. QED
      BY <2>4, <3>2, <3>3 DEF Told, Computed, SdcoreValues
  <2>. QED
    BY <2>1, <2>2, <2>3, <2>4, OneKind
<1>. QED
  BY <1>1, Invariance, PTL

(* The three cores' part of ListsAgree, of the values l. *)
LEMMA Free5gcAgrees ==
    ASSUME NEW c \in Configs, NEW l, NEW id,
           IsFree5gc(l, AreasOf(c), Offered(c), DnnPairs(OfferedSlices(c)), id)
    PROVE  /\ l.amf.served_guami_list = {Plmn} /\ l.smf.plmn_list = {Plmn} /\ l.nssf.supported_plmn_list = {Plmn}
           /\ l.ausf = {Plmn} /\ l.default_plmn_id = Plmn
           /\ l.amf.plmn_support_list = l.nssf.supported_nssai_in_plmn_list
           /\ l.amf.plmn_support_list = {p[2] : p \in l.nssf.ta_list}
           /\ l.amf.support_dnn_list = {p[2] : p \in l.smf.snssai_infos}
           /\ {<<p[2], p[3]>> : p \in l.smf.dnn_upf_info_list} = l.smf.snssai_infos
           /\ {p[2] : p \in l.nssf.nsi_list} = 1 .. Cardinality(l.amf.plmn_support_list)
           /\ {<<p[3], p[1]>> : p \in l.nssf.amf_set_list} = l.nssf.nsi_list
           /\ Cardinality(l.nssf.nsi_list) = Cardinality(l.amf.plmn_support_list)
<1>1. PICK P, Q, T : /\ P = Offered(c) /\ Q = DnnPairs(OfferedSlices(c)) /\ T = Triples(P, Q)
  OBVIOUS
<1>2. PICK N, M, ni :
       /\ l = Free5gcRecord(AmfRecord({Plmn}, AreasOf(c), Names(P), Names(Q)), SmfOf(Q, T, ni),
                            NssfRecord({Plmn}, Names(P), N, M, P), {Plmn}, Plmn)
       /\ Numbered(N, M, Names(P), id)
  BY <1>1 DEF IsFree5gc
<1>3. /\ l.amf = AmfRecord({Plmn}, AreasOf(c), Names(P), Names(Q)) /\ l.smf = SmfOf(Q, T, ni)
      /\ l.nssf = NssfRecord({Plmn}, Names(P), N, M, P) /\ l.ausf = {Plmn} /\ l.default_plmn_id = Plmn
  BY <1>2 DEF Free5gcRecord
<1>4. /\ l.amf.served_guami_list = {Plmn} /\ l.amf.plmn_support_list = Names(P)
      /\ l.amf.support_dnn_list = Names(Q)
  BY <1>3 DEF AmfRecord
<1>5. l.smf.plmn_list = {Plmn} /\ l.smf.snssai_infos = Q /\ l.smf.dnn_upf_info_list = T
  BY <1>3 DEF SmfOf, SmfRecord
<1>6. /\ l.nssf.supported_plmn_list = {Plmn} /\ l.nssf.supported_nssai_in_plmn_list = Names(P)
      /\ l.nssf.nsi_list = N /\ l.nssf.amf_set_list = M /\ l.nssf.ta_list = P
  BY <1>3 DEF NssfRecord
<1>7. /\ {n[2] : n \in N} = 1 .. Cardinality(Names(P)) /\ {<<m[3], m[1]>> : m \in M} = N
      /\ Cardinality(N) = Cardinality(Names(P))
  BY <1>2 DEF Numbered
<1>8. {<<p[2], p[3]>> : p \in T} = Q
  BY <1>1, TriplesPairs
<1>9. Names(P) = {p[2] : p \in P} /\ Names(Q) = {p[2] : p \in Q}
  BY DEF Names
<1>. QED
  BY <1>3, <1>4, <1>5, <1>6, <1>7, <1>8, <1>9

LEMMA SdcoreAgrees ==
    ASSUME NEW c \in Configs, NEW l, IsSdcore(l, c, c.profiles, DOMAIN c.subs), SdcoreFeasible(c)
    PROVE  /\ l.network_slices = {p[1] : p \in l.device_groups}
           /\ \A s \in Slices, u \in l.subscribers :
                 Cardinality({i \in DOMAIN l.imsis[s] : l.imsis[s][i] = u}) = IF s \in c.subs[u] THEN 1 ELSE 0
<1>1. PICK im, gn, up :
       /\ l = SdcoreRecord(DnnPairs(c.profiles), im, c.profiles, gn, up, DOMAIN c.subs)
       /\ Grouped(c, DOMAIN c.subs, im)
  BY DEF IsSdcore
<1>2. /\ l.device_groups = DnnPairs(c.profiles) /\ l.network_slices = c.profiles /\ l.imsis = im
      /\ l.subscribers = DOMAIN c.subs
  BY <1>1 DEF SdcoreRecord
<1>3. ASSUME NEW s \in c.profiles PROVE \E p \in DnnPairs(c.profiles) : p[1] = s
  <2>1. s \in Slices /\ IsFiniteSet(DnnsOf[s]) /\ Cardinality(DnnsOf[s]) = 1
    BY ConfigTypes, ListsAssumption DEF SdcoreFeasible, SdcoreSliceUsable
  <2>2. PICK d : DnnsOf[s] = {d}
    BY <2>1, FS_Singleton
  <2>3. <<s, d>> \in DnnPairs(c.profiles)
    BY <2>1, <2>2, DnnsOfTypes DEF DnnPairs
  <2>4. <<s, d>>[1] = s
    OBVIOUS
  <2>. QED
    BY <2>3, <2>4
<1>4. c.profiles = {p[1] : p \in DnnPairs(c.profiles)}
  <2>1. \A p \in DnnPairs(c.profiles) : p[1] \in c.profiles
    BY DEF DnnPairs
  <2>. QED
    BY <1>3, <2>1
<1>5. \A s \in Slices, u \in DOMAIN c.subs :
         Cardinality({i \in DOMAIN im[s] : im[s][i] = u}) = IF s \in c.subs[u] THEN 1 ELSE 0
  BY <1>1 DEF Grouped, Places
<1>. QED
  BY <1>2, <1>4, <1>5

(* The lists that one update fills agree with each other: free5GC's slice  *)
(* instances are numbered from 1 without a gap, its four network functions *)
(* name the same slices and data networks, and add_subscriber puts each    *)
(* subscriber once into the device group of each of its slices.            *)
THEOREM ListsAllAgree == Spec => []ListsAgree
<1>1. IInv => ListsAgree
  <2>. SUFFICES ASSUME IInv PROVE ListsAgree
    OBVIOUS
  <2>1. config \in Configs /\ TypeOK
    BY DEF IInv, TypeOK
  <2>2. CASE result = "filled" /\ kind = "oai"
    <3>1. lists = OaiOf(AreasOf(config), Offered(config), DnnPairs(OfferedSlices(config)))
      BY <2>2, OaiEnd
    <3>2. PICK P, Q : P = Offered(config) /\ Q = DnnPairs(OfferedSlices(config))
      OBVIOUS
    <3>3. /\ lists.hostAliases = AreasOf(config) /\ lists.upfs = AreasOf(config) /\ lists.served_guami_list = {Plmn}
          /\ lists.snssais = Names(P) /\ lists.plmn_support_list = P /\ lists.local_subscription_infos = Q
          /\ lists.sNssaiSmfInfoList = Q /\ lists.dnns = Names(Q)
      BY <3>1, <3>2 DEF OaiOf, OaiRecord
    <3>. QED
      BY <2>2, <3>3 DEF ListsAgree, Names
  <2>3. CASE result = "filled" /\ kind = "free5gc"
    <3>1. IsFree5gc(lists, AreasOf(config), Offered(config), DnnPairs(OfferedSlices(config)), next_id)
      BY <2>3, Free5gcEnd
    <3>. QED
      BY <2>1, <2>3, <3>1, Free5gcAgrees DEF ListsAgree
  <2>4. CASE result = "filled" /\ kind = "sdcore"
    <3>1. IsSdcore(lists, config, config.profiles, DOMAIN config.subs) /\ SdcoreFeasible(config)
      BY <2>4, SdcoreEnd
    <3>. QED
      BY <2>1, <2>4, <3>1, SdcoreAgrees DEF ListsAgree
  <2>. QED
    BY <2>1, <2>2, <2>3, <2>4, OneKind DEF ListsAgree
<1>. QED
  BY <1>1, Invariance, PTL
=============================================================================
