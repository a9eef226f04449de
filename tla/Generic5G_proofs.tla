--------------------------- MODULE Generic5G_proofs ---------------------------
(***************************************************************************)
(* For every set of areas, slices, data networks, subscribers and          *)
(* configurations, and for any number of operations and failures: every    *)
(* variable keeps its type, no failed operation leaves a configuration     *)
(* that cannot be deployed, and a core at rest after a complete operation  *)
(* serves exactly its configuration (from CoreInv).  And, from CoreInv and *)
(* IInv: a child blueprint is in its parent's reach and a core that has    *)
(* been destroyed leaves no child, chart or locked PDU behind, but for     *)
(* those that were lost.                                                   *)
(***************************************************************************)
EXTENDS Generic5G, SequenceTheorems, TLAPS

-----------------------------------------------------------------------------
(***************************************************************************)
(* What the programs achieve.  The steps still to come are a sequence: Has *)
(* says that a step of X is among them, Preceded that each step of X has   *)
(* one of Y before it, Followed that it has one after it.                  *)
(***************************************************************************)

Has(t, X) == \E i \in 1..Len(t) : t[i] \in X
Preceded(t, X, Y) == \A i \in 1..Len(t) : t[i] \in X => \E j \in 1..(i - 1) : t[j] \in Y
Followed(t, X, Y) == \A i \in 1..Len(t) : t[i] \in X => \E j \in (i + 1)..Len(t) : t[j] \in Y

(* The steps after which the program does not reach its end, those that    *)
(* tell the core its values, and those that compute them.                  *)
Ends == {"raise", "children"}
Tells == {"push", "install"}
Computes == {"values"}

(* The configuration: a core that has been created, or brought up to date, *)
(* has one its values can be computed from, or is about to compute them;   *)
(* the one it would return to is such a configuration as well.             *)
ConfigInv ==
    /\ created => configuration_feasibility_check(current_config)
    /\ answer = "none" => ~created /\ ~sound
    /\ kind = "free5gc" => ~created
    /\ op # None =>
          /\ op.name = "create" => ~created /\ configuration_feasibility_check(current_config)
          /\ created => Feasible(backup_config) /\ configuration_feasibility_check(backup_config)
          /\ op.name = "destroy" => Has(todo, Ends)
          /\ kind = "free5gc" /\ op.name = "create" => Has(todo, Ends)
          /\ created \/ sound \/ Complete(op.name) =>
                \/ Has(todo, Ends) \/ Has(todo, Computes)
                \/ Feasible(current_config) \/ kind = "free5gc"
    /\ alive = "yes" /\ op = None /\ (created \/ sound) => Feasible(current_config) \/ kind = "free5gc"

(* What edge_areas records of a UPF is what the UPF was told, but for one  *)
(* that answered ERROR, is gone, or is configured by its first update.     *)
UpfRecorded(a) ==
    edge_areas[a].upf =>
        \/ <<a, "upf">> \in silent \/ a \notin DOMAIN upfs
        \/ kind \in {"oai", "free5gc"} /\ upfs[a].applied = None
        \/ upfs[a].applied = edge_areas[a].config

(* Area a is as the configuration wants it. *)
EdgeOk(a) ==
    /\ a \in DOMAIN edge_areas /\ edge_areas[a].upf
    /\ edge_areas[a].config = newConfig(a) /\ HasProfiles(current_config, a)

(* An area whose UPF is not recorded yet, and the UPF just created for it. *)
Unfilled(a) == a \in DOMAIN edge_areas /\ ~edge_areas[a].upf /\ edge_areas[a].list = None
UpfReady(a) ==
    /\ HasProfiles(current_config, a)
    /\ \/ <<a, "upf">> \in silent \/ a \notin DOMAIN upfs
       \/ kind \in {"oai", "free5gc"} /\ upfs[a].applied = None
       \/ upfs[a].applied = newConfig(a)

InEdge == op # None /\ todo # <<>> /\ Head(todo) = "edge"

(* update_edge_areas: the areas that are not left are done. *)
EdgeInv ==
    /\ at # None => InEdge
    /\ \A a \in DOMAIN edge_areas : UpfRecorded(a) /\ (at # <<a, "routes">> => RouterRoutes(a))
    /\ InEdge =>
          /\ \A a \in AreasOf(current_config) \ left : EdgeOk(a)
          /\ \A a \in Areas :
                /\ at \in {<<a, "router">>, <<a, "deploy">>, <<a, "upf">>} => Unfilled(a)
                /\ at = <<a, "upf">> => UpfReady(a)
                /\ at = <<a, "routes">> => EdgeOk(a)
                /\ at = <<a, "undeploy">> => a \in DOMAIN edge_areas \ AreasOf(current_config)

EdgesOk == DOMAIN edge_areas = AreasOf(current_config) /\ \A a \in AreasOf(current_config) : EdgeOk(a)

(* A free5GC core never learns the addresses of its network functions:     *)
(* its gNBs cannot be configured, so it succeeds without areas only.       *)
GnbsOk ==
    /\ \A a \in AreasOf(current_config) :
          a \in locked \cap ran_areas /\ a \in DOMAIN gnb /\ gnb[a] = current_config.areas[a]
    /\ kind = "free5gc" => AreasOf(current_config) = {}

LiveOk == live = ValuesOf(current_config) \/ (kind = "athonet" /\ live = Mixed)

(* A complete operation: what is not up to date is still to come. *)
SoundInv ==
    /\ kind = "free5gc" => ~core_deployed /\ ~Has(todo, {"functions"})
    /\ op # None =>
          /\ Followed(todo, {"functions"}, {"edge"})
          /\ values = ValuesOf(current_config) \/ Preceded(todo, Tells, Computes)
          /\ (sound \/ Complete(op.name)) =>
                \/ Has(todo, Ends)
                \/ /\ Has(todo, {"edge"}) \/ EdgesOk
                   /\ Has(todo, {"gnb"}) \/ GnbsOk
                   /\ Has(todo, Tells) \/ LiveOk
    /\ alive = "yes" /\ op = None /\ sound => EdgesOk /\ GnbsOk /\ LiveOk

(* A step that adds subscribers has some to add. *)
UeInv == op # None /\ Has(todo, {"subscribers"}) => op.name = "create" \/ op.ue \in Ues

CoreInv == TypeOK /\ UeInv /\ ConfigInv /\ EdgeInv /\ SoundInv

-----------------------------------------------------------------------------
(* The steps that are left. *)

LEMMA TailSteps ==
    ASSUME NEW t \in Seq(Steps), t # <<>>
    PROVE  /\ Tail(t) \in Seq(Steps) /\ Len(Tail(t)) = Len(t) - 1 /\ Len(t) \in Nat \ {0}
           /\ Head(t) = t[1] /\ Head(t) \in Steps
           /\ \A i \in 1..(Len(t) - 1) : Tail(t)[i] = t[i + 1]
  OBVIOUS

LEMMA TailHas ==
    ASSUME NEW t \in Seq(Steps), t # <<>>, NEW X
    PROVE  /\ Has(Tail(t), X) => Has(t, X)
           /\ Has(t, X) /\ Head(t) \notin X => Has(Tail(t), X)
<1>1. PICK s : s = Tail(t)
  OBVIOUS
<1>2. /\ Len(s) = Len(t) - 1 /\ Len(t) \in Nat \ {0} /\ Head(t) = t[1]
      /\ \A i \in 1..(Len(t) - 1) : s[i] = t[i + 1]
  BY <1>1, TailSteps
<1>3. ASSUME NEW i \in 1..Len(s), s[i] \in X PROVE Has(t, X)
  <2>1. i + 1 \in 1..Len(t) /\ t[i + 1] \in X
    BY <1>2, <1>3
  <2>. QED
    BY <2>1 DEF Has
<1>4. ASSUME NEW i \in 1..Len(t), t[i] \in X, t[1] \notin X PROVE Has(s, X)
  <2>1. i # 1
    BY <1>4
  <2>2. i - 1 \in 1..Len(s) /\ s[i - 1] = t[(i - 1) + 1] /\ (i - 1) + 1 = i
    BY <1>2, <2>1
  <2>. QED
    BY <2>2, <1>4 DEF Has
<1>. QED
  BY <1>1, <1>2, <1>3, <1>4 DEF Has

LEMMA TailFollowed ==
    ASSUME NEW t \in Seq(Steps), t # <<>>, NEW X, NEW Y, Followed(t, X, Y)
    PROVE  Followed(Tail(t), X, Y) /\ (Head(t) \in X => Has(Tail(t), Y))
<1>1. PICK s : s = Tail(t)
  OBVIOUS
<1>2. /\ Len(s) = Len(t) - 1 /\ Len(t) \in Nat \ {0} /\ Head(t) = t[1]
      /\ \A i \in 1..(Len(t) - 1) : s[i] = t[i + 1]
  BY <1>1, TailSteps
<1>3. ASSUME NEW i \in 1..Len(s), s[i] \in X PROVE \E j \in (i + 1)..Len(s) : s[j] \in Y
  <2>1. i + 1 \in 1..Len(t) /\ t[i + 1] \in X
    BY <1>2, <1>3
  <2>2. PICK j \in ((i + 1) + 1)..Len(t) : t[j] \in Y
    BY <2>1 DEF Followed
  <2>3. j - 1 \in (i + 1)..Len(s) /\ s[j - 1] = t[(j - 1) + 1] /\ (j - 1) + 1 = j
    BY <1>2, <2>2
  <2>. QED
    BY <2>2, <2>3
<1>4. ASSUME t[1] \in X PROVE Has(s, Y)
  <2>1. PICK j \in (1 + 1)..Len(t) : t[j] \in Y
    BY <1>2, <1>4 DEF Followed
  <2>2. j - 1 \in 1..Len(s) /\ s[j - 1] = t[(j - 1) + 1] /\ (j - 1) + 1 = j
    BY <1>2, <2>1
  <2>. QED
    BY <2>1, <2>2 DEF Has
<1>5. Followed(s, X, Y)
  BY <1>3 DEF Followed
<1>. QED
  BY <1>1, <1>2, <1>4, <1>5

LEMMA TailPreceded ==
    ASSUME NEW t \in Seq(Steps), t # <<>>, NEW X, NEW Y, Preceded(t, X, Y)
    PROVE  Head(t) \notin X /\ (Head(t) \notin Y => Preceded(Tail(t), X, Y))
<1>1. PICK s : s = Tail(t)
  OBVIOUS
<1>2. /\ Len(s) = Len(t) - 1 /\ Len(t) \in Nat \ {0} /\ Head(t) = t[1]
      /\ \A i \in 1..(Len(t) - 1) : s[i] = t[i + 1]
  BY <1>1, TailSteps
<1>3. t[1] \notin X
  BY <1>2 DEF Preceded
<1>4. ASSUME NEW i \in 1..Len(s), s[i] \in X, t[1] \notin Y PROVE \E j \in 1..(i - 1) : s[j] \in Y
  <2>1. i + 1 \in 1..Len(t) /\ t[i + 1] \in X
    BY <1>2, <1>4
  <2>2. PICK j \in 1..((i + 1) - 1) : t[j] \in Y
    BY <2>1 DEF Preceded
  <2>3. j # 1
    BY <1>4, <2>2
  <2>4. j - 1 \in 1..(i - 1) /\ s[j - 1] = t[(j - 1) + 1] /\ (j - 1) + 1 = j
    BY <1>2, <2>2, <2>3
  <2>. QED
    BY <2>2, <2>4
<1>. QED
  BY <1>1, <1>2, <1>3, <1>4 DEF Preceded

LEMMA EmptySteps ==
    /\ <<>> \in Seq(Steps)
    /\ \A X : ~Has(<<>>, X) /\ \A Y : Followed(<<>>, X, Y) /\ Preceded(<<>>, X, Y)
<1>1. Len(<<>>) = 0
  OBVIOUS
<1>2. 1..Len(<<>>) = {}
  BY <1>1
<1>. QED
  BY <1>2 DEF Has, Followed, Preceded

-----------------------------------------------------------------------------
(* The programs.  What the proofs need to know of the program t of the     *)
(* operation name.                                                         *)

Sane(name, t) ==
    /\ t \in Seq(Steps)
    /\ Followed(t, {"functions"}, {"edge"})
    /\ Preceded(t, Tells, Computes)
    /\ name = "destroy" => Has(t, Ends)
    /\ Has(t, {"subscribers"}) => name \in {"create", "add_ues"}
    /\ kind = "free5gc" => ~Has(t, {"functions"}) /\ (name = "create" => Has(t, Ends))
    /\ Complete(name) => \/ Has(t, Ends)
                         \/ /\ Has(t, {"edge"}) /\ Has(t, {"gnb"})
                            /\ Has(t, Tells) /\ Has(t, Computes)
    /\ \/ Has(t, Ends)
       \/ Has(t, Tells) /\ Has(t, Computes)
       \/ kind = "oai" /\ name = "add_ues"
       \/ kind = "free5gc" /\ name \in {"add_dnn", "del_dnn"}
    /\ name \in {"add_dnn", "del_dnn"} => \/ Has(t, Ends) \/ Has(t, {"edge"})
                                         \/ kind \in {"free5gc", "sdcore"}

(* The day-2 methods of the generic blueprint. *)
LEMMA ProgramGeneric ==
    ASSUME NEW t, t = <<"edge", "gnb", "values", "push">>
    PROVE  /\ t \in Seq(Steps) /\ Followed(t, {"functions"}, {"edge"}) /\ Preceded(t, Tells, Computes)
           /\ Has(t, {"edge"}) /\ Has(t, {"gnb"}) /\ Has(t, Tells) /\ Has(t, Computes)
           /\ ~Has(t, {"functions"}) /\ ~Has(t, {"subscribers"})
<1>1. /\ t \in Seq(Steps) /\ Len(t) = 4
      /\ t[1] = "edge" /\ t[2] = "gnb" /\ t[3] = "values" /\ t[4] = "push"
  BY DEF Steps
<1>2. /\ \A i \in 1..Len(t) : i = 1 \/ i = 2 \/ i = 3 \/ i = 4
      /\ 1 \in 1..Len(t) /\ 2 \in 1..Len(t) /\ 3 \in 1..Len(t) /\ 4 \in 1..Len(t)
      /\ 3 \in 1..(4 - 1)
  BY <1>1
<1>. QED
  BY <1>1, <1>2 DEF Followed, Preceded, Has, Tells, Computes, Ends

LEMMA ProgramValues ==
    ASSUME NEW t, t = <<"values", "push">>
    PROVE  /\ t \in Seq(Steps) /\ Followed(t, {"functions"}, {"edge"}) /\ Preceded(t, Tells, Computes)
           /\ Has(t, Tells) /\ Has(t, Computes)
           /\ ~Has(t, {"functions"}) /\ ~Has(t, {"subscribers"})
<1>1. /\ t \in Seq(Steps) /\ Len(t) = 2
      /\ t[1] = "values" /\ t[2] = "push"
  BY DEF Steps
<1>2. /\ \A i \in 1..Len(t) : i = 1 \/ i = 2
      /\ 1 \in 1..Len(t) /\ 2 \in 1..Len(t) /\ 1 \in 1..(2 - 1)
  BY <1>1
<1>. QED
  BY <1>1, <1>2 DEF Followed, Preceded, Has, Tells, Computes, Ends

(* SD-Core. *)
LEMMA ProgramSdcoreCreate ==
    ASSUME NEW t, t = <<"edge", "values", "chart", "install", "functions", "ready", "edge", "gnb">>
    PROVE  /\ t \in Seq(Steps) /\ Followed(t, {"functions"}, {"edge"}) /\ Preceded(t, Tells, Computes)
           /\ Has(t, {"edge"}) /\ Has(t, {"gnb"}) /\ Has(t, Tells) /\ Has(t, Computes)
           /\ ~Has(t, {"subscribers"})
<1>1. /\ t \in Seq(Steps) /\ Len(t) = 8
      /\ t[1] = "edge" /\ t[2] = "values" /\ t[3] = "chart" /\ t[4] = "install" /\ t[5] = "functions" /\ t[6] = "ready" /\ t[7] = "edge" /\ t[8] = "gnb"
  BY DEF Steps
<1>2. /\ \A i \in 1..Len(t) : i = 1 \/ i = 2 \/ i = 3 \/ i = 4 \/ i = 5 \/ i = 6 \/ i = 7 \/ i = 8
      /\ 1 \in 1..Len(t) /\ 2 \in 1..Len(t) /\ 3 \in 1..Len(t) /\ 4 \in 1..Len(t)
      /\ 5 \in 1..Len(t) /\ 6 \in 1..Len(t) /\ 7 \in 1..Len(t) /\ 8 \in 1..Len(t)
      /\ 2 \in 1..(4 - 1) /\ 7 \in (5 + 1)..Len(t)
  BY <1>1
<1>. QED
  BY <1>1, <1>2 DEF Followed, Preceded, Has, Tells, Computes, Ends

(* OAI. *)
LEMMA ProgramOaiUpdate ==
    ASSUME NEW t, t = <<"edge", "values", "push", "edge", "gnb">>
    PROVE  /\ t \in Seq(Steps) /\ Followed(t, {"functions"}, {"edge"}) /\ Preceded(t, Tells, Computes)
           /\ Has(t, {"edge"}) /\ Has(t, {"gnb"}) /\ Has(t, Tells) /\ Has(t, Computes)
           /\ ~Has(t, {"functions"}) /\ ~Has(t, {"subscribers"})
<1>1. /\ t \in Seq(Steps) /\ Len(t) = 5
      /\ t[1] = "edge" /\ t[2] = "values" /\ t[3] = "push" /\ t[4] = "edge" /\ t[5] = "gnb"
  BY DEF Steps
<1>2. /\ \A i \in 1..Len(t) : i = 1 \/ i = 2 \/ i = 3 \/ i = 4 \/ i = 5
      /\ 1 \in 1..Len(t) /\ 2 \in 1..Len(t) /\ 3 \in 1..Len(t) /\ 4 \in 1..Len(t)
      /\ 5 \in 1..Len(t) /\ 2 \in 1..(3 - 1)
  BY <1>1
<1>. QED
  BY <1>1, <1>2 DEF Followed, Preceded, Has, Tells, Computes, Ends

LEMMA ProgramOaiCreate ==
    ASSUME NEW t, t = <<"edge", "chart", "values", "install", "functions", "subscribers", "edge", "gnb">>
    PROVE  /\ t \in Seq(Steps) /\ Followed(t, {"functions"}, {"edge"}) /\ Preceded(t, Tells, Computes)
           /\ Has(t, {"edge"}) /\ Has(t, {"gnb"}) /\ Has(t, Tells) /\ Has(t, Computes)
<1>1. /\ t \in Seq(Steps) /\ Len(t) = 8
      /\ t[1] = "edge" /\ t[2] = "chart" /\ t[3] = "values" /\ t[4] = "install" /\ t[5] = "functions" /\ t[6] = "subscribers" /\ t[7] = "edge" /\ t[8] = "gnb"
  BY DEF Steps
<1>2. /\ \A i \in 1..Len(t) : i = 1 \/ i = 2 \/ i = 3 \/ i = 4 \/ i = 5 \/ i = 6 \/ i = 7 \/ i = 8
      /\ 1 \in 1..Len(t) /\ 2 \in 1..Len(t) /\ 3 \in 1..Len(t) /\ 4 \in 1..Len(t)
      /\ 5 \in 1..Len(t) /\ 6 \in 1..Len(t) /\ 7 \in 1..Len(t) /\ 8 \in 1..Len(t)
      /\ 3 \in 1..(4 - 1) /\ 7 \in (5 + 1)..Len(t)
  BY <1>1
<1>. QED
  BY <1>1, <1>2 DEF Followed, Preceded, Has, Tells, Computes, Ends

LEMMA ProgramOaiAddUes ==
    ASSUME NEW t, t = <<"subscribers">>
    PROVE  /\ t \in Seq(Steps) /\ Followed(t, {"functions"}, {"edge"}) /\ Preceded(t, Tells, Computes)
           /\ ~Has(t, {"functions"})
<1>1. /\ t \in Seq(Steps) /\ Len(t) = 1
      /\ t[1] = "subscribers"
  BY DEF Steps
<1>2. /\ \A i \in 1..Len(t) : i = 1
      /\ 1 \in 1..Len(t)
  BY <1>1
<1>. QED
  BY <1>1, <1>2 DEF Followed, Preceded, Has, Tells, Computes, Ends

LEMMA ProgramOaiDelUes ==
    ASSUME NEW t, t = <<"disassociate", "values", "push", "gnb", "udr_del">>
    PROVE  /\ t \in Seq(Steps) /\ Followed(t, {"functions"}, {"edge"}) /\ Preceded(t, Tells, Computes)
           /\ Has(t, {"gnb"}) /\ Has(t, Tells) /\ Has(t, Computes)
           /\ ~Has(t, {"functions"}) /\ ~Has(t, {"subscribers"})
<1>1. /\ t \in Seq(Steps) /\ Len(t) = 5
      /\ t[1] = "disassociate" /\ t[2] = "values" /\ t[3] = "push" /\ t[4] = "gnb" /\ t[5] = "udr_del"
  BY DEF Steps
<1>2. /\ \A i \in 1..Len(t) : i = 1 \/ i = 2 \/ i = 3 \/ i = 4 \/ i = 5
      /\ 1 \in 1..Len(t) /\ 2 \in 1..Len(t) /\ 3 \in 1..Len(t) /\ 4 \in 1..Len(t)
      /\ 5 \in 1..Len(t) /\ 2 \in 1..(3 - 1)
  BY <1>1
<1>. QED
  BY <1>1, <1>2 DEF Followed, Preceded, Has, Tells, Computes, Ends

LEMMA ProgramRaise ==
    ASSUME NEW t, t = <<"raise">>
    PROVE  /\ t \in Seq(Steps) /\ Followed(t, {"functions"}, {"edge"}) /\ Preceded(t, Tells, Computes)
           /\ Has(t, Ends)
           /\ ~Has(t, {"functions"}) /\ ~Has(t, {"subscribers"})
<1>1. /\ t \in Seq(Steps) /\ Len(t) = 1
      /\ t[1] = "raise"
  BY DEF Steps
<1>2. /\ \A i \in 1..Len(t) : i = 1
      /\ 1 \in 1..Len(t)
  BY <1>1
<1>. QED
  BY <1>1, <1>2 DEF Followed, Preceded, Has, Tells, Computes, Ends

(* free5GC. *)
LEMMA ProgramFree5gcCreate ==
    ASSUME NEW t, t = <<"edge", "chart", "values", "install", "raise">>
    PROVE  /\ t \in Seq(Steps) /\ Followed(t, {"functions"}, {"edge"}) /\ Preceded(t, Tells, Computes)
           /\ Has(t, {"edge"}) /\ Has(t, Tells) /\ Has(t, Computes) /\ Has(t, Ends)
           /\ ~Has(t, {"functions"}) /\ ~Has(t, {"subscribers"})
<1>1. /\ t \in Seq(Steps) /\ Len(t) = 5
      /\ t[1] = "edge" /\ t[2] = "chart" /\ t[3] = "values" /\ t[4] = "install" /\ t[5] = "raise"
  BY DEF Steps
<1>2. /\ \A i \in 1..Len(t) : i = 1 \/ i = 2 \/ i = 3 \/ i = 4 \/ i = 5
      /\ 1 \in 1..Len(t) /\ 2 \in 1..Len(t) /\ 3 \in 1..Len(t) /\ 4 \in 1..Len(t)
      /\ 5 \in 1..Len(t) /\ 3 \in 1..(4 - 1)
  BY <1>1
<1>. QED
  BY <1>1, <1>2 DEF Followed, Preceded, Has, Tells, Computes, Ends

(* Athonet. *)
LEMMA ProgramAthonetCreate ==
    ASSUME NEW t, t = <<"edge", "pdu", "supis", "values", "push", "subscribers", "edge", "gnb">>
    PROVE  /\ t \in Seq(Steps) /\ Followed(t, {"functions"}, {"edge"}) /\ Preceded(t, Tells, Computes)
           /\ Has(t, {"edge"}) /\ Has(t, {"gnb"}) /\ Has(t, Tells) /\ Has(t, Computes)
           /\ ~Has(t, {"functions"})
<1>1. /\ t \in Seq(Steps) /\ Len(t) = 8
      /\ t[1] = "edge" /\ t[2] = "pdu" /\ t[3] = "supis" /\ t[4] = "values" /\ t[5] = "push"
      /\ t[6] = "subscribers" /\ t[7] = "edge" /\ t[8] = "gnb"
  BY DEF Steps
<1>2. /\ \A i \in 1..Len(t) : i = 1 \/ i = 2 \/ i = 3 \/ i = 4 \/ i = 5 \/ i = 6 \/ i = 7 \/ i = 8
      /\ 1 \in 1..Len(t) /\ 2 \in 1..Len(t) /\ 3 \in 1..Len(t) /\ 4 \in 1..Len(t)
      /\ 5 \in 1..Len(t) /\ 6 \in 1..Len(t) /\ 7 \in 1..Len(t) /\ 8 \in 1..Len(t) /\ 4 \in 1..(5 - 1)
  BY <1>1
<1>. QED
  BY <1>1, <1>2 DEF Followed, Preceded, Has, Tells, Computes, Ends

LEMMA ProgramAthonetAddUes ==
    ASSUME NEW t, t = <<"infos", "values", "push", "subscribers">>
    PROVE  /\ t \in Seq(Steps) /\ Followed(t, {"functions"}, {"edge"}) /\ Preceded(t, Tells, Computes)
           /\ Has(t, Tells) /\ Has(t, Computes)
           /\ ~Has(t, {"functions"})
<1>1. /\ t \in Seq(Steps) /\ Len(t) = 4
      /\ t[1] = "infos" /\ t[2] = "values" /\ t[3] = "push" /\ t[4] = "subscribers"
  BY DEF Steps
<1>2. /\ \A i \in 1..Len(t) : i = 1 \/ i = 2 \/ i = 3 \/ i = 4
      /\ 1 \in 1..Len(t) /\ 2 \in 1..Len(t) /\ 3 \in 1..Len(t) /\ 4 \in 1..Len(t)
      /\ 2 \in 1..(3 - 1)
  BY <1>1
<1>. QED
  BY <1>1, <1>2 DEF Followed, Preceded, Has, Tells, Computes, Ends

LEMMA ProgramAthonetDelUes ==
    ASSUME NEW t, t = <<"del_user", "values", "push">>
    PROVE  /\ t \in Seq(Steps) /\ Followed(t, {"functions"}, {"edge"}) /\ Preceded(t, Tells, Computes)
           /\ Has(t, Tells) /\ Has(t, Computes)
           /\ ~Has(t, {"functions"}) /\ ~Has(t, {"subscribers"})
<1>1. /\ t \in Seq(Steps) /\ Len(t) = 3
      /\ t[1] = "del_user" /\ t[2] = "values" /\ t[3] = "push"
  BY DEF Steps
<1>2. /\ \A i \in 1..Len(t) : i = 1 \/ i = 2 \/ i = 3
      /\ 1 \in 1..Len(t) /\ 2 \in 1..Len(t) /\ 3 \in 1..Len(t) /\ 2 \in 1..(3 - 1)
  BY <1>1
<1>. QED
  BY <1>1, <1>2 DEF Followed, Preceded, Has, Tells, Computes, Ends

LEMMA ProgramAthonetDnn ==
    ASSUME NEW t, t = <<"values", "push", "values", "push", "edge">>
    PROVE  /\ t \in Seq(Steps) /\ Followed(t, {"functions"}, {"edge"}) /\ Preceded(t, Tells, Computes)
           /\ Has(t, {"edge"}) /\ Has(t, Tells) /\ Has(t, Computes)
           /\ ~Has(t, {"functions"}) /\ ~Has(t, {"subscribers"})
<1>1. /\ t \in Seq(Steps) /\ Len(t) = 5
      /\ t[1] = "values" /\ t[2] = "push" /\ t[3] = "values" /\ t[4] = "push" /\ t[5] = "edge"
  BY DEF Steps
<1>2. /\ \A i \in 1..Len(t) : i = 1 \/ i = 2 \/ i = 3 \/ i = 4 \/ i = 5
      /\ 1 \in 1..Len(t) /\ 2 \in 1..Len(t) /\ 3 \in 1..Len(t) /\ 4 \in 1..Len(t)
      /\ 5 \in 1..Len(t) /\ 1 \in 1..(2 - 1) /\ 1 \in 1..(4 - 1)
  BY <1>1
<1>. QED
  BY <1>1, <1>2 DEF Followed, Preceded, Has, Tells, Computes, Ends

LEMMA ProgramAthonetSlice ==
    ASSUME NEW t, t = <<"edge", "gnb", "values", "push">> \o <<"values", "push">>
    PROVE  /\ t \in Seq(Steps) /\ Followed(t, {"functions"}, {"edge"}) /\ Preceded(t, Tells, Computes)
           /\ Has(t, {"edge"}) /\ Has(t, {"gnb"}) /\ Has(t, Tells) /\ Has(t, Computes)
           /\ ~Has(t, {"functions"}) /\ ~Has(t, {"subscribers"})
<1>1. /\ t \in Seq(Steps) /\ Len(t) = 6
      /\ t[1] = "edge" /\ t[2] = "gnb" /\ t[3] = "values" /\ t[4] = "push" /\ t[5] = "values" /\ t[6] = "push"
  BY DEF Steps
<1>2. /\ \A i \in 1..Len(t) : i = 1 \/ i = 2 \/ i = 3 \/ i = 4 \/ i = 5 \/ i = 6
      /\ 1 \in 1..Len(t) /\ 2 \in 1..Len(t) /\ 3 \in 1..Len(t) /\ 4 \in 1..Len(t)
      /\ 5 \in 1..Len(t) /\ 6 \in 1..Len(t) /\ 3 \in 1..(4 - 1) /\ 3 \in 1..(6 - 1)
  BY <1>1
<1>. QED
  BY <1>1, <1>2 DEF Followed, Preceded, Has, Tells, Computes, Ends

LEMMA ProgramAthonetDestroy ==
    ASSUME NEW t, t = <<"restore", "supis", "children">>
    PROVE  /\ t \in Seq(Steps) /\ Followed(t, {"functions"}, {"edge"}) /\ Preceded(t, Tells, Computes)
           /\ Has(t, Ends)
           /\ ~Has(t, {"functions"}) /\ ~Has(t, {"subscribers"})
<1>1. /\ t \in Seq(Steps) /\ Len(t) = 3
      /\ t[1] = "restore" /\ t[2] = "supis" /\ t[3] = "children"
  BY DEF Steps
<1>2. /\ \A i \in 1..Len(t) : i = 1 \/ i = 2 \/ i = 3
      /\ 1 \in 1..Len(t) /\ 2 \in 1..Len(t) /\ 3 \in 1..Len(t)
  BY <1>1
<1>. QED
  BY <1>1, <1>2 DEF Followed, Preceded, Has, Tells, Computes, Ends

LEMMA ProgramDestroy ==
    ASSUME NEW t, t = <<"children">>
    PROVE  /\ t \in Seq(Steps) /\ Followed(t, {"functions"}, {"edge"}) /\ Preceded(t, Tells, Computes)
           /\ Has(t, Ends)
           /\ ~Has(t, {"functions"}) /\ ~Has(t, {"subscribers"})
<1>1. /\ t \in Seq(Steps) /\ Len(t) = 1
      /\ t[1] = "children"
  BY DEF Steps
<1>2. /\ \A i \in 1..Len(t) : i = 1
      /\ 1 \in 1..Len(t)
  BY <1>1
<1>. QED
  BY <1>1, <1>2 DEF Followed, Preceded, Has, Tells, Computes, Ends

LEMMA ProgramsAreSane ==
    ASSUME kind \in {"oai", "free5gc", "sdcore", "athonet"}, NEW name \in Ops
    PROVE  Sane(name, Program(name))
<1>1. PICK t : t = Program(name)
  OBVIOUS
<1>2. CASE name = "destroy"
  <2>1. t = IF kind = "athonet" THEN <<"restore", "supis", "children">> ELSE <<"children">>
    BY <1>1, <1>2 DEF Program
  <2>2. t \in Seq(Steps) /\ Followed(t, {"functions"}, {"edge"}) /\ Preceded(t, Tells, Computes) /\ Has(t, Ends)
          /\ ~Has(t, {"functions"}) /\ ~Has(t, {"subscribers"})
    <3>1. CASE kind = "athonet"
      BY <2>1, <3>1, ProgramAthonetDestroy
    <3>2. CASE kind # "athonet"
      BY <2>1, <3>2, ProgramDestroy
    <3>. QED
      BY <3>1, <3>2
  <2>. QED
    BY <1>1, <1>2, <2>2 DEF Sane, Complete
<1>3. CASE name # "destroy" /\ kind = "oai"
  <2>1. t = OaiProgram(name)
    BY <1>1, <1>3 DEF Program
  <2>2. CASE name = "create"
    <3>1. t = <<"edge", "chart", "values", "install", "functions", "subscribers", "edge", "gnb">>
      BY <2>1, <2>2 DEF OaiProgram
    <3>. QED
      BY <1>1, <1>3, <2>2, <3>1, ProgramOaiCreate DEF Sane
  <2>3. CASE name = "add_ues"
    <3>1. t = <<"subscribers">>
      BY <2>1, <2>3 DEF OaiProgram
    <3>. QED
      BY <1>1, <1>3, <2>3, <3>1, ProgramOaiAddUes DEF Sane, Complete
  <2>4. CASE name = "del_ues"
    <3>1. t = <<"disassociate", "values", "push", "gnb", "udr_del">>
      BY <2>1, <2>4 DEF OaiProgram
    <3>. QED
      BY <1>1, <1>3, <2>4, <3>1, ProgramOaiDelUes DEF Sane, Complete
  <2>5. CASE name \in {"add_dnn", "del_dnn"}
    <3>1. t = <<"raise">>
      BY <2>1, <2>5 DEF OaiProgram
    <3>. QED
      BY <1>1, <1>3, <2>5, <3>1, ProgramRaise DEF Sane, Complete
  <2>6. CASE name \in {"add_slice", "del_slice", "add_tac", "del_tac"}
    <3>1. t = <<"edge", "values", "push", "edge", "gnb">>
      BY <2>1, <2>6 DEF OaiProgram, OaiUpdate
    <3>. QED
      BY <1>1, <1>3, <2>6, <3>1, ProgramOaiUpdate DEF Sane, Complete
  <2>. QED
    BY <1>3, <2>2, <2>3, <2>4, <2>5, <2>6 DEF Ops
<1>4. CASE name # "destroy" /\ kind = "free5gc"
  <2>1. t = Free5gcProgram(name)
    BY <1>1, <1>4 DEF Program
  <2>2. CASE name = "create"
    <3>1. t = <<"edge", "chart", "values", "install", "raise">>
      BY <2>1, <2>2 DEF Free5gcProgram
    <3>. QED
      BY <1>1, <1>4, <2>2, <3>1, ProgramFree5gcCreate DEF Sane
  <2>3. CASE name \in {"add_ues", "del_ues", "del_slice"}
    <3>1. t = <<"raise">>
      BY <2>1, <2>3 DEF Free5gcProgram
    <3>. QED
      BY <1>1, <1>4, <2>3, <3>1, ProgramRaise DEF Sane
  <2>4. CASE name \in {"add_dnn", "del_dnn"}
    <3>1. t = <<>>
      BY <2>1, <2>4 DEF Free5gcProgram
    <3>. QED
      BY <1>1, <1>4, <2>4, <3>1, EmptySteps DEF Sane, Complete
  <2>5. CASE name \in {"add_slice", "add_tac", "del_tac"}
    <3>1. t = <<"edge", "values", "push", "edge", "gnb">>
      BY <2>1, <2>5 DEF Free5gcProgram, OaiUpdate
    <3>. QED
      BY <1>1, <1>4, <2>5, <3>1, ProgramOaiUpdate DEF Sane, Complete
  <2>. QED
    BY <1>4, <2>2, <2>3, <2>4, <2>5 DEF Ops
<1>5. CASE name # "destroy" /\ kind = "sdcore"
  <2>1. t = SdcoreProgram(name)
    BY <1>1, <1>5 DEF Program
  <2>2. CASE name = "create"
    <3>1. t = <<"edge", "values", "chart", "install", "functions", "ready", "edge", "gnb">>
      BY <2>1, <2>2 DEF SdcoreProgram
    <3>. QED
      BY <1>1, <1>5, <2>2, <3>1, ProgramSdcoreCreate DEF Sane
  <2>3. CASE name \in {"add_slice", "del_slice", "add_tac", "del_tac"}
    <3>1. t = <<"edge", "gnb", "values", "push">>
      BY <2>1, <2>3 DEF SdcoreProgram, GenericProgram
    <3>. QED
      BY <1>1, <1>5, <2>3, <3>1, ProgramGeneric DEF Sane
  <2>4. CASE name \in {"add_ues", "del_ues", "add_dnn", "del_dnn"}
    <3>1. t = <<"values", "push">>
      BY <2>1, <2>4 DEF SdcoreProgram, GenericProgram
    <3>. QED
      BY <1>1, <1>5, <2>4, <3>1, ProgramValues DEF Sane, Complete
  <2>. QED
    BY <1>5, <2>2, <2>3, <2>4 DEF Ops
<1>6. CASE name # "destroy" /\ kind = "athonet"
  <2>1. t = AthonetProgram(name)
    BY <1>1, <1>6 DEF Program
  <2>2. CASE name = "create"
    <3>1. t = <<"edge", "pdu", "supis", "values", "push", "subscribers", "edge", "gnb">>
      BY <2>1, <2>2 DEF AthonetProgram
    <3>. QED
      BY <1>1, <1>6, <2>2, <3>1, ProgramAthonetCreate DEF Sane
  <2>3. CASE name = "add_ues"
    <3>1. t = <<"infos", "values", "push", "subscribers">>
      BY <2>1, <2>3 DEF AthonetProgram
    <3>. QED
      BY <1>1, <1>6, <2>3, <3>1, ProgramAthonetAddUes DEF Sane, Complete
  <2>4. CASE name = "del_ues"
    <3>1. t = <<"del_user", "values", "push">>
      BY <2>1, <2>4 DEF AthonetProgram
    <3>. QED
      BY <1>1, <1>6, <2>4, <3>1, ProgramAthonetDelUes DEF Sane, Complete
  <2>5. CASE name \in {"add_dnn", "del_dnn"}
    <3>1. t = <<"values", "push", "values", "push", "edge">>
      BY <2>1, <2>5 DEF AthonetProgram
    <3>. QED
      BY <1>1, <1>6, <2>5, <3>1, ProgramAthonetDnn DEF Sane, Complete
  <2>6. CASE name \in {"add_slice", "del_slice"}
    <3>1. t = <<"edge", "gnb", "values", "push">> \o <<"values", "push">>
      BY <2>1, <2>6 DEF AthonetProgram, GenericProgram
    <3>. QED
      BY <1>1, <1>6, <2>6, <3>1, ProgramAthonetSlice DEF Sane
  <2>7. CASE name \in {"add_tac", "del_tac"}
    <3>1. t = <<"edge", "gnb", "values", "push">>
      BY <2>1, <2>7 DEF AthonetProgram, GenericProgram
    <3>. QED
      BY <1>1, <1>6, <2>7, <3>1, ProgramGeneric DEF Sane
  <2>. QED
    BY <1>6, <2>2, <2>3, <2>4, <2>5, <2>6, <2>7 DEF Ops
<1>. QED
  BY <1>2, <1>3, <1>4, <1>5, <1>6

-----------------------------------------------------------------------------
(* Configurations. *)

LEMMA PartialIff ==
    ASSUME NEW S, NEW T, NEW f
    PROVE  f \in Partial(S, T) <=> DOMAIN f \subseteq S /\ f \in [DOMAIN f -> T]
  BY DEF Partial

LEMMA ConfigParts ==
    ASSUME NEW c \in Config
    PROVE  /\ AreasOf(c) \subseteq Areas /\ c.areas \in [AreasOf(c) -> SUBSET Slices]
           /\ \A a \in AreasOf(c) : c.areas[a] \subseteq Slices
           /\ c.profiles \subseteq Slices /\ c.nets \subseteq Dnns
           /\ DOMAIN c.subs \subseteq Ues /\ c.subs \in [DOMAIN c.subs -> SUBSET Slices]
           /\ OfferedSlices(c) \subseteq Slices
<1>1. /\ c.areas \in Partial(Areas, SUBSET Slices) /\ c.subs \in Partial(Ues, SUBSET Slices)
      /\ c.profiles \subseteq Slices /\ c.nets \subseteq Dnns
  BY DEF Config
<1>2. AreasOf(c) \subseteq Areas /\ c.areas \in [AreasOf(c) -> SUBSET Slices]
  BY <1>1, PartialIff DEF AreasOf
<1>3. DOMAIN c.subs \subseteq Ues /\ c.subs \in [DOMAIN c.subs -> SUBSET Slices]
  BY <1>1, PartialIff
<1>4. \A a \in AreasOf(c) : c.areas[a] \subseteq Slices
  BY <1>2
<1>. QED
  BY <1>1, <1>2, <1>3, <1>4 DEF OfferedSlices

LEMMA NewSubs ==
    ASSUME NEW c \in Config, NEW S \in Partial(Ues, SUBSET Slices), NEW d, d = [c EXCEPT !.subs = S]
    PROVE  d \in Config /\ d.areas = c.areas /\ d.profiles = c.profiles /\ d.nets = c.nets
  BY DEF Config

LEMMA NewNets ==
    ASSUME NEW c \in Config, NEW N \in SUBSET Dnns, NEW d, d = [c EXCEPT !.nets = N]
    PROVE  d \in Config /\ d.areas = c.areas /\ d.profiles = c.profiles /\ d.subs = c.subs /\ d.nets = N
  BY DEF Config

LEMMA NewAreas ==
    ASSUME NEW c \in Config, NEW A \in Partial(Areas, SUBSET Slices), NEW d, d = [c EXCEPT !.areas = A]
    PROVE  d \in Config /\ d.profiles = c.profiles
  BY DEF Config

LEMMA NewProfiles ==
    ASSUME NEW c \in Config, NEW A \in Partial(Areas, SUBSET Slices), NEW P \in SUBSET Slices,
           NEW d, d = [c EXCEPT !.profiles = P, !.areas = A]
    PROVE  d \in Config /\ d.profiles = P
  BY DEF Config

LEMMA WithIsPartial ==
    ASSUME NEW S, NEW T, NEW f \in Partial(S, T), NEW x \in S, NEW v \in T
    PROVE  With(f, x, v) \in Partial(S, T) /\ Without(f, x) \in Partial(S, T)
<1>1. DOMAIN f \subseteq S /\ f \in [DOMAIN f -> T]
  BY PartialIff
<1>2. With(f, x, v) \in [DOMAIN f \cup {x} -> T] /\ DOMAIN With(f, x, v) = DOMAIN f \cup {x}
  BY <1>1 DEF With
<1>3. Without(f, x) \in [DOMAIN f \ {x} -> T] /\ DOMAIN Without(f, x) = DOMAIN f \ {x}
  BY <1>1 DEF Without
<1>. QED
  BY <1>1, <1>2, <1>3, PartialIff

(* What the day-2 operation name makes of configuration c. *)
Edited(name, c, d) ==
    /\ d \in Config
    /\ configuration_feasibility_check(c) => configuration_feasibility_check(d)
    /\ name \in {"add_ues", "del_ues"} => d.areas = c.areas /\ d.profiles = c.profiles /\ d.nets = c.nets
    /\ name \in {"add_dnn", "del_dnn"} => d.areas = c.areas /\ d.profiles = c.profiles /\ d.subs = c.subs
    /\ name = "add_dnn" => c.nets \subseteq d.nets
    /\ name = "del_dnn" => \A s \in c.profiles : DnnsOf[s] \cap c.nets = DnnsOf[s] \cap d.nets

Day2Ops == Ops \ {"create", "destroy"}

LEMMA Day2Names ==
    /\ "add_slice" \in Day2Ops /\ "del_slice" \in Day2Ops /\ "add_tac" \in Day2Ops /\ "del_tac" \in Day2Ops
    /\ "add_dnn" \in Day2Ops /\ "del_dnn" \in Day2Ops /\ "add_ues" \in Day2Ops /\ "del_ues" \in Day2Ops
    /\ "create" \in Ops /\ "destroy" \in Ops
  BY DEF Day2Ops, Ops

LEMMA EditsUes ==
    ASSUME NEW c \in Config, NEW u \in Ues, NEW S \in SUBSET Slices
    PROVE  /\ Edited("add_ues", c, [c EXCEPT !.subs = With(@, u, S)])
           /\ Edited("del_ues", c, [c EXCEPT !.subs = Without(@, u)])
<1>1. c.subs \in Partial(Ues, SUBSET Slices)
  BY DEF Config
<1>2. With(c.subs, u, S) \in Partial(Ues, SUBSET Slices) /\ Without(c.subs, u) \in Partial(Ues, SUBSET Slices)
  BY <1>1, WithIsPartial
<1>3. PICK d : d = [c EXCEPT !.subs = With(@, u, S)]
  OBVIOUS
<1>4. PICK e : e = [c EXCEPT !.subs = Without(@, u)]
  OBVIOUS
<1>5. d \in Config /\ d.areas = c.areas /\ d.profiles = c.profiles /\ d.nets = c.nets
  <2>1. PICK f \in Partial(Ues, SUBSET Slices) : f = With(c.subs, u, S)
    BY <1>2
  <2>2. d = [c EXCEPT !.subs = f]
    BY <1>3, <2>1
  <2>. QED
    BY <2>2, NewSubs
<1>6. e \in Config /\ e.areas = c.areas /\ e.profiles = c.profiles /\ e.nets = c.nets
  <2>1. PICK f \in Partial(Ues, SUBSET Slices) : f = Without(c.subs, u)
    BY <1>2
  <2>2. e = [c EXCEPT !.subs = f]
    BY <1>4, <2>1
  <2>. QED
    BY <2>2, NewSubs
<1>. QED
  BY <1>3, <1>4, <1>5, <1>6 DEF Edited, configuration_feasibility_check

LEMMA EditsDnns ==
    ASSUME NEW c \in Config, NEW n \in Dnns
    PROVE  /\ Edited("add_dnn", c, [c EXCEPT !.nets = @ \cup {n}])
           /\ (\A s \in c.profiles : n \notin DnnsOf[s]) => Edited("del_dnn", c, [c EXCEPT !.nets = @ \ {n}])
<1>1. c.nets \cup {n} \in SUBSET Dnns /\ c.nets \ {n} \in SUBSET Dnns
  BY ConfigParts
<1>3. PICK d : d = [c EXCEPT !.nets = @ \cup {n}]
  OBVIOUS
<1>4. PICK e : e = [c EXCEPT !.nets = @ \ {n}]
  OBVIOUS
<1>5. d = [c EXCEPT !.nets = c.nets \cup {n}] /\ e = [c EXCEPT !.nets = c.nets \ {n}]
  BY <1>3, <1>4 DEF Config
<1>6. /\ d \in Config /\ d.areas = c.areas /\ d.profiles = c.profiles /\ d.subs = c.subs /\ d.nets = c.nets \cup {n}
      /\ e \in Config /\ e.areas = c.areas /\ e.profiles = c.profiles /\ e.subs = c.subs /\ e.nets = c.nets \ {n}
  BY <1>1, <1>5, NewNets
<1>. QED
  BY <1>3, <1>4, <1>6 DEF Edited, configuration_feasibility_check

LEMMA EditsAreas ==
    ASSUME NEW c \in Config, NEW a \in Areas, NEW S \in SUBSET Slices
    PROVE  /\ Edited("add_tac", c, [c EXCEPT !.areas = With(@, a, S)])
           /\ Edited("del_tac", c, [c EXCEPT !.areas = Without(@, a)])
<1>1. c.areas \in Partial(Areas, SUBSET Slices)
  BY DEF Config
<1>2. With(c.areas, a, S) \in Partial(Areas, SUBSET Slices) /\ Without(c.areas, a) \in Partial(Areas, SUBSET Slices)
  BY <1>1, WithIsPartial
<1>3. PICK d : d = [c EXCEPT !.areas = With(@, a, S)]
  OBVIOUS
<1>4. PICK e : e = [c EXCEPT !.areas = Without(@, a)]
  OBVIOUS
<1>5. d = [c EXCEPT !.areas = With(c.areas, a, S)] /\ e = [c EXCEPT !.areas = Without(c.areas, a)]
  BY <1>3, <1>4 DEF Config
<1>6. d \in Config /\ d.profiles = c.profiles /\ e \in Config /\ e.profiles = c.profiles
  BY <1>2, <1>5, NewAreas
<1>. QED
  BY <1>3, <1>4, <1>6 DEF Edited, configuration_feasibility_check

LEMMA EditsSlices ==
    ASSUME current_config \in Config, NEW s \in Slices, NEW A
    PROVE  /\ configuration_feasibility_check(WithSlice(s, A)) => Edited("add_slice", current_config, WithSlice(s, A))
           /\ Edited("del_slice", current_config, [current_config EXCEPT
                !.profiles = @ \ {s}, !.areas = [a \in DOMAIN @ |-> @[a] \ {s}]])
<1>1. PICK c \in Config : c = current_config
  OBVIOUS
<1>2. PICK f : f = [a \in DOMAIN c.areas |-> IF a \in A THEN c.areas[a] \cup {s} ELSE c.areas[a]]
  OBVIOUS
<1>3. PICK g : g = [a \in DOMAIN c.areas |-> c.areas[a] \ {s}]
  OBVIOUS
<1>4. DOMAIN c.areas \subseteq Areas /\ \A a \in DOMAIN c.areas : c.areas[a] \subseteq Slices
  BY ConfigParts DEF AreasOf
<1>5. f \in Partial(Areas, SUBSET Slices) /\ g \in Partial(Areas, SUBSET Slices)
  BY <1>2, <1>3, <1>4, PartialIff
<1>6. PICK d : d = WithSlice(s, A)
  OBVIOUS
<1>7. PICK e : e = [current_config EXCEPT !.profiles = @ \ {s}, !.areas = [a \in DOMAIN @ |-> @[a] \ {s}]]
  OBVIOUS
<1>8. PICK P : P = c.profiles \cup {s}
  OBVIOUS
<1>9. PICK Q : Q = c.profiles \ {s}
  OBVIOUS
<1>10. P \in SUBSET Slices /\ Q \in SUBSET Slices
  BY <1>8, <1>9, ConfigParts
<1>13. d = [c EXCEPT !.profiles = P, !.areas = f]
  BY <1>1, <1>2, <1>6, <1>8 DEF WithSlice, Config
<1>14. e = [c EXCEPT !.profiles = Q, !.areas = g]
  BY <1>1, <1>3, <1>7, <1>9 DEF Config
<1>15. d \in Config
  BY <1>5, <1>10, <1>13, NewProfiles
<1>16. e \in Config /\ e.profiles = Q
  BY <1>5, <1>10, <1>14 DEF Config
<1>11. d \in Config /\ e \in Config /\ e.profiles = c.profiles \ {s}
  BY <1>9, <1>15, <1>16
<1>12. configuration_feasibility_check(c) => configuration_feasibility_check(e)
  BY <1>11 DEF configuration_feasibility_check
<1>. QED
  BY <1>1, <1>6, <1>7, <1>11, <1>12 DEF Edited

(* A request: create, a day-2 operation with its edit, or destroy. *)
DayTwo ==
    \E name \in Day2Ops, ue \in Ues \cup {None}, c \in Config :
        Day2(name, ue, c) /\ Edited(name, current_config, c) /\ (name = "add_ues" => ue \in Ues)

LEMMA RequestIs ==
    ASSUME current_config \in Config, Request
    PROVE  \/ \E c \in Configs : create(c)
           \/ \E c \in Configs : create_raises(c)
           \/ DayTwo
           \/ destroy
<1>1. ASSUME NEW name \in Day2Ops, NEW ue \in Ues \cup {None}, NEW c, Day2(name, ue, c),
             Edited(name, current_config, c), name = "add_ues" => ue \in Ues
      PROVE  DayTwo
  BY <1>1 DEF Edited, DayTwo
<1>2. ASSUME NEW u \in Ues, NEW S \in SUBSET Slices, day2_add_ues(u, S)
      PROVE  DayTwo
  <2>1. PICK d : d = [current_config EXCEPT !.subs = With(@, u, S)]
    OBVIOUS
  <2>2. Day2("add_ues", u, d) /\ Edited("add_ues", current_config, d)
    BY <1>2, <2>1, EditsUes DEF day2_add_ues
  <2>. QED
    BY <2>2, <1>1, Day2Names
<1>3. ASSUME NEW u \in Ues, day2_del_ues(u)
      PROVE  DayTwo
  <2>1. PICK d : d = [current_config EXCEPT !.subs = Without(@, u)]
    OBVIOUS
  <2>2. Day2("del_ues", u, d) /\ Edited("del_ues", current_config, d)
    BY <1>3, <2>1, EditsUes DEF day2_del_ues
  <2>. QED
    BY <2>2, <1>1, Day2Names
<1>4. ASSUME NEW n \in Dnns, day2_add_dnn(n)
      PROVE  DayTwo
  <2>1. PICK d : d = [current_config EXCEPT !.nets = @ \cup {n}]
    OBVIOUS
  <2>2. Day2("add_dnn", None, d) /\ Edited("add_dnn", current_config, d)
    BY <1>4, <2>1, EditsDnns DEF day2_add_dnn
  <2>. QED
    BY <2>2, <1>1, Day2Names
<1>5. ASSUME NEW n \in Dnns, day2_del_dnn(n)
      PROVE  DayTwo
  <2>1. PICK d : d = [current_config EXCEPT !.nets = @ \ {n}]
    OBVIOUS
  <2>2. Day2("del_dnn", None, d) /\ Edited("del_dnn", current_config, d)
    BY <1>5, <2>1, EditsDnns DEF day2_del_dnn
  <2>. QED
    BY <2>2, <1>1, Day2Names
<1>6. ASSUME NEW s \in Slices, NEW A \in SUBSET Areas, day2_add_slice_oss(s, A) \/ day2_add_slice_operator(s, A)
      PROVE  DayTwo
  <2>1. PICK d : d = WithSlice(s, A)
    OBVIOUS
  <2>2. Day2("add_slice", None, d) /\ Edited("add_slice", current_config, d)
    BY <1>6, <2>1, EditsSlices DEF day2_add_slice_oss, day2_add_slice_operator, day2_add_slice_generic
  <2>. QED
    BY <2>2, <1>1, Day2Names
<1>7. ASSUME NEW s \in Slices, day2_del_slice(s)
      PROVE  DayTwo
  <2>1. PICK d : d = [current_config EXCEPT !.profiles = @ \ {s}, !.areas = [a \in DOMAIN @ |-> @[a] \ {s}]]
    OBVIOUS
  <2>2. Day2("del_slice", None, d) /\ Edited("del_slice", current_config, d)
    BY <1>7, <2>1, EditsSlices DEF day2_del_slice
  <2>. QED
    BY <2>2, <1>1, Day2Names
<1>8. ASSUME NEW a \in Areas, NEW S \in SUBSET Slices, day2_add_tac(a, S)
      PROVE  DayTwo
  <2>1. PICK d : d = [current_config EXCEPT !.areas = With(@, a, S)]
    OBVIOUS
  <2>2. Day2("add_tac", None, d) /\ Edited("add_tac", current_config, d)
    BY <1>8, <2>1, EditsAreas DEF day2_add_tac
  <2>. QED
    BY <2>2, <1>1, Day2Names
<1>9. ASSUME NEW a \in Areas, day2_del_tac(a)
      PROVE  DayTwo
  <2>1. PICK d : d = [current_config EXCEPT !.areas = Without(@, a)]
    OBVIOUS
  <2>2. Day2("del_tac", None, d) /\ Edited("del_tac", current_config, d)
    BY <1>9, <2>1, EditsAreas DEF day2_del_tac
  <2>. QED
    BY <2>2, <1>1, Day2Names
<1>. QED
  BY <1>2, <1>3, <1>4, <1>5, <1>6, <1>7, <1>8, <1>9 DEF Request

-----------------------------------------------------------------------------
(* What is computed from a configuration. *)

KindOk == kind \in {"oai", "free5gc", "sdcore", "athonet"}

LEMMA KindIsKnown == ASSUME kind \in Kinds PROVE KindOk
  BY KindsAssumption DEF KindOk

LEMMA ValuesType ==
    ASSUME NEW c \in Config, KindOk
    PROVE  ValuesOf(c) \in Values
<1>1. /\ AreasOf(c) \subseteq Areas /\ c.profiles \subseteq Slices /\ c.nets \subseteq Dnns
      /\ DOMAIN c.subs \subseteq Ues /\ OfferedSlices(c) \subseteq Slices
  BY ConfigParts
<1>2. Offered(c) \subseteq Areas \X Slices
  BY <1>1 DEF Offered
<1>3. DnnPairs(OfferedSlices(c)) \subseteq Slices \X Dnns /\ DnnPairs(c.profiles) \subseteq Slices \X Dnns
  BY <1>1 DEF DnnPairs
<1>4. AthonetSmf(c) \subseteq Slices \X Dnns
  BY <1>1 DEF AthonetSmf
<1>5. OaiValues(c) \in Values /\ Free5gcValues(c) \in Values
  BY <1>1, <1>2, <1>3 DEF OaiValues, Free5gcValues, Values, add_plmn_item, add_available_upf,
     add_dnn_snssai_smf_info_list_item, add_tai_supportedsnssailist, add_dnn_info_smf_item, add_dnnupfinfolist_smf
<1>6. SdcoreValues(c) \in Values
  BY <1>1, <1>2, <1>3 DEF SdcoreValues, Values, add_slice_from_generic_model
<1>7. AthonetValues(c) \in Values
  BY <1>2, <1>4 DEF AthonetValues, Values
<1>. QED
  BY <1>5, <1>6, <1>7 DEF ValuesOf, KindOk

Lists == Partial(Slices, SUBSET Dnns) \cup {None}

LEMMA UpfConfigType ==
    ASSUME current_config \in Config, core_deployed \in BOOLEAN, NEW a, HasProfiles(current_config, a)
    PROVE  newConfig(a) \in UpfConfig
<1>1. PICK D : D = current_config.areas[a]
  OBVIOUS
<1>2. PICK f : f = [s \in D |-> from_slice_profile(current_config, s)]
  OBVIOUS
<1>3. D \subseteq Slices /\ current_config.nets \subseteq Dnns
  BY <1>1, ConfigParts DEF HasProfiles
<1>4. DOMAIN f \subseteq Slices /\ f \in [DOMAIN f -> SUBSET Dnns]
  BY <1>2, <1>3 DEF from_slice_profile
<1>5. f \in Partial(Slices, SUBSET Dnns)
  BY <1>4, PartialIff
<1>6. newConfig(a) = [slices |-> f, nrf |-> core_deployed]
  BY <1>1, <1>2 DEF newConfig, create_upf_config
<1>. QED
  BY <1>5, <1>6 DEF UpfConfig

LEMMA SdcoreUpfType ==
    ASSUME NEW u \in Upf, NEW c \in UpfConfig
    PROVE  SdcoreUpfDeployed(u, c) \in Upf /\ SdcoreUpfDeployed(u, c).applied = c
<1> DEFINE old == IF u.list = None THEN {} ELSE DOMAIN u.list
           dnns == UNION {u.list[s] : s \in old}
           kept == {s \in old : u.list[s] \cap Wanted(c) # {}}
           new == {s \in DOMAIN c.slices : c.slices[s] \ dnns # {}}
           f == [s \in kept \cup new |-> IF s \in kept THEN u.list[s] ELSE c.slices[s]]
<1>1. u.list \in Lists /\ c.slices \in Partial(Slices, SUBSET Dnns)
  BY DEF Upf, UpfConfig, Lists
<1>2. DOMAIN c.slices \subseteq Slices /\ \A s \in DOMAIN c.slices : c.slices[s] \subseteq Dnns
  BY <1>1, PartialIff
<1>3. old \subseteq Slices /\ \A s \in old : u.list[s] \subseteq Dnns
  BY <1>1, PartialIff DEF Lists
<1>4. kept \cup new \subseteq Slices /\ \A s \in kept \cup new : f[s] \subseteq Dnns
  BY <1>2, <1>3
<1>5. DOMAIN f = kept \cup new
  OBVIOUS
<1>6. f \in [DOMAIN f -> SUBSET Dnns]
  BY <1>4
<1>7. f \in Lists
  BY <1>4, <1>5, <1>6, PartialIff DEF Lists
<1>8. SdcoreUpfDeployed(u, c) = [applied |-> c, list |-> IF kept \cup new = {} THEN None ELSE f]
  BY DEF SdcoreUpfDeployed
<1> HIDE DEF f, kept, new
<1>9. PICK l : l = IF kept \cup new = {} THEN None ELSE f
  OBVIOUS
<1>10. l \in Lists
  BY <1>7, <1>9 DEF Lists
<1>. QED
  BY <1>8, <1>9, <1>10 DEF Upf, Lists

LEMMA UpfTypes ==
    ASSUME KindOk, NEW c \in UpfConfig
    PROVE  /\ NewUpf \in Upf /\ UpfCreated(c) \in Upf
           /\ UpfCreated(c).applied = c \/ (kind \in {"oai", "free5gc"} /\ UpfCreated(c).applied = None)
           /\ \A u \in Upf : UpfUpdated(u, c) \in Upf /\ UpfUpdated(u, c).applied = c
<1>1. NewUpf \in Upf /\ c.slices \in Lists
  BY DEF NewUpf, Upf, UpfConfig, Lists
<1>2. CASE kind = "sdcore"
  <2>1. UpfCreated(c) = SdcoreUpfDeployed(NewUpf, c) /\ \A u : UpfUpdated(u, c) = SdcoreUpfDeployed(u, c)
    BY <1>2 DEF UpfCreated, UpfUpdated
  <2>. QED
    BY <1>1, <2>1, SdcoreUpfType
<1>3. CASE kind \in {"oai", "free5gc"}
  <2>1. UpfCreated(c) = [NewUpf EXCEPT !.list = c.slices]
    BY <1>3 DEF UpfCreated, OaiUpfCreated, Free5gcUpfCreated
  <2>2. UpfCreated(c) \in Upf /\ UpfCreated(c).applied = None
    BY <1>1, <2>1 DEF NewUpf, Upf, Lists
  <2>3. ASSUME NEW u \in Upf PROVE UpfUpdated(u, c) \in Upf /\ UpfUpdated(u, c).applied = c
    <3>1. CASE kind = "oai"
      <4>1. UpfUpdated(u, c) = [applied |-> c, list |-> c.slices]
        BY <3>1 DEF UpfUpdated, OaiUpfUpdated
      <4>. QED
        BY <1>1, <4>1 DEF Upf, Lists
    <3>2. CASE kind = "free5gc"
      <4>1. UpfUpdated(u, c) = [u EXCEPT !.applied = c]
        BY <3>2 DEF UpfUpdated, Free5gcUpfUpdated
      <4>. QED
        BY <4>1 DEF Upf
    <3>. QED
      BY <1>3, <3>1, <3>2
  <2>. QED
    BY <1>1, <1>3, <2>2, <2>3
<1>4. CASE kind = "athonet"
  <2>1. UpfCreated(c) = [applied |-> c, list |-> c.slices] /\ \A u : UpfUpdated(u, c) = [u EXCEPT !.applied = c]
    BY <1>4 DEF UpfCreated, AthonetUpfCreated, UpfUpdated, AthonetUpfUpdated
  <2>. QED
    BY <1>1, <2>1 DEF Upf, Lists
<1>. QED
  BY <1>2, <1>3, <1>4 DEF KindOk

-----------------------------------------------------------------------------
(* The type invariant in parts: the operation, the children, the core, the *)
(* gNBs and the count of failures.                                         *)

ControlType ==
    /\ kind \in Kinds /\ current_config \in Config /\ backup_config \in Config
    /\ op \in Operation \cup {None}
    /\ todo \in Seq(Steps) /\ left \subseteq Areas
    /\ at \in Position \cup {None}
    /\ answer \in {"none", "ok", "error"} /\ alive \in {"yes", "gone", "stuck", "hung"}
    /\ created \in BOOLEAN /\ sound \in BOOLEAN /\ ops \in 0..MaxOps

EdgeType ==
    /\ IsPartial(edge_areas, Areas, Edge)
    /\ children_blue_ids \subseteq Child /\ deployed_blueprints \subseteq Child
    /\ IsPartial(routers, Areas, Router) /\ IsPartial(upfs, Areas, Upf)
    /\ protected \subseteq Child /\ silent \subseteq Child
    /\ lost \subseteq Areas \X {"router", "upf", "pdu", "core"}

CoreType ==
    /\ chart \in {"none", "locked", "registered", "running"} /\ core_deployed \in BOOLEAN
    /\ values \in Values \cup {None} /\ live \in Values \cup {None, Mixed}
    /\ ue_dict \subseteq Ues /\ udr \subseteq Ues

RanType == ran_areas \subseteq Areas /\ locked \subseteq Areas /\ gnb \in Partial(Areas, SUBSET Slices)

FaultType == faults \in 0..MaxFaults

LEMMA TypeParts == TypeOK <=> ControlType /\ EdgeType /\ CoreType /\ RanType /\ FaultType
  BY DEF TypeOK, ControlType, EdgeType, CoreType, RanType, FaultType

LEMMA TypePartsNext ==
    ASSUME ControlType', EdgeType', CoreType', RanType', FaultType' PROVE TypeOK'
  BY DEF TypeOK, ControlType, EdgeType, CoreType, RanType, FaultType

LEMMA FaultTypes ==
    ASSUME FaultType, Fault \/ NoFault PROVE FaultType'
  BY BoundsAssumption DEF FaultType, Fault, NoFault

LEMMA LeftType ==
    ASSUME NEW c \in Config, NEW t
    PROVE  LeftAfter(t, c) \subseteq AreasOf(c) /\ LeftAfter(t, c) \subseteq Areas
  BY ConfigParts DEF LeftAfter

LEMMA AdvanceTypes ==
    ASSUME ControlType, todo # <<>>, Advance PROVE ControlType'
<1>1. Tail(todo) \in Seq(Steps)
  BY TailSteps DEF ControlType
<1>2. LeftAfter(Tail(todo), current_config) \subseteq Areas
  BY LeftType DEF ControlType
<1>. QED
  BY <1>1, <1>2 DEF ControlType, Advance, NoAnswer

LEMMA AbortTypes ==
    ASSUME ControlType, Abort PROVE ControlType'
<1>1. current_config' \in Config
  BY DEF ControlType, Abort, restored
<1>2. todo' \in Seq(Steps)
  BY EmptySteps DEF Abort
<1>. QED
  BY <1>1, <1>2 DEF ControlType, Abort

LEMMA StuckTypes ==
    ASSUME ControlType, Stuck PROVE ControlType'
  BY EmptySteps DEF ControlType, Stuck

LEMMA HangTypes ==
    ASSUME ControlType, Hang PROVE ControlType'
  BY DEF ControlType, Hang

LEMMA WithinTypes ==
    ASSUME ControlType, NEW l \in SUBSET Areas,
           NEW p \in Position \cup {None}, Within(l, p)
    PROVE  ControlType'
  BY DEF ControlType, Within, NoAnswer

LEMMA StartTypes ==
    ASSUME ControlType, NEW name \in Ops, NEW ue \in Ues \cup {None}, NEW c \in Config, Start(name, ue, c),
           ops' \in 0..MaxOps
    PROVE  ControlType' /\ Sane(name, todo') /\ op' # None /\ op'.name = name /\ op'.ue = ue
<1>1. Program(name) \in Seq(Steps) /\ Sane(name, Program(name))
  BY ProgramsAreSane, KindIsKnown DEF ControlType, KindOk, Sane
<1>2. LeftAfter(Program(name), c) \subseteq Areas
  BY LeftType
<1>3. PICK o : o = [name |-> name, ue |-> ue]
  OBVIOUS
<1>4. o \in Operation /\ o # None /\ o.name = name /\ o.ue = ue
  BY <1>3, NoneAssumption DEF Operation
<1>5. op' = o /\ todo' = Program(name)
  BY <1>3 DEF Start
<1>. QED
  BY <1>1, <1>2, <1>4, <1>5 DEF ControlType, Start

-----------------------------------------------------------------------------
(* The steps of the core: what each does when it succeeds.  A step that    *)
(* raises ends the operation.                                              *)

GnbsDone ==
    /\ \A a \in AreasOf(current_config) :
          a \in locked' \cap ran_areas' /\ a \in DOMAIN gnb' /\ gnb'[a] = current_config.areas[a]
    /\ AreasOf(current_config) # {} => core_deployed \/ kind = "athonet"

Effect(step) ==
    /\ step \notin Ends /\ (step = "edge" => at = None /\ EdgesOk)
    /\ core_deployed' = core_deployed \/ step = "functions"
    /\ IF step = "values" THEN Feasible(current_config) /\ values' = ValuesOf(current_config) ELSE values' = values
    /\ IF step \in Tells THEN live' = values \/ (kind = "athonet" /\ live' = Mixed) ELSE live' = live
    /\ IF step = "gnb" THEN GnbsDone ELSE UNCHANGED ranVars

CoreMove(step) ==
    /\ CoreStep(step) /\ step # "edge"
    /\ Fault \/ NoFault
    /\ CoreType' /\ RanType'
    /\ \/ Advance /\ Effect(step)
       \/ Abort /\ UNCHANGED core_deployed
       \/ Stuck /\ UNCHANGED core_deployed

LEMMA RegisterMoves ==
    ASSUME CoreType, RanType, register_resource PROVE CoreMove("chart")
  BY DEF register_resource, CoreMove, Effect, CoreType, RanType, Ends, Tells, ranVars

LEMMA ValuesMoves ==
    ASSUME ControlType, CoreType, RanType, update_core_values PROVE CoreMove("values")
<1>1. ValuesOf(current_config) \in Values
  BY ValuesType, KindIsKnown DEF ControlType
<1>. QED
  BY <1>1 DEF update_core_values, CoreMove, Effect, CoreType, RanType, Ends, Tells, ranVars

LEMMA InstallMoves ==
    ASSUME CoreType, RanType, install_helm_chart PROVE CoreMove("install")
  BY DEF install_helm_chart, CoreMove, Effect, CoreType, RanType, Ends, Tells, ranVars

LEMMA FunctionsMove ==
    ASSUME CoreType, RanType, update_k8s_network_functions PROVE CoreMove("functions")
  BY DEF update_k8s_network_functions, CoreMove, Effect, CoreType, RanType, Ends, Tells, ranVars

LEMMA ReadyMoves ==
    ASSUME CoreType, RanType, wait_core_ready PROVE CoreMove("ready")
  BY DEF wait_core_ready, CoreMove, Effect, CoreType, RanType, Ends, Tells, ranVars, coreVars

LEMMA PduMoves ==
    ASSUME CoreType, RanType, LockCorePdu PROVE CoreMove("pdu")
  BY DEF LockCorePdu, CoreMove, Effect, CoreType, RanType, Ends, Tells, ranVars

LEMMA PushMoves ==
    ASSUME CoreType, RanType, update_values_helm_chart \/ configure PROVE CoreMove("push")
<1>1. CASE update_values_helm_chart
  BY <1>1 DEF update_values_helm_chart, CoreMove, Effect, CoreType, RanType, Ends, Tells, ranVars
<1>2. CASE configure
  BY <1>2 DEF configure, CoreMove, Effect, CoreType, RanType, Ends, Tells, ranVars
<1>. QED
  BY <1>1, <1>2

LEMMA InfosMove ==
    ASSUME CoreType, RanType, ues_additional_infos PROVE CoreMove("infos")
  BY DEF ues_additional_infos, CoreMove, Effect, CoreType, RanType, Ends, Tells, ranVars, coreVars

LEMMA AddUesMoves ==
    ASSUME ControlType, UeInv, CoreType, RanType, add_ues PROVE CoreMove("subscribers")
<1>1. todo \in Seq(Steps) /\ todo # <<>> /\ Head(todo) = "subscribers" /\ op # None
  BY DEF add_ues, CoreStep, At, ControlType
<1>2. Has(todo, {"subscribers"})
  BY <1>1, TailSteps DEF Has
<1>3. newUes \subseteq Ues
  BY <1>1, <1>2, ConfigParts DEF newUes, UeInv, ControlType
<1>4. \A D \in SUBSET newUes : associated(D) \subseteq Ues
  BY <1>3 DEF associated, CoreType
<1>5. /\ Fault \/ NoFault
      /\ udr' \subseteq Ues /\ ue_dict' \subseteq Ues
      /\ Advance \/ Abort
  <2>1. ASSUME NEW E \in SUBSET newUes, udr' = udr \cup (newUes \ E), IF E = {} THEN NoFault ELSE Fault,
               ue_dict' = associated(newUes)
        PROVE  (Fault \/ NoFault) /\ udr' \subseteq Ues /\ ue_dict' \subseteq Ues
    BY <1>3, <1>4, <2>1 DEF CoreType
  <2>2. ASSUME NEW D \in SUBSET newUes, NEW u \in newUes \ D,
               \/ Fault /\ udr' = udr \cup D /\ ue_dict' = associated(D)
               \/ Unknown(u) /\ NoFault /\ udr' = udr \cup D \cup {u} /\ ue_dict' = associated(D)
               \/ /\ kind = "oai" /\ ((Known(u) /\ Fault) \/ (FirstSlice(u, FALSE) /\ NoFault))
                  /\ udr' = udr \cup D \cup {u} /\ ue_dict' = associated(D \cup {u})
        PROVE  (Fault \/ NoFault) /\ udr' \subseteq Ues /\ ue_dict' \subseteq Ues
    <3>1. PICK E \in SUBSET newUes : E = D \cup {u}
      OBVIOUS
    <3>2. associated(D) \subseteq Ues /\ associated(E) \subseteq Ues
      BY <1>4
    <3>. QED
      BY <1>3, <2>2, <3>1, <3>2 DEF CoreType
  <2>3. CASE /\ \E E \in SUBSET newUes :
                   udr' = udr \cup (newUes \ E) /\ IF E = {} THEN NoFault ELSE Fault
             /\ ue_dict' = associated(newUes) /\ Advance
    BY <2>1, <2>3
  <2>4. CASE \E D \in SUBSET newUes : \E u \in newUes \ D :
             /\ \/ Fault /\ udr' = udr \cup D /\ ue_dict' = associated(D)
                \/ Unknown(u) /\ NoFault /\ udr' = udr \cup D \cup {u} /\ ue_dict' = associated(D)
                \/ /\ kind = "oai" /\ ((Known(u) /\ Fault) \/ (FirstSlice(u, FALSE) /\ NoFault))
                   /\ udr' = udr \cup D \cup {u} /\ ue_dict' = associated(D \cup {u})
             /\ Abort
    BY <2>2, <2>4
  <2>. QED
    BY <2>3, <2>4 DEF add_ues
<1>6. CoreStep("subscribers") /\ UNCHANGED <<chart, core_deployed, values, live, ranVars>>
  BY DEF add_ues
<1>. QED
  BY <1>5, <1>6 DEF CoreMove, Effect, CoreType, RanType, Ends, Tells, ranVars

LEMMA DisassociateMoves ==
    ASSUME CoreType, RanType, disassociating_subscriber_from_slice PROVE CoreMove("disassociate")
  BY DEF disassociating_subscriber_from_slice, CoreMove, Effect, CoreType, RanType, Ends, Tells, ranVars

LEMMA UdrDelMoves ==
    ASSUME CoreType, RanType, del_subscriber_to_conf PROVE CoreMove("udr_del")
  BY DEF del_subscriber_to_conf, CoreMove, Effect, CoreType, RanType, Ends, Tells, ranVars

LEMMA DelUserMoves ==
    ASSUME CoreType, RanType, del_user PROVE CoreMove("del_user")
  BY DEF del_user, CoreMove, Effect, CoreType, RanType, Ends, Tells, ranVars

LEMMA SupisMove ==
    ASSUME CoreType, RanType, delete_all_supis PROVE CoreMove("supis")
<1>1. /\ CoreStep("supis") /\ UNCHANGED <<core_deployed, values, live, ue_dict, ranVars>>
      /\ udr' \subseteq Ues /\ chart' \in {chart, "registered"}
      /\ \/ Advance /\ NoFault
         \/ Fault /\ (Abort \/ Stuck)
  BY DEF delete_all_supis, CoreType
<1>. QED
  BY <1>1 DEF CoreMove, Effect, CoreType, RanType, Ends, Tells, ranVars

LEMMA RaiseMoves ==
    ASSUME CoreType, RanType, AlwaysRaises PROVE CoreMove("raise")
  BY DEF AlwaysRaises, CoreMove, Effect, CoreType, RanType, Ends, Tells, ranVars, coreVars

LEMMA RestoreMoves ==
    ASSUME CoreType, RanType, restore_base_config PROVE CoreMove("restore")
  BY DEF restore_base_config, CoreMove, Effect, CoreType, RanType, Ends, Tells, ranVars, coreVars

LEMMA GnbMoves ==
    ASSUME ControlType, CoreType, RanType, update_gnb_config PROVE CoreMove("gnb")
<1> DEFINE areas == AreasOf(current_config)
           configured(D) == [a \in DOMAIN gnb \cup D |-> IF a \in D THEN current_config.areas[a] ELSE gnb[a]]
<1>1. areas \subseteq Areas /\ \A a \in areas : current_config.areas[a] \subseteq Slices
  BY ConfigParts DEF ControlType
<1>2. DOMAIN gnb \subseteq Areas /\ gnb \in [DOMAIN gnb -> SUBSET Slices]
  BY PartialIff DEF RanType
<1>3. ASSUME NEW D \in SUBSET areas
      PROVE  /\ configured(D) \in Partial(Areas, SUBSET Slices) /\ DOMAIN configured(D) = DOMAIN gnb \cup D
             /\ \A a \in D : configured(D)[a] = current_config.areas[a]
  <2>1. PICK f : f = configured(D)
    OBVIOUS
  <2>2. DOMAIN f = DOMAIN gnb \cup D /\ \A a \in D : f[a] = current_config.areas[a]
    BY <2>1
  <2>3. f \in [DOMAIN gnb \cup D -> SUBSET Slices]
    BY <1>1, <1>2, <2>1
  <2>4. f \in Partial(Areas, SUBSET Slices)
    BY <1>1, <1>2, <2>2, <2>3, PartialIff
  <2>. QED
    BY <2>1, <2>2, <2>4
<1>4. CoreStep("gnb") /\ UNCHANGED coreVars
  BY DEF update_gnb_config
<1>5. CoreType' /\ UNCHANGED <<core_deployed, values, live>>
  BY <1>4 DEF coreVars, CoreType
<1>6. CASE /\ \A a \in areas : \E s \in Slices : GnbReady(a, s)
           /\ gnb' = configured(areas)
           /\ ran_areas' = areas
           /\ locked' = (locked \cup areas) \ (ran_areas \ areas)
           /\ Advance /\ NoFault
  <2>1. areas # {} => core_deployed \/ kind = "athonet"
    BY <1>6 DEF GnbReady
  <2>2. gnb' \in Partial(Areas, SUBSET Slices) /\ areas \subseteq DOMAIN gnb' /\ \A a \in areas : gnb'[a] = current_config.areas[a]
    BY <1>3, <1>6
  <2>3. \A a \in areas : a \in locked' \cap ran_areas'
    BY <1>6
  <2>4. GnbsDone
    BY <2>1, <2>2, <2>3 DEF GnbsDone
  <2>5. RanType'
    BY <1>1, <1>6, <2>2 DEF RanType
  <2>. QED
    BY <1>4, <1>5, <1>6, <2>4, <2>5 DEF CoreMove, Effect, Ends, Tells
<1>7. CASE /\ Fault /\ \E L \in SUBSET areas : locked' = locked \cup L
           /\ Abort /\ UNCHANGED <<gnb, ran_areas>>
  BY <1>1, <1>4, <1>5, <1>7 DEF CoreMove, RanType
<1>8. ASSUME NEW D \in SUBSET areas, Fault \/ NoFault,
             locked' = locked \cup areas, gnb' = configured(D), ran_areas' = ran_areas \cup D, Abort
      PROVE  CoreMove("gnb")
  <2>1. RanType'
    BY <1>1, <1>3, <1>8 DEF RanType
  <2>. QED
    BY <1>4, <1>5, <1>8, <2>1 DEF CoreMove
<1>. QED
  BY <1>6, <1>7, <1>8 DEF update_gnb_config

-----------------------------------------------------------------------------
(* What a step leaves alone. *)

LEMMA FeasibleFrame ==
    ASSUME NEW c, current_config' = c, kind' = kind
    PROVE  /\ Feasible(current_config)' <=> Feasible(c)
           /\ ValuesOf(current_config)' = ValuesOf(c)
           /\ configuration_feasibility_check(current_config)' <=> configuration_feasibility_check(c)
<1>1. Feasible(current_config)' <=> Feasible(c)
  BY DEF Feasible
<1>2. ValuesOf(current_config)' = ValuesOf(c)
  BY DEF ValuesOf
<1>3. configuration_feasibility_check(current_config)' <=> configuration_feasibility_check(c)
  BY DEF configuration_feasibility_check
<1>. QED
  BY <1>1, <1>2, <1>3

LEMMA BackupFrame ==
    ASSUME NEW c, backup_config' = c, kind' = kind
    PROVE  /\ Feasible(backup_config)' <=> Feasible(c)
           /\ configuration_feasibility_check(backup_config)' <=> configuration_feasibility_check(c)
<1>1. Feasible(backup_config)' <=> Feasible(c)
  BY DEF Feasible
<1>2. configuration_feasibility_check(backup_config)' <=> configuration_feasibility_check(c)
  BY DEF configuration_feasibility_check
<1>. QED
  BY <1>1, <1>2

LEMMA RecordFrame ==
    ASSUME NEW a, UNCHANGED <<kind, edge_areas, routers, upfs, silent>>
    PROVE  (UpfRecorded(a)' <=> UpfRecorded(a)) /\ (RouterRoutes(a)' <=> RouterRoutes(a))
  BY DEF UpfRecorded, RouterRoutes, routed

LEMMA EdgeOkFrame ==
    ASSUME NEW a, UNCHANGED <<edge_areas, current_config, core_deployed>>
    PROVE  EdgeOk(a)' <=> EdgeOk(a)
  BY DEF EdgeOk, newConfig, create_upf_config, from_slice_profile, HasProfiles

LEMMA UpfReadyFrame ==
    ASSUME NEW a, UNCHANGED <<kind, upfs, silent, current_config, core_deployed>>
    PROVE  UpfReady(a)' <=> UpfReady(a)
  BY DEF UpfReady, newConfig, create_upf_config, from_slice_profile, HasProfiles

LEMMA NotAt ==
    ASSUME NEW a \in Areas
    PROVE  /\ None # <<a, "router">> /\ None # <<a, "deploy">> /\ None # <<a, "upf">>
           /\ None # <<a, "routes">> /\ None # <<a, "undeploy">>
<1>1. /\ <<a, "router">> \in Position /\ <<a, "deploy">> \in Position /\ <<a, "upf">> \in Position
      /\ <<a, "routes">> \in Position /\ <<a, "undeploy">> \in Position
  BY DEF Position
<1>. QED
  BY <1>1, NoneAssumption

(* The records of the edges, between two visits of an area. *)
Recorded == \A a \in DOMAIN edge_areas : UpfRecorded(a) /\ RouterRoutes(a)

LEMMA RecordedAtRest ==
    ASSUME EdgeType, EdgeInv, at = None PROVE Recorded
  BY NotAt DEF EdgeInv, Recorded, EdgeType, IsPartial

LEMMA RestEdgeInv ==
    ASSUME EdgeType', Recorded', at' = None, InEdge' => AreasOf(current_config)' \subseteq left'
    PROVE  EdgeInv'
<1>1. InEdge' => AreasOf(current_config)' \ left' = {}
  OBVIOUS
<1>2. \A a \in Areas :
          /\ at' \notin {<<a, "router">>, <<a, "deploy">>, <<a, "upf">>} /\ at' # <<a, "upf">>
          /\ at' # <<a, "routes">> /\ at' # <<a, "undeploy">>
  BY NotAt
<1>. QED
  BY <1>1, <1>2 DEF EdgeInv, Recorded

(* An exception: the configuration is put back, and that is all. *)
LEMMA AbortKeeps ==
    ASSUME CoreInv, op # None, Abort, EdgeType', Recorded', core_deployed' = core_deployed
    PROVE  UeInv' /\ ConfigInv' /\ EdgeInv' /\ SoundInv'
<1>1. /\ op' = None /\ todo' = <<>> /\ at' = None /\ sound' = FALSE /\ kind' = kind /\ created' = created
      /\ current_config' = restored /\ backup_config' = backup_config /\ answer' = "error"
  BY DEF Abort
<1>2. \A X : ~Has(todo, X)'
  BY <1>1, EmptySteps
<1>3. UeInv'
  BY <1>1 DEF UeInv
<1>4. EdgeInv'
  BY <1>1, RestEdgeInv DEF InEdge
<1>5. SoundInv'
  BY <1>1, <1>2 DEF CoreInv, SoundInv
<1>6. PICK c : c = restored
  OBVIOUS
<1>7. created => Feasible(c) /\ configuration_feasibility_check(c) /\ kind # "free5gc"
  BY <1>6 DEF CoreInv, ConfigInv, restored
<1>8. created' => Feasible(current_config)' /\ configuration_feasibility_check(current_config)'
  BY <1>1, <1>6, <1>7, FeasibleFrame, BackupFrame DEF CoreInv, ConfigInv
<1>9. ConfigInv'
  BY <1>1, <1>7, <1>8 DEF ConfigInv
<1>. QED
  BY <1>3, <1>4, <1>5, <1>9

(* The worker's thread ends. *)
LEMMA StuckKeeps ==
    ASSUME CoreInv, op # None, Stuck, EdgeType', Recorded', core_deployed' = core_deployed
    PROVE  UeInv' /\ ConfigInv' /\ EdgeInv' /\ SoundInv'
<1>1. /\ op' = None /\ todo' = <<>> /\ at' = None /\ kind' = kind /\ created' = created /\ alive' = "stuck"
      /\ current_config' = current_config /\ backup_config' = backup_config /\ answer' = "error"
  BY DEF Stuck
<1>2. \A X : ~Has(todo, X)'
  BY <1>1, EmptySteps
<1>3. UeInv' /\ SoundInv'
  BY <1>1, <1>2 DEF CoreInv, UeInv, SoundInv
<1>4. EdgeInv'
  BY <1>1, RestEdgeInv DEF InEdge
<1>5. ConfigInv'
  BY <1>1, FeasibleFrame, BackupFrame DEF CoreInv, ConfigInv
<1>. QED
  BY <1>3, <1>4, <1>5

(* The next step of the program. *)
LEMMA AdvanceKeeps ==
    ASSUME CoreInv, NEW step, At(step), Advance, Effect(step), EdgeType', RanType',
           UNCHANGED <<edge_areas, routers, upfs, silent>>
    PROVE  UeInv' /\ ConfigInv' /\ EdgeInv' /\ SoundInv'
<1>1. /\ op # None /\ todo \in Seq(Steps) /\ todo # <<>> /\ Head(todo) = step /\ current_config \in Config
  BY DEF At, CoreInv, TypeOK
<1>2. /\ todo' = Tail(todo) /\ at' = None /\ left' = LeftAfter(Tail(todo), current_config)
      /\ UNCHANGED <<kind, current_config, backup_config, op, answer, created, sound, alive>>
  BY DEF Advance, NoAnswer
<1>3. \A X : (Has(todo, X)' => Has(todo, X)) /\ (Has(todo, X) /\ step \notin X => Has(todo, X)')
  BY <1>1, <1>2, TailHas
<1>4. step \notin Ends /\ (step = "edge" => at = None /\ EdgesOk)
  BY DEF Effect
<1>5. UeInv'
  BY <1>2, <1>3 DEF CoreInv, UeInv
<1>6. ConfigInv'
  <2>1. step \in Computes => Feasible(current_config)
    BY DEF Effect, Computes
  <2>2. /\ Feasible(current_config)' <=> Feasible(current_config)
        /\ configuration_feasibility_check(current_config)' <=> configuration_feasibility_check(current_config)
        /\ Feasible(backup_config)' <=> Feasible(backup_config)
        /\ configuration_feasibility_check(backup_config)' <=> configuration_feasibility_check(backup_config)
    BY <1>2, FeasibleFrame, BackupFrame
  <2>3. /\ Has(todo, Ends) => Has(todo, Ends)'
        /\ Has(todo, Computes) => Has(todo, Computes)' \/ Feasible(current_config)
    BY <1>3, <1>4, <2>1
  <2>4. Complete(op.name)' <=> Complete(op.name)
    BY <1>2
  <2>. QED
    BY <1>1, <1>2, <2>2, <2>3, <2>4 DEF CoreInv, ConfigInv
<1>7. EdgeInv'
  <2>1. at = None
    BY <1>1, <1>4 DEF CoreInv, EdgeInv, InEdge
  <2>2. Recorded
    BY <2>1, RecordedAtRest, TypeParts DEF CoreInv
  <2>3. Recorded'
    BY <1>2, <2>2, RecordFrame DEF Recorded
  <2>4. InEdge' => AreasOf(current_config)' \subseteq left'
    BY <1>2 DEF InEdge, LeftAfter
  <2>. QED
    BY <1>2, <2>3, <2>4, RestEdgeInv
<1>8. SoundInv'
  <2>1. ~(kind = "free5gc" /\ step = "functions")
    <3>1. step \in {step} /\ Has(todo, {step})
      BY <1>1, TailSteps DEF Has
    <3>. QED
      BY <3>1 DEF CoreInv, SoundInv
  <2>2. kind = "free5gc" => ~core_deployed' /\ ~Has(todo, {"functions"})'
    BY <1>3, <2>1 DEF CoreInv, SoundInv, Effect
  <2>3. Followed(todo, {"functions"}, {"edge"})' /\ (step = "functions" => Has(todo, {"edge"})')
    BY <1>1, <1>2, TailFollowed DEF CoreInv, SoundInv
  <2>4. ValuesOf(current_config)' = ValuesOf(current_config)
    BY <1>2, FeasibleFrame
  <2>5. (values = ValuesOf(current_config) \/ Preceded(todo, Tells, Computes))'
    <3>1. CASE step = "values"
      BY <2>4, <3>1 DEF Effect
    <3>2. CASE step # "values" /\ values = ValuesOf(current_config)
      BY <2>4, <3>2 DEF Effect
    <3>3. CASE step # "values" /\ Preceded(todo, Tells, Computes)
      <4>1. Preceded(Tail(todo), Tells, Computes)
        BY <1>1, <3>3, TailPreceded DEF Computes
      <4>. QED
        BY <1>2, <4>1
    <3>. QED
      BY <1>1, <3>1, <3>2, <3>3 DEF CoreInv, SoundInv
  <2>6. ASSUME (sound \/ Complete(op.name))', ~Has(todo, Ends)'
        PROVE  (/\ Has(todo, {"edge"}) \/ EdgesOk
                /\ Has(todo, {"gnb"}) \/ GnbsOk
                /\ Has(todo, Tells) \/ LiveOk)'
    <3>1. /\ Has(todo, {"edge"}) \/ EdgesOk
          /\ Has(todo, {"gnb"}) \/ GnbsOk
          /\ Has(todo, Tells) \/ LiveOk
      BY <1>1, <1>2, <1>3, <1>4, <2>6 DEF CoreInv, SoundInv
    <3>2. Has(todo, {"edge"})' \/ EdgesOk'
      <4>1. CASE Has(todo, {"edge"}) /\ step # "edge"
        BY <1>3, <4>1
      <4>2. CASE step = "functions"
        BY <2>3, <4>2
      <4>3. CASE EdgesOk /\ step # "functions"
        <5>1. UNCHANGED <<edge_areas, current_config, core_deployed>>
          BY <1>2, <4>3 DEF Effect
        <5>. QED
          BY <4>3, <5>1, EdgeOkFrame DEF EdgesOk
      <4>. QED
        BY <1>4, <3>1, <4>1, <4>2, <4>3
    <3>3. Has(todo, {"gnb"})' \/ GnbsOk'
      <4>1. CASE step = "gnb"
        <5>1. GnbsDone /\ UNCHANGED <<kind, current_config, core_deployed>>
          BY <1>2, <4>1 DEF Effect
        <5>. QED
          BY <5>1 DEF GnbsDone, GnbsOk, CoreInv, SoundInv
      <4>2. CASE step # "gnb" /\ Has(todo, {"gnb"})
        BY <1>3, <4>2
      <4>3. CASE step # "gnb" /\ GnbsOk
        BY <1>2, <4>3 DEF Effect, GnbsOk, ranVars
      <4>. QED
        BY <3>1, <4>1, <4>2, <4>3
    <3>4. Has(todo, Tells)' \/ LiveOk'
      <4>1. CASE step \in Tells
        <5>1. values = ValuesOf(current_config)
          BY <1>1, <4>1, TailPreceded DEF CoreInv, SoundInv
        <5>. QED
          BY <1>2, <2>4, <4>1, <5>1 DEF Effect, LiveOk
      <4>2. CASE step \notin Tells /\ Has(todo, Tells)
        BY <1>3, <4>2
      <4>3. CASE step \notin Tells /\ LiveOk
        BY <1>2, <2>4, <4>3 DEF Effect, LiveOk
      <4>. QED
        BY <3>1, <4>1, <4>2, <4>3
    <3>. QED
      BY <3>2, <3>3, <3>4
  <2>. QED
    BY <1>1, <1>2, <2>2, <2>3, <2>5, <2>6 DEF SoundInv
<1>. QED
  BY <1>5, <1>6, <1>7, <1>8

LEMMA CoreMoveKeeps ==
    ASSUME CoreInv, NEW step, CoreMove(step) PROVE CoreInv'
<1>1. /\ At(step) /\ step # "edge" /\ ControlType /\ EdgeType /\ FaultType /\ todo # <<>> /\ op # None
      /\ CoreType' /\ RanType' /\ (Fault \/ NoFault)
      /\ UNCHANGED <<parentVars, childVars, silent>>
  BY TypeParts DEF CoreInv, CoreMove, CoreStep, At
<1>2. EdgeType' /\ UNCHANGED <<edge_areas, routers, upfs, silent>>
  BY <1>1 DEF EdgeType, IsPartial, parentVars, childVars
<1>3. at = None
  BY <1>1 DEF CoreInv, EdgeInv, InEdge, At
<1>4. Recorded
  BY <1>1, <1>3, RecordedAtRest DEF CoreInv
<1>5. FaultType'
  BY <1>1, FaultTypes
<1>6. CASE Advance /\ Effect(step)
  <2>1. ControlType'
    BY <1>1, <1>6, AdvanceTypes
  <2>2. UeInv' /\ ConfigInv' /\ EdgeInv' /\ SoundInv'
    BY <1>1, <1>2, <1>6, AdvanceKeeps
  <2>. QED
    BY <1>1, <1>2, <1>5, <2>1, <2>2, TypePartsNext DEF CoreInv
<1>7. CASE Abort /\ UNCHANGED core_deployed
  <2>1. Recorded'
    BY <1>2, <1>4, <1>7, RecordFrame DEF Recorded, Abort
  <2>. QED
    <3>1. ControlType'
      BY <1>1, <1>7, AbortTypes
    <3>2. UeInv' /\ ConfigInv' /\ EdgeInv' /\ SoundInv'
      BY <1>1, <1>2, <1>7, <2>1, AbortKeeps
    <3>. QED
      BY <1>1, <1>2, <1>5, <3>1, <3>2, TypePartsNext DEF CoreInv
<1>8. CASE Stuck /\ UNCHANGED core_deployed
  <2>1. Recorded'
    BY <1>2, <1>4, <1>8, RecordFrame DEF Recorded, Stuck
  <2>. QED
    <3>1. ControlType'
      BY <1>1, <1>8, StuckTypes
    <3>2. UeInv' /\ ConfigInv' /\ EdgeInv' /\ SoundInv'
      BY <1>1, <1>2, <1>8, <2>1, StuckKeeps
    <3>. QED
      BY <1>1, <1>2, <1>5, <3>1, <3>2, TypePartsNext DEF CoreInv
<1>. QED
  BY <1>6, <1>7, <1>8 DEF CoreMove

-----------------------------------------------------------------------------
(* Requests. *)

LEMMA StartKeeps ==
    ASSUME CoreInv, Idle, NEW name \in Ops, NEW ue \in Ues \cup {None}, NEW c \in Config, Start(name, ue, c),
           ops' \in 0..MaxOps, UNCHANGED <<parentVars, childVars, silent, coreVars>>, RanType',
           created \/ name = "create" => configuration_feasibility_check(c), name = "create" => ~created,
           name = "add_ues" => ue \in Ues,
           created \/ sound \/ Complete(name) =>
                Has(todo', Ends) \/ Has(todo', Computes) \/ Feasible(c) \/ kind = "free5gc",
           sound \/ Complete(name) =>
                \/ Has(todo', Ends)
                \/ /\ Has(todo', {"edge"}) \/ EdgesOk'
                   /\ Has(todo', {"gnb"}) \/ GnbsOk'
                   /\ Has(todo', Tells) \/ LiveOk'
    PROVE  CoreInv'
<1>1. ControlType /\ EdgeType /\ CoreType /\ FaultType
  BY TypeParts DEF CoreInv
<1>2. ControlType' /\ Sane(name, todo') /\ op' # None /\ op'.name = name /\ op'.ue = ue
  BY <1>1, StartTypes
<1>3. /\ backup_config' = current_config /\ current_config' = c /\ at' = None /\ left' = LeftAfter(todo', c)
      /\ UNCHANGED <<kind, created, sound, answer, alive, faults>>
  BY DEF Start
<1>4. EdgeType' /\ CoreType' /\ FaultType' /\ UNCHANGED <<edge_areas, routers, upfs, silent, core_deployed>>
  BY <1>1, <1>3 DEF EdgeType, CoreType, FaultType, IsPartial, parentVars, childVars, coreVars
<1>5. TypeOK'
  BY <1>2, <1>4, TypePartsNext
<1>6. UeInv'
  BY <1>2 DEF UeInv, Sane
<1>7. ConfigInv'
  <2>1. /\ Feasible(current_config)' <=> Feasible(c)
        /\ configuration_feasibility_check(current_config)' <=> configuration_feasibility_check(c)
        /\ Feasible(backup_config)' <=> Feasible(current_config)
        /\ configuration_feasibility_check(backup_config)' <=> configuration_feasibility_check(current_config)
    BY <1>3, FeasibleFrame, BackupFrame
  <2>2. created => Feasible(current_config) /\ configuration_feasibility_check(current_config)
    BY DEF CoreInv, ConfigInv, Idle
  <2>3. Complete(op.name)' <=> Complete(name)
    BY <1>2
  <2>4. /\ name = "destroy" => Has(todo', Ends)
        /\ kind = "free5gc" /\ name = "create" => Has(todo', Ends)
    BY <1>2 DEF Sane
  <2>. QED
    BY <1>2, <1>3, <2>1, <2>2, <2>3, <2>4 DEF CoreInv, ConfigInv
<1>8. EdgeInv'
  <2>1. at = None
    BY DEF CoreInv, EdgeInv, InEdge, Idle
  <2>2. Recorded
    BY <1>1, <2>1, RecordedAtRest DEF CoreInv
  <2>3. Recorded'
    BY <1>3, <1>4, <2>2, RecordFrame DEF Recorded
  <2>4. InEdge' => AreasOf(current_config)' \subseteq left'
    BY <1>3 DEF InEdge, LeftAfter
  <2>. QED
    BY <1>3, <1>4, <2>3, <2>4, RestEdgeInv
<1>9. SoundInv'
  BY <1>2, <1>3, <1>4 DEF CoreInv, SoundInv, Sane
<1>. QED
  BY <1>5, <1>6, <1>7, <1>8, <1>9 DEF CoreInv

LEMMA CreateKeeps ==
    ASSUME CoreInv, NEW c \in Configs, create(c) PROVE CoreInv'
<1>1. /\ Idle /\ answer = "none" /\ configuration_feasibility_check(c) /\ Start("create", None, c)
      /\ locked' = AreasOf(c) /\ UNCHANGED <<ops, parentVars, childVars, silent, coreVars, ran_areas, gnb>>
  BY DEF create
<1>2. c \in Config /\ "create" \in Ops /\ ControlType /\ RanType
  BY ConfigsAssumption, Day2Names, TypeParts DEF CoreInv
<1>3. ops' \in 0..MaxOps /\ RanType'
  BY <1>1, <1>2, ConfigParts DEF ControlType, RanType
<1>4. Sane("create", todo')
  BY <1>1, <1>2, <1>3, StartTypes
<1>5. \/ Has(todo', Ends)
      \/ Has(todo', {"edge"}) /\ Has(todo', {"gnb"}) /\ Has(todo', Tells) /\ Has(todo', Computes)
  BY <1>4 DEF Sane, Complete
<1>6. ~created
  BY <1>1 DEF CoreInv, ConfigInv
<1>. QED
  BY <1>1, <1>2, <1>3, <1>5, <1>6, StartKeeps

LEMMA CreateRaisesKeeps ==
    ASSUME CoreInv, NEW c \in Configs, create_raises(c) PROVE CoreInv'
<1>1. /\ Idle /\ answer = "none" /\ current_config' = c /\ answer' = "error" /\ (Fault \/ NoFault)
      /\ locked' = locked \/ \E L \in SUBSET AreasOf(c) : locked' = L
      /\ UNCHANGED <<kind, backup_config, op, todo, left, at, alive, created, sound, ops,
                     parentVars, childVars, silent, coreVars, ran_areas, gnb>>
  BY DEF create_raises
<1>2. c \in Config /\ ControlType /\ EdgeType /\ CoreType /\ RanType /\ FaultType
  BY ConfigsAssumption, TypeParts DEF CoreInv
<1>3. at = None /\ op = None /\ ~created /\ ~sound
  BY <1>1 DEF CoreInv, EdgeInv, ConfigInv, InEdge, Idle
<1>4. UNCHANGED <<edge_areas, routers, upfs, silent, core_deployed, values, live>>
  BY <1>1 DEF parentVars, childVars, coreVars
<1>5. EdgeType' /\ CoreType' /\ FaultType'
  BY <1>1, <1>2, FaultTypes DEF EdgeType, CoreType, IsPartial, parentVars, childVars, coreVars
<1>6. ControlType' /\ RanType'
  <2>1. AreasOf(c) \subseteq Areas
    BY <1>2, ConfigParts
  <2>2. locked' \subseteq Areas
    BY <1>1, <1>2, <2>1 DEF RanType
  <2>. QED
    BY <1>1, <1>2, <2>2 DEF ControlType, RanType
<1>7. UeInv' /\ ConfigInv' /\ SoundInv'
  <2>1. UeInv' /\ ConfigInv'
    BY <1>1, <1>3 DEF UeInv, ConfigInv, CoreInv
  <2>2. kind = "free5gc" => ~core_deployed /\ ~Has(todo, {"functions"})
    BY DEF CoreInv, SoundInv
  <2>3. SoundInv'
    BY <1>1, <1>3, <1>4, <2>2 DEF SoundInv
  <2>. QED
    BY <2>1, <2>3
<1>8. EdgeInv'
  <2>1. Recorded
    BY <1>2, <1>3, RecordedAtRest DEF CoreInv
  <2>2. Recorded'
    BY <1>1, <1>4, <2>1, RecordFrame DEF Recorded
  <2>. QED
    BY <1>1, <1>3, <1>5, <2>2, RestEdgeInv DEF InEdge
<1>. QED
  BY <1>5, <1>6, <1>7, <1>8, TypePartsNext DEF CoreInv

LEMMA DestroyKeeps ==
    ASSUME CoreInv, destroy PROVE CoreInv'
<1>1. /\ Idle /\ Start("destroy", None, current_config) /\ ops < MaxOps /\ ops' = ops + 1
      /\ UNCHANGED <<parentVars, childVars, silent, coreVars, ranVars>>
  BY DEF destroy
<1>2. current_config \in Config /\ "destroy" \in Ops /\ ControlType /\ RanType
  BY Day2Names, TypeParts DEF CoreInv, ControlType
<1>3. ops' \in 0..MaxOps /\ RanType'
  BY <1>1, <1>2, BoundsAssumption DEF ControlType, RanType, ranVars
<1>4. Has(todo', Ends)
  BY <1>1, <1>2, <1>3, StartTypes DEF Sane
<1>5. created => configuration_feasibility_check(current_config)
  BY DEF CoreInv, ConfigInv
<1>. QED
  BY <1>1, <1>2, <1>3, <1>4, <1>5, StartKeeps

(* What the operations on subscribers and data networks do not touch. *)
LEMMA SameConfig ==
    ASSUME NEW c, NEW d, d.areas = c.areas
    PROVE  /\ AreasOf(d) = AreasOf(c) /\ OaiValues(d) = OaiValues(c) /\ Free5gcValues(d) = Free5gcValues(c)
           /\ d.profiles = c.profiles /\ d.nets = c.nets => (OaiFeasible(d) <=> OaiFeasible(c))
<1>1. AreasOf(d) = AreasOf(c)
  BY DEF AreasOf
<1>2. Offered(d) = Offered(c) /\ OfferedSlices(d) = OfferedSlices(c)
  BY <1>1 DEF Offered, OfferedSlices
<1>3. OaiValues(d) = OaiValues(c)
  BY <1>1, <1>2 DEF OaiValues, add_plmn_item, add_dnn_snssai_smf_info_list_item, add_available_upf
<1>4. add_dnnupfinfolist_smf(d) = add_dnnupfinfolist_smf(c)
  BY <1>1 DEF add_dnnupfinfolist_smf
<1>5. Free5gcValues(d) = Free5gcValues(c)
  BY <1>2, <1>4 DEF Free5gcValues, add_tai_supportedsnssailist, add_dnn_info_smf_item
<1>6. d.profiles = c.profiles /\ d.nets = c.nets => (OaiFeasible(d) <=> OaiFeasible(c))
  BY <1>1, <1>2 DEF OaiFeasible, EachSliceOnce, SlicesAndDnnsExist, OaiDnnUsable, get_slice, get_dnn
<1>. QED
  BY <1>1, <1>3, <1>5, <1>6

LEMMA SameEdges ==
    ASSUME CoreInv, Idle, sound, NEW name \in {"add_ues", "del_ues", "add_dnn", "del_dnn"}, NEW c \in Config,
           Edited(name, current_config, c), current_config' = c, UNCHANGED <<edge_areas, core_deployed, kind>>,
           name \in {"add_dnn", "del_dnn"} => kind \in {"free5gc", "sdcore"}
    PROVE  EdgesOk'
<1>1. EdgesOk /\ GnbsOk /\ (Feasible(current_config) \/ kind = "free5gc")
  BY DEF CoreInv, SoundInv, ConfigInv, Idle
<1>2. c.areas = current_config.areas /\ c.profiles = current_config.profiles /\ AreasOf(c) = AreasOf(current_config)
  BY DEF Edited, AreasOf
<1>3. ASSUME NEW a \in AreasOf(c) PROVE EdgeOk(a)'
  <2>1. /\ EdgeOk(a) /\ HasProfiles(current_config, a) /\ kind # "free5gc"
    BY <1>1, <1>2, <1>3 DEF EdgesOk, EdgeOk, GnbsOk
  <2>2. ASSUME NEW s \in c.areas[a] PROVE from_slice_profile(c, s) = from_slice_profile(current_config, s)
    <3>1. s \in current_config.profiles
      BY <1>2, <2>1, <2>2 DEF HasProfiles
    <3>2. CASE name \in {"add_ues", "del_ues"}
      BY <3>2 DEF Edited, from_slice_profile
    <3>3. CASE name = "del_dnn"
      BY <3>1, <3>3 DEF Edited, from_slice_profile
    <3>4. CASE name = "add_dnn"
      <4>1. SdcoreFeasible(current_config)
        BY <1>1, <2>1, <3>4 DEF Feasible
      <4>2. DnnsOf[s] \subseteq current_config.nets /\ current_config.nets \subseteq c.nets
        BY <3>1, <3>4, <4>1 DEF SdcoreFeasible, SdcoreSliceUsable, Edited
      <4>. QED
        BY <4>2 DEF from_slice_profile
    <3>. QED
      BY <3>2, <3>3, <3>4
  <2>3. create_upf_config(c, a, core_deployed) = create_upf_config(current_config, a, core_deployed)
    BY <1>2, <2>2 DEF create_upf_config
  <2>4. newConfig(a)' = create_upf_config(c, a, core_deployed)
    BY DEF newConfig, create_upf_config, from_slice_profile
  <2>5. HasProfiles(current_config, a)' <=> HasProfiles(c, a)
    BY DEF HasProfiles
  <2>6. HasProfiles(c, a)
    BY <1>2, <2>1 DEF HasProfiles
  <2>. QED
    BY <2>1, <2>3, <2>4, <2>5, <2>6 DEF EdgeOk, newConfig
<1>4. DOMAIN edge_areas' = AreasOf(current_config)' /\ AreasOf(current_config)' = AreasOf(c)
  BY <1>1, <1>2 DEF EdgesOk, AreasOf
<1>. QED
  BY <1>3, <1>4 DEF EdgesOk

LEMMA DayTwoKeeps ==
    ASSUME CoreInv, DayTwo PROVE CoreInv'
<1>1. PICK name \in Day2Ops, ue \in Ues \cup {None}, c \in Config :
         Day2(name, ue, c) /\ Edited(name, current_config, c) /\ (name = "add_ues" => ue \in Ues)
  BY DEF DayTwo
<1>2. /\ Idle /\ Start(name, ue, c) /\ ops < MaxOps /\ ops' = ops + 1
      /\ UNCHANGED <<parentVars, childVars, silent, coreVars, ranVars>>
  BY <1>1 DEF Day2
<1>3. name \in Ops /\ name # "create" /\ name # "destroy" /\ ControlType /\ RanType
  BY TypeParts DEF CoreInv, Day2Ops
<1>4. ops' \in 0..MaxOps /\ RanType'
  BY <1>2, <1>3, BoundsAssumption DEF ControlType, RanType, ranVars
<1>5. Sane(name, todo')
  BY <1>2, <1>3, <1>4, StartTypes
<1>6. created => configuration_feasibility_check(c)
  BY <1>1 DEF CoreInv, ConfigInv, Edited
<1>7. CASE Complete(name)
  <2>1. \/ Has(todo', Ends)
        \/ Has(todo', {"edge"}) /\ Has(todo', {"gnb"}) /\ Has(todo', Tells) /\ Has(todo', Computes)
    BY <1>5, <1>7 DEF Sane
  <2>. QED
    BY <1>1, <1>2, <1>3, <1>4, <1>6, <2>1, StartKeeps
<1>8. CASE ~Complete(name)
  <2>1. name \in {"add_ues", "del_ues", "add_dnn", "del_dnn"}
    BY <1>3, <1>8 DEF Ops, Complete
  <2>2. /\ current_config' = c /\ c.areas = current_config.areas /\ AreasOf(c) = AreasOf(current_config)
        /\ UNCHANGED <<kind, edge_areas, core_deployed, live, locked, ran_areas, gnb>>
    BY <1>1, <1>2, <2>1 DEF Start, Edited, AreasOf, parentVars, coreVars, ranVars
  <2>3. /\ AreasOf(c) = AreasOf(current_config) /\ OaiValues(c) = OaiValues(current_config)
        /\ Free5gcValues(c) = Free5gcValues(current_config)
        /\ name = "add_ues" => (OaiFeasible(c) <=> OaiFeasible(current_config))
    BY <1>1, <2>2, SameConfig DEF Edited
  <2>4. ASSUME created \/ sound, ~Has(todo', Ends), ~Has(todo', Computes), kind # "free5gc" PROVE Feasible(c)
    <3>1. kind = "oai" /\ name = "add_ues"
      BY <1>5, <2>4 DEF Sane
    <3>2. Feasible(current_config)
      BY <1>2, <2>4 DEF CoreInv, ConfigInv, Idle
    <3>. QED
      BY <2>3, <3>1, <3>2 DEF Feasible
  <2>5. ASSUME sound, ~Has(todo', Ends)
        PROVE  /\ Has(todo', {"edge"}) \/ EdgesOk'
               /\ Has(todo', {"gnb"}) \/ GnbsOk'
               /\ Has(todo', Tells) \/ LiveOk'
    <3>1. GnbsOk /\ LiveOk
      BY <1>2, <2>5 DEF CoreInv, SoundInv, Idle
    <3>2. GnbsOk'
      BY <2>2, <3>1 DEF GnbsOk, AreasOf
    <3>3. ASSUME ~Has(todo', {"edge"}) PROVE EdgesOk'
      <4>1. name \in {"add_dnn", "del_dnn"} => kind \in {"free5gc", "sdcore"}
        BY <1>5, <2>5, <3>3 DEF Sane
      <4>. QED
        BY <1>1, <1>2, <2>1, <2>2, <2>5, <4>1, SameEdges
    <3>4. ASSUME ~Has(todo', Tells) PROVE LiveOk'
      <4>1. kind = "oai" \/ kind = "free5gc"
        BY <1>5, <2>5, <3>4 DEF Sane
      <4>2. ValuesOf(c) = ValuesOf(current_config)
        BY <2>3, <4>1 DEF ValuesOf
      <4>3. ValuesOf(current_config)' = ValuesOf(c)
        BY <2>2, FeasibleFrame
      <4>. QED
        BY <2>2, <3>1, <4>1, <4>2, <4>3 DEF LiveOk
    <3>. QED
      BY <3>2, <3>3, <3>4
  <2>. QED
    BY <1>1, <1>2, <1>3, <1>4, <1>6, <1>8, <2>4, <2>5, StartKeeps
<1>. QED
  BY <1>7, <1>8

LEMMA RequestKeeps ==
    ASSUME CoreInv, Request PROVE CoreInv'
<1>1. current_config \in Config
  BY DEF CoreInv, TypeOK
<1>. QED
  BY <1>1, RequestIs, CreateKeeps, CreateRaisesKeeps, DayTwoKeeps, DestroyKeeps

-----------------------------------------------------------------------------
(* The end of an operation, and its children. *)

LEMMA AnswerKeeps ==
    ASSUME CoreInv, Answer PROVE CoreInv'
<1>1. ControlType /\ EdgeType /\ CoreType /\ RanType /\ FaultType
  BY TypeParts DEF CoreInv
<1>2. /\ alive = "yes" /\ op # None /\ todo = <<>> /\ op' = None /\ answer' = "ok"
      /\ created' = (created \/ op.name = "create") /\ sound' = (sound \/ Complete(op.name))
      /\ UNCHANGED <<kind, current_config, backup_config, todo, left, at, alive, ops, faults,
                     parentVars, childVars, silent, coreVars, ranVars>>
  BY DEF Answer
<1>3. \A X : ~Has(todo, X) /\ ~Has(todo, X)'
  BY <1>2, EmptySteps
<1>4. at = None
  BY <1>2 DEF CoreInv, EdgeInv, InEdge
<1>5. TypeOK'
  <2>1. op.name \in Ops /\ created' \in BOOLEAN /\ sound' \in BOOLEAN
    BY <1>1, <1>2 DEF ControlType, Operation, Complete
  <2>2. ControlType'
    BY <1>1, <1>2, <2>1 DEF ControlType
  <2>3. EdgeType' /\ CoreType' /\ RanType' /\ FaultType'
    BY <1>1, <1>2 DEF EdgeType, CoreType, RanType, FaultType, IsPartial, parentVars, childVars, coreVars, ranVars
  <2>. QED
    BY <2>2, <2>3, TypePartsNext
<1>6. UeInv'
  BY <1>2 DEF UeInv
<1>7. ConfigInv'
  <2>1. created' \/ sound' => Feasible(current_config) \/ kind = "free5gc"
    BY <1>2, <1>3 DEF CoreInv, ConfigInv, Complete
  <2>2. kind = "free5gc" => ~created'
    BY <1>2, <1>3 DEF CoreInv, ConfigInv
  <2>. QED
    BY <1>2, <2>1, <2>2, FeasibleFrame, BackupFrame DEF CoreInv, ConfigInv
<1>8. EdgeInv'
  <2>1. Recorded /\ UNCHANGED <<kind, edge_areas, routers, upfs, silent>>
    BY <1>1, <1>2, <1>4, RecordedAtRest DEF CoreInv, parentVars, childVars
  <2>2. Recorded' /\ EdgeType'
    BY <1>1, <1>2, <2>1, RecordFrame DEF Recorded, EdgeType, IsPartial, parentVars, childVars
  <2>. QED
    BY <1>2, <1>4, <2>2, RestEdgeInv DEF InEdge
<1>9. SoundInv'
  <2>1. ASSUME sound' PROVE EdgesOk /\ GnbsOk /\ LiveOk
    BY <1>2, <1>3, <2>1 DEF CoreInv, SoundInv
  <2>2. UNCHANGED <<edge_areas, current_config, core_deployed, kind, locked, ran_areas, gnb, live>>
    BY <1>2 DEF parentVars, coreVars, ranVars
  <2>3. sound' => EdgesOk'
    BY <2>1, <2>2, EdgeOkFrame DEF EdgesOk
  <2>4. sound' => GnbsOk' /\ LiveOk'
    BY <2>1, <2>2, FeasibleFrame DEF GnbsOk, LiveOk
  <2>. QED
    BY <1>2, <1>3, <2>2, <2>3, <2>4 DEF CoreInv, SoundInv
<1>. QED
  BY <1>5, <1>6, <1>7, <1>8, <1>9 DEF CoreInv

(* Children disappear. *)
Shrinks(f, g) == DOMAIN g \subseteq DOMAIN f /\ \A x \in DOMAIN g : g[x] = f[x]

LEMMA ShrinkFrame ==
    ASSUME NEW a, UNCHANGED <<kind, edge_areas, silent>>, Shrinks(routers, routers'), Shrinks(upfs, upfs')
    PROVE  (UpfRecorded(a) => UpfRecorded(a)') /\ (RouterRoutes(a) => RouterRoutes(a)')
<1>1. UpfRecorded(a) => UpfRecorded(a)'
  BY DEF UpfRecorded, Shrinks
<1>2. routed(a)' = routed(a)
  BY DEF routed
<1>3. RouterRoutes(a) => RouterRoutes(a)'
  BY <1>2 DEF RouterRoutes, Shrinks
<1>. QED
  BY <1>1, <1>3

LEMMA WithoutShrinks ==
    ASSUME NEW f, NEW S, NEW T, IsPartial(f, S, T), NEW x
    PROVE  Shrinks(f, Without(f, x)) /\ IsPartial(Without(f, x), S, T) /\ Shrinks(f, f)
  BY DEF IsPartial, Without, Shrinks

LEMMA LeftoverShrinks ==
    ASSUME NEW f, NEW S, NEW T, IsPartial(f, S, T), NEW k
    PROVE  Shrinks(f, Leftover(f, k)) /\ IsPartial(Leftover(f, k), S, T)
  BY DEF IsPartial, Leftover, Shrinks

(* The parts of the invariant that are not about the edges, while the      *)
(* operation stays where it is.                                            *)
LEMMA StayKeeps ==
    ASSUME CoreInv, UNCHANGED <<kind, current_config, backup_config, op, answer, created, sound, todo,
                                core_deployed, values, live, locked, ran_areas, gnb>>,
           alive' \in {alive, "hung"},
           UNCHANGED edge_areas \/ InEdge
    PROVE  UeInv' /\ ConfigInv' /\ SoundInv'
<1>1. UeInv'
  BY DEF CoreInv, UeInv
<1>2. /\ Feasible(current_config)' <=> Feasible(current_config)
      /\ ValuesOf(current_config)' = ValuesOf(current_config)
      /\ configuration_feasibility_check(current_config)' <=> configuration_feasibility_check(current_config)
      /\ Feasible(backup_config)' <=> Feasible(backup_config)
      /\ configuration_feasibility_check(backup_config)' <=> configuration_feasibility_check(backup_config)
  BY FeasibleFrame, BackupFrame
<1>3. \A X : Has(todo, X)' <=> Has(todo, X)
  OBVIOUS
<1>4. ConfigInv'
  BY <1>2, <1>3 DEF CoreInv, ConfigInv
<1>5. (LiveOk' <=> LiveOk) /\ (GnbsOk' <=> GnbsOk)
  BY <1>2 DEF LiveOk, GnbsOk
<1>6. CASE UNCHANGED edge_areas
  <2>1. EdgesOk' <=> EdgesOk
    BY <1>6, EdgeOkFrame DEF EdgesOk
  <2>. QED
    BY <1>1, <1>2, <1>3, <1>4, <1>5, <2>1 DEF CoreInv, SoundInv
<1>7. CASE InEdge
  <2>1. Has(todo, {"edge"}) /\ op # None
    BY <1>7, TailSteps DEF InEdge, Has, CoreInv, TypeOK
  <2>2. UNCHANGED <<kind, op, todo, sound, values, core_deployed>>
    OBVIOUS
  <2>3. /\ kind = "free5gc" => ~core_deployed /\ ~Has(todo, {"functions"})
        /\ Followed(todo, {"functions"}, {"edge"})
        /\ values = ValuesOf(current_config) \/ Preceded(todo, Tells, Computes)
        /\ (sound \/ Complete(op.name)) =>
             \/ Has(todo, Ends)
             \/ (Has(todo, {"gnb"}) \/ GnbsOk) /\ (Has(todo, Tells) \/ LiveOk)
    BY <2>1 DEF CoreInv, SoundInv
  <2>4. SoundInv'
    BY <1>2, <1>5, <2>1, <2>2, <2>3 DEF SoundInv
  <2>. QED
    BY <1>1, <1>4, <2>4
<1>. QED
  BY <1>6, <1>7

LEMMA ReadyShrinks ==
    ASSUME NEW a, UNCHANGED <<kind, current_config, core_deployed, silent>>, Shrinks(upfs, upfs'), UpfReady(a)
    PROVE  UpfReady(a)'
<1>1. newConfig(a)' = newConfig(a) /\ (HasProfiles(current_config, a)' <=> HasProfiles(current_config, a))
  BY DEF newConfig, create_upf_config, from_slice_profile, HasProfiles
<1>. QED
  BY <1>1 DEF UpfReady, Shrinks

(* Children disappear, or the parent waits for ever, and nothing else. *)
LEMMA ShrinkKeeps ==
    ASSUME CoreInv, TypeOK', Shrinks(routers, routers'), Shrinks(upfs, upfs'), alive' \in {alive, "hung"},
           UNCHANGED <<kind, current_config, backup_config, op, todo, left, at, answer, created, sound, silent,
                       edge_areas, core_deployed, values, live, locked, ran_areas, gnb>>
    PROVE  CoreInv'
<1>1. UeInv' /\ ConfigInv' /\ SoundInv'
  BY StayKeeps
<1>2. EdgeInv'
  <2>1. \A a \in DOMAIN edge_areas' : UpfRecorded(a)' /\ (at' # <<a, "routes">> => RouterRoutes(a)')
    BY ShrinkFrame DEF CoreInv, EdgeInv
  <2>2. \A a : (EdgeOk(a)' <=> EdgeOk(a)) /\ (UpfReady(a) => UpfReady(a)') /\ (Unfilled(a) => Unfilled(a)')
    BY EdgeOkFrame, ReadyShrinks DEF Unfilled
  <2>3. (InEdge' <=> InEdge) /\ AreasOf(current_config)' = AreasOf(current_config)
    BY DEF InEdge, AreasOf
  <2>. QED
    BY <2>1, <2>2, <2>3 DEF CoreInv, EdgeInv
<1>. QED
  BY <1>1, <1>2 DEF CoreInv

LEMMA UserKeeps ==
    ASSUME CoreInv, NEW c \in Child, UserOfChild(c) PROVE CoreInv'
<1>1. /\ EdgeType /\ ControlType /\ CoreType /\ RanType /\ FaultType
      /\ Fault /\ alive' \in {alive, "hung"}
      /\ UNCHANGED <<kind, current_config, backup_config, parentVars, lost, coreVars, ranVars,
                     op, todo, left, at, answer, created, sound, silent, ops>>
  BY TypeParts DEF UserOfChild, CoreInv
<1>2. /\ Shrinks(routers, routers') /\ IsPartial(routers', Areas, Router)
      /\ Shrinks(upfs, upfs') /\ IsPartial(upfs', Areas, Upf)
  <2>1. /\ routers' = routers \/ routers' = Without(routers, c[1])
        /\ upfs' = upfs \/ upfs' = Without(upfs, c[1])
    BY DEF UserOfChild
  <2>. QED
    BY <1>1, <2>1, WithoutShrinks DEF EdgeType
<1>3. protected' \subseteq Child
  BY <1>1 DEF UserOfChild, EdgeType
<1>4. EdgeType'
  BY <1>1, <1>2, <1>3 DEF EdgeType, IsPartial, parentVars
<1>5. ControlType' /\ CoreType' /\ RanType' /\ FaultType'
  BY <1>1, FaultTypes DEF ControlType, CoreType, RanType, coreVars, ranVars
<1>6. TypeOK'
  BY <1>4, <1>5, TypePartsNext
<1>7. UNCHANGED <<edge_areas, core_deployed, values, live, locked, ran_areas, gnb>>
  BY <1>1 DEF parentVars, coreVars, ranVars
<1>. QED
  BY <1>1, <1>2, <1>6, <1>7, ShrinkKeeps

LEMMA DestroyChildKeeps ==
    ASSUME CoreInv, NEW c \in Child, DestroyChild(c) PROVE CoreInv'
<1>1. /\ EdgeType /\ ControlType /\ CoreType /\ RanType /\ FaultType /\ At("children")
      /\ (Fault \/ NoFault) /\ UNCHANGED <<edge_areas, protected, lost, silent, coreVars, ranVars>>
      /\ Stuck \/ Within(left, at) \/ Hang
      /\ children_blue_ids' \subseteq children_blue_ids /\ deployed_blueprints' \subseteq deployed_blueprints
      /\ routers' = routers \/ routers' = Without(routers, c[1])
      /\ upfs' = upfs \/ upfs' = Without(upfs, c[1])
  BY TypeParts DEF DestroyChild, CoreInv, Disown, Dropped
<1>2. /\ Shrinks(routers, routers') /\ IsPartial(routers', Areas, Router)
      /\ Shrinks(upfs, upfs') /\ IsPartial(upfs', Areas, Upf)
  BY <1>1, WithoutShrinks DEF EdgeType
<1>3. at = None /\ op # None /\ todo # <<>> /\ kind' = kind
  BY <1>1 DEF CoreInv, EdgeInv, InEdge, At, Stuck, Within, NoAnswer, Hang
<1>4. EdgeType' /\ CoreType' /\ RanType' /\ FaultType'
  BY <1>1, <1>2, FaultTypes DEF EdgeType, IsPartial, CoreType, RanType, coreVars, ranVars
<1>5. Recorded'
  BY <1>1, <1>2, <1>3, RecordedAtRest, ShrinkFrame DEF Recorded, CoreInv
<1>6. CASE Stuck
  <2>1. ControlType'
    BY <1>1, <1>6, StuckTypes
  <2>2. UeInv' /\ ConfigInv' /\ EdgeInv' /\ SoundInv'
    BY <1>1, <1>3, <1>4, <1>5, <1>6, StuckKeeps DEF coreVars
  <2>. QED
    BY <1>4, <2>1, <2>2, TypePartsNext DEF CoreInv
<1>7. CASE Within(left, at) \/ Hang
  <2>1. /\ UNCHANGED <<kind, current_config, backup_config, op, todo, left, at, answer, created, sound>>
        /\ alive' \in {alive, "hung"}
    BY <1>7 DEF Within, NoAnswer, Hang
  <2>2. ControlType'
    BY <1>1, <1>7, WithinTypes, HangTypes DEF ControlType
  <2>3. TypeOK'
    BY <1>4, <2>2, TypePartsNext
  <2>. QED
    BY <1>1, <1>2, <2>1, <2>3, ShrinkKeeps DEF coreVars, ranVars
<1>. QED
  BY <1>1, <1>6, <1>7

LEMMA UnlockTypes ==
    ASSUME ControlType, EdgeType, CoreType, RanType, NEW L \in SUBSET locked, NEW K \in {{}, CorePdu}, Unlock(L, K)
    PROVE  /\ locked' \subseteq Areas /\ chart' \in {chart, "none"} /\ (Fault \/ NoFault)
           /\ lost' \subseteq Areas \X {"router", "upf", "pdu", "core"}
<1>1. AreasOf(current_config) \subseteq Areas
  BY ConfigParts DEF ControlType
<1>2. K \subseteq Areas /\ L \subseteq Areas
  BY <1>1 DEF CorePdu, RanType
<1>. QED
  BY <1>2 DEF Unlock, EdgeType

LEMMA CleanupKeeps ==
    ASSUME CoreInv, final_cleanup PROVE CoreInv'
<1>1. /\ EdgeType /\ ControlType /\ CoreType /\ RanType /\ FaultType /\ At("children")
      /\ UNCHANGED <<children_blue_ids, edge_areas, protected, silent, core_deployed, values, ue_dict, udr, ran_areas, gnb>>
  BY TypeParts DEF final_cleanup, CoreInv
<1>2. at = None /\ op # None
  BY <1>1 DEF CoreInv, EdgeInv, InEdge, At
<1>3. Recorded
  BY <1>1, <1>2, RecordedAtRest DEF CoreInv
<1>4. CASE /\ \E L \in SUBSET locked, K \in {{}, CorePdu} : Unlock(L, K)
           /\ live' = None
           /\ routers' = Leftover(routers, "router") /\ upfs' = Leftover(upfs, "upf")
           /\ deployed_blueprints' = {}
           /\ alive' = "gone" /\ op' = None /\ todo' = <<>> /\ answer' = "ok"
           /\ UNCHANGED <<kind, current_config, backup_config, created, sound, ops, left, at>>
  <2>1. /\ Shrinks(routers, routers') /\ IsPartial(routers', Areas, Router)
        /\ Shrinks(upfs, upfs') /\ IsPartial(upfs', Areas, Upf)
    BY <1>1, <1>4, LeftoverShrinks DEF EdgeType
  <2>8. /\ locked' \subseteq Areas /\ chart' \in {chart, "none"} /\ (Fault \/ NoFault)
        /\ lost' \subseteq Areas \X {"router", "upf", "pdu", "core"}
    BY <1>1, <1>4, UnlockTypes
  <2>2. EdgeType' /\ CoreType' /\ RanType' /\ FaultType' /\ ControlType'
    BY <1>1, <1>4, <2>1, <2>8, FaultTypes, EmptySteps DEF EdgeType, IsPartial, CoreType, RanType, ControlType
  <2>3. Recorded'
    BY <1>1, <1>3, <1>4, <2>1, ShrinkFrame DEF Recorded
  <2>4. EdgeInv'
    BY <1>2, <1>4, <2>2, <2>3, RestEdgeInv DEF InEdge
  <2>5. \A X : ~Has(todo, X)'
    BY <1>4, EmptySteps
  <2>6. UeInv' /\ SoundInv'
    BY <1>1, <1>4, <2>5 DEF UeInv, SoundInv, CoreInv
  <2>7. ConfigInv'
    BY <1>4, FeasibleFrame, BackupFrame DEF ConfigInv, CoreInv
  <2>. QED
    BY <2>2, <2>4, <2>6, <2>7, TypePartsNext DEF CoreInv
<1>5. CASE /\ Fault /\ Stuck /\ UNCHANGED <<chart, live, locked, lost, routers, upfs, deployed_blueprints>>
  <2>1. EdgeType' /\ CoreType' /\ RanType' /\ FaultType' /\ ControlType'
    BY <1>1, <1>5, FaultTypes, StuckTypes DEF EdgeType, IsPartial, CoreType, RanType
  <2>2. Recorded'
    BY <1>1, <1>3, <1>5, RecordFrame DEF Recorded, Stuck
  <2>3. UeInv' /\ ConfigInv' /\ EdgeInv' /\ SoundInv'
    BY <1>1, <1>2, <1>5, <2>1, <2>2, StuckKeeps
  <2>. QED
    BY <2>1, <2>3, TypePartsNext DEF CoreInv
<1>6. CASE /\ Fault /\ Hang /\ chart' = IF kind = "athonet" THEN chart ELSE "none"
           /\ UNCHANGED <<live, locked, lost, routers, upfs, deployed_blueprints>>
  <2>1. EdgeType' /\ CoreType' /\ RanType' /\ FaultType' /\ ControlType'
    BY <1>1, <1>6, FaultTypes, HangTypes DEF EdgeType, IsPartial, CoreType, RanType
  <2>2. TypeOK'
    BY <2>1, TypePartsNext
  <2>3. Shrinks(routers, routers') /\ Shrinks(upfs, upfs')
    BY <1>1, <1>6, WithoutShrinks DEF EdgeType
  <2>4. /\ UNCHANGED <<kind, current_config, backup_config, op, todo, left, at, answer, created, sound>>
        /\ alive' \in {alive, "hung"}
    BY <1>6 DEF Hang
  <2>. QED
    BY <1>1, <1>6, <2>2, <2>3, <2>4, ShrinkKeeps
<1>. QED
  BY <1>4, <1>5, <1>6 DEF final_cleanup

-----------------------------------------------------------------------------
(* update_edge_areas, one area at a time. *)

(* A step on area a leaves the others as they are. *)
OthersStay(a) ==
    /\ \A b \in Areas \ {a} :
          /\ b \in DOMAIN edge_areas' <=> b \in DOMAIN edge_areas
          /\ b \in DOMAIN edge_areas => edge_areas'[b] = edge_areas[b]
          /\ b \in DOMAIN upfs' <=> b \in DOMAIN upfs
          /\ b \in DOMAIN upfs => upfs'[b] = upfs[b]
          /\ b \in DOMAIN routers' <=> b \in DOMAIN routers
          /\ b \in DOMAIN routers => routers'[b] = routers[b]
          /\ <<b, "upf">> \in silent' <=> <<b, "upf">> \in silent
          /\ <<b, "router">> \in silent' <=> <<b, "router">> \in silent

LEMMA OthersFrame ==
    ASSUME NEW a, NEW b \in Areas \ {a}, OthersStay(a), kind' = kind, b \in DOMAIN edge_areas
    PROVE  (UpfRecorded(b)' <=> UpfRecorded(b)) /\ (RouterRoutes(b)' <=> RouterRoutes(b))
<1>1. /\ edge_areas'[b] = edge_areas[b]
      /\ b \in DOMAIN upfs' <=> b \in DOMAIN upfs
      /\ b \in DOMAIN upfs => upfs'[b] = upfs[b]
      /\ b \in DOMAIN routers' <=> b \in DOMAIN routers
      /\ b \in DOMAIN routers => routers'[b] = routers[b]
      /\ <<b, "upf">> \in silent' <=> <<b, "upf">> \in silent
      /\ <<b, "router">> \in silent' <=> <<b, "router">> \in silent
  BY DEF OthersStay
<1>2. UpfRecorded(b)' <=> UpfRecorded(b)
  BY <1>1 DEF UpfRecorded
<1>3. routed(b)' = routed(b)
  BY <1>1 DEF routed
<1>4. RouterRoutes(b)' <=> RouterRoutes(b)
  BY <1>1, <1>3 DEF RouterRoutes
<1>. QED
  BY <1>2, <1>4

LEMMA OthersOk ==
    ASSUME NEW a, NEW b \in Areas \ {a}, OthersStay(a), UNCHANGED <<current_config, core_deployed>>
    PROVE  EdgeOk(b)' <=> EdgeOk(b)
<1>1. /\ b \in DOMAIN edge_areas' <=> b \in DOMAIN edge_areas
      /\ b \in DOMAIN edge_areas => edge_areas'[b] = edge_areas[b]
  BY DEF OthersStay
<1>2. newConfig(b)' = newConfig(b) /\ (HasProfiles(current_config, b)' <=> HasProfiles(current_config, b))
  BY DEF newConfig, create_upf_config, from_slice_profile, HasProfiles
<1>. QED
  BY <1>1, <1>2 DEF EdgeOk

(* Where update_edge_areas may be in its visit of a. *)
Filling(a, p) == p \in {<<a, "router">>, <<a, "deploy">>, <<a, "upf">>}
Visiting(a, p) == Filling(a, p) \/ p \in {None, <<a, "routes">>, <<a, "undeploy">>}

LEMMA VisitIsOf ==
    ASSUME NEW a \in Areas, NEW b \in Areas \ {a}, NEW p, Visiting(a, p)
    PROVE  ~Filling(b, p) /\ p # <<b, "routes">> /\ p # <<b, "undeploy">>
  BY NotAt DEF Visiting, Filling

LEMMA VisitType ==
    ASSUME NEW a \in Areas, NEW p, Visiting(a, p) PROVE p \in Position \cup {None}
  BY DEF Visiting, Filling, Position

(* The step goes on with the visit of a at p, with the areas l left. *)
LEMMA VisitKeeps ==
    ASSUME CoreInv, At("edge"), NEW a \in Areas, NEW l \in SUBSET Areas, NEW p, Within(l, p), Visiting(a, at), Visiting(a, p),
           UNCHANGED EdgeVars, Fault \/ NoFault, EdgeType', OthersStay(a), left \ {a} \subseteq l,
           a \in DOMAIN edge_areas' => UpfRecorded(a)' /\ (p # <<a, "routes">> => RouterRoutes(a)'),
           a \in AreasOf(current_config) \ l => EdgeOk(a)',
           Filling(a, p) => Unfilled(a)', p = <<a, "upf">> => UpfReady(a)',
           p = <<a, "routes">> => EdgeOk(a)',
           p = <<a, "undeploy">> => a \in DOMAIN edge_areas' \ AreasOf(current_config)
    PROVE  CoreInv'
<1>1. ControlType /\ EdgeType /\ CoreType /\ RanType /\ FaultType /\ InEdge
  BY TypeParts DEF CoreInv, At, InEdge
<1>2. /\ left' = l /\ at' = p
      /\ UNCHANGED <<kind, current_config, backup_config, op, answer, created, sound, alive, ops, todo,
                     core_deployed, values, live, locked, ran_areas, gnb>>
  BY DEF Within, NoAnswer, EdgeVars, coreVars, ranVars
<1>3. CoreType' /\ RanType' /\ FaultType' /\ ControlType'
  BY <1>1, FaultTypes, VisitType, WithinTypes DEF CoreType, RanType, EdgeVars, coreVars, ranVars
<1>4. TypeOK'
  BY <1>3, TypePartsNext
<1>5. UeInv' /\ ConfigInv' /\ SoundInv'
  BY <1>1, <1>2, StayKeeps
<1>6. InEdge' /\ AreasOf(current_config)' = AreasOf(current_config) /\ AreasOf(current_config) \subseteq Areas
  BY <1>1, <1>2, ConfigParts DEF InEdge, ControlType
<1>7. ASSUME NEW b \in DOMAIN edge_areas' PROVE UpfRecorded(b)' /\ (at' # <<b, "routes">> => RouterRoutes(b)')
  <2>1. CASE b = a
    BY <1>2, <2>1
  <2>2. CASE b # a
    <3>1. b \in Areas \ {a}
      BY <2>2 DEF EdgeType, IsPartial
    <3>2. b \in DOMAIN edge_areas
      BY <3>1 DEF OthersStay
    <3>3. UpfRecorded(b) /\ RouterRoutes(b)
      BY <3>1, <3>2, VisitIsOf DEF CoreInv, EdgeInv
    <3>. QED
      BY <1>2, <3>1, <3>2, <3>3, OthersFrame
  <2>. QED
    BY <2>1, <2>2
<1>8. ASSUME NEW b \in AreasOf(current_config) \ l PROVE EdgeOk(b)'
  <2>1. CASE b = a
    BY <1>8, <2>1
  <2>2. CASE b # a
    <3>1. b \in Areas \ {a} /\ b \notin left
      BY <1>6, <1>8, <2>2
    <3>2. EdgeOk(b)
      BY <1>1, <1>8, <3>1 DEF CoreInv, EdgeInv
    <3>. QED
      BY <1>2, <3>1, <3>2, OthersOk
  <2>. QED
    BY <2>1, <2>2
<1>9. ASSUME NEW b \in Areas
      PROVE  /\ Filling(b, at') => Unfilled(b)'
             /\ at' = <<b, "upf">> => UpfReady(b)'
             /\ at' = <<b, "routes">> => EdgeOk(b)'
             /\ at' = <<b, "undeploy">> => b \in DOMAIN edge_areas' \ AreasOf(current_config)
  <2>1. CASE b = a
    BY <1>2, <2>1
  <2>2. CASE b # a
    BY <1>2, <1>9, <2>2, VisitIsOf DEF Filling
  <2>. QED
    BY <2>1, <2>2
<1>10. EdgeInv'
  BY <1>2, <1>6, <1>7, <1>8, <1>9 DEF EdgeInv, Filling
<1>. QED
  BY <1>4, <1>5, <1>10 DEF CoreInv

(* The step on a raises. *)
LEMMA VisitRaises ==
    ASSUME CoreInv, At("edge"), Abort, UNCHANGED EdgeVars, Fault \/ NoFault, EdgeType', Recorded'
    PROVE  CoreInv'
<1>1. ControlType /\ CoreType /\ RanType /\ FaultType /\ op # None
  BY TypeParts DEF CoreInv, At
<1>2. CoreType' /\ RanType' /\ FaultType' /\ ControlType' /\ core_deployed' = core_deployed
  BY <1>1, FaultTypes, AbortTypes DEF CoreType, RanType, EdgeVars, coreVars, ranVars
<1>3. UeInv' /\ ConfigInv' /\ EdgeInv' /\ SoundInv'
  BY <1>1, <1>2, AbortKeeps
<1>. QED
  BY <1>2, <1>3, TypePartsNext DEF CoreInv

LEMMA VisitAborts ==
    ASSUME CoreInv, At("edge"), NEW a \in Areas, Abort, Visiting(a, at), UNCHANGED EdgeVars, Fault \/ NoFault,
           EdgeType', OthersStay(a), a \in DOMAIN edge_areas' => UpfRecorded(a)' /\ RouterRoutes(a)'
    PROVE  CoreInv'
<1>1. kind' = kind
  BY DEF Abort
<1>2. ASSUME NEW b \in DOMAIN edge_areas' PROVE UpfRecorded(b)' /\ RouterRoutes(b)'
  <2>1. CASE b = a
    BY <1>2, <2>1
  <2>2. CASE b # a
    <3>1. b \in Areas \ {a}
      BY <1>2, <2>2 DEF EdgeType, IsPartial
    <3>2. b \in DOMAIN edge_areas
      BY <1>2, <3>1 DEF OthersStay
    <3>3. UpfRecorded(b) /\ RouterRoutes(b)
      BY <3>1, <3>2, VisitIsOf DEF CoreInv, EdgeInv
    <3>. QED
      BY <1>1, <3>1, <3>2, <3>3, OthersFrame
  <2>. QED
    BY <2>1, <2>2
<1>3. Recorded'
  BY <1>2 DEF Recorded
<1>. QED
  BY <1>3, VisitRaises

(* The step waits for a child that will never answer. *)
LEMMA VisitHangs ==
    ASSUME CoreInv, Hang, Fault \/ NoFault, UNCHANGED <<edge_areas, silent, EdgeVars>>, EdgeType',
           Shrinks(routers, routers'), Shrinks(upfs, upfs')
    PROVE  CoreInv'
<1>1. ControlType /\ CoreType /\ RanType /\ FaultType
  BY TypeParts DEF CoreInv
<1>2. CoreType' /\ RanType' /\ FaultType' /\ ControlType'
  BY <1>1, FaultTypes, HangTypes DEF CoreType, RanType, EdgeVars, coreVars, ranVars
<1>3. TypeOK'
  BY <1>2, TypePartsNext
<1>4. /\ UNCHANGED <<kind, current_config, backup_config, op, todo, left, at, answer, created, sound>>
      /\ UNCHANGED <<core_deployed, values, live, locked, ran_areas, gnb>> /\ alive' \in {alive, "hung"}
  BY DEF Hang, EdgeVars, coreVars, ranVars
<1>. QED
  BY <1>3, <1>4, ShrinkKeeps

LEMMA EdgeDoneKeeps ==
    ASSUME CoreInv, EdgeDone PROVE CoreInv'
<1>1. /\ At("edge") /\ at = None /\ left = {} /\ DOMAIN edge_areas \subseteq AreasOf(current_config)
      /\ Advance /\ NoFault /\ UNCHANGED <<parentVars, childVars, silent, EdgeVars>>
  BY DEF EdgeDone
<1>2. ControlType /\ EdgeType /\ CoreType /\ RanType /\ FaultType /\ InEdge /\ todo # <<>>
  BY <1>1, TypeParts DEF CoreInv, At, InEdge
<1>3. \A a \in AreasOf(current_config) : EdgeOk(a)
  BY <1>1, <1>2 DEF CoreInv, EdgeInv
<1>4. EdgesOk
  BY <1>1, <1>3 DEF EdgesOk, EdgeOk
<1>5. Effect("edge")
  BY <1>1, <1>4 DEF Effect, Ends, Tells, EdgeVars, coreVars
<1>6. /\ EdgeType' /\ CoreType' /\ RanType' /\ FaultType' /\ ControlType'
      /\ UNCHANGED <<edge_areas, routers, upfs, silent>>
  BY <1>1, <1>2, FaultTypes, AdvanceTypes
     DEF EdgeType, IsPartial, CoreType, RanType, EdgeVars, coreVars, ranVars, parentVars, childVars
<1>7. UeInv' /\ ConfigInv' /\ EdgeInv' /\ SoundInv'
  BY <1>1, <1>5, <1>6, AdvanceKeeps
<1>. QED
  BY <1>6, <1>7, TypePartsNext DEF CoreInv

LEMMA EdgeRaisesKeeps ==
    ASSUME CoreInv, NEW a \in Areas, EdgeRaises(a) PROVE CoreInv'
<1>1. At("edge") /\ Abort /\ NoFault /\ UNCHANGED <<parentVars, childVars, silent, EdgeVars>> /\ EdgeType
  BY TypeParts DEF EdgeRaises, CoreInv
<1>2. EdgeType' /\ UNCHANGED <<kind, edge_areas, routers, upfs, silent>>
  BY <1>1 DEF EdgeType, IsPartial, parentVars, childVars, Abort
<1>3. Recorded
  <2>1. CASE at = None
    BY <1>1, <2>1, RecordedAtRest DEF CoreInv
  <2>2. CASE at = <<a, "deploy">> \/ at = <<a, "undeploy">>
    BY <2>2 DEF CoreInv, EdgeInv, Recorded
  <2>3. CASE at = <<a, "routes">> /\ a \notin DOMAIN routers
    <3>1. RouterRoutes(a)
      BY <2>3 DEF RouterRoutes
    <3>. QED
      BY <2>3, <3>1 DEF CoreInv, EdgeInv, Recorded
  <2>. QED
    BY <2>1, <2>2, <2>3 DEF EdgeRaises, OldArea, OverArea
<1>4. Recorded'
  BY <1>2, <1>3, RecordFrame DEF Recorded
<1>. QED
  BY <1>1, <1>2, <1>4, VisitRaises

(* Dictionaries that differ in the entry x only. *)
Beside(f, g, x) == \A b : b # x => (b \in DOMAIN g <=> b \in DOMAIN f) /\ (b \in DOMAIN f => g[b] = f[b])

LEMMA BesideSame == ASSUME NEW f, NEW g, NEW x, g = f PROVE Beside(f, g, x)
  BY DEF Beside

LEMMA BesideWith ==
    ASSUME NEW f, NEW S, NEW T, IsPartial(f, S, T), NEW x \in S, NEW v \in T, NEW g, g = With(f, x, v)
    PROVE  IsPartial(g, S, T) /\ Beside(f, g, x) /\ x \in DOMAIN g /\ g[x] = v
<1>1. DOMAIN g = DOMAIN f \cup {x} /\ \A y \in DOMAIN f \cup {x} : g[y] = IF y = x THEN v ELSE f[y]
  BY DEF With
<1>2. g = [y \in DOMAIN g |-> g[y]]
  BY DEF With
<1>3. \A y \in DOMAIN g : g[y] \in T
  BY <1>1 DEF IsPartial
<1>4. g \in [DOMAIN g -> T]
  BY <1>2, <1>3
<1>. QED
  BY <1>1, <1>4 DEF IsPartial, Beside

LEMMA BesideWithout ==
    ASSUME NEW f, NEW S, NEW T, IsPartial(f, S, T), NEW x, NEW g, g = Without(f, x)
    PROVE  IsPartial(g, S, T) /\ Beside(f, g, x) /\ x \notin DOMAIN g
<1>1. DOMAIN g = DOMAIN f \ {x} /\ \A y \in DOMAIN f \ {x} : g[y] = f[y]
  BY DEF Without
<1>2. IsPartial(g, S, T)
  BY WithoutShrinks
<1>. QED
  BY <1>1, <1>2 DEF Beside

LEMMA BesideExcept ==
    ASSUME NEW f, NEW S, NEW T, IsPartial(f, S, T), NEW x \in DOMAIN f, NEW v \in T, NEW g, g = [f EXCEPT ![x] = v]
    PROVE  IsPartial(g, S, T) /\ Beside(f, g, x) /\ DOMAIN g = DOMAIN f /\ g[x] = v
  BY DEF IsPartial, Beside

LEMMA BesideOthers ==
    ASSUME NEW a \in Areas,
           Beside(edge_areas, edge_areas', a), Beside(upfs, upfs', a), Beside(routers, routers', a),
           \A b \in Areas \ {a} : /\ <<b, "upf">> \in silent' <=> <<b, "upf">> \in silent
                                  /\ <<b, "router">> \in silent' <=> <<b, "router">> \in silent
    PROVE  OthersStay(a)
  BY DEF OthersStay, Beside

LEMMA ExternalKeeps ==
    ASSUME CoreInv, NEW a \in Areas, ExternalRouter(a) PROVE CoreInv'
<1>1. PICK e : e = [NewEdge EXCEPT !.router = "external"]
  OBVIOUS
<1>2. e \in Edge /\ e.router = "external" /\ e.upf = FALSE /\ e.list = None
  BY <1>1 DEF NewEdge, Edge
<1>3. /\ At("edge") /\ at = None /\ a \in left /\ edge_areas' = With(edge_areas, a, e)
      /\ Within(left, <<a, "deploy">>) /\ NoFault
      /\ UNCHANGED <<children_blue_ids, deployed_blueprints, childVars, silent, EdgeVars>>
  BY <1>1 DEF ExternalRouter, NewArea
<1>4. EdgeType /\ left \in SUBSET Areas
  BY TypeParts DEF CoreInv, ControlType
<1>5. IsPartial(edge_areas', Areas, Edge) /\ Beside(edge_areas, edge_areas', a) /\ a \in DOMAIN edge_areas' /\ edge_areas'[a] = e
  BY <1>2, <1>3, <1>4, BesideWith DEF EdgeType
<1>6. EdgeType'
  BY <1>3, <1>4, <1>5 DEF EdgeType, IsPartial, childVars
<1>7. UNCHANGED <<upfs, routers, silent>>
  BY <1>3 DEF childVars
<1>8. OthersStay(a)
  BY <1>5, <1>7, BesideSame, BesideOthers
<1>9. UpfRecorded(a)' /\ RouterRoutes(a)'
  BY <1>2, <1>5 DEF UpfRecorded, RouterRoutes, routed
<1>10. PICK p : p = <<a, "deploy">>
  OBVIOUS
<1>11. /\ Visiting(a, at) /\ Visiting(a, p) /\ p # <<a, "routes">> /\ p # <<a, "undeploy">> /\ p # <<a, "upf">>
       /\ Within(left, p)
  BY <1>3, <1>10 DEF Visiting, Filling
<1>12. Unfilled(a)'
  BY <1>2, <1>5 DEF Unfilled
<1>. QED
  BY <1>3, <1>4, <1>5, <1>6, <1>8, <1>9, <1>11, <1>12, VisitKeeps

LEMMA DeployRouterKeeps ==
    ASSUME CoreInv, NEW a \in Areas, deploy_router_blueprint(a) PROVE CoreInv'
<1>1. /\ At("edge") /\ at = None /\ a \in left /\ edge_areas' = With(edge_areas, a, NewEdge)
      /\ UNCHANGED <<children_blue_ids, deployed_blueprints, upfs, protected, silent, EdgeVars>>
      /\ EdgeType /\ left \in SUBSET Areas /\ (Fault \/ NoFault)
      /\ lost' = lost \/ lost' = lost \cup {<<a, "router">>}
  BY TypeParts DEF deploy_router_blueprint, NewArea, CoreInv, ControlType
<1>2. PICK d : d = NewEdge
  OBVIOUS
<1>3. d \in Edge /\ d.upf = FALSE /\ d.list = None
  BY <1>2 DEF Edge, NewEdge
<1>4. IsPartial(edge_areas', Areas, Edge) /\ Beside(edge_areas, edge_areas', a) /\ a \in DOMAIN edge_areas' /\ edge_areas'[a] = d
  BY <1>1, <1>2, <1>3, BesideWith DEF EdgeType
<1>5. IsPartial(routers', Areas, Router) /\ Beside(routers, routers', a)
  <2>1. CASE routers' = routers
    BY <1>1, <2>1, BesideSame DEF EdgeType
  <2>2. CASE \E b \in BOOLEAN : routers' = With(routers, a, NewRouter(b))
    <3>1. PICK b \in BOOLEAN : routers' = With(routers, a, NewRouter(b))
      BY <2>2
    <3>2. PICK n : n = NewRouter(b)
      OBVIOUS
    <3>3. n \in Router
      BY <3>2 DEF NewRouter, Router
    <3>. QED
      BY <1>1, <3>1, <3>2, <3>3, BesideWith DEF EdgeType
  <2>. QED
    BY <2>1, <2>2 DEF deploy_router_blueprint
<1>6. EdgeType'
  <2>1. lost' \subseteq Areas \X {"router", "upf", "pdu", "core"}
    BY <1>1 DEF EdgeType
  <2>. QED
    BY <1>1, <1>4, <1>5, <2>1 DEF EdgeType, IsPartial
<1>7. OthersStay(a)
  BY <1>1, <1>4, <1>5, BesideSame, BesideOthers
<1>8. UpfRecorded(a)' /\ RouterRoutes(a)' /\ Unfilled(a)'
  BY <1>3, <1>4 DEF UpfRecorded, RouterRoutes, routed, Unfilled
<1>9. Visiting(a, at)
  BY <1>1 DEF Visiting
<1>10. CASE Within(left, <<a, "router">>)
  <2>1. PICK p : p = <<a, "router">>
    OBVIOUS
  <2>2. Visiting(a, p) /\ p # <<a, "routes">> /\ p # <<a, "undeploy">> /\ p # <<a, "upf">> /\ Within(left, p)
    BY <1>10, <2>1 DEF Visiting, Filling
  <2>. QED
    BY <1>1, <1>6, <1>7, <1>8, <1>9, <2>2, VisitKeeps
<1>11. CASE Abort
  BY <1>1, <1>6, <1>7, <1>8, <1>9, <1>11, VisitAborts
<1>. QED
  BY <1>10, <1>11 DEF deploy_router_blueprint

LEMMA RegisterRouterKeeps ==
    ASSUME CoreInv, NEW a \in Areas, RegisterRouter(a) PROVE CoreInv'
<1>1. /\ At("edge") /\ at = <<a, "router">> /\ Deployed(<<a, "router">>)
      /\ UNCHANGED <<upfs, protected, lost, silent, EdgeVars>> /\ (Fault \/ NoFault)
      /\ EdgeType /\ left \in SUBSET Areas
      /\ children_blue_ids' = children_blue_ids \/ register_children(<<a, "router">>)
  BY TypeParts DEF RegisterRouter, CoreInv, ControlType
<1>2. Unfilled(a) /\ edge_areas[a] \in Edge
  BY <1>1 DEF CoreInv, EdgeInv, At, InEdge, EdgeType, IsPartial, Unfilled
<1>3. children_blue_ids' \subseteq Child /\ deployed_blueprints' \subseteq Child
  BY <1>1 DEF Deployed, register_children, Child, EdgeType
<1>4. Visiting(a, at)
  BY <1>1 DEF Visiting, Filling
<1>5. CASE /\ UNCHANGED routers /\ edge_areas' = [edge_areas EXCEPT ![a].router = "own"]
           /\ Within(left, <<a, "deploy">>)
  <2>1. PICK o \in Edge : o = edge_areas[a]
    BY <1>2
  <2>2. PICK e : e = [o EXCEPT !.router = "own"]
    OBVIOUS
  <2>3. e \in Edge /\ e.upf = FALSE /\ e.list = None
    BY <1>2, <2>1, <2>2 DEF Edge, Unfilled
  <2>4. edge_areas' = [edge_areas EXCEPT ![a] = e]
    BY <1>1, <1>2, <1>5, <2>1, <2>2 DEF EdgeType, IsPartial, Unfilled
  <2>5. /\ IsPartial(edge_areas', Areas, Edge) /\ Beside(edge_areas, edge_areas', a)
        /\ a \in DOMAIN edge_areas' /\ edge_areas'[a] = e
    BY <1>1, <1>2, <2>3, <2>4, BesideExcept DEF EdgeType, Unfilled
  <2>6. EdgeType'
    BY <1>1, <1>3, <1>5, <2>5 DEF EdgeType, IsPartial
  <2>7. OthersStay(a)
    BY <1>1, <1>5, <2>5, BesideSame, BesideOthers
  <2>8. UpfRecorded(a)' /\ RouterRoutes(a)' /\ Unfilled(a)'
    BY <2>3, <2>5 DEF UpfRecorded, RouterRoutes, routed, Unfilled
  <2>9. PICK p : p = <<a, "deploy">>
    OBVIOUS
  <2>10. Visiting(a, p) /\ p # <<a, "routes">> /\ p # <<a, "undeploy">> /\ p # <<a, "upf">> /\ Within(left, p)
    BY <1>5, <2>9 DEF Visiting, Filling
  <2>11. a \notin AreasOf(current_config) \ left
    <3>1. ~EdgeOk(a)
      BY <1>2 DEF EdgeOk, Unfilled
    <3>. QED
      BY <1>1, <3>1 DEF CoreInv, EdgeInv, InEdge, At
  <2>. QED
    BY <1>1, <1>4, <2>6, <2>7, <2>8, <2>10, <2>11, VisitKeeps
<1>6. CASE Abort /\ UNCHANGED <<edge_areas, routers>>
  <2>1. EdgeType'
    BY <1>1, <1>3, <1>6 DEF EdgeType, IsPartial
  <2>2. OthersStay(a)
    BY <1>1, <1>6, BesideSame, BesideOthers
  <2>3. UpfRecorded(a)' /\ RouterRoutes(a)'
    BY <1>2, <1>6 DEF UpfRecorded, RouterRoutes, routed, Unfilled
  <2>. QED
    BY <1>1, <1>4, <1>6, <2>1, <2>2, <2>3, VisitAborts
<1>7. CASE Hang /\ routers' = Without(routers, a) /\ UNCHANGED edge_areas
  <2>1. Shrinks(routers, routers') /\ IsPartial(routers', Areas, Router) /\ Shrinks(upfs, upfs')
    BY <1>1, <1>7, WithoutShrinks DEF EdgeType
  <2>2. EdgeType'
    BY <1>1, <1>3, <1>7, <2>1 DEF EdgeType, IsPartial
  <2>. QED
    BY <1>1, <1>7, <2>1, <2>2, VisitHangs
<1>. QED
  BY <1>5, <1>6, <1>7 DEF RegisterRouter

LEMMA NewConfigFrame ==
    ASSUME NEW a, UNCHANGED <<current_config, core_deployed>>
    PROVE  newConfig(a)' = newConfig(a) /\ (HasProfiles(current_config, a)' <=> HasProfiles(current_config, a))
  BY DEF newConfig, create_upf_config, from_slice_profile, HasProfiles

LEMMA DeployUpfKeeps ==
    ASSUME CoreInv, NEW a \in Areas, deploy_upf_blueprint(a) PROVE CoreInv'
<1>1. /\ At("edge") /\ at = <<a, "deploy">> /\ HasProfiles(current_config, a)
      /\ UNCHANGED <<parentVars, routers, protected, EdgeVars>> /\ (Fault \/ NoFault)
      /\ EdgeType /\ left \in SUBSET Areas /\ KindOk
      /\ lost' = lost \/ lost' = lost \cup {<<a, "upf">>}
  BY TypeParts, KindIsKnown DEF deploy_upf_blueprint, UpfConfigRaises, CoreInv, ControlType
<1>2. Unfilled(a)
  BY <1>1 DEF CoreInv, EdgeInv, At, InEdge
<1>3. PICK c \in UpfConfig : c = newConfig(a)
  BY <1>1, UpfConfigType DEF CoreInv, TypeOK
<1>4. \/ upfs' = upfs /\ silent' = silent /\ Abort
      \/ \E u \in {UpfCreated(c), NewUpf} :
            /\ upfs' = With(upfs, a, u)
            /\ \/ Abort /\ silent' = silent
               \/ /\ Within(left, <<a, "upf">>)
                  /\ \/ silent' = silent /\ u = UpfCreated(c)
                     \/ silent' = silent \cup {<<a, "upf">>}
  BY <1>3 DEF deploy_upf_blueprint
<1>5. UNCHANGED <<edge_areas, children_blue_ids, deployed_blueprints>>
  BY <1>1 DEF parentVars
<1>6. /\ silent' \subseteq Child /\ lost' \subseteq Areas \X {"router", "upf", "pdu", "core"}
      /\ \A b \in Areas : /\ <<b, "router">> \in silent' <=> <<b, "router">> \in silent
                          /\ b # a => (<<b, "upf">> \in silent' <=> <<b, "upf">> \in silent)
  <2>1. silent' = silent \/ silent' = silent \cup {<<a, "upf">>}
    BY <1>4
  <2>. QED
    BY <1>1, <2>1 DEF Child, EdgeType
<1>7. Visiting(a, at) /\ Unfilled(a)' /\ UpfRecorded(a)' /\ RouterRoutes(a)'
  BY <1>1, <1>2, <1>5 DEF Visiting, Filling, Unfilled, UpfRecorded, RouterRoutes, routed
<1>8. CASE upfs' = upfs /\ silent' = silent /\ Abort
  <2>1. EdgeType'
    BY <1>1, <1>5, <1>6, <1>8 DEF EdgeType, IsPartial
  <2>2. OthersStay(a)
    BY <1>1, <1>5, <1>8, BesideSame, BesideOthers
  <2>. QED
    BY <1>1, <1>7, <1>8, <2>1, <2>2, VisitAborts
<1>9. ASSUME NEW u \in {UpfCreated(c), NewUpf}, upfs' = With(upfs, a, u),
             \/ Abort /\ silent' = silent
             \/ /\ Within(left, <<a, "upf">>)
                /\ \/ silent' = silent /\ u = UpfCreated(c)
                   \/ silent' = silent \cup {<<a, "upf">>}
      PROVE  CoreInv'
  <2>1. u \in Upf
    BY <1>1, <1>9, UpfTypes
  <2>2. IsPartial(upfs', Areas, Upf) /\ Beside(upfs, upfs', a) /\ a \in DOMAIN upfs' /\ upfs'[a] = u
    BY <1>1, <1>9, <2>1, BesideWith DEF EdgeType
  <2>3. EdgeType'
    BY <1>1, <1>5, <1>6, <2>2 DEF EdgeType, IsPartial
  <2>4. OthersStay(a)
    BY <1>1, <1>5, <1>6, <2>2, BesideSame, BesideOthers
  <2>5. CASE Abort
    BY <1>1, <1>7, <2>3, <2>4, <2>5, VisitAborts
  <2>6. CASE /\ Within(left, <<a, "upf">>)
             /\ \/ silent' = silent /\ u = UpfCreated(c)
                \/ silent' = silent \cup {<<a, "upf">>}
    <3>1. kind' = kind /\ UNCHANGED <<current_config, core_deployed>>
      BY <1>1, <2>6 DEF Within, NoAnswer, EdgeVars, coreVars
    <3>2. <<a, "upf">> \in silent' \/ u.applied = c \/ (kind \in {"oai", "free5gc"} /\ u.applied = None)
      BY <1>1, <1>3, <2>6, UpfTypes
    <3>3. UpfReady(a)'
      BY <1>1, <1>3, <2>2, <3>1, <3>2, NewConfigFrame DEF UpfReady
    <3>4. PICK p : p = <<a, "upf">>
      OBVIOUS
    <3>5. Visiting(a, p) /\ p # <<a, "undeploy">> /\ p # <<a, "routes">> /\ Within(left, p)
      BY <2>6, <3>4 DEF Visiting, Filling
    <3>6. a \notin AreasOf(current_config) \ left
      <4>1. ~EdgeOk(a)
        BY <1>2 DEF EdgeOk, Unfilled
      <4>. QED
        BY <1>1, <4>1 DEF CoreInv, EdgeInv, InEdge, At
    <3>. QED
      BY <1>1, <1>7, <2>3, <2>4, <3>3, <3>5, <3>6, VisitKeeps
  <2>. QED
    BY <1>9, <2>5, <2>6
<1>. QED
  BY <1>4, <1>8, <1>9

LEMMA RegisterUpfKeeps ==
    ASSUME CoreInv, NEW a \in Areas, RegisterUpf(a) PROVE CoreInv'
<1>1. /\ At("edge") /\ at = <<a, "upf">> /\ Deployed(<<a, "upf">>)
      /\ UNCHANGED <<routers, protected, lost, silent, EdgeVars>> /\ (Fault \/ NoFault)
      /\ EdgeType /\ left \in SUBSET Areas
      /\ children_blue_ids' = children_blue_ids \/ register_children(<<a, "upf">>)
  BY TypeParts DEF RegisterUpf, CoreInv, ControlType
<1>2. Unfilled(a) /\ UpfReady(a) /\ edge_areas[a] \in Edge
  BY <1>1 DEF CoreInv, EdgeInv, At, InEdge, EdgeType, IsPartial, Unfilled
<1>3. children_blue_ids' \subseteq Child /\ deployed_blueprints' \subseteq Child
  BY <1>1 DEF Deployed, register_children, Child, EdgeType
<1>4. Visiting(a, at)
  BY <1>1 DEF Visiting, Filling
<1>5. CASE /\ UNCHANGED upfs /\ a \in DOMAIN upfs
           /\ edge_areas' = [edge_areas EXCEPT ![a].upf = TRUE, ![a].config = newConfig(a), ![a].list = upfs[a].list]
           /\ Within(left, <<a, "routes">>)
  <2>1. PICK o \in Edge : o = edge_areas[a]
    BY <1>2
  <2>2. PICK c \in UpfConfig : c = newConfig(a)
    BY <1>2, UpfConfigType DEF CoreInv, TypeOK, UpfReady
  <2>3. PICK u \in Upf : u = upfs[a]
    BY <1>1, <1>5 DEF EdgeType, IsPartial
  <2>4. PICK e : e = [o EXCEPT !.upf = TRUE, !.config = c, !.list = u.list]
    OBVIOUS
  <2>5. e \in Edge /\ e.upf = TRUE /\ e.config = c
    BY <2>1, <2>2, <2>3, <2>4 DEF Edge, Upf
  <2>6. edge_areas' = [edge_areas EXCEPT ![a] = e]
    BY <1>1, <1>2, <1>5, <2>1, <2>2, <2>3, <2>4 DEF EdgeType, IsPartial, Unfilled
  <2>7. /\ IsPartial(edge_areas', Areas, Edge) /\ Beside(edge_areas, edge_areas', a)
        /\ a \in DOMAIN edge_areas' /\ edge_areas'[a] = e
    BY <1>1, <1>2, <2>5, <2>6, BesideExcept DEF EdgeType, Unfilled
  <2>8. EdgeType'
    BY <1>1, <1>3, <1>5, <2>7 DEF EdgeType, IsPartial
  <2>9. OthersStay(a)
    BY <1>1, <1>5, <2>7, BesideSame, BesideOthers
  <2>10. kind' = kind /\ UNCHANGED <<current_config, core_deployed>>
    BY <1>1, <1>5 DEF Within, NoAnswer, EdgeVars, coreVars
  <2>11. UpfRecorded(a)'
    BY <1>1, <1>2, <1>5, <2>2, <2>5, <2>7, <2>10 DEF UpfRecorded, UpfReady
  <2>12. EdgeOk(a)'
    BY <1>2, <2>2, <2>5, <2>7, <2>10, NewConfigFrame DEF EdgeOk, UpfReady
  <2>13. PICK p : p = <<a, "routes">>
    OBVIOUS
  <2>14. Visiting(a, p) /\ p # <<a, "undeploy">> /\ p # <<a, "upf">> /\ ~Filling(a, p) /\ Within(left, p)
    BY <1>5, <2>13 DEF Visiting, Filling
  <2>. QED
    BY <1>1, <1>4, <2>8, <2>9, <2>11, <2>12, <2>13, <2>14, VisitKeeps
<1>6. CASE Abort /\ UNCHANGED <<edge_areas, upfs>>
  <2>1. EdgeType'
    BY <1>1, <1>3, <1>6 DEF EdgeType, IsPartial
  <2>2. OthersStay(a)
    BY <1>1, <1>6, BesideSame, BesideOthers
  <2>3. UpfRecorded(a)' /\ RouterRoutes(a)'
    BY <1>2, <1>6 DEF UpfRecorded, RouterRoutes, routed, Unfilled
  <2>. QED
    BY <1>1, <1>4, <1>6, <2>1, <2>2, <2>3, VisitAborts
<1>7. CASE Hang /\ upfs' = Without(upfs, a) /\ UNCHANGED edge_areas
  <2>1. Shrinks(upfs, upfs') /\ IsPartial(upfs', Areas, Upf) /\ Shrinks(routers, routers')
    BY <1>1, <1>7, WithoutShrinks DEF EdgeType
  <2>2. EdgeType'
    BY <1>1, <1>3, <1>7, <2>1 DEF EdgeType, IsPartial
  <2>. QED
    BY <1>1, <1>7, <2>1, <2>2, VisitHangs
<1>. QED
  BY <1>5, <1>6, <1>7 DEF RegisterUpf

LEMMA CurrentKeeps ==
    ASSUME CoreInv, NEW a \in Areas, UpfIsCurrent(a) PROVE CoreInv'
<1>1. /\ At("edge") /\ at = None /\ a \in DOMAIN edge_areas /\ edge_areas[a].upf
      /\ HasProfiles(current_config, a) /\ edge_areas[a].config = newConfig(a)
      /\ Within(left, <<a, "routes">>) /\ NoFault /\ UNCHANGED <<parentVars, childVars, silent, EdgeVars>>
      /\ EdgeType /\ left \in SUBSET Areas
  BY TypeParts DEF UpfIsCurrent, OldArea, UpdateRaises, UpfConfigRaises, CoreInv, ControlType
<1>2. UNCHANGED <<edge_areas, routers, upfs, silent, kind, current_config, core_deployed>> /\ EdgeType'
  BY <1>1 DEF EdgeType, IsPartial, parentVars, childVars, EdgeVars, coreVars, Within, NoAnswer
<1>3. OthersStay(a)
  BY <1>2, BesideSame, BesideOthers
<1>4. UpfRecorded(a)'
  BY <1>1, <1>2, RecordFrame DEF CoreInv, EdgeInv
<1>5. EdgeOk(a)'
  BY <1>1, <1>2, EdgeOkFrame DEF EdgeOk
<1>6. PICK p : p = <<a, "routes">>
  OBVIOUS
<1>7. Visiting(a, at) /\ Visiting(a, p) /\ p # <<a, "undeploy">> /\ p # <<a, "upf">> /\ ~Filling(a, p) /\ Within(left, p)
  BY <1>1, <1>6 DEF Visiting, Filling
<1>. QED
  BY <1>1, <1>2, <1>3, <1>4, <1>5, <1>6, <1>7, VisitKeeps

LEMMA UpdateUpfKeeps ==
    ASSUME CoreInv, NEW a \in Areas, UpdateUpf(a) PROVE CoreInv'
<1>1. /\ At("edge") /\ at = None /\ a \in DOMAIN edge_areas /\ edge_areas[a].upf /\ a \in DOMAIN upfs
      /\ HasProfiles(current_config, a) /\ Within(left, <<a, "routes">>) /\ (Fault \/ NoFault)
      /\ UNCHANGED <<children_blue_ids, deployed_blueprints, routers, protected, lost, EdgeVars>>
      /\ EdgeType /\ left \in SUBSET Areas /\ KindOk
  BY TypeParts, KindIsKnown DEF UpdateUpf, OldArea, UpdateRaises, UpfConfigRaises, CoreInv, ControlType
<1>2. PICK c \in UpfConfig : c = newConfig(a)
  BY <1>1, UpfConfigType DEF CoreInv, TypeOK
<1>3. PICK v \in Upf : v = upfs[a]
  BY <1>1 DEF EdgeType, IsPartial
<1>4. PICK w : w = UpfUpdated(v, c)
  OBVIOUS
<1>5. w \in Upf /\ w.applied = c
  BY <1>1, <1>2, <1>3, <1>4, UpfTypes
<1>6. /\ edge_areas' = [edge_areas EXCEPT ![a].config = c, ![a].list = upfs'[a].list]
      /\ \/ upfs' = [upfs EXCEPT ![a] = w] /\ silent' = silent \ {<<a, "upf">>}
         \/ upfs' = upfs /\ silent' = silent \cup {<<a, "upf">>}
  BY <1>2, <1>3, <1>4 DEF UpdateUpf
<1>7. /\ IsPartial(upfs', Areas, Upf) /\ Beside(upfs, upfs', a) /\ DOMAIN upfs' = DOMAIN upfs
      /\ \/ upfs'[a] = w
         \/ <<a, "upf">> \in silent'
  BY <1>1, <1>5, <1>6, BesideExcept, BesideSame DEF EdgeType
<1>8. PICK u \in Upf : u = upfs'[a]
  BY <1>1, <1>7 DEF IsPartial
<1>9. PICK o \in Edge : o = edge_areas[a]
  BY <1>1 DEF EdgeType, IsPartial
<1>10. PICK e : e = [o EXCEPT !.config = c, !.list = u.list]
  OBVIOUS
<1>11. e \in Edge /\ e.upf = o.upf /\ e.config = c
  BY <1>2, <1>8, <1>9, <1>10 DEF Edge, Upf
<1>12. edge_areas' = [edge_areas EXCEPT ![a] = e]
  BY <1>1, <1>6, <1>8, <1>9, <1>10 DEF EdgeType, IsPartial
<1>13. /\ IsPartial(edge_areas', Areas, Edge) /\ Beside(edge_areas, edge_areas', a)
       /\ a \in DOMAIN edge_areas' /\ edge_areas'[a] = e
  BY <1>1, <1>11, <1>12, BesideExcept DEF EdgeType
<1>14. silent' \subseteq Child
  BY <1>1, <1>6 DEF Child, EdgeType
<1>15. EdgeType'
  BY <1>1, <1>7, <1>13, <1>14 DEF EdgeType, IsPartial
<1>16. OthersStay(a)
  BY <1>1, <1>6, <1>7, <1>13, BesideSame, BesideOthers
<1>17. kind' = kind /\ UNCHANGED <<current_config, core_deployed>>
  BY <1>1 DEF Within, NoAnswer, EdgeVars, coreVars
<1>18. UpfRecorded(a)'
  BY <1>5, <1>7, <1>11, <1>13 DEF UpfRecorded
<1>19. EdgeOk(a)'
  BY <1>1, <1>2, <1>9, <1>11, <1>13, <1>17, NewConfigFrame DEF EdgeOk
<1>20. PICK p : p = <<a, "routes">>
  OBVIOUS
<1>21. Visiting(a, at) /\ Visiting(a, p) /\ p # <<a, "undeploy">> /\ p # <<a, "upf">> /\ ~Filling(a, p) /\ Within(left, p)
  BY <1>1, <1>20 DEF Visiting, Filling
<1>. QED
  BY <1>1, <1>15, <1>16, <1>18, <1>19, <1>20, <1>21, VisitKeeps

LEMMA RoutesKeep ==
    ASSUME CoreInv, NEW a \in Areas, add_route_to_router(a) PROVE CoreInv'
<1>1. /\ At("edge") /\ at = <<a, "routes">> /\ (routed(a) # {} => a \in DOMAIN routers)
      /\ Within(left \ {a}, None) /\ (Fault \/ NoFault) /\ UNCHANGED <<parentVars, upfs, protected, lost, EdgeVars>>
      /\ EdgeType /\ left \in SUBSET Areas
  BY TypeParts DEF add_route_to_router, CoreInv, ControlType
<1>2. EdgeOk(a) /\ UpfRecorded(a)
  BY <1>1 DEF CoreInv, EdgeInv, At, InEdge, EdgeOk
<1>3. UNCHANGED <<kind, current_config, core_deployed, edge_areas, upfs, children_blue_ids, deployed_blueprints, protected>>
  BY <1>1 DEF Within, NoAnswer, EdgeVars, coreVars, parentVars
<1>4. routed(a)' = routed(a)
  BY <1>3 DEF routed
<1>5. routed(a) \subseteq Dnns
  <2>1. edge_areas[a] \in Edge
    BY <1>1, <1>2 DEF EdgeOk, EdgeType, IsPartial
  <2>2. edge_areas[a].list \in Lists
    BY <2>1 DEF Edge, Lists
  <2>3. edge_areas[a].list # None => \A s \in DOMAIN edge_areas[a].list : edge_areas[a].list[s] \subseteq Dnns
    BY <2>2, PartialIff DEF Lists
  <2>. QED
    BY <2>3 DEF routed
<1>6. \/ routers' = routers /\ routed(a) = {} /\ silent' = silent \ {<<a, "router">>}
      \/ \E D \in SUBSET routed(a) :
            /\ routed(a) # {}
            /\ routers' = [routers EXCEPT ![a].routes = @ \cup D]
            /\ \/ D = routed(a) /\ silent' = silent \ {<<a, "router">>}
               \/ silent' = silent \cup {<<a, "router">>}
  BY DEF add_route_to_router
<1>7. /\ silent' \subseteq Child
      /\ \A b \in Areas : /\ <<b, "upf">> \in silent' <=> <<b, "upf">> \in silent
                          /\ b # a => (<<b, "router">> \in silent' <=> <<b, "router">> \in silent)
  <2>1. silent' = silent \ {<<a, "router">>} \/ silent' = silent \cup {<<a, "router">>}
    BY <1>6
  <2>. QED
    BY <1>1, <2>1 DEF EdgeType, Child
<1>8. IsPartial(routers', Areas, Router) /\ Beside(routers, routers', a) /\ RouterRoutes(a)'
  <2>1. CASE routers' = routers /\ routed(a) = {}
    <3>1. RouterRoutes(a)'
      BY <1>4, <2>1 DEF RouterRoutes
    <3>. QED
      BY <1>1, <2>1, <3>1, BesideSame DEF EdgeType
  <2>2. CASE \E D \in SUBSET routed(a) :
            /\ routed(a) # {}
            /\ routers' = [routers EXCEPT ![a].routes = @ \cup D]
            /\ \/ D = routed(a) /\ silent' = silent \ {<<a, "router">>}
               \/ silent' = silent \cup {<<a, "router">>}
    <3>1. PICK D \in SUBSET routed(a) :
            /\ routed(a) # {}
            /\ routers' = [routers EXCEPT ![a].routes = @ \cup D]
            /\ \/ D = routed(a) /\ silent' = silent \ {<<a, "router">>}
               \/ silent' = silent \cup {<<a, "router">>}
      BY <2>2
    <3>2. a \in DOMAIN routers
      BY <1>1, <3>1
    <3>3. PICK r \in Router : r = routers[a]
      BY <1>1, <3>2 DEF EdgeType, IsPartial
    <3>4. PICK n : n = [r EXCEPT !.routes = @ \cup D]
      OBVIOUS
    <3>5. n \in Router /\ n.routes = r.routes \cup D
      BY <1>5, <3>3, <3>4 DEF Router
    <3>6. routers' = [routers EXCEPT ![a] = n]
      BY <3>1, <3>2, <3>3, <3>4 DEF EdgeType, IsPartial
    <3>7. IsPartial(routers', Areas, Router) /\ Beside(routers, routers', a) /\ routers'[a] = n
      BY <1>1, <3>2, <3>5, <3>6, BesideExcept DEF EdgeType
    <3>8. RouterRoutes(a)'
      <4>1. CASE D = routed(a)
        BY <1>4, <3>5, <3>7, <4>1 DEF RouterRoutes
      <4>2. CASE silent' = silent \cup {<<a, "router">>}
        BY <4>2 DEF RouterRoutes
      <4>. QED
        BY <3>1, <4>1, <4>2
    <3>. QED
      BY <3>7, <3>8
  <2>. QED
    BY <1>6, <2>1, <2>2
<1>9. EdgeType'
  BY <1>1, <1>3, <1>7, <1>8 DEF EdgeType, IsPartial
<1>10. OthersStay(a)
  BY <1>3, <1>7, <1>8, BesideSame, BesideOthers
<1>11. UpfRecorded(a)'
  BY <1>2, <1>3, <1>7 DEF UpfRecorded
<1>12. EdgeOk(a)'
  BY <1>2, <1>3, EdgeOkFrame
<1>13. PICK p : p = None
  OBVIOUS
<1>14. PICK l \in SUBSET Areas : l = left \ {a}
  BY <1>1
<1>15. /\ Visiting(a, at) /\ Visiting(a, p) /\ p # <<a, "undeploy">> /\ p # <<a, "upf">> /\ ~Filling(a, p)
       /\ Within(l, p) /\ left \ {a} \subseteq l
  BY <1>1, <1>13, <1>14, NotAt DEF Visiting, Filling
<1>. QED
  BY <1>1, <1>8, <1>9, <1>10, <1>11, <1>12, <1>15, VisitKeeps

LEMMA HangIsNot ==
    ASSUME alive = "yes", NEW l, NEW p, Within(l, p) \/ Abort PROVE ~Hang
  BY DEF Within, NoAnswer, Abort, Hang

LEMMA UndeployRouterKeeps ==
    ASSUME CoreInv, NEW a \in Areas, undeploy_router_blueprint(a) PROVE CoreInv'
<1>1. /\ At("edge") /\ at = None /\ a \in DOMAIN edge_areas \ AreasOf(current_config)
      /\ (Fault \/ NoFault) /\ UNCHANGED <<edge_areas, upfs, protected, lost, EdgeVars>>
      /\ Within(left, <<a, "undeploy">>) \/ Abort \/ Hang
      /\ EdgeType /\ left \in SUBSET Areas
  BY TypeParts DEF undeploy_router_blueprint, OverArea, CoreInv, ControlType
<1>2. UNCHANGED <<kind, core_deployed>>
  BY <1>1 DEF Within, NoAnswer, Abort, Hang, EdgeVars, coreVars
<1>3. UpfRecorded(a) /\ RouterRoutes(a)
  BY <1>1, RecordedAtRest DEF CoreInv, Recorded
<1>4. \/ UNCHANGED <<routers, children_blue_ids, deployed_blueprints, silent>>
      \/ /\ routers' = Without(routers, a) /\ silent' = silent \ {<<a, "router">>} /\ ~Hang
         /\ Disown(<<a, "router">>) \/ Dropped(<<a, "router">>)
  BY <1>1, HangIsNot DEF undeploy_router_blueprint, At
<1>5. /\ children_blue_ids' \subseteq Child /\ deployed_blueprints' \subseteq Child /\ silent' \subseteq Child
      /\ \A b \in Areas : /\ <<b, "upf">> \in silent' <=> <<b, "upf">> \in silent
                          /\ b # a => (<<b, "router">> \in silent' <=> <<b, "router">> \in silent)
  BY <1>1, <1>4 DEF Disown, Dropped, EdgeType
<1>6. IsPartial(routers', Areas, Router) /\ Beside(routers, routers', a) /\ RouterRoutes(a)'
  <2>1. CASE UNCHANGED <<routers, silent>>
    <3>1. RouterRoutes(a)'
      BY <1>1, <1>2, <1>3, <2>1, RecordFrame
    <3>. QED
      BY <1>1, <2>1, <3>1, BesideSame DEF EdgeType
  <2>2. CASE routers' = Without(routers, a)
    <3>1. IsPartial(routers', Areas, Router) /\ Beside(routers, routers', a) /\ a \notin DOMAIN routers'
      BY <1>1, <2>2, BesideWithout DEF EdgeType
    <3>. QED
      BY <3>1 DEF RouterRoutes
  <2>. QED
    BY <1>4, <2>1, <2>2
<1>7. EdgeType'
  BY <1>1, <1>5, <1>6 DEF EdgeType, IsPartial
<1>8. OthersStay(a)
  BY <1>1, <1>5, <1>6, BesideSame, BesideOthers
<1>9. UpfRecorded(a)'
  BY <1>1, <1>2, <1>3, <1>5 DEF UpfRecorded
<1>10. Visiting(a, at)
  BY <1>1 DEF Visiting
<1>11. CASE Within(left, <<a, "undeploy">>)
  <2>1. PICK p : p = <<a, "undeploy">>
    OBVIOUS
  <2>2. Visiting(a, p) /\ p # <<a, "routes">> /\ p # <<a, "upf">> /\ ~Filling(a, p) /\ Within(left, p)
    BY <1>11, <2>1 DEF Visiting, Filling
  <2>. QED
    BY <1>1, <1>6, <1>7, <1>8, <1>9, <1>10, <2>2, VisitKeeps
<1>12. CASE Abort
  BY <1>1, <1>6, <1>7, <1>8, <1>9, <1>10, <1>12, VisitAborts
<1>13. CASE Hang
  <2>1. UNCHANGED <<routers, silent>>
    BY <1>4, <1>13
  <2>2. Shrinks(routers, routers') /\ Shrinks(upfs, upfs')
    BY <1>1, <2>1, WithoutShrinks DEF EdgeType
  <2>. QED
    BY <1>1, <1>7, <1>13, <2>1, <2>2, VisitHangs
<1>. QED
  BY <1>1, <1>11, <1>12, <1>13

LEMMA UndeployUpfKeeps ==
    ASSUME CoreInv, NEW a \in Areas, undeploy_upf_blueprint(a) PROVE CoreInv'
<1>1. /\ At("edge") /\ at = <<a, "undeploy">> /\ (Fault \/ NoFault)
      /\ UNCHANGED <<routers, protected, lost, EdgeVars>>
      /\ EdgeType /\ left \in SUBSET Areas
  BY TypeParts DEF undeploy_upf_blueprint, CoreInv, ControlType
<1>2. a \in DOMAIN edge_areas /\ a \notin AreasOf(current_config) /\ UpfRecorded(a) /\ RouterRoutes(a)
  BY <1>1 DEF CoreInv, EdgeInv, At, InEdge
<1>3. Visiting(a, at)
  BY <1>1 DEF Visiting
<1>4. CASE /\ upfs' = Without(upfs, a) /\ silent' = silent \ {<<a, "upf">>}
           /\ \/ Disown(<<a, "upf">>) /\ edge_areas' = Without(edge_areas, a) /\ Within(left, None)
              \/ Dropped(<<a, "upf">>) /\ Abort /\ UNCHANGED edge_areas
  <2>1. IsPartial(upfs', Areas, Upf) /\ Beside(upfs, upfs', a) /\ a \notin DOMAIN upfs'
    BY <1>1, <1>4, BesideWithout DEF EdgeType
  <2>2. /\ children_blue_ids' \subseteq Child /\ deployed_blueprints' \subseteq Child /\ silent' \subseteq Child
        /\ \A b \in Areas : /\ <<b, "router">> \in silent' <=> <<b, "router">> \in silent
                            /\ b # a => (<<b, "upf">> \in silent' <=> <<b, "upf">> \in silent)
    BY <1>1, <1>4 DEF Disown, Dropped, EdgeType
  <2>3. CASE edge_areas' = Without(edge_areas, a) /\ Within(left, None)
    <3>1. IsPartial(edge_areas', Areas, Edge) /\ Beside(edge_areas, edge_areas', a) /\ a \notin DOMAIN edge_areas'
      BY <1>1, <2>3, BesideWithout DEF EdgeType
    <3>2. EdgeType'
      BY <1>1, <2>1, <2>2, <3>1 DEF EdgeType, IsPartial
    <3>3. OthersStay(a)
      BY <1>1, <2>1, <2>2, <3>1, BesideSame, BesideOthers
    <3>4. PICK p : p = None
      OBVIOUS
    <3>5. /\ Visiting(a, p) /\ p # <<a, "routes">> /\ p # <<a, "upf">> /\ p # <<a, "undeploy">>
          /\ ~Filling(a, p) /\ Within(left, p)
      BY <2>3, <3>4, NotAt DEF Visiting, Filling
    <3>. QED
      BY <1>1, <1>2, <1>3, <3>1, <3>2, <3>3, <3>5, VisitKeeps
  <2>4. CASE Abort /\ UNCHANGED edge_areas
    <3>1. EdgeType'
      BY <1>1, <2>1, <2>2, <2>4 DEF EdgeType, IsPartial
    <3>2. OthersStay(a)
      BY <1>1, <2>1, <2>2, <2>4, BesideSame, BesideOthers
    <3>3. kind' = kind
      BY <2>4 DEF Abort
    <3>4. UpfRecorded(a)'
      BY <2>1 DEF UpfRecorded
    <3>5. routed(a)' = routed(a)
      BY <2>4, <3>3 DEF routed
    <3>6. RouterRoutes(a)'
      BY <1>1, <1>2, <2>2, <3>5 DEF RouterRoutes
    <3>. QED
      BY <1>1, <1>3, <2>4, <3>1, <3>2, <3>4, <3>6, VisitAborts
  <2>. QED
    BY <1>4, <2>3, <2>4
<1>5. CASE Hang /\ UNCHANGED <<upfs, parentVars, silent>>
  <2>1. UNCHANGED <<edge_areas, children_blue_ids, deployed_blueprints>>
    BY <1>5 DEF parentVars
  <2>2. EdgeType'
    BY <1>1, <1>5, <2>1 DEF EdgeType, IsPartial
  <2>3. Shrinks(routers, routers') /\ Shrinks(upfs, upfs')
    BY <1>1, <1>5, WithoutShrinks DEF EdgeType
  <2>. QED
    BY <1>1, <1>5, <2>1, <2>2, <2>3, VisitHangs
<1>. QED
  BY <1>4, <1>5 DEF undeploy_upf_blueprint

LEMMA EdgeKeeps ==
    ASSUME CoreInv, update_edge_areas PROVE CoreInv'
  BY ExternalKeeps, DeployRouterKeeps, RegisterRouterKeeps, DeployUpfKeeps, RegisterUpfKeeps, CurrentKeeps, UpdateUpfKeeps, RoutesKeep,
     UndeployRouterKeeps, UndeployUpfKeeps, EdgeRaisesKeeps, EdgeDoneKeeps DEF update_edge_areas

-----------------------------------------------------------------------------
(* All together. *)

LEMMA StepKeeps ==
    ASSUME CoreInv, Step \/ Wait PROVE CoreInv'
<1>1. ControlType /\ CoreType /\ RanType /\ UeInv
  BY TypeParts DEF CoreInv
<1>2. CASE register_resource \/ update_core_values \/ install_helm_chart \/ update_k8s_network_functions
  BY <1>1, <1>2, RegisterMoves, ValuesMoves, InstallMoves, FunctionsMove, CoreMoveKeeps
<1>3. CASE wait_core_ready \/ LockCorePdu \/ update_values_helm_chart \/ configure \/ ues_additional_infos
  BY <1>1, <1>3, ReadyMoves, PduMoves, PushMoves, InfosMove, CoreMoveKeeps
<1>4. CASE add_ues \/ disassociating_subscriber_from_slice \/ del_subscriber_to_conf \/ del_user
  BY <1>1, <1>4, AddUesMoves, DisassociateMoves, UdrDelMoves, DelUserMoves, CoreMoveKeeps
<1>5. CASE AlwaysRaises \/ update_gnb_config \/ restore_base_config \/ delete_all_supis
  BY <1>1, <1>5, RaiseMoves, GnbMoves, RestoreMoves, SupisMove, CoreMoveKeeps
<1>6. CASE update_edge_areas \/ Answer \/ final_cleanup \/ \E c \in Child : DestroyChild(c)
  BY <1>6, EdgeKeeps, AnswerKeeps, CleanupKeeps, DestroyChildKeeps
<1>. QED
  BY <1>2, <1>3, <1>4, <1>5, <1>6 DEF Step, Wait

LEMMA StutterKeeps ==
    ASSUME CoreInv, UNCHANGED vars PROVE CoreInv'
<1>1. UNCHANGED <<kind, current_config, backup_config, op, todo, left, at, answer, alive, created, sound, silent, ops, faults>>
  BY DEF vars
<1>2. UNCHANGED <<children_blue_ids, deployed_blueprints, edge_areas, routers, upfs, protected, lost>>
  BY DEF vars, parentVars, childVars
<1>3. UNCHANGED <<chart, core_deployed, values, live, ue_dict, udr, ran_areas, locked, gnb>>
  BY DEF vars, coreVars, ranVars
<1>4. TypeOK'
  BY <1>1, <1>2, <1>3 DEF CoreInv, TypeOK, IsPartial
<1>5. Shrinks(routers, routers') /\ Shrinks(upfs, upfs')
  BY <1>2 DEF Shrinks
<1>. QED
  BY <1>1, <1>2, <1>3, <1>4, <1>5, ShrinkKeeps

LEMMA NextKeeps ==
    ASSUME CoreInv, [Next]_vars PROVE CoreInv'
  BY RequestKeeps, StepKeeps, UserKeeps, StutterKeeps DEF Next

LEMMA InitHolds == Init => CoreInv
<1> SUFFICES ASSUME Init PROVE CoreInv
  OBVIOUS
<1>1. PICK z : z = <<>>
  OBVIOUS
<1>2. DOMAIN z = {} /\ z = [x \in {} |-> x]
  BY <1>1
<1>3. \A S, T : z \in Partial(S, T) /\ IsPartial(z, S, T)
  BY <1>2 DEF Partial, IsPartial
<1>4. /\ EmptyConfig \in Config /\ EmptyConfig.profiles = {}
  BY <1>1, <1>3 DEF EmptyConfig, Config
<1>5. \A X : ~Has(todo, X)
  BY EmptySteps DEF Init
<1>6. TypeOK
  <2>1. /\ current_config \in Config /\ backup_config \in Config /\ kind \in Kinds
    BY <1>4 DEF Init
  <2>2. /\ IsPartial(edge_areas, Areas, Edge) /\ IsPartial(routers, Areas, Router) /\ IsPartial(upfs, Areas, Upf)
        /\ gnb \in Partial(Areas, SUBSET Slices)
    BY <1>1, <1>3 DEF Init
  <2>3. todo \in Seq(Steps) /\ ops \in 0..MaxOps /\ faults \in 0..MaxFaults
    BY BoundsAssumption, EmptySteps DEF Init
  <2>4. /\ ran_areas \subseteq Areas /\ locked \subseteq Areas /\ protected \subseteq Child /\ silent \subseteq Child
        /\ children_blue_ids \subseteq Child /\ deployed_blueprints \subseteq Child
        /\ ue_dict \subseteq Ues /\ udr \subseteq Ues /\ left \subseteq Areas
        /\ lost \subseteq Areas \X {"router", "upf", "pdu", "core"}
    BY DEF Init
  <2>5. /\ core_deployed \in BOOLEAN /\ created \in BOOLEAN /\ sound \in BOOLEAN /\ alive \in {"yes", "gone", "stuck", "hung"}
        /\ chart \in {"none", "locked", "registered", "running"} /\ answer \in {"none", "ok", "error"}
        /\ values \in Values \cup {None} /\ live \in Values \cup {None, Mixed}
        /\ op \in Operation \cup {None} /\ at \in Position \cup {None}
    BY DEF Init
  <2>. QED
    BY <2>1, <2>2, <2>3, <2>4, <2>5 DEF TypeOK
<1>7. UeInv /\ SoundInv
  BY <1>5 DEF Init, UeInv, SoundInv
<1>8. ConfigInv
  BY <1>4 DEF Init, ConfigInv, configuration_feasibility_check
<1>9. EdgeInv
  BY <1>1, <1>2 DEF Init, EdgeInv, InEdge
<1>. QED
  BY <1>6, <1>7, <1>8, <1>9 DEF CoreInv

(* The inductive invariant holds in every reachable state.                 *)
THEOREM CoreInvariance == Spec => []CoreInv
<1>1. CoreInv /\ [Next]_vars => CoreInv'
  BY NextKeeps
<1>. QED
  BY InitHolds, <1>1, PTL DEF Spec

(* Every variable keeps its type: the day-2 edits make configurations, the *)
(* UPFs' lists and the routers' routes name slices and data networks, the  *)
(* program of each operation is a sequence of known steps.                 *)
THEOREM TypeCorrect == Spec => []TypeOK
<1>1. CoreInv => TypeOK
  BY DEF CoreInv
<1>. QED
  BY CoreInvariance, <1>1, PTL

(* Once create has succeeded, the configuration an idle core records can   *)
(* be deployed: a day-2 operation either computes the values of the new    *)
(* configuration before it answers OK, or puts back the copy it took       *)
(* (backup_config), which was deployable itself.                           *)
THEOREM ConfigStaysDeployable == Spec => []ConfigIsDeployable
<1>1. CoreInv => ConfigIsDeployable
  BY DEF CoreInv, ConfigInv, ConfigIsDeployable, Idle
<1>. QED
  BY CoreInvariance, <1>1, PTL

(* A core at rest whose last complete operation succeeded serves exactly   *)
(* its configuration: update_edge_areas has visited every area since the   *)
(* configuration changed, update_gnb_config has configured every gNB, and  *)
(* the values told last are those of this configuration.                   *)
THEOREM SettledServed == Spec => []SettledIsServed
<1>1. ASSUME CoreInv PROVE SettledIsServed
  <2> SUFFICES ASSUME Idle, sound PROVE SettledIsServed
    BY DEF SettledIsServed
  <2>1. at = None /\ EdgesOk /\ GnbsOk /\ LiveOk
    BY <1>1 DEF CoreInv, EdgeInv, SoundInv, InEdge, Idle
  <2>2. Recorded
    BY <1>1, <2>1, TypeParts, RecordedAtRest DEF CoreInv
  <2>3. ASSUME NEW a \in AreasOf(current_config)
        PROVE  /\ UpfServes(a) /\ RouterRoutes(a)
               /\ a \in locked \cap ran_areas /\ gnb[a] = current_config.areas[a]
    <3>1. a \in DOMAIN edge_areas /\ EdgeOk(a) /\ kind # "free5gc"
      BY <2>1, <2>3 DEF EdgesOk, GnbsOk
    <3>2. UpfRecorded(a) /\ RouterRoutes(a)
      BY <2>2, <3>1 DEF Recorded
    <3>3. UpfServes(a)
      BY <3>1, <3>2 DEF UpfRecorded, UpfServes, EdgeOk, newConfig
    <3>. QED
      BY <2>1, <2>3, <3>2, <3>3 DEF GnbsOk
  <2>. QED
    BY <2>1, <2>3 DEF SettledIsServed, EdgesOk, LiveOk
<1>2. CoreInv => SettledIsServed
  BY <1>1
<1>. QED
  BY CoreInvariance, <1>2, PTL

-----------------------------------------------------------------------------
(* The children.  That each of them is in reach is inductive, given        *)
(* CoreInv; what destroy leaves behind rests on it: at its end no child is *)
(* registered, and the provider deletes what it lists.                     *)
IInv == ChildrenReachable /\ DestroyedLeavesNothing

Fine(c) ==
    Exists(c) =>
        /\ c \in deployed_blueprints \/ at = c \/ c \in lost
        /\ InUse(c) => c \in children_blue_ids

(* What most steps do: every child stays in reach, the blueprint lives on. *)
Careful == alive = "yes" /\ alive' # "gone" /\ \A c \in Child : Fine(c) => Fine(c)'

LEMMA CarefulKeeps ==
    ASSUME IInv, Careful PROVE IInv'
<1>1. \A c \in Child : Fine(c)
  BY DEF IInv, Careful, ChildrenReachable, Fine
<1>2. \A c \in Child : Fine(c)'
  BY <1>1 DEF Careful
<1>3. ChildrenReachable'
  BY <1>2 DEF ChildrenReachable, Fine
<1>. QED
  BY <1>3 DEF IInv, Careful, DestroyedLeavesNothing

LEMMA NotAChild ==
    ASSUME NEW p, NEW a, p \in {None, <<a, "deploy">>, <<a, "routes">>, <<a, "undeploy">>}
    PROVE  p \notin Child
<1>1. Child \subseteq Position
  BY DEF Child, Position
<1>. QED
  BY <1>1, NoneAssumption DEF Child

(* A step that is not about a child, outside its creation. *)
LEMMA SameChildren ==
    ASSUME UNCHANGED <<edge_areas, routers, upfs>>, at \notin Child, alive = "yes", alive' # "gone",
           children_blue_ids \subseteq children_blue_ids',
           deployed_blueprints \subseteq deployed_blueprints', lost \subseteq lost'
    PROVE  Careful
<1>1. ASSUME NEW c \in Child, Fine(c) PROVE Fine(c)'
  <2>1. at # c
    OBVIOUS
  <2>2. (Exists(c)' <=> Exists(c)) /\ (InUse(c)' <=> InUse(c))
    BY DEF Exists, InUse
  <2>. QED
    BY <1>1, <2>1, <2>2 DEF Fine
<1>. QED
  BY <1>1 DEF Careful

(* A step on the children of area a: only they need a look. *)
LEMMA AreaCareful ==
    ASSUME NEW a \in Areas, alive = "yes", alive' # "gone", Visiting(a, at),
           Beside(edge_areas, edge_areas', a), Beside(routers, routers', a), Beside(upfs, upfs', a),
           \A b \in Areas \ {a} : \A k \in {"router", "upf"} :
               /\ <<b, k>> \in children_blue_ids => <<b, k>> \in children_blue_ids'
               /\ <<b, k>> \in deployed_blueprints => <<b, k>> \in deployed_blueprints'
               /\ <<b, k>> \in lost => <<b, k>> \in lost',
           Fine(<<a, "router">>) => Fine(<<a, "router">>)',
           Fine(<<a, "upf">>) => Fine(<<a, "upf">>)'
    PROVE  Careful
<1>1. ASSUME NEW c \in Child, Fine(c) PROVE Fine(c)'
  <2>1. PICK b \in Areas, k \in {"router", "upf"} : c = <<b, k>>
    BY DEF Child
  <2>2. CASE b = a
    BY <1>1, <2>1, <2>2
  <2>3. CASE b # a
    <3>1. at # c
      BY <2>1, <2>3, VisitIsOf DEF Filling
    <3>2. /\ b \in DOMAIN edge_areas' <=> b \in DOMAIN edge_areas
          /\ b \in DOMAIN edge_areas => edge_areas'[b] = edge_areas[b]
          /\ b \in DOMAIN routers' <=> b \in DOMAIN routers
          /\ b \in DOMAIN upfs' <=> b \in DOMAIN upfs
      BY <2>3 DEF Beside
    <3>3. (Exists(c)' <=> Exists(c)) /\ (InUse(c)' <=> InUse(c))
      BY <2>1, <3>2 DEF Exists, InUse
    <3>4. /\ c \in children_blue_ids => c \in children_blue_ids'
          /\ c \in deployed_blueprints => c \in deployed_blueprints'
          /\ c \in lost => c \in lost'
      BY <2>1, <2>3
    <3>. QED
      BY <1>1, <3>1, <3>3, <3>4 DEF Fine
  <2>. QED
    BY <2>2, <2>3
<1>. QED
  BY <1>1 DEF Careful

LEMMA CoreCareful ==
    ASSUME EdgeInv, NEW step, CoreMove(step) PROVE Careful
<1>1. at = None /\ alive = "yes"
  BY DEF CoreMove, CoreStep, EdgeInv, InEdge, At
<1>2. alive' # "gone"
  BY <1>1 DEF CoreMove, Advance, Abort, Stuck, NoAnswer
<1>3. UNCHANGED <<edge_areas, routers, upfs, children_blue_ids, deployed_blueprints, lost>>
  BY DEF CoreMove, CoreStep, parentVars, childVars
<1>4. at \notin Child
  BY <1>1, NotAChild
<1>. QED
  BY <1>1, <1>2, <1>3, <1>4, SameChildren

LEMMA RequestCareful ==
    ASSUME CoreInv, Request PROVE Careful
<1>1. ASSUME Idle, UNCHANGED <<parentVars, childVars, alive>> PROVE Careful
  <2>1. at = None /\ alive = "yes" /\ alive' # "gone"
    BY <1>1 DEF Idle, CoreInv, EdgeInv, InEdge
  <2>2. UNCHANGED <<edge_areas, routers, upfs, children_blue_ids, deployed_blueprints, lost>>
    BY <1>1 DEF parentVars, childVars
  <2>3. at \notin Child
    BY <2>1, NotAChild
  <2>. QED
    BY <2>1, <2>2, <2>3, SameChildren
<1>2. ASSUME NEW c \in Configs, create(c) PROVE Careful
  BY <1>1, <1>2 DEF create, Start
<1>3. ASSUME NEW c \in Configs, create_raises(c) PROVE Careful
  BY <1>1, <1>3 DEF create_raises
<1>4. CASE DayTwo
  BY <1>1, <1>4 DEF DayTwo, Day2, Start
<1>5. CASE destroy
  BY <1>1, <1>5 DEF destroy, Start
<1>6. current_config \in Config
  BY DEF CoreInv, TypeOK
<1>. QED
  BY <1>2, <1>3, <1>4, <1>5, <1>6, RequestIs

LEMMA AnswerCareful ==
    ASSUME CoreInv, Answer PROVE Careful
<1>1. at = None /\ alive = "yes" /\ alive' # "gone"
  BY DEF Answer, CoreInv, EdgeInv, InEdge
<1>2. UNCHANGED <<edge_areas, routers, upfs, children_blue_ids, deployed_blueprints, lost>>
  BY DEF Answer, parentVars, childVars
<1>3. at \notin Child
  BY <1>1, NotAChild
<1>. QED
  BY <1>1, <1>2, <1>3, SameChildren

(* update_edge_areas: a child that exists and is used has been registered  *)
(* between its creation and its use, whatever raises in between.           *)
LEMMA EdgeStepCareful ==
    ASSUME CoreInv, NEW a \in Areas,
           UpfIsCurrent(a) \/ EdgeRaises(a)
    PROVE  Careful
<1>1. /\ alive = "yes" /\ alive' # "gone"
      /\ at = None \/ at = <<a, "deploy">> \/ at = <<a, "routes">> \/ at = <<a, "undeploy">>
      /\ UNCHANGED <<edge_areas, routers, upfs, children_blue_ids, deployed_blueprints, lost>>
  BY DEF UpfIsCurrent, OldArea, OverArea, EdgeRaises, Within, Abort, NoAnswer, At, parentVars, childVars
<1>2. at \notin Child
  BY <1>1, NotAChild
<1>. QED
  BY <1>1, <1>2, SameChildren

LEMMA ExternalCareful ==
    ASSUME CoreInv, NEW a \in Areas, ExternalRouter(a) PROVE Careful
<1>1. PICK e : e = [NewEdge EXCEPT !.router = "external"]
  OBVIOUS
<1>2. e \in Edge /\ e.router = "external" /\ e.upf = FALSE
  BY <1>1 DEF NewEdge, Edge
<1>3. /\ alive = "yes" /\ alive' # "gone" /\ at = None /\ edge_areas' = With(edge_areas, a, e)
      /\ UNCHANGED <<children_blue_ids, deployed_blueprints, routers, upfs, lost>>
      /\ EdgeType
  BY <1>1, TypeParts DEF ExternalRouter, NewArea, At, Within, NoAnswer, childVars, CoreInv
<1>4. Beside(edge_areas, edge_areas', a) /\ a \in DOMAIN edge_areas' /\ edge_areas'[a] = e
  BY <1>2, <1>3, BesideWith DEF EdgeType
<1>5. at # <<a, "router">> /\ at # <<a, "upf">> /\ Visiting(a, at)
  BY <1>3, NotAt DEF Visiting
<1>6. Fine(<<a, "router">>) => Fine(<<a, "router">>)'
  BY <1>2, <1>3, <1>4, <1>5 DEF Fine, Exists, InUse
<1>7. Fine(<<a, "upf">>) => Fine(<<a, "upf">>)'
  BY <1>2, <1>3, <1>4, <1>5 DEF Fine, Exists, InUse
<1>. QED
  BY <1>3, <1>4, <1>5, <1>6, <1>7, BesideSame, AreaCareful

LEMMA DeployRouterCareful ==
    ASSUME CoreInv, NEW a \in Areas, deploy_router_blueprint(a) PROVE Careful
<1>1. /\ alive = "yes" /\ alive' # "gone" /\ at = None /\ edge_areas' = With(edge_areas, a, NewEdge)
      /\ UNCHANGED <<children_blue_ids, deployed_blueprints, upfs>>
      /\ EdgeType
      /\ lost' = lost \/ lost' = lost \cup {<<a, "router">>}
      /\ \/ routers' = routers
         \/ at' = <<a, "router">> \/ lost' = lost \cup {<<a, "router">>}
      /\ routers' = routers \/ \E b \in BOOLEAN : routers' = With(routers, a, NewRouter(b))
  BY TypeParts DEF deploy_router_blueprint, NewArea, At, Within, Abort, NoAnswer, CoreInv
<1>2. PICK d : d = NewEdge
  OBVIOUS
<1>3. d \in Edge /\ d.upf = FALSE /\ d.router = "none"
  BY <1>2 DEF Edge, NewEdge
<1>4. Beside(edge_areas, edge_areas', a) /\ a \in DOMAIN edge_areas' /\ edge_areas'[a] = d
  BY <1>1, <1>2, <1>3, BesideWith DEF EdgeType
<1>5. Beside(routers, routers', a)
  <2>1. CASE routers' = routers
    BY <2>1, BesideSame
  <2>2. CASE \E b \in BOOLEAN : routers' = With(routers, a, NewRouter(b))
    <3>1. PICK b \in BOOLEAN : routers' = With(routers, a, NewRouter(b))
      BY <2>2
    <3>2. PICK n : n = NewRouter(b)
      OBVIOUS
    <3>3. n \in Router
      BY <3>2 DEF NewRouter, Router
    <3>. QED
      BY <1>1, <3>1, <3>2, <3>3, BesideWith DEF EdgeType
  <2>. QED
    BY <1>1, <2>1, <2>2
<1>6. at # <<a, "router">> /\ at # <<a, "upf">> /\ Visiting(a, at)
  BY <1>1, NotAt DEF Visiting
<1>7. Fine(<<a, "router">>) => Fine(<<a, "router">>)'
  BY <1>1, <1>3, <1>4, <1>6 DEF Fine, Exists, InUse
<1>8. Fine(<<a, "upf">>) => Fine(<<a, "upf">>)'
  BY <1>1, <1>3, <1>4, <1>6 DEF Fine, Exists, InUse
<1>9. \A b \in Areas \ {a} : \A k \in {"router", "upf"} : <<b, k>> \in lost => <<b, k>> \in lost'
  BY <1>1
<1>. QED
  BY <1>1, <1>4, <1>5, <1>6, <1>7, <1>8, <1>9, BesideSame, AreaCareful

LEMMA RegisterRouterCareful ==
    ASSUME CoreInv, NEW a \in Areas, RegisterRouter(a) PROVE Careful
<1>1. /\ alive = "yes" /\ alive' # "gone" /\ at = <<a, "router">>
      /\ deployed_blueprints' = deployed_blueprints \cup {<<a, "router">>}
      /\ UNCHANGED <<upfs, lost>> /\ EdgeType
      /\ \/ edge_areas' = [edge_areas EXCEPT ![a].router = "own"] /\ children_blue_ids' = children_blue_ids \cup {<<a, "router">>}
         \/ edge_areas' = edge_areas
      /\ children_blue_ids' = children_blue_ids \/ children_blue_ids' = children_blue_ids \cup {<<a, "router">>}
      /\ routers' = routers \/ routers' = Without(routers, a)
  BY TypeParts DEF RegisterRouter, At, Deployed, register_children, Within, Abort, Hang, NoAnswer, CoreInv
<1>2. Unfilled(a) /\ edge_areas[a] \in Edge
  BY <1>1 DEF CoreInv, EdgeInv, InEdge, RegisterRouter, At, EdgeType, IsPartial, Unfilled
<1>3. /\ Beside(edge_areas, edge_areas', a) /\ a \in DOMAIN edge_areas'
      /\ edge_areas'[a].upf = edge_areas[a].upf
      /\ edge_areas' = edge_areas \/ <<a, "router">> \in children_blue_ids'
  <2>1. CASE edge_areas' = edge_areas
    BY <1>2, <2>1, BesideSame DEF Unfilled
  <2>2. CASE edge_areas' = [edge_areas EXCEPT ![a].router = "own"] /\ children_blue_ids' = children_blue_ids \cup {<<a, "router">>}
    <3>1. PICK o \in Edge : o = edge_areas[a]
      BY <1>2
    <3>2. PICK e : e = [o EXCEPT !.router = "own"]
      OBVIOUS
    <3>3. e \in Edge /\ e.upf = o.upf
      BY <3>1, <3>2 DEF Edge
    <3>4. edge_areas' = [edge_areas EXCEPT ![a] = e]
      BY <1>1, <1>2, <2>2, <3>1, <3>2 DEF EdgeType, IsPartial, Unfilled
    <3>5. Beside(edge_areas, edge_areas', a) /\ a \in DOMAIN edge_areas' /\ edge_areas'[a] = e
      BY <1>1, <1>2, <3>3, <3>4, BesideExcept DEF EdgeType, Unfilled
    <3>. QED
      BY <2>2, <3>1, <3>3, <3>5
  <2>. QED
    BY <1>1, <2>1, <2>2
<1>4. Beside(routers, routers', a) /\ (a \in DOMAIN routers' => a \in DOMAIN routers)
  BY <1>1, BesideSame, BesideWithout DEF EdgeType
<1>5. at # <<a, "upf">> /\ Visiting(a, at)
  BY <1>1 DEF Visiting, Filling
<1>6. Fine(<<a, "router">>) => Fine(<<a, "router">>)'
  BY <1>1, <1>3, <1>4 DEF Fine, Exists, InUse
<1>7. Fine(<<a, "upf">>) => Fine(<<a, "upf">>)'
  BY <1>1, <1>2, <1>3, <1>5 DEF Fine, Exists, InUse, Unfilled
<1>8. \A b \in Areas \ {a} : \A k \in {"router", "upf"} :
         /\ <<b, k>> \in children_blue_ids => <<b, k>> \in children_blue_ids'
         /\ <<b, k>> \in deployed_blueprints => <<b, k>> \in deployed_blueprints'
         /\ <<b, k>> \in lost => <<b, k>> \in lost'
  BY <1>1
<1>. QED
  BY <1>1, <1>3, <1>4, <1>5, <1>6, <1>7, <1>8, BesideSame, AreaCareful

LEMMA DeployUpfCareful ==
    ASSUME CoreInv, NEW a \in Areas, deploy_upf_blueprint(a) PROVE Careful
<1>1. /\ At("edge") /\ alive = "yes" /\ alive' # "gone" /\ at = <<a, "deploy">>
      /\ UNCHANGED <<edge_areas, children_blue_ids, deployed_blueprints, routers>>
      /\ EdgeType /\ KindOk
      /\ lost' = lost \/ lost' = lost \cup {<<a, "upf">>}
      /\ \/ upfs' = upfs
         \/ at' = <<a, "upf">> \/ lost' = lost \cup {<<a, "upf">>}
  BY TypeParts, KindIsKnown DEF deploy_upf_blueprint, At, Within, Abort, NoAnswer, parentVars, CoreInv, ControlType
<1>2. Unfilled(a)
  BY <1>1 DEF CoreInv, EdgeInv, At, InEdge
<1>3. Beside(upfs, upfs', a)
  <2>1. CASE upfs' = upfs
    BY <2>1, BesideSame
  <2>2. CASE \E u \in {UpfCreated(newConfig(a)), NewUpf} : upfs' = With(upfs, a, u)
    <3>1. PICK u : upfs' = With(upfs, a, u)
      BY <2>2
    <3>. QED
      BY <3>1 DEF Beside, With
  <2>. QED
    BY <2>1, <2>2 DEF deploy_upf_blueprint
<1>4. at # <<a, "router">> /\ at # <<a, "upf">> /\ Visiting(a, at)
  BY <1>1 DEF Visiting, Filling
<1>5. Fine(<<a, "router">>) => Fine(<<a, "router">>)'
  BY <1>1, <1>4 DEF Fine, Exists, InUse
<1>6. Fine(<<a, "upf">>) => Fine(<<a, "upf">>)'
  BY <1>1, <1>2, <1>4 DEF Fine, Exists, InUse, Unfilled
<1>7. \A b \in Areas \ {a} : \A k \in {"router", "upf"} : <<b, k>> \in lost => <<b, k>> \in lost'
  BY <1>1
<1>. QED
  BY <1>1, <1>3, <1>4, <1>5, <1>6, <1>7, BesideSame, AreaCareful

LEMMA RegisterUpfCareful ==
    ASSUME CoreInv, NEW a \in Areas, RegisterUpf(a) PROVE Careful
<1>1. /\ alive = "yes" /\ alive' # "gone" /\ at = <<a, "upf">>
      /\ deployed_blueprints' = deployed_blueprints \cup {<<a, "upf">>}
      /\ UNCHANGED <<routers, lost>> /\ EdgeType
      /\ \/ /\ edge_areas' = [edge_areas EXCEPT ![a].upf = TRUE, ![a].config = newConfig(a), ![a].list = upfs[a].list]
            /\ children_blue_ids' = children_blue_ids \cup {<<a, "upf">>}
         \/ edge_areas' = edge_areas
      /\ children_blue_ids' = children_blue_ids \/ children_blue_ids' = children_blue_ids \cup {<<a, "upf">>}
      /\ upfs' = upfs \/ upfs' = Without(upfs, a)
  BY TypeParts DEF RegisterUpf, At, Deployed, register_children, Within, Abort, Hang, NoAnswer, CoreInv
<1>2. Unfilled(a) /\ edge_areas[a] \in Edge
  BY <1>1 DEF CoreInv, EdgeInv, InEdge, RegisterUpf, At, EdgeType, IsPartial, Unfilled
<1>3. /\ Beside(edge_areas, edge_areas', a) /\ a \in DOMAIN edge_areas'
      /\ edge_areas'[a].router = edge_areas[a].router
      /\ edge_areas' = edge_areas \/ <<a, "upf">> \in children_blue_ids'
  <2>1. CASE edge_areas' = edge_areas
    BY <1>2, <2>1, BesideSame DEF Unfilled
  <2>2. CASE /\ edge_areas' = [edge_areas EXCEPT ![a].upf = TRUE, ![a].config = newConfig(a), ![a].list = upfs[a].list]
             /\ children_blue_ids' = children_blue_ids \cup {<<a, "upf">>}
    <3>1. PICK o \in Edge : o = edge_areas[a]
      BY <1>2
    <3>2. PICK e : e = [o EXCEPT !.upf = TRUE, !.config = newConfig(a), !.list = upfs[a].list]
      OBVIOUS
    <3>3. e.router = o.router
      BY <3>1, <3>2 DEF Edge
    <3>4. edge_areas' = [edge_areas EXCEPT ![a] = e]
      BY <1>1, <1>2, <2>2, <3>1, <3>2 DEF EdgeType, IsPartial, Unfilled
    <3>5. Beside(edge_areas, edge_areas', a) /\ a \in DOMAIN edge_areas' /\ edge_areas'[a] = e
      BY <1>1, <1>2, <3>4 DEF EdgeType, IsPartial, Unfilled, Beside
    <3>. QED
      BY <2>2, <3>1, <3>3, <3>5
  <2>. QED
    BY <1>1, <2>1, <2>2
<1>4. Beside(upfs, upfs', a) /\ (a \in DOMAIN upfs' => a \in DOMAIN upfs)
  BY <1>1, BesideSame, BesideWithout DEF EdgeType
<1>5. at # <<a, "router">> /\ Visiting(a, at)
  BY <1>1 DEF Visiting, Filling
<1>6. Fine(<<a, "upf">>) => Fine(<<a, "upf">>)'
  BY <1>1, <1>3, <1>4 DEF Fine, Exists, InUse
<1>7. Fine(<<a, "router">>) => Fine(<<a, "router">>)'
  BY <1>1, <1>2, <1>3, <1>5 DEF Fine, Exists, InUse, Unfilled
<1>8. \A b \in Areas \ {a} : \A k \in {"router", "upf"} :
         /\ <<b, k>> \in children_blue_ids => <<b, k>> \in children_blue_ids'
         /\ <<b, k>> \in deployed_blueprints => <<b, k>> \in deployed_blueprints'
         /\ <<b, k>> \in lost => <<b, k>> \in lost'
  BY <1>1
<1>. QED
  BY <1>1, <1>3, <1>4, <1>5, <1>6, <1>7, <1>8, BesideSame, AreaCareful

LEMMA UpdateUpfCareful ==
    ASSUME CoreInv, NEW a \in Areas, UpdateUpf(a) PROVE Careful
<1>1. /\ alive = "yes" /\ alive' # "gone" /\ at = None /\ a \in DOMAIN edge_areas
      /\ UNCHANGED <<children_blue_ids, deployed_blueprints, routers, lost>> /\ EdgeType
      /\ edge_areas' = [edge_areas EXCEPT ![a].config = newConfig(a), ![a].list = upfs'[a].list]
      /\ upfs' = upfs \/ upfs' = [upfs EXCEPT ![a] = UpfUpdated(upfs[a], newConfig(a))]
  BY TypeParts DEF UpdateUpf, OldArea, At, Within, NoAnswer, CoreInv
<1>2. PICK o \in Edge : o = edge_areas[a]
  BY <1>1 DEF EdgeType, IsPartial
<1>3. PICK e : e = [o EXCEPT !.config = newConfig(a), !.list = upfs'[a].list]
  OBVIOUS
<1>4. e.router = o.router /\ e.upf = o.upf
  BY <1>2, <1>3 DEF Edge
<1>5. edge_areas' = [edge_areas EXCEPT ![a] = e]
  BY <1>1, <1>2, <1>3 DEF EdgeType, IsPartial
<1>6. Beside(edge_areas, edge_areas', a) /\ a \in DOMAIN edge_areas' /\ edge_areas'[a] = e
  BY <1>1, <1>5 DEF EdgeType, IsPartial, Beside
<1>7. Beside(upfs, upfs', a) /\ DOMAIN upfs' = DOMAIN upfs
  BY <1>1 DEF EdgeType, IsPartial, Beside
<1>8. at # <<a, "router">> /\ at # <<a, "upf">> /\ Visiting(a, at)
  BY <1>1, NotAt DEF Visiting
<1>9. Fine(<<a, "router">>) => Fine(<<a, "router">>)'
  BY <1>1, <1>2, <1>4, <1>6, <1>8 DEF Fine, Exists, InUse
<1>10. Fine(<<a, "upf">>) => Fine(<<a, "upf">>)'
  BY <1>1, <1>2, <1>4, <1>6, <1>7, <1>8 DEF Fine, Exists, InUse
<1>. QED
  BY <1>1, <1>6, <1>7, <1>8, <1>9, <1>10, BesideSame, AreaCareful

LEMMA RoutesCareful ==
    ASSUME CoreInv, NEW a \in Areas, add_route_to_router(a) PROVE Careful
<1>1. /\ alive = "yes" /\ alive' # "gone" /\ at = <<a, "routes">>
      /\ UNCHANGED <<edge_areas, children_blue_ids, deployed_blueprints, upfs, lost>> /\ EdgeType
  BY TypeParts DEF add_route_to_router, At, Within, NoAnswer, CoreInv, parentVars
<1>2. DOMAIN routers' = DOMAIN routers
  BY <1>1 DEF add_route_to_router, EdgeType, IsPartial
<1>3. at \notin Child
  BY <1>1, NotAChild
<1>4. ASSUME NEW c \in Child, Fine(c) PROVE Fine(c)'
  <2>1. at # c
    BY <1>3
  <2>2. (Exists(c)' <=> Exists(c)) /\ (InUse(c)' <=> InUse(c))
    BY <1>1, <1>2 DEF Exists, InUse
  <2>. QED
    BY <1>1, <1>4, <2>1, <2>2 DEF Fine
<1>. QED
  BY <1>1, <1>4 DEF Careful

LEMMA UndeployRouterCareful ==
    ASSUME CoreInv, NEW a \in Areas, undeploy_router_blueprint(a) PROVE Careful
<1>1. /\ alive = "yes" /\ alive' # "gone" /\ at = None /\ UNCHANGED <<edge_areas, upfs, lost>> /\ EdgeType
      /\ \/ UNCHANGED <<routers, children_blue_ids, deployed_blueprints>>
         \/ /\ routers' = Without(routers, a)
            /\ deployed_blueprints' = deployed_blueprints \ {<<a, "router">>}
            /\ children_blue_ids' = children_blue_ids \/ children_blue_ids' = children_blue_ids \ {<<a, "router">>}
  BY TypeParts DEF undeploy_router_blueprint, OverArea, At, Within, Abort, Hang, NoAnswer, Disown, Dropped, CoreInv
<1>2. at \notin Child /\ at # <<a, "upf">> /\ Visiting(a, at)
  BY <1>1, NotAChild, NotAt DEF Visiting
<1>3. CASE UNCHANGED <<routers, children_blue_ids, deployed_blueprints>>
  BY <1>1, <1>2, <1>3, SameChildren
<1>4. CASE /\ routers' = Without(routers, a)
           /\ deployed_blueprints' = deployed_blueprints \ {<<a, "router">>}
           /\ children_blue_ids' = children_blue_ids \/ children_blue_ids' = children_blue_ids \ {<<a, "router">>}
  <2>1. Beside(routers, routers', a) /\ a \notin DOMAIN routers'
    BY <1>1, <1>4, BesideWithout DEF EdgeType
  <2>2. Fine(<<a, "router">>)'
    BY <2>1 DEF Fine, Exists
  <2>3. Fine(<<a, "upf">>) => Fine(<<a, "upf">>)'
    BY <1>1, <1>2, <1>4 DEF Fine, Exists, InUse
  <2>4. \A b \in Areas \ {a} : \A k \in {"router", "upf"} :
           /\ <<b, k>> \in children_blue_ids => <<b, k>> \in children_blue_ids'
           /\ <<b, k>> \in deployed_blueprints => <<b, k>> \in deployed_blueprints'
    BY <1>4
  <2>. QED
    BY <1>1, <1>2, <2>1, <2>2, <2>3, <2>4, BesideSame, AreaCareful
<1>. QED
  BY <1>1, <1>3, <1>4

LEMMA UndeployUpfCareful ==
    ASSUME CoreInv, NEW a \in Areas, undeploy_upf_blueprint(a) PROVE Careful
<1>1. /\ alive = "yes" /\ alive' # "gone" /\ at = <<a, "undeploy">> /\ UNCHANGED <<routers, lost>> /\ EdgeType
      /\ \/ UNCHANGED <<edge_areas, upfs, children_blue_ids, deployed_blueprints>>
         \/ /\ upfs' = Without(upfs, a)
            /\ edge_areas' = edge_areas \/ edge_areas' = Without(edge_areas, a)
            /\ deployed_blueprints' = deployed_blueprints \ {<<a, "upf">>}
            /\ children_blue_ids' = children_blue_ids \/ children_blue_ids' = children_blue_ids \ {<<a, "upf">>}
  BY TypeParts DEF undeploy_upf_blueprint, At, Within, Abort, Hang, NoAnswer, Disown, Dropped, parentVars, CoreInv
<1>2. at \notin Child /\ at # <<a, "router">> /\ Visiting(a, at)
  BY <1>1, NotAChild DEF Visiting
<1>3. CASE UNCHANGED <<edge_areas, upfs, children_blue_ids, deployed_blueprints>>
  BY <1>1, <1>2, <1>3, SameChildren
<1>4. CASE /\ upfs' = Without(upfs, a)
           /\ edge_areas' = edge_areas \/ edge_areas' = Without(edge_areas, a)
           /\ deployed_blueprints' = deployed_blueprints \ {<<a, "upf">>}
           /\ children_blue_ids' = children_blue_ids \/ children_blue_ids' = children_blue_ids \ {<<a, "upf">>}
  <2>1. Beside(upfs, upfs', a) /\ a \notin DOMAIN upfs'
    BY <1>1, <1>4, BesideWithout DEF EdgeType
  <2>2. Beside(edge_areas, edge_areas', a) /\ (edge_areas' = edge_areas \/ a \notin DOMAIN edge_areas')
    BY <1>1, <1>4, BesideWithout, BesideSame DEF EdgeType
  <2>3. Fine(<<a, "upf">>)'
    BY <2>1 DEF Fine, Exists
  <2>4. Fine(<<a, "router">>) => Fine(<<a, "router">>)'
    BY <1>1, <1>2, <1>4, <2>2 DEF Fine, Exists, InUse
  <2>5. \A b \in Areas \ {a} : \A k \in {"router", "upf"} :
           /\ <<b, k>> \in children_blue_ids => <<b, k>> \in children_blue_ids'
           /\ <<b, k>> \in deployed_blueprints => <<b, k>> \in deployed_blueprints'
    BY <1>4
  <2>. QED
    BY <1>1, <1>2, <2>1, <2>2, <2>3, <2>4, <2>5, BesideSame, AreaCareful
<1>. QED
  BY <1>1, <1>3, <1>4

LEMMA EdgeCareful ==
    ASSUME CoreInv, update_edge_areas PROVE Careful
<1>1. CASE EdgeDone
  <2>1. /\ alive = "yes" /\ alive' # "gone" /\ at = None
        /\ UNCHANGED <<edge_areas, routers, upfs, children_blue_ids, deployed_blueprints, lost>>
    BY <1>1 DEF EdgeDone, At, Advance, NoAnswer, parentVars, childVars
  <2>. QED
    BY <2>1, NotAChild, SameChildren
<1>. QED
  BY <1>1, EdgeStepCareful, ExternalCareful, DeployRouterCareful, RegisterRouterCareful,
     DeployUpfCareful, RegisterUpfCareful, UpdateUpfCareful, RoutesCareful, UndeployRouterCareful,
     UndeployUpfCareful DEF update_edge_areas

-----------------------------------------------------------------------------
(* destroy. *)

LEMMA DestroyChildCareful ==
    ASSUME CoreInv, NEW c \in Child, DestroyChild(c) PROVE Careful
<1>1. /\ alive = "yes" /\ alive' # "gone" /\ at = None /\ UNCHANGED <<edge_areas, lost>> /\ EdgeType
  BY TypeParts DEF DestroyChild, At, Within, Stuck, Hang, NoAnswer, CoreInv, EdgeInv, InEdge
<1>2. PICK a \in Areas, k \in {"router", "upf"} : c = <<a, k>>
  BY DEF Child
<1>3. at \notin Child /\ at # <<a, "router">> /\ at # <<a, "upf">> /\ Visiting(a, at)
  BY <1>1, NotAChild, NotAt DEF Visiting
<1>4. CASE UNCHANGED <<children_blue_ids, deployed_blueprints, routers, upfs>>
  BY <1>1, <1>3, <1>4, SameChildren
<1>5. CASE /\ ~Exists(c)'
           /\ routers' = routers \/ (k = "router" /\ routers' = Without(routers, a))
           /\ upfs' = upfs \/ (k = "upf" /\ upfs' = Without(upfs, a))
           /\ deployed_blueprints' = deployed_blueprints \/ deployed_blueprints' = deployed_blueprints \ {c}
           /\ children_blue_ids' = children_blue_ids \/ children_blue_ids' = children_blue_ids \ {c}
  <2>1. Beside(routers, routers', a) /\ Beside(upfs, upfs', a)
    BY <1>1, <1>5, BesideSame, BesideWithout DEF EdgeType
  <2>2. Fine(c)'
    BY <1>5 DEF Fine
  <2>3. ASSUME NEW j \in {"router", "upf"}, j # k, Fine(<<a, j>>) PROVE Fine(<<a, j>>)'
    <3>1. /\ <<a, j>> # c /\ at # <<a, j>>
          /\ j = "router" => routers' = routers
          /\ j = "upf" => upfs' = upfs
      BY <1>2, <1>3, <1>5, <2>3
    <3>2. (Exists(<<a, j>>)' <=> Exists(<<a, j>>)) /\ (InUse(<<a, j>>)' <=> InUse(<<a, j>>))
      BY <1>1, <2>3, <3>1 DEF Exists, InUse
    <3>3. /\ <<a, j>> \in deployed_blueprints => <<a, j>> \in deployed_blueprints'
          /\ <<a, j>> \in children_blue_ids => <<a, j>> \in children_blue_ids'
      BY <1>5, <3>1
    <3>. QED
      BY <1>1, <2>3, <3>1, <3>2, <3>3 DEF Fine
  <2>4. (Fine(<<a, "router">>) => Fine(<<a, "router">>)') /\ (Fine(<<a, "upf">>) => Fine(<<a, "upf">>)')
    BY <1>2, <2>2, <2>3
  <2>5. \A b \in Areas \ {a} : \A j \in {"router", "upf"} :
           /\ <<b, j>> \in children_blue_ids => <<b, j>> \in children_blue_ids'
           /\ <<b, j>> \in deployed_blueprints => <<b, j>> \in deployed_blueprints'
    BY <1>2, <1>5
  <2>. QED
    BY <1>1, <1>3, <2>1, <2>4, <2>5, BesideSame, AreaCareful
<1>6. ASSUME ~Exists(c), UNCHANGED <<deployed_blueprints, routers, upfs>>,
             children_blue_ids' = children_blue_ids \ {c}
      PROVE  Careful
  <2>1. ~Exists(c)'
    BY <1>6 DEF Exists
  <2>. QED
    BY <1>5, <1>6, <2>1
<1>7. ASSUME routers' = IF c[2] = "router" THEN Without(routers, c[1]) ELSE routers,
             upfs' = IF c[2] = "upf" THEN Without(upfs, c[1]) ELSE upfs,
             Disown(c) \/ Dropped(c)
      PROVE  Careful
  <2>1. c[1] = a /\ c[2] = k
    BY <1>2
  <2>2. ~Exists(c)'
    BY <1>7, <2>1 DEF Exists, Without
  <2>3. /\ routers' = routers \/ (k = "router" /\ routers' = Without(routers, a))
        /\ upfs' = upfs \/ (k = "upf" /\ upfs' = Without(upfs, a))
    BY <1>7, <2>1
  <2>. QED
    BY <1>5, <1>7, <2>2, <2>3 DEF Disown, Dropped
<1>. QED
  BY <1>4, <1>6, <1>7 DEF DestroyChild

(* At the end of destroy no child is registered, the provider deletes what *)
(* it lists, and what it does not list has been lost.                      *)
LEMMA CleanupLeavesNothing ==
    ASSUME CoreInv, IInv, final_cleanup PROVE IInv'
<1>1. /\ alive = "yes" /\ at = None /\ UNCHANGED <<children_blue_ids, edge_areas, protected, kind>>
  BY DEF final_cleanup, At, Stuck, Hang, CoreInv, EdgeInv, InEdge, At
<1>2. CASE Stuck \/ Hang
  <2>1. alive' # "gone" /\ UNCHANGED <<lost, routers, upfs, deployed_blueprints>>
    BY <1>2 DEF final_cleanup, Stuck, Hang
  <2>2. at \notin Child
    BY <1>1, NotAChild
  <2>. QED
    BY <1>1, <2>1, <2>2, SameChildren, CarefulKeeps
<1>3. CASE /\ \E L \in SUBSET locked, K \in {{}, CorePdu} : Unlock(L, K)
           /\ routers' = Leftover(routers, "router") /\ upfs' = Leftover(upfs, "upf")
           /\ alive' = "gone"
  <2>1. PICK L \in SUBSET locked, K \in {{}, CorePdu} : Unlock(L, K)
    BY <1>3
  <2>2. /\ locked' = L /\ lost' = lost \cup (L \X {"pdu"}) \cup (K \X {"core"})
        /\ chart' = IF K = {} THEN "none" ELSE chart
    BY <2>1 DEF Unlock
  <2>3. L \subseteq Areas /\ K \subseteq Areas
    BY <2>1, ConfigParts DEF CorePdu, CoreInv, TypeOK, AreasOf, IsPartial
  <2>4. \A a \in locked' : <<a, "pdu">> \in lost'
    BY <2>2
  <2>5. chart' # "none" => kind' = "athonet" /\ \E a \in Areas : <<a, "core">> \in lost'
    <3> SUFFICES ASSUME chart' # "none" PROVE kind' = "athonet" /\ \E a \in Areas : <<a, "core">> \in lost'
      OBVIOUS
    <3>1. K # {} /\ K = CorePdu
      BY <2>1, <2>2
    <3>2. PICK a \in K : TRUE
      BY <3>1
    <3>3. kind = "athonet"
      BY <3>1 DEF CorePdu
    <3>4. <<a, "core">> \in lost'
      BY <2>2, <3>2
    <3>. QED
      BY <1>1, <2>3, <3>2, <3>3, <3>4
  <2>6. ASSUME NEW c \in Child, Exists(c)' PROVE c \in lost' \cup protected'
    <3>1. PICK a \in Areas, k \in {"router", "upf"} : c = <<a, k>>
      BY DEF Child
    <3>2. Exists(c) /\ (c \in deployed_blueprints => c \in protected)
      BY <1>3, <2>6, <3>1 DEF Exists, Leftover
    <3>3. c \in deployed_blueprints \/ at = c \/ c \in lost
      BY <1>1, <3>2 DEF IInv, ChildrenReachable
    <3>4. at # c
      BY <1>1, NotAChild
    <3>. QED
      BY <1>1, <2>2, <3>2, <3>3, <3>4
  <2>7. DestroyedLeavesNothing'
    BY <2>4, <2>5, <2>6 DEF DestroyedLeavesNothing
  <2>8. ChildrenReachable'
    BY <1>3 DEF ChildrenReachable
  <2>. QED
    BY <2>7, <2>8 DEF IInv
<1>. QED
  BY <1>2, <1>3 DEF final_cleanup

LEMMA UserLeavesInReach ==
    ASSUME IInv, NEW c \in Child, UserOfChild(c) PROVE IInv'
<1>1. /\ DOMAIN routers' \subseteq DOMAIN routers /\ DOMAIN upfs' \subseteq DOMAIN upfs
      /\ protected \subseteq protected'
      /\ UNCHANGED <<children_blue_ids, deployed_blueprints, edge_areas, lost, at, chart, locked, kind>>
      /\ alive' = alive \/ alive' = "hung"
  BY DEF UserOfChild, Without, parentVars, coreVars, ranVars
<1>2. \A d \in Child : (Exists(d)' => Exists(d)) /\ (InUse(d)' <=> InUse(d))
  BY <1>1 DEF Exists, InUse
<1>3. ChildrenReachable'
  <2>1. CASE alive = "gone"
    BY <1>1, <1>2, <2>1 DEF UserOfChild, Calling, At, OldArea, OverArea, ChildrenReachable
  <2>2. CASE alive # "gone"
    BY <1>1, <1>2, <2>2 DEF IInv, ChildrenReachable
  <2>. QED
    BY <2>1, <2>2
<1>4. DestroyedLeavesNothing'
  <2> SUFFICES ASSUME alive' = "gone" PROVE DestroyedLeavesNothing'
    BY DEF DestroyedLeavesNothing
  <2>1. alive = "gone"
    BY <1>1
  <2>. QED
    BY <1>1, <1>2, <2>1 DEF IInv, DestroyedLeavesNothing
<1>. QED
  BY <1>3, <1>4 DEF IInv

-----------------------------------------------------------------------------
(* All together. *)

LEMMA StepReach ==
    ASSUME CoreInv, IInv, Step \/ Wait PROVE IInv'
<1>1. ControlType /\ CoreType /\ RanType /\ UeInv /\ EdgeInv
  BY TypeParts DEF CoreInv
<1>2. CASE register_resource \/ update_core_values \/ install_helm_chart \/ update_k8s_network_functions
  BY <1>1, <1>2, RegisterMoves, ValuesMoves, InstallMoves, FunctionsMove, CoreCareful, CarefulKeeps
<1>3. CASE wait_core_ready \/ LockCorePdu \/ update_values_helm_chart \/ configure \/ ues_additional_infos
  BY <1>1, <1>3, ReadyMoves, PduMoves, PushMoves, InfosMove, CoreCareful, CarefulKeeps
<1>4. CASE add_ues \/ disassociating_subscriber_from_slice \/ del_subscriber_to_conf \/ del_user
  BY <1>1, <1>4, AddUesMoves, DisassociateMoves, UdrDelMoves, DelUserMoves, CoreCareful, CarefulKeeps
<1>5. CASE AlwaysRaises \/ update_gnb_config \/ restore_base_config \/ delete_all_supis
  BY <1>1, <1>5, RaiseMoves, GnbMoves, RestoreMoves, SupisMove, CoreCareful, CarefulKeeps
<1>6. CASE update_edge_areas \/ Answer \/ \E c \in Child : DestroyChild(c)
  BY <1>6, EdgeCareful, AnswerCareful, DestroyChildCareful, CarefulKeeps
<1>7. CASE final_cleanup
  BY <1>7, CleanupLeavesNothing
<1>. QED
  BY <1>2, <1>3, <1>4, <1>5, <1>6, <1>7 DEF Step, Wait

LEMMA StutterReach ==
    ASSUME IInv, UNCHANGED vars PROVE IInv'
<1>1. UNCHANGED <<children_blue_ids, deployed_blueprints, edge_areas, routers, upfs, protected, lost, chart, locked>>
  BY DEF vars, parentVars, childVars, coreVars, ranVars
<1>2. UNCHANGED <<at, alive, kind>>
  BY DEF vars
<1>3. \A c \in Child : (Exists(c)' <=> Exists(c)) /\ (InUse(c)' <=> InUse(c))
  BY <1>1 DEF Exists, InUse
<1>. QED
  BY <1>1, <1>2, <1>3 DEF IInv, ChildrenReachable, DestroyedLeavesNothing

LEMMA NextReach ==
    ASSUME CoreInv, IInv, [Next]_vars PROVE IInv'
  BY RequestCareful, CarefulKeeps, StepReach, UserLeavesInReach, StutterReach DEF Next

LEMMA InitReach == Init => IInv
  BY DEF Init, IInv, ChildrenReachable, DestroyedLeavesNothing, Exists

(* Every child blueprint that exists is in reach of its parent, and every  *)
(* one it uses is registered, from the moment the manager has saved it on  *)
(* and whatever raises, is refused or never answers; out of reach are only *)
(* the child that is being created and one whose create_blueprint raised   *)
(* after it had been saved (blueprint_manager.py:158).                     *)
THEOREM Reachable == Spec => []ChildrenReachable
<1>1. IInv => ChildrenReachable
  BY DEF IInv
<1>2. CoreInv /\ IInv /\ [Next]_vars => IInv'
  BY NextReach
<1>. QED
  BY <1>1, <1>2, InitReach, CoreInvariance, PTL DEF Spec

(* A core that destroy has finished with leaves no child blueprint, chart  *)
(* or locked PDU, whatever its operations had left half done, but for a    *)
(* protected child, a child that was lost at its creation and a PDU whose  *)
(* unlocking failed unnoticed (pdu_provider.py:144).                       *)
THEOREM NothingLeft == Spec => []DestroyedLeavesNothing
<1>1. IInv => DestroyedLeavesNothing
  BY DEF IInv
<1>2. CoreInv /\ IInv /\ [Next]_vars => IInv'
  BY NextReach
<1>. QED
  BY <1>1, <1>2, InitReach, CoreInvariance, PTL DEF Spec
====
