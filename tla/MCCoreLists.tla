----------------------------- MODULE MCCoreLists -----------------------------
(***************************************************************************)
(* Small instances of CoreLists: configurations that can be deployed on    *)
(* every core, on some, and on none.                                       *)
(***************************************************************************)
EXTENDS CoreLists, TLC

CONSTANTS a1, a2, s1, s2, s3, s4, d1, d2, d3, d4, u1

MCAreas == {a1, a2}
MCSlices == {s1, s2, s3, s4}
MCDnns == {d1, d2, d3, d4}
MCUes == {u1}
MCDnnsOf == (s1 :> {d1}) @@ (s2 :> {d2, d3}) @@ (s3 :> {d3}) @@ (s4 :> {d4})
MCAmbrOf == (d1 :> "plain") @@ (d2 :> "odd") @@ (d3 :> "plain") @@ (d4 :> "none")
MCCidrOf == [d \in MCDnns |-> d]

(* Nobody, one area, both, and two that report a slice of the other area. *)
MCReports ==
    {<<>>, (a1 :> {s1}), (a2 :> {s1, s2, s3, s4}), (a1 :> {s1, s2, s3}) @@ (a2 :> {}),
     (a1 :> {s1, s4}) @@ (a2 :> {s1, s2, s3}), (a1 :> {s2, s3}) @@ (a2 :> {s1})}

MCConfigs ==
    {[areas |-> (a1 :> {s1}), profiles |-> {s1, s3}, nets |-> {d1, d3}, subs |-> (u1 :> {s1, s3})],
     [areas |-> (a1 :> {s1}) @@ (a2 :> {s2}), profiles |-> {s1, s2}, nets |-> {d1, d2, d3}, subs |-> <<>>],
     [areas |-> (a1 :> {s1, s2}) @@ (a2 :> {}), profiles |-> {s1, s2}, nets |-> {d1, d2, d3}, subs |-> (u1 :> {s2})],
     [areas |-> (a1 :> {s1}) @@ (a2 :> {s1, s3}), profiles |-> {s1, s3}, nets |-> {d1, d3}, subs |-> (u1 :> {s1})],
     [areas |-> (a2 :> {s2, s3}), profiles |-> {s2}, nets |-> {d2, d3}, subs |-> (u1 :> {s3})],
     [areas |-> (a1 :> {s1}), profiles |-> {s1}, nets |-> {d1}, subs |-> (u1 :> {s1, s3})],
     [areas |-> (a2 :> {s1, s2}), profiles |-> {s1, s2}, nets |-> {d2}, subs |-> <<>>],
     [areas |-> (a1 :> {s1, s4}), profiles |-> {s1, s4}, nets |-> {d1, d4}, subs |-> <<>>]}
=============================================================================
