----------------------------- MODULE MCGeneric5G -----------------------------
(***************************************************************************)
(* Small instances of Generic5G.  s1 and s2 have one data network each, s3 *)
(* shares that of s1, so that the feasibility check has something to       *)
(* refuse.                                                                 *)
(***************************************************************************)
EXTENDS Generic5G

CONSTANTS a1, a2, s1, s2, s3, d1, d2, u1

MCAreas == {a1, a2}
MCSlices == {s1, s2, s3}
MCDnns == {d1, d2}
MCUes == {u1}
MCDnnsOf == (s1 :> {d1}) @@ (s2 :> {d2}) @@ (s3 :> {d1})
MCExternal == {a2}
MCAmbrOf == (d1 :> "plain") @@ (d2 :> "odd")
MCCidrOf == (d1 :> 1) @@ (d2 :> 2)
MCDnnVrf == {1}

(* One area with one slice; two areas, which is where the types of core    *)
(* differ; two slices that share a data network, and one data network more *)
(* than the Athonet PDU can serve.                                         *)
MCConfigs ==
    {[areas |-> (a1 :> {s1}), profiles |-> {s1}, nets |-> {d1}, subs |-> <<>>],
     [areas |-> (a1 :> {s1}) @@ (a2 :> {s2}), profiles |-> {s1, s2}, nets |-> {d1, d2}, subs |-> (u1 :> {s1})],
     [areas |-> (a1 :> {s1, s3}), profiles |-> {s1, s3}, nets |-> {d1}, subs |-> <<>>],
     [areas |-> (a1 :> {s1}), profiles |-> {s1}, nets |-> {d1, d2}, subs |-> <<>>]}
=============================================================================
