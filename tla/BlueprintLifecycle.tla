------------------------- MODULE BlueprintLifecycle -------------------------
(***************************************************************************)
(* What the blueprint manager promises of every blueprint, independently   *)
(* of threads, queues and restarts: it is created once, deploys resources  *)
(* only while it exists, and once deleted it never comes back and leaves   *)
(* nothing deployed.                                                       *)
(***************************************************************************)
CONSTANT Blue

VARIABLES
    life,      \* "none", "live" or "deleted"
    deployed   \* whether resources of the blueprint exist on the VIMs

vars == <<life, deployed>>

Init ==
    /\ life = [b \in Blue |-> "none"]
    /\ deployed = [b \in Blue |-> FALSE]

Create(b) ==
    /\ life[b] = "none"
    /\ life' = [life EXCEPT ![b] = "live"]
    /\ UNCHANGED deployed

Deploy(b) ==
    /\ life[b] = "live"
    /\ deployed' = [deployed EXCEPT ![b] = TRUE]
    /\ UNCHANGED life

TearDown(b) ==
    /\ life[b] = "live"
    /\ deployed' = [deployed EXCEPT ![b] = FALSE]
    /\ UNCHANGED life

\* A blueprint may be forgotten only when nothing of it is deployed.
Delete(b) ==
    /\ life[b] = "live"
    /\ ~deployed[b]
    /\ life' = [life EXCEPT ![b] = "deleted"]
    /\ UNCHANGED deployed

Next == \E b \in Blue : Create(b) \/ Deploy(b) \/ TearDown(b) \/ Delete(b)

Spec == Init /\ [][Next]_vars

=============================================================================
