--------------------------- MODULE MCBlueprintLCM ---------------------------
(***************************************************************************)
(* Instances of BlueprintLCM for TLC.  The threads are given by the        *)
(* configuration.                                                          *)
(***************************************************************************)
EXTENDS BlueprintLCM

\* Every thread may address every blueprint.
SharedScope == [c \in Client |-> Blue]

\* Parents 1 and 2 own the children with odd and with even numbers.
OwnerScope == [c \in Owner |-> {b \in Blue : b % 2 = c % 2}]

=============================================================================
