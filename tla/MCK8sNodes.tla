----------------------------- MODULE MCK8sNodes ------------------------------
(* A small instance of K8sNodes.                                           *)
EXTENDS K8sNodes

MCCreatePlans == {<<"controller", "worker", "worker">>, <<"worker", "controller">>,
                  <<"controller", "stranded">>}
MCAddPlans == {<<"worker">>, <<"worker", "worker">>, <<"stranded">>}
MCDelRequests == {<<0>>, <<1, 0>>, <<0, 0>>, <<Controller, 1>>}
=============================================================================
