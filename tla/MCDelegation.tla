---------------------------- MODULE MCDelegation ----------------------------
(* Model values for Delegation: c1 may shut down or die, c2 stays up.      *)
EXTENDS Delegation

CONSTANTS c1, c2, s1, s2

ThreeNodes == 0..2

(* A chain, a fork, a join, an edge beside an independent node, and a      *)
(* fork whose root comes last in the plan.                                 *)
Shapes == { {<<0, 1>>, <<1, 2>>},
            {<<0, 1>>, <<0, 2>>},
            {<<0, 2>>, <<1, 2>>},
            {<<0, 1>>},
            {<<2, 0>>, <<2, 1>>} }

Chain == { {<<0, 1>>, <<1, 2>>}, {<<0, 1>>} }
=============================================================================
