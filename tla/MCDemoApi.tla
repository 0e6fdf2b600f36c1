------------------------------ MODULE MCDemoApi ------------------------------
(* The demo's API on an instance for TLC. *)
EXTENDS DemoApi

MCDraws == {<<resources[1].id, resources[3].id, resources[3].id>>,
            <<resources[6].id, resources[2].id, resources[1].id>>}

MCLimits == {-1, 1, 2}
=============================================================================
