----------------------------- MODULE MCDashboard -----------------------------
(* Dashboard for TLC: of two boards one hears the other on and off, or a foreign *)
(* network, and publishes on both subscriptions. *)
EXTENDS Dashboard

TwoSubscribers == <<"test/ping/**", "ivn/**">>

SomeSamples ==
  [s \in {"test/ping/**", "ivn/**"} |->
     IF s = "ivn/**"
     THEN {<<"esp32-1", {<<"esp32-2", 1>>}>>, <<"esp32-1", {<<"foreign", 1>>}>>,
           <<"esp32-2", {<<"esp32-1", 1>>}>>}
     ELSE {<<"esp32-1", NoReport>>}]
=============================================================================
