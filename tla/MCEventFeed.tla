---------------------------- MODULE MCEventFeed ----------------------------
(* Model-checking instance of EventFeed. *)
EXTENDS EventFeed, TLC

\* The demo tenant's odd events belong to orders that are analysed.
DemoScope == {<<Demo, 1>>, <<Demo, 3>>}
=============================================================================
