-------------------------- MODULE MCGateLifecycle --------------------------
(* GateLifecycle on small instances, for TLC. *)
EXTENDS GateLifecycle

CONSTANTS first, second, old, new

OneTask  == {first}
TwoTasks == {first, second}
OneHost  == {old}
BothHosts == {old, new}
=============================================================================
