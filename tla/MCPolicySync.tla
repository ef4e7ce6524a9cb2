---------------------------- MODULE MCPolicySync ----------------------------
(* PolicySync on small instances, for TLC. *)
EXTENDS PolicySync, TLC

CONSTANTS alice, bob, carol, old, new, noHost, noGate

TwoEmails   == {alice, bob}
ThreeEmails == {alice, bob, carol}
BothHosts   == {old, new}

\* Addresses and hostnames are only compared with one another.
EmailSymmetry == Permutations(Emails) \cup Permutations(Hosts)

HandledKinds == {"auth", "unavailable", "refused"}
AllButRunningReload == AllDisturbances \ {"reload_running"}
=============================================================================
