------------------------------- MODULE MCLogins ------------------------------
(* Logins on small instances, for TLC. *)
EXTENDS Logins

CONSTANTS gate, client, other

OurGate == {gate}
OurClients == {client}
Account == {gate, client, other}
NoClients == {}
JustGate == {gate}
=============================================================================
