---------------------------- MODULE MCEntryStore ----------------------------
(* EntryStore on small instances, for TLC. *)
EXTENDS EntryStore

CONSTANTS claude, custom, backup, probe, a1, a2

Callbacks     == {claude, custom}
KnownApps     == {claude}
TwoTokens     == {backup, probe}
Couple        == <<"p1", "p2">>
OwnNames      == [p \in {"p1", "p2"} |-> p]
NoUsername    == {}
TwoAddresses  == {a1, a2}
SomeReleases  == {1, 2, 6}
=============================================================================
