---------------------------- MODULE MCClientApps ----------------------------
(* ClientApps on small instances, for TLC. *)
EXTENDS ClientApps

CONSTANTS google, alexa, backup, googleName, alexaName, backupName, old, new

TwoConsoles == {google, alexa}
OneScript   == {backup}
AllNames    == {googleName, alexaName, backupName}
BothHosts   == {old, new}

\* Every client a name of its own.
OwnNames   == [c \in Clients |-> CASE c = google -> googleName
                                   [] c = alexa -> alexaName
                                   [] c = backup -> backupName]
=============================================================================
