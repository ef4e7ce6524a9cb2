---------------------------- MODULE AccessPolicy ----------------------------
(***************************************************************************)
(* What the gate promises, seen from the login page: an allow rule that    *)
(* may be replaced but is never emptied once it exists, sessions that only *)
(* an admitted address obtains, and that are only ever ended for an        *)
(* address the rule no longer admits.                                      *)
(***************************************************************************)
CONSTANT Emails

VARIABLES rule, sessions

Init == rule = {} /\ sessions = {}

Replace(R) == rule' = R /\ UNCHANGED sessions

LogIn(e) == e \in rule /\ sessions' = sessions \cup {e} /\ UNCHANGED rule

LogOut(e) == e \notin rule /\ sessions' = sessions \ {e} /\ UNCHANGED rule

Next ==
    \/ \E R \in (SUBSET Emails) \ {{}} : Replace(R)
    \/ \E e \in Emails : LogIn(e) \/ LogOut(e)

Spec == Init /\ [][Next]_<<rule, sessions>>
=============================================================================
