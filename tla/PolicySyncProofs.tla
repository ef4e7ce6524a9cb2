-------------------------- MODULE PolicySyncProofs --------------------------
(***************************************************************************)
(* Theorems about PolicySync, for every set of addresses and hostnames,    *)
(* every bound, and every choice of what may fail or happen.               *)
(***************************************************************************)
EXTENDS PolicySync, TLAPS

\* A hostname is at hand whenever the gate is about to be written.
HostAtHand ==
    /\ setup.pc \in {"gate", "stale", "revoke"} => setup.host \in Hosts
    /\ \A g \in Gens : ref[g].pc = "gate" => data[g].host \in Hosts

\* Whoever is about to write the gate has somebody to admit.
SomebodyToAdmit ==
    /\ setup.pc # "idle" => setup.emails # {}
    /\ \A g \in Gens : Running(g) => ref[g].emails # {}

\* TypeOK alone is not inductive: a write stores the hostname it carries.
IInv == TypeOK /\ HostAtHand /\ SomebodyToAdmit /\ AllowRuleNeverEmpty

\* The resting values of the three records are of their types.
LEMMA RestingTypes == NoSetup \in SetupRun /\ NoData \in Snapshot /\ NoRef \in RefreshRun
BY DEF NoSetup, NoData, NoRef, SetupRun, Snapshot, RefreshRun, SetupPcs, RefPcs

LEMMA InitInv == Init => IInv
<1> SUFFICES ASSUME Init PROVE IInv
  OBVIOUS
<1>1. TypeOK
  <2>1. gen \in Gens /\ changes \in 0 .. MaxChanges /\ failures \in 0 .. MaxFailures
    BY ConstantsAssumption DEF Init, Gens
  <2>2. /\ data \in [Gens -> Snapshot] /\ ref \in [Gens -> RefreshRun]
        /\ due \in [Gens -> BOOLEAN] /\ setup \in SetupRun
    BY RestingTypes DEF Init
  <2> QED
    BY <2>1, <2>2 DEF Init, TypeOK
<1>2. HostAtHand /\ SomebodyToAdmit /\ AllowRuleNeverEmpty
  BY DEF Init, HostAtHand, SomebodyToAdmit, AllowRuleNeverEmpty, Running, NoSetup, NoRef
<1> QED
  BY <1>1, <1>2 DEF IInv

\* What a run leaves behind are addresses.
LEMMA StraysType == TypeOK /\ [Next]_vars => strays' \subseteq Emails
<1> SUFFICES ASSUME TypeOK, [Next]_vars PROVE strays' \subseteq Emails
  OBVIOUS
<1>1. /\ strays \subseteq Emails /\ Rule \subseteq Emails /\ setup.todo \subseteq Emails
      /\ \A g \in Gens : /\ ref[g].todo \subseteq Emails /\ ref[g].emails \subseteq Emails
                        /\ data[g].emails \subseteq Emails
  BY DEF TypeOK, Rule, SetupRun, RefreshRun, Snapshot
<1>2. CASE UNCHANGED strays
  BY <1>1, <1>2
<1>3. CASE SetupNext
  BY <1>1, <1>3 DEF SetupNext, SetupStart, SetupRead, SetupReread, SetupWriteGate,
     SetupDeleteStale, SetupRevokeDenied, SetupDone, SetupAnswerLost, SetupUrlGone,
     SetupRevoke, SetupFail, Unrecorded, LeftBySetup, history
<1>4. ASSUME NEW g \in Gens, RefreshNext(g) PROVE strays' \subseteq Emails
  BY <1>1, <1>4 DEF RefreshNext, RefreshNoUrl, RefreshUnchanged, RefreshNoUsers, RefreshBegin,
     RefreshReread, RefreshWriteGate, RefreshDeleteStale, RefreshRevokeDenied, RefreshCommit,
     RefreshAnswerLost, RefreshUrlGone, RefreshRevoke, RefreshFail, Fires, Dropped,
     LeftByRefresh, history
<1>5. CASE Environment
  <2>1. CASE Restart
    BY <1>1, <2>1 DEF Restart, LeftBySetup, LeftByRefresh
  <2>2. CASE ~Restart
    BY <1>2, <1>5, <2>2 DEF Environment, ChangeUsers, ChangeUrl, LogIn, Reload, SignIn,
       Unload, Notifies, history
  <2> QED
    BY <2>1, <2>2
<1>6. CASE UNCHANGED vars
  BY <1>2, <1>6 DEF vars
<1> QED
  BY <1>3, <1>4, <1>5, <1>6 DEF Next

\* A step of async_setup_entry keeps the invariant.
LEMMA SetupInv == IInv /\ SetupNext => IInv'
<1> SUFFICES ASSUME IInv, SetupNext PROVE IInv'
  OBVIOUS
<1>0. strays' \subseteq Emails
  BY StraysType DEF IInv, Next
<1> USE ConstantsAssumption DEF IInv, TypeOK, HostAtHand, SomebodyToAdmit, Running,
        AllowRuleNeverEmpty, haVars, edgeVars, history, bounds, SetupRun, SetupPcs
<1>1. CASE SetupStart
  BY <1>1 DEF SetupStart, NoSetup, HasSubjects
<1>2. CASE SetupRead
  BY <1>2 DEF SetupRead, PreviouslyAdmitted, Rule
<1>3. CASE SetupReread
  BY <1>3 DEF SetupReread
<1>4. CASE SetupWriteGate
  BY <1>0, <1>4 DEF SetupWriteGate
<1>5. CASE SetupDeleteStale
  BY <1>5 DEF SetupDeleteStale
<1>6. CASE SetupRevokeDenied
  BY <1>6 DEF SetupRevokeDenied, MayFail
<1>7. CASE SetupDone
  <2>1. TypeOK'
    <3>1. [emails |-> setup.emails, host |-> setup.host] \in Snapshot
      BY <1>7 DEF SetupDone, FirstRefresh, Snapshot
    <3>2. data' \in [Gens -> Snapshot] /\ due' \in [Gens -> BOOLEAN]
      BY <1>7, <3>1 DEF SetupDone, FirstRefresh
    <3> QED
      BY <1>7, <3>2, RestingTypes DEF SetupDone, FirstRefresh
  <2>2. HostAtHand'
    BY <1>7 DEF SetupDone, FirstRefresh, NoSetup
  <2>3. SomebodyToAdmit'
    BY <1>7 DEF SetupDone, FirstRefresh, NoSetup
  <2>4. AllowRuleNeverEmpty'
    BY <1>7 DEF SetupDone, FirstRefresh, NoSetup
  <2> QED
    BY <2>1, <2>2, <2>3, <2>4 DEF IInv
<1>8. CASE SetupAnswerLost
  BY <1>0, <1>8 DEF SetupAnswerLost, MayFail, SetupEnds, NoSetup
<1>9. CASE SetupUrlGone
  BY <1>9 DEF SetupUrlGone, SetupEnds, NoSetup
<1>10. CASE \E e \in Emails : SetupRevoke(e)
  BY <1>10 DEF SetupRevoke
<1>11. CASE \E k \in Kinds : SetupFail(k)
  BY <1>0, <1>11 DEF SetupFail, MayFail, SetupEnds, NoSetup
<1> QED
  BY <1>1, <1>2, <1>3, <1>4, <1>5, <1>6, <1>7, <1>8, <1>9, <1>10, <1>11 DEF SetupNext

\* A step of a _refresh keeps the invariant.
LEMMA RefreshInv == ASSUME NEW g \in Gens, IInv, RefreshNext(g) PROVE IInv'
<1>0. strays' \subseteq Emails
  BY StraysType DEF IInv, Next
<1> USE ConstantsAssumption DEF IInv, TypeOK, HostAtHand, SomebodyToAdmit, Running,
        AllowRuleNeverEmpty, haVars, edgeVars, entryVars, history, bounds, RefPcs, Snapshot,
        RefreshRun
<1>1. CASE RefreshNoUrl(g)
  BY <1>1 DEF RefreshNoUrl, Fires
<1>2. CASE RefreshUnchanged(g)
  BY <1>2 DEF RefreshUnchanged, Fires, UrlIssueCleared
<1>3. CASE RefreshNoUsers(g)
  <2>1. TypeOK'
    <3>1. data' \in [Gens -> Snapshot]
      BY <1>3 DEF RefreshNoUsers, Snapshot
    <3> QED
      BY <1>3, <3>1 DEF RefreshNoUsers, Fires, UrlIssueCleared
  <2>2. HostAtHand'
    BY <1>3 DEF RefreshNoUsers, Fires, UrlIssueCleared
  <2>3. SomebodyToAdmit'
    BY <1>3 DEF RefreshNoUsers, Fires, UrlIssueCleared
  <2>4. AllowRuleNeverEmpty'
    BY <1>3 DEF RefreshNoUsers, Fires, UrlIssueCleared
  <2> QED
    BY <2>1, <2>2, <2>3, <2>4 DEF IInv
<1>4. CASE RefreshBegin(g)
  <2>1. TypeOK'
    <3>1. data' \in [Gens -> Snapshot]
      BY <1>4 DEF RefreshBegin, UrlIssueCleared, HasSubjects, Snapshot
    <3>2. ref' \in [Gens -> RefreshRun]
      BY <1>4 DEF RefreshBegin, UrlIssueCleared, HasSubjects, NoRef, Snapshot, RefreshRun
    <3> QED
      BY <1>4, <3>1, <3>2 DEF RefreshBegin, UrlIssueCleared, HasSubjects, Fires
  <2>2. HostAtHand'
    BY <1>4 DEF RefreshBegin, UrlIssueCleared, HasSubjects, Fires, NoRef
  <2>3. SomebodyToAdmit'
    BY <1>4 DEF RefreshBegin, UrlIssueCleared, HasSubjects, Fires, NoRef
  <2>4. AllowRuleNeverEmpty'
    BY <1>4 DEF RefreshBegin, UrlIssueCleared, HasSubjects, Fires, NoRef
  <2> QED
    BY <2>1, <2>2, <2>3, <2>4 DEF IInv
<1>5. CASE RefreshReread(g)
  <2>1. TypeOK'
    <3>1. data' \in [Gens -> Snapshot]
      <4>1. url \in Hosts /\ data' = [data EXCEPT ![g].host = url]
        BY <1>5 DEF RefreshReread
      <4> QED
        BY <4>1 DEF Snapshot
    <3>2. ref' \in [Gens -> RefreshRun]
      BY <1>5 DEF RefreshReread, RefreshRun
    <3> QED
      BY <1>5, <3>1, <3>2 DEF RefreshReread
  <2>2. HostAtHand'
    BY <1>5 DEF RefreshReread
  <2>3. SomebodyToAdmit'
    BY <1>5 DEF RefreshReread
  <2>4. AllowRuleNeverEmpty'
    BY <1>5 DEF RefreshReread
  <2> QED
    BY <2>1, <2>2, <2>3, <2>4 DEF IInv
<1>6. CASE RefreshWriteGate(g)
  <2>1. TypeOK'
    <3>1. gate' \in [emails : SUBSET Emails, host : Hosts]
      BY <1>6 DEF RefreshWriteGate, Dropped, RefreshRun
    <3>2. ref' \in [Gens -> RefreshRun]
      BY <1>6 DEF RefreshWriteGate, Dropped, RefreshRun, Snapshot
    <3>3. title' \in Hosts
      BY <1>6 DEF RefreshWriteGate, Dropped
    <3>4. due' \in [Gens -> BOOLEAN]
      BY <1>6 DEF RefreshWriteGate, Dropped, Scheduled
    <3> QED
      BY <1>6, <3>1, <3>2, <3>3, <3>4 DEF RefreshWriteGate, Dropped
  <2>2. HostAtHand'
    BY <1>6 DEF RefreshWriteGate, Dropped, Scheduled
  <2>3. SomebodyToAdmit'
    BY <1>6 DEF RefreshWriteGate, Dropped, Scheduled
  <2>4. AllowRuleNeverEmpty'
    BY <1>6 DEF RefreshWriteGate, Dropped, Scheduled
  <2> QED
    BY <2>1, <2>2, <2>3, <2>4 DEF IInv
<1>7. CASE RefreshDeleteStale(g)
  BY <1>7 DEF RefreshDeleteStale
<1>8. CASE RefreshRevokeDenied(g)
  <2>1. TypeOK'
    BY <1>8 DEF RefreshRevokeDenied, MayFail
  <2>2. HostAtHand'
    BY <1>8 DEF RefreshRevokeDenied, MayFail
  <2>3. SomebodyToAdmit'
    BY <1>8 DEF RefreshRevokeDenied, MayFail
  <2>4. AllowRuleNeverEmpty'
    BY <1>8 DEF RefreshRevokeDenied, MayFail
  <2> QED
    BY <2>1, <2>2, <2>3, <2>4 DEF IInv
<1>9. CASE RefreshCommit(g)
  BY <1>9 DEF RefreshCommit, Committed, NoRef
<1>10. CASE RefreshAnswerLost(g)
  <2>1. TypeOK'
    BY <1>0, <1>10 DEF RefreshAnswerLost, MayFail, RefreshEnds, NoRef
  <2>2. HostAtHand'
    BY <1>10 DEF RefreshAnswerLost, MayFail, RefreshEnds, NoRef
  <2>3. SomebodyToAdmit'
    BY <1>10 DEF RefreshAnswerLost, MayFail, RefreshEnds, NoRef
  <2>4. AllowRuleNeverEmpty'
    BY <1>10 DEF RefreshAnswerLost, MayFail, RefreshEnds, NoRef
  <2> QED
    BY <2>1, <2>2, <2>3, <2>4 DEF IInv
<1>11. CASE RefreshUrlGone(g)
  <2>1. ref' = [ref EXCEPT ![g] = NoRef] /\ data' = data /\ reauth' \in BOOLEAN
    BY <1>11 DEF RefreshUrlGone, RefreshEnds
  <2>2. UNCHANGED <<haVars, edgeVars, entryVars, issues, due, history, bounds>>
    BY <1>11 DEF RefreshUrlGone, RefreshEnds
  <2> QED
    BY <2>1, <2>2 DEF NoRef
<1>12. CASE \E e \in Emails : RefreshRevoke(g, e)
  <2>1. PICK e \in Emails : RefreshRevoke(g, e)
    BY <1>12
  <2>2. ref' = [ref EXCEPT ![g].todo = @ \ {e}] /\ sessions' = sessions \ {e}
    BY <2>1 DEF RefreshRevoke
  <2>3. UNCHANGED <<haVars, gate, entryVars, issues, reauth, data, due, missed, bounds>>
    BY <2>1 DEF RefreshRevoke
  <2>4. ref' \in [Gens -> RefreshRun]
    BY <2>2
  <2>5. TypeOK'
    BY <1>0, <2>2, <2>3, <2>4
  <2>6. HostAtHand' /\ SomebodyToAdmit' /\ AllowRuleNeverEmpty'
    BY <2>2, <2>3
  <2> QED
    BY <2>5, <2>6 DEF IInv
<1>13. CASE \E k \in Kinds : RefreshFail(g, k)
  BY <1>0, <1>13 DEF RefreshFail, MayFail, RefreshEnds, NoRef
<1> QED
  BY <1>1, <1>2, <1>3, <1>4, <1>5, <1>6, <1>7, <1>8, <1>9, <1>10, <1>11, <1>12, <1>13
  DEF RefreshNext

\* What happens around it keeps the invariant.
LEMMA EnvironmentInv == IInv /\ Environment => IInv'
<1> SUFFICES ASSUME IInv, Environment PROVE IInv'
  OBVIOUS
<1>0. strays' \subseteq Emails
  BY StraysType DEF IInv, Next
<1> USE ConstantsAssumption DEF IInv, TypeOK, HostAtHand, SomebodyToAdmit, Running,
        AllowRuleNeverEmpty, haVars, edgeVars, entryVars, history, bounds, Change
<1>1. CASE \E A \in SUBSET Emails : ChangeUsers(A)
  BY <1>1 DEF ChangeUsers, Notifies, Scheduled, DropsCall
<1>2. CASE \E h \in Hosts \cup {NoHost} : ChangeUrl(h)
  BY <1>2 DEF ChangeUrl, Notifies, Scheduled, DropsCall
<1>3. CASE \E e \in Emails : LogIn(e)
  BY <1>3 DEF LogIn
<1>4. CASE Reload
  <2>1. TypeOK'
    <3>1. due' \in [Gens -> BOOLEAN] /\ changes' \in 0 .. MaxChanges
      BY <1>4 DEF Reload, Unload
    <3>2. entry' = "not_loaded" /\ missed' = FALSE /\ reauth' \in BOOLEAN
      BY <1>4 DEF Reload, Unload
    <3>3. UNCHANGED <<addrs, url, gate, sessions, title, known, issues, gen, setup, data,
                      ref, failures>>
      BY <1>4 DEF Reload, Unload
    <3> QED
      BY <1>0, <3>1, <3>2, <3>3
  <2>2. HostAtHand'
    BY <1>4 DEF Reload, Unload
  <2>3. SomebodyToAdmit'
    BY <1>4 DEF Reload, Unload
  <2>4. AllowRuleNeverEmpty'
    BY <1>4 DEF Reload, Unload
  <2> QED
    BY <2>1, <2>2, <2>3, <2>4 DEF IInv
<1>5. CASE SignIn
  <2>1. TypeOK'
    <3>1. due' \in [Gens -> BOOLEAN] /\ changes' \in 0 .. MaxChanges
      BY <1>5 DEF SignIn, Unload
    <3>2. entry' = "not_loaded" /\ missed' = FALSE /\ reauth' \in BOOLEAN
      BY <1>5 DEF SignIn, Unload
    <3>3. UNCHANGED <<addrs, url, gate, sessions, title, known, issues, gen, setup, data,
                      ref, failures>>
      BY <1>5 DEF SignIn, Unload
    <3> QED
      BY <1>0, <3>1, <3>2, <3>3
  <2>2. HostAtHand'
    BY <1>5 DEF SignIn, Unload
  <2>3. SomebodyToAdmit'
    BY <1>5 DEF SignIn, Unload
  <2>4. AllowRuleNeverEmpty'
    BY <1>5 DEF SignIn, Unload
  <2> QED
    BY <2>1, <2>2, <2>3, <2>4 DEF IInv
<1>6. CASE Restart
  <2>1. TypeOK'
    <3>1. /\ setup' \in SetupRun /\ data' \in [Gens -> Snapshot]
          /\ ref' \in [Gens -> RefreshRun] /\ due' \in [Gens -> BOOLEAN]
      BY <1>6, RestingTypes DEF Restart
    <3>2. /\ entry' = "not_loaded" /\ issues' = {} /\ reauth' = FALSE /\ missed' = FALSE
          /\ changes' \in 0 .. MaxChanges
      BY <1>6 DEF Restart
    <3>3. UNCHANGED <<addrs, url, gate, sessions, title, known, gen, failures>>
      BY <1>6 DEF Restart
    <3> QED
      BY <1>0, <3>1, <3>2, <3>3
  <2>2. HostAtHand'
    BY <1>6 DEF Restart, NoSetup, NoRef, NoData, SetupPcs, RefPcs
  <2>3. SomebodyToAdmit'
    BY <1>6 DEF Restart, NoSetup, NoRef, NoData, SetupPcs, RefPcs
  <2>4. AllowRuleNeverEmpty'
    BY <1>6 DEF Restart, NoSetup, NoRef, NoData, SetupPcs, RefPcs
  <2> QED
    BY <2>1, <2>2, <2>3, <2>4 DEF IInv
<1> QED
  BY <1>1, <1>2, <1>3, <1>4, <1>5, <1>6 DEF Environment

LEMMA InductiveInv == Spec => []IInv
<1>1. IInv /\ [Next]_vars => IInv'
  <2> SUFFICES ASSUME IInv, [Next]_vars PROVE IInv'
    OBVIOUS
  <2>1. CASE SetupNext
    BY <2>1, SetupInv
  <2>2. CASE \E g \in Gens : RefreshNext(g)
    BY <2>2, RefreshInv
  <2>3. CASE Environment
    BY <2>3, EnvironmentInv
  <2>4. CASE UNCHANGED vars
    BY <2>4 DEF vars, IInv, TypeOK, HostAtHand, SomebodyToAdmit, AllowRuleNeverEmpty,
                Running
  <2> QED
    BY <2>1, <2>2, <2>3, <2>4 DEF Next
<1> QED
  BY InitInv, <1>1, PTL DEF Spec

\* Every variable keeps its type, whatever fails.
THEOREM TypeCorrect == Spec => []TypeOK
<1>1. IInv => TypeOK
  BY DEF IInv
<1> QED
  BY InductiveInv, <1>1, PTL

\* No setup and no refresh ever leaves the gate without anybody to admit: the checks of
\* __init__.py:610 and :731 cover every write, whatever fails, restarts or overlaps.
THEOREM NeverEmpty == Spec => []AllowRuleNeverEmpty
<1>1. IInv => AllowRuleNeverEmpty
  BY DEF IInv
<1> QED
  BY InductiveInv, <1>1, PTL

-----------------------------------------------------------------------------
(* The issue about the External URL.                                       *)

\* Only the loaded generation has a timer, and only what a timer or a dropped call
\* still says can make the open issue untrue.
UrlIssueFollows ==
    /\ setup.pc # "idle" => entry = "in_progress"
    /\ \A g \in Gens : due[g] => g = gen /\ entry = "loaded"
    /\ (entry = "loaded" /\ "no_external_url" \in issues)
          => url = NoHost \/ due[gen] \/ missed

LEMMA SetupUrlIssue == TypeOK /\ UrlIssueFollows /\ SetupNext => UrlIssueFollows'
<1> SUFFICES ASSUME TypeOK, UrlIssueFollows, SetupNext PROVE UrlIssueFollows'
  OBVIOUS
<1> USE DEF TypeOK, UrlIssueFollows, haVars, edgeVars, history, bounds, SetupRun, SetupPcs
<1>1. CASE SetupStart
  BY <1>1 DEF SetupStart, NoSetup
<1>2. CASE SetupRead
  BY <1>2 DEF SetupRead
<1>3. CASE SetupReread
  BY <1>3 DEF SetupReread
<1>4. CASE SetupWriteGate
  BY <1>4 DEF SetupWriteGate
<1>5. CASE SetupDeleteStale
  BY <1>5 DEF SetupDeleteStale
<1>6. CASE SetupRevokeDenied
  BY <1>6 DEF SetupRevokeDenied
<1>7. CASE SetupDone
  BY <1>7 DEF SetupDone, FirstRefresh, NoSetup
<1>8. CASE SetupAnswerLost
  BY <1>8 DEF SetupAnswerLost, SetupEnds, NoSetup
<1>9. CASE SetupUrlGone
  BY <1>9 DEF SetupUrlGone, SetupEnds, NoSetup
<1>10. CASE \E e \in Emails : SetupRevoke(e)
  BY <1>10 DEF SetupRevoke
<1>11. CASE \E k \in Kinds : SetupFail(k)
  BY <1>11 DEF SetupFail, SetupEnds, NoSetup
<1> QED
  BY <1>1, <1>2, <1>3, <1>4, <1>5, <1>6, <1>7, <1>8, <1>9, <1>10, <1>11 DEF SetupNext

\* A timer that fires looks at the URL at once, and the issue is opened or closed there.
LEMMA RefreshUrlIssue ==
    ASSUME NEW g \in Gens, TypeOK, UrlIssueFollows, RefreshNext(g) PROVE UrlIssueFollows'
<1> USE DEF TypeOK, UrlIssueFollows, haVars, edgeVars, entryVars, history, bounds
<1>1. CASE RefreshNoUrl(g)
  BY <1>1 DEF RefreshNoUrl, Fires
<1>2. CASE RefreshUnchanged(g)
  BY <1>2 DEF RefreshUnchanged, Fires, UrlIssueCleared
<1>3. CASE RefreshNoUsers(g)
  BY <1>3 DEF RefreshNoUsers, Fires, UrlIssueCleared
<1>4. CASE RefreshBegin(g)
  BY <1>4 DEF RefreshBegin, Fires, UrlIssueCleared
<1>5. CASE RefreshReread(g)
  BY <1>5 DEF RefreshReread
<1>6. CASE RefreshWriteGate(g)
  BY <1>6 DEF RefreshWriteGate, Scheduled
<1>7. CASE RefreshDeleteStale(g)
  BY <1>7 DEF RefreshDeleteStale
<1>8. CASE RefreshRevokeDenied(g)
  BY <1>8 DEF RefreshRevokeDenied
<1>9. CASE RefreshCommit(g)
  BY <1>9 DEF RefreshCommit
<1>10. CASE RefreshAnswerLost(g)
  BY <1>10 DEF RefreshAnswerLost, RefreshEnds
<1>11. CASE RefreshUrlGone(g)
  BY <1>11 DEF RefreshUrlGone, RefreshEnds
<1>12. CASE \E e \in Emails : RefreshRevoke(g, e)
  BY <1>12 DEF RefreshRevoke
<1>13. CASE \E k \in Kinds : RefreshFail(g, k)
  BY <1>13 DEF RefreshFail, RefreshEnds
<1> QED
  BY <1>1, <1>2, <1>3, <1>4, <1>5, <1>6, <1>7, <1>8, <1>9, <1>10, <1>11, <1>12, <1>13
  DEF RefreshNext

LEMMA EnvironmentUrlIssue ==
    TypeOK /\ UrlIssueFollows /\ Environment => UrlIssueFollows'
<1> SUFFICES ASSUME TypeOK, UrlIssueFollows, Environment PROVE UrlIssueFollows'
  OBVIOUS
<1> USE DEF TypeOK, UrlIssueFollows, haVars, edgeVars, entryVars, history
<1>1. CASE \E A \in SUBSET Emails : ChangeUsers(A)
  BY <1>1 DEF ChangeUsers, Notifies, Scheduled, DropsCall
<1>2. CASE \E h \in Hosts \cup {NoHost} : ChangeUrl(h)
  BY <1>2 DEF ChangeUrl, Notifies, Scheduled, DropsCall
<1>3. CASE \E e \in Emails : LogIn(e)
  BY <1>3 DEF LogIn, bounds
<1>4. CASE Reload \/ SignIn
  BY <1>4 DEF Reload, SignIn, Unload
<1>5. CASE Restart
  BY <1>5 DEF Restart, NoSetup
<1> QED
  BY <1>1, <1>2, <1>3, <1>4, <1>5 DEF Environment

\* With nothing pending, the issue "no_external_url" is open only while there is no
\* External URL, or the debouncer dropped the change that would have closed it: whatever
\* fails, restarts, or overlaps, in any number of generations (README, "until it is back").
THEOREM UrlIssueTrue == Spec => []NoUrlIssueIsTrue
<1>1. Init => UrlIssueFollows
  BY DEF Init, UrlIssueFollows, NoSetup
<1>2. TypeOK /\ UrlIssueFollows /\ [Next]_vars => UrlIssueFollows'
  <2> SUFFICES ASSUME TypeOK, UrlIssueFollows, [Next]_vars PROVE UrlIssueFollows'
    OBVIOUS
  <2>1. CASE SetupNext
    BY <2>1, SetupUrlIssue
  <2>2. CASE \E g \in Gens : RefreshNext(g)
    BY <2>2, RefreshUrlIssue
  <2>3. CASE Environment
    BY <2>3, EnvironmentUrlIssue
  <2>4. CASE UNCHANGED vars
    BY <2>4 DEF vars, UrlIssueFollows
  <2> QED
    BY <2>1, <2>2, <2>3, <2>4 DEF Next
<1>3. UrlIssueFollows => NoUrlIssueIsTrue
  BY DEF UrlIssueFollows, NoUrlIssueIsTrue, Idle
<1> QED
  BY TypeCorrect, <1>1, <1>2, <1>3, PTL DEF Spec
=============================================================================
