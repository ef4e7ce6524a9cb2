------------------------ MODULE PolicySyncGuarantees ------------------------
(***************************************************************************)
(* What the reconciliation guarantees as long as no reload overtakes a     *)
(* _refresh in flight: it implements AccessPolicy, and of the sessions it  *)
(* is to end it forgets only those the history variable strays names,      *)
(* whatever fails; and the gate follows Home Assistant or the              *)
(* administrator is told when, besides, every failure is one that _refresh *)
(* handles.                                                                *)
(***************************************************************************)
EXTENDS PolicySyncProofs

\* At most one of the setup and the current generation's _refresh is at work.
OneAtWork ==
    /\ setup.pc # "idle" <=> entry = "in_progress"
    /\ \A g \in Gens : due[g] \/ Running(g) => g = gen /\ entry = "loaded"

\* Whom a run logs out is not whom it admits.
DroppedNotAdmitted ==
    /\ setup.todo \cap setup.emails = {}
    /\ setup.pc \in {"stale", "revoke"} => gate # NoGate /\ gate.emails = setup.emails
    /\ \A g \in Gens : ref[g].pc \in {"stale", "revoke"} =>
          /\ gate # NoGate /\ gate.emails = ref[g].emails
          /\ ref[g].todo \cap ref[g].emails = {}

OneWriter == IInv /\ OneAtWork /\ DroppedNotAdmitted

\* Whom the rule admits every run knows, except for strays: the setup that replaces the
\* rule has noted whom it drops, and the snapshot of the loaded entry names the others.
RuleOnRecord ==
    /\ known => gate # NoGate
    /\ entry = "loaded" \/ setup.pc \in {"stale", "revoke"} => known
    /\ setup.pc \in {"reread", "gate"} =>
          setup.todo \subseteq Rule /\ (known => Rule \ setup.emails \subseteq setup.todo)
    /\ (entry = "loaded" /\ ref[gen].pc \in {"idle", "reread", "gate"})
          => Rule \subseteq data[gen].emails \cup strays

\* Before a run has read or written the gate it owes nothing.
NobodyOwed ==
    /\ setup.pc \in {"idle", "read"} => setup.todo = {}
    /\ \A g \in Gens : ref[g].pc \in {"idle", "reread", "gate"} => ref[g].todo = {}

\* What the one run at work has still to log out.
CurrentlyOwed ==
    IF entry = "in_progress" THEN setup.todo
    ELSE IF entry = "loaded" THEN ref[gen].todo ELSE {}

\* Nobody else holds a session without being admitted or among the strays.
Covered == sessions \subseteq Rule \cup CurrentlyOwed \cup strays

SessionFacts == RuleOnRecord /\ NobodyOwed /\ Covered

\* What the steps below use of the types.
RunTypes ==
    /\ gen \in Gens
    /\ setup \in SetupRun
    /\ data \in [Gens -> Snapshot]
    /\ ref \in [Gens -> RefreshRun]
    /\ due \in [Gens -> BOOLEAN]

LEMMA TypesOfRuns == TypeOK => RunTypes
BY DEF TypeOK, RunTypes

\* A gate that has been written is a gate: the hostname at hand makes it one.
LEMMA WrittenGateExists ==
    ASSUME NEW E \in SUBSET Emails, NEW h \in Hosts
    PROVE  [emails |-> E, host |-> h] # NoGate
BY ConstantsAssumption

\* Only the setup is at work while one is running.
LEMMA SetupOneWriter ==
    ASSUME RunTypes, HostAtHand, OneAtWork, DroppedNotAdmitted, SetupNext
    PROVE  OneAtWork' /\ DroppedNotAdmitted'
<1> USE DEF RunTypes, OneAtWork, DroppedNotAdmitted, Running, haVars, edgeVars, history, bounds,
        SetupRun, SetupPcs, RefreshRun, RefPcs
<1>1. CASE SetupStart
  BY <1>1 DEF SetupStart, NoSetup, HasSubjects
<1>2. CASE SetupRead
  BY <1>2 DEF SetupRead, PreviouslyAdmitted, Rule
<1>3. CASE SetupReread
  BY <1>3 DEF SetupReread
<1>4. CASE SetupWriteGate
  <2>1. gate' # NoGate /\ gate'.emails = setup.emails
    BY <1>4, WrittenGateExists DEF SetupWriteGate, HostAtHand
  <2> QED
    BY <1>4, <2>1 DEF SetupWriteGate
<1>5. CASE SetupDeleteStale
  BY <1>5 DEF SetupDeleteStale
<1>6. CASE SetupRevokeDenied
  BY <1>6 DEF SetupRevokeDenied, MayFail
<1>7. CASE SetupDone
  BY <1>7 DEF SetupDone, FirstRefresh, NoSetup
<1>8. CASE SetupAnswerLost
  BY <1>8 DEF SetupAnswerLost, MayFail, SetupEnds, NoSetup
<1>9. CASE SetupUrlGone
  BY <1>9 DEF SetupUrlGone, SetupEnds, NoSetup
<1>10. CASE \E e \in Emails : SetupRevoke(e)
  BY <1>10 DEF SetupRevoke
<1>11. CASE \E k \in Kinds : SetupFail(k)
  BY <1>11 DEF SetupFail, MayFail, SetupEnds, NoSetup
<1> QED
  BY <1>1, <1>2, <1>3, <1>4, <1>5, <1>6, <1>7, <1>8, <1>9, <1>10, <1>11 DEF SetupNext

\* Only one _refresh, the current generation's, is at work.
LEMMA RefreshOneWriter ==
    ASSUME NEW g \in Gens, RunTypes, HostAtHand, OneAtWork, DroppedNotAdmitted,
           RefreshNext(g)
    PROVE  OneAtWork' /\ DroppedNotAdmitted'
<1> USE DEF RunTypes, OneAtWork, DroppedNotAdmitted, Running, haVars, edgeVars, history, bounds,
        entryVars, SetupRun, RefreshRun, RefPcs
<1>1. CASE RefreshNoUrl(g)
  BY <1>1 DEF RefreshNoUrl, Fires
<1>2. CASE RefreshUnchanged(g)
  BY <1>2 DEF RefreshUnchanged, Fires, UrlIssueCleared
<1>3. CASE RefreshNoUsers(g)
  BY <1>3 DEF RefreshNoUsers, Fires, UrlIssueCleared
<1>4. CASE RefreshBegin(g)
  BY <1>4 DEF RefreshBegin, UrlIssueCleared, HasSubjects, Fires, NoRef
<1>5. CASE RefreshReread(g)
  BY <1>5 DEF RefreshReread
<1>6. CASE RefreshWriteGate(g)
  <2>1. gate' # NoGate /\ gate'.emails = ref[g].emails
    BY <1>6, WrittenGateExists DEF RefreshWriteGate, Dropped, HostAtHand
  <2>2. OneAtWork'
    BY <1>6 DEF RefreshWriteGate, Dropped, Scheduled
  <2>3. DroppedNotAdmitted'
    BY <1>6, <2>1 DEF RefreshWriteGate, Dropped
  <2> QED
    BY <2>2, <2>3
<1>7. CASE RefreshDeleteStale(g)
  BY <1>7 DEF RefreshDeleteStale
<1>8. CASE RefreshRevokeDenied(g)
  BY <1>8 DEF RefreshRevokeDenied, MayFail
<1>9. CASE RefreshCommit(g)
  BY <1>9 DEF RefreshCommit, Committed, NoRef
<1>10. CASE RefreshAnswerLost(g)
  BY <1>10 DEF RefreshAnswerLost, MayFail, RefreshEnds, NoRef
<1>11. CASE RefreshUrlGone(g)
  BY <1>11 DEF RefreshUrlGone, RefreshEnds, NoRef
<1>12. CASE \E e \in Emails : RefreshRevoke(g, e)
  BY <1>12 DEF RefreshRevoke
<1>13. CASE \E k \in Kinds : RefreshFail(g, k)
  BY <1>13 DEF RefreshFail, MayFail, RefreshEnds, NoRef
<1> QED
  BY <1>1, <1>2, <1>3, <1>4, <1>5, <1>6, <1>7, <1>8, <1>9, <1>10, <1>11, <1>12, <1>13
  DEF RefreshNext

\* A reload that waits for the _refresh leaves nothing behind.
LEMMA EnvironmentOneWriter ==
    ASSUME RunTypes, OneAtWork, DroppedNotAdmitted, Environment,
           "reload_running" \notin Disturbances
    PROVE  OneAtWork' /\ DroppedNotAdmitted'
<1> USE DEF RunTypes, OneAtWork, DroppedNotAdmitted, Running, haVars, edgeVars, history, bounds,
        entryVars, SetupRun, RefreshRun, RefPcs
<1>1. CASE \E A \in SUBSET Emails : ChangeUsers(A)
  BY <1>1 DEF ChangeUsers, Notifies, Scheduled
<1>2. CASE \E h \in Hosts \cup {NoHost} : ChangeUrl(h)
  BY <1>2 DEF ChangeUrl, Notifies, Scheduled
<1>3. CASE \E e \in Emails : LogIn(e)
  BY <1>3 DEF LogIn
<1>4. CASE Reload
  BY <1>4 DEF Reload, Unload
<1>5. CASE SignIn
  BY <1>5 DEF SignIn, Unload
<1>6. CASE Restart
  BY <1>6 DEF Restart, NoSetup, NoRef
<1> QED
  BY <1>1, <1>2, <1>3, <1>4, <1>5, <1>6 DEF Environment

LEMMA OneWriterInv == ASSUME "reload_running" \notin Disturbances PROVE Spec => []OneWriter
<1>1. Init => OneAtWork /\ DroppedNotAdmitted
  BY DEF Init, OneAtWork, DroppedNotAdmitted, Running, NoSetup, NoRef
<1>2. IInv /\ OneAtWork /\ DroppedNotAdmitted /\ [Next]_vars
        => OneAtWork' /\ DroppedNotAdmitted'
  <2> SUFFICES ASSUME IInv, OneAtWork, DroppedNotAdmitted, [Next]_vars
               PROVE  OneAtWork' /\ DroppedNotAdmitted'
    OBVIOUS
  <2>1. RunTypes /\ HostAtHand
    BY TypesOfRuns DEF IInv
  <2>2. CASE SetupNext
    BY <2>1, <2>2, SetupOneWriter
  <2>3. CASE \E g \in Gens : RefreshNext(g)
    BY <2>1, <2>3, RefreshOneWriter
  <2>4. CASE Environment
    BY <2>1, <2>4, EnvironmentOneWriter
  <2>5. CASE UNCHANGED vars
    BY <2>5 DEF vars, OneAtWork, DroppedNotAdmitted, Running
  <2> QED
    BY <2>2, <2>3, <2>4, <2>5 DEF Next
<1>3. IInv /\ OneAtWork /\ DroppedNotAdmitted <=> OneWriter
  BY DEF OneWriter
<1> QED
  BY InductiveInv, <1>1, <1>2, <1>3, PTL DEF Spec

-----------------------------------------------------------------------------
(* Refinement.                                                             *)

\* A write of the gate replaces the rule by one that admits somebody.
LEMMA WriteReplaces ==
    ASSUME NEW E \in (SUBSET Emails) \ {{}}, NEW h \in Hosts,
           gate' = [emails |-> E, host |-> h], UNCHANGED sessions
    PROVE  Policy!Next
<1>1. Rule' = E
  BY WrittenGateExists DEF Rule
<1> QED
  BY <1>1 DEF Policy!Next, Policy!Replace

\* A step of a run that is neither a write nor a revoke is a stutter at the gate.
LEMMA GateStutters == UNCHANGED edgeVars => UNCHANGED <<Rule, sessions>>
BY DEF edgeVars, Rule

LEMMA SetupImplements ==
    ASSUME OneWriter, SetupNext PROVE [Policy!Next]_<<Rule, sessions>>
<1> USE DEF OneWriter, IInv, TypeOK
<1>1. CASE SetupWriteGate \/ SetupAnswerLost
  BY <1>1, WriteReplaces
  DEF SetupWriteGate, SetupAnswerLost, HostAtHand, SomebodyToAdmit, SetupRun
<1>2. CASE \E e \in Emails : SetupRevoke(e)
  <2>1. PICK e \in Emails : SetupRevoke(e)
    BY <1>2
  <2>2. e \notin Rule
    BY <2>1 DEF SetupRevoke, Rule, DroppedNotAdmitted
  <2>3. sessions' = sessions \ {e} /\ UNCHANGED Rule
    BY <2>1 DEF SetupRevoke, Rule
  <2> QED
    BY <2>1, <2>2, <2>3 DEF Policy!Next, Policy!LogOut
<1>3. CASE UNCHANGED edgeVars
  BY <1>3, GateStutters
<1>4. CASE SetupStart \/ SetupRead \/ SetupReread \/ SetupDeleteStale \/ SetupRevokeDenied
           \/ SetupDone \/ SetupUrlGone \/ \E k \in Kinds : SetupFail(k)
  BY <1>3, <1>4 DEF SetupStart, SetupRead, SetupReread, SetupDeleteStale,
     SetupRevokeDenied, SetupDone, SetupUrlGone, SetupFail
<1> QED
  BY <1>1, <1>2, <1>4 DEF SetupNext

LEMMA RefreshImplements ==
    ASSUME NEW g \in Gens, OneWriter, RefreshNext(g)
    PROVE  [Policy!Next]_<<Rule, sessions>>
<1> USE DEF OneWriter, IInv, TypeOK
<1>1. CASE RefreshWriteGate(g) \/ RefreshAnswerLost(g)
  BY <1>1, WriteReplaces DEF RefreshWriteGate, Dropped, RefreshAnswerLost, HostAtHand,
     SomebodyToAdmit, Running, RefreshRun
<1>2. CASE \E e \in Emails : RefreshRevoke(g, e)
  <2>1. PICK e \in Emails : RefreshRevoke(g, e)
    BY <1>2
  <2>2. e \notin Rule
    BY <2>1 DEF RefreshRevoke, Rule, DroppedNotAdmitted
  <2>3. sessions' = sessions \ {e} /\ UNCHANGED Rule
    BY <2>1 DEF RefreshRevoke, Rule
  <2> QED
    BY <2>1, <2>2, <2>3 DEF Policy!Next, Policy!LogOut
<1>3. CASE UNCHANGED edgeVars
  BY <1>3, GateStutters
<1>4. CASE \/ RefreshNoUrl(g) \/ RefreshUnchanged(g) \/ RefreshNoUsers(g)
           \/ RefreshBegin(g) \/ RefreshReread(g) \/ RefreshDeleteStale(g)
           \/ RefreshRevokeDenied(g) \/ RefreshCommit(g) \/ RefreshUrlGone(g)
           \/ \E k \in Kinds : RefreshFail(g, k)
  BY <1>3, <1>4 DEF RefreshNoUrl, RefreshUnchanged, RefreshNoUsers, RefreshBegin,
     RefreshReread, RefreshDeleteStale, RefreshRevokeDenied, RefreshCommit,
     RefreshUrlGone, RefreshFail
<1> QED
  BY <1>1, <1>2, <1>4 DEF RefreshNext

LEMMA EnvironmentImplements == Environment => [Policy!Next]_<<Rule, sessions>>
<1> SUFFICES ASSUME Environment PROVE [Policy!Next]_<<Rule, sessions>>
  OBVIOUS
<1>1. CASE \E e \in Emails : LogIn(e)
  BY <1>1 DEF LogIn, Rule, Policy!Next, Policy!LogIn
<1>2. CASE UNCHANGED edgeVars
  BY <1>2, GateStutters
<1>3. CASE \/ \E A \in SUBSET Emails : ChangeUsers(A)
           \/ \E h \in Hosts \cup {NoHost} : ChangeUrl(h)
           \/ Reload \/ SignIn \/ Restart
  BY <1>2, <1>3 DEF ChangeUsers, ChangeUrl, Reload, SignIn, Unload, Restart
<1> QED
  BY <1>1, <1>3 DEF Environment

\* Whatever fails and whenever Home Assistant dies, the gate keeps its promise: the rule
\* is never emptied, only an admitted address obtains a session, and nobody whom the
\* rule admits is logged out, provided no reload overtakes a _refresh in flight.
THEOREM PolicyImplemented ==
    ASSUME "reload_running" \notin Disturbances PROVE Spec => ImplementsPolicy
<1>1. Init => Policy!Init
  BY DEF Init, Policy!Init, Rule
<1>2. OneWriter /\ [Next]_vars => [Policy!Next]_<<Rule, sessions>>
  <2> SUFFICES ASSUME OneWriter, [Next]_vars PROVE [Policy!Next]_<<Rule, sessions>>
    OBVIOUS
  <2>1. CASE SetupNext
    BY <2>1, SetupImplements
  <2>2. CASE \E g \in Gens : RefreshNext(g)
    BY <2>2, RefreshImplements
  <2>3. CASE Environment
    BY <2>3, EnvironmentImplements
  <2>4. CASE UNCHANGED vars
    BY <2>4 DEF vars, Rule
  <2> QED
    BY <2>1, <2>2, <2>3, <2>4 DEF Next
<1> QED
  BY OneWriterInv, <1>1, <1>2, PTL DEF Spec, ImplementsPolicy, Policy!Spec

-----------------------------------------------------------------------------
(* The sessions that are forgotten.                                        *)

\* What a run of async_setup_entry owes, it took from the rule it replaces.
LEMMA SetupSession ==
    ASSUME RunTypes, HostAtHand, OneAtWork, DroppedNotAdmitted, SessionFacts,
           SetupNext
    PROVE  SessionFacts'
<1> USE DEF RunTypes, OneAtWork, DroppedNotAdmitted, Running, haVars, edgeVars, history, bounds,
        SetupRun, SetupPcs, RefreshRun, RefPcs, SessionFacts, RuleOnRecord, NobodyOwed,
        Covered, CurrentlyOwed, Rule
<1>1. CASE SetupStart
  BY <1>1 DEF SetupStart, NoSetup, HasSubjects
<1>2. CASE SetupRead
  BY <1>2 DEF SetupRead, PreviouslyAdmitted
<1>3. CASE SetupReread
  BY <1>3 DEF SetupReread
<1>4. CASE SetupWriteGate
  <2>1. gate' # NoGate /\ gate'.emails = setup.emails
    BY <1>4, WrittenGateExists DEF SetupWriteGate, HostAtHand
  <2>2. /\ setup'.pc = "stale" /\ setup'.todo = setup.todo /\ known'
        /\ setup.pc = "gate" /\ entry = "in_progress"
        /\ strays' = strays \cup Unrecorded /\ UNCHANGED <<sessions, entry, ref>>
    BY <1>4 DEF SetupWriteGate
  <2>3. RuleOnRecord' /\ NobodyOwed'
    BY <2>1, <2>2
  <2>4. Rule \subseteq setup.emails \cup setup.todo \cup Unrecorded
    BY <2>2 DEF Unrecorded
  <2>5. Covered'
    BY <2>1, <2>2, <2>4
  <2> QED
    BY <2>3, <2>5
<1>5. CASE SetupDeleteStale
  BY <1>5 DEF SetupDeleteStale
<1>6. CASE SetupRevokeDenied
  <2>1. /\ setup' = [setup EXCEPT !.todo = {}] /\ strays' = strays \cup setup.todo
        /\ setup.pc = "revoke" /\ entry = "in_progress"
        /\ UNCHANGED <<gate, sessions, entry, known, gen, data, ref>>
    BY <1>6 DEF SetupRevokeDenied
  <2>2. RuleOnRecord' /\ NobodyOwed'
    BY <2>1
  <2>3. Covered'
    BY <2>1
  <2> QED
    BY <2>2, <2>3
<1>7. CASE SetupDone
  BY <1>7 DEF SetupDone, FirstRefresh, NoSetup, Snapshot
<1>8. CASE SetupAnswerLost
  <2>1. gate' # NoGate /\ gate'.emails = setup.emails
    BY <1>8, WrittenGateExists DEF SetupAnswerLost, HostAtHand
  <2>2. /\ setup' = NoSetup /\ entry' = "retry"
        /\ setup.pc = "gate" /\ entry = "in_progress"
        /\ strays' = strays \cup setup.todo \cup Unrecorded
        /\ UNCHANGED <<sessions, known, ref>>
    BY <1>8 DEF SetupAnswerLost, SetupEnds
  <2>3. RuleOnRecord' /\ NobodyOwed'
    BY <2>1, <2>2 DEF NoSetup
  <2>4. Rule \subseteq setup.emails \cup setup.todo \cup Unrecorded
    BY <2>2 DEF Unrecorded
  <2>5. Covered'
    BY <2>1, <2>2, <2>4
  <2> QED
    BY <2>3, <2>5
<1>9. CASE SetupUrlGone
  BY <1>9 DEF SetupUrlGone, SetupEnds, NoSetup
<1>10. CASE \E e \in Emails : SetupRevoke(e)
  BY <1>10 DEF SetupRevoke
<1>11. CASE \E k \in Kinds : SetupFail(k)
  <2>1. /\ setup' = NoSetup /\ entry' \in {"retry", "error"}
        /\ setup.pc # "idle" /\ entry = "in_progress"
        /\ strays' = strays \cup LeftBySetup
        /\ UNCHANGED <<gate, sessions, known, ref>>
    BY <1>11 DEF SetupFail, SetupEnds
  <2>2. RuleOnRecord' /\ NobodyOwed'
    BY <2>1 DEF NoSetup
  <2>3. setup.todo \subseteq Rule \cup LeftBySetup
    BY DEF LeftBySetup
  <2>4. Covered'
    BY <2>1, <2>3
  <2> QED
    BY <2>2, <2>4
<1> QED
  BY <1>1, <1>2, <1>3, <1>4, <1>5, <1>6, <1>7, <1>8, <1>9, <1>10, <1>11 DEF SetupNext

\* What a _refresh owes, it took from a snapshot that is exactly the rule it replaces.
LEMMA RefreshSession ==
    ASSUME NEW g \in Gens, RunTypes, HostAtHand, OneAtWork, DroppedNotAdmitted,
           SessionFacts, RefreshNext(g)
    PROVE  SessionFacts'
<1> USE DEF RunTypes, OneAtWork, DroppedNotAdmitted, Running, haVars, edgeVars, history, bounds,
        entryVars, SetupRun, RefreshRun, RefPcs, SessionFacts, RuleOnRecord, NobodyOwed,
        Covered, CurrentlyOwed, Rule
<1>1. CASE RefreshNoUrl(g)
  BY <1>1 DEF RefreshNoUrl, Fires
<1>2. CASE RefreshUnchanged(g)
  BY <1>2 DEF RefreshUnchanged, Fires, UrlIssueCleared
<1>3. CASE RefreshNoUsers(g)
  BY <1>3 DEF RefreshNoUsers, Fires, UrlIssueCleared, Snapshot
<1>4. CASE RefreshBegin(g)
  BY <1>4 DEF RefreshBegin, UrlIssueCleared, HasSubjects, Fires, NoRef, Snapshot
<1>5. CASE RefreshReread(g)
  BY <1>5 DEF RefreshReread, Snapshot
<1>6. CASE RefreshWriteGate(g)
  <2>1. gate' # NoGate /\ gate'.emails = ref[g].emails
    BY <1>6, WrittenGateExists DEF RefreshWriteGate, Dropped, HostAtHand
  <2>2. RuleOnRecord' /\ NobodyOwed'
    BY <1>6, <2>1 DEF RefreshWriteGate, Dropped
  <2>3. sessions \subseteq data[g].emails \cup strays
    BY <1>6 DEF RefreshWriteGate, Dropped
  <2>4. CurrentlyOwed' = data[g].emails \ ref[g].emails
    BY <1>6 DEF RefreshWriteGate, Dropped
  <2>5. Covered'
    BY <1>6, <2>1, <2>3, <2>4 DEF RefreshWriteGate, Dropped
  <2> QED
    BY <2>2, <2>5
<1>7. CASE RefreshDeleteStale(g)
  BY <1>7 DEF RefreshDeleteStale
<1>8. CASE RefreshRevokeDenied(g)
  <2>1. /\ ref' = [ref EXCEPT ![g].todo = {}] /\ strays' = strays \cup ref[g].todo
        /\ ref[g].pc = "revoke" /\ g = gen /\ entry = "loaded"
        /\ UNCHANGED <<gate, sessions, entry, known, gen, setup, data>>
    BY <1>8 DEF RefreshRevokeDenied
  <2>2. RuleOnRecord' /\ NobodyOwed'
    BY <2>1
  <2>3. Covered'
    BY <2>1
  <2> QED
    BY <2>2, <2>3
<1>9. CASE RefreshCommit(g)
  BY <1>9 DEF RefreshCommit, Committed, NoRef, Snapshot
<1>10. CASE RefreshAnswerLost(g)
  <2>1. gate' # NoGate /\ gate'.emails = ref[g].emails
    BY <1>10, WrittenGateExists DEF RefreshAnswerLost, HostAtHand
  <2>2. /\ ref' = [ref EXCEPT ![g] = NoRef] /\ ref[g].pc = "gate"
        /\ g = gen /\ entry = "loaded"
        /\ strays' = strays \cup Dropped(g) \cup (ref[g].emails \ data[g].emails)
        /\ data'[g].emails = data[g].emails
        /\ UNCHANGED <<sessions, entry, known, gen, setup>>
    BY <1>10 DEF RefreshAnswerLost, RefreshEnds, Snapshot
  <2>3. RuleOnRecord' /\ NobodyOwed'
    BY <2>1, <2>2 DEF NoRef
  <2>4. Rule \subseteq ref[g].emails \cup Dropped(g) \cup strays
    BY <2>2 DEF Dropped
  <2>5. Covered'
    BY <2>1, <2>2, <2>4 DEF NoRef
  <2> QED
    BY <2>3, <2>5
<1>11. CASE RefreshUrlGone(g)
  BY <1>11 DEF RefreshUrlGone, RefreshEnds, NoRef
<1>12. CASE \E e \in Emails : RefreshRevoke(g, e)
  BY <1>12 DEF RefreshRevoke
<1>13. CASE \E k \in Kinds : RefreshFail(g, k)
  <2>1. /\ ref' = [ref EXCEPT ![g] = NoRef] /\ ref[g].pc # "idle"
        /\ g = gen /\ entry = "loaded"
        /\ strays' = strays \cup LeftByRefresh(g)
        /\ data'[g].emails = data[g].emails
        /\ UNCHANGED <<gate, sessions, entry, known, gen, setup>>
    BY <1>13 DEF RefreshFail, RefreshEnds, Snapshot
  <2>2. Rule \cup ref[g].todo \subseteq data[g].emails \cup strays \cup LeftByRefresh(g)
                                              \cup ref[g].todo
    BY <2>1 DEF LeftByRefresh
  <2>3. ref[g].todo \subseteq LeftByRefresh(g)
    BY <2>1 DEF LeftByRefresh
  <2>4. RuleOnRecord' /\ NobodyOwed'
    BY <2>1, <2>2, <2>3 DEF NoRef
  <2>5. Covered'
    BY <2>1, <2>3 DEF NoRef
  <2> QED
    BY <2>4, <2>5
<1> QED
  BY <1>1, <1>2, <1>3, <1>4, <1>5, <1>6, <1>7, <1>8, <1>9, <1>10, <1>11, <1>12, <1>13
  DEF RefreshNext

\* Nobody outside changes the rule, and a restart leaves what a run had to finish.
LEMMA EnvironmentSession ==
    ASSUME RunTypes, OneAtWork, DroppedNotAdmitted, SessionFacts, Environment,
           "reload_running" \notin Disturbances
    PROVE  SessionFacts'
<1> USE DEF RunTypes, OneAtWork, DroppedNotAdmitted, Running, haVars, edgeVars, history, bounds,
        entryVars, SetupRun, RefreshRun, RefPcs, SessionFacts, RuleOnRecord, NobodyOwed,
        Covered, CurrentlyOwed, Rule
<1>1. CASE \E A \in SUBSET Emails : ChangeUsers(A)
  BY <1>1 DEF ChangeUsers, Notifies
<1>2. CASE \E h \in Hosts \cup {NoHost} : ChangeUrl(h)
  BY <1>2 DEF ChangeUrl, Notifies
<1>3. CASE \E e \in Emails : LogIn(e)
  BY <1>3 DEF LogIn
<1>4. CASE Reload
  BY <1>4 DEF Reload, Unload
<1>5. CASE SignIn
  BY <1>5 DEF SignIn, Unload
<1>6. CASE Restart
  <2>1. /\ setup' = NoSetup /\ entry' = "not_loaded" /\ ref' = [h \in Gens |-> NoRef]
        /\ strays' = strays \cup LeftBySetup \cup UNION {LeftByRefresh(h) : h \in Gens}
        /\ UNCHANGED <<gate, sessions, known>>
    BY <1>6 DEF Restart
  <2>2. RuleOnRecord' /\ NobodyOwed'
    BY <2>1 DEF NoSetup, NoRef
  <2>3. CurrentlyOwed \subseteq Rule \cup strays'
    <3>1. setup.todo \subseteq Rule \cup LeftBySetup
      BY DEF LeftBySetup, SetupPcs
    <3>2. ref[gen].todo \subseteq LeftByRefresh(gen)
      BY DEF LeftByRefresh
    <3> QED
      BY <2>1, <3>1, <3>2
  <2>4. Covered'
    BY <2>1, <2>3
  <2> QED
    BY <2>2, <2>4
<1> QED
  BY <1>1, <1>2, <1>3, <1>4, <1>5, <1>6 DEF Environment

LEMMA SessionFactsInv ==
    ASSUME "reload_running" \notin Disturbances PROVE Spec => [](OneWriter /\ SessionFacts)
<1>2. Init => SessionFacts
  BY DEF Init, SessionFacts, RuleOnRecord, NobodyOwed, Covered, CurrentlyOwed, Rule,
     NoSetup, NoRef
<1>3. OneWriter /\ SessionFacts /\ [Next]_vars => SessionFacts'
  <2> SUFFICES ASSUME OneWriter, SessionFacts, [Next]_vars PROVE SessionFacts'
    OBVIOUS
  <2>1. RunTypes /\ HostAtHand /\ OneAtWork /\ DroppedNotAdmitted
    BY TypesOfRuns DEF OneWriter, IInv
  <2>2. CASE SetupNext
    BY <2>1, <2>2, SetupSession
  <2>3. CASE \E g \in Gens : RefreshNext(g)
    BY <2>1, <2>3, RefreshSession
  <2>4. CASE Environment
    BY <2>1, <2>4, EnvironmentSession
  <2>5. CASE UNCHANGED vars
    BY <2>5 DEF vars, SessionFacts, RuleOnRecord, NobodyOwed, Covered, CurrentlyOwed,
       Rule, Unfinished
  <2> QED
    BY <2>2, <2>3, <2>4, <2>5 DEF Next
<1>4. Spec => []OneWriter
  BY OneWriterInv
<1> QED
  BY <1>2, <1>3, <1>4, PTL DEF Spec

\* As long as no reload overtakes a _refresh, every session off the rule has a run about
\* to end it, or is a stray: whatever fails, crashes or loses its answer, only a run cut off
\* after its gate write, and one that cannot read whom the gate admitted, forgets a session.
THEOREM NoSessionForgotten ==
    ASSUME "reload_running" \notin Disturbances PROVE Spec => []SessionsCovered
<1>1. OneWriter /\ SessionFacts => SessionsCovered
  <2> SUFFICES ASSUME OneWriter, SessionFacts PROVE SessionsCovered
    OBVIOUS
  <2>1. gen \in Gens
    BY DEF OneWriter, IInv, TypeOK
  <2>2. CurrentlyOwed \subseteq Owed
    BY <2>1 DEF CurrentlyOwed, Owed
  <2> QED
    BY <2>2 DEF SessionFacts, Covered, SessionsCovered
<1> QED
  BY <1>1, SessionFactsInv, PTL

-----------------------------------------------------------------------------
(* The gate follows Home Assistant, or the administrator is told.          *)

\* Every failure is one that _refresh handles, no reload overtakes a _refresh, and there
\* is always a URL and somebody to admit.  Any call may fail, the answer of a write may
\* be lost, and Home Assistant may die at any point.
ErrorsHandled ==
    /\ FailureKinds \subseteq {"auth", "unavailable", "refused"}
    /\ Disturbances \cap {"reload_running", "everyone_leaves", "url_vanishes"} = {}

\* There is always something to guard, for somebody.
InUse == url # NoHost /\ addrs # {}

\* An issue or a sign-in that stays open until a run has succeeded.
Told == "update_failed" \in issues \/ reauth

\* A run that has written the gate left it at the hostname it goes on with.
HostWritten ==
    /\ setup.pc \in {"stale", "revoke"} => gate.host = setup.host
    /\ \A g \in Gens : ref[g].pc \in {"stale", "revoke"} => gate.host = data[g].host

\* The gate carries these addresses and this hostname.
GateIs(E, h) == gate # NoGate /\ gate.emails = E /\ gate.host = h

\* The snapshot of the loaded entry is the gate's state; a _refresh that has not written
\* yet has already taken over the new hostname, and remembers the old one.
SnapshotOnRecord ==
    (entry = "loaded" /\ ~Told) =>
        /\ ref[gen].pc = "idle" => GateIs(data[gen].emails, data[gen].host)
        /\ ref[gen].pc \in {"reread", "gate"} => GateIs(data[gen].emails, ref[gen].old)

\* What no timer and no dropped call stands for has been seen: by the snapshot, or by
\* the _refresh under way.
NothingUnseen ==
    (entry = "loaded" /\ ~due[gen] /\ ~missed) =>
        /\ ref[gen].pc = "idle" => Told \/ (data[gen].emails = addrs /\ data[gen].host = url)
        /\ ref[gen].pc # "idle" => ref[gen].emails = addrs /\ data[gen].host = url

FollowFacts == InUse /\ HostWritten /\ SnapshotOnRecord /\ NothingUnseen

\* A setup leaves a snapshot of what it has written, and a timer for what it missed.
LEMMA SetupFollows ==
    ASSUME RunTypes, HostAtHand, OneAtWork, DroppedNotAdmitted, FollowFacts, ErrorsHandled,
           SetupNext
    PROVE  FollowFacts'
<1> USE DEF RunTypes, OneAtWork, DroppedNotAdmitted, Running, haVars, edgeVars, history, bounds,
        SetupRun, SetupPcs, RefreshRun, RefPcs, FollowFacts, InUse, HostWritten,
        SnapshotOnRecord, NothingUnseen, GateIs, Told
<1>1. CASE SetupStart
  BY <1>1 DEF SetupStart, NoSetup, HasSubjects
<1>2. CASE SetupRead
  BY <1>2 DEF SetupRead, PreviouslyAdmitted
<1>3. CASE SetupReread
  BY <1>3 DEF SetupReread
<1>4. CASE SetupWriteGate
  <2>1. gate' # NoGate /\ gate'.emails = setup.emails /\ gate'.host = setup.host
    BY <1>4, WrittenGateExists DEF SetupWriteGate, HostAtHand
  <2> QED
    BY <1>4, <2>1 DEF SetupWriteGate
<1>5. CASE SetupDeleteStale
  BY <1>5 DEF SetupDeleteStale
<1>6. CASE SetupRevokeDenied
  BY <1>6 DEF SetupRevokeDenied, MayFail
<1>7. CASE SetupDone
  BY <1>7 DEF SetupDone, FirstRefresh, NoSetup, Snapshot
<1>8. CASE SetupAnswerLost
  BY <1>8 DEF SetupAnswerLost, MayFail, SetupEnds, NoSetup
<1>9. CASE SetupUrlGone
  BY <1>9 DEF SetupUrlGone, SetupEnds, NoSetup
<1>10. CASE \E e \in Emails : SetupRevoke(e)
  BY <1>10 DEF SetupRevoke
<1>11. CASE \E k \in Kinds : SetupFail(k)
  BY <1>11 DEF SetupFail, MayFail, SetupEnds, NoSetup
<1> QED
  BY <1>1, <1>2, <1>3, <1>4, <1>5, <1>6, <1>7, <1>8, <1>9, <1>10, <1>11 DEF SetupNext

\* A _refresh either commits what it has written, or restores the hostname and says so.
LEMMA RefreshFollows ==
    ASSUME NEW g \in Gens, RunTypes, HostAtHand, OneAtWork, DroppedNotAdmitted,
           FollowFacts, ErrorsHandled, RefreshNext(g)
    PROVE  FollowFacts'
<1> USE DEF RunTypes, OneAtWork, DroppedNotAdmitted, Running, haVars, edgeVars, history, bounds,
        entryVars, SetupRun, RefreshRun, RefPcs, FollowFacts, InUse, HostWritten,
        SnapshotOnRecord, NothingUnseen, GateIs, Told, Snapshot
<1>1. CASE RefreshNoUrl(g)
  BY <1>1 DEF RefreshNoUrl
<1>2. CASE RefreshUnchanged(g)
  BY <1>2 DEF RefreshUnchanged, Fires, UrlIssueCleared, SameAsSnapshot
<1>3. CASE RefreshNoUsers(g)
  BY <1>3 DEF RefreshNoUsers, HasSubjects
<1>4. CASE RefreshBegin(g)
  BY <1>4 DEF RefreshBegin, UrlIssueCleared, Fires, NoRef
<1>5. CASE RefreshReread(g)
  BY <1>5 DEF RefreshReread
<1>6. CASE RefreshWriteGate(g)
  <2>1. gate' # NoGate /\ gate'.emails = ref[g].emails /\ gate'.host = data[g].host
    BY <1>6, WrittenGateExists DEF RefreshWriteGate, HostAtHand
  <2> QED
    BY <1>6, <2>1 DEF RefreshWriteGate, Scheduled
<1>7. CASE RefreshDeleteStale(g)
  BY <1>7 DEF RefreshDeleteStale
<1>8. CASE RefreshRevokeDenied(g)
  BY <1>8 DEF RefreshRevokeDenied, MayFail
<1>9. CASE RefreshCommit(g)
  BY <1>9 DEF RefreshCommit, Committed, NoRef
<1>10. CASE RefreshAnswerLost(g)
  BY <1>10 DEF RefreshAnswerLost, MayFail, RefreshEnds, NoRef
<1>11. CASE RefreshUrlGone(g)
  BY <1>11 DEF RefreshUrlGone
<1>12. CASE \E e \in Emails : RefreshRevoke(g, e)
  BY <1>12 DEF RefreshRevoke
<1>13. CASE \E k \in Kinds : RefreshFail(g, k)
  <2>1. PICK k \in Kinds : RefreshFail(g, k)
    BY <1>13
  <2>2. g = gen /\ entry = "loaded"
    BY <2>1 DEF RefreshFail
  <2>3. /\ ref' = [ref EXCEPT ![g] = NoRef]
        /\ UNCHANGED <<addrs, url, gate, entry, gen, setup, due, missed>>
    BY <2>1 DEF RefreshFail, RefreshEnds
  <2>4. Told'
    BY <2>1 DEF RefreshFail, MayFail, RefreshEnds, ErrorsHandled
  <2>5. InUse' /\ HostWritten'
    BY <2>2, <2>3 DEF NoRef
  <2> QED
    BY <2>2, <2>3, <2>4, <2>5 DEF NoRef
<1> QED
  BY <1>1, <1>2, <1>3, <1>4, <1>5, <1>6, <1>7, <1>8, <1>9, <1>10, <1>11, <1>12, <1>13
  DEF RefreshNext

\* A change of the users or of the URL leaves a timer, or is noted as dropped.
LEMMA EnvironmentFollows ==
    ASSUME RunTypes, OneAtWork, DroppedNotAdmitted, FollowFacts, ErrorsHandled, Environment
    PROVE  FollowFacts'
<1> USE DEF RunTypes, OneAtWork, Running, haVars, edgeVars, history, bounds, entryVars, SetupRun,
        RefreshRun, RefPcs, FollowFacts, InUse, HostWritten, SnapshotOnRecord,
        NothingUnseen, GateIs, Told
<1>1. CASE \E A \in SUBSET Emails : ChangeUsers(A)
  <2>1. PICK A \in SUBSET Emails : ChangeUsers(A)
    BY <1>1
  <2>2. addrs' # {} /\ UNCHANGED <<url, gate, entry, gen, setup, issues, reauth, data, ref>>
    BY <2>1 DEF ChangeUsers, ErrorsHandled
  <2>3. entry = "loaded" => due'[gen] \/ missed'
    BY <2>1 DEF ChangeUsers, Notifies, Scheduled, DropsCall
  <2> QED
    BY <2>2, <2>3
<1>2. CASE \E h \in Hosts \cup {NoHost} : ChangeUrl(h)
  <2>1. PICK h \in Hosts \cup {NoHost} : ChangeUrl(h)
    BY <1>2
  <2>2. url' # NoHost /\ UNCHANGED <<addrs, gate, entry, gen, setup, issues, reauth, data, ref>>
    BY <2>1 DEF ChangeUrl, ErrorsHandled
  <2>3. entry = "loaded" => due'[gen] \/ missed'
    BY <2>1 DEF ChangeUrl, Notifies, Scheduled, DropsCall
  <2> QED
    BY <2>2, <2>3
<1>3. CASE \E e \in Emails : LogIn(e)
  BY <1>3 DEF LogIn
<1>4. CASE Reload \/ SignIn
  BY <1>4 DEF Reload, SignIn, Unload
<1>5. CASE Restart
  BY <1>5 DEF Restart, NoSetup, NoRef
<1> QED
  BY <1>1, <1>2, <1>3, <1>4, <1>5 DEF Environment

LEMMA FollowFactsInv ==
    ASSUME ErrorsHandled PROVE Spec => [](OneWriter /\ FollowFacts)
<1>1. "reload_running" \notin Disturbances
  BY DEF ErrorsHandled
<1>2. Init => FollowFacts
  BY ConstantsAssumption DEF Init, FollowFacts, InUse, HostWritten, SnapshotOnRecord,
     NothingUnseen, NoSetup, NoRef
<1>3. OneWriter /\ FollowFacts /\ [Next]_vars => FollowFacts'
  <2> SUFFICES ASSUME OneWriter, FollowFacts, [Next]_vars PROVE FollowFacts'
    OBVIOUS
  <2>1. RunTypes /\ HostAtHand /\ OneAtWork /\ DroppedNotAdmitted
    BY TypesOfRuns DEF OneWriter, IInv
  <2>2. CASE SetupNext
    BY <2>1, <2>2, SetupFollows
  <2>3. CASE \E g \in Gens : RefreshNext(g)
    BY <2>1, <2>3, RefreshFollows
  <2>4. CASE Environment
    BY <2>1, <2>4, EnvironmentFollows
  <2>5. CASE UNCHANGED vars
    BY <2>5 DEF vars, FollowFacts, InUse, HostWritten, SnapshotOnRecord, NothingUnseen,
       GateIs, Told
  <2> QED
    BY <2>2, <2>3, <2>4, <2>5 DEF Next
<1>4. Spec => []OneWriter
  BY <1>1, OneWriterInv
<1> QED
  BY <1>2, <1>3, <1>4, PTL DEF Spec

\* A gate with the parts of this record is this record.
LEMMA GateIsRecord ==
    ASSUME TypeOK, NEW s \in Snapshot, GateIs(s.emails, s.host) PROVE gate = s
BY DEF TypeOK, GateIs, Snapshot

\* Between two runs the snapshot that the next _refresh compares with is the last state
\* Cloudflare accepted (comment at __init__.py:778), whatever call failed in a way that
\* _refresh handles and wherever Home Assistant died, unless an issue or a sign-in says
\* that it may not be.
THEOREM SnapshotTrue == ASSUME ErrorsHandled PROVE Spec => []SnapshotIsGate
<1>1. OneWriter /\ FollowFacts => SnapshotIsGate
  <2> SUFFICES ASSUME OneWriter, FollowFacts, entry = "loaded", ~Running(gen),
                      "update_failed" \notin issues, ~reauth
               PROVE  gate = data[gen]
    BY DEF SnapshotIsGate
  <2>1. TypeOK /\ data[gen] \in Snapshot
    BY DEF OneWriter, IInv, TypeOK
  <2>2. GateIs(data[gen].emails, data[gen].host)
    BY DEF FollowFacts, SnapshotOnRecord, Told, Running
  <2> QED
    BY <2>1, <2>2, GateIsRecord
<1> QED
  BY <1>1, FollowFactsInv, PTL

\* With nothing pending and nothing dropped, what the snapshot says is also the newest.
LEMMA AtRestInSync ==
    ASSUME OneWriter, FollowFacts, Idle, ~Reported, ~missed PROVE InSync
<1>1. TypeOK /\ data[gen] \in Snapshot /\ gen \in Gens
  BY DEF OneWriter, IInv, TypeOK
<1>2. ref[gen].pc = "idle" /\ ~Told /\ entry = "loaded" /\ ~due[gen]
  BY <1>1 DEF Idle, Running, Reported, Told
<1>3. GateIs(data[gen].emails, data[gen].host)
  BY <1>2 DEF FollowFacts, SnapshotOnRecord
<1>4. data[gen].emails = addrs /\ data[gen].host = url
  BY <1>2 DEF FollowFacts, NothingUnseen
<1> QED
  BY <1>1, <1>3, <1>4, GateIsRecord DEF InSync, Snapshot

\* With nothing pending the gate admits exactly Home Assistant's users on its External
\* URL, or the administrator is told, or the debouncer dropped the last change: through
\* lost answers, failures of every call, and crashes (README, "follows them").
THEOREM FollowsOrReports == ASSUME ErrorsHandled PROVE Spec => []SyncedOrReported
<1>1. OneWriter /\ FollowFacts => SyncedOrReported
  BY AtRestInSync DEF SyncedOrReported
<1> QED
  BY <1>1, FollowFactsInv, PTL
=============================================================================
