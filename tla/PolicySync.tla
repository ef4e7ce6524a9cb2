----------------------------- MODULE PolicySync -----------------------------
(***************************************************************************)
(* How one config entry keeps the gate's allow rule in step with Home      *)
(* Assistant: the users' addresses and the External URL on one side, the   *)
(* gate application and the Access sessions at Cloudflare on the other,    *)
(* and between them async_setup_entry, the debounced _refresh, and the     *)
(* snapshot (EntryData) each refresh compares against.                     *)
(*                                                                         *)
(* One Cloudflare call that matters is one step, and may fail.  Every      *)
(* setup starts a new generation: a _refresh started under an earlier one  *)
(* is a background task that no unload cancels, so it lives on beside it,  *)
(* with the EntryData of its own generation.                               *)
(*                                                                         *)
(* A definition X_Y is X with a plausible mistake Y.  The specification    *)
(* never uses it: it shows which property would notice the mistake.        *)
(***************************************************************************)
EXTENDS Naturals, FiniteSets

CONSTANTS
    Emails,         \* addresses a Home Assistant user can carry
    Hosts,          \* hostnames the External URL can have
    NoHost,         \* no External URL is set
    NoGate,         \* no gate application exists
    MaxChanges,     \* bound: user and URL changes, reloads, sign-ins, restarts
    MaxFailures,    \* bound: failed Cloudflare calls
    FailingCalls,   \* which calls may fail
    FailureKinds,   \* how they may fail
    Disturbances    \* what may happen besides ordinary changes

Calls == {"read", "reread", "gate", "answer", "stale", "revoke"}
Kinds == {"auth", "unavailable", "refused", "other"}
AllDisturbances == {"everyone_leaves", "url_vanishes", "reload", "reload_running",
                    "restart", "crash"}

ASSUME ConstantsAssumption ==
    /\ NoHost \notin Hosts
    /\ NoGate \notin [emails : SUBSET Emails, host : Hosts]
    /\ MaxChanges \in Nat /\ MaxFailures \in Nat
    /\ FailingCalls \subseteq Calls
    /\ FailureKinds \subseteq Kinds
    /\ Disturbances \subseteq AllDisturbances

\* Every setup but the first is due to a change or to a failure.
Gens == 0 .. (MaxChanges + MaxFailures + 1)

VARIABLES
    addrs,      \* allowed_emails: the addresses Home Assistant's users carry now
    url,        \* external_hostname: the hostname of the External URL now
    gate,       \* the gate application at Cloudflare: its allow rule and hostname
    sessions,   \* addresses that hold a valid Access session
    entry,      \* state of the config entry
    title,      \* the entry's title and unique id
    known,      \* entry.data holds the gate's application id
    issues,     \* open repair issues
    reauth,     \* a sign-in flow is open
    gen,        \* the current generation
    setup,      \* the running async_setup_entry
    data,       \* EntryData of each generation: emails and options
    ref,        \* the running _refresh of each generation
    due,        \* the debouncer's timer of each generation
    missed,     \* history: a change since the last refresh or setup began was dropped
    strays,     \* history: addresses that a run cut off after its gate write left behind
    changes, failures   \* counters for the bounds

entryVars == <<entry, title, known, gen, setup>>
edgeVars  == <<gate, sessions>>
haVars    == <<addrs, url>>
history   == <<missed, strays>>
bounds    == <<changes, failures>>
vars == <<addrs, url, gate, sessions, entry, title, known, issues, reauth, gen, setup,
          data, ref, due, missed, strays, changes, failures>>

NoData  == [emails |-> {}, host |-> NoHost]
NoSetup == [pc |-> "idle", emails |-> {}, host |-> NoHost, todo |-> {}]
NoRef   == [pc |-> "idle", emails |-> {}, old |-> NoHost, todo |-> {}]

SetupPcs == {"idle", "read", "reread", "gate", "stale", "revoke"}
RefPcs   == {"idle", "reread", "gate", "stale", "revoke"}

SetupRun == [pc : SetupPcs, emails : SUBSET Emails, host : Hosts \cup {NoHost},
             todo : SUBSET Emails]
Snapshot == [emails : SUBSET Emails, host : Hosts \cup {NoHost}]
RefreshRun == [pc : RefPcs, emails : SUBSET Emails, old : Hosts \cup {NoHost},
               todo : SUBSET Emails]

TypeOK ==
    /\ addrs \subseteq Emails
    /\ url \in Hosts \cup {NoHost}
    /\ gate \in [emails : SUBSET Emails, host : Hosts] \cup {NoGate}
    /\ sessions \subseteq Emails
    /\ entry \in {"not_loaded", "in_progress", "loaded", "retry", "error"}
    /\ title \in Hosts \cup {NoHost}
    /\ known \in BOOLEAN
    /\ issues \subseteq {"no_external_url", "no_allowed_users", "update_failed"}
    /\ reauth \in BOOLEAN
    /\ gen \in Gens
    /\ setup \in SetupRun
    /\ data \in [Gens -> Snapshot]
    /\ ref \in [Gens -> RefreshRun]
    /\ due \in [Gens -> BOOLEAN]
    /\ missed \in BOOLEAN /\ strays \subseteq Emails
    /\ changes \in 0 .. MaxChanges
    /\ failures \in 0 .. MaxFailures

Rule == IF gate = NoGate THEN {} ELSE gate.emails

\* A new entry: the config flow refuses to finish without an address or a hostname.
Init ==
    /\ addrs \in (SUBSET Emails) \ {{}}
    /\ url \in Hosts
    /\ gate = NoGate /\ sessions = {}
    /\ entry = "not_loaded" /\ title = url /\ known = FALSE
    /\ issues = {} /\ reauth = FALSE
    /\ gen = 0 /\ setup = NoSetup
    /\ data = [g \in Gens |-> NoData]
    /\ ref = [g \in Gens |-> NoRef]
    /\ due = [g \in Gens |-> FALSE]
    /\ missed = FALSE /\ strays = {}
    /\ changes = 0 /\ failures = 0

-----------------------------------------------------------------------------
(* The debouncer and its listeners.                                        *)

Running(g) == ref[g].pc # "idle"

\* async_schedule_call, made from the listeners of the loaded generation.  A call made
\* while the function runs is dropped.
Scheduled == [g \in Gens |-> due[g] \/ (g = gen /\ entry = "loaded" /\ ~Running(g))]

DropsCall == entry = "loaded" /\ Running(gen)

\* An allow policy without subjects is not written (lines 610 and 731).
HasSubjects_Unchecked == TRUE
HasSubjects == addrs # {}

\* External URL back, or still there: its issue goes (line 718).
UrlIssueCleared_Forgotten == issues
UrlIssueCleared == issues \ {"no_external_url"}

-----------------------------------------------------------------------------
(* async_setup_entry                                                       *)

\* Everything up to the first Cloudflare call.
SetupStart ==
    /\ entry \in {"not_loaded", "retry"}
    /\ gen + 1 \in Gens
    /\ gen' = gen + 1
    /\ \/ /\ url = NoHost
          /\ entry' = "error"
          /\ UNCHANGED <<issues, setup>>
       \/ /\ url # NoHost
          /\ issues' = issues \ {"no_external_url", "update_failed"}
          /\ \/ /\ ~HasSubjects
                /\ entry' = "error"
                /\ UNCHANGED setup
             \/ /\ HasSubjects
                /\ entry' = "in_progress"
                /\ setup' = [NoSetup EXCEPT !.pc = "read", !.emails = addrs]
    /\ UNCHANGED <<haVars, edgeVars, title, known, reauth, data, ref, due, history, bounds>>

\* Who the gate admitted before this run, as far as its id is on record.
PreviouslyAdmitted_NotRead == {}
PreviouslyAdmitted == IF known THEN Rule ELSE {}

\* The first options, the tag, and who the gate admitted before this run.
SetupRead ==
    /\ setup.pc = "read" /\ url # NoHost
    /\ setup' = [setup EXCEPT !.pc = "reread",
                              !.todo = PreviouslyAdmitted \ setup.emails]
    /\ UNCHANGED <<haVars, edgeVars, entry, title, known, issues, reauth, gen, data, ref,
                   due, history, bounds>>

\* The options are read again after the clients; their hostname is the one written.
SetupReread_Skipped ==
    /\ setup.pc = "reread"
    /\ setup' = [setup EXCEPT !.pc = "gate"]
    /\ UNCHANGED <<haVars, edgeVars, entry, title, known, issues, reauth, gen, data, ref,
                   due, history, bounds>>
SetupReread ==
    /\ setup.pc = "reread" /\ url # NoHost
    /\ setup' = [setup EXCEPT !.pc = "gate", !.host = url]
    /\ UNCHANGED <<haVars, edgeVars, entry, title, known, issues, reauth, gen, data, ref,
                   due, history, bounds>>

\* Whom the gate admitted that this run cannot read, since the id was never recorded.
Unrecorded == IF known THEN {} ELSE Rule \ setup.emails

SetupWriteGate ==
    /\ setup.pc = "gate"
    /\ gate' = [emails |-> setup.emails, host |-> setup.host]
    /\ known' = TRUE
    /\ setup' = [setup EXCEPT !.pc = "stale"]
    /\ strays' = strays \cup Unrecorded
    /\ UNCHANGED <<haVars, sessions, entry, title, issues, reauth, gen, data, ref, due,
                   missed, bounds>>

\* Orphaned client applications and tokens are deleted between the gate and the revokes.
SetupDeleteStale ==
    /\ setup.pc = "stale"
    /\ setup' = [setup EXCEPT !.pc = "revoke"]
    /\ UNCHANGED <<haVars, edgeVars, entry, title, known, issues, reauth, gen, data, ref,
                   due, history, bounds>>

SetupRevoke(e) ==
    /\ setup.pc = "revoke" /\ e \in setup.todo
    /\ sessions' = sessions \ {e} /\ strays' = strays \ {e}
    /\ setup' = [setup EXCEPT !.todo = @ \ {e}]
    /\ UNCHANGED <<haVars, gate, entry, title, known, issues, reauth, gen, data, ref, due,
                   missed, bounds>>

MayFail(call, kind) ==
    /\ call \in FailingCalls /\ kind \in FailureKinds
    /\ failures < MaxFailures
    /\ failures' = failures + 1

\* _async_revoke_removed gives up on the first permission error and asks for a sign-in.
SetupRevokeDenied ==
    /\ setup.pc = "revoke" /\ setup.todo # {}
    /\ MayFail("revoke", "auth")
    /\ reauth' = TRUE
    /\ setup' = [setup EXCEPT !.todo = {}]
    /\ strays' = strays \cup setup.todo
    /\ UNCHANGED <<haVars, edgeVars, entry, title, known, issues, gen, data, ref, due,
                   missed, changes>>

\* A change of state to loaded is a change of the entry, which its own listener hears.
FirstRefresh_NotDue == due
FirstRefresh == [due EXCEPT ![gen] = TRUE]

\* EntryData is built, the listeners attached, and the entry becomes loaded.
SetupDone ==
    /\ setup.pc = "revoke" /\ setup.todo = {}
    /\ data' = [data EXCEPT ![gen] = [emails |-> setup.emails, host |-> setup.host]]
    /\ entry' = "loaded"
    /\ due' = FirstRefresh
    /\ missed' = FALSE
    /\ setup' = NoSetup
    /\ UNCHANGED <<haVars, edgeVars, title, known, issues, reauth, gen, ref, strays, bounds>>

\* What the three except clauses, and Home Assistant for anything else, make of an error.
SetupEnds(kind) ==
    /\ entry' = (IF kind = "unavailable" THEN "retry" ELSE "error")
    /\ reauth' = (reauth \/ kind = "auth")
    /\ setup' = NoSetup

\* The addresses a run past its gate write has not logged out yet.
LeftBySetup == IF setup.pc \in {"stale", "revoke"} THEN setup.todo ELSE {}

SetupFail(kind) ==
    /\ setup.pc # "idle"
    /\ setup.pc = "revoke" => setup.todo # {} /\ kind # "auth"
    /\ MayFail(setup.pc, kind)
    /\ SetupEnds(kind)
    /\ strays' = strays \cup LeftBySetup
    /\ UNCHANGED <<haVars, edgeVars, title, known, issues, gen, data, ref, due, missed,
                   changes>>

\* The gate is written and the answer lost: its id is not recorded.
SetupAnswerLost ==
    /\ setup.pc = "gate"
    /\ MayFail("answer", "unavailable")
    /\ gate' = [emails |-> setup.emails, host |-> setup.host]
    /\ SetupEnds("unavailable")
    /\ strays' = strays \cup setup.todo \cup Unrecorded
    /\ UNCHANGED <<haVars, sessions, title, known, issues, gen, data, ref, due, missed,
                   changes>>

\* NoURLAvailableError past the first read is nobody's exception: the setup fails.
SetupUrlGone ==
    /\ setup.pc \in {"read", "reread"} /\ url = NoHost
    /\ SetupEnds("other")
    /\ UNCHANGED <<haVars, edgeVars, title, known, issues, gen, data, ref, due, history,
                   bounds>>

SetupNext ==
    \/ SetupStart \/ SetupRead \/ SetupReread \/ SetupWriteGate \/ SetupDeleteStale
    \/ SetupRevokeDenied \/ SetupDone \/ SetupAnswerLost \/ SetupUrlGone
    \/ \E e \in Emails : SetupRevoke(e)
    \/ \E k \in Kinds : SetupFail(k)

-----------------------------------------------------------------------------
(* _refresh: the timer fires and the task compares, decides, writes.       *)

Fires(g) ==
    /\ due[g] /\ ~Running(g)
    /\ due' = [due EXCEPT ![g] = FALSE]
    /\ missed' = FALSE /\ UNCHANGED strays

\* Nothing to guard any more: an issue, and the applications stay as they are.
RefreshNoUrl(g) ==
    /\ Fires(g)
    /\ url = NoHost
    /\ issues' = issues \cup {"no_external_url"}
    /\ UNCHANGED <<haVars, edgeVars, entryVars, reauth, data, ref, bounds>>

\* What makes a refresh return early: the snapshot has it all already.
SameAsSnapshot(g) == addrs = data[g].emails /\ url = data[g].host

RefreshUnchanged(g) ==
    /\ Fires(g)
    /\ url # NoHost /\ SameAsSnapshot(g)
    /\ issues' = UrlIssueCleared
    /\ UNCHANGED <<haVars, edgeVars, entryVars, reauth, data, ref, bounds>>

\* Nobody has an address: an issue; the new options are taken over all the same.
RefreshNoUsers(g) ==
    /\ Fires(g)
    /\ url # NoHost /\ ~SameAsSnapshot(g) /\ ~HasSubjects
    /\ data' = [data EXCEPT ![g].host = url]
    /\ issues' = UrlIssueCleared \cup {"no_allowed_users"}
    /\ UNCHANGED <<haVars, edgeVars, entryVars, reauth, ref, bounds>>

RefreshBegin(g) ==
    /\ Fires(g)
    /\ url # NoHost /\ ~SameAsSnapshot(g) /\ HasSubjects
    /\ ref' = [ref EXCEPT ![g] = [NoRef EXCEPT !.pc = "reread", !.emails = addrs,
                                               !.old = data[g].host]]
    /\ data' = [data EXCEPT ![g].host = url]
    /\ issues' = UrlIssueCleared \ {"no_allowed_users"}
    /\ UNCHANGED <<haVars, edgeVars, entryVars, reauth, bounds>>

RefreshReread(g) ==
    /\ ref[g].pc = "reread" /\ url # NoHost
    /\ data' = [data EXCEPT ![g].host = url]
    /\ ref' = [ref EXCEPT ![g].pc = "gate"]
    /\ UNCHANGED <<haVars, edgeVars, entryVars, issues, reauth, due, history, bounds>>

\* Whose sessions a refresh ends: the addresses of its snapshot that are gone.
Dropped_Nobody(g) == {}
Dropped_Everybody(g) == data[g].emails
Dropped(g) == data[g].emails \ ref[g].emails

\* The gate takes the new rule and hostname; a new hostname becomes the entry's title,
\* which is a change of the entry and so schedules a call.
RefreshWriteGate(g) ==
    /\ ref[g].pc = "gate"
    /\ gate' = [emails |-> ref[g].emails, host |-> data[g].host]
    /\ known' = TRUE
    /\ title' = data[g].host
    /\ due' = (IF title # data[g].host THEN Scheduled ELSE due)
    /\ ref' = [ref EXCEPT ![g] = [@ EXCEPT !.pc = "stale",
                                        !.todo = Dropped(g)]]
    /\ UNCHANGED <<haVars, sessions, entry, gen, setup, issues, reauth, data, history,
                   bounds>>

RefreshDeleteStale(g) ==
    /\ ref[g].pc = "stale"
    /\ ref' = [ref EXCEPT ![g].pc = "revoke"]
    /\ UNCHANGED <<haVars, edgeVars, entryVars, issues, reauth, data, due, history, bounds>>

RefreshRevoke(g, e) ==
    /\ ref[g].pc = "revoke" /\ e \in ref[g].todo
    /\ sessions' = sessions \ {e} /\ strays' = strays \ {e}
    /\ ref' = [ref EXCEPT ![g].todo = @ \ {e}]
    /\ UNCHANGED <<haVars, gate, entryVars, issues, reauth, data, due, missed, bounds>>

RefreshRevokeDenied(g) ==
    /\ ref[g].pc = "revoke" /\ ref[g].todo # {}
    /\ MayFail("revoke", "auth")
    /\ reauth' = TRUE
    /\ ref' = [ref EXCEPT ![g].todo = {}]
    /\ strays' = strays \cup ref[g].todo
    /\ UNCHANGED <<haVars, edgeVars, entryVars, issues, data, due, missed, changes>>

\* The snapshot becomes what was written (data.emails at line 768).
Committed_Forgotten(g) == data
Committed(g) == [data EXCEPT ![g].emails = ref[g].emails]

RefreshCommit(g) ==
    /\ ref[g].pc = "revoke" /\ ref[g].todo = {}
    /\ data' = Committed(g)
    /\ issues' = issues \ {"update_failed"}
    /\ ref' = [ref EXCEPT ![g] = NoRef]
    /\ UNCHANGED <<haVars, edgeVars, entryVars, reauth, due, history, bounds>>

\* A handled error restores the options; a bare CloudflareError leaves the task at once.
RefreshEnds(g, kind) ==
    /\ ref' = [ref EXCEPT ![g] = NoRef]
    /\ data' = (IF kind = "other" THEN data ELSE [data EXCEPT ![g].host = ref[g].old])
    /\ reauth' = (reauth \/ kind = "auth")
    /\ issues' = (IF kind \in {"unavailable", "refused"}
                  THEN issues \cup {"update_failed"} ELSE issues)

\* A refresh that ends past its gate write leaves those it has not logged out, and those
\* it admitted: the snapshot the next one compares with does not name them.
LeftByRefresh(g) ==
    IF ref[g].pc \in {"stale", "revoke"}
    THEN ref[g].todo \cup (ref[g].emails \ data[g].emails) ELSE {}

RefreshFail(g, kind) ==
    /\ Running(g)
    /\ ref[g].pc = "revoke" => ref[g].todo # {} /\ kind # "auth"
    /\ MayFail(ref[g].pc, kind)
    /\ RefreshEnds(g, kind)
    /\ strays' = strays \cup LeftByRefresh(g)
    /\ UNCHANGED <<haVars, edgeVars, entryVars, due, missed, changes>>

RefreshAnswerLost(g) ==
    /\ ref[g].pc = "gate"
    /\ MayFail("answer", "unavailable")
    /\ gate' = [emails |-> ref[g].emails, host |-> data[g].host]
    /\ RefreshEnds(g, "unavailable")
    /\ strays' = strays \cup Dropped(g) \cup (ref[g].emails \ data[g].emails)
    /\ UNCHANGED <<haVars, sessions, entryVars, due, missed, changes>>

RefreshUrlGone(g) ==
    /\ ref[g].pc = "reread" /\ url = NoHost
    /\ RefreshEnds(g, "other")
    /\ UNCHANGED <<haVars, edgeVars, entryVars, due, history, bounds>>

RefreshNext(g) ==
    \/ RefreshNoUrl(g) \/ RefreshUnchanged(g) \/ RefreshNoUsers(g) \/ RefreshBegin(g)
    \/ RefreshReread(g) \/ RefreshWriteGate(g) \/ RefreshDeleteStale(g)
    \/ RefreshRevokeDenied(g) \/ RefreshCommit(g) \/ RefreshAnswerLost(g)
    \/ RefreshUrlGone(g)
    \/ \E e \in Emails : RefreshRevoke(g, e)
    \/ \E k \in Kinds : RefreshFail(g, k)

-----------------------------------------------------------------------------
(* The world around it: users, the administrator, Home Assistant itself.   *)

Change ==
    /\ changes < MaxChanges
    /\ changes' = changes + 1

Notifies ==
    /\ due' = Scheduled
    /\ missed' = (missed \/ DropsCall) /\ UNCHANGED strays

\* A user is added, removed, deactivated or renamed (EVENT_USER_*).
ChangeUsers(A) ==
    /\ Change /\ A # addrs
    /\ A = {} => "everyone_leaves" \in Disturbances
    /\ addrs' = A
    /\ Notifies
    /\ UNCHANGED <<url, edgeVars, entryVars, issues, reauth, data, ref, failures>>

\* The External URL is set, changed or removed (EVENT_CORE_CONFIG_UPDATE).
ChangeUrl(h) ==
    /\ Change /\ h # url
    /\ h = NoHost => "url_vanishes" \in Disturbances
    /\ url' = h
    /\ Notifies
    /\ UNCHANGED <<addrs, edgeVars, entryVars, issues, reauth, data, ref, failures>>

\* Cloudflare admits whoever the rule names.
LogIn(e) ==
    /\ e \in Rule \ sessions
    /\ sessions' = sessions \cup {e}
    /\ UNCHANGED <<haVars, gate, entryVars, issues, reauth, data, ref, due, history, bounds>>

\* Unloading shuts the debouncer down and detaches the listeners; a _refresh in flight
\* goes on.  Home Assistant sets the entry up again at once.
Unload ==
    /\ entry \in {"loaded", "retry", "error"}
    /\ Running(gen) => "reload_running" \in Disturbances
    /\ entry' = "not_loaded"
    /\ due' = [due EXCEPT ![gen] = FALSE]
    /\ missed' = FALSE
    /\ UNCHANGED <<haVars, edgeVars, title, known, issues, gen, setup, data, ref, strays,
                   failures>>

\* The user's reload, also the fix of "update_failed" and of "no_external_url".
Reload ==
    /\ Change /\ "reload" \in Disturbances
    /\ Unload
    /\ UNCHANGED reauth

\* A completed sign-in reloads the entry.
SignIn ==
    /\ Change /\ reauth
    /\ Unload
    /\ reauth' = FALSE

\* Between the gate write and the end of a run there may be sessions still to end.
Unfinished ==
    setup.pc \in {"stale", "revoke"} \/ \E g \in Gens : ref[g].pc \in {"stale", "revoke"}

\* Home Assistant stops, or dies, and starts again: only what is stored survives.
Restart ==
    /\ Change
    /\ \/ "restart" \in Disturbances /\ ~Unfinished
       \/ "crash" \in Disturbances
    /\ entry' = "not_loaded"
    /\ issues' = {} /\ reauth' = FALSE /\ missed' = FALSE
    /\ setup' = NoSetup
    /\ data' = [g \in Gens |-> NoData]
    /\ ref' = [g \in Gens |-> NoRef]
    /\ due' = [g \in Gens |-> FALSE]
    /\ strays' = strays \cup LeftBySetup \cup UNION {LeftByRefresh(g) : g \in Gens}
    /\ UNCHANGED <<haVars, edgeVars, title, known, gen, failures>>

Environment ==
    \/ \E A \in SUBSET Emails : ChangeUsers(A)
    \/ \E h \in Hosts \cup {NoHost} : ChangeUrl(h)
    \/ \E e \in Emails : LogIn(e)
    \/ Reload \/ SignIn \/ Restart

Next == SetupNext \/ (\E g \in Gens : RefreshNext(g)) \/ Environment

Spec == Init /\ [][Next]_vars

\* Tasks on the event loop go on, its timers fire, and HA retries a setup by itself.
Fairness == WF_vars(SetupNext) /\ \A g \in Gens : WF_vars(RefreshNext(g))

FairSpec == Spec /\ Fairness

-----------------------------------------------------------------------------
(* Properties                                                              *)

\* An allow policy without subjects is a lock-out: whatever users come and go, no
\* setup and no refresh ever writes the gate with an empty allow rule (the checks at
\* __init__.py:610 and :731 guard every path to the write).
AllowRuleNeverEmpty == gate # NoGate => gate.emails # {}

Idle == entry = "loaded" /\ ~due[gen] /\ \A g \in Gens : ~Running(g)

InSync == gate = [emails |-> addrs, host |-> url]

\* What the administrator has in front of them: an issue that still says something
\* true, or an open sign-in.
Reported ==
    \/ "update_failed" \in issues \/ reauth
    \/ "no_external_url" \in issues /\ url = NoHost
    \/ "no_allowed_users" \in issues /\ addrs = {}

\* When nothing is pending, the gate admits exactly Home Assistant's users on its
\* External URL, or the administrator has been told, or the debouncer dropped the
\* last change (README, "follows them: a user added, removed ...").
SyncedOrReported == Idle => InSync \/ Reported \/ missed

\* The snapshot a refresh compares against is the last state Cloudflare accepted
\* (comment at __init__.py:778), unless a failure is on record.
SnapshotIsGate ==
    (entry = "loaded" /\ ~Running(gen) /\ "update_failed" \notin issues /\ ~reauth)
        => gate = data[gen]

\* Addresses a run in progress will still log out: a setup owes those the gate named
\* when it started, a refresh those of its snapshot.
Owed == setup.todo \cup UNION {ref[g].todo : g \in Gens}

\* Every Access session belongs to an address the rule admits, or to one a run in
\* progress has yet to log out (_async_revoke_removed); it is forgotten only by a run that
\* fails or is cut off after its gate write, or that cannot know whom the gate admitted.
SessionsCovered == sessions \subseteq Rule \cup Owed \cup strays

\* Losing access ends the session: when nothing is pending or reported, nobody off the
\* rule holds a session (README, "Security properties").
LoggedOutOrReported == Idle => sessions \subseteq Rule \/ Reported

\* The issue "no_external_url" goes away once the URL is back (README, "until it is
\* back"), whatever fails and whoever restarts in between.
NoUrlIssueIsTrue == Idle => ("no_external_url" \in issues => url = NoHost) \/ missed

\* Once the changes stop, the gate follows: it ends up in step with Home Assistant, or
\* the administrator is told by an issue, a sign-in or a failed setup, or the last
\* change was dropped.
EventuallyFollows == <>[](InSync \/ Reported \/ missed \/ entry = "error")

\* What the gate promises anyone who logs in, whatever the reconciliation does inside.
Policy == INSTANCE AccessPolicy WITH rule <- Rule

\* The reconciliation implements that promise.
ImplementsPolicy == Policy!Spec
=============================================================================
