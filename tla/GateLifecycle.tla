---------------------------- MODULE GateLifecycle ----------------------------
(***************************************************************************)
(* The life of one config entry and of its two applications at Cloudflare: *)
(* the gate on the hostname and the bypass application for the open paths. *)
(* async_provision (a "pass") brings both in line with the options, at     *)
(* setup and in a refresh; _async_take_gate_down deletes both when the     *)
(* entry is disabled, in async_unload_entry, after a state change and at   *)
(* start; async_remove_entry deletes them for good.  entry.data keeps the  *)
(* ids.                                                                    *)
(*                                                                         *)
(* Home Assistant's lock keeps setups, unloads and removals of an entry    *)
(* apart; a refresh and the take-downs in the background hold no lock.     *)
(* Why a refresh runs (users, clients) is PolicySync's and ClientApps';    *)
(* here it compares the hostname of its snapshot, and the rest may differ. *)
(*                                                                         *)
(* A definition X_Y is X with a plausible mistake Y, and is not used.      *)
(***************************************************************************)
EXTENDS Integers

CONSTANTS
    Hosts,          \* hostnames of the External URL
    Background,     \* bound: take-downs in the background at the same time
    MaxChanges,     \* bound: what users and administrators do
    MaxFailures,    \* bound: failed calls
    FailureKinds,   \* "refused": nothing was done; "answer": done, answer lost
    Disturbances,   \* what happens besides options, disabling and enabling
    DeletesOnRemove \* CONF_DELETE_OBJECTS_ON_REMOVE

ASSUME LifecycleAssumption ==
    /\ Hosts # {} /\ Background # {} /\ {"unload", "remove"} \cap Background = {}
    /\ MaxChanges \in Nat /\ MaxFailures \in Nat
    /\ FailureKinds \subseteq {"refused", "answer"}
    /\ Disturbances \subseteq {"restart", "stop", "remove", "dashboard", "url", "users"}
    /\ DeletesOnRemove \in BOOLEAN

VARIABLES
    apps,       \* applications that exist: kind, hostname, whether tagged
    ids,        \* entry.data: ids of the two applications, 0 for none
    aud,        \* runtime_data.policy_aud: the gate whose tokens the origin accepts
    entry,      \* state of the config entry
    disabled,   \* entry.disabled_by is set
    stopping,   \* hass.is_stopping
    waiting,    \* operations that wait for the entry's lock
    wants,      \* the options: gate, bypass, hostname
    due,        \* the debouncer's timer
    passes,     \* the setup and the refresh that run
    downs,      \* the take-downs that run
    snap,       \* runtime_data.options: the hostname the next refresh compares with
    differs,    \* the users or the clients may differ from the snapshot
    issues,     \* open repair issues, and the sign-in flow
    warned,     \* history: a take-down or removal failed, with a warning
    unsaved,    \* history: created by a pass that ended before storing the ids
    tangled,    \* history: a pass and something else worked on the applications
    edited,     \* history: somebody edited an application since the last setup began
    silent,     \* history: a refresh ended on an error nobody handles, and none succeeded
    missed,     \* history: the debouncer dropped the news of another hostname
    next, changes, failures

cloud   == <<apps, next>>
stored  == <<ids, disabled, wants>>
history == <<warned, unsaved, tangled, edited>>
refreshed == <<snap, differs, issues, silent, missed>>
bounds  == <<changes, failures>>
vars == <<apps, ids, aud, entry, disabled, stopping, waiting, wants, due, passes, downs,
          snap, differs, issues, warned, unsaved, tangled, edited, silent, missed, next,
          changes, failures>>

Kinds  == {"gate", "bypass"}
Passes == {"setup", "refresh"}
Downs  == {"unload", "remove"} \cup Background
Errors == {"auth", "unavailable", "api", "other"}
Issues == {"update_failed", "no_allowed_users", "reauth"}

With(f, x, v) == [y \in DOMAIN f \cup {x} |-> IF y = x THEN v ELSE f[y]]
Without(f, x) == [y \in DOMAIN f \ {x} |-> f[y]]

None == [k \in Kinds |-> 0]
AnyHost == CHOOSE h \in Hosts : TRUE
NoPass == [at |-> "idle", call |-> "look", seen |-> 0, known |-> None, got |-> None,
           gate |-> FALSE, bypass |-> FALSE, host |-> AnyHost, made |-> {},
           prev |-> AnyHost, mine |-> FALSE]
NoDown == [at |-> "idle", known |-> None]

Id == 0 .. next - 1
TypeOK ==
    /\ next \in Nat \ {0}
    /\ DOMAIN apps \subseteq Id \ {0}
    /\ apps \in [DOMAIN apps -> [kind : Kinds, host : Hosts, tagged : BOOLEAN]]
    /\ ids \in [Kinds -> Id] /\ aud \in Id /\ unsaved \subseteq Id
    /\ entry \in {"not_loaded", "setup", "loaded", "retry", "error", "unloading", "removed"}
    /\ disabled \in BOOLEAN /\ stopping \in BOOLEAN /\ due \in BOOLEAN
    /\ waiting \subseteq {"reload", "remove"}
    /\ wants \in [gate : BOOLEAN, bypass : BOOLEAN, host : Hosts]
    /\ passes \in [Passes -> [at : {"idle", "save", "rest"} \cup Kinds,
                              call : {"look", "create", "update", "delete"},
                              seen : Id, known : [Kinds -> Id], got : [Kinds -> Id],
                              gate : BOOLEAN, bypass : BOOLEAN, host : Hosts,
                              made : SUBSET Id, prev : Hosts, mine : BOOLEAN]]
    /\ downs \in [Downs -> [at : {"idle", "done"} \cup Kinds, known : [Kinds -> Id]]]
    /\ snap \in Hosts /\ issues \subseteq Issues
    /\ differs \in BOOLEAN /\ silent \in BOOLEAN /\ missed \in BOOLEAN
    /\ warned \in BOOLEAN /\ edited \in BOOLEAN /\ tangled \in BOOLEAN
    /\ changes \in 0 .. MaxChanges /\ failures \in 0 .. MaxFailures

\* Home Assistant starts with an entry that is enabled and has provisioned nothing yet.
Init ==
    /\ apps = [i \in {} |-> 0] /\ ids = None /\ aud = 0
    /\ entry = "not_loaded" /\ disabled = FALSE /\ stopping = FALSE
    /\ waiting = {"reload"}
    /\ wants \in [gate : BOOLEAN, bypass : BOOLEAN, host : {AnyHost}]
    /\ due = FALSE /\ snap = AnyHost /\ differs = FALSE
    /\ issues = {} /\ silent = FALSE /\ missed = FALSE
    /\ passes = [p \in Passes |-> NoPass] /\ downs = [d \in Downs |-> NoDown]
    /\ warned = FALSE /\ unsaved = {} /\ tangled = FALSE /\ edited = FALSE
    /\ next = 1 /\ changes = 0 /\ failures = 0

-----------------------------------------------------------------------------
(* Cloudflare.                                                             *)

Live == DOMAIN apps
Owned_Anything(i) == i \in Live
Owned(i) == i \in Live /\ apps[i].tagged

\* Cloudflare refuses a second application on a domain (11010).
Taken(kind, h) == {i \in Live : apps[i].kind = kind /\ apps[i].host = h}

MayFail(kind) ==
    /\ kind \in FailureKinds /\ failures < MaxFailures
    /\ failures' = failures + 1

-----------------------------------------------------------------------------
(* What runs at the same time.                                             *)

Busy(others) == \/ \E p \in Passes \cap others : passes[p].at # "idle"
                \/ \E d \in Downs \cap others : downs[d].at # "idle"
Everything == Passes \cup Downs

\* A pass works on the applications beside anything else; two take-downs do no harm.
Tangles(others) ==
    tangled' = (tangled \/ Busy(others))

Locked == entry \in {"setup", "unloading"} \/ downs["remove"].at # "idle"

AfterDown_BypassFirst == [bypass |-> "gate", gate |-> "done"]
\* A take-down deletes the gate first, so that nothing stays gated.
AfterDown == [gate |-> "bypass", bypass |-> "done"]
Starting(r) == [at |-> CHOOSE k \in Kinds : \A j \in Kinds : AfterDown[j] # k, known |-> r]

HasGate(r) == \E k \in Kinds : r[k] # 0

\* _take_down: a background task, with the ids as they are when it starts.
FreeTasks == {b \in Background : downs[b].at = "idle"}
TaskAt == CHOOSE b \in FreeTasks : TRUE
TakeDown(r) ==
    /\ FreeTasks # {}
    /\ downs' = [downs EXCEPT ![TaskAt] = Starting(r)]
    /\ Tangles(Passes)

Heard_IfLoaded(st, r) == UNCHANGED <<downs, tangled>>
\* async_setup's listener, after an update of the entry that leaves it in state st with
\* the ids r.
Heard(st, r) ==
    IF disabled /\ st = "not_loaded" /\ HasGate(r) /\ ~stopping
    THEN TakeDown(r)
    ELSE UNCHANGED <<downs, tangled>>

-----------------------------------------------------------------------------
(* async_provision.                                                        *)

PassOf(w, r) == [NoPass EXCEPT !.at = "bypass", !.known = r, !.gate = w.gate,
                               !.bypass = w.bypass, !.host = w.host]

\* async_setup_entry, up to the reconciliation: a disabled entry is not set up.
SetupStart ==
    /\ ~Locked /\ ~disabled
    /\ \/ entry = "not_loaded" /\ "reload" \in waiting
       \/ entry = "retry"
    /\ entry' = "setup" /\ waiting' = waiting \ {"reload"}
    /\ issues' = issues \ {"update_failed"} /\ differs' = FALSE /\ edited' = FALSE
    /\ passes' = [passes EXCEPT !["setup"] = PassOf(wants, ids)]
    /\ Tangles(Everything)
    /\ UNCHANGED <<cloud, stored, aud, stopping, due, snap, downs, warned, unsaved, silent,
                   missed, bounds>>

\* The debounced refresh, which goes on when the entry is unloaded, reads the options.
Fires ==
    /\ entry \in {"loaded", "unloading"} /\ due /\ passes["refresh"].at = "idle"
    /\ due' = FALSE /\ missed' = FALSE
    /\ UNCHANGED <<cloud, stored, aud, entry, stopping, waiting, downs, warned, unsaved,
                   edited, silent, bounds>>

RefreshUnchanged ==
    /\ Fires /\ wants.host = snap
    /\ UNCHANGED <<passes, snap, differs, issues, tangled>>

\* With nobody to admit the new hostname is taken over and not written.
RefreshForNobody ==
    /\ Fires /\ differs
    /\ snap' = wants.host /\ issues' = issues \cup {"no_allowed_users"}
    /\ UNCHANGED <<passes, differs, tangled>>

\* The new hostname enters the snapshot before anything is written.
RefreshStart ==
    /\ Fires
    /\ wants.host # snap \/ differs
    /\ snap' = wants.host /\ differs' = FALSE
    /\ issues' = issues \ {"no_allowed_users"}
    /\ passes' = [passes EXCEPT !["refresh"] =
                      [PassOf(wants, ids) EXCEPT !.prev = snap, !.mine = TRUE]]
    /\ Tangles(Everything)

\* The bypass application first, then the gate.
After == [bypass |-> "gate", gate |-> "save"]
At(p, k, call) == passes[p].at = k /\ passes[p].call = call

\* The application of this entry: the recorded one, or one of its kind and name.
Found(p, k) ==
    IF Owned(passes[p].known[k]) THEN {passes[p].known[k]}
    ELSE {i \in Taken(k, passes[p].host) : Owned(i)}

\* reconcile_app or retire_app looks first; one that matches is left alone.
Look(p, k) ==
    /\ At(p, k, "look")
    /\ LET goOn(i)  == [passes[p] EXCEPT !.at = After[k], !.got[k] = i]
           does(c, i) == [passes[p] EXCEPT !.call = c, !.seen = i]
           to(r) == passes' = [passes EXCEPT ![p] = r]
       IN \/ /\ Found(p, k) = {}
             /\ IF passes[p][k] THEN to(does("create", 0)) ELSE to(goOn(0))
          \/ \E i \in Found(p, k) :
                IF ~passes[p][k] THEN to(does("delete", i))
                ELSE \/ to(does("update", i))
                     \/ apps[i].host = passes[p].host /\ to(goOn(i))
    /\ UNCHANGED <<cloud, stored, aud, entry, stopping, waiting, due, downs, refreshed,
                   history, bounds>>

\* The request takes effect at Cloudflare, if Cloudflare accepts it.
Effect(p, k) ==
    LET h == passes[p].host
        i == passes[p].seen
    IN \/ /\ passes[p].call = "create" /\ Taken(k, h) = {}
          /\ apps' = With(apps, next, [kind |-> k, host |-> h, tagged |-> TRUE])
          /\ next' = next + 1
       \/ /\ passes[p].call = "update" /\ i \in Live /\ Taken(k, h) \subseteq {i}
          /\ apps' = [apps EXCEPT ![i] = [kind |-> k, host |-> h, tagged |-> TRUE]]
          /\ UNCHANGED next
       \/ /\ passes[p].call = "delete"
          /\ apps' = Without(apps, i)
          /\ UNCHANGED next

Result_Counted(p) == IF passes[p].call = "create" THEN next + 1 ELSE passes[p].seen
\* The id in the answer.
Result(p) == CASE passes[p].call = "create" -> next
               [] passes[p].call = "update" -> passes[p].seen
               [] OTHER -> 0

Write(p, k) ==
    /\ passes[p].at = k /\ passes[p].call # "look"
    /\ Effect(p, k)
    /\ passes' = [passes EXCEPT ![p].at = After[k], ![p].call = "look", ![p].seen = 0,
                                ![p].got[k] = Result(p),
                                ![p].made = @ \cup (Live' \ Live)]
    /\ UNCHANGED <<stored, aud, entry, stopping, waiting, due, downs, refreshed, history,
                   bounds>>

SetupEnds(error) == IF error = "unavailable" THEN "retry" ELSE "error"

\* What a failed pass tells the administrator, besides the state of the entry.
Tells(p, error) ==
    CASE error = "auth" -> {"reauth"}
      [] p = "refresh" /\ error \in {"unavailable", "api"} -> {"update_failed"}
      [] OTHER -> {}

\* The next change tries again from the snapshot before, unless nobody handled the error; a
\* refresh that outlived its setup has a snapshot of its own.
FallsBack(p, error) ==
    IF p = "refresh" /\ error # "other" /\ passes[p].mine THEN passes[p].prev ELSE snap

\* The pass ends with an error.
PassFails(p, error, made) ==
    /\ passes' = [passes EXCEPT ![p] = NoPass]
    /\ unsaved' = unsaved \cup made
    /\ entry' = (IF p = "setup" THEN SetupEnds(error) ELSE entry)
    /\ issues' = issues \cup Tells(p, error)
    /\ snap' = FallsBack(p, error)
    /\ differs' = (differs \/ p = "refresh")
    /\ silent' = (silent \/ (p = "refresh" /\ error = "other"))
    /\ UNCHANGED <<stored, aud, stopping, waiting, due, warned, edited, missed>>

\* Entering an error state is an update of the entry; the state is not NOT_LOADED.
CallFails(p) ==
    /\ passes[p].at # "idle"
    /\ MayFail("refused")
    /\ \E error \in Errors : PassFails(p, error, passes[p].made)
    /\ UNCHANGED <<cloud, downs, tangled, changes>>

\* The request is done and its answer lost, or that of the gate lacks the audience tag.
WriteAnswerLost(p, k) ==
    /\ passes[p].at = k /\ passes[p].call # "look"
    /\ MayFail("answer")
    /\ Effect(p, k)
    /\ \E error \in {"unavailable", "other"} :
          /\ error = "other" => k = "gate" /\ passes[p].call # "delete"
          /\ PassFails(p, error, passes[p].made \cup (Live' \ Live))
    /\ UNCHANGED <<downs, tangled, changes>>

\* Cloudflare refuses to create on a taken domain, and to update what is gone.
WriteRefused(p, k) ==
    /\ passes[p].at = k
    /\ \/ passes[p].call = "create" /\ Taken(k, passes[p].host) # {}
       \/ /\ passes[p].call = "update"
          /\ passes[p].seen \notin Live \/ ~(Taken(k, passes[p].host) \subseteq {passes[p].seen})
    /\ PassFails(p, "api", passes[p].made)
    /\ UNCHANGED <<cloud, downs, tangled, bounds>>

Stored_GateOnly(p) == [passes[p].got EXCEPT !["bypass"] = ids["bypass"]]
\* What _async_provision_entry writes to entry.data.
Stored(p) == passes[p].got

\* Both calls have succeeded: the ids are stored, which the listener hears.  For an entry
\* removed meanwhile that is an error.
Save(p) ==
    /\ passes[p].at = "save"
    /\ \/ /\ entry # "removed"
          /\ ids' = Stored(p)
          /\ passes' = [passes EXCEPT ![p].at = "rest", ![p].made = {}]
          /\ IF ids' = ids THEN UNCHANGED <<downs, tangled>> ELSE Heard(entry, ids')
          /\ UNCHANGED unsaved
       \/ /\ entry = "removed"
          /\ passes' = [passes EXCEPT ![p] = NoPass]
          /\ unsaved' = unsaved \cup passes[p].made
          /\ UNCHANGED <<ids, downs, tangled>>
    /\ UNCHANGED <<cloud, disabled, wants, aud, entry, stopping, waiting, due, refreshed,
                   warned, edited, bounds>>

\* The audience the origin verifies against is the one this setup read.
Audience == passes["setup"].got["gate"]

FirstRefresh_NotDue == FALSE
\* The listeners hear the entry load: the first refresh compares the hostname.
FirstRefresh == ~stopping

\* The rest of async_setup_entry and of the refresh.
SetupDone ==
    /\ passes["setup"].at = "rest"
    /\ entry' = "loaded" /\ aud' = Audience
    /\ snap' = passes["setup"].host
    /\ due' = FirstRefresh
    /\ passes' = [passes EXCEPT !["setup"] = NoPass, !["refresh"].mine = FALSE]
    /\ warned' = FALSE /\ silent' = FALSE /\ missed' = FALSE
    /\ UNCHANGED <<cloud, stored, stopping, waiting, downs, differs, issues, unsaved, tangled,
                   edited, bounds>>

RefreshDone ==
    /\ passes["refresh"].at = "rest"
    /\ passes' = [passes EXCEPT !["refresh"] = NoPass]
    /\ issues' = issues \ {"update_failed"} /\ silent' = FALSE
    /\ UNCHANGED <<cloud, stored, aud, entry, stopping, waiting, due, snap, differs, downs,
                   history, missed, bounds>>

PassNext ==
    \/ SetupStart \/ RefreshUnchanged \/ RefreshForNobody \/ RefreshStart
    \/ SetupDone \/ RefreshDone
    \/ \E p \in Passes :
          \/ Save(p) \/ CallFails(p)
          \/ \E k \in Kinds : Look(p, k) \/ Write(p, k) \/ WriteAnswerLost(p, k)
                              \/ WriteRefused(p, k)

-----------------------------------------------------------------------------
(* Unloading, taking down, removing.                                       *)

\* The entry has left the state it was in: the listener hears NOT_LOADED.
Unloaded(r) == entry' = "not_loaded" /\ due' = FALSE /\ Heard("not_loaded", r)

\* async_reload and async_remove unload first: a loaded entry that is disabled takes the
\* gate down in async_unload_entry, one in an error state has no such call.
Unload ==
    /\ ~Locked /\ waiting # {}
    /\ \/ /\ entry = "loaded" /\ disabled /\ ~stopping
          /\ entry' = "unloading"
          /\ downs' = [downs EXCEPT !["unload"] = Starting(ids)]
          /\ Tangles(Passes)
          /\ UNCHANGED due
       \/ /\ \/ entry = "loaded" /\ ~(disabled /\ ~stopping)
             \/ entry \in {"retry", "error"}
          /\ Unloaded(ids)
    /\ UNCHANGED <<cloud, stored, aud, stopping, waiting, passes, refreshed, warned, unsaved,
                   edited, bounds>>

StaysUnloaded ==
    /\ ~Locked /\ "reload" \in waiting
    /\ entry = "removed" \/ (entry = "not_loaded" /\ disabled)
    /\ waiting' = waiting \ {"reload"}
    /\ UNCHANGED <<cloud, stored, aud, entry, stopping, due, passes, downs, refreshed, history,
                   bounds>>

\* What is not this entry's is left alone.
Deleted(d, k) ==
    apps' = (IF Owned(downs[d].known[k]) THEN Without(apps, downs[d].known[k]) ELSE apps)

DeleteApp(d, k) ==
    /\ downs[d].at = k
    /\ Deleted(d, k)
    /\ downs' = [downs EXCEPT ![d].at = AfterDown[k]]
    /\ UNCHANGED <<next, stored, aud, entry, stopping, waiting, due, passes, refreshed, history,
                   bounds>>

\* Only a warning: the ids stay, and an unload goes on.
DownFails(d, k) ==
    /\ downs[d].at = k
    /\ \/ MayFail("refused") /\ UNCHANGED apps
       \/ MayFail("answer") /\ Deleted(d, k)
    /\ warned' = TRUE
    /\ \/ /\ d = "unload"
          /\ entry' = "not_loaded" /\ due' = FALSE
          /\ LET rest == [downs EXCEPT ![d] = NoDown] IN
             \/ /\ disabled /\ HasGate(ids) /\ ~stopping
                /\ FreeTasks # {}
                /\ downs' = [rest EXCEPT ![TaskAt] = Starting(ids)]
                /\ Tangles(Passes)
             \/ /\ ~(disabled /\ HasGate(ids) /\ ~stopping)
                /\ downs' = rest
                /\ UNCHANGED tangled
       \/ /\ d # "unload"
          /\ downs' = [downs EXCEPT ![d] = NoDown]
          /\ UNCHANGED <<entry, due, tangled>>
    /\ UNCHANGED <<next, stored, aud, stopping, waiting, passes, refreshed, unsaved, edited,
                   changes>>

\* The ids are forgotten, unless the entry is gone.
DownDone(d) ==
    /\ downs[d].at = "done"
    /\ downs' = [downs EXCEPT ![d] = NoDown]
    /\ ids' = (IF d = "remove" \/ entry = "removed" THEN ids ELSE None)
    /\ warned' = FALSE
    /\ IF d = "unload" THEN entry' = "not_loaded" /\ due' = FALSE
       ELSE UNCHANGED <<entry, due>>
    /\ UNCHANGED <<cloud, disabled, wants, aud, stopping, waiting, passes, refreshed, unsaved,
                   tangled, edited, bounds>>

\* async_remove_entry: the entry is gone, its objects follow if that is asked for.
RemoveEntry ==
    /\ ~Locked /\ "remove" \in waiting /\ entry = "not_loaded"
    /\ entry' = "removed" /\ waiting' = {}
    /\ \/ /\ DeletesOnRemove
          /\ downs' = [downs EXCEPT !["remove"] = Starting(ids)]
          /\ Tangles(Passes)
       \/ ~DeletesOnRemove /\ UNCHANGED <<downs, tangled>>
    /\ UNCHANGED <<cloud, stored, aud, stopping, due, passes, refreshed, warned, unsaved,
                   edited, bounds>>

DownNext ==
    \/ Unload \/ StaysUnloaded \/ RemoveEntry
    \/ \E d \in Downs : DownDone(d) \/ \E k \in Kinds : DeleteApp(d, k) \/ DownFails(d, k)

-----------------------------------------------------------------------------
(* Users, administrators, Home Assistant.                                  *)

Change ==
    /\ changes < MaxChanges
    /\ changes' = changes + 1

\* Saving the options reloads the entry; a disabled one has no options dialog.
SetOptions(g, b) ==
    /\ Change
    /\ ~disabled /\ entry # "removed" /\ ~stopping
    /\ wants' = [wants EXCEPT !.gate = g, !.bypass = b] /\ wants' # wants
    /\ waiting' = waiting \cup {"reload"}
    /\ UNCHANGED <<cloud, ids, disabled, aud, entry, stopping, due, passes, downs, refreshed,
                   history, failures>>

\* Disabling and enabling reload the entry as well.  A setup whose lock is free starts
\* before anybody's next click.
SetDisabled ==
    /\ Change
    /\ entry = "not_loaded" /\ ~Locked => waiting = {}
    /\ entry # "removed"
    /\ disabled' = ~disabled
    /\ waiting' = waiting \cup {"reload"}
    /\ UNCHANGED <<cloud, ids, wants, aud, entry, stopping, due, passes, downs, refreshed,
                   history, failures>>

Remove ==
    /\ Change /\ "remove" \in Disturbances
    /\ entry # "removed" /\ ~stopping
    /\ waiting' = waiting \cup {"remove"}
    /\ UNCHANGED <<cloud, stored, aud, entry, stopping, due, passes, downs, refreshed, history,
                   failures>>

\* What the listeners of a loaded entry hear; the debouncer drops it while its refresh runs.
Listens == entry \in {"loaded", "unloading"} /\ ~stopping
Drops == passes["refresh"].at # "idle" /\ passes["refresh"].mine
Schedules == due' = (due \/ (Listens /\ ~Drops))

ChangeUrl(h) ==
    /\ Change /\ "url" \in Disturbances
    /\ h # wants.host /\ wants' = [wants EXCEPT !.host = h]
    /\ Schedules /\ missed' = (missed \/ (Listens /\ Drops))
    /\ UNCHANGED <<cloud, ids, disabled, aud, entry, stopping, waiting, passes, downs, snap,
                   differs, issues, history, silent, failures>>

ChangeUsers ==
    /\ Change /\ "users" \in Disturbances
    /\ differs' = TRUE
    /\ Schedules
    /\ UNCHANGED <<cloud, stored, aud, entry, stopping, waiting, passes, downs, snap, issues,
                   history, silent, missed, failures>>

\* Somebody deletes one of the applications, or takes its tag off.
Dashboard(i) ==
    /\ Change /\ "dashboard" \in Disturbances
    /\ Owned(i)
    /\ apps' = Without(apps, i) \/ apps' = [apps EXCEPT ![i].tagged = FALSE]
    /\ edited' = TRUE
    /\ UNCHANGED <<next, stored, aud, entry, stopping, waiting, due, passes, downs, refreshed,
                   warned, unsaved, tangled, failures>>

\* Home Assistant begins to stop; entries are not unloaded.
Stop ==
    /\ Change /\ "stop" \in Disturbances
    /\ ~stopping /\ stopping' = TRUE /\ due' = FALSE
    /\ UNCHANGED <<cloud, stored, aud, entry, waiting, passes, downs, refreshed, history,
                   failures>>

AtStart_SetUp(r) == [d \in Downs |-> NoDown]
\* async_setup: an entry disabled with ids on record is taken down.
AtStart(r) ==
    LET chosen == CHOOSE b \in Background : TRUE IN
    [d \in Downs |-> IF d = chosen /\ disabled /\ HasGate(r) /\ entry # "removed"
                     THEN Starting(r) ELSE NoDown]

\* Home Assistant has stopped, or crashed at any point, and starts again.
Restart ==
    /\ \/ stopping /\ UNCHANGED changes
       \/ ~stopping /\ Change /\ "restart" \in Disturbances
    /\ stopping' = FALSE /\ due' = FALSE /\ aud' = 0 /\ snap' = AnyHost /\ differs' = FALSE
    /\ issues' = {} /\ silent' = FALSE /\ missed' = FALSE
    /\ entry' = (IF entry = "removed" THEN "removed" ELSE "not_loaded")
    /\ waiting' = {"reload"}
    /\ passes' = [p \in Passes |-> NoPass] /\ downs' = AtStart(ids)
    /\ unsaved' = unsaved \cup (UNION {passes[p].made : p \in Passes})
                  \cup (IF downs["remove"].at = "idle" THEN {} ELSE {ids[k] : k \in Kinds})
    /\ UNCHANGED <<cloud, stored, warned, tangled, edited, failures>>

Environment ==
    \/ \E g, b \in BOOLEAN : SetOptions(g, b)
    \/ SetDisabled \/ Remove \/ ChangeUsers \/ Stop
    \/ \E h \in Hosts : ChangeUrl(h)
    \/ \E i \in Live : Dashboard(i)

Next == PassNext \/ DownNext \/ Environment \/ Restart

Spec == Init /\ [][Next]_vars

\* Tasks go on, locks are given, failed setups are retried, a stopped instance starts.
FairSpec ==
    /\ Spec /\ WF_vars(PassNext) /\ WF_vars(DownNext)
    /\ WF_vars(stopping /\ Restart)

-----------------------------------------------------------------------------
(* Properties                                                              *)

Ours == {i \in Live : apps[i].tagged}
OnRecord == {ids[k] : k \in Kinds}

AtRest == /\ ~stopping /\ ~due /\ waiting = {} /\ ~Busy(Everything)
          /\ entry \in {"loaded", "not_loaded", "error", "removed"}

\* A disabled entry has taken the gate and the bypass application down (README,
\* "Disabling the integration entry takes the gate and the bypass application down"), and a
\* removed one leaves neither behind ("Removing the integration deletes every application
\* it created", unless that option is off), if nothing else was at work while a pass was,
\* and no call of a take-down failed.
Down == IF entry = "removed" THEN DeletesOnRemove ELSE disabled
TakenDown == AtRest /\ Down /\ ~tangled /\ ~warned => Ours \subseteq unsaved

\* A disabled entry is taken down whatever ran at the time.
DisabledMeansDown == AtRest /\ disabled /\ ~warned => Ours \subseteq unsaved

\* The applications under the entry's hostname are those the options ask for and no other
\* (an application no longer wanted that nobody knew of may stay: retire_app stops at the
\* recorded one).
Configured ==
    \A k \in Kinds :
        LET here == Ours \cap Taken(k, wants.host) IN
        IF wants[k] THEN here = {ids[k]} ELSE here \subseteq unsaved

\* A loaded entry is configured, also after passes that failed half-way, lost answers and
\* crashes; or an issue or a sign-in is open, or a refresh ended on an error nobody handles,
\* or the debouncer dropped the news.
GateAsConfigured ==
    AtRest /\ entry = "loaded" /\ issues = {} /\ ~(silent \/ missed \/ tangled \/ edited)
        => Configured

\* Every application of the entry is on record, or a pass is about to put it there, or one
\* that failed left it: also after take-downs that failed, and when the entry is gone.
NothingForgotten ==
    ~tangled =>
        Ours \subseteq OnRecord \cup unsaved \cup UNION {passes[p].made : p \in Passes}

\* Only applications with the entry's tag are updated or deleted (const.py:143): one that
\* has none is at most rewritten by a pass that saw it with its tag.
ForeignUntouched ==
    [][\A i \in Live \ Ours :
          \/ i \in DOMAIN apps' /\ apps'[i] = apps[i]
          \/ \E p \in Passes : passes[p].seen = i]_vars

\* The audience in runtime_data is that of the gate there is (comment at __init__.py:171).
AudienceFollowsGate == AtRest /\ entry = "loaded" => aud = ids["gate"]

\* A hostname is not left gated with nothing bypassed (provision.py:436): no step but an
\* administrator's brings that about, unless a pass works for options without the open
\* paths or moves the applications to another hostname, or nobody knows of the gate.
Closed(h) == (Taken("gate", h) \cap Ours) \ unsaved # {} /\ Taken("bypass", h) = {}
NeverClosed ==
    [][\A h \in Hosts : Closed(h)' => \/ Closed(h) \/ edited' \/ tangled'
                                      \/ \E p \in Passes : /\ passes[p].at # "idle"
                                                           /\ ~passes[p].bypass \/ passes[p].host # h]_vars

\* The entry comes to the state it was last given.
EventuallySettled ==
    <>[](IF disabled THEN entry = "removed" \/ warned \/ tangled \/ ids = None
         ELSE entry \in {"loaded", "error", "removed"})
=============================================================================
