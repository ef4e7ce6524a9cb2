----------------------------- MODULE ClientApps -----------------------------
(***************************************************************************)
(* The clients of one config entry and what each has at Cloudflare: a      *)
(* console app has an Access application, a script a service token.  A     *)
(* flow registers the object first and stores the subentry when the user   *)
(* is done; async_setup_entry and _refresh bring objects and subentries    *)
(* together, name the objects on the gate, and delete what is left over,   *)
(* in that order.                                                          *)
(*                                                                         *)
(* Runs do not overlap here (PolicySync has the refresh that outlives a    *)
(* reload).  Subentry ids are never used twice, as in Home Assistant; two  *)
(* clients may share a name, by which a lost application is claimed.       *)
(*                                                                         *)
(* A definition X_Y is X with a plausible mistake Y, and is not used.      *)
(***************************************************************************)
EXTENDS Integers

CONSTANTS
    Consoles, Scripts,  \* subentry ids the two kinds of client may get
    Names, NameOf,      \* the name the user gives each
    Hosts,              \* hostnames of the External URL
    MaxChanges,         \* bound: what users and administrators do
    MaxFailures,        \* bound: failed calls
    FailureKinds,       \* "refused": nothing was done; "answer": done, answer lost
    Disturbances        \* what happens besides adding and removing clients

Clients == Consoles \cup Scripts

ASSUME ClientAssumption ==
    /\ Consoles \cap Scripts = {} /\ Hosts # {}
    /\ NameOf \in [Clients -> Names]
    /\ MaxChanges \in Nat /\ MaxFailures \in Nat
    /\ FailureKinds \subseteq {"refused", "answer"}
    /\ Disturbances \subseteq {"reload", "restart", "abandon", "dashboard"}

VARIABLES
    objs,       \* applications and tokens that exist: for whom, hostname in the name, tag
    gate,       \* the objects the gate's Service Auth rules name
    subs,       \* the subentries, with the id of their object
    secret,     \* the object whose secret each subentry shows
    used,       \* subentry ids ever given
    flows,      \* open flows whose object is registered and not yet stored
    host,       \* hostname of the External URL
    entry,      \* state of the config entry
    run,        \* the running async_setup_entry or _refresh
    data,       \* EntryData: client_apps and script_tokens, token ids and hostname
    due,        \* the debouncer's timer
    reported,   \* "update_failed" is open, or a sign-in flow
    missed,     \* history: a change since the last run began was dropped
    died,       \* history: the last run ended on an error nobody handles
    lost,       \* history: objects deleted in the dashboard
    next, changes, failures

bounds == <<changes, failures>>
users  == <<used, flows, host>>
vars == <<objs, gate, subs, secret, used, flows, host, entry, run, data, due, reported,
          missed, died, lost, next, changes, failures>>

\* Dictionaries: functions on some of the clients.
Dict(S) == UNION {[D -> S] : D \in SUBSET Clients}
With(f, x, v) == [y \in DOMAIN f \cup {x} |-> IF y = x THEN v ELSE f[y]]
Without(f, x) == [y \in DOMAIN f \ {x} |-> f[y]]
Nothing == [c \in {} |-> 0]

\* Ids are given in order: what exists, or is remembered, has been created.
Ids == 1 .. next - 1

AnyHost == CHOOSE h \in Hosts : TRUE
Idle == [kind |-> "idle", pc |-> "idle", todo |-> Nothing, apps |-> Nothing,
         tokens |-> {}, host |-> AnyHost, victims |-> {},
         old |-> [tokens |-> {}, host |-> AnyHost], upto |-> 1]
NoData == [apps |-> Nothing, tokens |-> {}, host |-> AnyHost]

Object   == [for : Clients, host : Hosts, tagged : BOOLEAN]
Snapshot == [apps : Dict(Ids), tokens : SUBSET Ids, host : Hosts]
Run      == [kind : {"idle", "setup", "refresh"},
             pc : {"idle", "consoles", "scripts", "gate", "apps", "drop_apps", "drop_tokens"},
             todo : Dict(Ids), apps : Dict(Ids), tokens : SUBSET Ids, host : Hosts,
             victims : SUBSET Ids, old : [tokens : SUBSET Ids, host : Hosts],
             upto : 1 .. next]

TypeOK ==
    /\ next \in Nat \ {0}
    /\ objs \in [DOMAIN objs -> Object] /\ DOMAIN objs \subseteq Ids
    /\ gate \subseteq Ids /\ lost \subseteq Ids
    /\ subs \in Dict(Ids) /\ secret \in [DOMAIN subs -> Ids] /\ flows \in Dict(Ids)
    /\ used \subseteq Clients /\ DOMAIN subs \subseteq used
    /\ host \in Hosts
    /\ entry \in {"down", "setup", "loaded", "retry", "error"}
    /\ run \in Run /\ data \in Snapshot
    /\ due \in BOOLEAN /\ reported \in BOOLEAN /\ missed \in BOOLEAN
    /\ died \in BOOLEAN
    /\ changes \in 0 .. MaxChanges /\ failures \in 0 .. MaxFailures

\* Home Assistant starts with an entry set up before, which has no clients yet.
Init ==
    /\ objs = [i \in {} |-> 0] /\ gate = {}
    /\ subs = Nothing /\ secret = Nothing /\ used = {} /\ flows = Nothing
    /\ host \in Hosts
    /\ entry = "down" /\ run = Idle /\ data = NoData
    /\ due = FALSE /\ reported = FALSE /\ missed = FALSE /\ died = FALSE
    /\ lost = {} /\ next = 1 /\ changes = 0 /\ failures = 0

-----------------------------------------------------------------------------
(* Cloudflare.                                                             *)

Live == DOMAIN objs
IsApp(i) == objs[i].for \in Consoles

\* Creating an object: the next id, under the name of the client and its hostname.
Create(c, h) ==
    /\ objs' = With(objs, next, [for |-> c, host |-> h, tagged |-> TRUE])
    /\ next' = next + 1

MayFail(kind) ==
    /\ kind \in FailureKinds /\ failures < MaxFailures
    /\ failures' = failures + 1

-----------------------------------------------------------------------------
(* One run, of async_setup_entry or _refresh.                              *)

OfKind(K) == [c \in DOMAIN subs \cap K |-> subs[c]]
TokenIds == {subs[c] : c \in DOMAIN subs \cap Scripts}

\* A call made by the listeners, which are attached while the entry is loaded; the
\* debouncer drops one made while a refresh runs.
Notifies ==
    /\ due' = (due \/ (entry = "loaded" /\ run.pc = "idle"))
    /\ missed' = (missed \/ (entry = "loaded" /\ run.pc # "idle"))
Quiet == UNCHANGED <<due, missed>>

Start(kind, h) ==
    run' = [Idle EXCEPT !.kind = kind, !.pc = "consoles", !.todo = OfKind(Consoles),
                        !.host = h,
                        !.old = [tokens |-> data.tokens, host |-> data.host]]

SetupStart ==
    /\ entry \in {"down", "retry"}
    /\ entry' = "setup" /\ reported' = FALSE /\ died' = FALSE
    /\ Start("setup", host)
    /\ UNCHANGED <<objs, gate, subs, secret, users, data, lost, next, bounds>> /\ Quiet

\* The handled errors, and any other (UnknownSubEntry).
RunFails(state) ==
    /\ run' = Idle /\ UNCHANGED died
    /\ \/ /\ run.kind = "setup"
          /\ entry' = state
          /\ UNCHANGED <<data, reported>>
       \/ /\ run.kind = "refresh"
          /\ data' = [data EXCEPT !.tokens = run.old.tokens, !.host = run.old.host]
          /\ reported' = TRUE
          /\ UNCHANGED entry
RunDies ==
    /\ run' = Idle /\ died' = TRUE
    /\ entry' = (IF run.kind = "setup" THEN "error" ELSE entry)
    /\ UNCHANGED <<data, reported>>

CallFails ==
    /\ run.pc # "idle"
    /\ MayFail("refused")
    /\ RunFails("retry") \/ RunFails("error")
    /\ UNCHANGED <<objs, gate, subs, secret, users, lost, next, changes>> /\ Quiet

\* The id a loop reads: the subentry as it is now, or as it was when it was removed.
StoredId(c) == IF c \in DOMAIN subs THEN subs[c] ELSE run.todo[c]

\* The object a client has, as its stored id or, for an application, its name leads to it.
Known(c) == {StoredId(c)} \cap {i \in Live : IsApp(i) => objs[i].tagged}
SameName(c) ==
    {i \in Live : IsApp(i) /\ c \in Consoles /\ objs[i].tagged /\ objs[i].host = run.host
                  /\ NameOf[objs[i].for] = NameOf[c]}
Existing(c) == IF Known(c) # {} THEN Known(c) ELSE SameName(c)

\* The subentry of a client removed meanwhile cannot be written.
CanStore_Unchecked(c) == TRUE
CanStore(c) == c \in DOMAIN subs

\* A new id, and the secret of a created object, are stored at once.  No call comes of it:
\* a setup has no listeners yet, and the refresh that stores it is running.
Took(c, i, created) ==
    LET stores == i # StoredId(c) IN
    \/ /\ stores => CanStore(c)
       /\ run' = [run EXCEPT !.todo = Without(@, c), !.apps = With(@, c, i)]
       /\ subs' = (IF stores THEN With(subs, c, i) ELSE subs)
       /\ secret' = (IF created THEN With(secret, c, i) ELSE secret)
       /\ UNCHANGED <<entry, data, reported, died>>
    \/ /\ stores /\ ~CanStore(c)
       /\ RunDies
       /\ UNCHANGED <<subs, secret>>

\* reconcile_app, and its counterpart for a token: keep and rename, claim, or create.
Reconcile(c) ==
    /\ run.pc \in {"consoles", "scripts"} /\ c \in DOMAIN run.todo
    /\ \/ \E i \in Existing(c) :
            /\ objs' = [objs EXCEPT ![i].host = run.host]
            /\ Took(c, i, FALSE)
            /\ UNCHANGED next
       \/ /\ Existing(c) = {}
          /\ Create(c, run.host)
          /\ Took(c, next, TRUE)
    /\ UNCHANGED <<gate, users, lost, bounds>> /\ Quiet

ReconcileAnswerLost(c) ==
    /\ run.pc \in {"consoles", "scripts"} /\ c \in DOMAIN run.todo
    /\ Existing(c) = {}
    /\ Create(c, run.host)
    /\ MayFail("answer")
    /\ RunFails("retry")
    /\ UNCHANGED <<gate, subs, secret, users, lost, changes>> /\ Quiet

\* Which subentries of a kind there are is looked up once, when their loop begins.
ReconcileScripts ==
    /\ run.pc = "consoles" /\ run.todo = Nothing
    /\ run' = [run EXCEPT !.pc = "scripts", !.todo = OfKind(Scripts)]
    /\ UNCHANGED <<objs, gate, subs, secret, users, entry, data, reported, died, lost, next, bounds>>
    /\ Quiet

\* The options are read again: hostname, and the token ids as the subentries have them.
Reread ==
    /\ run.pc = "scripts" /\ run.todo = Nothing
    /\ run' = [run EXCEPT !.pc = "gate", !.tokens = TokenIds, !.host = host]
    /\ data' = (IF run.kind = "setup" THEN data
                ELSE [data EXCEPT !.tokens = TokenIds, !.host = host])
    /\ UNCHANGED <<objs, gate, subs, secret, users, entry, reported, died, lost, next, bounds>>
    /\ Quiet

NamedOnGate_NoTokens == {run.apps[c] : c \in DOMAIN run.apps \cap Consoles}
\* The applications come from this run's loop, the tokens from the subentries.
NamedOnGate ==
    {run.apps[c] : c \in DOMAIN run.apps \cap Consoles} \cup run.tokens

\* Cloudflare refuses a gate that names what does not exist; an unchanged gate is not
\* written.
WriteGate ==
    /\ run.pc = "gate"
    /\ NamedOnGate \subseteq Live \/ NamedOnGate = gate
    /\ gate' = NamedOnGate
    /\ run' = [run EXCEPT !.pc = "apps"]
    /\ UNCHANGED <<objs, subs, secret, users, entry, data, reported, died, lost, next, bounds>>
    /\ Quiet

GateRefused ==
    /\ run.pc = "gate"
    /\ ~(NamedOnGate \subseteq Live)
    /\ RunFails("error")
    /\ UNCHANGED <<objs, gate, subs, secret, users, lost, next, bounds>> /\ Quiet

Kept == {run.apps[c] : c \in DOMAIN run.apps}

Orphans_Everything(K) ==
    {i \in Live : objs[i].for \in K /\ objs[i].host = run.host
                  /\ (IsApp(i) => objs[i].tagged)}
Orphans_OfTheGone(K) ==
    {i \in Live : objs[i].for \in K /\ objs[i].host = run.host
                  /\ (IsApp(i) => objs[i].tagged) /\ objs[i].for \notin DOMAIN subs} \ Kept
\* What a run deletes: a setup whatever carries the integration's name pattern (and, an
\* application, its tag) and is nobody's; a refresh what the clients gone since had.
Orphans(K) ==
    {i \in Live : objs[i].for \in K /\ objs[i].host = run.host
                  /\ (IsApp(i) => objs[i].tagged)} \ Kept
Removed(K) == {data.apps[c] : c \in (DOMAIN data.apps \cap K) \ DOMAIN run.apps}
Stale(K) == IF run.kind = "setup" THEN Orphans(K) ELSE Removed(K)

ListStale ==
    /\ \/ run.pc = "apps"
          /\ run' = [run EXCEPT !.pc = "drop_apps", !.upto = next,
                        !.victims = Stale(Consoles)]
       \/ run.pc = "drop_apps" /\ run.victims = {}
          /\ run' = [run EXCEPT !.pc = "drop_tokens", !.victims = Stale(Scripts)]
    /\ UNCHANGED <<objs, gate, subs, secret, users, entry, data, reported, died, lost, next, bounds>>
    /\ Quiet

\* A token the gate names cannot be deleted; a missing object is no error.
DeleteStale(i) ==
    /\ run.pc \in {"drop_apps", "drop_tokens"}
    /\ run.pc = "drop_tokens" => i \notin gate
    /\ objs' = Without(objs, i)
    /\ run' = [run EXCEPT !.victims = @ \ {i}]
    /\ UNCHANGED <<gate, subs, secret, users, entry, data, reported, died, lost, next, bounds>>
    /\ Quiet

DeleteRefused ==
    /\ run.pc = "drop_tokens" /\ run.victims \cap gate # {}
    /\ RunFails("error")
    /\ UNCHANGED <<objs, gate, subs, secret, users, lost, next, bounds>> /\ Quiet

RunDone ==
    /\ run.pc = "drop_tokens" /\ run.victims = {}
    /\ run' = Idle
    /\ reported' = FALSE /\ died' = FALSE
    /\ \/ /\ run.kind = "setup"
          /\ data' = [apps |-> run.apps, tokens |-> run.tokens, host |-> run.host]
          /\ entry' = "loaded" /\ due' = TRUE /\ missed' = FALSE
       \/ /\ run.kind = "refresh"
          /\ data' = [data EXCEPT !.apps = run.apps]
          /\ UNCHANGED entry /\ Quiet
    /\ UNCHANGED <<objs, gate, subs, secret, users, lost, next, bounds>>

Unchanged_NotTheClients == TokenIds = data.tokens /\ host = data.host
\* What a refresh compares: which clients there are, the token ids, the hostname.
Unchanged ==
    /\ DOMAIN subs = DOMAIN data.apps
    /\ TokenIds = data.tokens
    /\ host = data.host

RefreshStart ==
    /\ entry = "loaded" /\ due /\ run.pc = "idle"
    /\ due' = FALSE /\ missed' = FALSE
    /\ \/ Unchanged /\ UNCHANGED <<run, data>>
       \/ /\ ~Unchanged
          /\ Start("refresh", host)
          /\ data' = [data EXCEPT !.tokens = TokenIds, !.host = host]
    /\ UNCHANGED <<objs, gate, subs, secret, users, entry, reported, died, lost, next, bounds>>

RunNext ==
    \/ SetupStart \/ ReconcileScripts \/ Reread \/ WriteGate \/ GateRefused \/ ListStale
    \/ DeleteRefused \/ RunDone \/ RefreshStart \/ CallFails
    \/ \E c \in Clients : Reconcile(c) \/ ReconcileAnswerLost(c)
    \/ \E i \in run.victims : DeleteStale(i)

-----------------------------------------------------------------------------
(* Users, administrators, Home Assistant.                                  *)

Change ==
    /\ changes < MaxChanges
    /\ changes' = changes + 1

\* A flow registers the application or token of a new client, or a token in place of a
\* script's lost one, and shows its credentials.
Register(c) ==
    /\ Change
    /\ c \notin DOMAIN flows
    /\ c \in used => c \in DOMAIN subs \cap Scripts /\ subs[c] \notin Live
    /\ Create(c, host)
    /\ flows' = With(flows, c, next)
    /\ UNCHANGED <<gate, subs, secret, used, host, entry, run, data, reported, died, lost, failures>>
    /\ Quiet

\* The user is done: the subentry is created or updated (an update of one that was
\* removed meanwhile fails).
Store(c) ==
    /\ c \in DOMAIN flows
    /\ flows' = Without(flows, c)
    /\ \/ /\ c \notin used \/ c \in DOMAIN subs
          /\ used' = used \cup {c}
          /\ subs' = With(subs, c, flows[c])
          /\ secret' = With(secret, c, flows[c])
          /\ Notifies
       \/ /\ c \in used /\ c \notin DOMAIN subs
          /\ UNCHANGED <<used, subs, secret>> /\ Quiet
    /\ UNCHANGED <<objs, gate, host, entry, run, data, reported, died, lost, next, bounds>>

\* The user closes the dialog.
Abandon(c) ==
    /\ "abandon" \in Disturbances
    /\ c \in DOMAIN flows
    /\ flows' = Without(flows, c)
    /\ UNCHANGED <<objs, gate, subs, secret, used, host, entry, run, data, reported, died, lost,
                   next, bounds>>
    /\ Quiet

Remove(c) ==
    /\ Change
    /\ c \in DOMAIN subs
    /\ subs' = Without(subs, c) /\ secret' = Without(secret, c)
    /\ Notifies
    /\ UNCHANGED <<objs, gate, users, entry, run, data, reported, died, lost, next, failures>>

ChangeUrl(h) ==
    /\ Change
    /\ h # host /\ host' = h
    /\ Notifies
    /\ UNCHANGED <<objs, gate, subs, secret, used, flows, entry, run, data, reported, died, lost,
                   next, failures>>

\* Somebody deletes an object (a token once it is off the gate), or takes the tag off an
\* application.
Dashboard(i) ==
    /\ Change /\ "dashboard" \in Disturbances
    /\ \/ /\ objs' = Without(objs, i) /\ lost' = lost \cup {i}
          /\ gate' = (IF IsApp(i) THEN gate ELSE gate \ {i})
       \/ /\ IsApp(i) /\ objs[i].tagged
          /\ objs' = [objs EXCEPT ![i].tagged = FALSE]
          /\ UNCHANGED <<lost, gate>>
    /\ UNCHANGED <<subs, secret, users, entry, run, data, reported, died, next, failures>>
    /\ Quiet

\* A reload between runs; a restart at any time, which ends the run and the flows.
Reload ==
    /\ Change /\ "reload" \in Disturbances
    /\ run.pc = "idle" /\ entry \in {"loaded", "retry", "error"}
    /\ entry' = "down" /\ due' = FALSE /\ missed' = FALSE
    /\ UNCHANGED <<objs, gate, subs, secret, users, run, data, reported, died, lost, next, failures>>

Restart ==
    /\ Change /\ "restart" \in Disturbances
    /\ entry' = "down" /\ due' = FALSE /\ missed' = FALSE /\ reported' = FALSE
    /\ run' = Idle /\ flows' = Nothing /\ data' = NoData /\ died' = FALSE
    /\ UNCHANGED <<objs, gate, subs, secret, used, host, lost, next, failures>>

Environment ==
    \/ \E c \in Clients : Register(c) \/ Store(c) \/ Abandon(c) \/ Remove(c)
    \/ \E h \in Hosts : ChangeUrl(h)
    \/ \E i \in Live : Dashboard(i)
    \/ Reload \/ Restart

Next == RunNext \/ Environment

Spec == Init /\ [][Next]_vars

\* Tasks on the event loop go on, timers fire, a failed setup is retried.
FairSpec ==
    Spec /\ WF_vars(RunNext)

-----------------------------------------------------------------------------
(* Properties                                                              *)

\* The gate never names an object the integration has deleted: Cloudflare would refuse
\* every later write of it (comment at __init__.py:428).
GateNamesLive == gate \subseteq Live \cup lost

AtRest == entry = "loaded" /\ ~due /\ run.pc = "idle"

\* When nothing is pending, every client has its object and the gate accepts it (unless
\* somebody deleted it behind the integration's back), or a failure is on record, or the
\* debouncer dropped a change.
ClientsServed ==
    AtRest => \/ reported \/ missed \/ died
              \/ \A c \in DOMAIN subs : subs[c] \in (gate \cap Live) \cup lost

\* A setup leaves nothing behind under its hostname: what it finds is a client's, or was
\* registered or put in place since it looked.
SweepComplete ==
    [][run.kind = "setup" /\ RunDone =>
        \A i \in Live : \/ i >= run.upto \/ objs[i].host # run.host
                        \/ IsApp(i) /\ ~objs[i].tagged
                        \/ i \in Kept]_vars

\* Once clients stop coming and going each is served, or the administrator is told, or the
\* run died of an error nobody handles, or the debouncer dropped a change.
EventuallyServed ==
    <>[](\/ reported \/ missed \/ died \/ entry = "error"
         \/ \A c \in DOMAIN subs : subs[c] \in gate \cup lost)
=============================================================================
