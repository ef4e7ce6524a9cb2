----------------------------- MODULE EntryStore -----------------------------
(***************************************************************************)
(* What a config entry stores, and who writes it: the migrations of        *)
(* earlier releases' entries, async_migrate_entry in one go and the option *)
(* of service tokens at setup, where each token is asked for at Cloudflare *)
(* and a failure is retried or not, by its kind; the options form, which   *)
(* writes back everything it showed; the repairs that give a refused       *)
(* address to a person and settle HA-MCP's login mode.  The issue about    *)
(* that mode is raised and closed by setups, refreshes and its own repair. *)
(*                                                                         *)
(* A client is what it was made for: a callback URL, a console app's or a  *)
(* service token's id.  "twice" keeps those a second client was made for.  *)
(*                                                                         *)
(* A definition X_Y is X with a plausible mistake Y, and is not used.      *)
(***************************************************************************)
EXTENDS Integers, Sequences, FiniteSets

CONSTANTS
    Uris,           \* callback URLs
    Published,      \* those of apps known to register themselves
    Tokens,         \* service tokens
    Order,          \* the people, as person_users lists them
    Name,           \* their names
    ByUsername,     \* those whose login username is an address
    Addresses,      \* addresses people are given
    None,           \* no address
    Versions,       \* minor versions an entry may have been left with
    MaxChanges,     \* bound: what users do
    MaxFailures     \* bound: failed calls

People == {Order[k] : k \in 1 .. Len(Order)}
Items  == Uris \cup Tokens

ASSUME EntryStoreAssumption ==
    /\ Published \subseteq Uris /\ Uris \cap Tokens = {}
    /\ Order \in Seq(DOMAIN Name) /\ DOMAIN Name = People
    /\ ByUsername \subseteq People /\ None \notin Addresses
    /\ \A p \in ByUsername, q \in People : Name[p] = Name[q] => p = q
    /\ Versions \subseteq 1 .. 7 /\ MaxChanges \in Nat /\ MaxFailures \in Nat

VARIABLES
    store,      \* the entry: version, options and subentries
    entry,      \* its state
    todo,       \* tokens the running setup has still to look up
    existing,   \* service tokens at Cloudflare
    reload,     \* a reload waits for the entry's lock
    form,       \* the open options form, as it was filled in
    mcp,        \* HA-MCP's login mode is none of the gate's
    issue,      \* ISSUE_MCP_AUTH_CONFLICT
    moved,      \* history: HA-MCP was switched since the issue was last looked at
    dropped,    \* history: items their owner removed, or a form saved too early dropped
    changes, failures

users  == <<existing, mcp, moved, dropped>>
bounds == <<changes, failures>>
vars == <<store, entry, todo, existing, reload, form, mcp, issue, moved, dropped, changes,
          failures>>

Kinds  == {"self", "console", "script"}
\* Until 0.3.0 every client was one type, with the kind in its data, or none.
Legacy == {"client_self", "client_console", "client_script", "client"}
NoForm == [closed |-> TRUE]

Emails == [People -> Addresses \cup {None}]
Nobody == [p \in People |-> None]

\* Somebody may log in.
Admits(emails) == \E p \in People : emails[p] # None \/ p \in ByUsername

Stores == [version : 1 .. 7, subs : SUBSET ((Kinds \cup Legacy) \X Items),
           twice : SUBSET Items,
           uris : SUBSET Uris, apps : SUBSET Uris, scripts : SUBSET Tokens,
           listed : BOOLEAN, tokens : SUBSET Tokens, emails : Emails, rows : Emails,
           host : BOOLEAN, sensors : BOOLEAN, gate : BOOLEAN, open : BOOLEAN]

TypeOK ==
    /\ store \in Stores
    /\ entry \in {"down", "setup", "loaded", "retry", "error"}
    /\ todo \subseteq Tokens /\ existing \subseteq Tokens /\ reload \in BOOLEAN
    /\ form \in [emails : Emails, read : Emails] \cup {NoForm}
    /\ mcp \in BOOLEAN /\ issue \in BOOLEAN /\ moved \in BOOLEAN /\ dropped \subseteq Items
    /\ changes \in 0 .. MaxChanges /\ failures \in 0 .. MaxFailures

Clients(e) == {c[2] : c \in e.subs}

\* async_add_subentry, once for each of the items
Add(e, kind, items) == [e EXCEPT !.subs  = @ \cup ({kind} \X items),
                                 !.twice = @ \cup (items \cap Clients(e))]

\* Version 1 kept callbacks and tokens in options, addresses as subentries; until 5 a
\* client was a subentry of the one type; 6 kept the clients in options.
LeftWith(v, u, t, k, e, w) ==
    [version |-> v, host |-> (v < 3), sensors |-> (v < 4), gate |-> TRUE, open |-> FALSE,
     subs |-> IF v \in {2, 3, 4}
              THEN ({k} \X u) \cup ({"client_script"} \X (Tokens \ t)) ELSE {},
     twice |-> {}, uris |-> IF v \in {1, 6} THEN u ELSE {},
     apps |-> IF v = 6 THEN Uris \ u ELSE {}, scripts |-> IF v = 6 THEN Tokens \ t ELSE {},
     listed |-> (v < 7), tokens |-> IF v < 7 THEN t ELSE {},
     emails |-> e, rows |-> IF v = 1 THEN w ELSE Nobody]

Left(v) ==
    {LeftWith(v, u, t, k, e, w) :
        u \in SUBSET Uris, t \in SUBSET Tokens, k \in Legacy \ {"client_script"},
        e \in Emails, w \in Emails}

-----------------------------------------------------------------------------
(* async_migrate_entry.                                                    *)

\* _async_migrate_redirect_uris
RedirectUris(e) ==
    [Add(e, "self", {u \in e.uris : <<"self", u>> \notin e.subs}) EXCEPT !.uris = {}]

\* _async_migrate_login_email_rows: an address in the options stays.
LoginEmailRows(e) ==
    [e EXCEPT !.emails = [p \in People |-> IF @[p] # None THEN @[p] ELSE e.rows[p]],
              !.rows = Nobody]

KindOf(type, item) ==
    CASE type = "client_script"  -> "script"
      [] type = "client_console" -> "console"
      [] type = "client_self"    -> "self"
      [] OTHER                   -> IF item \in Published THEN "self" ELSE "console"

\* _async_migrate_client_types: each is replaced by one of its kind.
ClientTypes(e) ==
    [e EXCEPT !.subs = {<<IF c[1] \in Legacy THEN KindOf(c[1], c[2]) ELSE c[1], c[2]>> : c \in @}]

\* _async_migrate_options_clients
OptionsClients(e) ==
    [Add(Add(RedirectUris(e), "console", e.apps), "script", e.scripts)
        EXCEPT !.apps = {}, !.scripts = {}]

To2(e) == IF e.version < 2 THEN [LoginEmailRows(RedirectUris(e)) EXCEPT !.version = 2] ELSE e
To3(e) == IF e.version < 3 THEN [e EXCEPT !.version = 3, !.host = FALSE] ELSE e
To4(e) == IF e.version < 4 THEN [e EXCEPT !.version = 4, !.sensors = FALSE] ELSE e
To5(e) == IF e.version < 5 THEN [ClientTypes(e) EXCEPT !.version = 5] ELSE e
To7_Unmarked(e) == IF e.version < 7 THEN OptionsClients(e) ELSE e
To7(e) == IF e.version < 7 THEN [OptionsClients(e) EXCEPT !.version = 7] ELSE e

Migrated(e) == To7(To5(To4(To3(To2(e)))))

Init ==
    /\ store \in {e \in UNION {Left(v) : v \in Versions} : Admits(Migrated(e).emails)}
    /\ entry = "down" /\ todo = {} /\ reload = FALSE /\ form = NoForm
    /\ existing = Tokens /\ mcp \in BOOLEAN
    /\ issue = FALSE /\ moved = FALSE /\ dropped = {}
    /\ changes = 0 /\ failures = 0

Migrate ==
    /\ entry = "down" /\ store.version < 7
    /\ store' = Migrated(store)
    /\ UNCHANGED <<entry, todo, reload, form, issue, users, bounds>>

-----------------------------------------------------------------------------
(* A setup, as far as it reads and writes the entry.                       *)

Known_Nothing == {}
Known == {t \in Tokens : <<"script", t>> \in store.subs}

WithoutOption(e) == [e EXCEPT !.listed = FALSE, !.tokens = {}]

\* With nothing to look up the option goes at once.
SetUp ==
    /\ entry \in {"down", "retry"} /\ store.version = 7
    /\ entry' = "setup"
    /\ todo' = (IF store.listed THEN store.tokens \ Known ELSE {})
    /\ store' = IF todo' = {} THEN WithoutOption(store) ELSE store
    /\ UNCHANGED <<reload, form, issue, users, bounds>>

\* Each token of the option is asked for; one that is gone is dropped.
Token(t) ==
    /\ entry = "setup" /\ t \in todo
    /\ todo' = todo \ {t}
    /\ LET found == IF t \in existing THEN Add(store, "script", {t})
                    ELSE store IN
       store' = IF todo' = {} THEN WithoutOption(found) ELSE found
    /\ dropped' = IF t \in existing THEN dropped ELSE dropped \cup {t}
    /\ UNCHANGED <<entry, reload, form, existing, mcp, moved, issue, bounds>>

Errors == {"unavailable", "sign-in", "refused", "other"}

Ends_Failed(kind) == IF kind = "unavailable" THEN "failed" ELSE "error"
\* Home Assistant retries a setup for which Cloudflare could not be reached, and no other.
Ends(kind) == IF kind = "unavailable" THEN "retry" ELSE "error"

OnFailure_Forgotten == WithoutOption(store)
OnFailure == store

\* At the look-up of a token or anywhere later.
SetUpFails(kind) ==
    /\ entry = "setup"
    /\ failures < MaxFailures /\ failures' = failures + 1
    /\ entry' = Ends(kind) /\ todo' = {}
    /\ store' = OnFailure
    /\ UNCHANGED <<reload, form, issue, users, changes>>

Conflict_Open(e) == e.gate /\ mcp
\* async_check_mcp_login_conflict
Conflict(e) == e.gate /\ mcp /\ ~e.open
Check == issue' = Conflict(store) /\ moved' = FALSE

SetUpDone ==
    /\ entry = "setup" /\ todo = {}
    /\ entry' = "loaded"
    /\ Check
    /\ UNCHANGED <<store, todo, reload, form, existing, mcp, dropped, bounds>>

\* A refresh checks before it compares anything.
Refresh ==
    /\ entry = "loaded"
    /\ Check
    /\ UNCHANGED <<store, entry, todo, reload, form, existing, mcp, dropped, bounds>>

\* A reload waits for a running setup.  It alone, or a restart, leaves an error behind.
Reload ==
    /\ reload /\ entry # "setup"
    /\ entry' = "down" /\ reload' = FALSE
    /\ UNCHANGED <<store, todo, form, issue, users, bounds>>

-----------------------------------------------------------------------------
(* The options form.                                                       *)

Change == changes < MaxChanges /\ changes' = changes + 1

Called(n) == {k \in 1 .. Len(Order) : Name[Order[k]] = n}
Earliest(ks) == CHOOSE k \in ks : \A j \in ks : k <= j
Latest(ks)   == CHOOSE k \in ks : \A j \in ks : j <= k

\* _people_section: fields are keyed by name; the first person of a name has the default.
Shown(e, n) == e.emails[Order[Earliest(Called(n))]]

\* "read": the addresses stored when the form was opened.
FormOf(e) == [emails |-> [p \in People |-> Shown(e, Name[p])], read |-> e.emails]

OpenForm ==
    /\ form = NoForm /\ store.version = 7 /\ changes < MaxChanges
    /\ form' = FormOf(store)
    /\ UNCHANGED <<store, entry, todo, reload, issue, users, bounds>>

Entered_Only(p, a) == [q \in People |-> IF q = p THEN a ELSE None]
\* What the frontend sends: every field, one of them changed or none.
Entered(p, a) == [q \in People |-> IF Name[q] = Name[p] THEN a ELSE form.emails[q]]

\* The name-to-user map has no read-only fields, and the last person of a name.
InMap(p) == p \notin ByUsername /\ Order[Latest({k \in Called(Name[p]) : Order[k] \notin ByUsername})] = p
\* _parse_people
Parsed(fields) == [p \in People |-> IF InMap(p) THEN fields[p] ELSE None]

\* What an unfinished migration still has in the options.
Unmigrated == IF store.listed THEN store.tokens \ Known ELSE {}

\* The stored options are those of the form and no other; the entry is reloaded.
Submit(p, a, g, o) ==
    /\ Change
    /\ form # NoForm
    /\ LET emails == Parsed(Entered(p, a)) IN
       /\ Admits(emails)
       /\ store' = [WithoutOption(store) EXCEPT !.emails = emails, !.gate = g, !.open = o]
    /\ dropped' = dropped \cup Unmigrated
    /\ form' = NoForm /\ reload' = TRUE
    /\ UNCHANGED <<entry, todo, existing, mcp, moved, issue, failures>>

-----------------------------------------------------------------------------
(* Repairs, and what else happens.                                         *)

\* DeniedLoginFlow
GiveTo(p, a) == [store.emails EXCEPT ![p] = a]

Repair(p, a) ==
    /\ Change /\ store.version = 7
    /\ a # None
    /\ store' = [store EXCEPT !.emails = GiveTo(p, a)]
    /\ reload' = TRUE
    /\ UNCHANGED <<entry, todo, form, issue, users, failures>>

\* McpConflictFlow: open the webhook's path, or switch HA-MCP to its secret URL.  Home
\* Assistant closes the issue.
OpenPath ==
    /\ Change /\ issue
    /\ store' = [store EXCEPT !.open = TRUE]
    /\ issue' = FALSE /\ reload' = TRUE
    /\ UNCHANGED <<entry, todo, form, users, failures>>

SecretUrl ==
    /\ Change /\ issue
    /\ mcp' = FALSE
    /\ issue' = FALSE
    /\ UNCHANGED <<store, entry, todo, reload, form, existing, moved, dropped, failures>>

SwitchMcp ==
    /\ Change
    /\ mcp' = ~mcp /\ moved' = TRUE
    /\ UNCHANGED <<store, entry, todo, reload, form, existing, dropped, issue, failures>>

\* Somebody removes a client, here or its token at Cloudflare.
RemoveClient(kind, i) ==
    /\ Change /\ store.version = 7
    /\ <<kind, i>> \in store.subs
    /\ store' = [store EXCEPT !.subs = @ \ {<<kind, i>>}]
    /\ dropped' = dropped \cup {i}
    /\ UNCHANGED <<entry, todo, reload, form, existing, mcp, moved, issue, failures>>

RemoveToken(t) ==
    /\ Change
    /\ t \in existing
    /\ existing' = existing \ {t}
    /\ UNCHANGED <<store, entry, todo, reload, form, mcp, moved, dropped, issue, failures>>

\* The user's reload of an entry in error, or the one that ends a new sign-in.
AskReload ==
    /\ Change
    /\ entry = "error" /\ reload' = TRUE
    /\ UNCHANGED <<store, entry, todo, form, issue, users, failures>>

Restart ==
    /\ Change
    /\ entry' = "down" /\ todo' = {} /\ form' = NoForm /\ reload' = FALSE
    /\ issue' = FALSE /\ moved' = FALSE
    /\ UNCHANGED <<store, existing, mcp, dropped, failures>>

SetUpNext ==
    \/ Migrate \/ SetUp \/ SetUpDone \/ Reload
    \/ \E t \in Tokens : Token(t)

Next ==
    \/ SetUpNext \/ Refresh \/ AskReload
    \/ \E kind \in Errors : SetUpFails(kind)
    \/ OpenForm \/ OpenPath \/ SecretUrl \/ SwitchMcp \/ Restart
    \/ \E p \in People, a \in Addresses \cup {None} :
          \/ Repair(p, a)
          \/ \E g, o \in BOOLEAN : Submit(p, a, g, o)
    \/ \E kind \in Kinds, i \in Items : RemoveClient(kind, i)
    \/ \E t \in Tokens : RemoveToken(t)

Spec == Init /\ [][Next]_vars
\* Migrations and setups run, those that may be are retried, reloads come.
FairSpec == Spec /\ WF_vars(SetUpNext)

-----------------------------------------------------------------------------
(* Properties                                                              *)

\* No callback and no token has two clients, however often a migration starts over:
\* the second client of a token would be replaced and deleted under the first, and the
\* second of a callback would keep it allowed after the first is removed.
NoDuplicateClients == store.twice = {}

\* What the entry keeps of its clients, in whatever release's place.
Held == Clients(store) \cup store.uris \cup store.apps \cup store.scripts
            \cup (IF store.listed THEN store.tokens ELSE {}) \cup todo

\* No step loses a client, whichever release stored it and however its setups fail: it
\* goes because it is removed, because its token is gone at Cloudflare, or with a form
\* saved while the tokens of the option still wait for Cloudflare.
NothingLost == [][Held \subseteq Held' \cup dropped']_vars

Taken == {p \in People : store.emails[p] \notin {None, store'.emails[p]}}
Moved == {p \in People \ ByUsername : store.emails[p] # store'.emails[p]}

\* Of the people outside "shared" a step takes away the address of one at most, the one a
\* field or a repair names, and a migration of nobody.  A form opened before another
\* change writes all it showed, and leaves out whom the login username names.
TakesOne(shared) ==
    /\ store.version < 7 => Taken = {}
    /\ \/ Taken \subseteq ByUsername \cup shared
       \/ Cardinality(Moved \ shared) = 1
       \/ form # NoForm /\ form' = NoForm /\ form.read # store.emails

\* People who have a field and the name of another who has one.
Namesakes == {p \in People \ ByUsername :
                 \E q \in People \ ByUsername : q # p /\ Name[q] = Name[p]}

\* A login e-mail once stored stays its person's, as everybody has a field of the form
\* (README, "one field per person"); what a field shared by people of one name does to
\* them, it does to nobody else.
OthersKeepTheirs == [][TakesOne(Namesakes)]_vars

\* At rest the issue about HA-MCP's login mode is open exactly when that login cannot be
\* reached, whatever the form and the issue's own repair wrote since, unless HA-MCP was
\* switched, which is seen at the next setup or refresh.
McpIssueTrue ==
    entry = "loaded" /\ ~reload /\ ~moved => (issue <=> store.gate /\ mcp /\ ~store.open)

\* An entry any earlier release left is brought up to date in the end, the tokens that
\* wait for Cloudflare included, and loaded, with nothing left in an earlier release's
\* place; or its setup ended in an error nobody retries, with those tokens still waiting.
Leftover == store.uris \cup store.apps \cup store.scripts \cup store.tokens
EventuallyMigrated ==
    <>[]( /\ store.version = 7 /\ ~store.host /\ ~store.sensors /\ store.rows = Nobody
          /\ {c[1] : c \in store.subs} \subseteq Kinds
          /\ \/ entry = "loaded" /\ ~store.listed /\ Leftover = {}
             \/ entry = "error" /\ Leftover = store.tokens)
=============================================================================
