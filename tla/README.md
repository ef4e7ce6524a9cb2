# Cloudflare Access for Home Assistant: the specifications

This directory holds TLA+ models of the integration in
`src/custom_components/cloudflare_access_relay`, the TLC configurations that
check them, and proofs checked by TLAPS. The integration keeps a Cloudflare
Access application (the *gate*) in front of a Home Assistant instance and keeps
it in step with Home Assistant: who may log in, on which hostname, with which
clients. Its hard part is that the truth is in three places at once, Home
Assistant's users and settings, the objects at Cloudflare, and the snapshot the
running integration compares against, and that every step from one to the other
is a remote call that may fail, be overtaken, or be cut short by a reload.

## The system

| component | state it keeps | operations | talks to |
|---|---|---|---|
| entry and reconciliation, `__init__.py` | `entry.data` (application ids, audience), title and unique id, `EntryData` (options, e-mails, clients as last reconciled), repair issues | `async_setup_entry`, `_refresh`, debouncer, listeners, unload, take-down, removal | all others |
| provisioning, `provision.py` | none | desired bodies, compare, create, update, retire, claim by name and tag | API client |
| API client, `cloudflare_api.py` | none | one method per Cloudflare call; three error classes and a base class | Cloudflare |
| users, `users.py` | login e-mails in the entry's options | who may log in, which user an identity is | Home Assistant's users |
| client applications and tokens, `__init__.py`, `config_flow.py`, `options.py` | subentries with the id of their application or token | reconcile, create, sweep orphans, delete | API client, gate's linked rule |
| origin middleware, `edge_auth.py`, and `jwks.py` | the middleware in the web server's chain, cached keys per `EntryData` | verify an assertion, fetch the keys, name the user | entry data |
| login history, `logins.py` | the cursor, in memory and stored | poll, fire events, raise and replace one issue | API client |
| flows, `config_flow.py`, `application_credentials.py` | form state | create entry, options, clients, sign in again | entry, API client |
| repairs, `repairs.py`, `issues.py` | open issues | set the URL, reload, give an address to a person | entry |
| `mcp.py`, `bypass.py` | none | detect HA-MCP's login mode, suggest paths to bypass | entry |
| migrations, `__init__.py` | versions | convert earlier storage | entry |

Everything runs on one event loop: a step is what happens between two `await`s,
so state read before a Cloudflare call may be stale after it. Concurrency comes
from four places: events that arrive while a reconciliation awaits Cloudflare,
background tasks no unload cancels, config flows that call Cloudflare on their
own, and the restart of Home Assistant between any two calls.

What makes each component correct:

- reconciliation: when nothing is pending the gate admits exactly the users, on
  the current hostname, or the administrator is told; it is never written
  empty; whoever a run that ends well drops is logged out; it gets there by
  itself.
- clients: no application is deleted while the gate names it, none that a
  subentry or a flow still needs is swept, none is left behind.
- take-down: with the entry disabled no gate stays up, whatever was running.
- origin: a request that waited for the keys is still judged by the gate there
  is; a rotation of the keys needs no restart; nothing addressed to the gate's
  hostname slips past but while the entry is away from it.
- login history: every login has its event, once unless the cursor was not
  stored, in order, and the one issue names the newest refusal.
- provisioning: at rest Cloudflare has the applications the options ask for and
  no other; an application without the entry's tag is never touched.
- stored entry: no release's client or address is lost or doubled by a
  migration, the options form or a repair, whatever fails in between.

`PROJECT.json` lists the hazards behind these sentences, each at its line.

## Plan

1. `PolicySync` with `AccessPolicy`: the gate's rule and its reconciliation.
   **Done**, with proofs.
2. `ClientApps`: console apps and script tokens, the creation flow, the rules
   that name them, the orphan sweep, the order of deletions. **Done**, with
   proofs, but for renaming a client, renewing a token that still exists and
   deleting the clients' objects with the entry.
3. `GateLifecycle`: the two applications through provisioning, disabling,
   enabling, removing, reloading, stopping and restarting. **Done**, with proofs
   that nothing is forgotten, everything is taken down and a loaded entry has
   what it is asked for. It took in what an earlier plan called `Provision`.
4. `Logins`: the coordinator, its pages, its cursor and its issue. **Done**, with
   proofs.
5. `Origin`: middleware and key cache across reloads. **Done**, with proofs of
   all its properties.
6. `EntryStore`: migrations, options form, repairs, the HA-MCP issue. **Done**,
   with proofs.

Every invariant and every action property of a passing run is proved, some under
an assumption named with the theorem, and so is the refinement of `AccessPolicy`;
liveness is model-checked. Left: a composition of `PolicySync` and
`GateLifecycle`, whose two abstractions of a pass (the rule here, the
applications there) are joined by nothing but their common source.

Twelve runs, seven that pass and five in which TLC finds what a sentence of the
repository denies. What else was seen on the models is described with each
module and has no run of its own.

Six modules, one per group of state that is written together. They share no
variable: what one leaves to another is an action of its environment there (a
reload in `PolicySync` is an options form in `EntryStore`), so each covers every
order its neighbours can bring about.

## PolicySync

`PolicySync.tla` models one config entry.

| variable | code |
|---|---|
| `addrs`, `url` | `allowed_emails()`, `external_hostname()` as they are now |
| `gate`, `sessions` | the gate application and who holds an Access session |
| `entry` | the state Home Assistant gives the config entry |
| `title`, `known` | `entry.title`/`unique_id`, `DATA_GATE_APP_ID` on record |
| `issues`, `reauth` | repair issues, the reauth flow |
| `gen` | counts setups; an `EntryData` and a debouncer belong to one setup |
| `setup` | the running `async_setup_entry`: program counter and its local `emails`, hostname, addresses to log out |
| `data`, `ref`, `due` | per setup: `EntryData`, the running `_refresh`, the debouncer's timer |
| `missed` | history: the debouncer dropped a call, and no refresh or setup has begun since |
| `strays` | history: the sessions that a run left behind which failed or was cut off after its gate write, or could not read whom the gate admitted |

Actions follow the code between two awaits: `SetupStart` (to the first call),
`SetupRead`, `SetupReread`, `SetupWriteGate`, `SetupDeleteStale`, `SetupRevoke`,
`SetupDone`; `RefreshNoUrl`, `RefreshUnchanged`, `RefreshNoUsers` and
`RefreshBegin` are the four ways `_refresh` starts, and the rest of it goes as
the setup does. A failing call (`SetupFail`, `RefreshFail`) takes one of four
kinds: a refused sign-in, Cloudflare unavailable, a refused request, and any
other error (a bare `CloudflareError`), each with the except clause it meets.
`SetupAnswerLost` and `RefreshAnswerLost` are a write whose answer never came.
The environment changes users and URL, logs in, reloads, signs in again, and
stops or kills Home Assistant.

Abstractions, and why they are sound for the properties:

- the gate is its allow rule and hostname; the gate is enabled throughout (the
  option is changed by a reload, the lifecycle module's subject);
- the clients and tokens inside a run are the one step `stale`, which may fail;
- addresses are revoked in any order (the code sorts them): more behaviours;
- a session never expires by itself: the pessimistic case for log-outs;
- issues are not persistent in Home Assistant's registry, so a restart clears
  them;
- Home Assistant's `Debouncer` is not in this repository: it drops a call made
  while its function runs (`DropsCall`). The properties excuse a change that was
  dropped and that nothing has repeated (`missed`).

An operator whose name ends in `_Something` is its namesake with a plausible
mistake. No specification uses it: it documents which property notices the
mistake.

`AccessPolicy.tla` is what the gate promises a person who logs in: a rule that
is never emptied, sessions only for admitted addresses, and log-outs only of
addresses the rule does not name. `PolicySync` implements it
(`ImplementsPolicy`).

### Runs that pass

| run | instance | shows |
|---|---|---|
| `sync_steady` | 2 addresses, 2 hostnames, 3 changes, 2 failures of the kinds `_refresh` handles, at any call, lost answers among them; reloads, restarts and crashes at any step; fairness (440,620 states) | `SyncedOrReported`: at rest the gate follows or somebody is told; `SnapshotIsGate`; `EventuallyFollows` |
| `sync_faults` | 3 addresses, 2 hostnames, 3 changes, 1 failure of any kind at any call; all users may leave, the URL may vanish, Home Assistant may die anywhere (387,536 states) | `AllowRuleNeverEmpty`, `NoUrlIssueIsTrue`, `SessionsCovered`: only a run cut off after its gate write forgets a session; `ImplementsPolicy` |

What `sync_steady` leaves out is what the code does not survive: users who all
leave, a vanishing URL, an error of no handled class and a refresh that outlives
its setup. The first three are in `sync_faults`, with the properties that hold
all the same; the last one is excluded there too, since `SessionsCovered` and
`ImplementsPolicy` need it (`NeverEmpty` and `UrlIssueTrue` below are proved with
it; `Origin` and `GateLifecycle` run with refreshes that outlive their setup).

Bounds: `MaxChanges` and `MaxFailures` bound the environment only, and `Gens`
follows from them, so no step of the code is ever cut off. Three changes are
enough for the shapes that matter: two changes and a reload, or a change, its
undoing and a disturbance. The runs do not check deadlock: when the
budget of changes is spent the system rightly comes to rest.

Fairness (`sync_steady`): `WF` of a setup's next step and of each generation's
refresh. Both are tasks on the event loop whose next step stays enabled until
taken; a timer of the event loop fires; Home Assistant retries a setup that
raised `ConfigEntryNotReady`. Nothing is assumed of the users or of
Cloudflare's good will: a failure is bounded by its budget only.

### Where code and documentation disagree

`sync_lost_logout` checks one sentence of the README ("Losing access ends the
session") and TLC refutes it: a revoke fails at setup; the retry reads the rule
already shortened and revokes nobody.

That property has no passing run: what holds of log-outs in general is
`SessionsCovered`, which names those a run cannot make.

Seen on the model, and shown by no run of this directory:

- A user is added, and removed again while the refresh that admits them is past
  its read of the addresses: the debouncer drops the call, and the gate keeps
  them until something else changes (the docstring at `__init__.py:692`, "Every
  such change schedules one debounced reconciliation").
- The gate is written, then a revoke fails. `data.emails` stays at the old
  addresses, so undoing the change compares equal and writes nothing. (README:
  "the next change retries".)
- `data.options = options` comes before the return for "nobody has an address".
  A hostname that changed meanwhile is taken for written.
- A `_refresh` that waits for Cloudflare survives the reload and writes after
  the new setup, which never learns of it.
- Setup writes the gate for a new hostname and leaves title and unique id
  behind. The External URL fix, which reloads, takes this path.
- The External URL vanishing between the two reads of a refresh leaves the
  unwritten hostname in the snapshot (`RefreshUrlGone`); a bare
  `CloudflareError` does the same without an issue (`RefreshEnds` with kind
  "other").
- The issue about missing addresses stays open when the addresses come back
  unchanged, since it is closed only past the early return.

`RefreshUrlGone` and the kind "other" are in the model, so the passing run
`sync_faults` covers them for what still holds.

### Proofs

`PolicySyncProofs.tla`, for every value of the constants:

- `TypeCorrect`: `Spec => []TypeOK`. `TypeOK` is not inductive as it stands: the
  hostname a setup or refresh writes must be one of `Hosts`, which holds
  because the reread sits before the write. The invariant adds what is known at
  each program counter.
- `NeverEmpty`: `Spec => []AllowRuleNeverEmpty`. The addresses a run carries
  are not empty from its start to the write, whatever the users do meanwhile.
- `UrlIssueTrue`: `Spec => []NoUrlIssueIsTrue`, whatever fails or overlaps. Only
  the loaded generation has a timer, and as long as the issue is open beside a
  URL, that timer or a dropped call stands for the change (`UrlIssueFollows`).

`PolicySyncGuarantees.tla`:

- `PolicyImplemented`: `Spec => ImplementsPolicy` if no reload overlaps a
  running refresh (`"reload_running" \notin Disturbances`). A run only owes
  log-outs of addresses its own write dropped, and nobody else writes the gate
  in between; an overtaken refresh breaks this, which is why the assumption is
  needed.
- `NoSessionForgotten` (`SessionsCovered`), under the same assumption only: any
  call may fail, any answer be lost, Home Assistant die anywhere. A session off
  the rule is one that a run in progress still owes, or one of the `strays`. The
  invariant (`SessionFacts`) says at each program counter which addresses the
  gate had when the run began, so that what its write drops is owed
  (`CurrentlyOwed`). When a run ends well it has no strays; `sync_lost_logout`
  shows what becomes of one that does not.

- `SnapshotTrue` (`SnapshotIsGate`) and `FollowsOrReports` (`SyncedOrReported`),
  under `ErrorsHandled`: failures are of the three kinds `_refresh` handles, no
  reload overlaps a refresh, and there is always a URL and somebody to admit.
  Any call may fail, any write lose its answer, and Home Assistant may die at
  any point, as in the run `sync_steady`. The invariant
  (`FollowFacts`) says, at each program counter, what the gate carries and which
  change no timer stands for. The three weaknesses above that leave an unwritten
  snapshot (`RefreshUrlGone`, the kind "other", options stored before the return
  for "nobody has an address") break it, so the assumption excludes each of
  them.
Only model-checked: `EventuallyFollows`, as liveness is out of TLAPS's reach.

## ClientApps

`ClientApps.tla` looks at the same two runs, `async_setup_entry` and
`_refresh`, from the side of the clients, and takes users and sessions out.

| variable | code |
|---|---|
| `objs` | applications and service tokens at Cloudflare: made for whom, hostname in the name, tag |
| `gate` | the objects the gate's Service Auth rules name |
| `subs`, `secret` | subentries with `DATA_CLIENT_APP_ID` or `DATA_TOKEN_ID`; the object whose secret they store |
| `flows` | open flows between `_async_register` / `_async_create_token` and `_store` |
| `run` | the running setup or refresh: `todo` is what is left of the dictionary its loop looked up, `apps` its result, `victims` the objects its delete loop found |
| `data` | `client_apps` and `script_tokens` together, `options` as token ids and hostname |
| `due`, `missed`, `reported`, `host`, `entry` | as in `PolicySync` |
| `died`, `lost` | history: the last run ended on an unhandled error; deleted in the dashboard |

A run is `SetupStart` or `RefreshStart`, a `Reconcile` for every console app
(`reconcile_app`: by stored id, else claimed by name and tag, else created),
`ReconcileScripts`, a `Reconcile` for every script, `Reread`, `WriteGate`,
`ListStale` and `DeleteStale` for applications and again for tokens, `RunDone`.
`CallFails`, `ReconcileAnswerLost`, `GateRefused` and `DeleteRefused` are the
ways out: the last two are Cloudflare's own rules, that a gate may not name what
does not exist and that a token the gate names may not be deleted. A subentry
removed while its object is reconciled cannot be written: the error is one that
neither run handles (`RunDies`). The environment registers, stores, abandons and
removes clients, changes the URL, edits the dashboard, reloads and restarts.

Abstractions: reading, comparing and writing one object is one step; names
change with the hostname only; runs do not overlap (that is `PolicySync`'s
subject); Home Assistant never uses a subentry id twice; two clients may have
the same name, which no flow forbids.

| run | instance | shows |
|---|---|---|
| `clients` | 2 console apps and 1 script of different names, 2 hostnames, 3 changes, 1 failed call or lost answer, every disturbance, fairness (697,911 states) | `GateNamesLive`: the gate names nothing the integration deleted; `SweepComplete`: a setup leaves no object that is nobody's; `ClientsServed` and `EventuallyServed`: at rest every client has its object on the gate, or a failure is on record (`reported`, `died`) or the debouncer dropped a change (`missed`), and rest is reached |

Three weaknesses were seen on the model and have no run: an app added and
removed before the debounce is over is in neither dictionary of the refresh, so
its application stays until the next setup; of two console apps with one name
the second claims the first one's application by name when its own is gone, and
the refresh that notices the first is removed deletes, by id, what the gate it
has just written names; an application whose creation answer was lost is claimed
without its secret, and the client keeps showing the secret of the one that is
gone.

Ids are given in order (`next`) and have no bound of their own: an object is
created by a flow, in place of one that is gone, or by a call whose answer is
lost, each of which spends one of the budgets. With three changes a client can be added, lose
its object or move to another hostname, and be removed around a restart.
`clients` needs `died` as an excuse in `ClientsServed`: a refresh that dies
leaves the new token ids in `data.options`, so the next comparison may find
nothing to do; it needs `missed` as `PolicySync` does. Fairness is that the integration's next step is taken
(`RunNext`); a failing call is one of its steps and bounded by its budget. As
above, the system may come to rest, so deadlock is not checked.
An application registered while a setup is sweeping is deleted by the sweep
before the flow stores it; the next refresh makes another, and its secret
replaces the one the user has already copied.

`ClientAppsProofs.tla` proves, for every value of the constants:

- `TypeCorrect`: `Spec => []TypeOK`, which says besides the types that every id
  anybody remembers has been given out, so that a new object is never taken for
  an old one.
- `NothingLeftBehind`: `Spec => SweepComplete`, without any assumption on names,
  failures or what people do meanwhile. The invariant (`SweepInv`) follows the
  sweep: what it has still to delete is on its list, applications until they
  are done and tokens after them; what is created meanwhile has a later id.
- `GateStaysWritable`: `Spec => []GateNamesLive` if no two console apps share a
  name (`DistinctNames`). Nobody remembers an object that is another client's
  (`OwnInv`), and an application about to be deleted is not among those the run
  has put on the gate (`GateInv`). Claiming by name breaks `OwnInv` when names
  are shared, which is the second weakness above.

- `EveryClientServed`: `Spec => []ClientsServed`, again under `DistinctNames`: a
  client that lost its application could claim another's by name. The invariant
  (`ServedInv`) follows a run call by call, what it has taken up of the clients
  it saw (`AllTaken`), what it has put on the gate (`GateNames`), and says of an
  entry at rest that its snapshot has every client, or a timer or an excuse
  stands for it (`NothingNew`).

`EventuallyServed` is liveness and only model-checked.

## GateLifecycle

`GateLifecycle.tla` follows the two applications of an entry, the *gate* and the
*bypass* application for open paths, through everything that creates, moves and
deletes them.

| variable | code |
|---|---|
| `apps`, `next` | the applications at Cloudflare: kind, hostname, whether they carry the entry's tag |
| `ids` | `DATA_GATE_APP_ID`, `DATA_BYPASS_APP_ID` in `entry.data` |
| `aud` | `EntryData.policy_aud` |
| `entry`, `disabled`, `stopping` | the config entry's state and `disabled_by`, `hass.is_stopping` |
| `waiting` | reloads and removals that wait for the entry's lock |
| `wants` | the options that matter here: gate on or off, open paths or none, hostname |
| `due` | the debouncer's timer |
| `snap`, `differs` | `runtime_data.options`, as far as its hostname; whether users or clients may differ from the snapshot |
| `issues` | the repair issues and the sign-in flow that a failed pass opens |
| `passes` | `async_provision` inside the running setup and the running refresh: which application, which call, the local ids |
| `downs` | `async_delete_apps` inside `async_unload_entry`, `async_remove_entry` and the tasks of `_take_down` |
| `warned`, `unsaved`, `tangled`, `edited`, `silent`, `missed` | history, see below |

A pass looks at the bypass application, then at the gate (`Look`): by recorded id
if that one carries the tag, else by name and tag. It creates, updates, deletes
or leaves alone (`Write`, `WriteRefused`, `WriteAnswerLost`), and when both are
done stores the ids (`Save`); a setup or a refresh goes on from there. A pass may
end at any call with one of four errors: a refused sign-in, Cloudflare
unavailable, a refused request, and any other (a bare `CloudflareError`, no
External URL, a gate without an audience tag). `SetupEnds`, `Tells` and
`FallsBack` say what each leaves: a setup that is retried or not; an issue, a
sign-in, or for the last kind in a refresh nothing; the hostname of the snapshot
before, or for the last kind the unwritten one. A refresh begins in one of three
ways: `RefreshUnchanged` sees no new hostname, `RefreshForNobody` takes the new
one over without writing it, `RefreshStart` goes on to the pass. One that
outlived its setup has a snapshot of its own (`mine`), and its debouncer is not
the loaded entry's. `Unload`,
`DeleteApp`, `DownFails`, `DownDone` and `RemoveEntry` are the take-down, whose
listener (`Heard`) hears every update of the entry. `Locked` is Home Assistant's
lock on an entry; a refresh and the tasks of `_take_down` hold none. Users and
administrators change options, hostname and users, disable, enable and remove
the entry, edit applications in the dashboard, stop and kill Home Assistant.

Abstractions: looking one application up and getting it are one step, and so
are getting and deleting in a take-down; what a body says beyond kind, hostname
and tag is one choice, it matches or it does not; `entry.data` is written to
disk at once; the debouncer's fine points are `PolicySync`'s, the clients'
objects `ClientApps`'. Between `async_setup` and the entry's first setup nobody
clicks (the guard of `SetDisabled`). The first hostname is `AnyHost`:
nothing tells hostnames apart. The second reading of the options in a refresh
(`__init__.py:753`) is one step with the first; `PolicySync` and `Origin` keep
them apart.

The history variables are what the properties excuse; all but `edited` and
`warned` stand for something the code does and a reader may well object to:

- `tangled`: a pass and a take-down, or two passes, have worked on the
  applications at the same time. It is never reset, as what they did may show
  much later.
- `warned`: a take-down failed, which is logged as a warning.
- `unsaved`: applications of a pass that ended before storing the ids.
- `edited`: somebody edited an application since the last setup began.
- `silent`: a refresh ended on an error nobody handles, and none has succeeded
  since; nobody was told, and the next comparison may find nothing to do.
- `missed`: the debouncer dropped the news of another hostname.

| run | instance | shows |
|---|---|---|
| `lifecycle` | 2 hostnames, 2 background take-downs, 3 changes, 1 failed call or lost answer of any kind, every disturbance, fairness (2,087,136 states) | `TakenDown`: at rest a disabled or removed entry has nothing at Cloudflare; `GateAsConfigured`: a loaded one has what its options ask for, or an issue or a sign-in is open, or `silent`, `missed`, `edited` or `tangled` excuses it; `NothingForgotten`: every application is on record or about to be; `ForeignUntouched`; `NeverClosed`: no step leaves a hostname gated with nothing bypassed; `EventuallySettled` |
| `lifecycle_disabled_late` (violated) | 1 hostname, no failures, 2 changes | `DisabledMeansDown`, `TakenDown` without the excuse `tangled`: a refresh that fires for a change of users while the take-down is at work creates the bypass application again, and the take-down then forgets its id |
| `lifecycle_new_audience` (violated) | 1 hostname, no failures, 2 changes | `AudienceFollowsGate`: the gate is deleted in the dashboard, the next refresh creates another and ignores its audience (line 754), and the origin refuses every token until the entry is reloaded |

Seen on the model, and shown by no run: a refresh for a new hostname that ends
on a bare `CloudflareError` (`cloudflare_api.py:85`) is caught by neither except
clause (`__init__.py:772`, `777`). The gate stays on the old hostname, no later
refresh sees a difference, and nobody is told, against the README's "raises a
repair issue quoting Cloudflare's" answer. That is the excuse `silent`.

`NeverClosed` excuses a pass for options without open paths, and one that moves to
another hostname: the bypass
application is claimed there first (provision.py:436), so if the write of the
gate fails then, the *old* hostname stays gated with nothing bypassed. Two
other behaviours need `tangled`: an entry that is enabled again while the
take-down still runs may lose what its setup has just found, and its ids are
forgotten.

Three changes are enough to disable, enable and disturb, or to change the
options, disable and restart. `EventuallySettled` assumes that tasks of the event
loop go on, that a waiting operation gets the lock, that Home Assistant retries
a setup that raised `ConfigEntryNotReady`, and that an instance that is stopping
starts again. With its changes spent the system rests, so deadlock is not
checked.

`GateLifecycleProofs.tla` proves, for every value of the constants (with or
without `DeletesOnRemove`, and for any number of take-downs at the same time):
`TypeCorrect`; `OwnOnly` (`ForeignUntouched`), from the types alone;
`NoneForgotten` (`NothingForgotten`) and `DownAtRest` (`TakenDown`). The last two
rest on one inductive invariant, `LifecycleInvariant`:

- `Locks`: what the entry's lock keeps apart. A setup at work means the entry is
  in setup, the take-down of an unload means it is unloading, that of a removal
  that it is removed.
- `Records`, while nothing is tangled: a pass is alone (`Alone`), and so the
  recorded ids are still the ones it began with; what it has handled it carries
  on under the same id, what it made is in its results, and what it is about to
  update is on record or its own find (`PassKnows`); a take-down's ids are the
  recorded ones, or another take-down has just forgotten them, and what it is
  through with is gone (`DownKnows`). That is what makes `Save`, which overwrites
  the ids, and `DownDone`, which clears them, lose nothing.
- `Awaited` and `Pending`: an entry that is disabled or removed and still has ids
  on record has a take-down at work, or a reload waiting, or Home Assistant is
  stopping. The step that needs most care is disabling an entry that is not
  loaded: nothing would hear it, and it can only happen while another operation
  holds the lock.

The invariant was found with TLC first, on the instance of the run and on the
same with `DeletesOnRemove` off. Where `TakenDown` reads a removed entry, only
`DeletesOnRemove` counts: an entry that is disabled and at once removed with that
option off keeps its applications if Home Assistant stops before the take-down
is through.

`GateServingProofs.tla` goes on from there to what a loaded entry serves, again
for every value of the constants: `ConfiguredAtRest` (`GateAsConfigured`) and
`NotLeftClosed` (`NeverClosed`). The invariant `ServingInvariant` adds to
`LifecycleInvariant`:

- `Sorted`, `Fits`, `OneEach`: whoever has an id for the gate has a gate's, what is
  deleted is what is not wanted, and Cloudflare has one application of a kind on a
  hostname.
- `Quiet`: unless things are tangled, no take-down works while the entry is set
  up or loaded.
- `Asked`, `Followed`: unless a reload waits, the running pass works for the
  options as they are; a refresh works for the hostname of the snapshot, which
  is the present one unless another refresh is due, the news was dropped, or the
  last one ended with an error.
- `PassServes`: what a pass is through with is as it wants it, until it ends.
- `Loaded`: the loaded entry has the applications it is asked for, and if no
  refresh runs and the last one did not end with an error, under the hostname of
  the snapshot.

Nothing is proved of the audience: `lifecycle_new_audience` shows that it does not
follow a gate that a refresh creates anew.

`EventuallySettled` is liveness and only model-checked.

The integration's README calls the gate `ha-access: gate <host>`; the code names
it by `GATE_APP_NAME_FMT`, "Home Assistant (<host>)". Nothing depends on it: the
model tells applications by kind, hostname and tag.

## Logins

`Logins.tla` is `LoginCoordinator`: a poll reads the account's log page by page
from the stored cursor, fires an event per login of the entry's applications,
raises one issue for the newest refusal, and stores the cursor.

| variable | code |
|---|---|
| `now`, `log` | the clock and Cloudflare's entries; a page lists what is kept and not older than the request's `since` |
| `ours`, `gone`, `watched` | the applications the entry has, those it deleted, and `app_ids` |
| `scheduled`, `asked` | the coordinator has a next poll; it has asked for a new sign-in |
| `poll` | `_async_update_data` and `list_access_logs`: what was read, which page, or the write of the cursor |
| `cursor`, `saved` | `data.cursor`, and what `Store` has on disk |
| `fired`, `issue`, `fixing` | the events, `ISSUE_DENIED_LOGIN`, the open repair flow |
| `late`, `early`, `moved`, `unsaved`, `mark` | history |

The handling of what was read is one step (`LastPage`): nothing in it awaits.
A refresh creates and deletes applications (`Create`, `Delete`): a client's, or a
gate's that another replaces; no id is used twice, and the new ones are watched
at its end (`Watch`). The pages are requests of their own (`NextPage`), as is the cursor's write
(`Save`), and a reload or restart may come at either (`Dropped`): the write may
still get through. Outside this repository, and modelled from how the code uses
it: a coordinator whose update raises `ConfigEntryAuthFailed` stops polling
until the entry is reloaded; `Store` logs an error of its write and goes on; an
unload cancels a running poll; issues are gone after a restart.

| run | instance | shows |
|---|---|---|
| `logins` | 3 applications, 1 of them a client made later, 1 of somebody else; 3 ticks, 2 entries, pages of 1, at most 2 pages, 1 late entry, 1 failure, 1 reload, restart, deletion or repair, fairness | `InOrder`, `NothingReplayed`, `NothingSkipped`, `IssueNamesNewest`, `EventuallyReported` |
| `logins_replayed` (violated) | 1 entry, 1 restart, no failure | `NothingReplayedAfterRestart` (README: "so nothing is replayed after a restart"): Home Assistant restarts between the events of a poll (logins.py:123) and the write of its cursor (127), and the next poll fires them again |
| `logins_same_second` (violated) | 2 entries with one timestamp | `OnCursorMeansHandled` (comment at logins.py:118): the second, listed after the poll that handled the first, is taken for handled |

The excuses are what a cursor made of a timestamp cannot do: an entry listed
after a poll had read up to its stamp (`late`, which counts those a cut-off last
page leaves with the same stamp), one of an application that is not watched yet
while the entry is set up or loaded (`early`), pages that shift because an entry
expired or came late between two of them (`moved`), and a poll whose cursor was
never stored (`unsaved`), whose logins have their events again. The last is what
the README denies, and `logins_replayed` shows it. `NothingSkipped` speaks of the
applications the entry has: what was logged at one that a refresh deleted before
the next poll is passed over, and so is what was logged at a gate that was
replaced. `EventuallyReported` also leaves aside an entry with as many others
before it as one poll may read (`Crowded`), and polls that wait for a new
sign-in. Two entries and pages of one make every page
boundary and every cut happen; three ticks with a retention of two let entries
expire both between polls and between pages.

Seen on the model: the issue names the newest refusal, but a repair flow opened
for an older one closes it, as issues are told apart by the entry alone; the
docstring of `logins.py` speaks of a last-login sensor that is not there any
more.

`EventuallyReported` is under weak fairness of the poll: the coordinator's timer
fires and an answer or an error comes. Deadlock is not checked: the clock is
bounded, and a removed entry does nothing.

A list is sorted by rank: what comes at a place is the element that many others
come before (`Rank`, `ByTime`). That says what `sorted` of the code and the order of
Cloudflare's listing come to, and unlike `SortSeq`, whose comparison and recursion
the provers cannot take apart, it can be reasoned about. Of two entries with one
stamp the one logged first comes first, as `sorted` is stable.

`LoginsProofs.tla` proves, for every value of the constants, so for any number of
entries, pages, applications, failures and restarts: `TypeCorrect`,
`EventsInOrder` (`InOrder`), `NoReplay` (`NothingReplayed`), `NoneSkipped`
(`NothingSkipped`) and `NewestNamed` (`IssueNamesNewest`). The lemmas about sorting
come first (`RankTaken`: every rank is somebody's, so that `ByTimeSorts`), then what
they say of the listing, of a page and of what a poll handles (`ListingType`,
`PageType`, `HandledType`). The invariant, `LoginsInv`, has besides the properties:

- `Window`, `Behind`: a poll asks for what follows the cursor in memory, which the
  stored one never overtakes.
- `Recorded`: what was reported is behind the stored cursor or about to be, or is
  one of the `unsaved`. With `Window` and `Behind` this makes whatever a poll takes
  for new younger than everything reported (`Earlier`), and so the events go on in
  order and none is repeated.
- `Prefix`: while the pages stand still, what was read is the beginning of the
  listing, and so nothing is read twice. A login breaks it unless it is listed
  behind what was read, time unless it leaves what was read; those are the two
  cases of `moved`.
- `Backed`, `AllPassed`: a cursor is the time of something reported, and nothing up
  to it was passed over. Where the listing is cut short, what follows is as young
  as the newest entry that was handled, or behind the cursor for the next poll
  (`PollPassesNone`).
- `Noticed`: a loaded entry has seen the logins of all its applications, or they
  are among the `early`.

`EventuallyReported` is liveness and only model-checked.

## Origin

`Origin.tla` is the middleware in Home Assistant's web server, the key cache
behind it and the entry it serves.

| variable | code |
|---|---|
| `newest`, `gate`, `people` | outside: the team's newest signing key (the one before is still published), the gate's hostname and audience, the users one e-mail address identifies |
| `url`, `enabled` | the External URL, the option |
| `loaded`, `runtime` | `runtime_data` of the loaded entry, and every `EntryData` there was: hostname in its options, `policy_aud`, its verifier's keys, and where its refresh is (`at`), with the hostname that falls back to and the option it read |
| `frozen`, `fits`, `installed`, `chain`, `issue` | `async_install_middleware`: the server has started, aiohttp is as `_inject` expects, `hass.data`, the middleware in the chain, the repair issue |
| `request` | one record per request: where it waits, its token, the `EntryData` it found, the answer it got |
| `stranded`, `replaced` | history, see below |

A request that carries an assertion is decided in one step unless its key is not
in the cache (`Arrive`); then it waits for Cloudflare (`Answer`, `NoAnswer`) and
is decided with what came (`Decide`), in whatever order answers come: there is
no lock, and an older answer may replace a newer cache. That costs another
request, and no one's login (`RotationNeedsNoRestart`). Meanwhile keys rotate,
the entry is reloaded or moved, users change, Home Assistant restarts.

A refresh takes the new hostname into its options (`RefreshStart`), or does only
that where nobody has an address (`RefreshForNobody`), reads them again
(`RefreshReread`), writes the gate (`RefreshWrite`) and goes on to the deletions
and log-outs (`RefreshDone`). It may fail at any of these, before its write or
after it, and then falls back to the old hostname (`RefreshFails`), or end on an
error it does not handle, with the new one (`RefreshBreaks`). An unload does not
end it: it goes on with the `EntryData` it began for.

Abstractions: one entry; a token is a key, an audience and whether everything
else about it is right, as the cryptography is a library's; a setup is one step,
before or after its gate write if it fails. How many requests for keys a burst of
unknown ones causes is not a property of this module.

| run | instance | shows |
|---|---|---|
| `origin` | 2 requests, 2 users, 2 hostnames, 3 keys, 2 setups, 2 changes or failures; requests and users are interchangeable (8.0 million states) | `InstalledOnce`, `RotationNeedsNoRestart`, `JudgedByItsGate`, `PassedOnForCause` |

`JudgedByItsGate` relates what a request found before it waited to the gate there
is when it is decided: a reload, a move and a refresh of an unloaded entry keep
the audience, so it is accepted with a token of that gate and of no other. The
excuse is an `EntryData` whose gate was deleted since (`replaced`): what is
created in its place has another audience, which no refresh brings to the origin
(see `lifecycle_new_audience`).

Two requests are enough for an answer to overtake another and for a request to
be judged from a cache a second one filled; three keys let a key fall out of
what is published between a request and its answer. `PassedOnForCause` lists the
cases in which a request to the gate's hostname passes on to Home Assistant:
entry not loaded, middleware not installed, no gate when it was set up, a
refresh that has the new hostname and has not yet written it, and a refresh that
left options and gate apart (`stranded`): it ended for want of users, failed
after its write, ended on an error nobody handles before it, or wrote for an
entry that was unloaded meanwhile. The fallback after the write was made
(`__init__.py:779`) is against the comment one line above it, "the last state
Cloudflare accepted": it was seen on the model and has no run. Two requests
that are decided, with the changes spent, end the behaviour: deadlock is not
checked, and no fairness is assumed.

`OriginProofs.tla` proves all of it, for every value of the constants:

- `TypeCorrect`: `Spec => []TypeOK`. A refresh looks into the data of the loaded
  entry, so the invariant has besides the types that one is loaded while it
  runs.
- `MiddlewareOnce`: `InstalledOnce` is inductive.
- `JudgedByTheGate` (`JudgedByItsGate`): every `EntryData` whose gate was not
  deleted since has the audience of the gate there is, or none (`OneGate`);
  setups and refreshes alone change the gate, and take over the audience of one
  that is there.
- `NoRestartForRotation`: an answer that lacks the key of the request that
  waits for it was given when that key was two rotations old (`KeyInUse`).
- `NotPassedByMistake`: unless a refresh is moving it or left it `stranded`, the
  hostname in the options of the loaded entry is the gate's, or there is no gate
  (`HostKept`); until a refresh has written, it carries the gate's hostname to
  fall back to.

## EntryStore

`EntryStore.tla` is what an entry stores and everything that writes it:
`async_migrate_entry`, the service token option of an early release, which is
migrated at setup, the options form, and the repairs.

| variable | code |
|---|---|
| `store` | version, subentries (kind and what the client is for), `redirect_uris`, `console_apps`, `scripts`, `service_token_ids`, the login e-mails, options of earlier releases |
| `entry`, `todo`, `reload` | the entry's state, the loop over tokens in `_async_migrate_service_token_option`, a reload that waits for the lock |
| `existing` | the service tokens Cloudflare has |
| `form` | the open options form |
| `mcp`, `issue` | HA-MCP's login mode is none of the gate's; `ISSUE_MCP_AUTH_CONFLICT` |
| `moved`, `dropped` | history |

`To2` to `To7` are the steps of a migration, in the order the code applies them,
and `Migrated` is all of them: `async_migrate_entry` awaits nothing. `Left(v)` are
the entries release `v` could leave. `Token` is one round of the loop that asks
Cloudflare for a token; a failure (`SetUpFails`) drops the loop and keeps the
option, and the next setup starts over with what is not a client yet. Home
Assistant retries a setup that could not reach Cloudflare; a refused sign-in, a
refused request and every other error are the state "error" (`Ends`), which a
reload alone leaves (`AskReload`). `OpenForm`
and `Submit` show and store the whole form, keyed by people's names as
`_people_section` and `_parse_people` do it; `Repair`, `OpenPath` and `SecretUrl`
are the flows of `repairs.py`.

Abstractions: a client is its callback URL or token id, so a second client for
the same one is kept apart in `twice`; the fields of a client are left out; a
setup's other calls are the one failure; the check of HA-MCP reads the options as they are, where the code reads
those of the setup's beginning, which differ only while a reload waits. All
tokens exist in the beginning, and somebody whose login username is an address
shares a name with nobody (`EntryStoreAssumption`).

| run | instance | shows |
|---|---|---|
| `entry_store` | releases 1, 2 and 6, 2 callbacks, 2 tokens, 2 people of different names, 2 addresses, 2 changes, 1 failure of any kind, fairness (2.3 million states) | `NoDuplicateClients`, `NothingLost`, `McpIssueTrue`, `OthersKeepTheirs`, `EventuallyMigrated` |

`OthersKeepTheirs` is the README's "one field per person", as far as the code
keeps it: a form or a repair takes an address from nobody but the person it
names. People who share a name (`Namesakes`) share a field, and it speaks of the
others: the form shows the first one's address and gives what was entered to the
last (`config_flow.py:168`, `182`), so saving it untouched moves an address. Two
namesakes and two others make the state space too large for a run beside
migrations; `FieldsApart` below covers them.

Releases 1, 2 and 6 are those that kept clients in three different places; the
others differ from one of them by a step that runs for it too. Two changes are
enough for a form opened before a repair and saved after it, and for a failed
setup between a form and its reload. What the properties excuse is said by
`dropped` and in `TakesOne`: a form saved while tokens of the option still wait
for Cloudflare drops them with the option, and a form opened before another
change writes back all it showed. `EventuallyMigrated` says that an entry is
brought up to date and loaded, or rests in "error". Fairness is that a setup
runs, is retried after an error that Home Assistant retries, and that a reload
that was asked for comes. With its changes spent the system rests:
deadlock is not checked.

`EntryStoreProofs.tla` proves, for every value of the constants:

- `TypeCorrect`: `Spec => []TypeOK`.
- `ClientsOnce` and `ClientsKept`: `NoDuplicateClients` and `NothingLost`. The
  invariant (`IInv`) says that an entry of an earlier release is untouched and
  as that release left it (`Readable`), that a token's client is of the kind
  setup looks for, and that the tokens still to look up are in the option and
  have no client. The lemmas `To2Type` to `To7Type` follow what an entry holds
  through each step of a migration, `MigratedKeeps` through all of them.
- `McpIssueIsTrue`: `McpIssueTrue` is inductive.
- `FieldsApart` (`OthersKeepTheirs`), whatever names people have. An open form
  shows everybody who shares a name with nobody the address that was stored when
  it was opened (`ShowsStored`), so what is submitted differs from it only in the
  field somebody changed (`SubmitMovesOne`). Two exceptions are in the property:
  a form opened before another change, and people whose login username is their
  address, who have no field.

`EventuallyMigrated` is liveness and only model-checked.

## Properties and mistakes

Each property of a passing run has a mutant in `PROJECT.json`: a definition, and
the same with a plausible mistake (`X_Y` beside `X`), with which TLC finds the
property violated. No specification uses those definitions.

## Not modelled

- The deletion of the clients' applications and tokens with the entry, renaming
  a client, the renewal of a token that still exists.
- Sign-in, account choice and first form: they run before there is an entry,
  one at a time. Self-registering apps are a subentry and no call.
- `bypass.py`, which suggests paths, and `logbook.py`, which words an event.
- Form layout, validation messages, log texts, the SDK's own retries and its
  other paginators, OAuth token refresh, cryptography, `scripts/` and the tests.

The fake Cloudflare of `tests/conftest.py` and
`docs/verified-cloudflare-behaviour.md` were read as the reference for how
Cloudflare answers. Induction over data, liveness and whatever rests on
recursive definitions are out of the prover's reach and stay with TLC.
