------------------------------- MODULE Origin -------------------------------
(***************************************************************************)
(* The origin rule: the middleware of edge_auth.py in Home Assistant's web *)
(* server, the key cache of jwks.py behind it, and the look-up of the user *)
(* in users.py.  Requests run concurrently and wait in one place, for the  *)
(* team's signing keys; the keys rotate, the entry reloads and follows the *)
(* External URL, and the users change while they wait.                     *)
(*                                                                         *)
(* A setup makes an EntryData, known here by its number.  Its refreshes    *)
(* belong to it and go on after it is unloaded.                            *)
(*                                                                         *)
(* A definition X_Y is X with a plausible mistake Y, and is not used.      *)
(***************************************************************************)
EXTENDS Integers

CONSTANTS
    Requests,       \* requests that arrive, each once
    Users,          \* users of Home Assistant
    Hosts,          \* hostnames
    MaxKey,         \* bound: signing keys the team comes to use
    MaxSetups,      \* bound: setups of the entry
    MaxChanges      \* bound: what administrators, users and Home Assistant do

ASSUME OriginAssumption ==
    /\ Requests # {} /\ Users # {} /\ Hosts # {}
    /\ MaxKey \in Nat \ {0} /\ MaxSetups \in Nat /\ MaxChanges \in Nat

VARIABLES
    newest,     \* the newest signing key; the one before it is still published
    gate,       \* the gate at Cloudflare: its hostname, its audience (0: no gate)
    url,        \* hostname of the External URL
    enabled,    \* the option
    people,     \* the users one address identifies, of those who may log in
    loaded,     \* the runtime_data of the loaded entry, 0 for none
    runtime,    \* every EntryData: hostname, policy_aud, the verifier's keys; where its
                \* refresh is, the hostname that falls back to, the option it read
    frozen,     \* the web server has started
    fits,       \* aiohttp keeps its chain where _inject looks for it
    installed,  \* hass.data[_MIDDLEWARE_INSTALLED]
    chain,      \* how often the middleware is in the server's chain
    issue,      \* ISSUE_MIDDLEWARE_UNAVAILABLE
    request,    \* the requests
    stranded,   \* history: a refresh ended with another hostname in the options than the
                \* gate's, or one of an unloaded EntryData wrote the gate
    replaced,   \* history: the EntryDatas whose gate was deleted since
    setups, changes

settings == <<newest, url, enabled, people>>
entry    == <<gate, loaded, runtime, stranded, replaced>>
server   == <<frozen, fits, installed, chain, issue>>
bounds   == <<setups, changes>>
vars == <<newest, gate, url, enabled, people, loaded, runtime, frozen, fits, installed,
          chain, issue, request, stranded, replaced, setups, changes>>

Keys == 1 .. MaxKey
Auds == 0 .. MaxSetups + MaxChanges + 1
Tokens == [key : Keys, aud : Auds \ {0}, sound : BOOLEAN]
NoRequest == [at |-> "new", host |-> CHOOSE h \in Hosts : TRUE, data |-> 0,
              token |-> [key |-> 1, aud |-> 1, sound |-> TRUE], got |-> {}, as |-> {}]

Outcomes == {"passed on", "accepted", "no keys", "unknown key", "unsound", "wrong gate",
             "no single user"}

Gates  == [host : Hosts, aud : Auds]
Stages == {"idle", "began", "reread", "wrote"}
EntryDatas == [host : Hosts, aud : Auds, keys : SUBSET Keys, at : Stages, back : Hosts,
               on : BOOLEAN]
RequestStates == [at : {"new", "asks", "answered"} \cup Outcomes, host : Hosts,
                  data : 0 .. MaxSetups, token : Tokens, got : SUBSET Keys, as : SUBSET Users]

TypeOK ==
    /\ newest \in Keys /\ url \in Hosts /\ people \subseteq Users
    /\ setups \in 0 .. MaxSetups /\ loaded \in 0 .. setups /\ changes \in 0 .. MaxChanges
    /\ gate \in Gates /\ replaced \subseteq 1 .. setups /\ chain \in Nat
    /\ runtime \in [1 .. setups -> EntryDatas]
    /\ request \in [Requests -> RequestStates]
    /\ enabled \in BOOLEAN /\ frozen \in BOOLEAN /\ fits \in BOOLEAN
    /\ installed \in BOOLEAN /\ issue \in BOOLEAN /\ stranded \in BOOLEAN

Init ==
    /\ newest = 1 /\ url \in Hosts /\ enabled \in BOOLEAN
    /\ people \in {{u} : u \in Users}
    /\ gate = [host |-> url, aud |-> 0]
    /\ loaded = 0 /\ runtime = [g \in {} |-> 0]
    /\ frozen \in BOOLEAN /\ fits \in BOOLEAN
    /\ installed = FALSE /\ chain = 0 /\ issue = FALSE
    /\ request = [r \in Requests |-> NoRequest]
    /\ stranded = FALSE /\ replaced = {} /\ setups = 0 /\ changes = 0

-----------------------------------------------------------------------------
(* The entry.                                                              *)

NewAud == setups + changes + 1

Provisioned_Anew(h, on) == [host |-> h, aud |-> IF on THEN NewAud ELSE 0]
\* The gate as a pass leaves it: one that is there keeps its audience, one that was
\* deleted is created again with a new one, and the option takes it down.
Provisioned(h, on) ==
    IF on THEN [host |-> h, aud |-> IF gate.aud # 0 THEN gate.aud ELSE NewAud]
    ELSE [gate EXCEPT !.aud = 0]

Deleted == gate.aud # 0 /\ gate'.aud = 0
Replaced == replaced' = IF Deleted THEN 1 .. setups ELSE replaced

AlreadyIn_Never == FALSE
AlreadyIn == installed

\* async_install_middleware: once per run, into a list or into the chain prepared of it.
Install ==
    LET fails == frozen /\ ~fits IN
    IF AlreadyIn THEN UNCHANGED <<installed, chain, issue>>
    ELSE /\ installed' = ~fails /\ issue' = fails
         /\ chain' = (IF fails THEN chain ELSE chain + 1)

\* async_setup_entry: the middleware first; what Cloudflare refuses comes after it.
SetUp ==
    /\ loaded = 0 /\ setups < MaxSetups
    /\ setups' = setups + 1
    /\ Install
    /\ gate' = Provisioned(url, enabled) /\ Replaced
    /\ runtime' = [g \in 1 .. setups' |->
                     IF g = setups' THEN [host |-> url, aud |-> gate'.aud, keys |-> {},
                                          at |-> "idle", back |-> url, on |-> enabled]
                     ELSE runtime[g]]
    /\ loaded' = setups' /\ stranded' = FALSE
    /\ UNCHANGED <<settings, frozen, fits, request, changes>>

\* Before it writes the gate, or after.
SetUpFails ==
    /\ loaded = 0 /\ setups < MaxSetups
    /\ changes < MaxChanges /\ changes' = changes + 1
    /\ Install
    /\ gate' \in {gate, Provisioned(url, enabled)} /\ Replaced
    /\ UNCHANGED <<settings, loaded, runtime, stranded, frozen, fits, request, setups>>

Change == changes < MaxChanges /\ changes' = changes + 1

\* A reload unloads first.
Unload ==
    /\ Change /\ loaded # 0
    /\ loaded' = 0 /\ stranded' = FALSE
    /\ enabled' \in BOOLEAN
    /\ UNCHANGED <<newest, url, people, gate, runtime, replaced, server, request, setups>>

\* A refresh takes the new options before it writes them to Cloudflare.  It runs for the
\* hostname, or for a change of users or clients.
RefreshStart(g) ==
    /\ g = loaded /\ runtime[g].at = "idle"
    /\ IF url = runtime[g].host THEN Change ELSE UNCHANGED changes
    /\ runtime' = [runtime EXCEPT ![g] =
                      [@ EXCEPT !.at = "began", !.host = url, !.back = runtime[g].host]]
    /\ UNCHANGED <<settings, gate, loaded, stranded, replaced, server, request, setups>>

\* With nobody left who has an address it ends there.
RefreshForNobody(g) ==
    /\ Change
    /\ g = loaded /\ runtime[g].at = "idle"
    /\ runtime' = [runtime EXCEPT ![g].host = url]
    /\ stranded' = (stranded \/ url # runtime[g].host)
    /\ UNCHANGED <<settings, gate, loaded, replaced, server, request, setups>>

\* The options are read again after the clients were reconciled.
RefreshReread(g) ==
    /\ runtime[g].at = "began"
    /\ runtime' = [runtime EXCEPT ![g] =
                      [@ EXCEPT !.at = "reread", !.host = url, !.on = enabled]]
    /\ UNCHANGED <<settings, gate, loaded, stranded, replaced, server, request, bounds>>

RefreshWrite(g) ==
    /\ runtime[g].at = "reread"
    /\ gate' = Provisioned(runtime[g].host, runtime[g].on) /\ Replaced
    /\ runtime' = [runtime EXCEPT ![g].at = "wrote"]
    /\ stranded' = (g # loaded)
    /\ UNCHANGED <<settings, loaded, server, request, bounds>>

RefreshDone(g) ==
    /\ runtime[g].at = "wrote"
    /\ runtime' = [runtime EXCEPT ![g].at = "idle"]
    /\ UNCHANGED <<settings, gate, loaded, stranded, replaced, server, request, bounds>>

FallBack_Never(g) == runtime[g].host
FallBack(g) == runtime[g].back

\* Cloudflare refuses, cannot be reached, or the answer to the write is lost: the old
\* options again, whether or not the gate was written.
RefreshFails(g) ==
    /\ Change
    /\ runtime[g].at # "idle"
    /\ runtime' = [runtime EXCEPT ![g] = [@ EXCEPT !.at = "idle", !.host = FallBack(g)]]
    /\ stranded' = (stranded \/ (/\ g = loaded /\ runtime[g].at = "wrote"
                                 /\ runtime[g].host # runtime[g].back))
    /\ UNCHANGED <<settings, gate, loaded, replaced, server, request, setups>>

\* An error _refresh does not catch leaves the new options.
RefreshBreaks(g) ==
    /\ Change
    /\ runtime[g].at # "idle"
    /\ runtime' = [runtime EXCEPT ![g].at = "idle"]
    /\ stranded' = (stranded \/ (/\ g = loaded /\ runtime[g].at # "wrote"
                                 /\ runtime[g].host # runtime[g].back))
    /\ UNCHANGED <<settings, gate, loaded, replaced, server, request, setups>>

-----------------------------------------------------------------------------
(* A request.                                                              *)

\* entry_for and _via_edge: the loaded entry, if the request came for its hostname.
Serves(h) ==
    /\ loaded # 0
    /\ runtime[loaded].aud # 0
    /\ runtime[loaded].host = h

Fetches_Once(g, key) == runtime[g].keys = {}
\* _key_for: a key not in the cache is asked for, by every request on its own.
Fetches(g, key) == key \notin runtime[g].keys

\* async_find_user: the one user with that identity.
MatchedBy(s) == \E u \in Users : s = {u}

\* The keys are there, the rest of verify and of _middleware waits for nothing.
Judged(q, keys) ==
    CASE q.token.key \notin keys           -> [q EXCEPT !.at = "unknown key"]
      [] ~q.token.sound                    -> [q EXCEPT !.at = "unsound"]
      [] q.token.aud # runtime[q.data].aud -> [q EXCEPT !.at = "wrong gate"]
      [] ~MatchedBy(people)                -> [q EXCEPT !.at = "no single user"]
      [] OTHER                             -> [q EXCEPT !.at = "accepted", !.as = people]

\* A bearer Home Assistant does not know, with an assertion, through the edge.
Arrive(r, h, t) ==
    LET q == [NoRequest EXCEPT !.host = h, !.token = t, !.data = loaded] IN
    /\ request[r].at = "new"
    /\ t.key <= newest /\ t.aud \in {gate.aud} \cup {runtime[g].aud : g \in 1 .. setups}
    /\ request' =
         [request EXCEPT ![r] =
            IF chain = 0 \/ ~Serves(h) THEN [q EXCEPT !.at = "passed on"]
            ELSE IF Fetches(loaded, t.key) THEN [q EXCEPT !.at = "asks"]
            ELSE Judged(q, runtime[loaded].keys)]
    /\ UNCHANGED <<settings, entry, server, bounds>>

Published_Both == {newest - 1, newest}
\* The key before the newest stays published.
Published == {k \in Keys : k \in {newest - 1, newest}}

Answer(r) ==
    /\ request[r].at = "asks"
    /\ request' = [request EXCEPT ![r] = [@ EXCEPT !.at = "answered", !.got = Published]]
    /\ UNCHANGED <<settings, entry, server, bounds>>

\* An error, an unusable answer, or none within fifteen seconds.
NoAnswer(r) ==
    /\ request[r].at \in {"asks", "answered"}
    /\ Change
    /\ request' = [request EXCEPT ![r].at = "no keys"]
    /\ UNCHANGED <<settings, entry, server, setups>>

\* refresh replaces the whole cache with the answer.
Kept(g, got) == got

\* The answer is there: the cache is replaced and looked at again at once.
Decide(r) ==
    LET q    == request[r]
        keys == Kept(q.data, q.got)
    IN /\ q.at = "answered"
       /\ runtime' = [runtime EXCEPT ![q.data].keys = keys]
       /\ request' = [request EXCEPT ![r] = Judged(q, keys)]
       /\ UNCHANGED <<settings, gate, loaded, stranded, replaced, server, bounds>>

-----------------------------------------------------------------------------
(* The rest of the world.                                                  *)

Rotate ==
    /\ newest < MaxKey
    /\ newest' = newest + 1
    /\ UNCHANGED <<url, enabled, people, entry, server, request, bounds>>

\* Users come, go and are deactivated; addresses are given and taken.
ChangePeople(s) ==
    /\ Change
    /\ s # people /\ people' = s
    /\ UNCHANGED <<newest, url, enabled, entry, server, request, setups>>

ChangeUrl(h) ==
    /\ Change
    /\ h # url /\ url' = h
    /\ UNCHANGED <<newest, enabled, people, entry, server, request, setups>>

Dashboard ==
    /\ Change
    /\ gate.aud # 0 /\ gate' = [gate EXCEPT !.aud = 0] /\ Replaced
    /\ UNCHANGED <<settings, loaded, runtime, stranded, server, request, setups>>

StartServer ==
    /\ ~frozen /\ frozen' = TRUE
    /\ UNCHANGED <<settings, entry, fits, installed, chain, issue, request, bounds>>

\* The requests that were under way get no answer; aiohttp may be another version.
Restart ==
    /\ Change
    /\ frozen' \in BOOLEAN /\ fits' \in BOOLEAN
    /\ installed' = FALSE /\ chain' = 0 /\ issue' = FALSE
    /\ loaded' = 0 /\ stranded' = FALSE
    /\ runtime' = [g \in 1 .. setups |-> [runtime[g] EXCEPT !.at = "idle"]]
    /\ request' = [r \in Requests |-> IF request[r].at \in Outcomes THEN request[r]
                                      ELSE NoRequest]
    /\ UNCHANGED <<settings, gate, replaced, setups>>

RequestNext == \E r \in Requests : Answer(r) \/ NoAnswer(r) \/ Decide(r)
RefreshNext == \E g \in 1 .. setups :
                   \/ RefreshStart(g) \/ RefreshForNobody(g) \/ RefreshReread(g)
                   \/ RefreshWrite(g) \/ RefreshDone(g) \/ RefreshFails(g) \/ RefreshBreaks(g)
EntryNext   == SetUp \/ SetUpFails \/ Unload \/ RefreshNext

Next ==
    \/ RequestNext \/ EntryNext \/ Rotate \/ Dashboard \/ StartServer \/ Restart
    \/ \E r \in Requests, h \in Hosts, t \in Tokens : Arrive(r, h, t)
    \/ \E s \in SUBSET Users : ChangePeople(s)
    \/ \E h \in Hosts : ChangeUrl(h)

Spec == Init /\ [][Next]_vars

-----------------------------------------------------------------------------
(* Properties                                                              *)

Decided(r, o) == request[r].at # o /\ request'[r].at = o

\* A rotation needs no restart (jwks.py:57): no request is refused for a key that is still
\* published, however many others fill the cache with answers that overtake each other.
RotationNeedsNoRestart ==
    [][\A r \in Requests : Decided(r, "unknown key") => request[r].token.key \notin Published]_vars

\* Unless the gate was deleted since the entry was set up, a token is judged by the gate
\* there is, however long the request waited, and whatever reloaded or refreshed meanwhile.
JudgedByItsGate ==
    [][\A r \in Requests :
          (Decided(r, "accepted") \/ Decided(r, "wrong gate")) /\ request'[r].data \notin replaced
             => (request'[r].at = "accepted" <=> request'[r].token.aud = gate.aud)]_vars

\* The loaded entry does not know the gate, or is taking it to another hostname.
Unknown == runtime[loaded].aud = 0
Moving  == runtime[loaded].at \in {"began", "reread"}

\* A request to the guarded hostname is left to Home Assistant, which knows nothing of the
\* bearer, only while the entry is not loaded, does not know the gate or is moving it, or
\* after a refresh that left options and gate apart.
PassedOnForCause ==
    [][\A r \in Requests : Decided(r, "passed on") /\ gate.aud # 0 =>
          \/ request'[r].host # gate.host
          \/ loaded = 0 \/ issue \/ Unknown \/ Moving
          \/ stranded]_vars

\* The middleware is in the server's chain once, whatever sets the entry up again, or an
\* issue says that it is not.
InstalledOnce ==
    /\ chain = (IF installed THEN 1 ELSE 0)
    /\ issue => ~installed
    /\ loaded # 0 => installed \/ issue
=============================================================================
