------------------------- MODULE GateLifecycleProofs -------------------------
(***************************************************************************)
(* Theorems about GateLifecycle, for any hostnames, any number of          *)
(* take-downs at the same time, of changes and of failed calls.            *)
(***************************************************************************)
EXTENDS GateLifecycle, TLAPS

Working(p) == passes[p].at # "idle"
Deleting(d) == downs[d].at # "idle"

\* What the entry's lock keeps apart.
Locks ==
    /\ Working("setup") => entry = "setup"
    /\ Deleting("unload") <=> entry = "unloading"
    /\ Deleting("remove") => entry = "removed"

\* While nothing is tangled, a pass is alone.
Alone == \A p \in Passes : Working(p) =>
            /\ \A q \in Passes : Working(q) => q = p
            /\ \A d \in Downs : ~Deleting(d)

\* The applications a pass is through with.
Handled(p, k) == passes[p].at = "save" \/ (passes[p].at = "gate" /\ k = "bypass")

OfRecord(p) == OnRecord \cup unsaved \cup passes[p].made

\* What a pass has found out stays true while it is alone: it carries on the recorded
\* applications that are still the entry's, and the ones it made.
PassKnows(p) ==
    /\ passes[p].at \in {"idle", "rest"} => passes[p].made = {}
    /\ passes[p].at \in Kinds \cup {"save"} =>
        /\ passes[p].known = ids
        /\ \A k \in Kinds : Handled(p, k) /\ Owned(ids[k]) => passes[p].got[k] = ids[k]
        /\ \A i \in passes[p].made : \E k \in Kinds : Handled(p, k) /\ passes[p].got[k] = i
    /\ passes[p].at \in Kinds /\ passes[p].call # "look" /\ Owned(ids[passes[p].at]) =>
        passes[p].call # "create" /\ passes[p].seen = ids[passes[p].at]
    /\ passes[p].at \in Kinds /\ passes[p].call = "update" =>
        /\ passes[p].seen \in OfRecord(p)
        /\ \A k \in Kinds : Handled(p, k) /\ passes[p].seen = ids[k] => passes[p].got[k] = ids[k]

\* A take-down has the ids on record, or another one has just forgotten them, and what it
\* is through with is gone.
DownKnows(d) ==
    /\ ids = None \/ ids = downs[d].known
    /\ downs[d].at \in {"bypass", "done"} => ~Owned(downs[d].known["gate"])
    /\ downs[d].at = "done" => ~Owned(downs[d].known["bypass"])

Kept == Ours \subseteq OnRecord \cup unsaved \cup UNION {passes[p].made : p \in Passes}

Records ==
    ~tangled =>
        /\ Alone /\ Kept
        /\ \A p \in Passes : PassKnows(p)
        /\ \A d \in Downs : Deleting(d) => DownKnows(d)

\* Somebody still has to act, as long as an entry that is disabled or removed has anything
\* on record.
Awaited ==
    /\ (entry = "not_loaded" /\ ~disabled) \/ entry = "unloading" => waiting # {}
    /\ disabled /\ entry \in {"setup", "loaded", "retry", "error"} => waiting # {}
Pending ==
    ~warned /\ ~tangled =>
        /\ disabled /\ entry = "not_loaded" /\ ~stopping /\ ids # None =>
              \E d \in Downs : Deleting(d)
        /\ entry = "removed" /\ DeletesOnRemove =>
              /\ \A p \in Passes : ~Working(p)
              /\ Deleting("remove") \/ OnRecord \cap Ours \subseteq unsaved

-----------------------------------------------------------------------------
(* Types, in the groups of variables that are written together.            *)

Settings ==
    /\ entry \in {"not_loaded", "setup", "loaded", "retry", "error", "unloading", "removed"}
    /\ disabled \in BOOLEAN /\ stopping \in BOOLEAN /\ due \in BOOLEAN
    /\ waiting \subseteq {"reload", "remove"}
    /\ wants \in [gate : BOOLEAN, bypass : BOOLEAN, host : Hosts]
    /\ snap \in Hosts /\ issues \subseteq Issues
    /\ differs \in BOOLEAN /\ silent \in BOOLEAN /\ missed \in BOOLEAN
    /\ warned \in BOOLEAN /\ edited \in BOOLEAN /\ tangled \in BOOLEAN
    /\ changes \in 0 .. MaxChanges /\ failures \in 0 .. MaxFailures

Cloud ==
    /\ next \in Nat \ {0}
    /\ DOMAIN apps \subseteq Id \ {0}
    /\ apps \in [DOMAIN apps -> [kind : Kinds, host : Hosts, tagged : BOOLEAN]]

PassStates == [at : {"idle", "save", "rest"} \cup Kinds,
               call : {"look", "create", "update", "delete"},
               seen : Id, known : [Kinds -> Id], got : [Kinds -> Id],
               gate : BOOLEAN, bypass : BOOLEAN, host : Hosts, made : SUBSET Id,
               prev : Hosts, mine : BOOLEAN]
DownStates == [at : {"idle", "done"} \cup Kinds, known : [Kinds -> Id]]

Workers ==
    /\ ids \in [Kinds -> Id] /\ aud \in Id /\ unsaved \subseteq Id
    /\ passes \in [Passes -> PassStates]
    /\ downs \in [Downs -> DownStates]

LEMMA TypeParts == TypeOK <=> Settings /\ Cloud /\ Workers
BY DEF TypeOK, Settings, Cloud, Workers, PassStates, DownStates

LEMMA TypePartsNext == TypeOK' <=> Settings' /\ Cloud' /\ Workers'
BY DEF TypeOK, Settings, Cloud, Workers, PassStates, DownStates, Id

LEMMA SomeHost == AnyHost \in Hosts
BY LifecycleAssumption DEF AnyHost

LEMMA RestingStates ==
    ASSUME Cloud
    PROVE  NoPass \in PassStates /\ NoDown \in DownStates /\ None \in [Kinds -> Id]
<1>1. 0 \in Id /\ None \in [Kinds -> Id]
  BY DEF Cloud, Id, None
<1> QED
  <2> DEFINE h == AnyHost
  <2>1. h \in Hosts
    BY SomeHost
  <2>2. NoPass = [at |-> "idle", call |-> "look", seen |-> 0, known |-> None, got |-> None,
                  gate |-> FALSE, bypass |-> FALSE, host |-> h, made |-> {},
                  prev |-> h, mine |-> FALSE]
    BY DEF NoPass
  <2> HIDE DEF h
  <2>3. NoPass \in PassStates
    BY <1>1, <2>1, <2>2 DEF PassStates
  <2>4. NoDown \in DownStates
    BY <1>1 DEF NoDown, DownStates
  <2> QED
    BY <1>1, <2>3, <2>4

LEMMA PassOfType ==
    ASSUME Cloud, Workers, Settings
    PROVE  PassOf(wants, ids) \in PassStates /\ PassOf(wants, ids).at = "bypass"
BY RestingStates DEF PassOf, PassStates, Workers, Settings, Kinds

LEMMA StartingType ==
    ASSUME NEW r \in [Kinds -> Id]
    PROVE  Starting(r) = [at |-> "gate", known |-> r] /\ Starting(r) \in DownStates
<1>1. \A k \in Kinds : (\A j \in Kinds : AfterDown[j] # k) <=> k = "gate"
  BY DEF Kinds, AfterDown
<1>2. (CHOOSE k \in Kinds : \A j \in Kinds : AfterDown[j] # k) = "gate"
  BY <1>1 DEF Kinds
<1> QED
  BY <1>2 DEF Starting, DownStates, Kinds

LEMMA TaskType ==
    ASSUME FreeTasks # {}
    PROVE  TaskAt \in Background /\ TaskAt \in Downs /\ downs[TaskAt].at = "idle"
BY DEF TaskAt, FreeTasks, Downs

\* What a write at Cloudflare does.
LEMMA EffectType ==
    ASSUME Cloud, Workers, NEW p \in Passes, NEW k \in Kinds, Effect(p, k)
    PROVE  /\ next' \in {next, next + 1} /\ Cloud'
           /\ Live' \ Live \subseteq Id' /\ Result(p) \in Id'
<1> DEFINE h == passes[p].host  i == passes[p].seen
<1>1. h \in Hosts /\ i \in Id /\ next \in Nat \ {0}
  BY DEF Workers, PassStates, Cloud
<1>2. CASE /\ passes[p].call = "create" /\ Taken(k, h) = {}
           /\ apps' = With(apps, next, [kind |-> k, host |-> h, tagged |-> TRUE])
           /\ next' = next + 1
  BY <1>1, <1>2 DEF With, Cloud, Id, Live, Result
<1>3. CASE /\ passes[p].call = "update" /\ i \in Live /\ Taken(k, h) \subseteq {i}
           /\ apps' = [apps EXCEPT ![i] = [kind |-> k, host |-> h, tagged |-> TRUE]]
           /\ UNCHANGED next
  BY <1>1, <1>3 DEF Cloud, Id, Live, Result
<1>4. CASE passes[p].call = "delete" /\ apps' = Without(apps, i) /\ UNCHANGED next
  BY <1>1, <1>4 DEF Without, Cloud, Id, Live, Result
<1> QED
  BY <1>2, <1>3, <1>4 DEF Effect

LEMMA InitType == Init => Settings /\ Cloud /\ Workers
<1> SUFFICES ASSUME Init PROVE Settings /\ Cloud /\ Workers
  OBVIOUS
<1>1. Cloud
  BY DEF Init, Cloud, Id
<1>2. Workers
  BY <1>1, RestingStates DEF Init, Workers, Cloud, Id
<1>3. wants \in [gate : BOOLEAN, bypass : BOOLEAN, host : Hosts]
  BY SomeHost DEF Init
<1>4. changes \in 0 .. MaxChanges /\ failures \in 0 .. MaxFailures
  BY LifecycleAssumption DEF Init
<1>5. Settings
  BY <1>3, <1>4 DEF Init, Settings
<1> QED
  BY <1>1, <1>2, <1>5

-----------------------------------------------------------------------------
(* Types: the steps.                                                       *)

LEMMA LookFrame ==
    ASSUME NEW p, NEW k, Look(p, k)
    PROVE  UNCHANGED <<apps, next, ids, disabled, wants, aud, entry, stopping, waiting, due,
                       downs, snap, differs, issues, silent, missed, warned, unsaved, tangled,
                       edited, changes, failures>>
<1>1. UNCHANGED <<cloud, stored, aud, entry, stopping, waiting, due, downs, refreshed,
                  history, bounds>>
  BY Zenon DEF Look
<1> QED
  BY <1>1 DEF cloud, stored, refreshed, history, bounds

LEMMA WriteFrame ==
    ASSUME NEW p, NEW k, Write(p, k)
    PROVE  UNCHANGED <<ids, disabled, wants, aud, entry, stopping, waiting, due,
                       downs, snap, differs, issues, silent, missed, warned, unsaved, tangled,
                       edited, changes, failures>>
<1>1. UNCHANGED <<stored, aud, entry, stopping, waiting, due, downs, refreshed, history,
                  bounds>>
  BY Zenon DEF Write
<1> QED
  BY <1>1 DEF stored, refreshed, history, bounds

\* A refresh that writes nothing.
Skips == RefreshUnchanged \/ RefreshForNobody

LEMMA FiresFrame ==
    ASSUME Fires
    PROVE  /\ entry \in {"loaded", "unloading"} /\ due /\ passes["refresh"].at = "idle"
           /\ due' = FALSE /\ missed' = FALSE
           /\ UNCHANGED <<apps, next, ids, disabled, wants, aud, entry, stopping, waiting, downs,
                          warned, unsaved, edited, silent, changes, failures>>
<1>1. UNCHANGED <<cloud, stored, aud, entry, stopping, waiting, downs, warned, unsaved, edited,
                  silent, bounds>>
  BY Zenon DEF Fires
<1>2. /\ entry \in {"loaded", "unloading"} /\ due /\ passes["refresh"].at = "idle"
      /\ due' = FALSE /\ missed' = FALSE
  BY Zenon DEF Fires
<1> QED
  BY <1>1, <1>2 DEF cloud, stored, bounds

LEMMA SkipsFrame ==
    ASSUME Skips
    PROVE  Fires /\ UNCHANGED <<passes, differs, tangled>>
BY Zenon DEF Skips, RefreshUnchanged, RefreshForNobody

LEMMA StartsFrame ==
    ASSUME RefreshStart
    PROVE  /\ Fires /\ snap' = wants.host /\ differs' = FALSE /\ Tangles(Everything)
           /\ issues' = issues \ {"no_allowed_users"}
           /\ passes' = [passes EXCEPT !["refresh"] =
                              [PassOf(wants, ids) EXCEPT !.prev = snap, !.mine = TRUE]]
BY Zenon DEF RefreshStart

\* What the failure of a pass leaves.
LEMMA FailsFrame ==
    ASSUME NEW p, NEW error, NEW m, PassFails(p, error, m)
    PROVE  /\ passes' = [passes EXCEPT ![p] = NoPass] /\ unsaved' = unsaved \cup m
           /\ IF p = "setup" THEN entry' \in {"retry", "error"} ELSE UNCHANGED entry
           /\ UNCHANGED <<ids, disabled, wants, aud, stopping, waiting, due, warned, edited,
                          missed>>
<1>1. UNCHANGED <<stored, aud, stopping, waiting, due, warned, edited, missed>>
  BY Zenon DEF PassFails
<1>2. /\ passes' = [passes EXCEPT ![p] = NoPass] /\ unsaved' = unsaved \cup m
      /\ entry' = (IF p = "setup" THEN SetupEnds(error) ELSE entry)
  BY Zenon DEF PassFails
<1> QED
  BY <1>1, <1>2 DEF stored, SetupEnds

LEMMA FailsSettings ==
    ASSUME Settings, Workers, NEW p \in Passes, NEW error \in Errors, NEW m,
           PassFails(p, error, m), tangled' \in BOOLEAN, changes' = changes,
           failures' \in 0 .. MaxFailures
    PROVE  Settings'
<1>1. entry' \in {entry, "retry", "error"}
      /\ UNCHANGED <<disabled, wants, stopping, waiting, due, warned, edited, missed>>
  BY FailsFrame
<1>2. snap' \in Hosts
  BY DEF PassFails, FallsBack, Settings, Workers, PassStates
<1>3. issues' \subseteq Issues
  BY DEF PassFails, Tells, Settings, Issues
<1>4. differs' \in BOOLEAN /\ silent' \in BOOLEAN
  BY Zenon DEF PassFails
<1> QED
  BY <1>1, <1>2, <1>3, <1>4 DEF Settings

LEMMA HeardSettings ==
    ASSUME NEW st, NEW r, tangled \in BOOLEAN, Heard(st, r)
    PROVE  tangled' \in BOOLEAN
BY DEF Heard, TakeDown, Tangles

LEMMA SettingsPass == Settings /\ Workers /\ PassNext => Settings'
<1> SUFFICES ASSUME Settings, Workers, PassNext PROVE Settings'
  OBVIOUS
<1> USE DEF Settings, cloud, stored, refreshed, history, bounds
<1>1. CASE SetupStart
  BY <1>1 DEF SetupStart, Tangles, Issues
<1>2. CASE Skips
  <2>1. snap' \in Hosts /\ issues' \subseteq Issues
    BY <1>2 DEF Skips, RefreshUnchanged, RefreshForNobody, Issues
  <2>2. UNCHANGED <<disabled, wants, entry, stopping, waiting, warned, edited, differs, silent,
                    tangled, changes, failures>>
    BY <1>2, SkipsFrame, FiresFrame
  <2>3. due' \in BOOLEAN /\ missed' \in BOOLEAN
    BY <1>2, SkipsFrame, FiresFrame
  <2> QED
    BY <2>1, <2>2, <2>3
<1>3. CASE RefreshStart
  <2>1. /\ snap' = wants.host /\ issues' = issues \ {"no_allowed_users"}
        /\ differs' = FALSE /\ tangled' = (tangled \/ Busy(Everything))
    BY <1>3, StartsFrame DEF Tangles
  <2>2. UNCHANGED <<disabled, wants, entry, stopping, waiting, warned, edited, silent,
                    changes, failures>>
    BY <1>3, StartsFrame, FiresFrame
  <2>3. due' \in BOOLEAN /\ missed' \in BOOLEAN
    BY <1>3, StartsFrame, FiresFrame
  <2>4. tangled' \in BOOLEAN
    BY <2>1, Zenon
  <2> QED
    BY <2>1, <2>2, <2>3, <2>4
<1>4. CASE SetupDone
  <2>1. snap' \in Hosts
    BY <1>4 DEF SetupDone, Workers, PassStates, Passes
  <2>2. due' \in BOOLEAN
    BY <1>4, Zenon DEF SetupDone, FirstRefresh
  <2> QED
    BY <1>4, <2>1, <2>2 DEF SetupDone
<1>5. CASE RefreshDone
  BY <1>5 DEF RefreshDone
<1>6. CASE \E p \in Passes : Save(p)
  <2> PICK p \in Passes : Save(p)
    BY <1>6
  <2>1. tangled' \in BOOLEAN
    BY HeardSettings DEF Save
  <2> QED
    BY <2>1 DEF Save
<1>7. CASE \E p \in Passes, k \in Kinds : Look(p, k) \/ Write(p, k)
  <2>1. UNCHANGED <<disabled, wants, entry, stopping, waiting, due, snap, differs, issues, silent,
                    missed, warned, edited, tangled, changes, failures>>
    BY <1>7, LookFrame, WriteFrame
  <2> QED
    BY <2>1
<1>8. MayFail("refused") \/ MayFail("answer") => failures' \in 0 .. MaxFailures
  BY LifecycleAssumption DEF MayFail
<1>9. CASE \E p \in Passes : CallFails(p)
  <2> PICK p \in Passes : CallFails(p)
    BY <1>9
  <2>1. /\ \E error \in Errors : PassFails(p, error, passes[p].made)
        /\ MayFail("refused") /\ UNCHANGED <<tangled, changes>>
    BY Zenon DEF CallFails
  <2> QED
    BY <1>8, <2>1, FailsSettings
<1>10. CASE \E p \in Passes, k \in Kinds : WriteAnswerLost(p, k)
  <2> PICK p \in Passes, k \in Kinds : WriteAnswerLost(p, k)
    BY <1>10
  <2>1. /\ \E error \in Errors : \E m : PassFails(p, error, m)
        /\ MayFail("answer") /\ UNCHANGED <<tangled, changes>>
    BY DEF WriteAnswerLost, Errors
  <2> QED
    BY <1>8, <2>1, FailsSettings
<1>11. CASE \E p \in Passes, k \in Kinds : WriteRefused(p, k)
  <2> PICK p \in Passes, k \in Kinds : WriteRefused(p, k)
    BY <1>11
  <2>1. PassFails(p, "api", passes[p].made) /\ UNCHANGED <<tangled, changes, failures>>
    BY Zenon DEF WriteRefused, bounds
  <2> QED
    BY <2>1, FailsSettings DEF Errors
<1> QED
  BY <1>1, <1>2, <1>3, <1>4, <1>5, <1>6, <1>7, <1>9, <1>10, <1>11 DEF PassNext, Skips

LEMMA SettingsDown == Settings /\ DownNext => Settings'
<1> SUFFICES ASSUME Settings, DownNext PROVE Settings'
  OBVIOUS
<1> USE DEF Settings, cloud, stored, refreshed, history, bounds
<1>1. CASE Unload
  <2>1. tangled' \in BOOLEAN
    BY <1>1, HeardSettings DEF Unload, Unloaded, Tangles
  <2> QED
    BY <1>1, <2>1 DEF Unload, Unloaded
<1>2. CASE StaysUnloaded
  BY <1>2 DEF StaysUnloaded
<1>3. CASE RemoveEntry
  BY <1>3 DEF RemoveEntry, Tangles
<1>4. CASE \E d \in Downs : DownDone(d)
  BY <1>4 DEF DownDone
<1>5. CASE \E d \in Downs, k \in Kinds : DeleteApp(d, k)
  BY <1>5 DEF DeleteApp
<1>6. CASE \E d \in Downs, k \in Kinds : DownFails(d, k)
  <2> PICK d \in Downs, k \in Kinds : DownFails(d, k)
    BY <1>6
  <2>1. failures' \in 0 .. MaxFailures
    BY LifecycleAssumption DEF DownFails, MayFail
  <2>2. tangled' \in BOOLEAN
    BY DEF DownFails, Tangles
  <2> QED
    BY <2>1, <2>2 DEF DownFails
<1> QED
  BY <1>1, <1>2, <1>3, <1>4, <1>5, <1>6 DEF DownNext

LEMMA SettingsStep == Settings /\ Workers /\ [Next]_vars => Settings'
<1> SUFFICES ASSUME Settings, Workers, [Next]_vars PROVE Settings'
  OBVIOUS
<1> USE DEF Settings, cloud, stored, refreshed, history, bounds
<1>1. CASE PassNext
  BY <1>1, SettingsPass
<1>2. CASE DownNext
  BY <1>2, SettingsDown
<1>3. CASE Environment
  <2>1. Change => changes' \in 0 .. MaxChanges
    BY LifecycleAssumption DEF Change
  <2>2. CASE \E g, b \in BOOLEAN : SetOptions(g, b)
    <3>1. wants' \in [gate : BOOLEAN, bypass : BOOLEAN, host : Hosts]
          /\ waiting' \subseteq {"reload", "remove"}
      BY <2>2 DEF SetOptions
    <3>2. UNCHANGED <<disabled, entry, stopping, due, snap, differs, issues, silent, missed,
                      warned, edited, tangled, failures>>
      BY <2>2 DEF SetOptions
    <3>3. changes' \in 0 .. MaxChanges
      BY <2>1, <2>2 DEF SetOptions
    <3> HIDE DEF Settings
    <3> QED
      BY <3>1, <3>2, <3>3 DEF Settings
  <2>3. CASE SetDisabled
    BY <2>1, <2>3 DEF SetDisabled
  <2>4. CASE Remove \/ Stop
    BY <2>1, <2>4 DEF Remove, Stop
  <2>5. CASE ChangeUsers
    <3>1. due' \in BOOLEAN
      BY <2>5, Zenon DEF ChangeUsers, Schedules
    <3> QED
      BY <2>1, <2>5, <3>1 DEF ChangeUsers
  <2>6. CASE \E h \in Hosts : ChangeUrl(h)
    <3>1. due' \in BOOLEAN /\ missed' \in BOOLEAN
      BY <2>6, Zenon DEF ChangeUrl, Schedules
    <3> QED
      BY <2>1, <2>6, <3>1 DEF ChangeUrl
  <2>7. CASE \E i \in Live : Dashboard(i)
    BY <2>1, <2>7 DEF Dashboard
  <2> QED
    BY <1>3, <2>2, <2>3, <2>4, <2>5, <2>6, <2>7 DEF Environment
<1>4. CASE Restart
  <2>1. changes' \in 0 .. MaxChanges
    BY <1>4, LifecycleAssumption DEF Restart, Change
  <2> QED
    BY <1>4, <2>1, SomeHost DEF Restart
<1>5. CASE UNCHANGED vars
  BY <1>5 DEF vars
<1> QED
  BY <1>1, <1>2, <1>3, <1>4, <1>5 DEF Next

\* The three ways a step works on the applications.
Writes(p, k) == passes[p].at = k /\ passes[p].call # "look" /\ Effect(p, k)

LEMMA CloudSteps ==
    [Next]_vars =>
        \/ UNCHANGED cloud
        \/ \E p \in Passes, k \in Kinds : Writes(p, k)
        \/ /\ UNCHANGED next
           /\ \E i : /\ Owned(i)
                     /\ \/ apps' = Without(apps, i)
                        \/ apps' = [apps EXCEPT ![i].tagged = FALSE]
<1> SUFFICES ASSUME [Next]_vars, ~UNCHANGED cloud
             PROVE  \/ \E p \in Passes, k \in Kinds : Writes(p, k)
                    \/ /\ UNCHANGED next
                       /\ \E i : /\ Owned(i)
                                 /\ \/ apps' = Without(apps, i)
                                    \/ apps' = [apps EXCEPT ![i].tagged = FALSE]
  OBVIOUS
<1>1. CASE PassNext
  <2>1. CASE SetupStart \/ Skips \/ RefreshStart \/ SetupDone \/ RefreshDone
    BY <2>1, SkipsFrame, StartsFrame, FiresFrame DEF SetupStart, SetupDone, RefreshDone, cloud
  <2>2. CASE \E p \in Passes : Save(p) \/ CallFails(p)
    BY <2>2 DEF Save, CallFails
  <2>3. CASE \E p \in Passes, k \in Kinds : Look(p, k) \/ WriteRefused(p, k)
    BY <2>3, LookFrame DEF WriteRefused, cloud
  <2>4. CASE \E p \in Passes, k \in Kinds : Write(p, k) \/ WriteAnswerLost(p, k)
    BY <2>4, Zenon DEF Write, WriteAnswerLost, Writes
  <2> QED
    BY <1>1, <2>1, <2>2, <2>3, <2>4 DEF PassNext, Skips
<1>2. CASE DownNext
  <2>1. CASE \E d \in Downs, k \in Kinds : DeleteApp(d, k) \/ DownFails(d, k)
    BY <2>1 DEF DeleteApp, DownFails, Deleted, cloud
  <2>2. CASE ~ \E d \in Downs, k \in Kinds : DeleteApp(d, k) \/ DownFails(d, k)
    BY <1>2, <2>2 DEF DownNext, Unload, StaysUnloaded, RemoveEntry, DownDone
  <2> QED
    BY <2>1, <2>2
<1>3. CASE Environment
  <2>1. CASE \E i \in Live : Dashboard(i)
    BY <2>1 DEF Dashboard
  <2>2. CASE ~ \E i \in Live : Dashboard(i)
    BY <1>3, <2>2 DEF Environment, SetOptions, SetDisabled, Remove, ChangeUsers, Stop,
                      ChangeUrl
  <2> QED
    BY <2>1, <2>2
<1>4. CASE Restart \/ UNCHANGED vars
  BY <1>4 DEF Restart, vars, cloud
<1> QED
  BY <1>1, <1>2, <1>3, <1>4 DEF Next

LEMMA CloudStep == Cloud /\ Workers /\ [Next]_vars => Cloud' /\ next' >= next
<1> SUFFICES ASSUME Cloud, Workers, [Next]_vars PROVE Cloud' /\ next' >= next
  OBVIOUS
<1>0. next \in Nat
  BY DEF Cloud
<1>1. CASE UNCHANGED cloud
  BY <1>0, <1>1 DEF cloud, Cloud, Id
<1>2. CASE \E p \in Passes, k \in Kinds : Writes(p, k)
  BY <1>0, <1>2, EffectType DEF Writes
<1>3. CASE UNCHANGED next /\ \E i : apps' = Without(apps, i)
  BY <1>0, <1>3 DEF Cloud, Id, Without
<1>4. CASE /\ UNCHANGED next
           /\ \E i : Owned(i) /\ apps' = [apps EXCEPT ![i].tagged = FALSE]
  <2> PICK i : Owned(i) /\ apps' = [apps EXCEPT ![i].tagged = FALSE]
    BY <1>4
  <2> DEFINE Bodies == [kind : Kinds, host : Hosts, tagged : BOOLEAN]
             body == [apps[i] EXCEPT !.tagged = FALSE]
  <2>1. apps[i] \in Bodies
    BY DEF Cloud, Live, Owned
  <2>2. body \in Bodies
    BY <2>1
  <2>3. apps' = [apps EXCEPT ![i] = body]
    OBVIOUS
  <2>4. apps \in [DOMAIN apps -> Bodies]
    BY DEF Cloud
  <2> HIDE DEF Bodies, body
  <2>5. apps' \in [DOMAIN apps -> Bodies] /\ DOMAIN apps' = DOMAIN apps
    BY <2>2, <2>3, <2>4
  <2>6. apps' \in [DOMAIN apps' -> Bodies]
    BY <2>5
  <2>7. DOMAIN apps' \subseteq Id' \ {0} /\ next' \in Nat \ {0}
    BY <1>4, <2>5 DEF Cloud, Id
  <2> QED
    BY <1>0, <1>4, <2>6, <2>7 DEF Cloud, Bodies
<1> QED
  BY <1>1, <1>2, <1>3, <1>4, CloudSteps

\* Ids are never given back.
LEMMA IdsGrow ==
    ASSUME Cloud, Cloud', next' >= next
    PROVE  /\ Id \subseteq Id' /\ [Kinds -> Id] \subseteq [Kinds -> Id']
           /\ PassStates \subseteq PassStates' /\ DownStates \subseteq DownStates'
<1>1. Id \subseteq Id'
  BY DEF Cloud, Id
<1>2. [Kinds -> Id] \subseteq [Kinds -> Id']
  BY <1>1
<1>3. PassStates \subseteq PassStates'
  BY <1>1, <1>2 DEF PassStates
<1>4. DownStates \subseteq DownStates'
  BY <1>2 DEF DownStates
<1> QED
  BY <1>1, <1>2, <1>3, <1>4

LEMMA HeardType ==
    ASSUME Workers, NEW st, NEW r \in [Kinds -> Id], Heard(st, r)
    PROVE  downs' \in [Downs -> DownStates]
BY TaskType, StartingType DEF Heard, TakeDown, Workers

\* While the cloud is as it is, the types of what refers to it are as they are.
SameIds ==
    /\ Id' = Id /\ PassStates' = PassStates /\ DownStates' = DownStates

LEMMA SameIdsOf == next' = next => SameIds
BY DEF SameIds, Id, PassStates, DownStates

LEMMA LookType ==
    ASSUME Cloud, Workers, NEW p \in Passes, NEW k \in Kinds, Look(p, k)
    PROVE  /\ passes' \in [Passes -> PassStates]
           /\ \A q \in Passes : q # p => passes'[q] = passes[q]
<1> DEFINE goOn(i)  == [passes[p] EXCEPT !.at = After[k], !.got[k] = i]
           does(c, i) == [passes[p] EXCEPT !.call = c, !.seen = i]
<1>1. passes[p] \in PassStates /\ After[k] \in {"save", "gate"} /\ 0 \in Id
  BY DEF Workers, After, Kinds, Cloud, Id
<1>2. \A i \in Id : goOn(i) \in PassStates
  BY <1>1 DEF PassStates, Kinds
<1>3. \A i \in Id, c \in {"create", "update", "delete"} : does(c, i) \in PassStates
  BY <1>1 DEF PassStates
<1>4. Found(p, k) \subseteq Id
  BY DEF Found, Taken, Owned, Cloud, Live
<1>5. \E r \in PassStates : passes' = [passes EXCEPT ![p] = r]
  <2>1. \/ /\ Found(p, k) = {}
           /\ \/ passes' = [passes EXCEPT ![p] = does("create", 0)]
              \/ passes' = [passes EXCEPT ![p] = goOn(0)]
        \/ \E i \in Found(p, k) :
              \/ passes' = [passes EXCEPT ![p] = does("delete", i)]
              \/ passes' = [passes EXCEPT ![p] = does("update", i)]
              \/ passes' = [passes EXCEPT ![p] = goOn(i)]
    BY Zenon DEF Look
  <2> QED
    BY <1>1, <1>2, <1>3, <1>4, <2>1
<1> QED
  BY <1>5 DEF Workers

LEMMA WriteType ==
    ASSUME Cloud, Workers, NEW p \in Passes, NEW k \in Kinds, Write(p, k)
    PROVE  /\ passes' \in [Passes -> PassStates']
           /\ \A q \in Passes : q # p => passes'[q] = passes[q]
           /\ passes'[p].at = After[k] /\ passes'[p].call = "look"
           /\ passes'[p].got = [passes[p].got EXCEPT ![k] = Result(p)]
           /\ passes'[p].known = passes[p].known
           /\ passes'[p].made = passes[p].made \cup (Live' \ Live)
<1>1. Effect(p, k)
  BY DEF Write
<1>2. /\ next' \in {next, next + 1} /\ Cloud'
      /\ Live' \ Live \subseteq Id' /\ Result(p) \in Id'
  BY <1>1, EffectType
<1>3. /\ Id \subseteq Id' /\ PassStates \subseteq PassStates'
      /\ [Kinds -> Id] \subseteq [Kinds -> Id']
  BY <1>2, IdsGrow DEF Cloud
<1> DEFINE r == [passes[p] EXCEPT !.at = After[k], !.call = "look", !.seen = 0,
                                  !.got = [passes[p].got EXCEPT ![k] = Result(p)],
                                  !.made = passes[p].made \cup (Live' \ Live)]
<1>4. passes' = [passes EXCEPT ![p] = r]
  <2>1. passes' = [passes EXCEPT ![p].at = After[k], ![p].call = "look", ![p].seen = 0,
                                 ![p].got[k] = Result(p),
                                 ![p].made = @ \cup (Live' \ Live)]
    BY Zenon DEF Write
  <2>2. passes \in [Passes -> PassStates] /\ passes[p] \in PassStates
    BY DEF Workers
  <2> QED
    BY <2>1, <2>2 DEF PassStates
<1>5. passes[p] \in PassStates'
  BY <1>3 DEF Workers
<1>6. After[k] \in {"save", "gate"} /\ 0 \in Id'
  BY <1>2 DEF After, Kinds, Cloud, Id
<1>7. [passes[p].got EXCEPT ![k] = Result(p)] \in [Kinds -> Id']
  BY <1>2, <1>5 DEF PassStates
<1>8. r \in PassStates'
  BY <1>2, <1>5, <1>6, <1>7 DEF PassStates, Kinds
<1>9. /\ r.at = After[k] /\ r.call = "look" /\ r.known = passes[p].known
      /\ r.got = [passes[p].got EXCEPT ![k] = Result(p)]
      /\ r.made = passes[p].made \cup (Live' \ Live)
  BY <1>5 DEF PassStates
<1> HIDE DEF r
<1> QED
  BY <1>3, <1>4, <1>8, <1>9 DEF Workers

LEMMA PassFailsType ==
    ASSUME Cloud, Workers, Cloud', next' >= next, NEW p \in Passes, NEW error,
           NEW made \in SUBSET Id', PassFails(p, error, made), UNCHANGED downs
    PROVE  Workers'
<1>1. /\ Id \subseteq Id' /\ [Kinds -> Id] \subseteq [Kinds -> Id']
      /\ PassStates \subseteq PassStates' /\ DownStates \subseteq DownStates'
  BY IdsGrow
<1>2. passes' \in [Passes -> PassStates']
  BY <1>1, RestingStates, FailsFrame DEF Workers
<1>3. downs' \in [Downs -> DownStates']
  BY <1>1 DEF Workers
<1>4. UNCHANGED <<ids, aud>> /\ unsaved' = unsaved \cup made
  BY FailsFrame
<1> QED
  BY <1>1, <1>2, <1>3, <1>4 DEF Workers

LEMMA WorkersPass ==
    ASSUME Settings, Cloud, Workers, Cloud', next' >= next, PassNext
    PROVE  Workers'
<1> USE DEF cloud, stored, refreshed, history, bounds
<1>0. next' = next => Id' = Id /\ PassStates' = PassStates /\ DownStates' = DownStates
  BY SameIdsOf DEF SameIds
<1>1. CASE SetupStart
  BY <1>0, <1>1, PassOfType DEF SetupStart, Workers
<1>2. CASE RefreshStart
  <2> DEFINE r == [PassOf(wants, ids) EXCEPT !.prev = snap, !.mine = TRUE]
  <2>1. r \in PassStates
    BY PassOfType DEF PassStates, Settings
  <2> HIDE DEF r
  <2>2. passes' = [passes EXCEPT !["refresh"] = r]
    BY <1>2, StartsFrame DEF r
  <2>3. UNCHANGED <<next, ids, aud, unsaved, downs>>
    BY <1>2, StartsFrame, FiresFrame
  <2> QED
    BY <1>0, <2>1, <2>2, <2>3 DEF Workers
<1>3. CASE SetupDone
  <2>1. Audience \in Id
    BY DEF Audience, Workers, PassStates, Passes, Kinds
  <2>2. passes' \in [Passes -> PassStates]
    <3>1. [passes["refresh"] EXCEPT !.mine = FALSE] \in PassStates
      BY DEF Workers, PassStates, Passes
    <3>2. passes' = [passes EXCEPT !["setup"] = NoPass,
                                   !["refresh"] = [passes["refresh"] EXCEPT !.mine = FALSE]]
      BY <1>3 DEF SetupDone
    <3> QED
      BY <3>1, <3>2, RestingStates DEF Workers
  <2> QED
    BY <1>0, <1>3, <2>1, <2>2 DEF SetupDone, Workers
<1>4. CASE RefreshDone
  BY <1>0, <1>4, RestingStates DEF RefreshDone, Workers
<1>5. CASE \E p \in Passes : Save(p)
  <2> PICK p \in Passes : Save(p)
    BY <1>5
  <2>1. passes[p] \in PassStates /\ next' = next
    BY DEF Workers, Save
  <2>2. Stored(p) \in [Kinds -> Id] /\ passes[p].made \subseteq Id
    BY <2>1 DEF Stored, PassStates
  <2>3. ids' \in [Kinds -> Id] /\ unsaved' \subseteq Id /\ aud' = aud
    BY <2>2 DEF Save, Workers
  <2>4. passes' \in [Passes -> PassStates]
    <3>1. CASE passes' = [passes EXCEPT ![p].at = "rest", ![p].made = {}]
      BY <2>1, <3>1 DEF Workers, PassStates
    <3>2. CASE passes' = [passes EXCEPT ![p] = NoPass]
      BY <3>2, RestingStates DEF Workers
    <3> QED
      BY <3>1, <3>2 DEF Save
  <2>5. downs' \in [Downs -> DownStates]
    <3>1. UNCHANGED downs \/ Heard(entry, ids')
      BY DEF Save
    <3>2. CASE Heard(entry, ids')
      BY <2>3, <3>2, HeardType
    <3> QED
      BY <3>1, <3>2 DEF Workers
  <2> QED
    BY <1>0, <2>1, <2>3, <2>4, <2>5 DEF Workers
<1>6. CASE \E p \in Passes : CallFails(p)
  <2> PICK p \in Passes : CallFails(p)
    BY <1>6
  <2>1. passes[p].made \in SUBSET Id'
    BY <1>0 DEF Workers, PassStates, CallFails
  <2> QED
    BY <2>1, PassFailsType DEF CallFails
<1>7. CASE \E p \in Passes, k \in Kinds : Look(p, k)
  <2> PICK p \in Passes, k \in Kinds : Look(p, k)
    BY <1>7
  <2>1. passes' \in [Passes -> PassStates]
    BY LookType
  <2>2. UNCHANGED <<next, ids, aud, unsaved, downs>>
    BY LookFrame
  <2> QED
    BY <1>0, <2>1, <2>2 DEF Workers
<1>8. CASE \E p \in Passes, k \in Kinds : Write(p, k)
  <2> PICK p \in Passes, k \in Kinds : Write(p, k)
    BY <1>8
  <2>1. passes' \in [Passes -> PassStates']
    BY WriteType
  <2>2. UNCHANGED <<ids, aud, unsaved, downs>>
    BY WriteFrame
  <2>3. Id \subseteq Id' /\ [Kinds -> Id] \subseteq [Kinds -> Id'] /\ DownStates \subseteq DownStates'
    BY IdsGrow
  <2>4. downs' \in [Downs -> DownStates']
    BY <2>2, <2>3 DEF Workers
  <2> QED
    BY <2>1, <2>2, <2>3, <2>4 DEF Workers
<1>9. CASE \E p \in Passes, k \in Kinds : WriteAnswerLost(p, k)
  <2> PICK p \in Passes, k \in Kinds : WriteAnswerLost(p, k)
    BY <1>9
  <2>1. Effect(p, k)
    BY DEF WriteAnswerLost
  <2>2. passes[p].made \cup (Live' \ Live) \in SUBSET Id'
    BY <2>1, EffectType, IdsGrow DEF Workers, PassStates
  <2> QED
    BY <2>2, PassFailsType DEF WriteAnswerLost
<1>10. CASE \E p \in Passes, k \in Kinds : WriteRefused(p, k)
  <2> PICK p \in Passes, k \in Kinds : WriteRefused(p, k)
    BY <1>10
  <2>1. passes[p].made \in SUBSET Id'
    BY <1>0 DEF Workers, PassStates, WriteRefused
  <2> QED
    BY <2>1, PassFailsType DEF WriteRefused
<1>11. CASE Skips
  <2>1. UNCHANGED <<next, ids, aud, unsaved, downs, passes>>
    BY <1>11, SkipsFrame, FiresFrame
  <2> QED
    BY <1>0, <2>1 DEF Workers
<1> QED
  BY <1>1, <1>2, <1>3, <1>4, <1>5, <1>6, <1>7, <1>8, <1>9, <1>10, <1>11 DEF PassNext, Skips

LEMMA DownType ==
    ASSUME NEW d \in Downs, Workers, NEW r \in DownStates
    PROVE  [downs EXCEPT ![d] = r] \in [Downs -> DownStates]
BY DEF Workers

LEMMA WorkersDown ==
    ASSUME Settings, Cloud, Workers, DownNext
    PROVE  Workers'
<1> USE DEF cloud, stored, refreshed, history, bounds
<1>0. next' = next => Id' = Id /\ PassStates' = PassStates /\ DownStates' = DownStates
  BY SameIdsOf DEF SameIds
<1>1. CASE Unload
  <2>1. downs' \in [Downs -> DownStates]
    <3>1. "unload" \in Downs /\ Starting(ids) \in DownStates
      BY StartingType DEF Downs, Workers
    <3>2. ids \in [Kinds -> Id]
      BY DEF Workers
    <3>3. CASE Unloaded(ids)
      BY <3>2, <3>3, HeardType DEF Unloaded
    <3>4. CASE downs' = [downs EXCEPT !["unload"] = Starting(ids)]
      BY <3>1, <3>4, DownType
    <3> QED
      BY <1>1, <3>3, <3>4 DEF Unload
  <2> QED
    BY <1>0, <1>1, <2>1 DEF Unload, Workers
<1>2. CASE StaysUnloaded
  BY <1>0, <1>2 DEF StaysUnloaded, Workers
<1>3. CASE RemoveEntry
  <2>1. "remove" \in Downs /\ Starting(ids) \in DownStates
    BY StartingType DEF Downs, Workers
  <2> QED
    BY <1>0, <1>3, <2>1 DEF RemoveEntry, Workers
<1>4. CASE \E d \in Downs : DownDone(d)
  BY <1>0, <1>4, RestingStates DEF DownDone, Workers
<1>5. CASE \E d \in Downs, k \in Kinds : DeleteApp(d, k)
  <2> PICK d \in Downs, k \in Kinds : DeleteApp(d, k)
    BY <1>5
  <2>1. AfterDown[k] \in {"idle", "done"} \cup Kinds
    BY DEF AfterDown, Kinds
  <2>2. downs[d] \in DownStates
    BY DEF Workers
  <2>3. [downs[d] EXCEPT !.at = AfterDown[k]] \in DownStates
    BY <2>1, <2>2 DEF DownStates
  <2>4. downs' = [downs EXCEPT ![d] = [downs[d] EXCEPT !.at = AfterDown[k]]]
    BY DEF DeleteApp
  <2> QED
    BY <1>0, <2>3, <2>4 DEF DeleteApp, Workers
<1>6. CASE \E d \in Downs, k \in Kinds : DownFails(d, k)
  <2> PICK d \in Downs, k \in Kinds : DownFails(d, k)
    BY <1>6
  <2> DEFINE rest == [downs EXCEPT ![d] = NoDown]
  <2>1. rest \in [Downs -> DownStates]
    BY RestingStates, DownType
  <2>2. Starting(ids) \in DownStates
    BY StartingType DEF Workers
  <2>3. downs' \in [Downs -> DownStates]
    <3>1. \/ downs' = rest
          \/ FreeTasks # {} /\ downs' = [rest EXCEPT ![TaskAt] = Starting(ids)]
      BY DEF DownFails
    <3> HIDE DEF rest
    <3>2. FreeTasks # {} => TaskAt \in Downs
      BY TaskType
    <3> QED
      BY <2>1, <2>2, <3>1, <3>2
  <2> QED
    BY <1>0, <2>3 DEF DownFails, Workers
<1> QED
  BY <1>1, <1>2, <1>3, <1>4, <1>5, <1>6 DEF DownNext

LEMMA RestartUnsaved ==
    ASSUME Workers
    PROVE  unsaved \cup (UNION {passes[p].made : p \in Passes})
              \cup (IF downs["remove"].at = "idle" THEN {} ELSE {ids[k] : k \in Kinds})
           \subseteq Id
<1>1. \A p \in Passes : passes[p].made \subseteq Id
  BY DEF Workers, PassStates
<1>2. UNION {passes[p].made : p \in Passes} \subseteq Id
  BY <1>1
<1>3. {ids[k] : k \in Kinds} \subseteq Id
  BY DEF Workers
<1> QED
  BY <1>2, <1>3 DEF Workers

LEMMA WorkersRest ==
    ASSUME Settings, Cloud, Workers, Environment \/ Restart \/ UNCHANGED vars
    PROVE  Workers'
<1> USE DEF cloud, stored, refreshed, history, bounds
<1>0. next' = next => Id' = Id /\ PassStates' = PassStates /\ DownStates' = DownStates
  BY SameIdsOf DEF SameIds
<1>1. CASE Environment
  <2>1. UNCHANGED <<next, ids, aud, unsaved, passes, downs>>
    BY <1>1 DEF Environment, SetOptions, SetDisabled, Remove, ChangeUsers, Stop, ChangeUrl,
                Dashboard
  <2> QED
    BY <1>0, <2>1 DEF Workers
<1>2. CASE Restart
  <2>1. downs' \in [Downs -> DownStates]
    <3>1. Starting(ids) \in DownStates /\ NoDown \in DownStates
      BY StartingType, RestingStates DEF Workers
    <3>2. AtStart(ids) \in [Downs -> DownStates]
      BY <3>1 DEF AtStart
    <3> QED
      BY <1>2, <3>2 DEF Restart
  <2>2. unsaved' \subseteq Id
    BY <1>2, RestartUnsaved DEF Restart
  <2>3. passes' \in [Passes -> PassStates]
    BY <1>2, RestingStates DEF Restart
  <2>4. next' = next /\ ids' = ids /\ aud' = 0 /\ 0 \in Id
    BY <1>2 DEF Restart, Cloud, Id
  <2> QED
    BY <1>0, <2>1, <2>2, <2>3, <2>4 DEF Workers
<1>3. CASE UNCHANGED vars
  BY <1>0, <1>3 DEF vars, Workers
<1> QED
  BY <1>1, <1>2, <1>3

LEMMA TypeStep == TypeOK /\ [Next]_vars => TypeOK'
<1> SUFFICES ASSUME Settings, Cloud, Workers, [Next]_vars
             PROVE  Settings' /\ Cloud' /\ Workers'
  BY TypeParts, TypePartsNext
<1>1. Settings'
  BY SettingsStep
<1>2. Cloud' /\ next' >= next
  BY CloudStep
<1>3. Workers'
  BY <1>2, WorkersPass, WorkersDown, WorkersRest DEF Next
<1> QED
  BY <1>1, <1>2, <1>3

\* The types, whatever fails and whatever is done when.
THEOREM TypeCorrect == Spec => []TypeOK
<1>1. Init => TypeOK
  BY InitType, TypeParts
<1> QED
  BY <1>1, TypeStep, PTL DEF Spec

\* Only applications with the entry's tag are updated or deleted, but for one that loses it
\* between a pass's look and its write.
THEOREM OwnOnly == Spec => ForeignUntouched
<1> DEFINE Step == \A i \in Live \ Ours :
                      \/ i \in DOMAIN apps' /\ apps'[i] = apps[i]
                      \/ \E p \in Passes : passes[p].seen = i
<1>1. TypeOK /\ [Next]_vars => Step
  <2> SUFFICES ASSUME Cloud, Workers, [Next]_vars, NEW i \in Live, i \notin Ours
               PROVE  \/ i \in DOMAIN apps' /\ apps'[i] = apps[i]
                      \/ \E p \in Passes : passes[p].seen = i
    BY TypeParts
  <2>0. i \in DOMAIN apps /\ ~Owned(i) /\ i # next
    BY DEF Live, Ours, Owned, Cloud, Id
  <2>1. CASE UNCHANGED cloud
    BY <2>0, <2>1 DEF cloud
  <2>2. CASE \E p \in Passes, k \in Kinds : Writes(p, k)
    BY <2>0, <2>2 DEF Writes, Effect, With, Without
  <2>3. CASE \E j : Owned(j) /\ (apps' = Without(apps, j) \/ apps' = [apps EXCEPT ![j].tagged = FALSE])
    BY <2>0, <2>3 DEF Without, Cloud
  <2> QED
    BY <2>1, <2>2, <2>3, CloudSteps
<1> QED
  BY <1>1, TypeCorrect, PTL DEF Spec, ForeignUntouched

-----------------------------------------------------------------------------
(* The lock, and what is still awaited.                                    *)

\* Hearing an update starts at most one task, and a pass at work is then tangled.
LEMMA HeardDowns ==
    ASSUME NEW st, NEW r, Heard(st, r)
    PROVE  \/ UNCHANGED <<downs, tangled>>
           \/ \E d \in Background : /\ downs[d].at = "idle"
                                    /\ downs' = [downs EXCEPT ![d] = Starting(r)]
                                    /\ Tangles(Passes)
BY TaskType DEF Heard, TakeDown

LEMMA TasksApart == \A d \in Background : d \in Downs /\ d # "unload" /\ d # "remove"
BY LifecycleAssumption DEF Downs

LEMMA LocksPass ==
    ASSUME Settings, Cloud, Workers, Locks, PassNext
    PROVE  Locks'
<1> USE DEF Locks, Working, Deleting
<1>0. passes \in [Passes -> PassStates] /\ downs \in [Downs -> DownStates]
      /\ "setup" \in Passes /\ "refresh" \in Passes
      /\ "unload" \in Downs /\ "remove" \in Downs
  BY DEF Workers, Passes, Downs
<1>1. CASE SetupStart
  BY <1>0, <1>1 DEF SetupStart, Locked
<1>2. CASE RefreshStart
  <2>1. passes'["setup"] = passes["setup"] /\ UNCHANGED <<entry, downs>>
    BY <1>0, <1>2, StartsFrame, FiresFrame
  <2> QED
    BY <2>1
<1>3. CASE SetupDone
  <2>1. passes'["setup"] = NoPass /\ entry' = "loaded" /\ UNCHANGED downs
    BY <1>0, <1>3 DEF SetupDone
  <2>2. passes["setup"].at = "rest"
    BY <1>3 DEF SetupDone
  <2> QED
    BY <1>0, <2>1, <2>2 DEF NoPass
<1>4. CASE RefreshDone
  BY <1>0, <1>4 DEF RefreshDone
<1>5. CASE \E p \in Passes : Save(p)
  <2> PICK p \in Passes : Save(p)
    BY <1>5
  <2>1. \A d \in {"unload", "remove"} : downs'[d].at = downs[d].at
    <3>1. UNCHANGED downs \/ Heard(entry, ids')
      BY DEF Save
    <3> QED
      BY <1>0, <3>1, HeardDowns, TasksApart
  <2>2. \A q \in Passes : passes'[q].at # "idle" => passes[q].at # "idle"
    BY <1>0 DEF Save, NoPass
  <2>3. entry' = entry
    BY DEF Save
  <2> QED
    BY <1>0, <2>1, <2>2, <2>3
<1>6. CASE \E p \in Passes : \E error, m :
              passes[p].at # "idle" /\ PassFails(p, error, m) /\ UNCHANGED downs
  <2> PICK p \in Passes : \E error, m :
              passes[p].at # "idle" /\ PassFails(p, error, m) /\ UNCHANGED downs
    BY <1>6
  <2>1. passes' = [passes EXCEPT ![p] = NoPass] /\ NoPass.at = "idle"
    BY FailsFrame DEF NoPass
  <2>2. IF p = "setup" THEN entry' \in {"retry", "error"} ELSE UNCHANGED entry
    BY FailsFrame
  <2> QED
    BY <1>0, <2>1, <2>2
<1>7. CASE \E p \in Passes : CallFails(p)
  <2>1. \A p \in Passes : CallFails(p) => /\ passes[p].at # "idle" /\ UNCHANGED downs
                                          /\ \E error, m : PassFails(p, error, m)
    BY DEF CallFails
  <2> QED
    BY <1>6, <1>7, <2>1
<1>8. CASE \E p \in Passes, k \in Kinds : WriteAnswerLost(p, k)
  <2>1. \A p \in Passes, k \in Kinds : WriteAnswerLost(p, k) =>
           /\ passes[p].at # "idle" /\ UNCHANGED downs
           /\ \E error, m : PassFails(p, error, m)
    BY DEF WriteAnswerLost, Kinds
  <2> QED
    BY <1>6, <1>8, <2>1
<1>9. CASE \E p \in Passes, k \in Kinds : WriteRefused(p, k)
  <2>1. \A p \in Passes, k \in Kinds : WriteRefused(p, k) =>
           /\ passes[p].at # "idle" /\ UNCHANGED downs
           /\ \E error, m : PassFails(p, error, m)
    BY DEF WriteRefused, Kinds
  <2> QED
    BY <1>6, <1>9, <2>1
<1>10. CASE \E p \in Passes, k \in Kinds : Look(p, k) \/ Write(p, k)
  <2> PICK p \in Passes, k \in Kinds : Look(p, k) \/ Write(p, k)
    BY <1>10
  <2>1. passes[p].at = k /\ k # "idle"
    BY Zenon DEF Look, At, Write, Kinds
  <2>2. \A q \in Passes : q # p => passes'[q].at = passes[q].at
    BY LookType, WriteType
  <2>3. UNCHANGED <<entry, downs>>
    BY LookFrame, WriteFrame
  <2> QED
    BY <1>0, <2>1, <2>2, <2>3
<1>11. CASE Skips
  BY <1>11, SkipsFrame, FiresFrame
<1> QED
  BY <1>1, <1>2, <1>3, <1>4, <1>5, <1>7, <1>8, <1>9, <1>10, <1>11 DEF PassNext, Skips

\* What a failing take-down leaves running.
LEMMA FailedDowns ==
    ASSUME Workers, NEW d \in Downs, NEW k \in Kinds, DownFails(d, k)
    PROVE  /\ downs[d].at = k /\ downs'[d].at = "idle"
           /\ \A c \in {"unload", "remove"} : c # d => downs'[c] = downs[c]
           /\ \/ downs' = [downs EXCEPT ![d] = NoDown] /\ UNCHANGED tangled
              \/ \E b \in Background :
                    /\ b # d /\ downs[b].at = "idle"
                    /\ downs' = [downs EXCEPT ![d] = NoDown, ![b] = Starting(ids)]
                    /\ Tangles(Passes)
<1>1. downs \in [Downs -> DownStates] /\ "unload" \in Downs /\ "remove" \in Downs
  BY DEF Workers, Downs
<1>2. downs[d].at = k /\ NoDown.at = "idle" /\ k # "idle"
  BY DEF DownFails, NoDown, Kinds
<1>3. \/ downs' = [downs EXCEPT ![d] = NoDown] /\ UNCHANGED tangled
      \/ /\ FreeTasks # {} /\ Tangles(Passes)
         /\ downs' = [[downs EXCEPT ![d] = NoDown] EXCEPT ![TaskAt] = Starting(ids)]
  BY DEF DownFails
<1>4. CASE downs' = [downs EXCEPT ![d] = NoDown] /\ UNCHANGED tangled
  BY <1>1, <1>2, <1>4
<1>5. CASE /\ FreeTasks # {} /\ Tangles(Passes)
           /\ downs' = [[downs EXCEPT ![d] = NoDown] EXCEPT ![TaskAt] = Starting(ids)]
  <2> PICK b : b = TaskAt
    OBVIOUS
  <2>1. b \in Background /\ b \in Downs /\ downs[b].at = "idle" /\ b # d
    BY <1>2, <1>5, TaskType
  <2>2. downs' = [downs EXCEPT ![d] = NoDown, ![b] = Starting(ids)]
    BY <1>1, <1>5, <2>1
  <2>3. b # "unload" /\ b # "remove"
    BY <2>1, TasksApart
  <2>4. downs'[d].at = "idle"
    BY <1>1, <1>2, <2>1, <2>2
  <2> QED
    BY <1>1, <1>2, <1>5, <2>1, <2>2, <2>3, <2>4
<1> QED
  BY <1>3, <1>4, <1>5

LEMMA LocksDown ==
    ASSUME Settings, Workers, Locks, DownNext
    PROVE  Locks'
<1> USE DEF Locks, Working, Deleting
<1>0. passes \in [Passes -> PassStates] /\ downs \in [Downs -> DownStates]
      /\ "setup" \in Passes /\ "unload" \in Downs /\ "remove" \in Downs
  BY DEF Workers, Passes, Downs
<1>1. CASE Unload
  <2>1. CASE entry' = "unloading" /\ downs' = [downs EXCEPT !["unload"] = Starting(ids)]
    <3>1. Starting(ids).at # "idle"
      BY StartingType DEF Workers
    <3> QED
      BY <1>0, <1>1, <2>1, <3>1 DEF Unload, Locked
  <2>2. CASE Unloaded(ids)
    <3>1. \A d \in {"unload", "remove"} : downs'[d] = downs[d]
      BY <1>0, <2>2, HeardDowns, TasksApart DEF Unloaded
    <3> QED
      BY <1>0, <1>1, <2>2, <3>1 DEF Unload, Unloaded, Locked
  <2> QED
    BY <1>1, <2>1, <2>2 DEF Unload
<1>2. CASE StaysUnloaded
  BY <1>2 DEF StaysUnloaded
<1>3. CASE RemoveEntry
  BY <1>0, <1>3 DEF RemoveEntry
<1>4. CASE \E d \in Downs : DownDone(d)
  BY <1>0, <1>4 DEF DownDone, NoDown
<1>5. CASE \E d \in Downs, k \in Kinds : DeleteApp(d, k)
  <2>1. PICK d \in Downs, k \in Kinds : DeleteApp(d, k)
    BY <1>5
  <2>2. downs[d].at # "idle" /\ UNCHANGED <<entry, passes>>
        /\ \A c \in Downs : c # d => downs'[c] = downs[c]
    BY <1>0, <2>1 DEF DeleteApp, Kinds
  <2>3. downs'[d].at = AfterDown[k] /\ AfterDown[k] # "idle"
    BY <1>0, <2>1 DEF DeleteApp, AfterDown, Kinds, DownStates
  <2> QED
    BY <1>0, <2>2, <2>3
<1>6. CASE \E d \in Downs, k \in Kinds : DownFails(d, k)
  <2>1. PICK d \in Downs, k \in Kinds : DownFails(d, k)
    BY <1>6
  <2>2. /\ downs[d].at # "idle" /\ downs'[d].at = "idle"
        /\ \A c \in {"unload", "remove"} : c # d => downs'[c] = downs[c]
    BY <2>1, FailedDowns DEF Kinds
  <2>3. /\ UNCHANGED passes
        /\ IF d = "unload" THEN entry' = "not_loaded" ELSE UNCHANGED entry
    BY <2>1 DEF DownFails
  <2> QED
    BY <1>0, <2>2, <2>3, TasksApart
<1> QED
  BY <1>1, <1>2, <1>3, <1>4, <1>5, <1>6 DEF DownNext

LEMMA LocksStep == Settings /\ Cloud /\ Workers /\ Locks /\ [Next]_vars => Locks'
<1> SUFFICES ASSUME Settings, Cloud, Workers, Locks, [Next]_vars PROVE Locks'
  OBVIOUS
<1>1. CASE PassNext
  BY <1>1, LocksPass
<1>2. CASE DownNext
  BY <1>2, LocksDown
<1>3. CASE Environment \/ UNCHANGED vars
  <2>1. UNCHANGED <<entry, passes, downs>>
    BY <1>3 DEF Environment, SetOptions, SetDisabled, Remove, ChangeUsers, Stop, ChangeUrl,
                Dashboard, vars
  <2> QED
    BY <2>1 DEF Locks, Working, Deleting
<1>4. CASE Restart
  <2>1. \A c \in {"unload", "remove"} : downs'[c] = NoDown
    <3>1. \A c \in {"unload", "remove"} : c # CHOOSE b \in Background : TRUE
      BY LifecycleAssumption, TasksApart
    <3>2. downs' = AtStart(ids) /\ {"unload", "remove"} \subseteq Downs
      BY <1>4 DEF Restart, Downs
    <3> QED
      BY <3>1, <3>2 DEF AtStart
  <2>2. passes'["setup"] = NoPass
    BY <1>4 DEF Restart, Passes
  <2>3. entry' # "unloading"
    BY <1>4 DEF Restart
  <2> QED
    BY <2>1, <2>2, <2>3 DEF Locks, Working, Deleting, NoPass, NoDown
<1> QED
  BY <1>1, <1>2, <1>3, <1>4 DEF Next

LEMMA AwaitedStep ==
    Settings /\ Cloud /\ Workers /\ Locks /\ Awaited /\ [Next]_vars => Awaited'
<1> SUFFICES ASSUME Settings, Cloud, Workers, Locks, Awaited, [Next]_vars PROVE Awaited'
  OBVIOUS
<1> USE DEF Awaited, cloud, stored, refreshed, history, bounds
<1>1. CASE PassNext
  <2>1. CASE SetupStart \/ Skips \/ RefreshStart \/ RefreshDone
    <3>1. CASE SetupStart
      BY <3>1 DEF SetupStart
    <3>2. CASE RefreshDone
      BY <3>2 DEF RefreshDone
    <3>3. CASE Skips \/ RefreshStart
      <4>1. UNCHANGED <<entry, disabled, waiting>>
        BY <3>3, SkipsFrame, StartsFrame, FiresFrame
      <4> QED
        BY <4>1
    <3> QED
      BY <2>1, <3>1, <3>2, <3>3
  <2>2. CASE SetupDone
    BY <2>2 DEF SetupDone, Locks, Working
  <2>3. CASE \E p \in Passes : Save(p)
    BY <2>3 DEF Save
  <2>4. CASE \E p \in Passes, k \in Kinds : Look(p, k) \/ Write(p, k)
    <3>1. UNCHANGED <<entry, disabled, waiting>>
      BY <2>4, LookFrame, WriteFrame
    <3> QED
      BY <3>1
  <2>5. CASE \E p \in Passes : \E error, m :
                passes[p].at # "idle" /\ PassFails(p, error, m)
    BY <2>5, FailsFrame DEF Locks, Working
  <2>6. CASE \E p \in Passes : CallFails(p)
    BY <2>5, <2>6 DEF CallFails
  <2>7. CASE \E p \in Passes, k \in Kinds : WriteAnswerLost(p, k)
    <3>1. \A p \in Passes, k \in Kinds : WriteAnswerLost(p, k) =>
             /\ passes[p].at # "idle"
             /\ \E error, m : PassFails(p, error, m)
      BY DEF WriteAnswerLost, Kinds
    <3> QED
      BY <2>5, <2>7, <3>1
  <2>8. CASE \E p \in Passes, k \in Kinds : WriteRefused(p, k)
    <3>1. \A p \in Passes, k \in Kinds : WriteRefused(p, k) =>
             /\ passes[p].at # "idle"
             /\ \E error, m : PassFails(p, error, m)
      BY DEF WriteRefused, Kinds
    <3> QED
      BY <2>5, <2>8, <3>1
  <2> QED
    BY <1>1, <2>1, <2>2, <2>3, <2>4, <2>6, <2>7, <2>8 DEF PassNext, Skips
<1>2. CASE DownNext
  <2>1. CASE Unload
    BY <2>1 DEF Unload, Unloaded
  <2>2. CASE StaysUnloaded \/ RemoveEntry
    BY <2>2 DEF StaysUnloaded, RemoveEntry, Locked
  <2>3. CASE \E d \in Downs : DownDone(d)
    BY <2>3 DEF DownDone, Locks, Deleting
  <2>4. CASE \E d \in Downs, k \in Kinds : DeleteApp(d, k) \/ DownFails(d, k)
    <3>1. CASE UNCHANGED <<entry, disabled, waiting>>
      BY <3>1
    <3>2. CASE /\ downs["unload"].at # "idle" /\ entry' = "not_loaded"
               /\ UNCHANGED <<disabled, waiting>>
      BY <3>2 DEF Locks, Deleting
    <3> QED
      BY <2>4, <3>1, <3>2 DEF DeleteApp, DownFails, Kinds
  <2> QED
    BY <1>2, <2>1, <2>2, <2>3, <2>4 DEF DownNext
<1>3. CASE Environment
  <2>1. CASE SetDisabled
    BY <2>1 DEF SetDisabled
  <2>2. CASE ~SetDisabled
    <3>1. UNCHANGED <<entry, disabled>> /\ waiting \subseteq waiting'
      BY <1>3, <2>2 DEF Environment, SetOptions, Remove, ChangeUsers, Stop, ChangeUrl,
                        Dashboard
    <3> QED
      BY <3>1
  <2> QED
    BY <2>1, <2>2
<1>4. CASE Restart
  BY <1>4 DEF Restart
<1>5. CASE UNCHANGED vars
  BY <1>5 DEF vars
<1> QED
  BY <1>1, <1>2, <1>3, <1>4, <1>5 DEF Next

-----------------------------------------------------------------------------
(* What is on record: lemmas about groups of steps.                        *)

LEMMA OursOwned == \A i : i \in Ours <=> Owned(i)
BY DEF Ours, Owned

LEMMA TangledStays == Settings /\ [Next]_vars /\ ~tangled' => ~tangled
<1> SUFFICES ASSUME Settings, [Next]_vars, tangled PROVE tangled'
  BY DEF Settings
<1> USE DEF history, Tangles
<1>0. \A st, r : Heard(st, r) => tangled'
  BY HeardDowns
<1>1. CASE PassNext
  <2>1. CASE SetupStart \/ Skips \/ RefreshStart \/ SetupDone \/ RefreshDone
    BY <2>1, SkipsFrame, StartsFrame DEF SetupStart, SetupDone, RefreshDone
  <2>2. CASE \E p \in Passes : Save(p) \/ CallFails(p)
    BY <1>0, <2>2 DEF Save, CallFails
  <2>3. CASE \E p \in Passes, k \in Kinds : Look(p, k) \/ Write(p, k)
    BY <2>3, LookFrame, WriteFrame
  <2>4. CASE \E p \in Passes, k \in Kinds : WriteAnswerLost(p, k) \/ WriteRefused(p, k)
    BY <2>4 DEF WriteAnswerLost, WriteRefused
  <2> QED
    BY <1>1, <2>1, <2>2, <2>3, <2>4 DEF PassNext, Skips
<1>2. CASE DownNext
  BY <1>0, <1>2 DEF DownNext, Unload, Unloaded, StaysUnloaded, RemoveEntry, DownDone, DeleteApp,
                    DownFails
<1>3. CASE Environment
  BY <1>3 DEF Environment, SetOptions, SetDisabled, Remove, ChangeUsers, Stop, ChangeUrl,
              Dashboard
<1>4. CASE Restart \/ UNCHANGED vars
  BY <1>4 DEF Restart, vars
<1> QED
  BY <1>1, <1>2, <1>3, <1>4 DEF Next

\* While nothing is made or recorded and nobody begins or ends, less to own does no harm.
LEMMA RecordsKept ==
    ASSUME Records, ~tangled, UNCHANGED <<ids, passes, downs, unsaved>>,
           \A i : Owned(i)' => Owned(i)
    PROVE  Records'
<1> USE DEF Records
<1>1. Alone'
  BY DEF Alone, Working, Deleting
<1>2. Kept'
  BY OursOwned DEF Kept, OnRecord, Ours, Owned
<1>3. \A p \in Passes : PassKnows(p)'
  BY DEF PassKnows, Handled, OfRecord, OnRecord
<1>4. \A d \in Downs : Deleting(d)' => DownKnows(d)'
  BY DEF Deleting, DownKnows
<1> QED
  BY <1>1, <1>2, <1>3, <1>4

\* A pass begins.
LEMMA RecordsBegin ==
    ASSUME Settings, Cloud, Workers, Records, ~tangled, NEW p \in Passes, ~Busy(Everything),
           NEW r, r.at = "bypass", r.call = "look", r.known = ids, r.made = {},
           passes' = [passes EXCEPT ![p] = r],
           UNCHANGED <<apps, ids, downs, unsaved>>
    PROVE  Records'
<1>0. passes \in [Passes -> PassStates]
  BY DEF Workers
<1>1. /\ \A q \in Passes : passes[q].at = "idle"
      /\ \A d \in Downs : downs[d].at = "idle"
  BY DEF Busy, Everything
<1>2. r.at = "bypass" /\ r.call = "look" /\ r.known = ids /\ r.made = {}
  OBVIOUS
<1>3. \A q \in Passes : passes[q].made = {} /\ passes'[q].made = {}
  BY <1>0, <1>1, <1>2 DEF Records, PassKnows
<1>4. Alone' /\ \A d \in Downs : ~Deleting(d)'
  BY <1>0, <1>1, <1>2 DEF Alone, Working, Deleting
<1>5. Kept'
  BY <1>3 DEF Records, Kept, Ours, Live, OnRecord
<1>6. PassKnows(p)'
  <2>1. passes'[p] = r
    BY <1>0
  <2> QED
    BY <1>2, <2>1 DEF PassKnows, Handled
<1>7. \A q \in Passes : q # p => PassKnows(q)'
  BY <1>0, <1>1, <1>3 DEF PassKnows, Kinds
<1> QED
  BY <1>4, <1>5, <1>6, <1>7 DEF Records

\* A pass ends, and what it made goes with it; so does what it was about to write.
LEMMA RecordsEnd ==
    ASSUME Settings, Cloud, Workers, Records, ~tangled, NEW p \in Passes, Working(p), NEW m,
           passes'[p] = NoPass,
           \A q \in Passes : q # p => passes'[q].at = passes[q].at /\ passes'[q].made = passes[q].made,
           unsaved' = unsaved \cup m,
           passes[p].made \subseteq m, UNCHANGED <<ids, downs>>,
           \A i : Owned(i)' => Owned(i) \/ i \in OfRecord(p) \cup m
    PROVE  Records'
<1>0. passes \in [Passes -> PassStates] /\ NoPass.at = "idle" /\ NoPass.made = {}
  BY DEF Workers, NoPass
<1>1. /\ \A q \in Passes : q # p => passes[q].at = "idle"
      /\ \A d \in Downs : downs[d].at = "idle"
  BY DEF Records, Alone, Working, Deleting
<1>2. \A q \in Passes : passes'[q].at = "idle" /\ passes'[q].made = {}
                        /\ passes[q].made \subseteq m
  BY <1>0, <1>1 DEF Records, PassKnows
<1>3. Alone' /\ \A d \in Downs : ~Deleting(d)'
  BY <1>1, <1>2 DEF Alone, Working, Deleting
<1>4. \A q \in Passes : PassKnows(q)'
  BY <1>2 DEF PassKnows, Kinds
<1>5. Kept'
  <2>1. \A i : Owned(i)' => i \in OnRecord \cup unsaved \cup m
    BY <1>2, OursOwned DEF Records, Kept, OfRecord
  <2>2. OnRecord' = OnRecord
    BY DEF OnRecord
  <2> QED
    BY <2>1, <2>2 DEF Kept, Ours, Owned
<1> QED
  BY <1>3, <1>4, <1>5 DEF Records

\* Take-downs begin, go on and end while no pass is at work.
LEMMA RecordsDown ==
    ASSUME Workers, Records, ~tangled, \A p \in Passes : ~Working(p),
           UNCHANGED <<ids, passes, unsaved>>, \A i : Owned(i)' => Owned(i),
           \A d \in Downs : Deleting(d)' => DownKnows(d)'
    PROVE  Records'
<1>1. Alone'
  BY DEF Alone, Working
<1>2. \A p \in Passes : PassKnows(p)'
  BY DEF Records, PassKnows, Working, Kinds
<1>3. Kept'
  BY OursOwned DEF Records, Kept, OnRecord, Ours, Owned
<1> QED
  BY <1>1, <1>2, <1>3 DEF Records

LEMMA StartingKnows ==
    ASSUME Workers, NEW d \in Downs, downs'[d] = Starting(ids), ids' = ids
    PROVE  DownKnows(d)'
BY StartingType DEF Workers, DownKnows

-----------------------------------------------------------------------------
(* What is on record: a pass at work.                                      *)

\* Whose an application is changes by a write only for the one written.
LEMMA EffectOwned ==
    ASSUME Cloud, Workers, NEW p \in Passes, NEW k \in Kinds, Effect(p, k)
    PROVE  /\ \/ /\ passes[p].call = "create" /\ Result(p) = next /\ Live' \ Live = {next}
                 /\ \A i : Owned(i)' => Owned(i) \/ i = next
              \/ /\ passes[p].call = "update" /\ Result(p) = passes[p].seen /\ Live' \ Live = {}
                 /\ \A i : Owned(i)' => Owned(i) \/ i = passes[p].seen
              \/ /\ passes[p].call = "delete" /\ Result(p) = 0 /\ Live' \ Live = {}
                 /\ \A i : Owned(i)' => Owned(i) /\ i # passes[p].seen
           /\ next \notin Live
<1> DEFINE h == passes[p].host  i == passes[p].seen
<1>1. next \notin Live
  BY DEF Cloud, Id, Live
<1>2. CASE /\ passes[p].call = "create" /\ Taken(k, h) = {}
           /\ apps' = With(apps, next, [kind |-> k, host |-> h, tagged |-> TRUE])
           /\ next' = next + 1
  BY <1>1, <1>2 DEF With, Live, Result, Owned
<1>3. CASE /\ passes[p].call = "update" /\ i \in Live /\ Taken(k, h) \subseteq {i}
           /\ apps' = [apps EXCEPT ![i] = [kind |-> k, host |-> h, tagged |-> TRUE]]
           /\ UNCHANGED next
  BY <1>1, <1>3 DEF Live, Result, Owned
<1>4. CASE passes[p].call = "delete" /\ apps' = Without(apps, i) /\ UNCHANGED next
  BY <1>1, <1>4 DEF Without, Live, Result, Owned
<1> QED
  BY <1>2, <1>3, <1>4 DEF Effect

\* A pass finds the recorded application if that one is the entry's, and never another's.
LEMMA FoundOwned ==
    ASSUME NEW p, NEW k
    PROVE  /\ \A i \in Found(p, k) : Owned(i)
           /\ Owned(passes[p].known[k]) => Found(p, k) = {passes[p].known[k]}
BY DEF Found, Taken

\* What a look finds decides the call; or the pass goes on, with what it found.
LEMMA LookResult ==
    ASSUME Cloud, Workers, NEW p \in Passes, NEW k \in Kinds, Look(p, k)
    PROVE  /\ passes[p].at = k /\ passes[p].call = "look"
           /\ passes'[p].known = passes[p].known /\ passes'[p].made = passes[p].made
           /\ \/ /\ passes'[p].at = After[k] /\ passes'[p].call = "look"
                 /\ \E i : /\ passes'[p].got = [passes[p].got EXCEPT ![k] = i]
                           /\ (Found(p, k) = {} /\ i = 0) \/ i \in Found(p, k)
              \/ /\ passes'[p].at = k /\ passes'[p].got = passes[p].got
                 /\ \/ passes'[p].call = "create" /\ Found(p, k) = {}
                    \/ passes'[p].call \in {"update", "delete"} /\ passes'[p].seen \in Found(p, k)
<1> DEFINE goOn(i)  == [passes[p] EXCEPT !.at = After[k], !.got[k] = i]
           does(c, i) == [passes[p] EXCEPT !.call = c, !.seen = i]
<1>1. passes \in [Passes -> PassStates] /\ passes[p] \in PassStates
  BY DEF Workers
<1>2. passes[p].at = k /\ passes[p].call = "look"
  BY Zenon DEF Look, At
<1>3. \A i : /\ goOn(i).at = After[k] /\ goOn(i).call = passes[p].call
             /\ goOn(i).known = passes[p].known /\ goOn(i).made = passes[p].made
             /\ goOn(i).got = [passes[p].got EXCEPT ![k] = i]
  BY <1>1 DEF PassStates
<1>4. \A i, c : /\ does(c, i).at = passes[p].at /\ does(c, i).call = c /\ does(c, i).seen = i
                /\ does(c, i).known = passes[p].known /\ does(c, i).made = passes[p].made
                /\ does(c, i).got = passes[p].got
  BY <1>1 DEF PassStates
<1>5. \/ /\ Found(p, k) = {}
         /\ \/ passes' = [passes EXCEPT ![p] = does("create", 0)]
            \/ passes' = [passes EXCEPT ![p] = goOn(0)]
      \/ \E i \in Found(p, k) :
            \/ passes' = [passes EXCEPT ![p] = does("delete", i)]
            \/ passes' = [passes EXCEPT ![p] = does("update", i)]
            \/ passes' = [passes EXCEPT ![p] = goOn(i)]
  BY Zenon DEF Look
<1> HIDE DEF goOn, does
<1>6. CASE Found(p, k) = {} /\ passes' = [passes EXCEPT ![p] = does("create", 0)]
  BY <1>1, <1>2, <1>4, <1>6
<1>7. CASE Found(p, k) = {} /\ passes' = [passes EXCEPT ![p] = goOn(0)]
  BY <1>1, <1>2, <1>3, <1>7
<1>8. ASSUME NEW i \in Found(p, k), NEW c \in {"update", "delete"},
             passes' = [passes EXCEPT ![p] = does(c, i)]
      PROVE  /\ passes'[p].known = passes[p].known /\ passes'[p].made = passes[p].made
             /\ passes'[p].at = k /\ passes'[p].got = passes[p].got
             /\ passes'[p].call \in {"update", "delete"} /\ passes'[p].seen \in Found(p, k)
  BY <1>1, <1>2, <1>4, <1>8
<1>9. ASSUME NEW i \in Found(p, k), passes' = [passes EXCEPT ![p] = goOn(i)]
      PROVE  /\ passes'[p].known = passes[p].known /\ passes'[p].made = passes[p].made
             /\ passes'[p].at = After[k] /\ passes'[p].call = "look"
             /\ passes'[p].got = [passes[p].got EXCEPT ![k] = i]
  BY <1>1, <1>2, <1>3, <1>9
<1> QED
  BY <1>2, <1>5, <1>6, <1>7, <1>8, <1>9

LEMMA HandledNext ==
    ASSUME NEW p, NEW k \in Kinds, passes[p].at = k, passes'[p].at = After[k]
    PROVE  /\ \A j \in Kinds : Handled(p, j)' <=> Handled(p, j) \/ j = k
           /\ ~Handled(p, k) /\ passes'[p].at \in {"gate", "save"}
BY DEF Handled, Kinds, After

\* The other pass rests while this one works, before and after.
LEMMA PassAlone ==
    ASSUME Workers, Records, ~tangled, NEW p \in Passes, Working(p), Working(p)',
           \A q \in Passes : q # p => passes'[q] = passes[q], UNCHANGED downs
    PROVE  /\ Alone' /\ \A d \in Downs : ~Deleting(d)'
           /\ \A q \in Passes : q # p => PassKnows(q)' /\ passes[q].made = {}
           /\ UNION {passes[q].made : q \in Passes} = passes[p].made
           /\ UNION {passes'[q].made : q \in Passes} = passes'[p].made
<1>1. /\ \A q \in Passes : q # p => passes[q].at = "idle"
      /\ \A d \in Downs : downs[d].at = "idle"
  BY DEF Records, Alone, Working, Deleting
<1>2. \A q \in Passes : q # p => passes[q].made = {} /\ passes'[q] = passes[q]
  BY <1>1 DEF Records, PassKnows
<1>3. Alone' /\ \A d \in Downs : ~Deleting(d)'
  BY <1>1, <1>2 DEF Alone, Working, Deleting
<1>4. \A q \in Passes : q # p => PassKnows(q)'
  BY <1>1, <1>2 DEF PassKnows, Kinds
<1> QED
  BY <1>2, <1>3, <1>4

LEMMA RecordsLook ==
    ASSUME Cloud, Workers, Records, ~tangled, NEW p \in Passes, NEW k \in Kinds, Look(p, k)
    PROVE  Records'
<1>1. /\ passes[p].at = k /\ passes[p].call = "look" /\ passes[p].known = ids
      /\ passes[p].got \in [Kinds -> Id] /\ PassKnows(p) /\ passes' \in [Passes -> PassStates]
  BY LookResult, LookType DEF Records, PassKnows, Workers, PassStates
<1>2. UNCHANGED <<apps, ids, unsaved, downs>> /\ \A i : Owned(i)' <=> Owned(i)
  BY LookFrame DEF Owned, Live
<1>3. passes'[p].known = ids /\ passes'[p].made = passes[p].made
  BY <1>1, LookResult
<1>4. passes'[p].at \in {"gate", "save", "bypass"} /\ Working(p) /\ Working(p)'
  BY <1>1, LookResult DEF After, Kinds, Working
<1>5. /\ Alone' /\ \A d \in Downs : ~Deleting(d)'
      /\ \A q \in Passes : q # p => PassKnows(q)'
      /\ UNION {passes[q].made : q \in Passes} = passes[p].made
      /\ UNION {passes'[q].made : q \in Passes} = passes'[p].made
  BY <1>2, <1>4, PassAlone, LookType
<1>6. Kept' /\ \A i : Owned(i) => i \in OfRecord(p)
  BY <1>2, <1>3, <1>5, OursOwned DEF Records, Kept, OfRecord, OnRecord, Ours, Owned
<1>7. Owned(ids[k]) => Found(p, k) = {ids[k]}
  BY <1>1, FoundOwned
<1>8. PassKnows(p)'
  <2>1. CASE /\ passes'[p].at = After[k] /\ passes'[p].call = "look"
             /\ \E i : /\ passes'[p].got = [passes[p].got EXCEPT ![k] = i]
                       /\ (Found(p, k) = {} /\ i = 0) \/ i \in Found(p, k)
    <3> PICK i : /\ passes'[p].got = [passes[p].got EXCEPT ![k] = i]
                 /\ (Found(p, k) = {} /\ i = 0) \/ i \in Found(p, k)
      BY <2>1
    <3>1. /\ \A j \in Kinds : Handled(p, j)' <=> Handled(p, j) \/ j = k
          /\ ~Handled(p, k) /\ passes'[p].at \in {"gate", "save"}
      BY <1>1, <2>1, HandledNext
    <3>2. \A j \in Kinds : Handled(p, j)' /\ Owned(ids[j]) => passes'[p].got[j] = ids[j]
      BY <1>1, <1>7, <3>1 DEF PassKnows
    <3>3. \A m \in passes[p].made : \E j \in Kinds : Handled(p, j)' /\ passes'[p].got[j] = m
      BY <1>1, <3>1 DEF PassKnows
    <3> QED
      BY <1>2, <1>3, <2>1, <3>1, <3>2, <3>3 DEF PassKnows
  <2>2. CASE /\ passes'[p].at = k /\ passes'[p].got = passes[p].got
             /\ \/ passes'[p].call = "create" /\ Found(p, k) = {}
                \/ passes'[p].call \in {"update", "delete"} /\ passes'[p].seen \in Found(p, k)
    <3>1. \A j \in Kinds : Handled(p, j)' <=> Handled(p, j)
      BY <1>1, <2>2 DEF Handled
    <3>2. Owned(ids[k]) => passes'[p].call # "create" /\ passes'[p].seen = ids[k]
      BY <1>7, <2>2
    <3>3. passes'[p].call = "update" => Owned(passes'[p].seen)
      BY <2>2, FoundOwned
    <3>4. \A i : i \in OfRecord(p) => i \in OfRecord(p)'
      BY <1>2, <1>3 DEF OfRecord, OnRecord
    <3>5. passes'[p].call = "update" =>
             /\ passes'[p].seen \in OfRecord(p)'
             /\ \A j \in Kinds : Handled(p, j)' /\ passes'[p].seen = ids[j] => passes'[p].got[j] = ids[j]
      BY <1>1, <1>6, <2>2, <3>1, <3>3, <3>4 DEF PassKnows
    <3>6. /\ \A j \in Kinds : Handled(p, j)' /\ Owned(ids[j]) => passes'[p].got[j] = ids[j]
          /\ \A m \in passes[p].made : \E j \in Kinds : Handled(p, j)' /\ passes'[p].got[j] = m
      BY <1>1, <2>2, <3>1 DEF PassKnows
    <3> QED
      BY <1>1, <1>2, <1>3, <2>2, <3>2, <3>5, <3>6 DEF PassKnows, Kinds
  <2> QED
    BY <2>1, <2>2, LookResult
<1> QED
  BY <1>5, <1>6, <1>8 DEF Records

LEMMA RecordsWrite ==
    ASSUME Cloud, Workers, Records, ~tangled, NEW p \in Passes, NEW k \in Kinds, Write(p, k)
    PROVE  Records'
<1>1. /\ passes[p].at = k /\ passes[p].call # "look" /\ Effect(p, k)
      /\ PassKnows(p) /\ passes[p].known = ids /\ passes[p].got \in [Kinds -> Id]
  <2>1. passes[p].at = k /\ passes[p].call # "look" /\ Effect(p, k)
    BY Zenon DEF Write
  <2> QED
    BY <2>1 DEF Records, PassKnows, Workers, PassStates
<1>2. UNCHANGED <<ids, unsaved, downs>>
  BY WriteFrame
<1>3. /\ passes'[p].at = After[k] /\ passes'[p].call = "look" /\ passes'[p].known = ids
      /\ passes'[p].got = [passes[p].got EXCEPT ![k] = Result(p)]
      /\ passes'[p].made = passes[p].made \cup (Live' \ Live)
  BY <1>1, WriteType
<1>4. /\ \A j \in Kinds : Handled(p, j)' <=> Handled(p, j) \/ j = k
      /\ ~Handled(p, k) /\ passes'[p].at \in {"gate", "save"}
  BY <1>1, <1>3, HandledNext
<1>5. Working(p) /\ Working(p)'
  BY <1>1, <1>4 DEF Working, Kinds
<1>6. /\ Alone' /\ \A d \in Downs : ~Deleting(d)'
      /\ \A q \in Passes : q # p => PassKnows(q)'
      /\ UNION {passes[q].made : q \in Passes} = passes[p].made
      /\ UNION {passes'[q].made : q \in Passes} = passes'[p].made
  BY <1>2, <1>5, PassAlone, WriteType
<1>7. \A i : Owned(i) => i \in OfRecord(p)
  BY <1>6, OursOwned DEF Records, Kept, OfRecord
<1>8. next \notin Live /\ \A j \in Kinds : ids[j] # next
  BY EffectOwned, <1>1 DEF Workers, Id, Cloud
<1>9. \A i : Owned(i)' => i \in OfRecord(p) \cup passes'[p].made
  BY <1>1, <1>3, <1>7, EffectOwned DEF PassKnows
<1>10. Kept'
  BY <1>2, <1>3, <1>6, <1>9, OursOwned DEF Kept, OfRecord, OnRecord, Ours, Owned
<1>11. \A j \in Kinds : Handled(p, j)' /\ Owned(ids[j])' => passes'[p].got[j] = ids[j]
  <2> SUFFICES ASSUME NEW j \in Kinds, Handled(p, j)', Owned(ids[j])'
               PROVE  passes'[p].got[j] = ids[j]
    BY <1>2
  <2>1. CASE j = k
    <3>1. Owned(ids[k]) \/ (passes[p].call = "update" /\ ids[k] = passes[p].seen)
      BY <1>1, <1>2, <1>8, <2>1, EffectOwned
    <3>2. passes[p].call # "create" /\ passes[p].seen = ids[k]
      BY <1>1, <3>1 DEF PassKnows
    <3>3. Result(p) = ids[k]
      BY <1>1, <1>2, <1>8, <2>1, <3>2, EffectOwned
    <3> QED
      BY <1>1, <1>3, <2>1, <3>3
  <2>2. CASE j # k
    <3>1. Handled(p, j) /\ passes'[p].got[j] = passes[p].got[j]
      BY <1>1, <1>3, <1>4, <2>2
    <3>2. Owned(ids[j]) \/ (passes[p].call = "update" /\ ids[j] = passes[p].seen)
      BY <1>1, <1>2, <1>8, EffectOwned
    <3> QED
      BY <1>1, <3>1, <3>2 DEF PassKnows
  <2> QED
    BY <2>1, <2>2
<1>12. \A i \in passes'[p].made : \E j \in Kinds : Handled(p, j)' /\ passes'[p].got[j] = i
  <2> SUFFICES ASSUME NEW i \in passes'[p].made
               PROVE  \E j \in Kinds : Handled(p, j)' /\ passes'[p].got[j] = i
    OBVIOUS
  <2>1. CASE i \in passes[p].made
    <3>1. PICK j \in Kinds : Handled(p, j) /\ passes[p].got[j] = i
      BY <1>1, <2>1 DEF PassKnows
    <3> QED
      BY <1>1, <1>3, <1>4, <3>1
  <2>2. CASE i \in Live' \ Live
    BY <1>1, <1>3, <1>4, <2>2, EffectOwned
  <2> QED
    BY <1>3, <2>1, <2>2
<1>13. PassKnows(p)'
  BY <1>2, <1>3, <1>4, <1>11, <1>12 DEF PassKnows
<1> QED
  BY <1>6, <1>10, <1>13 DEF Records

LEMMA RecordsSave ==
    ASSUME Settings, Cloud, Workers, Records, ~tangled, ~tangled', NEW p \in Passes, Save(p)
    PROVE  Records'
<1>1. /\ passes[p].at = "save" /\ PassKnows(p) /\ passes[p].known = ids
      /\ passes \in [Passes -> PassStates] /\ UNCHANGED apps /\ Working(p)
  BY DEF Save, cloud, Records, PassKnows, Workers, Working
<1>2. CASE entry = "removed"
  <2>1. /\ passes' = [passes EXCEPT ![p] = NoPass] /\ unsaved' = unsaved \cup passes[p].made
        /\ UNCHANGED <<ids, downs>> /\ \A i : Owned(i)' => Owned(i)
    BY <1>1, <1>2 DEF Save, Owned, Live
  <2> QED
    BY <1>1, <2>1, RecordsEnd
<1>3. CASE entry # "removed"
  <2>1. /\ ids' = passes[p].got /\ UNCHANGED unsaved
        /\ passes' = [passes EXCEPT ![p].at = "rest", ![p].made = {}]
        /\ UNCHANGED <<downs, tangled>> \/ Heard(entry, ids')
    BY <1>3 DEF Save, Stored
  <2>2. UNCHANGED downs
    <3>1. Busy(Passes)
      BY <1>1 DEF Busy
    <3> QED
      BY <2>1, <3>1, HeardDowns DEF Tangles
  <2>3. passes'[p].at = "rest" /\ passes'[p].made = {} /\ \A q \in Passes : q # p => passes'[q] = passes[q]
    BY <1>1, <2>1 DEF PassStates
  <2>4. Working(p)'
    BY <2>3 DEF Working
  <2>5. /\ Alone' /\ \A d \in Downs : ~Deleting(d)'
        /\ \A q \in Passes : q # p => PassKnows(q)' /\ passes[q].made = {}
        /\ UNION {passes[q].made : q \in Passes} = passes[p].made
    BY <1>1, <2>2, <2>3, <2>4, PassAlone
  <2>6. PassKnows(p)'
    BY <2>3 DEF PassKnows, Kinds
  <2>7. \A i : Owned(i) => i \in OnRecord' \cup unsaved'
    <3> SUFFICES ASSUME NEW i, Owned(i), i \notin unsaved
                 PROVE  \E j \in Kinds : passes[p].got[j] = i
      BY <2>1 DEF OnRecord
    <3>1. i \in OnRecord \/ i \in passes[p].made
      BY <2>5, OursOwned DEF Records, Kept
    <3>2. \A j \in Kinds : Handled(p, j)
      BY <1>1 DEF Handled
    <3> QED
      BY <1>1, <3>1, <3>2 DEF OnRecord, PassKnows
  <2>8. Kept'
    BY <1>1, <2>7 DEF Kept, Ours, Owned, Live
  <2> QED
    BY <2>5, <2>6, <2>8 DEF Records
<1> QED
  BY <1>2, <1>3

-----------------------------------------------------------------------------
(* What is on record: take-downs, restarts, and all steps together.        *)

LEMMA RecordsStart ==
    ASSUME Workers, Records, ~tangled, ~tangled', Tangles(Passes), NEW d \in Downs,
           downs' = [downs EXCEPT ![d] = Starting(ids)],
           UNCHANGED <<apps, ids, passes, unsaved>>
    PROVE  Records'
<1>1. \A p \in Passes : ~Working(p)
  BY DEF Tangles, Busy, Working
<1>2. \A i : Owned(i)' <=> Owned(i)
  BY DEF Owned, Live
<1>3. DownKnows(d)'
  <2>1. downs'[d] = Starting(ids)
    BY DEF Workers
  <2> QED
    BY <2>1, StartingKnows
<1>4. ASSUME NEW c \in Downs, c # d, Deleting(c)' PROVE DownKnows(c)'
  <2>1. downs'[c] = downs[c] /\ Deleting(c)
    BY <1>4 DEF Workers, Deleting
  <2> QED
    BY <1>2, <2>1 DEF Records, DownKnows
<1> QED
  BY <1>1, <1>2, <1>3, <1>4, RecordsDown

LEMMA RecordsHeard ==
    ASSUME Workers, Records, ~tangled, ~tangled', NEW st, Heard(st, ids),
           UNCHANGED <<apps, ids, passes, unsaved>>
    PROVE  Records'
<1>1. CASE UNCHANGED <<downs, tangled>>
  BY <1>1, RecordsKept DEF Owned, Live
<1>2. CASE \E d \in Background : /\ downs' = [downs EXCEPT ![d] = Starting(ids)]
                                 /\ Tangles(Passes)
  BY <1>2, RecordsStart, TasksApart
<1> QED
  BY <1>1, <1>2, HeardDowns

\* A take-down at work, and the passes rest.
LEMMA DownAlone ==
    ASSUME Records, ~tangled, NEW d \in Downs, Deleting(d)
    PROVE  /\ \A p \in Passes : ~Working(p) /\ passes[p].made = {}
           /\ DownKnows(d) /\ \A i : Owned(i) => i \in OnRecord \cup unsaved
<1>1. \A p \in Passes : ~Working(p)
  BY DEF Records, Alone
<1>2. \A p \in Passes : passes[p].made = {}
  BY <1>1 DEF Records, PassKnows, Working
<1> QED
  BY <1>1, <1>2, OursOwned DEF Records, Kept

LEMMA DeletedOwned ==
    ASSUME Cloud, NEW d \in Downs, NEW k \in Kinds, Deleted(d, k)
    PROVE  \A i : Owned(i)' => Owned(i) /\ i # downs[d].known[k]
BY DEF Deleted, Without, Owned, Live

LEMMA RecordsDelete ==
    ASSUME Cloud, Workers, Records, ~tangled, NEW d \in Downs, NEW k \in Kinds, DeleteApp(d, k)
    PROVE  Records'
<1>0. downs \in [Downs -> DownStates] /\ downs[d] \in DownStates
  BY DEF Workers
<1>1. /\ downs[d].at = k /\ UNCHANGED <<ids, passes, unsaved>>
      /\ downs' = [downs EXCEPT ![d].at = AfterDown[k]]
  BY DEF DeleteApp, stored, history
<1>2. \A i : Owned(i)' => Owned(i) /\ i # downs[d].known[k]
  BY DeletedOwned DEF DeleteApp
<1>3. Deleting(d) /\ k \in {"gate", "bypass"}
  BY <1>1 DEF Deleting, Kinds
<1>4. DownKnows(d) /\ \A p \in Passes : ~Working(p)
  BY <1>3, DownAlone
<1>5. downs'[d].at = AfterDown[k] /\ downs'[d].known = downs[d].known
  BY <1>0, <1>1 DEF DownStates
<1>6. DownKnows(d)'
  BY <1>1, <1>2, <1>3, <1>4, <1>5 DEF DownKnows, AfterDown
<1>7. ASSUME NEW c \in Downs, c # d, Deleting(c)' PROVE DownKnows(c)'
  <2>1. downs'[c] = downs[c] /\ Deleting(c)
    BY <1>0, <1>1, <1>7 DEF Deleting
  <2> QED
    BY <1>1, <1>2, <2>1 DEF Records, DownKnows
<1> QED
  BY <1>1, <1>2, <1>4, <1>6, <1>7, RecordsDown

LEMMA RecordsFail ==
    ASSUME Cloud, Workers, Records, ~tangled, NEW d \in Downs, NEW k \in Kinds, DownFails(d, k)
    PROVE  Records'
<1>0. downs \in [Downs -> DownStates]
  BY DEF Workers
<1>1. UNCHANGED <<ids, passes, unsaved>> /\ (UNCHANGED apps \/ Deleted(d, k))
  BY DEF DownFails, stored
<1>2. \A i : Owned(i)' => Owned(i)
  BY <1>1, DeletedOwned DEF Owned, Live
<1>3. Deleting(d)
  BY FailedDowns DEF Deleting, Kinds
<1>4. \A p \in Passes : ~Working(p)
  BY <1>3, DownAlone
<1>5. ASSUME NEW c \in Downs, Deleting(c)' PROVE DownKnows(c)'
  <2>1. \/ downs'[c] = Starting(ids)
        \/ downs'[c] = downs[c] /\ Deleting(c)
    <3>1. CASE downs' = [downs EXCEPT ![d] = NoDown]
      BY <1>0, <1>5, <3>1 DEF Deleting, NoDown
    <3>2. ASSUME NEW b \in Background, b # d,
                 downs' = [downs EXCEPT ![d] = NoDown, ![b] = Starting(ids)]
          PROVE  \/ downs'[c] = Starting(ids)
                 \/ downs'[c] = downs[c] /\ Deleting(c)
      <4>1. CASE c = d
        BY <1>0, <1>5, <3>2, <4>1 DEF Deleting, NoDown
      <4>2. CASE c # d
        BY <1>0, <1>5, <3>2, <4>2, TasksApart DEF Deleting
      <4> QED
        BY <4>1, <4>2
    <3> QED
      BY <3>1, <3>2, FailedDowns
  <2>2. CASE downs'[c] = Starting(ids)
    BY <1>1, <2>2, StartingKnows
  <2>3. CASE downs'[c] = downs[c] /\ Deleting(c)
    BY <1>1, <1>2, <2>3 DEF Records, DownKnows
  <2> QED
    BY <2>1, <2>2, <2>3
<1> QED
  BY <1>1, <1>2, <1>4, <1>5, RecordsDown

LEMMA RecordsDone ==
    ASSUME Cloud, Workers, Records, ~tangled, NEW d \in Downs, DownDone(d)
    PROVE  Records'
<1>0. downs \in [Downs -> DownStates]
  BY DEF Workers
<1>1. /\ downs[d].at = "done" /\ downs' = [downs EXCEPT ![d] = NoDown]
      /\ UNCHANGED <<apps, passes, unsaved>> /\ ids' \in {ids, None}
  BY DEF DownDone, cloud
<1>2. Deleting(d)
  BY <1>1 DEF Deleting
<1>3. /\ \A p \in Passes : ~Working(p) /\ passes[p].made = {}
      /\ DownKnows(d) /\ \A i : Owned(i) => i \in OnRecord \cup unsaved
  BY <1>2, DownAlone
<1>4. \A i : Owned(i)' <=> Owned(i)
  BY <1>1 DEF Owned, Live
<1>5. \A k \in Kinds : ~Owned(ids[k]) /\ ~Owned(0)
  BY <1>1, <1>3 DEF DownKnows, Kinds, None, Owned, Live, Cloud
<1>6. \A i : Owned(i) => i \in unsaved
  BY <1>3, <1>5 DEF OnRecord
<1>7. Kept'
  BY <1>1, <1>4, <1>6, OursOwned DEF Kept, Ours, Owned
<1>8. Alone' /\ \A p \in Passes : PassKnows(p)'
  BY <1>1, <1>3 DEF Alone, PassKnows, Working, Kinds
<1>9. ASSUME NEW c \in Downs, Deleting(c)' PROVE DownKnows(c)'
  <2>1. c # d /\ downs'[c] = downs[c] /\ Deleting(c)
    BY <1>0, <1>1, <1>9 DEF Deleting, NoDown
  <2> QED
    BY <1>1, <1>4, <2>1 DEF Records, DownKnows
<1> QED
  BY <1>7, <1>8, <1>9 DEF Records

LEMMA RecordsRestart ==
    ASSUME Cloud, Workers, Records, ~tangled, Restart
    PROVE  Records'
<1>1. /\ UNCHANGED <<apps, ids>> /\ passes' = [p \in Passes |-> NoPass]
      /\ downs' = AtStart(ids)
      /\ unsaved \cup (UNION {passes[p].made : p \in Passes}) \subseteq unsaved'
  BY DEF Restart, cloud, stored
<1>2. \A p \in Passes : passes'[p].at = "idle" /\ passes'[p].made = {}
  BY <1>1 DEF NoPass
<1>3. Alone' /\ \A p \in Passes : PassKnows(p)'
  BY <1>2 DEF Alone, Working, PassKnows, Kinds
<1>4. Kept'
  BY <1>1, OursOwned DEF Records, Kept, OnRecord, Ours, Live
<1>5. ASSUME NEW d \in Downs, Deleting(d)' PROVE DownKnows(d)'
  <2>1. downs'[d] = Starting(ids)
    BY <1>1, <1>5 DEF AtStart, Deleting, NoDown
  <2> QED
    BY <1>1, <2>1, StartingKnows
<1> QED
  BY <1>3, <1>4, <1>5 DEF Records

LEMMA RecordsStep == Settings /\ Cloud /\ Workers /\ Records /\ [Next]_vars => Records'
<1> SUFFICES ASSUME Settings, Cloud, Workers, Records, [Next]_vars, ~tangled'
             PROVE  Records'
  BY DEF Records
<1>0. ~tangled
  BY TangledStays
<1> USE DEF cloud, stored, refreshed, history, bounds
<1>1. CASE PassNext
  <2>0. passes \in [Passes -> PassStates] /\ "setup" \in Passes /\ "refresh" \in Passes
    BY DEF Workers, Passes
  <2>1. CASE SetupStart
    <3> DEFINE r == PassOf(wants, ids)
    <3>1. r.at = "bypass" /\ r.call = "look" /\ r.known = ids /\ r.made = {}
      BY DEF PassOf, NoPass
    <3>2. /\ passes' = [passes EXCEPT !["setup"] = r] /\ ~Busy(Everything)
          /\ UNCHANGED <<apps, ids, downs, unsaved>>
      BY <1>0, <2>1 DEF SetupStart, Tangles
    <3> HIDE DEF r
    <3> QED
      BY <1>0, <2>0, <3>1, <3>2, RecordsBegin
  <2>2. CASE RefreshStart
    <3> DEFINE r == [PassOf(wants, ids) EXCEPT !.prev = snap, !.mine = TRUE]
    <3>1. r.at = "bypass" /\ r.call = "look" /\ r.known = ids /\ r.made = {}
      BY DEF PassOf, NoPass
    <3>2. /\ passes' = [passes EXCEPT !["refresh"] = r]
          /\ UNCHANGED <<apps, ids, downs, unsaved>>
      BY <2>2, StartsFrame, FiresFrame
    <3>3. ~Busy(Everything)
      BY <1>0, <2>2, StartsFrame DEF Tangles
    <3> HIDE DEF r
    <3> QED
      BY <1>0, <2>0, <3>1, <3>2, <3>3, RecordsBegin
  <2>3. ASSUME NEW p \in Passes, passes[p].at = "rest", UNCHANGED <<apps, ids, downs, unsaved>>,
               passes'[p] = NoPass,
               \A q \in Passes : q # p => /\ passes'[q].at = passes[q].at
                                          /\ passes'[q].made = passes[q].made
        PROVE  Records'
    <3>1. Working(p) /\ passes[p].made = {} /\ unsaved' = unsaved \cup {}
      BY <1>0, <2>3 DEF Working, Records, PassKnows
    <3>2. \A i : Owned(i)' => Owned(i)
      BY <2>3 DEF Owned, Live
    <3> QED
      BY <1>0, <2>3, <3>1, <3>2, RecordsEnd
  <2>4. CASE SetupDone \/ RefreshDone
    <3>1. CASE SetupDone
      <4>1. /\ passes["setup"].at = "rest" /\ UNCHANGED <<apps, ids, downs, unsaved>>
            /\ passes' = [passes EXCEPT !["setup"] = NoPass, !["refresh"].mine = FALSE]
        BY <3>1 DEF SetupDone
      <4>2. passes'["refresh"] = [passes["refresh"] EXCEPT !.mine = FALSE]
            /\ passes'["setup"] = NoPass
        BY <2>0, <4>1
      <4>3. passes'["refresh"].at = passes["refresh"].at /\ passes'["refresh"].made = passes["refresh"].made
        BY <2>0, <4>2 DEF PassStates
      <4> QED
        BY <2>3, <4>1, <4>2, <4>3 DEF Passes
    <3>2. CASE RefreshDone
      BY <2>0, <2>3, <3>2 DEF RefreshDone
    <3> QED
      BY <2>4, <3>1, <3>2
  <2>5. CASE \E p \in Passes : Save(p)
    BY <1>0, <2>5, RecordsSave
  <2>6. ASSUME NEW p \in Passes, NEW error, Working(p), PassFails(p, error, passes[p].made),
               UNCHANGED <<apps, downs>>
        PROVE  Records'
    <3>1. \A i : Owned(i)' => Owned(i)
      BY <2>6 DEF Owned, Live
    <3>2. /\ passes' = [passes EXCEPT ![p] = NoPass]
          /\ unsaved' = unsaved \cup passes[p].made /\ ids' = ids
      BY <2>6, FailsFrame
    <3> QED
      BY <1>0, <2>0, <2>6, <3>1, <3>2, RecordsEnd
  <2>7. CASE \E p \in Passes : CallFails(p)
    BY <2>6, <2>7 DEF CallFails, Working
  <2>8. CASE \E p \in Passes, k \in Kinds : WriteRefused(p, k)
    BY <2>6, <2>8 DEF WriteRefused, Working, Kinds
  <2>9. CASE \E p \in Passes, k \in Kinds : WriteAnswerLost(p, k)
    <3> PICK p \in Passes, k \in Kinds : WriteAnswerLost(p, k)
      BY <2>9
    <3> DEFINE m == passes[p].made \cup (Live' \ Live)
    <3>1. /\ passes[p].at = k /\ passes[p].call # "look" /\ Effect(p, k)
          /\ \E error : PassFails(p, error, m)
          /\ UNCHANGED downs
      BY DEF WriteAnswerLost
    <3>2. \A i : Owned(i)' => Owned(i) \/ i \in OfRecord(p) \cup m
      BY <1>0, <3>1, EffectOwned DEF Records, PassKnows
    <3>3. Working(p) /\ passes[p].made \subseteq m
      BY <3>1 DEF Working, Kinds
    <3>4. /\ passes' = [passes EXCEPT ![p] = NoPass] /\ unsaved' = unsaved \cup m
          /\ UNCHANGED <<ids, downs>>
      BY <3>1, FailsFrame
    <3> HIDE DEF m
    <3> QED
      BY <1>0, <2>0, <3>2, <3>3, <3>4, RecordsEnd
  <2>10. CASE \E p \in Passes, k \in Kinds : Look(p, k)
    BY <1>0, <2>10, RecordsLook
  <2>11. CASE \E p \in Passes, k \in Kinds : Write(p, k)
    BY <1>0, <2>11, RecordsWrite
  <2>12. CASE Skips
    <3>1. UNCHANGED <<apps, ids, passes, downs, unsaved>>
      BY <2>12, SkipsFrame, FiresFrame
    <3> QED
      BY <1>0, <3>1, RecordsKept DEF Owned, Live
  <2> QED
    BY <1>1, <2>1, <2>2, <2>4, <2>5, <2>7, <2>8, <2>9, <2>10, <2>11, <2>12 DEF PassNext, Skips
<1>2. CASE DownNext
  <2>1. CASE Unload
    <3>1. CASE Unloaded(ids)
      BY <1>0, <2>1, <3>1, RecordsHeard DEF Unload, Unloaded
    <3>2. CASE downs' = [downs EXCEPT !["unload"] = Starting(ids)] /\ Tangles(Passes)
      BY <1>0, <2>1, <3>2, RecordsStart DEF Unload, Downs
    <3> QED
      BY <2>1, <3>1, <3>2 DEF Unload
  <2>2. CASE StaysUnloaded
    BY <1>0, <2>2, RecordsKept DEF StaysUnloaded, Owned, Live
  <2>3. CASE RemoveEntry
    <3>1. CASE downs' = [downs EXCEPT !["remove"] = Starting(ids)] /\ Tangles(Passes)
      BY <1>0, <2>3, <3>1, RecordsStart DEF RemoveEntry, Downs
    <3>2. CASE UNCHANGED <<downs, tangled>>
      BY <1>0, <2>3, <3>2, RecordsKept DEF RemoveEntry, Owned, Live
    <3> QED
      BY <2>3, <3>1, <3>2 DEF RemoveEntry
  <2>4. CASE \E d \in Downs : DownDone(d)
    BY <1>0, <2>4, RecordsDone
  <2>5. CASE \E d \in Downs, k \in Kinds : DeleteApp(d, k)
    BY <1>0, <2>5, RecordsDelete
  <2>6. CASE \E d \in Downs, k \in Kinds : DownFails(d, k)
    BY <1>0, <2>6, RecordsFail
  <2> QED
    BY <1>2, <2>1, <2>2, <2>3, <2>4, <2>5, <2>6 DEF DownNext
<1>3. CASE Environment
  <2>1. UNCHANGED <<ids, passes, downs, unsaved>>
    BY <1>3 DEF Environment, SetOptions, SetDisabled, Remove, ChangeUsers, Stop, ChangeUrl,
                Dashboard
  <2>2. \A i : Owned(i)' => Owned(i)
    <3>1. CASE \E i \in Live : Dashboard(i)
      BY <3>1 DEF Dashboard, Without, Owned, Live
    <3>2. CASE ~ \E i \in Live : Dashboard(i)
      <4>1. UNCHANGED apps
        BY <1>3, <3>2 DEF Environment, SetOptions, SetDisabled, Remove, ChangeUsers, Stop,
                          ChangeUrl
      <4> QED
        BY <4>1 DEF Owned, Live
    <3> QED
      BY <3>1, <3>2
  <2> QED
    BY <1>0, <2>1, <2>2, RecordsKept
<1>4. CASE Restart
  BY <1>0, <1>4, RecordsRestart
<1>5. CASE UNCHANGED vars
  BY <1>0, <1>5, RecordsKept DEF vars, Owned, Live
<1> QED
  BY <1>1, <1>2, <1>3, <1>4, <1>5 DEF Next

-----------------------------------------------------------------------------
(* Somebody still has to act.                                              *)

DisabledAwaited ==
    disabled /\ entry = "not_loaded" /\ ~stopping /\ ids # None => \E d \in Downs : Deleting(d)
RemovedAwaited ==
    entry = "removed" /\ DeletesOnRemove =>
        /\ \A p \in Passes : ~Working(p)
        /\ Deleting("remove") \/ OnRecord \cap Ours \subseteq unsaved

LEMMA PendingParts ==
    /\ Pending <=> (~warned /\ ~tangled => DisabledAwaited /\ RemovedAwaited)
    /\ Pending' <=> (~warned' /\ ~tangled' => DisabledAwaited' /\ RemovedAwaited')
BY DEF Pending, DisabledAwaited, RemovedAwaited

LEMMA HasGateNone ==
    ASSUME NEW r \in [Kinds -> Id]
    PROVE  HasGate(r) <=> r # None
<1>1. (\A k \in Kinds : r[k] = 0) => r = None
  BY DEF None
<1>2. r = None => \A k \in Kinds : r[k] = 0
  BY DEF None
<1> QED
  BY <1>1, <1>2 DEF HasGate

LEMMA HeardTakesDown ==
    ASSUME Workers, NEW r \in [Kinds -> Id], r # None, disabled, ~stopping,
           Heard("not_loaded", r)
    PROVE  \E d \in Downs : Deleting(d)'
<1>1. FreeTasks # {} /\ downs' = [downs EXCEPT ![TaskAt] = Starting(r)]
  BY HasGateNone DEF Heard, TakeDown
<1>2. TaskAt \in Downs /\ downs'[TaskAt].at = "gate"
  BY <1>1, TaskType, StartingType DEF Workers
<1> QED
  BY <1>2 DEF Deleting

LEMMA PendingPass ==
    ASSUME Settings, Cloud, Workers, Workers', Locks, Records, Pending, PassNext,
           ~warned', ~tangled, ~tangled'
    PROVE  DisabledAwaited' /\ RemovedAwaited'
<1> USE DEF cloud, stored, refreshed, history, bounds
<1>1. CASE SetupDone
  BY <1>1 DEF SetupDone, DisabledAwaited, RemovedAwaited
<1>2. ~SetupDone => UNCHANGED warned
  <2>1. CASE SetupStart \/ Skips \/ RefreshStart \/ RefreshDone
    BY <2>1, SkipsFrame, StartsFrame, FiresFrame DEF SetupStart, RefreshDone
  <2>2. CASE \E p \in Passes : Save(p) \/ CallFails(p)
    BY <2>2, FailsFrame DEF Save, CallFails
  <2>3. CASE \E p \in Passes, k \in Kinds : Look(p, k) \/ Write(p, k)
    BY <2>3, LookFrame, WriteFrame
  <2>4. CASE \E p \in Passes, k \in Kinds : WriteAnswerLost(p, k) \/ WriteRefused(p, k)
    BY <2>4, FailsFrame DEF WriteAnswerLost, WriteRefused
  <2> QED
    BY <2>1, <2>2, <2>3, <2>4 DEF PassNext, Skips
<1>3. CASE ~SetupDone
  <2>1. DisabledAwaited /\ RemovedAwaited
    BY <1>2, <1>3, PendingParts
  <2>2. CASE SetupStart
    BY <2>2 DEF SetupStart, DisabledAwaited, RemovedAwaited
  <2>3. CASE RefreshStart \/ Skips
    <3>1. Fires
      BY <2>3, StartsFrame, SkipsFrame
    <3>2. entry \in {"loaded", "unloading"} /\ UNCHANGED entry
      BY <3>1, FiresFrame
    <3> QED
      BY <3>2 DEF DisabledAwaited, RemovedAwaited
  <2>4. CASE ~SetupStart /\ ~RefreshStart /\ ~Skips
    <3>1. \E p \in Passes : Working(p)
      <4>1. CASE RefreshDone
        BY <4>1 DEF RefreshDone, Working, Passes
      <4>2. CASE \E p \in Passes : Save(p) \/ CallFails(p)
        BY <4>2 DEF Save, CallFails, Working
      <4>3. CASE \E p \in Passes, k \in Kinds : Look(p, k) \/ Write(p, k)
        <5> PICK p \in Passes, k \in Kinds : Look(p, k) \/ Write(p, k)
          BY <4>3
        <5>1. passes[p].at = k
          BY Zenon DEF Look, At, Write
        <5> QED
          BY <5>1 DEF Working, Kinds
      <4>4. CASE \E p \in Passes, k \in Kinds : WriteAnswerLost(p, k) \/ WriteRefused(p, k)
        <5>1. \A p, k : WriteAnswerLost(p, k) \/ WriteRefused(p, k) => passes[p].at = k
          BY Zenon DEF WriteAnswerLost, WriteRefused
        <5> QED
          BY <4>4, <5>1 DEF Working, Kinds
      <4> QED
        BY <1>3, <2>4, <4>1, <4>2, <4>3, <4>4 DEF PassNext, Skips
    <3>2. ~(entry = "removed" /\ DeletesOnRemove)
      BY <2>1, <3>1 DEF RemovedAwaited
    <3>3. entry' \in {entry, "retry", "error"}
      <4>1. CASE RefreshDone
        BY <4>1 DEF RefreshDone
      <4>2. CASE \E p \in Passes : Save(p) \/ CallFails(p)
        BY <4>2, FailsFrame DEF Save, CallFails
      <4>3. CASE \E p \in Passes, k \in Kinds : Look(p, k) \/ Write(p, k)
        BY <4>3, LookFrame, WriteFrame
      <4>4. CASE \E p \in Passes, k \in Kinds : WriteAnswerLost(p, k) \/ WriteRefused(p, k)
        BY <4>4, FailsFrame DEF WriteAnswerLost, WriteRefused
      <4> QED
        BY <1>3, <2>4, <4>1, <4>2, <4>3, <4>4 DEF PassNext, Skips
    <3>4. RemovedAwaited'
      BY <3>2, <3>3 DEF RemovedAwaited
    <3>5. CASE \E p \in Passes : Save(p)
      <4> PICK p \in Passes : Save(p)
        BY <3>5
      <4>1. UNCHANGED <<ids, downs>> \/ Heard(entry, ids')
        BY DEF Save
      <4>2. UNCHANGED <<disabled, entry, stopping>>
        BY DEF Save
      <4>3. CASE UNCHANGED <<ids, downs>>
        BY <2>1, <3>4, <4>2, <4>3 DEF DisabledAwaited, Deleting, None
      <4>4. CASE Heard(entry, ids')
        <5>1. ids' \in [Kinds -> Id]
          BY SameIdsOf DEF Save, SameIds, Workers
        <5>2. disabled /\ ~stopping /\ entry = "not_loaded" /\ ids' # None
              => \E d \in Downs : Deleting(d)'
          BY <4>4, <5>1, HeardTakesDown
        <5> QED
          BY <3>4, <4>2, <5>2 DEF DisabledAwaited, None
      <4> QED
        BY <3>4, <4>1, <4>3, <4>4
    <3>6. CASE ~ \E p \in Passes : Save(p)
      <4>1. /\ UNCHANGED <<ids, disabled, stopping, downs>>
            /\ entry' = "not_loaded" => entry = "not_loaded"
        <5>1. UNCHANGED <<ids, disabled, stopping, downs>>
          <6>1. CASE RefreshDone
            BY <6>1 DEF RefreshDone
          <6>2. CASE \E p \in Passes : CallFails(p)
            BY <6>2, FailsFrame DEF CallFails
          <6>3. CASE \E p \in Passes, k \in Kinds : Look(p, k) \/ Write(p, k)
            BY <6>3, LookFrame, WriteFrame
          <6>4. CASE \E p \in Passes, k \in Kinds : WriteAnswerLost(p, k) \/ WriteRefused(p, k)
            BY <6>4, FailsFrame DEF WriteAnswerLost, WriteRefused
          <6> QED
            BY <1>3, <2>4, <3>6, <6>1, <6>2, <6>3, <6>4 DEF PassNext, Skips
        <5> QED
          BY <3>3, <5>1
      <4> QED
        BY <2>1, <3>4, <4>1 DEF DisabledAwaited, Deleting, None
    <3> QED
      BY <3>5, <3>6
  <2> QED
    BY <2>2, <2>3, <2>4
<1> QED
  BY <1>1, <1>3

LEMMA PendingDown ==
    ASSUME Settings, Cloud, Workers, Locks, Records, Pending, DownNext,
           ~warned', ~tangled, ~tangled'
    PROVE  DisabledAwaited' /\ RemovedAwaited'
<1> USE DEF cloud, stored, refreshed, history, bounds
<1>0. ids \in [Kinds -> Id] /\ downs \in [Downs -> DownStates]
      /\ "unload" \in Downs /\ "remove" \in Downs
  BY DEF Workers, Downs
<1>1. CASE Unload
  <2>1. CASE entry' = "unloading"
    BY <2>1 DEF DisabledAwaited, RemovedAwaited
  <2>2. CASE Unloaded(ids)
    <3>1. entry' = "not_loaded" /\ Heard("not_loaded", ids)
      BY <2>2 DEF Unloaded
    <3>2. UNCHANGED <<ids, disabled, stopping>>
      BY <1>1 DEF Unload
    <3>3. disabled /\ ~stopping /\ ids # None => \E d \in Downs : Deleting(d)'
      BY <1>0, <3>1, HeardTakesDown
    <3> QED
      BY <3>1, <3>2, <3>3 DEF DisabledAwaited, RemovedAwaited, None
  <2> QED
    BY <1>1, <2>1, <2>2 DEF Unload
<1>2. CASE StaysUnloaded
  <2>1. DisabledAwaited /\ RemovedAwaited
    BY <1>2, PendingParts DEF StaysUnloaded
  <2> QED
    BY <1>2, <2>1 DEF StaysUnloaded, DisabledAwaited, RemovedAwaited, Deleting, Working, None,
                      OnRecord, Ours, Live
<1>3. CASE RemoveEntry
  <2>1. entry' = "removed" /\ UNCHANGED passes
    BY <1>3 DEF RemoveEntry
  <2>2. DeletesOnRemove => Deleting("remove")' /\ Tangles(Passes)
    <3>1. Starting(ids).at = "gate"
      BY <1>0, StartingType
    <3> QED
      BY <1>0, <1>3, <3>1 DEF RemoveEntry, Deleting
  <2>3. DeletesOnRemove => \A p \in Passes : ~Working(p)
    BY <2>2 DEF Tangles, Busy, Working
  <2> QED
    BY <2>1, <2>2, <2>3 DEF DisabledAwaited, RemovedAwaited, Working
<1>4. CASE \E d \in Downs : DownDone(d)
  <2> PICK d \in Downs : DownDone(d)
    BY <1>4
  <2>1. downs[d].at = "done" /\ Deleting(d)
    BY DEF DownDone, Deleting
  <2>2. /\ \A p \in Passes : ~Working(p) /\ passes[p].made = {}
        /\ DownKnows(d)
    BY <2>1, DownAlone
  <2>3. \A k \in Kinds : ~Owned(ids[k]) /\ ~Owned(0)
    BY <2>1, <2>2 DEF DownKnows, Kinds, None, Owned, Live, Cloud
  <2>4. /\ UNCHANGED <<apps, passes, unsaved>> /\ (d = "remove" \/ entry = "removed" \/ ids' = None)
        /\ ids' \in {ids, None} /\ (entry' = entry \/ entry' = "not_loaded")
    BY DEF DownDone
  <2>5. d = "remove" => entry' = "removed"
    BY <2>1 DEF Locks, DownDone
  <2>6. entry = "removed" => entry' = "removed"
    BY <2>1 DEF Locks, DownDone, Deleting
  <2>7. DisabledAwaited'
    BY <2>4, <2>5, <2>6 DEF DisabledAwaited, None
  <2>8. OnRecord' \cap Ours' = {}
    BY <2>3, <2>4, OursOwned DEF OnRecord, Ours, Live, None, Owned
  <2>9. RemovedAwaited'
    BY <2>2, <2>4, <2>8 DEF RemovedAwaited, Working
  <2> QED
    BY <2>7, <2>9
<1>5. CASE \E d \in Downs, k \in Kinds : DeleteApp(d, k)
  <2> PICK d \in Downs, k \in Kinds : DeleteApp(d, k)
    BY <1>5
  <2>1. /\ downs[d].at = k /\ downs' = [downs EXCEPT ![d].at = AfterDown[k]] /\ Deleted(d, k)
        /\ UNCHANGED <<ids, disabled, entry, stopping, passes, unsaved, warned, tangled>>
    BY DEF DeleteApp
  <2>2. DisabledAwaited /\ RemovedAwaited
    BY <2>1, PendingParts
  <2>3. \A c \in Downs : Deleting(c) => Deleting(c)'
    <3>1. AfterDown[k] # "idle"
      BY DEF AfterDown, Kinds
    <3> QED
      BY <1>0, <2>1, <3>1 DEF Deleting, DownStates
  <2>4. Ours' \subseteq Ours
    BY <2>1, DeletedOwned, OursOwned DEF Ours, Owned
  <2>5. OnRecord' = OnRecord
    BY <2>1 DEF OnRecord
  <2> QED
    BY <1>0, <2>1, <2>2, <2>3, <2>4, <2>5 DEF DisabledAwaited, RemovedAwaited, Working, None
<1>6. CASE \E d \in Downs, k \in Kinds : DownFails(d, k)
  BY <1>6 DEF DownFails
<1> QED
  BY <1>1, <1>2, <1>3, <1>4, <1>5, <1>6 DEF DownNext

LEMMA PendingRest ==
    ASSUME Settings, Cloud, Workers, Locks, Awaited, Pending, ~warned', ~tangled',
           Environment \/ Restart \/ UNCHANGED vars
    PROVE  DisabledAwaited' /\ RemovedAwaited'
<1> USE DEF cloud, stored, refreshed, history, bounds
<1>0. ids \in [Kinds -> Id] /\ UNCHANGED <<warned, tangled, ids>>
  BY DEF Workers, Environment, SetOptions, SetDisabled, Remove, ChangeUsers, Stop, ChangeUrl,
         Dashboard, Restart, vars
<1>1. DisabledAwaited /\ RemovedAwaited
  BY <1>0, PendingParts
<1>2. CASE Environment
  <2>1. UNCHANGED <<entry, passes, downs, unsaved>>
    BY <1>2 DEF Environment, SetOptions, SetDisabled, Remove, ChangeUsers, Stop, ChangeUrl,
                Dashboard
  <2>2. Ours' \subseteq Ours
    <3>1. CASE \E i \in Live : Dashboard(i)
      <4>1. \A i : Owned(i)' => Owned(i)
        BY <3>1 DEF Dashboard, Without, Owned, Live
      <4> QED
        BY <4>1, OursOwned DEF Ours, Owned
    <3>2. CASE ~ \E i \in Live : Dashboard(i)
      <4>1. UNCHANGED apps
        BY <1>2, <3>2 DEF Environment, SetOptions, SetDisabled, Remove, ChangeUsers, Stop,
                          ChangeUrl
      <4> QED
        BY <4>1 DEF Ours, Live
    <3> QED
      BY <3>1, <3>2
  <2>3. RemovedAwaited'
    BY <1>0, <1>1, <2>1, <2>2 DEF RemovedAwaited, Working, Deleting, OnRecord
  <2>4. CASE SetDisabled
    <3>1. entry = "not_loaded" => ~Locked
      BY DEF Locks, Locked, Deleting
    <3>2. entry = "not_loaded" => waiting = {}
      BY <2>4, <3>1 DEF SetDisabled
    <3>3. entry = "not_loaded" => ~disabled'
      BY <2>4, <3>2 DEF SetDisabled, Awaited, Settings
    <3> QED
      BY <2>1, <2>3, <3>3 DEF DisabledAwaited
  <2>5. CASE ~SetDisabled
    <3>1. UNCHANGED disabled /\ (stopping' = stopping \/ stopping' = TRUE)
      <4>1. CASE Stop \/ Remove \/ ChangeUsers
        BY <4>1 DEF Stop, Remove, ChangeUsers
      <4>2. CASE \E g, b \in BOOLEAN : SetOptions(g, b)
        BY <4>2 DEF SetOptions
      <4>3. CASE \E h \in Hosts : ChangeUrl(h)
        BY <4>3 DEF ChangeUrl
      <4>4. CASE \E i \in Live : Dashboard(i)
        BY <4>4 DEF Dashboard
      <4> QED
        BY <1>2, <2>5, <4>1, <4>2, <4>3, <4>4 DEF Environment
    <3> QED
      BY <1>0, <1>1, <2>1, <2>3, <3>1 DEF DisabledAwaited, Deleting, None
  <2> QED
    BY <2>4, <2>5
<1>3. CASE Restart
  <2>1. /\ downs' = AtStart(ids) /\ UNCHANGED <<apps, disabled>>
        /\ passes' = [p \in Passes |-> NoPass]
        /\ entry' = (IF entry = "removed" THEN "removed" ELSE "not_loaded")
    BY <1>3 DEF Restart
  <2>2. DisabledAwaited'
    <3> SUFFICES ASSUME disabled, entry # "removed", ids # None
                 PROVE  \E d \in Downs : Deleting(d)'
      BY <1>0, <2>1 DEF DisabledAwaited, None
    <3> DEFINE chosen == CHOOSE b \in Background : TRUE
    <3>1. chosen \in Downs
      BY LifecycleAssumption DEF Downs
    <3>2. downs'[chosen] = Starting(ids)
      BY <1>0, <2>1, <3>1, HasGateNone DEF AtStart
    <3>3. downs'[chosen].at = "gate"
      BY <1>0, <3>2, StartingType
    <3> HIDE DEF chosen
    <3> QED
      BY <3>1, <3>3 DEF Deleting
  <2>3. \A p \in Passes : ~Working(p)'
    BY <2>1 DEF Working, NoPass
  <2>4. entry = "removed" /\ DeletesOnRemove => OnRecord \cap Ours \subseteq unsaved'
    <3>1. unsaved \subseteq unsaved' /\ (Deleting("remove") => OnRecord \subseteq unsaved')
      BY <1>3 DEF Restart, Deleting, OnRecord
    <3> QED
      BY <1>1, <3>1 DEF RemovedAwaited
  <2>5. OnRecord' = OnRecord /\ Ours' = Ours
    BY <1>0, <2>1 DEF OnRecord, Ours, Live
  <2> QED
    BY <2>1, <2>2, <2>3, <2>4, <2>5 DEF RemovedAwaited
<1>4. CASE UNCHANGED vars
  BY <1>1, <1>4 DEF vars, DisabledAwaited, RemovedAwaited, Deleting, Working, None, OnRecord,
                    Ours, Live
<1> QED
  BY <1>2, <1>3, <1>4

LEMMA PendingStep ==
    /\ Settings /\ Cloud /\ Workers /\ Locks /\ Awaited /\ Records /\ Pending /\ [Next]_vars
    => Pending'
<1> SUFFICES ASSUME Settings, Cloud, Workers, Locks, Awaited, Records, Pending, [Next]_vars,
                    ~warned', ~tangled'
             PROVE  DisabledAwaited' /\ RemovedAwaited'
  BY PendingParts
<1>1. ~tangled
  BY TangledStays
<1>2. Workers'
  BY TypeStep, TypeParts, TypePartsNext
<1> QED
  BY <1>1, <1>2, PendingPass, PendingDown, PendingRest DEF Next

-----------------------------------------------------------------------------

LifecycleInvariant == TypeOK /\ Locks /\ Awaited /\ Records /\ Pending

LEMMA InvariantInit == Init => LifecycleInvariant
<1> SUFFICES ASSUME Init PROVE LifecycleInvariant
  OBVIOUS
<1>1. TypeOK
  BY InitType, TypeParts
<1>2. /\ \A p \in Passes : passes[p].at = "idle" /\ passes[p].made = {}
      /\ \A d \in Downs : downs[d].at = "idle"
  BY DEF Init, NoPass, NoDown
<1>3. Locks /\ Awaited
  BY <1>2 DEF Init, Locks, Awaited, Working, Deleting, Passes, Downs
<1>4. Records
  <2>1. Kept
    BY DEF Init, Kept, Ours, Live
  <2> QED
    BY <1>2, <2>1 DEF Records, Alone, PassKnows, Working, Deleting, Kinds
<1>5. Pending
  BY DEF Init, Pending
<1> QED
  BY <1>1, <1>3, <1>4, <1>5 DEF LifecycleInvariant

LEMMA InvariantHolds == Spec => []LifecycleInvariant
<1>1. LifecycleInvariant /\ [Next]_vars => LifecycleInvariant'
  BY TypeParts, TypeStep, LocksStep, AwaitedStep, RecordsStep, PendingStep DEF LifecycleInvariant
<1> QED
  BY <1>1, InvariantInit, PTL DEF Spec

\* Every application of the entry is on record, or left by a pass that failed, or about to
\* be put on record, as long as no pass works beside anything else.
THEOREM NoneForgotten == Spec => []NothingForgotten
<1>1. LifecycleInvariant => NothingForgotten
  BY DEF LifecycleInvariant, Records, Kept, NothingForgotten
<1> QED
  BY <1>1, InvariantHolds, PTL

\* At rest a disabled entry has nothing at Cloudflare, and a removed one neither, if its
\* objects are to go with it.
THEOREM DownAtRest == Spec => []TakenDown
<1>1. LifecycleInvariant => TakenDown
  <2> SUFFICES ASSUME LifecycleInvariant, AtRest, Down, ~tangled, ~warned
               PROVE  Ours \subseteq unsaved
    BY DEF TakenDown
  <2>1. \A p \in Passes : ~Working(p)
    BY DEF AtRest, Busy, Everything, Working
  <2>2. \A d \in Downs : ~Deleting(d)
    BY DEF AtRest, Busy, Everything, Deleting
  <2>3. Ours \subseteq OnRecord \cup unsaved
    BY <2>1 DEF LifecycleInvariant, Records, Kept, PassKnows, Working
  <2>4. OnRecord \cap Ours \subseteq unsaved
    <3>1. CASE entry = "removed"
      BY <2>2, <3>1 DEF Down, LifecycleInvariant, Pending, Downs
    <3>2. CASE entry # "removed"
      <4>1. disabled /\ ~stopping /\ waiting = {}
            /\ entry \in {"loaded", "not_loaded", "error"}
        BY <3>2 DEF Down, AtRest
      <4>2. entry = "not_loaded"
        BY <4>1 DEF LifecycleInvariant, Awaited
      <4>3. ids = None
        BY <2>2, <4>1, <4>2 DEF LifecycleInvariant, Pending
      <4>4. 0 \notin Ours
        BY TypeParts DEF LifecycleInvariant, Ours, Live, Cloud
      <4> QED
        BY <4>3, <4>4 DEF OnRecord, None
    <3> QED
      BY <3>1, <3>2
  <2> QED
    BY <2>3, <2>4
<1> QED
  BY <1>1, InvariantHolds, PTL
=============================================================================
