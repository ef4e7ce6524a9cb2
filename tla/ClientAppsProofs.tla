-------------------------- MODULE ClientAppsProofs --------------------------
(***************************************************************************)
(* Theorems about ClientApps, for all sets of clients, names and hostnames *)
(* and whatever fails or happens.                                          *)
(***************************************************************************)
EXTENDS ClientApps, TLAPS

\* What a sweep has still to delete is on its list.
Leftover(i) ==
    /\ i < run.upto /\ objs[i].host = run.host /\ i \notin Kept
    /\ IsApp(i) => objs[i].tagged
SweepInv ==
    run.kind = "setup" =>
        /\ run.pc \in {"drop_apps", "drop_tokens"} =>
             \A i \in Live : IsApp(i) /\ Leftover(i) =>
                                run.pc = "drop_apps" /\ i \in run.victims
        /\ run.pc = "drop_tokens" =>
             \A i \in Live : ~IsApp(i) /\ Leftover(i) => i \in run.victims

\* Nobody remembers an object that exists and is another client's.
Owned(f, o) == \A c \in DOMAIN f : f[c] \in DOMAIN o => o[f[c]].for = c
OwnInv ==
    /\ Owned(subs, objs) /\ Owned(flows, objs) /\ Owned(data.apps, objs)
    /\ Owned(run.todo, objs) /\ Owned(run.apps, objs)
    /\ \A i \in run.tokens \cap Live : ~IsApp(i)

\* From the write to the end of the run the gate names what the run says, and the
\* applications to be deleted are not among it.
GateInv ==
    /\ run.pc \in {"apps", "drop_apps", "drop_tokens"} => gate \subseteq NamedOnGate
    /\ run.pc = "drop_apps" => \A i \in run.victims \cap Live : IsApp(i) /\ i \notin NamedOnGate

\* No two console apps have the same name.
DistinctNames == \A c, d \in Consoles : NameOf[c] = NameOf[d] => c = d

-----------------------------------------------------------------------------
(* Dictionaries.                                                           *)

LEMMA DictIff ==
    ASSUME NEW S, NEW f
    PROVE  f \in Dict(S) <=> DOMAIN f \subseteq Clients /\ f \in [DOMAIN f -> S]
BY DEF Dict

LEMMA DictWith ==
    ASSUME NEW S, NEW f \in Dict(S), NEW c \in Clients, NEW v \in S
    PROVE  With(f, c, v) \in Dict(S)
<1>1. DOMAIN f \subseteq Clients /\ f \in [DOMAIN f -> S]
  BY DictIff
<1>2. With(f, c, v) \in [DOMAIN f \cup {c} -> S]
  BY <1>1 DEF With
<1> QED
  BY <1>1, <1>2, DictIff DEF With

LEMMA DictWithout ==
    ASSUME NEW S, NEW f \in Dict(S), NEW c
    PROVE  Without(f, c) \in Dict(S)
<1>1. DOMAIN f \subseteq Clients /\ f \in [DOMAIN f -> S]
  BY DictIff
<1>2. Without(f, c) \in [DOMAIN f \ {c} -> S]
  BY <1>1 DEF Without
<1> QED
  BY <1>1, <1>2, DictIff DEF Without

LEMMA DictSub ==
    ASSUME NEW S, NEW T, S \subseteq T
    PROVE  Dict(S) \subseteq Dict(T)
<1> SUFFICES ASSUME NEW f \in Dict(S) PROVE f \in Dict(T)
  OBVIOUS
<1>1. DOMAIN f \subseteq Clients /\ f \in [DOMAIN f -> S]
  BY DictIff
<1>2. f \in [DOMAIN f -> T]
  BY <1>1
<1> QED
  BY <1>1, <1>2, DictIff

LEMMA DictNothing == ASSUME NEW S PROVE Nothing \in Dict(S)
BY DictIff DEF Nothing

\* What a loop looks up in the subentries.
LEMMA LookedUp ==
    ASSUME NEW S, subs \in Dict(S), NEW K
    PROVE  OfKind(K) \in Dict(S) /\ TokenIds \subseteq S
<1>1. DOMAIN subs \subseteq Clients /\ subs \in [DOMAIN subs -> S]
  BY DictIff
<1>2. OfKind(K) \in [DOMAIN subs \cap K -> S]
  BY <1>1 DEF OfKind
<1> QED
  BY <1>1, <1>2, DictIff DEF OfKind, TokenIds

-----------------------------------------------------------------------------
(* Types.                                                                  *)

\* While no object is created the types stay what they are; creating one they grow.
LEMMA SameTypes ==
    next' = next => Ids' = Ids /\ Run' = Run /\ Snapshot' = Snapshot
BY DEF Ids, Run, Snapshot

LEMMA LargerTypes ==
    ASSUME next \in Nat \ {0}, next' = next + 1
    PROVE  /\ Ids \subseteq Ids' /\ next \in Ids'
           /\ Dict(Ids) \subseteq Dict(Ids')
           /\ Run \subseteq Run' /\ Snapshot \subseteq Snapshot'
<1>1. Ids \subseteq Ids' /\ next \in Ids' /\ 1 .. next \subseteq (1 .. next)'
  BY DEF Ids
<1>2. Dict(Ids) \subseteq Dict(Ids')
  BY <1>1, DictSub
<1>3. Run \subseteq Run'
  BY <1>1, <1>2 DEF Run
<1>4. Snapshot \subseteq Snapshot'
  BY <1>1, <1>2 DEF Snapshot
<1> QED
  BY <1>1, <1>2, <1>3, <1>4

LEMMA RestingTypes == next \in Nat \ {0} => Idle \in Run /\ NoData \in Snapshot
<1> SUFFICES ASSUME next \in Nat \ {0} PROVE Idle \in Run /\ NoData \in Snapshot
  OBVIOUS
<1>1. AnyHost \in Hosts
  BY ClientAssumption DEF AnyHost
<1>2. Nothing \in Dict(Ids)
  BY DictNothing
<1> QED
  BY <1>1, <1>2 DEF Idle, NoData, Run, Snapshot

LEMMA InitType == Init => TypeOK
<1> SUFFICES ASSUME Init PROVE TypeOK
  OBVIOUS
<1>1. next \in Nat \ {0} /\ Nothing \in Dict(Ids)
  BY DictNothing DEF Init
<1>2. secret \in [DOMAIN subs -> Ids] /\ objs \in [DOMAIN objs -> Object]
  BY DEF Init, Nothing
<1>3. DOMAIN subs = {} /\ DOMAIN objs = {}
  BY DEF Init, Nothing
<1>4. run \in Run /\ data \in Snapshot /\ subs \in Dict(Ids) /\ flows \in Dict(Ids)
  BY <1>1, RestingTypes DEF Init
<1>5. changes \in 0 .. MaxChanges /\ failures \in 0 .. MaxFailures
  BY ClientAssumption DEF Init
<1> QED
  BY <1>1, <1>2, <1>3, <1>4, <1>5 DEF Init, TypeOK

\* How a run ends badly.
LEMMA FailType ==
    ASSUME TypeOK, RunFails("retry") \/ RunFails("error") \/ RunDies
    PROVE  /\ run' \in Run /\ data' \in Snapshot
           /\ entry' \in {"down", "setup", "loaded", "retry", "error"}
           /\ reported' \in BOOLEAN /\ died' \in BOOLEAN
<1>1. Idle \in Run
  BY RestingTypes DEF TypeOK
<1>2. [data EXCEPT !.tokens = run.old.tokens, !.host = run.old.host] \in Snapshot
  BY DEF TypeOK, Run, Snapshot
<1>3. CASE RunFails("retry") \/ RunFails("error")
  BY <1>1, <1>2, <1>3 DEF TypeOK, RunFails
<1>4. CASE RunDies
  BY <1>1, <1>4 DEF TypeOK, RunDies
<1> QED
  BY <1>3, <1>4

\* What an object's client gets, once the object is there.
LEMMA TookType ==
    ASSUME TypeOK, NEW c \in DOMAIN run.todo, NEW i, NEW created \in BOOLEAN,
           \/ next' = next /\ i \in Ids /\ ~created
           \/ next' = next + 1 /\ i = next /\ created,
           Took(c, i, created), Quiet
    PROVE  /\ subs' \in Dict(Ids') /\ secret' \in [DOMAIN subs' -> Ids']
           /\ DOMAIN subs' = DOMAIN subs
           /\ run' \in Run' /\ data' \in Snapshot'
           /\ entry' \in {"down", "setup", "loaded", "retry", "error"}
           /\ reported' \in BOOLEAN /\ died' \in BOOLEAN
           /\ due' \in BOOLEAN /\ missed' \in BOOLEAN
<1>1. /\ Ids \subseteq Ids' /\ Dict(Ids) \subseteq Dict(Ids') /\ i \in Ids'
      /\ Run \subseteq Run' /\ Snapshot \subseteq Snapshot'
  BY SameTypes, LargerTypes DEF TypeOK
<1>2. c \in Clients /\ StoredId(c) \in Ids /\ run.todo \in Dict(Ids)
  BY DictIff DEF TypeOK, Run, StoredId
<1>3. subs \in Dict(Ids') /\ secret \in [DOMAIN subs -> Ids'] /\ run \in Run'
      /\ data \in Snapshot'
  BY <1>1 DEF TypeOK
<1>4. created => i # StoredId(c)
  BY <1>2 DEF TypeOK, Ids
<1>5. CASE /\ i # StoredId(c) => c \in DOMAIN subs
           /\ run' = [run EXCEPT !.todo = Without(@, c), !.apps = With(@, c, i)]
           /\ subs' = (IF i # StoredId(c) THEN With(subs, c, i) ELSE subs)
           /\ secret' = (IF created THEN With(secret, c, i) ELSE secret)
           /\ UNCHANGED <<entry, data, reported, died>>
  <2>1. subs' \in Dict(Ids') /\ DOMAIN subs' = DOMAIN subs
    <3>1. With(subs, c, i) \in Dict(Ids')
      BY <1>1, <1>2, <1>3, DictWith
    <3>2. c \in DOMAIN subs => DOMAIN With(subs, c, i) = DOMAIN subs
      BY DEF With
    <3> QED
      BY <1>3, <1>5, <3>1, <3>2
  <2>2. secret' \in [DOMAIN subs' -> Ids']
    BY <1>1, <1>3, <1>4, <1>5, <2>1 DEF With
  <2>3. run' \in Run'
    <3>1. Without(run.todo, c) \in Dict(Ids')
      BY <1>1, <1>2, DictWithout
    <3>2. With(run.apps, c, i) \in Dict(Ids')
      <4>1. run.apps \in Dict(Ids')
        BY <1>3 DEF Run
      <4> QED
        BY <1>1, <1>2, <4>1, DictWith
    <3> QED
      BY <1>3, <1>5, <3>1, <3>2 DEF Run
  <2>4. due' \in BOOLEAN /\ missed' \in BOOLEAN
    BY DEF Quiet, TypeOK
  <2> QED
    BY <1>3, <1>5, <2>1, <2>2, <2>3, <2>4 DEF TypeOK
<1>6. CASE RunDies /\ UNCHANGED <<subs, secret>>
  <2>1. run' \in Run' /\ data' \in Snapshot'
    BY <1>1, <1>6, FailType
  <2> QED
    BY <1>3, <1>6, <2>1, FailType DEF Quiet, TypeOK
<1> QED
  BY <1>5, <1>6 DEF Took, CanStore

LEMMA ReconcileType == ASSUME TypeOK, NEW c \in Clients, Reconcile(c) PROVE TypeOK'
<1> USE DEF Live
<1>1. CASE \E i \in Existing(c) : /\ objs' = [objs EXCEPT ![i].host = run.host]
                                  /\ Took(c, i, FALSE)
                                  /\ UNCHANGED next
  <2>1. PICK i \in Existing(c) : /\ objs' = [objs EXCEPT ![i].host = run.host]
                                 /\ Took(c, i, FALSE)
                                 /\ UNCHANGED next
    BY <1>1
  <2>2. i \in Live
    BY DEF Existing, Known, SameName
  <2>3. i \in Ids /\ c \in DOMAIN run.todo
    BY <2>2 DEF TypeOK, Reconcile
  <2>4. objs' \in [DOMAIN objs' -> Object] /\ DOMAIN objs' = DOMAIN objs
    BY <2>1, <2>2 DEF TypeOK, Object, Run
  <2> HIDE DEF Live
  <2> QED
    BY <2>1, <2>3, <2>4, TookType, SameTypes DEF TypeOK, Reconcile, users, bounds
<1>2. CASE Create(c, run.host) /\ Took(c, next, TRUE)
  <2>1. c \in DOMAIN run.todo /\ next' = next + 1
    BY <1>2 DEF Reconcile, Create
  <2>2. objs' \in [DOMAIN objs' -> Object] /\ DOMAIN objs' = DOMAIN objs \cup {next}
    BY <1>2 DEF TypeOK, Object, Run, Create, With
  <2>3. next \in Nat \ {0} /\ next' \in Nat \ {0}
    BY <2>1 DEF TypeOK
  <2>4. Ids \subseteq Ids' /\ next \in Ids' /\ Dict(Ids) \subseteq Dict(Ids')
    BY <2>1, <2>3, LargerTypes
  <2> QED
    BY <1>2, <2>1, <2>2, <2>3, <2>4, TookType DEF TypeOK, Reconcile, users, bounds
<1> QED
  BY <1>1, <1>2 DEF Reconcile

LEMMA AnswerLostType ==
    ASSUME TypeOK, NEW c \in Clients, ReconcileAnswerLost(c) PROVE TypeOK'
<1>1. next' = next + 1 /\ next \in Nat \ {0} /\ next' \in Nat \ {0}
  BY DEF ReconcileAnswerLost, Create, TypeOK
<1>2. objs' \in [DOMAIN objs' -> Object] /\ DOMAIN objs' = DOMAIN objs \cup {next}
  BY DEF ReconcileAnswerLost, TypeOK, Object, Run, Create, With
<1>3. /\ Ids \subseteq Ids' /\ next \in Ids' /\ Dict(Ids) \subseteq Dict(Ids')
      /\ Run \subseteq Run' /\ Snapshot \subseteq Snapshot'
  BY <1>1, LargerTypes
<1>4. failures' \in 0 .. MaxFailures
  BY ClientAssumption DEF ReconcileAnswerLost, MayFail, TypeOK
<1> QED
  BY <1>1, <1>2, <1>3, <1>4, FailType
     DEF TypeOK, ReconcileAnswerLost, users, Quiet

\* A step of a run keeps the types.
LEMMA RunType == TypeOK /\ RunNext => TypeOK'
<1> SUFFICES ASSUME TypeOK, RunNext PROVE TypeOK'
  OBVIOUS
<1> USE DEF users, bounds, Quiet
<1>0. Idle \in Run /\ NoData \in Snapshot
  BY RestingTypes DEF TypeOK
<1>a. next' = next => Ids' = Ids /\ Run' = Run /\ Snapshot' = Snapshot
  BY SameTypes
<1>b. \A K : OfKind(K) \in Dict(Ids)
  BY LookedUp DEF TypeOK
<1>c. TokenIds \subseteq Ids
  BY LookedUp DEF TypeOK
<1>1. CASE SetupStart
  <2>1. run' \in Run
    BY <1>0, <1>1, <1>b DEF SetupStart, Start, Run, Snapshot, TypeOK
  <2> QED
    BY <1>1, <1>a, <2>1 DEF SetupStart, TypeOK
<1>2. CASE ReconcileScripts
  <2>1. run' \in Run
    BY <1>2, <1>b DEF ReconcileScripts, Run, TypeOK
  <2> QED
    BY <1>2, <1>a, <2>1 DEF ReconcileScripts, TypeOK
<1>3. CASE Reread
  <2>1. run' \in Run
    BY <1>3, <1>c DEF Reread, Run, TypeOK
  <2>2. data' \in Snapshot
    BY <1>3, <1>c DEF Reread, Snapshot, TypeOK
  <2> QED
    BY <1>3, <1>a, <2>1, <2>2 DEF Reread, TypeOK
<1>4. CASE WriteGate
  <2>1. run' \in Run
    BY <1>4 DEF WriteGate, Run, TypeOK
  <2>2. NamedOnGate \subseteq Ids
    BY DictIff DEF NamedOnGate, Run, TypeOK
  <2> QED
    BY <1>4, <1>a, <2>1, <2>2 DEF WriteGate, TypeOK
<1>5. CASE GateRefused
  BY <1>5, <1>a, FailType DEF GateRefused, TypeOK
<1>6. CASE ListStale
  <2>1. \A K : Stale(K) \subseteq Ids
    BY DictIff DEF Stale, Orphans, Removed, Live, Snapshot, TypeOK
  <2>2. next \in 1 .. next
    BY DEF TypeOK
  <2>3. \A V \in SUBSET Ids :
            /\ [run EXCEPT !.pc = "drop_apps", !.upto = next, !.victims = V] \in Run
            /\ [run EXCEPT !.pc = "drop_tokens", !.victims = V] \in Run
    BY <2>2 DEF Run, TypeOK
  <2>4. run' \in Run
    BY <1>6, <2>1, <2>3 DEF ListStale
  <2> QED
    BY <1>6, <1>a, <2>4 DEF ListStale, TypeOK
<1>7. CASE DeleteRefused
  BY <1>7, <1>a, FailType DEF DeleteRefused, TypeOK
<1>8. CASE RunDone
  <2>1. data' \in Snapshot
    BY <1>8 DEF RunDone, Run, Snapshot, TypeOK
  <2>2. /\ entry' \in {"down", "setup", "loaded", "retry", "error"}
        /\ due' \in BOOLEAN /\ missed' \in BOOLEAN
    BY <1>8 DEF RunDone, TypeOK
  <2>3. run' \in Run /\ reported' \in BOOLEAN /\ died' \in BOOLEAN
    BY <1>0, <1>8 DEF RunDone
  <2>4. /\ objs' = objs /\ gate' = gate /\ subs' = subs /\ secret' = secret
        /\ used' = used /\ flows' = flows /\ host' = host /\ lost' = lost
        /\ next' = next /\ changes' = changes /\ failures' = failures
        /\ Ids' = Ids /\ Run' = Run /\ Snapshot' = Snapshot
    BY <1>8, <1>a DEF RunDone
  <2> QED
    BY <2>1, <2>2, <2>3, <2>4 DEF TypeOK
<1>9. CASE RefreshStart
  <2>1. run' \in Run /\ data' \in Snapshot
    <3>1. CASE UNCHANGED <<run, data>>
      BY <3>1 DEF TypeOK
    <3>2. CASE Start("refresh", host) /\ data' = [data EXCEPT !.tokens = TokenIds, !.host = host]
      <4>1. run' \in Run
        BY <1>0, <3>2, <1>b DEF Start, Run, Snapshot, TypeOK
      <4>2. data' \in Snapshot
        BY <3>2, <1>c DEF Snapshot, TypeOK
      <4> QED
        BY <4>1, <4>2
    <3> QED
      BY <1>9, <3>1, <3>2 DEF RefreshStart
  <2> QED
    BY <1>9, <1>a, <2>1 DEF RefreshStart, TypeOK
<1>10. CASE CallFails
  <2>1. failures' \in 0 .. MaxFailures
    BY <1>10, ClientAssumption DEF CallFails, MayFail, TypeOK
  <2> QED
    BY <1>10, <1>a, <2>1, FailType DEF CallFails, TypeOK
<1>11. CASE \E c \in Clients : Reconcile(c)
  BY <1>11, ReconcileType
<1>12. CASE \E c \in Clients : ReconcileAnswerLost(c)
  BY <1>12, AnswerLostType
<1>13. CASE \E i \in run.victims : DeleteStale(i)
  <2>1. PICK i \in run.victims : DeleteStale(i)
    BY <1>13
  <2>2. run' \in Run
    BY <2>1 DEF DeleteStale, Run, TypeOK
  <2>3. objs' \in [DOMAIN objs' -> Object] /\ DOMAIN objs' \subseteq DOMAIN objs
    BY <2>1 DEF DeleteStale, Without, TypeOK
  <2> QED
    BY <1>a, <2>1, <2>2, <2>3 DEF DeleteStale, TypeOK
<1> QED
  BY <1>1, <1>2, <1>3, <1>4, <1>5, <1>6, <1>7, <1>8, <1>9, <1>10, <1>11, <1>12, <1>13
     DEF RunNext

LEMMA RegisterType == ASSUME TypeOK, NEW c \in Clients, Register(c) PROVE TypeOK'
<1>1. next' = next + 1 /\ next \in Nat \ {0} /\ next' \in Nat \ {0}
  BY DEF Register, Create, TypeOK
<1>2. objs' \in [DOMAIN objs' -> Object] /\ DOMAIN objs' = DOMAIN objs \cup {next}
  BY DEF Register, TypeOK, Object, Create, With
<1>3. /\ Ids \subseteq Ids' /\ next \in Ids' /\ Dict(Ids) \subseteq Dict(Ids')
      /\ Run \subseteq Run' /\ Snapshot \subseteq Snapshot'
  BY <1>1, LargerTypes
<1>4. flows' \in Dict(Ids')
  BY <1>3, DictWith DEF Register, TypeOK
<1>5. changes' \in 0 .. MaxChanges
  BY ClientAssumption DEF Register, Change, TypeOK
<1> QED
  BY <1>1, <1>2, <1>3, <1>4, <1>5 DEF TypeOK, Register, Quiet

LEMMA StoreType == ASSUME TypeOK, NEW c \in Clients, Store(c) PROVE TypeOK'
<1>1. Ids' = Ids /\ Run' = Run /\ Snapshot' = Snapshot
  BY SameTypes DEF Store
<1>2. flows' \in Dict(Ids) /\ flows[c] \in Ids
  BY DictWithout, DictIff DEF Store, TypeOK
<1>3. /\ subs' \in Dict(Ids) /\ secret' \in [DOMAIN subs' -> Ids]
      /\ used' \subseteq Clients /\ DOMAIN subs' \subseteq used'
      /\ due' \in BOOLEAN /\ missed' \in BOOLEAN
  <2>1. CASE /\ used' = used \cup {c}
             /\ subs' = With(subs, c, flows[c])
             /\ secret' = With(secret, c, flows[c])
             /\ Notifies
    <3>1. subs' \in Dict(Ids)
      BY <1>2, <2>1, DictWith DEF TypeOK
    <3>2. DOMAIN subs' = DOMAIN subs \cup {c}
      BY <2>1 DEF With
    <3>3. secret' \in [DOMAIN subs' -> Ids]
      BY <1>2, <2>1, <3>2 DEF With, TypeOK
    <3>4. due' \in BOOLEAN /\ missed' \in BOOLEAN
      BY <2>1 DEF Notifies, TypeOK
    <3> QED
      BY <2>1, <3>1, <3>2, <3>3, <3>4 DEF TypeOK
  <2>2. CASE UNCHANGED <<used, subs, secret>> /\ Quiet
    BY <2>2 DEF Quiet, TypeOK
  <2> QED
    BY <2>1, <2>2 DEF Store
<1> QED
  BY <1>1, <1>2, <1>3 DEF TypeOK, Store, bounds

LEMMA RemoveType == ASSUME TypeOK, NEW c \in Clients, Remove(c) PROVE TypeOK'
<1>1. Ids' = Ids /\ Run' = Run /\ Snapshot' = Snapshot
  BY SameTypes DEF Remove
<1>2. subs' \in Dict(Ids) /\ DOMAIN subs' = DOMAIN subs \ {c}
  BY DictWithout DEF Remove, Without, TypeOK
<1>3. secret' \in [DOMAIN subs' -> Ids]
  BY <1>2 DEF Remove, Without, TypeOK
<1>4. changes' \in 0 .. MaxChanges
  BY ClientAssumption DEF Remove, Change, TypeOK
<1>5. due' \in BOOLEAN /\ missed' \in BOOLEAN
  BY DEF Remove, Notifies, TypeOK
<1> QED
  BY <1>1, <1>2, <1>3, <1>4, <1>5 DEF TypeOK, Remove, users

LEMMA DashboardType == ASSUME TypeOK, NEW i \in Live, Dashboard(i) PROVE TypeOK'
<1>1. Ids' = Ids /\ Run' = Run /\ Snapshot' = Snapshot
  BY SameTypes DEF Dashboard
<1>2. objs' \in [DOMAIN objs' -> Object] /\ DOMAIN objs' \subseteq DOMAIN objs
  <2>1. CASE objs' = Without(objs, i)
    BY <2>1 DEF Without, TypeOK
  <2>2. CASE objs' = [objs EXCEPT ![i].tagged = FALSE]
    BY <2>2 DEF Object, TypeOK, Live
  <2> QED
    BY <2>1, <2>2 DEF Dashboard
<1>3. gate' \subseteq Ids /\ lost' \subseteq Ids
  BY DEF Dashboard, TypeOK, Live
<1>4. changes' \in 0 .. MaxChanges
  BY ClientAssumption DEF Dashboard, Change, TypeOK
<1> QED
  BY <1>1, <1>2, <1>3, <1>4 DEF TypeOK, Dashboard, users, Quiet

\* What users, administrators and Home Assistant do keeps the types.
LEMMA EnvironmentType == TypeOK /\ Environment => TypeOK'
<1> SUFFICES ASSUME TypeOK, Environment PROVE TypeOK'
  OBVIOUS
<1>0. Idle \in Run /\ NoData \in Snapshot
  BY RestingTypes DEF TypeOK
<1>a. next' = next => Ids' = Ids /\ Run' = Run /\ Snapshot' = Snapshot
  BY SameTypes
<1>b. Change => changes' \in 0 .. MaxChanges
  BY ClientAssumption DEF Change, TypeOK
<1>1. CASE \E c \in Clients : Register(c)
  BY <1>1, RegisterType
<1>2. CASE \E c \in Clients : Store(c)
  BY <1>2, StoreType
<1>3. CASE \E c \in Clients : Abandon(c)
  <2>1. PICK c \in Clients : Abandon(c)
    BY <1>3
  <2>2. flows' \in Dict(Ids)
    BY <2>1, DictWithout DEF Abandon, TypeOK
  <2> QED
    BY <1>a, <2>1, <2>2 DEF Abandon, TypeOK, Quiet, bounds
<1>4. CASE \E c \in Clients : Remove(c)
  BY <1>4, RemoveType
<1>5. CASE \E h \in Hosts : ChangeUrl(h)
  <2>1. PICK h \in Hosts : ChangeUrl(h)
    BY <1>5
  <2>2. due' \in BOOLEAN /\ missed' \in BOOLEAN
    BY <2>1 DEF ChangeUrl, Notifies, TypeOK
  <2> QED
    BY <1>a, <1>b, <2>1, <2>2 DEF ChangeUrl, TypeOK
<1>6. CASE \E i \in Live : Dashboard(i)
  BY <1>6, DashboardType
<1>7. CASE Reload
  BY <1>a, <1>b, <1>7 DEF Reload, TypeOK, users
<1>8. CASE Restart
  <2>1. flows' \in Dict(Ids)
    BY <1>8, DictNothing DEF Restart
  <2> QED
    BY <1>0, <1>a, <1>b, <1>8, <2>1 DEF Restart, TypeOK
<1> QED
  BY <1>1, <1>2, <1>3, <1>4, <1>5, <1>6, <1>7, <1>8 DEF Environment

LEMMA StutterType == TypeOK /\ UNCHANGED vars => TypeOK'
BY SameTypes DEF vars, TypeOK

\* Ids in use have been given out, records keep their shape, in every behaviour
\* (TypeOK; the ids of flows, subentries, EntryData and the running setup or refresh).
THEOREM TypeCorrect == Spec => []TypeOK
<1>1. TypeOK /\ [Next]_vars => TypeOK'
  BY RunType, EnvironmentType, StutterType DEF Next
<1> QED
  BY <1>1, InitType, PTL DEF Spec

-----------------------------------------------------------------------------
(* A setup leaves nothing behind.                                          *)

\* Nobody but the run itself touches what it has left to delete.
LEMMA SweepUndisturbed ==
    ASSUME TypeOK, TypeOK', SweepInv, UNCHANGED run,
           \A i \in Live' : \/ i >= run.upto
                           \/ /\ i \in Live
                              /\ objs'[i].for = objs[i].for /\ objs'[i].host = objs[i].host
                              /\ objs'[i].tagged => objs[i].tagged
    PROVE  SweepInv'
<1>1. ASSUME NEW i \in Live', Leftover(i)'
      PROVE  i \in Live /\ Leftover(i) /\ (IsApp(i)' <=> IsApp(i))
  <2>1. run.upto \in Nat /\ i \in Nat
    BY DEF TypeOK, Run, Ids, Live
  <2>2. i < run.upto /\ objs'[i].host = run.host /\ i \notin Kept
        /\ (IsApp(i)' => objs'[i].tagged)
    BY <1>1 DEF Leftover, Kept
  <2>3. /\ i \in Live /\ objs'[i].for = objs[i].for /\ objs'[i].host = objs[i].host
        /\ objs'[i].tagged => objs[i].tagged
    BY <2>1, <2>2
  <2> QED
    BY <2>2, <2>3 DEF Leftover, IsApp
<1> QED
  BY <1>1 DEF SweepInv

\* Objects are listed when the run begins to delete, applications first.
LEMMA SweepListed == TypeOK /\ SweepInv /\ ListStale => SweepInv'
<1> SUFFICES ASSUME TypeOK, SweepInv, ListStale PROVE SweepInv'
  OBVIOUS
<1>0. run'.kind = run.kind
  BY DEF ListStale, TypeOK, Run
<1> SUFFICES ASSUME run.kind = "setup" PROVE SweepInv'
  BY <1>0 DEF SweepInv
<1>1. /\ objs' = objs /\ run'.apps = run.apps /\ run'.host = run.host
      /\ Live' = Live /\ Kept' = Kept
  <2>1. objs' = objs /\ run'.apps = run.apps /\ run'.host = run.host
    BY DEF ListStale, TypeOK, Run
  <2> QED
    BY <2>1 DEF Kept, Live
<1>2. \A i \in Live : objs[i].for \in Consoles \/ objs[i].for \in Scripts
  BY DEF TypeOK, Object, Live, Clients
<1>3. CASE run.pc = "apps"
  <2>1. run'.pc = "drop_apps" /\ run'.victims = Orphans(Consoles)
    BY <1>3 DEF ListStale, Stale, TypeOK, Run
  <2>2. \A i \in Live : IsApp(i) /\ Leftover(i)' => i \in Orphans(Consoles)
    BY <1>1 DEF Leftover, IsApp, Orphans
  <2> QED
    BY <1>1, <2>1, <2>2 DEF SweepInv, IsApp
<1>4. CASE run.pc = "drop_apps" /\ run.victims = {}
  <2>1. /\ run'.pc = "drop_tokens" /\ run'.victims = Orphans(Scripts)
        /\ run'.upto = run.upto
    BY <1>4 DEF ListStale, Stale, TypeOK, Run
  <2>2. \A i \in Live : Leftover(i)' <=> Leftover(i)
    BY <1>1, <2>1 DEF Leftover, IsApp
  <2>3. \A i \in Live : ~(IsApp(i) /\ Leftover(i))
    BY <1>4 DEF SweepInv
  <2>4. \A i \in Live : ~IsApp(i) /\ Leftover(i) => i \in Orphans(Scripts)
    BY <1>2 DEF Leftover, IsApp, Orphans
  <2> QED
    BY <1>1, <2>1, <2>2, <2>3, <2>4 DEF SweepInv, IsApp
<1> QED
  BY <1>3, <1>4 DEF ListStale

LEMMA SweepDeleted ==
    ASSUME TypeOK, SweepInv, NEW i \in run.victims, DeleteStale(i) PROVE SweepInv'
<1>1. /\ run'.kind = run.kind /\ run'.pc = run.pc /\ run'.victims = run.victims \ {i}
      /\ run'.apps = run.apps /\ run'.host = run.host /\ run'.upto = run.upto
  BY DEF DeleteStale, TypeOK, Run
<1>2. Live' = Live \ {i} /\ \A j \in Live' : objs'[j] = objs[j]
  BY DEF DeleteStale, Without, Live
<1>3. \A j \in Live' : j \in Live /\ (Leftover(j)' <=> Leftover(j)) /\ (IsApp(j)' <=> IsApp(j))
  BY <1>1, <1>2 DEF Leftover, IsApp, Kept
<1> QED
  BY <1>1, <1>2, <1>3 DEF SweepInv

LEMMA SweepStep == TypeOK /\ TypeOK' /\ SweepInv /\ [Next]_vars => SweepInv'
<1> SUFFICES ASSUME TypeOK, TypeOK', SweepInv, [Next]_vars PROVE SweepInv'
  OBVIOUS
<1>1. run'.pc \notin {"drop_apps", "drop_tokens"} => SweepInv'
  BY DEF SweepInv
<1>2. ASSUME UNCHANGED <<run, objs>> PROVE SweepInv'
  <2>1. Live' = Live
    BY <1>2 DEF Live
  <2> QED
    BY <1>2, <2>1, SweepUndisturbed
<1>3. Idle.pc = "idle"
  BY DEF Idle
<1>4. CASE RunNext
  <2>1. CASE SetupStart \/ ReconcileScripts \/ Reread \/ WriteGate \/ RunDone
    BY <1>1, <1>3, <2>1
       DEF SetupStart, Start, Idle, ReconcileScripts, Reread, WriteGate, RunDone, TypeOK, Run
  <2>2. CASE GateRefused \/ DeleteRefused \/ CallFails
    BY <1>1, <1>3, <2>2 DEF GateRefused, DeleteRefused, CallFails, RunFails
  <2>3. CASE RefreshStart
    BY <1>1, <1>2, <2>3 DEF RefreshStart, Start, Idle
  <2>4. CASE ListStale
    BY <2>4, SweepListed
  <2>5. CASE \E c \in Clients : Reconcile(c)
    <3>1. PICK c \in Clients : Reconcile(c)
      BY <2>5
    <3>2. run.pc \in {"consoles", "scripts"} /\ \E i, b : Took(c, i, b)
      BY <3>1 DEF Reconcile
    <3>3. run'.pc \notin {"drop_apps", "drop_tokens"}
      BY <1>3, <3>2 DEF Took, RunDies, TypeOK, Run
    <3> QED
      BY <1>1, <3>3
  <2>6. CASE \E c \in Clients : ReconcileAnswerLost(c)
    BY <1>1, <1>3, <2>6 DEF ReconcileAnswerLost, RunFails
  <2>7. CASE \E i \in run.victims : DeleteStale(i)
    BY <2>7, SweepDeleted
  <2> QED
    BY <1>4, <2>1, <2>2, <2>3, <2>4, <2>5, <2>6, <2>7 DEF RunNext
<1>5. CASE Environment
  <2>1. CASE \E c \in Clients : Register(c)
    <3>1. run' = run /\ Live' = Live \cup {next} /\ next >= run.upto
          /\ \A i \in Live : i # next /\ objs'[i] = objs[i]
      BY <2>1 DEF Register, Create, With, Live, TypeOK, Ids, Run
    <3> QED
      BY <3>1, SweepUndisturbed
  <2>2. CASE \E c \in Clients : Store(c) \/ Abandon(c) \/ Remove(c)
    BY <1>2, <2>2 DEF Store, Abandon, Remove
  <2>3. CASE \E h \in Hosts : ChangeUrl(h)
    BY <1>2, <2>3 DEF ChangeUrl
  <2>4. CASE \E i \in Live : Dashboard(i)
    <3>1. run' = run /\ Live' \subseteq Live
          /\ \A i \in Live' : /\ objs'[i].for = objs[i].for /\ objs'[i].host = objs[i].host
                              /\ objs'[i].tagged => objs[i].tagged
      BY <2>4 DEF Dashboard, Without, Live, TypeOK, Object
    <3> QED
      BY <3>1, SweepUndisturbed
  <2>5. CASE Reload
    BY <1>2, <2>5 DEF Reload
  <2>6. CASE Restart
    BY <1>1, <1>3, <2>6 DEF Restart
  <2> QED
    BY <1>5, <2>1, <2>2, <2>3, <2>4, <2>5, <2>6 DEF Environment
<1>6. CASE UNCHANGED vars
  BY <1>2, <1>6 DEF vars
<1> QED
  BY <1>4, <1>5, <1>6 DEF Next

\* When a setup is done no application or token of its hostname is left that is nobody's
\* (_async_delete_stale_clients and _async_delete_stale_tokens without a previous state),
\* whatever flows, administrators and failures did meanwhile.
THEOREM NothingLeftBehind == Spec => SweepComplete
<1>1. Init => SweepInv
  BY DEF Init, Idle, SweepInv
<1>2. ASSUME TypeOK, SweepInv, run.kind = "setup", RunDone, NEW i \in Live
      PROVE  \/ i >= run.upto \/ objs[i].host # run.host
             \/ IsApp(i) /\ ~objs[i].tagged
             \/ i \in Kept
  <2>1. run.pc = "drop_tokens" /\ run.victims = {}
    BY <1>2 DEF RunDone
  <2>2. ~Leftover(i)
    BY <1>2, <2>1 DEF SweepInv
  <2>3. i \in Nat /\ run.upto \in Nat
    BY <1>2 DEF TypeOK, Run, Ids, Live
  <2> QED
    BY <2>2, <2>3 DEF Leftover
<1>3. TypeOK /\ SweepInv =>
        (run.kind = "setup" /\ RunDone =>
          \A i \in Live : \/ i >= run.upto \/ objs[i].host # run.host
                          \/ IsApp(i) /\ ~objs[i].tagged
                          \/ i \in Kept)
  BY <1>2
<1> QED
  BY <1>1, <1>3, SweepStep, TypeCorrect, PTL DEF Spec, SweepComplete

-----------------------------------------------------------------------------
(* The gate names nothing the integration has deleted.                     *)

LEMMA OwnedKept ==
    ASSUME NEW S, NEW f \in Dict(S), NEW o, NEW p, Owned(f, o),
           \A i \in S \cap DOMAIN p : i \in DOMAIN o /\ p[i].for = o[i].for
    PROVE  Owned(f, p)
BY DictIff DEF Owned

LEMMA OwnedWith ==
    ASSUME NEW f, NEW o, NEW c, NEW i, Owned(f, o), i \in DOMAIN o => o[i].for = c
    PROVE  Owned(With(f, c, i), o)
BY DEF Owned, With

LEMMA OwnedWithout ==
    ASSUME NEW f, NEW o, NEW c, Owned(f, o) PROVE Owned(Without(f, c), o)
BY DEF Owned, Without

\* No step gives an object to another client, or an old id to a new object.
LEMMA ForKept ==
    ASSUME TypeOK, [Next]_vars
    PROVE  \A i \in Ids \cap Live' : i \in Live /\ objs'[i].for = objs[i].for
<1> DEFINE Keeps == \A i \in Ids \cap Live' : i \in Live /\ objs'[i].for = objs[i].for
<1>1. UNCHANGED objs => Keeps
  BY DEF Live
<1>2. ASSUME NEW c, NEW h, Create(c, h) PROVE Keeps
  BY <1>2 DEF Create, With, Live, Ids, TypeOK
<1>3. ASSUME NEW i, objs' = Without(objs, i) PROVE Keeps
  BY <1>3 DEF Without, Live
<1>4. CASE RunNext
  <2>1. CASE \E c \in Clients : Reconcile(c)
    <3>1. PICK c \in Clients : Reconcile(c)
      BY <2>1
    <3>2. CASE \E i \in Existing(c) : objs' = [objs EXCEPT ![i].host = run.host]
      BY <3>2 DEF Existing, Known, SameName, Live, TypeOK, Object
    <3> QED
      BY <1>2, <3>1, <3>2 DEF Reconcile
  <2>2. CASE \E c \in Clients : ReconcileAnswerLost(c)
    BY <1>2, <2>2 DEF ReconcileAnswerLost
  <2>3. CASE \E i \in run.victims : DeleteStale(i)
    BY <1>3, <2>3 DEF DeleteStale
  <2> QED
    BY <1>1, <1>4, <2>1, <2>2, <2>3
       DEF RunNext, SetupStart, ReconcileScripts, Reread, WriteGate, GateRefused, ListStale,
           DeleteRefused, RunDone, RefreshStart, CallFails
<1>5. CASE Environment
  <2>1. CASE \E c \in Clients : Register(c)
    BY <1>2, <2>1 DEF Register
  <2>2. CASE \E i \in Live : Dashboard(i)
    <3>1. PICK i \in Live : Dashboard(i)
      BY <2>2
    <3>2. CASE objs' = [objs EXCEPT ![i].tagged = FALSE]
      BY <3>2 DEF Live, TypeOK, Object
    <3> QED
      BY <1>3, <3>1, <3>2 DEF Dashboard
  <2> QED
    BY <1>1, <1>5, <2>1, <2>2
       DEF Environment, Store, Abandon, Remove, ChangeUrl, Reload, Restart
<1> QED
  BY <1>1, <1>4, <1>5 DEF Next, vars

\* The object a client is given is its own.
LEMMA TookOwn ==
    ASSUME TypeOK, TypeOK', [Next]_vars, OwnInv, NEW c \in DOMAIN run.todo, NEW i,
           NEW created, Took(c, i, created), i \in Live' => objs'[i].for = c,
           flows' = flows
    PROVE  OwnInv'
<1>1. /\ Owned(subs, objs') /\ Owned(flows, objs') /\ Owned(data.apps, objs')
      /\ Owned(run.todo, objs') /\ Owned(run.apps, objs')
      /\ \A j \in run.tokens \cap Live' : ~IsApp(j)'
  <2>1. \A f \in Dict(Ids) : Owned(f, objs) => Owned(f, objs')
    BY ForKept, OwnedKept DEF Live
  <2>2. /\ subs \in Dict(Ids) /\ flows \in Dict(Ids) /\ data.apps \in Dict(Ids)
        /\ run.todo \in Dict(Ids) /\ run.apps \in Dict(Ids) /\ run.tokens \subseteq Ids
    BY DEF TypeOK, Run, Snapshot
  <2>3. \A j \in run.tokens \cap Live' : ~IsApp(j)'
    BY <2>2, ForKept DEF OwnInv, IsApp
  <2> QED
    BY <2>1, <2>2, <2>3 DEF OwnInv
<1>2. /\ Owned(With(subs, c, i), objs') /\ Owned(With(run.apps, c, i), objs')
      /\ Owned(Without(run.todo, c), objs')
  BY <1>1, OwnedWith, OwnedWithout DEF Live
<1>3. CASE /\ run' = [run EXCEPT !.todo = Without(@, c), !.apps = With(@, c, i)]
           /\ subs' = (IF i # StoredId(c) THEN With(subs, c, i) ELSE subs)
           /\ UNCHANGED data
  <2>1. /\ run'.todo = Without(run.todo, c) /\ run'.apps = With(run.apps, c, i)
        /\ run'.tokens = run.tokens
    BY <1>3 DEF TypeOK, Run
  <2>2. subs' = subs \/ subs' = With(subs, c, i)
    BY <1>3
  <2> QED
    BY <1>1, <1>2, <1>3, <2>1, <2>2 DEF OwnInv
<1>4. CASE run' = Idle /\ UNCHANGED <<subs, data>>
  BY <1>1, <1>4 DEF OwnInv, Idle, Owned, Nothing
<1> QED
  BY <1>3, <1>4 DEF Took, RunDies

LEMMA OwnStep ==
    ASSUME DistinctNames, TypeOK, TypeOK', OwnInv, [Next]_vars PROVE OwnInv'
<1>1. \A f \in Dict(Ids) : Owned(f, objs) => Owned(f, objs')
  BY ForKept, OwnedKept DEF Live
<1>2. /\ Owned(subs, objs') /\ Owned(flows, objs') /\ Owned(data.apps, objs')
      /\ Owned(run.todo, objs') /\ Owned(run.apps, objs')
  BY <1>1 DEF OwnInv, TypeOK, Run, Snapshot
<1>3. \A j \in run.tokens \cap Live' : ~IsApp(j)'
  BY ForKept DEF OwnInv, TypeOK, Run, IsApp
<1>4. /\ \A K : Owned(OfKind(K), objs')
      /\ \A j \in TokenIds \cap Live' : ~IsApp(j)'
  BY <1>2, ClientAssumption DEF Owned, OfKind, TokenIds, IsApp, Live
<1>5. Owned(Nothing, objs')
  BY DEF Owned, Nothing
<1>6. /\ Idle.todo = Nothing /\ Idle.apps = Nothing /\ Idle.tokens = {}
      /\ NoData.apps = Nothing
  BY DEF Idle, NoData
<1>7. ASSUME UNCHANGED <<run, subs, flows, data>> PROVE OwnInv'
  BY <1>2, <1>3, <1>7 DEF OwnInv
<1>8. ASSUME NEW state, RunFails(state), UNCHANGED <<subs, flows>> PROVE OwnInv'
  <2>1. run' = Idle /\ data'.apps = data.apps
    BY <1>8 DEF RunFails, TypeOK, Snapshot
  <2> QED
    BY <1>2, <1>5, <1>6, <1>8, <2>1 DEF OwnInv
<1>9. CASE RunNext
  <2>1. CASE SetupStart
    <3>1. /\ run'.todo = OfKind(Consoles) /\ run'.apps = Nothing /\ run'.tokens = {}
          /\ subs' = subs /\ flows' = flows /\ data' = data
      BY <2>1 DEF SetupStart, Start, Idle, users
    <3> QED
      BY <1>2, <1>4, <1>5, <3>1 DEF OwnInv
  <2>2. CASE ReconcileScripts
    <3>1. /\ run'.todo = OfKind(Scripts) /\ run'.apps = run.apps /\ run'.tokens = run.tokens
          /\ subs' = subs /\ flows' = flows /\ data' = data
      BY <2>2 DEF ReconcileScripts, TypeOK, Run, users
    <3> QED
      BY <1>2, <1>3, <1>4, <3>1 DEF OwnInv
  <2>3. CASE Reread
    <3>1. /\ run'.todo = run.todo /\ run'.apps = run.apps /\ run'.tokens = TokenIds
          /\ subs' = subs /\ flows' = flows /\ data'.apps = data.apps
      BY <2>3 DEF Reread, TypeOK, Run, Snapshot, users
    <3> QED
      BY <1>2, <1>4, <3>1 DEF OwnInv
  <2>4. CASE WriteGate \/ ListStale \/ \E i \in run.victims : DeleteStale(i)
    <3>1. /\ run'.todo = run.todo /\ run'.apps = run.apps /\ run'.tokens = run.tokens
          /\ subs' = subs /\ flows' = flows /\ data' = data
      BY <2>4 DEF WriteGate, ListStale, DeleteStale, TypeOK, Run, users
    <3> QED
      BY <1>2, <1>3, <3>1 DEF OwnInv
  <2>5. CASE GateRefused \/ DeleteRefused \/ CallFails
    BY <1>8, <2>5 DEF GateRefused, DeleteRefused, CallFails, users
  <2>6. CASE RunDone
    <3>1. /\ run' = Idle /\ data'.apps = run.apps /\ subs' = subs /\ flows' = flows
      BY <2>6 DEF RunDone, TypeOK, Snapshot, users
    <3> QED
      BY <1>2, <1>5, <1>6, <3>1 DEF OwnInv
  <2>7. CASE RefreshStart
    <3>1. subs' = subs /\ flows' = flows
      BY <2>7 DEF RefreshStart, users
    <3>2. CASE UNCHANGED <<run, data>>
      BY <1>7, <3>1, <3>2
    <3>3. CASE Start("refresh", host) /\ data' = [data EXCEPT !.tokens = TokenIds, !.host = host]
      <4>1. /\ run'.todo = OfKind(Consoles) /\ run'.apps = Nothing /\ run'.tokens = {}
        BY <3>3 DEF Start, Idle
      <4>2. data'.apps = data.apps
        BY <3>3 DEF TypeOK, Snapshot
      <4> QED
        BY <1>2, <1>4, <1>5, <3>1, <4>1, <4>2 DEF OwnInv
    <3> QED
      BY <2>7, <3>2, <3>3 DEF RefreshStart
  <2>8. CASE \E c \in Clients : Reconcile(c)
    <3>1. PICK c \in Clients : Reconcile(c)
      BY <2>8
    <3>2. c \in DOMAIN run.todo /\ flows' = flows
      BY <3>1 DEF Reconcile, users
    <3>3. CASE \E i \in Existing(c) : Took(c, i, FALSE) /\ objs' = [objs EXCEPT ![i].host = run.host]
      <4>1. PICK i \in Existing(c) :
              Took(c, i, FALSE) /\ objs' = [objs EXCEPT ![i].host = run.host]
        BY <3>3
      <4>2. i \in Live /\ objs[i].for = c
        <5>1. CASE i \in Known(c)
          BY <3>2, <5>1 DEF Known, StoredId, OwnInv, Owned, Live
        <5>2. CASE i \in SameName(c)
          BY <5>2 DEF SameName, IsApp, DistinctNames
        <5> QED
          BY <5>1, <5>2 DEF Existing
      <4>3. objs'[i].for = c
        BY <4>1, <4>2 DEF TypeOK, Object, Live
      <4> QED
        BY <3>2, <4>1, <4>3, TookOwn
    <3>4. CASE Create(c, run.host) /\ Took(c, next, TRUE)
      <4>1. objs'[next].for = c
        BY <3>4 DEF Create, With
      <4> QED
        BY <3>2, <3>4, <4>1, TookOwn
    <3> QED
      BY <3>1, <3>3, <3>4 DEF Reconcile
  <2>9. CASE \E c \in Clients : ReconcileAnswerLost(c)
    BY <1>8, <2>9 DEF ReconcileAnswerLost, users
  <2> QED
    BY <1>9, <2>1, <2>2, <2>3, <2>4, <2>5, <2>6, <2>7, <2>8, <2>9 DEF RunNext
<1>10. CASE Environment
  <2>1. CASE \E c \in Clients : Register(c)
    <3>1. PICK c \in Clients : Register(c)
      BY <2>1
    <3>2. objs'[next].for = c /\ flows' = With(flows, c, next)
      BY <3>1 DEF Register, Create, With
    <3>3. Owned(flows', objs')
      BY <1>2, <3>2, OwnedWith
    <3> QED
      BY <1>2, <1>3, <3>1, <3>3 DEF Register, OwnInv
  <2>2. CASE \E c \in Clients : Store(c)
    <3>1. PICK c \in Clients : Store(c)
      BY <2>2
    <3>2. Owned(flows', objs')
      BY <1>2, <3>1, OwnedWithout DEF Store
    <3>3. Owned(With(subs, c, flows[c]), objs')
      <4>1. flows[c] \in DOMAIN objs' => objs'[flows[c]].for = c
        BY <1>2, <3>1 DEF Store, Owned
      <4> QED
        BY <1>2, <4>1, OwnedWith
    <3>4. Owned(subs', objs') /\ run' = run /\ data' = data
      BY <1>2, <3>1, <3>3 DEF Store
    <3> QED
      BY <1>2, <1>3, <3>2, <3>4 DEF OwnInv
  <2>3. CASE \E c \in Clients : Abandon(c)
    <3>1. Owned(flows', objs')
      BY <1>2, <2>3, OwnedWithout DEF Abandon
    <3> QED
      BY <1>2, <1>3, <2>3, <3>1 DEF OwnInv, Abandon
  <2>4. CASE \E c \in Clients : Remove(c)
    <3>1. Owned(subs', objs')
      BY <1>2, <2>4, OwnedWithout DEF Remove
    <3> QED
      BY <1>2, <1>3, <2>4, <3>1 DEF OwnInv, Remove, users
  <2>5. CASE (\E h \in Hosts : ChangeUrl(h)) \/ (\E i \in Live : Dashboard(i)) \/ Reload
    BY <1>7, <2>5 DEF ChangeUrl, Dashboard, Reload, users
  <2>6. CASE Restart
    BY <1>2, <1>5, <1>6, <2>6 DEF Restart, OwnInv
  <2> QED
    BY <1>10, <2>1, <2>2, <2>3, <2>4, <2>5, <2>6 DEF Environment
<1>11. CASE UNCHANGED vars
  BY <1>7, <1>11 DEF vars
<1> QED
  BY <1>9, <1>10, <1>11 DEF Next

LEMMA GateListed ==
    ASSUME TypeOK, OwnInv, GateInv, ListStale PROVE GateInv'
<1>1. /\ run'.apps = run.apps /\ run'.tokens = run.tokens /\ gate' = gate /\ objs' = objs
  BY DEF ListStale, TypeOK, Run
<1>2. NamedOnGate' = NamedOnGate /\ Live' = Live
  BY <1>1 DEF NamedOnGate, Live
<1>3. gate \subseteq NamedOnGate
  BY DEF ListStale, GateInv
<1>4. ASSUME run.pc = "apps", NEW i \in Stale(Consoles) \cap Live
      PROVE  IsApp(i) /\ i \notin NamedOnGate
  <2>1. CASE i \in Orphans(Consoles)
    BY <2>1, <1>4 DEF Orphans, Kept, NamedOnGate, IsApp, OwnInv
  <2>2. CASE i \in Removed(Consoles)
    <3>1. PICK c \in (DOMAIN data.apps \cap Consoles) \ DOMAIN run.apps : i = data.apps[c]
      BY <2>2 DEF Removed
    <3>2. objs[i].for = c
      BY <1>4, <3>1 DEF OwnInv, Owned, Live
    <3>3. \A d \in DOMAIN run.apps : run.apps[d] # i
      BY <1>4, <3>1, <3>2 DEF OwnInv, Owned, Live
    <3> QED
      BY <1>4, <3>1, <3>2, <3>3 DEF NamedOnGate, IsApp, OwnInv
  <2> QED
    BY <1>4, <2>1, <2>2 DEF Stale
<1>5. CASE run.pc = "apps"
  <2>1. run'.pc = "drop_apps" /\ run'.victims = Stale(Consoles)
    BY <1>5 DEF ListStale, TypeOK, Run
  <2> QED
    BY <1>1, <1>2, <1>3, <1>4, <1>5, <2>1 DEF GateInv, IsApp
<1>6. CASE run.pc = "drop_apps" /\ run'.pc = "drop_tokens"
  BY <1>1, <1>2, <1>3, <1>6 DEF GateInv
<1> QED
  BY <1>5, <1>6 DEF ListStale, TypeOK, Run

LEMMA GateStep ==
    ASSUME TypeOK, OwnInv, GateInv, GateNamesLive, [Next]_vars
    PROVE  GateInv' /\ GateNamesLive'
<1>1. run'.pc \notin {"apps", "drop_apps", "drop_tokens"} => GateInv'
  BY DEF GateInv
<1>2. \A i \in Ids \cap Live' : i \in Live /\ (IsApp(i)' <=> IsApp(i))
  BY ForKept DEF IsApp
<1>3. ASSUME UNCHANGED run, gate' \subseteq gate PROVE GateInv'
  <2>1. NamedOnGate' = NamedOnGate /\ run.victims \subseteq Ids
    BY <1>3 DEF NamedOnGate, TypeOK, Run
  <2>2. \A i \in run.victims \cap Live' : i \in Live /\ (IsApp(i)' <=> IsApp(i))
    BY <1>2, <2>1
  <2> QED
    BY <1>3, <2>1, <2>2 DEF GateInv
<1>4. ASSUME gate' = gate, lost' = lost, Live \subseteq Live' PROVE GateNamesLive'
  BY <1>4 DEF GateNamesLive
<1>5. Idle.pc = "idle"
  BY DEF Idle
<1>6. CASE RunNext
  <2>1. CASE SetupStart \/ ReconcileScripts \/ Reread \/ RunDone
    <3>1. run'.pc \notin {"apps", "drop_apps", "drop_tokens"}
      BY <1>5, <2>1 DEF SetupStart, Start, Idle, ReconcileScripts, Reread, RunDone, TypeOK, Run
    <3> QED
      BY <1>1, <1>4, <2>1, <3>1 DEF SetupStart, ReconcileScripts, Reread, RunDone, Live
  <2>2. CASE GateRefused \/ DeleteRefused \/ CallFails
    BY <1>1, <1>4, <1>5, <2>2 DEF GateRefused, DeleteRefused, CallFails, RunFails, Live
  <2>3. CASE RefreshStart
    <3>1. gate' = gate /\ lost' = lost /\ objs' = objs
      BY <2>3 DEF RefreshStart
    <3>2. CASE run' = run
      BY <1>3, <1>4, <3>1, <3>2 DEF Live
    <3>3. CASE Start("refresh", host)
      BY <1>1, <1>4, <3>1, <3>3 DEF Start, Idle, Live
    <3> QED
      BY <2>3, <3>2, <3>3 DEF RefreshStart
  <2>4. CASE WriteGate
    <3>1. /\ run'.pc = "apps" /\ run'.apps = run.apps /\ run'.tokens = run.tokens
          /\ gate' = NamedOnGate /\ objs' = objs /\ lost' = lost
      BY <2>4 DEF WriteGate, TypeOK, Run
    <3>2. NamedOnGate' = NamedOnGate
      BY <3>1 DEF NamedOnGate
    <3>3. NamedOnGate \subseteq Live \cup lost
      BY <2>4 DEF WriteGate, GateNamesLive
    <3> QED
      BY <3>1, <3>2, <3>3 DEF GateInv, GateNamesLive, Live
  <2>5. CASE ListStale
    BY <1>4, <2>5, GateListed DEF ListStale, Live
  <2>6. CASE \E c \in Clients : Reconcile(c)
    <3>1. PICK c \in Clients : Reconcile(c)
      BY <2>6
    <3>2. run.pc \in {"consoles", "scripts"} /\ gate' = gate /\ lost' = lost
          /\ \E i, b : Took(c, i, b)
      BY <3>1 DEF Reconcile
    <3>3. run'.pc \notin {"apps", "drop_apps", "drop_tokens"}
      BY <1>5, <3>2 DEF Took, RunDies, TypeOK, Run
    <3>4. Live \subseteq Live'
      BY <3>1 DEF Reconcile, Create, With, Live
    <3> QED
      BY <1>1, <1>4, <3>2, <3>3, <3>4
  <2>7. CASE \E c \in Clients : ReconcileAnswerLost(c)
    BY <1>1, <1>4, <1>5, <2>7 DEF ReconcileAnswerLost, RunFails, Create, With, Live
  <2>8. CASE \E i \in run.victims : DeleteStale(i)
    <3>1. PICK i \in run.victims : DeleteStale(i)
      BY <2>8
    <3>2. /\ run'.pc = run.pc /\ run'.apps = run.apps /\ run'.tokens = run.tokens
          /\ run'.victims \subseteq run.victims /\ gate' = gate /\ lost' = lost
      BY <3>1 DEF DeleteStale, TypeOK, Run
    <3>3. NamedOnGate' = NamedOnGate /\ run.victims \subseteq Ids
      BY <3>2 DEF NamedOnGate, TypeOK, Run
    <3>4. GateInv'
      BY <1>2, <3>2, <3>3 DEF GateInv
    <3>5. GateNamesLive'
      <4>1. CASE run.pc = "drop_apps"
        <5>1. i \in Live => i \notin gate
          BY <4>1 DEF GateInv
        <5> QED
          BY <3>1, <3>2, <5>1 DEF DeleteStale, Without, Live, GateNamesLive
      <4>2. CASE run.pc = "drop_tokens"
        <5>1. i \notin gate
          BY <3>1, <4>2 DEF DeleteStale
        <5> QED
          BY <3>1, <3>2, <5>1 DEF DeleteStale, Without, Live, GateNamesLive
      <4> QED
        BY <3>1, <4>1, <4>2 DEF DeleteStale
    <3> QED
      BY <3>4, <3>5
  <2> QED
    BY <1>6, <2>1, <2>2, <2>3, <2>4, <2>5, <2>6, <2>7, <2>8 DEF RunNext
<1>7. CASE Environment
  <2>1. CASE \E c \in Clients : Register(c)
    BY <1>3, <1>4, <2>1 DEF Register, Create, With, Live
  <2>2. CASE \E c \in Clients : Store(c) \/ Abandon(c) \/ Remove(c)
    BY <1>3, <1>4, <2>2 DEF Store, Abandon, Remove, Live
  <2>3. CASE (\E h \in Hosts : ChangeUrl(h)) \/ Reload
    BY <1>3, <1>4, <2>3 DEF ChangeUrl, Reload, Live
  <2>4. CASE \E i \in Live : Dashboard(i)
    <3>1. PICK i \in Live : Dashboard(i)
      BY <2>4
    <3>2. run' = run /\ gate' \subseteq gate /\ Live \cup lost \subseteq Live' \cup lost'
      BY <3>1 DEF Dashboard, Without, Live
    <3> QED
      BY <1>3, <3>2 DEF GateNamesLive
  <2>5. CASE Restart
    BY <1>1, <1>4, <1>5, <2>5 DEF Restart, Live
  <2> QED
    BY <1>7, <2>1, <2>2, <2>3, <2>4, <2>5 DEF Environment
<1>8. CASE UNCHANGED vars
  BY <1>3, <1>4, <1>8 DEF vars, Live
<1> QED
  BY <1>6, <1>7, <1>8 DEF Next

\* If no two console apps share a name, the gate never names an application the
\* integration has deleted (the order of writing and deleting in async_setup_entry and
\* _refresh).  The condition is needed: an app whose own application was swept before it
\* was stored claims that of a removed one of the same name, and the same run deletes it.
THEOREM GateStaysWritable == ASSUME DistinctNames PROVE Spec => []GateNamesLive
<1>1. Init => OwnInv /\ GateInv /\ GateNamesLive
  BY DEF Init, Idle, NoData, Nothing, OwnInv, Owned, GateInv, GateNamesLive
<1>2. TypeOK /\ TypeOK' /\ OwnInv /\ [Next]_vars => OwnInv'
  BY OwnStep
<1>3. TypeOK /\ OwnInv /\ GateInv /\ GateNamesLive /\ [Next]_vars => GateInv' /\ GateNamesLive'
  BY GateStep
<1> QED
  BY <1>1, <1>2, <1>3, TypeCorrect, PTL DEF Spec


-----------------------------------------------------------------------------
(* At rest every client is served, or somebody is told.                    *)

NothingComing == ~due /\ ~missed
NoFailure == ~reported /\ ~died
Served(i) == i \in (gate \cap Live) \cup lost

\* Which run belongs to which state of the entry.
RunOfEntry ==
    /\ run.kind = "idle" <=> run.pc = "idle"
    /\ run.kind = "setup" => entry = "setup"
    /\ run.kind = "refresh" => entry = "loaded"

\* Whoever a run or the snapshot knows has been a client; an application registered in a
\* flow is of nobody yet.
OnceClients ==
    /\ DOMAIN run.apps \subseteq used /\ DOMAIN run.todo \subseteq used
    /\ DOMAIN data.apps \subseteq used
    /\ DOMAIN flows \cap Consoles \cap used = {}

\* The id a run has found for an application is the one its subentry carries.
AppsRecorded ==
    \A c \in DOMAIN run.apps \cap DOMAIN subs \cap Consoles : subs[c] = run.apps[c]

\* From the write on the gate names what the run says, but what somebody deleted.
GateNames ==
    run.pc \in {"apps", "drop_apps", "drop_tokens"} => NamedOnGate \subseteq gate \cup lost

\* The token ids of a refresh are in the snapshot before they are written.
TokensTaken ==
    (run.kind = "refresh" /\ run.pc \in {"gate", "apps", "drop_apps", "drop_tokens"})
        => data.tokens = run.tokens

\* A refresh during which nobody came or went has taken in everybody.
AllTaken ==
    (run.kind = "refresh" /\ NothingComing) =>
        /\ run.pc = "consoles" =>
              DOMAIN subs \cap Consoles = DOMAIN run.apps \cup DOMAIN run.todo
        /\ run.pc = "scripts" => DOMAIN subs = DOMAIN run.apps \cup DOMAIN run.todo
        /\ run.pc \in {"gate", "apps", "drop_apps", "drop_tokens"} =>
              DOMAIN subs = DOMAIN run.apps /\ TokenIds = run.tokens

\* Unless a failure is on record, whoever the snapshot knows is served.
SnapshotServed ==
    (entry = "loaded" /\ run.pc = "idle" /\ NoFailure) =>
        /\ \A c \in DOMAIN data.apps \cap Consoles :
              Served(data.apps[c]) /\ (c \in DOMAIN subs => subs[c] = data.apps[c])
        /\ \A i \in data.tokens : Served(i)

\* Unless a failure is on record or a call is coming, the snapshot knows everybody.
NothingNew ==
    (entry = "loaded" /\ run.pc = "idle" /\ NoFailure /\ NothingComing) =>
        DOMAIN subs = DOMAIN data.apps /\ TokenIds = data.tokens

ServedInv ==
    /\ RunOfEntry /\ OnceClients /\ AppsRecorded /\ GateNames /\ TokensTaken
    /\ AllTaken /\ SnapshotServed /\ NothingNew

\* A call of the listeners of a loaded entry is remembered.
LEMMA NotifiesTold ==
    ASSUME TypeOK, Notifies
    PROVE  /\ due => due'
           /\ missed => missed'
           /\ entry = "loaded" => due' \/ missed'
BY DEF Notifies, TypeOK

\* What users and administrators do while a run goes on, or between two.
LEMMA OutsideServed ==
    ASSUME TypeOK, ServedInv, UNCHANGED <<run, data, entry, reported, died>>,
           used \subseteq used', DOMAIN flows' \cap Consoles \cap used' = {},
           due => due', missed => missed',
           (DOMAIN subs' = DOMAIN subs /\ TokenIds' = TokenIds)
              \/ (entry = "loaded" => due' \/ missed'),
           \A c \in DOMAIN subs' \cap Consoles \cap used :
              c \in DOMAIN subs /\ subs'[c] = subs[c],
           \A i : Served(i) => i \in (gate' \cap Live') \cup lost',
           gate \cup lost \subseteq gate' \cup lost'
    PROVE  ServedInv'
<1>1. NothingComing' => NothingComing
  BY DEF NothingComing, TypeOK
<1>2. NamedOnGate' = NamedOnGate
  BY DEF NamedOnGate
<1>3. RunOfEntry' /\ OnceClients' /\ AppsRecorded' /\ TokensTaken' /\ GateNames'
  BY <1>2 DEF ServedInv, RunOfEntry, OnceClients, AppsRecorded, TokensTaken, GateNames
<1>4. AllTaken'
  BY <1>1 DEF ServedInv, AllTaken, RunOfEntry, NothingComing
<1>5. SnapshotServed'
  BY DEF ServedInv, SnapshotServed, NoFailure, OnceClients, Served
<1>6. NothingNew'
  BY <1>1 DEF ServedInv, NothingNew, NoFailure, NothingComing
<1> QED
  BY <1>3, <1>4, <1>5, <1>6 DEF ServedInv

LEMMA EnvironmentServed == TypeOK /\ ServedInv /\ Environment => ServedInv'
<1> SUFFICES ASSUME TypeOK, ServedInv, Environment PROVE ServedInv'
  OBVIOUS
<1>1. DOMAIN flows \cap Consoles \cap used = {} /\ DOMAIN subs \subseteq used
  BY DEF ServedInv, OnceClients, TypeOK
<1>2. CASE \E c \in Clients : Register(c)
  <2>1. PICK c \in Clients : Register(c)
    BY <1>2
  <2>2. DOMAIN flows' = DOMAIN flows \cup {c} /\ Live' = Live \cup {next}
    BY <2>1 DEF Register, Create, With, Live
  <2>3. c \in Consoles => c \notin used
    BY <2>1, ClientAssumption DEF Register
  <2>4. /\ UNCHANGED <<run, data, entry, reported, died, subs, gate, lost, used, due, missed>>
    BY <2>1 DEF Register, Quiet
  <2>5. TokenIds' = TokenIds
    BY <2>4 DEF TokenIds
  <2> QED
    BY <1>1, <2>2, <2>3, <2>4, <2>5, OutsideServed DEF Served
<1>3. CASE \E c \in Clients : Store(c)
  <2>1. PICK c \in Clients : Store(c)
    BY <1>3
  <2>2. /\ UNCHANGED <<run, data, entry, reported, died, gate, lost, objs>>
        /\ c \in DOMAIN flows /\ DOMAIN flows' = DOMAIN flows \ {c}
    BY <2>1 DEF Store, Without
  <2>3. Live' = Live
    BY <2>2 DEF Live
  <2>4. CASE Notifies /\ used' = used \cup {c} /\ subs' = With(subs, c, flows[c])
    <3>1. c \in Consoles => c \notin used
      BY <1>1, <2>2
    <3>2. \A d \in DOMAIN subs' \cap Consoles \cap used :
            d \in DOMAIN subs /\ subs'[d] = subs[d]
      BY <2>4, <3>1 DEF With
    <3> QED
      BY <1>1, <2>2, <2>3, <2>4, <3>2, NotifiesTold, OutsideServed DEF Served
  <2>5. CASE UNCHANGED <<used, subs, due, missed>>
    <3>1. TokenIds' = TokenIds
      BY <2>5 DEF TokenIds
    <3> QED
      BY <1>1, <2>2, <2>3, <2>5, <3>1, OutsideServed DEF Served
  <2> QED
    BY <2>1, <2>4, <2>5 DEF Store, Quiet
<1>4. CASE \E c \in Clients : Abandon(c)
  <2>1. PICK c \in Clients : Abandon(c)
    BY <1>4
  <2>2. /\ UNCHANGED <<run, data, entry, reported, died, gate, lost, objs, used, subs, due, missed>>
        /\ DOMAIN flows' = DOMAIN flows \ {c}
    BY <2>1 DEF Abandon, Without, Quiet
  <2>3. TokenIds' = TokenIds /\ Live' = Live
    BY <2>2 DEF TokenIds, Live
  <2> QED
    BY <1>1, <2>2, <2>3, OutsideServed DEF Served
<1>5. CASE \E c \in Clients : Remove(c)
  <2>1. PICK c \in Clients : Remove(c)
    BY <1>5
  <2>2. /\ UNCHANGED <<run, data, entry, reported, died, gate, lost, objs, used, flows>>
        /\ Notifies /\ subs' = Without(subs, c)
    BY <2>1 DEF Remove, users
  <2>3. Live' = Live /\ \A d \in DOMAIN subs' : d \in DOMAIN subs /\ subs'[d] = subs[d]
    BY <2>2 DEF Live, Without
  <2> QED
    BY <1>1, <2>2, <2>3, NotifiesTold, OutsideServed DEF Served
<1>6. CASE \E h \in Hosts : ChangeUrl(h)
  <2>1. PICK h \in Hosts : ChangeUrl(h)
    BY <1>6
  <2>2. /\ UNCHANGED <<run, data, entry, reported, died, gate, lost, objs, used, flows, subs>>
        /\ Notifies
    BY <2>1 DEF ChangeUrl
  <2>3. Live' = Live
    BY <2>2 DEF Live
  <2> QED
    BY <1>1, <2>2, <2>3, NotifiesTold, OutsideServed DEF Served
<1>7. CASE \E i \in Live : Dashboard(i)
  <2>1. PICK i \in Live : Dashboard(i)
    BY <1>7
  <2>2. UNCHANGED <<run, data, entry, reported, died, used, flows, subs, due, missed>>
    BY <2>1 DEF Dashboard, users, Quiet
  <2>3. /\ \A j : Served(j) => j \in (gate' \cap Live') \cup lost'
        /\ gate \cup lost \subseteq gate' \cup lost'
    <3>1. CASE /\ objs' = Without(objs, i) /\ lost' = lost \cup {i}
               /\ gate' = gate \/ gate' = gate \ {i}
      BY <3>1 DEF Served, Live, Without
    <3>2. CASE objs' = [objs EXCEPT ![i].tagged = FALSE] /\ UNCHANGED <<lost, gate>>
      BY <3>2 DEF Served, Live
    <3> QED
      BY <2>1, <3>1, <3>2 DEF Dashboard
  <2>4. TokenIds' = TokenIds
    BY <2>2 DEF TokenIds
  <2> QED
    BY <1>1, <2>2, <2>3, <2>4, OutsideServed
<1>8. CASE Reload
  <2>1. /\ UNCHANGED <<run, data, used, flows, subs, gate, lost>>
        /\ entry' = "down" /\ run.pc = "idle"
    BY <1>8 DEF Reload, users
  <2> QED
    BY <2>1 DEF ServedInv, RunOfEntry, OnceClients, AppsRecorded, GateNames, TokensTaken,
       AllTaken, SnapshotServed, NothingNew
<1>9. CASE Restart
  <2>1. /\ run' = Idle /\ data' = NoData /\ flows' = Nothing /\ entry' = "down"
    BY <1>9 DEF Restart
  <2> QED
    BY <2>1 DEF ServedInv, RunOfEntry, OnceClients, AppsRecorded, GateNames, TokensTaken,
       AllTaken, SnapshotServed, NothingNew, Idle, NoData, Nothing
<1> QED
  BY <1>2, <1>3, <1>4, <1>5, <1>6, <1>7, <1>8, <1>9 DEF Environment

\* A run that ends badly leaves a failed setup, or a failure on record.
LEMMA EndedServed ==
    ASSUME ServedInv, run' = Idle, UNCHANGED <<used, flows>>, data'.apps = data.apps,
           entry' = "loaded" => reported' \/ died'
    PROVE  ServedInv'
BY DEF ServedInv, RunOfEntry, OnceClients, AppsRecorded, GateNames, TokensTaken, AllTaken,
   SnapshotServed, NothingNew, NoFailure, Idle, Nothing

LEMMA FailsServed ==
    ASSUME TypeOK, ServedInv, NEW state \in {"retry", "error"}, RunFails(state),
           UNCHANGED <<used, flows>>
    PROVE  ServedInv'
<1>1. data'.apps = data.apps /\ run' = Idle
  BY DEF RunFails, TypeOK, Snapshot
<1>2. entry' = "loaded" => reported'
  BY DEF RunFails
<1> QED
  BY <1>1, <1>2, EndedServed

\* What is found for one client.
LEMMA TookServed ==
    ASSUME TypeOK, ServedInv, NEW c \in DOMAIN run.todo, NEW i, NEW created \in BOOLEAN,
           Took(c, i, created), run.pc \in {"consoles", "scripts"},
           UNCHANGED <<used, flows>>, Quiet
    PROVE  ServedInv'
<1>1. CASE /\ i # StoredId(c) => c \in DOMAIN subs
           /\ run' = [run EXCEPT !.todo = Without(@, c), !.apps = With(@, c, i)]
           /\ subs' = (IF i # StoredId(c) THEN With(subs, c, i) ELSE subs)
           /\ UNCHANGED <<entry, data, reported, died>>
  <2>1. /\ run'.kind = run.kind /\ run'.pc = run.pc /\ run'.tokens = run.tokens
        /\ run'.todo = Without(run.todo, c) /\ run'.apps = With(run.apps, c, i)
    BY <1>1 DEF TypeOK, Run
  <2>2. /\ DOMAIN run'.todo = DOMAIN run.todo \ {c}
        /\ DOMAIN run'.apps = DOMAIN run.apps \cup {c} /\ run'.apps[c] = i
        /\ \A d \in DOMAIN run.apps \ {c} : run'.apps[d] = run.apps[d]
    BY <2>1 DEF With, Without
  <2>3. /\ DOMAIN subs' = DOMAIN subs
        /\ c \in DOMAIN subs => subs'[c] = i
        /\ \A d \in DOMAIN subs \ {c} : subs'[d] = subs[d]
    BY <1>1 DEF With, StoredId
  <2>4. NothingComing' => NothingComing
    BY <1>1 DEF NothingComing, Quiet, TypeOK
  <2>5. RunOfEntry' /\ OnceClients'
    BY <1>1, <2>1, <2>2 DEF ServedInv, RunOfEntry, OnceClients
  <2>6. AppsRecorded'
    BY <2>2, <2>3 DEF ServedInv, AppsRecorded
  <2>7. AllTaken'
    BY <1>1, <2>1, <2>2, <2>3, <2>4 DEF ServedInv, AllTaken
  <2>8. GateNames' /\ TokensTaken' /\ SnapshotServed' /\ NothingNew'
    BY <2>1 DEF GateNames, TokensTaken, SnapshotServed, NothingNew
  <2> QED
    BY <2>5, <2>6, <2>7, <2>8 DEF ServedInv
<1>2. CASE RunDies
  <2>1. run' = Idle /\ died' /\ data' = data
    BY <1>2 DEF RunDies
  <2> QED
    BY <2>1, EndedServed
<1> QED
  BY <1>1, <1>2 DEF Took, CanStore

\* A run begins with the console apps, and has found nothing yet.
LEMMA StartedServed ==
    ASSUME TypeOK, ServedInv, NEW k \in {"setup", "refresh"}, Start(k, host),
           k = "setup" => entry' = "setup", k = "refresh" => entry' = "loaded",
           data'.apps = data.apps, UNCHANGED <<subs, used, flows>>
    PROVE  ServedInv'
<1>1. /\ run'.kind = k /\ run'.pc = "consoles" /\ run'.apps = Nothing
      /\ run'.todo = OfKind(Consoles)
  BY DEF Start, Idle
<1>2. DOMAIN run'.apps = {} /\ DOMAIN run'.todo = DOMAIN subs \cap Consoles
  BY <1>1 DEF Nothing, OfKind
<1> QED
  BY <1>1, <1>2 DEF ServedInv, RunOfEntry, OnceClients, AppsRecorded, GateNames,
     TokensTaken, AllTaken, SnapshotServed, NothingNew, TypeOK

\* What a finished run has named on the gate is there, and becomes the snapshot.
LEMMA DoneServed ==
    ASSUME TypeOK, ServedInv, GateNamesLive, RunDone PROVE ServedInv'
<1>1. /\ run.pc = "drop_tokens" /\ run' = Idle
      /\ UNCHANGED <<objs, gate, lost, subs, used, flows>>
  BY DEF RunDone, users
<1>2. Live' = Live /\ TokenIds' = TokenIds
  BY <1>1 DEF Live, TokenIds
<1>3. \A i \in NamedOnGate : Served(i)
  BY <1>1 DEF ServedInv, GateNames, GateNamesLive, Served
<1>4. /\ data'.apps = run.apps /\ data'.tokens = run.tokens
      /\ entry' = "loaded"
      /\ run.kind = "refresh" => UNCHANGED <<due, missed>>
      /\ run.kind = "setup" => due'
  <2>1. CASE run.kind = "setup"
    BY <2>1 DEF RunDone
  <2>2. CASE run.kind = "refresh"
    <3>1. data' = [data EXCEPT !.apps = run.apps] /\ UNCHANGED <<entry, due, missed>>
      BY <2>2 DEF RunDone, Quiet
    <3>2. data.tokens = run.tokens /\ entry = "loaded"
      BY <1>1, <2>2 DEF ServedInv, TokensTaken, RunOfEntry
    <3> QED
      BY <2>2, <3>1, <3>2 DEF TypeOK, Snapshot
  <2> QED
    BY <2>1, <2>2 DEF RunDone
<1>5. RunOfEntry' /\ OnceClients' /\ AppsRecorded' /\ GateNames' /\ TokensTaken' /\ AllTaken'
  BY <1>1, <1>4 DEF ServedInv, RunOfEntry, OnceClients, AppsRecorded, GateNames,
     TokensTaken, AllTaken, Idle, Nothing
<1>6. SnapshotServed'
  <2>1. \A c \in DOMAIN run.apps \cap Consoles : run.apps[c] \in NamedOnGate
    BY DEF NamedOnGate
  <2>2. run.tokens \subseteq NamedOnGate
    BY DEF NamedOnGate
  <2> QED
    BY <1>1, <1>2, <1>3, <1>4, <2>1, <2>2 DEF SnapshotServed, Served, ServedInv, AppsRecorded
<1>7. NothingNew'
  <2>1. CASE run.kind = "setup"
    <3>1. ~NothingComing'
      BY <1>4, <2>1 DEF NothingComing
    <3> QED
      BY <3>1 DEF NothingNew
  <2>2. CASE run.kind = "refresh"
    <3>1. NothingComing' => DOMAIN subs = DOMAIN run.apps /\ TokenIds = run.tokens
      BY <1>1, <1>4, <2>2 DEF NothingComing, ServedInv, AllTaken
    <3> QED
      BY <1>1, <1>2, <1>4, <3>1 DEF NothingNew
  <2> QED
    BY <2>1, <2>2 DEF RunDone
<1> QED
  BY <1>5, <1>6, <1>7 DEF ServedInv

\* The steps of a run between its loops and its end.
LEMMA MiddleServed ==
    ASSUME TypeOK, ServedInv,
           ReconcileScripts \/ Reread \/ WriteGate \/ ListStale
             \/ \E i \in run.victims : DeleteStale(i)
    PROVE  ServedInv'
<1>1. /\ UNCHANGED <<subs, used, flows, entry, due, missed, lost>>
      /\ run'.kind = run.kind /\ run'.apps = run.apps /\ data'.apps = data.apps
  BY DEF ReconcileScripts, Reread, WriteGate, ListStale, DeleteStale, users, Quiet, TypeOK,
     Run, Snapshot
<1>2. TokenIds' = TokenIds /\ run'.pc # "idle" /\ run.pc # "idle"
  <2>1. TokenIds' = TokenIds
    BY <1>1 DEF TokenIds
  <2>2. run'.pc # "idle" /\ run.pc # "idle"
    BY DEF ReconcileScripts, Reread, WriteGate, ListStale, DeleteStale, TypeOK, Run
  <2> QED
    BY <2>1, <2>2
<1>3. RunOfEntry' /\ AppsRecorded' /\ SnapshotServed' /\ NothingNew'
  BY <1>1, <1>2 DEF ServedInv, RunOfEntry, AppsRecorded, SnapshotServed, NothingNew
<1>4. NothingComing' <=> NothingComing
  BY <1>1 DEF NothingComing
<1>5. CASE ReconcileScripts
  <2>1. run'.pc = "scripts" /\ run'.todo = OfKind(Scripts) /\ run.todo = Nothing
        /\ run.pc = "consoles"
    BY <1>5 DEF ReconcileScripts, TypeOK, Run
  <2>2. DOMAIN run'.todo = DOMAIN subs \cap Scripts /\ DOMAIN run.todo = {}
        /\ DOMAIN subs \subseteq Consoles \cup Scripts
    BY <2>1 DEF OfKind, Nothing, TypeOK, Clients
  <2> QED
    BY <1>1, <1>3, <1>4, <2>1, <2>2 DEF ServedInv, OnceClients, GateNames, TokensTaken,
       AllTaken, TypeOK
<1>6. CASE Reread
  <2>1. /\ run'.pc = "gate" /\ run'.todo = run.todo /\ run.todo = Nothing
        /\ run'.tokens = TokenIds /\ run.pc = "scripts"
        /\ run.kind = "refresh" => data'.tokens = TokenIds
    BY <1>6 DEF Reread, TypeOK, Run, Snapshot
  <2>2. DOMAIN run.todo = {}
    BY <2>1 DEF Nothing
  <2> QED
    BY <1>1, <1>2, <1>3, <1>4, <2>1, <2>2 DEF ServedInv, OnceClients, GateNames,
       TokensTaken, AllTaken, RunOfEntry
<1>7. CASE WriteGate \/ ListStale \/ \E i \in run.victims : DeleteStale(i)
  <2>1. /\ run'.todo = run.todo /\ run'.tokens = run.tokens /\ data' = data
        /\ run.pc \in {"gate", "apps", "drop_apps", "drop_tokens"}
        /\ run'.pc \in {"apps", "drop_apps", "drop_tokens"}
        /\ \/ gate' = NamedOnGate
           \/ gate' = gate /\ run.pc # "gate"
    BY <1>7 DEF WriteGate, ListStale, DeleteStale, TypeOK, Run
  <2>2. NamedOnGate' = NamedOnGate
    BY <1>1, <2>1 DEF NamedOnGate
  <2>3. GateNames'
    BY <1>1, <2>1, <2>2 DEF ServedInv, GateNames
  <2> QED
    BY <1>1, <1>2, <1>3, <1>4, <2>1, <2>3 DEF ServedInv, OnceClients, TokensTaken, AllTaken
<1> QED
  BY <1>5, <1>6, <1>7

LEMMA RunServed == TypeOK /\ ServedInv /\ GateNamesLive /\ RunNext => ServedInv'
<1> SUFFICES ASSUME TypeOK, ServedInv, GateNamesLive, RunNext PROVE ServedInv'
  OBVIOUS
<1>1. CASE SetupStart
  BY <1>1, StartedServed DEF SetupStart, users
<1>2. CASE ReconcileScripts \/ Reread \/ WriteGate \/ ListStale
             \/ \E i \in run.victims : DeleteStale(i)
  BY <1>2, MiddleServed
<1>3. CASE GateRefused \/ DeleteRefused \/ CallFails
  BY <1>3, FailsServed DEF GateRefused, DeleteRefused, CallFails, users
<1>4. CASE RunDone
  BY <1>4, DoneServed
<1>5. CASE RefreshStart
  <2>1. /\ entry = "loaded" /\ run.pc = "idle"
        /\ UNCHANGED <<objs, gate, subs, used, flows, host, entry, reported, died, lost>>
    BY <1>5 DEF RefreshStart, users
  <2>2. CASE Unchanged /\ UNCHANGED <<run, data>>
    <3>1. TokenIds' = TokenIds /\ Live' = Live /\ NamedOnGate' = NamedOnGate
      BY <2>1, <2>2 DEF TokenIds, Live, NamedOnGate
    <3>2. RunOfEntry' /\ OnceClients' /\ AppsRecorded' /\ GateNames' /\ TokensTaken'
      BY <2>1, <2>2, <3>1 DEF ServedInv, RunOfEntry, OnceClients, AppsRecorded, GateNames,
         TokensTaken
    <3>3. SnapshotServed' /\ NothingNew' /\ AllTaken'
      BY <2>1, <2>2, <3>1 DEF ServedInv, SnapshotServed, NothingNew, Unchanged, Served,
         NoFailure, AllTaken, RunOfEntry
    <3> QED
      BY <3>2, <3>3 DEF ServedInv
  <2>3. CASE Start("refresh", host)
             /\ data' = [data EXCEPT !.tokens = TokenIds, !.host = host]
    <3>1. data'.apps = data.apps
      BY <2>3 DEF TypeOK, Snapshot
    <3> QED
      BY <2>1, <2>3, <3>1, StartedServed
  <2> QED
    BY <1>5, <2>2, <2>3 DEF RefreshStart
<1>6. CASE \E c \in Clients : Reconcile(c)
  <2>1. PICK c \in Clients : Reconcile(c)
    BY <1>6
  <2>2. /\ run.pc \in {"consoles", "scripts"} /\ c \in DOMAIN run.todo
        /\ UNCHANGED <<used, flows>> /\ Quiet
        /\ \E i : \E created \in BOOLEAN : Took(c, i, created)
    BY <2>1 DEF Reconcile, users
  <2> QED
    BY <2>2, TookServed
<1>7. CASE \E c \in Clients : ReconcileAnswerLost(c)
  BY <1>7, FailsServed DEF ReconcileAnswerLost, users
<1> QED
  BY <1>1, <1>2, <1>3, <1>4, <1>5, <1>6, <1>7 DEF RunNext

\* If no two console apps share a name, then with nothing pending every client has the
\* object its subentry names, and the gate accepts it, unless somebody deleted it behind
\* the integration's back; or a failure is on record, or the debouncer dropped a
\* change.  The condition is the one of GateStaysWritable, and is needed for its reason.
THEOREM EveryClientServed == ASSUME DistinctNames PROVE Spec => []ClientsServed
<1>1. Init => ServedInv
  BY DEF Init, Idle, NoData, Nothing, ServedInv, RunOfEntry, OnceClients, AppsRecorded,
     GateNames, TokensTaken, AllTaken, SnapshotServed, NothingNew
<1>2. TypeOK /\ GateNamesLive /\ ServedInv /\ [Next]_vars => ServedInv'
  <2> SUFFICES ASSUME TypeOK, GateNamesLive, ServedInv, [Next]_vars PROVE ServedInv'
    OBVIOUS
  <2>1. CASE RunNext
    BY <2>1, RunServed
  <2>2. CASE Environment
    BY <2>2, EnvironmentServed
  <2>3. CASE UNCHANGED vars
    <3>1. TokenIds' = TokenIds /\ Live' = Live /\ NamedOnGate' = NamedOnGate
      BY <2>3 DEF vars, TokenIds, Live, NamedOnGate
    <3> QED
      BY <2>3, <3>1 DEF vars, bounds, users, ServedInv, RunOfEntry, OnceClients,
         AppsRecorded, GateNames, TokensTaken, AllTaken, SnapshotServed, NothingNew,
         NoFailure, NothingComing, Served
  <2> QED
    BY <2>1, <2>2, <2>3 DEF Next
<1>3. TypeOK /\ ServedInv => ClientsServed
  <2> SUFFICES ASSUME TypeOK, ServedInv, AtRest, ~reported, ~missed, ~died,
                      NEW c \in DOMAIN subs
               PROVE  Served(subs[c])
    BY DEF ClientsServed, Served
  <2>1. DOMAIN subs = DOMAIN data.apps /\ TokenIds = data.tokens
    BY DEF ServedInv, NothingNew, NothingComing, NoFailure, AtRest
  <2>2. CASE c \in Consoles
    BY <2>1, <2>2 DEF ServedInv, SnapshotServed, NoFailure, AtRest
  <2>3. CASE c \in Scripts
    <3>1. subs[c] \in TokenIds
      BY <2>3 DEF TokenIds
    <3> QED
      BY <2>1, <3>1 DEF ServedInv, SnapshotServed, NoFailure, AtRest
  <2> QED
    BY <2>2, <2>3 DEF TypeOK, Clients
<1> QED
  BY <1>1, <1>2, <1>3, GateStaysWritable, TypeCorrect, PTL DEF Spec
=============================================================================
