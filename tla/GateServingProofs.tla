-------------------------- MODULE GateServingProofs --------------------------
(***************************************************************************)
(* Theorems about what a loaded entry of GateLifecycle serves, for any     *)
(* hostnames, any number of take-downs at the same time, of changes and of *)
(* failed calls.                                                           *)
(***************************************************************************)
EXTENDS GateLifecycleProofs

\* Whoever has the id of an application for a kind has one of that kind, whatever runs at
\* the same time.
OfKind(i, k) == i \in Live => apps[i].kind = k
PassSorted(p) == \A k \in Kinds :
    /\ OfKind(passes[p].known[k], k) /\ OfKind(passes[p].got[k], k)
    /\ passes[p].at = k /\ passes[p].call # "look" => OfKind(passes[p].seen, k)
Sorted ==
    /\ \A k \in Kinds : OfKind(ids[k], k)
    /\ \A p \in Passes : PassSorted(p)
    /\ \A d \in Downs, k \in Kinds : OfKind(downs[d].known[k], k)

\* A pass deletes what is not wanted, and only that.
Fits == \A p \in Passes, k \in Kinds :
    passes[p].at = k /\ passes[p].call # "look" => (passes[p].call = "delete" <=> ~passes[p][k])

\* Cloudflare has one application of a kind on a domain.
OneEach == \A i, j \in Live : apps[i].kind = apps[j].kind /\ apps[i].host = apps[j].host => i = j

\* No take-down is at work while the entry is set up or loaded.
Quiet == ~tangled /\ entry \in {"setup", "loaded"} => \A d \in Downs : ~Deleting(d)

\* As long as no reload waits, the pass that runs works for the options as they are.
Unchanged == "reload" \notin waiting /\ ~tangled
Asked ==
    Unchanged /\ entry \in {"setup", "loaded"} =>
        \A p \in Passes, k \in Kinds : Working(p) => passes[p][k] = wants[k]

\* A refresh works for the hostname in the snapshot, which is the present one unless another
\* refresh is due, the news was dropped, or the last refresh ended with an error.
Followed ==
    entry = "loaded" /\ ~tangled =>
        /\ Working("refresh") => passes["refresh"].host = snap
        /\ ~stopping /\ ~due /\ ~missed /\ (Working("refresh") \/ (~silent /\ issues = {})) =>
              snap = wants.host

\* What a pass is through with is as it wants it.
PassServes(p) ==
    /\ \A k \in Kinds : Handled(p, k) \/ passes[p].at = "rest" =>
          IF passes[p][k] THEN Owned(passes[p].got[k]) /\ apps[passes[p].got[k]].host = passes[p].host
          ELSE passes[p].got[k] = 0
    /\ passes[p].at = "rest" => ids = passes[p].got

\* What a loaded entry has: the applications it is asked for, under the hostname of the
\* snapshot unless a refresh runs or the last one ended with an error.
Loaded ==
    entry = "loaded" /\ Unchanged /\ ~edited =>
        /\ \A k \in Kinds : IF wants[k] THEN Owned(ids[k]) ELSE ids[k] = 0
        /\ ~silent /\ issues = {} /\ ~Working("refresh") =>
              \A k \in Kinds : wants[k] => apps[ids[k]].host = snap

ServingParts ==
    /\ Sorted /\ Fits /\ OneEach /\ Quiet /\ Asked /\ Followed /\ Loaded
    /\ ~tangled /\ ~edited => \A p \in Passes : PassServes(p)

-----------------------------------------------------------------------------
(* What a step can do to the passes, to the take-downs and to what is on   *)
(* record.                                                                 *)

\* A pass that begins has the options and the ids as they are.
Begun(r) == /\ r.at = "bypass" /\ r.call = "look" /\ r.known = ids /\ r.got = None
            /\ r.made = {} /\ r.host = wants.host /\ \A k \in Kinds : r[k] = wants[k]
Begins(q) == \/ q = "setup" /\ SetupStart
             \/ q = "refresh" /\ RefreshStart

\* A pass that does nothing in this step.
Stays(q) ==
    /\ passes'[q].at = passes[q].at /\ passes'[q].call = passes[q].call
    /\ passes'[q].seen = passes[q].seen /\ passes'[q].known = passes[q].known
    /\ passes'[q].got = passes[q].got /\ passes'[q].made = passes[q].made
    /\ passes'[q].host = passes[q].host /\ \A k \in Kinds : passes'[q][k] = passes[q][k]

LEMMA BeginsBegun == Workers => \A q \in Passes : Begins(q) => Begun(passes'[q])
<1> SUFFICES ASSUME Workers, NEW q \in Passes, Begins(q) PROVE Begun(passes'[q])
  OBVIOUS
<1> DEFINE w == PassOf(wants, ids)
           r == [w EXCEPT !.prev = snap, !.mine = TRUE]
<1>1. Begun(w) /\ Begun(r)
  BY DEF Begun, PassOf, NoPass, Kinds
<1>2. passes'[q] \in {w, r}
  <2>1. CASE SetupStart /\ q = "setup"
    BY <2>1 DEF SetupStart, Workers
  <2>2. CASE RefreshStart /\ q = "refresh"
    BY <2>2, StartsFrame DEF Workers
  <2> QED
    BY <2>1, <2>2 DEF Begins
<1> HIDE DEF w, r
<1> QED
  BY <1>1, <1>2

Saves(q) == /\ Save(q) /\ passes[q].at = "save" /\ entry # "removed" /\ ids' = passes[q].got
            /\ passes'[q] = [passes[q] EXCEPT !.at = "rest", !.made = {}]

LEMMA PassSteps ==
    ASSUME Cloud, Workers, [Next]_vars, NEW q \in Passes
    PROVE  \/ Stays(q)
           \/ passes'[q] = NoPass
           \/ Begins(q) /\ Begun(passes'[q])
           \/ Saves(q)
           \/ \E k \in Kinds : Look(q, k) \/ Write(q, k)
<1>0. passes \in [Passes -> PassStates] /\ "setup" \in Passes /\ "refresh" \in Passes
      /\ passes[q] \in PassStates
  BY DEF Workers, Passes
<1>12. passes'[q] = passes[q] => Stays(q)
  BY DEF Stays
<1>1. CASE SetupStart
  <2>1. q # "setup" => passes'[q] = passes[q]
    BY <1>0, <1>1 DEF SetupStart
  <2> QED
    BY <1>1, <1>12, <2>1, BeginsBegun DEF Begins
<1>2. CASE RefreshStart
  <2>1. q # "refresh" => passes'[q] = passes[q]
    BY <1>0, <1>2, StartsFrame
  <2> QED
    BY <1>2, <1>12, <2>1, BeginsBegun DEF Begins
<1>3. CASE SetupDone \/ RefreshDone \/ Skips
  <2>1. CASE RefreshDone \/ Skips
    BY <1>0, <1>12, <2>1, SkipsFrame DEF RefreshDone
  <2>2. CASE SetupDone
    <3>1. passes' = [passes EXCEPT !["setup"] = NoPass, !["refresh"].mine = FALSE]
      BY <2>2 DEF SetupDone
    <3>2. CASE q = "setup"
      BY <1>0, <3>1, <3>2
    <3>3. CASE q = "refresh"
      <4>1. passes'[q] = [passes[q] EXCEPT !.mine = FALSE]
        BY <1>0, <3>1, <3>3
      <4>2. Stays(q)
        BY <1>0, <4>1 DEF Stays, PassStates, Kinds
      <4> QED
        BY <4>2
    <3> QED
      BY <3>2, <3>3 DEF Passes
  <2> QED
    BY <1>3, <2>1, <2>2
<1>4. CASE \E p \in Passes : Save(p)
  <2> PICK p \in Passes : Save(p)
    BY <1>4
  <2>1. CASE entry = "removed"
    BY <1>0, <1>12, <2>1 DEF Save
  <2>2. CASE entry # "removed"
    <3>1. /\ passes[p].at = "save" /\ ids' = passes[p].got
          /\ passes' = [passes EXCEPT ![p].at = "rest", ![p].made = {}]
      BY <2>2 DEF Save, Stored
    <3>2. passes'[p] = [passes[p] EXCEPT !.at = "rest", !.made = {}]
      BY <1>0, <3>1 DEF PassStates
    <3> QED
      BY <1>0, <1>12, <2>2, <3>1, <3>2 DEF Saves
  <2> QED
    BY <2>1, <2>2
<1>5. CASE \E p \in Passes : \E error, m : PassFails(p, error, m)
  BY <1>0, <1>5, <1>12, FailsFrame
<1>6. CASE \E p \in Passes : CallFails(p)
  BY <1>5, <1>6 DEF CallFails
<1>7. CASE \E p \in Passes, k \in Kinds : WriteAnswerLost(p, k) \/ WriteRefused(p, k)
  BY <1>5, <1>7 DEF WriteAnswerLost, WriteRefused
<1>8. CASE \E p \in Passes, k \in Kinds : Look(p, k) \/ Write(p, k)
  BY <1>8, <1>12, LookType, WriteType
<1>9. CASE DownNext
  BY <1>9, <1>12 DEF DownNext, Unload, StaysUnloaded, RemoveEntry, DownDone, DeleteApp, DownFails
<1>10. CASE Environment \/ UNCHANGED vars
  BY <1>10, <1>12 DEF Environment, SetOptions, SetDisabled, Remove, ChangeUsers, Stop, ChangeUrl,
               Dashboard, vars
<1>11. CASE Restart
  BY <1>11 DEF Restart
<1> QED
  BY <1>1, <1>2, <1>3, <1>4, <1>6, <1>7, <1>8, <1>9, <1>10, <1>11 DEF Next, PassNext, Skips

LEMMA IdsSteps ==
    ASSUME [Next]_vars
    PROVE  \/ UNCHANGED ids
           \/ ids' = None /\ \E d \in Downs : Deleting(d)
           \/ \E p \in Passes : Save(p) /\ entry # "removed" /\ ids' = passes[p].got
<1> USE DEF cloud, stored, refreshed, history, bounds
<1>1. CASE PassNext
  <2>1. CASE SetupStart \/ Skips \/ RefreshStart \/ SetupDone \/ RefreshDone
    BY <2>1, SkipsFrame, StartsFrame, FiresFrame DEF SetupStart, SetupDone, RefreshDone
  <2>2. CASE \E p \in Passes : Save(p)
    BY <2>2 DEF Save, Stored
  <2>3. CASE \E p \in Passes : CallFails(p)
    BY <2>3, FailsFrame DEF CallFails
  <2>4. CASE \E p \in Passes, k \in Kinds : Look(p, k) \/ Write(p, k)
    BY <2>4, LookFrame, WriteFrame
  <2>5. CASE \E p \in Passes, k \in Kinds : WriteAnswerLost(p, k) \/ WriteRefused(p, k)
    BY <2>5, FailsFrame DEF WriteAnswerLost, WriteRefused
  <2> QED
    BY <1>1, <2>1, <2>2, <2>3, <2>4, <2>5 DEF PassNext, Skips
<1>2. CASE DownNext
  <2>1. CASE \E d \in Downs : DownDone(d)
    BY <2>1 DEF DownDone, Deleting
  <2> QED
    BY <1>2, <2>1 DEF DownNext, Unload, StaysUnloaded, RemoveEntry, DeleteApp, DownFails
<1>3. CASE Environment
  BY <1>3 DEF Environment, SetOptions, SetDisabled, Remove, ChangeUsers, Stop, ChangeUrl,
              Dashboard
<1>4. CASE Restart \/ UNCHANGED vars
  BY <1>4 DEF Restart, vars
<1> QED
  BY <1>1, <1>2, <1>3, <1>4 DEF Next

\* A take-down that begins takes the ids on record, old or new.
LEMMA DownSteps ==
    ASSUME Workers, [Next]_vars, NEW d \in Downs
    PROVE  \/ downs'[d].known = downs[d].known \/ downs'[d] = NoDown
           \/ downs'[d].known = ids \/ downs'[d].known = ids'
<1>0. downs \in [Downs -> DownStates] /\ "unload" \in Downs /\ "remove" \in Downs
      /\ Starting(ids).known = ids /\ Starting(ids').known = ids'
  BY DEF Workers, Downs, Starting
<1>1. ASSUME NEW st, NEW r, r = ids \/ r = ids', Heard(st, r)
      PROVE  downs'[d].known = downs[d].known \/ downs'[d].known = r
  BY <1>0, <1>1, HeardDowns, TasksApart
<1>2. CASE PassNext
  <2>1. CASE \E p \in Passes : Save(p)
    BY <1>1, <2>1 DEF Save
  <2>2. CASE ~ \E p \in Passes : Save(p)
    <3>1. UNCHANGED downs
      BY <1>2, <2>2, LookFrame, WriteFrame, SkipsFrame, StartsFrame, FiresFrame
         DEF PassNext, Skips, SetupStart, SetupDone, RefreshDone, CallFails,
             WriteAnswerLost, WriteRefused
    <3> QED
      BY <3>1
  <2> QED
    BY <2>1, <2>2
<1>3. CASE Unload
  <2>1. CASE downs' = [downs EXCEPT !["unload"] = Starting(ids)]
    BY <1>0, <2>1
  <2> QED
    BY <1>1, <1>3, <2>1 DEF Unload, Unloaded
<1>4. CASE StaysUnloaded \/ RemoveEntry
  BY <1>0, <1>4 DEF StaysUnloaded, RemoveEntry
<1>5. CASE \E c \in Downs : DownDone(c)
  BY <1>0, <1>5 DEF DownDone
<1>6. CASE \E c \in Downs, k \in Kinds : DeleteApp(c, k)
  BY <1>0, <1>6 DEF DeleteApp, DownStates
<1>7. CASE \E c \in Downs, k \in Kinds : DownFails(c, k)
  <2> PICK c \in Downs, k \in Kinds : DownFails(c, k)
    BY <1>7
  <2>1. CASE downs' = [downs EXCEPT ![c] = NoDown]
    BY <1>0, <2>1
  <2>2. ASSUME NEW b \in Background, downs' = [downs EXCEPT ![c] = NoDown, ![b] = Starting(ids)]
        PROVE  downs'[d].known = downs[d].known \/ downs'[d] = NoDown \/ downs'[d].known = ids
    BY <1>0, <2>2, TasksApart
  <2> QED
    BY <2>1, <2>2, FailedDowns
<1>8. CASE Environment \/ UNCHANGED vars
  BY <1>8 DEF Environment, SetOptions, SetDisabled, Remove, ChangeUsers, Stop, ChangeUrl,
              Dashboard, vars
<1>9. CASE Restart
  BY <1>0, <1>9 DEF Restart, AtStart
<1> QED
  BY <1>2, <1>3, <1>4, <1>5, <1>6, <1>7, <1>8, <1>9 DEF Next, DownNext

-----------------------------------------------------------------------------
(* What a pass chooses and what comes of it.                               *)

LEMMA LookChoice ==
    ASSUME Cloud, Workers, NEW p \in Passes, NEW k \in Kinds, Look(p, k)
    PROVE  /\ passes'[p].host = passes[p].host /\ \A j \in Kinds : passes'[p][j] = passes[p][j]
           /\ \/ /\ passes'[p].at = After[k]
                 /\ \E i : /\ passes'[p].got = [passes[p].got EXCEPT ![k] = i]
                           /\ IF passes[p][k]
                              THEN i \in Found(p, k) /\ apps[i].host = passes[p].host
                              ELSE i = 0
              \/ /\ passes'[p].at = k /\ passes'[p].got = passes[p].got
                 /\ passes'[p].call = "delete" <=> ~passes[p][k]
                 /\ passes'[p].seen \in Found(p, k) \cup {0}
<1> DEFINE goOn(i)  == [passes[p] EXCEPT !.at = After[k], !.got[k] = i]
           does(c, i) == [passes[p] EXCEPT !.call = c, !.seen = i]
<1>1. passes \in [Passes -> PassStates] /\ passes[p] \in PassStates
  BY DEF Workers
<1>2. passes[p].at = k
  BY Zenon DEF Look, At
<1>3. \A i : /\ goOn(i).at = After[k] /\ goOn(i).host = passes[p].host
             /\ goOn(i).gate = passes[p].gate /\ goOn(i).bypass = passes[p].bypass
             /\ goOn(i).got = [passes[p].got EXCEPT ![k] = i]
  BY <1>1 DEF PassStates
<1>4. \A i, c : /\ does(c, i).at = passes[p].at /\ does(c, i).call = c /\ does(c, i).seen = i
                /\ does(c, i).host = passes[p].host
                /\ does(c, i).gate = passes[p].gate /\ does(c, i).bypass = passes[p].bypass
                /\ does(c, i).got = passes[p].got
  BY <1>1 DEF PassStates
<1>5. \/ /\ Found(p, k) = {}
         /\ \/ passes[p][k] /\ passes' = [passes EXCEPT ![p] = does("create", 0)]
            \/ ~passes[p][k] /\ passes' = [passes EXCEPT ![p] = goOn(0)]
      \/ \E i \in Found(p, k) :
            \/ ~passes[p][k] /\ passes' = [passes EXCEPT ![p] = does("delete", i)]
            \/ passes[p][k] /\ passes' = [passes EXCEPT ![p] = does("update", i)]
            \/ passes[p][k] /\ apps[i].host = passes[p].host /\ passes' = [passes EXCEPT ![p] = goOn(i)]
  BY Zenon DEF Look
<1> HIDE DEF goOn, does
<1> DEFINE wanted == passes[p][k]
<1>6. ASSUME NEW i, passes' = [passes EXCEPT ![p] = goOn(i)]
      PROVE  /\ passes'[p].at = After[k] /\ passes'[p].host = passes[p].host
             /\ passes'[p].got = [passes[p].got EXCEPT ![k] = i]
             /\ \A j \in Kinds : passes'[p][j] = passes[p][j]
  BY <1>1, <1>3, <1>6 DEF Kinds
<1>7. ASSUME NEW i, NEW c, passes' = [passes EXCEPT ![p] = does(c, i)]
      PROVE  /\ passes'[p].at = k /\ passes'[p].host = passes[p].host
             /\ passes'[p].got = passes[p].got /\ passes'[p].call = c /\ passes'[p].seen = i
             /\ \A j \in Kinds : passes'[p][j] = passes[p][j]
  BY <1>1, <1>2, <1>4, <1>7 DEF Kinds
<1> HIDE DEF wanted
<1>8. CASE Found(p, k) = {} /\ passes[p][k] /\ passes' = [passes EXCEPT ![p] = does("create", 0)]
  <2>1. /\ passes'[p].at = k /\ passes'[p].host = passes[p].host
        /\ passes'[p].got = passes[p].got /\ passes'[p].call = "create" /\ passes'[p].seen = 0
        /\ \A j \in Kinds : passes'[p][j] = passes[p][j]
    BY <1>7, <1>8
  <2>2. passes'[p].call # "delete" /\ passes'[p].seen \in Found(p, k) \cup {0}
    BY <2>1
  <2> QED
    BY <1>8, <2>1, <2>2, Zenon
<1>9. CASE Found(p, k) = {} /\ ~passes[p][k] /\ passes' = [passes EXCEPT ![p] = goOn(0)]
  BY <1>6, <1>9, Zenon
<1>10. ASSUME NEW i \in Found(p, k), ~passes[p][k], passes' = [passes EXCEPT ![p] = does("delete", i)]
       PROVE  /\ passes'[p].host = passes[p].host /\ \A j \in Kinds : passes'[p][j] = passes[p][j]
              /\ passes'[p].at = k /\ passes'[p].got = passes[p].got
              /\ passes'[p].call = "delete" <=> ~passes[p][k]
              /\ passes'[p].seen \in Found(p, k) \cup {0}
  BY <1>7, <1>10
<1>11. ASSUME NEW i \in Found(p, k), passes[p][k], passes' = [passes EXCEPT ![p] = does("update", i)]
       PROVE  /\ passes'[p].host = passes[p].host /\ \A j \in Kinds : passes'[p][j] = passes[p][j]
              /\ passes'[p].at = k /\ passes'[p].got = passes[p].got
              /\ passes'[p].call = "delete" <=> ~passes[p][k]
              /\ passes'[p].seen \in Found(p, k) \cup {0}
  <2>1. /\ passes'[p].at = k /\ passes'[p].host = passes[p].host
        /\ passes'[p].got = passes[p].got /\ passes'[p].call = "update" /\ passes'[p].seen = i
        /\ \A j \in Kinds : passes'[p][j] = passes[p][j]
    BY <1>7, <1>11
  <2>2. passes'[p].call # "delete" /\ passes'[p].seen \in Found(p, k) \cup {0}
    BY <2>1
  <2> QED
    BY <1>11, <2>1, <2>2, Zenon
<1>12. ASSUME NEW i \in Found(p, k), passes[p][k], apps[i].host = passes[p].host,
              passes' = [passes EXCEPT ![p] = goOn(i)]
       PROVE  /\ passes'[p].host = passes[p].host /\ \A j \in Kinds : passes'[p][j] = passes[p][j]
              /\ passes'[p].at = After[k]
              /\ \E m : /\ passes'[p].got = [passes[p].got EXCEPT ![k] = m]
                        /\ IF passes[p][k]
                           THEN m \in Found(p, k) /\ apps[m].host = passes[p].host
                           ELSE m = 0
  BY <1>6, <1>12, Zenon
<1> QED
  BY <1>5, <1>8, <1>9, <1>10, <1>11, <1>12, Zenon

LEMMA WriteKeeps ==
    ASSUME Workers, NEW p \in Passes, NEW k \in Kinds, Write(p, k)
    PROVE  passes'[p].host = passes[p].host /\ \A j \in Kinds : passes'[p][j] = passes[p][j]
<1>1. passes' = [passes EXCEPT ![p].at = After[k], ![p].call = "look", ![p].seen = 0,
                               ![p].got[k] = Result(p),
                               ![p].made = @ \cup (Live' \ Live)]
  BY Zenon DEF Write
<1>2. passes \in [Passes -> PassStates] /\ passes[p] \in PassStates
  BY DEF Workers
<1> QED
  BY <1>1, <1>2 DEF PassStates, Kinds

\* A write leaves the one it wrote as the pass wants it.
LEMMA EffectServes ==
    ASSUME Cloud, Workers, NEW p \in Passes, NEW k \in Kinds, Effect(p, k)
    PROVE  IF passes[p].call = "delete" THEN Result(p) = 0
           ELSE \A r : r = Result(p) =>
                   Owned(r)' /\ apps'[r].kind = k /\ apps'[r].host = passes[p].host
<1> DEFINE h == passes[p].host  i == passes[p].seen
<1>1. CASE /\ passes[p].call = "create"
           /\ apps' = With(apps, next, [kind |-> k, host |-> h, tagged |-> TRUE])
  BY <1>1 DEF With, Live, Result, Owned
<1>2. CASE /\ passes[p].call = "update" /\ i \in Live
           /\ apps' = [apps EXCEPT ![i] = [kind |-> k, host |-> h, tagged |-> TRUE]]
  BY <1>2 DEF Live, Result, Owned
<1>3. CASE passes[p].call = "delete"
  BY <1>3 DEF Result
<1> QED
  BY <1>1, <1>2, <1>3 DEF Effect

-----------------------------------------------------------------------------
(* Kinds.                                                                  *)

\* Nothing changes its kind.
LEMMA KindStays ==
    ASSUME Cloud, Workers, Sorted, [Next]_vars
    PROVE  \A i \in Id, k \in Kinds : OfKind(i, k) => OfKind(i, k)'
<1>1. CASE UNCHANGED cloud
  BY <1>1 DEF cloud, OfKind, Live
<1>2. CASE \E p \in Passes, k \in Kinds : Writes(p, k)
  <2> PICK p \in Passes, k \in Kinds : Writes(p, k)
    BY <1>2
  <2> DEFINE h == passes[p].host  i == passes[p].seen
  <2>1. OfKind(i, k) /\ Effect(p, k) /\ next \notin Id
    BY DEF Writes, Sorted, PassSorted, Cloud, Id
  <2>2. CASE apps' = With(apps, next, [kind |-> k, host |-> h, tagged |-> TRUE])
    BY <2>1, <2>2 DEF With, OfKind, Live
  <2>3. CASE /\ i \in Live
             /\ apps' = [apps EXCEPT ![i] = [kind |-> k, host |-> h, tagged |-> TRUE]]
    BY <2>1, <2>3 DEF OfKind, Live
  <2>4. CASE apps' = Without(apps, i)
    BY <2>4 DEF Without, OfKind, Live
  <2> QED
    BY <2>1, <2>2, <2>3, <2>4 DEF Effect
<1>3. CASE \E i : apps' = Without(apps, i)
  BY <1>3 DEF Without, OfKind, Live
<1>4. CASE \E i : Owned(i) /\ apps' = [apps EXCEPT ![i].tagged = FALSE]
  <2> PICK i : Owned(i) /\ apps' = [apps EXCEPT ![i].tagged = FALSE]
    BY <1>4
  <2>1. i \in Live /\ apps[i] \in [kind : Kinds, host : Hosts, tagged : BOOLEAN]
    BY DEF Owned, Live, Cloud
  <2> QED
    BY <2>1 DEF OfKind, Live
<1> QED
  BY <1>1, <1>2, <1>3, <1>4, CloudSteps

LEMMA NoneOfKind ==
    ASSUME Cloud'
    PROVE  \A k \in Kinds : OfKind(0, k)' /\ OfKind(None[k], k)'
BY DEF OfKind, Live, Cloud, None

LEMMA FoundOfKind ==
    ASSUME Sorted, NEW p \in Passes, NEW k \in Kinds, NEW i \in Found(p, k)
    PROVE  OfKind(i, k)
BY DEF Sorted, PassSorted, Found, Taken, OfKind

LEMMA PassSortedStep ==
    ASSUME Cloud, Workers, Cloud', Sorted, [Next]_vars, NEW p \in Passes
    PROVE  PassSorted(p)'
<1>0. passes \in [Passes -> PassStates] /\ passes[p] \in PassStates /\ ids \in [Kinds -> Id]
  BY DEF Workers
<1>1. \A i \in Id, k \in Kinds : OfKind(i, k) => OfKind(i, k)'
  BY KindStays
<1>2. /\ \A k \in Kinds : passes[p].known[k] \in Id /\ passes[p].got[k] \in Id /\ ids[k] \in Id
      /\ passes[p].seen \in Id
  BY <1>0 DEF PassStates
<1>3. \A k \in Kinds : OfKind(0, k)' /\ OfKind(None[k], k)'
  BY NoneOfKind
<1>4. CASE Stays(p)
  BY <1>1, <1>2, <1>4 DEF Sorted, PassSorted, Stays
<1>5. CASE passes'[p] = NoPass
  <2>1. passes'[p].known = None /\ passes'[p].got = None /\ passes'[p].at = "idle"
    BY <1>5 DEF NoPass
  <2> QED
    BY <1>3, <2>1 DEF PassSorted, Kinds
<1>6. CASE Begun(passes'[p])
  <2>1. passes'[p].known = ids /\ passes'[p].got = None /\ passes'[p].call = "look"
    BY <1>6 DEF Begun
  <2> QED
    BY <1>1, <1>2, <1>3, <2>1 DEF PassSorted, Sorted
<1>7. CASE Saves(p)
  <2>1. passes'[p].known = passes[p].known /\ passes'[p].got = passes[p].got
        /\ passes'[p].at = "rest"
    BY <1>0, <1>7 DEF Saves, PassStates
  <2> QED
    BY <1>1, <1>2, <2>1 DEF PassSorted, Sorted, Kinds
<1>8. ASSUME NEW k \in Kinds, Look(p, k) PROVE PassSorted(p)'
  <2>1. passes'[p].known = passes[p].known /\ passes[p].at = k
    BY <1>8, LookResult
  <2>2. \A i \in Found(p, k) : OfKind(i, k)'
    <3>1. UNCHANGED apps
      BY <1>8, LookFrame
    <3> QED
      BY <3>1, FoundOfKind DEF OfKind, Live
  <2>3. CASE /\ passes'[p].at = After[k]
             /\ \E i : /\ passes'[p].got = [passes[p].got EXCEPT ![k] = i]
                       /\ i \in Found(p, k) \/ i = 0
    <3>1. \A j \in Kinds : passes'[p].at # j \/ passes'[p].call = "look"
      BY <1>8, <2>1, <2>3, LookResult DEF After, Kinds
    <3> PICK i : /\ passes'[p].got = [passes[p].got EXCEPT ![k] = i]
                 /\ i \in Found(p, k) \/ i = 0
      BY <2>3
    <3>2. OfKind(i, k)'
      BY <1>3, <2>2
    <3>3. passes[p].got \in [Kinds -> Id]
      BY <1>0 DEF PassStates
    <3> QED
      BY <1>1, <1>2, <2>1, <3>1, <3>2, <3>3 DEF PassSorted, Sorted
  <2>4. CASE /\ passes'[p].at = k /\ passes'[p].got = passes[p].got
             /\ passes'[p].seen \in Found(p, k) \cup {0}
    <3>1. OfKind(passes[p].seen, k)'
      BY <1>3, <2>2, <2>4 DEF OfKind
    <3> QED
      BY <1>1, <1>2, <2>1, <2>4, <3>1 DEF PassSorted, Sorted, Kinds
  <2> QED
    <3>1. \/ /\ passes'[p].at = After[k]
             /\ \E i : /\ passes'[p].got = [passes[p].got EXCEPT ![k] = i]
                       /\ i \in Found(p, k) \/ i = 0
          \/ /\ passes'[p].at = k /\ passes'[p].got = passes[p].got
             /\ passes'[p].seen \in Found(p, k) \cup {0}
      BY <1>8, LookChoice, Zenon
    <3> QED
      BY <2>3, <2>4, <3>1
<1>9. ASSUME NEW k \in Kinds, Write(p, k) PROVE PassSorted(p)'
  <2>1. /\ passes'[p].known = passes[p].known /\ passes'[p].call = "look"
        /\ passes'[p].got = [passes[p].got EXCEPT ![k] = Result(p)]
    BY <1>9, WriteType
  <2>2. \A r : r = Result(p) => OfKind(r, k)'
    <3>1. Effect(p, k)
      BY <1>9, Zenon DEF Write
    <3>2. ASSUME NEW r, apps'[r].kind = k PROVE OfKind(r, k)'
      BY <3>2 DEF OfKind
    <3> QED
      BY <1>3, <3>1, <3>2, EffectServes
  <2>3. passes[p].got \in [Kinds -> Id]
    BY <1>0 DEF PassStates
  <2> QED
    BY <1>1, <1>2, <2>1, <2>2, <2>3 DEF PassSorted, Sorted
<1> QED
  BY <1>4, <1>5, <1>6, <1>7, <1>8, <1>9, PassSteps

LEMMA SortedStep ==
    ASSUME Cloud, Workers, Cloud', Sorted, [Next]_vars
    PROVE  Sorted'
<1>1. \A i \in Id, k \in Kinds : OfKind(i, k) => OfKind(i, k)'
  BY KindStays
<1>2. /\ \A k \in Kinds : ids[k] \in Id
      /\ \A p \in Passes, k \in Kinds : passes[p].got[k] \in Id
      /\ \A d \in Downs, k \in Kinds : downs[d].known[k] \in Id
  BY DEF Workers, PassStates, DownStates
<1>3. \A k \in Kinds : OfKind(None[k], k)'
  BY NoneOfKind
<1>4. \A k \in Kinds : OfKind(ids[k], k)' /\ \A i : i = ids[k] => OfKind(i, k)'
  <2>1. \A k \in Kinds : \A i : i = ids[k] => OfKind(i, k)'
    BY <1>1, <1>2 DEF Sorted
  <2>2. \A p \in Passes, k \in Kinds : \A i : i = passes[p].got[k] => OfKind(i, k)'
    BY <1>1, <1>2 DEF Sorted, PassSorted
  <2>3. \A k \in Kinds : \A i : i = ids'[k] => OfKind(i, k)'
    BY <1>3, <2>1, <2>2, IdsSteps
  <2> QED
    BY <2>1, <2>3
<1>5. ASSUME NEW d \in Downs, NEW k \in Kinds PROVE OfKind(downs[d].known[k], k)'
  <2>1. \A i : i = downs[d].known[k] => OfKind(i, k)'
    BY <1>1, <1>2 DEF Sorted
  <2>2. CASE downs'[d] = NoDown
    <3>1. downs'[d].known = None
      BY <2>2 DEF NoDown
    <3> QED
      BY <1>3, <3>1
  <2> QED
    BY <1>4, <2>1, <2>2, DownSteps
<1> QED
  BY <1>4, <1>5, PassSortedStep DEF Sorted

LEMMA FitsStep ==
    ASSUME Cloud, Workers, Fits, [Next]_vars
    PROVE  Fits'
<1> SUFFICES ASSUME NEW p \in Passes, NEW k \in Kinds, passes'[p].at = k, passes'[p].call # "look"
             PROVE  passes'[p].call = "delete" <=> ~passes'[p][k]
  BY DEF Fits
<1>1. CASE Stays(p)
  <2>1. passes[p].at = k /\ passes[p].call # "look" /\ passes'[p].call = passes[p].call
    BY <1>1 DEF Stays
  <2>2. passes'[p][k] = passes[p][k]
    BY <1>1 DEF Stays
  <2> QED
    BY <2>1, <2>2, Zenon DEF Fits
<1>2. passes'[p] # NoPass /\ ~Saves(p)
  <2>1. passes[p] \in PassStates
    BY DEF Workers
  <2>2. Saves(p) => passes'[p].at = "rest"
    BY <2>1 DEF Saves, PassStates
  <2>3. NoPass.at = "idle"
    BY DEF NoPass
  <2> QED
    BY <2>2, <2>3 DEF Kinds
<1>3. ~Begun(passes'[p])
  BY DEF Begun
<1>4. ASSUME NEW j \in Kinds, Look(p, j)
      PROVE  passes'[p].call = "delete" <=> ~passes'[p][k]
  <2>1. ~(passes'[p].at = After[j] /\ passes'[p].call = "look")
    OBVIOUS
  <2>2. passes'[p].at = j /\ j # After[j]
    BY <1>4, <2>1, LookResult DEF After, Kinds
  <2>3. passes'[p].call = "delete" <=> ~passes[p][j]
    BY <1>4, <2>2, LookChoice, Zenon
  <2>4. passes'[p][j] = passes[p][j]
    BY <1>4, LookChoice
  <2> QED
    BY <2>2, <2>3, <2>4, Zenon
<1>5. ~ \E j \in Kinds : Write(p, j)
  BY WriteType
<1> QED
  BY <1>1, <1>2, <1>3, <1>4, <1>5, PassSteps

\* Cloudflare refuses what would be the second one.
LEMMA OneEachStep ==
    ASSUME Cloud, Workers, OneEach, [Next]_vars
    PROVE  OneEach'
<1> USE DEF OneEach, Live
<1>1. CASE UNCHANGED cloud
  BY <1>1 DEF cloud
<1>2. CASE \E p \in Passes, k \in Kinds : Writes(p, k)
  <2> PICK p \in Passes, k \in Kinds : Writes(p, k)
    BY <1>2
  <2> DEFINE h == passes[p].host  i == passes[p].seen
             body == [kind |-> k, host |-> h, tagged |-> TRUE]
  <2>1. body.kind = k /\ body.host = h
    OBVIOUS
  <2>2. \/ Taken(k, h) = {} /\ apps' = With(apps, next, body)
        \/ Taken(k, h) \subseteq {i} /\ i \in Live /\ apps' = [apps EXCEPT ![i] = body]
        \/ apps' = Without(apps, i)
    BY DEF Writes, Effect
  <2> HIDE DEF body, h, i
  <2>3. CASE Taken(k, h) = {} /\ apps' = With(apps, next, body)
    BY <2>1, <2>3 DEF With, Taken
  <2>4. CASE Taken(k, h) \subseteq {i} /\ i \in Live /\ apps' = [apps EXCEPT ![i] = body]
    BY <2>1, <2>4 DEF Taken
  <2>5. CASE apps' = Without(apps, i)
    BY <2>5 DEF Without
  <2> QED
    BY <2>2, <2>3, <2>4, <2>5
<1>3. CASE \E i : apps' = Without(apps, i)
  BY <1>3 DEF Without
<1>4. CASE \E i : Owned(i) /\ apps' = [apps EXCEPT ![i].tagged = FALSE]
  <2> PICK i : Owned(i) /\ apps' = [apps EXCEPT ![i].tagged = FALSE]
    BY <1>4
  <2>1. DOMAIN apps' = DOMAIN apps
    OBVIOUS
  <2>2. \A j \in Live : apps'[j].kind = apps[j].kind /\ apps'[j].host = apps[j].host
    BY DEF Cloud
  <2> QED
    BY <2>1, <2>2
<1> QED
  BY <1>1, <1>2, <1>3, <1>4, CloudSteps

-----------------------------------------------------------------------------
(* Options and hostname.                                                   *)

\* What the steps other than a setup's leave as it is while the entry is set up or loaded.
SameOptions == "reload" \notin waiting' => "reload" \notin waiting /\ \A k \in Kinds : wants'[k] = wants[k]
SameHost ==
    ~stopping' =>
        /\ ~stopping
        /\ ~due' /\ ~missed' /\ entry' = "loaded" =>
              \/ RefreshStart \/ Skips
              \/ ~due /\ ~missed /\ wants'.host = wants.host
SameState == entry' = entry /\ (~edited' => ~edited)
SameSnapshot ==
    /\ \/ snap' = snap \/ RefreshStart \/ RefreshForNobody
       \/ ~Working("refresh")' /\ (issues' # {} \/ silent')
    /\ issues' = {} => issues = {} \/ RefreshStart \/ RefreshDone
    /\ ~silent' => ~silent \/ RefreshDone

LEMMA StillServed ==
    ASSUME Settings, Workers, [Next]_vars, entry' \in {"setup", "loaded"}, ~SetupStart
    PROVE  SameOptions /\ (SetupDone \/ (SameHost /\ SameState /\ SameSnapshot))
<1> USE DEF cloud, stored, refreshed, history, bounds, Settings
<1>0. ASSUME UNCHANGED <<waiting, wants>>
      PROVE  SameOptions
  BY <1>0 DEF SameOptions
<1>1. ASSUME UNCHANGED <<due, missed, wants, stopping>>
      PROVE  SameHost
  BY <1>1 DEF SameHost
<1>2. ASSUME UNCHANGED <<entry, edited>>
      PROVE  SameState
  BY <1>2 DEF SameState
<1>8. ASSUME UNCHANGED <<snap, issues, silent>>
      PROVE  SameSnapshot
  BY <1>8 DEF SameSnapshot
<1>3. CASE PassNext
  <2>1. CASE RefreshStart \/ Skips
    <3>1. UNCHANGED <<waiting, wants, entry, edited, stopping, silent>>
      BY <2>1, SkipsFrame, StartsFrame, FiresFrame
    <3>2. SameHost
      BY <2>1, <3>1 DEF SameHost
    <3>3. SameSnapshot
      BY <2>1, <3>1 DEF SameSnapshot, Skips, RefreshUnchanged, RefreshForNobody
    <3> QED
      BY <1>0, <1>2, <3>1, <3>2, <3>3
  <2>2. CASE SetupDone
    BY <1>0, <2>2 DEF SetupDone
  <2>3. CASE RefreshDone
    <3>1. UNCHANGED <<waiting, wants, due, missed, stopping, entry, edited, snap>>
      BY <2>3 DEF RefreshDone
    <3>2. SameSnapshot
      BY <2>3, <3>1 DEF SameSnapshot
    <3> QED
      BY <1>0, <1>1, <1>2, <3>1, <3>2
  <2>4. CASE \E p \in Passes : Save(p)
    <3>1. UNCHANGED <<waiting, wants, due, missed, stopping, entry, edited, snap, issues, silent>>
      BY <2>4 DEF Save
    <3> QED
      BY <1>0, <1>1, <1>2, <1>8, <3>1
  <2>5. ASSUME NEW p \in Passes, NEW m, NEW error \in Errors, PassFails(p, error, m)
        PROVE  SameOptions /\ SameHost /\ SameState /\ SameSnapshot
    <3>1. /\ p = "refresh" /\ passes' = [passes EXCEPT ![p] = NoPass]
          /\ UNCHANGED <<waiting, wants, due, missed, stopping, entry, edited>>
      BY <2>5, FailsFrame DEF Passes
    <3>2. ~Working("refresh")'
      BY <3>1 DEF Workers, Working, NoPass
    <3>3. issues' # {} \/ silent'
      <4>1. CASE error = "other"
        BY <2>5, <3>1, <4>1, Zenon DEF PassFails
      <4>2. CASE error # "other"
        <5>1. issues' = issues \cup Tells(p, error)
          BY <2>5, Zenon DEF PassFails
        <5> QED
          BY <2>5, <3>1, <4>2, <5>1 DEF Tells, Errors
      <4> QED
        BY <4>1, <4>2
    <3>4. /\ issues \subseteq issues'
          /\ silent => silent'
      <4>1. issues' = issues \cup Tells(p, error)
        BY <2>5, Zenon DEF PassFails
      <4>2. silent => silent'
        BY <2>5, Zenon DEF PassFails
      <4> QED
        BY <4>1, <4>2
    <3>5. SameSnapshot
      BY <3>2, <3>3, <3>4 DEF SameSnapshot
    <3> QED
      BY <1>0, <1>1, <1>2, <3>1, <3>5
  <2>6. CASE \E p \in Passes : CallFails(p)
    BY <2>5, <2>6 DEF CallFails
  <2>7. CASE \E p \in Passes, k \in Kinds : WriteAnswerLost(p, k) \/ WriteRefused(p, k)
    BY <2>5, <2>7 DEF WriteAnswerLost, WriteRefused, Errors
  <2>8. CASE \E p \in Passes, k \in Kinds : Look(p, k) \/ Write(p, k)
    <3>1. UNCHANGED <<waiting, wants, due, missed, stopping, entry, edited, snap, issues, silent>>
      BY <2>8, LookFrame, WriteFrame
    <3> QED
      BY <1>0, <1>1, <1>2, <1>8, <3>1
  <2> QED
    BY <1>3, <2>1, <2>2, <2>3, <2>4, <2>6, <2>7, <2>8 DEF PassNext, Skips
<1>4. CASE DownNext
  <2>1. UNCHANGED <<wants, stopping, edited, snap, issues, silent, missed>>
    BY <1>4 DEF DownNext, Unload, StaysUnloaded, RemoveEntry, DownDone, DeleteApp, DownFails
  <2>3. UNCHANGED waiting \/ entry' \in {"not_loaded", "removed"}
    BY <1>4 DEF DownNext, Unload, StaysUnloaded, RemoveEntry, DownDone, DeleteApp, DownFails
  <2>2. UNCHANGED <<entry, due>> \/ entry' \in {"not_loaded", "unloading", "removed"}
    BY <1>4 DEF DownNext, Unload, Unloaded, StaysUnloaded, RemoveEntry, DownDone, DeleteApp,
                DownFails
  <2> QED
    BY <1>0, <1>1, <1>2, <1>8, <2>1, <2>2, <2>3
<1>5. CASE Environment
  <2>1. UNCHANGED <<entry, snap, issues, silent>> /\ (edited' = edited \/ edited' = TRUE)
    BY <1>5 DEF Environment, SetOptions, SetDisabled, Remove, ChangeUsers, Stop, ChangeUrl,
                Dashboard
  <2>2. SameState /\ SameSnapshot
    BY <1>8, <2>1 DEF SameState
  <2>3. CASE \E g, b \in BOOLEAN : SetOptions(g, b)
    <3>1. wants' \in [gate : BOOLEAN, bypass : BOOLEAN, host : Hosts] /\ wants'.host = wants.host
          /\ "reload" \in waiting' /\ UNCHANGED <<stopping, due, missed>>
      BY <2>3 DEF SetOptions
    <3> QED
      BY <2>2, <3>1 DEF SameOptions, SameHost
  <2>4. CASE \E h \in Hosts : ChangeUrl(h)
    <3>1. wants'.gate = wants.gate /\ wants'.bypass = wants.bypass /\ UNCHANGED <<waiting, stopping>>
          /\ (entry = "loaded" /\ ~stopping => due' \/ missed')
      BY <2>4 DEF ChangeUrl, Schedules, Listens
    <3> QED
      BY <2>1, <2>2, <3>1 DEF SameOptions, SameHost, Kinds
  <2>5. CASE ChangeUsers
    <3>1. UNCHANGED <<wants, waiting, stopping, missed>> /\ (due => due')
      BY <2>5 DEF ChangeUsers, Schedules
    <3> QED
      BY <2>2, <3>1 DEF SameOptions, SameHost
  <2>6. CASE Stop
    BY <1>0, <2>2, <2>6 DEF Stop, SameHost
  <2>7. CASE SetDisabled \/ Remove
    BY <1>1, <2>2, <2>7 DEF SetDisabled, Remove, SameOptions
  <2>8. CASE \E i \in Live : Dashboard(i)
    BY <1>0, <1>1, <2>2, <2>8 DEF Dashboard
  <2> QED
    BY <1>5, <2>3, <2>4, <2>5, <2>6, <2>7, <2>8 DEF Environment
<1>6. ~Restart
  BY DEF Restart
<1>7. CASE UNCHANGED vars
  BY <1>0, <1>1, <1>2, <1>7, <1>8 DEF vars
<1> QED
  BY <1>3, <1>4, <1>5, <1>6, <1>7 DEF Next

\* A setup whose end the entry is loaded by was alone, as was one that begins.
LEMMA SetupAlone ==
    ASSUME Settings, Workers, Locks, Records, ~tangled', [Next]_vars
    PROVE  /\ SetupStart => /\ \A p \in Passes : ~Working(p)
                            /\ \A d \in Downs : ~Deleting(d)
           /\ SetupDone => /\ entry = "setup" /\ ~Working("refresh") /\ ~Working("refresh")'
                           /\ ~Working("setup")' /\ passes["setup"].at = "rest"
                           /\ \A d \in Downs : ~Deleting(d)
<1>1. ~tangled
  BY TangledStays
<1>2. ASSUME SetupStart
      PROVE  /\ \A p \in Passes : ~Working(p)
             /\ \A d \in Downs : ~Deleting(d)
  BY <1>2 DEF SetupStart, Tangles, Busy, Everything, Working, Deleting
<1>3. ASSUME SetupDone
      PROVE  /\ entry = "setup" /\ ~Working("refresh") /\ ~Working("refresh")'
             /\ ~Working("setup")' /\ passes["setup"].at = "rest"
             /\ \A d \in Downs : ~Deleting(d)
  <2>1. /\ passes["setup"].at = "rest"
        /\ passes' = [passes EXCEPT !["setup"] = NoPass, !["refresh"].mine = FALSE]
    BY <1>3 DEF SetupDone
  <2>2. Working("setup") /\ "setup" \in Passes /\ "refresh" \in Passes
    BY <2>1 DEF Working, Passes
  <2>3. entry = "setup" /\ ~Working("refresh") /\ \A d \in Downs : ~Deleting(d)
    BY <1>1, <2>2 DEF Locks, Records, Alone
  <2>4. passes'["refresh"] = [passes["refresh"] EXCEPT !.mine = FALSE] /\ passes'["setup"] = NoPass
    BY <2>1, <2>2 DEF Workers
  <2>5. passes'["refresh"].at = passes["refresh"].at
    BY <2>2, <2>4 DEF Workers, PassStates
  <2> QED
    BY <2>1, <2>2, <2>3, <2>4, <2>5 DEF Working, NoPass
<1> QED
  BY <1>2, <1>3

LEMMA QuietStep ==
    ASSUME Settings, Cloud, Workers, Locks, Records, Quiet, [Next]_vars
    PROVE  Quiet'
<1> SUFFICES ASSUME ~tangled', entry' \in {"setup", "loaded"}
             PROVE  \A d \in Downs : ~Deleting(d)'
  BY DEF Quiet
<1>0. ~tangled
  BY TangledStays
<1> USE DEF cloud, stored, refreshed, history, bounds
<1>1. CASE SetupStart \/ SetupDone
  BY <1>1, SetupAlone DEF SetupStart, SetupDone, Deleting
<1>2. CASE ~SetupStart /\ ~SetupDone
  <2>1. entry' = entry /\ \A d \in Downs : ~Deleting(d)
    BY <1>0, <1>2, StillServed DEF SameState, Quiet
  <2>2. UNCHANGED downs
    <3>1. CASE PassNext
      <4>1. CASE \E p \in Passes : Save(p)
        BY <2>1, <4>1 DEF Save, Heard
      <4> QED
        BY <1>2, <3>1, <4>1, LookFrame, WriteFrame, SkipsFrame, StartsFrame, FiresFrame
           DEF PassNext, Skips, RefreshDone, CallFails, WriteAnswerLost, WriteRefused
    <3>2. CASE DownNext
      <4>1. ~ \E d \in Downs : DownDone(d) \/ \E k \in Kinds : DeleteApp(d, k) \/ DownFails(d, k)
        BY <2>1 DEF DownDone, DeleteApp, DownFails, Deleting, Kinds
      <4>2. ~Unload /\ ~RemoveEntry
        BY <2>1 DEF Unload, Unloaded, RemoveEntry
      <4> QED
        BY <3>2, <4>1, <4>2 DEF DownNext, StaysUnloaded
    <3>3. CASE Environment \/ UNCHANGED vars
      BY <3>3 DEF Environment, SetOptions, SetDisabled, Remove, ChangeUsers, Stop, ChangeUrl,
                  Dashboard, vars
    <3>4. ~Restart
      BY DEF Restart
    <3> QED
      BY <3>1, <3>2, <3>3, <3>4 DEF Next
  <2> QED
    BY <2>1, <2>2 DEF Deleting
<1> QED
  BY <1>1, <1>2

\* What a pass works for stays as it was when it began.
LEMMA PassKeeps ==
    ASSUME Cloud, Workers, [Next]_vars, NEW q \in Passes, Working(q)'
    PROVE  \/ Begins(q) /\ Begun(passes'[q])
           \/ /\ Working(q) /\ passes'[q].host = passes[q].host
              /\ \A k \in Kinds : passes'[q][k] = passes[q][k]
<1>1. CASE Stays(q)
  BY <1>1 DEF Working, Stays
<1>2. passes'[q] # NoPass
  BY DEF Working, NoPass
<1>3. CASE Saves(q)
  <2>1. passes[q] \in PassStates
    BY DEF Workers
  <2>2. /\ passes[q].at = "save" /\ passes'[q].host = passes[q].host
        /\ passes'[q].gate = passes[q].gate /\ passes'[q].bypass = passes[q].bypass
    BY <1>3, <2>1 DEF Saves, PassStates
  <2> QED
    BY <2>2 DEF Kinds, Working
<1>4. CASE \E k \in Kinds : Look(q, k)
  BY <1>4, LookChoice, LookResult DEF Working, Kinds
<1>5. CASE \E k \in Kinds : Write(q, k)
  <2> PICK k \in Kinds : Write(q, k)
    BY <1>5
  <2>1. passes[q].at = k
    BY Zenon DEF Write
  <2> QED
    BY <2>1, WriteKeeps DEF Working, Kinds
<1> QED
  BY <1>1, <1>2, <1>3, <1>4, <1>5, PassSteps

LEMMA AskedStep ==
    ASSUME Settings, Cloud, Workers, Locks, Records, Asked, [Next]_vars
    PROVE  Asked'
<1> SUFFICES ASSUME ~tangled', "reload" \notin waiting', entry' \in {"setup", "loaded"},
                    NEW q \in Passes, NEW k \in Kinds, Working(q)'
             PROVE  passes'[q][k] = wants'[k]
  BY DEF Asked, Unchanged
<1>0. ~tangled
  BY TangledStays
<1>1. CASE Begins(q) /\ Begun(passes'[q])
  <2>1. UNCHANGED wants
    BY <1>1, StartsFrame, FiresFrame DEF Begins, SetupStart, stored
  <2> QED
    BY <1>1, <2>1 DEF Begun
<1>2. CASE Working(q) /\ passes'[q][k] = passes[q][k]
  <2>1. ~SetupStart
    BY <1>2, SetupAlone
  <2>2. "reload" \notin waiting /\ wants'[k] = wants[k] /\ entry \in {"setup", "loaded"}
    BY <2>1, StillServed, SetupAlone DEF SameOptions, SameState
  <2> QED
    BY <1>0, <1>2, <2>2 DEF Asked, Unchanged
<1> QED
  BY <1>1, <1>2, PassKeeps

LEMMA FollowedStep ==
    ASSUME Settings, Cloud, Workers, Locks, Records, Followed, [Next]_vars
    PROVE  Followed'
<1> SUFFICES ASSUME ~tangled', entry' = "loaded"
             PROVE  /\ Working("refresh")' => passes'["refresh"].host = snap'
                    /\ ~stopping' /\ ~due' /\ ~missed'
                       /\ (Working("refresh")' \/ (~silent' /\ issues' = {})) => snap' = wants'.host
  BY DEF Followed
<1>0. ~tangled /\ ~SetupStart /\ "refresh" \in Passes /\ "setup" \in Passes
  BY TangledStays DEF Passes, SetupStart
<1>1. CASE SetupDone
  <2>1. due' = ~stopping' /\ ~Working("refresh")'
    <3>1. due' = ~stopping /\ UNCHANGED stopping
      BY <1>1, Zenon DEF SetupDone, FirstRefresh
    <3> QED
      BY <1>1, <3>1, SetupAlone
  <2> QED
    BY <2>1
<1>2. CASE RefreshStart \/ Skips
  <2>1. snap' = wants.host /\ UNCHANGED wants
    BY <1>2, StartsFrame, SkipsFrame, FiresFrame DEF Skips, RefreshUnchanged, RefreshForNobody
  <2>2. Working("refresh")' => passes'["refresh"].host = wants.host
    <3>1. CASE RefreshStart
      BY <1>0, <3>1, BeginsBegun DEF Begins, Begun
    <3>2. CASE Skips
      BY <3>2, SkipsFrame, FiresFrame DEF Working
    <3> QED
      BY <1>2, <3>1, <3>2
  <2> QED
    BY <2>1, <2>2
<1>3. CASE ~SetupDone /\ ~RefreshStart /\ ~Skips
  <2>1. SameHost /\ SameState /\ SameSnapshot
    BY <1>0, <1>3, StillServed
  <2>2. entry = "loaded"
    BY <2>1 DEF SameState
  <2>3. Working("refresh")' \/ (~silent' /\ issues' = {}) => snap' = snap
    BY <1>3, <2>1 DEF SameSnapshot, Skips
  <2>4. Working("refresh")' => Working("refresh") /\ passes'["refresh"].host = passes["refresh"].host
    BY <1>0, <1>3, PassKeeps DEF Begins
  <2>5. ~silent' /\ issues' = {} => Working("refresh") \/ (~silent /\ issues = {})
    BY <1>3, <2>1 DEF SameSnapshot, RefreshDone, Working
  <2>6. ~stopping' /\ ~due' /\ ~missed' => ~stopping /\ ~due /\ ~missed /\ wants'.host = wants.host
    BY <1>3, <2>1 DEF SameHost
  <2> QED
    BY <1>0, <2>2, <2>3, <2>4, <2>5, <2>6 DEF Followed
<1> QED
  BY <1>1, <1>2, <1>3

-----------------------------------------------------------------------------
(* What a pass is through with, and what a loaded entry has.               *)

\* While no take-down runs and nobody edits them, only a pass writes to the applications.
LEMMA OnlyPassesWrite ==
    ASSUME [Next]_vars, ~edited', \A d \in Downs : ~Deleting(d)
    PROVE  \/ UNCHANGED cloud
           \/ \E p \in Passes, k \in Kinds : Writes(p, k) /\ (Write(p, k) \/ WriteAnswerLost(p, k))
<1>1. CASE PassNext
  <2>1. CASE SetupStart \/ Skips \/ RefreshStart \/ SetupDone \/ RefreshDone
    BY <2>1, SkipsFrame, StartsFrame, FiresFrame DEF SetupStart, SetupDone, RefreshDone, cloud
  <2>2. CASE \E p \in Passes : Save(p) \/ CallFails(p)
    BY <2>2 DEF Save, CallFails
  <2>3. CASE \E p \in Passes, k \in Kinds : Look(p, k) \/ WriteRefused(p, k)
    BY <2>3, LookFrame DEF WriteRefused, cloud
  <2>4. CASE \E p \in Passes, k \in Kinds : Write(p, k) \/ WriteAnswerLost(p, k)
    <3> PICK p \in Passes, k \in Kinds : Write(p, k) \/ WriteAnswerLost(p, k)
      BY <2>4
    <3>1. Writes(p, k)
      BY Zenon DEF Write, WriteAnswerLost, Writes
    <3> QED
      BY <3>1
  <2> QED
    BY <1>1, <2>1, <2>2, <2>3, <2>4 DEF PassNext, Skips
<1>2. CASE DownNext
  <2>1. ~ \E d \in Downs, k \in Kinds : DeleteApp(d, k) \/ DownFails(d, k)
    BY DEF DeleteApp, DownFails, Deleting, Kinds
  <2> QED
    BY <1>2, <2>1 DEF DownNext, Unload, StaysUnloaded, RemoveEntry, DownDone
<1>3. CASE Environment
  BY <1>3 DEF Environment, SetOptions, SetDisabled, Remove, ChangeUsers, Stop, ChangeUrl,
              Dashboard
<1>4. CASE Restart \/ UNCHANGED vars
  BY <1>4 DEF Restart, vars, cloud
<1> QED
  BY <1>1, <1>2, <1>3, <1>4 DEF Next

\* A write leaves what it does not write; what it writes has the pass's kind.
LEMMA WriteSpares ==
    ASSUME Cloud, Workers, NEW p \in Passes, NEW k \in Kinds, Effect(p, k), NEW i, Owned(i)
    PROVE  \/ Owned(i)' /\ apps'[i] = apps[i]
           \/ i = passes[p].seen /\ passes[p].call # "create"
<1> DEFINE h == passes[p].host  j == passes[p].seen
<1>0. i # next
  BY DEF Owned, Live, Cloud, Id
<1>1. CASE apps' = With(apps, next, [kind |-> k, host |-> h, tagged |-> TRUE])
  BY <1>0, <1>1 DEF With, Live, Owned
<1>2. CASE /\ passes[p].call = "update"
           /\ apps' = [apps EXCEPT ![j] = [kind |-> k, host |-> h, tagged |-> TRUE]]
  BY <1>2 DEF Live, Owned
<1>3. CASE passes[p].call = "delete" /\ apps' = Without(apps, j)
  BY <1>3 DEF Live, Owned, Without
<1> QED
  BY <1>1, <1>2, <1>3 DEF Effect

\* A pass that goes on working is the only one that does anything to the applications.
LEMMA AloneKeeps ==
    ASSUME Cloud, Workers, Records, ~tangled, ~edited', [Next]_vars,
           NEW p \in Passes, Working(p), Stays(p)
    PROVE  UNCHANGED <<apps, ids>>
<1>1. /\ \A q \in Passes : q # p => ~Working(q)
      /\ \A d \in Downs : ~Deleting(d)
  BY DEF Records, Alone
<1>2. passes \in [Passes -> PassStates] /\ passes[p] \in PassStates
  BY DEF Workers
<1>3. ~ \E q \in Passes : Save(q)
  <2> SUFFICES ASSUME NEW q \in Passes, Save(q) PROVE FALSE
    OBVIOUS
  <2>1. passes[q].at = "save"
    BY DEF Save
  <2>2. q = p
    BY <1>1, <2>1 DEF Working
  <2>3. passes'[p] = NoPass \/ passes' = [passes EXCEPT ![p].at = "rest", ![p].made = {}]
    BY <1>2, <2>2 DEF Save
  <2> QED
    BY <1>2, <2>1, <2>2, <2>3 DEF NoPass, PassStates, Stays
<1>4. ~ \E q \in Passes, k \in Kinds : Writes(q, k) /\ (Write(q, k) \/ WriteAnswerLost(q, k))
  <2> SUFFICES ASSUME NEW q \in Passes, NEW k \in Kinds, Writes(q, k),
                      Write(q, k) \/ WriteAnswerLost(q, k)
               PROVE  FALSE
    OBVIOUS
  <2>1. passes[q].at = k
    BY DEF Writes
  <2>2. q = p
    BY <1>1, <2>1 DEF Working, Kinds
  <2>3. CASE Write(q, k)
    BY <2>1, <2>2, <2>3, WriteType DEF After, Kinds, Stays
  <2>4. CASE WriteAnswerLost(q, k)
    <3>1. passes'[p] = NoPass
      BY <1>2, <2>2, <2>4, FailsFrame DEF WriteAnswerLost
    <3> QED
      BY <3>1 DEF Working, NoPass, Stays
  <2> QED
    BY <2>3, <2>4
<1> QED
  BY <1>1, <1>3, <1>4, IdsSteps, OnlyPassesWrite DEF cloud

LEMMA PassServesStep ==
    ASSUME Settings, Cloud, Workers, Locks, Records, Sorted, Fits, [Next]_vars,
           ~tangled', ~edited', ~edited => \A q \in Passes : PassServes(q), NEW p \in Passes
    PROVE  PassServes(p)'
<1>0. ~tangled /\ passes \in [Passes -> PassStates] /\ passes[p] \in PassStates
  BY TangledStays DEF Workers
<1>1. ASSUME passes'[p].at \in {"idle", "bypass"} PROVE PassServes(p)'
  BY <1>1 DEF PassServes, Handled
<1>2. CASE SetupStart
  <2>1. passes[p].at = "idle" /\ passes' = [passes EXCEPT !["setup"] = PassOf(wants, ids)]
    BY <1>2, SetupAlone DEF SetupStart, Working
  <2>2. PassOf(wants, ids).at = "bypass"
    BY DEF PassOf, NoPass
  <2> QED
    BY <1>0, <1>1, <2>1, <2>2
<1>3. CASE ~SetupStart
  <2>1. ~edited
    <3>1. edited' = edited \/ edited' = TRUE
      <4>1. CASE PassNext
        <5>1. CASE \E q \in Passes, k \in Kinds : Look(q, k) \/ Write(q, k)
          BY <5>1, LookFrame, WriteFrame
        <5> QED
          BY <1>3, <4>1, <5>1,
             SkipsFrame, StartsFrame, FiresFrame, FailsFrame
             DEF PassNext, Skips, SetupDone, RefreshDone, Save, CallFails, WriteAnswerLost,
                 WriteRefused, history
      <4>2. CASE DownNext
        BY <4>2 DEF DownNext, Unload, StaysUnloaded, RemoveEntry, DownDone, DeleteApp, DownFails,
                    history
      <4>3. CASE Environment
        BY <4>3 DEF Environment, SetOptions, SetDisabled, Remove, ChangeUsers, Stop, ChangeUrl,
                    Dashboard, history
      <4>4. CASE Restart \/ UNCHANGED vars
        BY <4>4 DEF Restart, vars
      <4> QED
        BY <4>1, <4>2, <4>3, <4>4 DEF Next
    <3> QED
      BY <3>1 DEF Settings
  <2>2. PassServes(p)
    BY <2>1
  <2>3. CASE Stays(p)
    <3>1. CASE Working(p)
      <4>1. UNCHANGED <<apps, ids>>
        BY <1>0, <2>3, <3>1, AloneKeeps
      <4> QED
        BY <2>2, <2>3, <4>1 DEF PassServes, Handled, Owned, Live, Stays
    <3>2. CASE ~Working(p)
      BY <1>1, <2>3, <3>2 DEF Working, Stays
    <3> QED
      BY <3>1, <3>2
  <2>4. CASE passes'[p] = NoPass
    BY <1>1, <2>4 DEF NoPass
  <2>5. CASE Begun(passes'[p])
    BY <1>1, <2>5 DEF Begun
  <2>6. CASE Saves(p)
    <3>1. /\ passes'[p].got = passes[p].got /\ passes'[p].host = passes[p].host
          /\ passes'[p].gate = passes[p].gate /\ passes'[p].bypass = passes[p].bypass
          /\ passes'[p].at = "rest" /\ passes[p].at = "save" /\ ids' = passes[p].got
      BY <1>0, <2>6 DEF Saves, PassStates
    <3>2. UNCHANGED apps
      BY <2>6 DEF Saves, Save, cloud
    <3> QED
      BY <2>2, <3>1, <3>2 DEF PassServes, Handled, Owned, Live, Kinds
  <2>7. ASSUME NEW k \in Kinds, Look(p, k) PROVE PassServes(p)'
    <3>1. UNCHANGED apps
      BY <2>7, LookFrame
    <3>2. passes[p].at = k /\ passes[p].got \in [Kinds -> Id]
      BY <1>0, <2>7, LookResult DEF PassStates
    <3>3. passes'[p].host = passes[p].host /\ \A j \in Kinds : passes'[p][j] = passes[p][j]
      BY <2>7, LookChoice
    <3>4. CASE /\ passes'[p].at = After[k]
               /\ \E i : /\ passes'[p].got = [passes[p].got EXCEPT ![k] = i]
                         /\ IF passes[p][k]
                            THEN i \in Found(p, k) /\ apps[i].host = passes[p].host
                            ELSE i = 0
      <4> PICK i : /\ passes'[p].got = [passes[p].got EXCEPT ![k] = i]
                   /\ IF passes[p][k]
                      THEN i \in Found(p, k) /\ apps[i].host = passes[p].host
                      ELSE i = 0
        BY <3>4
      <4>1. /\ \A j \in Kinds : Handled(p, j)' <=> Handled(p, j) \/ j = k
            /\ passes'[p].at # "rest"
        BY <3>2, <3>4, HandledNext
      <4>2. IF passes[p][k] THEN Owned(i) /\ apps[i].host = passes[p].host ELSE i = 0
        BY FoundOwned
      <4>3. ASSUME NEW j \in Kinds, Handled(p, j)'
            PROVE  IF passes[p][j]
                   THEN Owned(passes'[p].got[j]) /\ apps[passes'[p].got[j]].host = passes[p].host
                   ELSE passes'[p].got[j] = 0
        <5>1. CASE j = k
          <6>1. passes'[p].got[j] = i
            BY <3>2, <5>1
          <6> QED
            BY <4>2, <5>1, <6>1
        <5>2. CASE j # k
          <6>1. passes'[p].got[j] = passes[p].got[j] /\ Handled(p, j)
            BY <3>2, <4>1, <4>3, <5>2
          <6> QED
            BY <2>2, <6>1 DEF PassServes
        <5> QED
          BY <5>1, <5>2
      <4> QED
        BY <3>1, <3>3, <4>1, <4>3 DEF PassServes, Owned, Live
    <3>5. CASE passes'[p].at = k /\ passes'[p].got = passes[p].got
      <4>1. k # "rest" /\ \A j \in Kinds : Handled(p, j)' <=> Handled(p, j)
        BY <3>2, <3>5 DEF Handled, Kinds
      <4> QED
        BY <2>2, <3>1, <3>3, <3>5, <4>1 DEF PassServes, Owned, Live
    <3> QED
      BY <2>7, <3>4, <3>5, LookChoice
  <2>8. ASSUME NEW k \in Kinds, Write(p, k) PROVE PassServes(p)'
    <3>1. passes[p].at = k /\ passes[p].call # "look" /\ Effect(p, k)
      BY <2>8, Zenon DEF Write
    <3>2. /\ passes'[p].at = After[k] /\ passes[p].got \in [Kinds -> Id]
          /\ passes'[p].got = [passes[p].got EXCEPT ![k] = Result(p)]
      BY <1>0, <2>8, WriteType DEF PassStates
    <3>3. passes'[p].host = passes[p].host /\ \A j \in Kinds : passes'[p][j] = passes[p][j]
      BY <2>8, WriteKeeps
    <3>4. /\ \A j \in Kinds : Handled(p, j)' <=> Handled(p, j) \/ j = k
          /\ passes'[p].at # "rest"
      BY <3>1, <3>2, HandledNext
    <3>5. ASSUME NEW j \in Kinds, Handled(p, j)', NEW i, i = passes'[p].got[j]
          PROVE  IF passes[p][j] THEN Owned(i)' /\ apps'[i].host = passes[p].host ELSE i = 0
      <4>1. CASE j = k
        <5>1. i = Result(p)
          BY <3>2, <3>5, <4>1
        <5>2. passes[p].call = "delete" <=> ~passes[p][k]
          BY <3>1, Zenon DEF Fits
        <5> QED
          <6>1. IF passes[p].call = "delete" THEN i = 0
                ELSE Owned(i)' /\ apps'[i].host = passes[p].host
            BY <3>1, <5>1, EffectServes
          <6> QED
            <7>1. CASE passes[p].call = "delete"
              <8>1. ~passes[p][k]
                BY <5>2, <7>1, Zenon
              <8> QED
                BY <4>1, <6>1, <7>1, <8>1
            <7>2. CASE passes[p].call # "delete"
              <8>1. passes[p][k]
                BY <5>2, <7>2, Zenon
              <8> QED
                BY <4>1, <6>1, <7>2, <8>1
            <7> QED
              BY <7>1, <7>2
      <4>2. CASE j # k
        <5>1. i = passes[p].got[j] /\ Handled(p, j)
          BY <3>2, <3>4, <3>5, <4>2
        <5>2. IF passes[p][j] THEN Owned(i) /\ apps[i].host = passes[p].host ELSE i = 0
          BY <2>2, <5>1 DEF PassServes
        <5>3. Owned(i) => i # passes[p].seen
          BY <3>1, <4>2, <5>1 DEF Sorted, PassSorted, OfKind, Owned
        <5>4. Owned(i) => Owned(i)' /\ apps'[i] = apps[i]
          BY <3>1, <5>3, WriteSpares
        <5> QED
          BY <5>2, <5>4
      <4> QED
        BY <4>1, <4>2
    <3> QED
      BY <3>3, <3>4, <3>5 DEF PassServes
  <2> QED
    BY <2>3, <2>4, <2>5, <2>6, <2>7, <2>8, PassSteps
<1> QED
  BY <1>2, <1>3

\* A refresh that ends has done what it is for, or says that it has not.
LEMMA RefreshEnds ==
    ASSUME Settings, Cloud, Workers, [Next]_vars, Working("refresh"), ~Working("refresh")',
           entry' = "loaded", entry = "loaded"
    PROVE  RefreshDone \/ issues' # {} \/ silent'
<1>0. passes \in [Passes -> PassStates] /\ "refresh" \in Passes /\ "setup" \in Passes
  BY DEF Workers, Passes
<1>1. ~UNCHANGED passes
  BY DEF Working
<1>2. CASE PassNext
  <2>1. ~RefreshStart /\ ~Skips
    BY StartsFrame, SkipsFrame, FiresFrame DEF Working
  <2>2. ASSUME NEW p \in Passes, NEW error \in Errors, NEW m, PassFails(p, error, m)
        PROVE  issues' # {} \/ silent'
    <3>1. p = "refresh"
      BY <1>0, <2>2, FailsFrame DEF Working, Passes
    <3>2. /\ issues' = issues \cup Tells(p, error)
          /\ silent' = (silent \/ (p = "refresh" /\ error = "other"))
      BY <2>2, Zenon DEF PassFails
    <3> QED
      BY <3>1, <3>2 DEF Tells, Errors
  <2>3. CASE SetupStart \/ SetupDone
    <3>1. CASE SetupStart
      BY <1>0, <3>1 DEF SetupStart, Working
    <3>2. CASE SetupDone
      <4>1. passes' = [passes EXCEPT !["setup"] = NoPass, !["refresh"].mine = FALSE]
        BY <3>2 DEF SetupDone
      <4>2. passes'["refresh"] = [passes["refresh"] EXCEPT !.mine = FALSE]
        BY <1>0, <4>1
      <4>3. passes'["refresh"].at = passes["refresh"].at
        BY <1>0, <4>2 DEF PassStates
      <4> QED
        BY <4>3 DEF Working
    <3> QED
      BY <2>3, <3>1, <3>2
  <2>4. CASE \E p \in Passes : Save(p)
    <3> PICK p \in Passes : Save(p)
      BY <2>4
    <3>1. passes' = [passes EXCEPT ![p].at = "rest", ![p].made = {}]
      BY Zenon DEF Save
    <3>2. passes'["refresh"].at = passes["refresh"].at \/ passes'["refresh"].at = "rest"
      BY <1>0, <3>1 DEF PassStates
    <3> QED
      BY <3>2 DEF Working
  <2>5. ASSUME NEW p \in Passes, NEW k \in Kinds, Look(p, k) \/ Write(p, k) PROVE FALSE
    <3>1. p = "refresh"
      <4>1. \A q \in Passes : q # p => passes'[q] = passes[q]
        BY <2>5, LookType, WriteType
      <4> QED
        BY <1>0, <4>1 DEF Working
    <3>2. passes'[p].at \in {k, After[k]}
      BY <2>5, LookResult, WriteType
    <3> QED
      BY <3>1, <3>2 DEF Working, After, Kinds
  <2>6. CASE \E p \in Passes : CallFails(p)
    BY <2>2, <2>6 DEF CallFails
  <2>7. CASE \E p \in Passes, k \in Kinds : WriteAnswerLost(p, k) \/ WriteRefused(p, k)
    BY <2>2, <2>7 DEF WriteAnswerLost, WriteRefused, Errors
  <2> QED
    BY <1>2, <2>1, <2>3, <2>4, <2>5, <2>6, <2>7 DEF PassNext, Skips
<1>3. CASE DownNext
  BY <1>1, <1>3 DEF DownNext, Unload, StaysUnloaded, RemoveEntry, DownDone, DeleteApp, DownFails
<1>4. CASE Environment \/ UNCHANGED vars
  BY <1>1, <1>4 DEF Environment, SetOptions, SetDisabled, Remove, ChangeUsers, Stop, ChangeUrl,
               Dashboard, vars
<1>5. ~Restart
  BY DEF Restart
<1> QED
  BY <1>2, <1>3, <1>4, <1>5 DEF Next

Has(k) == IF wants[k] THEN Owned(ids[k]) ELSE ids[k] = 0

LEMMA LoadedBySetup ==
    ASSUME Settings, Cloud, Workers, Locks, Records, Asked, PassServes("setup"), SetupDone,
           [Next]_vars, ~tangled', "reload" \notin waiting'
    PROVE  /\ \A k \in Kinds : Has(k)'
           /\ \A k \in Kinds : wants'[k] => apps'[ids'[k]].host = snap'
<1>1. /\ passes["setup"].at = "rest" /\ entry = "setup" /\ Working("setup") /\ ~tangled
      /\ "setup" \in Passes
  BY SetupAlone, TangledStays DEF Working, Passes
<1>2. UNCHANGED <<apps, ids, wants, waiting>> /\ snap' = passes["setup"].host
  BY DEF SetupDone, cloud, stored
<1>3. ids = passes["setup"].got
  BY <1>1 DEF PassServes
<1>4. \A k \in Kinds : passes["setup"][k] = wants[k]
  BY <1>1, <1>2 DEF Asked, Unchanged
<1>5. \A k \in Kinds : IF wants[k] THEN Owned(ids[k]) /\ apps[ids[k]].host = passes["setup"].host
                       ELSE ids[k] = 0
  BY <1>1, <1>3, <1>4 DEF PassServes
<1> QED
  BY <1>2, <1>3, <1>5 DEF Has, Owned, Live, Kinds

\* A refresh stores what it has.
LEMMA LoadedBySave ==
    ASSUME Settings, Cloud, Workers, Locks, Records, Asked, Quiet, Loaded, [Next]_vars,
           \A q \in Passes : PassServes(q), Unchanged, ~edited, entry = "loaded",
           NEW p \in Passes, Save(p), ids' = passes[p].got, UNCHANGED apps,
           \A k \in Kinds : wants'[k] = wants[k]
    PROVE  \A k \in Kinds : Has(k)'
<1>1. passes[p].at = "save" /\ Working(p) /\ ~tangled
  BY DEF Save, Working, Unchanged
<1>2. \A k \in Kinds : Handled(p, k) /\ passes[p][k] = wants[k]
  BY <1>1 DEF Handled, Asked
<1>3. \A k \in Kinds : IF wants[k] THEN Owned(passes[p].got[k]) ELSE passes[p].got[k] = 0
  BY <1>2 DEF PassServes
<1> QED
  BY <1>3 DEF Has, Owned, Live

\* What a loaded entry has outlives the writes of its refresh.
LEMMA LoadedByWrite ==
    ASSUME Settings, Cloud, Workers, Locks, Records, Sorted, Fits, Asked, Loaded, [Next]_vars,
           Unchanged, ~edited, entry = "loaded", UNCHANGED ids,
           \A k \in Kinds : wants'[k] = wants[k],
           NEW p \in Passes, NEW k \in Kinds, Writes(p, k)
    PROVE  \A j \in Kinds : Has(j)'
<1>1. /\ passes[p].at = k /\ passes[p].call # "look" /\ Effect(p, k) /\ Working(p)
      /\ OfKind(passes[p].seen, k)
  BY DEF Writes, Working, Kinds, Sorted, PassSorted
<1>2. passes[p][k] = wants[k]
  BY <1>1 DEF Asked
<1>3. ASSUME NEW j \in Kinds, wants[j], NEW i, i = ids[j] PROVE Owned(i)'
  <2>1. Owned(i)
    BY <1>3 DEF Loaded
  <2>2. CASE i # passes[p].seen \/ passes[p].call = "create"
    BY <1>1, <2>1, <2>2, WriteSpares
  <2>3. CASE i = passes[p].seen /\ passes[p].call # "create"
    <3>1. j = k
      BY <1>1, <1>3, <2>1, <2>3 DEF Sorted, OfKind, Owned
    <3>2. passes[p][k]
      BY <1>2, <1>3, <3>1
    <3>3. passes[p].call # "delete"
      BY <1>1, <3>2, Zenon DEF Fits
    <3>4. passes[p].call = "update"
      BY <1>1, <2>3, <3>3 DEF Effect
    <3> QED
      BY <1>1, <2>3, <3>4, EffectServes DEF Result
  <2> QED
    BY <2>2, <2>3
<1>4. \A j \in Kinds : ~wants[j] => ids[j] = 0
  BY DEF Loaded
<1> QED
  BY <1>3, <1>4 DEF Has

LEMMA LoadedStep ==
    ASSUME Settings, Cloud, Workers, Locks, Records, Sorted, Fits, Quiet, Asked, Followed, Loaded,
           ~tangled /\ ~edited => \A q \in Passes : PassServes(q), [Next]_vars
    PROVE  Loaded'
<1> SUFFICES ASSUME entry' = "loaded", Unchanged', ~edited'
             PROVE  /\ \A k \in Kinds : Has(k)'
                    /\ ~silent' /\ issues' = {} /\ ~Working("refresh")' =>
                          \A k \in Kinds : wants'[k] => apps'[ids'[k]].host = snap'
  BY DEF Loaded, Has
<1>0. ~tangled /\ ~tangled' /\ "reload" \notin waiting' /\ ~SetupStart
  BY TangledStays DEF Unchanged, SetupStart
<1>1. CASE SetupDone
  <2>1. ~edited
    BY <1>1 DEF SetupDone
  <2> QED
    BY <1>0, <1>1, <2>1, LoadedBySetup DEF Passes
<1>2. CASE ~SetupDone
  <2>1. SameOptions /\ SameSnapshot /\ SameState
    BY <1>0, <1>2, StillServed
  <2>2. /\ entry = "loaded" /\ ~edited /\ Unchanged
        /\ \A k \in Kinds : wants'[k] = wants[k]
        /\ \A q \in Passes : PassServes(q)
    BY <1>0, <2>1 DEF SameOptions, SameState, Unchanged
  <2>3. \A d \in Downs : ~Deleting(d)
    BY <1>0, <2>2 DEF Quiet
  <2>4. /\ \A k \in Kinds : Has(k)
        /\ ~silent /\ issues = {} /\ ~Working("refresh") =>
              \A k \in Kinds : wants[k] => apps[ids[k]].host = snap
    BY <2>2 DEF Loaded, Has
  <2>5. \A p \in Passes : Working(p) => p = "refresh"
    BY <2>2 DEF Locks, Passes
  <2>6. CASE \E p \in Passes : Save(p) /\ entry # "removed" /\ ids' = passes[p].got
    <3> PICK p \in Passes : Save(p) /\ ids' = passes[p].got
      BY <2>6
    <3>1. p = "refresh"
      BY <2>5 DEF Save, Working
    <3>2. Working("refresh")'
      <4>1. passes' = [passes EXCEPT ![p].at = "rest", ![p].made = {}]
        BY <2>2 DEF Save
      <4>2. passes'[p].at = "rest"
        BY <4>1 DEF Workers, PassStates
      <4> QED
        BY <3>1, <4>2 DEF Working
    <3>3. UNCHANGED apps
      BY DEF Save, cloud
    <3> QED
      BY <2>2, <3>2, <3>3, LoadedBySave
  <2>7. CASE \E p \in Passes, k \in Kinds : Writes(p, k) /\ (Write(p, k) \/ WriteAnswerLost(p, k))
    <3> PICK p \in Passes, k \in Kinds : Writes(p, k) /\ (Write(p, k) \/ WriteAnswerLost(p, k))
      BY <2>7
    <3>1. p = "refresh"
      BY <2>5 DEF Writes, Working, Kinds
    <3>2. UNCHANGED ids
      BY WriteFrame, FailsFrame DEF WriteAnswerLost
    <3>3. Working("refresh")' \/ issues' # {} \/ silent'
      <4>1. CASE Write(p, k)
        BY <3>1, <4>1, WriteType DEF Working, After, Kinds
      <4>2. CASE WriteAnswerLost(p, k)
        <5>1. Working("refresh") /\ ~RefreshDone
          BY <3>1 DEF Writes, Working, Kinds, RefreshDone
        <5> QED
          BY <2>2, <5>1, RefreshEnds
      <4> QED
        BY <4>1, <4>2
    <3> QED
      BY <2>2, <2>4, <3>2, <3>3, LoadedByWrite
  <2>8. CASE UNCHANGED cloud /\ UNCHANGED ids
    <3>1. \A k \in Kinds : Has(k)'
      BY <2>2, <2>4, <2>8 DEF Has, Owned, Live, cloud
    <3>2. ASSUME ~silent', issues' = {}, ~Working("refresh")'
          PROVE  (\A k \in Kinds : wants[k] => apps[ids[k]].host = snap) /\ snap' = snap
      <4>1. ~RefreshStart
        BY <3>2, BeginsBegun DEF Begins, Begun, Working, Passes
      <4>2. snap' = snap
        <5>1. ~RefreshForNobody
          BY <3>2 DEF RefreshForNobody
        <5> QED
          BY <2>1, <3>2, <4>1, <5>1 DEF SameSnapshot
      <4>3. CASE Working("refresh")
        <5>1. RefreshDone
          BY <2>2, <3>2, <4>3, RefreshEnds
        <5>2. passes["refresh"].at = "rest" /\ "refresh" \in Passes
          BY <5>1 DEF RefreshDone, Passes
        <5>3. ids = passes["refresh"].got /\ passes["refresh"].host = snap
          BY <1>0, <2>2, <4>3, <5>2 DEF PassServes, Followed
        <5>4. \A k \in Kinds : passes["refresh"][k] = wants[k]
          BY <2>2, <4>3, <5>2 DEF Asked
        <5> QED
          BY <2>2, <4>2, <5>2, <5>3, <5>4 DEF PassServes
      <4>4. CASE ~Working("refresh")
        <5>1. ~RefreshDone
          BY <4>4 DEF RefreshDone, Working
        <5>2. ~silent /\ issues = {}
          BY <2>1, <3>2, <4>1, <5>1 DEF SameSnapshot
        <5> QED
          BY <2>4, <4>2, <4>4, <5>2
      <4> QED
        BY <4>3, <4>4
    <3> QED
      BY <2>2, <2>4, <2>8, <3>1, <3>2 DEF cloud
  <2> QED
    BY <2>3, <2>6, <2>7, <2>8, IdsSteps, OnlyPassesWrite
<1> QED
  BY <1>1, <1>2

-----------------------------------------------------------------------------
(* All together.                                                           *)

ServingInvariant == LifecycleInvariant /\ ServingParts

LEMMA ServingInit == Init => ServingInvariant
<1> SUFFICES ASSUME Init PROVE ServingParts
  BY InvariantInit DEF ServingInvariant
<1>1. /\ \A p \in Passes : passes[p].at = "idle"
      /\ \A d \in Downs : downs[d].at = "idle"
  BY DEF Init, NoPass, NoDown
<1>2. Live = {}
  BY DEF Init, Live
<1>3. Sorted /\ OneEach
  BY <1>2 DEF Sorted, PassSorted, OfKind, OneEach
<1>4. Fits /\ Quiet /\ Asked /\ Followed /\ Loaded
  BY <1>1 DEF Init, Fits, Kinds, Quiet, Asked, Followed, Loaded
<1>5. \A p \in Passes : PassServes(p)
  BY <1>1 DEF PassServes, Handled
<1> QED
  BY <1>3, <1>4, <1>5 DEF ServingParts

LEMMA ServingStep == ServingInvariant /\ [Next]_vars => ServingInvariant'
<1> SUFFICES ASSUME ServingInvariant, [Next]_vars PROVE ServingInvariant'
  OBVIOUS
<1>1. Settings /\ Cloud /\ Workers /\ Locks /\ Awaited /\ Records /\ Pending
  BY TypeParts DEF ServingInvariant, LifecycleInvariant
<1>2. LifecycleInvariant' /\ Cloud'
  BY <1>1, TypeParts, TypePartsNext, TypeStep, LocksStep, AwaitedStep, RecordsStep, PendingStep
     DEF LifecycleInvariant
<1>3. /\ Sorted /\ Fits /\ OneEach /\ Quiet /\ Asked /\ Followed /\ Loaded
      /\ ~tangled /\ ~edited => \A p \in Passes : PassServes(p)
  BY DEF ServingInvariant, ServingParts
<1>4. Sorted' /\ Fits' /\ OneEach'
  BY <1>1, <1>2, <1>3, SortedStep, FitsStep, OneEachStep
<1>5. Quiet' /\ Asked' /\ Followed' /\ Loaded'
  BY <1>1, <1>3, QuietStep, AskedStep, FollowedStep, LoadedStep
<1>6. ASSUME ~tangled', ~edited', NEW p \in Passes PROVE PassServes(p)'
  <2>1. ~tangled
    BY <1>1, <1>6, TangledStays
  <2> QED
    BY <1>1, <1>3, <1>6, <2>1, PassServesStep
<1> QED
  BY <1>2, <1>4, <1>5, <1>6 DEF ServingInvariant, ServingParts

LEMMA ServingHolds == Spec => []ServingInvariant
BY ServingInit, ServingStep, PTL DEF Spec

\* A loaded entry at rest has, under its hostname, the applications the options ask for and
\* no other, also after passes that failed, lost answers, take-downs and crashes: or an issue
\* or a sign-in is open, the last refresh ended on an error nobody handles, the debouncer
\* dropped the news of the hostname, somebody edited the applications since the last setup,
\* or a pass once worked beside something else.
THEOREM ConfiguredAtRest == Spec => []GateAsConfigured
<1>1. ServingInvariant => GateAsConfigured
  <2> SUFFICES ASSUME ServingInvariant, AtRest, entry = "loaded", ~tangled, issues = {}, ~edited,
                      ~silent, ~missed, NEW k \in Kinds
               PROVE  LET here == Ours \cap Taken(k, wants.host) IN
                      IF wants[k] THEN here = {ids[k]} ELSE here \subseteq unsaved
    BY DEF GateAsConfigured, Configured
  <2> DEFINE here == Ours \cap Taken(k, wants.host)
  <2>1. /\ ~stopping /\ ~due /\ "reload" \notin waiting
        /\ \A p \in Passes : ~Working(p)
    BY DEF AtRest, Busy, Everything, Working
  <2>2. /\ wants[k] => Owned(ids[k]) /\ apps[ids[k]].host = wants.host
        /\ ~wants[k] => ids[k] = 0
    <3>1. snap = wants.host
      BY <2>1 DEF ServingInvariant, ServingParts, Followed
    <3> QED
      BY <2>1, <3>1 DEF ServingInvariant, ServingParts, Loaded, Unchanged, Passes
  <2>3. Sorted /\ OneEach /\ Records
    BY DEF ServingInvariant, ServingParts, LifecycleInvariant
  <2>4. CASE wants[k]
    <3>1. ids[k] \in here
      BY <2>2, <2>3, <2>4 DEF Owned, Ours, Taken, Sorted, OfKind
    <3>2. \A i \in here : i = ids[k]
      BY <2>3, <3>1 DEF OneEach, Taken
    <3> QED
      BY <2>4, <3>1, <3>2
  <2>5. CASE ~wants[k]
    <3>1. ASSUME NEW i \in here PROVE i \in unsaved
      <4>1. i \in Ours /\ i \in Live /\ apps[i].kind = k
        BY <3>1 DEF Taken
      <4>2. i \in OnRecord \cup unsaved
        BY <2>1, <2>3, <4>1 DEF Records, Kept, PassKnows, Working
      <4>3. i \notin OnRecord
        <5>1. 0 \notin Live
          BY TypeParts DEF ServingInvariant, LifecycleInvariant, Live, Cloud
        <5> QED
          BY <2>2, <2>3, <2>5, <4>1, <5>1 DEF OnRecord, Sorted, OfKind
      <4> QED
        BY <4>2, <4>3
    <3> QED
      BY <2>5, <3>1
  <2> QED
    BY <2>4, <2>5
<1> QED
  BY <1>1, ServingHolds, PTL

LEMMA UnsavedGrows == [Next]_vars => unsaved \subseteq unsaved'
<1> SUFFICES ASSUME [Next]_vars PROVE unsaved \subseteq unsaved'
  OBVIOUS
<1>1. CASE PassNext
  <2>1. CASE \E p \in Passes, k \in Kinds : Look(p, k) \/ Write(p, k)
    BY <2>1, LookFrame, WriteFrame
  <2> QED
    BY <1>1, <2>1, SkipsFrame, StartsFrame, FiresFrame, FailsFrame
       DEF PassNext, Skips, SetupStart, SetupDone, RefreshDone, Save, CallFails, WriteAnswerLost,
           WriteRefused, history
<1>2. CASE DownNext
  BY <1>2 DEF DownNext, Unload, StaysUnloaded, RemoveEntry, DownDone, DeleteApp, DownFails, history
<1>3. CASE Environment
  BY <1>3 DEF Environment, SetOptions, SetDisabled, Remove, ChangeUsers, Stop, ChangeUrl,
              Dashboard, history
<1>4. CASE Restart \/ UNCHANGED vars
  BY <1>4 DEF Restart, vars
<1> QED
  BY <1>1, <1>2, <1>3, <1>4 DEF Next

\* No step leaves a hostname gated with nothing bypassed but an administrator's, or one taken
\* while a pass works for other options or another hostname, or beside something else.
THEOREM NotLeftClosed == Spec => NeverClosed
<1> DEFINE Step == \A h \in Hosts :
        Closed(h)' => \/ Closed(h) \/ edited' \/ tangled'
                      \/ \E p \in Passes : /\ passes[p].at # "idle"
                                           /\ ~passes[p].bypass \/ passes[p].host # h
<1>1. ServingInvariant /\ [Next]_vars => Step
  <2> SUFFICES ASSUME ServingInvariant, [Next]_vars, NEW h \in Hosts, Closed(h)', ~Closed(h),
                      ~edited', ~tangled',
                      \A p \in Passes : Working(p) => passes[p].bypass /\ passes[p].host = h
               PROVE  FALSE
    BY DEF Working
  <2>1. /\ Settings /\ Cloud /\ Workers /\ Records /\ Sorted /\ Fits
        /\ ~tangled /\ ~edited => \A p \in Passes : PassServes(p)
    BY TypeParts DEF ServingInvariant, LifecycleInvariant, ServingParts
  <2>2. ~tangled /\ unsaved \subseteq unsaved'
    BY <2>1, TangledStays, UnsavedGrows
  <2>3. ~UNCHANGED apps
    BY <2>2 DEF Closed, Taken, Ours, Live
  <2>4. PICK i : Owned(i)' /\ apps'[i].kind = "gate" /\ apps'[i].host = h /\ i \notin unsaved'
    BY DEF Closed, Taken, Ours, Owned
  <2>5. \A j : j \in Live' => ~(apps'[j].kind = "bypass" /\ apps'[j].host = h)
    BY DEF Closed, Taken
  <2>6. ASSUME NEW d \in Downs, NEW k \in Kinds, downs[d].at = k, Deleted(d, k)
        PROVE  FALSE
    <3> DEFINE j == downs[d].known[k]
    <3>1. Owned(j) /\ apps' = Without(apps, j)
      BY <2>3, <2>6 DEF Deleted
    <3>2. Owned(i) /\ apps[i].kind = "gate" /\ apps[i].host = h /\ i \notin unsaved
      BY <2>2, <2>4, <3>1 DEF Owned, Live, Without
    <3>3. PICK b \in Live : apps[b].kind = "bypass" /\ apps[b].host = h
      BY <3>2 DEF Closed, Taken, Ours, Owned
    <3>4. b = j
      BY <2>5, <3>1, <3>3 DEF Live, Without
    <3>5. k = "bypass"
      BY <2>1, <3>3, <3>4 DEF Sorted, OfKind
    <3>6. /\ DownKnows(d) /\ \A m : Owned(m) => m \in OnRecord \cup unsaved
          /\ Deleting(d)
      BY <2>1, <2>2, <2>6, DownAlone DEF Deleting, Kinds
    <3>7. ~Owned(downs[d].known["gate"])
      BY <2>6, <3>5, <3>6 DEF DownKnows
    <3>8. i \in OnRecord /\ i # 0
      BY <2>1, <3>2, <3>6 DEF Owned, Live, Cloud
    <3>9. i = ids["gate"]
      BY <2>1, <3>2, <3>8 DEF OnRecord, Sorted, OfKind, Owned
    <3> QED
      BY <3>2, <3>6, <3>7, <3>8, <3>9 DEF DownKnows, None, Kinds
  <2>7. ASSUME NEW p \in Passes, NEW k \in Kinds, Writes(p, k), ~edited
        PROVE  FALSE
    <3>1. /\ passes[p].at = k /\ passes[p].call # "look" /\ Effect(p, k)
          /\ passes[p].bypass /\ passes[p].host = h /\ PassServes(p)
      BY <2>1, <2>2, <2>7 DEF Writes, Working, Kinds
    <3>2. CASE k = "bypass"
      <4>1. passes[p].call # "delete"
        BY <2>1, <3>1, <3>2 DEF Fits
      <4>2. \A r : r = Result(p) => Owned(r)' /\ apps'[r].kind = k /\ apps'[r].host = h
        BY <2>1, <3>1, <4>1, EffectServes
      <4> QED
        BY <2>5, <3>2, <4>2 DEF Owned
    <3>3. CASE k = "gate"
      <4>1. PICK b : b = passes[p].got["bypass"]
        OBVIOUS
      <4>2. Owned(b) /\ apps[b].host = h /\ apps[b].kind = "bypass"
        BY <2>1, <3>1, <3>3, <4>1 DEF PassServes, Handled, Kinds, Sorted, PassSorted, OfKind, Owned
      <4>3. b # passes[p].seen
        BY <2>1, <3>1, <3>3, <4>2 DEF Sorted, PassSorted, OfKind, Owned
      <4>4. Owned(b)' /\ apps'[b] = apps[b]
        BY <2>1, <3>1, <4>2, <4>3, WriteSpares
      <4> QED
        BY <2>5, <4>2, <4>4 DEF Owned
    <3> QED
      BY <3>2, <3>3 DEF Kinds
  <2>8. CASE \E d \in Downs, k \in Kinds : DeleteApp(d, k) \/ DownFails(d, k)
    BY <2>3, <2>6, <2>8 DEF DeleteApp, DownFails
  <2>9. CASE \E p \in Passes, k \in Kinds : Write(p, k) \/ WriteAnswerLost(p, k)
    <3> PICK p \in Passes, k \in Kinds : Write(p, k) \/ WriteAnswerLost(p, k)
      BY <2>9
    <3>1. Writes(p, k)
      BY Zenon DEF Write, WriteAnswerLost, Writes
    <3>2. edited' = edited
      BY WriteFrame, FailsFrame DEF WriteAnswerLost
    <3> QED
      BY <2>7, <3>1, <3>2
  <2>10. CASE PassNext
    <3>1. CASE \E p \in Passes, k \in Kinds : Look(p, k) \/ WriteRefused(p, k)
      BY <2>3, <3>1, LookFrame DEF WriteRefused, cloud
    <3> QED
      BY <2>3, <2>9, <2>10, <3>1, SkipsFrame, StartsFrame, FiresFrame
         DEF PassNext, Skips, SetupStart, SetupDone, RefreshDone, Save, CallFails, cloud
  <2>11. CASE DownNext
    BY <2>3, <2>8, <2>11 DEF DownNext, Unload, StaysUnloaded, RemoveEntry, DownDone, cloud
  <2>12. CASE Environment \/ Restart \/ UNCHANGED vars
    BY <2>3, <2>12 DEF Environment, SetOptions, SetDisabled, Remove, ChangeUsers, Stop, ChangeUrl,
                       Dashboard, Restart, vars, cloud
  <2> QED
    BY <2>10, <2>11, <2>12 DEF Next
<1> QED
  BY <1>1, ServingHolds, PTL DEF Spec, NeverClosed
=============================================================================
