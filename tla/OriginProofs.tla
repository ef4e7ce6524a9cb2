---------------------------- MODULE OriginProofs ----------------------------
(***************************************************************************)
(* Theorems about Origin, for every number of requests, users, hostnames,  *)
(* signing keys and setups, and whatever administrators and users do.      *)
(***************************************************************************)
EXTENDS Origin, TLAPS

LEMMA RestingRequest == NoRequest \in RequestStates /\ NoRequest.at = "new"
<1>1. (CHOOSE h \in Hosts : TRUE) \in Hosts
  BY OriginAssumption
<1>2. [key |-> 1, aud |-> 1, sound |-> TRUE] \in Tokens
  BY OriginAssumption DEF Tokens, Keys, Auds
<1> QED
  <2> DEFINE some == CHOOSE h \in Hosts : TRUE
  <2>1. NoRequest = [at |-> "new", host |-> some, data |-> 0,
                     token |-> [key |-> 1, aud |-> 1, sound |-> TRUE], got |-> {}, as |-> {}]
    BY DEF NoRequest
  <2>2. some \in Hosts
    BY <1>1
  <2> HIDE DEF some
  <2> QED
    BY <1>2, <2>1, <2>2, OriginAssumption DEF RequestStates

\* Whatever the keys and the users are, a request is refused for one of four reasons or
\* accepted, and nothing but its outcome and its user changes.
LEMMA JudgedType ==
    ASSUME NEW q \in RequestStates, NEW keys, people \subseteq Users
    PROVE  /\ Judged(q, keys) \in RequestStates
           /\ Judged(q, keys).at \in {"unknown key", "unsound", "wrong gate",
                                      "no single user", "accepted"}
           /\ Judged(q, keys).token = q.token
BY DEF Judged, RequestStates, Outcomes

\* Which request is refused for its key, and which for its audience.
LEMMA JudgedAs ==
    ASSUME NEW q \in RequestStates, NEW keys
    PROVE  /\ Judged(q, keys).at = "unknown key" => q.token.key \notin keys
           /\ Judged(q, keys).at = "accepted" =>
                 q.token.aud = runtime[q.data].aud
           /\ Judged(q, keys).at = "wrong gate" => q.token.aud # runtime[q.data].aud
           /\ Judged(q, keys).data = q.data
BY DEF Judged, RequestStates

-----------------------------------------------------------------------------
(* Types.                                                                  *)

Flags ==
    /\ enabled \in BOOLEAN /\ frozen \in BOOLEAN /\ fits \in BOOLEAN
    /\ installed \in BOOLEAN /\ issue \in BOOLEAN /\ stranded \in BOOLEAN

Values ==
    /\ newest \in Keys /\ url \in Hosts /\ people \subseteq Users
    /\ setups \in 0 .. MaxSetups /\ loaded \in 0 .. setups /\ changes \in 0 .. MaxChanges
    /\ gate \in Gates /\ replaced \subseteq 1 .. setups /\ chain \in Nat
    /\ runtime \in [1 .. setups -> EntryDatas]
    /\ request \in [Requests -> RequestStates]

LEMMA InitType == Init => Values /\ Flags
<1> SUFFICES ASSUME Init PROVE Values /\ Flags
  OBVIOUS
<1>1. runtime \in [1 .. setups -> EntryDatas]
  BY DEF Init
<1>2. request \in [Requests -> RequestStates]
  BY RestingRequest DEF Init
<1>3. gate \in Gates
  BY OriginAssumption DEF Init, Auds, Gates
<1>4. people \subseteq Users
  BY DEF Init
<1>5. newest \in Keys /\ setups \in 0 .. MaxSetups /\ loaded \in 0 .. setups
      /\ changes \in 0 .. MaxChanges /\ chain \in Nat
  BY OriginAssumption DEF Init, Keys
<1>6. replaced \subseteq 1 .. setups /\ url \in Hosts
  BY DEF Init
<1>7. enabled \in BOOLEAN /\ frozen \in BOOLEAN /\ fits \in BOOLEAN
  BY DEF Init
<1>8. installed \in BOOLEAN /\ issue \in BOOLEAN /\ stranded \in BOOLEAN
  BY DEF Init
<1> QED
  BY <1>1, <1>2, <1>3, <1>4, <1>5, <1>6, <1>7, <1>8 DEF Values, Flags

LEMMA FlagsStep == Flags /\ [Next]_vars => Flags'
<1> SUFFICES ASSUME Flags, [Next]_vars PROVE Flags'
  OBVIOUS
<1> USE DEF Flags
<1>1. CASE SetUp
  BY <1>1 DEF SetUp, Install, settings
<1>2. CASE SetUpFails
  BY <1>2 DEF SetUpFails, Install, settings
<1>3. CASE Unload
  BY <1>3 DEF Unload, server
<1>4. CASE RefreshNext
  <2>1. UNCHANGED <<settings, server>> /\ stranded' \in BOOLEAN
    BY <1>4 DEF RefreshNext, RefreshStart, RefreshForNobody, RefreshReread, RefreshWrite,
          RefreshDone, RefreshFails, RefreshBreaks
  <2> QED
    BY <2>1 DEF settings, server
<1>5. CASE RequestNext
  BY <1>5 DEF RequestNext, Answer, NoAnswer, Decide, settings, entry, server
<1>6. CASE \E r \in Requests, h \in Hosts, t \in Tokens : Arrive(r, h, t)
  BY <1>6 DEF Arrive, settings, entry, server
<1>7. CASE Rotate \/ Dashboard \/ StartServer
  BY <1>7 DEF Rotate, Dashboard, StartServer, settings, entry, server
<1>8. CASE Restart
  BY <1>8 DEF Restart, settings
<1>9. CASE \/ \E s \in SUBSET Users : ChangePeople(s)
          \/ \E h \in Hosts : ChangeUrl(h)
  BY <1>9 DEF ChangePeople, ChangeUrl, entry, server
<1>10. CASE UNCHANGED vars
  BY <1>10 DEF vars
<1> QED
  BY <1>1, <1>2, <1>3, <1>4, <1>5, <1>6, <1>7, <1>8, <1>9, <1>10 DEF Next, EntryNext

\* What a pass leaves at Cloudflare is a gate.
LEMMA ProvisionedType ==
    ASSUME Values, NEW h \in Hosts, NEW on
    PROVE  Provisioned(h, on) \in Gates
BY OriginAssumption DEF Values, Provisioned, NewAud, Auds, Gates

LEMMA ReplacedType ==
    ASSUME Values, Replaced
    PROVE  replaced' \subseteq 1 .. setups
BY DEF Values, Replaced

LEMMA EntryType == Values /\ Flags /\ EntryNext => Values'
<1> SUFFICES ASSUME Values, Flags, EntryNext PROVE Values'
  OBVIOUS
<1> USE OriginAssumption DEF Change
<1>0. /\ setups \in 0 .. MaxSetups /\ loaded \in 0 .. setups /\ url \in Hosts /\ chain \in Nat
      /\ runtime \in [1 .. setups -> EntryDatas] /\ changes \in 0 .. MaxChanges
  BY DEF Values
<1>1. CASE SetUp
  <2>1. /\ setups' = setups + 1 /\ setups' \in 0 .. MaxSetups /\ loaded' = setups'
        /\ gate' = Provisioned(url, enabled) /\ Replaced
        /\ UNCHANGED <<newest, url, people, request, changes>> /\ chain' \in Nat
    BY <1>0, <1>1 DEF SetUp, Install, settings
  <2>2. gate' \in Gates /\ replaced' \subseteq 1 .. setups'
    <3>1. replaced' \subseteq 1 .. setups
      BY <2>1, ReplacedType
    <3>2. 1 .. setups \subseteq 1 .. setups'
      BY <1>0, <2>1
    <3> QED
      BY <1>0, <2>1, <3>1, <3>2, ProvisionedType
  <2>3. [host |-> url, aud |-> gate'.aud, keys |-> {}, at |-> "idle", back |-> url, on |-> enabled]
            \in EntryDatas
    <3>1. enabled \in BOOLEAN
      BY DEF Flags
    <3> QED
      BY <1>0, <2>2, <3>1 DEF EntryDatas, Gates, Stages
  <2>4. runtime' \in [1 .. setups' -> EntryDatas]
    BY <1>0, <1>1, <2>1, <2>3 DEF SetUp
  <2>5. loaded' \in 0 .. setups'
    BY <1>0, <2>1
  <2> QED
    BY <2>1, <2>2, <2>4, <2>5 DEF Values
<1>2. CASE SetUpFails
  <2>1. /\ gate' \in {gate, Provisioned(url, enabled)} /\ Replaced /\ chain' \in Nat
        /\ UNCHANGED <<newest, url, people, loaded, runtime, request, setups>>
        /\ changes' \in 0 .. MaxChanges
    BY <1>0, <1>2 DEF SetUpFails, Install, settings
  <2>2. gate' \in Gates /\ replaced' \subseteq 1 .. setups
    BY <1>0, <2>1, ProvisionedType, ReplacedType DEF Values
  <2> QED
    BY <2>1, <2>2 DEF Values
<1>3. CASE Unload
  BY <1>3 DEF Unload, server, Values
<1>4. ASSUME NEW g \in 1 .. setups,
             \/ RefreshStart(g) \/ RefreshForNobody(g) \/ RefreshReread(g) \/ RefreshWrite(g)
             \/ RefreshDone(g) \/ RefreshFails(g) \/ RefreshBreaks(g)
      PROVE  Values'
  <2>1. runtime[g] \in EntryDatas /\ runtime[g].host \in Hosts /\ runtime[g].back \in Hosts
    BY <1>0 DEF EntryDatas
  <2>2. /\ UNCHANGED <<newest, url, people, loaded, request, setups, chain>>
        /\ changes' \in 0 .. MaxChanges
    <3>1. UNCHANGED <<newest, url, people, loaded, request, setups, chain>>
          /\ (Change \/ changes' = changes)
      BY <1>4 DEF RefreshStart, RefreshForNobody, RefreshReread, RefreshWrite, RefreshDone,
            RefreshFails, RefreshBreaks, settings, server, bounds
    <3> QED
      BY <1>0, <3>1
  <2>3. runtime' \in [1 .. setups -> EntryDatas]
    <3>1. enabled \in BOOLEAN
      BY DEF Flags
    <3>2. \E d \in EntryDatas : runtime' = [runtime EXCEPT ![g] = d]
      <4>1. CASE RefreshStart(g)
        <5>1. [runtime[g] EXCEPT !.at = "began", !.host = url, !.back = runtime[g].host]
                  \in EntryDatas
          BY <1>0, <2>1 DEF EntryDatas, Stages
        <5> QED
          BY <4>1, <5>1 DEF RefreshStart
      <4>2. CASE RefreshForNobody(g)
        <5>1. [runtime[g] EXCEPT !.host = url] \in EntryDatas
          BY <1>0, <2>1 DEF EntryDatas
        <5> QED
          BY <4>2, <5>1 DEF RefreshForNobody
      <4>3. CASE RefreshReread(g)
        <5>1. [runtime[g] EXCEPT !.at = "reread", !.host = url, !.on = enabled] \in EntryDatas
          BY <1>0, <2>1, <3>1 DEF EntryDatas, Stages
        <5> QED
          BY <4>3, <5>1 DEF RefreshReread
      <4>4. CASE RefreshFails(g)
        <5>1. [runtime[g] EXCEPT !.at = "idle", !.host = FallBack(g)] \in EntryDatas
          BY <2>1 DEF EntryDatas, Stages, FallBack
        <5> QED
          BY <4>4, <5>1 DEF RefreshFails
      <4>5. CASE RefreshWrite(g) \/ RefreshDone(g) \/ RefreshBreaks(g)
        <5>1. \A a \in Stages : [runtime[g] EXCEPT !.at = a] \in EntryDatas
          BY <2>1 DEF EntryDatas
        <5>2. \E a \in Stages : runtime' = [runtime EXCEPT ![g].at = a]
          BY <4>5 DEF RefreshWrite, RefreshDone, RefreshBreaks, Stages
        <5> QED
          BY <5>1, <5>2
      <4> QED
        BY <1>4, <4>1, <4>2, <4>3, <4>4, <4>5
    <3> QED
      BY <1>0, <3>2
  <2>4. gate' \in Gates /\ replaced' \subseteq 1 .. setups
    <3>1. CASE RefreshWrite(g)
      BY <2>1, <3>1, ProvisionedType, ReplacedType DEF RefreshWrite
    <3>2. CASE ~RefreshWrite(g)
      BY <1>4, <3>2 DEF RefreshStart, RefreshForNobody, RefreshReread, RefreshDone, RefreshFails,
            RefreshBreaks, Values
    <3> QED
      BY <3>1, <3>2
  <2> QED
    BY <2>2, <2>3, <2>4 DEF Values
<1> QED
  BY <1>1, <1>2, <1>3, <1>4 DEF EntryNext, RefreshNext

\* The request a step decides, and how: by what the cache holds when it stops waiting.
LEMMA ArriveType ==
    ASSUME Values, NEW r \in Requests, NEW h \in Hosts, NEW t \in Tokens
    PROVE  [NoRequest EXCEPT !.host = h, !.token = t, !.data = loaded] \in RequestStates
<1>1. loaded \in 0 .. MaxSetups
  BY OriginAssumption DEF Values
<1> QED
  BY <1>1, RestingRequest DEF RequestStates

LEMMA RequestType ==
    ASSUME Values, NEW r \in Requests,
           \/ Answer(r) \/ NoAnswer(r) \/ Decide(r)
           \/ \E h \in Hosts, t \in Tokens : Arrive(r, h, t)
    PROVE  Values'
<1> USE OriginAssumption DEF Values, Change
<1>1. CASE Answer(r)
  <2>1. Published \subseteq Keys
    BY DEF Published
  <2>2. [request[r] EXCEPT !.at = "answered", !.got = Published] \in RequestStates
    BY <2>1 DEF RequestStates
  <2>3. request' \in [Requests -> RequestStates]
    BY <1>1, <2>2 DEF Answer
  <2>4. UNCHANGED <<newest, url, people, entry, chain, bounds>>
    BY <1>1 DEF Answer, settings, server
  <2> QED
    BY <2>3, <2>4 DEF entry, bounds
<1>2. CASE NoAnswer(r)
  <2>1. request' \in [Requests -> RequestStates]
    BY <1>2 DEF NoAnswer, RequestStates, Outcomes
  <2>2. changes' \in 0 .. MaxChanges
    <3>1. changes < MaxChanges /\ changes' = changes + 1
      BY <1>2 DEF NoAnswer
    <3> QED
      BY <3>1
  <2>3. UNCHANGED <<newest, url, people, entry, chain, setups>>
    BY <1>2 DEF NoAnswer, settings, server
  <2> QED
    BY <2>1, <2>2, <2>3 DEF entry
<1>3. CASE Decide(r)
  <2>1. request[r] \in RequestStates
    OBVIOUS
  <2>2. Judged(request[r], request[r].got) \in RequestStates
    BY <2>1, JudgedType
  <2>3. request' \in [Requests -> RequestStates]
    BY <1>3, <2>2 DEF Decide, Kept
  <2>4. runtime' \in [1 .. setups -> EntryDatas]
    BY <1>3, <2>1 DEF Decide, Kept, EntryDatas, RequestStates
  <2> QED
    BY <1>3, <2>3, <2>4 DEF Decide, settings, server, bounds
<1>4. ASSUME NEW h \in Hosts, NEW t \in Tokens, Arrive(r, h, t) PROVE Values'
  <2> DEFINE q == [NoRequest EXCEPT !.host = h, !.token = t, !.data = loaded]
  <2>1. q \in RequestStates
    BY ArriveType
  <2>2. /\ [q EXCEPT !.at = "passed on"] \in RequestStates
        /\ [q EXCEPT !.at = "asks"] \in RequestStates
        /\ Judged(q, runtime[loaded].keys) \in RequestStates
    <3> HIDE DEF q
    <3> QED
      BY <2>1, JudgedType DEF RequestStates, Outcomes
  <2>3. request' \in [Requests -> RequestStates]
    <3> HIDE DEF q
    <3>1. \E x \in RequestStates : request' = [request EXCEPT ![r] = x]
      BY <1>4, <2>2 DEF Arrive, q
    <3> QED
      BY <3>1
  <2> QED
    BY <1>4, <2>3 DEF Arrive, settings, entry, server, bounds
<1> QED
  BY <1>1, <1>2, <1>3, <1>4

LEMMA WorldType ==
    ASSUME Values,
           \/ Rotate \/ Dashboard \/ StartServer \/ Restart
           \/ \E s \in SUBSET Users : ChangePeople(s)
           \/ \E h \in Hosts : ChangeUrl(h)
    PROVE  Values'
<1> USE OriginAssumption DEF Values, Change
<1>1. CASE Rotate
  BY <1>1 DEF Rotate, Keys, entry, server, bounds
<1>2. CASE Dashboard
  <2>1. gate' \in Gates
    BY <1>2 DEF Dashboard, Gates, Auds
  <2>2. replaced' \subseteq 1 .. setups
    BY <1>2, ReplacedType DEF Dashboard
  <2> QED
    BY <1>2, <2>1, <2>2 DEF Dashboard, settings, server
<1>3. CASE StartServer
  BY <1>3 DEF StartServer, settings, entry, bounds
<1>4. CASE Restart
  <2>1. runtime' \in [1 .. setups -> EntryDatas]
    BY <1>4 DEF Restart, EntryDatas, Stages
  <2> QED
    BY <1>4, <2>1, RestingRequest DEF Restart, settings
<1>5. CASE \E s \in SUBSET Users : ChangePeople(s)
  BY <1>5 DEF ChangePeople, entry, server
<1>6. CASE \E h \in Hosts : ChangeUrl(h)
  BY <1>6 DEF ChangeUrl, entry, server
<1> QED
  BY <1>1, <1>2, <1>3, <1>4, <1>5, <1>6

LEMMA TypesAlways == Spec => [](Values /\ Flags)
<1>1. Values /\ Flags /\ [Next]_vars => Values'
  <2> SUFFICES ASSUME Values, Flags, [Next]_vars PROVE Values'
    OBVIOUS
  <2>1. CASE UNCHANGED vars
    BY <2>1 DEF Values, vars
  <2> QED
    BY <2>1, EntryType, RequestType, WorldType DEF Next, RequestNext
<1> QED
  BY <1>1, InitType, FlagsStep, PTL DEF Spec

\* Types hold, through reloads and the refreshes that outlive them.
THEOREM TypeCorrect == Spec => []TypeOK
<1>1. Values /\ Flags => TypeOK
  BY DEF Values, Flags, TypeOK
<1> QED
  BY <1>1, TypesAlways, PTL

-----------------------------------------------------------------------------
(* The middleware.                                                         *)

\* Installing it again changes nothing, whatever was installed before.
LEMMA InstallKeeps == InstalledOnce /\ Install =>
                        /\ chain' = (IF installed' THEN 1 ELSE 0)
                        /\ issue' => ~installed'
                        /\ installed' \/ issue' \/ loaded = 0
<1> SUFFICES ASSUME InstalledOnce, Install
             PROVE  /\ chain' = (IF installed' THEN 1 ELSE 0)
                    /\ issue' => ~installed'
                    /\ installed' \/ issue' \/ loaded = 0
  OBVIOUS
<1>1. CASE installed
  BY <1>1 DEF InstalledOnce, Install, AlreadyIn
<1>2. CASE ~installed
  <2>1. chain = 0
    BY <1>2 DEF InstalledOnce
  <2>2. CASE frozen /\ ~fits
    BY <1>2, <2>1, <2>2 DEF Install, AlreadyIn
  <2>3. CASE ~(frozen /\ ~fits)
    <3>1. chain' = chain + 1 /\ installed' /\ ~issue'
      BY <1>2, <2>3 DEF Install, AlreadyIn
    <3> QED
      BY <2>1, <3>1
  <2> QED
    BY <2>2, <2>3
<1> QED
  BY <1>1, <1>2

LEMMA InstalledAfterSetUp == InstalledOnce /\ Install => installed' \/ issue'
BY DEF InstalledOnce, Install, AlreadyIn

\* The requests run in a chain that has the middleware once, or an issue says it has none.
THEOREM MiddlewareOnce == Spec => []InstalledOnce
<1>1. Init => InstalledOnce
  BY DEF Init, InstalledOnce
<1>2. InstalledOnce /\ [Next]_vars => InstalledOnce'
  <2> SUFFICES ASSUME InstalledOnce, [Next]_vars PROVE InstalledOnce'
    OBVIOUS
  <2>1. CASE SetUp
    BY <2>1, InstallKeeps, InstalledAfterSetUp DEF SetUp, InstalledOnce
  <2>2. CASE SetUpFails
    BY <2>2, InstallKeeps DEF SetUpFails, InstalledOnce
  <2>3. CASE Restart
    BY <2>3 DEF Restart, InstalledOnce
  <2>4. CASE UNCHANGED server /\ (loaded' = loaded \/ loaded' = 0)
    BY <2>4 DEF InstalledOnce, server
  <2>5. CASE StartServer
    BY <2>5 DEF StartServer, InstalledOnce, entry
  <2>6. CASE Unload \/ RefreshNext
    <3>1. UNCHANGED server /\ (loaded' = loaded \/ loaded' = 0)
      BY <2>6 DEF Unload, RefreshNext, RefreshStart, RefreshForNobody, RefreshReread,
            RefreshWrite, RefreshDone, RefreshFails, RefreshBreaks
    <3> QED
      BY <2>4, <3>1
  <2>7. CASE RequestNext
    BY <2>4, <2>7 DEF RequestNext, Answer, NoAnswer, Decide, entry
  <2>8. CASE \E r \in Requests, h \in Hosts, t \in Tokens : Arrive(r, h, t)
    BY <2>4, <2>8 DEF Arrive, entry
  <2>9. CASE \/ Rotate \/ Dashboard
             \/ \E s \in SUBSET Users : ChangePeople(s)
             \/ \E h \in Hosts : ChangeUrl(h)
    BY <2>4, <2>9 DEF Rotate, Dashboard, ChangePeople, ChangeUrl, entry
  <2>10. CASE UNCHANGED vars
    BY <2>4, <2>10 DEF vars, server
  <2> QED
    BY <2>1, <2>2, <2>3, <2>5, <2>6, <2>7, <2>8, <2>9, <2>10 DEF Next, EntryNext
<1> QED
  BY <1>1, <1>2, PTL DEF Spec

-----------------------------------------------------------------------------
(* Requests.                                                               *)

\* Only its arrival and the answer it waited for settle a request.
LEMMA WhatDecides ==
    ASSUME Values, [Next]_vars, NEW r \in Requests,
           NEW o \in {"passed on", "accepted", "unknown key", "wrong gate"}, Decided(r, o)
    PROVE  Decide(r) \/ \E h \in Hosts, t \in Tokens : Arrive(r, h, t)
<1> SUFFICES ASSUME ~Decide(r), ~(\E h \in Hosts, t \in Tokens : Arrive(r, h, t))
             PROVE  FALSE
  OBVIOUS
<1>1. request'[r].at # request[r].at /\ request'[r].at = o
  BY DEF Decided
<1>2. request' # request
  BY <1>1
<1>3. request \in [Requests -> RequestStates]
  BY DEF Values
<1>4. ~(UNCHANGED vars) /\ ~EntryNext /\ ~Rotate /\ ~Dashboard /\ ~StartServer
      /\ ~(\E s \in SUBSET Users : ChangePeople(s)) /\ ~(\E h \in Hosts : ChangeUrl(h))
  BY <1>2 DEF vars, EntryNext, SetUp, SetUpFails, Unload, RefreshNext, RefreshStart,
              RefreshForNobody, RefreshReread, RefreshWrite, RefreshDone, RefreshFails,
              RefreshBreaks, Rotate, Dashboard, StartServer, ChangePeople,
              ChangeUrl
<1>5. CASE Restart
  <2>1. request'[r] = request[r] \/ request'[r] = NoRequest
    BY <1>5 DEF Restart
  <2> QED
    BY <1>1, <2>1, RestingRequest
<1>6. ASSUME NEW s \in Requests, Answer(s) \/ NoAnswer(s) PROVE FALSE
  <2>1. CASE s = r
    BY <1>1, <1>3, <1>6, <2>1 DEF Answer, NoAnswer, RequestStates
  <2>2. CASE s # r
    BY <1>1, <1>3, <1>6, <2>2 DEF Answer, NoAnswer
  <2> QED
    BY <2>1, <2>2
<1>7. ASSUME NEW s \in Requests,
             Decide(s) \/ \E h \in Hosts, t \in Tokens : Arrive(s, h, t)
      PROVE  FALSE
  <2>1. s # r
    BY <1>7
  <2>2. \E x : request' = [request EXCEPT ![s] = x]
    BY <1>7 DEF Decide, Arrive
  <2> QED
    BY <1>1, <1>3, <2>1, <2>2
<1> QED
  BY <1>4, <1>5, <1>6, <1>7 DEF Next, RequestNext

\* A request that arrives and waits for nothing was judged by what the cache held.
LEMMA DecidedOnArrival ==
    ASSUME Values, NEW r \in Requests, NEW h \in Hosts, NEW t \in Tokens, Arrive(r, h, t)
    PROVE  \/ /\ request'[r].at = "passed on" /\ request'[r].host = h
              /\ chain = 0 \/ ~Serves(h)
           \/ /\ request'[r].at = "asks" /\ request'[r].token = t
              /\ t.key <= newest
              /\ request'[r].data = loaded /\ loaded # 0 /\ runtime[loaded].aud # 0
           \/ /\ t.key \in runtime[loaded].keys
              /\ \E q \in RequestStates :
                    /\ q.token = t /\ q.data = loaded /\ loaded # 0 /\ runtime[loaded].aud # 0
                    /\ request'[r] = Judged(q, runtime[loaded].keys)
<1> DEFINE q == [NoRequest EXCEPT !.host = h, !.token = t, !.data = loaded]
<1>1. q \in RequestStates /\ q.token = t /\ q.host = h /\ q.data = loaded
  BY ArriveType, RestingRequest DEF RequestStates
<1>2. request \in [Requests -> RequestStates]
  BY DEF Values
<1>3. /\ t.key <= newest
      /\ request'[r] = IF chain = 0 \/ ~Serves(h) THEN [q EXCEPT !.at = "passed on"]
                      ELSE IF Fetches(loaded, t.key) THEN [q EXCEPT !.at = "asks"]
                      ELSE Judged(q, runtime[loaded].keys)
  BY <1>2 DEF Arrive
<1>4. Serves(h) => loaded # 0 /\ runtime[loaded].aud # 0
  BY DEF Serves
<1> HIDE DEF q
<1> QED
  BY <1>1, <1>3, <1>4 DEF RequestStates, Fetches

\* One that waited is judged by the answer.
LEMMA DecidedByAnswer ==
    ASSUME Values, NEW r \in Requests, Decide(r)
    PROVE  /\ request[r].at = "answered"
           /\ request'[r] = Judged(request[r], request[r].got)
BY DEF Values, Decide, Kept

\* Whom a step accepts or refuses for the audience, and by which EntryData.
LEMMA WhoJudges ==
    ASSUME Values, [Next]_vars, NEW r \in Requests,
           NEW o \in {"accepted", "wrong gate"}, Decided(r, o)
    PROVE  /\ request'[r].at = "accepted" => request'[r].token.aud = runtime[request'[r].data].aud
           /\ request'[r].at = "wrong gate" => request'[r].token.aud # runtime[request'[r].data].aud
           /\ \/ request[r].at = "answered" /\ request'[r].data = request[r].data
              \/ request'[r].data = loaded /\ loaded # 0 /\ runtime[loaded].aud # 0
<1>1. request'[r].at = o /\ people \subseteq Users
  BY DEF Decided, Values
<1>2. CASE Decide(r)
  <2>1. request[r] \in RequestStates
    BY DEF Values
  <2>2. /\ request[r].at = "answered"
        /\ request'[r] = Judged(request[r], request[r].got)
    BY <1>2, DecidedByAnswer
  <2> DEFINE keys == request[r].got
  <2>3. Judged(request[r], keys).token = request[r].token
    BY <1>1, <2>1, JudgedType
  <2>4. /\ Judged(request[r], keys).at = "accepted" =>
              request[r].token.aud = runtime[request[r].data].aud
        /\ Judged(request[r], keys).at = "wrong gate" =>
              request[r].token.aud # runtime[request[r].data].aud
        /\ Judged(request[r], keys).data = request[r].data
    BY <2>1, JudgedAs
  <2> DEFINE j == Judged(request[r], keys)
  <2>5. request'[r] = j /\ j.token = request[r].token /\ j.data = request[r].data
    BY <2>2, <2>3, <2>4
  <2>6. /\ j.at = "accepted" => j.token.aud = runtime[j.data].aud
        /\ j.at = "wrong gate" => j.token.aud # runtime[j.data].aud
    BY <2>4, <2>5
  <2> HIDE DEF j
  <2> QED
    BY <2>2, <2>5, <2>6
<1>3. ASSUME NEW h \in Hosts, NEW t \in Tokens, Arrive(r, h, t)
      PROVE  \E q \in RequestStates :
                /\ q.data = loaded /\ loaded # 0 /\ runtime[loaded].aud # 0
                /\ request'[r] = Judged(q, runtime[loaded].keys)
  BY <1>1, <1>3, DecidedOnArrival
<1>4. ASSUME NEW q \in RequestStates,
             q.data = loaded, loaded # 0, runtime[loaded].aud # 0,
             request'[r] = Judged(q, runtime[loaded].keys)
      PROVE  /\ request'[r].at = "accepted" =>
                    request'[r].token.aud = runtime[request'[r].data].aud
             /\ request'[r].at = "wrong gate" =>
                    request'[r].token.aud # runtime[request'[r].data].aud
             /\ request'[r].data = loaded
  <2> DEFINE keys == runtime[loaded].keys
  <2>1. Judged(q, keys).token = q.token
    BY <1>1, JudgedType
  <2>2. /\ Judged(q, keys).at = "accepted" => q.token.aud = runtime[q.data].aud
        /\ Judged(q, keys).at = "wrong gate" => q.token.aud # runtime[q.data].aud
        /\ Judged(q, keys).data = q.data
    BY JudgedAs
  <2> DEFINE j == Judged(q, keys)
  <2>3. request'[r] = j /\ j.token = q.token /\ j.data = loaded
    BY <1>4, <2>1, <2>2
  <2>4. /\ j.at = "accepted" => j.token.aud = runtime[j.data].aud
        /\ j.at = "wrong gate" => j.token.aud # runtime[j.data].aud
    BY <1>4, <2>2, <2>3
  <2> HIDE DEF j
  <2> QED
    BY <2>3, <2>4
<1> QED
  BY <1>2, <1>3, <1>4, WhatDecides

\* The EntryDatas whose gate was never deleted know the one there is, and the requests that
\* wait belong to an EntryData that knew its gate.
OneGate ==
    /\ \A g \in (1 .. setups) \ replaced : runtime[g].aud # 0 => runtime[g].aud = gate.aud
    /\ \A r \in Requests : request[r].at \in {"asks", "answered"} =>
          request[r].data \in 1 .. setups /\ runtime[request[r].data].aud # 0

\* Deleting the gate is what replaces it: otherwise its audience stays, or there was none.
LEMMA GateKeeps ==
    ASSUME Values, OneGate, Replaced, NEW h \in Hosts, NEW on,
           gate' = Provisioned(h, on) \/ gate' = gate
    PROVE  \A g \in (1 .. setups) \ replaced' : runtime[g].aud # 0 => runtime[g].aud = gate'.aud
<1> SUFFICES ASSUME NEW g \in 1 .. setups, g \notin replaced', runtime[g].aud # 0
             PROVE  runtime[g].aud = gate'.aud
  OBVIOUS
<1>1. ~Deleted /\ replaced' = replaced
  BY DEF Replaced
<1>2. runtime[g].aud = gate.aud
  BY <1>1 DEF OneGate
<1>3. gate \in Gates
  BY DEF Values
<1> QED
  BY <1>1, <1>2, <1>3 DEF Deleted, Provisioned, Gates

LEMMA OneGateStep == Values /\ OneGate /\ [Next]_vars => OneGate'
<1> SUFFICES ASSUME Values, OneGate, [Next]_vars PROVE OneGate'
  OBVIOUS
<1>0. /\ loaded \in 0 .. setups /\ setups \in Nat /\ runtime \in [1 .. setups -> EntryDatas]
      /\ gate \in Gates /\ url \in Hosts /\ request \in [Requests -> RequestStates]
  BY OriginAssumption DEF Values
<1>1. ASSUME UNCHANGED setups,
             \A g \in 1 .. setups : runtime'[g].aud = runtime[g].aud,
             \/ UNCHANGED <<gate, replaced>>
             \/ /\ Replaced
                /\ \E h \in Hosts : \E on \in {TRUE, FALSE} :
                      gate' = Provisioned(h, on) \/ gate' = gate,
             \A r \in Requests : request'[r].at \in {"asks", "answered"} =>
                /\ request'[r].data \in 1 .. setups
                /\ runtime[request'[r].data].aud # 0
      PROVE  OneGate'
  <2>1. \A g \in (1 .. setups) \ replaced' : runtime[g].aud # 0 => runtime[g].aud = gate'.aud
    BY <1>1, GateKeeps DEF OneGate
  <2> QED
    BY <1>1, <2>1 DEF OneGate
<1>2. UNCHANGED request =>
        \A r \in Requests : request'[r].at \in {"asks", "answered"} =>
                /\ request'[r].data \in 1 .. setups
                /\ runtime[request'[r].data].aud # 0
  BY DEF OneGate
<1>3. CASE SetUp
  <2>1. /\ setups' = setups + 1 /\ UNCHANGED request
        /\ \E on \in {TRUE, FALSE} : gate' = Provisioned(url, on) /\ Replaced
        /\ \A g \in 1 .. setups' :
              runtime'[g].aud = IF g = setups' THEN gate'.aud ELSE runtime[g].aud
    <3>1. enabled = TRUE \/ Provisioned(url, enabled) = Provisioned(url, FALSE)
      BY DEF Provisioned
    <3> QED
      BY <1>0, <1>3, <3>1 DEF SetUp
  <2>2. \A g \in (1 .. setups) \ replaced' : runtime[g].aud # 0 => runtime[g].aud = gate'.aud
    BY <1>0, <2>1, GateKeeps
  <2>3. 1 .. setups' = (1 .. setups) \cup {setups'} /\ setups' \notin 1 .. setups
    BY <1>0, <2>1
  <2>4. \A r \in Requests : request'[r].at \in {"asks", "answered"} =>
          request'[r].data \in 1 .. setups' /\ runtime'[request'[r].data].aud # 0
    BY <1>2, <2>1, <2>3
  <2>5. \A g \in (1 .. setups') \ replaced' : runtime'[g].aud # 0 => runtime'[g].aud = gate'.aud
    BY <2>1, <2>2, <2>3
  <2> QED
    BY <2>4, <2>5 DEF OneGate
<1>4. CASE SetUpFails
  <2>1. /\ UNCHANGED <<setups, runtime, request>> /\ Replaced
        /\ gate' = gate \/ gate' = Provisioned(url, enabled)
    BY <1>4 DEF SetUpFails
  <2>2. \E on \in {TRUE, FALSE} : gate' = Provisioned(url, on) \/ gate' = gate
    BY <2>1 DEF Provisioned
  <2> QED
    BY <1>0, <1>1, <1>2, <2>1, <2>2
<1>5. CASE Unload \/ Rotate \/ StartServer \/ UNCHANGED vars
           \/ (\E s \in SUBSET Users : ChangePeople(s)) \/ (\E h \in Hosts : ChangeUrl(h))
  <2>1. UNCHANGED <<setups, runtime, request, gate, replaced>>
    BY <1>5 DEF Unload, Rotate, StartServer, ChangePeople, ChangeUrl, entry, bounds, vars
  <2> QED
    BY <1>1, <1>2, <2>1
<1>6. CASE Dashboard
  <2>1. UNCHANGED <<setups, runtime, request>> /\ Deleted /\ Replaced /\ gate'.aud = 0
    BY <1>0, <1>6 DEF Dashboard, Deleted, Gates
  <2>2. replaced' = 1 .. setups
    BY <2>1 DEF Replaced
  <2> QED
    BY <1>2, <2>1, <2>2 DEF OneGate
<1>7. CASE Restart
  <2>1. /\ UNCHANGED <<setups, gate, replaced>>
        /\ \A g \in 1 .. setups : runtime'[g].aud = runtime[g].aud
        /\ \A r \in Requests : request'[r].at \notin {"asks", "answered"}
    BY <1>0, <1>7, RestingRequest DEF Restart, EntryDatas, Outcomes
  <2> QED
    BY <1>1, <2>1
<1>8. ASSUME NEW g \in 1 .. setups,
             \/ RefreshStart(g) \/ RefreshForNobody(g) \/ RefreshReread(g) \/ RefreshWrite(g)
             \/ RefreshDone(g) \/ RefreshFails(g) \/ RefreshBreaks(g)
      PROVE  OneGate'
  <2>1. runtime[g] \in EntryDatas /\ runtime[g].host \in Hosts /\ runtime[g].on \in BOOLEAN
    BY <1>0 DEF EntryDatas
  <2>2. UNCHANGED <<setups, request>>
    BY <1>8 DEF RefreshStart, RefreshForNobody, RefreshReread, RefreshWrite,
          RefreshDone, RefreshFails, RefreshBreaks, bounds
  <2>3. \A k \in 1 .. setups : runtime'[k].aud = runtime[k].aud
    <3>1. CASE RefreshStart(g)
      <4>1. runtime' = [runtime EXCEPT ![g] =
                          [@ EXCEPT !.at = "began", !.host = url, !.back = runtime[g].host]]
        BY Zenon, <3>1 DEF RefreshStart
      <4> QED
        BY <1>0, <2>1, <4>1 DEF EntryDatas
    <3>2. CASE RefreshForNobody(g)
      <4>1. runtime' = [runtime EXCEPT ![g].host = url]
        BY Zenon, <3>2 DEF RefreshForNobody
      <4> QED
        BY <1>0, <2>1, <4>1 DEF EntryDatas
    <3>3. CASE RefreshReread(g)
      <4>1. runtime' = [runtime EXCEPT ![g] =
                          [@ EXCEPT !.at = "reread", !.host = url, !.on = enabled]]
        BY Zenon, <3>3 DEF RefreshReread
      <4> QED
        BY <1>0, <2>1, <4>1 DEF EntryDatas
    <3>4. CASE RefreshFails(g)
      <4>1. runtime' = [runtime EXCEPT ![g] = [@ EXCEPT !.at = "idle", !.host = FallBack(g)]]
        BY Zenon, <3>4 DEF RefreshFails
      <4> QED
        BY <1>0, <2>1, <4>1 DEF EntryDatas
    <3>5. CASE RefreshWrite(g) \/ RefreshDone(g) \/ RefreshBreaks(g)
      <4>1. \E a \in Stages : runtime' = [runtime EXCEPT ![g].at = a]
        BY <3>5 DEF RefreshWrite, RefreshDone, RefreshBreaks, Stages
      <4> QED
        BY <1>0, <2>1, <4>1 DEF EntryDatas
    <3> QED
      BY <1>8, <3>1, <3>2, <3>3, <3>4, <3>5
  <2>4. CASE RefreshWrite(g)
    <3>1. Replaced /\ gate' = Provisioned(runtime[g].host, runtime[g].on)
      BY <2>4 DEF RefreshWrite
    <3> QED
      BY <1>1, <1>2, <2>1, <2>2, <2>3, <3>1
  <2>5. CASE ~RefreshWrite(g)
    <3>1. UNCHANGED <<gate, replaced>>
      BY <1>8, <2>5 DEF RefreshStart, RefreshForNobody, RefreshReread,
          RefreshDone, RefreshFails, RefreshBreaks
    <3> QED
      BY <1>1, <1>2, <2>2, <2>3, <3>1
  <2> QED
    BY <2>4, <2>5
<1>9. ASSUME NEW s \in Requests,
             \/ Answer(s) \/ NoAnswer(s) \/ Decide(s)
             \/ \E h \in Hosts, t \in Tokens : Arrive(s, h, t)
      PROVE  OneGate'
  <2>1. /\ UNCHANGED <<setups, gate, replaced>>
        /\ \A r \in Requests : r # s => request'[r] = request[r]
    BY <1>0, <1>9 DEF Answer, NoAnswer, Decide, Arrive, entry, bounds
  <2>2. \A g \in 1 .. setups : runtime'[g].aud = runtime[g].aud
    <3>1. CASE Decide(s)
      BY <1>0, <3>1 DEF Decide, EntryDatas
    <3>2. CASE ~Decide(s)
      BY <1>9, <3>2 DEF Answer, NoAnswer, Arrive, entry
    <3> QED
      BY <3>1, <3>2
  <2>3. request'[s].at \in {"asks", "answered"} =>
          request'[s].data \in 1 .. setups /\ runtime[request'[s].data].aud # 0
    <3>1. CASE Answer(s) \/ NoAnswer(s)
      <4>1. /\ request[s].at \in {"asks", "answered"}
            /\ request'[s].data = request[s].data
        BY <1>0, <3>1 DEF Answer, NoAnswer, RequestStates
      <4> QED
        BY <4>1 DEF OneGate
    <3>2. CASE Decide(s)
      <4>1. request[s] \in RequestStates /\ people \subseteq Users
        BY <1>0 DEF Values
      <4> QED
        BY <3>2, <4>1, DecidedByAnswer, JudgedType
    <3>3. ASSUME NEW h \in Hosts, NEW t \in Tokens, Arrive(s, h, t)
          PROVE  request'[s].at \in {"asks", "answered"} =>
                    request'[s].data \in 1 .. setups /\ runtime[request'[s].data].aud # 0
      <4>1. people \subseteq Users
        BY DEF Values
      <4>2. (\E q \in RequestStates : request'[s] = Judged(q, runtime[loaded].keys))
              => request'[s].at \notin {"asks", "answered"}
        BY <4>1, JudgedType
      <4>3. request'[s].at \in {"asks", "answered"} =>
               request'[s].data = loaded /\ loaded # 0 /\ runtime[loaded].aud # 0
        <5>1. CASE \E q \in RequestStates : request'[s] = Judged(q, runtime[loaded].keys)
          BY <4>2, <5>1
        <5>2. CASE ~ \E q \in RequestStates : request'[s] = Judged(q, runtime[loaded].keys)
          BY <3>3, <5>2, DecidedOnArrival
        <5> QED
          BY <5>1, <5>2
      <4> QED
        BY <1>0, <4>3
    <3> QED
      BY <1>9, <3>1, <3>2, <3>3
  <2>4. \A r \in Requests : request'[r].at \in {"asks", "answered"} =>
          request'[r].data \in 1 .. setups /\ runtime[request'[r].data].aud # 0
    BY <2>1, <2>3 DEF OneGate
  <2> QED
    BY <1>1, <2>1, <2>2, <2>4
<1> QED
  BY <1>3, <1>4, <1>5, <1>6, <1>7, <1>8, <1>9 DEF Next, EntryNext, RefreshNext, RequestNext

\* Unless the gate was deleted since, a token is judged by the gate there is: reloads,
\* refreshes, failed setups and the wait for the keys leave the entry with its audience.
THEOREM JudgedByTheGate == Spec => JudgedByItsGate
<1>1. Init => OneGate
  BY RestingRequest DEF Init, OneGate
<1>2. ASSUME Values, OneGate, [Next]_vars, NEW r \in Requests,
             Decided(r, "accepted") \/ Decided(r, "wrong gate"),
             request'[r].data \notin replaced
      PROVE  request'[r].at = "accepted" <=> request'[r].token.aud = gate.aud
  <2> DEFINE g == request'[r].data
  <2>1. /\ request'[r].at = "accepted" => request'[r].token.aud = runtime[g].aud
        /\ request'[r].at = "wrong gate" => request'[r].token.aud # runtime[g].aud
        /\ \/ request[r].at = "answered" /\ g = request[r].data
           \/ g = loaded /\ loaded # 0 /\ runtime[loaded].aud # 0
    BY <1>2, WhoJudges
  <2>2. g \in 1 .. setups /\ runtime[g].aud # 0
    <3>0. setups \in 0 .. MaxSetups /\ loaded \in 0 .. setups
      BY <1>2 DEF Values
    <3>1. loaded \in 0 .. setups /\ setups \in Nat
      BY <3>0, OriginAssumption
    <3>2. CASE request[r].at = "answered" /\ g = request[r].data
      BY <1>2, <3>2 DEF OneGate
    <3>3. CASE g = loaded /\ loaded # 0 /\ runtime[loaded].aud # 0
      BY <3>1, <3>3
    <3> QED
      BY <2>1, <3>2, <3>3
  <2>3. runtime[g].aud = gate.aud
    BY <1>2, <2>2 DEF OneGate
  <2>4. request'[r].at = "accepted" \/ request'[r].at = "wrong gate"
    BY <1>2 DEF Decided
  <2> QED
    BY <2>1, <2>3, <2>4
<1>3. Values /\ OneGate /\ [Next]_vars =>
        [\A r \in Requests :
            (Decided(r, "accepted") \/ Decided(r, "wrong gate"))
               /\ request'[r].data \notin replaced
               => (request'[r].at = "accepted" <=> request'[r].token.aud = gate.aud)]_vars
  BY <1>2
<1> QED
  BY <1>1, <1>3, OneGateStep, TypesAlways, PTL DEF Spec, JudgedByItsGate

\* A request that waits came with a key in use, and an answer that lacks the key was given
\* after two rotations.
KeyInUse(q) ==
    /\ q.at \in {"asks", "answered"} => q.token.key <= newest
    /\ q.at = "answered" /\ q.token.key \notin q.got => q.token.key < newest - 1

KeysInUse == \A r \in Requests : KeyInUse(request[r])

LEMMA KeysStep == Values /\ KeysInUse /\ [Next]_vars => KeysInUse'
<1> SUFFICES ASSUME Values, KeysInUse, [Next]_vars, NEW r \in Requests
             PROVE  KeyInUse(request[r])'
  BY DEF KeysInUse
<1>1. KeyInUse(request[r]) /\ request[r] \in RequestStates
      /\ request \in [Requests -> RequestStates] /\ newest \in Nat
  BY DEF KeysInUse, Values, Keys
<1>2. CASE request'[r] = request[r] /\ newest' = newest
  BY <1>1, <1>2 DEF KeyInUse
<1>3. CASE \/ EntryNext \/ Dashboard \/ StartServer \/ UNCHANGED vars
           \/ \E s \in SUBSET Users : ChangePeople(s)
           \/ \E h \in Hosts : ChangeUrl(h)
  BY <1>2, <1>3 DEF EntryNext, SetUp, SetUpFails, Unload, RefreshNext, RefreshStart,
              RefreshForNobody, RefreshReread, RefreshWrite, RefreshDone, RefreshFails,
              RefreshBreaks, Dashboard, StartServer, ChangePeople, ChangeUrl, settings,
        vars
<1>4. CASE Rotate
  <2>1. request' = request /\ newest' = newest + 1
    BY <1>4 DEF Rotate
  <2>2. request[r].token.key \in Nat
    BY <1>1 DEF RequestStates, Tokens, Keys
  <2> QED
    BY <1>1, <2>1, <2>2 DEF KeyInUse
<1>5. CASE Restart
  <2>1. newest' = newest /\ (request'[r] = request[r] \/ request'[r] = NoRequest)
    BY <1>5 DEF Restart, settings
  <2> QED
    BY <1>2, <2>1, RestingRequest DEF KeyInUse
<1>6. ASSUME NEW s \in Requests, s # r,
             \/ Answer(s) \/ NoAnswer(s) \/ Decide(s)
             \/ \E h \in Hosts, t \in Tokens : Arrive(s, h, t)
      PROVE  KeyInUse(request[r])'
  BY <1>1, <1>2, <1>6 DEF Answer, NoAnswer, Decide, Arrive, settings
<1>7. CASE Answer(r)
  <2>1. /\ request[r].at = "asks" /\ newest' = newest
        /\ request'[r] = [request[r] EXCEPT !.at = "answered", !.got = Published]
    BY <1>1, <1>7 DEF Answer, settings
  <2>2. /\ request'[r].token = request[r].token /\ request'[r].got = Published
        /\ request'[r].at = "answered"
    BY <1>1, <2>1 DEF RequestStates
  <2>3. request[r].token.key \in Keys /\ request[r].token.key <= newest
    BY <1>1, <2>1 DEF RequestStates, Tokens, KeyInUse
  <2>4. request[r].token.key \notin Published => request[r].token.key < newest - 1
    BY <1>1, <2>3 DEF Published, Keys
  <2> QED
    BY <2>1, <2>2, <2>3, <2>4 DEF KeyInUse
<1>8. CASE NoAnswer(r)
  BY <1>1, <1>8 DEF NoAnswer, RequestStates, KeyInUse
<1>9. CASE Decide(r)
  BY <1>1, <1>9, DecidedByAnswer, JudgedType DEF KeyInUse, Values
<1>10. ASSUME NEW h \in Hosts, NEW t \in Tokens, Arrive(r, h, t)
       PROVE  KeyInUse(request[r])'
  <2>1. newest' = newest
    BY <1>10 DEF Arrive, settings
  <2>2. \/ request'[r].at = "passed on"
        \/ request'[r].at = "asks" /\ request'[r].token = t /\ t.key <= newest
        \/ request'[r].at \notin {"asks", "answered"}
    <3>1. CASE \E q \in RequestStates : request'[r] = Judged(q, runtime[loaded].keys)
      BY <3>1, JudgedType DEF Values
    <3>2. CASE ~ \E q \in RequestStates : request'[r] = Judged(q, runtime[loaded].keys)
      BY <1>10, <3>2, DecidedOnArrival
    <3> QED
      BY <3>1, <3>2
  <2> QED
    BY <2>1, <2>2 DEF KeyInUse
<1> QED
  BY <1>3, <1>4, <1>5, <1>6, <1>7, <1>8, <1>9, <1>10 DEF Next, RequestNext

\* A request refused for its key had one that is published no longer, whatever order the
\* answers of concurrent requests reach the cache in: each looks into its own answer.
THEOREM NoRestartForRotation == Spec => RotationNeedsNoRestart
<1>1. Init => KeysInUse
  BY RestingRequest DEF Init, KeysInUse, KeyInUse
<1>2. ASSUME Values, KeysInUse, [Next]_vars, NEW r \in Requests, Decided(r, "unknown key")
      PROVE  request[r].token.key \notin Published
  <2>1. ~ \E h \in Hosts, t \in Tokens : Arrive(r, h, t)
    <3> SUFFICES ASSUME NEW h \in Hosts, NEW t \in Tokens, Arrive(r, h, t) PROVE FALSE
      OBVIOUS
    <3>1. request'[r].at = "unknown key"
      BY <1>2 DEF Decided
    <3>2. /\ t.key \in runtime[loaded].keys
          /\ \E q \in RequestStates :
                q.token = t /\ request'[r] = Judged(q, runtime[loaded].keys)
      BY <3>1, <1>2, DecidedOnArrival
    <3> QED
      BY <3>1, <3>2, JudgedAs
  <2>2. Decide(r)
    BY <1>2, <2>1, WhatDecides
  <2>3. request[r].at = "answered" /\ request[r].token.key \notin request[r].got
    <3>1. request'[r].at = "unknown key"
      BY <1>2 DEF Decided
    <3>2. request[r] \in RequestStates
      BY <1>2 DEF Values
    <3> QED
      BY <1>2, <2>2, <3>1, <3>2, DecidedByAnswer, JudgedAs
  <2>4. request[r].token.key < newest - 1
    BY <1>2, <2>3 DEF KeysInUse, KeyInUse
  <2>5. newest \in Nat /\ request[r].token.key \in Nat
    <3>1. newest \in Keys /\ request[r] \in RequestStates
      BY <1>2 DEF Values
    <3> QED
      BY <3>1 DEF Keys, RequestStates, Tokens
  <2> QED
    BY <2>4, <2>5 DEF Published, Keys
<1>3. Values /\ KeysInUse /\ [Next]_vars =>
        [\A r \in Requests : Decided(r, "unknown key") =>
            request[r].token.key \notin Published]_vars
  BY <1>2
<1> QED
  BY <1>1, <1>3, KeysStep, TypesAlways, PTL DEF Spec, RotationNeedsNoRestart

-----------------------------------------------------------------------------
(* The hostname the loaded entry serves.                                   *)

\* Unless a refresh left options and gate apart, the entry serves the gate's hostname, and
\* while a refresh moves the gate it keeps the hostname to fall back to.
HostKept ==
    loaded # 0 /\ ~stranded /\ gate.aud # 0 /\ runtime[loaded].aud # 0 =>
        IF Moving THEN runtime[loaded].back = gate.host
        ELSE runtime[loaded].host = gate.host

LEMMA HostStep == Values /\ HostKept /\ [Next]_vars => HostKept'
<1> SUFFICES ASSUME Values, HostKept, [Next]_vars PROVE HostKept'
  OBVIOUS
<1>0. /\ loaded \in 0 .. setups /\ setups \in Nat /\ runtime \in [1 .. setups -> EntryDatas]
      /\ gate \in Gates /\ url \in Hosts
  BY OriginAssumption DEF Values
<1>1. CASE SetUp
  <2>1. /\ loaded' = setups + 1
        /\ runtime'[loaded'].host = url /\ runtime'[loaded'].aud = gate'.aud
        /\ runtime'[loaded'].at = "idle"
        /\ gate' = Provisioned(url, enabled)
    BY <1>0, <1>1 DEF SetUp
  <2>2. gate'.aud = 0 \/ gate'.host = url
    BY <1>0, <2>1 DEF Provisioned, Gates
  <2> QED
    BY <2>1, <2>2 DEF HostKept, Moving
<1>2. CASE Unload \/ Restart
  BY <1>2 DEF Unload, Restart, HostKept
<1>3. CASE SetUpFails
  BY <1>3 DEF SetUpFails, HostKept
<1>4. CASE /\ UNCHANGED <<gate, loaded, stranded>>
           /\ loaded # 0 => /\ runtime'[loaded].host = runtime[loaded].host
                            /\ runtime'[loaded].aud = runtime[loaded].aud
                            /\ runtime'[loaded].at = runtime[loaded].at
                            /\ runtime'[loaded].back = runtime[loaded].back
  BY <1>0, <1>4 DEF HostKept, Moving
<1>5. ASSUME NEW g \in 1 .. setups, RefreshStart(g) PROVE HostKept'
  <2>1. /\ UNCHANGED <<gate, loaded, stranded>> /\ g = loaded
        /\ runtime[g].at = "idle" /\ runtime'[g].at = "began"
        /\ runtime'[g].back = runtime[g].host /\ runtime'[g].aud = runtime[g].aud
    BY <1>0, <1>5 DEF RefreshStart, EntryDatas
  <2> QED
    BY <2>1 DEF HostKept, Moving
<1>6. ASSUME NEW g \in 1 .. setups, RefreshForNobody(g) PROVE HostKept'
  <2>1. /\ UNCHANGED <<gate, loaded>> /\ g = loaded
        /\ runtime[g].at = "idle" /\ runtime'[g].at = "idle"
        /\ runtime'[g].host = url /\ runtime'[g].aud = runtime[g].aud
        /\ ~stranded' => ~stranded /\ url = runtime[g].host
    BY <1>0, <1>6 DEF RefreshForNobody, EntryDatas
  <2> QED
    BY <2>1 DEF HostKept, Moving
<1>7. ASSUME NEW g \in 1 .. setups, g # loaded,
             RefreshReread(g) \/ RefreshDone(g) \/ RefreshFails(g) \/ RefreshBreaks(g)
      PROVE  HostKept'
  <2>1. UNCHANGED <<gate, loaded>>
    BY <1>7 DEF RefreshReread, RefreshDone, RefreshFails, RefreshBreaks
  <2>2. stranded => stranded'
    BY Zenon, <1>7 DEF RefreshReread, RefreshDone, RefreshFails, RefreshBreaks
  <2>3. loaded # 0 => runtime'[loaded] = runtime[loaded]
    <3>1. \E d : runtime' = [runtime EXCEPT ![g] = d]
      BY Zenon, <1>7 DEF RefreshReread, RefreshDone, RefreshFails, RefreshBreaks
    <3> QED
      BY <1>0, <1>7, <3>1
  <2> QED
    BY <1>7, <2>1, <2>2, <2>3 DEF HostKept, Moving
<1>8. CASE loaded # 0 /\ RefreshReread(loaded)
  <2>1. /\ UNCHANGED <<gate, loaded, stranded>>
        /\ runtime[loaded].at = "began" /\ runtime'[loaded].at = "reread"
        /\ runtime'[loaded].back = runtime[loaded].back
        /\ runtime'[loaded].aud = runtime[loaded].aud
    BY <1>0, <1>8 DEF RefreshReread, EntryDatas
  <2> QED
    BY <2>1 DEF HostKept, Moving
<1>9. ASSUME NEW g \in 1 .. setups, RefreshWrite(g) PROVE HostKept'
  <2>1. /\ gate' = Provisioned(runtime[g].host, runtime[g].on) /\ loaded' = loaded
        /\ stranded' = (g # loaded)
        /\ runtime'[g].at = "wrote" /\ runtime'[g].host = runtime[g].host
    BY <1>0, <1>9 DEF RefreshWrite, EntryDatas
  <2>2. gate'.aud = 0 \/ gate'.host = runtime[g].host
    BY <1>0, <2>1 DEF Provisioned, Gates
  <2> QED
    BY <2>1, <2>2 DEF HostKept, Moving
<1>10. CASE loaded # 0 /\ RefreshDone(loaded)
  <2>1. /\ UNCHANGED <<gate, loaded, stranded>>
        /\ runtime[loaded].at = "wrote" /\ runtime'[loaded].at = "idle"
        /\ runtime'[loaded].host = runtime[loaded].host
        /\ runtime'[loaded].aud = runtime[loaded].aud
    BY <1>0, <1>10 DEF RefreshDone, EntryDatas
  <2> QED
    BY <2>1 DEF HostKept, Moving
<1>11. CASE loaded # 0 /\ (RefreshFails(loaded) \/ RefreshBreaks(loaded))
  <2>0. loaded \in 1 .. setups /\ runtime[loaded] \in EntryDatas
    BY <1>0, <1>11
  <2>1. /\ UNCHANGED <<gate, loaded>> /\ runtime[loaded].at # "idle"
        /\ \/ runtime' = [runtime EXCEPT ![loaded] =
                             [@ EXCEPT !.at = "idle", !.host = FallBack(loaded)]]
           \/ runtime' = [runtime EXCEPT ![loaded].at = "idle"]
    <3>1. UNCHANGED <<gate, loaded>> /\ runtime[loaded].at # "idle"
      BY <1>11 DEF RefreshFails, RefreshBreaks
    <3>2. \/ runtime' = [runtime EXCEPT ![loaded] =
                             [@ EXCEPT !.at = "idle", !.host = FallBack(loaded)]]
          \/ runtime' = [runtime EXCEPT ![loaded].at = "idle"]
      BY Zenon, <1>11 DEF RefreshFails, RefreshBreaks
    <3> QED
      BY <3>1, <3>2
  <2>2. /\ runtime'[loaded].at = "idle"
        /\ runtime[loaded].at \in {"began", "reread", "wrote"}
        /\ runtime'[loaded].aud = runtime[loaded].aud
    <3>1. runtime'[loaded].at = "idle" /\ runtime'[loaded].aud = runtime[loaded].aud
      <4>1. CASE runtime' = [runtime EXCEPT ![loaded].at = "idle"]
        BY <1>0, <2>0, <4>1 DEF EntryDatas
      <4>2. CASE runtime' = [runtime EXCEPT ![loaded] =
                               [@ EXCEPT !.at = "idle", !.host = FallBack(loaded)]]
        BY <1>0, <2>0, <4>2 DEF EntryDatas
      <4> QED
        BY <2>1, <4>1, <4>2
    <3>2. runtime[loaded].at \in Stages
      BY <2>0 DEF EntryDatas
    <3> QED
      BY <2>1, <3>1, <3>2 DEF Stages
  <2>4. stranded => stranded'
    BY Zenon, <1>11 DEF RefreshFails, RefreshBreaks
  <2>3. \/ /\ runtime'[loaded].host = runtime[loaded].back
           /\ runtime[loaded].at = "wrote" /\ runtime[loaded].host # runtime[loaded].back
                 => stranded'
        \/ /\ runtime'[loaded].host = runtime[loaded].host
           /\ runtime[loaded].at # "wrote" /\ runtime[loaded].host # runtime[loaded].back
                 => stranded'
    <3>1. CASE RefreshFails(loaded)
      <4>1. runtime[loaded].at = "wrote" /\ runtime[loaded].host # runtime[loaded].back
               => stranded'
        BY Zenon, <3>1 DEF RefreshFails
      <4>2. runtime'[loaded].host = runtime[loaded].back
        BY <1>0, <1>11, <3>1 DEF RefreshFails, FallBack, EntryDatas
      <4> QED
        BY <4>1, <4>2
    <3>2. CASE RefreshBreaks(loaded)
      <4>1. runtime[loaded].at # "wrote" /\ runtime[loaded].host # runtime[loaded].back
               => stranded'
        BY Zenon, <3>2 DEF RefreshBreaks
      <4>2. runtime'[loaded].host = runtime[loaded].host
        BY <1>0, <1>11, <3>2 DEF RefreshBreaks, EntryDatas
      <4> QED
        BY <4>1, <4>2
    <3> QED
      BY <1>11, <3>1, <3>2
  <2> QED
    BY <2>1, <2>2, <2>3, <2>4 DEF HostKept, Moving
<1>12. CASE Dashboard
  <2>1. gate'.aud = 0
    BY <1>0, <1>12 DEF Dashboard, Gates
  <2> QED
    BY <2>1 DEF HostKept
<1>13. CASE \/ Rotate \/ StartServer \/ UNCHANGED vars
            \/ \E s \in SUBSET Users : ChangePeople(s)
            \/ \E h \in Hosts : ChangeUrl(h)
  BY <1>4, <1>13 DEF Rotate, StartServer, ChangePeople, ChangeUrl, entry, vars
<1>14. ASSUME NEW r \in Requests, Decide(r) PROVE HostKept'
  <2>1. UNCHANGED <<gate, loaded, stranded>>
    BY <1>14 DEF Decide
  <2>2. loaded # 0 => /\ runtime'[loaded].host = runtime[loaded].host
                      /\ runtime'[loaded].aud = runtime[loaded].aud
                      /\ runtime'[loaded].at = runtime[loaded].at
                      /\ runtime'[loaded].back = runtime[loaded].back
    BY <1>0, <1>14 DEF Decide, EntryDatas
  <2> QED
    BY <1>4, <2>1, <2>2
<1>15. ASSUME NEW r \in Requests,
              \/ Answer(r) \/ NoAnswer(r)
              \/ \E h \in Hosts, t \in Tokens : Arrive(r, h, t)
       PROVE  HostKept'
  BY <1>4, <1>15 DEF Answer, NoAnswer, Arrive, entry
<1>16. CASE RefreshNext
  <2>1. PICK g \in 1 .. setups :
           \/ RefreshStart(g) \/ RefreshForNobody(g) \/ RefreshReread(g) \/ RefreshWrite(g)
           \/ RefreshDone(g) \/ RefreshFails(g) \/ RefreshBreaks(g)
    BY <1>16 DEF RefreshNext
  <2>2. CASE g = loaded
    <3>1. loaded # 0
      BY <2>2
    <3> QED
      BY <2>1, <2>2, <3>1, <1>5, <1>6, <1>8, <1>9, <1>10, <1>11
  <2>3. CASE g # loaded
    BY <2>1, <2>3, <1>5, <1>6, <1>7, <1>9
  <2> QED
    BY <2>2, <2>3
<1> QED
  BY <1>1, <1>2, <1>3, <1>12, <1>13, <1>14, <1>15, <1>16 DEF Next, EntryNext, RequestNext

\* Outside the cases PassedOnForCause names, a request to the guarded hostname never passes
\* the middleware by: of the refreshes of the loaded entry, only one that leaves options and
\* gate apart when it ends (stranded) makes it serve another hostname than the gate's.
THEOREM NotPassedByMistake == Spec => PassedOnForCause
<1>1. Init => HostKept
  BY DEF Init, HostKept
<1>2. ASSUME Values, HostKept, InstalledOnce, [Next]_vars, NEW r \in Requests,
             Decided(r, "passed on"), gate.aud # 0
      PROVE  \/ request'[r].host # gate.host
             \/ loaded = 0 \/ issue \/ Unknown \/ Moving
             \/ stranded
  <2>0. request'[r].at = "passed on"
    BY <1>2 DEF Decided
  <2>1. ~Decide(r)
    <3> SUFFICES ASSUME Decide(r) PROVE FALSE
      OBVIOUS
    <3>1. request[r] \in RequestStates /\ people \subseteq Users
      BY <1>2 DEF Values
    <3> QED
      BY <1>2, <2>0, <3>1, DecidedByAnswer, JudgedType
  <2>2. PICK h \in Hosts, t \in Tokens : Arrive(r, h, t)
    BY <1>2, <2>1, WhatDecides
  <2>3. ~ \E q \in RequestStates : request'[r] = Judged(q, runtime[loaded].keys)
    <3>1. people \subseteq Users
      BY <1>2 DEF Values
    <3> QED
      BY <2>0, <3>1, JudgedType
  <2>4. request'[r].host = h /\ (chain = 0 \/ ~Serves(h))
    <3>1. ~(request'[r].at = "asks")
      BY <2>0
    <3> QED
      BY <1>2, <2>2, <2>3, <3>1, DecidedOnArrival
  <2>5. CASE chain = 0
    <3>1. ~installed
      <4>1. installed => chain = 1
        BY <1>2 DEF InstalledOnce
      <4> QED
        BY <2>5, <4>1
    <3>2. loaded # 0 => installed \/ issue
      BY <1>2 DEF InstalledOnce
    <3> QED
      BY <3>1, <3>2
  <2>6. CASE ~Serves(h)
    BY <1>2, <2>4, <2>6 DEF Serves, HostKept, Unknown, Moving
  <2> QED
    BY <2>4, <2>5, <2>6
<1>3. Values /\ HostKept /\ InstalledOnce /\ [Next]_vars =>
        [\A r \in Requests : Decided(r, "passed on") /\ gate.aud # 0 =>
            \/ request'[r].host # gate.host
            \/ loaded = 0 \/ issue \/ Unknown \/ Moving
            \/ stranded]_vars
  BY <1>2
<1> QED
  BY <1>1, <1>3, HostStep, TypesAlways, MiddlewareOnce, PTL DEF Spec, PassedOnForCause
=============================================================================
