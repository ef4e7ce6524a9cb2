-------------------------- MODULE EntryStoreProofs --------------------------
(***************************************************************************)
(* Theorems about EntryStore, for all callbacks, tokens, people, names and *)
(* addresses, all releases an entry was left with, and every order of what *)
(* users do and of the calls that fail.                                    *)
(***************************************************************************)
EXTENDS EntryStore, TLAPS, WellFoundedInduction, FiniteSetTheorems

-----------------------------------------------------------------------------
(* Types.                                                                  *)

Flags == mcp \in BOOLEAN /\ issue \in BOOLEAN /\ moved \in BOOLEAN /\ reload \in BOOLEAN

Forms == [emails : Emails, read : Emails]

Values ==
    /\ store \in Stores
    /\ entry \in {"down", "setup", "loaded", "retry", "error"}
    /\ todo \subseteq Tokens /\ existing \subseteq Tokens
    /\ form \in Forms \cup {NoForm}
    /\ dropped \subseteq Items
    /\ changes \in 0 .. MaxChanges /\ failures \in 0 .. MaxFailures

LEMMA FlagsStep == Flags /\ [Next]_vars => Flags'
<1> SUFFICES ASSUME Flags, [Next]_vars PROVE Flags'
  OBVIOUS
<1> USE DEF Flags, users
<1>1. CASE Migrate \/ SetUp \/ Reload \/ \E t \in Tokens : Token(t)
  BY <1>1 DEF Migrate, SetUp, Reload, Token
<1>2. CASE SetUpDone \/ Refresh
  <2>1. Conflict(store) \in BOOLEAN
    BY DEF Conflict
  <2>2. Check /\ UNCHANGED <<mcp, reload>>
    BY <1>2 DEF SetUpDone, Refresh
  <2> QED
    BY <2>1, <2>2 DEF Check
<1>3. CASE (\E kind \in Errors : SetUpFails(kind)) \/ AskReload \/ OpenForm \/ OpenPath \/ Restart
  BY <1>3 DEF SetUpFails, AskReload, OpenForm, OpenPath, Restart
<1>4. CASE SecretUrl \/ SwitchMcp
  BY <1>4 DEF SecretUrl, SwitchMcp
<1>5. CASE \E p \in People, a \in Addresses \cup {None} :
              Repair(p, a) \/ \E g, o \in BOOLEAN : Submit(p, a, g, o)
  BY <1>5 DEF Repair, Submit
<1>6. CASE \/ \E kind \in Kinds, i \in Items : RemoveClient(kind, i)
           \/ \E t \in Tokens : RemoveToken(t)
  BY <1>6 DEF RemoveClient, RemoveToken
<1>7. CASE UNCHANGED vars
  BY <1>7 DEF vars
<1> QED
  BY <1>1, <1>2, <1>3, <1>4, <1>5, <1>6, <1>7 DEF Next, SetUpNext

LEMMA EmailsOf == ASSUME NEW e \in Stores
                  PROVE  /\ e.emails \in Emails /\ e.rows \in Emails
                         /\ e.subs \subseteq (Kinds \cup Legacy) \X Items
                         /\ e.uris \subseteq Uris /\ e.apps \subseteq Uris
                         /\ e.scripts \subseteq Tokens /\ e.tokens \subseteq Tokens
                         /\ e.twice \subseteq Items /\ e.version \in 1 .. 7
                         /\ e.listed \in BOOLEAN
BY DEF Stores

\* What no step of a migration of clients touches, but for the version.
Alike(d, e) ==
    /\ d.listed = e.listed /\ d.tokens = e.tokens /\ d.emails = e.emails /\ d.rows = e.rows

LEMMA AddType ==
    ASSUME NEW e \in Stores, NEW kind \in Kinds, NEW items \in SUBSET Items
    PROVE  /\ Add(e, kind, items) \in Stores
           /\ Add(e, kind, items).subs = e.subs \cup ({kind} \X items)
           /\ Add(e, kind, items).twice = e.twice \cup (items \cap Clients(e))
           /\ Add(e, kind, items).version = e.version
           /\ Add(e, kind, items).uris = e.uris
           /\ Add(e, kind, items).apps = e.apps
           /\ Add(e, kind, items).scripts = e.scripts
           /\ Alike(Add(e, kind, items), e)
           /\ Clients(Add(e, kind, items)) = Clients(e) \cup items
<1>1. e.subs \cup ({kind} \X items) \subseteq (Kinds \cup Legacy) \X Items
  BY DEF Stores
<1>2. e.twice \cup (items \cap Clients(e)) \subseteq Items
  BY DEF Stores
<1>3. Add(e, kind, items).subs = e.subs \cup ({kind} \X items)
  BY DEF Add, Stores
<1>4. Clients(Add(e, kind, items)) = Clients(e) \cup items
  <2>1. ASSUME NEW x \in items PROVE x \in Clients(Add(e, kind, items))
    <3>1. <<kind, x>> \in Add(e, kind, items).subs
      BY <1>3
    <3> QED
      BY <3>1 DEF Clients
  <2>2. Clients(e) \subseteq Clients(Add(e, kind, items))
    BY <1>3 DEF Clients
  <2>3. Clients(Add(e, kind, items)) \subseteq Clients(e) \cup items
    BY <1>3 DEF Clients
  <2> QED
    BY <2>1, <2>2, <2>3
<1> QED
  BY <1>1, <1>2, <1>4 DEF Add, Stores, Alike

LEMMA WithoutOptionType ==
    ASSUME NEW e \in Stores
    PROVE  /\ WithoutOption(e) \in Stores
           /\ WithoutOption(e).listed = FALSE
           /\ WithoutOption(e).subs = e.subs
           /\ WithoutOption(e).twice = e.twice
           /\ WithoutOption(e).version = e.version
           /\ WithoutOption(e).uris = e.uris
           /\ WithoutOption(e).apps = e.apps
           /\ WithoutOption(e).scripts = e.scripts
           /\ WithoutOption(e).emails = e.emails
           /\ WithoutOption(e).gate = e.gate
           /\ WithoutOption(e).open = e.open
BY DEF WithoutOption, Stores

-----------------------------------------------------------------------------
(* The steps of a migration.                                               *)

LEMMA RedirectUrisType ==
    ASSUME NEW e \in Stores
    PROVE  /\ RedirectUris(e) \in Stores
           /\ RedirectUris(e).uris = {}
           /\ Clients(RedirectUris(e)) = Clients(e) \cup e.uris
           /\ RedirectUris(e).version = e.version
           /\ RedirectUris(e).apps = e.apps /\ RedirectUris(e).scripts = e.scripts
           /\ Alike(RedirectUris(e), e)
           /\ e.subs = {} \/ e.uris = {} => RedirectUris(e).twice = e.twice
           /\ RedirectUris(e).subs \subseteq e.subs \cup ({"self"} \X e.uris)
<1> DEFINE new == {u \in e.uris : <<"self", u>> \notin e.subs}
           a   == Add(e, "self", new)
<1>1. new \in SUBSET Items /\ "self" \in Kinds
  BY DEF Stores, Items, Kinds
<1>2. /\ a \in Stores /\ a.subs = e.subs \cup ({"self"} \X new)
      /\ a.twice = e.twice \cup (new \cap Clients(e))
      /\ a.version = e.version /\ a.uris = e.uris /\ a.apps = e.apps /\ a.scripts = e.scripts
      /\ Alike(a, e)
  <2> HIDE DEF new
  <2> QED
    BY <1>1, AddType
<1>3. RedirectUris(e) = [a EXCEPT !.uris = {}]
  BY DEF RedirectUris
<1> HIDE DEF a
<1>4. /\ RedirectUris(e) \in Stores /\ RedirectUris(e).uris = {}
      /\ RedirectUris(e).subs = a.subs /\ RedirectUris(e).twice = a.twice
      /\ RedirectUris(e).version = a.version
      /\ RedirectUris(e).apps = a.apps /\ RedirectUris(e).scripts = a.scripts
      /\ Alike(RedirectUris(e), a)
  BY <1>2, <1>3 DEF Stores, Alike
<1>5. Clients(RedirectUris(e)) = Clients(e) \cup e.uris
  <2>1. RedirectUris(e).subs = e.subs \cup ({"self"} \X new)
    BY <1>2, <1>4
  <2>2. \A u \in e.uris \ new : <<"self", u>> \in e.subs
    OBVIOUS
  <2>3. ASSUME NEW x \in Clients(e) \cup e.uris PROVE x \in Clients(RedirectUris(e))
    <3>1. CASE x \in Clients(e)
      BY <2>1, <3>1 DEF Clients
    <3>2. CASE x \in e.uris
      <4>1. <<"self", x>> \in RedirectUris(e).subs
        BY <2>1, <2>2, <3>2
      <4> QED
        BY <4>1 DEF Clients
    <3> QED
      BY <3>1, <3>2
  <2>4. ASSUME NEW x \in Clients(RedirectUris(e)) PROVE x \in Clients(e) \cup e.uris
    BY <2>1, <2>4 DEF Clients
  <2> QED
    BY <2>3, <2>4
<1>6. e.subs = {} => Clients(e) = {}
  BY DEF Clients
<1>7. Alike(RedirectUris(e), e)
  BY <1>2, <1>4 DEF Alike
<1>8. e.subs = {} \/ e.uris = {} => new \cap Clients(e) = {}
  BY <1>6
<1> HIDE DEF new
<1>9. e.subs = {} \/ e.uris = {} => RedirectUris(e).twice = e.twice
  BY <1>2, <1>4, <1>8
<1>10. RedirectUris(e).subs \subseteq e.subs \cup ({"self"} \X e.uris)
  BY <1>2, <1>4 DEF new
<1> QED
  BY <1>2, <1>4, <1>5, <1>7, <1>9, <1>10

\* Addresses stay, and the rows' are added.
LEMMA LoginEmailRowsType ==
    ASSUME NEW e \in Stores
    PROVE  /\ LoginEmailRows(e) \in Stores
           /\ LoginEmailRows(e).subs = e.subs /\ LoginEmailRows(e).twice = e.twice
           /\ LoginEmailRows(e).uris = e.uris /\ LoginEmailRows(e).apps = e.apps
           /\ LoginEmailRows(e).scripts = e.scripts
           /\ LoginEmailRows(e).listed = e.listed /\ LoginEmailRows(e).tokens = e.tokens
           /\ LoginEmailRows(e).version = e.version
           /\ \A p \in People : e.emails[p] # None => LoginEmailRows(e).emails[p] = e.emails[p]
<1> DEFINE both == [p \in People |-> IF e.emails[p] # None THEN e.emails[p] ELSE e.rows[p]]
<1>1. both \in Emails /\ Nobody \in Emails
  BY EmailsOf DEF Emails, Nobody
<1>2. \A p \in People : e.emails[p] # None => both[p] = e.emails[p]
  OBVIOUS
<1>3. LoginEmailRows(e) = [e EXCEPT !.emails = both, !.rows = Nobody]
  BY DEF LoginEmailRows
<1> HIDE DEF both
<1> QED
  BY <1>1, <1>2, <1>3 DEF Stores

LEMMA KindOfType == \A type, item : KindOf(type, item) \in Kinds
BY DEF KindOf, Kinds

\* Every client stays, under its kind.
LEMMA ClientTypesType ==
    ASSUME NEW e \in Stores
    PROVE  /\ ClientTypes(e) \in Stores
           /\ Clients(ClientTypes(e)) = Clients(e)
           /\ ClientTypes(e).twice = e.twice /\ ClientTypes(e).version = e.version
           /\ ClientTypes(e).uris = e.uris /\ ClientTypes(e).apps = e.apps
           /\ ClientTypes(e).scripts = e.scripts
           /\ Alike(ClientTypes(e), e)
           /\ e.subs = {} => ClientTypes(e).subs = {}
           /\ \A c \in ClientTypes(e).subs :
                 \E b \in e.subs : c[2] = b[2] /\ (b[1] = "client_script" \/ b[1] = "script"
                                                   => c[1] = "script")
<1> DEFINE renamed(c) == <<IF c[1] \in Legacy THEN KindOf(c[1], c[2]) ELSE c[1], c[2]>>
           subs == {renamed(c) : c \in e.subs}
<1>1. ASSUME NEW c \in e.subs
      PROVE  /\ renamed(c) \in (Kinds \cup Legacy) \X Items /\ renamed(c)[2] = c[2]
             /\ c[1] = "client_script" \/ c[1] = "script" => renamed(c)[1] = "script"
  <2>1. c \in (Kinds \cup Legacy) \X Items
    BY EmailsOf
  <2> QED
    BY <2>1, KindOfType DEF KindOf, Legacy
<1>2. ClientTypes(e) = [e EXCEPT !.subs = subs]
  BY DEF ClientTypes
<1> HIDE DEF renamed
<1>3. subs \in SUBSET ((Kinds \cup Legacy) \X Items)
  BY <1>1
<1>4. /\ ClientTypes(e) \in Stores /\ ClientTypes(e).subs = subs
      /\ ClientTypes(e).twice = e.twice /\ ClientTypes(e).version = e.version
      /\ ClientTypes(e).uris = e.uris /\ ClientTypes(e).apps = e.apps
      /\ ClientTypes(e).scripts = e.scripts
      /\ Alike(ClientTypes(e), e)
  <2> HIDE DEF subs
  <2> QED
    BY <1>2, <1>3 DEF Stores, Alike
<1>5. Clients(ClientTypes(e)) = Clients(e)
  <2>1. Clients(ClientTypes(e)) = {c[2] : c \in subs}
    BY <1>4 DEF Clients
  <2>2. {c[2] : c \in subs} = {c[2] : c \in e.subs}
    BY <1>1
  <2> QED
    BY <2>1, <2>2 DEF Clients
<1>6. \A c \in subs :
         \E b \in e.subs : c[2] = b[2] /\ (b[1] = "client_script" \/ b[1] = "script"
                                           => c[1] = "script")
  BY <1>1
<1>7. e.subs = {} => subs = {}
  OBVIOUS
<1> HIDE DEF subs
<1> QED
  BY <1>4, <1>5, <1>6, <1>7

\* The clients of the options become subentries, each once.
LEMMA OptionsClientsType ==
    ASSUME NEW e \in Stores, e.subs = {} \/ (e.uris = {} /\ e.apps = {} /\ e.scripts = {}),
           e.uris \cap e.apps = {}
    PROVE  /\ OptionsClients(e) \in Stores
           /\ Clients(OptionsClients(e)) = Clients(e) \cup e.uris \cup e.apps \cup e.scripts
           /\ OptionsClients(e).twice = e.twice /\ OptionsClients(e).version = e.version
           /\ OptionsClients(e).uris = {} /\ OptionsClients(e).apps = {}
           /\ OptionsClients(e).scripts = {}
           /\ Alike(OptionsClients(e), e)
           /\ OptionsClients(e).subs \subseteq e.subs \cup ({"self"} \X e.uris)
                 \cup ({"console"} \X e.apps) \cup ({"script"} \X e.scripts)
<1> DEFINE r == RedirectUris(e)
           c == Add(r, "console", e.apps)
           s == Add(c, "script", e.scripts)
<1>0. /\ e.uris \subseteq Uris /\ e.apps \subseteq Uris /\ e.scripts \subseteq Tokens
      /\ Uris \cap Tokens = {} /\ Uris \subseteq Items /\ Tokens \subseteq Items
  BY EmailsOf, EntryStoreAssumption DEF Items
<1>1. /\ r \in Stores /\ r.uris = {} /\ r.version = e.version
      /\ r.apps = e.apps /\ r.scripts = e.scripts /\ Alike(r, e)
      /\ Clients(r) = Clients(e) \cup e.uris
      /\ r.twice = e.twice
      /\ r.subs \subseteq e.subs \cup ({"self"} \X e.uris)
  BY RedirectUrisType
<1> HIDE DEF r
<1>2. /\ c \in Stores /\ c.subs = r.subs \cup ({"console"} \X e.apps)
      /\ c.twice = r.twice \cup (e.apps \cap Clients(r)) /\ c.version = e.version
      /\ c.uris = {} /\ Alike(c, e)
  BY <1>0, <1>1, AddType DEF Kinds, Alike
<1>3. Clients(c) = Clients(e) \cup e.uris \cup e.apps
  BY <1>0, <1>1, AddType DEF Kinds
<1> HIDE DEF c
<1>4. /\ s \in Stores /\ s.subs = c.subs \cup ({"script"} \X e.scripts)
      /\ s.twice = c.twice \cup (e.scripts \cap Clients(c)) /\ s.version = e.version
      /\ s.uris = {} /\ Alike(s, e)
  BY <1>0, <1>2, AddType DEF Kinds, Alike
<1>5. Clients(s) = Clients(e) \cup e.uris \cup e.apps \cup e.scripts
  BY <1>0, <1>2, <1>3, AddType DEF Kinds
<1>6. s.twice = e.twice
  <2>1. e.subs = {} => Clients(e) = {}
    BY DEF Clients
  <2> QED
    BY <1>0, <1>1, <1>2, <1>3, <1>4, <2>1
<1> HIDE DEF s
<1>7. OptionsClients(e) = [s EXCEPT !.apps = {}, !.scripts = {}]
  BY DEF OptionsClients, s, c, r
<1>8. /\ OptionsClients(e) \in Stores /\ OptionsClients(e).subs = s.subs
      /\ OptionsClients(e).twice = s.twice /\ OptionsClients(e).version = s.version
      /\ OptionsClients(e).uris = s.uris /\ OptionsClients(e).apps = {}
      /\ OptionsClients(e).scripts = {} /\ Alike(OptionsClients(e), s)
  BY <1>4, <1>7 DEF Stores, Alike
<1>9. Clients(OptionsClients(e)) = Clients(s)
  BY <1>8 DEF Clients
<1>10. Alike(OptionsClients(e), e)
  BY <1>4, <1>8 DEF Alike
<1>11. OptionsClients(e).subs \subseteq e.subs \cup ({"self"} \X e.uris)
                 \cup ({"console"} \X e.apps) \cup ({"script"} \X e.scripts)
  BY <1>1, <1>2, <1>4, <1>8
<1> QED
  BY <1>4, <1>5, <1>6, <1>8, <1>9, <1>10, <1>11

\* What an earlier release leaves: clients in one place only, each once.
Legible(e) ==
    /\ e \in Stores /\ e.twice = {}
    /\ e.subs = {} \/ (e.uris = {} /\ e.apps = {} /\ e.scripts = {})
    /\ e.uris \cap e.apps = {}
    /\ \A c \in e.subs :
          c[2] \in Tokens => c[1] = "script" \/ (c[1] = "client_script" /\ e.version < 5)

LEMMA LeftIsLegible ==
    ASSUME NEW v \in 1 .. 7, NEW e \in Left(v)
    PROVE  /\ Legible(e) /\ e.version = v
           /\ v # 6 => e.apps = {} /\ e.scripts = {}
<1>1. PICK u \in SUBSET Uris, t \in SUBSET Tokens, k \in Legacy \ {"client_script"},
           em \in Emails, w \in Emails : e = LeftWith(v, u, t, k, em, w)
  BY DEF Left
<1> DEFINE clients == IF v \in {2, 3, 4}
                      THEN ({k} \X u) \cup ({"client_script"} \X (Tokens \ t)) ELSE {}
           uris    == IF v \in {1, 6} THEN u ELSE {}
           apps    == IF v = 6 THEN Uris \ u ELSE {}
           scripts == IF v = 6 THEN Tokens \ t ELSE {}
           tokens  == IF v < 7 THEN t ELSE {}
           rows    == IF v = 1 THEN w ELSE Nobody
<1>2. /\ e = [version |-> v, host |-> (v < 3), sensors |-> (v < 4), gate |-> TRUE,
              open |-> FALSE, twice |-> {}, subs |-> clients, uris |-> uris, apps |-> apps,
              scripts |-> scripts, listed |-> (v < 7), tokens |-> tokens, emails |-> em,
              rows |-> rows]
      /\ em \in Emails
  BY <1>1 DEF LeftWith
<1>3. Nobody \in Emails
  BY DEF Nobody, Emails
<1>4. /\ clients \in SUBSET ((Kinds \cup Legacy) \X Items)
      /\ \A c \in clients : c[2] \in Tokens => c[1] = "client_script" /\ v < 5
  BY EntryStoreAssumption DEF Items, Legacy
<1>5. /\ uris \in SUBSET Uris /\ apps \in SUBSET Uris /\ uris \cap apps = {}
      /\ scripts \in SUBSET Tokens /\ tokens \in SUBSET Tokens
      /\ clients = {} \/ (uris = {} /\ apps = {} /\ scripts = {})
      /\ v # 6 => apps = {} /\ scripts = {}
  OBVIOUS
<1>6. rows \in Emails
  BY <1>3
<1>7. (v < 7) \in BOOLEAN /\ (v < 3) \in BOOLEAN /\ (v < 4) \in BOOLEAN
  OBVIOUS
<1> HIDE DEF clients, uris, apps, scripts, tokens, rows
<1>8. e \in Stores
  BY <1>2, <1>4, <1>5, <1>6, <1>7 DEF Stores
<1> QED
  BY <1>2, <1>4, <1>5, <1>8 DEF Legible

Same(d, e) ==
    /\ d.subs = e.subs /\ d.twice = e.twice /\ d.uris = e.uris /\ d.apps = e.apps
    /\ d.scripts = e.scripts /\ d.listed = e.listed /\ d.tokens = e.tokens
    /\ d.emails = e.emails

\* A step of a migration ends with its version, and may drop an option nobody reads.
LEMMA Stamped ==
    ASSUME NEW d \in Stores, NEW n \in 1 .. 7, NEW s,
           \/ s = [d EXCEPT !.version = n, !.host = FALSE]
           \/ s = [d EXCEPT !.version = n, !.sensors = FALSE]
    PROVE  s \in Stores /\ s.version = n /\ Same(s, d)
BY DEF Stores, Same

LEMMA To3Type ==
    ASSUME NEW e \in Stores
    PROVE  /\ To3(e) \in Stores /\ Same(To3(e), e)
           /\ To3(e).version = (IF e.version < 3 THEN 3 ELSE e.version)
<1>1. CASE e.version < 3
  <2>1. To3(e) = [e EXCEPT !.version = 3, !.host = FALSE] /\ 3 \in 1 .. 7
    BY <1>1 DEF To3
  <2>2. To3(e) \in Stores /\ To3(e).version = 3 /\ Same(To3(e), e)
    BY <2>1, Stamped
  <2> QED
    BY <1>1, <2>2
<1>2. CASE ~(e.version < 3)
  BY <1>2 DEF To3, Same
<1> QED
  BY <1>1, <1>2

LEMMA To4Type ==
    ASSUME NEW e \in Stores
    PROVE  /\ To4(e) \in Stores /\ Same(To4(e), e)
           /\ To4(e).version = (IF e.version < 4 THEN 4 ELSE e.version)
<1>1. CASE e.version < 4
  <2>1. To4(e) = [e EXCEPT !.version = 4, !.sensors = FALSE] /\ 4 \in 1 .. 7
    BY <1>1 DEF To4
  <2>2. To4(e) \in Stores /\ To4(e).version = 4 /\ Same(To4(e), e)
    BY <2>1, Stamped
  <2> QED
    BY <1>1, <2>2
<1>2. CASE ~(e.version < 4)
  BY <1>2 DEF To4, Same
<1> QED
  BY <1>1, <1>2

Stay(d, e) == \A p \in People : e.emails[p] # None => d.emails[p] = e.emails[p]
All(e) == Clients(e) \cup e.uris \cup e.apps \cup e.scripts

LEMMA SameMeans ==
    ASSUME NEW d \in Stores, NEW e \in Stores, Same(d, e)
    PROVE  All(d) = All(e) /\ Clients(d) = Clients(e) /\ Stay(d, e)
BY DEF Same, All, Clients, Stay

\* Only release 6 had applications and scripts in its options.
Readable(e) == Legible(e) /\ (e.version # 6 => e.apps = {} /\ e.scripts = {})

LEMMA To2Type ==
    ASSUME NEW e, Readable(e)
    PROVE  /\ Readable(To2(e)) /\ All(e) \subseteq All(To2(e))
           /\ To2(e).listed = e.listed /\ To2(e).tokens = e.tokens /\ Stay(To2(e), e)
           /\ To2(e).version = (IF e.version < 2 THEN 2 ELSE e.version)
<1>0. e \in Stores /\ e.version \in 1 .. 7 /\ Uris \cap Tokens = {} /\ e.uris \subseteq Uris
  BY EntryStoreAssumption, EmailsOf DEF Readable, Legible
<1>1. CASE ~(e.version < 2)
  BY <1>0, <1>1 DEF To2, Stay, Readable
<1>2. CASE e.version < 2
  <2> DEFINE r == RedirectUris(e)
             l == LoginEmailRows(r)
             d == To2(e)
  <2>1. /\ r \in Stores /\ r.uris = {} /\ Clients(r) = Clients(e) \cup e.uris
        /\ r.apps = e.apps /\ r.scripts = e.scripts /\ r.twice = e.twice
        /\ Alike(r, e) /\ r.subs \subseteq e.subs \cup ({"self"} \X e.uris)
    BY <1>0, RedirectUrisType DEF Legible, Readable
  <2> HIDE DEF r
  <2>2. /\ l \in Stores /\ l.subs = r.subs /\ l.twice = r.twice /\ l.uris = r.uris
        /\ l.apps = r.apps /\ l.scripts = r.scripts /\ l.listed = r.listed
        /\ l.tokens = r.tokens /\ Stay(l, r)
    BY <2>1, LoginEmailRowsType DEF Stay
  <2> HIDE DEF l
  <2>3. d = [l EXCEPT !.version = 2] /\ 2 \in 1 .. 7
    BY <1>2 DEF To2, l, r
  <2> HIDE DEF d
  <2>4. d \in Stores /\ d.version = 2 /\ Same(d, l)
    BY <2>2, <2>3 DEF Stores, Same
  <2>5. e.apps = {} /\ e.scripts = {} /\ e.twice = {}
    BY <1>0, <1>2 DEF Readable, Legible
  <2>6. \A c \in d.subs : c[2] \in Tokens => c[1] = "script" \/ c[1] = "client_script"
    BY <1>0, <2>1, <2>2, <2>4 DEF Readable, Legible, Same
  <2>7. /\ d.uris = {} /\ d.apps = {} /\ d.scripts = {} /\ d.twice = {}
        /\ d.listed = e.listed /\ d.tokens = e.tokens /\ d.emails = l.emails
    BY <2>1, <2>2, <2>4, <2>5 DEF Same, Alike
  <2>8. Readable(d)
    BY <2>4, <2>6, <2>7 DEF Readable, Legible
  <2>9. Clients(d) = Clients(e) \cup e.uris
    BY <2>1, <2>2, <2>4 DEF Clients, Same
  <2>10. All(e) \subseteq All(d)
    BY <2>5, <2>9 DEF All
  <2>11. Stay(d, e)
    BY <2>1, <2>2, <2>7 DEF Stay, Alike
  <2> QED
    BY <1>2, <2>4, <2>7, <2>8, <2>10, <2>11 DEF d
<1> QED
  BY <1>1, <1>2

LEMMA To5Type ==
    ASSUME NEW e, Readable(e)
    PROVE  /\ Readable(To5(e)) /\ All(To5(e)) = All(e)
           /\ To5(e).listed = e.listed /\ To5(e).tokens = e.tokens /\ Stay(To5(e), e)
           /\ To5(e).version = (IF e.version < 5 THEN 5 ELSE e.version)
<1>0. e \in Stores /\ e.version \in 1 .. 7
  BY EmailsOf DEF Readable, Legible
<1>1. CASE ~(e.version < 5)
  BY <1>0, <1>1 DEF To5, Stay, Readable
<1>2. CASE e.version < 5
  <2> DEFINE k == ClientTypes(e)
             d == To5(e)
  <2>1. /\ k \in Stores /\ Clients(k) = Clients(e) /\ k.twice = e.twice
        /\ k.uris = e.uris /\ k.apps = e.apps /\ k.scripts = e.scripts /\ Alike(k, e)
        /\ e.subs = {} => k.subs = {}
        /\ \A c \in k.subs :
               \E b \in e.subs : c[2] = b[2] /\ (b[1] = "client_script" \/ b[1] = "script"
                                                => c[1] = "script")
    BY <1>0, ClientTypesType
  <2> HIDE DEF k
  <2>2. d = [k EXCEPT !.version = 5] /\ 5 \in 1 .. 7
    BY <1>2 DEF To5, k
  <2> HIDE DEF d
  <2>3. d \in Stores /\ d.version = 5 /\ Same(d, k)
    BY <2>1, <2>2 DEF Stores, Same
  <2>4. \A c \in d.subs : c[2] \in Tokens => c[1] = "script"
    BY <2>1, <2>3 DEF Readable, Legible, Same
  <2>5. Readable(d)
    BY <1>0, <1>2, <2>1, <2>3, <2>4 DEF Readable, Legible, Same
  <2>6. All(d) = All(e)
    BY <2>1, <2>3, SameMeans DEF All, Same
  <2>7. d.listed = e.listed /\ d.tokens = e.tokens /\ Stay(d, e)
    BY <2>1, <2>3 DEF Same, Alike, Stay
  <2> QED
    BY <1>2, <2>3, <2>5, <2>6, <2>7 DEF d
<1> QED
  BY <1>1, <1>2

LEMMA To7Type ==
    ASSUME NEW e, Readable(e), e.version \in 5 .. 7
    PROVE  /\ To7(e) \in Stores /\ To7(e).version = 7 /\ To7(e).twice = {}
           /\ All(To7(e)) = All(e)
           /\ To7(e).listed = e.listed /\ To7(e).tokens = e.tokens /\ Stay(To7(e), e)
           /\ \A c \in To7(e).subs : c[2] \in Tokens => c[1] = "script"
<1>0. /\ e \in Stores /\ Uris \cap Tokens = {} /\ e.uris \subseteq Uris /\ e.apps \subseteq Uris
  BY EntryStoreAssumption, EmailsOf DEF Readable, Legible
<1>1. CASE ~(e.version < 7)
  BY <1>0, <1>1 DEF To7, Stay, Readable, Legible
<1>2. CASE e.version < 7
  <2> DEFINE o == OptionsClients(e)
             d == To7(e)
  <2>1. /\ o \in Stores /\ o.twice = e.twice
        /\ Clients(o) = Clients(e) \cup e.uris \cup e.apps \cup e.scripts
        /\ o.uris = {} /\ o.apps = {} /\ o.scripts = {} /\ Alike(o, e)
        /\ o.subs \subseteq e.subs \cup ({"self"} \X e.uris)
               \cup ({"console"} \X e.apps) \cup ({"script"} \X e.scripts)
    BY <1>0, OptionsClientsType DEF Readable, Legible
  <2> HIDE DEF o
  <2>2. d = [o EXCEPT !.version = 7] /\ 7 \in 1 .. 7
    BY <1>2 DEF To7, o
  <2> HIDE DEF d
  <2>3. d \in Stores /\ d.version = 7 /\ Same(d, o)
    BY <2>1, <2>2 DEF Stores, Same
  <2>4. All(d) = All(e)
    BY <2>1, <2>3, SameMeans DEF All
  <2>5. \A c \in e.subs : c[2] \in Tokens => c[1] = "script"
    BY DEF Readable, Legible
  <2>6. \A c \in d.subs : c[2] \in Tokens => c[1] = "script"
    BY <1>0, <2>1, <2>3, <2>5 DEF Same
  <2>7. d.listed = e.listed /\ d.tokens = e.tokens /\ Stay(d, e) /\ d.twice = {}
    BY <2>1, <2>3 DEF Same, Alike, Stay, Readable, Legible
  <2> QED
    BY <2>3, <2>4, <2>6, <2>7 DEF d
<1> QED
  BY <1>1, <1>2

\* Every client of the entry, wherever it is kept, has one subentry after the migration,
\* and nobody's address is taken.
LEMMA MigratedKeeps ==
    ASSUME NEW e, Readable(e)
    PROVE  LET m == Migrated(e) IN
           /\ m \in Stores /\ m.version = 7 /\ m.twice = {} /\ All(e) \subseteq All(m)
           /\ m.listed = e.listed /\ m.tokens = e.tokens /\ Stay(m, e)
           /\ \A c \in m.subs : c[2] \in Tokens => c[1] = "script"
<1> DEFINE e2 == To2(e)
           e3 == To3(e2)
           e4 == To4(e3)
           e5 == To5(e4)
           m  == To7(e5)
<1>0. Migrated(e) = m
  BY DEF Migrated
<1>1. /\ Readable(e2) /\ All(e) \subseteq All(e2) /\ e2.listed = e.listed
      /\ e2.tokens = e.tokens /\ Stay(e2, e) /\ e2 \in Stores /\ e2.version \in 1 .. 7
  BY To2Type, EmailsOf DEF Readable, Legible
<1> HIDE DEF e2
<1>2. /\ e3 \in Stores /\ Same(e3, e2)
      /\ e3.version = (IF e2.version < 3 THEN 3 ELSE e2.version)
  BY <1>1, To3Type
<1> HIDE DEF e3
<1>3. /\ e4 \in Stores /\ Same(e4, e3)
      /\ e4.version = (IF e3.version < 4 THEN 4 ELSE e3.version)
  BY <1>2, To4Type
<1> HIDE DEF e4
<1>4. Readable(e4)
  BY <1>1, <1>2, <1>3 DEF Readable, Legible, Same
<1>5. /\ All(e4) = All(e2) /\ e4.listed = e2.listed /\ e4.tokens = e2.tokens /\ Stay(e4, e2)
      /\ e4.version \in 1 .. 7
  BY <1>1, <1>2, <1>3, SameMeans DEF Same, Stay
<1>6. /\ Readable(e5) /\ All(e5) = All(e4) /\ e5.listed = e4.listed /\ e5.tokens = e4.tokens
      /\ Stay(e5, e4) /\ e5.version = (IF e4.version < 5 THEN 5 ELSE e4.version)
  BY <1>4, To5Type
<1> HIDE DEF e5
<1>7. e5.version \in 5 .. 7
  BY <1>5, <1>6
<1>8. /\ m \in Stores /\ m.version = 7 /\ m.twice = {} /\ All(m) = All(e5)
      /\ m.listed = e5.listed /\ m.tokens = e5.tokens /\ Stay(m, e5)
      /\ \A c \in m.subs : c[2] \in Tokens => c[1] = "script"
  BY <1>6, <1>7, To7Type
<1> HIDE DEF m
<1>9. Stay(m, e)
  BY <1>1, <1>5, <1>6, <1>8 DEF Stay
<1> QED
  BY <1>0, <1>1, <1>5, <1>6, <1>8, <1>9

-----------------------------------------------------------------------------
(* The invariant.                                                          *)

\* An entry of an earlier release is as that release left it: nothing has run.
Untouched ==
    store.version < 7 => entry = "down" /\ form = NoForm /\ ~issue /\ todo = {} /\ Readable(store)

\* Each client of the entry is one, and a token's is of the kind setup looks for.
OncePerClient ==
    /\ store.twice = {}
    /\ store.version = 7 => \A c \in store.subs : c[2] \in Tokens => c[1] = "script"

\* The tokens setup has still to look up have no client yet, are in the option, and with
\* the tokens that have one they are all of the option's.
Waiting ==
    /\ todo \cap Known = {}
    /\ entry # "setup" => todo = {}
    /\ todo \subseteq (IF store.listed THEN store.tokens ELSE {}) \cup dropped
    /\ entry = "setup" /\ store.listed => store.tokens \subseteq Known \cup todo \cup dropped

IInv == Values /\ Untouched /\ OncePerClient /\ Waiting

\* A chosen earliest position is one of the positions asked for.
LEMMA EarliestType ==
    ASSUME NEW n, Called(n) # {}
    PROVE  Earliest(Called(n)) \in Called(n)
<1> DEFINE R == OpToRel(<, Nat)
<1>1. Called(n) \subseteq Nat
  BY EntryStoreAssumption DEF Called
<1>2. IsWellFoundedOn(R, Nat)
  BY NatLessThanWellFounded
<1>3. \A jk \in Nat \X Nat : jk[1] < jk[2] => jk \in R
  BY Zenon DEF OpToRel
<1> HIDE DEF R
<1>4. \E k \in Called(n) : \A j \in Called(n) : ~(<<j, k>> \in R)
  BY <1>1, <1>2, WFMin
<1>5. PICK k \in Called(n) : \A j \in Called(n) : ~(<<j, k>> \in R)
  BY <1>4
<1>6. ASSUME NEW j \in Called(n) PROVE k <= j
  <2>1. j \in Nat /\ k \in Nat
    BY <1>1, <1>5
  <2>2. <<j, k>> \in Nat \X Nat /\ <<j, k>>[1] = j /\ <<j, k>>[2] = k
    BY <2>1
  <2>3. ~(j < k)
    BY <1>3, <1>5, <2>2
  <2> QED
    BY <2>1, <2>3
<1> QED
  BY <1>5, <1>6 DEF Earliest

\* The form shows addresses.
LEMMA FormType ==
    ASSUME NEW e \in Stores
    PROVE  FormOf(e) \in Forms
<1>1. ASSUME NEW p \in People PROVE Shown(e, Name[p]) \in Addresses \cup {None}
  <2>1. PICK k \in 1 .. Len(Order) : p = Order[k]
    BY <1>1 DEF People
  <2>2. k \in Called(Name[p])
    BY <2>1 DEF Called
  <2>3. Earliest(Called(Name[p])) \in 1 .. Len(Order)
    BY <2>2, EarliestType DEF Called
  <2>4. Order[Earliest(Called(Name[p]))] \in People
    BY <2>3 DEF People
  <2> QED
    BY <2>4, EmailsOf DEF Shown, Emails
<1>2. [p \in People |-> Shown(e, Name[p])] \in Emails
  BY <1>1 DEF Emails
<1> QED
  BY <1>2, EmailsOf DEF FormOf, Forms

\* What the form sends back are addresses.
LEMMA ParsedType ==
    ASSUME form \in Forms, NEW p \in People, NEW a \in Addresses \cup {None}
    PROVE  Parsed(Entered(p, a)) \in Emails
<1>1. form.emails \in [People -> Addresses \cup {None}]
  BY DEF Forms, Emails
<1>2. \A q \in People : Entered(p, a)[q] \in Addresses \cup {None}
  BY <1>1 DEF Entered
<1> QED
  BY <1>2 DEF Parsed, Emails

LEMMA InitInv == Init => IInv /\ Flags
<1> SUFFICES ASSUME Init PROVE IInv /\ Flags
  OBVIOUS
<1>1. PICK v \in Versions : store \in Left(v)
  BY DEF Init
<1>2. v \in 1 .. 7
  BY EntryStoreAssumption
<1>3. /\ Readable(store) /\ store.version = v /\ store.twice = {} /\ store \in Stores
  BY <1>1, <1>2, LeftIsLegible DEF Readable, Legible
<1>4. Values
  BY <1>3, EntryStoreAssumption DEF Init, Values, Items
<1>5. Untouched
  BY <1>3 DEF Init, Untouched
<1>6. OncePerClient
  BY <1>3 DEF OncePerClient, Readable, Legible
<1>7. Waiting
  BY DEF Init, Waiting
<1>8. Flags
  BY DEF Init, Flags
<1> QED
  BY <1>4, <1>5, <1>6, <1>7, <1>8 DEF IInv

-----------------------------------------------------------------------------
(* Each step keeps the invariant, and every client.                        *)

Kept == Held \subseteq Held' \cup dropped'

LEMMA HeldIs == Held = All(store) \cup (IF store.listed THEN store.tokens ELSE {}) \cup todo
BY DEF Held, All

LEMMA KnownAreClients == Known \subseteq Clients(store)
BY DEF Known, Clients

LEMMA MigrateStep == IInv /\ Migrate => IInv' /\ Kept
<1> SUFFICES ASSUME IInv, Migrate PROVE IInv' /\ Kept
  OBVIOUS
<1> DEFINE m == Migrated(store)
<1>1. Readable(store) /\ entry = "down" /\ todo = {} /\ store' = m
  BY DEF Migrate, IInv, Untouched
<1>2. /\ m \in Stores /\ m.version = 7 /\ m.twice = {} /\ All(store) \subseteq All(m)
      /\ m.listed = store.listed /\ m.tokens = store.tokens
      /\ \A c \in m.subs : c[2] \in Tokens => c[1] = "script"
  BY <1>1, MigratedKeeps
<1> HIDE DEF m
<1>3. UNCHANGED <<entry, todo, reload, form, issue, existing, mcp, moved, dropped, changes, failures>>
  BY DEF Migrate, users, bounds
<1>4. Values'
  BY <1>1, <1>2, <1>3 DEF IInv, Values
<1>5. Untouched' /\ OncePerClient' /\ Waiting'
  BY <1>1, <1>2, <1>3 DEF Untouched, OncePerClient, Waiting
<1>6. Held' = All(m) \cup (IF m.listed THEN m.tokens ELSE {}) \cup todo'
  BY <1>1 DEF Held, All, Clients
<1>7. Kept
  BY <1>1, <1>2, <1>3, <1>6, HeldIs DEF Kept
<1> QED
  BY <1>4, <1>5, <1>7 DEF IInv

\* At version 7 an entry is no earlier release's.
LEMMA UpToDate == Values /\ store.version = 7 => Untouched
BY DEF Untouched

LEMMA SetUpStep == IInv /\ SetUp => IInv' /\ Kept
<1> SUFFICES ASSUME IInv, SetUp PROVE IInv' /\ Kept
  OBVIOUS
<1>1. /\ store \in Stores /\ store.version = 7 /\ entry' = "setup" /\ todo = {}
      /\ todo' = (IF store.listed THEN store.tokens \ Known ELSE {})
      /\ store' = (IF todo' = {} THEN WithoutOption(store) ELSE store)
  BY DEF SetUp, IInv, Values, Waiting
<1>2. UNCHANGED <<reload, form, issue, existing, mcp, moved, dropped, changes, failures>>
  BY DEF SetUp, users, bounds
<1>3. /\ store' \in Stores /\ store'.subs = store.subs /\ store'.twice = store.twice
      /\ store'.version = 7 /\ store'.uris = store.uris /\ store'.apps = store.apps
      /\ store'.scripts = store.scripts
      /\ todo' = {} => store'.listed = FALSE
      /\ todo' # {} => store' = store
  BY <1>1, WithoutOptionType
<1>4. Known' = Known
  BY <1>3 DEF Known
<1>5. todo' \subseteq Tokens
  BY <1>1, EmailsOf
<1>6. Values'
  BY <1>1, <1>2, <1>3, <1>5 DEF IInv, Values
<1>7. Untouched' /\ OncePerClient'
  BY <1>1, <1>3 DEF IInv, Untouched, OncePerClient
<1>8. Waiting'
  <2>1. CASE todo' = {}
    BY <1>1, <1>3, <2>1 DEF Waiting
  <2>2. CASE todo' # {}
    <3>1. store.listed /\ todo' = store.tokens \ Known /\ store' = store
      BY <1>1, <1>3, <2>2
    <3>2. UNCHANGED <<dropped, store>> /\ Known' = Known
      BY <1>2, <1>4, <3>1
    <3> QED
      BY <1>1, <3>1, <3>2 DEF Waiting
  <2> QED
    BY <2>1, <2>2
<1>9. All(store)' = All(store)
  BY <1>3 DEF All, Clients
<1>10. (IF store.listed THEN store.tokens ELSE {}) \subseteq Known \cup todo'
  BY <1>1
<1>11. Kept
  BY <1>1, <1>9, <1>10, HeldIs, KnownAreClients DEF Kept, Held, All
<1> QED
  BY <1>6, <1>7, <1>8, <1>11 DEF IInv

LEMMA TokenStep == ASSUME NEW t \in Tokens PROVE IInv /\ Token(t) => IInv' /\ Kept
<1> SUFFICES ASSUME IInv, Token(t) PROVE IInv' /\ Kept
  OBVIOUS
<1> DEFINE found == IF t \in existing THEN Add(store, "script", {t}) ELSE store
<1>1. /\ store \in Stores /\ entry = "setup" /\ t \in todo /\ todo' = todo \ {t}
      /\ store' = (IF todo' = {} THEN WithoutOption(found) ELSE found)
      /\ dropped' = (IF t \in existing THEN dropped ELSE dropped \cup {t})
      /\ todo \subseteq Tokens
  BY DEF Token, IInv, Values
<1>2. UNCHANGED <<entry, reload, form, issue, existing, mcp, moved, changes, failures>>
  BY DEF Token, bounds
<1>3. store.version = 7 /\ store.twice = {}
  BY <1>1, EmailsOf DEF IInv, Untouched, OncePerClient
<1>4. {t} \in SUBSET Items /\ "script" \in Kinds /\ t \notin Known
  BY <1>1 DEF Items, Kinds, IInv, Waiting
<1>5. {t} \cap Clients(store) = {}
  <2>1. SUFFICES ASSUME t \in Clients(store) PROVE FALSE
    OBVIOUS
  <2>2. PICK c \in store.subs : c[2] = t
    BY <2>1 DEF Clients
  <2>3. c[1] = "script"
    BY <1>3, <2>2 DEF IInv, OncePerClient
  <2>4. c = <<"script", t>>
    BY <1>1, <2>2, <2>3, EmailsOf
  <2> QED
    BY <1>4, <2>2, <2>4 DEF Known
<1>6. /\ found \in Stores /\ found.version = 7 /\ found.twice = {}
      /\ found.uris = store.uris /\ found.apps = store.apps /\ found.scripts = store.scripts
      /\ found.listed = store.listed /\ found.tokens = store.tokens
      /\ found.subs = (IF t \in existing THEN store.subs \cup ({"script"} \X {t})
                       ELSE store.subs)
  <2>1. CASE t \in existing
    <3> DEFINE a == Add(store, "script", {t})
    <3>1. /\ a \in Stores /\ a.version = store.version
          /\ a.twice = store.twice \cup ({t} \cap Clients(store))
          /\ a.uris = store.uris /\ a.apps = store.apps /\ a.scripts = store.scripts
          /\ Alike(a, store) /\ a.subs = store.subs \cup ({"script"} \X {t})
      BY <1>1, <1>4, AddType
    <3> HIDE DEF a
    <3>2. found = a
      BY <2>1 DEF a
    <3> HIDE DEF found
    <3> QED
      BY <1>3, <1>5, <2>1, <3>1, <3>2 DEF Alike
  <2> QED
    BY <1>1, <1>3, <2>1
<1> HIDE DEF found
<1>7. /\ store' \in Stores /\ store'.version = 7 /\ store'.twice = {}
      /\ store'.uris = store.uris /\ store'.apps = store.apps
      /\ store'.scripts = store.scripts /\ store'.subs = found.subs
      /\ todo' = {} => store'.listed = FALSE
      /\ todo' # {} => store'.listed = store.listed /\ store'.tokens = store.tokens
  BY <1>1, <1>6, WithoutOptionType
<1>8. Known' = (IF t \in existing THEN Known \cup {t} ELSE Known)
  BY <1>6, <1>7 DEF Known
<1>9. Values'
  BY <1>1, <1>2, <1>4, <1>7 DEF IInv, Values
<1>10. Untouched' /\ OncePerClient'
  BY <1>1, <1>3, <1>6, <1>7 DEF IInv, Untouched, OncePerClient
<1>11. Waiting'
  <2>1. CASE todo' = {}
    BY <1>1, <1>2, <1>7, <2>1 DEF Waiting
  <2>2. CASE todo' # {}
    <3>1. /\ todo \cap Known = {}
          /\ todo \subseteq (IF store.listed THEN store.tokens ELSE {}) \cup dropped
          /\ store.listed => store.tokens \subseteq Known \cup todo \cup dropped
      BY <1>1 DEF IInv, Waiting
    <3>2. /\ store'.listed = store.listed /\ store'.tokens = store.tokens
          /\ dropped \subseteq dropped'
      BY <1>1, <1>7, <2>2
    <3>3. todo' \cap Known' = {}
      BY <1>1, <1>8, <3>1
    <3>4. todo' \subseteq (IF store'.listed THEN store'.tokens ELSE {}) \cup dropped'
      BY <1>1, <3>1, <3>2
    <3>5. store'.listed => store'.tokens \subseteq Known' \cup todo' \cup dropped'
      BY <1>1, <1>8, <3>1, <3>2
    <3> QED
      BY <1>1, <1>2, <3>3, <3>4, <3>5 DEF Waiting
  <2> QED
    BY <2>1, <2>2
<1>12. Clients(store)' = (IF t \in existing THEN Clients(store) \cup {t} ELSE Clients(store))
  <2>1. CASE t \in existing
    <3>1. store'.subs = store.subs \cup {<<"script", t>>}
      BY <1>6, <1>7, <2>1
    <3>2. t \in Clients(store)'
      <4>1. <<"script", t>> \in store'.subs /\ <<"script", t>>[2] = t
        BY <3>1
      <4> QED
        BY <4>1 DEF Clients
    <3>3. Clients(store) \subseteq Clients(store)'
      BY <3>1 DEF Clients
    <3>4. Clients(store)' \subseteq Clients(store) \cup {t}
      BY <3>1 DEF Clients
    <3> QED
      BY <2>1, <3>2, <3>3, <3>4
  <2> QED
    BY <1>6, <1>7, <2>1 DEF Clients
<1>13. All(store) \subseteq All(store)' /\ t \in All(store)' \cup dropped'
  BY <1>1, <1>7, <1>12 DEF All
<1>14. todo \subseteq Held' \cup dropped'
  BY <1>1, <1>13 DEF Held, All
<1>15. (IF store.listed THEN store.tokens ELSE {}) \subseteq Held' \cup dropped'
  <2>1. CASE todo' = {}
    <3>1. (IF store.listed THEN store.tokens ELSE {}) \subseteq Known \cup todo \cup dropped
      BY <1>1 DEF IInv, Waiting
    <3>2. Known \subseteq Held'
      BY <1>13, KnownAreClients DEF Held, All
    <3>3. dropped \subseteq dropped'
      BY <1>1
    <3> QED
      BY <1>14, <3>1, <3>2, <3>3
  <2>2. CASE todo' # {}
    BY <1>7, <2>2 DEF Held
  <2> QED
    BY <2>1, <2>2
<1>16. Kept
  BY <1>13, <1>14, <1>15, HeldIs DEF Kept, Held, All
<1> QED
  BY <1>9, <1>10, <1>11, <1>16 DEF IInv

\* All of an entry but its addresses and what the gate is to do.
Alone(d, e) ==
    /\ d.subs = e.subs /\ d.twice = e.twice /\ d.uris = e.uris /\ d.apps = e.apps
    /\ d.scripts = e.scripts /\ d.listed = e.listed /\ d.tokens = e.tokens
    /\ d.version = e.version

\* A step that leaves the clients and what setup looks up as they are.
LEMMA AloneStep ==
    ASSUME IInv, Values', Untouched', Alone(store', store), UNCHANGED <<entry, todo, dropped>>
    PROVE  IInv' /\ Kept
<1>1. Known' = Known
  BY DEF Known, Alone
<1>2. OncePerClient' /\ Waiting'
  BY <1>1 DEF IInv, OncePerClient, Waiting, Alone
<1>3. Held' = Held /\ dropped' = dropped
  BY DEF Held, Clients, Alone
<1> QED
  BY <1>2, <1>3 DEF IInv, Kept

\* A setup that ends or has not begun takes nothing with it.
LEMMA StoppedStep ==
    ASSUME IInv, Values', UNCHANGED <<store, dropped>>, Untouched', todo' = {}, entry' # "setup"
    PROVE  IInv' /\ Kept
<1>1. OncePerClient' /\ Waiting'
  BY DEF IInv, OncePerClient, Waiting
<1>2. All(store)' = All(store)
  BY DEF All, Clients
<1>3. todo \subseteq (IF store.listed THEN store.tokens ELSE {}) \cup dropped
  BY DEF IInv, Waiting
<1>4. Kept
  BY <1>2, <1>3, HeldIs DEF Kept, Held, All, Clients
<1> QED
  BY <1>1, <1>4 DEF IInv

LEMMA StoppingSteps ==
    ASSUME NEW kind \in Errors
    PROVE  IInv /\ (SetUpFails(kind) \/ Restart \/ Reload \/ SetUpDone) => IInv' /\ Kept
<1> SUFFICES ASSUME IInv, SetUpFails(kind) \/ Restart \/ Reload \/ SetUpDone PROVE IInv' /\ Kept
  OBVIOUS
<1> USE DEF users, bounds
<1>1. /\ UNCHANGED <<store, dropped, existing>> /\ todo' = {}
      /\ entry' \in {"down", "loaded", "retry", "error"}
      /\ form' \in {form, NoForm} /\ issue' \in {issue, FALSE, Conflict(store)}
      /\ entry' # "down" => entry = "setup"
      /\ entry' # "loaded" => issue' \in {issue, FALSE}
  <2>1. CASE SetUpFails(kind)
    BY <2>1 DEF SetUpFails, OnFailure, Ends
  <2>2. CASE Restart
    BY <2>2 DEF Restart
  <2>3. CASE Reload
    BY <2>3 DEF Reload, IInv, Waiting
  <2>4. CASE SetUpDone
    BY <2>4 DEF SetUpDone, Check
  <2> QED
    BY <2>1, <2>2, <2>3, <2>4
<1>2. changes' \in 0 .. MaxChanges /\ failures' \in 0 .. MaxFailures
  BY EntryStoreAssumption
     DEF IInv, Values, SetUpFails, Restart, Reload, SetUpDone, Change, OnFailure, Ends
<1>3. Values'
  BY <1>1, <1>2 DEF IInv, Values
<1>4. Untouched'
  BY <1>1 DEF IInv, Untouched
<1> QED
  BY <1>1, <1>3, <1>4, StoppedStep

LEMMA AloneSteps ==
    IInv /\ (\/ Refresh \/ AskReload \/ OpenForm \/ SecretUrl \/ SwitchMcp
             \/ \E t \in Tokens : RemoveToken(t))
        => IInv' /\ Kept
<1> SUFFICES ASSUME IInv, \/ Refresh \/ AskReload \/ OpenForm \/ SecretUrl \/ SwitchMcp
                          \/ \E t \in Tokens : RemoveToken(t)
             PROVE IInv' /\ Kept
  OBVIOUS
<1> USE DEF users, bounds
<1>1. /\ UNCHANGED <<store, entry, todo, dropped>> /\ existing' \subseteq existing
      /\ form' \in {form, FormOf(store)}
      /\ store.version < 7 => form' = form /\ issue' = issue
      /\ changes' \in 0 .. MaxChanges /\ failures' \in 0 .. MaxFailures
  <2>1. CASE Refresh
    BY <2>1 DEF Refresh, IInv, Values, Untouched
  <2>2. CASE OpenForm
    BY <2>2 DEF OpenForm, IInv, Values
  <2>3. CASE SecretUrl
    <3>1. issue /\ UNCHANGED <<store, entry, todo, form, existing, dropped, failures>>
      BY <2>3 DEF SecretUrl
    <3>2. changes' \in 0 .. MaxChanges /\ failures \in 0 .. MaxFailures
      BY <2>3, EntryStoreAssumption DEF SecretUrl, IInv, Values, Change
    <3> QED
      BY <3>1, <3>2 DEF IInv, Untouched
  <2>4. CASE SwitchMcp
    <3>1. UNCHANGED <<store, entry, todo, form, existing, dropped, issue, failures>>
      BY <2>4 DEF SwitchMcp
    <3>2. changes' \in 0 .. MaxChanges /\ failures \in 0 .. MaxFailures
      BY <2>4, EntryStoreAssumption DEF SwitchMcp, IInv, Values, Change
    <3> QED
      BY <3>1, <3>2
  <2>5. CASE \E t \in Tokens : RemoveToken(t)
    BY <2>5, EntryStoreAssumption DEF RemoveToken, IInv, Values, Change
  <2>6. CASE AskReload
    BY <2>6, EntryStoreAssumption DEF AskReload, IInv, Values, Change
  <2> QED
    BY <2>1, <2>2, <2>3, <2>4, <2>5, <2>6
<1>2. FormOf(store) \in Forms
  BY FormType DEF IInv, Values
<1>3. Values'
  BY <1>1, <1>2 DEF IInv, Values
<1>4. Untouched'
  BY <1>1 DEF IInv, Untouched
<1> QED
  BY <1>1, <1>3, <1>4, AloneStep DEF Alone

LEMMA OpenPathStep == IInv /\ OpenPath => IInv' /\ Kept
<1> SUFFICES ASSUME IInv, OpenPath PROVE IInv' /\ Kept
  OBVIOUS
<1>1. /\ store \in Stores /\ store' = [store EXCEPT !.open = TRUE]
      /\ UNCHANGED <<entry, todo, form, existing, dropped, failures>> /\ issue
      /\ changes' \in 0 .. MaxChanges
  BY EntryStoreAssumption DEF OpenPath, users, IInv, Values, Change
<1>2. store' \in Stores /\ Alone(store', store)
  BY <1>1 DEF Stores, Alone
<1>3. Values'
  BY <1>1, <1>2 DEF IInv, Values
<1>4. Untouched'
  BY <1>1, <1>2 DEF IInv, Untouched, Alone
<1> QED
  BY <1>1, <1>2, <1>3, <1>4, AloneStep

LEMMA RepairStep ==
    ASSUME NEW p \in People, NEW a \in Addresses \cup {None}
    PROVE  IInv /\ Repair(p, a) => IInv' /\ Kept
<1> SUFFICES ASSUME IInv, Repair(p, a) PROVE IInv' /\ Kept
  OBVIOUS
<1>1. /\ store \in Stores /\ store' = [store EXCEPT !.emails = GiveTo(p, a)]
      /\ UNCHANGED <<entry, todo, form, existing, dropped, failures, issue>>
      /\ changes' \in 0 .. MaxChanges /\ store.version = 7
  BY EntryStoreAssumption DEF Repair, users, IInv, Values, Change
<1>2. GiveTo(p, a) \in Emails
  BY <1>1, EmailsOf DEF GiveTo, Emails
<1>3. store' \in Stores /\ Alone(store', store)
  BY <1>1, <1>2 DEF Stores, Alone
<1>4. Values'
  BY <1>1, <1>3 DEF IInv, Values
<1>5. Untouched'
  BY <1>1, <1>3 DEF Untouched, Alone
<1> QED
  BY <1>1, <1>3, <1>4, <1>5, AloneStep

LEMMA RemoveClientStep ==
    ASSUME NEW kind \in Kinds, NEW i \in Items
    PROVE  IInv /\ RemoveClient(kind, i) => IInv' /\ Kept
<1> SUFFICES ASSUME IInv, RemoveClient(kind, i) PROVE IInv' /\ Kept
  OBVIOUS
<1>1. /\ store \in Stores /\ store' = [store EXCEPT !.subs = @ \ {<<kind, i>>}]
      /\ UNCHANGED <<entry, todo, form, existing, failures>> /\ dropped' = dropped \cup {i}
      /\ changes' \in 0 .. MaxChanges /\ store.version = 7
  BY EntryStoreAssumption DEF RemoveClient, IInv, Values, Change
<1>2. /\ store' \in Stores /\ store'.subs = store.subs \ {<<kind, i>>}
      /\ store'.twice = store.twice /\ store'.version = 7 /\ store'.uris = store.uris
      /\ store'.apps = store.apps /\ store'.scripts = store.scripts
      /\ store'.listed = store.listed /\ store'.tokens = store.tokens
  BY <1>1 DEF Stores
<1>3. Values'
  BY <1>1, <1>2 DEF IInv, Values
<1>4. Untouched' /\ OncePerClient'
  BY <1>1, <1>2 DEF IInv, Untouched, OncePerClient
<1>5. Known' \subseteq Known /\ Known \subseteq Known' \cup {i}
  BY <1>2 DEF Known
<1>6. Waiting'
  <2>1. /\ todo \cap Known = {} /\ (entry # "setup" => todo = {})
        /\ todo \subseteq (IF store.listed THEN store.tokens ELSE {}) \cup dropped
        /\ entry = "setup" /\ store.listed => store.tokens \subseteq Known \cup todo \cup dropped
    BY DEF IInv, Waiting
  <2> QED
    BY <1>1, <1>2, <1>5, <2>1 DEF Waiting
<1>7. Clients(store) \subseteq Clients(store)' \cup {i}
  <2>1. ASSUME NEW c \in store.subs, c[2] # i PROVE c \in store'.subs
    BY <1>2, <2>1
  <2> QED
    BY <2>1 DEF Clients
<1>8. Kept
  BY <1>1, <1>2, <1>7 DEF Kept, Held
<1> QED
  BY <1>3, <1>4, <1>6, <1>8 DEF IInv

LEMMA SubmitStep ==
    ASSUME NEW p \in People, NEW a \in Addresses \cup {None}, NEW g \in BOOLEAN, NEW o \in BOOLEAN
    PROVE  IInv /\ Submit(p, a, g, o) => IInv' /\ Kept
<1> SUFFICES ASSUME IInv, Submit(p, a, g, o) PROVE IInv' /\ Kept
  OBVIOUS
<1> DEFINE emails == Parsed(Entered(p, a))
           w == WithoutOption(store)
<1>1. /\ store \in Stores /\ store' = [w EXCEPT !.emails = emails, !.gate = g, !.open = o]
      /\ UNCHANGED <<entry, todo, existing, failures, issue>>
      /\ dropped' = dropped \cup Unmigrated /\ form' = NoForm /\ form \in Forms
      /\ changes' \in 0 .. MaxChanges
  BY EntryStoreAssumption DEF Submit, IInv, Values, Change
<1>2. store.version = 7
  BY <1>1, EmailsOf DEF IInv, Untouched, Submit
<1>3. emails \in Emails
  BY <1>1, ParsedType
<1>4. /\ w \in Stores /\ w.listed = FALSE /\ w.subs = store.subs /\ w.twice = store.twice
      /\ w.version = store.version /\ w.uris = store.uris /\ w.apps = store.apps
      /\ w.scripts = store.scripts
  BY <1>1, WithoutOptionType
<1>5. Unmigrated = (IF store.listed THEN store.tokens \ Known ELSE {}) /\ Unmigrated \subseteq Items
  BY <1>1, EmailsOf DEF Unmigrated, Items
<1> HIDE DEF emails, w
<1>6. /\ store' \in Stores /\ store'.listed = FALSE /\ store'.subs = w.subs
      /\ store'.twice = w.twice /\ store'.version = w.version /\ store'.uris = w.uris
      /\ store'.apps = w.apps /\ store'.scripts = w.scripts
  BY <1>1, <1>3, <1>4 DEF Stores
<1>7. Values'
  BY <1>1, <1>5, <1>6 DEF IInv, Values
<1>8. Untouched' /\ OncePerClient'
  BY <1>2, <1>4, <1>6 DEF IInv, Untouched, OncePerClient
<1>9. Known' = Known /\ Clients(store)' = Clients(store)
  BY <1>4, <1>6 DEF Known, Clients
<1>10. /\ todo \cap Known = {} /\ (entry # "setup" => todo = {})
       /\ todo \subseteq (IF store.listed THEN store.tokens ELSE {}) \cup dropped
  BY DEF IInv, Waiting
<1>11. todo \subseteq dropped'
  BY <1>1, <1>5, <1>10
<1>12. Waiting'
  BY <1>1, <1>6, <1>9, <1>10, <1>11 DEF Waiting
<1>13. (IF store.listed THEN store.tokens ELSE {}) \subseteq Known \cup dropped'
  BY <1>1, <1>5
<1>14. Kept
  BY <1>4, <1>6, <1>9, <1>11, <1>13, HeldIs, KnownAreClients DEF Kept, Held, All
<1> QED
  BY <1>7, <1>8, <1>12, <1>14 DEF IInv

LEMMA Step == IInv /\ [Next]_vars => IInv' /\ Kept
<1> SUFFICES ASSUME IInv, [Next]_vars PROVE IInv' /\ Kept
  OBVIOUS
<1>1. CASE UNCHANGED vars
  <2>1. Values' /\ Untouched' /\ Alone(store', store) /\ UNCHANGED <<entry, todo, dropped>>
    BY <1>1 DEF vars, IInv, Values, Untouched, Alone
  <2> QED
    BY <2>1, AloneStep
<1>2. CASE \E p \in People, a \in Addresses \cup {None} :
              Repair(p, a) \/ \E g, o \in BOOLEAN : Submit(p, a, g, o)
  BY <1>2, RepairStep, SubmitStep
<1>3. CASE (\E kind \in Errors : SetUpFails(kind)) \/ Restart \/ Reload \/ SetUpDone
  <2>1. Errors # {}
    BY DEF Errors
  <2> QED
    BY <1>3, <2>1, StoppingSteps
<1> QED
  BY <1>1, <1>2, <1>3, MigrateStep, SetUpStep, TokenStep, AloneSteps, OpenPathStep,
     RemoveClientStep DEF Next, SetUpNext


-----------------------------------------------------------------------------
(* Theorems.                                                               *)

LEMMA Invariant == Spec => [](IInv /\ Flags)
<1>1. IInv /\ Flags /\ [Next]_vars => (IInv /\ Flags)'
  BY Step, FlagsStep
<1> QED
  BY <1>1, InitInv, PTL DEF Spec

\* Every state of an entry is of its type, whichever release left it: migrations, the
\* options form and the repairs write nothing else.
THEOREM TypeCorrect == Spec => []TypeOK
<1>1. IInv /\ Flags => TypeOK
  BY DEF IInv, Values, Flags, Forms, TypeOK
<1> QED
  BY <1>1, Invariant, PTL

\* No client is ever added twice, by a migration that moves clients between releases'
\* places (async_migrate_entry), nor by setups that take up the tokens a failed one left.
THEOREM ClientsOnce == Spec => []NoDuplicateClients
<1>1. IInv => NoDuplicateClients
  BY DEF IInv, OncePerClient, NoDuplicateClients
<1> QED
  BY <1>1, Invariant, PTL

\* No client an entry has, wherever its release kept it, is lost by a step that does not
\* remove it, however setups fail, restart and race the options form.
THEOREM ClientsKept == Spec => NothingLost
<1>1. IInv /\ [Next]_vars => [Held \subseteq Held' \cup dropped']_vars
  BY Step DEF Kept
<1> QED
  BY <1>1, Invariant, PTL DEF Spec, NothingLost

LEMMA McpStep ==
    store \in Stores /\ Flags /\ McpIssueTrue /\ [Next]_vars => McpIssueTrue'
<1> SUFFICES ASSUME store \in Stores, Flags, McpIssueTrue, [Next]_vars,
                    entry' = "loaded", ~reload', ~moved'
             PROVE  issue' <=> store'.gate /\ mcp' /\ ~store'.open
  BY DEF McpIssueTrue
<1> USE DEF users, bounds
<1>1. CASE \/ Migrate \/ SetUp \/ Reload \/ Restart \/ \E t \in Tokens : Token(t)
           \/ \E kind \in Errors : SetUpFails(kind)
  <2>1. entry' # "loaded"
    BY <1>1 DEF Migrate, SetUp, SetUpFails, Ends, Reload, Restart, Token
  <2> QED
    BY <2>1
<1>2. CASE SetUpDone \/ Refresh
  <2>1. issue' = Conflict(store) /\ mcp' = mcp /\ store' = store
    BY <1>2 DEF SetUpDone, Refresh, Check
  <2> QED
    BY <2>1, Zenon DEF Conflict
<1>3. CASE OpenPath \/ SwitchMcp \/ AskReload
  BY <1>3 DEF OpenPath, SwitchMcp, AskReload
<1>4. CASE \E p \in People, a \in Addresses \cup {None} :
              Repair(p, a) \/ \E g, o \in BOOLEAN : Submit(p, a, g, o)
  BY <1>4 DEF Repair, Submit
<1>5. CASE SecretUrl
  BY <1>5 DEF SecretUrl
<1>6. CASE OpenForm \/ (\E t \in Tokens : RemoveToken(t)) \/ UNCHANGED vars
  <2>1. UNCHANGED <<store, entry, reload, mcp, issue, moved>>
    BY <1>6 DEF OpenForm, RemoveToken, vars
  <2> QED
    BY <2>1 DEF McpIssueTrue
<1>7. CASE \E kind \in Kinds, i \in Items : RemoveClient(kind, i)
  <2>1. UNCHANGED <<entry, reload, mcp, issue, moved>>
    BY <1>7 DEF RemoveClient
  <2>2. store'.gate = store.gate /\ store'.open = store.open
    BY <1>7 DEF RemoveClient, Stores
  <2> QED
    BY <2>1, <2>2 DEF McpIssueTrue
<1> QED
  BY <1>1, <1>2, <1>3, <1>4, <1>5, <1>6, <1>7 DEF Next, SetUpNext

\* At rest the issue about HA-MCP's login is open exactly when there is a conflict,
\* whichever of setup, refresh, the form and the issue's own repair came last.
THEOREM McpIssueIsTrue == Spec => []McpIssueTrue
<1>1. Init => McpIssueTrue
  BY DEF Init, McpIssueTrue
<1>2. IInv => store \in Stores
  BY DEF IInv, Values
<1> QED
  BY <1>1, <1>2, McpStep, Invariant, PTL DEF Spec


-----------------------------------------------------------------------------
(* Login e-mails.  The form's fields are keyed by name, so a field two     *)
(* people share takes away an address nobody named (the run                *)
(* store_same_name); what follows is that nobody else's is.                *)

Apart == People \ Namesakes

\* An open form shows whoever shares no field the address stored when it was opened.
ShowsStored == form # NoForm => \A p \in Apart : form.emails[p] = form.read[p]

\* A chosen last position is one of the positions asked for.
LEMMA LatestType ==
    ASSUME NEW ks \in SUBSET (1 .. Len(Order)), ks # {}
    PROVE  Latest(ks) \in ks
<1> DEFINE N == Len(Order)
           R == OpToRel(<, Nat)
           back == {N - k : k \in ks}
<1>1. N \in Nat /\ \A k \in ks : k \in 1 .. N
  BY EntryStoreAssumption
<1>2. back \subseteq Nat /\ back # {}
  <2>1. \A k \in ks : N - k \in Nat
    <3> HIDE DEF N
    <3> QED
      BY <1>1
  <2>2. PICK k \in ks : TRUE
    OBVIOUS
  <2> HIDE DEF N
  <2> QED
    BY <2>1, <2>2
<1>3. IsWellFoundedOn(R, Nat)
  BY NatLessThanWellFounded
<1>4. \A jk \in Nat \X Nat : jk[1] < jk[2] => jk \in R
  BY Zenon DEF OpToRel
<1> HIDE DEF R
<1>5. PICK b \in back : \A c \in back : ~(<<c, b>> \in R)
  <2> HIDE DEF back
  <2> QED
    BY <1>2, <1>3, WFMin
<1>6. PICK k \in ks : b = N - k
  BY <1>5
<1>7. ASSUME NEW j \in ks PROVE j <= k
  <2>1. N - j \in back /\ N - j \in Nat /\ b \in Nat
    BY <1>1, <1>2, <1>5
  <2>2. <<N - j, b>> \in Nat \X Nat /\ <<N - j, b>>[1] = N - j /\ <<N - j, b>>[2] = b
    BY <2>1
  <2>3. ~(N - j < b)
    <3> HIDE DEF back, N
    <3> QED
      BY <1>4, <1>5, <2>1, <2>2
  <2> QED
    BY <1>1, <1>6, <2>1, <2>3
<1> QED
  BY <1>6, <1>7 DEF Latest

LEMMA NamesTellApart ==
    ASSUME NEW p \in Apart, NEW q \in People, Name[p] = Name[q]
    PROVE  p = q
BY EntryStoreAssumption DEF Namesakes, Apart

\* A form that is opened shows whoever shares no field their own address.
LEMMA FormShowsStored ==
    ASSUME NEW e \in Stores, NEW p \in Apart
    PROVE  FormOf(e).emails[p] = FormOf(e).read[p]
<1>0. p \in People
  BY DEF Apart
<1>1. Shown(e, Name[p]) = e.emails[p]
  <2>1. PICK k \in 1 .. Len(Order) : p = Order[k]
    BY <1>0 DEF People
  <2>2. k \in Called(Name[p])
    BY <2>1 DEF Called
  <2>3. Earliest(Called(Name[p])) \in Called(Name[p])
    BY <2>2, EarliestType
  <2>4. Order[Earliest(Called(Name[p]))] \in People
        /\ Name[Order[Earliest(Called(Name[p]))]] = Name[p]
    BY <2>3 DEF Called, People
  <2> QED
    BY <2>4, NamesTellApart DEF Shown
<1> QED
  BY <1>0, <1>1 DEF FormOf

\* The map the form's fields are read with has everyone whose address is not a username
\* and who shares no field.
LEMMA EveryoneInMap ==
    ASSUME NEW p \in Apart, p \notin ByUsername
    PROVE  InMap(p)
<1> DEFINE ks == {k \in Called(Name[p]) : Order[k] \notin ByUsername}
<1>1. PICK k \in 1 .. Len(Order) : p = Order[k]
  BY DEF People, Apart
<1>2. k \in ks /\ ks \in SUBSET (1 .. Len(Order))
  BY <1>1 DEF Called
<1>3. Latest(ks) \in ks
  <2> HIDE DEF ks
  <2> QED
    BY <1>2, LatestType
<1>4. Order[Latest(ks)] \in People /\ Name[Order[Latest(ks)]] = Name[p]
  BY <1>3 DEF Called, People
<1> QED
  BY <1>4, NamesTellApart DEF InMap

LEMMA ShowsStoredStep == IInv /\ ShowsStored /\ [Next]_vars => ShowsStored'
<1> SUFFICES ASSUME IInv, ShowsStored, [Next]_vars PROVE ShowsStored'
  OBVIOUS
<1> USE DEF users, bounds
<1>1. CASE OpenForm
  <2>1. form' = FormOf(store) /\ store \in Stores
    BY <1>1 DEF OpenForm, IInv, Values
  <2> QED
    BY <2>1, FormShowsStored DEF ShowsStored
<1>2. CASE Restart \/ \E p \in People, a \in Addresses \cup {None}, g, o \in BOOLEAN :
                          Submit(p, a, g, o)
  BY <1>2 DEF Restart, Submit, ShowsStored
<1>3. CASE Migrate \/ SetUp \/ SetUpDone \/ Reload \/ \E t \in Tokens : Token(t)
  BY <1>3 DEF Migrate, SetUp, SetUpDone, Reload, Token, ShowsStored
<1>4. CASE \/ Refresh \/ AskReload \/ OpenPath \/ SecretUrl \/ SwitchMcp \/ UNCHANGED vars
           \/ \E kind \in Errors : SetUpFails(kind)
  BY <1>4 DEF SetUpFails, AskReload, Refresh, OpenPath, SecretUrl, SwitchMcp, vars, ShowsStored
<1>5. CASE \/ \E p \in People, a \in Addresses \cup {None} : Repair(p, a)
           \/ \E kind \in Kinds, i \in Items : RemoveClient(kind, i)
           \/ \E t \in Tokens : RemoveToken(t)
  BY <1>5 DEF Repair, RemoveClient, RemoveToken, ShowsStored
<1> QED
  BY <1>1, <1>2, <1>3, <1>4, <1>5 DEF Next, SetUpNext

\* One person's address at most moved, of those with a field of their own.
LEMMA OneMoved ==
    ASSUME NEW p \in People, Moved \ Namesakes \subseteq {p}, store.version < 7 => Taken = {}
    PROVE  TakesOne(Namesakes)
<1>1. Taken \subseteq Moved \cup ByUsername
  BY DEF Taken, Moved
<1>2. CASE Moved \ Namesakes = {}
  BY <1>1, <1>2 DEF TakesOne
<1>3. CASE Moved \ Namesakes = {p}
  <2>1. Cardinality(Moved \ Namesakes) = 1
    BY <1>3, FS_Singleton
  <2> QED
    BY <2>1 DEF TakesOne
<1> QED
  BY <1>2, <1>3

\* A form that shows what is stored moves one address, and drops those of usernames.
LEMMA SubmitMovesOne ==
    ASSUME IInv, ShowsStored, form.read = store.emails,
           NEW p \in People, NEW a \in Addresses \cup {None}, NEW g \in BOOLEAN, NEW o \in BOOLEAN,
           Submit(p, a, g, o)
    PROVE  Moved \ Namesakes \subseteq {p}
<1>1. /\ store \in Stores /\ form # NoForm
      /\ \A q \in Apart : form.emails[q] = store.emails[q]
      /\ store' = [WithoutOption(store) EXCEPT !.emails = Parsed(Entered(p, a)),
                                               !.gate = g, !.open = o]
  BY DEF Submit, IInv, Values, ShowsStored
<1>2. store'.emails = Parsed(Entered(p, a))
  <2>1. WithoutOption(store) \in Stores
    BY <1>1, WithoutOptionType
  <2> QED
    BY <1>1, <2>1 DEF Stores
<1>3. ASSUME NEW q \in Apart, q \notin ByUsername, q # p
      PROVE  store'.emails[q] = store.emails[q]
  <2>1. Name[q] # Name[p] /\ q \in People
    BY <1>3, NamesTellApart DEF Apart
  <2>2. Entered(p, a)[q] = store.emails[q]
    BY <1>1, <2>1 DEF Entered
  <2> QED
    BY <1>2, <1>3, <2>1, <2>2, EveryoneInMap DEF Parsed
<1> QED
  BY <1>3 DEF Moved, Apart

LEMMA OneFieldStep == IInv /\ ShowsStored /\ [Next]_vars => [TakesOne(Namesakes)]_vars
<1> SUFFICES ASSUME IInv, ShowsStored, [Next]_vars PROVE [TakesOne(Namesakes)]_vars
  OBVIOUS
<1>0. store \in Stores
  BY DEF IInv, Values
<1>1. CASE Migrate
  <2>1. Readable(store) /\ store' = Migrated(store)
    BY <1>1 DEF Migrate, IInv, Untouched
  <2>2. Stay(store', store)
    BY <2>1, MigratedKeeps
  <2>3. Taken = {}
    BY <2>2 DEF Stay, Taken
  <2> QED
    BY <2>3 DEF TakesOne
<1>2. ASSUME NEW p \in People, NEW a \in Addresses \cup {None}, Repair(p, a) PROVE TakesOne(Namesakes)
  <2>1. store' = [store EXCEPT !.emails = GiveTo(p, a)] /\ store.version = 7
    BY <1>2 DEF Repair
  <2>2. store'.emails = [store.emails EXCEPT ![p] = a]
    BY <1>0, <2>1 DEF GiveTo, Stores
  <2>3. Moved \ Namesakes \subseteq {p}
    BY <1>0, <2>2, EmailsOf DEF Moved, Emails
  <2> QED
    BY <2>1, <2>3, OneMoved
<1>3. ASSUME NEW p \in People, NEW a \in Addresses \cup {None}, NEW g \in BOOLEAN, NEW o \in BOOLEAN,
             Submit(p, a, g, o)
      PROVE  TakesOne(Namesakes)
  <2>1. form # NoForm /\ form' = NoForm
    BY <1>3 DEF Submit
  <2>2. ~(store.version < 7)
    BY <2>1 DEF IInv, Untouched
  <2>3. CASE form.read = store.emails
    <3>1. Moved \ Namesakes \subseteq {p}
      BY <1>3, <2>3, SubmitMovesOne
    <3> QED
      BY <2>2, <3>1, OneMoved
  <2>4. CASE form.read # store.emails
    BY <2>1, <2>2, <2>4 DEF TakesOne
  <2> QED
    BY <2>3, <2>4
<1>4. CASE store'.emails = store.emails
  <2>1. Taken = {}
    BY <1>4 DEF Taken
  <2> QED
    BY <2>1 DEF TakesOne
<1>5. CASE SetUp \/ (\E kind \in Errors : SetUpFails(kind)) \/ \E t \in Tokens : Token(t)
  <2>1. ASSUME NEW t \in Tokens, Token(t) PROVE store'.emails = store.emails
    <3> DEFINE found == IF t \in existing THEN Add(store, "script", {t}) ELSE store
    <3>1. {t} \in SUBSET Items /\ "script" \in Kinds
      BY DEF Items, Kinds
    <3>2. found \in Stores /\ found.emails = store.emails
      BY <1>0, <3>1, AddType DEF Alike
    <3>3. store' = (IF todo' = {} THEN WithoutOption(found) ELSE found)
      BY <2>1 DEF Token
    <3> HIDE DEF found
    <3> QED
      BY <3>2, <3>3, WithoutOptionType
  <2>2. ASSUME SetUp \/ \E kind \in Errors : SetUpFails(kind) PROVE store'.emails = store.emails
    BY <1>0, <2>2, WithoutOptionType DEF SetUp, SetUpFails, OnFailure
  <2> QED
    BY <1>4, <1>5, <2>1, <2>2
<1>6. CASE OpenPath \/ \E kind \in Kinds, i \in Items : RemoveClient(kind, i)
  <2>1. store'.emails = store.emails
    BY <1>0, <1>6 DEF OpenPath, RemoveClient, Stores
  <2> QED
    BY <1>4, <2>1
<1>7. CASE \/ SetUpDone \/ Reload \/ Refresh \/ OpenForm \/ SecretUrl \/ SwitchMcp \/ Restart
           \/ AskReload \/ \E t \in Tokens : RemoveToken(t)
  <2>1. store' = store
    BY <1>7 DEF SetUpDone, Reload, Refresh, OpenForm, SecretUrl, SwitchMcp, Restart,
           AskReload, RemoveToken
  <2> QED
    BY <1>4, <2>1
<1> QED
  BY <1>1, <1>2, <1>3, <1>5, <1>6, <1>7 DEF Next, SetUpNext

\* Of the people who share no field of the form a step takes away the address of one at
\* most, the one its field or its repair names, and a migration takes nobody's
\* (config_flow.py, _parse_people; repairs.py, DeniedLoginFlow).  Two exceptions: a form
\* opened before another change writes back all it showed, and a save leaves out the
\* addresses of those whose login username names them.
THEOREM FieldsApart == Spec => OthersKeepTheirs
<1>1. Init => ShowsStored
  BY DEF Init, ShowsStored
<1>2. IInv /\ ShowsStored /\ [Next]_vars => ShowsStored' /\ [TakesOne(Namesakes)]_vars
  BY ShowsStoredStep, OneFieldStep
<1> QED
  BY <1>1, <1>2, Invariant, PTL DEF Spec, OthersKeepTheirs
=============================================================================
