---------------------------- MODULE LoginsProofs ----------------------------
(***************************************************************************)
(* Theorems about Logins, for all applications, retentions, page sizes and *)
(* numbers of pages, and every order of logins, polls, expiries, failures, *)
(* reloads and restarts.                                                   *)
(***************************************************************************)
EXTENDS Logins, TLAPS, FiniteSetTheorems, SequenceTheorems, WellFoundedInduction

-----------------------------------------------------------------------------
(* The invariant.                                                          *)

LogEntries == [time : Time, app : Apps, ok : BOOLEAN]

Polls == [at : {"idle", "list", "save"}, since : (0 - Retention) .. MaxTime,
          batch : Seq(Entries), page : 1 .. MaxPages]

Active == entry \in {"setup", "loaded"}

Values ==
    /\ now \in 1 .. MaxTime /\ ours \subseteq Apps /\ gone \subseteq Apps
    /\ watched \subseteq ours \cup gone
    /\ log \in Seq(LogEntries) /\ Len(log) <= MaxEntries
    /\ entry \in {"down", "setup", "loaded", "removed"}
    /\ scheduled \in BOOLEAN /\ asked \in BOOLEAN /\ moved \in BOOLEAN
    /\ poll \in Polls
    /\ cursor \in Time /\ saved \in Time
    /\ fired \in Seq(Entries) /\ mark \in 0 .. Len(fired)
    /\ issue \in 0 .. Len(log) /\ fixing \in 0 .. Len(log)
    /\ late \subseteq Entries /\ early \subseteq Entries /\ unsaved \subseteq Entries
    /\ failures \in 0 .. MaxFailures /\ cuts \in 0 .. MaxCuts

\* What a poll that runs has read is whole pages; what it writes about is no longer.
Paged ==
    /\ poll.at # "idle" => Active
    /\ poll.at = "list" => Len(poll.batch) = (poll.page - 1) * PageSize
    /\ Len(poll.batch) <= PageSize * MaxPages

\* Nothing is logged at the start of time, nor for a client before it has its application.
Born ==
    \A i \in Entries : log[i].time > 0 /\ (log[i].app \in Later => log[i].app \in ours \cup gone)

\* A poll asks for what follows the cursor, the first for what is still kept.
Window ==
    poll.at = "list" =>
        IF cursor = 0 THEN poll.since <= now - Retention ELSE poll.since = cursor

\* The stored cursor never overtakes the one in memory.
Behind == Active => saved <= cursor

\* What was reported is behind the stored cursor, or is being stored.
Recorded ==
    entry # "removed" =>
        \A i \in Fired \ unsaved :
            \/ log[i].time <= saved
            \/ poll.at = "save" /\ i \in ReadSoFar /\ log[i].time <= cursor

\* A cursor is the time of something reported.
OfReported(c) == c # 0 => \E i \in Fired : log[i].time = c
Backed == OfReported(cursor) /\ OfReported(saved)

\* While the pages stand still, what was read is the beginning of the listing.
Prefix ==
    poll.at = "list" /\ ~moved =>
        \A k \in 1 .. Len(poll.batch) :
            k \in 1 .. Len(Listing(poll.since)) /\ poll.batch[k] = Listing(poll.since)[k]

\* Every login of the entry's up to a time was reported, or there is an excuse.
Passed(c) ==
    \A i \in Entries :
        log[i].time <= c /\ log[i].app \in ours =>
            i \in Fired \cup late \cup early \/ moved \/ ~Kept(i)
AllPassed == Passed(cursor) /\ Passed(saved)

\* A loaded entry has seen the logins of all its applications, or is told so.
Noticed == Active => \A i \in Entries : log[i].app \in ours \ watched => i \in early

LoginsInv ==
    /\ Values /\ Paged /\ Born /\ Window /\ Behind /\ Recorded /\ Backed /\ Prefix
    /\ AllPassed /\ Noticed
    /\ InOrder /\ NothingReplayed /\ IssueNamesNewest


-----------------------------------------------------------------------------
(* Sorting.                                                                *)

Timed(S, t) == S \subseteq Nat /\ IsFiniteSet(S) /\ \A i \in S : t[i] \in Int

Ahead(S, t, i) == {j \in S : Before(t, j, i)}

LEMMA AheadType ==
    ASSUME NEW S, NEW t, Timed(S, t), NEW i \in S
    PROVE  /\ IsFiniteSet(Ahead(S, t, i)) /\ i \notin Ahead(S, t, i)
           /\ Rank(S, t, i) = Cardinality(Ahead(S, t, i))
           /\ Rank(S, t, i) \in 0 .. Cardinality(S) - 1
<1>1. IsFiniteSet(S) /\ Cardinality(S) \in Nat
  BY FS_CardinalityType DEF Timed
<1>2. i \notin Ahead(S, t, i)
  BY DEF Ahead, Before, Timed
<1>3. Ahead(S, t, i) \in SUBSET S
  BY DEF Ahead
<1>4. /\ IsFiniteSet(Ahead(S, t, i))
      /\ Cardinality(Ahead(S, t, i)) <= Cardinality(S)
      /\ Cardinality(S) = Cardinality(Ahead(S, t, i)) => S = Ahead(S, t, i)
  BY <1>1, <1>3, FS_Subset
<1>5. Cardinality(Ahead(S, t, i)) \in Nat
  BY <1>4, FS_CardinalityType
<1>6. Cardinality(Ahead(S, t, i)) # Cardinality(S)
  BY <1>2, <1>4
<1>7. Rank(S, t, i) = Cardinality(Ahead(S, t, i))
  BY DEF Rank, Ahead
<1> HIDE DEF Rank, Ahead
<1> QED
  BY <1>1, <1>2, <1>4, <1>5, <1>6, <1>7

\* What comes before something that comes before is fewer.
LEMMA RankGrows ==
    ASSUME NEW S, NEW t, Timed(S, t), NEW i \in S, NEW j \in S, Before(t, i, j)
    PROVE  Rank(S, t, i) < Rank(S, t, j)
<1>1. Ahead(S, t, i) \in SUBSET Ahead(S, t, j)
  <2> SUFFICES ASSUME NEW k \in S, Before(t, k, i) PROVE Before(t, k, j)
    BY DEF Ahead
  <2>1. i \in Int /\ j \in Int /\ k \in Int /\ t[i] \in Int /\ t[j] \in Int /\ t[k] \in Int
    BY DEF Timed
  <2> QED
    BY <2>1 DEF Before
<1>2. i \in Ahead(S, t, j) /\ i \notin Ahead(S, t, i)
  BY AheadType DEF Ahead
<1>3. /\ IsFiniteSet(Ahead(S, t, j)) /\ Rank(S, t, j) = Cardinality(Ahead(S, t, j))
      /\ Rank(S, t, i) = Cardinality(Ahead(S, t, i)) /\ IsFiniteSet(Ahead(S, t, i))
  BY AheadType
<1>4. /\ Cardinality(Ahead(S, t, i)) <= Cardinality(Ahead(S, t, j))
      /\ Cardinality(Ahead(S, t, i)) # Cardinality(Ahead(S, t, j))
  BY <1>1, <1>2, <1>3, FS_Subset
<1>5. Cardinality(Ahead(S, t, i)) \in Nat /\ Cardinality(Ahead(S, t, j)) \in Nat
  BY <1>3, FS_CardinalityType
<1> QED
  BY <1>3, <1>4, <1>5

LEMMA EitherBefore ==
    ASSUME NEW S, NEW t, Timed(S, t), NEW i \in S, NEW j \in S, i # j
    PROVE  Before(t, i, j) \/ Before(t, j, i)
BY DEF Timed, Before

LEMMA RankTells ==
    ASSUME NEW S, NEW t, Timed(S, t), NEW i \in S, NEW j \in S
    PROVE  /\ Rank(S, t, i) = Rank(S, t, j) => i = j
           /\ Rank(S, t, i) < Rank(S, t, j) => Before(t, i, j)
<1>1. Rank(S, t, i) \in Int /\ Rank(S, t, j) \in Int
  BY AheadType
<1> QED
  BY <1>1, RankGrows, EitherBefore

\* Every rank is somebody's.
LEMMA RankTaken ==
    ASSUME NEW S, NEW t, Timed(S, t), NEW k \in 1 .. Cardinality(S)
    PROVE  \E i \in S : Rank(S, t, i) = k - 1
<1> DEFINE N == Cardinality(S)
           f == [i \in S |-> Rank(S, t, i) + 1]
<1>1. IsFiniteSet(S) /\ N \in Nat
  BY FS_CardinalityType DEF Timed
<1>2. \A i \in S : Rank(S, t, i) + 1 \in 1 .. N
  <2> SUFFICES ASSUME NEW i \in S PROVE Rank(S, t, i) + 1 \in 1 .. N
    OBVIOUS
  <2>1. Rank(S, t, i) \in 0 .. N - 1
    BY AheadType
  <2> QED
    BY <1>1, <2>1
<1>3. f \in [S -> 1 .. N]
  BY <1>2
<1>4. IsInjective(f)
  <2> SUFFICES ASSUME NEW i \in S, NEW j \in S, f[i] = f[j] PROVE i = j
    BY DEF IsInjective
  <2>1. Rank(S, t, i) \in Int /\ Rank(S, t, j) \in Int
    BY AheadType
  <2> QED
    BY <2>1, RankTells
<1>5. f \in Injection(S, 1 .. N)
  BY <1>3, <1>4 DEF Injection
<1>6. IsFiniteSet(1 .. N) /\ Cardinality(1 .. N) = N
  BY <1>1, FS_Interval
<1>7. f \in Surjection(S, 1 .. N)
  <2> HIDE DEF f
  <2> QED
    BY <1>5, <1>6, FS_Injection
<1>8. PICK i \in S : f[i] = k
  BY <1>7 DEF Surjection
<1>9. Rank(S, t, i) \in Int /\ Rank(S, t, i) + 1 = k
  BY <1>8, AheadType
<1> QED
  BY <1>9

LEMMA ListOf ==
    ASSUME NEW S, NEW n \in Nat, NEW f \in [1 .. n -> S]
    PROVE  f \in Seq(S) /\ Len(f) = n /\ DOMAIN f = 1 .. n
<1>1. f \in Seq(S)
  BY SeqDef
<1>2. Len(f) \in Nat /\ DOMAIN f = 1 .. Len(f)
  BY <1>1, LenProperties
<1> QED
  BY <1>1, <1>2

\* A sorted set is a list of all its elements, each once, in order.
LEMMA ByTimeSorts ==
    ASSUME NEW S, NEW t, Timed(S, t)
    PROVE  /\ Cardinality(S) \in Nat
           /\ ByTime(S, t) \in Seq(S) /\ Len(ByTime(S, t)) = Cardinality(S)
           /\ DOMAIN ByTime(S, t) = 1 .. Cardinality(S)
           /\ \A k \in 1 .. Cardinality(S) :
                 ByTime(S, t)[k] \in S /\ Rank(S, t, ByTime(S, t)[k]) = k - 1
           /\ \A i \in S :
                 /\ Rank(S, t, i) + 1 \in 1 .. Cardinality(S)
                 /\ ByTime(S, t)[Rank(S, t, i) + 1] = i
           /\ \A k, l \in 1 .. Cardinality(S) :
                 k < l => Before(t, ByTime(S, t)[k], ByTime(S, t)[l])
<1> DEFINE N == Cardinality(S)
           s == ByTime(S, t)
<1>1. N \in Nat
  BY FS_CardinalityType DEF Timed
<1>2. \A k \in 1 .. N : s[k] \in S /\ Rank(S, t, s[k]) = k - 1
  <2> SUFFICES ASSUME NEW k \in 1 .. N PROVE s[k] \in S /\ Rank(S, t, s[k]) = k - 1
    OBVIOUS
  <2>1. \E i \in S : Rank(S, t, i) = k - 1
    BY RankTaken
  <2>2. s[k] = CHOOSE i \in S : Rank(S, t, i) = k - 1
    BY DEF ByTime
  <2> HIDE DEF s
  <2> QED
    BY <2>1, <2>2
<1>3. s = [k \in 1 .. N |-> CHOOSE i \in S : Rank(S, t, i) = k - 1]
  BY DEF ByTime
<1>4. DOMAIN s = 1 .. N /\ s \in [1 .. N -> S]
  BY <1>2, <1>3
<1>5. s \in Seq(S) /\ Len(s) = N
  <2> HIDE DEF s, N
  <2> QED
    BY <1>1, <1>4, ListOf
<1> HIDE DEF s
<1>6. \A i \in S : Rank(S, t, i) + 1 \in 1 .. N /\ s[Rank(S, t, i) + 1] = i
  <2> SUFFICES ASSUME NEW i \in S
               PROVE  Rank(S, t, i) + 1 \in 1 .. N /\ s[Rank(S, t, i) + 1] = i
    OBVIOUS
  <2> DEFINE r == Rank(S, t, i)
  <2>1. r \in 0 .. N - 1
    BY AheadType
  <2> HIDE DEF r
  <2>2. r + 1 \in 1 .. N /\ (r + 1) - 1 = r
    BY <1>1, <2>1
  <2>3. s[r + 1] \in S /\ Rank(S, t, s[r + 1]) = r
    BY <1>2, <2>2
  <2>4. s[r + 1] = i
    BY <2>3, RankTells DEF r
  <2> QED
    BY <2>2, <2>4 DEF r
<1>7. \A k, l \in 1 .. N : k < l => Before(t, s[k], s[l])
  <2> SUFFICES ASSUME NEW k \in 1 .. N, NEW l \in 1 .. N, k < l PROVE Before(t, s[k], s[l])
    OBVIOUS
  <2>1. Rank(S, t, s[k]) < Rank(S, t, s[l]) /\ s[k] \in S /\ s[l] \in S
    BY <1>2
  <2> QED
    BY <2>1, RankTells
<1> QED
  BY <1>1, <1>2, <1>4, <1>5, <1>6, <1>7 DEF s

-----------------------------------------------------------------------------
(* What a poll reads, and what it handles of it.                           *)

LEMMA Positive == /\ PageSize \in Nat \ {0} /\ MaxPages \in Nat \ {0}
                  /\ Retention \in Nat \ {0} /\ MaxTime \in Nat \ {0}
BY LoginsAssumption

LEMMA EntryType ==
    ASSUME Values, NEW i \in Entries
    PROVE  /\ i \in Nat \ {0} /\ log[i].time \in Time /\ log[i].time \in Int
           /\ log[i].app \in Apps /\ log[i] \in LogEntries
<1>1. log[i] \in LogEntries
  BY DEF Values, Entries
<1>2. Len(log) \in Nat
  BY LenProperties DEF Values
<1> QED
  BY <1>1, <1>2, Positive DEF LogEntries, Time, Entries

\* What is in the log since a time, and its list.
LEMMA ListingType ==
    ASSUME Values, NEW since
    PROVE  /\ Timed(InLog(since), Stamps) /\ InLog(since) \subseteq Entries
           /\ Listing(since) \in Seq(Entries)
           /\ Len(Listing(since)) = Cardinality(InLog(since)) /\ Len(Listing(since)) \in Nat
           /\ \A k \in 1 .. Len(Listing(since)) : Listing(since)[k] \in InLog(since)
           /\ \A k, l \in 1 .. Len(Listing(since)) :
                 k < l => Before(Stamps, Listing(since)[k], Listing(since)[l])
           /\ \A i \in InLog(since) :
                 \E k \in 1 .. Len(Listing(since)) : Listing(since)[k] = i
<1>1. Len(log) \in Nat
  BY LenProperties DEF Values
<1>2. InLog(since) \in SUBSET Entries
  BY DEF InLog
<1>3. IsFiniteSet(InLog(since))
  <2>1. IsFiniteSet(Entries)
    BY <1>1, FS_Interval DEF Entries
  <2> QED
    BY <1>2, <2>1, FS_Subset
<1>4. \A i \in Entries : Stamps[i] \in Int
  BY EntryType DEF Stamps
<1>5. Timed(InLog(since), Stamps)
  BY <1>1, <1>2, <1>3, <1>4 DEF Timed, Entries
<1> HIDE DEF InLog, Stamps
<1>6. Listing(since) = ByTime(InLog(since), Stamps)
  BY DEF Listing
<1>7. Listing(since) \in Seq(InLog(since))
  BY <1>5, <1>6, ByTimeSorts
<1>8. Listing(since) \in Seq(Entries)
  BY <1>2, <1>7, SeqMonotonic
<1> QED
  BY <1>2, <1>5, <1>6, <1>8, ByTimeSorts

LEMMA PageType ==
    ASSUME Values, NEW since, NEW p \in 1 .. MaxPages
    PROVE  LET page == PageOf(since, p)
               from == (p - 1) * PageSize
           IN /\ page \in Seq(Entries) /\ Len(page) \in 0 .. PageSize /\ from \in Nat
              /\ \A k \in 1 .. Len(page) :
                    /\ from + k \in 1 .. Len(Listing(since))
                    /\ page[k] = Listing(since)[from + k]
<1> DEFINE all  == Listing(since)
           from == (p - 1) * PageSize
           last == IF p * PageSize < Len(all) THEN p * PageSize ELSE Len(all)
           page == SubSeq(all, from + 1, last)
<1>1. p \in Nat /\ p - 1 \in Nat /\ PageSize \in Nat \ {0}
  BY Positive
<1>2. from \in Nat /\ p * PageSize = from + PageSize
  BY <1>1
<1>3. Len(all) \in Nat /\ all \in Seq(Entries)
  BY ListingType
<1>4. PageOf(since, p) = page
  BY DEF PageOf
<1> HIDE DEF from, all
<1>5. last \in Int /\ last <= Len(all) /\ last <= from + PageSize
  BY <1>1, <1>2, <1>3
<1> HIDE DEF last
<1>6. \A k \in from + 1 .. last : k \in 1 .. Len(all) /\ all[k] \in Entries
  BY <1>2, <1>3, <1>5, ElementOfSeq
<1>7. /\ page \in Seq(Entries)
      /\ Len(page) = (IF from + 1 <= last THEN last - (from + 1) + 1 ELSE 0)
      /\ \A k \in 1 .. last - (from + 1) + 1 : page[k] = all[(from + 1) + k - 1]
  <2>1. from + 1 \in Int
    BY <1>2
  <2> QED
    BY <1>5, <1>6, <2>1, SubSeqProperties
<1> HIDE DEF page
<1>8. Len(page) \in 0 .. PageSize
  BY <1>1, <1>2, <1>5, <1>7
<1>9. ASSUME NEW k \in 1 .. Len(page)
      PROVE  from + k \in 1 .. Len(all) /\ page[k] = all[from + k]
  <2>1. k \in 1 .. last - (from + 1) + 1 /\ (from + 1) + k - 1 = from + k
    BY <1>2, <1>5, <1>7, <1>9
  <2> QED
    BY <1>2, <1>3, <1>5, <1>7, <2>1
<1> QED
  BY <1>2, <1>4, <1>7, <1>8, <1>9 DEF from, all

\* What counts of a list, in the order of the logins, each as often as it was read.
LEMMA HandledType ==
    ASSUME Values, NEW b \in Seq(Entries)
    PROVE  LET h == Handled(b) IN
           /\ h \in Seq(Entries) /\ Len(h) \in Nat /\ Len(h) <= Len(b)
           /\ \A k \in 1 .. Len(h) : h[k] \in Range(b) /\ h[k] \in Entries /\ Counts(h[k])
           /\ \A k, l \in 1 .. Len(h) : k < l => log[h[k]].time <= log[h[l]].time
           /\ IsInjective(b) => \A k, l \in 1 .. Len(h) : h[k] = h[l] => k = l
           /\ \A i \in Range(b) : Counts(i) => i \in Range(h)
<1> DEFINE places == {k \in DOMAIN b : Counts(b[k])}
           t      == At(b)
           order  == ByTime(places, t)
           N      == Cardinality(places)
           h      == [k \in DOMAIN order |-> b[order[k]]]
<1>0. Handled(b) = h
  BY DEF Handled, Chronological
<1>1. Len(b) \in Nat /\ DOMAIN b = 1 .. Len(b) /\ \A k \in DOMAIN b : b[k] \in Entries
  BY LenProperties, ElementOfSeq
<1>2. places \in SUBSET (1 .. Len(b))
  BY <1>1
<1>3. IsFiniteSet(places) /\ N <= Len(b)
  <2>1. IsFiniteSet(1 .. Len(b)) /\ Cardinality(1 .. Len(b)) = Len(b)
    BY <1>1, FS_Interval
  <2> HIDE DEF places
  <2> QED
    BY <1>2, <2>1, FS_Subset
<1>4. \A k \in DOMAIN b : t[k] = log[b[k]].time /\ t[k] \in Int
  BY <1>1, EntryType DEF At
<1>5. Timed(places, t)
  <2>1. \A k \in places : t[k] \in Int
    BY <1>4
  <2> HIDE DEF places, t
  <2> QED
    BY <1>1, <1>2, <1>3, <2>1 DEF Timed
<1>6. /\ N \in Nat /\ DOMAIN order = 1 .. N
      /\ \A k \in 1 .. N : order[k] \in places
      /\ \A k, l \in 1 .. N : k < l => Before(t, order[k], order[l])
      /\ \A k \in 1 .. N : Rank(places, t, order[k]) = k - 1
      /\ \A i \in places : \E k \in 1 .. N : order[k] = i
  <2> HIDE DEF places, t
  <2> QED
    BY <1>5, ByTimeSorts
<1> HIDE DEF order
<1>7. h \in [1 .. N -> Entries]
  BY <1>1, <1>6
<1>8. h \in Seq(Entries) /\ Len(h) = N /\ DOMAIN h = 1 .. N
  <2>1. N \in Nat
    BY <1>6
  <2> HIDE DEF h, N
  <2> QED
    BY <1>7, <2>1, ListOf
<1>9. \A k \in 1 .. N : h[k] = b[order[k]] /\ order[k] \in DOMAIN b /\ Counts(b[order[k]])
  BY <1>6
<1>10. \A k \in 1 .. N : h[k] \in Range(b) /\ h[k] \in Entries /\ Counts(h[k])
  BY <1>1, <1>9 DEF Range
<1>11. ASSUME NEW k \in 1 .. N, NEW l \in 1 .. N, k < l
       PROVE  log[h[k]].time <= log[h[l]].time
  <2>1. Before(t, order[k], order[l])
    BY <1>6, <1>11
  <2>2. /\ t[order[k]] = log[h[k]].time /\ t[order[l]] = log[h[l]].time
        /\ t[order[k]] \in Int /\ t[order[l]] \in Int
    BY <1>4, <1>9
  <2> HIDE DEF h, t
  <2> QED
    BY <2>1, <2>2 DEF Before
<1>12. ASSUME IsInjective(b), NEW k \in 1 .. N, NEW l \in 1 .. N, h[k] = h[l]
       PROVE  k = l
  <2>1. order[k] = order[l]
    BY <1>9, <1>12 DEF IsInjective
  <2>2. k - 1 = l - 1
    BY <1>6, <2>1
  <2> QED
    BY <1>6, <2>2
<1>13. ASSUME NEW i \in Range(b), Counts(i) PROVE i \in Range(h)
  <2>1. PICK k \in DOMAIN b : b[k] = i
    BY <1>13 DEF Range
  <2>2. PICK l \in 1 .. N : order[l] = k
    BY <1>6, <1>13, <2>1
  <2>3. h[l] = i /\ l \in DOMAIN h
    BY <1>6, <1>9, <2>1, <2>2
  <2> QED
    BY <2>3 DEF Range
<1> HIDE DEF h, N
<1> QED
  BY <1>0, <1>3, <1>6, <1>8, <1>10, <1>11, <1>12, <1>13

-----------------------------------------------------------------------------
(* What a step leaves alone.                                               *)

\* Nothing is logged and nothing reported, and no excuse is taken back.
Stands ==
    /\ log' = log /\ fired' = fired
    /\ now <= now' /\ late \subseteq late' /\ early \subseteq early'
    /\ unsaved \subseteq unsaved' /\ (moved => moved')

LEMMA StandsStep ==
    ASSUME LoginsInv, Stands, UNCHANGED <<ours, gone>>, now' \in Time,
           cursor' \in {0, cursor, saved}, saved' \in {0, cursor, saved}
    PROVE  InOrder' /\ NothingReplayed' /\ AllPassed' /\ Backed' /\ Born'
<1> USE DEF Stands
<1>1. Entries' = Entries /\ Fired' = Fired
  BY DEF Entries, Fired, Range
<1>2. InOrder'
  BY DEF LoginsInv, InOrder
<1>3. NothingReplayed'
  BY DEF LoginsInv, NothingReplayed, FiredBefore
<1>4. Born'
  BY <1>1 DEF LoginsInv, Born
<1>5. Backed'
  BY <1>1 DEF LoginsInv, Backed, OfReported
<1>6. \A i \in Entries : Kept(i)' => Kept(i)
  <2> SUFFICES ASSUME NEW i \in Entries, Kept(i)' PROVE Kept(i)
    BY Zenon
  <2>1. now \in Int /\ now' \in Int /\ Retention \in Int /\ log[i].time \in Int
    BY Positive, EntryType DEF LoginsInv, Values, Time
  <2>2. log[i].time > now' - Retention
    BY DEF Kept, KeptAt
  <2> QED
    BY <2>1, <2>2 DEF Kept, KeptAt
<1>7. Passed(0) /\ Passed(cursor) /\ Passed(saved)
  <2>1. \A i \in Entries : ~(log[i].time <= 0)
    BY EntryType DEF LoginsInv, Born
  <2> QED
    BY <2>1 DEF LoginsInv, AllPassed, Passed
<1>8. ASSUME NEW c, Passed(c),
             NEW i \in Entries, log[i].time <= c, log[i].app \in ours
      PROVE  i \in Fired' \cup late' \cup early' \/ moved' \/ ~Kept(i)'
  BY <1>1, <1>6, <1>8 DEF Passed
<1>9. AllPassed'
  <2>1. \A c \in {0, cursor, saved} : \A i \in Entries :
           log[i].time <= c /\ log[i].app \in ours =>
              i \in Fired' \cup late' \cup early' \/ moved' \/ ~Kept(i)'
    BY <1>7, <1>8
  <2>2. \A i \in Entries : log'[i].time = log[i].time /\ log'[i].app = log[i].app
    OBVIOUS
  <2> QED
    BY <1>1, <2>1, <2>2 DEF AllPassed, Passed
<1> QED
  BY <1>2, <1>3, <1>4, <1>5, <1>9

LEMMA IssueStays ==
    ASSUME LoginsInv, Stands, mark' = mark, issue' = issue,
           entry' = "removed" <=> entry = "removed"
    PROVE  IssueNamesNewest'
BY DEF LoginsInv, Stands, IssueNamesNewest

\* An issue that is closed names nothing, and no refusal is open.
LEMMA IssueCloses ==
    ASSUME fired' = fired, fired \in Seq(Entries), mark' = Len(fired), issue' = 0
    PROVE  IssueNamesNewest'
<1>1. Len(fired) \in Nat
  BY LenProperties
<1>2. mark' + 1 .. Len(fired)' = {}
  BY <1>1
<1> QED
  BY <1>2 DEF IssueNamesNewest

\* Outside the write of a cursor everything reported is behind the stored one.
LEMMA RecordedStays ==
    ASSUME LoginsInv, Stands, poll.at # "save", saved' = saved,
           entry = "removed" => entry' = "removed"
    PROVE  Recorded'
BY DEF LoginsInv, Stands, Recorded, Fired, Range

LEMMA PrefixStays ==
    ASSUME LoginsInv, UNCHANGED <<log, now, poll, moved>>
    PROVE  Prefix' /\ Entries' = Entries
<1>1. Entries' = Entries
  BY DEF Entries
<1>2. Listing(poll.since)' = Listing(poll.since)
  BY <1>1 DEF Listing, InLog, Kept, KeptAt, ByTime, Rank, Before, Stamps
<1> QED
  BY <1>1, <1>2 DEF LoginsInv, Prefix

\* A step beside the polls.
LEMMA PollStays ==
    ASSUME LoginsInv, Stands, UNCHANGED <<poll, cursor, saved, entry, unsaved>>
    PROVE  Recorded' /\ Behind' /\ (Entries' = Entries /\ Paged')
BY DEF LoginsInv, Stands, Recorded, Behind, Paged, Active, ReadSoFar, Fired, Range, Entries

-----------------------------------------------------------------------------
(* The steps beside the polls.                                             *)

LEMMA WatchStep == LoginsInv /\ (Watch \/ OpenFix \/ UNCHANGED vars) => LoginsInv'
<1> SUFFICES ASSUME LoginsInv, Watch \/ OpenFix \/ UNCHANGED vars PROVE LoginsInv'
  OBVIOUS
<1> USE DEF outside, repair, bounds
<1>1. /\ UNCHANGED <<now, log, ours, gone, late, early, entry, scheduled, asked, poll, cursor, saved,
                     fired, moved, unsaved, failures, cuts, issue, mark>>
      /\ watched' \in {watched, ours} /\ fixing' \in {fixing, issue}
  BY DEF Watch, Watched, OpenFix, vars
<1>2. now \in Int /\ now \in Time
  BY Positive DEF LoginsInv, Values, Time
<1>3. Stands /\ now' \in Time /\ cursor' \in {0, cursor, saved} /\ saved' \in {0, cursor, saved}
  BY <1>1, <1>2 DEF Stands
<1>4. InOrder' /\ NothingReplayed' /\ AllPassed' /\ Backed' /\ Born'
  BY <1>1, <1>3, StandsStep
<1>5. Recorded' /\ Behind' /\ Entries' = Entries /\ Paged'
  BY <1>1, <1>3, PollStays
<1>6. IssueNamesNewest'
  BY <1>1, <1>3, IssueStays
<1>7. Prefix'
  BY <1>1, PrefixStays
<1>8. Window'
  BY <1>1 DEF LoginsInv, Window
<1>9. Noticed'
  BY <1>1, <1>5 DEF LoginsInv, Noticed, Active
<1>10. Values'
  BY <1>1, <1>5 DEF LoginsInv, Values, Polls
<1> QED
  BY <1>4, <1>5, <1>6, <1>7, <1>8, <1>9, <1>10 DEF LoginsInv

\* A new application has logged nobody in yet, and what a deleted one did counts no more.
LEMMA CreateStep == ASSUME NEW a \in Apps PROVE LoginsInv /\ (Create(a) \/ Delete(a)) => LoginsInv'
<1> SUFFICES ASSUME LoginsInv, Create(a) \/ Delete(a) PROVE LoginsInv'
  OBVIOUS
<1> USE DEF repair, bounds
<1>1. /\ UNCHANGED <<now, log, late, early, watched, entry, scheduled, asked, poll, cursor, saved,
                     fired, moved, unsaved, failures, issue, mark, fixing>>
      /\ \/ ours' = ours \cup {a} /\ gone' = gone /\ a \in Later \ (ours \cup gone) /\ cuts' = cuts
         \/ ours' = ours \ {a} /\ gone' = gone \cup {a} /\ a \in ours /\ Cut
  BY DEF Create, Delete
<1>2. now \in Int
  BY DEF LoginsInv, Values
<1>3. Stands
  BY <1>1, <1>2 DEF Stands
<1>4. Recorded' /\ Behind' /\ Entries' = Entries /\ Paged'
  BY <1>1, <1>3, PollStays
<1>5. IssueNamesNewest'
  BY <1>1, <1>3, IssueStays
<1>6. Prefix'
  BY <1>1, PrefixStays
<1>7. Window'
  BY <1>1 DEF LoginsInv, Window
<1>8. /\ \A i \in Entries : log[i].app \in ours' => log[i].app \in ours
      /\ ours \cup gone \subseteq ours' \cup gone'
  BY <1>1 DEF LoginsInv, Born
<1>14. cuts' \in 0 .. MaxCuts
  BY <1>1, LoginsAssumption DEF LoginsInv, Values, Cut
<1>9. Noticed'
  BY <1>1, <1>4, <1>8 DEF LoginsInv, Noticed, Active
<1>10. Values'
  BY <1>1, <1>4, <1>8, <1>14 DEF LoginsInv, Values, Polls
<1>11. Born'
  BY <1>1, <1>4, <1>8 DEF LoginsInv, Born
<1>12. AllPassed' /\ Backed'
  <2>1. Fired' = Fired /\ \A i \in Entries : Kept(i)' <=> Kept(i)
    BY <1>1 DEF Fired, Range, Kept, KeptAt
  <2> QED
    BY <1>1, <1>4, <1>8, <2>1 DEF LoginsInv, AllPassed, Passed, Backed, OfReported
<1>13. InOrder' /\ NothingReplayed'
  BY <1>1 DEF LoginsInv, InOrder, NothingReplayed, FiredBefore
<1> QED
  BY <1>4, <1>5, <1>6, <1>7, <1>9, <1>10, <1>11, <1>12, <1>13 DEF LoginsInv

\* Entries expire from the oldest on: unless one that was read does, what was read from
\* loses none.
LEMMA TickPrefix == LoginsInv /\ Tick => Prefix'
<1> SUFFICES ASSUME LoginsInv, Tick, poll.at = "list", ~moved',
                    NEW k \in 1 .. Len(poll.batch)
             PROVE  /\ k \in 1 .. Len(Listing(poll.since)')
                    /\ poll.batch[k] = Listing(poll.since)'[k]
  <2>1. ASSUME Tick PROVE poll' = poll
    BY <2>1 DEF Tick
  <2> QED
    BY <2>1 DEF Prefix
<1> DEFINE L == Listing(poll.since)
           S == InLog(poll.since)
<1>1. /\ log' = log /\ now' = now + 1 /\ now \in Int /\ ~moved /\ poll' = poll
      /\ \A i \in ReadSoFar : Kept(i) => KeptAt(i, now + 1)
  <2>1. moved' = (moved \/ (poll.at = "list"
                              /\ \E i \in ReadSoFar : Kept(i) /\ ~KeptAt(i, now + 1)))
    BY Zenon DEF Tick, Moves
  <2>2. ~(moved \/ (poll.at = "list"
                     /\ \E i \in ReadSoFar : Kept(i) /\ ~KeptAt(i, now + 1)))
    BY <2>1, Zenon
  <2> QED
    BY <2>2 DEF Tick, LoginsInv, Values
<1>2. Values /\ poll.batch \in Seq(Entries)
  BY DEF LoginsInv, Values, Polls
<1>3. Len(poll.batch) \in Nat /\ DOMAIN poll.batch = 1 .. Len(poll.batch)
  BY <1>2, LenProperties
<1>4. \A l \in 1 .. Len(poll.batch) : l \in 1 .. Len(L) /\ poll.batch[l] = L[l]
  BY <1>1 DEF LoginsInv, Prefix
<1>5. 1 \in 1 .. Len(poll.batch) /\ 1 \in 1 .. Len(L)
  BY <1>3, <1>4
<1>6. L[1] \in ReadSoFar /\ L[1] \in S /\ L[1] \in Entries
  BY <1>2, <1>3, <1>4, <1>5, ListingType DEF ReadSoFar, Range
<1>7. KeptAt(L[1], now + 1)
  BY <1>1, <1>6 DEF InLog
<1>8. ASSUME NEW i \in S PROVE KeptAt(i, now + 1)
  <2>1. PICK l \in 1 .. Len(L) : L[l] = i
    BY <1>2, ListingType
  <2>2. l = 1 \/ Before(Stamps, L[1], i)
    <3>1. l = 1 \/ 1 < l
      BY <1>2, ListingType
    <3> QED
      BY <1>2, <1>5, <2>1, <3>1, ListingType
  <2>3. i \in Entries
    BY DEF InLog
  <2>4. log[L[1]].time <= log[i].time
    <3>1. log[L[1]].time \in Int /\ log[i].time \in Int
      BY <1>2, <1>6, <2>3, EntryType
    <3> QED
      BY <1>6, <2>1, <2>2, <2>3, <3>1 DEF Before, Stamps
  <2>5. log[L[1]].time \in Int /\ log[i].time \in Int /\ Retention \in Int
    BY <1>2, <1>6, <2>3, EntryType, Positive
  <2> HIDE DEF L
  <2> QED
    BY <1>1, <1>7, <2>4, <2>5 DEF KeptAt
<1>9. InLog(poll.since)' = S /\ Stamps' = Stamps
  <2>1. Entries' = Entries
    BY <1>1 DEF Entries
  <2>2. \A i \in Entries : Kept(i)' <=> KeptAt(i, now + 1)
    BY <1>1 DEF Kept, KeptAt
  <2>3. \A i \in Entries : KeptAt(i, now + 1) => Kept(i)
    <3> SUFFICES ASSUME NEW i \in Entries, KeptAt(i, now + 1) PROVE Kept(i)
      OBVIOUS
    <3>1. log[i].time \in Int /\ Retention \in Int
      BY <1>2, EntryType, Positive
    <3> QED
      BY <1>1, <3>1 DEF Kept, KeptAt
  <2>4. InLog(poll.since)' = {i \in Entries : Kept(i)' /\ log[i].time >= poll.since}
    BY <1>1, <2>1 DEF InLog
  <2> QED
    BY <1>1, <1>8, <2>1, <2>2, <2>3, <2>4 DEF InLog, Stamps
<1>10. Listing(poll.since)' = L
  <2>1. Listing(poll.since)' = ByTime(InLog(poll.since)', Stamps')
    BY DEF Listing, ByTime, Rank, Before
  <2> QED
    BY <1>9, <2>1 DEF Listing
<1> QED
  BY <1>4, <1>10


LEMMA TickStep == LoginsInv /\ Tick => LoginsInv'
<1> SUFFICES ASSUME LoginsInv, Tick PROVE LoginsInv'
  OBVIOUS
<1> USE DEF repair, bounds
<1>1. /\ UNCHANGED <<log, ours, gone, late, early, watched, entry, scheduled, asked, poll, cursor, saved,
                     fired, unsaved, failures, cuts, issue, mark, fixing>>
      /\ now' = now + 1 /\ now' \in 1 .. MaxTime /\ now \in Int
  BY Positive DEF Tick, LoginsInv, Values
<1>2. (moved => moved') /\ moved' \in BOOLEAN
  <2>1. moved' = (moved \/ (poll.at = "list"
                              /\ \E i \in ReadSoFar : Kept(i) /\ ~KeptAt(i, now + 1)))
    BY Zenon DEF Tick, Moves
  <2> QED
    BY <2>1, Zenon
<1>3. Stands /\ now' \in Time
  BY <1>1, <1>2, Positive DEF Stands, Time
<1>4. InOrder' /\ NothingReplayed' /\ AllPassed' /\ Backed' /\ Born'
  BY <1>1, <1>3, StandsStep
<1>5. Recorded' /\ Behind' /\ Entries' = Entries /\ Paged'
  BY <1>1, <1>3, PollStays
<1>6. IssueNamesNewest'
  BY <1>1, <1>3, IssueStays
<1>7. Window'
  BY <1>1, Positive DEF LoginsInv, Window, Values, Polls
<1>8. Noticed'
  BY <1>1, <1>5 DEF LoginsInv, Noticed, Active
<1>9. Values'
  BY <1>1, <1>2, <1>5 DEF LoginsInv, Values, Polls
<1> QED
  BY <1>4, <1>5, <1>6, <1>7, <1>8, <1>9, TickPrefix DEF LoginsInv

-----------------------------------------------------------------------------
(* A login.                                                                *)

\* The log grows at its end.
Grown(a, ok, t) ==
    /\ Len(log') = Len(log) + 1 /\ Entries' = Entries \cup {Len(log) + 1}
    /\ Len(log) + 1 \notin Entries
    /\ \A i \in Entries : log'[i] = log[i]
    /\ log'[Len(log) + 1] = [time |-> t, app |-> a, ok |-> ok]
    /\ log' \in Seq(LogEntries)

LEMMA LogGrows ==
    ASSUME LoginsInv, NEW a \in Apps, NEW ok \in BOOLEAN, NEW t \in Time, Login(a, ok, t)
    PROVE  Grown(a, ok, t) /\ t > 0 /\ (a \in Later => a \in ours)
<1> DEFINE new == [time |-> t, app |-> a, ok |-> ok]
<1>1. log' = Append(log, new)
  BY Zenon DEF Login
<1>2. log \in Seq(LogEntries) /\ new \in LogEntries
  BY DEF LoginsInv, Values, LogEntries
<1> HIDE DEF new
<1>3. /\ log' \in Seq(LogEntries) /\ Len(log') = Len(log) + 1
      /\ \A i \in 1 .. Len(log) : log'[i] = log[i]
      /\ log'[Len(log) + 1] = new
  BY <1>1, <1>2, AppendProperties
<1>4. Len(log) \in Nat
  BY <1>2, LenProperties
<1>5. Entries' = Entries \cup {Len(log) + 1} /\ Len(log) + 1 \notin Entries
  BY <1>3, <1>4 DEF Entries
<1>6. t > 0
  BY DEF Login, LoginsInv, Values
<1>7. a \in Later => a \in ours
  BY DEF Login
<1> QED
  BY <1>3, <1>5, <1>6, <1>7 DEF Grown, Entries, new

\* Unless the pages move, what was read stays the beginning of the listing.
LEMMA LoginPrefix ==
    ASSUME LoginsInv, NEW a \in Apps, NEW ok \in BOOLEAN, NEW t \in Time, Login(a, ok, t)
    PROVE  Prefix'
<1> SUFFICES ASSUME poll.at = "list", ~moved', NEW k \in 1 .. Len(poll.batch)
             PROVE  /\ k \in 1 .. Len(Listing(poll.since)')
                    /\ poll.batch[k] = Listing(poll.since)'[k]
  <2>1. poll' = poll
    BY DEF Login
  <2> QED
    BY <2>1 DEF Prefix
<1> DEFINE L == Listing(poll.since)
           S == InLog(poll.since)
           T == InLog(poll.since)'
           n == Len(log) + 1
           i == L[k]
<1>1. Grown(a, ok, t) /\ now' = now /\ Values
  BY LogGrows DEF Login, LoginsInv
<1>2. ~moved /\ \A j \in ReadSoFar : ~(t < log[j].time)
  <2>1. moved' = (moved \/ (poll.at = "list" /\ \E j \in ReadSoFar : t < log[j].time))
    BY Zenon DEF Login, Moves
  <2> QED
    BY <2>1, Zenon
<1>3. poll.batch \in Seq(Entries) /\ Len(poll.batch) \in Nat
      /\ DOMAIN poll.batch = 1 .. Len(poll.batch)
  BY <1>1, LenProperties DEF Values, Polls
<1>4. k \in 1 .. Len(L) /\ poll.batch[k] = i
  BY <1>2 DEF LoginsInv, Prefix
<1>5. i \in ReadSoFar /\ i \in S /\ i \in Entries
  BY <1>1, <1>3, <1>4, ListingType DEF ReadSoFar, Range
<1>6. S \subseteq T /\ T \subseteq S \cup {n} /\ T \subseteq Entries'
  <2>1. \A j \in Entries : Kept(j)' <=> Kept(j)
    BY <1>1 DEF Grown, Kept, KeptAt
  <2>2. T = {j \in Entries' : Kept(j)' /\ log'[j].time >= poll.since}
    <3>1. poll' = poll
      BY DEF Login
    <3> QED
      BY <3>1 DEF InLog
  <2>3. S = {j \in Entries : Kept(j) /\ log[j].time >= poll.since}
    BY DEF InLog
  <2> HIDE DEF S, T
  <2> QED
    BY <1>1, <2>1, <2>2, <2>3 DEF Grown
<1>7. Timed(T, Stamps') /\ Timed(S, Stamps)
  <2>1. Len(log') \in Nat
    BY <1>1, LenProperties DEF Grown
  <2>2. IsFiniteSet(Entries') /\ Entries' \subseteq Nat
    BY <2>1, FS_Interval DEF Entries
  <2>3. IsFiniteSet(T)
    BY <1>6, <2>2, FS_Subset
  <2>4. \A j \in Entries' : Stamps'[j] \in Int
    <3>1. \A j \in Entries' : log'[j] \in LogEntries
      BY <1>1, ElementOfSeq DEF Entries, Grown
    <3> QED
      BY <3>1, Positive DEF Stamps, LogEntries, Time
  <2> QED
    BY <1>1, <1>6, <2>2, <2>3, <2>4, ListingType DEF Timed
<1>8. Ahead(T, Stamps', i) = Ahead(S, Stamps, i)
  <2>1. \A j \in Entries : Stamps'[j] = Stamps[j]
    BY <1>1 DEF Stamps, Grown
  <2>2. Stamps'[n] = t /\ Stamps[i] = log[i].time
    BY <1>1, <1>5 DEF Stamps, Grown
  <2>3. n \in Int /\ i \in Int /\ i < n /\ t \in Int /\ log[i].time \in Int
    <3>1. Len(log) \in Nat /\ i \in 1 .. Len(log) /\ Values
      BY <1>1, <1>5, LenProperties DEF Entries, Values
    <3>2. log[i].time \in Int /\ t \in Int
      BY <3>1, EntryType, Positive DEF Entries, Time
    <3> HIDE DEF i
    <3> QED
      BY <3>1, <3>2
  <2>4. ~Before(Stamps', n, i)
    BY <1>2, <1>5, <2>1, <2>2, <2>3 DEF Before
  <2>5. \A j \in S : Before(Stamps', j, i) <=> Before(Stamps, j, i)
    BY <1>5, <2>1 DEF Before, InLog
  <2> QED
    BY <1>6, <2>4, <2>5 DEF Ahead
<1>9. Rank(T, Stamps', i) = Rank(S, Stamps, i)
  BY <1>5, <1>6, <1>7, <1>8, AheadType
<1>10. Rank(S, Stamps, i) = k - 1
  <2>1. L = ByTime(S, Stamps) /\ Len(L) = Cardinality(S)
    BY <1>1, ListingType DEF Listing
  <2> QED
    BY <1>4, <1>7, <2>1, ByTimeSorts
<1>11. Listing(poll.since)' = ByTime(T, Stamps')
  <2>1. poll' = poll
    BY DEF Login
  <2> QED
    BY DEF Listing, ByTime, Rank, Before
<1> HIDE DEF T, S, L
<1>12. k \in Nat /\ (k - 1) + 1 = k
  BY <1>3
<1>13. /\ k \in 1 .. Cardinality(T) /\ ByTime(T, Stamps')[k] = i
       /\ Len(ByTime(T, Stamps')) = Cardinality(T)
  <2>1. i \in T /\ Rank(T, Stamps', i) + 1 = k
    BY <1>5, <1>6, <1>9, <1>10, <1>12
  <2> HIDE DEF i
  <2> QED
    BY <1>7, <2>1, ByTimeSorts
<1> QED
  BY <1>4, <1>11, <1>13

LEMMA LoginValues ==
    ASSUME LoginsInv, NEW a \in Apps, NEW ok \in BOOLEAN, NEW t \in Time, Login(a, ok, t)
    PROVE  /\ Values' /\ (moved => moved') /\ late \subseteq late' /\ early \subseteq early'
           /\ UNCHANGED <<now, ours, gone, watched, entry, scheduled, asked, poll, cursor, saved, fired,
                          issue, fixing, mark, unsaved, failures, cuts>>
           /\ ReadPast(t) => Len(log) + 1 \in late'
           /\ a \in ours \ watched /\ entry # "down" => Len(log) + 1 \in early'
<1> DEFINE n == Len(log) + 1
<1>1. UNCHANGED <<now, ours, gone, watched, entry, scheduled, asked, poll, cursor, saved, fired,
                  issue, fixing, mark, unsaved, failures, cuts>>
  BY DEF Login, repair, bounds
<1>2. Grown(a, ok, t) /\ Values
  BY LogGrows DEF LoginsInv
<1>3. moved' = (moved \/ (poll.at = "list" /\ \E j \in ReadSoFar : t < log[j].time))
  BY Zenon DEF Login, Moves
<1>4. (moved => moved') /\ moved' \in BOOLEAN
  BY <1>3, Zenon
<1>5. /\ late' = (IF ReadPast(t) THEN late \cup {n} ELSE late)
      /\ early' = (IF a \in ours \ watched /\ entry # "down" THEN early \cup {n} ELSE early)
  BY Zenon DEF Login
<1>6. Len(log') <= MaxEntries
  <2>1. Len(log) < MaxEntries /\ Len(log) \in Nat /\ MaxEntries \in Nat
    BY <1>2, LenProperties, LoginsAssumption DEF Login, Values
  <2> QED
    BY <1>2, <2>1 DEF Grown
<1>7. late' \subseteq Entries' /\ early' \subseteq Entries' /\ Entries \subseteq Entries'
  BY <1>2, <1>5 DEF Grown, Values
<1>8. fired \in Seq(Entries') /\ poll.batch \in Seq(Entries')
  BY <1>2, <1>7, SeqMonotonic DEF Values, Polls
<1>9. poll' \in Polls'
  BY <1>1, <1>2, <1>8 DEF Values, Polls
<1>10. issue \in 0 .. Len(log') /\ fixing \in 0 .. Len(log')
  BY <1>2, LenProperties DEF Values, Grown
<1>11. Values'
  BY <1>1, <1>2, <1>4, <1>6, <1>7, <1>8, <1>9, <1>10 DEF Values, Grown
<1> QED
  BY <1>1, <1>4, <1>5, <1>11

LEMMA LoginStep ==
    ASSUME NEW a \in Apps, NEW ok \in BOOLEAN, NEW t \in Time
    PROVE  LoginsInv /\ Login(a, ok, t) => LoginsInv'
<1> SUFFICES ASSUME LoginsInv, Login(a, ok, t) PROVE LoginsInv'
  OBVIOUS
<1> DEFINE n == Len(log) + 1
<1>1. /\ UNCHANGED <<now, ours, gone, watched, entry, scheduled, asked, poll, cursor, saved, fired,
                     issue, fixing, mark, unsaved, failures, cuts>>
      /\ Values' /\ (moved => moved') /\ late \subseteq late' /\ early \subseteq early'
  BY LoginValues
<1>2. /\ Grown(a, ok, t) /\ Values /\ t > 0 /\ (a \in Later => a \in ours)
  BY LogGrows DEF LoginsInv
<1>3. /\ Entries' = Entries \cup {n} /\ \A i \in Entries : log'[i] = log[i]
      /\ log'[n].time = t /\ log'[n].app = a
  BY <1>2 DEF Grown
<1>4. Fired' = Fired /\ Fired \subseteq Entries
  BY <1>1, <1>2, RangeOfSeq DEF Fired, Values, Range
<1>5. ReadSoFar' = ReadSoFar
  BY <1>1 DEF ReadSoFar
<1>6. Paged' /\ Window' /\ Behind'
  BY <1>1 DEF LoginsInv, Paged, Active, Window, Behind
<1>7. Born'
  BY <1>1, <1>2, <1>3 DEF LoginsInv, Born
<1>8. Recorded' /\ Backed'
  BY <1>1, <1>3, <1>4, <1>5 DEF LoginsInv, Recorded, Backed, OfReported
<1>9. Prefix'
  BY LoginPrefix
<1>10. ASSUME NEW c \in {cursor, saved}, t <= c PROVE n \in late'
  <2>1. c # 0 /\ c \in Int /\ t \in Int
    BY <1>2, <1>10, Positive DEF Values, Time
  <2>2. PICK i \in Fired : log[i].time = c
    BY <2>1 DEF LoginsInv, Backed, OfReported
  <2>3. ReadPast(t)
    BY <1>10, <2>2 DEF ReadPast, Fired
  <2> QED
    BY <2>3, LoginValues
<1>11. AllPassed'
  <2>1. \A i \in Entries : Kept(i)' <=> Kept(i)
    BY <1>1, <1>3 DEF Kept, KeptAt
  <2>2. ASSUME NEW c \in {cursor, saved}, Passed(c),
               NEW i \in Entries', log'[i].time <= c, log'[i].app \in ours
        PROVE  i \in Fired' \cup late' \cup early' \/ moved' \/ ~Kept(i)'
    <3>1. CASE i = n
      BY <1>3, <1>10, <2>2, <3>1
    <3>2. CASE i \in Entries
      BY <1>1, <1>3, <1>4, <2>1, <2>2, <3>2 DEF Passed
    <3> QED
      BY <1>3, <3>1, <3>2
  <2>3. Passed(cursor) /\ Passed(saved)
    BY DEF LoginsInv, AllPassed
  <2>4. \A c \in {cursor, saved} : \A i \in Entries' :
           log'[i].time <= c /\ log'[i].app \in ours =>
              i \in Fired' \cup late' \cup early' \/ moved' \/ ~Kept(i)'
    BY <2>2, <2>3
  <2> QED
    BY <1>1, <2>4 DEF AllPassed, Passed
<1>12. Noticed'
  <2>1. a \in ours \ watched /\ entry # "down" => n \in early'
    BY LoginValues
  <2> QED
    BY <1>1, <1>3, <2>1 DEF LoginsInv, Noticed, Active
<1>13. \A k \in 1 .. Len(fired) : fired[k] \in Entries /\ log'[fired[k]] = log[fired[k]]
  BY <1>2, <1>3, ElementOfSeq DEF Values
<1>14. InOrder'
  <2> SUFFICES ASSUME NEW j \in 1 .. Len(fired), NEW k \in j + 1 .. Len(fired)
               PROVE  log'[fired[j]].time <= log'[fired[k]].time \/ fired[j] \in unsaved
    BY <1>1 DEF InOrder
  <2>1. k \in 1 .. Len(fired)
    BY <1>2, LenProperties DEF Values
  <2> QED
    BY <1>13, <2>1 DEF LoginsInv, InOrder
<1>15. NothingReplayed'
  BY <1>1 DEF LoginsInv, NothingReplayed, FiredBefore
<1>16. IssueNamesNewest'
  <2> DEFINE open == {i \in {fired[k] : k \in mark + 1 .. Len(fired)} : ~log[i].ok}
  <2>1. \A k \in mark + 1 .. Len(fired) : k \in 1 .. Len(fired)
    BY <1>2, LenProperties DEF Values
  <2>2. {i \in {fired[k] : k \in mark + 1 .. Len(fired)} : ~log'[i].ok} = open
    BY <1>13, <2>1
  <2>3. open \subseteq Entries
    BY <1>13, <2>1
  <2>4. issue # 0 => issue \in Entries
    BY <1>2, LenProperties DEF Values, Entries
  <2>5. IF entry = "removed" THEN issue = 0
        ELSE /\ issue # 0 <=> open # {}
             /\ \A i \in open \ unsaved : log[i].time <= log[issue].time
    BY DEF LoginsInv, IssueNamesNewest
  <2> HIDE DEF open
  <2>6. IF entry = "removed" THEN issue = 0
        ELSE /\ issue # 0 <=> open # {}
             /\ \A i \in open \ unsaved : log'[i].time <= log'[issue].time
    BY <1>3, <2>3, <2>4, <2>5
  <2>7. open = {i \in {fired'[k] : k \in mark' + 1 .. Len(fired')} : ~log'[i].ok}
    BY <1>1, <2>2
  <2> QED
    BY <1>1, <2>6, <2>7 DEF IssueNamesNewest
<1> QED
  BY <1>1, <1>6, <1>7, <1>8, <1>9, <1>11, <1>12, <1>14, <1>15, <1>16 DEF LoginsInv

-----------------------------------------------------------------------------
(* A poll starts, reads on, fails or writes its cursor.                    *)

LEMMA ListedType ==
    ASSUME Values, NEW c \in Time
    PROVE  /\ Listed(c) \in Polls /\ Listed(c).at = "list" /\ Listed(c).since = Since(c)
           /\ Listed(c).batch = <<>> /\ Listed(c).page = 1
<1>1. <<>> \in Seq(Entries)
  BY EmptySeq
<1>2. Since(c) \in (0 - Retention) .. MaxTime
  BY Positive DEF Since, Time, Values
<1> HIDE DEF Since
<1>3. 1 \in 1 .. MaxPages
  BY Positive
<1> QED
  BY <1>1, <1>2, <1>3 DEF Listed, NoPoll, Polls

LEMMA NoPollType == NoPoll \in Polls /\ NoPoll.at = "idle" /\ Len(NoPoll.batch) = 0
<1>1. <<>> \in Seq(Entries) /\ Len(<<>>) = 0
  BY EmptySeq
<1> QED
  BY <1>1, Positive DEF NoPoll, Polls

\* A poll that has begun has read nothing.
LEMMA BeginsListing ==
    ASSUME LoginsInv, UNCHANGED <<now, log>>, NEW c \in Time,
           poll' = Listed(c), cursor' = c, entry' \in {"setup", "loaded"}
    PROVE  poll' \in Polls /\ Paged' /\ Window' /\ Prefix'
<1>1. /\ poll' \in Polls /\ poll'.at = "list" /\ poll'.since = Since(c)
      /\ poll'.batch = <<>> /\ poll'.page = 1
  BY ListedType DEF LoginsInv
<1>2. Len(<<>>) = 0
  BY EmptySeq
<1>3. Paged'
  <2>1. PageSize * MaxPages \in Nat /\ (1 - 1) * PageSize = 0
    BY Positive
  <2> QED
    BY <1>1, <1>2, <2>1 DEF Paged, Active
<1>4. Window'
  BY <1>1, Positive DEF Window, Since, LoginsInv, Values
<1>5. Prefix'
  <2>1. 1 .. Len(poll'.batch) = {}
    BY <1>1, <1>2
  <2> QED
    BY <2>1 DEF Prefix
<1> QED
  BY <1>1, <1>3, <1>4, <1>5

LEMMA BeginStep == LoginsInv /\ (Load \/ StartPoll) => LoginsInv'
<1> SUFFICES ASSUME LoginsInv, Load \/ StartPoll PROVE LoginsInv'
  OBVIOUS
<1> USE DEF outside, repair, bounds
<1>0. Values /\ now \in Int /\ now \in Time /\ {cursor, saved} \subseteq Int
  BY Positive DEF LoginsInv, Values, Time
<1>1. /\ UNCHANGED <<now, log, ours, gone, late, early, saved, fired, issue, fixing, mark, moved,
                     unsaved, failures, cuts>>
      /\ cursor' \in {cursor, saved} /\ poll' = Listed(cursor')
      /\ entry # "removed" /\ entry' \in {"setup", "loaded"} /\ saved <= cursor'
      /\ poll.at # "save" /\ watched' \in {watched, ours}
      /\ watched' = ours \/ (entry = "loaded" /\ watched' = watched)
      /\ scheduled' \in BOOLEAN /\ asked' \in BOOLEAN
  <2>1. CASE Load
    <3>1. poll.at # "save" /\ saved <= saved /\ scheduled \in BOOLEAN
      BY <1>0, <2>1 DEF Load, LoginsInv, Paged, Active, Values
    <3>2. /\ UNCHANGED <<now, log, ours, gone, late, early, scheduled, saved, fired, issue, fixing, mark,
                         moved, unsaved, failures, cuts>>
          /\ entry = "down" /\ entry' = "setup" /\ cursor' = saved /\ watched' = ours
          /\ asked' = FALSE /\ poll' = Listed(saved)
      BY <2>1 DEF Load, Watched
    <3> QED
      BY <3>1, <3>2
  <2>2. CASE StartPoll
    BY <1>0, <2>2 DEF StartPoll, LoginsInv, Behind, Active, Values
  <2> QED
    BY <2>1, <2>2
<1>2. Stands /\ now' \in Time /\ cursor' \in {0, cursor, saved} /\ saved' \in {0, cursor, saved}
  BY <1>0, <1>1 DEF Stands
<1>3. InOrder' /\ NothingReplayed' /\ AllPassed' /\ Backed' /\ Born'
  BY <1>1, <1>2, StandsStep
<1>4. Recorded' /\ IssueNamesNewest'
  BY <1>1, <1>2, RecordedStays, IssueStays
<1>5. poll' \in Polls /\ Paged' /\ Window' /\ Prefix'
  <2>1. cursor' \in Time
    BY <1>0, <1>1 DEF Values
  <2> QED
    BY <1>1, <2>1, BeginsListing
<1>6. Entries' = Entries
  BY <1>1 DEF Entries
<1>7. Behind' /\ Noticed'
  BY <1>1, <1>6 DEF LoginsInv, Behind, Noticed, Active
<1>8. Values'
  BY <1>0, <1>1, <1>5, <1>6 DEF Values, Polls
<1> QED
  BY <1>3, <1>4, <1>5, <1>7, <1>8 DEF LoginsInv

\* What a poll has read when its next page is in.
LEMMA ReadType ==
    ASSUME LoginsInv, poll.at = "list"
    PROVE  LET page == PageOf(poll.since, poll.page)
               read == poll.batch \o page
           IN /\ page \in Seq(Entries) /\ Len(page) \in 0 .. PageSize
              /\ read \in Seq(Entries) /\ Len(read) = Len(poll.batch) + Len(page)
              /\ Len(read) <= PageSize * MaxPages /\ Len(read) \in Nat
              /\ ~moved => \A k \in 1 .. Len(read) :
                              /\ k \in 1 .. Len(Listing(poll.since))
                              /\ read[k] = Listing(poll.since)[k]
<1> DEFINE page == PageOf(poll.since, poll.page)
           from == (poll.page - 1) * PageSize
           read == poll.batch \o page
           L    == Listing(poll.since)
<1>1. /\ Values /\ poll.batch \in Seq(Entries) /\ poll.page \in 1 .. MaxPages
      /\ Len(poll.batch) = from
  BY DEF LoginsInv, Values, Polls, Paged
<1>2. /\ page \in Seq(Entries) /\ Len(page) \in 0 .. PageSize /\ from \in Nat
      /\ \A k \in 1 .. Len(page) : from + k \in 1 .. Len(L) /\ page[k] = L[from + k]
  BY <1>1, PageType
<1>3. from + PageSize <= PageSize * MaxPages
  <2>1. poll.page \in Nat \ {0} /\ MaxPages \in Nat /\ PageSize \in Nat /\ poll.page <= MaxPages
    BY <1>1, Positive
  <2>2. from + PageSize = poll.page * PageSize
    BY <2>1
  <2>3. poll.page * PageSize <= MaxPages * PageSize
    BY <2>1
  <2>4. MaxPages * PageSize = PageSize * MaxPages
    BY <2>1
  <2> QED
    BY <2>2, <2>3, <2>4
<1> HIDE DEF page, from
<1>4. /\ read \in Seq(Entries) /\ Len(read) = from + Len(page)
      /\ \A k \in 1 .. from + Len(page) :
            read[k] = IF k <= from THEN poll.batch[k] ELSE page[k - from]
  <2>1. poll.batch \in Seq(Entries) /\ page \in Seq(Entries)
    BY <1>1, <1>2
  <2>2. /\ read \in Seq(Entries) /\ Len(read) = Len(poll.batch) + Len(page)
        /\ \A k \in 1 .. Len(poll.batch) + Len(page) :
              read[k] = IF k <= Len(poll.batch) THEN poll.batch[k] ELSE page[k - Len(poll.batch)]
    BY <2>1, ConcatProperties
  <2>3. Len(poll.batch) = from
    BY <1>1
  <2> QED
    BY <2>2, <2>3
<1> HIDE DEF read, L
<1>5. Len(read) \in Nat /\ Len(read) <= PageSize * MaxPages
  <2>1. PageSize * MaxPages \in Int
    BY Positive
  <2> QED
    BY <1>2, <1>3, <1>4, <2>1, Positive
<1>6. ASSUME ~moved, NEW k \in 1 .. Len(read)
      PROVE  k \in 1 .. Len(L) /\ read[k] = L[k]
  <2>1. CASE k <= from
    <3>1. k \in 1 .. Len(poll.batch) /\ read[k] = poll.batch[k]
      BY <1>1, <1>2, <1>4, <2>1
    <3> QED
      BY <1>6, <3>1 DEF LoginsInv, Prefix, L
  <2>2. CASE ~(k <= from)
    <3>1. k - from \in 1 .. Len(page) /\ from + (k - from) = k /\ read[k] = page[k - from]
      BY <1>2, <1>4, <2>2
    <3> QED
      BY <1>2, <3>1
  <2> QED
    BY <2>1, <2>2
<1> QED
  BY <1>1, <1>2, <1>4, <1>5, <1>6 DEF page, read, L

LEMMA NextPageStep == LoginsInv /\ NextPage => LoginsInv'
<1> SUFFICES ASSUME LoginsInv, NextPage PROVE LoginsInv'
  OBVIOUS
<1> USE DEF outside, repair, bounds
<1> DEFINE page == PageOf(poll.since, poll.page)
           read == poll.batch \o page
<1>1. /\ UNCHANGED <<now, log, ours, gone, late, early, watched, entry, scheduled, asked, cursor, saved,
                     fired, issue, fixing, mark, moved, unsaved, failures, cuts>>
      /\ poll.at = "list" /\ ~Ends(page)
      /\ poll' = [poll EXCEPT !.batch = read, !.page = poll.page + 1]
  BY DEF NextPage
<1>2. Values /\ now \in Int /\ now \in Time /\ poll \in Polls
  BY Positive DEF LoginsInv, Values, Time
<1>3. /\ Len(page) \in 0 .. PageSize
      /\ read \in Seq(Entries) /\ Len(read) = Len(poll.batch) + Len(page)
      /\ Len(read) <= PageSize * MaxPages /\ Len(read) \in Nat
      /\ ~moved => \A k \in 1 .. Len(read) :
                      /\ k \in 1 .. Len(Listing(poll.since))
                      /\ read[k] = Listing(poll.since)[k]
  BY <1>1, ReadType
<1> HIDE DEF page, read
<1>4. Len(page) = PageSize /\ poll.page + 1 \in 1 .. MaxPages
  BY <1>1, <1>2, <1>3, Positive DEF Ends, Polls
<1>5. /\ poll' \in Polls /\ poll'.at = "list" /\ poll'.since = poll.since /\ poll'.batch = read
      /\ poll'.page = poll.page + 1
  BY <1>1, <1>2, <1>3, <1>4 DEF Polls
<1>6. Stands /\ now' \in Time /\ cursor' \in {0, cursor, saved} /\ saved' \in {0, cursor, saved}
  BY <1>1, <1>2 DEF Stands
<1>7. InOrder' /\ NothingReplayed' /\ AllPassed' /\ Backed' /\ Born'
  BY <1>1, <1>6, StandsStep
<1>8. Recorded' /\ IssueNamesNewest'
  BY <1>1, <1>6, RecordedStays, IssueStays
<1>9. Entries' = Entries
  BY <1>1 DEF Entries
<1>10. Behind' /\ Noticed' /\ Window'
  BY <1>1, <1>5, <1>9 DEF LoginsInv, Behind, Noticed, Active, Window
<1>11. Paged'
  <2>1. poll.page \in Int /\ PageSize \in Int
    BY <1>2, Positive DEF Polls
  <2>2. (poll.page - 1) * PageSize + PageSize = ((poll.page + 1) - 1) * PageSize
    BY <2>1
  <2>3. Len(poll.batch) = (poll.page - 1) * PageSize /\ Active
    BY <1>1 DEF LoginsInv, Paged
  <2> QED
    BY <1>1, <1>3, <1>4, <1>5, <2>2, <2>3 DEF Paged, Active
<1>12. Listing(poll.since)' = Listing(poll.since)
  BY <1>1, <1>5, <1>9 DEF Listing, InLog, Kept, KeptAt, ByTime, Rank, Before, Stamps
<1>13. Prefix'
  BY <1>1, <1>3, <1>5, <1>12 DEF Prefix
<1>14. Values'
  BY <1>1, <1>2, <1>5, <1>9 DEF Values, Polls
<1> QED
  BY <1>7, <1>8, <1>10, <1>11, <1>13, <1>14 DEF LoginsInv

\* A cursor that was being written is stored, or its entries are known to lack it.
Settled ==
    \/ poll.at # "save" /\ saved' = saved /\ unsaved' = unsaved
    \/ poll.at = "save" /\ saved' = cursor /\ unsaved' = unsaved
    \/ poll.at = "save" /\ saved' = saved /\ unsaved' = unsaved \cup ReadSoFar

LEMMA SettledType ==
    ASSUME LoginsInv, Settled, UNCHANGED <<fired, log, late, early, moved, now>>, poll' = NoPoll,
           entry # "removed"
    PROVE  /\ Recorded' /\ Stands /\ now' \in Time /\ saved' \in {0, cursor, saved}
           /\ saved' \in Time /\ (Active => saved' <= cursor)
           /\ unsaved' \subseteq Entries /\ Entries' = Entries
<1>1. Values /\ now \in Int /\ now \in Time /\ {cursor, saved} \subseteq Int
  BY Positive DEF LoginsInv, Values, Time
<1>2. Active => saved <= cursor
  BY DEF LoginsInv, Behind
<1>3. poll.at = "save" => Active
  BY DEF LoginsInv, Paged
<1>4. ReadSoFar \subseteq Entries
  BY <1>1, RangeOfSeq DEF Values, Polls, ReadSoFar
<1>5. Entries' = Entries /\ Fired' = Fired /\ Fired \subseteq Entries
  BY <1>1, RangeOfSeq DEF Entries, Fired, Range, Values
<1>6. Stands
  BY <1>1 DEF Stands, Settled
<1>7. /\ saved' \in {0, cursor, saved} /\ saved' \in Time /\ (Active => saved' <= cursor)
      /\ unsaved' \subseteq Entries
  BY <1>1, <1>2, <1>4 DEF Settled, Values
<1>8. Recorded'
  <2> SUFFICES ASSUME NEW i \in Fired, i \notin unsaved' PROVE log[i].time <= saved'
    BY <1>5 DEF Recorded
  <2>1. i \notin unsaved /\ log[i].time \in Int
    BY <1>1, <1>5, EntryType DEF Settled
  <2>2. \/ log[i].time <= saved
        \/ poll.at = "save" /\ i \in ReadSoFar /\ log[i].time <= cursor
    BY <2>1 DEF LoginsInv, Recorded
  <2> QED
    BY <1>1, <1>2, <1>3, <2>1, <2>2 DEF Settled
<1> QED
  BY <1>1, <1>5, <1>6, <1>7, <1>8

LEMMA IdleType ==
    ASSUME poll' = NoPoll
    PROVE  Paged' /\ Window' /\ Prefix'
<1>1. poll'.at = "idle" /\ Len(poll'.batch) = 0 /\ PageSize * MaxPages \in Nat
  BY NoPollType, Positive
<1> QED
  BY <1>1, Positive DEF Paged, Window, Prefix

\* The poll ends in the loaded entry.
LEMMA EndStep == LoginsInv /\ (Save \/ \E auth \in BOOLEAN : PollFails(auth)) => LoginsInv'
<1> SUFFICES ASSUME LoginsInv, Save \/ \E auth \in BOOLEAN : PollFails(auth) PROVE LoginsInv'
  OBVIOUS
<1> USE DEF outside, repair
<1>0. Values /\ Active
  <2>1. poll.at # "idle"
    BY DEF Save, PollFails
  <2> QED
    BY <2>1 DEF LoginsInv, Paged
<1>1. /\ UNCHANGED <<now, log, ours, gone, late, early, watched, cursor, fired, issue, fixing, mark,
                     moved, cuts>>
      /\ poll' = NoPoll /\ entry' = "loaded" /\ Settled
  BY DEF Save, PollFails, PollEnds, Settled
<1>2. failures' \in 0 .. MaxFailures
  <2>1. failures' = failures \/ (failures < MaxFailures /\ failures' = failures + 1)
    BY DEF Save, PollFails, MayFail
  <2> QED
    BY <1>0, <2>1, LoginsAssumption DEF Values
<1>3. scheduled' \in BOOLEAN /\ asked' \in BOOLEAN
  <2>1. CASE Save
    BY <1>0, <2>1 DEF Save, PollEnds, Values
  <2>2. ASSUME NEW auth \in BOOLEAN, PollFails(auth)
        PROVE  scheduled' \in BOOLEAN /\ asked' \in BOOLEAN
    <3>1. scheduled' = (~auth \/ entry = "setup") /\ asked' = (asked \/ auth)
      BY <2>2, Zenon DEF PollFails, PollEnds, Again
    <3> QED
      BY <3>1, Zenon
  <2> QED
    BY <2>1, <2>2
<1>4. entry # "removed" /\ entry' # "removed"
  BY <1>0, <1>1 DEF Active
<1>5. /\ Recorded' /\ Stands /\ now' \in Time /\ saved' \in {0, cursor, saved}
      /\ saved' \in Time /\ saved' <= cursor
      /\ unsaved' \subseteq Entries /\ Entries' = Entries
  BY <1>0, <1>1, <1>4, SettledType
<1>6. InOrder' /\ NothingReplayed' /\ AllPassed' /\ Backed' /\ Born'
  BY <1>1, <1>5, StandsStep
<1>7. IssueNamesNewest'
  BY <1>1, <1>4, <1>5, IssueStays
<1>8. Paged' /\ Window' /\ Prefix'
  BY <1>1, IdleType
<1>9. Behind' /\ Noticed'
  BY <1>0, <1>1, <1>5 DEF LoginsInv, Behind, Noticed
<1>10. Values'
  BY <1>0, <1>1, <1>2, <1>3, <1>5, NoPollType DEF Values, Polls
<1> QED
  BY <1>5, <1>6, <1>7, <1>8, <1>9, <1>10 DEF LoginsInv

-----------------------------------------------------------------------------
(* Reloads, restarts, the repair, removal.                                 *)

LEMMA StopStep == LoginsInv /\ (Reload \/ Restart \/ SubmitFix) => LoginsInv'
<1> SUFFICES ASSUME LoginsInv, Reload \/ Restart \/ SubmitFix PROVE LoginsInv'
  OBVIOUS
<1> USE DEF outside
<1>1. /\ UNCHANGED <<now, log, ours, gone, late, early, asked, fired, moved, failures>>
      /\ poll' = NoPoll /\ entry' = "down" /\ entry # "removed" /\ Settled
      /\ scheduled' = FALSE /\ cursor' \in {0, cursor} /\ watched' \in {{}, watched}
      /\ \/ UNCHANGED <<issue, fixing, mark>>
         \/ issue' = 0 /\ fixing' = 0 /\ mark' = Len(fired)
  <2>1. CASE Reload
    BY <2>1 DEF Reload, Dropped, Settled, repair
  <2>2. CASE Restart
    BY <2>2 DEF Restart, Dropped, Settled
  <2>3. CASE SubmitFix
    BY <2>3 DEF SubmitFix, Dropped, Settled
  <2> QED
    BY <2>1, <2>2, <2>3
<1>2. Values /\ fired \in Seq(Entries) /\ Len(fired) \in Nat /\ Len(log) \in Nat
  BY LenProperties DEF LoginsInv, Values
<1>3. cuts' \in 0 .. MaxCuts
  BY <1>2, LoginsAssumption DEF Reload, Restart, SubmitFix, Cut, Values
<1>4. /\ Recorded' /\ Stands /\ now' \in Time /\ saved' \in {0, cursor, saved}
      /\ saved' \in Time /\ unsaved' \subseteq Entries /\ Entries' = Entries
  BY <1>1, SettledType
<1>5. InOrder' /\ NothingReplayed' /\ AllPassed' /\ Backed' /\ Born'
  BY <1>1, <1>4, StandsStep
<1>6. IssueNamesNewest'
  <2>1. CASE UNCHANGED <<issue, fixing, mark>>
    BY <1>1, <1>4, <2>1, IssueStays
  <2>2. CASE issue' = 0 /\ fixing' = 0 /\ mark' = Len(fired)
    BY <1>1, <1>2, <2>2, IssueCloses
  <2> QED
    BY <1>1, <2>1, <2>2
<1>7. Paged' /\ Window' /\ Prefix'
  BY <1>1, IdleType
<1>8. Behind' /\ Noticed'
  BY <1>1 DEF Behind, Noticed, Active
<1>9. /\ cursor' \in Time /\ issue' \in 0 .. Len(log) /\ fixing' \in 0 .. Len(log)
      /\ mark' \in 0 .. Len(fired) /\ watched' \subseteq ours \cup gone
  BY <1>1, <1>2, Positive DEF Values, Time
<1>10. poll' \in Polls'
  BY <1>1, <1>4, NoPollType DEF Polls
<1>11. Values'
  BY <1>1, <1>2, <1>3, <1>4, <1>9, <1>10 DEF Values
<1> QED
  BY <1>4, <1>5, <1>6, <1>7, <1>8, <1>11 DEF LoginsInv

LEMMA RemoveStep == LoginsInv /\ RemoveEntry => LoginsInv'
<1> SUFFICES ASSUME LoginsInv, RemoveEntry PROVE LoginsInv'
  OBVIOUS
<1> USE DEF outside
<1>1. /\ UNCHANGED <<now, log, ours, gone, late, early, watched, scheduled, asked, poll, cursor, fired,
                     fixing, moved, unsaved, failures>>
      /\ entry = "down" /\ entry' = "removed" /\ saved' = 0 /\ issue' = 0 /\ mark' = Len(fired)
  BY DEF RemoveEntry
<1>2. /\ Values /\ fired \in Seq(Entries) /\ Len(fired) \in Nat /\ Len(log) \in Nat
      /\ now \in Int /\ now \in Time /\ 0 \in Time
  BY Positive, LenProperties DEF LoginsInv, Values, Time
<1>3. cuts' \in 0 .. MaxCuts
  BY <1>2, LoginsAssumption DEF RemoveEntry, Cut, Values
<1>4. Stands /\ now' \in Time /\ cursor' \in {0, cursor, saved} /\ saved' \in {0, cursor, saved}
  BY <1>1, <1>2 DEF Stands
<1>5. InOrder' /\ NothingReplayed' /\ AllPassed' /\ Backed' /\ Born'
  BY <1>1, <1>4, StandsStep
<1>6. Recorded' /\ IssueNamesNewest'
  BY <1>1 DEF Recorded, IssueNamesNewest
<1>7. Entries' = Entries /\ Prefix'
  BY <1>1, PrefixStays
<1>8. Paged' /\ Window' /\ Behind' /\ Noticed'
  BY <1>1 DEF LoginsInv, Paged, Window, Behind, Noticed, Active
<1>9. Values'
  BY <1>1, <1>2, <1>3, <1>7 DEF Values, Polls
<1> QED
  BY <1>5, <1>6, <1>7, <1>8, <1>9 DEF LoginsInv

-----------------------------------------------------------------------------
(* A poll's last page.                                                     *)

\* What a poll handles of what it read.
Handling(read, h) ==
    /\ read \in Seq(Entries) /\ Len(read) \in Nat
    /\ h \in Seq(Entries) /\ Len(h) \in Nat /\ Len(h) <= PageSize * MaxPages
    /\ \A k \in 1 .. Len(h) : h[k] \in Range(read) /\ h[k] \in Entries /\ Counts(h[k])
    /\ \A k, l \in 1 .. Len(h) : k < l => log[h[k]].time <= log[h[l]].time
    /\ \A i \in Range(read) : Counts(i) => i \in Range(h)
    /\ ~moved => \A k \in 1 .. Len(read) :
                    /\ k \in 1 .. Len(Listing(poll.since))
                    /\ read[k] = Listing(poll.since)[k]
    /\ ~moved => \A k, l \in 1 .. Len(h) : h[k] = h[l] => k = l

LEMMA HandlingOf ==
    ASSUME Values, NEW read \in Seq(Entries), Len(read) \in Nat, Len(read) <= PageSize * MaxPages,
           ~moved => \A k \in 1 .. Len(read) :
                        /\ k \in 1 .. Len(Listing(poll.since))
                        /\ read[k] = Listing(poll.since)[k]
    PROVE  Handling(read, Handled(read))
<1> DEFINE h == Handled(read)
           L == Listing(poll.since)
<1>1. ~moved => \A k \in 1 .. Len(read) : k \in 1 .. Len(L) /\ read[k] = L[k]
  OBVIOUS
<1>2. Values
  OBVIOUS
<1>3. /\ h \in Seq(Entries) /\ Len(h) \in Nat /\ Len(h) <= Len(read)
      /\ \A k \in 1 .. Len(h) : h[k] \in Range(read) /\ h[k] \in Entries /\ Counts(h[k])
      /\ \A k, l \in 1 .. Len(h) : k < l => log[h[k]].time <= log[h[l]].time
      /\ IsInjective(read) => \A k, l \in 1 .. Len(h) : h[k] = h[l] => k = l
      /\ \A i \in Range(read) : Counts(i) => i \in Range(h)
  BY <1>1, <1>2, HandledType
<1>4. ASSUME ~moved PROVE IsInjective(read)
  <2>1. DOMAIN read = 1 .. Len(read)
    BY <1>1, LenProperties
  <2> SUFFICES ASSUME NEW k \in 1 .. Len(read), NEW l \in 1 .. Len(read), read[k] = read[l]
               PROVE  k = l
    BY <2>1 DEF IsInjective
  <2>2. /\ k \in 1 .. Len(L) /\ l \in 1 .. Len(L) /\ L[k] = L[l] /\ L[k] \in InLog(poll.since)
        /\ k < l => Before(Stamps, L[k], L[l])
        /\ l < k => Before(Stamps, L[l], L[k])
        /\ Timed(InLog(poll.since), Stamps)
    BY <1>1, <1>2, <1>4, ListingType
  <2> HIDE DEF L
  <2>3. ~Before(Stamps, L[k], L[k])
    BY <2>2 DEF Timed, Before
  <2>4. ~(k < l) /\ ~(l < k)
    BY <2>2, <2>3
  <2> QED
    BY <1>1, <2>4
<1>5. Len(h) <= PageSize * MaxPages
  <2> DEFINE most == PageSize * MaxPages
  <2>1. most \in Int
    BY Positive
  <2> HIDE DEF h
  <2>2. Len(read) <= most /\ Len(read) \in Int
    BY <1>1
  <2>3. Len(h) \in Int /\ Len(h) <= Len(read)
    BY <1>3
  <2> HIDE DEF most
  <2>4. Len(h) <= most
    BY <2>1, <2>2, <2>3
  <2> QED
    BY <2>4 DEF most
<1> HIDE DEF h
<1>6. Handling(read, h)
  BY <1>1, <1>3, <1>4, <1>5 DEF Handling
<1> QED
  BY <1>6 DEF h

LEMMA HandlingType ==
    ASSUME LoginsInv, poll.at = "list"
    PROVE  LET read == poll.batch \o PageOf(poll.since, poll.page)
           IN Handling(read, Handled(read))
BY ReadType, HandlingOf DEF LoginsInv

\* What a poll takes for new is younger than everything reported whose cursor was stored.
LEMMA Earlier ==
    ASSUME LoginsInv, poll.at = "list", NEW i \in Fired \ unsaved, NEW j \in Entries, Newer(j)
    PROVE  log[i].time < log[j].time
<1>1. Values /\ entry # "removed" /\ saved <= cursor
  BY DEF LoginsInv, Paged, Active, Behind
<1>2. i \in Entries
  BY <1>1, RangeOfSeq DEF Values, Fired, Range
<1>3. log[i].time \in Int /\ log[j].time \in Int /\ log[i].time > 0
  BY <1>1, <1>2, EntryType DEF LoginsInv, Born
<1>4. log[i].time <= saved
  BY <1>1 DEF LoginsInv, Recorded
<1>5. saved \in Int /\ cursor \in Int
  BY <1>1, Positive DEF Values, Time
<1>6. poll.since = cursor
  BY <1>1, <1>3, <1>4, <1>5 DEF LoginsInv, Window
<1>7. cursor < log[j].time
  BY <1>3, <1>5, <1>6 DEF Newer
<1> QED
  BY <1>1, <1>3, <1>4, <1>5, <1>7

\* The stored cursor is behind what a poll takes for new.
LEMMA SavedEarlier ==
    ASSUME LoginsInv, poll.at = "list", NEW j \in Entries, Newer(j)
    PROVE  saved <= log[j].time
<1>1. Values /\ saved <= cursor
  BY DEF LoginsInv, Paged, Active, Behind
<1>2. log[j].time \in Int /\ log[j].time > 0
  BY <1>1, EntryType DEF LoginsInv, Born
<1>3. saved \in Int /\ cursor \in Int
  BY <1>1, Positive DEF Values, Time
<1> QED
  BY <1>1, <1>2, <1>3 DEF Newer, LoginsInv, Window

\* The events of a poll follow those of the earlier ones.
Reported(h) == fired' = fired \o h /\ log' = log

LEMMA ReportedType ==
    ASSUME LoginsInv, NEW h \in Seq(Entries), Reported(h)
    PROVE  /\ Len(fired) \in Nat /\ Len(h) \in Nat /\ Len(fired') = Len(fired) + Len(h)
           /\ fired' \in Seq(Entries) /\ Entries' = Entries
           /\ \A k \in 1 .. Len(fired) : fired'[k] = fired[k] /\ fired[k] \in Fired
           /\ \A k \in 1 .. Len(fired') :
                 k \notin 1 .. Len(fired) =>
                     k - Len(fired) \in 1 .. Len(h) /\ fired'[k] = h[k - Len(fired)]
           /\ \A k \in 1 .. Len(h) :
                 Len(fired) + k \in 1 .. Len(fired') /\ fired'[Len(fired) + k] = h[k]
           /\ Fired' = Fired \cup Range(h)
<1>1. fired \in Seq(Entries) /\ fired' = fired \o h
  BY DEF LoginsInv, Values, Reported
<1>2. /\ fired' \in Seq(Entries) /\ Len(fired') = Len(fired) + Len(h)
      /\ \A k \in 1 .. Len(fired) + Len(h) :
            fired'[k] = IF k <= Len(fired) THEN fired[k] ELSE h[k - Len(fired)]
  BY <1>1, ConcatProperties
<1>3. /\ Len(fired) \in Nat /\ Len(h) \in Nat /\ DOMAIN fired = 1 .. Len(fired)
      /\ DOMAIN h = 1 .. Len(h) /\ DOMAIN fired' = 1 .. Len(fired')
  BY <1>1, <1>2, LenProperties
<1>4. \A k \in 1 .. Len(fired) : fired'[k] = fired[k] /\ fired[k] \in Fired
  BY <1>2, <1>3 DEF Fired, Range
<1>5. \A k \in 1 .. Len(fired') :
         k \notin 1 .. Len(fired) => k - Len(fired) \in 1 .. Len(h) /\ fired'[k] = h[k - Len(fired)]
  BY <1>2, <1>3
<1>6. \A k \in 1 .. Len(h) :
         Len(fired) + k \in 1 .. Len(fired') /\ fired'[Len(fired) + k] = h[k]
  <2> SUFFICES ASSUME NEW k \in 1 .. Len(h)
               PROVE  Len(fired) + k \in 1 .. Len(fired') /\ fired'[Len(fired) + k] = h[k]
    OBVIOUS
  <2>1. /\ Len(fired) + k \in 1 .. Len(fired) + Len(h) /\ ~(Len(fired) + k <= Len(fired))
        /\ (Len(fired) + k) - Len(fired) = k
    BY <1>3
  <2> QED
    BY <1>2, <2>1
<1>7. Fired' = Fired \cup Range(h)
  <2>1. ASSUME NEW i \in Fired' PROVE i \in Fired \cup Range(h)
    <3>1. PICK k \in 1 .. Len(fired') : fired'[k] = i
      BY <1>3, <2>1 DEF Fired, Range
    <3> QED
      BY <1>3, <1>4, <1>5, <3>1 DEF Range
  <2>2. ASSUME NEW i \in Fired PROVE i \in Fired'
    <3>1. PICK k \in 1 .. Len(fired) : fired[k] = i
      BY <1>3, <2>2 DEF Fired, Range
    <3>2. k \in DOMAIN fired' /\ fired'[k] = i
      BY <1>2, <1>3, <1>4, <3>1
    <3> QED
      BY <3>2 DEF Fired, Range
  <2>3. ASSUME NEW i \in Range(h) PROVE i \in Fired'
    <3>1. PICK k \in 1 .. Len(h) : h[k] = i
      BY <1>3, <2>3 DEF Range
    <3>2. Len(fired) + k \in DOMAIN fired' /\ fired'[Len(fired) + k] = i
      BY <1>3, <1>6, <3>1
    <3> QED
      BY <3>2 DEF Fired, Range
  <2> QED
    BY <2>1, <2>2, <2>3
<1>8. Entries' = Entries
  BY DEF Reported, Entries
<1> QED
  BY <1>2, <1>3, <1>4, <1>5, <1>6, <1>7, <1>8

LEMMA ReportsInOrder ==
    ASSUME LoginsInv, poll.at = "list", NEW read, NEW h, Handling(read, h), Reported(h),
           unsaved' = unsaved
    PROVE  InOrder'
<1> SUFFICES ASSUME NEW j \in 1 .. Len(fired'), NEW k \in j + 1 .. Len(fired')
             PROVE  log[fired'[j]].time <= log[fired'[k]].time \/ fired'[j] \in unsaved
  BY DEF InOrder, Reported
<1> DEFINE n == Len(fired)
<1>1. h \in Seq(Entries)
  BY DEF Handling
<1>2. /\ n \in Nat /\ Len(h) \in Nat /\ Len(fired') = n + Len(h)
      /\ \A l \in 1 .. n : fired'[l] = fired[l] /\ fired[l] \in Fired
      /\ \A l \in 1 .. Len(fired') : l \notin 1 .. n => l - n \in 1 .. Len(h) /\ fired'[l] = h[l - n]
  BY <1>1, ReportedType
<1> HIDE DEF n
<1>3. j \in 1 .. Len(fired') /\ k \in 1 .. Len(fired') /\ j < k
  BY <1>2
<1>4. CASE j \in 1 .. n /\ k \in 1 .. n
  <2>1. k \in j + 1 .. n
    BY <1>2, <1>4
  <2>2. log[fired[j]].time <= log[fired[k]].time \/ fired[j] \in unsaved
    BY <1>4, <2>1 DEF LoginsInv, InOrder, n
  <2> QED
    BY <1>2, <1>4, <2>2
<1>5. CASE j \in 1 .. n /\ k \notin 1 .. n
  <2>1. k - n \in 1 .. Len(h) /\ fired'[k] = h[k - n]
    BY <1>2, <1>3, <1>5
  <2>2. fired'[k] \in Entries /\ Newer(fired'[k])
    BY <2>1 DEF Handling, Counts
  <2>3. fired'[j] \in Fired
    BY <1>2, <1>5
  <2>4. fired'[j] \notin unsaved => log[fired'[j]].time < log[fired'[k]].time
    BY <2>2, <2>3, Earlier
  <2>5. log[fired'[j]].time \in Int /\ log[fired'[k]].time \in Int
    <3>1. Values /\ Fired \subseteq Entries
      BY RangeOfSeq DEF LoginsInv, Values, Fired, Range
    <3> QED
      BY <2>2, <2>3, <3>1, EntryType
  <2> QED
    BY <2>4, <2>5
<1>6. CASE j \notin 1 .. n
  <2>1. k \notin 1 .. n
    BY <1>2, <1>3, <1>6
  <2>2. /\ j - n \in 1 .. Len(h) /\ fired'[j] = h[j - n]
        /\ k - n \in 1 .. Len(h) /\ fired'[k] = h[k - n]
    BY <1>2, <1>3, <1>6, <2>1
  <2>3. j - n < k - n
    BY <1>2, <1>3
  <2> QED
    BY <2>2, <2>3 DEF Handling
<1> QED
  BY <1>4, <1>5, <1>6

LEMMA ReportsOnce ==
    ASSUME LoginsInv, poll.at = "list", NEW read, NEW h, Handling(read, h), Reported(h),
           unsaved' = unsaved, moved' = moved
    PROVE  NothingReplayed'
<1> SUFFICES ASSUME NEW k \in 1 .. Len(fired'), NEW j \in 1 .. k - 1, fired'[k] = fired'[j],
                    fired'[k] \notin unsaved, ~moved
             PROVE  FALSE
  BY DEF NothingReplayed, FiredBefore
<1> DEFINE n == Len(fired)
<1>1. h \in Seq(Entries)
  BY DEF Handling
<1>2. /\ n \in Nat /\ Len(h) \in Nat /\ Len(fired') = n + Len(h)
      /\ \A l \in 1 .. n : fired'[l] = fired[l] /\ fired[l] \in Fired
      /\ \A l \in 1 .. Len(fired') : l \notin 1 .. n => l - n \in 1 .. Len(h) /\ fired'[l] = h[l - n]
  BY <1>1, ReportedType
<1> HIDE DEF n
<1>3. j \in 1 .. Len(fired') /\ j < k /\ k \in Int
  BY <1>2
<1>4. CASE k \in 1 .. n
  <2>1. j \in 1 .. n /\ fired[k] = fired[j] /\ fired[k] \notin unsaved
    BY <1>2, <1>3, <1>4
  <2>2. fired[k] \in FiredBefore(k)
    BY <2>1 DEF FiredBefore
  <2> QED
    BY <1>4, <2>1, <2>2 DEF LoginsInv, NothingReplayed, n
<1>5. CASE k \notin 1 .. n /\ j \in 1 .. n
  <2>1. fired'[k] \in Entries /\ Newer(fired'[k])
    BY <1>2, <1>5 DEF Handling, Counts
  <2>2. fired'[k] \in Fired \ unsaved
    BY <1>2, <1>5
  <2>3. log[fired'[k]].time < log[fired'[k]].time
    BY <2>1, <2>2, Earlier
  <2>4. log[fired'[k]].time \in Int
    BY <2>1, EntryType DEF LoginsInv
  <2> QED
    BY <2>3, <2>4
<1>6. CASE k \notin 1 .. n /\ j \notin 1 .. n
  <2>1. /\ j - n \in 1 .. Len(h) /\ fired'[j] = h[j - n]
        /\ k - n \in 1 .. Len(h) /\ fired'[k] = h[k - n]
    BY <1>2, <1>3, <1>6
  <2>2. j - n = k - n
    BY <2>1 DEF Handling
  <2> QED
    BY <1>2, <1>3, <2>2
<1> QED
  BY <1>4, <1>5, <1>6

\* The last of a set of places.
LEMMA LastPlace ==
    ASSUME NEW n \in Nat, NEW S \in SUBSET (1 .. n), S # {}
    PROVE  Max(S) \in S /\ \A k \in S : k <= Max(S)
<1> DEFINE back == {n - k : k \in S}
<1>1. back \subseteq Nat /\ back # {}
  <2>1. \A k \in S : n - k \in Nat
    OBVIOUS
  <2>2. PICK k \in S : TRUE
    OBVIOUS
  <2> QED
    BY <2>1, <2>2
<1> DEFINE R == OpToRel(<, Nat)
<1>2. IsWellFoundedOn(R, Nat)
  BY NatLessThanWellFounded
<1>3. \A jk \in Nat \X Nat : jk[1] < jk[2] => jk \in R
  BY Zenon DEF OpToRel
<1> HIDE DEF R
<1>4. PICK b \in back : \A c \in back : ~(<<c, b>> \in R)
  <2> HIDE DEF back
  <2> QED
    BY <1>1, <1>2, WFMin
<1>5. PICK k \in S : b = n - k
  BY <1>4
<1>6. ASSUME NEW j \in S PROVE j <= k
  <2>1. n - j \in back /\ n - j \in Nat /\ b \in Nat
    BY <1>1, <1>4
  <2>2. <<n - j, b>> \in Nat \X Nat /\ <<n - j, b>>[1] = n - j /\ <<n - j, b>>[2] = b
    BY <2>1
  <2>3. ~(n - j < b)
    <3> HIDE DEF back
    <3> QED
      BY <1>3, <1>4, <2>1, <2>2
  <2> QED
    BY <1>5, <2>1, <2>3
<1>7. \A l \in S : k >= l
  BY <1>6
<1>8. Max(S) \in S /\ \A l \in S : Max(S) >= l
  BY <1>7 DEF Max
<1> QED
  BY <1>8

LEMMA NamedType ==
    ASSUME LoginsInv, NEW read, NEW h, Handling(read, h), Refused(h) # {}
    PROVE  /\ Max(Refused(h)) \in 1 .. Len(h) /\ Named(h) = h[Max(Refused(h))]
           /\ Named(h) \in Entries /\ ~log[Named(h)].ok
           /\ \A k \in Refused(h) : log[h[k]].time <= log[Named(h)].time
<1> DEFINE R == Refused(h)
<1>1. DOMAIN h = 1 .. Len(h) /\ Len(h) \in Nat
  BY LenProperties DEF Handling
<1>2. R \in SUBSET (1 .. Len(h)) /\ \A k \in R : ~log[h[k]].ok
  BY <1>1 DEF Refused
<1> HIDE DEF R
<1>3. Max(R) \in R /\ \A k \in R : k <= Max(R)
  <2>1. R # {}
    BY DEF R
  <2> QED
    BY <1>1, <1>2, <2>1, LastPlace
<1>4. Named(h) = h[Max(R)]
  BY DEF Named, R
<1>5. Max(R) \in 1 .. Len(h) /\ h[Max(R)] \in Entries /\ ~log[h[Max(R)]].ok
  BY <1>2, <1>3 DEF Handling
<1>6. ASSUME NEW k \in R PROVE log[h[k]].time <= log[h[Max(R)]].time
  <2>1. k \in 1 .. Len(h) /\ k <= Max(R)
    BY <1>2, <1>3
  <2>2. CASE k = Max(R)
    <3>1. log[h[Max(R)]].time \in Int
      BY <1>5, EntryType DEF LoginsInv
    <3> QED
      BY <2>2, <3>1
  <2>3. CASE k < Max(R)
    BY <1>5, <2>1, <2>3 DEF Handling
  <2> QED
    BY <1>1, <1>5, <2>1, <2>2, <2>3
<1> QED
  BY <1>4, <1>5, <1>6 DEF R

\* The issue names the newest refusal of this poll, or else what it named.
LEMMA PollNamesNewest ==
    ASSUME LoginsInv, poll.at = "list", NEW read, NEW h, Handling(read, h), Reported(h),
           unsaved' = unsaved, mark' = mark, issue' = Named(h), entry' # "removed"
    PROVE  IssueNamesNewest'
<1> DEFINE n    == Len(fired)
           open == {i \in {fired[k] : k \in mark + 1 .. Len(fired)} : ~log[i].ok}
           more == {i \in {fired'[k] : k \in mark + 1 .. Len(fired')} : ~log[i].ok}
<1>0. h \in Seq(Entries) /\ Values /\ entry # "removed"
  BY DEF Handling, LoginsInv, Paged, Active
<1>1. /\ n \in Nat /\ Len(h) \in Nat /\ Len(fired') = n + Len(h) /\ mark \in 0 .. n
      /\ \A l \in 1 .. n : fired'[l] = fired[l] /\ fired[l] \in Fired
      /\ \A l \in 1 .. Len(fired') : l \notin 1 .. n => l - n \in 1 .. Len(h) /\ fired'[l] = h[l - n]
      /\ \A k \in 1 .. Len(h) : n + k \in 1 .. Len(fired') /\ fired'[n + k] = h[k]
  BY <1>0, ReportedType DEF Values
<1>2. (issue # 0 <=> open # {}) /\ \A i \in open \ unsaved : log[i].time <= log[issue].time
  BY <1>0 DEF LoginsInv, IssueNamesNewest
<1>3. open \subseteq Fired
  BY <1>1
<1> HIDE DEF n
<1>4. \A l \in 1 .. Len(fired') :
         l \notin 1 .. n => (l - n \in Refused(h) <=> ~log[fired'[l]].ok)
  BY <1>0, <1>1, LenProperties DEF Refused
<1>5. DOMAIN h = 1 .. Len(h) /\ Refused(h) \subseteq 1 .. Len(h)
  BY <1>0, LenProperties DEF Refused
<1>6. more = open \cup {h[k] : k \in Refused(h)}
  <2>1. ASSUME NEW i \in more PROVE i \in open \cup {h[k] : k \in Refused(h)}
    <3>1. PICK l \in mark + 1 .. Len(fired') : i = fired'[l] /\ ~log[i].ok
      BY <2>1
    <3>2. l \in 1 .. Len(fired')
      BY <1>1
    <3>3. CASE l \in 1 .. n
      <4>1. l \in mark + 1 .. Len(fired) /\ i = fired[l]
        BY <1>1, <3>1, <3>3 DEF n
      <4> QED
        BY <3>1, <4>1
    <3>4. CASE l \notin 1 .. n
      <4>1. l - n \in Refused(h) /\ i = h[l - n]
        BY <1>1, <1>4, <3>1, <3>2, <3>4
      <4> QED
        BY <4>1
    <3> QED
      BY <3>3, <3>4
  <2>2. ASSUME NEW i \in open PROVE i \in more
    <3>1. PICK l \in mark + 1 .. n : i = fired[l] /\ ~log[i].ok
      BY <2>2 DEF n
    <3>2. l \in mark + 1 .. Len(fired') /\ i = fired'[l]
      BY <1>1, <3>1
    <3> QED
      BY <3>1, <3>2
  <2>3. ASSUME NEW k \in Refused(h) PROVE h[k] \in more
    <3>1. k \in 1 .. Len(h) /\ ~log[h[k]].ok
      BY <1>5 DEF Refused
    <3>2. n + k \in mark + 1 .. Len(fired') /\ fired'[n + k] = h[k]
      BY <1>1, <3>1
    <3> QED
      BY <3>1, <3>2
  <2> HIDE DEF open, more
  <2> QED
    BY <2>1, <2>2, <2>3
<1>7. more = {i \in {fired'[k] : k \in mark' + 1 .. Len(fired')} : ~log'[i].ok}
  BY DEF Reported
<1> HIDE DEF open, more
<1>8. CASE Refused(h) = {}
  <2>1. issue' = issue /\ more = open
    BY <1>6, <1>8 DEF Named
  <2> QED
    BY <1>2, <1>7, <2>1 DEF IssueNamesNewest, Reported
<1>9. CASE Refused(h) # {}
  <2>1. /\ issue' \in Entries /\ issue' # 0 /\ Max(Refused(h)) \in 1 .. Len(h)
        /\ issue' = h[Max(Refused(h))] /\ log[issue'].time \in Int
        /\ \A k \in Refused(h) : log[h[k]].time <= log[issue'].time
    <3>1. Named(h) \in Entries
      BY <1>9, NamedType
    <3>2. Named(h) # 0 /\ log[Named(h)].time \in Int
      BY <1>0, <3>1, EntryType
    <3> QED
      BY <1>9, <3>1, <3>2, NamedType
  <2>2. more # {}
    BY <1>6, <1>9
  <2>3. ASSUME NEW i \in more \ unsaved PROVE log[i].time <= log[issue'].time
    <3>1. CASE i \in open
      <4>1. Newer(issue')
        BY <2>1 DEF Handling, Counts
      <4>2. log[i].time < log[issue'].time
        BY <1>3, <2>1, <2>3, <3>1, <4>1, Earlier
      <4>3. log[i].time \in Int
        <5>1. Fired \subseteq Entries
          BY <1>0, RangeOfSeq DEF Values, Fired, Range
        <5> QED
          BY <1>0, <1>3, <3>1, <5>1, EntryType
      <4> QED
        BY <2>1, <4>2, <4>3
    <3>2. CASE i \in {h[k] : k \in Refused(h)}
      BY <2>1, <3>2
    <3> QED
      BY <1>6, <2>3, <3>1, <3>2
  <2> QED
    BY <1>7, <2>1, <2>2, <2>3 DEF IssueNamesNewest, Reported
<1> QED
  BY <1>8, <1>9

\* Up to the newest entry a poll handled nothing was passed over: what the listing was cut
\* short of is as young.
LEMMA PollPassesNone ==
    ASSUME LoginsInv, poll.at = "list", NEW read, NEW h, Handling(read, h), h # <<>>, ~moved,
           NEW i \in Entries, log[i].time <= Newest(h), log[i].app \in ours, Kept(i)
    PROVE  i \in Fired \cup Range(h) \cup late \cup CutOff(read) \cup early
<1> SUFFICES ASSUME i \notin early, i \notin Fired \cup late
             PROVE  i \in Range(h) \cup CutOff(read)
  OBVIOUS
<1> DEFINE L == Listing(poll.since)
           m == h[Len(h)]
<1>1. Values /\ Active /\ log[i].app \in watched
  BY DEF LoginsInv, Paged, Noticed
<1>2. Len(h) \in Nat /\ Len(h) # 0
  <2>1. h \in Seq(Entries)
    BY DEF Handling
  <2> QED
    BY <2>1, EmptySeq, LenProperties
<1>3. m \in Range(read) /\ m \in Entries /\ Newer(m) /\ log[m].time = Newest(h)
  <2>1. Len(h) \in 1 .. Len(h)
    BY <1>2
  <2> QED
    BY <2>1 DEF Handling, Counts, Newest
<1>4. log[i].time \in Int /\ log[m].time \in Int /\ i \in Nat
  BY <1>1, <1>3, EntryType
<1> HIDE DEF m
<1>5. CASE ~Newer(i)
  <2>1. log[i].time <= poll.since
    BY <1>1, <1>4, <1>5, Positive DEF Newer, Values, Polls
  <2>2. cursor # 0
    <3>1. ASSUME cursor = 0 PROVE FALSE
      <4>1. poll.since <= now - Retention
        BY <3>1 DEF LoginsInv, Window
      <4>2. log[i].time > now - Retention
        BY DEF Kept, KeptAt
      <4>3. now \in Int /\ Retention \in Int /\ poll.since \in Int
        BY <1>1, Positive DEF Values, Polls
      <4> QED
        BY <1>4, <2>1, <4>1, <4>2, <4>3
    <3> QED
      BY <3>1
  <2>3. log[i].time <= cursor
    BY <2>1, <2>2 DEF LoginsInv, Window
  <2> QED
    BY <2>3 DEF LoginsInv, AllPassed, Passed
<1>6. CASE Newer(i)
  <2>1. i \in InLog(poll.since)
    <3>1. log[i].time >= poll.since
      BY <1>1, <1>4, <1>6, Positive DEF Newer, Values, Polls
    <3> QED
      BY <3>1 DEF InLog
  <2>2. CASE i \in Range(read)
    BY <1>1, <1>6, <2>2 DEF Handling, Counts
  <2>3. CASE i \notin Range(read)
    <3>1. /\ read \in Seq(Entries) /\ Len(read) \in Nat /\ DOMAIN read = 1 .. Len(read)
          /\ \A k \in 1 .. Len(read) : k \in 1 .. Len(L) /\ read[k] = L[k]
      BY LenProperties DEF Handling
    <3>2. PICK k \in 1 .. Len(L) : L[k] = i
      BY <1>1, <2>1, ListingType
    <3>3. Len(L) \in Nat
      BY <1>1, ListingType
    <3> HIDE DEF L
    <3>4. k \notin 1 .. Len(read)
      BY <2>3, <3>1, <3>2 DEF Range
    <3>5. ASSUME NEW j \in Range(read) PROVE log[j].time <= log[i].time
      <4>1. PICK l \in 1 .. Len(read) : read[l] = j
        BY <3>1, <3>5 DEF Range
      <4>2. l \in 1 .. Len(L) /\ L[l] = j /\ l < k
        BY <3>1, <3>2, <3>3, <3>4, <4>1
      <4>3. Before(Stamps, j, i)
        BY <1>1, <3>2, <4>2, ListingType DEF L
      <4>4. j \in Entries /\ log[j].time \in Int
        <5>1. j \in Entries
          BY <3>1, <4>1, ElementOfSeq
        <5> QED
          BY <1>1, <5>1, EntryType
      <4> QED
        BY <1>4, <4>3, <4>4 DEF Before, Stamps
    <3>6. log[m].time = log[i].time
      BY <1>3, <1>4, <3>5
    <3> QED
      BY <1>3, <2>3, <3>5, <3>6 DEF CutOff
  <2> QED
    BY <2>2, <2>3
<1> QED
  BY <1>5, <1>6

\* What the last page leads to.
Closing(read, h) ==
    /\ Handling(read, h) /\ Reported(h)
    /\ UNCHANGED <<now, log, ours, gone, early, watched, asked, saved, fixing, moved, unsaved, mark,
                   failures, cuts>>
    /\ late' = late \cup CutOff(read) /\ issue' = Named(h)
    /\ \/ /\ h = <<>> /\ poll' = NoPoll /\ entry' = "loaded" /\ scheduled' \in BOOLEAN
          /\ cursor' = cursor
       \/ /\ h # <<>> /\ cursor' = Newest(h) /\ entry' = entry /\ scheduled' = scheduled
          /\ poll' = [poll EXCEPT !.at = "save", !.batch = h]

LEMMA Closes ==
    ASSUME LoginsInv, LastPage
    PROVE  \E read, h : Closing(read, h)
<1> DEFINE page == PageOf(poll.since, poll.page)
           read == poll.batch \o page
           h == Handled(read)
<1>1. poll.at = "list"
  BY DEF LastPage
<1>2. Handling(read, h)
  BY <1>1, HandlingType
<1> HIDE DEF page
<1>3. /\ late' = late \cup CutOff(read)
      /\ fired' = fired \o h
      /\ issue' = Named(h)
      /\ IF h = <<>> THEN PollEnds(TRUE) /\ UNCHANGED cursor
         ELSE /\ cursor' = Newest(h)
              /\ poll' = [poll EXCEPT !.at = "save", !.batch = h]
              /\ UNCHANGED <<entry, scheduled>>
      /\ UNCHANGED <<now, log, ours, gone, early, watched, asked, saved, fixing, moved, unsaved, mark,
                     failures, cuts>>
  BY Zenon DEF LastPage, bounds, page
<1> HIDE DEF read, h
<1>4. Reported(h)
  BY <1>3 DEF Reported
<1>5. PollEnds(TRUE) => poll' = NoPoll /\ entry' = "loaded" /\ scheduled' \in BOOLEAN
  <2>1. PollEnds(TRUE) => scheduled' = (TRUE \/ entry = "setup")
    BY Zenon DEF PollEnds
  <2>2. PollEnds(TRUE) => scheduled' \in BOOLEAN
    BY <2>1, Zenon
  <2> QED
    BY <2>2, Zenon DEF PollEnds
<1>6. Closing(read, h)
  BY <1>2, <1>3, <1>4, <1>5 DEF Closing
<1> QED
  BY <1>6

\* The cursor only moves on.
LEMMA CursorMoves ==
    ASSUME LoginsInv, poll.at = "list", NEW read, NEW h, Closing(read, h), h # <<>>
    PROVE  /\ Len(h) \in Nat \ {0} /\ h[Len(h)] \in Entries /\ h[Len(h)] \in Range(h)
           /\ cursor' = log[h[Len(h)]].time /\ cursor' \in Time /\ saved <= cursor'
           /\ \A i \in Range(h) : log[i].time <= cursor'
<1>1. h \in Seq(Entries) /\ Values /\ Handling(read, h)
  BY DEF Closing, Handling, LoginsInv
<1>2. Len(h) \in Nat /\ Len(h) # 0 /\ DOMAIN h = 1 .. Len(h)
  BY <1>1, EmptySeq, LenProperties DEF Closing
<1>3. Len(h) \in 1 .. Len(h)
  BY <1>2
<1>4. cursor' = log[h[Len(h)]].time
  BY DEF Closing, Newest
<1>5. h[Len(h)] \in Entries /\ Newer(h[Len(h)]) /\ h[Len(h)] \in Range(h)
  BY <1>1, <1>2, <1>3 DEF Handling, Counts, Range
<1>6. log[h[Len(h)]].time \in Time /\ log[h[Len(h)]].time \in Int
  BY <1>1, <1>5, EntryType
<1>7. saved <= log[h[Len(h)]].time
  BY <1>5, SavedEarlier
<1>8. ASSUME NEW i \in Range(h) PROVE log[i].time <= log[h[Len(h)]].time
  <2>1. PICK k \in 1 .. Len(h) : h[k] = i
    BY <1>2, <1>8 DEF Range
  <2>2. k = Len(h) \/ k < Len(h)
    <3> DEFINE n == Len(h)
    <3>1. n \in Nat
      BY <1>2
    <3> HIDE DEF n
    <3>2. k \in 1 .. n => k = n \/ k < n
      BY <3>1
    <3> QED
      BY <3>2 DEF n
  <2>3. \A x, y \in 1 .. Len(h) : x < y => log[h[x]].time <= log[h[y]].time
    BY <1>1 DEF Handling
  <2>4. k < Len(h) => log[h[k]].time <= log[h[Len(h)]].time
    BY <1>3, <2>3
  <2> QED
    BY <1>6, <2>1, <2>2, <2>4
<1> QED
  BY <1>2, <1>4, <1>5, <1>6, <1>7, <1>8

LEMMA ClosingPasses ==
    ASSUME LoginsInv, poll.at = "list", NEW read, NEW h, Closing(read, h)
    PROVE  AllPassed'
<1>1. /\ Fired' = Fired \cup Range(h) /\ Entries' = Entries /\ log' = log /\ now' = now
      /\ late' = late \cup CutOff(read) /\ early' = early /\ UNCHANGED <<ours, gone>> /\ moved' = moved
      /\ Handling(read, h)
  <2>1. h \in Seq(Entries)
    BY DEF Closing, Handling
  <2> QED
    BY <2>1, ReportedType DEF Closing, Reported
<1>2. \A i \in Entries : Kept(i)' <=> Kept(i)
  BY <1>1 DEF Kept, KeptAt
<1>3. ASSUME NEW c, Passed(c), NEW i \in Entries, log[i].time <= c, log[i].app \in ours
      PROVE  i \in Fired' \cup late' \cup early' \/ moved' \/ ~Kept(i)'
  <2>1. i \in Fired \cup late \cup early \/ moved \/ ~Kept(i)
    BY <1>3 DEF Passed
  <2> QED
    BY <1>1, <1>2, <2>1
<1>4. ASSUME h # <<>>, NEW i \in Entries, log[i].time <= cursor', log[i].app \in ours
      PROVE  i \in Fired' \cup late' \cup early' \/ moved' \/ ~Kept(i)'
  <2>1. cursor' = Newest(h)
    BY <1>4 DEF Closing
  <2>2. ~moved /\ Kept(i) => i \in Fired \cup Range(h) \cup late \cup CutOff(read) \cup early
    BY <1>1, <1>4, <2>1, PollPassesNone
  <2> QED
    BY <1>1, <1>2, <2>2
<1>5. \A c \in {cursor', saved} : \A i \in Entries :
         log[i].time <= c /\ log[i].app \in ours =>
            i \in Fired' \cup late' \cup early' \/ moved' \/ ~Kept(i)'
  <2>1. h = <<>> => cursor' = cursor
    BY DEF Closing
  <2>2. Passed(cursor) /\ Passed(saved)
    BY DEF LoginsInv, AllPassed
  <2> QED
    BY <1>3, <1>4, <2>1, <2>2
<1>6. saved' = saved
  BY DEF Closing
<1> QED
  BY <1>1, <1>5, <1>6 DEF AllPassed, Passed

LEMMA ClosingPoll ==
    ASSUME LoginsInv, poll.at = "list", NEW read, NEW h, Closing(read, h)
    PROVE  /\ Paged' /\ Window' /\ Prefix' /\ Recorded' /\ Backed' /\ Behind'
           /\ poll' \in Polls /\ cursor' \in Time /\ entry' \in {"setup", "loaded"}
           /\ scheduled' \in BOOLEAN
<1>1. Values /\ Active /\ poll \in Polls /\ Handling(read, h) /\ h \in Seq(Entries)
  BY DEF LoginsInv, Paged, Values, Closing, Handling
<1>2. Fired' = Fired \cup Range(h) /\ Entries' = Entries /\ log' = log
      /\ saved' = saved /\ unsaved' = unsaved
  BY <1>1, ReportedType DEF Closing, Reported
<1>3. \A i \in Fired \ unsaved : log[i].time <= saved
  BY <1>1 DEF LoginsInv, Recorded, Active
<1>4. CASE h = <<>>
  <2>1. /\ poll' = NoPoll /\ entry' = "loaded" /\ scheduled' \in BOOLEAN /\ cursor' = cursor
    BY <1>4 DEF Closing
  <2>2. Range(h) = {}
    <3>1. Len(h) = 0
      BY <1>4, EmptySeq
    <3>2. DOMAIN h = {}
      BY <1>1, <3>1, LenProperties
    <3> QED
      BY <3>2 DEF Range
  <2>3. Paged' /\ Window' /\ Prefix' /\ poll' \in Polls
    BY <2>1, IdleType, NoPollType
  <2>4. Recorded' /\ Backed' /\ Behind'
    BY <1>1, <1>2, <1>3, <2>1, <2>2
       DEF LoginsInv, Recorded, Backed, OfReported, Behind, Active
  <2> QED
    BY <1>1, <2>1, <2>3, <2>4 DEF Values
<1>5. CASE h # <<>>
  <2>1. /\ entry' = entry /\ scheduled' = scheduled
        /\ poll' = [poll EXCEPT !.at = "save", !.batch = h]
    BY <1>5 DEF Closing
  <2>2. poll' \in Polls /\ poll'.at = "save" /\ poll'.batch = h
    BY <1>1, <2>1 DEF Polls
  <2>3. ReadSoFar' = Range(h)
    BY <2>2 DEF ReadSoFar, Range
  <2>4. /\ cursor' \in Time /\ saved <= cursor' /\ \A i \in Range(h) : log[i].time <= cursor'
        /\ h[Len(h)] \in Range(h) /\ cursor' = log[h[Len(h)]].time
    BY <1>5, CursorMoves
  <2>5. Paged'
    BY <1>1, <2>1, <2>2 DEF Paged, Active, Handling
  <2>6. Window' /\ Prefix'
    BY <2>2 DEF Window, Prefix
  <2>7. Recorded'
    BY <1>2, <1>3, <2>2, <2>3, <2>4 DEF Recorded
  <2>8. Backed'
    BY <1>2, <2>4 DEF LoginsInv, Backed, OfReported
  <2>9. Behind'
    BY <1>2, <2>4 DEF Behind
  <2> QED
    BY <1>1, <2>1, <2>2, <2>4, <2>5, <2>6, <2>7, <2>8, <2>9 DEF Active, Values
<1> QED
  BY <1>4, <1>5

LEMMA LastPageStep == LoginsInv /\ LastPage => LoginsInv'
<1> SUFFICES ASSUME LoginsInv, LastPage PROVE LoginsInv'
  OBVIOUS
<1>1. poll.at = "list"
  BY DEF LastPage
<1>2. PICK read, h : Closing(read, h)
  BY Closes
<1>3. /\ Paged' /\ Window' /\ Prefix' /\ Recorded' /\ Backed' /\ Behind'
      /\ poll' \in Polls /\ cursor' \in Time /\ entry' \in {"setup", "loaded"}
      /\ scheduled' \in BOOLEAN
  BY <1>1, <1>2, ClosingPoll
<1>4. AllPassed'
  BY <1>1, <1>2, ClosingPasses
<1>5. Handling(read, h) /\ Reported(h)
      /\ UNCHANGED <<now, log, ours, gone, early, watched, asked, saved, fixing, moved, unsaved, mark,
                     failures, cuts>>
      /\ late' = late \cup CutOff(read) /\ issue' = Named(h) /\ h \in Seq(Entries)
  BY <1>2 DEF Closing, Handling
<1>6. InOrder' /\ NothingReplayed'
  BY <1>1, <1>5, ReportsInOrder, ReportsOnce
<1>7. IssueNamesNewest'
  <2>1. entry' # "removed"
    BY <1>3
  <2> QED
    BY <1>1, <1>5, <2>1, PollNamesNewest
<1>8. Entries' = Entries /\ Active
  BY <1>1, <1>5 DEF Entries, LoginsInv, Paged
<1>9. Noticed' /\ Born'
  BY <1>5, <1>8 DEF LoginsInv, Noticed, Born
<1>10. /\ fired' \in Seq(Entries) /\ mark' \in 0 .. Len(fired')
       /\ issue' \in 0 .. Len(log) /\ late' \subseteq Entries
  <2>1. fired' \in Seq(Entries) /\ Len(fired') = Len(fired) + Len(h)
        /\ Len(fired) \in Nat /\ Len(h) \in Nat
    BY <1>5, ReportedType
  <2>2. mark' \in 0 .. Len(fired')
    BY <1>5, <2>1 DEF LoginsInv, Values
  <2>3. issue' \in 0 .. Len(log)
    <3>1. CASE Refused(h) = {}
      BY <1>5, <3>1 DEF Named, LoginsInv, Values
    <3>2. CASE Refused(h) # {}
      <4>1. issue' \in Entries
        BY <1>5, <3>2, NamedType
      <4>2. Len(log) \in Nat
        BY LenProperties DEF LoginsInv, Values
      <4> QED
        BY <4>1, <4>2 DEF Entries
    <3> QED
      BY <3>1, <3>2
  <2>4. late' \subseteq Entries
    BY <1>5 DEF LoginsInv, Values, CutOff
  <2> QED
    BY <2>1, <2>2, <2>3, <2>4
<1>11. Values'
  <2>1. Polls' = Polls
    BY <1>8 DEF Polls
  <2> QED
    BY <1>3, <1>5, <1>8, <1>10, <2>1 DEF LoginsInv, Values
<1> QED
  BY <1>3, <1>4, <1>6, <1>7, <1>9, <1>11 DEF LoginsInv

-----------------------------------------------------------------------------
(* The theorems.                                                           *)

LEMMA InitInv == Init => LoginsInv
<1> SUFFICES ASSUME Init PROVE LoginsInv
  OBVIOUS
<1>1. /\ <<>> \in Seq(LogEntries) /\ <<>> \in Seq(Entries) /\ Len(<<>>) = 0
      /\ Entries = {} /\ Fired = {}
  <2>1. \A S : <<>> \in Seq(S) /\ Len(<<>>) = 0
    BY EmptySeq
  <2>2. Entries = {}
    BY <2>1 DEF Init, Entries
  <2>3. fired \in Seq(Entries) /\ Len(fired) = 0
    BY <2>1 DEF Init
  <2>4. DOMAIN fired = {}
    BY <2>3, LenProperties
  <2> QED
    BY <2>1, <2>2, <2>4 DEF Fired, Range
<1>2. poll = NoPoll /\ poll \in Polls /\ poll.at = "idle" /\ Len(poll.batch) = 0
  BY NoPollType DEF Init
<1>3. Values
  <2>1. /\ now \in 1 .. MaxTime /\ ours \subseteq Apps /\ gone \subseteq Apps
        /\ watched \subseteq ours \cup gone
        /\ cursor \in Time /\ saved \in Time
        /\ failures \in 0 .. MaxFailures /\ cuts \in 0 .. MaxCuts
    BY LoginsAssumption DEF Init, Time
  <2>2. log \in Seq(LogEntries) /\ Len(log) = 0 /\ fired \in Seq(Entries) /\ Len(fired) = 0
    BY <1>1 DEF Init
  <2>3. Len(log) <= MaxEntries
    BY <2>2, LoginsAssumption
  <2>4. /\ mark \in 0 .. Len(fired) /\ issue \in 0 .. Len(log) /\ fixing \in 0 .. Len(log)
    BY <2>2 DEF Init
  <2>5. /\ entry \in {"down", "setup", "loaded", "removed"}
        /\ scheduled \in BOOLEAN /\ asked \in BOOLEAN /\ moved \in BOOLEAN
        /\ late \subseteq Entries /\ early \subseteq Entries /\ unsaved \subseteq Entries
    BY DEF Init
  <2> QED
    BY <1>2, <2>1, <2>2, <2>3, <2>4, <2>5 DEF Values
<1>4. Paged /\ Window /\ Prefix /\ Behind /\ Noticed
  <2>1. PageSize * MaxPages \in Nat
    BY Positive
  <2> QED
    BY <1>1, <1>2, <2>1 DEF Init, Paged, Window, Prefix, Behind, Noticed, Active
<1>5. Born /\ Recorded /\ Backed /\ AllPassed
  BY <1>1 DEF Init, Born, Recorded, Backed, OfReported, AllPassed, Passed
<1>6. InOrder /\ NothingReplayed /\ IssueNamesNewest
  <2>1. fired = <<>> /\ mark = 0 /\ Len(fired) = 0 /\ issue = 0 /\ entry = "down"
    BY <1>1 DEF Init
  <2>2. 1 .. Len(fired) = {} /\ mark + 1 .. Len(fired) = {}
    BY <2>1
  <2> QED
    BY <2>1, <2>2 DEF InOrder, NothingReplayed, IssueNamesNewest
<1> QED
  BY <1>3, <1>4, <1>5, <1>6 DEF LoginsInv

LEMMA Step == LoginsInv /\ [Next]_vars => LoginsInv'
<1> SUFFICES ASSUME LoginsInv, [Next]_vars PROVE LoginsInv'
  OBVIOUS
<1>1. CASE Load \/ StartPoll
  BY <1>1, BeginStep
<1>2. CASE NextPage
  BY <1>2, NextPageStep
<1>3. CASE LastPage
  BY <1>3, LastPageStep
<1>4. CASE Save \/ \E auth \in BOOLEAN : PollFails(auth)
  BY <1>4, EndStep
<1>5. CASE Watch \/ OpenFix \/ UNCHANGED vars
  BY <1>5, WatchStep
<1>6. CASE Tick
  BY <1>6, TickStep
<1>7. CASE Reload \/ Restart \/ SubmitFix
  BY <1>7, StopStep
<1>8. CASE RemoveEntry
  BY <1>8, RemoveStep
<1>9. CASE \E a \in Apps, ok \in BOOLEAN, t \in Time : Login(a, ok, t)
  BY <1>9, LoginStep
<1>10. CASE \E a \in Apps : Create(a) \/ Delete(a)
  BY <1>10, CreateStep
<1> QED
  BY <1>1, <1>2, <1>3, <1>4, <1>5, <1>6, <1>7, <1>8, <1>9, <1>10, Zenon DEF Next, PollNext

LEMMA Invariant == Spec => []LoginsInv
<1> QED
  BY InitInv, Step, PTL DEF Spec

\* The variables keep their types: a poll reads no more than its pages, and events and the
\* issue name entries of the log (LoginCoordinator, list_access_logs).
THEOREM TypeCorrect == Spec => []TypeOK
<1>1. LoginsInv => TypeOK
  <2> SUFFICES ASSUME LoginsInv PROVE TypeOK
    OBVIOUS
  <2>1. Values /\ Len(poll.batch) <= PageSize * MaxPages /\ now \in Time
    BY Positive DEF LoginsInv, Values, Paged, Time
  <2>2. /\ poll.at \in {"idle", "list", "save"} /\ poll.since \in (0 - Retention) .. MaxTime
        /\ poll.batch \in Seq(Entries) /\ poll.page \in 1 .. MaxPages
    BY <2>1 DEF Values, Polls
  <2>3. log \in Seq([time : Time, app : Apps, ok : BOOLEAN])
    BY <2>1 DEF Values, LogEntries
  <2> QED
    BY <2>1, <2>2, <2>3 DEF Values, TypeOK
<1> QED
  BY <1>1, Invariant, PTL

\* Whatever order the pages come in, and however polls are cut off and repeated, the events
\* follow the logins' times, except those a poll repeats for want of a stored cursor
\* (_async_update_data sorts what it read and skips what the cursor has passed).
THEOREM EventsInOrder == Spec => []InOrder
<1>1. LoginsInv => InOrder
  BY DEF LoginsInv
<1> QED
  BY <1>1, Invariant, PTL

\* A login has a second event only when the write of the cursor behind its first was lost,
\* or the pages moved under the poll that read it twice.
THEOREM NoReplay == Spec => []NothingReplayed
<1>1. LoginsInv => NothingReplayed
  BY DEF LoginsInv
<1> QED
  BY <1>1, Invariant, PTL

\* What lies behind the stored cursor has been reported, also where list_access_logs stops
\* before the end of the listing: a restart that starts at the cursor misses nothing.
THEOREM NoneSkipped == Spec => []NothingSkipped
<1>1. LoginsInv => NothingSkipped
  BY DEF LoginsInv, AllPassed, Passed, NothingSkipped
<1> QED
  BY <1>1, Invariant, PTL

\* The issue is open just when a refusal has been reported since it was closed or lost, and
\* names the newest of them (_async_update_data, DeniedLoginFlow).
THEOREM NewestNamed == Spec => []IssueNamesNewest
<1>1. LoginsInv => IssueNamesNewest
  BY DEF LoginsInv
<1> QED
  BY <1>1, Invariant, PTL
=============================================================================
