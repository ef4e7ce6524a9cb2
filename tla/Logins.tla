------------------------------- MODULE Logins -------------------------------
(***************************************************************************)
(* LoginCoordinator (logins.py): the account's authentication logs, read   *)
(* page by page from a stored cursor, and turned into events and into one  *)
(* repair issue that names the newest refused address.                     *)
(*                                                                         *)
(* A poll can end wherever it waits: at a page, and while it writes the    *)
(* cursor.  What it read is handled in one go, for nothing in between      *)
(* waits.  The log grows and expires while its pages are read; an entry    *)
(* may be listed only after younger ones were.                             *)
(*                                                                         *)
(* A definition X_Y is X with a plausible mistake Y, and is not used.      *)
(***************************************************************************)
EXTENDS Integers, Sequences, FiniteSetsExt, Functions

CONSTANTS
    Apps,           \* Access applications of the account
    First,          \* those this entry has when it is first set up
    Later,          \* those it may create later: of clients, or a gate anew
    Retention,      \* how long an entry is kept, and how far back the first poll looks
    PageSize, MaxPages,
    MaxTime,        \* bound: the clock
    MaxEntries,     \* bound: log entries
    MaxLate,        \* bound: entries listed after younger ones
    MaxFailures,    \* bound: failed calls and writes
    MaxCuts,        \* bound: reloads, restarts and deletions
    Repairs         \* whether the issue's fix is used

ASSUME LoginsAssumption ==
    /\ First \subseteq Apps /\ Later \subseteq Apps
    /\ {Retention, PageSize, MaxPages, MaxTime} \subseteq Nat \ {0}
    /\ {MaxEntries, MaxLate, MaxFailures, MaxCuts} \subseteq Nat
    /\ Repairs \in BOOLEAN

VARIABLES
    now,        \* the clock
    log,        \* Cloudflare's entries, as they arrived: stamp, application, outcome
    ours,       \* applications of this entry
    gone,       \* those it deleted; Cloudflare uses no id twice
    watched,    \* app_ids
    entry,      \* state of the config entry
    scheduled,  \* the coordinator has a next poll
    asked,      \* it has asked for a new sign-in since it was loaded
    poll,       \* the poll that runs
    cursor,     \* data.cursor, 0 for None
    saved,      \* the stored cursor
    fired,      \* the entries events were fired for, in that order
    issue,      \* the entry ISSUE_DENIED_LOGIN names, 0 for no issue
    fixing,     \* the entry the open repair flow was opened for
    late,       \* history: entries listed after a poll had read up to their stamp
    early,      \* history: entries of applications a loaded entry did not watch yet
    moved,      \* history: the pages of a listing moved while it was read
    unsaved,    \* history: entries handled by a poll whose cursor was not stored
    mark,       \* history: the events fired before the issue was last closed or lost
    failures, cuts

outside == <<now, log, ours, gone, late, early>>
repair  == <<issue, fixing, mark>>
bounds  == <<failures, cuts>>
vars == <<now, log, ours, gone, watched, entry, scheduled, asked, poll, cursor, saved, fired,
          issue, fixing, late, early, moved, unsaved, mark, failures, cuts>>

Entries == 1 .. Len(log)
Time    == 0 .. MaxTime
NoPoll  == [at |-> "idle", since |-> 0, batch |-> <<>>, page |-> 1]

TypeOK ==
    /\ now \in Time /\ ours \cup gone \subseteq Apps /\ watched \subseteq ours \cup gone
    /\ Len(log) <= MaxEntries
    /\ log \in Seq([time : Time, app : Apps, ok : BOOLEAN])
    /\ entry \in {"down", "setup", "loaded", "removed"}
    /\ scheduled \in BOOLEAN /\ asked \in BOOLEAN
    /\ poll.at \in {"idle", "list", "save"} /\ poll.since \in (0 - Retention) .. MaxTime
    /\ poll.batch \in Seq(Entries) /\ poll.page \in 1 .. MaxPages
    /\ Len(poll.batch) <= PageSize * MaxPages
    /\ {cursor, saved} \subseteq Time
    /\ fired \in Seq(Entries) /\ mark \in 0 .. Len(fired)
    /\ {issue, fixing} \subseteq 0 .. Len(log)
    /\ late \cup early \cup unsaved \subseteq Entries /\ moved \in BOOLEAN
    /\ failures \in 0 .. MaxFailures /\ cuts \in 0 .. MaxCuts

Init ==
    /\ now = 1 /\ log = <<>> /\ ours = First /\ gone = {} /\ watched = {}
    /\ entry = "down" /\ scheduled = FALSE /\ asked = FALSE /\ poll = NoPoll
    /\ cursor = 0 /\ saved = 0
    /\ fired = <<>> /\ issue = 0 /\ fixing = 0 /\ mark = 0
    /\ late = {} /\ early = {} /\ moved = FALSE /\ unsaved = {}
    /\ failures = 0 /\ cuts = 0

-----------------------------------------------------------------------------
(* The logs.                                                               *)

KeptAt(i, t) == log[i].time > t - Retention
Kept(i) == KeptAt(i, now)

Stamps == [i \in Entries |-> log[i].time]

\* By time, and then by number.
Before(t, j, i) == t[j] < t[i] \/ (t[j] = t[i] /\ j < i)
Rank(S, t, i)   == Cardinality({j \in S : Before(t, j, i)})
ByTime(S, t)    == [k \in 1 .. Cardinality(S) |-> CHOOSE i \in S : Rank(S, t, i) = k - 1]

Older(i, j) == Before(Stamps, i, j)

\* What Cloudflare lists since a time, oldest first.
InLog(since)   == {i \in Entries : Kept(i) /\ log[i].time >= since}
Listing(since) == ByTime(InLog(since), Stamps)

PageOf(since, p) ==
    LET all  == Listing(since)
        last == IF p * PageSize < Len(all) THEN p * PageSize ELSE Len(all)
    IN SubSeq(all, (p - 1) * PageSize + 1, last)

ReadSoFar == Range(poll.batch)
\* A poll has handled an entry with this stamp or a younger one, or will.
ReadPast(t) == \E i \in Range(fired) \cup ReadSoFar : t <= log[i].time

\* The account-wide list moves under a poll between two of its pages.
Moves(listed) == moved' = (moved \/ (poll.at = "list" /\ listed))

\* Somebody logs in, or is refused; the entry may be listed only now.
Login(a, ok, t) ==
    /\ Len(log) < MaxEntries /\ entry # "removed"
    /\ t = now \/ (t = now - 1 /\ t > 0)
    /\ a \notin gone /\ (a \in Later => a \in ours)
    /\ LET i == Len(log) + 1 IN
       /\ log' = Append(log, [time |-> t, app |-> a, ok |-> ok])
       /\ late' = (IF ReadPast(t) THEN late \cup {i} ELSE late)
       /\ Cardinality(late') <= MaxLate
       /\ early' = (IF a \in ours \ watched /\ entry # "down" THEN early \cup {i} ELSE early)
    /\ Moves(\E i \in ReadSoFar : t < log[i].time)
    /\ UNCHANGED <<now, ours, gone, watched, entry, scheduled, asked, poll, cursor, saved, fired, repair,
                   unsaved, bounds>>

Tick ==
    /\ now < MaxTime /\ entry # "removed"
    /\ now' = now + 1
    /\ Moves(\E i \in ReadSoFar : Kept(i) /\ ~KeptAt(i, now + 1))
    /\ UNCHANGED <<log, ours, gone, late, early, watched, entry, scheduled, asked, poll, cursor, saved,
                   fired, repair, unsaved, bounds>>

\* A setup or a refresh creates an application, people can log in there at once.
Create(a) ==
    /\ a \in Later \ (ours \cup gone) /\ entry \in {"down", "loaded"}
    /\ ours' = ours \cup {a}
    /\ UNCHANGED <<now, log, gone, late, early, watched, entry, scheduled, asked, poll, cursor,
                   saved, fired, repair, moved, unsaved, bounds>>

\* _async_set_watched_apps
Watched == ours

\* The end of that refresh.
Watch ==
    /\ entry = "loaded" /\ watched # Watched
    /\ watched' = Watched
    /\ UNCHANGED <<outside, entry, scheduled, asked, poll, cursor, saved, fired, repair, moved,
                   unsaved, bounds>>

-----------------------------------------------------------------------------
(* A poll.                                                                 *)

Since(c) == IF c = 0 THEN now - Retention ELSE c

Listed(c) == [NoPoll EXCEPT !.at = "list", !.since = Since(c)]

\* async_setup_entry: the stored history, then the first poll, whose failure is no failure
\* of the setup.
Load ==
    /\ entry = "down"
    /\ entry' = "setup"
    /\ cursor' = saved /\ watched' = Watched /\ asked' = FALSE
    /\ poll' = Listed(saved)
    /\ UNCHANGED <<outside, scheduled, saved, fired, repair, moved, unsaved, bounds>>

StartPoll ==
    /\ entry = "loaded" /\ scheduled /\ poll.at = "idle"
    /\ scheduled' = FALSE
    /\ poll' = Listed(cursor)
    /\ UNCHANGED <<outside, watched, entry, asked, cursor, saved, fired, repair, moved, unsaved,
                   bounds>>

\* The first poll ends the setup, which adds the listener: that schedules the next.
\* Later the coordinator schedules it, unless the sign-in was refused.
PollEnds(again) ==
    /\ poll' = NoPoll
    /\ entry' = "loaded"
    /\ scheduled' = (again \/ entry = "setup")

Newer_OrOn(i) == log[i].time >= poll.since
Newer(i) == log[i].time > poll.since

At(b) == [k \in DOMAIN b |-> log[b[k]].time]

Chronological_Backwards(b, places) ==
    LET order == ByTime(places, [k \in DOMAIN b |-> 0 - At(b)[k]])
    IN [k \in DOMAIN order |-> b[order[k]]]
\* sorted() by created_at, whatever order the API used, of what is at some places.
Chronological(b, places) ==
    LET order == ByTime(places, At(b)) IN [k \in DOMAIN order |-> b[order[k]]]

\* The entries the poll handles; the logs are account-wide.
Counts(i)  == Newer(i) /\ log[i].app \in watched
Handled(b) == Chronological(b, {k \in DOMAIN b : Counts(b[k])})

Newest_OfClock(h) == now
Newest(h) == log[h[Len(h)]].time

Refused(h) == {k \in DOMAIN h : ~log[h[k]].ok}

Named_Kept(h) == IF Refused(h) = {} \/ issue # 0 THEN issue ELSE h[Min(Refused(h))]
\* A newer refusal replaces the older one.
Named(h) == IF Refused(h) = {} THEN issue ELSE h[Max(Refused(h))]

Ends_OnShortPage(page) == Len(page) < PageSize
\* list_access_logs stops at a page that is not full, or after so many.
Ends(page) == Len(page) < PageSize \/ poll.page >= MaxPages

NextPage ==
    /\ poll.at = "list"
    /\ \E page \in {PageOf(poll.since, poll.page)} :
       /\ ~Ends(page)
       /\ poll' = [poll EXCEPT !.batch = @ \o page, !.page = @ + 1]
    /\ UNCHANGED <<outside, watched, entry, scheduled, asked, cursor, saved, fired, repair, moved,
                   unsaved, bounds>>

\* After the last page it may read, entries with the same stamp may follow.
CutOff(read) ==
    {i \in Entries \ Range(read) :
        /\ \E j \in Range(read) : log[j].time = log[i].time
        /\ \A j \in Range(read) : log[j].time <= log[i].time}

\* The rest of _async_update_data, up to the write of the cursor.
LastPage ==
    /\ poll.at = "list"
    /\ \E page \in {PageOf(poll.since, poll.page)} : \E read \in {poll.batch \o page} :
       \E h \in {Handled(read)} :
          /\ Ends(page)
          /\ late' = late \cup CutOff(read)
          /\ fired' = fired \o h
          /\ issue' = Named(h)
          /\ IF h = <<>> THEN PollEnds(TRUE) /\ UNCHANGED cursor
             ELSE /\ cursor' = Newest(h)
                  /\ poll' = [poll EXCEPT !.at = "save", !.batch = h]
                  /\ UNCHANGED <<entry, scheduled>>
    /\ UNCHANGED <<now, log, ours, gone, early, watched, asked, saved, fixing, moved, unsaved, mark,
                   bounds>>

MayFail == failures < MaxFailures /\ failures' = failures + 1

\* A write that fails is only logged by Home Assistant.
Save ==
    /\ poll.at = "save"
    /\ \/ saved' = cursor /\ UNCHANGED <<unsaved, failures>>
       \/ MayFail /\ unsaved' = unsaved \cup ReadSoFar /\ UNCHANGED saved
    /\ PollEnds(TRUE)
    /\ UNCHANGED <<outside, watched, asked, cursor, fired, repair, moved, cuts>>

Again_Never(auth) == FALSE
\* UpdateFailed is tried again; ConfigEntryAuthFailed asks for a new sign-in and stops.
Again(auth) == ~auth

PollFails(auth) ==
    /\ poll.at = "list" /\ MayFail
    /\ PollEnds(Again(auth))
    /\ asked' = (asked \/ auth)
    /\ UNCHANGED <<outside, watched, cursor, saved, fired, repair, moved, unsaved, cuts>>

PollNext ==
    \/ Load \/ StartPoll \/ NextPage \/ LastPage \/ Save \/ Watch
    \/ \E auth \in BOOLEAN : PollFails(auth)

-----------------------------------------------------------------------------
(* Deletions, reloads, restarts, the repair flow, removal.                 *)

\* The poll is cancelled where it waits; a write of the cursor may still get through.
Dropped ==
    /\ poll' = NoPoll /\ entry' = "down" /\ scheduled' = FALSE
    /\ \/ poll.at # "save" /\ UNCHANGED <<saved, unsaved>>
       \/ poll.at = "save" /\ saved' = cursor /\ UNCHANGED unsaved
       \/ poll.at = "save" /\ unsaved' = unsaved \cup ReadSoFar /\ UNCHANGED saved

Cut == cuts < MaxCuts /\ cuts' = cuts + 1

\* A setup or a refresh deletes an application, a removed client's or a gate it replaces.
Delete(a) ==
    /\ Cut /\ a \in ours /\ entry \in {"down", "loaded"}
    /\ ours' = ours \ {a} /\ gone' = gone \cup {a}
    /\ UNCHANGED <<now, log, late, early, watched, entry, scheduled, asked, poll, cursor, saved,
                   fired, repair, moved, unsaved, failures>>

\* New options, a new sign-in, the service: the entry is unloaded and set up again.
Reload ==
    /\ Cut /\ entry = "loaded" /\ Dropped
    /\ UNCHANGED <<outside, watched, asked, cursor, fired, repair, moved, failures>>

\* A restart loses the issue as well, and its open flow.
Restart ==
    /\ Cut /\ entry \in {"loaded", "setup"} /\ Dropped
    /\ watched' = {} /\ cursor' = 0
    /\ issue' = 0 /\ fixing' = 0 /\ mark' = Len(fired)
    /\ UNCHANGED <<outside, asked, fired, moved, failures>>

OpenFix ==
    /\ Repairs /\ issue # 0 /\ fixing = 0
    /\ fixing' = issue
    /\ UNCHANGED <<outside, watched, entry, scheduled, asked, poll, cursor, saved, fired, issue,
                   mark, moved, unsaved, bounds>>

\* DeniedLoginFlow gives the address to a person; Home Assistant closes the issue of that
\* id; the entry is reloaded.
SubmitFix ==
    /\ Cut /\ fixing # 0 /\ entry = "loaded"
    /\ issue' = 0 /\ fixing' = 0 /\ mark' = Len(fired)
    /\ Dropped
    /\ UNCHANGED <<outside, watched, asked, cursor, fired, moved, failures>>

\* async_remove_login_history.
RemoveEntry ==
    /\ entry = "down"
    /\ Cut
    /\ entry' = "removed" /\ saved' = 0 /\ issue' = 0 /\ mark' = Len(fired)
    /\ UNCHANGED <<outside, watched, scheduled, asked, poll, cursor, fired, fixing, moved, unsaved,
                   failures>>

Next ==
    \/ PollNext \/ Tick \/ Reload \/ Restart \/ OpenFix \/ SubmitFix \/ RemoveEntry
    \/ \E a \in Apps, ok \in BOOLEAN, t \in Time : Login(a, ok, t)
    \/ \E a \in Apps : Create(a) \/ Delete(a)

Spec == Init /\ [][Next]_vars
\* The coordinator's polls come round and go on; a reload sets the entry up again.
FairSpec == Spec /\ WF_vars(PollNext)

-----------------------------------------------------------------------------
(* Properties                                                              *)

Fired == Range(fired)
FiredBefore(k) == {fired[j] : j \in 1 .. k - 1}

\* The events come in the order of the logins (logins.py:115), except that a later poll
\* repeats those whose cursor was not stored, also when entries are listed late or the
\* pages move.
InOrder ==
    \A j \in 1 .. Len(fired) : \A k \in j + 1 .. Len(fired) :
        log[fired[j]].time <= log[fired[k]].time \/ fired[j] \in unsaved

\* A login has a second event only when the cursor behind the first one was never stored,
\* or when the pages moved.
NothingReplayed ==
    \A k \in 1 .. Len(fired) :
        fired[k] \in FiredBefore(k) => fired[k] \in unsaved \/ moved

\* A login has one event, whatever restarts (README, "so nothing is replayed after a
\* restart"), unless the pages moved.
NothingReplayedAfterRestart ==
    \A k \in 1 .. Len(fired) : fired[k] \in FiredBefore(k) => moved

\* No login is passed over: the cursor moves past the logins of the entry's applications
\* only once they have had their event, also when the listing was cut short.  A deleted
\* application's are, if no poll came before the refresh that deleted it.
NothingSkipped ==
    \A i \in Entries :
        log[i].time <= saved /\ log[i].app \in ours =>
            i \in Fired \cup late \cup early \/ moved \/ ~Kept(i)

\* The issue names the newest of the refusals since it was last closed (logins.py:161).
IssueNamesNewest ==
    LET open == {i \in {fired[k] : k \in mark + 1 .. Len(fired)} : ~log[i].ok}
    IN IF entry = "removed" THEN issue = 0
       ELSE /\ issue # 0 <=> open # {}
            /\ \A i \in open \ unsaved : log[i].time <= log[issue].time

\* An entry stamped on the cursor was handled last time (logins.py:118).
OnCursorMeansHandled ==
    \A i \in Entries : log[i].time = saved /\ log[i].app \in First => i \in Fired

\* As many entries as one poll reads come before this one, and stay before it: those
\* of other applications never move the cursor.
Crowded(i) ==
    Cardinality({j \in Entries : Older(j, i) /\ log[j].time >= cursor}) >= PageSize * MaxPages

\* Every login of the entry's applications has its event in the end, unless it expired
\* before a poll came, or the polls wait for a new sign-in.
EventuallyReported ==
    \A i \in 1 .. MaxEntries :
        <>[](\/ i \notin Entries
             \/ log[i].app \notin ours
             \/ i \in Fired \cup late \cup early
             \/ ~Kept(i) \/ moved \/ Crowded(i)
             \/ entry = "removed"
             \/ asked)
=============================================================================
