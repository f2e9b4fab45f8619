---------------------------- MODULE UpdateCheck -----------------------------
(***************************************************************************)
(* The daily update check of upload and watch                              *)
(* (crates/metrune-cli/src/app.rs, maybe_print_update_notice), its slot in *)
(* the local database that several watch processes share                   *)
(* (claim_update_check in crates/metrune-core/src/state.rs), and the       *)
(* version gate of the server's ingest endpoint the notice warns of.       *)
(*                                                                         *)
(* A version is a major and a minor number; what the code compares is      *)
(* their order, and the major alone.                                       *)
(***************************************************************************)
EXTENDS Integers

CONSTANTS
    Watchers,       \* client processes on one machine
    Current,        \* version of the client
    Versions,       \* versions of servers, floors and releases
    Interval,       \* UPDATE_CHECK_INTERVAL_HOURS
    MaxHour,        \* bound on time
    MaxChanges      \* bound on what operators change

ASSUME UpdateCheckAssumption ==
    /\ Versions \subseteq Nat \X Nat /\ Current \in Versions
    /\ Interval \in Nat \ {0} /\ MaxHour \in Nat /\ MaxChanges \in Nat

VARIABLES
    hour,
    lastCheck,      \* last_update_check_at
    watchers,       \* what each process is doing, and what it has fetched
    server,         \* version of the server and the floor it enforces
    manifest,       \* version and minimum of the release it publishes
    changes

checkVars == <<hour, lastCheck, watchers, server, manifest, changes>>

NotYet == -1
None == <<0, 0>>            \* no floor, no release, an answer that failed
Unreachable == [version |-> None, minimum |-> None]

ASSUME NoneAssumption == None \notin Versions

Older(u, v) == u[1] < v[1] \/ (u[1] = v[1] /\ u[2] < v[2])
ShareMajor(u, v) == u[1] = v[1]

Manifests == [version : Versions, minimum : Versions]
IdleWatcher == [phase |-> "idle", clock |-> NotYet, info |-> Unreachable, manifest |-> Unreachable,
         waits |-> {}, notice |-> "none"]
Notices == {"none", "incompatible", "unsupported", "below minimum", "available"}

UpdateCheckTypeOK ==
    /\ hour \in 0..MaxHour
    /\ lastCheck \in {NotYet} \cup 0..hour
    /\ \A w \in Watchers : /\ watchers[w].clock \in {NotYet} \cup 0..hour
                           /\ watchers[w].notice \in Notices
    /\ server.minimum # None => ShareMajor(server.minimum, server.version)

UpdateCheckInit ==
    /\ hour = 0 /\ lastCheck = NotYet
    /\ watchers = [w \in Watchers |-> IdleWatcher]
    /\ server = [version |-> Current, minimum |-> None]
    /\ manifest = [version |-> Current, minimum |-> Current]
    /\ changes = 0

HourPasses ==
    /\ hour < MaxHour
    /\ hour' = hour + 1
    /\ UNCHANGED <<lastCheck, watchers, server, manifest, changes>>

\* Operators deploy another server, or raise its floor
\* (configured_minimum_client_version), or publish a release
\* (ClientReleaseManifest::validate).
Deploy ==
    /\ changes < MaxChanges
    /\ changes' = changes + 1
    /\ \E v \in Versions, m \in Versions \cup {None} :
          /\ m # None => ShareMajor(m, v)
          /\ server' = [version |-> v, minimum |-> m]
    /\ UNCHANGED <<hour, lastCheck, watchers, manifest>>

Publish ==
    /\ changes < MaxChanges
    /\ changes' = changes + 1
    /\ \E r \in Manifests : ~Older(r.version, r.minimum) /\ manifest' = r
    /\ UNCHANGED <<hour, lastCheck, watchers, server>>

(***************************************************************************)
(* maybe_print_update_notice.                                              *)
(***************************************************************************)
ReadClock(w) ==
    /\ watchers[w].phase = "idle"
    /\ watchers' = [watchers EXCEPT ![w] = [IdleWatcher EXCEPT !.phase = "claim", !.clock = hour]]
    /\ UNCHANGED <<hour, lastCheck, server, manifest, changes>>

\* A check is due when none is recorded, when the recorded one lies ahead of
\* the clock, and after the interval.
Due(clock, checked) == checked = NotYet \/ clock < checked \/ clock - checked >= Interval

\* claim_update_check: BEGIN IMMEDIATE ... COMMIT.
Claim(w) ==
    /\ watchers[w].phase = "claim"
    /\ IF Due(watchers[w].clock, lastCheck)
       THEN /\ lastCheck' = watchers[w].clock
            /\ watchers' = [watchers EXCEPT ![w].phase = "fetch", ![w].waits = {"info", "manifest"}]
       ELSE /\ watchers' = [watchers EXCEPT ![w] = IdleWatcher]
            /\ UNCHANGED lastCheck
    /\ UNCHANGED <<hour, server, manifest, changes>>

\* The two requests of tokio::join!, each of which may fail and either of
\* which may be answered first; the notice comes of both.
FetchInfo(w, answered) ==
    /\ watchers[w].phase = "fetch" /\ "info" \in watchers[w].waits
    /\ watchers' = [watchers EXCEPT ![w].waits = @ \ {"info"},
                                    ![w].info = IF answered THEN server ELSE Unreachable]
    /\ UNCHANGED <<hour, lastCheck, server, manifest, changes>>

FetchRelease(w, answered) ==
    /\ watchers[w].phase = "fetch" /\ "manifest" \in watchers[w].waits
    /\ watchers' = [watchers EXCEPT ![w].waits = @ \ {"manifest"},
                                    ![w].manifest = IF answered THEN manifest ELSE Unreachable]
    /\ UNCHANGED <<hour, lastCheck, server, manifest, changes>>

\* Mutant of Notice: a release's minimum hides the floor of the server.
NoticeByManifest(info, release) ==
    IF info.version # None /\ ~ShareMajor(Current, info.version) THEN "incompatible"
    ELSE IF release.version # None
         THEN IF Older(Current, release.minimum) THEN "below minimum"
              ELSE IF Older(Current, release.version) THEN "available" ELSE "none"
    ELSE IF info.minimum # None /\ Older(Current, info.minimum) THEN "unsupported"
    ELSE "none"

\* update_notice: a floor of the server stands for the release's minimum.
Notice(info, release) ==
    IF info.version # None /\ ~ShareMajor(Current, info.version) THEN "incompatible"
    ELSE IF info.minimum # None /\ Older(Current, info.minimum) THEN "unsupported"
    ELSE IF info.minimum = None /\ release.version # None /\ Older(Current, release.minimum)
         THEN "below minimum"
    ELSE IF release.version # None /\ Older(Current, release.version) THEN "available"
    ELSE "none"

Tell(w) ==
    /\ watchers[w].phase = "fetch" /\ watchers[w].waits = {}
    /\ watchers' = [watchers EXCEPT ![w].phase = "told",
                                    ![w].notice = Notice(watchers[w].info, watchers[w].manifest)]
    /\ UNCHANGED <<hour, lastCheck, server, manifest, changes>>

\* The next upload, or the next turn of watch.
NextRound(w) ==
    /\ watchers[w].phase = "told"
    /\ watchers' = [watchers EXCEPT ![w] = IdleWatcher]
    /\ UNCHANGED <<hour, lastCheck, server, manifest, changes>>

UpdateCheckNext ==
    \/ HourPasses \/ Deploy \/ Publish
    \/ \E w \in Watchers :
         \/ ReadClock(w) \/ Claim(w) \/ Tell(w) \/ NextRound(w)
         \/ \E answered \in BOOLEAN : FetchInfo(w, answered) \/ FetchRelease(w, answered)

UpdateCheckSpec == UpdateCheckInit /\ [][UpdateCheckNext]_checkVars

-----------------------------------------------------------------------------
\* ingest_sessions answers 426 to this client.
Refuses(s) ==
    \/ ~ShareMajor(Current, s.version)
    \/ s.minimum # None /\ Older(Current, s.minimum)

\* Whoever learns how the server is configured is told when it would refuse the
\* client's uploads, whatever release is published beside it and in whatever
\* order floor and release are changed (update_notice against the gate of
\* ingest_sessions).
RefusedIsTold ==
    \A w \in Watchers : watchers[w].phase = "told" /\ watchers[w].info # Unreachable =>
        (Refuses(watchers[w].info) <=> watchers[w].notice \in {"incompatible", "unsupported"})

=============================================================================
