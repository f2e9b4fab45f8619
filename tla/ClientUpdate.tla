---------------------------- MODULE ClientUpdate ----------------------------
(***************************************************************************)
(* metrune update: from the release manifest a server relays               *)
(* (crates/metrune-api/src/distribution.rs, metrune-core/src/release.rs)   *)
(* to the binary on PATH (update_client and replace_binary_at in           *)
(* crates/metrune-cli/src/app.rs), while an operator replaces the mirror's *)
(* files and other processes update the same installation.                 *)
(*                                                                         *)
(* A release is a number; its bytes, its digest and its signed manifest    *)
(* are that number.  Partial is a file that is still being written.  A     *)
(* process stops at any step; what a file system does to unwritten pages   *)
(* when the machine itself stops is not modelled.                          *)
(***************************************************************************)
EXTENDS Integers

CONSTANTS
    Updaters,       \* processes that run metrune update on one machine
    MaxRelease,     \* number of releases
    Mirrored,       \* whether the server has METRUNE_PUBLIC_API_URL
    MaxCopies,      \* bound on the operator's steps
    MaxRuns         \* bound on the runs of metrune update

ASSUME ClientUpdateAssumption ==
    /\ MaxRelease \in Nat \ {0} /\ Mirrored \in BOOLEAN
    /\ MaxCopies \in Nat /\ MaxRuns \in Nat

VARIABLES
    windows,        \* whether the client runs on Windows
    mirror,         \* the server's manifest and its copy of the artifact
    copies,
    onPath, old,    \* the files metrune and metrune.old
    staged,         \* the file metrune.<pid>.new of each process
    updaters,       \* what each process is doing
    runs

updateVars == <<windows, mirror, copies, onPath, old, staged, updaters, runs>>

Releases == 1..MaxRelease
Absent == 0
Partial == -1
Files == Releases \cup {Absent, Partial}

Phases == {"idle", "download", "stage", "clear", "aside", "place", "stopped midway"}

\* version is the one compiled into the process, image the file it runs from.
Idle == [phase |-> "idle", version |-> Absent, image |-> "none", manifest |-> Absent,
         url |-> "upstream", binary |-> Absent]

Updater ==
    [phase : Phases, version : Releases \cup {Absent}, image : {"none", "metrune", "old"},
     manifest : Releases \cup {Absent}, url : {"upstream", "mirror"}, binary : Files]

ClientUpdateTypeOK ==
    /\ windows \in BOOLEAN
    /\ mirror \in [manifest : Releases, artifact : Files]
    /\ onPath \in Files /\ old \in Files
    /\ staged \in [Updaters -> Files]
    /\ updaters \in [Updaters -> Updater]
    /\ \A p \in Updaters :
         updaters[p].phase \in {"clear", "aside", "place"} => staged[p] = updaters[p].binary

ClientUpdateInit ==
    /\ windows \in BOOLEAN
    /\ mirror = [manifest |-> 1, artifact |-> Absent] /\ copies = 0
    /\ onPath = 1 /\ old = Absent
    /\ staged = [p \in Updaters |-> Absent]
    /\ updaters = [p \in Updaters |-> Idle]
    /\ runs = 0

(***************************************************************************)
(* The mirror.  Its files are downloaded in place, in any order.           *)
(***************************************************************************)
CopyManifest ==
    /\ copies < MaxCopies
    /\ copies' = copies + 1
    /\ mirror' \in {[mirror EXCEPT !.manifest = r] : r \in Releases \ {mirror.manifest}}
    /\ UNCHANGED <<onPath, old, staged, updaters, runs>>

CopyArtifact ==
    /\ copies < MaxCopies
    /\ copies' = copies + 1
    /\ mirror' \in {[mirror EXCEPT !.artifact = f] :
                      f \in IF mirror.artifact = Partial THEN Releases ELSE {Partial}}
    /\ UNCHANGED <<onPath, old, staged, updaters, runs>>

\* ClientDistribution::manifest: where the client is to fetch the artifact.
Url == IF Mirrored /\ mirror.artifact # Absent THEN "mirror" ELSE "upstream"

\* download_client: what it answers with, if it does.
Served == IF mirror.artifact = mirror.manifest THEN {mirror.artifact} ELSE {}

(***************************************************************************)
(* update_client.                                                          *)
(***************************************************************************)
Become(p, state) == updaters' = [updaters EXCEPT ![p] = state]
Enter(p, phase) == Become(p, [updaters[p] EXCEPT !.phase = phase])

\* The binary on PATH is started.
Start(p) ==
    /\ updaters[p].phase = "idle"
    /\ onPath # Absent
    /\ runs < MaxRuns
    /\ runs' = runs + 1
    /\ staged' = [staged EXCEPT ![p] = Absent]     \* another process id
    /\ Become(p, [Idle EXCEPT !.phase = "download", !.version = onPath, !.image = "metrune"])
    /\ UNCHANGED <<mirror, copies, onPath, old>>

\* fetch_manifest, verify_signature, is_newer_than the running version.
FetchManifest(p) ==
    /\ updaters[p].phase = "download" /\ updaters[p].manifest = Absent
    /\ IF mirror.manifest > updaters[p].version
       THEN Become(p, [updaters[p] EXCEPT !.manifest = mirror.manifest, !.url = Url])
       ELSE Become(p, Idle)
    /\ UNCHANGED <<mirror, copies, onPath, old, staged, runs>>

\* Mutant of Download: the digest is left to the server.
DownloadUnchecked(p) ==
    /\ updaters[p].phase = "download" /\ updaters[p].manifest # Absent
    /\ \E bytes \in IF updaters[p].url = "mirror" THEN Served ELSE {updaters[p].manifest} :
          Become(p, [updaters[p] EXCEPT !.phase = "stage", !.binary = bytes])
    /\ UNCHANGED <<mirror, copies, onPath, old, staged, runs>>

\* The artifact arrives and has the digest of the manifest, or the run ends.
Download(p) ==
    /\ updaters[p].phase = "download" /\ updaters[p].manifest # Absent
    /\ \E bytes \in IF updaters[p].url = "mirror" THEN Served ELSE {updaters[p].manifest} :
          IF bytes = updaters[p].manifest
          THEN Become(p, [updaters[p] EXCEPT !.phase = "stage", !.binary = bytes])
          ELSE Become(p, Idle)
    /\ UNCHANGED <<mirror, copies, onPath, old, staged, runs>>

\* Any request fails, or the user stops the process before it touches a file.
GiveUp(p) ==
    /\ updaters[p].phase = "download"
    /\ Become(p, Idle)
    /\ UNCHANGED <<mirror, copies, onPath, old, staged, runs>>

(***************************************************************************)
(* replace_binary_at.                                                      *)
(***************************************************************************)
\* fs::write of the staged file, in two steps.
Stage(p) ==
    /\ updaters[p].phase = "stage"
    /\ IF staged[p] = Partial
       THEN staged' = [staged EXCEPT ![p] = updaters[p].binary] /\ Enter(p, "clear")
       ELSE staged' = [staged EXCEPT ![p] = Partial] /\ UNCHANGED updaters
    /\ UNCHANGED <<mirror, copies, onPath, old, runs>>

\* Windows does not delete or replace the image of a process.
InUse(image) == windows /\ \E p \in Updaters : updaters[p].image = image

\* remove_file(metrune.old), its result ignored.
ClearOld(p) ==
    /\ updaters[p].phase = "clear"
    /\ old' = IF InUse("old") THEN old ELSE Absent
    /\ Enter(p, IF windows THEN "aside" ELSE "place")
    /\ UNCHANGED <<mirror, copies, onPath, staged, runs>>

\* The images of the processes that run from one file, when it is renamed.
Moved(from, to) ==
    [q \in Updaters |-> IF updaters[q].image = from THEN [updaters[q] EXCEPT !.image = to]
                        ELSE updaters[q]]

\* Windows: the running image is renamed aside.  It fails when there is no
\* file, or when metrune.old is in use; the staged file stays.
MoveAside(p) ==
    /\ updaters[p].phase = "aside"
    /\ IF onPath = Absent \/ (old # Absent /\ InUse("old"))
       THEN Become(p, Idle) /\ UNCHANGED <<onPath, old>>
       ELSE /\ old' = onPath /\ onPath' = Absent
            /\ updaters' = [Moved("metrune", "old") EXCEPT ![p].phase = "place"]
    /\ UNCHANGED <<mirror, copies, staged, runs>>

\* The staged file is renamed into place.
Place(p) ==
    /\ updaters[p].phase = "place"
    /\ ~(onPath # Absent /\ InUse("metrune"))
    /\ onPath' = staged[p]
    /\ staged' = [staged EXCEPT ![p] = Absent]
    /\ Become(p, Idle)
    /\ UNCHANGED <<mirror, copies, old, runs>>

\* Mutant of PlaceFails: the old binary is not put back.
PlaceFailsLeaving(p) ==
    /\ updaters[p].phase = "place"
    /\ UNCHANGED <<onPath, old>>
    /\ Become(p, Idle)
    /\ staged' = [staged EXCEPT ![p] = Absent]
    /\ UNCHANGED <<mirror, copies, runs>>

\* That rename fails: the old binary is put back and the staged file removed.
PlaceFails(p) ==
    /\ updaters[p].phase = "place"
    /\ IF windows /\ old # Absent /\ ~(onPath # Absent /\ InUse("metrune"))
       THEN /\ onPath' = old /\ old' = Absent
            /\ updaters' = [Moved("old", "metrune") EXCEPT ![p] = Idle]
       ELSE UNCHANGED <<onPath, old>> /\ Become(p, Idle)
    /\ staged' = [staged EXCEPT ![p] = Absent]
    /\ UNCHANGED <<mirror, copies, runs>>

\* The process is stopped while it replaces the binary; its staged file stays.
Killed(p) ==
    /\ updaters[p].phase \in {"stage", "clear", "aside", "place"}
    /\ Become(p, IF windows /\ updaters[p].phase = "place"
                 THEN [updaters[p] EXCEPT !.phase = "stopped midway", !.image = "none"] ELSE Idle)
    /\ UNCHANGED <<mirror, copies, onPath, old, staged, runs>>

ClientUpdateNext ==
    /\ UNCHANGED windows
    /\ \/ CopyManifest \/ CopyArtifact
       \/ \E p \in Updaters :
            \/ Start(p) \/ FetchManifest(p) \/ Download(p) \/ GiveUp(p)
            \/ Stage(p) \/ ClearOld(p) \/ MoveAside(p) \/ Place(p) \/ PlaceFails(p) \/ Killed(p)

ClientUpdateSpec == ClientUpdateInit /\ [][ClientUpdateNext]_updateVars

-----------------------------------------------------------------------------
\* There is always a complete release to run: on PATH, or, on Windows and only
\* while an updater is between its two renames or was stopped there, as
\* metrune.old beside it, whatever other updaters do at the same time
\* (replace_binary_at).
NothingIsLost ==
    \/ onPath \in Releases
    \/ /\ windows /\ onPath = Absent /\ old \in Releases
       /\ \E p \in Updaters : updaters[p].phase \in {"place", "stopped midway"}

\* What a process installs is the release of the manifest it verified, also
\* when the operator replaces the mirror's files between its two requests
\* (download_client and the digest check of update_client).
InstallsTheManifest ==
    \A p \in Updaters : updaters[p].binary # Absent => updaters[p].binary = updaters[p].manifest

=============================================================================
