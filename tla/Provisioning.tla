---------------------------- MODULE Provisioning ----------------------------
(***************************************************************************)
(* Provider credentials and classifier profiles, from the administrator to *)
(* one client: the credential vault and classifier settings of             *)
(* crates/metrune-api/src/app.rs, the provisioning endpoint, and what the  *)
(* client of crates/metrune-cli/src/app.rs makes of its answers.           *)
(*                                                                         *)
(* The provisioning handler reads the settings, then the credential, then  *)
(* notes what it hands out; settings and credentials change in between.    *)
(* The client stores the credential before it saves its profile.           *)
(***************************************************************************)
EXTENDS Integers, FiniteSets

CONSTANTS
    Admins,         \* administrators rotating credentials
    Procs,          \* processes of the client
    Ids,            \* credential identifiers
    NoId,           \* the empty identifier
    OwnId,          \* identifier of a classifier configured on the client
    Fallback,       \* the deployment's settings, with id and hasKey
    MaxRotations,   \* bound on rotations
    MaxChanges,     \* bound on changes of the settings
    MaxUses,        \* bound on what the user does on the client
    MaxDrops,       \* bound on provisioning requests that fail
    MaxCrashes      \* bound on processes that stop while applying an answer

VARIABLES
    settings,       \* the organization's classifier settings
    rows,           \* provider_credentials
    rotating,       \* rotations under way
    recorded,       \* the installation's credential id and version
    profile,        \* config.classifier of the client
    store,          \* the client's stored secrets; 0 is none
    procs,          \* what each process of the client is doing
    rotations, changes, uses, drops, crashes

server == <<settings, rows, rotating, rotations, changes>>
client == <<profile, store>>
provisioningVars == <<settings, rows, rotating, recorded, profile, store, procs,
                      rotations, changes, uses, drops, crashes>>

\* A secret is the number of its rotation; DeployedKey is a key that does not
\* come from the vault.
DeployedKey == MaxRotations + 1
Secrets == 0..DeployedKey

Modes == {"local", "managed"}

\* needsKey: openai and openrouter; version grows with each update.
Settings == [version : 0..MaxChanges, enabled : BOOLEAN, mode : Modes,
             needsKey : BOOLEAN, id : Ids \cup {NoId}]

ASSUME ProvisioningAssumption ==
    /\ NoId \notin Ids /\ OwnId \notin Ids /\ NoId # OwnId /\ IsFiniteSet(Admins)
    /\ MaxRotations \in Nat /\ MaxChanges \in Nat /\ MaxUses \in Nat
    /\ MaxDrops \in Nat /\ MaxCrashes \in Nat
    /\ Fallback.settings \in Settings /\ Fallback.settings.version = 0
    /\ Fallback.hasKey \in BOOLEAN

Rows == [id : Ids, version : 1..MaxRotations, secret : 1..MaxRotations,
         state : {"active", "grace", "revoked"}]

NoProfile == [origin |-> "none", mode |-> "local", id |-> NoId, config |-> 0, version |-> 0]
Profiles == [origin : {"none", "server", "client"}, mode : Modes,
             id : Ids \cup {NoId, OwnId}, config : 0..MaxChanges, version : 0..MaxRotations]

\* The answer in the making: the settings read, the secret found, the version
\* to report; had is the credential id of the profile found when applying.
Idle == [phase |-> "idle", settings |-> Fallback.settings, secret |-> 0, version |-> 0,
         had |-> NoId]

Proc == [phase : {"idle", "settings", "credential", "answer", "stored"},
         settings : Settings, secret : Secrets, version : 0..MaxRotations, had : Ids \cup {NoId, OwnId}]

\* An identifier with a version: a rotation under way, and what is recorded.
Versioned == [id : Ids \cup {NoId}, version : 0..MaxRotations]

ProvisioningTypeOK ==
    /\ settings \in Settings
    /\ rows \subseteq Rows
    /\ rotating \in [Admins -> Versioned]
    /\ recorded \in Versioned
    /\ profile \in Profiles
    /\ store \in [Ids \cup {OwnId} -> Secrets]
    /\ procs \in [Procs -> Proc]
    /\ rotations \in 0..MaxRotations /\ changes \in 0..MaxChanges /\ uses \in 0..MaxUses
    /\ drops \in 0..MaxDrops /\ crashes \in 0..MaxCrashes

ProvisioningInit ==
    /\ settings = Fallback.settings
    /\ rows = {}
    /\ rotating = [a \in Admins |-> [id |-> NoId, version |-> 0]]
    /\ recorded = [id |-> NoId, version |-> 0]
    /\ profile = NoProfile
    /\ store = [i \in Ids \cup {OwnId} |-> 0]
    /\ procs = [p \in Procs |-> Idle]
    /\ rotations = 0 /\ changes = 0 /\ uses = 0 /\ drops = 0 /\ crashes = 0

-----------------------------------------------------------------------------
(* The administrators.                                                     *)

\* update_classifier_settings.  Disabling clears the provider.
UpdateSettings ==
    /\ changes < MaxChanges
    /\ changes' = changes + 1
    /\ \/ \E m \in Modes, k \in BOOLEAN, i \in Ids \cup {NoId} :
            settings' = [version |-> changes', enabled |-> TRUE, mode |-> m,
                         needsKey |-> k, id |-> i]
       \/ settings' = [version |-> changes', enabled |-> FALSE, mode |-> "local",
                       needsKey |-> FALSE, id |-> NoId]
    /\ UNCHANGED <<rows, rotating, rotations, recorded, client, procs, uses, drops, crashes>>

VersionsOf(id) == {r.version : r \in {r \in rows : r.id = id}}

\* upsert_credential up to its SELECT: the version the new row will have.
BeginRotation(a) ==
    /\ rotating[a].id = NoId
    /\ rotations + Cardinality({b \in Admins : rotating[b].id # NoId}) < MaxRotations
    /\ \E i \in Ids :
         LET newest == IF VersionsOf(i) = {} THEN 0
                       ELSE CHOOSE v \in VersionsOf(i) : \A w \in VersionsOf(i) : w <= v
         IN  rotating' = [rotating EXCEPT ![a] = [id |-> i, version |-> newest + 1]]
    /\ UNCHANGED <<settings, rows, rotations, changes, recorded, client, procs, uses, drops,
                   crashes>>

\* The rows once a rotation has been written: the active row goes into grace.
Rotated(id, version, secret) ==
    {IF r.id = id /\ r.state = "active" THEN [r EXCEPT !.state = "grace"] ELSE r : r \in rows}
        \cup {[id |-> id, version |-> version, secret |-> secret, state |-> "active"]}

\* Mutant of CommitRotation: no unique index on the version.
CommitRotationUnchecked(a) ==
    /\ rotating[a].id # NoId
    /\ rotations' = rotations + 1
    /\ rows' = Rotated(rotating[a].id, rotating[a].version, rotations')
    /\ rotating' = [rotating EXCEPT ![a].id = NoId]
    /\ UNCHANGED <<settings, changes, recorded, client, procs, uses, drops, crashes>>

\* The rest of upsert_credential.  The unique index on the version fails the
\* transaction of whoever comes second.
CommitRotation(a) ==
    /\ rotating[a].id # NoId
    /\ IF rotating[a].version \in VersionsOf(rotating[a].id)
       THEN UNCHANGED <<rows, rotations>>
       ELSE /\ rotations' = rotations + 1
            /\ rows' = Rotated(rotating[a].id, rotating[a].version, rotations')
    /\ rotating' = [rotating EXCEPT ![a].id = NoId]
    /\ UNCHANGED <<settings, changes, recorded, client, procs, uses, drops, crashes>>

\* revoke_credential.
Revoke ==
    /\ \E i \in Ids :
         /\ \E r \in rows : r.id = i /\ r.state # "revoked"
         /\ rows' = {IF r.id = i THEN [r EXCEPT !.state = "revoked"] ELSE r : r \in rows}
    /\ UNCHANGED <<settings, rotating, rotations, changes, recorded, client, procs, uses,
                   drops, crashes>>

-----------------------------------------------------------------------------
(* Provisioning.                                                           *)

\* active_classifier_credential: secret and version of the active row.
Active(id) ==
    LET found == {r \in rows : r.id = id /\ r.state = "active"}
    IN  IF found = {} THEN [secret |-> 0, version |-> 0]
        ELSE LET r == CHOOSE r \in found : \A s \in found : s.version <= r.version
             IN  [secret |-> r.secret, version |-> r.version]

\* The secret handed out: the active one, or the deployment's for its own id.
Available(id) ==
    IF Active(id).secret = 0 /\ Fallback.hasKey /\ id = Fallback.settings.id /\ id # NoId
    THEN [secret |-> DeployedKey, version |-> 0]
    ELSE Active(id)

\* A process asks for the profile: the watch for one that came from the
\* server, the user at any time.  The handler reads the settings.
Fetch(p) ==
    /\ procs[p].phase = "idle"
    /\ procs' = [procs EXCEPT ![p] = [Idle EXCEPT !.phase = "settings", !.settings = settings]]

Refresh(p) ==
    /\ profile.origin = "server"
    /\ Fetch(p)
    /\ UNCHANGED <<server, recorded, client, uses, drops, crashes>>

Provision(p) ==
    /\ uses < MaxUses
    /\ uses' = uses + 1
    /\ Fetch(p)
    /\ UNCHANGED <<server, recorded, client, drops, crashes>>

\* provision_classifier of the server reads the credential, in local mode.
ReadCredential(p) ==
    /\ procs[p].phase = "settings"
    /\ LET s == procs[p].settings
           found == IF s.enabled /\ s.mode = "local" THEN Available(s.id)
                    ELSE [secret |-> 0, version |-> 0]
       IN  procs' = [procs EXCEPT ![p].phase = "credential", ![p].secret = found.secret,
                                  ![p].version = found.version]
    /\ UNCHANGED <<server, recorded, client, uses, drops, crashes>>

\* It notes what the installation gets, unless classification is off.
Record(p) ==
    /\ procs[p].phase = "credential"
    /\ procs' = [procs EXCEPT ![p].phase = "answer"]
    /\ recorded' = IF ~procs[p].settings.enabled THEN recorded
                   ELSE [id |-> IF procs[p].settings.mode = "local" THEN procs[p].settings.id
                                ELSE NoId,
                         version |-> procs[p].version]
    /\ UNCHANGED <<server, client, uses, drops, crashes>>

\* The request fails on the way; the client keeps what it has.
Drop(p) ==
    /\ procs[p].phase \in {"settings", "credential", "answer"}
    /\ drops < MaxDrops
    /\ drops' = drops + 1
    /\ procs' = [procs EXCEPT ![p] = Idle]
    /\ UNCHANGED <<server, recorded, client, uses, crashes>>

-----------------------------------------------------------------------------
(* The client.                                                             *)

Forget(s, id) == [i \in Ids \cup {OwnId} |-> IF i = id THEN 0 ELSE s[i]]

\* provision_classifier of the client on an answer that classification is
\* off: the organization's own profile goes, a client's own stays.
ApplyDisabled(p) ==
    /\ procs[p].phase = "answer" /\ ~procs[p].settings.enabled
    /\ IF profile.origin = "client" THEN UNCHANGED client
       ELSE /\ store' = Forget(store, profile.id)
            /\ profile' = NoProfile
    /\ procs' = [procs EXCEPT ![p] = Idle]
    /\ UNCHANGED <<server, recorded, uses, drops, crashes>>

\* An answer the client refuses: a key is needed, none came and none is held.
Unusable(p) ==
    /\ procs[p].settings.mode = "local" /\ procs[p].settings.needsKey
    /\ procs[p].secret = 0
    /\ procs[p].settings.id = NoId \/ store[procs[p].settings.id] = 0

\* Mutant of ApplyStore: a secret stored already is not replaced.
ApplyStoreOnce(p) ==
    /\ procs[p].phase = "answer" /\ procs[p].settings.enabled
    /\ LET answer == procs[p] IN
       IF Unusable(p)
       THEN procs' = [procs EXCEPT ![p] = Idle] /\ UNCHANGED store
       ELSE /\ procs' = [procs EXCEPT ![p].phase = "stored", ![p].had = profile.id]
            /\ store' = IF answer.settings.mode = "managed" THEN Forget(store, profile.id)
                        ELSE IF answer.secret = 0 \/ store[answer.settings.id] # 0 THEN store
                        ELSE [store EXCEPT ![answer.settings.id] = answer.secret]
    /\ UNCHANGED <<server, recorded, profile, uses, drops, crashes>>

\* apply_server_classifier up to the stored secret.
ApplyStore(p) ==
    /\ procs[p].phase = "answer" /\ procs[p].settings.enabled
    /\ LET answer == procs[p] IN
       IF Unusable(p)
       THEN procs' = [procs EXCEPT ![p] = Idle] /\ UNCHANGED store
       ELSE /\ procs' = [procs EXCEPT ![p].phase = "stored", ![p].had = profile.id]
            /\ store' = IF answer.settings.mode = "managed" THEN Forget(store, profile.id)
                        ELSE IF answer.secret = 0 THEN store
                        ELSE [store EXCEPT ![answer.settings.id] = answer.secret]
    /\ UNCHANGED <<server, recorded, profile, uses, drops, crashes>>

\* The profile apply_server_classifier saves.
Applied(answer) ==
    [origin |-> "server", mode |-> answer.settings.mode,
     id |-> IF answer.settings.mode = "local" THEN answer.settings.id ELSE NoId,
     config |-> answer.settings.version, version |-> answer.version]

\* Mutant of ApplySave: the secret of the profile before goes in any case.
ApplySaveDropping(p) ==
    /\ procs[p].phase = "stored"
    /\ store' = Forget(store, procs[p].had)
    /\ profile' = Applied(procs[p])
    /\ procs' = [procs EXCEPT ![p] = Idle]
    /\ UNCHANGED <<server, recorded, uses, drops, crashes>>

\* The rest of it: the secret of the profile before goes, the profile is saved.
ApplySave(p) ==
    /\ procs[p].phase = "stored"
    /\ store' = IF procs[p].settings.mode = "local" /\ procs[p].had # procs[p].settings.id
                THEN Forget(store, procs[p].had) ELSE store
    /\ profile' = Applied(procs[p])
    /\ procs' = [procs EXCEPT ![p] = Idle]
    /\ UNCHANGED <<server, recorded, uses, drops, crashes>>

\* The process stops before it saves the profile.
Crash(p) ==
    /\ procs[p].phase = "stored"
    /\ crashes < MaxCrashes
    /\ crashes' = crashes + 1
    /\ procs' = [procs EXCEPT ![p] = Idle]
    /\ UNCHANGED <<server, recorded, client, uses, drops>>

\* configure_local_classifier, with a key of the user's or without.
ConfigureLocal(p) ==
    /\ procs[p].phase = "idle"
    /\ uses < MaxUses
    /\ uses' = uses + 1
    /\ \E key \in {0, DeployedKey} :
         LET set == IF key = 0 THEN store ELSE [store EXCEPT ![OwnId] = key]
         IN  store' = IF profile.id \in {NoId, OwnId} THEN set ELSE Forget(set, profile.id)
    /\ profile' = [NoProfile EXCEPT !.origin = "client", !.id = OwnId]
    /\ UNCHANGED <<server, recorded, procs, drops, crashes>>

\* classifier logout, and the choice of no classifier.
Logout(p) ==
    /\ procs[p].phase = "idle"
    /\ profile # NoProfile
    /\ uses < MaxUses
    /\ uses' = uses + 1
    /\ store' = Forget(store, profile.id)
    /\ profile' = NoProfile
    /\ UNCHANGED <<server, recorded, procs, drops, crashes>>

ProvisioningNext ==
    \/ UpdateSettings \/ Revoke
    \/ \E a \in Admins : BeginRotation(a) \/ CommitRotation(a)
    \/ \E p \in Procs :
         \/ Refresh(p) \/ Provision(p)
         \/ ReadCredential(p) \/ Record(p) \/ Drop(p)
         \/ ApplyDisabled(p) \/ ApplyStore(p) \/ ApplySave(p) \/ Crash(p)
         \/ ConfigureLocal(p) \/ Logout(p)

\* The watch refreshes every 15 minutes, and a request or an application that
\* has begun goes on unless it fails.
ProvisioningFairness ==
    \A p \in Procs :
        /\ WF_provisioningVars(Refresh(p))
        /\ WF_provisioningVars(ReadCredential(p) \/ Record(p) \/ ApplyDisabled(p)
                               \/ ApplyStore(p) \/ ApplySave(p))

ProvisioningSpec ==
    ProvisioningInit /\ [][ProvisioningNext]_provisioningVars /\ ProvisioningFairness

-----------------------------------------------------------------------------

\* A version of a credential names one secret, and one row at most is active,
\* however rotations and revocations of upsert_credential and
\* revoke_credential interleave: the sealed data is bound to the version, and
\* clients report it.
VersionNamesOneSecret ==
    \A r, s \in rows : r.id = s.id /\ r # s =>
        r.version # s.version /\ ~(r.state = "active" /\ s.state = "active")

OneProcess == \A p, q \in Procs : p = q

\* A profile with a credential version comes with the secret of that version:
\* the two were read together, stored together and not mixed with a rotation
\* between them.  A process that stops between storing and saving is one
\* exception, two processes that apply answers at once are the other: nothing
\* keeps the one that stored first from saving last.
HeldAsProfiled ==
    OneProcess /\ crashes = 0 /\ (\A p \in Procs : procs[p].phase # "stored") /\ profile.version # 0 =>
        \E r \in rows : /\ r.id = profile.id /\ r.version = profile.version
                        /\ r.secret = store[profile.id]

\* The profile is what the server would give now.
Current ==
    /\ settings.enabled
    /\ profile.mode = settings.mode /\ profile.config = settings.version
    /\ settings.mode = "local" /\ Available(settings.id).secret # 0 =>
           profile.id = settings.id /\ store[settings.id] = Available(settings.id).secret

\* The server can hand out what its settings need.
Usable ==
    settings.mode = "local" /\ settings.needsKey => Available(settings.id).secret # 0

\* Once the administrators stop, a client whose profile came from the server
\* ends up with the present settings and the active secret, or with none of
\* it: a rotation reaches it whatever failed or crashed before.  A server
\* that lacks the key its settings need is the exception.
EventuallyCurrent ==
    <>[](Usable /\ profile.origin = "server" => Current)
=============================================================================
