------------------------------- MODULE Startup -------------------------------
(***************************************************************************)
(* The start of the API server (run in crates/metrune-api/src/app.rs): the *)
(* vault's master key, the first administrator and the re-sealing of older *)
(* credentials, by several instances that share PostgreSQL and the volume  *)
(* with the key, each of which may stop at any step and be started again.  *)
(* The other steps of run: ClickHouse and reprice_unknown_history are in   *)
(* Ingest, reconcile_authentication_mode in Sessions, the price catalogue  *)
(* in Pricing.                                                             *)
(***************************************************************************)
EXTENDS Naturals, FiniteSets

CONSTANTS
  Instances,    \* API servers
  Keys,         \* master keys that may be generated
  NoKey,        \* there is no key file
  EmptyKey,     \* the file was created and nothing is written yet
  Organizations, \* organizations that may be created
  SeedOrg,      \* the organization of the development seed
  NoOrg,
  Credentials,  \* rows of provider_credentials that may be written
  MaxStops,     \* bound: instances that stop before they serve, or after
  MaxLosses     \* bound: losses of the key's volume

ASSUME StartupAssumption ==
  /\ SeedOrg \in Organizations /\ NoOrg \notin Organizations /\ Organizations # {SeedOrg}
  /\ {NoKey, EmptyKey} \cap Keys = {} /\ NoKey # EmptyKey
  /\ MaxStops \in Nat /\ MaxLosses \in Nat

VARIABLES
  production,   \* METRUNE_ENV = "production"
  keyFile,      \* METRUNE_SECRETS_KEY_FILE
  used,         \* keys generated so far
  instances,    \* the instances' progress
  variables,    \* METRUNE_BOOTSTRAP_EMAIL is set for the next start
  told,         \* a start was refused because the variables are still set
  organizations,
  accounts,     \* organizations with an account of the bootstrap email
  admins,       \* those of them whose account has its membership
  credentials,  \* provider_credentials
  stops, losses

startupVars == <<production, keyFile, used, instances, variables, told, organizations, accounts, admins,
                 credentials, stops, losses>>

NoCredential == [key |-> NoKey, derivation |-> "none"]
Down == [pc |-> "down", key |-> NoKey, created |-> FALSE, variables |-> FALSE, org |-> NoOrg, todo |-> {}]

\* A new deployment, or one in use from before keys were derived per organization.
StartupInit ==
  /\ production \in BOOLEAN
  /\ instances = [i \in Instances |-> Down]
  /\ told = FALSE
  /\ stops = 0 /\ losses = 0
  /\ \/ /\ keyFile = NoKey
        /\ used = {}
        /\ variables = TRUE
        /\ organizations = {} /\ accounts = {} /\ admins = {}
        /\ credentials = [c \in Credentials |-> NoCredential]
     \/ /\ keyFile \in Keys
        /\ used = {keyFile}
        /\ variables = ~production
        /\ organizations = {IF production THEN CHOOSE o \in Organizations : o # SeedOrg ELSE SeedOrg}
        /\ accounts = organizations /\ admins = organizations
        /\ credentials = [c \in Credentials |-> [key |-> keyFile, derivation |-> "master"]]

Move(i, pc) == instances' = [instances EXCEPT ![i].pc = pc]
Stored == {c \in Credentials : credentials[c].derivation # "none"}

-----------------------------------------------------------------------------
(* SecretVault::load_or_create and the check after it                      *)

LoadKey(i) ==
  /\ instances[i].pc = "down"
  /\ keyFile \in Keys
  /\ instances' = [instances EXCEPT ![i] = [Down EXCEPT !.pc = "vault", !.key = keyFile, !.variables = variables]]
  /\ UNCHANGED <<told, keyFile, used, variables, organizations, accounts, admins, credentials, stops, losses>>

\* Mutant of CreateKey: create instead of create_new.
CreateKeyAgain(i) ==
  /\ instances[i].pc = "down"
  /\ keyFile \in {NoKey, EmptyKey}
  /\ \E k \in Keys \ used :
       /\ used' = used \cup {k}
       /\ instances' = [instances EXCEPT ![i] = [Down EXCEPT !.pc = "creating", !.key = k, !.created = TRUE,
                                                            !.variables = variables]]
  /\ keyFile' = EmptyKey
  /\ UNCHANGED <<told, variables, organizations, accounts, admins, credentials, stops, losses>>

\* There is no file: it is created, and create_new fails for all but one.
CreateKey(i) ==
  /\ instances[i].pc = "down"
  /\ keyFile = NoKey
  /\ \E k \in Keys \ used :
       /\ used' = used \cup {k}
       /\ instances' = [instances EXCEPT ![i] = [Down EXCEPT !.pc = "creating", !.key = k, !.created = TRUE,
                                                            !.variables = variables]]
  /\ keyFile' = EmptyKey
  /\ UNCHANGED <<told, variables, organizations, accounts, admins, credentials, stops, losses>>

WriteKey(i) ==
  /\ instances[i].pc = "creating"
  /\ keyFile' = instances[i].key
  /\ Move(i, "vault")
  /\ UNCHANGED <<told, used, variables, organizations, accounts, admins, credentials, stops, losses>>

\* A new key although credentials exist: the instance gives up.
CheckVault(i) ==
  /\ instances[i].pc = "vault"
  /\ IF instances[i].created /\ Stored # {}
     THEN instances' = [instances EXCEPT ![i] = Down]
     ELSE Move(i, "count")
  /\ UNCHANGED <<told, keyFile, used, variables, organizations, accounts, admins, credentials, stops, losses>>

-----------------------------------------------------------------------------
(* bootstrap_local_user: every statement is committed on its own           *)

\* In production the variables must be there for the first account and gone
\* afterwards; without them there is nothing to do.
CountUsers(i) ==
  /\ instances[i].pc = "count"
  /\ IF production /\ (accounts # {}) = instances[i].variables
     THEN /\ instances' = [instances EXCEPT ![i] = Down]
          /\ told' = (told \/ accounts # {})
     ELSE /\ Move(i, IF instances[i].variables THEN "organization" ELSE "rewrap")
          /\ UNCHANGED told
  /\ UNCHANGED <<keyFile, used, variables, organizations, accounts, admins, credentials, stops, losses>>

\* The oldest organization; the development seed is inserted before.
FindOrganization(i) ==
  /\ instances[i].pc = "organization"
  /\ organizations' = IF production THEN organizations ELSE organizations \cup {SeedOrg}
  /\ IF organizations' = {} THEN Move(i, "insert")
     ELSE \E o \in organizations' :
            /\ ~production => o = SeedOrg
            /\ instances' = [instances EXCEPT ![i].pc = "account", ![i].org = o]
  /\ UNCHANGED <<told, keyFile, used, variables, accounts, admins, credentials, stops, losses>>

InsertOrganization(i) ==
  /\ instances[i].pc = "insert"
  /\ \E o \in Organizations \ (organizations \cup {SeedOrg}) :
       /\ organizations' = organizations \cup {o}
       /\ instances' = [instances EXCEPT ![i].pc = "account", ![i].org = o]
  /\ UNCHANGED <<told, keyFile, used, variables, accounts, admins, credentials, stops, losses>>

\* INSERT INTO users ... ON CONFLICT (organization_id, email)
UpsertAccount(i) ==
  /\ instances[i].pc = "account"
  /\ accounts' = accounts \cup {instances[i].org}
  /\ Move(i, "member")
  /\ UNCHANGED <<told, keyFile, used, variables, organizations, admins, credentials, stops, losses>>

InsertMembership(i) ==
  /\ instances[i].pc = "member"
  /\ admins' = admins \cup {instances[i].org}
  /\ Move(i, "rewrap")
  /\ UNCHANGED <<told, keyFile, used, variables, organizations, accounts, credentials, stops, losses>>

-----------------------------------------------------------------------------
(* rewrap_legacy_credentials                                               *)

ListLegacy(i) ==
  /\ instances[i].pc = "rewrap"
  /\ instances' = [instances EXCEPT ![i].pc = "sealing",
                                    ![i].todo = {c \in Credentials : credentials[c].derivation = "master"}]
  /\ UNCHANGED <<told, keyFile, used, variables, organizations, accounts, admins, credentials, stops, losses>>

\* Mutant of Reseal: the first row ends the pass.
ResealFirst(i, c) ==
  /\ instances[i].pc = "sealing"
  /\ c \in instances[i].todo
  /\ instances' = [instances EXCEPT ![i].todo = {}]
  /\ credentials' = IF credentials[c] = [key |-> instances[i].key, derivation |-> "master"]
                    THEN [credentials EXCEPT ![c].derivation = "organization"] ELSE credentials
  /\ UNCHANGED <<told, keyFile, used, variables, organizations, accounts, admins, stops, losses>>

\* A row that does not open with the key is left as it is.
Reseal(i, c) ==
  /\ instances[i].pc = "sealing"
  /\ c \in instances[i].todo
  /\ instances' = [instances EXCEPT ![i].todo = @ \ {c}]
  /\ credentials' = IF credentials[c] = [key |-> instances[i].key, derivation |-> "master"]
                    THEN [credentials EXCEPT ![c].derivation = "organization"] ELSE credentials
  /\ UNCHANGED <<told, keyFile, used, variables, organizations, accounts, admins, stops, losses>>

Serve(i) ==
  /\ instances[i].pc = "sealing"
  /\ instances[i].todo = {}
  /\ Move(i, "serving")
  /\ UNCHANGED <<told, keyFile, used, variables, organizations, accounts, admins, credentials, stops, losses>>

-----------------------------------------------------------------------------
(* What happens around the start                                           *)

\* upsert_credential seals under the key of the organization.
StoreCredential(i, c) ==
  /\ instances[i].pc = "serving"
  /\ c \notin Stored
  /\ credentials' = [credentials EXCEPT ![c] = [key |-> instances[i].key, derivation |-> "organization"]]
  /\ UNCHANGED <<told, keyFile, used, instances, variables, organizations, accounts, admins, stops, losses>>

\* A statement fails or the process ends; an unreadable key file ends it too.
StopInstance(i) ==
  /\ instances[i].pc # "down"
  /\ stops < MaxStops
  /\ instances' = [instances EXCEPT ![i] = Down]
  /\ stops' = stops + 1
  /\ UNCHANGED <<told, keyFile, used, variables, organizations, accounts, admins, credentials, losses>>

\* The operator clears the variables for later starts: after the first
\* sign-in, or because a start was refused.
ClearVariables ==
  /\ variables
  /\ told \/ ({i \in Instances : instances[i].pc = "serving"} # {} /\ admins # {})
  /\ variables' = FALSE
  /\ UNCHANGED <<told, keyFile, used, instances, organizations, accounts, admins, credentials, stops, losses>>

LoseKey ==
  /\ keyFile \in Keys
  /\ losses < MaxLosses
  /\ keyFile' = NoKey
  /\ instances' = [i \in Instances |-> Down]
  /\ losses' = losses + 1
  /\ UNCHANGED <<told, used, variables, organizations, accounts, admins, credentials, stops>>

StartupNext ==
  /\ UNCHANGED production
  /\ \/ \E i \in Instances :
          \/ LoadKey(i) \/ CreateKey(i) \/ WriteKey(i) \/ CheckVault(i)
          \/ CountUsers(i) \/ FindOrganization(i) \/ InsertOrganization(i)
          \/ UpsertAccount(i) \/ InsertMembership(i)
          \/ ListLegacy(i) \/ Serve(i) \/ StopInstance(i)
          \/ \E c \in Credentials : Reseal(i, c) \/ StoreCredential(i, c)
     \/ ClearVariables
     \/ LoseKey

StartupSpec == StartupInit /\ [][StartupNext]_startupVars

-----------------------------------------------------------------------------
Serving == {i \in Instances : instances[i].pc = "serving"}

Instance == [pc : {"down", "creating", "vault", "count", "organization", "insert",
                   "account", "member", "rewrap", "sealing", "serving"},
             key : Keys \cup {NoKey}, created : BOOLEAN, variables : BOOLEAN,
             org : Organizations \cup {NoOrg}, todo : SUBSET Credentials]
CredentialRow == [key : Keys \cup {NoKey}, derivation : {"none", "master", "organization"}]

\* The variables' types; a membership belongs to an account.
StartupTypeOK ==
  /\ production \in BOOLEAN
  /\ keyFile \in Keys \cup {NoKey, EmptyKey}
  /\ used \subseteq Keys
  /\ instances \in [Instances -> Instance]
  /\ variables \in BOOLEAN /\ told \in BOOLEAN
  /\ organizations \subseteq Organizations /\ accounts \subseteq organizations /\ admins \subseteq accounts
  /\ credentials \in [Credentials -> CredentialRow]
  /\ stops \in 0..MaxStops /\ losses \in 0..MaxLosses

\* The instances that serve hold the key that every credential is sealed
\* under, although they race to create it and stop at any point, as long as
\* the volume with the key is not lost.
ServesWithTheKey ==
  losses = 0 => \A i \in Serving, c \in Stored : credentials[c].key = instances[i].key

\* The comment on rewrap_legacy_credentials: once an instance has finished it,
\* no row it can open is left under the master key alone.
NoLegacyRows ==
  \A i \in Serving, c \in Credentials :
    credentials[c] # [key |-> instances[i].key, derivation |-> "master"]

=============================================================================
