---------------------------- MODULE ServerProofs ----------------------------
(***************************************************************************)
(* Proofs about the parts of the server that work alone: its start         *)
(* (Startup), its limits (Limits) and its price table (Pricing), for any   *)
(* number of instances, callers and administrators.                        *)
(***************************************************************************)
EXTENDS Startup, Limits, Pricing, FiniteSetTheorems, WellFoundedInduction, TLAPS

-----------------------------------------------------------------------------
(* The start                                                               *)

\* Until the first key is written, one instance at most is writing it and
\* nothing is sealed; from then on everybody has it.
OneKey ==
    losses = 0 =>
      /\ keyFile = NoKey => \A i \in Instances : instances[i].pc = "down"
      /\ keyFile = EmptyKey =>
           /\ \A i \in Instances : instances[i].pc \in {"down", "creating"}
           /\ \A i, j \in Instances : instances[i].pc = "creating" /\ instances[j].pc = "creating" => i = j
      /\ keyFile \in Keys =>
           \A i \in Instances : instances[i].pc # "down" => instances[i].pc # "creating" /\ instances[i].key = keyFile
      /\ \A c \in Credentials : credentials[c].derivation # "none" => keyFile \in Keys /\ credentials[c].key = keyFile

\* What is left under the master key alone is still to be sealed.
LegacyIsListed ==
    \A i \in Instances, c \in Credentials :
      credentials[c].key = instances[i].key /\ credentials[c].derivation = "master" =>
        /\ instances[i].pc # "serving"
        /\ instances[i].pc = "sealing" => c \in instances[i].todo

\* The account an instance sets up belongs to an organization there is.
AccountOfOrganization ==
    \A i \in Instances :
      /\ instances[i].pc = "creating" => instances[i].key \in Keys
      /\ instances[i].pc \in {"account", "member"} => instances[i].org \in organizations
      /\ instances[i].pc = "member" => instances[i].org \in accounts

StartupInv == StartupTypeOK /\ OneKey /\ LegacyIsListed /\ AccountOfOrganization

LEMMA DownShape ==
    /\ Down \in Instance /\ Down.pc = "down" /\ Down.key = NoKey /\ Down.org = NoOrg /\ Down.todo = {}
    /\ NoCredential \in CredentialRow /\ NoCredential.derivation = "none"
    /\ NoKey \notin Keys /\ EmptyKey \notin Keys /\ NoKey # EmptyKey
  BY StartupAssumption DEF Down, Instance, NoCredential, CredentialRow

LEMMA StartupInitInv == StartupInit => StartupInv
<1> SUFFICES ASSUME StartupInit PROVE StartupInv
  OBVIOUS
<1>1. instances \in [Instances -> Instance] /\ \A i \in Instances : instances[i] = Down
  BY DownShape DEF StartupInit
<1>2. CASE /\ keyFile = NoKey /\ used = {} /\ variables = TRUE
           /\ organizations = {} /\ accounts = {} /\ admins = {}
           /\ credentials = [c \in Credentials |-> NoCredential]
  <2>1. credentials \in [Credentials -> CredentialRow] /\ \A c \in Credentials : credentials[c].derivation = "none"
    BY <1>2, DownShape
  <2>2. StartupTypeOK
    <3>1. production \in BOOLEAN /\ variables \in BOOLEAN /\ told \in BOOLEAN
      BY <1>2 DEF StartupInit
    <3>2. stops \in 0..MaxStops /\ losses \in 0..MaxLosses
      BY StartupAssumption DEF StartupInit
    <3> QED
      BY <1>1, <1>2, <2>1, <3>1, <3>2 DEF StartupTypeOK
  <2> QED
    BY <1>1, <1>2, <2>1, <2>2, DownShape DEF StartupInv, OneKey, LegacyIsListed, AccountOfOrganization
<1>3. CASE /\ keyFile \in Keys /\ used = {keyFile} /\ variables = ~production
           /\ organizations = {IF production THEN CHOOSE o \in Organizations : o # SeedOrg ELSE SeedOrg}
           /\ accounts = organizations /\ admins = organizations
           /\ credentials = [c \in Credentials |-> [key |-> keyFile, derivation |-> "master"]]
  <2>1. credentials \in [Credentials -> CredentialRow]
        /\ \A c \in Credentials : credentials[c].derivation = "master" /\ credentials[c].key = keyFile
    BY <1>3 DEF CredentialRow
  <2>2. organizations \subseteq Organizations
    BY <1>3, StartupAssumption
  <2>3. StartupTypeOK
    <3>1. production \in BOOLEAN /\ variables \in BOOLEAN /\ told \in BOOLEAN
      BY <1>3 DEF StartupInit
    <3>2. stops \in 0..MaxStops /\ losses \in 0..MaxLosses
      BY StartupAssumption DEF StartupInit
    <3> QED
      BY <1>1, <1>3, <2>1, <2>2, <3>1, <3>2 DEF StartupTypeOK
  <2> QED
    BY <1>1, <1>3, <2>1, <2>3, DownShape DEF StartupInv, OneKey, LegacyIsListed, AccountOfOrganization
<1> QED
  BY <1>2, <1>3 DEF StartupInit

\* One instance goes on, with the credentials as they were.
LEMMA InstanceStep ==
    ASSUME StartupInv, NEW i \in Instances, NEW x \in Instance, instances' = [instances EXCEPT ![i] = x],
           UNCHANGED <<production, keyFile, used, variables, credentials, losses>>,
           told' \in BOOLEAN, stops' \in 0..MaxStops,
           organizations' \subseteq Organizations, organizations \subseteq organizations',
           accounts' \subseteq organizations', accounts \subseteq accounts', admins' \subseteq accounts',
           x.pc # "creating", losses = 0 /\ x.pc # "down" => keyFile \in Keys /\ x.key = keyFile,
           \A c \in Credentials : credentials[c].key = x.key /\ credentials[c].derivation = "master" =>
              x.pc # "serving" /\ (x.pc = "sealing" => c \in x.todo),
           x.pc \in {"account", "member"} => x.org \in organizations',
           x.pc = "member" => x.org \in accounts'
    PROVE  StartupInv'
<1>1. /\ instances'[i] = x /\ \A j \in Instances \ {i} : instances'[j] = instances[j]
      /\ instances' \in [Instances -> Instance]
  BY DEF StartupInv, StartupTypeOK
<1>2. StartupTypeOK'
  BY <1>1 DEF StartupInv, StartupTypeOK
<1>3. OneKey'
  BY <1>1, DownShape DEF StartupInv, OneKey
<1>4. LegacyIsListed'
  BY <1>1 DEF StartupInv, LegacyIsListed
<1>5. AccountOfOrganization'
  BY <1>1 DEF StartupInv, AccountOfOrganization
<1> QED
  BY <1>2, <1>3, <1>4, <1>5 DEF StartupInv

\* A start that has its key goes on with it.
LEMMA HasTheKey ==
    ASSUME StartupInv, NEW i \in Instances, instances[i].pc \notin {"down", "creating"}, losses = 0
    PROVE  keyFile \in Keys /\ instances[i].key = keyFile
  BY DownShape DEF StartupInv, StartupTypeOK, OneKey

\* The steps of one start between the vault and serving.
LEMMA GoesOn ==
    ASSUME StartupInv, NEW i \in Instances, instances[i].pc \notin {"down", "creating"},
           NEW x \in Instance, x.pc \notin {"down", "creating"}, x.key = instances[i].key,
           instances' = [instances EXCEPT ![i] = x],
           UNCHANGED <<production, keyFile, used, variables, credentials, stops, losses>>,
           told' \in BOOLEAN,
           organizations' \subseteq Organizations, organizations \subseteq organizations',
           accounts' \subseteq organizations', accounts \subseteq accounts', admins' \subseteq accounts',
           \A c \in Credentials : credentials[c].key = x.key /\ credentials[c].derivation = "master" =>
              x.pc # "serving" /\ (x.pc = "sealing" => c \in x.todo),
           x.pc \in {"account", "member"} => x.org \in organizations',
           x.pc = "member" => x.org \in accounts'
    PROVE  StartupInv'
<1>1. losses = 0 => keyFile \in Keys /\ x.key = keyFile
  BY HasTheKey
<1>2. stops' \in 0..MaxStops
  BY DEF StartupInv, StartupTypeOK
<1> QED
  BY <1>1, <1>2, InstanceStep

\* Move changes the place in the start and nothing else.
LEMMA MoveShape ==
    ASSUME StartupInv, NEW i \in Instances, NEW pc, Move(i, pc),
           pc \in {"vault", "count", "organization", "insert", "account", "member", "rewrap", "sealing", "serving"}
    PROVE  \E x \in Instance :
             /\ x.pc = pc /\ x.key = instances[i].key /\ x.org = instances[i].org /\ x.todo = instances[i].todo
             /\ instances' = [instances EXCEPT ![i] = x]
<1>1. instances[i] \in Instance
  BY DEF StartupInv, StartupTypeOK
<1> DEFINE x == [instances[i] EXCEPT !.pc = pc]
<1>2. x \in Instance /\ x.pc = pc /\ x.key = instances[i].key /\ x.org = instances[i].org /\ x.todo = instances[i].todo
  BY <1>1 DEF Instance
<1>3. instances' = [instances EXCEPT ![i] = x]
  BY DEF Move, StartupInv, StartupTypeOK
<1> HIDE DEF x
<1> QED
  BY <1>2, <1>3

\* The organization an instance goes on with.
LEMMA OrgShape ==
    ASSUME StartupInv, NEW i \in Instances, NEW o \in Organizations,
           instances' = [instances EXCEPT ![i].pc = "account", ![i].org = o]
    PROVE  \E x \in Instance : /\ x.pc = "account" /\ x.key = instances[i].key /\ x.org = o
                               /\ instances' = [instances EXCEPT ![i] = x]
<1>1. instances[i] \in Instance
  BY DEF StartupInv, StartupTypeOK
<1> DEFINE x == [instances[i] EXCEPT !.pc = "account", !.org = o]
<1>2. x \in Instance /\ x.pc = "account" /\ x.key = instances[i].key /\ x.org = o
  BY <1>1 DEF Instance
<1>3. instances' = [instances EXCEPT ![i] = x]
  BY DEF StartupInv, StartupTypeOK
<1> HIDE DEF x
<1> QED
  BY <1>2, <1>3

\* The rows an instance still has to seal.
LEMMA TodoShape ==
    ASSUME StartupInv, NEW i \in Instances, NEW todo \in SUBSET Credentials,
           instances' = [instances EXCEPT ![i].pc = "sealing", ![i].todo = todo]
    PROVE  \E x \in Instance : /\ x.pc = "sealing" /\ x.key = instances[i].key /\ x.todo = todo
                               /\ instances' = [instances EXCEPT ![i] = x]
<1>1. instances[i] \in Instance
  BY DEF StartupInv, StartupTypeOK
<1> DEFINE x == [instances[i] EXCEPT !.pc = "sealing", !.todo = todo]
<1>2. x \in Instance /\ x.pc = "sealing" /\ x.key = instances[i].key /\ x.todo = todo
  BY <1>1 DEF Instance
<1>3. instances' = [instances EXCEPT ![i] = x]
  BY DEF StartupInv, StartupTypeOK
<1> HIDE DEF x
<1> QED
  BY <1>2, <1>3

\* What a move to a place that asks nothing of the tables preserves.
LEMMA MovesOn ==
    ASSUME StartupInv, NEW i \in Instances, instances[i].pc \notin {"down", "creating"},
           NEW pc, pc \in {"count", "organization", "insert", "rewrap"}, Move(i, pc),
           UNCHANGED <<production, keyFile, used, variables, credentials, stops, losses>>,
           told' \in BOOLEAN,
           organizations' \subseteq Organizations, organizations \subseteq organizations',
           accounts' \subseteq organizations', accounts \subseteq accounts', admins' \subseteq accounts'
    PROVE  StartupInv'
<1>1. PICK x \in Instance : /\ x.pc = pc /\ x.key = instances[i].key
                            /\ instances' = [instances EXCEPT ![i] = x]
  BY MoveShape
<1> QED
  BY <1>1, GoesOn

\* A start that goes back to the beginning.
LEMMA GoesDown ==
    ASSUME StartupInv, NEW i \in Instances, instances' = [instances EXCEPT ![i] = Down],
           UNCHANGED <<production, keyFile, used, variables, organizations, accounts, admins, credentials, losses>>,
           told' \in BOOLEAN, stops' \in 0..MaxStops
    PROVE  StartupInv'
<1>1. /\ organizations' \subseteq Organizations /\ organizations \subseteq organizations'
      /\ accounts' \subseteq organizations' /\ accounts \subseteq accounts' /\ admins' \subseteq accounts'
  BY DEF StartupInv, StartupTypeOK
<1>2. PICK x : x = Down
  OBVIOUS
<1>3. x \in Instance /\ x.pc = "down"
  BY <1>2, DownShape
<1> QED
  BY <1>1, <1>2, <1>3, InstanceStep

\* The vault: the key file is there.
LEMMA LoadKeyStep ==
    ASSUME StartupInv, UNCHANGED production, NEW i \in Instances, LoadKey(i)
    PROVE  StartupInv'
<1>1. variables \in BOOLEAN /\ keyFile \in Keys
  BY DEF LoadKey, StartupInv, StartupTypeOK
<1> DEFINE y == [Down EXCEPT !.pc = "vault", !.key = keyFile, !.variables = variables]
<1>2. y \in Instance /\ y.pc = "vault" /\ y.key = keyFile
  BY <1>1, StartupAssumption DEF Down, Instance
<1>3. instances' = [instances EXCEPT ![i] = y]
  BY DEF LoadKey
<1> HIDE DEF y
<1>4. PICK x \in Instance : x.pc = "vault" /\ x.key = keyFile /\ instances' = [instances EXCEPT ![i] = x]
  BY <1>2, <1>3
<1>5. /\ organizations' \subseteq Organizations /\ organizations \subseteq organizations'
      /\ accounts' \subseteq organizations' /\ accounts \subseteq accounts' /\ admins' \subseteq accounts'
      /\ told' \in BOOLEAN /\ stops' \in 0..MaxStops
      /\ UNCHANGED <<production, keyFile, used, variables, credentials, losses>>
  BY DEF LoadKey, StartupInv, StartupTypeOK
<1> QED
  BY <1>1, <1>4, <1>5, InstanceStep

\* The key file is made: everybody else is still down.
LEMMA CreateKeyStep ==
    ASSUME StartupInv, UNCHANGED production, NEW i \in Instances, CreateKey(i)
    PROVE  StartupInv'
<1>1. PICK k \in Keys \ used :
        /\ used' = used \cup {k}
        /\ instances' = [instances EXCEPT ![i] = [Down EXCEPT !.pc = "creating", !.key = k, !.created = TRUE,
                                                             !.variables = variables]]
  BY DEF CreateKey
<1> DEFINE y == [Down EXCEPT !.pc = "creating", !.key = k, !.created = TRUE, !.variables = variables]
<1>2. variables \in BOOLEAN
  BY DEF StartupInv, StartupTypeOK
<1>3. y \in Instance /\ y.pc = "creating" /\ y.key = k
  BY <1>2, StartupAssumption DEF Down, Instance
<1>4. instances' = [instances EXCEPT ![i] = y]
  BY <1>1
<1> HIDE DEF y
<1>5. /\ instances'[i] = y /\ \A j \in Instances \ {i} : instances'[j] = instances[j]
      /\ instances' \in [Instances -> Instance]
  BY <1>3, <1>4 DEF StartupInv, StartupTypeOK
<1>6. /\ UNCHANGED <<told, variables, organizations, accounts, admins, credentials, stops, losses>>
      /\ keyFile = NoKey /\ keyFile' = EmptyKey
  BY DEF CreateKey
<1>7. StartupTypeOK'
  BY <1>1, <1>5, <1>6 DEF StartupInv, StartupTypeOK
<1>8. OneKey'
  BY <1>3, <1>5, <1>6, DownShape DEF StartupInv, OneKey
<1>9. LegacyIsListed'
  BY <1>3, <1>5, <1>6 DEF StartupInv, LegacyIsListed
<1>10. AccountOfOrganization'
  BY <1>3, <1>5, <1>6 DEF StartupInv, AccountOfOrganization
<1> QED
  BY <1>7, <1>8, <1>9, <1>10 DEF StartupInv

\* The key is written: nothing is sealed under another one, unless one was lost.
LEMMA WriteKeyStep ==
    ASSUME StartupInv, UNCHANGED production, NEW i \in Instances, WriteKey(i)
    PROVE  StartupInv'
<1>1. PICK x \in Instance : /\ x.pc = "vault" /\ x.key = instances[i].key
                            /\ instances' = [instances EXCEPT ![i] = x]
  BY MoveShape DEF WriteKey
<1>2. /\ instances'[i] = x /\ \A j \in Instances \ {i} : instances'[j] = instances[j]
      /\ instances' \in [Instances -> Instance]
  BY <1>1 DEF StartupInv, StartupTypeOK
<1>3. /\ UNCHANGED <<told, used, variables, organizations, accounts, admins, credentials, stops, losses>>
      /\ instances[i].pc = "creating" /\ keyFile' = instances[i].key
  BY DEF WriteKey
<1>4. instances[i].key \in Keys
  BY <1>3 DEF StartupInv, AccountOfOrganization
<1>5. StartupTypeOK'
  BY <1>2, <1>3, <1>4 DEF StartupInv, StartupTypeOK
<1>6. OneKey'
  <2> SUFFICES ASSUME losses = 0 PROVE OneKey'
    BY <1>3 DEF OneKey
  <2>1. keyFile = EmptyKey
    BY <1>3 DEF StartupInv, StartupTypeOK, OneKey
  <2>2. \A j \in Instances \ {i} : instances[j].pc = "down"
    BY <1>3, <2>1, DownShape DEF StartupInv, OneKey
  <2>3. \A c \in Credentials : credentials[c].derivation = "none"
    BY <2>1, DownShape DEF StartupInv, OneKey
  <2> QED
    BY <1>1, <1>2, <1>3, <1>4, <2>2, <2>3, DownShape DEF OneKey
<1>7. LegacyIsListed'
  BY <1>1, <1>2, <1>3 DEF StartupInv, LegacyIsListed
<1>8. AccountOfOrganization'
  BY <1>1, <1>2, <1>3 DEF StartupInv, AccountOfOrganization
<1> QED
  BY <1>5, <1>6, <1>7, <1>8 DEF StartupInv

LEMMA CheckVaultStep ==
    ASSUME StartupInv, UNCHANGED production, NEW i \in Instances, CheckVault(i)
    PROVE  StartupInv'
<1>1. /\ organizations' \subseteq Organizations /\ organizations \subseteq organizations'
      /\ accounts' \subseteq organizations' /\ accounts \subseteq accounts' /\ admins' \subseteq accounts'
      /\ told' \in BOOLEAN /\ stops' \in 0..MaxStops /\ instances[i].pc = "vault"
      /\ UNCHANGED <<production, keyFile, used, variables, organizations, accounts, admins, credentials, stops, losses>>
  BY DEF CheckVault, StartupInv, StartupTypeOK
<1>2. CASE instances' = [instances EXCEPT ![i] = Down]
  BY <1>1, <1>2, GoesDown
<1>3. CASE Move(i, "count")
  BY <1>1, <1>3, MovesOn
<1> QED
  BY <1>2, <1>3 DEF CheckVault

LEMMA CountUsersStep ==
    ASSUME StartupInv, UNCHANGED production, NEW i \in Instances, CountUsers(i)
    PROVE  StartupInv'
<1>1. /\ organizations' \subseteq Organizations /\ organizations \subseteq organizations'
      /\ accounts' \subseteq organizations' /\ accounts \subseteq accounts' /\ admins' \subseteq accounts'
      /\ stops' \in 0..MaxStops /\ instances[i].pc = "count"
      /\ UNCHANGED <<production, keyFile, used, variables, organizations, accounts, admins, credentials, stops, losses>>
  BY DEF CountUsers, StartupInv, StartupTypeOK
<1>2. told \in BOOLEAN
  BY DEF StartupInv, StartupTypeOK
<1>3. CASE instances' = [instances EXCEPT ![i] = Down] /\ told' = (told \/ accounts # {})
  BY <1>1, <1>3, GoesDown
<1>4. CASE Move(i, IF instances[i].variables THEN "organization" ELSE "rewrap") /\ UNCHANGED told
  <2>1. PICK pc \in {"organization", "rewrap"} : pc = IF instances[i].variables THEN "organization" ELSE "rewrap"
    OBVIOUS
  <2> QED
    BY <1>1, <1>2, <1>4, <2>1, MovesOn
<1> QED
  BY <1>3, <1>4 DEF CountUsers

LEMMA FindOrganizationStep ==
    ASSUME StartupInv, UNCHANGED production, NEW i \in Instances, FindOrganization(i)
    PROVE  StartupInv'
<1>1. /\ UNCHANGED <<production, told, keyFile, used, variables, accounts, admins, credentials, stops, losses>>
      /\ instances[i].pc = "organization"
      /\ organizations' = IF production THEN organizations ELSE organizations \cup {SeedOrg}
  BY DEF FindOrganization
<1>2. /\ organizations' \subseteq Organizations /\ organizations \subseteq organizations'
      /\ accounts' \subseteq organizations' /\ accounts \subseteq accounts' /\ admins' \subseteq accounts'
  BY <1>1, StartupAssumption DEF StartupInv, StartupTypeOK
<1>3. told' \in BOOLEAN
  BY <1>1 DEF StartupInv, StartupTypeOK
<1>4. CASE Move(i, "insert")
  BY <1>1, <1>2, <1>3, <1>4, MovesOn
<1>5. CASE \E o \in organizations' : instances' = [instances EXCEPT ![i].pc = "account", ![i].org = o]
  <2>1. PICK o \in organizations' : instances' = [instances EXCEPT ![i].pc = "account", ![i].org = o]
    BY <1>5
  <2>2. PICK x \in Instance : /\ x.pc = "account" /\ x.key = instances[i].key /\ x.org = o
                              /\ instances' = [instances EXCEPT ![i] = x]
    BY <1>2, <2>1, OrgShape
  <2> QED
    BY <1>1, <1>2, <1>3, <2>1, <2>2, GoesOn
<1> QED
  BY <1>4, <1>5 DEF FindOrganization

LEMMA InsertOrganizationStep ==
    ASSUME StartupInv, UNCHANGED production, NEW i \in Instances, InsertOrganization(i)
    PROVE  StartupInv'
<1>1. /\ UNCHANGED <<production, told, keyFile, used, variables, accounts, admins, credentials, stops, losses>>
      /\ instances[i].pc = "insert"
  BY DEF InsertOrganization
<1>2. PICK o \in Organizations : /\ organizations' = organizations \cup {o}
                                 /\ instances' = [instances EXCEPT ![i].pc = "account", ![i].org = o]
  BY DEF InsertOrganization
<1>3. PICK x \in Instance : /\ x.pc = "account" /\ x.key = instances[i].key /\ x.org = o
                            /\ instances' = [instances EXCEPT ![i] = x]
  BY <1>2, OrgShape
<1>4. /\ organizations' \subseteq Organizations /\ organizations \subseteq organizations' /\ o \in organizations'
      /\ accounts' \subseteq organizations' /\ accounts \subseteq accounts' /\ admins' \subseteq accounts'
  BY <1>1, <1>2 DEF StartupInv, StartupTypeOK
<1>5. told' \in BOOLEAN
  BY <1>1 DEF StartupInv, StartupTypeOK
<1> QED
  BY <1>1, <1>3, <1>4, <1>5, GoesOn

LEMMA UpsertAccountStep ==
    ASSUME StartupInv, UNCHANGED production, NEW i \in Instances, UpsertAccount(i)
    PROVE  StartupInv'
<1>1. /\ UNCHANGED <<production, told, keyFile, used, variables, organizations, admins, credentials, stops, losses>>
      /\ instances[i].pc = "account" /\ accounts' = accounts \cup {instances[i].org}
  BY DEF UpsertAccount
<1>2. PICK x \in Instance : /\ x.pc = "member" /\ x.key = instances[i].key /\ x.org = instances[i].org
                            /\ instances' = [instances EXCEPT ![i] = x]
  BY MoveShape DEF UpsertAccount
<1>3. instances[i].org \in organizations
  BY <1>1 DEF StartupInv, AccountOfOrganization
<1>4. /\ organizations' \subseteq Organizations /\ organizations \subseteq organizations'
      /\ accounts' \subseteq organizations' /\ accounts \subseteq accounts' /\ admins' \subseteq accounts'
  BY <1>1, <1>3 DEF StartupInv, StartupTypeOK
<1>5. told' \in BOOLEAN
  BY <1>1 DEF StartupInv, StartupTypeOK
<1> QED
  BY <1>1, <1>2, <1>3, <1>4, <1>5, GoesOn

LEMMA InsertMembershipStep ==
    ASSUME StartupInv, UNCHANGED production, NEW i \in Instances, InsertMembership(i)
    PROVE  StartupInv'
<1>1. /\ UNCHANGED <<production, told, keyFile, used, variables, organizations, accounts, credentials, stops, losses>>
      /\ instances[i].pc = "member" /\ admins' = admins \cup {instances[i].org} /\ Move(i, "rewrap")
  BY DEF InsertMembership
<1>2. instances[i].org \in accounts
  BY <1>1 DEF StartupInv, AccountOfOrganization
<1>3. /\ organizations' \subseteq Organizations /\ organizations \subseteq organizations'
      /\ accounts' \subseteq organizations' /\ accounts \subseteq accounts' /\ admins' \subseteq accounts'
  BY <1>1, <1>2 DEF StartupInv, StartupTypeOK
<1>4. told' \in BOOLEAN
  BY <1>1 DEF StartupInv, StartupTypeOK
<1> QED
  BY <1>1, <1>3, <1>4, MovesOn

LEMMA ListLegacyStep ==
    ASSUME StartupInv, UNCHANGED production, NEW i \in Instances, ListLegacy(i)
    PROVE  StartupInv'
<1>1. /\ UNCHANGED <<production, told, keyFile, used, variables, organizations, accounts, admins, credentials,
                     stops, losses>>
      /\ instances[i].pc = "rewrap"
  BY DEF ListLegacy
<1>2. PICK todo \in SUBSET Credentials : todo = {c \in Credentials : credentials[c].derivation = "master"}
  OBVIOUS
<1>3. PICK x \in Instance : /\ x.pc = "sealing" /\ x.key = instances[i].key /\ x.todo = todo
                            /\ instances' = [instances EXCEPT ![i] = x]
  <2>1. instances' = [instances EXCEPT ![i].pc = "sealing", ![i].todo = todo]
    BY <1>2 DEF ListLegacy
  <2> QED
    BY <2>1, TodoShape
<1>4. /\ organizations' \subseteq Organizations /\ organizations \subseteq organizations'
      /\ accounts' \subseteq organizations' /\ accounts \subseteq accounts' /\ admins' \subseteq accounts'
  BY <1>1 DEF StartupInv, StartupTypeOK
<1>5. told' \in BOOLEAN
  BY <1>1 DEF StartupInv, StartupTypeOK
<1> QED
  BY <1>1, <1>2, <1>3, <1>4, <1>5, GoesOn

\* Nothing is left to seal: what opens with the key is sealed.
LEMMA ServeStep ==
    ASSUME StartupInv, UNCHANGED production, NEW i \in Instances, Serve(i)
    PROVE  StartupInv'
<1>1. /\ UNCHANGED <<production, told, keyFile, used, variables, organizations, accounts, admins, credentials,
                     stops, losses>>
      /\ instances[i].pc = "sealing" /\ instances[i].todo = {}
  BY DEF Serve
<1>2. PICK x \in Instance : /\ x.pc = "serving" /\ x.key = instances[i].key
                            /\ instances' = [instances EXCEPT ![i] = x]
  BY MoveShape DEF Serve
<1>3. \A c \in Credentials : ~(credentials[c].key = x.key /\ credentials[c].derivation = "master")
  BY <1>1, <1>2 DEF StartupInv, LegacyIsListed
<1>4. /\ organizations' \subseteq Organizations /\ organizations \subseteq organizations'
      /\ accounts' \subseteq organizations' /\ accounts \subseteq accounts' /\ admins' \subseteq accounts'
  BY <1>1 DEF StartupInv, StartupTypeOK
<1>5. told' \in BOOLEAN
  BY <1>1 DEF StartupInv, StartupTypeOK
<1> QED
  BY <1>1, <1>2, <1>3, <1>4, <1>5, GoesOn

LEMMA StopInstanceStep ==
    ASSUME StartupInv, UNCHANGED production, NEW i \in Instances, StopInstance(i)
    PROVE  StartupInv'
<1>1. stops' \in 0..MaxStops
  BY StartupAssumption DEF StopInstance, StartupInv, StartupTypeOK
<1>2. told' \in BOOLEAN
  BY DEF StopInstance, StartupInv, StartupTypeOK
<1> QED
  BY <1>1, <1>2, GoesDown DEF StopInstance

\* A row is sealed, or does not open; either way the others keep their lists.
LEMMA ResealStep ==
    ASSUME StartupInv, UNCHANGED production, NEW i \in Instances, NEW c \in Credentials, Reseal(i, c)
    PROVE  StartupInv'
<1>1. /\ UNCHANGED <<production, told, keyFile, used, variables, organizations, accounts, admins, stops, losses>>
      /\ instances[i].pc = "sealing"
  BY DEF Reseal
<1>2. instances[i] \in Instance /\ credentials[c] \in CredentialRow
  BY DEF StartupInv, StartupTypeOK
<1>3. PICK x \in Instance : /\ x.pc = "sealing" /\ x.key = instances[i].key /\ x.todo = instances[i].todo \ {c}
                            /\ x.org = instances[i].org
                            /\ instances' = [instances EXCEPT ![i] = x]
  <2> DEFINE y == [instances[i] EXCEPT !.todo = @ \ {c}]
  <2>1. /\ y \in Instance /\ y.pc = instances[i].pc /\ y.key = instances[i].key /\ y.org = instances[i].org
        /\ y.todo = instances[i].todo \ {c}
    BY <1>2 DEF Instance
  <2>2. instances' = [instances EXCEPT ![i] = y]
    BY DEF Reseal, StartupInv, StartupTypeOK
  <2> HIDE DEF y
  <2> QED
    BY <1>1, <2>1, <2>2
<1>4. PICK row \in CredentialRow :
        /\ row.key = credentials[c].key /\ (row.derivation # "none" => credentials[c].derivation # "none")
        /\ row.derivation = "master" => credentials[c].derivation = "master" /\ row.key # instances[i].key
        /\ credentials' = [credentials EXCEPT ![c] = row]
  <2>1. CASE credentials[c] = [key |-> instances[i].key, derivation |-> "master"]
    <3> DEFINE r == [credentials[c] EXCEPT !.derivation = "organization"]
    <3>1. /\ r \in CredentialRow /\ r.key = credentials[c].key /\ r.derivation = "organization"
          /\ credentials[c].derivation = "master"
      BY <1>2, <2>1 DEF CredentialRow
    <3>2. credentials' = [credentials EXCEPT ![c] = r]
      BY <2>1 DEF Reseal, StartupInv, StartupTypeOK
    <3> HIDE DEF r
    <3> QED
      BY <3>1, <3>2
  <2>2. CASE credentials[c] # [key |-> instances[i].key, derivation |-> "master"]
    <3>1. credentials[c].derivation = "master" => credentials[c].key # instances[i].key
      BY <1>2, <2>2 DEF CredentialRow
    <3>2. credentials' = [credentials EXCEPT ![c] = credentials[c]]
      BY <2>2 DEF Reseal, StartupInv, StartupTypeOK
    <3> QED
      BY <1>2, <3>1, <3>2
  <2> QED
    BY <2>1, <2>2
<1>5. /\ instances'[i] = x /\ \A j \in Instances \ {i} : instances'[j] = instances[j]
      /\ instances' \in [Instances -> Instance]
  BY <1>3 DEF StartupInv, StartupTypeOK
<1>6. /\ credentials'[c] = row /\ \A d \in Credentials \ {c} : credentials'[d] = credentials[d]
      /\ credentials' \in [Credentials -> CredentialRow]
  BY <1>4 DEF StartupInv, StartupTypeOK
<1>7. StartupTypeOK'
  BY <1>1, <1>5, <1>6 DEF StartupInv, StartupTypeOK
<1>8. OneKey'
  <2> SUFFICES ASSUME losses = 0 PROVE OneKey'
    BY <1>1 DEF OneKey
  <2>1. keyFile \in Keys /\ instances[i].key = keyFile
    BY <1>1, HasTheKey
  <2> QED
    BY <1>1, <1>3, <1>4, <1>5, <1>6, <2>1, DownShape DEF StartupInv, OneKey
<1>9. LegacyIsListed'
  BY <1>1, <1>3, <1>4, <1>5, <1>6 DEF StartupInv, LegacyIsListed
<1>10. AccountOfOrganization'
  BY <1>1, <1>3, <1>5 DEF StartupInv, AccountOfOrganization
<1> QED
  BY <1>7, <1>8, <1>9, <1>10 DEF StartupInv

LEMMA StoreCredentialStep ==
    ASSUME StartupInv, UNCHANGED production, NEW i \in Instances, NEW c \in Credentials, StoreCredential(i, c)
    PROVE  StartupInv'
<1>1. /\ UNCHANGED <<production, told, keyFile, used, variables, organizations, accounts, admins, stops, losses,
                     instances>>
      /\ instances[i].pc = "serving"
  BY DEF StoreCredential
<1>2. instances[i] \in Instance
  BY DEF StartupInv, StartupTypeOK
<1>3. PICK row \in CredentialRow : /\ row.key = instances[i].key /\ row.derivation = "organization"
                                   /\ credentials' = [credentials EXCEPT ![c] = row]
  BY <1>2 DEF StoreCredential, Instance, CredentialRow
<1>4. /\ credentials'[c] = row /\ \A d \in Credentials \ {c} : credentials'[d] = credentials[d]
      /\ credentials' \in [Credentials -> CredentialRow]
  BY <1>3 DEF StartupInv, StartupTypeOK
<1>5. StartupTypeOK'
  BY <1>1, <1>4 DEF StartupInv, StartupTypeOK
<1>6. OneKey'
  <2> SUFFICES ASSUME losses = 0 PROVE OneKey'
    BY <1>1 DEF OneKey
  <2>1. keyFile \in Keys /\ instances[i].key = keyFile
    BY <1>1, HasTheKey
  <2> QED
    BY <1>1, <1>3, <1>4, <2>1 DEF StartupInv, OneKey
<1>7. LegacyIsListed'
  BY <1>1, <1>3, <1>4 DEF StartupInv, LegacyIsListed
<1>8. AccountOfOrganization'
  BY <1>1 DEF StartupInv, AccountOfOrganization
<1> QED
  BY <1>5, <1>6, <1>7, <1>8 DEF StartupInv

\* The volume is lost: every instance starts again, without a promise.
LEMMA LoseKeyStep ==
    ASSUME StartupInv, UNCHANGED production, LoseKey
    PROVE  StartupInv'
<1>1. /\ UNCHANGED <<told, used, variables, organizations, accounts, admins, credentials, stops>>
      /\ keyFile' = NoKey /\ losses' # 0 /\ losses' \in 0..MaxLosses
  BY StartupAssumption DEF LoseKey, StartupInv, StartupTypeOK
<1>2. instances' \in [Instances -> Instance] /\ \A i \in Instances : instances'[i].pc = "down"
  BY DownShape DEF LoseKey
<1>3. StartupTypeOK'
  BY <1>1, <1>2 DEF StartupInv, StartupTypeOK
<1> QED
  BY <1>1, <1>2, <1>3 DEF StartupInv, OneKey, LegacyIsListed, AccountOfOrganization

LEMMA StartupNextInv == StartupInv /\ [StartupNext]_startupVars => StartupInv'
<1> SUFFICES ASSUME StartupInv, [StartupNext]_startupVars PROVE StartupInv'
  OBVIOUS
<1>1. CASE UNCHANGED startupVars
  <2>1. UNCHANGED <<production, keyFile, used, instances, variables, told, organizations, accounts, admins,
                    credentials, stops, losses>>
    BY <1>1 DEF startupVars
  <2>2. StartupTypeOK'
    BY <2>1 DEF StartupInv, StartupTypeOK
  <2> QED
    BY <2>1, <2>2 DEF StartupInv, OneKey, LegacyIsListed, AccountOfOrganization
<1>2. CASE ClearVariables /\ UNCHANGED production
  <2>1. UNCHANGED <<production, keyFile, used, instances, told, organizations, accounts, admins,
                    credentials, stops, losses>> /\ variables' = FALSE
    BY <1>2 DEF ClearVariables
  <2>2. StartupTypeOK'
    BY <2>1 DEF StartupInv, StartupTypeOK
  <2> QED
    BY <2>1, <2>2 DEF StartupInv, OneKey, LegacyIsListed, AccountOfOrganization
<1>3. CASE LoseKey /\ UNCHANGED production
  BY <1>3, LoseKeyStep
<1>4. ASSUME NEW i \in Instances, UNCHANGED production,
             \/ LoadKey(i) \/ CreateKey(i) \/ WriteKey(i) \/ CheckVault(i) \/ CountUsers(i)
             \/ FindOrganization(i) \/ InsertOrganization(i) \/ UpsertAccount(i) \/ InsertMembership(i)
             \/ ListLegacy(i) \/ Serve(i) \/ StopInstance(i)
      PROVE  StartupInv'
  BY <1>4, LoadKeyStep, CreateKeyStep, WriteKeyStep, CheckVaultStep, CountUsersStep, FindOrganizationStep,
     InsertOrganizationStep, UpsertAccountStep, InsertMembershipStep, ListLegacyStep, ServeStep, StopInstanceStep
<1>5. ASSUME NEW i \in Instances, NEW c \in Credentials, UNCHANGED production,
             Reseal(i, c) \/ StoreCredential(i, c)
      PROVE  StartupInv'
  BY <1>5, ResealStep, StoreCredentialStep
<1> QED
  BY <1>1, <1>2, <1>3, <1>4, <1>5 DEF StartupNext

\* The types; a membership belongs to an account, and an account to an
\* organization, wherever a start is stopped.
THEOREM StartupTypeCorrect == StartupSpec => []StartupTypeOK
<1>1. StartupInv => StartupTypeOK
  BY DEF StartupInv
<1> QED
  BY <1>1, StartupInitInv, StartupNextInv, PTL DEF StartupSpec

\* However many instances race to create the key file, and wherever they
\* stop, those that serve hold the key that everything is sealed under, as
\* long as the file is not lost.
THEOREM ServesWithTheKeySafe == StartupSpec => []ServesWithTheKey
<1>1. StartupInv => ServesWithTheKey
  BY DEF StartupInv, OneKey, ServesWithTheKey, Serving, Stored
<1> QED
  BY <1>1, StartupInitInv, StartupNextInv, PTL DEF StartupSpec

\* An instance that serves has left no row that it could open under the
\* master key alone, whatever the others did to the rows meanwhile.
THEOREM NoLegacyRowsSafe == StartupSpec => []NoLegacyRows
<1>1. StartupInv => NoLegacyRows
  <2> SUFFICES ASSUME StartupInv, NEW i \in Serving, NEW c \in Credentials,
                      credentials[c] = [key |-> instances[i].key, derivation |-> "master"]
               PROVE  FALSE
    BY DEF NoLegacyRows
  <2> QED
    BY DEF StartupInv, LegacyIsListed, Serving
<1> QED
  BY <1>1, StartupInitInv, StartupNextInv, PTL DEF StartupSpec

-----------------------------------------------------------------------------
(* The limits                                                              *)

RequestWindow == [expires : 0..(MaxTime + Window), hits : 1..MaxRequests]
FailureWindow == [started : 0..MaxTime, failures : Nat]
UnderWay(a) == {l \in SignIns : signIns[l] = a}

\* The tables' types and sizes; an account is under way in a sign-in, and
\* nobody's failures are counted.
LimitsInv ==
    /\ now \in 0..MaxTime
    /\ DOMAIN windows \subseteq Callers /\ \A k \in DOMAIN windows : windows[k] \in RequestWindow
    /\ IsFiniteSet(DOMAIN windows) /\ Cardinality(DOMAIN windows) <= MaxKeys
    /\ \A a \in DOMAIN tracked : tracked[a] \in FailureWindow
    /\ IsFiniteSet(DOMAIN tracked) /\ Cardinality(DOMAIN tracked) <= MaxLoginKeys
    /\ Nobody \notin DOMAIN tracked
    /\ signIns \in [SignIns -> Accounts \cup {Nobody}]
    /\ OvershootIsBounded

\* With and Keep as functions.
LEMMA WithShape ==
    ASSUME NEW f, NEW k, NEW v
    PROVE  /\ DOMAIN With(f, k, v) = DOMAIN f \cup {k} /\ With(f, k, v)[k] = v
           /\ \A i \in DOMAIN f \ {k} : With(f, k, v)[i] = f[i]
  BY DEF With

LEMMA KeepShape ==
    ASSUME NEW f, NEW S
    PROVE  /\ DOMAIN Keep(f, S) = DOMAIN f \cap S
           /\ \A i \in DOMAIN f \cap S : Keep(f, S)[i] = f[i]
  BY DEF Keep

\* A table that lost entries and one that gained one where there was room.
LEMMA TableBound ==
    ASSUME NEW T, IsFiniteSet(T), NEW n \in Nat, Cardinality(T) <= n
    PROVE  /\ \A S \in SUBSET T : IsFiniteSet(S) /\ Cardinality(S) <= n /\ Cardinality(S) \in Nat
           /\ \A k : k \in T \/ Cardinality(T) < n => IsFiniteSet(T \cup {k}) /\ Cardinality(T \cup {k}) <= n
<1>1. Cardinality(T) \in Nat
  BY FS_CardinalityType
<1>2. ASSUME NEW S \in SUBSET T PROVE IsFiniteSet(S) /\ Cardinality(S) <= n /\ Cardinality(S) \in Nat
  BY <1>1, FS_Subset, FS_CardinalityType
<1>3. ASSUME NEW k, k \in T \/ Cardinality(T) < n
      PROVE  IsFiniteSet(T \cup {k}) /\ Cardinality(T \cup {k}) <= n
  <2>1. IsFiniteSet(T \cup {k}) /\ Cardinality(T \cup {k}) = IF k \in T THEN Cardinality(T) ELSE Cardinality(T) + 1
    BY FS_AddElement
  <2> QED
    BY <1>1, <1>3, <2>1
<1> QED
  BY <1>2, <1>3

LEMMA LimitsInitInv == LimitsInit => LimitsInv
<1> SUFFICES ASSUME LimitsInit PROVE LimitsInv
  OBVIOUS
<1>1. DOMAIN windows = {} /\ DOMAIN tracked = {}
  BY DEF LimitsInit
<1>2. now \in 0..MaxTime /\ 0 <= MaxKeys /\ 0 <= MaxLoginKeys
  BY LimitsAssumption DEF LimitsInit
<1>3. signIns \in [SignIns -> Accounts \cup {Nobody}]
  BY DEF LimitsInit
<1> QED
  BY <1>1, <1>2, <1>3, FS_EmptySet DEF LimitsInv, OvershootIsBounded

\* RateLimiter::check: an expired window makes room, a full table takes no key.
LEMMA RequestStep ==
    ASSUME LimitsInv, NEW k \in Callers, Check(k), UNCHANGED <<now, tracked, signIns>>
    PROVE  LimitsInv'
<1> DEFINE live == Keep(windows, Live)
<1>1. /\ DOMAIN live = Live /\ Live \subseteq DOMAIN windows
      /\ \A i \in DOMAIN live : live[i] = windows[i]
  <2>1. Live \subseteq DOMAIN windows
    BY DEF Live
  <2>2. DOMAIN Keep(windows, Live) = DOMAIN windows \cap Live
        /\ \A i \in DOMAIN windows \cap Live : Keep(windows, Live)[i] = windows[i]
    BY KeepShape
  <2> HIDE DEF live
  <2>3. live = Keep(windows, Live)
    BY DEF live
  <2> QED
    BY <2>1, <2>2, <2>3
<1>2. /\ DOMAIN live \subseteq Callers /\ \A i \in DOMAIN live : live[i] \in RequestWindow
      /\ IsFiniteSet(DOMAIN live) /\ Cardinality(DOMAIN live) <= MaxKeys /\ Cardinality(DOMAIN live) \in Nat
  BY <1>1, TableBound, LimitsAssumption DEF LimitsInv
<1>3. CASE windows' = live
  BY <1>2, <1>3 DEF LimitsInv, OvershootIsBounded
<1>4. CASE windows' # live
  <2> DEFINE window == IF k \in DOMAIN live THEN live[k] ELSE [expires |-> now + Window, hits |-> 0]
             charged == [window EXCEPT !.hits = @ + 1]
  <2>1. /\ ~(Cardinality(DOMAIN live) >= MaxKeys /\ k \notin DOMAIN live) /\ ~(window.hits >= MaxRequests)
        /\ windows' = With(live, k, charged)
    BY <1>4 DEF Check
  <2>2. charged \in RequestWindow
    <3>1. now + Window \in 0..(MaxTime + Window)
      BY LimitsAssumption DEF LimitsInv
    <3>2. window \in [expires : 0..(MaxTime + Window), hits : 0..MaxRequests]
      BY <1>2, <3>1, LimitsAssumption DEF RequestWindow
    <3>3. window.hits + 1 \in 1..MaxRequests
      BY <2>1, <3>2, LimitsAssumption
    <3> HIDE DEF window
    <3> QED
      BY <3>2, <3>3 DEF RequestWindow
  <2> HIDE DEF live, window, charged
  <2>3. /\ DOMAIN windows' = DOMAIN live \cup {k} /\ windows'[k] = charged
        /\ \A i \in DOMAIN live \ {k} : windows'[i] = live[i]
    <3>1. /\ DOMAIN With(live, k, charged) = DOMAIN live \cup {k} /\ With(live, k, charged)[k] = charged
          /\ \A i \in DOMAIN live \ {k} : With(live, k, charged)[i] = live[i]
      BY DEF With
    <3> QED
      BY <2>1, <3>1
  <2>4. IsFiniteSet(DOMAIN live \cup {k}) /\ Cardinality(DOMAIN live \cup {k}) <= MaxKeys
    BY <1>2, <2>1, TableBound, LimitsAssumption
  <2>5. DOMAIN windows' \subseteq Callers /\ \A i \in DOMAIN windows' : windows'[i] \in RequestWindow
    BY <1>2, <2>2, <2>3
  <2> QED
    BY <2>3, <2>4, <2>5 DEF LimitsInv, OvershootIsBounded
<1> QED
  BY <1>3, <1>4

\* Clearing a full table of ended windows only takes entries away.
LEMMA RetainedShape ==
    ASSUME LimitsInv
    PROVE  /\ DOMAIN Retained \subseteq DOMAIN tracked
           /\ \A a \in DOMAIN Retained : Retained[a] = tracked[a]
           /\ IsFiniteSet(DOMAIN Retained) /\ Cardinality(DOMAIN Retained) <= MaxLoginKeys
           /\ Cardinality(DOMAIN Retained) \in Nat
<1>1. DOMAIN Retained \subseteq DOMAIN tracked /\ \A a \in DOMAIN Retained : Retained[a] = tracked[a]
  BY KeepShape DEF Retained
<1> QED
  BY <1>1, TableBound, LimitsAssumption DEF LimitsInv

\* The sign-ins of an account are some of all, and one more or one fewer when
\* one of them begins or ends.
LEMMA UnderWayCount ==
    ASSUME LimitsInv
    PROVE  /\ \A a : /\ IsFiniteSet(UnderWay(a)) /\ Cardinality(UnderWay(a)) \in Nat
                     /\ Cardinality(UnderWay(a)) <= Cardinality(SignIns)
           /\ Cardinality(SignIns) \in Nat
  BY FS_Subset, FS_CardinalityType, LimitsAssumption DEF UnderWay

\* What a sign-in that ends with another table leaves to show.
LEMMA LoginStep ==
    ASSUME LimitsInv, UNCHANGED <<now, windows>>,
           \A a \in DOMAIN tracked' : tracked'[a] \in FailureWindow,
           IsFiniteSet(DOMAIN tracked'), Cardinality(DOMAIN tracked') <= MaxLoginKeys,
           Nobody \notin DOMAIN tracked', signIns' \in [SignIns -> Accounts \cup {Nobody}],
           \A a \in DOMAIN tracked' :
              tracked'[a].failures + Cardinality(UnderWay(a)') <= MaxFailures + Cardinality(SignIns) - 1
    PROVE  LimitsInv'
  BY DEF LimitsInv, OvershootIsBounded, UnderWay

\* login's check: the account is below its limit, or is not counted.
LEMMA BeginLoginStep ==
    ASSUME LimitsInv, NEW l \in SignIns, BeginLogin(l)
    PROVE  LimitsInv'
<1>1. UNCHANGED <<now, windows>> /\ tracked' = Retained /\ signIns[l] = Nobody
  BY DEF BeginLogin
<1>2. /\ \A a \in DOMAIN tracked' : a \in DOMAIN tracked /\ tracked'[a] = tracked[a] /\ tracked'[a] \in FailureWindow
      /\ IsFiniteSet(DOMAIN tracked') /\ Cardinality(DOMAIN tracked') <= MaxLoginKeys
      /\ Nobody \notin DOMAIN tracked'
  BY <1>1, RetainedShape DEF LimitsInv
<1>3. PICK a \in Accounts : IF IsLimited(a) THEN UNCHANGED signIns ELSE signIns' = [signIns EXCEPT ![l] = a]
  BY DEF BeginLogin
<1>4. CASE UNCHANGED signIns
  <2>1. signIns' \in [SignIns -> Accounts \cup {Nobody}]
    BY <1>4 DEF LimitsInv
  <2>2. ASSUME NEW b \in DOMAIN tracked'
        PROVE  tracked'[b].failures + Cardinality(UnderWay(b)') <= MaxFailures + Cardinality(SignIns) - 1
    <3>1. UnderWay(b)' = UnderWay(b)
      BY <1>4 DEF UnderWay
    <3>2. tracked[b].failures + Cardinality(UnderWay(b)) <= MaxFailures + Cardinality(SignIns) - 1
      BY <1>2 DEF LimitsInv, OvershootIsBounded, UnderWay
    <3> QED
      BY <1>2, <3>1, <3>2
  <2> QED
    BY <1>1, <1>2, <2>1, <2>2, LoginStep
<1>5. CASE ~IsLimited(a) /\ signIns' = [signIns EXCEPT ![l] = a]
  <2>1. signIns' \in [SignIns -> Accounts \cup {Nobody}]
    BY <1>5 DEF LimitsInv
  <2>2. signIns'[l] = a /\ \A m \in SignIns \ {l} : signIns'[m] = signIns[m]
    BY <1>5 DEF LimitsInv
  <2>3. ASSUME NEW b \in DOMAIN tracked'
        PROVE  tracked'[b].failures + Cardinality(UnderWay(b)') <= MaxFailures + Cardinality(SignIns) - 1
    <3>1. tracked'[b].failures \in Nat /\ b # Nobody
      BY <1>2 DEF FailureWindow
    <3>2. CASE b = a
      <4>1. tracked'[b].failures < MaxFailures
        BY <1>1, <1>5, <3>1, <3>2, LimitsAssumption DEF IsLimited
      <4>2. UnderWay(b)' \in SUBSET SignIns
        BY DEF UnderWay
      <4>3. Cardinality(UnderWay(b)') <= Cardinality(SignIns) /\ Cardinality(UnderWay(b)') \in Nat
            /\ Cardinality(SignIns) \in Nat
        BY <4>2, FS_Subset, FS_CardinalityType, LimitsAssumption
      <4> QED
        BY <3>1, <4>1, <4>3, LimitsAssumption
    <3>3. CASE b # a
      <4>1. UnderWay(b)' = UnderWay(b)
        BY <1>1, <2>2, <3>1, <3>3 DEF UnderWay
      <4>2. tracked[b].failures + Cardinality(UnderWay(b)) <= MaxFailures + Cardinality(SignIns) - 1
        BY <1>2 DEF LimitsInv, OvershootIsBounded, UnderWay
      <4> QED
        BY <1>2, <4>1, <4>2
    <3> QED
      BY <3>2, <3>3
  <2> QED
    BY <1>1, <1>2, <2>1, <2>3, LoginStep
<1> QED
  BY <1>3, <1>4, <1>5

\* A sign-in of a ends: one fewer under way, and the others as they were.
LEMMA EndsUnderWay ==
    ASSUME LimitsInv, NEW l \in SignIns, signIns[l] # Nobody, signIns' = [signIns EXCEPT ![l] = Nobody]
    PROVE  \E a : /\ a = signIns[l] /\ signIns' \in [SignIns -> Accounts \cup {Nobody}]
                 /\ Cardinality(UnderWay(a)') = Cardinality(UnderWay(a)) - 1
                 /\ \A b : b # a /\ b # Nobody => UnderWay(b)' = UnderWay(b)
<1>1. PICK a : a = signIns[l]
  OBVIOUS
<1>2. /\ signIns' \in [SignIns -> Accounts \cup {Nobody}] /\ signIns'[l] = Nobody
      /\ \A m \in SignIns \ {l} : signIns'[m] = signIns[m]
  BY DEF LimitsInv
<1>3. UnderWay(a)' = UnderWay(a) \ {l} /\ l \in UnderWay(a)
  BY <1>1, <1>2 DEF UnderWay
<1>4. Cardinality(UnderWay(a)') = Cardinality(UnderWay(a)) - 1
  BY <1>3, UnderWayCount, FS_RemoveElement
<1>5. ASSUME NEW b, b # a, b # Nobody PROVE UnderWay(b)' = UnderWay(b)
  BY <1>1, <1>2, <1>5 DEF UnderWay
<1> QED
  BY <1>1, <1>2, <1>4, <1>5

\* A wrong password: one failure more, one sign-in fewer.
LEMMA FailLoginStep ==
    ASSUME LimitsInv, NEW l \in SignIns, FailLogin(l)
    PROVE  LimitsInv'
<1>1. signIns[l] # Nobody /\ signIns' = [signIns EXCEPT ![l] = Nobody]
  BY DEF FailLogin
<1>2. PICK a : /\ a = signIns[l] /\ signIns' \in [SignIns -> Accounts \cup {Nobody}]
               /\ Cardinality(UnderWay(a)') = Cardinality(UnderWay(a)) - 1
               /\ \A b : b # a /\ b # Nobody => UnderWay(b)' = UnderWay(b)
  BY <1>1, EndsUnderWay, Zenon
<1>3. UNCHANGED <<now, windows>> /\ tracked' = RecordFailure(a) /\ a # Nobody
  BY <1>2 DEF FailLogin
<1>4. /\ Cardinality(UnderWay(a)) \in Nat /\ Cardinality(UnderWay(a)) <= Cardinality(SignIns)
      /\ Cardinality(SignIns) \in Nat
  BY UnderWayCount
<1>5. ASSUME NEW b \in DOMAIN tracked
      PROVE  /\ tracked[b].failures + Cardinality(UnderWay(b)) <= MaxFailures + Cardinality(SignIns) - 1
             /\ tracked[b] \in FailureWindow /\ b # Nobody
  BY DEF LimitsInv, OvershootIsBounded, UnderWay
<1>6. CASE tracked' = Retained
  <2>1. /\ \A b \in DOMAIN tracked' : b \in DOMAIN tracked /\ tracked'[b] = tracked[b]
        /\ IsFiniteSet(DOMAIN tracked') /\ Cardinality(DOMAIN tracked') <= MaxLoginKeys
    BY <1>6, RetainedShape
  <2>2. ASSUME NEW b \in DOMAIN tracked'
        PROVE  tracked'[b].failures + Cardinality(UnderWay(b)') <= MaxFailures + Cardinality(SignIns) - 1
    <3>1. tracked'[b] = tracked[b] /\ tracked[b].failures \in Nat
          /\ tracked[b].failures + Cardinality(UnderWay(b)) <= MaxFailures + Cardinality(SignIns) - 1 /\ b # Nobody
      BY <1>5, <2>1 DEF FailureWindow
    <3>2. CASE b = a
      BY <1>2, <1>4, <3>1, <3>2, LimitsAssumption
    <3>3. CASE b # a
      BY <1>2, <3>1, <3>3
    <3> QED
      BY <3>2, <3>3
  <2>3. Nobody \notin DOMAIN tracked' /\ \A b \in DOMAIN tracked' : tracked'[b] \in FailureWindow
    BY <1>5, <2>1
  <2> QED
    BY <1>2, <1>3, <2>1, <2>2, <2>3, LoginStep
<1>7. CASE tracked' # Retained
  <2> DEFINE window == IF a \in DOMAIN Retained /\ a \in Recent THEN Retained[a] ELSE [started |-> now, failures |-> 0]
             charged == [window EXCEPT !.failures = @ + 1]
  <2>1. /\ ~(Cardinality(DOMAIN Retained) >= MaxLoginKeys /\ a \notin DOMAIN Retained)
        /\ tracked' = With(Retained, a, charged)
    BY <1>3, <1>7 DEF RecordFailure
  <2>2. /\ window \in FailureWindow
        /\ window.failures = 0 \/ (a \in DOMAIN tracked /\ window.failures = tracked[a].failures)
    <3>1. CASE a \in DOMAIN Retained /\ a \in Recent
      BY <1>5, <3>1, RetainedShape
    <3>2. CASE ~(a \in DOMAIN Retained /\ a \in Recent)
      <4>1. now \in 0..MaxTime
        BY DEF LimitsInv
      <4> QED
        BY <3>2, <4>1 DEF FailureWindow
    <3> QED
      BY <3>1, <3>2
  <2> HIDE DEF window
  <2>3. charged \in FailureWindow /\ charged.failures = window.failures + 1
    BY <2>2 DEF FailureWindow
  <2> HIDE DEF charged
  <2>4. /\ DOMAIN tracked' = DOMAIN Retained \cup {a} /\ tracked'[a] = charged
        /\ \A b \in DOMAIN Retained \ {a} : tracked'[b] = Retained[b]
    BY <2>1 DEF With
  <2>5. \A b \in DOMAIN tracked' \ {a} : b \in DOMAIN tracked /\ tracked'[b] = tracked[b]
    BY <2>4, RetainedShape
  <2>6. IsFiniteSet(DOMAIN tracked') /\ Cardinality(DOMAIN tracked') <= MaxLoginKeys
    <3>1. Cardinality(DOMAIN Retained) \in Nat /\ (a \in DOMAIN Retained \/ Cardinality(DOMAIN Retained) < MaxLoginKeys)
      BY <2>1, RetainedShape, LimitsAssumption
    <3> QED
      BY <2>4, <3>1, RetainedShape, TableBound, LimitsAssumption
  <2>7. Nobody \notin DOMAIN tracked' /\ \A b \in DOMAIN tracked' : tracked'[b] \in FailureWindow
    BY <1>3, <1>5, <2>3, <2>4, <2>5
  <2>8. ASSUME NEW b \in DOMAIN tracked'
        PROVE  tracked'[b].failures + Cardinality(UnderWay(b)') <= MaxFailures + Cardinality(SignIns) - 1
    <3>1. CASE b = a
      <4>1. window.failures \in Nat /\ tracked'[b].failures = window.failures + 1
        BY <2>2, <2>3, <2>4, <3>1 DEF FailureWindow
      <4>2. CASE window.failures = 0
        BY <1>2, <1>4, <3>1, <4>1, <4>2, LimitsAssumption
      <4>3. CASE a \in DOMAIN tracked /\ window.failures = tracked[a].failures
        <5>1. tracked[a].failures + Cardinality(UnderWay(a)) <= MaxFailures + Cardinality(SignIns) - 1
          BY <1>5, <4>3
        <5> QED
          BY <1>2, <1>4, <3>1, <4>1, <4>3, <5>1, LimitsAssumption
      <4> QED
        BY <2>2, <4>2, <4>3
    <3>2. CASE b # a
      BY <1>2, <1>5, <2>5, <3>2
    <3> QED
      BY <3>1, <3>2
  <2> QED
    BY <1>2, <1>3, <2>6, <2>7, <2>8, LoginStep
<1> QED
  BY <1>6, <1>7

\* A right password: the account is no longer counted.
LEMMA PassLoginStep ==
    ASSUME LimitsInv, NEW l \in SignIns, PassLogin(l)
    PROVE  LimitsInv'
<1>1. signIns[l] # Nobody /\ signIns' = [signIns EXCEPT ![l] = Nobody]
  BY DEF PassLogin
<1>2. PICK a : /\ a = signIns[l] /\ signIns' \in [SignIns -> Accounts \cup {Nobody}]
               /\ Cardinality(UnderWay(a)') = Cardinality(UnderWay(a)) - 1
               /\ \A b : b # a /\ b # Nobody => UnderWay(b)' = UnderWay(b)
  BY <1>1, EndsUnderWay, Zenon
<1>3. UNCHANGED <<now, windows>> /\ tracked' = Keep(tracked, DOMAIN tracked \ {a}) /\ a # Nobody
  BY <1>2 DEF PassLogin
<1>4. /\ DOMAIN tracked' \subseteq DOMAIN tracked /\ a \notin DOMAIN tracked'
      /\ \A b \in DOMAIN tracked' : tracked'[b] = tracked[b]
  BY <1>3 DEF Keep
<1>5. IsFiniteSet(DOMAIN tracked') /\ Cardinality(DOMAIN tracked') <= MaxLoginKeys
  BY <1>4, TableBound, LimitsAssumption DEF LimitsInv
<1>6. Nobody \notin DOMAIN tracked' /\ \A b \in DOMAIN tracked' : tracked'[b] \in FailureWindow
  BY <1>4 DEF LimitsInv
<1>7. ASSUME NEW b \in DOMAIN tracked'
      PROVE  tracked'[b].failures + Cardinality(UnderWay(b)') <= MaxFailures + Cardinality(SignIns) - 1
  <2>1. UnderWay(b)' = UnderWay(b) /\ tracked'[b] = tracked[b] /\ b \in DOMAIN tracked
    BY <1>2, <1>4, <1>6
  <2>2. tracked[b].failures + Cardinality(UnderWay(b)) <= MaxFailures + Cardinality(SignIns) - 1
    BY <2>1 DEF LimitsInv, OvershootIsBounded, UnderWay
  <2> QED
    BY <2>1, <2>2
<1> QED
  BY <1>2, <1>3, <1>5, <1>6, <1>7, LoginStep

LEMMA LimitsNextInv == LimitsInv /\ [LimitsNext]_limitsVars => LimitsInv'
<1> SUFFICES ASSUME LimitsInv, [LimitsNext]_limitsVars PROVE LimitsInv'
  OBVIOUS
<1>1. CASE UNCHANGED limitsVars
  BY <1>1 DEF limitsVars, LimitsInv, OvershootIsBounded
<1>2. CASE Tick
  <2>1. now' \in 0..MaxTime /\ UNCHANGED <<windows, tracked, signIns>>
    BY <1>2, LimitsAssumption DEF Tick, LimitsInv
  <2> QED
    BY <2>1 DEF LimitsInv, OvershootIsBounded
<1>3. CASE Request
  BY <1>3, RequestStep DEF Request
<1>4. ASSUME NEW l \in SignIns, BeginLogin(l) \/ FailLogin(l) \/ PassLogin(l) PROVE LimitsInv'
  BY <1>4, BeginLoginStep, FailLoginStep, PassLoginStep
<1> QED
  BY <1>1, <1>2, <1>3, <1>4 DEF LimitsNext

\* Sign-ins that are checked before any of them is charged overrun an
\* account's budget of failures by at most their number less one.
THEOREM OvershootIsBoundedSafe == LimitsSpec => []OvershootIsBounded
<1>1. LimitsInv => OvershootIsBounded
  BY DEF LimitsInv
<1> QED
  BY <1>1, LimitsInitInv, LimitsNextInv, PTL DEF LimitsSpec

-----------------------------------------------------------------------------
(* Refusals                                                                *)

\* Every hit of a window is a request let through no longer ago than the
\* window lasts.
HitsWereAccepted ==
    \A k \in DOMAIN windows : \A h \in 1..windows[k].hits :
      \E x \in accepted[k] : x.hit = h /\ x.at <= now /\ windows[k].expires <= x.at + Window

RefusalInv ==
    /\ LimitsInv
    /\ accepted \in [Callers -> SUBSET Acceptance]
    /\ \A k \in Callers : IsFiniteSet(accepted[k])
    /\ IsFiniteSet({k \in Callers : accepted[k] # {}})
    /\ HitsWereAccepted
    /\ RefusalIsDue

\* The hits of a window that still runs are requests of the last window.
LEMMA LiveWasServed ==
    ASSUME RefusalInv, NEW k \in Live
    PROVE  /\ windows[k] \in RequestWindow /\ k \in Callers /\ Recently(k) # {}
           /\ \A h \in 1..windows[k].hits : \E x \in Recently(k) : x.hit = h
<1>1. k \in DOMAIN windows /\ windows[k].expires > now
  BY DEF Live
<1>2. windows[k] \in RequestWindow /\ k \in Callers /\ now \in Nat
  BY <1>1, LimitsAssumption DEF RefusalInv, LimitsInv
<1>3. /\ windows[k].expires \in Nat /\ windows[k].hits \in Nat /\ windows[k].hits >= 1 /\ Window \in Nat
      /\ \A x \in accepted[k] : x.at \in Nat
  BY <1>2, LimitsAssumption DEF RequestWindow, RefusalInv, Acceptance
<1>4. ASSUME NEW h \in 1..windows[k].hits PROVE \E x \in Recently(k) : x.hit = h
  <2>1. PICK x \in accepted[k] : x.hit = h /\ x.at <= now /\ windows[k].expires <= x.at + Window
    BY <1>1 DEF RefusalInv, HitsWereAccepted
  <2>2. now - x.at < Window
    BY <1>1, <1>2, <1>3, <2>1
  <2> QED
    BY <2>1, <2>2 DEF Recently
<1>5. 1 \in 1..windows[k].hits
  BY <1>3
<1> QED
  BY <1>2, <1>4, <1>5

\* A spent budget was granted within the last window.
LEMMA SpentWasGranted ==
    ASSUME RefusalInv, NEW k \in Live, windows[k].hits >= MaxRequests
    PROVE  Cardinality(Recently(k)) >= MaxRequests
<1> DEFINE hits == {x.hit : x \in Recently(k)}
<1>1. IsFiniteSet(Recently(k))
  BY LiveWasServed, FS_Subset DEF Recently, RefusalInv
<1>2. IsFiniteSet(hits) /\ Cardinality(hits) <= Cardinality(Recently(k))
  <2> DEFINE hitOf == [x \in Recently(k) |-> x.hit]
  <2>1. hitOf \in Surjection(Recently(k), hits)
    BY DEF Surjection
  <2> HIDE DEF hitOf, hits
  <2> QED
    BY <1>1, <2>1, FS_Surjection
<1>3. 1..MaxRequests \subseteq hits
  <2> SUFFICES ASSUME NEW h \in 1..MaxRequests PROVE h \in hits
    OBVIOUS
  <2>1. h \in 1..windows[k].hits
    BY LiveWasServed, LimitsAssumption DEF RequestWindow
  <2> QED
    BY <2>1, LiveWasServed
<1>4. IsFiniteSet(1..MaxRequests) /\ Cardinality(1..MaxRequests) = MaxRequests
  BY FS_Interval, LimitsAssumption
<1> HIDE DEF hits
<1>5. MaxRequests <= Cardinality(hits)
  <2>1. (1..MaxRequests) \in SUBSET hits
    BY <1>3
  <2>2. Cardinality(1..MaxRequests) <= Cardinality(hits)
    BY <1>2, <2>1, FS_Subset, Zenon
  <2> QED
    BY <1>4, <2>2
<1>6. Cardinality(hits) \in Nat /\ Cardinality(Recently(k)) \in Nat
  BY <1>1, <1>2, FS_CardinalityType
<1> QED
  BY <1>2, <1>5, <1>6, LimitsAssumption

\* A full table is one of callers served within the last window.
LEMMA FullOfServed ==
    ASSUME RefusalInv, NEW k \in Callers \ Live, Cardinality(Live) >= MaxKeys
    PROVE  Cardinality({j \in Callers \ {k} : Recently(j) # {}}) >= MaxKeys
<1> DEFINE served == {j \in Callers \ {k} : Recently(j) # {}}
<1>1. Live \subseteq served
  BY LiveWasServed
<1>2. IsFiniteSet(served)
  <2>1. served \subseteq {j \in Callers : accepted[j] # {}}
    BY DEF Recently
  <2> QED
    BY <2>1, FS_Subset DEF RefusalInv
<1> HIDE DEF served
<1>3. Cardinality(Live) <= Cardinality(served) /\ Cardinality(Live) \in Nat /\ Cardinality(served) \in Nat
  BY <1>1, <1>2, FS_Subset, FS_CardinalityType
<1>4. Cardinality(served) >= MaxKeys
  BY <1>3, LimitsAssumption
<1> QED
  BY <1>4 DEF served

\* Who is let through is not refused.
LEMMA NobodyRefused ==
    ASSUME RefusalInv, LimitsInv', UNCHANGED <<windows, accepted>>, now' \in Nat, now <= now',
           refused' = [key |-> Nobody, why |-> "none"]
    PROVE  RefusalInv'
<1>1. RefusalIsDue'
  BY DEF RefusalIsDue
<1>2. HitsWereAccepted'
  <2> SUFFICES ASSUME NEW k \in DOMAIN windows, NEW h \in 1..windows[k].hits
               PROVE  \E x \in accepted[k] : x.hit = h /\ x.at <= now' /\ windows[k].expires <= x.at + Window
    BY DEF HitsWereAccepted
  <2>1. PICK x \in accepted[k] : x.hit = h /\ x.at <= now /\ windows[k].expires <= x.at + Window
    BY DEF RefusalInv, HitsWereAccepted
  <2>2. k \in Callers /\ now \in Nat
    BY LimitsAssumption DEF RefusalInv, LimitsInv
  <2>3. x.at \in Nat
    BY <2>2, LimitsAssumption DEF RefusalInv, Acceptance
  <2> QED
    BY <2>1, <2>2, <2>3
<1> QED
  BY <1>1, <1>2 DEF RefusalInv

LEMMA CheckRefuses ==
    ASSUME RefusalInv, NEW k \in Callers, Check(k), UNCHANGED <<now, tracked, signIns>>
    PROVE  RefusalInv'
<1> DEFINE live == Keep(windows, Live)
<1>1. DOMAIN live = Live /\ Live \subseteq DOMAIN windows /\ \A i \in Live : live[i] = windows[i]
  <2>1. Live \subseteq DOMAIN windows
    BY DEF Live
  <2>2. DOMAIN Keep(windows, Live) = DOMAIN windows \cap Live
        /\ \A i \in DOMAIN windows \cap Live : Keep(windows, Live)[i] = windows[i]
    BY KeepShape
  <2> HIDE DEF live
  <2>3. live = Keep(windows, Live)
    BY DEF live
  <2> QED
    BY <2>1, <2>2, <2>3
<1> HIDE DEF live
<1>2. LimitsInv'
  BY RequestStep DEF RefusalInv
<1>3. ASSUME windows' = live, UNCHANGED accepted, RefusalIsDue' PROVE RefusalInv'
  BY <1>1, <1>2, <1>3 DEF RefusalInv, HitsWereAccepted
<1>4. CASE Cardinality(DOMAIN live) >= MaxKeys /\ k \notin DOMAIN live
  <2>1. refused' = [key |-> k, why |-> "full"] /\ windows' = live /\ UNCHANGED accepted
    BY <1>4 DEF Check, live
  <2>2. Cardinality({j \in Callers \ {k} : Recently(j) # {}}) >= MaxKeys
    BY <1>1, <1>4, FullOfServed
  <2>3. RefusalIsDue'
    BY <2>1, <2>2 DEF RefusalIsDue, Recently
  <2> QED
    BY <1>3, <2>1, <2>3
<1>5. PICK window : window = IF k \in DOMAIN live THEN live[k] ELSE [expires |-> now + Window, hits |-> 0]
  OBVIOUS
<1>6. CASE ~(Cardinality(DOMAIN live) >= MaxKeys /\ k \notin DOMAIN live) /\ window.hits >= MaxRequests
  <2>1. refused' = [key |-> k, why |-> "spent"] /\ windows' = live /\ UNCHANGED accepted
    BY <1>5, <1>6 DEF Check, live
  <2>2. k \in Live
    BY <1>1, <1>5, <1>6, LimitsAssumption
  <2>3. Cardinality(Recently(k)) >= MaxRequests
    BY <1>1, <1>5, <1>6, <2>2, SpentWasGranted
  <2>4. RefusalIsDue'
    BY <2>1, <2>3 DEF RefusalIsDue, Recently
  <2> QED
    BY <1>3, <2>1, <2>4
<1>7. CASE ~(Cardinality(DOMAIN live) >= MaxKeys /\ k \notin DOMAIN live) /\ ~(window.hits >= MaxRequests)
  <2>1. PICK x, w : x = [at |-> now, hit |-> window.hits + 1] /\ w = [window EXCEPT !.hits = @ + 1]
    OBVIOUS
  <2>2. /\ windows' = With(live, k, w) /\ accepted' = [accepted EXCEPT ![k] = @ \cup {x}]
        /\ refused' = [key |-> Nobody, why |-> "none"]
    BY <1>5, <1>7, <2>1 DEF Check, live
  <2>3. /\ DOMAIN windows' = Live \cup {k} /\ windows'[k] = w /\ \A i \in Live \ {k} : windows'[i] = windows[i]
    <3>1. /\ DOMAIN With(live, k, w) = DOMAIN live \cup {k} /\ With(live, k, w)[k] = w
          /\ \A i \in DOMAIN live \ {k} : With(live, k, w)[i] = live[i]
      BY DEF With
    <3> QED
      BY <1>1, <2>2, <3>1
  <2>4. /\ accepted'[k] = accepted[k] \cup {x} /\ \A i \in Callers \ {k} : accepted'[i] = accepted[i]
        /\ DOMAIN accepted' = Callers
    BY <2>2 DEF RefusalInv
  <2>5. /\ now \in 0..MaxTime /\ now \in Nat /\ Window \in Nat /\ MaxRequests \in Nat
        /\ \A i \in Live : windows[i] \in RequestWindow
        /\ \A i \in Callers : accepted[i] \in SUBSET Acceptance
    BY LiveWasServed, LimitsAssumption DEF RefusalInv, LimitsInv
  <2>6. window \in [expires : Nat, hits : 0..MaxRequests]
    BY <1>1, <1>5, <2>5, LimitsAssumption DEF RequestWindow
  <2>7. window.hits \in Nat /\ window.hits + 1 \in 1..MaxRequests /\ window.expires \in Nat
    BY <1>7, <2>5, <2>6
  <2>8. /\ x \in Acceptance /\ x.at = now /\ x.hit = window.hits + 1
        /\ w.hits = window.hits + 1 /\ w.expires = window.expires
    BY <2>1, <2>5, <2>6, <2>7 DEF Acceptance
  <2>9. /\ accepted' \in [Callers -> SUBSET Acceptance] /\ \A i \in Callers : IsFiniteSet(accepted'[i])
        /\ IsFiniteSet({i \in Callers : accepted'[i] # {}})
    <3>1. IsFiniteSet(accepted[k] \cup {x})
      BY FS_AddElement DEF RefusalInv
    <3>2. IsFiniteSet({i \in Callers : accepted[i] # {}} \cup {k})
      BY FS_AddElement DEF RefusalInv
    <3>3. {i \in Callers : accepted'[i] # {}} = {i \in Callers : accepted[i] # {}} \cup {k}
      BY <2>4
    <3>4. accepted' = [i \in Callers |-> accepted'[i]]
      BY <2>2 DEF RefusalInv
    <3>5. \A i \in Callers : accepted'[i] \in SUBSET Acceptance /\ IsFiniteSet(accepted'[i])
      BY <2>4, <2>5, <2>8, <3>1 DEF RefusalInv
    <3> QED
      BY <3>2, <3>3, <3>4, <3>5
\* The window of the caller: its hits so far, and this one.
  <2>10. ASSUME NEW h \in 1..w.hits
         PROVE  \E y \in accepted'[k] : y.hit = h /\ y.at <= now /\ w.expires <= y.at + Window
    <3>1. window.expires <= now + Window
      <4>1. CASE k \in Live
        <5>1. PICK y \in accepted[k] : y.at <= now /\ windows[k].expires <= y.at + Window
          BY <1>1, <2>5, <4>1 DEF RefusalInv, HitsWereAccepted, RequestWindow
        <5>2. y.at \in Nat
          BY <2>5 DEF Acceptance
        <5> QED
          BY <1>1, <1>5, <2>5, <2>7, <4>1, <5>1, <5>2
      <4>2. CASE k \notin Live
        BY <1>1, <1>5, <2>5, <4>2
      <4> QED
        BY <4>1, <4>2
    <3>2. CASE h = window.hits + 1
      BY <2>4, <2>5, <2>8, <3>1, <3>2
    <3>3. CASE h # window.hits + 1
      <4>1. h \in 1..window.hits
        BY <2>7, <2>8, <3>3
      <4>2. k \in Live /\ window = windows[k]
        BY <1>1, <1>5, <4>1
      <4>3. \E y \in accepted[k] : y.hit = h /\ y.at <= now /\ windows[k].expires <= y.at + Window
        BY <1>1, <4>1, <4>2 DEF RefusalInv, HitsWereAccepted
      <4> QED
        BY <2>4, <2>8, <4>2, <4>3
    <3> QED
      BY <3>2, <3>3
  <2>11. HitsWereAccepted'
    <3>1. ASSUME NEW i \in Live \ {k}, NEW h \in 1..windows[i].hits
          PROVE  \E y \in accepted'[i] : y.hit = h /\ y.at <= now /\ windows[i].expires <= y.at + Window
      <4>1. i \in Callers /\ i \in DOMAIN windows
        BY <1>1 DEF RefusalInv, LimitsInv
      <4> QED
        BY <2>4, <4>1 DEF RefusalInv, HitsWereAccepted
    <3> QED
      BY <2>3, <2>10, <3>1 DEF HitsWereAccepted
  <2>12. RefusalIsDue'
    BY <2>2 DEF RefusalIsDue
  <2> QED
    BY <1>2, <2>9, <2>11, <2>12 DEF RefusalInv
<1> QED
  BY <1>4, <1>6, <1>7

LEMMA RefusalInitInv == LimitsInit => RefusalInv
<1> SUFFICES ASSUME LimitsInit PROVE RefusalInv
  OBVIOUS
<1>1. DOMAIN windows = {} /\ \A k \in Callers : accepted[k] = {}
  BY DEF LimitsInit
<1>2. {k \in Callers : accepted[k] # {}} = {}
  BY <1>1
<1>3. accepted \in [Callers -> SUBSET Acceptance]
  BY DEF LimitsInit
<1> QED
  BY <1>1, <1>2, <1>3, LimitsInitInv, FS_EmptySet DEF LimitsInit, RefusalInv, HitsWereAccepted, RefusalIsDue

LEMMA RefusalNextInv == RefusalInv /\ [LimitsNext]_limitsVars => RefusalInv'
<1> SUFFICES ASSUME RefusalInv, [LimitsNext]_limitsVars PROVE RefusalInv'
  OBVIOUS
<1>1. LimitsInv'
  BY LimitsNextInv DEF RefusalInv
<1>2. now \in Nat
  BY LimitsAssumption DEF RefusalInv, LimitsInv
<1>3. CASE UNCHANGED limitsVars
  BY <1>1, <1>3 DEF limitsVars, RefusalInv, HitsWereAccepted, RefusalIsDue, Recently
<1>4. CASE Tick
  BY <1>1, <1>2, <1>4, NobodyRefused DEF Tick
<1>5. CASE Request
  BY <1>5, CheckRefuses DEF Request
<1>6. ASSUME NEW l \in SignIns, BeginLogin(l) \/ FailLogin(l) \/ PassLogin(l) PROVE RefusalInv'
  BY <1>1, <1>2, <1>6, NobodyRefused DEF BeginLogin, FailLogin, PassLogin
<1> QED
  BY <1>3, <1>4, <1>5, <1>6 DEF LimitsNext

\* RateLimiter::check refuses nobody for an expired window: the caller was let
\* through its budget within the last window, or the table is full of others
\* that were served within it.
THEOREM RefusalIsDueSafe == LimitsSpec => []RefusalIsDue
<1>1. RefusalInv => RefusalIsDue
  BY DEF RefusalInv
<1> QED
  BY <1>1, RefusalInitInv, RefusalNextInv, PTL DEF LimitsSpec

\* Neither table of limits.rs ever holds more entries than its bound, and no
\* window counts more requests than it grants.
THEOREM LimitsTypeCorrect == LimitsSpec => []LimitsTypeOK
<1>1. RefusalInv => LimitsTypeOK
  BY DEF RefusalInv, LimitsInv, LimitsTypeOK, RequestWindow
<1> QED
  BY <1>1, RefusalInitInv, RefusalNextInv, PTL DEF LimitsSpec

-----------------------------------------------------------------------------
(* The price table                                                         *)

\* A row has the columns of one.
IsRow(r) == r = [id |-> r.id, scope |-> r.scope, name |-> r.name, authority |-> r.authority, rate |-> r.rate,
                 version |-> r.version, open |-> r.open, knew |-> r.knew]

AdminRequest == [phase : Phases, name : Names, authority : Authorities \cup {"manual"},
                 rate : Rates, found : SUBSET Nat, closed : SUBSET Nat, knew : SUBSET Nat]

\* Identifiers are given once, and a request knows of rows before it only.
KnowsEarlier ==
    /\ inserted \in Nat
    /\ \A r \in rows : IsRow(r) /\ r.id \in 1..inserted /\ r.knew \subseteq 1..inserted
    /\ requests \in [Admins -> AdminRequest]
    /\ \A a \in Admins : requests[a].knew \subseteq 1..inserted

\* A price the request knew of and that is still in force is found, then closed.
DisplacesAll ==
    \A a \in Admins, r \in rows :
      r.open /\ r.scope = "organization" /\ r.name = requests[a].name /\ r.id \in requests[a].knew =>
        /\ requests[a].phase = "waiting" => r.id \in requests[a].found
        /\ requests[a].phase \in {"inserting", "committing"} => r.id \in requests[a].closed

PricingInv == KnowsEarlier /\ DisplacesAll /\ DisplacedStaysClosed

LEMMA IdleShape == Idle \in AdminRequest /\ Idle.phase = "idle" /\ Idle.knew = {}
<1>1. (CHOOSE n \in Names : TRUE) \in Names /\ (CHOOSE rate \in Rates : TRUE) \in Rates
  BY PricingAssumption
<1> QED
  BY <1>1 DEF Idle, AdminRequest, Phases

LEMMA PricingInitInv == PricingInit => PricingInv
<1> SUFFICES ASSUME PricingInit PROVE PricingInv
  OBVIOUS
<1>1. rows = {} /\ inserted = 0 /\ requests \in [Admins -> AdminRequest] /\ \A a \in Admins : requests[a].knew = {}
  BY IdleShape DEF PricingInit
<1> QED
  BY <1>1 DEF PricingInv, KnowsEarlier, DisplacesAll, DisplacedStaysClosed

\* s is the row r, or what is left of it once it is closed.
From(s, r) == s.id = r.id /\ s.scope = r.scope /\ s.name = r.name /\ s.knew = r.knew /\ (s.open => r.open)

\* Closing rows changes nothing else about them.
LEMMA CloseShape ==
    ASSUME KnowsEarlier, NEW closed, NEW s \in Close(closed)
    PROVE  /\ IsRow(s) /\ s.id \in 1..inserted /\ s.knew \subseteq 1..inserted
           /\ \E r \in rows : From(s, r) /\ (s.open => r.id \notin closed)
<1>1. CASE s \in rows /\ s.id \notin closed
  BY <1>1 DEF KnowsEarlier, From
<1>2. CASE \E r \in rows : s = [r EXCEPT !.open = FALSE]
  <2>1. PICK r \in rows : s = [r EXCEPT !.open = FALSE]
    BY <1>2
  <2>2. IsRow(r) /\ r.id \in 1..inserted /\ r.knew \subseteq 1..inserted
    BY DEF KnowsEarlier
  <2>3. s = [id |-> r.id, scope |-> r.scope, name |-> r.name, authority |-> r.authority, rate |-> r.rate,
             version |-> r.version, open |-> FALSE, knew |-> r.knew]
    BY <2>1, <2>2 DEF IsRow
  <2>4. /\ s.id = r.id /\ s.scope = r.scope /\ s.name = r.name /\ s.knew = r.knew /\ s.authority = r.authority
        /\ s.rate = r.rate /\ s.version = r.version /\ s.open = FALSE
    BY <2>3
  <2>5. IsRow(s)
    BY <2>3, <2>4 DEF IsRow
  <2> QED
    BY <2>2, <2>4, <2>5 DEF From
<1> QED
  BY <1>1, <1>2 DEF Close

\* Rows are closed, with nothing new.
LEMMA ClosingStep ==
    ASSUME PricingInv, NEW closed, rows' = Close(closed), UNCHANGED <<inserted, requests>>
    PROVE  PricingInv'
<1>1. ASSUME NEW s \in rows'
      PROVE  /\ IsRow(s) /\ s.id \in 1..inserted /\ s.knew \subseteq 1..inserted
             /\ \E r \in rows : From(s, r)
  BY CloseShape DEF PricingInv
<1>2. KnowsEarlier'
  BY <1>1 DEF PricingInv, KnowsEarlier
<1>3. DisplacesAll'
  <2> SUFFICES ASSUME NEW a \in Admins, NEW s \in rows', s.open, s.scope = "organization",
                      s.name = requests[a].name, s.id \in requests[a].knew
               PROVE  /\ requests[a].phase = "waiting" => s.id \in requests[a].found
                      /\ requests[a].phase \in {"inserting", "committing"} => s.id \in requests[a].closed
    BY DEF DisplacesAll
  <2>1. PICK r \in rows : From(s, r)
    BY <1>1
  <2> QED
    BY <2>1 DEF From, PricingInv, DisplacesAll
<1>4. DisplacedStaysClosed'
  <2> SUFFICES ASSUME NEW r \in rows', NEW s \in rows', r.open, s.open, r.scope = "organization",
                      s.scope = "organization", r.name = s.name
               PROVE  r.id \notin s.knew
    BY DEF DisplacedStaysClosed
  <2>1. PICK x \in rows : From(r, x)
    BY <1>1
  <2>2. PICK y \in rows : From(s, y)
    BY <1>1
  <2> QED
    BY <2>1, <2>2 DEF From, PricingInv, DisplacedStaysClosed
<1> QED
  BY <1>2, <1>3, <1>4 DEF PricingInv

\* A row that no request can know of comes into the table.
LEMMA AddingStep ==
    ASSUME PricingInv, NEW closed, NEW x, IsRow(x), x.id = inserted + 1, x.knew \subseteq 1..inserted,
           \A s \in rows' : s = x \/ s \in Close(closed), inserted' = inserted + 1,
           requests' \in [Admins -> AdminRequest],
           \A a \in Admins : requests'[a] = requests[a] \/ requests'[a] = Idle,
           x.scope = "organization" =>
             \A r \in rows : r.open /\ r.scope = "organization" /\ r.name = x.name /\ r.id \in x.knew => r.id \in closed
    PROVE  PricingInv'
<1>1. ASSUME NEW s \in rows', s # x
      PROVE  /\ IsRow(s) /\ s.id \in 1..inserted /\ s.knew \subseteq 1..inserted
             /\ \E r \in rows : From(s, r) /\ (s.open => r.id \notin closed)
  BY <1>1, CloseShape DEF PricingInv
<1>2. inserted \in Nat /\ inserted' \in Nat
  BY DEF PricingInv, KnowsEarlier
<1>3. 1..inserted \subseteq 1..inserted' /\ inserted + 1 \in 1..inserted' /\ inserted + 1 \notin 1..inserted
  BY <1>2
<1>4. \A a \in Admins : requests'[a].knew \subseteq 1..inserted
  BY IdleShape DEF PricingInv, KnowsEarlier
<1>5. KnowsEarlier'
  BY <1>1, <1>2, <1>3, <1>4 DEF KnowsEarlier
<1>6. DisplacesAll'
  <2> SUFFICES ASSUME NEW a \in Admins, NEW s \in rows', s.open, s.scope = "organization",
                      s.name = requests'[a].name, s.id \in requests'[a].knew
               PROVE  /\ requests'[a].phase = "waiting" => s.id \in requests'[a].found
                      /\ requests'[a].phase \in {"inserting", "committing"} => s.id \in requests'[a].closed
    BY DEF DisplacesAll
  <2>1. s # x
    BY <1>3, <1>4
  <2>2. requests'[a] = requests[a]
    BY IdleShape
  <2>3. PICK r \in rows : From(s, r)
    BY <1>1, <2>1
  <2> QED
    BY <2>2, <2>3 DEF From, PricingInv, DisplacesAll
<1>7. DisplacedStaysClosed'
  <2> SUFFICES ASSUME NEW r \in rows', NEW s \in rows', r.open, s.open, r.scope = "organization",
                      s.scope = "organization", r.name = s.name
               PROVE  r.id \notin s.knew
    BY DEF DisplacedStaysClosed
  <2>1. CASE r = x
    <3>1. s.knew \subseteq 1..inserted
      BY <1>1
    <3> QED
      BY <1>3, <2>1, <3>1
  <2>2. CASE r # x
    <3>1. PICK y \in rows : From(r, y) /\ (r.open => y.id \notin closed)
      BY <1>1, <2>2
    <3>2. CASE s = x
      BY <3>1, <3>2 DEF From
    <3>3. CASE s # x
      <4>1. PICK z \in rows : From(s, z)
        BY <1>1, <3>3
      <4> QED
        BY <3>1, <4>1 DEF From, PricingInv, DisplacedStaysClosed
    <3> QED
      BY <3>2, <3>3
  <2> QED
    BY <2>1, <2>2
<1> QED
  BY <1>5, <1>6, <1>7 DEF PricingInv

\* A request goes on, and the table stays.
LEMMA RequestGoesOn ==
    ASSUME PricingInv, UNCHANGED <<rows, inserted>>, NEW a \in Admins, NEW q \in AdminRequest, SetRequest(a, q),
           q.knew \subseteq 1..inserted,
           \A r \in rows : r.open /\ r.scope = "organization" /\ r.name = q.name /\ r.id \in q.knew =>
              /\ q.phase = "waiting" => r.id \in q.found
              /\ q.phase \in {"inserting", "committing"} => r.id \in q.closed
    PROVE  PricingInv'
<1>1. /\ requests' \in [Admins -> AdminRequest] /\ requests'[a] = q
      /\ \A b \in Admins \ {a} : requests'[b] = requests[b]
  BY DEF SetRequest, PricingInv, KnowsEarlier
<1>2. KnowsEarlier'
  BY <1>1 DEF PricingInv, KnowsEarlier
<1>3. DisplacesAll'
  BY <1>1 DEF PricingInv, DisplacesAll
<1>4. DisplacedStaysClosed'
  BY DEF PricingInv, DisplacedStaysClosed
<1> QED
  BY <1>2, <1>3, <1>4 DEF PricingInv

\* insert_catalog_price: a default row, or nothing.
LEMMA InsertCatalogPriceStep ==
    ASSUME PricingInv, InsertCatalogPrice
    PROVE  PricingInv'
<1>1. UNCHANGED requests
  BY DEF InsertCatalogPrice
<1>2. CASE UNCHANGED <<rows, inserted>>
  BY <1>1, <1>2 DEF PricingInv, KnowsEarlier, DisplacesAll, DisplacedStaysClosed
<1>3. CASE ~UNCHANGED <<rows, inserted>>
  <2>1. PICK entry : entry = Head(server.left)
    OBVIOUS
  <2>2. PICK x : x = [id |-> inserted + 1, scope |-> "default", name |-> entry.name, authority |-> entry.authority,
                      rate |-> entry.rate, version |-> server.version, open |-> TRUE, knew |-> {}]
    OBVIOUS
  <2>3. rows' = rows \cup {x} /\ inserted' = inserted + 1
    BY <1>3, <2>1, <2>2 DEF InsertCatalogPrice
  <2>4. IsRow(x) /\ x.id = inserted + 1 /\ x.scope = "default" /\ x.knew = {}
    BY <2>2 DEF IsRow
  <2>5. Close({}) = rows
    BY DEF Close
  <2>6. requests' \in [Admins -> AdminRequest] /\ \A a \in Admins : requests'[a] = requests[a]
    BY <1>1 DEF PricingInv, KnowsEarlier
  <2> QED
    BY <2>3, <2>4, <2>5, <2>6, AddingStep
<1> QED
  BY <1>2, <1>3

\* create_price and update_price: the request knows the rows there are.
LEMMA BeginRequestStep ==
    ASSUME PricingInv, NEW a \in Admins, CreatePrice(a) \/ UpdatePrice(a)
    PROVE  PricingInv'
<1>1. UNCHANGED <<rows, inserted>>
  BY DEF CreatePrice, UpdatePrice
<1>2. PICK n \in Names, authority \in Authorities, rate \in Rates, closed \in SUBSET Nat :
        SetRequest(a, [phase |-> "closing", name |-> n, authority |-> authority, rate |-> rate,
                       found |-> {}, closed |-> closed, knew |-> Committed(n)])
  <2>1. CASE CreatePrice(a)
    BY <2>1 DEF CreatePrice
  <2>2. CASE UpdatePrice(a)
    <3>1. PICK r \in rows, n \in Names, authority \in Authorities, rate \in Rates :
            SetRequest(a, [phase |-> "closing", name |-> n, authority |-> authority, rate |-> rate,
                           found |-> {}, closed |-> {r.id}, knew |-> Committed(n)])
      BY <2>2 DEF UpdatePrice
    <3>2. {r.id} \in SUBSET Nat
      BY DEF PricingInv, KnowsEarlier
    <3> QED
      BY <3>1, <3>2
  <2> QED
    BY <2>1, <2>2
<1>3. Committed(n) \subseteq 1..inserted /\ 1..inserted \subseteq Nat
  BY DEF Committed, PricingInv, KnowsEarlier
<1>4. PICK q : q = [phase |-> "closing", name |-> n, authority |-> authority, rate |-> rate,
                    found |-> {}, closed |-> closed, knew |-> Committed(n)]
  OBVIOUS
<1>5. q \in AdminRequest /\ q.phase = "closing" /\ q.knew \subseteq 1..inserted
  BY <1>3, <1>4 DEF AdminRequest, Phases
<1> QED
  BY <1>1, <1>2, <1>4, <1>5, RequestGoesOn

\* The rows that the UPDATE of insert_org_price_in_transaction sees.
LEMMA FindOpenStep ==
    ASSUME PricingInv, NEW a \in Admins, FindOpen(a)
    PROVE  PricingInv'
<1>1. UNCHANGED <<rows, inserted>>
  BY DEF FindOpen
<1>2. requests[a] \in AdminRequest /\ requests[a].knew \subseteq 1..inserted
  BY DEF PricingInv, KnowsEarlier
<1>3. PICK found : found = {r.id : r \in OpenOf("organization", requests[a].name)}
  OBVIOUS
<1>4. found \in SUBSET Nat
  BY <1>3 DEF OpenOf, PricingInv, KnowsEarlier
<1> DEFINE q == [requests[a] EXCEPT !.phase = "waiting", !.found = found]
<1>5. SetRequest(a, q)
  BY <1>3 DEF FindOpen
<1>6. /\ q \in AdminRequest /\ q.phase = "waiting" /\ q.found = found /\ q.knew = requests[a].knew
      /\ q.name = requests[a].name
  BY <1>2, <1>4 DEF AdminRequest, Phases
<1> HIDE DEF q
<1>7. \A r \in rows : r.open /\ r.scope = "organization" /\ r.name = q.name => r.id \in q.found
  BY <1>3, <1>6 DEF OpenOf
<1> QED
  BY <1>1, <1>2, <1>5, <1>6, <1>7, RequestGoesOn

\* It closes what it saw and is still open: what is not is closed already.
LEMMA CloseOpenStep ==
    ASSUME PricingInv, NEW a \in Admins, CloseOpen(a)
    PROVE  PricingInv'
<1>1. UNCHANGED <<rows, inserted>> /\ requests[a].phase = "waiting"
  BY DEF CloseOpen
<1>2. requests[a] \in AdminRequest /\ requests[a].knew \subseteq 1..inserted
  BY DEF PricingInv, KnowsEarlier
<1>3. PICK closed : closed = requests[a].closed \cup {r.id : r \in {x \in rows : x.open /\ x.id \in requests[a].found}}
  OBVIOUS
<1>4. closed \in SUBSET Nat
  BY <1>2, <1>3 DEF AdminRequest, PricingInv, KnowsEarlier
<1> DEFINE q == [requests[a] EXCEPT !.phase = "inserting", !.closed = closed]
<1>5. SetRequest(a, q)
  BY <1>3 DEF CloseOpen
<1>6. /\ q \in AdminRequest /\ q.phase = "inserting" /\ q.closed = closed /\ q.knew = requests[a].knew
      /\ q.name = requests[a].name
  BY <1>2, <1>4 DEF AdminRequest, Phases
<1> HIDE DEF q
<1>7. ASSUME NEW r \in rows, r.open, r.scope = "organization", r.name = q.name, r.id \in q.knew
      PROVE  r.id \in q.closed
  <2>1. r.id \in requests[a].found
    BY <1>1, <1>6, <1>7 DEF PricingInv, DisplacesAll
  <2> QED
    BY <1>3, <1>6, <1>7, <2>1
<1> QED
  BY <1>1, <1>2, <1>5, <1>6, <1>7, RequestGoesOn

\* A request that ends without a row.
LEMMA EndsStep ==
    ASSUME PricingInv, NEW a \in Admins, SetRequest(a, Idle), UNCHANGED <<rows, inserted>>
    PROVE  PricingInv'
<1>1. PICK q : q = Idle
  OBVIOUS
<1> QED
  BY <1>1, IdleShape, RequestGoesOn

LEMMA InsertOrgPriceStep ==
    ASSUME PricingInv, NEW a \in Admins, InsertOrgPrice(a)
    PROVE  PricingInv'
<1>1. UNCHANGED <<rows, inserted>> /\ requests[a].phase = "inserting"
  BY DEF InsertOrgPrice
<1>2. requests[a] \in AdminRequest /\ requests[a].knew \subseteq 1..inserted
  BY DEF PricingInv, KnowsEarlier
<1>3. CASE SetRequest(a, Idle)
  BY <1>1, <1>3, EndsStep
<1>4. CASE SetRequest(a, [requests[a] EXCEPT !.phase = "committing"])
  <2> DEFINE q == [requests[a] EXCEPT !.phase = "committing"]
  <2>1. /\ q \in AdminRequest /\ q.phase = "committing" /\ q.closed = requests[a].closed
        /\ q.knew = requests[a].knew /\ q.name = requests[a].name
    BY <1>2 DEF AdminRequest, Phases
  <2>2. SetRequest(a, q)
    BY <1>4
  <2> HIDE DEF q
  <2>3. \A r \in rows : r.open /\ r.scope = "organization" /\ r.name = q.name /\ r.id \in q.knew => r.id \in q.closed
    BY <1>1, <2>1 DEF PricingInv, DisplacesAll
  <2> QED
    BY <1>1, <1>2, <2>1, <2>2, <2>3, RequestGoesOn
<1> QED
  BY <1>3, <1>4 DEF InsertOrgPrice

\* The transaction commits: what it knew of is closed with it.
LEMMA CommitPriceStep ==
    ASSUME PricingInv, NEW a \in Admins, CommitPrice(a)
    PROVE  PricingInv'
<1>1. requests[a].phase = "committing" /\ inserted' = inserted + 1 /\ SetRequest(a, Idle)
  BY DEF CommitPrice
<1>2. PICK x : x = [id |-> inserted + 1, scope |-> "organization", name |-> requests[a].name,
                    authority |-> requests[a].authority, rate |-> requests[a].rate, version |-> -(inserted + 1),
                    open |-> TRUE, knew |-> requests[a].knew]
  OBVIOUS
<1>3. PICK closed : closed = requests[a].closed
  OBVIOUS
<1>4. rows' = Close(closed) \cup {x}
  BY <1>2, <1>3 DEF CommitPrice
<1>5. IsRow(x) /\ x.id = inserted + 1 /\ x.knew = requests[a].knew /\ x.name = requests[a].name
  BY <1>2 DEF IsRow
<1>6. x.knew \subseteq 1..inserted
  BY <1>5 DEF PricingInv, KnowsEarlier
<1>7. /\ requests' \in [Admins -> AdminRequest]
      /\ \A b \in Admins : requests'[b] = requests[b] \/ requests'[b] = Idle
  BY <1>1, IdleShape DEF SetRequest, PricingInv, KnowsEarlier
<1>8. \A r \in rows : r.open /\ r.scope = "organization" /\ r.name = x.name /\ r.id \in x.knew => r.id \in closed
  BY <1>1, <1>3, <1>5 DEF PricingInv, DisplacesAll
<1> QED
  BY <1>1, <1>4, <1>5, <1>6, <1>7, <1>8, AddingStep

LEMMA PricingNextInv == PricingInv /\ [PricingNext]_priceVars => PricingInv'
<1> SUFFICES ASSUME PricingInv, [PricingNext]_priceVars PROVE PricingInv'
  OBVIOUS
<1>1. CASE UNCHANGED <<rows, inserted, requests>>
  BY <1>1 DEF PricingInv, KnowsEarlier, DisplacesAll, DisplacedStaysClosed
<1>2. CASE UNCHANGED priceVars \/ FinishImport \/ RepriceUnknownHistory \/ ReplaceFile
  BY <1>1, <1>2 DEF priceVars, FinishImport, RepriceUnknownHistory, ReplaceFile
<1>3. ASSUME NEW s \in Sessions, Ingest(s) PROVE PricingInv'
  BY <1>1, <1>3 DEF Ingest
<1>4. CASE StartImport
  BY <1>4, ClosingStep DEF StartImport, CloseStale
<1>5. CASE InsertCatalogPrice
  BY <1>5, InsertCatalogPriceStep
<1>6. CASE Stop
  <2>1. UNCHANGED <<rows, inserted>> /\ requests' = [a \in Admins |-> Idle]
    BY <1>6 DEF Stop
  <2>2. requests' \in [Admins -> AdminRequest] /\ \A a \in Admins : requests'[a].knew = {}
    BY <2>1, IdleShape
  <2>3. KnowsEarlier'
    BY <2>1, <2>2 DEF PricingInv, KnowsEarlier
  <2> QED
    BY <2>1, <2>2, <2>3 DEF PricingInv, DisplacesAll, DisplacedStaysClosed
<1>7. ASSUME NEW a \in Admins, PriceRequest(a) PROVE PricingInv'
  <2>1. CASE AbortPrice(a)
    BY <2>1, EndsStep DEF AbortPrice
  <2>2. CASE DeletePrice(a)
    <3>1. PICK r \in rows : rows' = Close({r.id})
      BY <2>2 DEF DeletePrice
    <3> QED
      BY <2>2, <3>1, ClosingStep DEF DeletePrice
  <2> QED
    BY <1>7, <2>1, <2>2, BeginRequestStep, FindOpenStep, CloseOpenStep, InsertOrgPriceStep, CommitPriceStep
    DEF PriceRequest
<1> QED
  BY <1>2, <1>3, <1>4, <1>5, <1>6, <1>7 DEF PricingNext, ServerStep

\* A later request always displaces the prices of a model it finds, whatever
\* their authority and however many requests are under way: of two in force
\* at once, neither was there when the request for the other began.
THEOREM DisplacedStaysClosedSafe == PricingSpec => []DisplacedStaysClosed
<1>1. PricingInv => DisplacedStaysClosed
  BY DEF PricingInv
<1> QED
  BY <1>1, PricingInitInv, PricingNextInv, PTL DEF PricingSpec

-----------------------------------------------------------------------------
(* The catalogue in force                                                  *)

\* The function that FlattenSeq builds, on the first parts of a sequence.
Flattening(parts, n, f) ==
    f = [i \in 1..n |-> IF i = 1 THEN parts[i] ELSE f[i - 1] \o parts[i]]

\* A set of naturals has a least element.
LEMMA LeastElement ==
    ASSUME NEW T \in SUBSET Nat, T # {}
    PROVE  \E n \in T : \A m \in T : n <= m
<1>1. PICK R : R = OpToRel(<, Nat)
  OBVIOUS
<1>2. IsWellFoundedOn(R, Nat)
  BY <1>1, NatLessThanWellFounded
<1>3. \E x \in T : \A y \in T : ~(<<y, x>> \in R)
  BY <1>2, WFMin
<1>4. \A x, y \in Nat : <<y, x>> \in R <=> y < x
  BY <1>1 DEF OpToRel
<1>5. PICK n \in T : \A y \in T : ~(<<y, n>> \in R)
  BY <1>3
<1>6. ASSUME NEW m \in T PROVE n <= m
  <2>1. ~(m < n) /\ m \in Nat /\ n \in Nat
    BY <1>4, <1>5
  <2> QED
    BY <2>1
<1> QED
  BY <1>5, <1>6

LEMMA FlatteningExists ==
    ASSUME NEW parts, NEW n \in Nat
    PROVE  \E f : Flattening(parts, n, f)
<1> DEFINE T == {k \in Nat : ~ \E f : Flattening(parts, k, f)}
<1>1. SUFFICES ASSUME T # {} PROVE FALSE
  OBVIOUS
<1>2. PICK k \in T : \A m \in T : k <= m
  <2>1. T \in SUBSET Nat
    OBVIOUS
  <2> HIDE DEF T
  <2> QED
    BY <1>1, <2>1, LeastElement
<1>3. k # 0
  <2>1. 1..0 = {}
    OBVIOUS
  <2>2. Flattening(parts, 0, [i \in 1..0 |-> parts[i]])
    BY <2>1 DEF Flattening
  <2> QED
    BY <2>2
<1>4. PICK f : Flattening(parts, k - 1, f)
  <2>1. k - 1 \in Nat /\ k - 1 \notin T
    BY <1>2, <1>3
  <2> QED
    BY <2>1
<1> DEFINE g == [i \in 1..k |-> IF i < k THEN f[i] ELSE IF k = 1 THEN parts[k] ELSE f[k - 1] \o parts[k]]
<1>5. ASSUME NEW i \in 1..k PROVE g[i] = IF i = 1 THEN parts[i] ELSE g[i - 1] \o parts[i]
  <2>1. CASE i < k
    <3>1. i \in 1..(k - 1) /\ k \in Nat
      BY <1>3, <2>1
    <3>2. f[i] = IF i = 1 THEN parts[i] ELSE f[i - 1] \o parts[i]
      BY <1>4, <3>1 DEF Flattening
    <3>3. g[i] = f[i] /\ (i # 1 => g[i - 1] = f[i - 1])
      BY <2>1, <3>1
    <3> QED
      BY <3>2, <3>3
  <2>2. CASE i = k
    <3>1. k # 1 => k - 1 \in 1..k /\ k - 1 < k
      BY <1>3
    <3>2. g[i] = (IF k = 1 THEN parts[k] ELSE f[k - 1] \o parts[k]) /\ (k # 1 => g[k - 1] = f[k - 1])
      BY <2>2, <3>1
    <3> QED
      BY <2>2, <3>2
  <2> QED
    BY <2>1, <2>2
<1>6. Flattening(parts, k, g)
  <2>1. g = [i \in 1..k |-> g[i]]
    OBVIOUS
  <2> HIDE DEF g
  <2> QED
    BY <1>5, <2>1 DEF Flattening
<1> QED
  BY <1>2, <1>6

\* Every element of a part is one of the whole.
LEMMA FlattenHasAll ==
    ASSUME NEW S, NEW parts \in Seq(Seq(S))
    PROVE  /\ FlattenSeq(parts) \in Seq(S)
           /\ \A i \in DOMAIN parts : \A j \in DOMAIN parts[i] :
                \E k \in DOMAIN FlattenSeq(parts) : FlattenSeq(parts)[k] = parts[i][j]
<1>1. PICK n \in Nat : n = Len(parts) /\ DOMAIN parts = 1..n /\ \A i \in 1..n : parts[i] \in Seq(S)
  OBVIOUS
<1>2. CASE n = 0
  <2>1. parts = <<>> /\ FlattenSeq(parts) = <<>>
    BY <1>1, <1>2 DEF FlattenSeq
  <2>2. DOMAIN parts = {} /\ <<>> \in Seq(S)
    BY <2>1
  <2> QED
    BY <2>1, <2>2
<1>3. CASE n # 0
  <2>1. PICK f : FlattenSeq(parts) = f[n] /\ Flattening(parts, n, f)
    <3>1. FlattenSeq(parts) = (CHOOSE f : Flattening(parts, n, f))[n]
      BY <1>1, <1>3 DEF FlattenSeq, Flattening
    <3> QED
      BY <3>1, FlatteningExists, Zenon
  <2> DEFINE Has(m) == /\ f[m] \in Seq(S)
                       /\ \A i \in 1..m : \A j \in DOMAIN parts[i] : \E k \in DOMAIN f[m] : f[m][k] = parts[i][j]
             T == {m \in 1..n : ~Has(m)}
  <2>2. T = {}
    <3>1. SUFFICES ASSUME T # {} PROVE FALSE
      OBVIOUS
    <3>2. PICK m \in T : \A k \in T : m <= k
      <4>1. T \in SUBSET Nat
        OBVIOUS
      <4> HIDE DEF T
      <4> QED
        BY <3>1, <4>1, LeastElement
    <3>3. m \in 1..n /\ ~Has(m)
      OBVIOUS
    <3>4. m # 1
      <4>1. f[1] = parts[1] /\ 1 \in 1..n
        BY <1>3, <2>1 DEF Flattening
      <4>2. Has(1)
        BY <1>1, <4>1
      <4> QED
        BY <3>3, <4>2
    <3>5. m - 1 \in 1..n /\ Has(m - 1)
      <4> HIDE DEF Has
      <4>1. m \in Nat /\ m - 1 \in 1..n /\ ~(m <= m - 1)
        BY <3>3, <3>4
      <4>2. m - 1 \notin T
        BY <3>2, <4>1
      <4> QED
        BY <4>1, <4>2
    <3>6. f[m] = f[m - 1] \o parts[m]
      BY <2>1, <3>3, <3>4 DEF Flattening
    <3>7. PICK before \in Seq(S), part \in Seq(S) : before = f[m - 1] /\ part = parts[m]
      BY <1>1, <3>3, <3>5
    <3>8. /\ before \o part \in Seq(S)
          /\ \A k \in DOMAIN before : k \in DOMAIN (before \o part) /\ (before \o part)[k] = before[k]
          /\ \A j \in DOMAIN part : /\ Len(before) + j \in DOMAIN (before \o part)
                                    /\ (before \o part)[Len(before) + j] = part[j]
      <4>1. /\ before \o part \in Seq(S) /\ Len(before) \in Nat /\ Len(part) \in Nat
            /\ Len(before \o part) = Len(before) + Len(part)
            /\ DOMAIN before = 1..Len(before) /\ DOMAIN part = 1..Len(part)
            /\ DOMAIN (before \o part) = 1..(Len(before) + Len(part))
        OBVIOUS
      <4>2. ASSUME NEW k \in DOMAIN before
            PROVE  k \in DOMAIN (before \o part) /\ (before \o part)[k] = before[k]
        BY <4>1
      <4>3. ASSUME NEW j \in DOMAIN part
            PROVE  /\ Len(before) + j \in DOMAIN (before \o part)
                   /\ (before \o part)[Len(before) + j] = part[j]
        BY <4>1
      <4> QED
        BY <4>1, <4>2, <4>3
    <3>9. ASSUME NEW i \in 1..m, NEW j \in DOMAIN parts[i] PROVE \E k \in DOMAIN f[m] : f[m][k] = parts[i][j]
      <4>1. CASE i = m
        BY <3>6, <3>7, <3>8, <4>1
      <4>2. CASE i # m
        <5>1. i \in 1..(m - 1)
          BY <3>3, <4>2
        <5>2. PICK k \in DOMAIN before : before[k] = parts[i][j]
          BY <3>5, <3>7, <5>1
        <5> QED
          BY <3>6, <3>7, <3>8, <5>2
      <4> QED
        BY <4>1, <4>2
    <3> QED
      BY <3>3, <3>6, <3>7, <3>8, <3>9
  <2>3. Has(n)
    BY <1>3, <2>2
  <2> QED
    BY <1>1, <2>1, <2>3
<1> QED
  BY <1>2, <1>3

\* The identifier is a key, and a price that is in force is the only one of
\* its scope, name and authority (model_prices_current_unique).
KeysAreUnique ==
    /\ \A r, s \in rows : r.id = s.id => r = s
    /\ \A r, s \in rows : r.open /\ s.open /\ r.scope = s.scope /\ r.name = s.name /\ r.authority = s.authority =>
         r = s

\* A request sets a price of an authority administrators have, and closes rows
\* of its organization.
ClosesOwn ==
    \A a \in Admins :
      /\ requests[a].phase # "idle" => requests[a].authority \in Authorities
      /\ requests[a].found \cup requests[a].closed \subseteq 1..inserted
      /\ \A r \in rows : r.id \in requests[a].found \cup requests[a].closed => r.scope = "organization"

\* A request that will commit closes every row like its own, and no other
\* will commit one like it.
WillBeAlone ==
    \A a \in Admins : requests[a].phase = "committing" =>
      /\ \A r \in rows : r.open /\ r.scope = "organization" /\ r.name = requests[a].name
                           /\ r.authority = requests[a].authority => r.id \in requests[a].closed
      /\ \A b \in Admins \ {a} : requests[b].phase = "committing" =>
           requests[b].name # requests[a].name \/ requests[b].authority # requests[a].authority

TableInv == PricingInv /\ rows \subseteq Row /\ KeysAreUnique /\ ClosesOwn /\ WillBeAlone

Starting == [phase : {"down", "importing", "repricing", "serving"}, version : Nat, left : Seq(Entry)]

\* What a catalogue sets under an authority of the import.
Offers(version, n, authority) ==
    \E i \in DOMAIN Catalogues[version] : \E j \in DOMAIN RowsOf(Catalogues[version][i]) :
      /\ RowsOf(Catalogues[version][i])[j].name = n
      /\ RowsOf(Catalogues[version][i])[j].authority = authority

\* It is still to come, or it is in force.
Coming(n, authority) ==
    /\ server.phase = "importing"
    /\ \E k \in DOMAIN server.left : server.left[k].name = n /\ server.left[k].authority = authority

Current(n, authority) ==
    \E r \in rows : /\ r.open /\ r.scope = "default" /\ r.name = n /\ r.authority = authority
                    /\ r.version = server.version

CatalogueInv ==
    /\ TableInv
    /\ server \in Starting
    /\ file \in DOMAIN Catalogues
    /\ server.phase # "down" =>
         /\ server.version \in DOMAIN Catalogues
         /\ \A r \in rows : r.open /\ r.scope = "default" /\ r.authority \in Imported => r.version = server.version
         /\ \A n \in Names, authority \in Imported :
              Offers(server.version, n, authority) => Coming(n, authority) \/ Current(n, authority)

\* A row after some were closed: what it was, but not in force if it was
\* one of them.
LEMMA ClosedRow ==
    ASSUME rows \subseteq Row, NEW closed, NEW s \in Close(closed)
    PROVE  /\ s \in Row
           /\ \E r \in rows : /\ s.id = r.id /\ s.scope = r.scope /\ s.name = r.name /\ s.authority = r.authority
                              /\ r.id \notin closed => s = r
                              /\ r.id \in closed => s = [r EXCEPT !.open = FALSE] /\ ~s.open
<1>1. CASE s \in rows /\ s.id \notin closed
  BY <1>1
<1>2. CASE \E r \in rows : r.id \in closed /\ s = [r EXCEPT !.open = FALSE]
  <2>1. PICK r \in rows : r.id \in closed /\ s = [r EXCEPT !.open = FALSE]
    BY <1>2
  <2>2. r \in Row
    OBVIOUS
  <2>3. /\ s \in Row /\ s.id = r.id /\ s.scope = r.scope /\ s.name = r.name /\ s.authority = r.authority
        /\ s.open = FALSE
    BY <2>1, <2>2 DEF Row
  <2> QED
    BY <2>1, <2>3
<1> QED
  BY <1>1, <1>2 DEF Close

\* Rows that are not closed stay.
LEMMA OpenStays == ASSUME NEW closed, NEW r \in rows, r.id \notin closed PROVE r \in Close(closed)
  BY DEF Close

\* Closing rows keeps the keys.
LEMMA ClosingKeys ==
    ASSUME rows \subseteq Row, KeysAreUnique, NEW closed
    PROVE  /\ \A r, s \in Close(closed) : r.id = s.id => r = s
           /\ \A r, s \in Close(closed) :
                r.open /\ s.open /\ r.scope = s.scope /\ r.name = s.name /\ r.authority = s.authority => r = s
<1>1. ASSUME NEW r \in Close(closed), NEW s \in Close(closed)
      PROVE  /\ r.id = s.id => r = s
             /\ r.open /\ s.open /\ r.scope = s.scope /\ r.name = s.name /\ r.authority = s.authority => r = s
  <2>1. PICK x \in rows : /\ r.id = x.id /\ r.scope = x.scope /\ r.name = x.name /\ r.authority = x.authority
                          /\ x.id \notin closed => r = x
                          /\ x.id \in closed => r = [x EXCEPT !.open = FALSE] /\ ~r.open
    BY ClosedRow
  <2>2. PICK y \in rows : /\ s.id = y.id /\ s.scope = y.scope /\ s.name = y.name /\ s.authority = y.authority
                          /\ y.id \notin closed => s = y
                          /\ y.id \in closed => s = [y EXCEPT !.open = FALSE] /\ ~s.open
    BY ClosedRow
  <2>3. r.id = s.id => r = s
    <3>1. r.id = s.id => x = y
      BY <2>1, <2>2 DEF KeysAreUnique
    <3> QED
      BY <2>1, <2>2, <3>1
  <2>4. r.open /\ s.open /\ r.scope = s.scope /\ r.name = s.name /\ r.authority = s.authority => r = s
    BY <2>1, <2>2 DEF KeysAreUnique
  <2> QED
    BY <2>3, <2>4
<1> QED
  BY <1>1

LEMMA IdleHolds == Idle.found = {} /\ Idle.closed = {} /\ Idle.phase = "idle"
  BY DEF Idle

LEMMA TableCloses ==
    ASSUME TableInv, NEW closed, rows' = Close(closed), UNCHANGED <<inserted, requests>>
    PROVE  TableInv'
<1>1. PricingInv' /\ rows \subseteq Row
  BY ClosingStep DEF TableInv
<1>2. rows' \subseteq Row
  BY <1>1, ClosedRow
<1>3. KeysAreUnique'
  BY <1>1, ClosingKeys DEF TableInv, KeysAreUnique
<1>4. \A s \in rows' : \E r \in rows : /\ s.id = r.id /\ s.scope = r.scope /\ s.name = r.name
                                       /\ s.authority = r.authority /\ (s.open => r.open)
  BY <1>1, ClosedRow
<1>5. ClosesOwn'
  BY <1>4 DEF TableInv, ClosesOwn
<1>6. WillBeAlone'
  BY <1>4 DEF TableInv, WillBeAlone
<1> QED
  BY <1>1, <1>2, <1>3, <1>5, <1>6 DEF TableInv

\* A row comes into the table where no other like it will be in force.
LEMMA TableAdds ==
    ASSUME TableInv, PricingInv', NEW closed, NEW x \in Row, x.id = inserted + 1, inserted' = inserted + 1,
           rows' = Close(closed) \cup {x},
           \A a \in Admins : requests'[a] = requests[a] \/ requests'[a] = Idle,
           \A r \in rows : r.open /\ r.scope = x.scope /\ r.name = x.name /\ r.authority = x.authority =>
             r.id \in closed,
           x.scope = "organization" => \A a \in Admins : requests'[a].phase = "committing" =>
             requests[a].name # x.name \/ requests[a].authority # x.authority
    PROVE  TableInv'
<1>1. /\ rows \subseteq Row /\ KeysAreUnique /\ inserted \in Nat /\ \A r \in rows : r.id \in 1..inserted
  BY DEF TableInv, PricingInv, KnowsEarlier
<1>2. rows' \subseteq Row
  BY <1>1, ClosedRow
<1>3. ASSUME NEW s \in Close(closed)
      PROVE  \E r \in rows : /\ s.id = r.id /\ s.scope = r.scope /\ s.name = r.name
                             /\ s.authority = r.authority /\ (s.open => r.open /\ r.id \notin closed)
  BY <1>1, ClosedRow
<1>4. x.id \notin 1..inserted /\ 1..inserted \subseteq 1..inserted'
  BY <1>1
<1>5. KeysAreUnique'
  <2>1. ASSUME NEW s \in Close(closed)
        PROVE  /\ s.id # x.id
               /\ ~(s.open /\ s.scope = x.scope /\ s.name = x.name /\ s.authority = x.authority)
    BY <1>1, <1>3, <1>4
  <2> QED
    BY <1>1, <2>1, ClosingKeys DEF KeysAreUnique
<1>6. \A a \in Admins : /\ requests'[a].found \cup requests'[a].closed \subseteq 1..inserted
                        /\ requests'[a].phase # "idle" => requests'[a].authority \in Authorities
  BY IdleHolds DEF TableInv, ClosesOwn
<1>7. ClosesOwn'
  <2> SUFFICES ASSUME NEW a \in Admins, NEW s \in rows', s.id \in requests'[a].found \cup requests'[a].closed
               PROVE  s.scope = "organization"
    BY <1>4, <1>6 DEF ClosesOwn
  <2>1. s \in Close(closed) /\ requests'[a] = requests[a]
    BY <1>4, <1>6, IdleHolds
  <2> QED
    BY <1>3, <2>1 DEF TableInv, ClosesOwn
<1>8. WillBeAlone'
  <2> SUFFICES ASSUME NEW a \in Admins, requests'[a].phase = "committing"
               PROVE  /\ \A s \in rows' : s.open /\ s.scope = "organization" /\ s.name = requests'[a].name
                           /\ s.authority = requests'[a].authority => s.id \in requests'[a].closed
                      /\ \A b \in Admins \ {a} : requests'[b].phase = "committing" =>
                           requests'[b].name # requests'[a].name \/ requests'[b].authority # requests'[a].authority
    BY DEF WillBeAlone
  <2>1. \A b \in Admins : requests'[b].phase = "committing" => requests'[b] = requests[b]
    BY IdleHolds
  <2>2. ASSUME NEW s \in rows', s.open, s.scope = "organization", s.name = requests[a].name,
               s.authority = requests[a].authority
        PROVE  s.id \in requests[a].closed
    BY <1>3, <2>1, <2>2 DEF TableInv, WillBeAlone
  <2> QED
    BY <2>1, <2>2 DEF TableInv, WillBeAlone
<1> QED
  BY <1>2, <1>5, <1>7, <1>8 DEF TableInv

\* A request goes on while the table stays.
LEMMA TableRequest ==
    ASSUME TableInv, PricingInv', UNCHANGED <<rows, inserted>>, NEW a \in Admins, NEW q, SetRequest(a, q),
           q.phase # "idle" => q.authority \in Authorities,
           q.found \cup q.closed \subseteq 1..inserted,
           \A r \in rows : r.id \in q.found \cup q.closed => r.scope = "organization",
           q.phase = "committing" =>
             /\ \A r \in rows : r.open /\ r.scope = "organization" /\ r.name = q.name /\ r.authority = q.authority =>
                  r.id \in q.closed
             /\ \A b \in Admins \ {a} : requests[b].phase = "committing" =>
                  requests[b].name # q.name \/ requests[b].authority # q.authority
    PROVE  TableInv'
<1>1. requests'[a] = q /\ \A b \in Admins \ {a} : requests'[b] = requests[b]
  BY DEF SetRequest, TableInv, PricingInv, KnowsEarlier
<1>2. ClosesOwn'
  BY <1>1 DEF TableInv, ClosesOwn
<1>3. WillBeAlone'
  BY <1>1 DEF TableInv, WillBeAlone
<1>4. KeysAreUnique' /\ rows' \subseteq Row
  BY DEF TableInv, KeysAreUnique
<1> QED
  BY <1>2, <1>3, <1>4 DEF TableInv

\* The default rows are left alone.
DefaultsStay ==
    /\ \A r \in rows : r.scope = "default" => r \in rows'
    /\ \A r \in rows' : r.scope = "default" => r \in rows

\* What is closed is of an organization.
LEMMA ClosingLeavesDefaults ==
    ASSUME rows \subseteq Row, NEW closed, \A r \in rows : r.id \in closed => r.scope = "organization"
    PROVE  /\ \A r \in rows : r.scope = "default" => r \in Close(closed)
           /\ \A r \in Close(closed) : r.scope = "default" => r \in rows
<1>1. ASSUME NEW r \in rows, r.scope = "default" PROVE r \in Close(closed)
  BY <1>1, OpenStays
<1>2. ASSUME NEW s \in Close(closed), s.scope = "default" PROVE s \in rows
  BY <1>2, ClosedRow
<1> QED
  BY <1>1, <1>2

LEMMA CreatePriceTable == ASSUME TableInv, PricingInv', NEW a \in Admins, CreatePrice(a) PROVE TableInv'
<1>1. PICK n \in Names, authority \in Authorities, rate \in Rates :
        SetRequest(a, [phase |-> "closing", name |-> n, authority |-> authority, rate |-> rate,
                       found |-> {}, closed |-> {}, knew |-> Committed(n)])
  BY DEF CreatePrice
<1>2. PICK q : q = [phase |-> "closing", name |-> n, authority |-> authority, rate |-> rate,
                    found |-> {}, closed |-> {}, knew |-> Committed(n)]
  OBVIOUS
<1>3. q.phase = "closing" /\ q.authority = authority /\ q.found = {} /\ q.closed = {}
  BY <1>2
<1>4. UNCHANGED <<rows, inserted>> /\ SetRequest(a, q)
  BY <1>1, <1>2 DEF CreatePrice
<1> QED
  BY <1>3, <1>4, TableRequest

LEMMA UpdatePriceTable == ASSUME TableInv, PricingInv', NEW a \in Admins, UpdatePrice(a) PROVE TableInv'
<1>1. PICK r \in rows, n \in Names, authority \in Authorities, rate \in Rates :
        /\ r.scope = "organization"
        /\ SetRequest(a, [phase |-> "closing", name |-> n, authority |-> authority, rate |-> rate,
                          found |-> {}, closed |-> {r.id}, knew |-> Committed(n)])
  BY DEF UpdatePrice
<1>2. PICK q : q = [phase |-> "closing", name |-> n, authority |-> authority, rate |-> rate,
                    found |-> {}, closed |-> {r.id}, knew |-> Committed(n)]
  OBVIOUS
<1>3. q.phase = "closing" /\ q.authority = authority /\ q.found = {} /\ q.closed = {r.id}
  BY <1>2
<1>4. UNCHANGED <<rows, inserted>> /\ SetRequest(a, q)
  BY <1>1, <1>2 DEF UpdatePrice
<1>5. r.id \in 1..inserted /\ \A s \in rows : s.id = r.id => s.scope = "organization"
  BY <1>1 DEF TableInv, KeysAreUnique, PricingInv, KnowsEarlier
<1> QED
  BY <1>3, <1>4, <1>5, TableRequest

LEMMA FindOpenTable == ASSUME TableInv, PricingInv', NEW a \in Admins, FindOpen(a) PROVE TableInv'
<1>1. requests[a] \in AdminRequest /\ requests[a].phase = "closing"
  BY DEF FindOpen, TableInv, PricingInv, KnowsEarlier
<1>2. PICK found : found = {r.id : r \in OpenOf("organization", requests[a].name)}
  OBVIOUS
<1>3. found \subseteq 1..inserted /\ \A r \in rows : r.id \in found => r.scope = "organization"
  BY <1>2 DEF OpenOf, TableInv, KeysAreUnique, PricingInv, KnowsEarlier
<1>4. PICK q : q = [requests[a] EXCEPT !.phase = "waiting", !.found = found]
  OBVIOUS
<1>5. q.phase = "waiting" /\ q.found = found /\ q.closed = requests[a].closed /\ q.authority = requests[a].authority
  BY <1>1, <1>4 DEF AdminRequest
<1>6. UNCHANGED <<rows, inserted>> /\ SetRequest(a, q)
  BY <1>2, <1>4 DEF FindOpen
<1>7. /\ requests[a].authority \in Authorities
      /\ requests[a].closed \subseteq 1..inserted
      /\ \A r \in rows : r.id \in requests[a].closed => r.scope = "organization"
  BY <1>1 DEF TableInv, ClosesOwn
<1> QED
  BY <1>3, <1>5, <1>6, <1>7, TableRequest

LEMMA CloseOpenTable == ASSUME TableInv, PricingInv', NEW a \in Admins, CloseOpen(a) PROVE TableInv'
<1>1. requests[a] \in AdminRequest /\ requests[a].phase = "waiting"
  BY DEF CloseOpen, TableInv, PricingInv, KnowsEarlier
<1>2. PICK closed : closed = requests[a].closed \cup {r.id : r \in {x \in rows : x.open /\ x.id \in requests[a].found}}
  OBVIOUS
<1>3. closed \subseteq requests[a].found \cup requests[a].closed
  BY <1>2
<1>4. PICK q : q = [requests[a] EXCEPT !.phase = "inserting", !.closed = closed]
  OBVIOUS
<1>5. q.phase = "inserting" /\ q.found = requests[a].found /\ q.closed = closed /\ q.authority = requests[a].authority
  BY <1>1, <1>4 DEF AdminRequest
<1>6. UNCHANGED <<rows, inserted>> /\ SetRequest(a, q)
  BY <1>2, <1>4 DEF CloseOpen
<1>7. /\ requests[a].authority \in Authorities
      /\ requests[a].found \cup requests[a].closed \subseteq 1..inserted
      /\ \A r \in rows : r.id \in requests[a].found \cup requests[a].closed => r.scope = "organization"
  BY <1>1 DEF TableInv, ClosesOwn
<1> QED
  BY <1>3, <1>5, <1>6, <1>7, TableRequest

LEMMA EndsTable ==
    ASSUME TableInv, PricingInv', NEW a \in Admins, SetRequest(a, Idle), UNCHANGED <<rows, inserted>>
    PROVE  TableInv'
<1>1. PICK q : q = Idle
  OBVIOUS
<1>2. q.phase = "idle" /\ q.found = {} /\ q.closed = {}
  BY <1>1, IdleHolds
<1> QED
  BY <1>1, <1>2, TableRequest

LEMMA InsertOrgPriceTable == ASSUME TableInv, PricingInv', NEW a \in Admins, InsertOrgPrice(a) PROVE TableInv'
<1>1. requests[a] \in AdminRequest /\ requests[a].phase = "inserting" /\ UNCHANGED <<rows, inserted>>
  BY DEF InsertOrgPrice, TableInv, PricingInv, KnowsEarlier
<1>2. CASE SetRequest(a, Idle)
  BY <1>1, <1>2, EndsTable
<1>3. CASE ~SetRequest(a, Idle)
  <2>1. PICK q : q = [requests[a] EXCEPT !.phase = "committing"]
    OBVIOUS
  <2>2. /\ q.phase = "committing" /\ q.found = requests[a].found /\ q.closed = requests[a].closed
        /\ q.authority = requests[a].authority /\ q.name = requests[a].name
    BY <1>1, <2>1 DEF AdminRequest
  <2>3. /\ SetRequest(a, q)
        /\ {r.id : r \in Clashes("organization", requests[a].name, requests[a].authority)} \subseteq requests[a].closed
    BY <1>3, <2>1 DEF InsertOrgPrice
  <2>4. \A b \in Admins \ {a} : requests[b].phase = "committing" =>
          requests[b].name # requests[a].name \/ requests[b].authority # requests[a].authority
    BY DEF InsertOrgPrice
  <2>5. \A r \in rows : r.open /\ r.scope = "organization" /\ r.name = requests[a].name
          /\ r.authority = requests[a].authority => r.id \in requests[a].closed
    BY <2>3 DEF Clashes, OpenOf
  <2>6. /\ requests[a].authority \in Authorities
        /\ requests[a].found \cup requests[a].closed \subseteq 1..inserted
        /\ \A r \in rows : r.id \in requests[a].found \cup requests[a].closed => r.scope = "organization"
    BY <1>1 DEF TableInv, ClosesOwn
  <2> QED
    BY <1>1, <2>2, <2>3, <2>4, <2>5, <2>6, TableRequest
<1> QED
  BY <1>2, <1>3

LEMMA CommitPriceTable ==
    ASSUME TableInv, PricingInv', NEW a \in Admins, CommitPrice(a)
    PROVE  TableInv' /\ DefaultsStay
<1>1. /\ requests[a] \in AdminRequest /\ requests[a].phase = "committing" /\ inserted' = inserted + 1
      /\ inserted \in Nat
  BY DEF CommitPrice, TableInv, PricingInv, KnowsEarlier
<1>2. PICK x : x = [id |-> inserted + 1, scope |-> "organization", name |-> requests[a].name,
                    authority |-> requests[a].authority, rate |-> requests[a].rate, version |-> -(inserted + 1),
                    open |-> TRUE, knew |-> requests[a].knew]
  OBVIOUS
<1>3. PICK closed : closed = requests[a].closed
  OBVIOUS
<1>4. rows' = Close(closed) \cup {x}
  BY <1>2, <1>3 DEF CommitPrice
<1>5. requests[a].authority \in Authorities /\ \A r \in rows : r.id \in closed => r.scope = "organization"
  BY <1>1, <1>3 DEF TableInv, ClosesOwn
<1>6. x \in Row
  <2>1. /\ requests[a].name \in Names /\ requests[a].rate \in Rates
        /\ requests[a].knew \in SUBSET Nat
    BY <1>1 DEF AdminRequest
  <2> QED
    BY <1>1, <1>2, <1>5, <2>1 DEF Row
<1>7. /\ x.id = inserted + 1 /\ x.scope = "organization" /\ x.name = requests[a].name
      /\ x.authority = requests[a].authority
  BY <1>2
<1>8. /\ requests'[a] = Idle /\ \A b \in Admins \ {a} : requests'[b] = requests[b]
  BY DEF CommitPrice, SetRequest, TableInv, PricingInv, KnowsEarlier
<1>9. \A r \in rows : r.open /\ r.scope = x.scope /\ r.name = x.name /\ r.authority = x.authority => r.id \in closed
  BY <1>1, <1>3, <1>7 DEF TableInv, WillBeAlone
<1>10. \A b \in Admins : requests'[b].phase = "committing" =>
         requests[b].name # x.name \/ requests[b].authority # x.authority
  BY <1>1, <1>7, <1>8, IdleHolds DEF TableInv, WillBeAlone
<1>11. TableInv'
  BY <1>1, <1>4, <1>6, <1>7, <1>8, <1>9, <1>10, TableAdds
<1>12. DefaultsStay
  BY <1>4, <1>5, <1>7, ClosingLeavesDefaults DEF DefaultsStay, TableInv
<1> QED
  BY <1>11, <1>12

LEMMA DeletePriceTable ==
    ASSUME TableInv, NEW a \in Admins, DeletePrice(a)
    PROVE  TableInv' /\ DefaultsStay
<1>1. PICK r \in rows : r.scope = "organization" /\ rows' = Close({r.id})
  BY DEF DeletePrice
<1>2. \A s \in rows : s.id \in {r.id} => s.scope = "organization"
  BY <1>1 DEF TableInv, KeysAreUnique
<1>3. DefaultsStay
  BY <1>1, <1>2, ClosingLeavesDefaults DEF DefaultsStay, TableInv
<1> QED
  BY <1>1, <1>3, TableCloses DEF DeletePrice

\* Requests of administrators keep the table, and touch no default row.
LEMMA PriceRequestTable ==
    ASSUME TableInv, PricingInv', NEW a \in Admins, PriceRequest(a)
    PROVE  TableInv' /\ DefaultsStay
<1>1. UNCHANGED rows => DefaultsStay
  BY DEF DefaultsStay
<1>2. CASE CreatePrice(a) \/ UpdatePrice(a) \/ FindOpen(a) \/ CloseOpen(a) \/ InsertOrgPrice(a)
  <2>1. UNCHANGED rows
    BY <1>2 DEF CreatePrice, UpdatePrice, FindOpen, CloseOpen, InsertOrgPrice
  <2> QED
    BY <1>1, <1>2, <2>1, CreatePriceTable, UpdatePriceTable, FindOpenTable, CloseOpenTable, InsertOrgPriceTable
<1>3. CASE AbortPrice(a)
  BY <1>1, <1>3, EndsTable DEF AbortPrice
<1> QED
  BY <1>2, <1>3, CommitPriceTable, DeletePriceTable DEF PriceRequest

\* An entry is imported as entries.
LEMMA RowsOfShape == ASSUME NEW entry \in Entry PROVE RowsOf(entry) \in Seq(Entry)
<1>1. entry.name \in Names /\ entry.rate \in Rates
  BY DEF Entry
<1>2. PICK aliases \in Seq(Names) : aliases = Aliases[entry.name]
  BY <1>1, PricingAssumption
<1>3. "default_catalog" \in Authorities \cup Imported \cup {"official_provider"}
  BY DEF Imported
<1> DEFINE more == [i \in 1..Len(aliases) |-> [name |-> aliases[i], authority |-> "default_catalog", rate |-> entry.rate]]
<1>4. \A i \in 1..Len(aliases) :
        [name |-> aliases[i], authority |-> "default_catalog", rate |-> entry.rate] \in Entry
  BY <1>1, <1>3 DEF Entry
<1>5. more \in Seq(Entry)
  <2>1. Len(aliases) \in Nat /\ more \in [1..Len(aliases) -> Entry]
    BY <1>4
  <2> HIDE DEF more
  <2> QED
    BY <2>1
<1>6. RowsOf(entry) = <<entry>> \o more
  BY <1>2 DEF RowsOf
<1> HIDE DEF more
<1>7. <<entry>> \in Seq(Entry)
  OBVIOUS
<1> QED
  BY <1>5, <1>6, <1>7

\* What the import of a catalogue has before it.
ToImport(version) == FlattenSeq([i \in DOMAIN Catalogues[version] |-> RowsOf(Catalogues[version][i])])

\* What a catalogue offers is in what the import has before it.
LEMMA OffersAreLeft ==
    ASSUME NEW version \in DOMAIN Catalogues
    PROVE  /\ ToImport(version) \in Seq(Entry)
           /\ \A n, authority : Offers(version, n, authority) =>
                \E k \in DOMAIN ToImport(version) :
                  ToImport(version)[k].name = n /\ ToImport(version)[k].authority = authority
<1> PICK left : left = ToImport(version)
  OBVIOUS
<1>1. PICK catalogue \in Seq(Entry) : catalogue = Catalogues[version]
  BY PricingAssumption
<1> DEFINE parts == [i \in DOMAIN catalogue |-> RowsOf(catalogue[i])]
<1>2. \A i \in DOMAIN catalogue : RowsOf(catalogue[i]) \in Seq(Entry)
  BY RowsOfShape
<1>3. parts \in Seq(Seq(Entry)) /\ DOMAIN parts = DOMAIN catalogue
  <2>1. parts \in [1..Len(catalogue) -> Seq(Entry)] /\ Len(catalogue) \in Nat /\ DOMAIN catalogue = 1..Len(catalogue)
    BY <1>2
  <2> HIDE DEF parts
  <2> QED
    BY <2>1
<1>4. left = FlattenSeq(parts)
  BY <1>1 DEF ToImport
<1>5. \A i \in DOMAIN catalogue : parts[i] = RowsOf(catalogue[i])
  OBVIOUS
<1> HIDE DEF parts
<1>6. /\ left \in Seq(Entry)
      /\ \A i \in DOMAIN parts : \A j \in DOMAIN parts[i] : \E k \in DOMAIN left : left[k] = parts[i][j]
  <2>1. /\ FlattenSeq(parts) \in Seq(Entry)
        /\ \A i \in DOMAIN parts : \A j \in DOMAIN parts[i] :
             \E k \in DOMAIN FlattenSeq(parts) : FlattenSeq(parts)[k] = parts[i][j]
    BY <1>3, FlattenHasAll, Zenon
  <2> QED
    BY <1>4, <2>1
<1>7. ASSUME NEW n, NEW authority, Offers(version, n, authority)
      PROVE  \E k \in DOMAIN left : left[k].name = n /\ left[k].authority = authority
  <2>1. PICK i \in DOMAIN catalogue : \E j \in DOMAIN RowsOf(catalogue[i]) :
          RowsOf(catalogue[i])[j].name = n /\ RowsOf(catalogue[i])[j].authority = authority
    BY <1>1, <1>7 DEF Offers
  <2>2. PICK j \in DOMAIN parts[i] : parts[i][j].name = n /\ parts[i][j].authority = authority
    BY <1>5, <2>1
  <2> QED
    BY <1>3, <1>6, <2>2
<1> QED
  BY <1>6, <1>7

\* Nothing about the default rows or the server changes.
LEMMA CatalogueStays ==
    ASSUME CatalogueInv, TableInv', DefaultsStay, UNCHANGED <<server, file>>
    PROVE  CatalogueInv'
<1>1. CASE server.phase = "down"
  BY <1>1 DEF CatalogueInv
<1>2. CASE server.phase # "down"
  <2>1. \A n, authority : Coming(n, authority)' = Coming(n, authority)
    BY DEF Coming
  <2>2. \A n, authority : Current(n, authority) => Current(n, authority)'
    BY DEF Current, DefaultsStay
  <2>3. \A r \in rows' : r.open /\ r.scope = "default" /\ r.authority \in Imported => r.version = server.version
    BY <1>2 DEF CatalogueInv, DefaultsStay
  <2> QED
    BY <1>2, <2>1, <2>2, <2>3 DEF CatalogueInv
<1> QED
  BY <1>1, <1>2

\* The import begins: the prices of other versions are closed, and all of
\* this one is before it.
LEMMA StartImportStep == ASSUME CatalogueInv, StartImport PROVE CatalogueInv'
<1>1. PICK closed : closed = {r.id : r \in {x \in rows : x.open /\ x.scope = "default"
                                              /\ x.authority \in Imported /\ x.version # file}}
  OBVIOUS
<1>2. rows' = Close(closed) /\ UNCHANGED <<inserted, requests, file>>
  BY <1>1 DEF StartImport, CloseStale
<1>3. TableInv'
  BY <1>2, TableCloses DEF CatalogueInv
<1>4. file \in DOMAIN Catalogues /\ file \in Nat
  BY PricingAssumption DEF CatalogueInv
<1>5. PICK left : left = ToImport(file)
  OBVIOUS
<1>6. server' = [phase |-> "importing", version |-> file, left |-> left]
  BY <1>5 DEF StartImport, ToImport
<1>7. /\ left \in Seq(Entry)
      /\ \A n, authority : Offers(file, n, authority) =>
           \E k \in DOMAIN left : left[k].name = n /\ left[k].authority = authority
  <2>1. /\ ToImport(file) \in Seq(Entry)
        /\ \A n, authority : Offers(file, n, authority) =>
             \E k \in DOMAIN ToImport(file) :
               ToImport(file)[k].name = n /\ ToImport(file)[k].authority = authority
    BY <1>4, OffersAreLeft
  <2> QED
    BY <1>5, <2>1
<1>8. server' \in Starting /\ server'.phase = "importing" /\ server'.version = file /\ server'.left = left
  BY <1>4, <1>6, <1>7 DEF Starting
<1>9. ASSUME NEW s \in rows', s.open, s.scope = "default", s.authority \in Imported PROVE s.version = file
  <2>1. s \in rows /\ s.id \notin closed
    BY <1>2, <1>9, ClosedRow DEF CatalogueInv, TableInv
  <2> QED
    BY <1>1, <1>9, <2>1
<1>10. \A n, authority : Offers(file, n, authority) => Coming(n, authority)'
  BY <1>7, <1>8 DEF Coming
<1> QED
  BY <1>2, <1>3, <1>4, <1>8, <1>9, <1>10 DEF CatalogueInv

\* One row of it is in force, or another like it was set by this import.
LEMMA InsertCatalogPriceCurrent == ASSUME CatalogueInv, InsertCatalogPrice PROVE CatalogueInv'
<1>1. /\ server \in Starting /\ server.phase = "importing" /\ server.left # <<>> /\ server.version \in Nat
      /\ server.left \in Seq(Entry) /\ server.version \in DOMAIN Catalogues
  BY DEF InsertCatalogPrice, CatalogueInv, Starting
<1>2. PICK entry \in Entry : entry = Head(server.left) /\ entry = server.left[1]
  BY <1>1
<1>3. UNCHANGED <<file, requests>> /\ PricingInv'
  BY InsertCatalogPriceStep DEF InsertCatalogPrice, CatalogueInv, TableInv
<1>4. PICK rest \in Seq(Entry) : /\ rest = Tail(server.left)
                                 /\ \A k \in DOMAIN server.left \ {1} :
                                      k - 1 \in DOMAIN rest /\ rest[k - 1] = server.left[k]
  <2>1. Tail(server.left) \in Seq(Entry) /\ Len(Tail(server.left)) = Len(server.left) - 1
    BY <1>1
  <2>2. ASSUME NEW k \in DOMAIN server.left \ {1}
        PROVE  k - 1 \in DOMAIN Tail(server.left) /\ Tail(server.left)[k - 1] = server.left[k]
    <3>1. k \in 2..Len(server.left) /\ Len(server.left) \in Nat
      BY <1>1
    <3>2. k - 1 \in 1..(Len(server.left) - 1) /\ DOMAIN Tail(server.left) = 1..(Len(server.left) - 1)
      BY <2>1, <3>1
    <3>3. Tail(server.left)[k - 1] = server.left[(k - 1) + 1]
      BY <1>1, <3>1, <3>2
    <3> QED
      BY <3>1, <3>2, <3>3
  <2> QED
    BY <2>1, <2>2
<1>5. server' = [server EXCEPT !.left = rest]
  BY <1>4 DEF InsertCatalogPrice
<1>6. /\ server' \in Starting /\ server'.phase = "importing" /\ server'.left = rest
      /\ server'.version = server.version
  BY <1>1, <1>5 DEF Starting
<1>7. \A n, authority : Coming(n, authority) =>
        Coming(n, authority)' \/ (n = entry.name /\ authority = entry.authority)
  <2> SUFFICES ASSUME NEW n, NEW authority, NEW k \in DOMAIN server.left,
                      server.left[k].name = n, server.left[k].authority = authority, k # 1
               PROVE  Coming(n, authority)'
    BY <1>2 DEF Coming
  <2> QED
    BY <1>4, <1>6 DEF Coming
<1>8. \A r \in rows : r.open /\ r.scope = "default" /\ r.authority \in Imported => r.version = server.version
  BY <1>1 DEF CatalogueInv
<1>9. /\ TableInv'
      /\ \A n, authority : Current(n, authority) => Current(n, authority)'
      /\ entry.authority \in Imported => Current(entry.name, entry.authority)'
      /\ \A r \in rows' : r.open /\ r.scope = "default" /\ r.authority \in Imported => r.version = server.version
  <2>1. CASE Clashes("default", entry.name, entry.authority) # {}
    <3>1. UNCHANGED <<rows, inserted>>
      BY <1>2, <2>1 DEF InsertCatalogPrice
    <3>2. TableInv'
      BY <1>3, <3>1 DEF CatalogueInv, TableInv, KeysAreUnique, ClosesOwn, WillBeAlone
    <3>3. \A n, authority : Current(n, authority) => Current(n, authority)'
      BY <1>6, <3>1 DEF Current
    <3>4. entry.authority \in Imported => Current(entry.name, entry.authority)
      BY <1>8, <2>1 DEF Clashes, OpenOf, Current
    <3> QED
      BY <1>8, <3>1, <3>2, <3>3, <3>4
  <2>2. CASE Clashes("default", entry.name, entry.authority) = {}
    <3>1. PICK x : x = [id |-> inserted + 1, scope |-> "default", name |-> entry.name,
                        authority |-> entry.authority, rate |-> entry.rate,
                        version |-> server.version, open |-> TRUE, knew |-> {}]
      OBVIOUS
    <3>2. rows' = rows \cup {x} /\ inserted' = inserted + 1
      BY <1>2, <2>2, <3>1 DEF InsertCatalogPrice
    <3>3. inserted \in Nat
      BY DEF CatalogueInv, TableInv, PricingInv, KnowsEarlier
    <3>4. entry.rate \in Rates
      BY DEF Entry
    <3>5. entry.name \in Names /\ entry.authority \in Authorities \cup Imported \cup {"official_provider"}
      BY DEF Entry
    <3>6. /\ x \in Row /\ x.id = inserted + 1 /\ x.scope = "default" /\ x.name = entry.name
          /\ x.authority = entry.authority /\ x.version = server.version /\ x.open
      BY <1>1, <3>1, <3>3, <3>4, <3>5 DEF Row
    <3>7. Close({}) = rows
      BY DEF Close
    <3>8. ~ \E r \in rows : r.open /\ r.scope = x.scope /\ r.name = x.name /\ r.authority = x.authority
      BY <2>2, <3>6 DEF Clashes, OpenOf
    <3>9. TableInv'
      BY <1>3, <3>2, <3>6, <3>7, <3>8, TableAdds DEF CatalogueInv
    <3>10. \A n, authority : Current(n, authority) => Current(n, authority)'
      BY <1>6, <3>2 DEF Current
    <3>11. Current(entry.name, entry.authority)'
      BY <1>6, <3>2, <3>6 DEF Current
    <3> QED
      BY <1>8, <3>2, <3>6, <3>9, <3>10, <3>11
  <2> QED
    BY <2>1, <2>2
<1> QED
  BY <1>1, <1>3, <1>6, <1>7, <1>9 DEF CatalogueInv

\* The import is over: nothing is still to come.
LEMMA FinishImportStep == ASSUME CatalogueInv, FinishImport PROVE CatalogueInv'
<1>1. /\ server \in Starting /\ server.phase = "importing" /\ server.left = <<>>
      /\ UNCHANGED <<rows, inserted, file, requests>> /\ server' = [server EXCEPT !.phase = "repricing"]
  BY DEF FinishImport, CatalogueInv
<1>2. /\ server' \in Starting /\ server'.phase = "repricing" /\ server'.version = server.version
  BY <1>1 DEF Starting
<1>3. TableInv'
  BY <1>1 DEF CatalogueInv, TableInv, PricingInv, KnowsEarlier, DisplacesAll, DisplacedStaysClosed,
    KeysAreUnique, ClosesOwn, WillBeAlone
<1>4. \A n, authority : ~Coming(n, authority) /\ (Current(n, authority) => Current(n, authority)')
  BY <1>1, <1>2 DEF Coming, Current
<1> QED
  BY <1>1, <1>2, <1>3, <1>4 DEF CatalogueInv

LEMMA CatalogueInitInv == PricingInit => CatalogueInv
<1> SUFFICES ASSUME PricingInit PROVE CatalogueInv
  OBVIOUS
<1>1. /\ rows = {} /\ inserted = 0 /\ \A a \in Admins : requests[a] = Idle
      /\ server = [phase |-> "down", version |-> 1, left |-> <<>>] /\ file \in DOMAIN Catalogues
  BY DEF PricingInit
<1>2. server \in Starting /\ server.phase = "down"
  <2>1. <<>> \in Seq(Entry)
    OBVIOUS
  <2> QED
    BY <1>1, <2>1 DEF Starting
<1>3. KeysAreUnique /\ ClosesOwn /\ WillBeAlone
  BY <1>1, IdleHolds DEF KeysAreUnique, ClosesOwn, WillBeAlone
<1> QED
  BY <1>1, <1>2, <1>3, PricingInitInv DEF CatalogueInv, TableInv

LEMMA CatalogueNextInv == CatalogueInv /\ [PricingNext]_priceVars => CatalogueInv'
<1> SUFFICES ASSUME CatalogueInv, [PricingNext]_priceVars PROVE CatalogueInv'
  OBVIOUS
<1>1. PricingInv'
  BY PricingNextInv DEF CatalogueInv, TableInv
<1>2. UNCHANGED <<rows, inserted, requests>> => TableInv' /\ DefaultsStay
  BY <1>1 DEF CatalogueInv, TableInv, KeysAreUnique, ClosesOwn, WillBeAlone, DefaultsStay
<1>3. CASE UNCHANGED priceVars \/ \E s \in Sessions : Ingest(s)
  BY <1>2, <1>3, CatalogueStays DEF priceVars, Ingest
<1>4. CASE RepriceUnknownHistory
  <2>1. /\ server \in Starting /\ server.phase = "repricing" /\ UNCHANGED <<rows, inserted, file, requests>>
        /\ server' = [server EXCEPT !.phase = "serving"]
    BY <1>4 DEF RepriceUnknownHistory, CatalogueInv
  <2>2. server' \in Starting /\ server'.phase = "serving" /\ server'.version = server.version
    BY <2>1 DEF Starting
  <2>3. \A n, authority : ~Coming(n, authority) /\ (Current(n, authority) => Current(n, authority)')
    BY <2>1, <2>2 DEF Coming, Current
  <2> QED
    BY <1>2, <2>1, <2>2, <2>3 DEF CatalogueInv
<1>5. CASE Stop
  <2>1. /\ server \in Starting /\ UNCHANGED <<rows, inserted, file>> /\ requests' = [a \in Admins |-> Idle]
        /\ server' = [server EXCEPT !.phase = "down", !.left = <<>>]
    BY <1>5 DEF Stop, CatalogueInv
  <2>2. server' \in Starting /\ server'.phase = "down"
    <3>1. <<>> \in Seq(Entry)
      OBVIOUS
    <3> QED
      BY <2>1, <3>1 DEF Starting
  <2>3. TableInv'
    BY <1>1, <2>1, IdleHolds DEF CatalogueInv, TableInv, KeysAreUnique, ClosesOwn, WillBeAlone
  <2> QED
    BY <2>1, <2>2, <2>3 DEF CatalogueInv
<1>6. CASE ReplaceFile
  <2>1. UNCHANGED <<rows, inserted, requests, server>> /\ server.phase = "down" /\ file' \in DOMAIN Catalogues
    BY <1>6 DEF ReplaceFile
  <2> QED
    BY <1>2, <2>1 DEF CatalogueInv
<1>7. ASSUME NEW a \in Admins, PriceRequest(a) PROVE CatalogueInv'
  <2>1. UNCHANGED <<server, file>>
    BY <1>7 DEF PriceRequest, CreatePrice, UpdatePrice, FindOpen, CloseOpen, InsertOrgPrice, CommitPrice,
      AbortPrice, DeletePrice
  <2>2. TableInv' /\ DefaultsStay
    BY <1>1, <1>7, PriceRequestTable DEF CatalogueInv
  <2> QED
    BY <2>1, <2>2, CatalogueStays
<1> QED
  BY <1>3, <1>4, <1>5, <1>6, <1>7, StartImportStep, InsertCatalogPriceCurrent, FinishImportStep
  DEF PricingNext, ServerStep

\* The type invariant of the price table: its keys hold among requests that
\* overlap and wait for each other, and beside imports that stop.
THEOREM PricingTypeCorrect == PricingSpec => []PricingTypeOK
<1>1. CatalogueInv => PricingTypeOK
  <2> SUFFICES ASSUME CatalogueInv PROVE PricingTypeOK
    OBVIOUS
  <2>1. rows \subseteq Row /\ \A r, s \in rows : r.id = s.id => r = s
    BY DEF CatalogueInv, TableInv, KeysAreUnique
  <2>2. ASSUME NEW r \in rows, r.open PROVE Clashes(r.scope, r.name, r.authority) = {r}
    BY <2>2 DEF Clashes, OpenOf, CatalogueInv, TableInv, KeysAreUnique
  <2>3. server.phase \in {"down", "importing", "repricing", "serving"}
    BY DEF CatalogueInv, Starting
  <2>4. \A a \in Admins : requests[a].phase \in Phases
    BY DEF CatalogueInv, TableInv, PricingInv, KnowsEarlier, AdminRequest
  <2> QED
    BY <2>1, <2>2, <2>3, <2>4 DEF PricingTypeOK
<1> QED
  BY <1>1, CatalogueInitInv, CatalogueNextInv, PTL DEF PricingSpec

\* A server that serves has all its catalogue offers in force at that
\* catalogue's version: for any catalogues, any number of starts that were cut
\* off at any row, and any number of administrators beside them.
THEOREM CatalogueIsCurrentSafe == PricingSpec => []CatalogueIsCurrent
<1>1. CatalogueInv => CatalogueIsCurrent
  <2> SUFFICES ASSUME CatalogueInv, server.phase = "serving",
                      NEW i \in DOMAIN Catalogues[server.version],
                      NEW j \in DOMAIN RowsOf(Catalogues[server.version][i]),
                      RowsOf(Catalogues[server.version][i])[j].authority \in Imported
               PROVE  \E r \in Clashes("default", RowsOf(Catalogues[server.version][i])[j].name,
                                       RowsOf(Catalogues[server.version][i])[j].authority) :
                        r.version = server.version
    BY DEF CatalogueIsCurrent
  <2>1. PICK entry : entry = RowsOf(Catalogues[server.version][i])[j]
    OBVIOUS
  <2>2. server.version \in DOMAIN Catalogues
    BY DEF CatalogueInv
  <2>3. Catalogues[server.version] \in Seq(Entry)
    BY <2>2, PricingAssumption
  <2>4. Catalogues[server.version][i] \in Entry
    BY <2>3
  <2>5. RowsOf(Catalogues[server.version][i]) \in Seq(Entry)
    BY <2>4, RowsOfShape
  <2>6. entry \in Entry
    BY <2>1, <2>5
  <2>7. entry.name \in Names /\ entry.authority \in Imported
    BY <2>1, <2>6 DEF Entry
  <2>8. Offers(server.version, entry.name, entry.authority)
    BY <2>1 DEF Offers
  <2>9. Current(entry.name, entry.authority)
    BY <2>7, <2>8 DEF CatalogueInv, Coming
  <2> QED
    BY <2>1, <2>9 DEF Current, Clashes, OpenOf
<1> QED
  BY <1>1, CatalogueInitInv, CatalogueNextInv, PTL DEF PricingSpec

-----------------------------------------------------------------------------
(* Estimates and the prices they were made of                              *)

LEMMA RankIsBounded == \A authority : Rank(authority) \in 0..60
  BY DEF Rank

LEMMA HighestRank ==
    ASSUME NEW S, S # {}
    PROVE  \E r \in S : \A s \in S : Rank(r.authority) >= Rank(s.authority)
<1> DEFINE T == {60 - Rank(r.authority) : r \in S}
<1>1. T \in SUBSET Nat /\ T # {}
  BY RankIsBounded
<1>2. PICK k \in T : \A m \in T : k <= m
  <2> HIDE DEF T
  <2> QED
    BY <1>1, LeastElement
<1>3. PICK r \in S : k = 60 - Rank(r.authority)
  BY <1>2
<1>4. ASSUME NEW s \in S PROVE Rank(r.authority) >= Rank(s.authority)
  <2>1. 60 - Rank(r.authority) <= 60 - Rank(s.authority)
    BY <1>2, <1>3
  <2>2. Rank(r.authority) \in 0..60 /\ Rank(s.authority) \in 0..60
    BY RankIsBounded
  <2> QED
    BY <2>1, <2>2
<1> QED
  BY <1>4

LEMMA LookupFinds ==
    ASSUME NEW n, InForce(n) # {}
    PROVE  Lookup(n) \in rows /\ Lookup(n).name = n
<1> DEFINE O == OpenOf("organization", n)
           D == OpenOf("default", n)
<1>1. /\ \A r \in O : r \in rows /\ r.scope = "organization" /\ r.name = n
      /\ \A r \in D : r \in rows /\ r.scope = "default" /\ r.name = n
      /\ InForce(n) = O \cup D
  BY DEF OpenOf, InForce
<1> HIDE DEF O, D
<1>2. \E r \in InForce(n) : \A s \in InForce(n) : Preferred(r, s)
  <2>1. CASE O # {}
    <3> PICK r \in O : \A s \in O : Rank(r.authority) >= Rank(s.authority)
      BY <2>1, HighestRank
    <3> QED
      BY <1>1 DEF Preferred
  <2>2. CASE O = {}
    <3> PICK r \in D : \A s \in D : Rank(r.authority) >= Rank(s.authority)
      BY <1>1, <2>2, HighestRank
    <3> QED
      BY <1>1, <2>2 DEF Preferred
  <2> QED
    BY <2>1, <2>2
<1>3. Lookup(n) \in InForce(n)
  BY <1>2, Zenon DEF Lookup
<1> QED
  BY <1>1, <1>3

\* The rate a catalogue has first for a name under an authority.
ListsFirst(version, n, authority, rate) ==
    \E k \in Nat \ {0} :
      /\ k \in DOMAIN ToImport(version)
      /\ ToImport(version)[k].name = n /\ ToImport(version)[k].authority = authority
      /\ ToImport(version)[k].rate = rate
      /\ \A j \in 1..(k - 1) :
           ~(ToImport(version)[j].name = n /\ ToImport(version)[j].authority = authority)

\* A row of an organization has a version of its own.  One of a catalogue that
\* an import can close is the first entry of that catalogue for its name and
\* authority; the others are never closed.
IsSound(r) ==
    /\ r.scope = "organization" => r.version = -r.id
    /\ r.scope = "default" => r.version \in Nat
    /\ r.scope = "default" /\ r.authority \in Imported => ListsFirst(r.version, r.name, r.authority, r.rate)
    /\ r.scope = "default" /\ r.authority \notin Imported => r.open

\* An import has set what it is done with, and has the rest before it.
ImportIsUnderWay ==
    server.phase = "importing" =>
      \E done \in Nat :
        /\ DOMAIN ToImport(server.version) = 1..(done + Len(server.left))
        /\ \A k \in DOMAIN server.left : server.left[k] = ToImport(server.version)[done + k]
        /\ \A j \in 1..done : ToImport(server.version)[j].authority \in Imported =>
             Current(ToImport(server.version)[j].name, ToImport(server.version)[j].authority)

\* An estimate of the server is of a price that is in the table.
IsNamed(table, n, cost) ==
    cost.kind = "estimated" /\ cost.by = "server" =>
      \E r \in table : r.name = n /\ r.authority = cost.source /\ r.version = cost.version /\ r.rate = cost.rate

AllAreNamed ==
    \A s \in Sessions : \A n \in DOMAIN snapshots[s].slices : IsNamed(rows, n, snapshots[s].slices[n])

SnapshotShape ==
    snapshots = [s \in Sessions |-> [uploads |-> snapshots[s].uploads, slices |-> snapshots[s].slices]]

AuditInv ==
    /\ CatalogueInv
    /\ \A r \in rows : IsSound(r)
    /\ ImportIsUnderWay
    /\ SnapshotShape
    /\ AllAreNamed

\* Every price stays in the table, though it may be closed.
RowsStay ==
    \A r \in rows : \E s \in rows' :
      s.name = r.name /\ s.authority = r.authority /\ s.version = r.version /\ s.rate = r.rate

LEMMA FirstIsOne ==
    ASSUME NEW version, NEW n, NEW authority, NEW q, NEW r,
           ListsFirst(version, n, authority, q), ListsFirst(version, n, authority, r)
    PROVE  q = r
<1>1. PICK k \in Nat \ {0} :
        /\ ToImport(version)[k].name = n /\ ToImport(version)[k].authority = authority
        /\ ToImport(version)[k].rate = q
        /\ \A j \in 1..(k - 1) :
             ~(ToImport(version)[j].name = n /\ ToImport(version)[j].authority = authority)
  BY DEF ListsFirst
<1>2. PICK m \in Nat \ {0} :
        /\ ToImport(version)[m].name = n /\ ToImport(version)[m].authority = authority
        /\ ToImport(version)[m].rate = r
        /\ \A j \in 1..(m - 1) :
             ~(ToImport(version)[j].name = n /\ ToImport(version)[j].authority = authority)
  BY DEF ListsFirst
<1>3. k \notin 1..(m - 1) /\ m \notin 1..(k - 1)
  BY <1>1, <1>2
<1>4. k = m
  BY <1>3
<1> QED
  BY <1>1, <1>2, <1>4

\* The name, authority and version of a price are those of one rate.
LEMMA OnePrice ==
    ASSUME CatalogueInv, \A r \in rows : IsSound(r), NEW r \in rows, NEW s \in rows,
           r.name = s.name, r.authority = s.authority, r.version = s.version
    PROVE  r.rate = s.rate
<1>1. /\ r \in Row /\ s \in Row /\ r.id \in Nat \ {0} /\ s.id \in Nat \ {0} /\ KeysAreUnique
      /\ IsSound(r) /\ IsSound(s)
  BY DEF CatalogueInv, TableInv, PricingInv, KnowsEarlier
<1>2. r.scope \in {"default", "organization"} /\ s.scope \in {"default", "organization"}
  BY <1>1 DEF Row
<1>3. CASE r.scope = "organization" \/ s.scope = "organization"
  <2>1. r.scope = "organization" /\ s.scope = "organization"
    BY <1>1, <1>2, <1>3 DEF IsSound
  <2>2. r.id = s.id
    BY <1>1, <2>1 DEF IsSound
  <2> QED
    BY <1>1, <2>2 DEF KeysAreUnique
<1>4. CASE r.scope = "default" /\ s.scope = "default"
  <2>1. CASE r.authority \in Imported
    BY <1>1, <1>4, <2>1, FirstIsOne DEF IsSound
  <2>2. CASE r.authority \notin Imported
    BY <1>1, <1>4, <2>2 DEF IsSound, KeysAreUnique
  <2> QED
    BY <2>1, <2>2
<1> QED
  BY <1>2, <1>3, <1>4

\* Closing rows of organizations, and rows an import sets again.
LEMMA SoundCloses ==
    ASSUME rows \subseteq Row, \A r \in rows : IsSound(r), NEW closed,
           \A r \in rows : r.id \in closed => r.scope = "organization" \/ r.authority \in Imported
    PROVE  /\ \A s \in Close(closed) : IsSound(s)
           /\ \A r \in rows : \E s \in Close(closed) :
                s.name = r.name /\ s.authority = r.authority /\ s.version = r.version /\ s.rate = r.rate
<1>1. ASSUME NEW r \in rows, NEW s, s = [r EXCEPT !.open = FALSE]
      PROVE  /\ s.id = r.id /\ s.scope = r.scope /\ s.name = r.name /\ s.authority = r.authority
             /\ s.version = r.version /\ s.rate = r.rate
  BY <1>1 DEF Row
<1>2. ASSUME NEW s \in Close(closed) PROVE IsSound(s)
  <2>1. CASE s \in rows
    BY <2>1
  <2>2. CASE \E r \in rows : r.id \in closed /\ s = [r EXCEPT !.open = FALSE]
    <3>1. PICK r \in rows : r.id \in closed /\ s = [r EXCEPT !.open = FALSE]
      BY <2>2
    <3>2. s.id = r.id /\ s.scope = r.scope /\ s.name = r.name /\ s.authority = r.authority
          /\ s.version = r.version /\ s.rate = r.rate
      BY <1>1, <3>1
    <3>3. IsSound(r) /\ (r.scope = "organization" \/ r.authority \in Imported)
      BY <3>1
    <3> QED
      BY <3>2, <3>3 DEF IsSound
  <2> QED
    BY <2>1, <2>2 DEF Close
<1>3. ASSUME NEW r \in rows
      PROVE  \E s \in Close(closed) :
               s.name = r.name /\ s.authority = r.authority /\ s.version = r.version /\ s.rate = r.rate
  <2>1. CASE r.id \notin closed
    BY <2>1, OpenStays
  <2>2. CASE r.id \in closed
    <3>1. PICK s : s = [r EXCEPT !.open = FALSE]
      OBVIOUS
    <3>2. s \in Close(closed)
      BY <2>2, <3>1 DEF Close
    <3> QED
      BY <1>1, <3>1, <3>2
  <2> QED
    BY <2>1, <2>2
<1> QED
  BY <1>2, <1>3

\* Estimates that are not touched keep their prices.
LEMMA StayNamed ==
    ASSUME SnapshotShape, AllAreNamed, RowsStay, UNCHANGED snapshots
    PROVE  SnapshotShape' /\ AllAreNamed'
<1>1. SnapshotShape'
  BY DEF SnapshotShape
<1>2. ASSUME NEW n, NEW cost, IsNamed(rows, n, cost) PROVE IsNamed(rows', n, cost)
  BY <1>2 DEF IsNamed, RowsStay
<1>3. AllAreNamed'
  BY <1>2 DEF AllAreNamed
<1> QED
  BY <1>1, <1>3

\* An import is where it was when its server and the default rows are.
LEMMA ImportStays ==
    ASSUME ImportIsUnderWay, DefaultsStay, UNCHANGED server
    PROVE  ImportIsUnderWay'
<1>1. \A n, authority : Current(n, authority) => Current(n, authority)'
  BY DEF Current, DefaultsStay
<1>2. CASE server.phase = "importing"
  <2>1. PICK done \in Nat :
          /\ DOMAIN ToImport(server.version) = 1..(done + Len(server.left))
          /\ \A k \in DOMAIN server.left : server.left[k] = ToImport(server.version)[done + k]
          /\ \A j \in 1..done : ToImport(server.version)[j].authority \in Imported =>
               Current(ToImport(server.version)[j].name, ToImport(server.version)[j].authority)
    BY <1>2 DEF ImportIsUnderWay
  <2>2. \A j \in 1..done : ToImport(server.version)[j].authority \in Imported =>
          Current(ToImport(server.version)[j].name, ToImport(server.version)[j].authority)'
    BY <1>1, <2>1
  <2> QED
    BY <2>1, <2>2 DEF ImportIsUnderWay
<1>3. CASE server.phase # "importing"
  BY <1>3 DEF ImportIsUnderWay
<1> QED
  BY <1>2, <1>3

\* A price that is looked up is in the table.
LEMMA PricedIsNamed ==
    ASSUME NEW n, NEW cost, IsNamed(rows, n, cost)
    PROVE  IsNamed(rows, n, PricedSlice(n, cost))
<1>1. CASE cost.kind = "reported" \/ InForce(n) = {}
  BY <1>1 DEF PricedSlice
<1>2. CASE ~(cost.kind = "reported" \/ InForce(n) = {})
  <2>1. PICK r \in rows : r = Lookup(n) /\ r.name = n
    BY <1>2, LookupFinds
  <2>2. PricedSlice(n, cost) = Cost("estimated", "server", r.authority, r.version, r.rate)
    BY <1>2, <2>1 DEF PricedSlice
  <2>3. /\ PricedSlice(n, cost).source = r.authority /\ PricedSlice(n, cost).version = r.version
        /\ PricedSlice(n, cost).rate = r.rate
    BY <2>2 DEF Cost
  <2> QED
    BY <2>1, <2>3 DEF IsNamed
<1> QED
  BY <1>1, <1>2

\* What a client sends has no estimate of the server.
LEMMA SentIsNamed == ASSUME NEW n, NEW cost \in Sent PROVE IsNamed(rows, n, cost)
<1>1. PICK kind : cost = Cost(kind, "client", "none", 0, "none")
  BY DEF Sent
<1>2. cost.by = "client"
  BY <1>1 DEF Cost
<1> QED
  BY <1>2 DEF IsNamed

LEMMA IngestAudit ==
    ASSUME AuditInv, NEW s \in Sessions, Ingest(s)
    PROVE  SnapshotShape' /\ AllAreNamed'
<1>1. PICK models \in SUBSET Names : \E slices \in [models -> Sent] :
        snapshots' = [snapshots EXCEPT ![s] = [uploads |-> @.uploads + 1, slices |-> Priced(slices)]]
  BY DEF Ingest
<1>2. PICK slices \in [models -> Sent] :
        snapshots' = [snapshots EXCEPT ![s] = [uploads |-> snapshots[s].uploads + 1, slices |-> Priced(slices)]]
  BY <1>1
<1>3. PICK priced : /\ priced = Priced(slices)
                    /\ snapshots' = [snapshots EXCEPT ![s] = [uploads |-> snapshots[s].uploads + 1,
                                                              slices |-> priced]]
  BY <1>2
<1>4. DOMAIN snapshots = Sessions /\ UNCHANGED rows
  BY DEF AuditInv, SnapshotShape, Ingest
<1>5. snapshots' = [t \in Sessions |-> IF t = s THEN [uploads |-> snapshots[s].uploads + 1, slices |-> priced]
                                       ELSE snapshots[t]]
  BY <1>3, <1>4
<1>6. SnapshotShape'
  BY <1>5 DEF AuditInv, SnapshotShape
<1>7. \A n \in DOMAIN priced : IsNamed(rows, n, priced[n])
  <2>1. DOMAIN priced = models /\ \A n \in models : priced[n] = PricedSlice(n, slices[n]) /\ slices[n] \in Sent
    BY <1>2, <1>3 DEF Priced
  <2> QED
    BY <2>1, SentIsNamed, PricedIsNamed
<1>8. ASSUME NEW t \in Sessions, NEW n \in DOMAIN snapshots'[t].slices
      PROVE  IsNamed(rows, n, snapshots'[t].slices[n])
  <2>1. CASE t = s
    <3>1. snapshots'[t].slices = priced
      BY <1>5, <2>1
    <3> QED
      BY <1>7, <1>8, <3>1
  <2>2. CASE t # s
    <3>1. snapshots'[t] = snapshots[t]
      BY <1>5, <2>2
    <3>2. IsNamed(rows, n, snapshots[t].slices[n])
      BY <1>8, <3>1 DEF AuditInv, AllAreNamed
    <3> QED
      BY <3>1, <3>2
  <2> QED
    BY <2>1, <2>2
<1> QED
  BY <1>4, <1>6, <1>8 DEF AllAreNamed

LEMMA RepriceAudit ==
    ASSUME AuditInv, RepriceUnknownHistory
    PROVE  SnapshotShape' /\ AllAreNamed'
<1>1. UNCHANGED rows
  BY DEF RepriceUnknownHistory
<1>2. ASSUME NEW t \in Sessions
      PROVE  /\ snapshots[t] = [uploads |-> snapshots[t].uploads, slices |-> snapshots[t].slices]
             /\ \/ snapshots'[t] = snapshots[t]
                \/ snapshots'[t] = [snapshots[t] EXCEPT !.slices = Priced(snapshots[t].slices)]
  BY DEF RepriceUnknownHistory, AuditInv, SnapshotShape
<1>3. ASSUME NEW t \in Sessions
      PROVE  /\ snapshots'[t] = [uploads |-> snapshots'[t].uploads, slices |-> snapshots'[t].slices]
             /\ snapshots'[t].slices \in {snapshots[t].slices, Priced(snapshots[t].slices)}
  <2>1. PICK u, q, priced : u = snapshots[t].uploads /\ q = snapshots[t].slices /\ priced = Priced(q)
    OBVIOUS
  <2>2. snapshots[t] = [uploads |-> u, slices |-> q]
    BY <1>2, <2>1
  <2>3. snapshots'[t] = [uploads |-> u, slices |-> q] \/ snapshots'[t] = [uploads |-> u, slices |-> priced]
    BY <1>2, <2>1, <2>2
  <2> QED
    BY <2>1, <2>3
<1>4. SnapshotShape'
  <2>1. DOMAIN snapshots' = Sessions /\ snapshots' = [t \in Sessions |-> snapshots'[t]]
    BY DEF RepriceUnknownHistory
  <2> QED
    BY <1>3, <2>1 DEF SnapshotShape
<1>5. ASSUME NEW t \in Sessions, NEW n \in DOMAIN snapshots'[t].slices
      PROVE  IsNamed(rows, n, snapshots'[t].slices[n])
  <2>1. PICK q : q = snapshots[t].slices
    OBVIOUS
  <2>2. \A m \in DOMAIN q : IsNamed(rows, m, q[m])
    BY <2>1 DEF AuditInv, AllAreNamed
  <2>3. CASE snapshots'[t].slices = q
    BY <1>5, <2>2, <2>3
  <2>4. CASE snapshots'[t].slices = Priced(q)
    <3>1. n \in DOMAIN q /\ Priced(q)[n] = PricedSlice(n, q[n])
      BY <1>5, <2>4 DEF Priced
    <3> QED
      BY <2>2, <2>4, <3>1, PricedIsNamed
  <2> QED
    BY <1>3, <2>1, <2>3, <2>4
<1> QED
  BY <1>1, <1>4, <1>5 DEF AllAreNamed

LEMMA StartImportAudit == ASSUME AuditInv, StartImport PROVE AuditInv'
<1>1. PICK closed : closed = {r.id : r \in {x \in rows : x.open /\ x.scope = "default"
                                              /\ x.authority \in Imported /\ x.version # file}}
  OBVIOUS
<1>2. rows' = Close(closed) /\ UNCHANGED snapshots
  BY <1>1 DEF StartImport, CloseStale
<1>3. \A r \in rows : r.id \in closed => r.authority \in Imported
  BY <1>1 DEF AuditInv, CatalogueInv, TableInv, KeysAreUnique
<1>4. rows \subseteq Row /\ \A r \in rows : IsSound(r)
  BY DEF AuditInv, CatalogueInv, TableInv
<1>5. (\A r \in rows' : IsSound(r)) /\ RowsStay
  BY <1>2, <1>3, <1>4, SoundCloses DEF RowsStay
<1>6. SnapshotShape' /\ AllAreNamed'
  BY <1>2, <1>5, StayNamed DEF AuditInv
<1>7. ImportIsUnderWay'
  <2>1. PICK left : left = ToImport(file)
    OBVIOUS
  <2>2. left \in Seq(Entry)
    BY <2>1, OffersAreLeft DEF AuditInv, CatalogueInv
  <2>3. server' = [phase |-> "importing", version |-> file, left |-> left]
    BY <2>1 DEF StartImport, ToImport
  <2>4. server'.version = file /\ server'.left = left
    BY <2>3
  <2>5. /\ DOMAIN ToImport(server'.version) = 1..(0 + Len(server'.left))
        /\ \A k \in DOMAIN server'.left : server'.left[k] = ToImport(server'.version)[0 + k]
    BY <2>1, <2>2, <2>4
  <2>6. \A j \in 1..0 : FALSE
    OBVIOUS
  <2> QED
    BY <2>5, <2>6 DEF ImportIsUnderWay
<1> QED
  BY <1>5, <1>6, <1>7, StartImportStep DEF AuditInv

\* The row set next is the first of its catalogue for its name and authority:
\* one before it would be in force.
LEMMA InsertCatalogPriceAudit == ASSUME AuditInv, InsertCatalogPrice PROVE AuditInv'
<1>1. /\ server \in Starting /\ server.phase = "importing" /\ server.left # <<>> /\ server.version \in Nat
      /\ server.left \in Seq(Entry)
  BY DEF InsertCatalogPrice, AuditInv, CatalogueInv, Starting
<1>2. PICK entry \in Entry : entry = Head(server.left) /\ entry = server.left[1]
  BY <1>1
<1>3. PICK m \in Nat : Len(server.left) = m + 1 /\ DOMAIN server.left = 1..(m + 1)
  <2>1. Len(server.left) \in Nat \ {0} /\ DOMAIN server.left = 1..Len(server.left)
    BY <1>1
  <2>2. Len(server.left) - 1 \in Nat /\ Len(server.left) = (Len(server.left) - 1) + 1
    BY <2>1
  <2> QED
    BY <2>1, <2>2
<1>4. PICK rest \in Seq(Entry) : /\ rest = Tail(server.left) /\ Len(rest) = m /\ DOMAIN rest = 1..m
                                 /\ \A k \in 1..m : rest[k] = server.left[k + 1]
  <2>1. Tail(server.left) \in Seq(Entry) /\ Len(Tail(server.left)) = m
    BY <1>1, <1>3
  <2>2. DOMAIN Tail(server.left) = 1..m
    BY <2>1
  <2>3. \A k \in 1..m : Tail(server.left)[k] = server.left[k + 1]
    BY <1>1, <1>3
  <2> QED
    BY <2>1, <2>2, <2>3
<1>5. /\ server'.phase = "importing" /\ server'.left = rest /\ server'.version = server.version
      /\ UNCHANGED snapshots
  BY <1>1, <1>4 DEF InsertCatalogPrice, Starting
<1>6. CatalogueInv'
  BY InsertCatalogPriceCurrent DEF AuditInv
<1>7. PICK all : all = ToImport(server.version)
  OBVIOUS
<1>8. PICK done \in Nat :
        /\ DOMAIN all = 1..(done + Len(server.left))
        /\ \A k \in DOMAIN server.left : server.left[k] = all[done + k]
        /\ \A j \in 1..done : all[j].authority \in Imported => Current(all[j].name, all[j].authority)
  BY <1>1, <1>7 DEF AuditInv, ImportIsUnderWay
<1>9. done + 1 \in DOMAIN all /\ all[done + 1] = entry
  <2>1. 1 \in 1..(m + 1) /\ done + 1 \in 1..(done + (m + 1))
    OBVIOUS
  <2> QED
    BY <1>2, <1>3, <1>8, <2>1
<1>10. /\ \A r \in rows' : IsSound(r)
       /\ RowsStay
       /\ \A n, authority : Current(n, authority) => Current(n, authority)'
       /\ entry.authority \in Imported => Current(entry.name, entry.authority)'
  <2>1. CASE Clashes("default", entry.name, entry.authority) # {}
    <3>1. UNCHANGED rows
      BY <1>2, <2>1 DEF InsertCatalogPrice
    <3>2. \A n, authority : Current(n, authority) => Current(n, authority)'
      BY <1>5, <3>1 DEF Current
    <3>3. entry.authority \in Imported => Current(entry.name, entry.authority)
      BY <1>1, <2>1 DEF Clashes, OpenOf, Current, AuditInv, CatalogueInv
    <3> QED
      BY <3>1, <3>2, <3>3 DEF AuditInv, RowsStay
  <2>2. CASE Clashes("default", entry.name, entry.authority) = {}
    <3>1. PICK x : x = [id |-> inserted + 1, scope |-> "default", name |-> entry.name,
                        authority |-> entry.authority, rate |-> entry.rate,
                        version |-> server.version, open |-> TRUE, knew |-> {}]
      OBVIOUS
    <3>2. rows' = rows \cup {x}
      BY <1>2, <2>2, <3>1 DEF InsertCatalogPrice
    <3>3. /\ x.scope = "default" /\ x.name = entry.name /\ x.authority = entry.authority
          /\ x.rate = entry.rate /\ x.version = server.version /\ x.open
      BY <3>1
    <3>4. ~Current(entry.name, entry.authority)
      BY <2>2 DEF Current, Clashes, OpenOf
    <3>5. entry.authority \in Imported => \A j \in 1..done :
            ~(all[j].name = entry.name /\ all[j].authority = entry.authority)
      BY <1>8, <3>4
    <3>6. entry.authority \in Imported =>
            ListsFirst(server.version, entry.name, entry.authority, entry.rate)
      <4>1. (done + 1) - 1 = done /\ done + 1 \in Nat \ {0}
        OBVIOUS
      <4> QED
        BY <1>7, <1>9, <3>5, <4>1 DEF ListsFirst
    <3>7. IsSound(x)
      BY <1>1, <3>3, <3>6 DEF IsSound
    <3>8. \A n, authority : Current(n, authority) => Current(n, authority)'
      BY <1>5, <3>2 DEF Current
    <3>9. Current(entry.name, entry.authority)'
      BY <1>5, <3>2, <3>3 DEF Current
    <3> QED
      BY <3>2, <3>7, <3>8, <3>9 DEF AuditInv, RowsStay
  <2> QED
    BY <2>1, <2>2
<1>11. ImportIsUnderWay'
  <2>1. DOMAIN all = 1..((done + 1) + Len(rest))
    <3>1. done + (m + 1) = (done + 1) + m
      OBVIOUS
    <3> QED
      BY <1>3, <1>4, <1>8, <3>1
  <2>2. ASSUME NEW k \in DOMAIN rest PROVE rest[k] = all[(done + 1) + k]
    <3>1. k \in 1..m /\ k + 1 \in 1..(m + 1) /\ done + (k + 1) = (done + 1) + k
      BY <1>4
    <3>2. rest[k] = server.left[k + 1] /\ server.left[k + 1] = all[done + (k + 1)]
      BY <1>3, <1>4, <1>8, <3>1
    <3> QED
      BY <3>1, <3>2
  <2>3. ASSUME NEW j \in 1..(done + 1), all[j].authority \in Imported
        PROVE  Current(all[j].name, all[j].authority)'
    <3>1. CASE j \in 1..done
      <4>1. Current(all[j].name, all[j].authority)
        BY <1>8, <2>3, <3>1
      <4> QED
        BY <1>10, <4>1
    <3>2. CASE j = done + 1
      <4>1. all[j] = entry
        BY <1>9, <3>2
      <4> QED
        BY <1>10, <2>3, <4>1
    <3> QED
      BY <3>1, <3>2
  <2>4. done + 1 \in Nat
    OBVIOUS
  <2> QED
    BY <1>5, <1>7, <2>1, <2>2, <2>3, <2>4 DEF ImportIsUnderWay
<1> QED
  BY <1>5, <1>6, <1>10, <1>11, StayNamed DEF AuditInv

LEMMA PriceRequestAudit == ASSUME AuditInv, CatalogueInv', NEW a \in Admins, PriceRequest(a) PROVE AuditInv'
<1>1. UNCHANGED <<server, snapshots>>
  BY DEF PriceRequest, CreatePrice, UpdatePrice, FindOpen, CloseOpen, InsertOrgPrice, CommitPrice,
    AbortPrice, DeletePrice
<1>2. TableInv /\ rows \subseteq Row /\ (\A r \in rows : IsSound(r)) /\ PricingInv'
  BY DEF AuditInv, CatalogueInv, TableInv
<1>3. DefaultsStay
  BY <1>2, PriceRequestTable
<1>4. (\A r \in rows' : IsSound(r)) /\ RowsStay
  <2>1. CASE UNCHANGED rows
    BY <1>2, <2>1 DEF RowsStay
  <2>2. CASE CommitPrice(a)
    <3>1. PICK x : x = [id |-> inserted + 1, scope |-> "organization", name |-> requests[a].name,
                        authority |-> requests[a].authority, rate |-> requests[a].rate,
                        version |-> -(inserted + 1), open |-> TRUE, knew |-> requests[a].knew]
      OBVIOUS
    <3>2. PICK closed : closed = requests[a].closed
      OBVIOUS
    <3>3. rows' = Close(closed) \cup {x}
      BY <2>2, <3>1, <3>2 DEF CommitPrice
    <3>4. IsSound(x)
      BY <3>1 DEF IsSound
    <3>5. \A r \in rows : r.id \in closed => r.scope = "organization"
      BY <1>2, <3>2 DEF TableInv, ClosesOwn
    <3> QED
      BY <1>2, <3>3, <3>4, <3>5, SoundCloses DEF RowsStay
  <2>3. CASE DeletePrice(a)
    <3>1. PICK r \in rows : r.scope = "organization" /\ rows' = Close({r.id})
      BY <2>3 DEF DeletePrice
    <3>2. \A s \in rows : s.id \in {r.id} => s.scope = "organization"
      BY <1>2, <3>1 DEF TableInv, KeysAreUnique
    <3> QED
      BY <1>2, <3>1, <3>2, SoundCloses DEF RowsStay
  <2> QED
    BY <2>1, <2>2, <2>3
    DEF PriceRequest, CreatePrice, UpdatePrice, FindOpen, CloseOpen, InsertOrgPrice, AbortPrice
<1> QED
  BY <1>1, <1>3, <1>4, ImportStays, StayNamed DEF AuditInv

LEMMA AuditInitInv == PricingInit => AuditInv
<1> SUFFICES ASSUME PricingInit PROVE AuditInv
  OBVIOUS
<1>1. rows = {} /\ server.phase = "down"
  BY DEF PricingInit
<1>2. snapshots = [s \in Sessions |-> [uploads |-> 0, slices |-> <<>>]]
  BY DEF PricingInit
<1>3. SnapshotShape
  BY <1>2 DEF SnapshotShape
<1>4. ASSUME NEW s \in Sessions PROVE DOMAIN snapshots[s].slices = {}
  <2>1. snapshots[s].slices = <<>> /\ DOMAIN <<>> = {}
    BY <1>2
  <2> QED
    BY <2>1
<1> QED
  BY <1>1, <1>3, <1>4, CatalogueInitInv DEF AuditInv, ImportIsUnderWay, AllAreNamed

LEMMA AuditNextInv == AuditInv /\ [PricingNext]_priceVars => AuditInv'
<1> SUFFICES ASSUME AuditInv, [PricingNext]_priceVars PROVE AuditInv'
  OBVIOUS
<1>1. CatalogueInv'
  BY CatalogueNextInv DEF AuditInv
<1>2. UNCHANGED rows => (\A r \in rows' : IsSound(r)) /\ RowsStay /\ DefaultsStay
  BY DEF AuditInv, RowsStay, DefaultsStay
<1>3. server'.phase # "importing" => ImportIsUnderWay'
  BY DEF ImportIsUnderWay
<1>4. CASE UNCHANGED priceVars
  BY <1>1, <1>2, <1>4, ImportStays, StayNamed DEF AuditInv, priceVars
<1>5. CASE FinishImport \/ Stop \/ ReplaceFile
  <2>1. UNCHANGED <<rows, snapshots>> /\ server \in Starting
    BY <1>5 DEF FinishImport, Stop, ReplaceFile, AuditInv, CatalogueInv
  <2>2. server'.phase # "importing"
    BY <1>5, <2>1 DEF FinishImport, Stop, ReplaceFile, Starting
  <2> QED
    BY <1>1, <1>2, <1>3, <2>1, <2>2, StayNamed DEF AuditInv
<1>6. CASE RepriceUnknownHistory
  <2>1. UNCHANGED rows /\ server'.phase # "importing"
    BY <1>6 DEF RepriceUnknownHistory, AuditInv, CatalogueInv, Starting
  <2> QED
    BY <1>1, <1>2, <1>3, <1>6, <2>1, RepriceAudit DEF AuditInv
<1>7. ASSUME NEW s \in Sessions, Ingest(s) PROVE AuditInv'
  <2>1. UNCHANGED <<rows, server>>
    BY <1>7 DEF Ingest
  <2> QED
    BY <1>1, <1>2, <1>7, <2>1, ImportStays, IngestAudit DEF AuditInv
<1> QED
  BY <1>1, <1>4, <1>5, <1>6, <1>7, StartImportAudit, InsertCatalogPriceAudit, PriceRequestAudit
  DEF PricingNext, ServerStep

\* What an estimate of the server records names a price of its model that is
\* in the table, and prices of one rate only: for any catalogues, with any
\* number of administrators who replace and delete prices, and of starts that
\* import other versions, stop, and price stored snapshots again.
THEOREM EstimatesCanBeAuditedSafe == PricingSpec => []EstimatesCanBeAudited
<1>1. AuditInv => EstimatesCanBeAudited
  <2> SUFFICES ASSUME AuditInv, NEW s \in Sessions, NEW n \in DOMAIN snapshots[s].slices, NEW cost,
                      cost = snapshots[s].slices[n], cost.kind = "estimated", cost.by = "server"
               PROVE  LET named == {r \in rows : r.name = n /\ r.authority = cost.source
                                                   /\ r.version = cost.version}
                      IN  named # {} /\ \A r \in named : r.rate = cost.rate
    BY DEF EstimatesCanBeAudited
  <2>1. PICK r \in rows : /\ r.name = n /\ r.authority = cost.source /\ r.version = cost.version
                          /\ r.rate = cost.rate
    BY DEF AuditInv, AllAreNamed, IsNamed
  <2>2. \A q \in rows : q.name = n /\ q.authority = cost.source /\ q.version = cost.version =>
          q.rate = cost.rate
    BY <2>1, OnePrice DEF AuditInv
  <2> QED
    BY <2>1, <2>2
<1> QED
  BY <1>1, AuditInitInv, AuditNextInv, PTL DEF PricingSpec

=============================================================================
