--------------------------- MODULE ClassifierProofs ---------------------------
(***************************************************************************)
(* Proofs about classification: how a client comes by its classifier       *)
(* (Provisioning), how a call gets its answers (Provider) and how a scan   *)
(* settles the turns of a session (Classification).                        *)
(***************************************************************************)
EXTENDS Classification, Provider, Provisioning, FiniteSetTheorems, SequenceTheorems,
        WellFoundedInduction, TLAPS

-----------------------------------------------------------------------------
(* Provisioning                                                            *)

Rotators == {a \in Admins : rotating[a].id # NoId}

\* Versions grow with the rotations, and a rotation that has begun may end.
VersionsInOrder ==
    /\ \A r \in rows : r.version <= rotations
    /\ \A a \in Rotators : rotating[a].version \in 1..(rotations + 1)
    /\ rotations + Cardinality(Rotators) <= MaxRotations

\* A row of a credential with this version and this secret.
Row(id, version, secret) == \E r \in rows : r.id = id /\ r.version = version /\ r.secret = secret

\* Version and secret of an answer are those of a row of the credential that
\* its settings name.
AnswerOfRow ==
    \A p \in Procs : procs[p].phase \in {"credential", "answer", "stored"} /\ procs[p].version # 0 =>
      /\ procs[p].settings.mode = "local"
      /\ procs[p].secret # 0 /\ Row(procs[p].settings.id, procs[p].version, procs[p].secret)

\* Between storing the secret and saving the profile nobody else stores one.
StoredIsHeld ==
    OneProcess /\ crashes = 0 =>
      \A p \in Procs : procs[p].phase = "stored" /\ procs[p].version # 0 =>
        store[procs[p].settings.id] = procs[p].secret

ProvisioningInv ==
    /\ ProvisioningTypeOK /\ VersionsInOrder /\ VersionNamesOneSecret
    /\ AnswerOfRow /\ StoredIsHeld /\ HeldAsProfiled

LEMMA ProvisioningShapes ==
    /\ Idle \in Proc /\ Idle.phase = "idle" /\ Idle.version = 0
    /\ NoProfile \in Profiles /\ NoProfile.version = 0
    /\ 0 \in Secrets /\ DeployedKey \in Secrets /\ 1..MaxRotations \subseteq Secrets /\ DeployedKey # 0
<1>1. 0 \in Secrets /\ DeployedKey \in Secrets /\ 1..MaxRotations \subseteq Secrets /\ DeployedKey # 0
  BY ProvisioningAssumption DEF Secrets, DeployedKey
<1>2. 0 \in 0..MaxRotations /\ 0 \in 0..MaxChanges
  BY ProvisioningAssumption
<1>3. Idle \in Proc /\ Idle.phase = "idle" /\ Idle.version = 0
  BY <1>1, <1>2, ProvisioningAssumption DEF Idle, Proc
<1>4. NoProfile \in Profiles /\ NoProfile.version = 0
  BY <1>2 DEF NoProfile, Profiles, Modes
<1> QED
  BY <1>1, <1>3, <1>4

LEMMA ProvisioningInitInv == ProvisioningInit => ProvisioningInv
<1> SUFFICES ASSUME ProvisioningInit PROVE ProvisioningInv
  OBVIOUS
<1>1. /\ 0 \in 0..MaxRotations /\ 0 \in 0..MaxChanges /\ 0 \in 0..MaxUses /\ 0 \in 0..MaxDrops /\ 0 \in 0..MaxCrashes
      /\ 0 <= MaxRotations
  BY ProvisioningAssumption
<1>2. procs \in [Procs -> Proc] /\ \A p \in Procs : procs[p].phase = "idle" /\ procs[p].version = 0
  BY ProvisioningShapes DEF ProvisioningInit
<1>3. rotating \in [Admins -> Versioned] /\ recorded \in Versioned /\ \A a \in Admins : rotating[a].id = NoId
  BY <1>1 DEF ProvisioningInit, Versioned
<1>4. store \in [Ids \cup {OwnId} -> Secrets]
  BY ProvisioningShapes DEF ProvisioningInit
<1>5. profile \in Profiles /\ profile.version = 0
  BY ProvisioningShapes DEF ProvisioningInit
<1>6. settings \in Settings
  BY ProvisioningAssumption DEF ProvisioningInit
<1>7. ProvisioningTypeOK
  BY <1>1, <1>2, <1>3, <1>4, <1>5, <1>6 DEF ProvisioningInit, ProvisioningTypeOK
<1>8. Rotators = {} /\ Cardinality(Rotators) = 0
  BY <1>3, FS_EmptySet DEF Rotators
<1>9. VersionsInOrder
  BY <1>1, <1>8 DEF ProvisioningInit, VersionsInOrder
<1> QED
  BY <1>2, <1>5, <1>7, <1>9
  DEF ProvisioningInit, ProvisioningInv, VersionNamesOneSecret, AnswerOfRow, StoredIsHeld, HeldAsProfiled

\* The tables change and the client does not: rows may only change state.
LEMMA ServerStepInv ==
    ASSUME ProvisioningInv, UNCHANGED <<recorded, profile, store, procs, uses, drops, crashes>>,
           ProvisioningTypeOK', VersionsInOrder', VersionNamesOneSecret',
           \A r \in rows : \E s \in rows' : s.id = r.id /\ s.version = r.version /\ s.secret = r.secret
    PROVE  ProvisioningInv'
<1>1. AnswerOfRow'
  <2> SUFFICES ASSUME NEW p \in Procs, procs[p].phase \in {"credential", "answer", "stored"}, procs[p].version # 0
               PROVE  /\ procs[p].settings.mode = "local" /\ procs[p].secret # 0
                      /\ \E s \in rows' : /\ s.id = procs[p].settings.id /\ s.version = procs[p].version
                                          /\ s.secret = procs[p].secret
    BY DEF AnswerOfRow, Row
  <2>1. /\ procs[p].settings.mode = "local" /\ procs[p].secret # 0
        /\ \E r \in rows : /\ r.id = procs[p].settings.id /\ r.version = procs[p].version
                           /\ r.secret = procs[p].secret
    BY DEF ProvisioningInv, AnswerOfRow, Row
  <2> QED
    BY <2>1
<1>2. StoredIsHeld'
  BY DEF ProvisioningInv, StoredIsHeld
<1>3. HeldAsProfiled'
  BY DEF ProvisioningInv, HeldAsProfiled
<1> QED
  BY <1>1, <1>2, <1>3 DEF ProvisioningInv

\* One process of the client goes on, and the tables stay.
LEMMA ProcStep ==
    ASSUME ProvisioningInv, NEW p \in Procs, NEW x \in Proc, procs' = [procs EXCEPT ![p] = x],
           UNCHANGED <<settings, rows, rotating, rotations, changes>>,
           recorded' \in Versioned, profile' \in Profiles, store' \in [Ids \cup {OwnId} -> Secrets],
           uses' \in 0..MaxUses, drops' \in 0..MaxDrops, crashes' \in 0..MaxCrashes,
           x.phase \in {"credential", "answer", "stored"} /\ x.version # 0 =>
             /\ x.settings.mode = "local" /\ x.secret # 0
             /\ \E r \in rows : r.id = x.settings.id /\ r.version = x.version /\ r.secret = x.secret,
           OneProcess /\ crashes' = 0 /\ x.phase = "stored" /\ x.version # 0 => store'[x.settings.id] = x.secret,
           OneProcess /\ crashes' = 0 /\ x.phase # "stored" /\ profile'.version # 0 =>
             \E r \in rows : r.id = profile'.id /\ r.version = profile'.version /\ r.secret = store'[profile'.id]
    PROVE  ProvisioningInv'
<1>1. /\ procs' \in [Procs -> Proc] /\ procs'[p] = x
      /\ \A q \in Procs \ {p} : procs'[q] = procs[q]
  BY DEF ProvisioningInv, ProvisioningTypeOK
<1>2. ProvisioningTypeOK'
  BY <1>1 DEF ProvisioningInv, ProvisioningTypeOK
<1>3. VersionsInOrder' /\ VersionNamesOneSecret'
  BY DEF ProvisioningInv, VersionsInOrder, Rotators, VersionNamesOneSecret
<1>4. AnswerOfRow'
  BY <1>1 DEF ProvisioningInv, AnswerOfRow, Row
<1>5. StoredIsHeld'
  <2> SUFFICES ASSUME OneProcess, crashes' = 0, NEW q \in Procs, procs'[q].phase = "stored", procs'[q].version # 0
               PROVE  store'[procs'[q].settings.id] = procs'[q].secret
    BY DEF StoredIsHeld, OneProcess
  <2>1. q = p
    BY DEF OneProcess
  <2> QED
    BY <1>1, <2>1
<1>6. HeldAsProfiled'
  <2> SUFFICES ASSUME OneProcess, crashes' = 0, \A q \in Procs : procs'[q].phase # "stored", profile'.version # 0
               PROVE  \E r \in rows' : /\ r.id = profile'.id /\ r.version = profile'.version
                                       /\ r.secret = store'[profile'.id]
    BY DEF HeldAsProfiled, OneProcess
  <2>1. x.phase # "stored"
    BY <1>1
  <2> QED
    BY <2>1
<1> QED
  BY <1>2, <1>3, <1>4, <1>5, <1>6 DEF ProvisioningInv

\* What the one process that is not storing can rely on.
LEMMA ProfileIsHeld ==
    ASSUME ProvisioningInv, NEW p \in Procs, procs[p].phase # "stored", OneProcess, crashes = 0, profile.version # 0
    PROVE  \E r \in rows : r.id = profile.id /\ r.version = profile.version /\ r.secret = store[profile.id]
<1>1. \A q \in Procs : procs[q].phase # "stored"
  BY DEF OneProcess
<1> QED
  BY <1>1 DEF ProvisioningInv, HeldAsProfiled

\* A set of naturals has a least element, and one that is bounded a greatest.
LEMMA LeastElement ==
    ASSUME NEW T \in SUBSET Nat, T # {}
    PROVE  \E n \in T : \A m \in T : n <= m
<1>1. PICK R : R = OpToRel(<, Nat)
  OBVIOUS
<1>2. IsWellFoundedOn(R, Nat)
  BY <1>1, NatLessThanWellFounded
<1>3. PICK n \in T : \A y \in T : ~(<<y, n>> \in R)
  BY <1>2, WFMin
<1>4. \A x, y \in Nat : <<y, x>> \in R <=> y < x
  BY <1>1 DEF OpToRel
<1>5. ASSUME NEW m \in T PROVE n <= m
  <2>1. ~(m < n) /\ m \in Nat /\ n \in Nat
    BY <1>3, <1>4
  <2> QED
    BY <2>1
<1> QED
  BY <1>3, <1>5

LEMMA GreatestVersion ==
    ASSUME NEW k \in Nat, NEW T \in SUBSET (1..k), T # {}
    PROVE  \E v \in T : \A w \in T : w <= v
<1> DEFINE U == {k - v : v \in T}
<1>1. U \in SUBSET Nat /\ U # {}
  OBVIOUS
<1>2. PICK n \in U : \A m \in U : n <= m
  <2> HIDE DEF U
  <2> QED
    BY <1>1, LeastElement
<1>3. PICK v \in T : n = k - v
  OBVIOUS
<1>4. ASSUME NEW w \in T PROVE w <= v
  <2>1. k - v <= k - w
    BY <1>2, <1>3
  <2>2. v \in 1..k /\ w \in 1..k
    OBVIOUS
  <2> QED
    BY <2>1, <2>2
<1> QED
  BY <1>4

LEMMA UpdateSettingsStep ==
    ASSUME ProvisioningInv, UpdateSettings
    PROVE  ProvisioningInv'
<1>1. UNCHANGED <<rows, rotating, rotations, recorded, profile, store, procs, uses, drops, crashes>>
  BY DEF UpdateSettings, client
<1>2. changes' \in 0..MaxChanges
  BY ProvisioningAssumption DEF UpdateSettings, ProvisioningInv, ProvisioningTypeOK
<1>3. settings' \in Settings
  <2>1. CASE \E m \in Modes, k \in BOOLEAN, i \in Ids \cup {NoId} :
               settings' = [version |-> changes', enabled |-> TRUE, mode |-> m, needsKey |-> k, id |-> i]
    BY <1>2, <2>1 DEF Settings
  <2>2. CASE settings' = [version |-> changes', enabled |-> FALSE, mode |-> "local", needsKey |-> FALSE, id |-> NoId]
    BY <1>2, <2>2 DEF Settings, Modes
  <2> QED
    BY <2>1, <2>2 DEF UpdateSettings
<1>4. ProvisioningTypeOK'
  BY <1>1, <1>2, <1>3 DEF ProvisioningInv, ProvisioningTypeOK
<1>5. VersionsInOrder' /\ VersionNamesOneSecret'
  BY <1>1 DEF ProvisioningInv, VersionsInOrder, Rotators, VersionNamesOneSecret
<1> QED
  BY <1>1, <1>4, <1>5, ServerStepInv

LEMMA RevokeStep ==
    ASSUME ProvisioningInv, Revoke
    PROVE  ProvisioningInv'
<1>1. UNCHANGED <<settings, rotating, rotations, changes, recorded, profile, store, procs, uses, drops, crashes>>
  BY DEF Revoke, client
<1>2. PICK i \in Ids : rows' = {IF r.id = i THEN [r EXCEPT !.state = "revoked"] ELSE r : r \in rows}
  BY DEF Revoke
<1>3. rows \subseteq Rows
  BY DEF ProvisioningInv, ProvisioningTypeOK
<1>4. ASSUME NEW r \in rows
      PROVE  \E s \in rows' : /\ s \in Rows /\ s.id = r.id /\ s.version = r.version /\ s.secret = r.secret
                              /\ s = IF r.id = i THEN [r EXCEPT !.state = "revoked"] ELSE r
                              /\ s.state = "active" => r.state = "active"
  <2>1. PICK s : s = IF r.id = i THEN [r EXCEPT !.state = "revoked"] ELSE r
    OBVIOUS
  <2>2. s \in rows'
    BY <1>2, <2>1
  <2>3. r \in Rows
    BY <1>3
  <2>4. CASE r.id = i
    BY <2>1, <2>2, <2>3, <2>4 DEF Rows
  <2>5. CASE r.id # i
    BY <2>1, <2>2, <2>3, <2>5
  <2> QED
    BY <2>4, <2>5
<1>5. ASSUME NEW s \in rows'
      PROVE  \E r \in rows : /\ s \in Rows /\ s.id = r.id /\ s.version = r.version /\ s.secret = r.secret
                             /\ s = IF r.id = i THEN [r EXCEPT !.state = "revoked"] ELSE r
                             /\ s.state = "active" => r.state = "active"
  <2>1. PICK r \in rows : s = IF r.id = i THEN [r EXCEPT !.state = "revoked"] ELSE r
    BY <1>2
  <2> QED
    BY <1>4, <2>1
<1>6. ProvisioningTypeOK'
  BY <1>1, <1>5 DEF ProvisioningInv, ProvisioningTypeOK
<1>7. VersionsInOrder'
  BY <1>1, <1>5 DEF ProvisioningInv, VersionsInOrder, Rotators
<1>8. VersionNamesOneSecret'
  <2> SUFFICES ASSUME NEW s \in rows', NEW t \in rows', s.id = t.id, s # t
               PROVE  s.version # t.version /\ ~(s.state = "active" /\ t.state = "active")
    BY DEF VersionNamesOneSecret
  <2>1. PICK r \in rows : /\ s.id = r.id /\ s.version = r.version
                          /\ s = IF r.id = i THEN [r EXCEPT !.state = "revoked"] ELSE r
                          /\ s.state = "active" => r.state = "active"
    BY <1>5
  <2>2. PICK q \in rows : /\ t.id = q.id /\ t.version = q.version
                          /\ t = IF q.id = i THEN [q EXCEPT !.state = "revoked"] ELSE q
                          /\ t.state = "active" => q.state = "active"
    BY <1>5
  <2>3. r # q
    BY <2>1, <2>2
  <2> QED
    BY <2>1, <2>2, <2>3 DEF ProvisioningInv, VersionNamesOneSecret
<1>9. \A r \in rows : \E s \in rows' : s.id = r.id /\ s.version = r.version /\ s.secret = r.secret
  BY <1>4
<1> QED
  BY <1>1, <1>6, <1>7, <1>8, <1>9, ServerStepInv

\* SELECT of the newest version: there are as many rotations at least.
LEMMA BeginRotationStep ==
    ASSUME ProvisioningInv, NEW a \in Admins, BeginRotation(a)
    PROVE  ProvisioningInv'
<1>1. /\ UNCHANGED <<settings, rows, rotations, changes, recorded, profile, store, procs, uses, drops, crashes>>
      /\ rotating[a].id = NoId /\ rotations + Cardinality(Rotators) < MaxRotations
  BY DEF BeginRotation, client, Rotators
<1>2. PICK i \in Ids : rotating' = [rotating EXCEPT ![a] = [id |-> i, version |->
        (IF VersionsOf(i) = {} THEN 0 ELSE CHOOSE v \in VersionsOf(i) : \A w \in VersionsOf(i) : w <= v) + 1]]
  BY DEF BeginRotation
<1>3. PICK newest : newest = IF VersionsOf(i) = {} THEN 0
                             ELSE CHOOSE v \in VersionsOf(i) : \A w \in VersionsOf(i) : w <= v
  OBVIOUS
<1>4. rotations \in 0..MaxRotations /\ rows \subseteq Rows /\ rotating \in [Admins -> Versioned]
  BY DEF ProvisioningInv, ProvisioningTypeOK
<1>5. VersionsOf(i) \subseteq 1..rotations
  <2> SUFFICES ASSUME NEW r \in rows PROVE r.version \in 1..rotations
    BY DEF VersionsOf
  <2>1. r.version \in 1..MaxRotations
    BY <1>4 DEF Rows
  <2>2. r.version <= rotations
    BY DEF ProvisioningInv, VersionsInOrder
  <2> QED
    BY <1>4, <2>1, <2>2
<1>6. newest \in 0..rotations
  <2>1. CASE VersionsOf(i) = {}
    BY <1>3, <1>4, <2>1
  <2>2. CASE VersionsOf(i) # {}
    <3>1. \E v \in VersionsOf(i) : \A w \in VersionsOf(i) : w <= v
      <4>1. rotations \in Nat /\ VersionsOf(i) \in SUBSET (1..rotations)
        BY <1>4, <1>5
      <4> QED
        BY <2>2, <4>1, GreatestVersion
    <3>2. newest \in VersionsOf(i)
      BY <1>3, <2>2, <3>1
    <3> QED
      BY <1>4, <1>5, <3>2
  <2> QED
    BY <2>1, <2>2
<1>7. Rotators' = Rotators \cup {a} /\ a \notin Rotators /\ IsFiniteSet(Rotators)
  <2>1. rotating'[a].id = i /\ \A b \in Admins \ {a} : rotating'[b] = rotating[b]
    BY <1>2, <1>4
  <2>2. Rotators' = Rotators \cup {a} /\ a \notin Rotators
    BY <1>1, <2>1, ProvisioningAssumption DEF Rotators
  <2>3. Rotators \in SUBSET Admins
    BY DEF Rotators
  <2> QED
    BY <2>2, <2>3, FS_Subset, ProvisioningAssumption
<1>8. Cardinality(Rotators') = Cardinality(Rotators) + 1 /\ Cardinality(Rotators) \in Nat
  BY <1>7, FS_AddElement, FS_CardinalityType
<1>9. /\ newest + 1 \in 1..(rotations + 1) /\ newest + 1 \in 0..MaxRotations
      /\ rotations + Cardinality(Rotators') <= MaxRotations
  BY <1>1, <1>4, <1>6, <1>8, ProvisioningAssumption
<1>10. PICK x \in Versioned : x.id = i /\ x.version = newest + 1 /\ rotating' = [rotating EXCEPT ![a] = x]
  <2>1. rotating' = [rotating EXCEPT ![a] = [id |-> i, version |-> newest + 1]]
    BY <1>2, <1>3
  <2>2. [id |-> i, version |-> newest + 1] \in Versioned
    BY <1>9 DEF Versioned
  <2> QED
    BY <2>1, <2>2
<1>11. /\ rotating' \in [Admins -> Versioned] /\ rotating'[a] = x
       /\ \A b \in Admins \ {a} : rotating'[b] = rotating[b]
  BY <1>4, <1>10
<1>12. ProvisioningTypeOK'
  BY <1>1, <1>11 DEF ProvisioningInv, ProvisioningTypeOK
<1>13. VersionsInOrder'
  <2>1. ASSUME NEW b \in Rotators' PROVE rotating'[b].version \in 1..(rotations + 1)
    <3>1. CASE b = a
      BY <1>9, <1>10, <1>11, <3>1
    <3>2. CASE b # a
      BY <1>7, <1>11, <3>2 DEF ProvisioningInv, VersionsInOrder, Rotators
    <3> QED
      BY <3>1, <3>2
  <2> QED
    BY <1>1, <1>9, <2>1 DEF ProvisioningInv, VersionsInOrder
<1>14. VersionNamesOneSecret'
  BY <1>1 DEF ProvisioningInv, VersionNamesOneSecret
<1> QED
  BY <1>1, <1>12, <1>13, <1>14, ServerStepInv

\* What a commit leaves of the rotations under way.
LEMMA EndsRotation ==
    ASSUME ProvisioningInv, NEW a \in Admins, CommitRotation(a)
    PROVE  /\ rotating' \in [Admins -> Versioned] /\ \A b \in Admins \ {a} : rotating'[b] = rotating[b]
           /\ Rotators' = Rotators \ {a} /\ a \in Rotators
           /\ Cardinality(Rotators') = Cardinality(Rotators) - 1 /\ Cardinality(Rotators') \in Nat /\ Cardinality(Rotators) \in Nat
<1>1. rotating \in [Admins -> Versioned] /\ rotating[a] \in Versioned
  BY DEF ProvisioningInv, ProvisioningTypeOK
<1> DEFINE y == [rotating[a] EXCEPT !.id = NoId]
<1>2. y \in Versioned /\ y.id = NoId
  BY <1>1 DEF Versioned
<1>3. rotating' = [rotating EXCEPT ![a] = y]
  BY <1>1 DEF CommitRotation
<1> HIDE DEF y
<1>4. rotating' \in [Admins -> Versioned] /\ rotating'[a] = y /\ \A b \in Admins \ {a} : rotating'[b] = rotating[b]
  BY <1>1, <1>2, <1>3
<1>5. Rotators' = Rotators \ {a} /\ a \in Rotators
  BY <1>2, <1>4 DEF Rotators, CommitRotation
<1>6. Rotators \in SUBSET Admins
  BY DEF Rotators
<1>7. IsFiniteSet(Rotators)
  BY <1>6, FS_Subset, ProvisioningAssumption
<1> QED
  BY <1>4, <1>5, <1>7, FS_RemoveElement, FS_CardinalityType

\* The unique index: a version is inserted once, and the row that was active
\* goes into grace with it.
LEMMA CommitRotationStep ==
    ASSUME ProvisioningInv, NEW a \in Admins, CommitRotation(a)
    PROVE  ProvisioningInv'
<1>1. UNCHANGED <<settings, changes, recorded, profile, store, procs, uses, drops, crashes>>
  BY DEF CommitRotation, client
<1>2. /\ rotating' \in [Admins -> Versioned] /\ \A b \in Admins \ {a} : rotating'[b] = rotating[b]
      /\ Rotators' = Rotators \ {a} /\ a \in Rotators
      /\ Cardinality(Rotators') = Cardinality(Rotators) - 1 /\ Cardinality(Rotators') \in Nat /\ Cardinality(Rotators) \in Nat
  BY EndsRotation
<1>3. /\ rotations \in 0..MaxRotations /\ rows \subseteq Rows /\ rotations + Cardinality(Rotators) <= MaxRotations
      /\ rotating[a] \in Versioned
  BY DEF ProvisioningInv, ProvisioningTypeOK, VersionsInOrder
<1>4. PICK id, version : id = rotating[a].id /\ version = rotating[a].version
  OBVIOUS
<1>5. id \in Ids /\ version \in 1..(rotations + 1)
  BY <1>2, <1>3, <1>4 DEF ProvisioningInv, VersionsInOrder, Rotators, Versioned
<1>6. CASE UNCHANGED <<rows, rotations>>
  <2>1. ProvisioningTypeOK'
    BY <1>1, <1>2, <1>6 DEF ProvisioningInv, ProvisioningTypeOK
  <2>2. VersionsInOrder'
    <3>1. rotations + Cardinality(Rotators') <= MaxRotations
      BY <1>2, <1>3, ProvisioningAssumption
    <3>2. \A b \in Rotators' : rotating'[b].version \in 1..(rotations + 1)
      BY <1>2 DEF ProvisioningInv, VersionsInOrder, Rotators
    <3> QED
      BY <1>6, <3>1, <3>2 DEF ProvisioningInv, VersionsInOrder
  <2>3. VersionNamesOneSecret'
    BY <1>6 DEF ProvisioningInv, VersionNamesOneSecret
  <2> QED
    BY <1>1, <1>6, <2>1, <2>2, <2>3, ServerStepInv
<1>7. CASE rotating[a].version \notin VersionsOf(rotating[a].id)
  <2>1. /\ version \notin VersionsOf(id) /\ rotations' = rotations + 1
        /\ rows' = Rotated(id, version, rotations + 1)
    BY <1>4, <1>7 DEF CommitRotation
  <2>2. rotations + 1 \in 1..MaxRotations /\ version \in 1..MaxRotations
    BY <1>2, <1>3, <1>5, ProvisioningAssumption
  <2>3. PICK x : x = [id |-> id, version |-> version, secret |-> rotations + 1, state |-> "active"]
    OBVIOUS
  <2>4. x \in Rows /\ x.id = id /\ x.version = version
    BY <1>5, <2>2, <2>3 DEF Rows
  <2>5. x \in rows'
    BY <2>1, <2>3 DEF Rotated
  <2>6. ASSUME NEW r \in rows, NEW s, s = IF r.id = id /\ r.state = "active" THEN [r EXCEPT !.state = "grace"] ELSE r
        PROVE  /\ s \in Rows /\ s.id = r.id /\ s.version = r.version /\ s.secret = r.secret
               /\ s.state = "active" => r.state = "active" /\ r.id # id
    <3>1. r \in Rows
      BY <1>3
    <3>2. CASE r.id = id /\ r.state = "active"
      BY <2>6, <3>1, <3>2 DEF Rows
    <3>3. CASE ~(r.id = id /\ r.state = "active")
      BY <2>6, <3>1, <3>3
    <3> QED
      BY <3>2, <3>3
  <2>7. ASSUME NEW s \in rows', s # x
        PROVE  \E r \in rows : /\ s \in Rows /\ s.id = r.id /\ s.version = r.version
                               /\ s.state = "active" => r.state = "active" /\ r.id # id
                               /\ s = IF r.id = id /\ r.state = "active" THEN [r EXCEPT !.state = "grace"] ELSE r
    <3>1. PICK r \in rows : s = IF r.id = id /\ r.state = "active" THEN [r EXCEPT !.state = "grace"] ELSE r
      BY <2>1, <2>3, <2>7 DEF Rotated
    <3>2. /\ s \in Rows /\ s.id = r.id /\ s.version = r.version
          /\ s.state = "active" => r.state = "active" /\ r.id # id
      BY <2>6, <3>1
    <3> QED
      BY <3>1, <3>2
  <2>8. rows' \subseteq Rows
    BY <2>4, <2>7
  <2>9. ProvisioningTypeOK'
    <3>1. rotations' \in 0..MaxRotations
      BY <2>1, <2>2
    <3> QED
      BY <1>1, <1>2, <2>8, <3>1 DEF ProvisioningInv, ProvisioningTypeOK
  <2>10. VersionsInOrder'
    <3>1. rotations' + Cardinality(Rotators') <= MaxRotations
      BY <1>2, <1>3, <2>1, ProvisioningAssumption
    <3>2. ASSUME NEW b \in Rotators' PROVE rotating'[b].version \in 1..(rotations' + 1)
      <4>1. rotating'[b].version \in 1..(rotations + 1)
        BY <1>2 DEF ProvisioningInv, VersionsInOrder, Rotators
      <4> QED
        BY <1>3, <2>1, <4>1
    <3>3. ASSUME NEW s \in rows' PROVE s.version <= rotations'
      <4>1. CASE s = x
        BY <1>3, <1>5, <2>1, <2>4, <4>1
      <4>2. CASE s # x
        <5>1. PICK r \in rows : s.version = r.version
          BY <2>7, <4>2
        <5>2. r.version <= rotations /\ r.version \in 1..MaxRotations
          BY <1>3 DEF ProvisioningInv, VersionsInOrder, Rows
        <5> QED
          BY <1>3, <2>1, <5>1, <5>2
      <4> QED
        BY <4>1, <4>2
    <3> QED
      BY <3>1, <3>2, <3>3 DEF VersionsInOrder
  <2>11. VersionNamesOneSecret'
    <3> SUFFICES ASSUME NEW s \in rows', NEW t \in rows', s.id = t.id, s # t
                 PROVE  s.version # t.version /\ ~(s.state = "active" /\ t.state = "active")
      BY DEF VersionNamesOneSecret
    <3>1. \A r \in rows : r.id = id => r.version # version
      BY <2>1 DEF VersionsOf
    <3>2. CASE s = x
      <4>1. PICK r \in rows : /\ t.id = r.id /\ t.version = r.version
                              /\ t.state = "active" => r.state = "active" /\ r.id # id
        BY <2>7, <3>2
      <4> QED
        BY <2>4, <3>1, <3>2, <4>1
    <3>3. CASE t = x
      <4>1. PICK r \in rows : /\ s.id = r.id /\ s.version = r.version
                              /\ s.state = "active" => r.state = "active" /\ r.id # id
        BY <2>7, <3>3
      <4> QED
        BY <2>4, <3>1, <3>3, <4>1
    <3>4. CASE s # x /\ t # x
      <4>1. PICK r \in rows : /\ s.id = r.id /\ s.version = r.version
                              /\ s.state = "active" => r.state = "active" /\ r.id # id
                              /\ s = IF r.id = id /\ r.state = "active" THEN [r EXCEPT !.state = "grace"] ELSE r
        BY <2>7, <3>4
      <4>2. PICK q \in rows : /\ t.id = q.id /\ t.version = q.version
                              /\ t.state = "active" => q.state = "active" /\ q.id # id
                              /\ t = IF q.id = id /\ q.state = "active" THEN [q EXCEPT !.state = "grace"] ELSE q
        BY <2>7, <3>4
      <4>3. r # q
        BY <4>1, <4>2
      <4> QED
        BY <4>1, <4>2, <4>3 DEF ProvisioningInv, VersionNamesOneSecret
    <3> QED
      BY <3>2, <3>3, <3>4
  <2>12. ASSUME NEW r \in rows PROVE \E s \in rows' : s.id = r.id /\ s.version = r.version /\ s.secret = r.secret
    <3>1. PICK s : s = IF r.id = id /\ r.state = "active" THEN [r EXCEPT !.state = "grace"] ELSE r
      OBVIOUS
    <3>2. s \in rows'
      BY <2>1, <3>1 DEF Rotated
    <3> QED
      BY <2>6, <3>1, <3>2
  <2> QED
    BY <1>1, <2>9, <2>10, <2>11, <2>12, ServerStepInv
<1> QED
  BY <1>6, <1>7 DEF CommitRotation

LEMMA ProcTypes ==
    ASSUME ProvisioningInv, NEW p \in Procs
    PROVE  /\ procs[p] \in Proc /\ procs \in [Procs -> Proc] /\ settings \in Settings /\ rows \subseteq Rows
           /\ recorded \in Versioned /\ profile \in Profiles /\ store \in [Ids \cup {OwnId} -> Secrets]
           /\ uses \in 0..MaxUses /\ drops \in 0..MaxDrops /\ crashes \in 0..MaxCrashes
BY DEF ProvisioningInv, ProvisioningTypeOK

\* A request begins, fails on the way, or a process stops: nothing is stored.
LEMMA GoesIdleOrFetches ==
    ASSUME ProvisioningInv, NEW p \in Procs, procs[p].phase # "stored" \/ crashes' # 0,
           NEW x \in Proc, procs' = [procs EXCEPT ![p] = x], x.phase \in {"idle", "settings"},
           UNCHANGED <<settings, rows, rotating, rotations, changes, recorded, profile, store>>,
           uses' \in 0..MaxUses, drops' \in 0..MaxDrops, crashes' \in 0..MaxCrashes, crashes' = 0 => crashes = 0
    PROVE  ProvisioningInv'
<1>1. recorded' \in Versioned /\ profile' \in Profiles /\ store' \in [Ids \cup {OwnId} -> Secrets]
  BY ProcTypes
<1>2. OneProcess /\ crashes' = 0 /\ x.phase # "stored" /\ profile'.version # 0 =>
        \E r \in rows : r.id = profile'.id /\ r.version = profile'.version /\ r.secret = store'[profile'.id]
  BY ProfileIsHeld
<1> QED
  BY <1>1, <1>2, ProcStep

LEMMA FetchStep ==
    ASSUME ProvisioningInv, NEW p \in Procs, Refresh(p) \/ Provision(p)
    PROVE  ProvisioningInv'
<1>1. /\ UNCHANGED <<settings, rows, rotating, rotations, changes, recorded, profile, store, drops, crashes>>
      /\ procs[p].phase = "idle" /\ uses' \in 0..MaxUses
  BY ProcTypes, ProvisioningAssumption DEF Refresh, Provision, Fetch, server, client
<1>2. PICK x : x = [Idle EXCEPT !.phase = "settings", !.settings = settings] /\ procs' = [procs EXCEPT ![p] = x]
  BY DEF Refresh, Provision, Fetch
<1>3. x \in Proc /\ x.phase = "settings"
  BY <1>2, ProcTypes, ProvisioningShapes DEF Proc
<1> QED
  BY <1>1, <1>2, <1>3, ProcTypes, GoesIdleOrFetches

LEMMA DropStep ==
    ASSUME ProvisioningInv, NEW p \in Procs, Drop(p) \/ Crash(p)
    PROVE  ProvisioningInv'
<1>1. /\ UNCHANGED <<settings, rows, rotating, rotations, changes, recorded, profile, store, uses>>
      /\ procs' = [procs EXCEPT ![p] = Idle]
  BY DEF Drop, Crash, server, client
<1>2. /\ drops' \in 0..MaxDrops /\ crashes' \in 0..MaxCrashes
      /\ crashes' = 0 => crashes = 0
      /\ procs[p].phase # "stored" \/ crashes' # 0
  <2>1. CASE Drop(p)
    BY <2>1, ProcTypes, ProvisioningAssumption DEF Drop
  <2>2. CASE Crash(p)
    BY <2>2, ProcTypes, ProvisioningAssumption DEF Crash
  <2> QED
    BY <2>1, <2>2
<1>3. uses' \in 0..MaxUses
  BY <1>1, ProcTypes
<1>4. PICK x : x \in Proc /\ x.phase = "idle" /\ procs' = [procs EXCEPT ![p] = x]
  BY <1>1, ProvisioningShapes
<1> QED
  BY <1>1, <1>2, <1>3, <1>4, GoesIdleOrFetches

\* The secret handed out with a version is that of the row of this version.
LEMMA AvailableIsOfRow ==
    ASSUME ProvisioningInv, NEW id
    PROVE  /\ Available(id).secret \in Secrets /\ Available(id).version \in 0..MaxRotations
           /\ Available(id).version # 0 =>
                Available(id).secret # 0 /\ Row(id, Available(id).version, Available(id).secret)
<1> DEFINE found == {r \in rows : r.id = id /\ r.state = "active"}
<1>1. rows \subseteq Rows /\ 0 \in 0..MaxRotations /\ 0 \in Secrets /\ DeployedKey \in Secrets
  BY ProvisioningShapes, ProvisioningAssumption DEF ProvisioningInv, ProvisioningTypeOK
<1>2. /\ Active(id).secret \in Secrets /\ Active(id).version \in 0..MaxRotations
      /\ Active(id).version # 0 => Active(id).secret # 0 /\ Row(id, Active(id).version, Active(id).secret)
  <2>1. CASE found = {}
    BY <1>1, <2>1 DEF Active
  <2>2. CASE found # {}
    <3>1. PICK r \in found : TRUE
      BY <2>2
    <3>2. r \in Rows /\ r \in rows /\ r.id = id /\ r.state = "active"
      BY <1>1, <3>1
    <3>3. r.version \in 1..MaxRotations /\ r.secret \in 1..MaxRotations
      BY <3>2 DEF Rows
    <3>4. \A s \in found : s = r
      BY <3>2 DEF ProvisioningInv, VersionNamesOneSecret
    <3>5. r = CHOOSE q \in found : \A s \in found : s.version <= q.version
      <4>1. \A s \in found : s.version <= r.version
        BY <3>3, <3>4
      <4>2. \E q \in found : \A s \in found : s.version <= q.version
        BY <3>1, <4>1
      <4> HIDE DEF found
      <4> QED
        BY <3>4, <4>2
    <3>6. Active(id) = [secret |-> r.secret, version |-> r.version]
      BY <2>2, <3>5 DEF Active
    <3>7. r.secret \in Secrets /\ r.secret # 0 /\ r.version \in 0..MaxRotations
      BY <3>3, ProvisioningShapes, ProvisioningAssumption
    <3> QED
      BY <3>2, <3>6, <3>7 DEF Row
  <2> QED
    BY <2>1, <2>2
<1>3. CASE Available(id) = [secret |-> DeployedKey, version |-> 0]
  BY <1>1, <1>3
<1>4. CASE Available(id) = Active(id)
  BY <1>2, <1>4
<1> QED
  BY <1>3, <1>4 DEF Available

LEMMA ReadCredentialStep ==
    ASSUME ProvisioningInv, NEW p \in Procs, ReadCredential(p)
    PROVE  ProvisioningInv'
<1>1. /\ UNCHANGED <<settings, rows, rotating, rotations, changes, recorded, profile, store, uses, drops, crashes>>
      /\ procs[p].phase = "settings"
  BY DEF ReadCredential, server, client
<1>2. PICK found : found = IF procs[p].settings.enabled /\ procs[p].settings.mode = "local"
                           THEN Available(procs[p].settings.id) ELSE [secret |-> 0, version |-> 0]
  OBVIOUS
<1>3. /\ found.secret \in Secrets /\ found.version \in 0..MaxRotations
      /\ found.version # 0 => /\ procs[p].settings.mode = "local" /\ found.secret # 0
                              /\ Row(procs[p].settings.id, found.version, found.secret)
  <2>1. CASE found = Available(procs[p].settings.id) /\ procs[p].settings.mode = "local"
    BY <2>1, AvailableIsOfRow
  <2>2. CASE found = [secret |-> 0, version |-> 0]
    BY <2>2, ProvisioningShapes, ProvisioningAssumption
  <2> QED
    BY <1>2, <2>1, <2>2
<1>4. PICK x : /\ procs' = [procs EXCEPT ![p] = x]
               /\ x = [procs[p] EXCEPT !.phase = "credential", !.secret = found.secret, !.version = found.version]
  BY <1>2 DEF ReadCredential
<1>5. /\ x \in Proc /\ x.phase = "credential" /\ x.settings = procs[p].settings
      /\ x.secret = found.secret /\ x.version = found.version
  BY <1>3, <1>4, ProcTypes DEF Proc
<1>6. x.phase \in {"credential", "answer", "stored"} /\ x.version # 0 =>
        /\ x.settings.mode = "local" /\ x.secret # 0
        /\ \E r \in rows : r.id = x.settings.id /\ r.version = x.version /\ r.secret = x.secret
  BY <1>3, <1>5 DEF Row
<1>7. OneProcess /\ crashes' = 0 /\ x.phase # "stored" /\ profile'.version # 0 =>
        \E r \in rows : r.id = profile'.id /\ r.version = profile'.version /\ r.secret = store'[profile'.id]
  BY <1>1, ProfileIsHeld
<1>8. /\ recorded' \in Versioned /\ profile' \in Profiles /\ store' \in [Ids \cup {OwnId} -> Secrets]
      /\ uses' \in 0..MaxUses /\ drops' \in 0..MaxDrops /\ crashes' \in 0..MaxCrashes
  BY <1>1, ProcTypes
<1> QED
  BY <1>1, <1>4, <1>5, <1>6, <1>7, <1>8, ProcStep

LEMMA RecordStep ==
    ASSUME ProvisioningInv, NEW p \in Procs, Record(p)
    PROVE  ProvisioningInv'
<1>1. /\ UNCHANGED <<settings, rows, rotating, rotations, changes, profile, store, uses, drops, crashes>>
      /\ procs[p].phase = "credential" /\ procs[p].settings \in Settings /\ procs[p].version \in 0..MaxRotations
  BY ProcTypes DEF Record, server, client, Proc
<1>2. PICK x : x = [procs[p] EXCEPT !.phase = "answer"] /\ procs' = [procs EXCEPT ![p] = x]
  BY DEF Record
<1>3. /\ x \in Proc /\ x.phase = "answer" /\ x.settings = procs[p].settings
      /\ x.secret = procs[p].secret /\ x.version = procs[p].version
  BY <1>2, ProcTypes DEF Proc
<1>4. recorded' \in Versioned
  <2>1. procs[p].settings.id \in Ids \cup {NoId}
    BY <1>1 DEF Settings
  <2> QED
    BY <1>1, <2>1, ProcTypes DEF Record, Versioned
<1>5. x.phase \in {"credential", "answer", "stored"} /\ x.version # 0 =>
        /\ x.settings.mode = "local" /\ x.secret # 0
        /\ \E r \in rows : r.id = x.settings.id /\ r.version = x.version /\ r.secret = x.secret
  BY <1>1, <1>3 DEF ProvisioningInv, AnswerOfRow, Row
<1>6. OneProcess /\ crashes' = 0 /\ x.phase # "stored" /\ profile'.version # 0 =>
        \E r \in rows : r.id = profile'.id /\ r.version = profile'.version /\ r.secret = store'[profile'.id]
  BY <1>1, ProfileIsHeld
<1>7. /\ profile' \in Profiles /\ store' \in [Ids \cup {OwnId} -> Secrets]
      /\ uses' \in 0..MaxUses /\ drops' \in 0..MaxDrops /\ crashes' \in 0..MaxCrashes
  BY <1>1, ProcTypes
<1> QED
  BY <1>1, <1>2, <1>3, <1>4, <1>5, <1>6, <1>7, ProcStep

LEMMA ForgetType ==
    ASSUME NEW s \in [Ids \cup {OwnId} -> Secrets], NEW id
    PROVE  /\ Forget(s, id) \in [Ids \cup {OwnId} -> Secrets]
           /\ \A i \in Ids \cup {OwnId} : i # id => Forget(s, id)[i] = s[i]
BY ProvisioningShapes DEF Forget

LEMMA ApplyDisabledStep ==
    ASSUME ProvisioningInv, NEW p \in Procs, ApplyDisabled(p)
    PROVE  ProvisioningInv'
<1>1. /\ UNCHANGED <<settings, rows, rotating, rotations, changes, recorded, uses, drops, crashes>>
      /\ procs[p].phase = "answer"
  BY DEF ApplyDisabled, server
<1>2. PICK x : x \in Proc /\ x.phase = "idle" /\ procs' = [procs EXCEPT ![p] = x]
  BY ProvisioningShapes DEF ApplyDisabled
<1>3. /\ profile' \in Profiles /\ store' \in [Ids \cup {OwnId} -> Secrets]
      /\ UNCHANGED <<profile, store>> \/ profile'.version = 0
  <2>1. CASE UNCHANGED client
    BY <2>1, ProcTypes DEF client
  <2>2. CASE store' = Forget(store, profile.id) /\ profile' = NoProfile
    BY <2>2, ProcTypes, ForgetType, ProvisioningShapes
  <2> QED
    BY <2>1, <2>2 DEF ApplyDisabled
<1>4. OneProcess /\ crashes' = 0 /\ x.phase # "stored" /\ profile'.version # 0 =>
        \E r \in rows : r.id = profile'.id /\ r.version = profile'.version /\ r.secret = store'[profile'.id]
  BY <1>1, <1>3, ProfileIsHeld
<1>5. recorded' \in Versioned /\ uses' \in 0..MaxUses /\ drops' \in 0..MaxDrops /\ crashes' \in 0..MaxCrashes
  BY <1>1, ProcTypes
<1> QED
  BY <1>1, <1>2, <1>3, <1>4, <1>5, ProcStep

\* A secret is stored, the profile is not saved yet.
LEMMA ApplyStoreStep ==
    ASSUME ProvisioningInv, NEW p \in Procs, ApplyStore(p)
    PROVE  ProvisioningInv'
<1>1. /\ UNCHANGED <<settings, rows, rotating, rotations, changes, recorded, profile, uses, drops, crashes>>
      /\ procs[p].phase = "answer"
  BY DEF ApplyStore, server
<1>2. /\ recorded' \in Versioned /\ profile' \in Profiles
      /\ uses' \in 0..MaxUses /\ drops' \in 0..MaxDrops /\ crashes' \in 0..MaxCrashes
  BY <1>1, ProcTypes
<1>3. CASE Unusable(p)
  <2>1. PICK x : x \in Proc /\ x.phase = "idle" /\ procs' = [procs EXCEPT ![p] = x]
    BY <1>3, ProvisioningShapes DEF ApplyStore
  <2>2. store' = store /\ store' \in [Ids \cup {OwnId} -> Secrets]
    BY <1>3, ProcTypes DEF ApplyStore
  <2>3. OneProcess /\ crashes' = 0 /\ x.phase # "stored" /\ profile'.version # 0 =>
          \E r \in rows : r.id = profile'.id /\ r.version = profile'.version /\ r.secret = store'[profile'.id]
    BY <1>1, <2>2, ProfileIsHeld
  <2> QED
    BY <1>1, <1>2, <2>1, <2>2, <2>3, ProcStep
<1>4. CASE ~Unusable(p)
  <2>1. PICK x : x = [procs[p] EXCEPT !.phase = "stored", !.had = profile.id] /\ procs' = [procs EXCEPT ![p] = x]
    BY <1>4 DEF ApplyStore
  <2>2. /\ x \in Proc /\ x.phase = "stored" /\ x.settings = procs[p].settings
        /\ x.secret = procs[p].secret /\ x.version = procs[p].version
    <3>1. profile.id \in Ids \cup {NoId, OwnId}
      BY ProcTypes DEF Profiles
    <3> QED
      BY <2>1, <3>1, ProcTypes DEF Proc
  <2>3. store' = IF procs[p].settings.mode = "managed" THEN Forget(store, profile.id)
                 ELSE IF procs[p].secret = 0 THEN store
                 ELSE [store EXCEPT ![procs[p].settings.id] = procs[p].secret]
    BY <1>4 DEF ApplyStore
  <2>4. store' \in [Ids \cup {OwnId} -> Secrets]
    <3>1. procs[p].secret \in Secrets
      BY ProcTypes DEF Proc
    <3> QED
      BY <2>3, <3>1, ProcTypes, ForgetType
  <2>5. x.phase \in {"credential", "answer", "stored"} /\ x.version # 0 =>
          /\ x.settings.mode = "local" /\ x.secret # 0
          /\ \E r \in rows : r.id = x.settings.id /\ r.version = x.version /\ r.secret = x.secret
    BY <1>1, <2>2 DEF ProvisioningInv, AnswerOfRow, Row
  <2>6. x.version # 0 => store'[x.settings.id] = x.secret
    <3> SUFFICES ASSUME x.version # 0 PROVE store'[x.settings.id] = x.secret
      OBVIOUS
    <3>1. PICK r \in rows : r.id = x.settings.id
      BY <2>2, <2>5
    <3>2. x.settings.id \in Ids
      BY <3>1, ProcTypes DEF Rows
    <3>3. store' = [store EXCEPT ![x.settings.id] = x.secret]
      BY <2>2, <2>3, <2>5
    <3> QED
      BY <3>2, <3>3, ProcTypes
  <2> QED
    BY <1>1, <1>2, <2>1, <2>2, <2>4, <2>5, <2>6, ProcStep
<1> QED
  BY <1>3, <1>4

\* The profile is saved: its secret was stored and is not what is forgotten.
LEMMA ApplySaveStep ==
    ASSUME ProvisioningInv, NEW p \in Procs, ApplySave(p)
    PROVE  ProvisioningInv'
<1>1. /\ UNCHANGED <<settings, rows, rotating, rotations, changes, recorded, uses, drops, crashes>>
      /\ procs[p].phase = "stored" /\ procs[p].settings \in Settings /\ procs[p].version \in 0..MaxRotations
  BY ProcTypes DEF ApplySave, server, Proc
<1>2. PICK x : x \in Proc /\ x.phase = "idle" /\ procs' = [procs EXCEPT ![p] = x]
  BY ProvisioningShapes DEF ApplySave
<1>3. /\ recorded' \in Versioned
      /\ uses' \in 0..MaxUses /\ drops' \in 0..MaxDrops /\ crashes' \in 0..MaxCrashes
  BY <1>1, ProcTypes
<1>4. /\ profile' \in Profiles /\ profile'.version = procs[p].version
      /\ procs[p].settings.mode = "local" => profile'.id = procs[p].settings.id
  <2>1. profile' = Applied(procs[p])
    BY DEF ApplySave
  <2>2. /\ procs[p].settings.mode \in Modes /\ procs[p].settings.id \in Ids \cup {NoId}
        /\ procs[p].settings.version \in 0..MaxChanges
    BY <1>1 DEF Settings
  <2> QED
    BY <1>1, <2>1, <2>2 DEF Applied, Profiles
<1>5. store' = IF procs[p].settings.mode = "local" /\ procs[p].had # procs[p].settings.id
               THEN Forget(store, procs[p].had) ELSE store
  BY DEF ApplySave
<1>6. store' \in [Ids \cup {OwnId} -> Secrets]
  BY <1>5, ProcTypes, ForgetType
<1>7. OneProcess /\ crashes' = 0 /\ x.phase # "stored" /\ profile'.version # 0 =>
        \E r \in rows : r.id = profile'.id /\ r.version = profile'.version /\ r.secret = store'[profile'.id]
  <2> SUFFICES ASSUME OneProcess, crashes' = 0, profile'.version # 0
               PROVE  \E r \in rows : /\ r.id = profile'.id /\ r.version = profile'.version
                                       /\ r.secret = store'[profile'.id]
    OBVIOUS
  <2>1. procs[p].settings.mode = "local" /\ Row(procs[p].settings.id, procs[p].version, procs[p].secret)
    BY <1>1, <1>4 DEF ProvisioningInv, AnswerOfRow
  <2>2. PICK r \in rows : /\ r.id = procs[p].settings.id /\ r.version = procs[p].version
                          /\ r.secret = procs[p].secret
    BY <2>1 DEF Row
  <2>3. r.id \in Ids
    BY ProcTypes DEF Rows
  <2>4. store[r.id] = procs[p].secret
    BY <1>1, <1>4, <2>2 DEF ProvisioningInv, StoredIsHeld
  <2>5. store'[r.id] = store[r.id]
    BY <1>5, <2>2, <2>3, ProcTypes, ForgetType
  <2>6. r.id = profile'.id /\ r.version = profile'.version
    BY <1>4, <2>1, <2>2
  <2> QED
    BY <2>2, <2>4, <2>5, <2>6
<1> QED
  BY <1>1, <1>2, <1>3, <1>4, <1>6, <1>7, ProcStep

LEMMA ConfigureStep ==
    ASSUME ProvisioningInv, NEW p \in Procs, ConfigureLocal(p) \/ Logout(p)
    PROVE  ProvisioningInv'
<1>1. /\ UNCHANGED <<settings, rows, rotating, rotations, changes, recorded, procs, drops, crashes>>
      /\ procs[p].phase = "idle"
  BY DEF ConfigureLocal, Logout, server
<1>2. PICK x : x \in Proc /\ x.phase = "idle" /\ procs' = [procs EXCEPT ![p] = x]
  <2>1. procs[p] \in Proc /\ procs' = [procs EXCEPT ![p] = procs[p]]
    BY <1>1, ProcTypes
  <2> QED
    BY <1>1, <2>1
<1>3. profile' \in Profiles /\ profile'.version = 0
  <2>1. CASE ConfigureLocal(p)
    BY <2>1, ProvisioningShapes DEF ConfigureLocal, Profiles, NoProfile
  <2>2. CASE Logout(p)
    BY <2>2, ProvisioningShapes DEF Logout
  <2> QED
    BY <2>1, <2>2
<1>4. store' \in [Ids \cup {OwnId} -> Secrets]
  <2>1. CASE ConfigureLocal(p)
    <3>1. PICK key \in {0, DeployedKey} :
            store' = IF profile.id \in {NoId, OwnId}
                     THEN IF key = 0 THEN store ELSE [store EXCEPT ![OwnId] = key]
                     ELSE Forget(IF key = 0 THEN store ELSE [store EXCEPT ![OwnId] = key], profile.id)
      BY <2>1 DEF ConfigureLocal
    <3>2. (IF key = 0 THEN store ELSE [store EXCEPT ![OwnId] = key]) \in [Ids \cup {OwnId} -> Secrets]
      BY ProcTypes, ProvisioningShapes
    <3> QED
      BY <3>1, <3>2, ForgetType
  <2>2. CASE Logout(p)
    BY <2>2, ProcTypes, ForgetType DEF Logout
  <2> QED
    BY <2>1, <2>2
<1>5. uses' \in 0..MaxUses
  BY ProcTypes, ProvisioningAssumption DEF ConfigureLocal, Logout
<1>6. recorded' \in Versioned /\ drops' \in 0..MaxDrops /\ crashes' \in 0..MaxCrashes
  BY <1>1, ProcTypes
<1> QED
  BY <1>1, <1>2, <1>3, <1>4, <1>5, <1>6, ProcStep

LEMMA ProvisioningNextInv == ProvisioningInv /\ [ProvisioningNext]_provisioningVars => ProvisioningInv'
<1> SUFFICES ASSUME ProvisioningInv, [ProvisioningNext]_provisioningVars PROVE ProvisioningInv'
  OBVIOUS
<1>1. CASE UNCHANGED provisioningVars
  BY <1>1 DEF provisioningVars, ProvisioningInv, ProvisioningTypeOK, VersionsInOrder, Rotators,
              VersionNamesOneSecret, AnswerOfRow, Row, StoredIsHeld, HeldAsProfiled
<1>2. CASE UpdateSettings
  BY <1>2, UpdateSettingsStep
<1>3. CASE Revoke
  BY <1>3, RevokeStep
<1>4. ASSUME NEW a \in Admins, BeginRotation(a) \/ CommitRotation(a) PROVE ProvisioningInv'
  BY <1>4, BeginRotationStep, CommitRotationStep
<1>5. ASSUME NEW p \in Procs, \/ Refresh(p) \/ Provision(p) \/ ReadCredential(p) \/ Record(p) \/ Drop(p)
                              \/ ApplyDisabled(p) \/ ApplyStore(p) \/ ApplySave(p) \/ Crash(p)
                              \/ ConfigureLocal(p) \/ Logout(p)
      PROVE  ProvisioningInv'
  BY <1>5, FetchStep, ReadCredentialStep, RecordStep, DropStep, ApplyDisabledStep, ApplyStoreStep,
     ApplySaveStep, ConfigureStep
<1> QED
  BY <1>1, <1>2, <1>3, <1>4, <1>5 DEF ProvisioningNext

\* The data of the vault, of every request and of the client keep their types,
\* and the counters their bounds.
THEOREM ProvisioningTypeCorrect == ProvisioningSpec => []ProvisioningTypeOK
<1>1. ProvisioningInv => ProvisioningTypeOK
  BY DEF ProvisioningInv
<1> QED
  BY <1>1, ProvisioningInitInv, ProvisioningNextInv, PTL DEF ProvisioningSpec

\* However rotations and revocations interleave, a version of a credential
\* names one secret and one row at most is active (upsert_credential,
\* revoke_credential).
THEOREM VersionNamesOneSecretSafe == ProvisioningSpec => []VersionNamesOneSecret
<1>1. ProvisioningInv => VersionNamesOneSecret
  BY DEF ProvisioningInv
<1> QED
  BY <1>1, ProvisioningInitInv, ProvisioningNextInv, PTL DEF ProvisioningSpec

\* With one process of the client that has not stopped while it applied an
\* answer, a profile with a credential version comes with the secret of this
\* version (provision_classifier, apply_server_classifier).
THEOREM HeldAsProfiledSafe == ProvisioningSpec => []HeldAsProfiled
<1>1. ProvisioningInv => HeldAsProfiled
  BY DEF ProvisioningInv
<1> QED
  BY <1>1, ProvisioningInitInv, ProvisioningNextInv, PTL DEF ProvisioningSpec

-----------------------------------------------------------------------------
(* Provider                                                                *)

\* The sum of the first n sizes, unfolded; every partial sum is a natural.
LEMMA SumExists ==
    ASSUME NEW sizes, NEW n \in Nat
    PROVE  \E f : f = [i \in 0..n |-> IF i = 0 THEN 0 ELSE sizes[i] + f[i - 1]]
<1> DEFINE T == {k \in Nat : ~ \E f : f = [i \in 0..k |-> IF i = 0 THEN 0 ELSE sizes[i] + f[i - 1]]}
<1>1. SUFFICES ASSUME T # {} PROVE FALSE
  OBVIOUS
<1>2. PICK k \in T : \A m \in T : k <= m
  <2>1. T \in SUBSET Nat
    OBVIOUS
  <2> HIDE DEF T
  <2> QED
    BY <1>1, <2>1, LeastElement
<1>3. k # 0
  <2>1. [i \in 0..0 |-> 0] = [i \in 0..0 |-> IF i = 0 THEN 0 ELSE sizes[i] + [j \in 0..0 |-> 0][i - 1]]
    OBVIOUS
  <2> QED
    BY <2>1
<1>4. PICK f : f = [i \in 0..(k - 1) |-> IF i = 0 THEN 0 ELSE sizes[i] + f[i - 1]]
  <2>1. k - 1 \in Nat /\ k - 1 \notin T
    BY <1>2, <1>3
  <2> QED
    BY <2>1
<1> DEFINE g == [i \in 0..k |-> IF i < k THEN f[i] ELSE sizes[k] + f[k - 1]]
<1>5. g = [i \in 0..k |-> IF i = 0 THEN 0 ELSE sizes[i] + g[i - 1]]
  <2> SUFFICES ASSUME NEW i \in 0..k PROVE g[i] = IF i = 0 THEN 0 ELSE sizes[i] + g[i - 1]
    OBVIOUS
  <2>1. k \in Nat /\ k # 0
    BY <1>3
  <2>2. CASE i = 0
    BY <1>4, <2>1, <2>2
  <2>3. CASE i # 0 /\ i < k
    BY <1>4, <2>1, <2>3
  <2>4. CASE i = k
    BY <1>4, <2>1, <2>4
  <2> QED
    BY <2>2, <2>3, <2>4
<1> HIDE DEF g
<1> QED
  BY <1>2, <1>5

LEMMA SumUnfolds ==
    ASSUME NEW sizes, NEW n \in Nat
    PROVE  \E f : /\ SumTo(sizes, n) = f[n]
                  /\ f = [i \in 0..n |-> IF i = 0 THEN 0 ELSE sizes[i] + f[i - 1]]
<1> DEFINE f == CHOOSE f : f = [i \in 0..n |-> IF i = 0 THEN 0 ELSE sizes[i] + f[i - 1]]
<1>1. f = [i \in 0..n |-> IF i = 0 THEN 0 ELSE sizes[i] + f[i - 1]]
  BY SumExists
<1>2. SumTo(sizes, n) = f[n]
  BY DEF SumTo
<1> HIDE DEF f
<1> QED
  BY <1>1, <1>2

LEMMA SumIsNatural ==
    ASSUME NEW sizes, NEW n \in Nat, \A i \in 1..n : sizes[i] \in Nat
    PROVE  SumTo(sizes, n) \in Nat
<1>1. PICK f : /\ SumTo(sizes, n) = f[n]
               /\ f = [i \in 0..n |-> IF i = 0 THEN 0 ELSE sizes[i] + f[i - 1]]
  BY SumUnfolds
<1> DEFINE T == {i \in 0..n : f[i] \notin Nat}
<1>2. SUFFICES ASSUME T # {} PROVE FALSE
  BY <1>1
<1>3. PICK k \in T : \A m \in T : k <= m
  <2>1. T \in SUBSET Nat
    OBVIOUS
  <2> HIDE DEF T
  <2> QED
    BY <1>2, <2>1, LeastElement
<1>4. k \in 0..n /\ k # 0
  BY <1>1
<1>5. k - 1 \in 0..n /\ k - 1 \notin T
  BY <1>3, <1>4
<1>6. f[k] = sizes[k] + f[k - 1] /\ sizes[k] \in Nat
  BY <1>1, <1>4
<1> QED
  BY <1>5, <1>6

\* The sum depends on the sizes summed only.
LEMMA SumOfSame ==
    ASSUME NEW sizes, NEW others, NEW n \in Nat, \A i \in 1..n : sizes[i] = others[i]
    PROVE  SumTo(sizes, n) = SumTo(others, n)
<1>1. PICK f : /\ SumTo(sizes, n) = f[n]
               /\ f = [i \in 0..n |-> IF i = 0 THEN 0 ELSE sizes[i] + f[i - 1]]
  BY SumUnfolds
<1>2. PICK g : /\ SumTo(others, n) = g[n]
               /\ g = [i \in 0..n |-> IF i = 0 THEN 0 ELSE others[i] + g[i - 1]]
  BY SumUnfolds
<1> DEFINE T == {i \in 0..n : f[i] # g[i]}
<1>3. SUFFICES ASSUME T # {} PROVE FALSE
  BY <1>1, <1>2
<1>4. PICK k \in T : \A m \in T : k <= m
  <2>1. T \in SUBSET Nat
    OBVIOUS
  <2> HIDE DEF T
  <2> QED
    BY <1>3, <2>1, LeastElement
<1>5. k \in 0..n /\ k # 0
  BY <1>1, <1>2
<1>6. k - 1 \in 0..n /\ k - 1 \notin T
  BY <1>4, <1>5
<1>7. f[k] = sizes[k] + f[k - 1] /\ g[k] = others[k] + g[k - 1] /\ sizes[k] = others[k]
  BY <1>1, <1>2, <1>5
<1> QED
  BY <1>6, <1>7

\* There is a next batch: the longest that fits.
LEMMA BatchEndFits ==
    ASSUME NEW sizes \in Seq(Sizes), sizes # <<>>
    PROVE  /\ BatchEnd(sizes) \in 1..Len(sizes) /\ BatchEnd(sizes) <= MaxItems
           /\ BatchEnd(sizes) = 1 \/ SumTo(sizes, BatchEnd(sizes)) <= MaxBytes
<1>1. Len(sizes) \in Nat \ {0} /\ \A i \in 1..Len(sizes) : sizes[i] \in Sizes
  BY EmptySeq, LenProperties
<1>2. \A i \in 1..Len(sizes) : sizes[i] \in Nat
  <2>1. \A size \in Sizes : size \in Nat
    BY ProviderAssumption
  <2> QED
    BY <1>1, <2>1
<1>3. \A n \in 0..Len(sizes) : SumTo(sizes, n) \in Nat
  BY <1>1, <1>2, SumIsNatural
<1> DEFINE T == {n \in 1..Len(sizes) : n <= MaxItems /\ (n = 1 \/ SumTo(sizes, n) <= MaxBytes)}
<1>4. PICK m \in T : \A n \in T : n <= m
  <2>1. T \in SUBSET (1..Len(sizes)) /\ T # {}
    BY <1>1, ProviderAssumption
  <2> HIDE DEF T
  <2> QED
    BY <1>1, <2>1, GreatestVersion
<1>5. m = Len(sizes) \/ m = MaxItems \/ SumTo(sizes, m + 1) > MaxBytes
  <2> SUFFICES ASSUME m # Len(sizes), m # MaxItems PROVE SumTo(sizes, m + 1) > MaxBytes
    OBVIOUS
  <2>1. m \in 1..Len(sizes) /\ m <= MaxItems /\ m + 1 \in 1..Len(sizes) /\ m + 1 <= MaxItems /\ m + 1 # 1
    BY <1>1, ProviderAssumption
  <2>2. m + 1 \notin T
    BY <1>4, <2>1
  <2>3. ~(SumTo(sizes, m + 1) <= MaxBytes)
    BY <2>1, <2>2
  <2> QED
    BY <1>3, <2>1, <2>3, ProviderAssumption
<1>6. m \in 1..Len(sizes) /\ m <= MaxItems /\ (m = 1 \/ SumTo(sizes, m) <= MaxBytes)
  OBVIOUS
<1> QED
  BY <1>5, <1>6 DEF BatchEnd

\* The server accepts every batch a client makes.
LEMMA BatchIsAccepted ==
    ASSUME NEW sizes \in Seq(Sizes), sizes # <<>>
    PROVE  ManagedAccepts(SubSeq(sizes, 1, BatchEnd(sizes)))
<1>1. PICK n : n = BatchEnd(sizes)
  OBVIOUS
<1>2. n \in 1..Len(sizes) /\ n <= MaxItems /\ (n = 1 \/ SumTo(sizes, n) <= MaxBytes)
  BY <1>1, BatchEndFits
<1>3. Len(sizes) \in Nat /\ \A i \in 1..Len(sizes) : sizes[i] \in Sizes
  BY LenProperties
<1>4. PICK batch : batch = SubSeq(sizes, 1, n)
  OBVIOUS
<1>5. Len(batch) = n /\ \A i \in 1..n : batch[i] = sizes[i]
  <2>1. n \in Int /\ 1 <= n /\ \A i \in 1..n : sizes[i] \in Sizes
    BY <1>2, <1>3
  <2>2. Len(batch) = IF 1 <= n THEN n - 1 + 1 ELSE 0
    BY <1>4, <2>1, SubSeqProperties
  <2>3. \A i \in 1..(n - 1 + 1) : batch[i] = sizes[1 + i - 1]
    BY <1>4, <2>1, SubSeqProperties
  <2> QED
    BY <2>1, <2>2, <2>3
<1>6. SumTo(batch, n) = SumTo(sizes, n)
  BY <1>2, <1>5, SumOfSame
<1>7. SumTo(sizes, n) <= MaxBytes
  <2>1. CASE n = 1
    <3>1. PICK f : SumTo(sizes, n) = f[n] /\ f = [i \in 0..n |-> IF i = 0 THEN 0 ELSE sizes[i] + f[i - 1]]
      <4>1. n \in Nat
        BY <2>1
      <4> QED
        BY <4>1, SumUnfolds
    <3>2. f[0] = 0 /\ f[1] = sizes[1] + f[0]
      BY <2>1, <3>1
    <3>3. sizes[1] \in 1..MaxBytes
      BY <1>2, <1>3, <2>1, ProviderAssumption
    <3> QED
      BY <2>1, <3>1, <3>2, <3>3, ProviderAssumption
  <2> QED
    BY <1>2, <2>1
<1> QED
  BY <1>1, <1>2, <1>4, <1>5, <1>6, <1>7, ProviderAssumption DEF ManagedAccepts

\* A text is open or its category was said of it; the usage is that of the answers.
Assigned(call) ==
    /\ call.size > 0 => call.assigned \in [1..call.size -> Taxonomy \cup {"none"}]
    /\ \A i \in 1..call.size : call.assigned[i] # "none" => <<i, call.assigned[i]>> \in call.said
AllSettled(call) == \A i \in 1..call.size : call.assigned[i] # "none"
AllReported(call) == \A k \in 1..Len(call.answered) : call.answered[k]
Counted(call) ==
    /\ call.usage.requests = Len(call.answered)
    /\ call.usage.reported = TRUE <=> AllReported(call)
Alone == {"first", "retry", "repair"}

GoodCall(call) ==
    /\ Assigned(call) /\ Counted(call)
    /\ call.phase = "done" => AllSettled(call)
    /\ call.phase \in Running => call.size > 0
    /\ call.phase \in Alone => call.at \in 1..call.size
    /\ call.phase \in {"retry", "repair"} => call.mode = "prompt_json"
    /\ call.refused # "bounds"

\* In auto mode the provider would refuse a structured request: those under
\* way are the only ones that will add to the rejections.
Hopeless == setting = "auto" /\ ~capable
Eager == {c \in Callers : calls[c].phase = "first" /\ calls[c].mode = "structured"}
Learned ==
    Hopeless =>
      /\ cached # "structured"
      /\ cached = "none" => rejections = 0
      /\ rejections + Cardinality(Eager) <= Cardinality(Callers)

ProviderInv == ProviderTypeOK /\ (\A c \in Callers : GoodCall(calls[c])) /\ Learned

LEMMA ProviderInitInv == ProviderInit => ProviderInv
<1> SUFFICES ASSUME ProviderInit PROVE ProviderInv
  OBVIOUS
<1>1. IdleCall \in CallRecord
  <2>1. /\ 0 \in 0..MaxItems /\ 0 \in 0..MaxCalls
        /\ <<>> \in Seq(Sizes) /\ <<>> \in Seq(Taxonomy \cup {"none"}) /\ <<>> \in Seq(BOOLEAN)
    BY ProviderAssumption, EmptySeq
  <2>2. [requests |-> 0, reported |-> TRUE] \in Usage
    BY DEF Usage
  <2> QED
    BY <2>1, <2>2 DEF IdleCall, CallRecord, ResponseModes
<1>2. GoodCall(IdleCall)
  <2>1. Counted(IdleCall)
    <3>1. Len(IdleCall.answered) = 0 /\ IdleCall.usage.requests = 0 /\ IdleCall.usage.reported = TRUE
      BY EmptySeq DEF IdleCall
    <3>2. AllReported(IdleCall)
      BY <3>1 DEF AllReported
    <3> QED
      BY <3>1, <3>2 DEF Counted
  <2>2. IdleCall.size = 0 /\ IdleCall.phase = "idle" /\ IdleCall.refused = "none"
    BY DEF IdleCall
  <2>3. Assigned(IdleCall)
    BY <2>2 DEF Assigned
  <2> QED
    BY <2>1, <2>2, <2>3 DEF GoodCall, Running, Alone
<1>3. \A c \in Callers : calls[c] = IdleCall
  BY DEF ProviderInit
<1>4. Learned
  <2>1. Eager = {}
    BY <1>3 DEF Eager, IdleCall
  <2>2. rejections = 0 /\ cached = "none" /\ Cardinality(Callers) \in Nat /\ Cardinality(Eager) = 0
    BY <2>1, FS_EmptySet, FS_CardinalityType, ProviderAssumption DEF ProviderInit
  <2> QED
    BY <2>2 DEF Learned
<1>5. ProviderTypeOK
  BY <1>1 DEF ProviderInit, ProviderTypeOK
<1> QED
  BY <1>2, <1>3, <1>4, <1>5 DEF ProviderInv

\* One caller goes on: it learns, is refused, or makes a new request.
LEMMA CallerStep ==
    ASSUME ProviderInv, NEW c \in Callers, NEW x \in CallRecord, GoodCall(x),
           calls' = [calls EXCEPT ![c] = x], UNCHANGED <<setting, managed, capable>>,
           cached' \in ResponseModes \cup {"none"}, rejections' \in Nat,
           Hopeless => /\ cached' # "structured"
                       /\ cached' = "none" => cached = "none" /\ rejections' = rejections
                       /\ \/ rejections' = rejections /\ ~(x.phase = "first" /\ x.mode = "structured")
                          \/ rejections' = rejections /\ cached = "none"
                          \/ rejections' = rejections + 1 /\ c \in Eager /\ x.phase # "first"
    PROVE  ProviderInv'
<1>1. calls' \in [Callers -> CallRecord] /\ calls'[c] = x /\ \A d \in Callers \ {c} : calls'[d] = calls[d]
  BY DEF ProviderInv, ProviderTypeOK
<1>2. ProviderTypeOK'
  BY <1>1 DEF ProviderInv, ProviderTypeOK
<1>3. \A d \in Callers : GoodCall(calls'[d])
  BY <1>1 DEF ProviderInv
<1>4. Learned'
  <2> SUFFICES ASSUME Hopeless
               PROVE  /\ cached' # "structured"
                      /\ cached' = "none" => rejections' = 0
                      /\ rejections' + Cardinality(Eager') <= Cardinality(Callers)
    BY DEF Learned, Hopeless
  <2>1. rejections \in Nat /\ (cached = "none" => rejections = 0) /\ rejections + Cardinality(Eager) <= Cardinality(Callers)
    BY DEF ProviderInv, ProviderTypeOK, Learned
  <2>2. Eager \in SUBSET Callers /\ Eager' \in SUBSET Callers
    BY DEF Eager
  <2>3. /\ IsFiniteSet(Eager) /\ IsFiniteSet(Eager') /\ Cardinality(Eager') <= Cardinality(Callers)
        /\ Cardinality(Eager) \in Nat /\ Cardinality(Eager') \in Nat /\ Cardinality(Callers) \in Nat
    BY <2>2, FS_Subset, FS_CardinalityType, ProviderAssumption
  <2>4. CASE rejections' = rejections /\ ~(x.phase = "first" /\ x.mode = "structured")
    <3>1. Eager' \in SUBSET Eager
      BY <1>1, <2>4 DEF Eager
    <3>2. Cardinality(Eager') <= Cardinality(Eager)
      BY <2>3, <3>1, FS_Subset
    <3> QED
      BY <2>1, <2>3, <2>4, <3>2
  <2>5. CASE rejections' = rejections /\ cached = "none"
    BY <2>1, <2>3, <2>5
  <2>6. CASE rejections' = rejections + 1 /\ c \in Eager /\ x.phase # "first"
    <3>1. Eager' = Eager \ {c}
      BY <1>1, <2>6 DEF Eager
    <3>2. Cardinality(Eager') = Cardinality(Eager) - 1
      BY <2>3, <2>6, <3>1, FS_RemoveElement
    <3>3. cached' # "none"
      BY <2>1, <2>6
    <3> QED
      BY <2>1, <2>3, <2>6, <3>2, <3>3
  <2> QED
    BY <2>4, <2>5, <2>6
<1> QED
  BY <1>2, <1>3, <1>4 DEF ProviderInv

\* The next text that is open, if there is one, is asked about alone.
LEMMA NextTextIsOpen ==
    ASSUME NEW call \in CallRecord, Assigned(call), Counted(call), call.size > 0, call.refused # "bounds",
           ProviderTypeOK
    PROVE  /\ NextText(call) \in CallRecord /\ GoodCall(NextText(call))
           /\ NextText(call).phase = "first" => NextText(call).mode = FirstMode
<1> DEFINE open == {i \in 1..call.size : call.assigned[i] = "none"}
<1>1. call.size \in 0..MaxItems /\ MaxItems \in Nat
  BY ProviderAssumption DEF CallRecord
<1>2. CASE open = {}
  <2>1. PICK x : x = [call EXCEPT !.phase = "done"] /\ NextText(call) = x
    BY <1>2 DEF NextText
  <2>2. /\ x \in CallRecord /\ x.phase = "done" /\ x.size = call.size /\ x.assigned = call.assigned
        /\ x.said = call.said /\ x.usage = call.usage /\ x.answered = call.answered /\ x.refused = call.refused
    BY <2>1 DEF CallRecord
  <2>3. Assigned(x) /\ Counted(x) /\ AllSettled(x)
    BY <1>2, <2>2 DEF Assigned, Counted, AllReported, AllSettled
  <2> QED
    BY <2>1, <2>2, <2>3 DEF GoodCall, Running, Alone
<1>3. CASE open # {}
  <2>1. PICK at : at = CHOOSE i \in open : \A j \in open : i <= j
    OBVIOUS
  <2>2. at \in 1..call.size
    <3>1. open \in SUBSET Nat
      BY <1>1
    <3>2. \E i \in open : \A j \in open : i <= j
      <4> HIDE DEF open
      <4> QED
        BY <1>3, <3>1, LeastElement
    <3>3. at \in open
      BY <2>1, <3>2
    <3> QED
      BY <3>3
  <2>3. FirstMode \in ResponseModes
    BY DEF ProviderTypeOK, FirstMode, ResponseModes
  <2>4. PICK x : /\ NextText(call) = x
                 /\ x = [[call EXCEPT !.at = at] EXCEPT !.phase = "first", !.mode = FirstMode]
    BY <1>3, <2>1 DEF NextText, Sending
  <2>5. at \in 0..MaxItems
    BY <1>1, <2>2
  <2>6. /\ x \in CallRecord /\ x.phase = "first" /\ x.mode = FirstMode /\ x.at = at
        /\ x.size = call.size /\ x.assigned = call.assigned
        /\ x.said = call.said /\ x.usage = call.usage /\ x.answered = call.answered /\ x.refused = call.refused
    BY <2>3, <2>4, <2>5 DEF CallRecord, Running
  <2>7. Assigned(x) /\ Counted(x)
    BY <2>6 DEF Assigned, Counted, AllReported
  <2> QED
    BY <2>2, <2>4, <2>6, <2>7 DEF GoodCall, Running, Alone
<1> QED
  BY <1>2, <1>3

\* An answer adds one to the requests and its report to the reports.
LEMMA AnsweredCounts ==
    ASSUME NEW call \in CallRecord, Counted(call), NEW reported \in BOOLEAN
    PROVE  \E x \in CallRecord :
             /\ x = Answered(call, reported) /\ Counted(x)
             /\ x.phase = call.phase /\ x.pending = call.pending /\ x.size = call.size /\ x.at = call.at
             /\ x.mode = call.mode /\ x.assigned = call.assigned /\ x.said = call.said
             /\ x.made = call.made /\ x.refused = call.refused
<1>1. call.usage \in Usage /\ call.answered \in Seq(BOOLEAN)
  BY DEF CallRecord
<1>2. PICK usage : usage = [requests |-> call.usage.requests + 1, reported |-> call.usage.reported /\ reported]
  OBVIOUS
<1>3. usage \in Usage /\ usage.requests = call.usage.requests + 1
  BY <1>1, <1>2 DEF Usage
<1>4. PICK answered : answered = Append(call.answered, reported)
  OBVIOUS
<1>5. /\ answered \in Seq(BOOLEAN) /\ Len(answered) = Len(call.answered) + 1
      /\ \A k \in 1..Len(call.answered) : answered[k] = call.answered[k]
      /\ answered[Len(call.answered) + 1] = reported /\ Len(call.answered) \in Nat
  BY <1>1, <1>4, AppendProperties, LenProperties
<1>6. PICK x : x = [call EXCEPT !.usage = usage, !.answered = answered]
  OBVIOUS
<1>7. x = Answered(call, reported)
  BY <1>2, <1>4, <1>6 DEF Answered, CallRecord
<1>8. /\ x \in CallRecord /\ x.usage = usage /\ x.answered = answered
      /\ x.phase = call.phase /\ x.pending = call.pending /\ x.size = call.size /\ x.at = call.at
      /\ x.mode = call.mode /\ x.assigned = call.assigned /\ x.said = call.said
      /\ x.made = call.made /\ x.refused = call.refused
  BY <1>3, <1>5, <1>6 DEF CallRecord
<1>9. AllReported(x) <=> AllReported(call) /\ reported = TRUE
  <2>1. 1..Len(answered) = 1..Len(call.answered) \cup {Len(call.answered) + 1}
    BY <1>5
  <2>2. AllReported(x) <=> \A k \in 1..Len(call.answered) \cup {Len(call.answered) + 1} : answered[k]
    BY <1>8, <2>1 DEF AllReported
  <2>3. AllReported(call) <=> \A k \in 1..Len(call.answered) : call.answered[k]
    BY DEF AllReported
  <2>4. reported = TRUE <=> reported
    OBVIOUS
  <2> QED
    BY <1>5, <2>2, <2>3, <2>4, Zenon
<1>10. usage.reported = TRUE <=> call.usage.reported = TRUE /\ reported = TRUE
  <2>1. call.usage.reported \in BOOLEAN
    BY <1>1 DEF Usage
  <2> QED
    BY <1>2, <2>1
<1>11. Counted(x)
  BY <1>3, <1>5, <1>8, <1>9, <1>10 DEF Counted
<1> QED
  BY <1>7, <1>8, <1>11

LEMMA CallTypes ==
    ASSUME ProviderInv, NEW c \in Callers
    PROVE  /\ calls[c] \in CallRecord /\ GoodCall(calls[c]) /\ Assigned(calls[c]) /\ Counted(calls[c])
           /\ ProviderTypeOK /\ cached \in ResponseModes \cup {"none"} /\ rejections \in Nat
           /\ Hopeless => cached # "structured" /\ (FirstMode = "structured" => cached = "none")
BY DEF ProviderInv, ProviderTypeOK, GoodCall, Learned, Hopeless, FirstMode

LEMMA CollectStep ==
    ASSUME ProviderInv, NEW c \in Callers, Collect(c)
    PROVE  ProviderInv'
<1>1. UNCHANGED <<setting, managed, capable, cached, rejections>> /\ calls[c].phase \notin Running
  BY DEF Collect, Running
<1>2. PICK n \in 1..MaxTexts : \E sizes \in [1..n -> Sizes] : calls' = [calls EXCEPT ![c].pending = sizes]
  BY DEF Collect
<1>3. PICK sizes \in [1..n -> Sizes] : calls' = [calls EXCEPT ![c].pending = sizes]
  BY <1>2
<1>4. sizes \in Seq(Sizes)
  <2>1. n \in Nat
    BY ProviderAssumption
  <2> QED
    BY <2>1, SeqDef
<1>5. PICK x : x = [calls[c] EXCEPT !.pending = sizes] /\ calls' = [calls EXCEPT ![c] = x]
  BY <1>3
<1>6. /\ x \in CallRecord /\ x.phase = calls[c].phase /\ x.size = calls[c].size /\ x.at = calls[c].at
      /\ x.mode = calls[c].mode /\ x.assigned = calls[c].assigned /\ x.said = calls[c].said
      /\ x.usage = calls[c].usage /\ x.answered = calls[c].answered /\ x.refused = calls[c].refused
  BY <1>4, <1>5, CallTypes DEF CallRecord
<1>7. GoodCall(x)
  <2>1. /\ Assigned(x) <=> Assigned(calls[c])
        /\ Counted(x) <=> Counted(calls[c])
        /\ AllSettled(x) <=> AllSettled(calls[c])
    BY <1>6 DEF Assigned, Counted, AllReported, AllSettled
  <2> QED
    BY <1>6, <2>1, CallTypes DEF GoodCall
<1>8. ~(x.phase = "first" /\ x.mode = "structured")
  BY <1>1, <1>6 DEF Running
<1> QED
  BY <1>1, <1>5, <1>6, <1>7, <1>8, CallTypes, CallerStep

LEMMA FailStep ==
    ASSUME ProviderInv, NEW c \in Callers, Fail(c)
    PROVE  ProviderInv'
<1>1. UNCHANGED <<setting, managed, capable, cached, rejections>>
  BY DEF Fail
<1>2. PICK x : x = [calls[c] EXCEPT !.phase = "failed"] /\ calls' = [calls EXCEPT ![c] = x]
  BY DEF Fail
<1>3. /\ x \in CallRecord /\ x.phase = "failed" /\ x.size = calls[c].size
      /\ x.assigned = calls[c].assigned /\ x.said = calls[c].said
      /\ x.usage = calls[c].usage /\ x.answered = calls[c].answered /\ x.refused = calls[c].refused
  BY <1>2, CallTypes DEF CallRecord
<1>4. GoodCall(x)
  BY <1>3, CallTypes DEF GoodCall, Assigned, Counted, AllReported, Running, Alone
<1> QED
  BY <1>1, <1>2, <1>3, <1>4, CallTypes, CallerStep

\* A call begins with all its texts open; its bounds are never refused.
LEMMA CallStep ==
    ASSUME ProviderInv, NEW c \in Callers, Call(c)
    PROVE  ProviderInv'
<1>1. UNCHANGED <<setting, managed, capable, cached, rejections>> /\ calls[c].pending # <<>> /\ calls[c].made < MaxCalls
  BY DEF Call
<1>2. PICK n, batch : n = BatchEnd(calls[c].pending) /\ batch = SubSeq(calls[c].pending, 1, n)
  OBVIOUS
<1>3. calls[c].pending \in Seq(Sizes) /\ calls[c].made \in 0..MaxCalls
  BY CallTypes DEF CallRecord
<1>4. n \in 1..Len(calls[c].pending) /\ n \in 1..MaxItems /\ ManagedAccepts(batch)
  <2>1. n \in 1..Len(calls[c].pending) /\ n <= MaxItems
    BY <1>1, <1>2, <1>3, BatchEndFits
  <2> QED
    BY <1>1, <1>2, <1>3, <2>1, BatchIsAccepted, ProviderAssumption
<1>5. PICK rest, assigned : /\ rest = SubSeq(calls[c].pending, n + 1, Len(calls[c].pending))
                            /\ assigned = [i \in 1..n |-> "none"]
  OBVIOUS
<1>6. rest \in Seq(Sizes)
  <2>1. n + 1 \in Int /\ Len(calls[c].pending) \in Int /\ \A i \in (n + 1)..Len(calls[c].pending) : calls[c].pending[i] \in Sizes
    BY <1>3, <1>4, LenProperties
  <2> QED
    BY <1>5, <2>1, SubSeqProperties
<1>7. assigned \in Seq(Taxonomy \cup {"none"}) /\ assigned \in [1..n -> Taxonomy \cup {"none"}]
  <2>1. assigned \in [1..n -> Taxonomy \cup {"none"}] /\ n \in Nat
    BY <1>4, <1>5
  <2> QED
    BY <2>1, SeqDef
<1>8. PICK begun : begun = [IdleCall EXCEPT !.pending = rest, !.size = n, !.assigned = assigned,
                                            !.made = calls[c].made + 1]
  OBVIOUS
<1>9. /\ begun \in CallRecord /\ begun.phase = "idle" /\ begun.size = n /\ begun.assigned = assigned
      /\ begun.answered = <<>> /\ begun.usage = [requests |-> 0, reported |-> TRUE] /\ begun.said = {}
      /\ begun.mode = "prompt_json" /\ begun.refused = "none" /\ begun.at = 0
  <2>1. [requests |-> 0, reported |-> TRUE] \in Usage
    BY DEF Usage
  <2>2. 0 \in 0..MaxItems /\ n \in 0..MaxItems /\ calls[c].made + 1 \in 0..MaxCalls /\ <<>> \in Seq(BOOLEAN)
    BY <1>1, <1>3, <1>4, ProviderAssumption, EmptySeq
  <2> QED
    BY <1>6, <1>7, <1>8, <2>1, <2>2 DEF IdleCall, CallRecord, ResponseModes
<1>10. Assigned(begun)
  BY <1>5, <1>7, <1>9 DEF Assigned
<1>11. Counted(begun)
  <2>1. Len(begun.answered) = 0 /\ begun.usage.requests = 0 /\ begun.usage.reported = TRUE
    BY <1>9, EmptySeq
  <2>2. AllReported(begun)
    BY <2>1 DEF AllReported
  <2> QED
    BY <2>1, <2>2 DEF Counted
<1>12. PICK x : /\ calls' = [calls EXCEPT ![c] = x]
                /\ \/ x = [begun EXCEPT !.phase = "failed", !.refused = "rate"]
                   \/ x = NextText(begun)
                   \/ n # 1 /\ x = Sending(begun, "batch", "prompt_json")
  BY <1>2, <1>4, <1>5, <1>8 DEF Call
<1>13. CASE x = [begun EXCEPT !.phase = "failed", !.refused = "rate"]
  <2>1. /\ x \in CallRecord /\ x.phase = "failed" /\ x.size = n /\ x.assigned = begun.assigned /\ x.said = begun.said
        /\ x.usage = begun.usage /\ x.answered = begun.answered /\ x.refused = "rate"
    BY <1>9, <1>13 DEF CallRecord
  <2>2. GoodCall(x)
    BY <1>9, <1>10, <1>11, <2>1 DEF GoodCall, Assigned, Counted, AllReported, Running, Alone
  <2> QED
    BY <1>1, <1>12, <2>1, <2>2, CallTypes, CallerStep
<1>14. CASE x = NextText(begun)
  <2>1. x \in CallRecord /\ GoodCall(x) /\ (x.phase = "first" => x.mode = FirstMode)
    BY <1>4, <1>9, <1>10, <1>11, <1>14, CallTypes, NextTextIsOpen
  <2> QED
    BY <1>1, <1>12, <2>1, CallTypes, CallerStep
<1>15. CASE x = Sending(begun, "batch", "prompt_json")
  <2>1. /\ x \in CallRecord /\ x.phase = "batch" /\ x.size = n /\ x.assigned = begun.assigned /\ x.said = begun.said
        /\ x.usage = begun.usage /\ x.answered = begun.answered /\ x.refused = "none"
    BY <1>9, <1>15 DEF CallRecord, Sending, ResponseModes, Running
  <2>2. GoodCall(x)
    BY <1>4, <1>9, <1>10, <1>11, <2>1 DEF GoodCall, Assigned, Counted, AllReported, Running, Alone
  <2> QED
    BY <1>1, <1>12, <2>1, <2>2, CallTypes, CallerStep
<1> QED
  BY <1>12, <1>13, <1>14, <1>15

\* What an item list says of each text: the category of an item of its index.
LEMMA BatchIsSaid ==
    ASSUME NEW k \in Nat, NEW items \in [1..k -> Items], NEW n \in Nat
    PROVE  /\ ParseBatch(items, n) \in [1..n -> Taxonomy \cup {"none"}]
           /\ \A i \in 1..n : ParseBatch(items, n)[i] # "none" =>
                <<i, ParseBatch(items, n)[i]>> \in {<<items[j].index, items[j].category>> : j \in 1..k}
<1>1. Len(items) = k
  <2>1. items \in Seq(Items)
    BY SeqDef
  <2>2. Len(items) \in Nat /\ 1..Len(items) = 1..k
    BY <2>1, LenProperties
  <2> QED
    BY <2>2
<1>2. ASSUME NEW i \in 1..n
      PROVE  /\ ParseBatch(items, n)[i] \in Taxonomy \cup {"none"}
             /\ ParseBatch(items, n)[i] # "none" =>
                  \E j \in 1..k : items[j].index = i /\ ParseBatch(items, n)[i] = items[j].category
  <2> DEFINE named == {j \in 1..k : items[j].index = i}
  <2>1. CASE named = {}
    <3>1. ParseBatch(items, n)[i] = "none"
      BY <1>1, <2>1 DEF ParseBatch
    <3> QED
      BY <3>1
  <2>2. CASE named # {}
    <3>1. PICK first : first = CHOOSE j \in named : \A h \in named : j <= h
      OBVIOUS
    <3>2. first \in named
      <4>1. named \in SUBSET Nat
        OBVIOUS
      <4> HIDE DEF named
      <4>2. \E j \in named : \A h \in named : j <= h
        BY <2>2, <4>1, LeastElement
      <4> QED
        BY <3>1, <4>2
    <3>3. ParseBatch(items, n)[i] = IF items[first].category \in Taxonomy THEN items[first].category ELSE "none"
      <4> DEFINE listed == {j \in 1..Len(items) : items[j].index = i}
      <4>1. listed = named
        BY <1>1
      <4>2. first = CHOOSE j \in listed : \A h \in listed : j <= h
        BY <3>1, <4>1
      <4>3. listed # {}
        BY <2>2, <4>1
      <4>4. ParseBatch(items, n)[i] =
              IF listed = {} THEN "none"
              ELSE IF items[CHOOSE j \in listed : \A h \in listed : j <= h].category \in Taxonomy
                   THEN items[CHOOSE j \in listed : \A h \in listed : j <= h].category ELSE "none"
        BY Zenon DEF ParseBatch
      <4> HIDE DEF listed, named
      <4> QED
        BY <4>2, <4>3, <4>4
    <3> QED
      BY <3>2, <3>3
  <2> QED
    BY <2>1, <2>2
<1>3. ParseBatch(items, n) \in [1..n -> Taxonomy \cup {"none"}]
  <2>1. ParseBatch(items, n) = [i \in 1..n |-> ParseBatch(items, n)[i]]
    BY DEF ParseBatch
  <2> QED
    BY <1>2, <2>1
<1>4. ASSUME NEW i \in 1..n, ParseBatch(items, n)[i] # "none"
      PROVE  <<i, ParseBatch(items, n)[i]>> \in {<<items[j].index, items[j].category>> : j \in 1..k}
  <2>1. PICK j \in 1..k : items[j].index = i /\ ParseBatch(items, n)[i] = items[j].category
    BY <1>2, <1>4
  <2> QED
    BY <2>1
<1> QED
  BY <1>3, <1>4

LEMMA AnswerBatchStep ==
    ASSUME ProviderInv, NEW c \in Callers, AnswerBatch(c)
    PROVE  ProviderInv'
<1>1. UNCHANGED <<setting, managed, capable, cached, rejections>> /\ calls[c].phase = "batch"
  BY DEF AnswerBatch
<1>2. PICK reported \in BOOLEAN, k \in 0..2 : \E items \in [1..k -> Items] :
        calls' = [calls EXCEPT ![c] = NextText(
           [Answered(calls[c], reported) EXCEPT
               !.assigned = ParseBatch(items, Answered(calls[c], reported).size),
               !.said = {<<items[j].index, items[j].category>> : j \in 1..k}])]
  BY DEF AnswerBatch
<1>2a. PICK items \in [1..k -> Items] :
        calls' = [calls EXCEPT ![c] = NextText(
           [Answered(calls[c], reported) EXCEPT
               !.assigned = ParseBatch(items, Answered(calls[c], reported).size),
               !.said = {<<items[j].index, items[j].category>> : j \in 1..k}])]
  BY <1>2
<1>3. PICK call \in CallRecord : /\ call = Answered(calls[c], reported) /\ Counted(call)
                                /\ call.size = calls[c].size /\ call.refused = calls[c].refused
  BY CallTypes, AnsweredCounts
<1>4. PICK said, assigned : said = {<<items[j].index, items[j].category>> : j \in 1..k}
                            /\ assigned = ParseBatch(items, call.size)
  OBVIOUS
<1>5. call.size > 0 /\ call.size \in 0..MaxItems /\ call.size \in Nat /\ k \in Nat
  BY <1>1, <1>3, CallTypes, ProviderAssumption DEF GoodCall, Running, CallRecord
<1>6. /\ assigned \in [1..call.size -> Taxonomy \cup {"none"}] /\ assigned \in Seq(Taxonomy \cup {"none"})
      /\ \A i \in 1..call.size : assigned[i] # "none" => <<i, assigned[i]>> \in said
  <2>1. assigned \in [1..call.size -> Taxonomy \cup {"none"}]
    BY <1>4, <1>5, BatchIsSaid
  <2>2. assigned \in Seq(Taxonomy \cup {"none"})
    BY <1>5, <2>1, SeqDef
  <2>3. \A i \in 1..call.size : assigned[i] # "none" => <<i, assigned[i]>> \in said
    BY <1>4, <1>5, BatchIsSaid
  <2> QED
    BY <2>1, <2>2, <2>3
<1>7. said \in SUBSET (Nat \X (Taxonomy \cup {"unsupported"}))
  <2> SUFFICES ASSUME NEW j \in 1..k
               PROVE  <<items[j].index, items[j].category>> \in Nat \X (Taxonomy \cup {"unsupported"})
    BY <1>4
  <2>1. items[j] \in Items
    OBVIOUS
  <2>2. items[j].index \in Nat /\ items[j].category \in Taxonomy \cup {"unsupported"}
    BY <2>1, ProviderAssumption DEF Items
  <2> QED
    BY <2>2
<1>8. PICK y : y = [call EXCEPT !.assigned = assigned, !.said = said]
  OBVIOUS
<1>9. /\ y \in CallRecord /\ y.assigned = assigned /\ y.said = said /\ y.size = call.size
      /\ y.usage = call.usage /\ y.answered = call.answered /\ y.refused = call.refused
  BY <1>6, <1>7, <1>8 DEF CallRecord
<1>10. Assigned(y) /\ Counted(y) /\ y.refused # "bounds" /\ y.size > 0
  BY <1>3, <1>5, <1>6, <1>9, CallTypes DEF Assigned, Counted, AllReported, GoodCall
<1>11. PICK x : x = NextText(y) /\ calls' = [calls EXCEPT ![c] = x]
  BY <1>2a, <1>3, <1>4, <1>8
<1>12. x \in CallRecord /\ GoodCall(x) /\ (x.phase = "first" => x.mode = FirstMode)
  BY <1>9, <1>10, <1>11, CallTypes, NextTextIsOpen
<1> QED
  BY <1>1, <1>11, <1>12, CallTypes, CallerStep

LEMMA AnswerStep ==
    ASSUME ProviderInv, NEW c \in Callers, Answer(c)
    PROVE  ProviderInv'
<1>1. /\ UNCHANGED <<setting, managed, capable, rejections>> /\ calls[c].phase \in Alone
      /\ calls[c].mode = "structured" => capable
      /\ cached' = IF setting = "auto" /\ calls[c].phase = "first" THEN calls[c].mode ELSE cached
  BY DEF Answer, Alone
<1>2. PICK content \in Taxonomy \cup {"unsupported"}, reported \in BOOLEAN : TakeAnswer(c, content, reported)
  BY DEF Answer
<1>3. PICK call \in CallRecord :
        /\ call = Answered(calls[c], reported) /\ Counted(call)
        /\ call.phase = calls[c].phase /\ call.size = calls[c].size /\ call.at = calls[c].at
        /\ call.assigned = calls[c].assigned /\ call.said = calls[c].said /\ call.refused = calls[c].refused
  BY CallTypes, AnsweredCounts
<1>4. Assigned(call) /\ call.size > 0 /\ call.at \in 1..call.size /\ call.refused # "bounds"
  BY <1>1, <1>3, CallTypes DEF GoodCall, Assigned, Alone, Running
<1>5. cached' \in ResponseModes \cup {"none"} /\ calls[c].mode \in ResponseModes
  BY <1>1, CallTypes DEF CallRecord
<1>6. Hopeless => cached' # "structured" /\ (cached' = "none" => cached = "none")
  BY <1>1, <1>5, CallTypes DEF Hopeless, ResponseModes
<1>7. CASE content \in Taxonomy
  <2>1. PICK assigned, said : /\ assigned = [call.assigned EXCEPT ![call.at] = content]
                              /\ said = call.said \cup {<<call.at, content>>}
    OBVIOUS
  <2>2. PICK y : y = [call EXCEPT !.assigned = assigned, !.said = said]
    OBVIOUS
  <2>3. y = Settled(call, content)
    BY <2>1, <2>2 DEF Settled, CallRecord
  <2>4. /\ call.assigned \in [1..call.size -> Taxonomy \cup {"none"}] /\ call.size \in Nat
        /\ \A i \in 1..call.size : call.assigned[i] # "none" => <<i, call.assigned[i]>> \in call.said
    BY <1>4, ProviderAssumption DEF Assigned, CallRecord
  <2>5. /\ assigned \in [1..call.size -> Taxonomy \cup {"none"}] /\ assigned \in Seq(Taxonomy \cup {"none"})
        /\ assigned[call.at] = content /\ \A i \in (1..call.size) \ {call.at} : assigned[i] = call.assigned[i]
    BY <1>4, <1>7, <2>1, <2>4, SeqDef
  <2>6. \A i \in 1..call.size : assigned[i] # "none" => <<i, assigned[i]>> \in said
    BY <2>1, <2>4, <2>5
  <2>7. said \in SUBSET (Nat \X (Taxonomy \cup {"unsupported"}))
    <3>1. call.said \in SUBSET (Nat \X (Taxonomy \cup {"unsupported"})) /\ call.at \in Nat
      BY <1>4, <2>4 DEF CallRecord
    <3> QED
      BY <1>7, <2>1, <3>1
  <2>8. /\ y \in CallRecord /\ y.assigned = assigned /\ y.said = said /\ y.size = call.size
        /\ y.usage = call.usage /\ y.answered = call.answered /\ y.refused = call.refused
    BY <2>2, <2>5, <2>7 DEF CallRecord
  <2>9. Assigned(y) /\ Counted(y) /\ y.refused # "bounds" /\ y.size > 0
    BY <1>3, <1>4, <2>5, <2>6, <2>8 DEF Assigned, Counted, AllReported
  <2>10. PICK x : x = NextText(y) /\ calls' = [calls EXCEPT ![c] = x]
    BY <1>2, <1>3, <1>7, <2>3 DEF TakeAnswer
  <2>11. x \in CallRecord /\ GoodCall(x) /\ (x.phase = "first" => x.mode = FirstMode)
    BY <2>8, <2>9, <2>10, CallTypes, NextTextIsOpen
  <2> QED
    BY <1>1, <1>5, <1>6, <2>10, <2>11, CallTypes, CallerStep
<1>8. CASE content \notin Taxonomy
  <2>1. PICK x : /\ calls' = [calls EXCEPT ![c] = x]
                 /\ \/ x = [call EXCEPT !.phase = "failed"]
                    \/ x = [call EXCEPT !.phase = "repair", !.mode = "prompt_json"]
    BY <1>2, <1>3, <1>8 DEF TakeAnswer, Sending
  <2>2. /\ x \in CallRecord /\ x.size = call.size /\ x.at = call.at /\ x.assigned = call.assigned /\ x.said = call.said
        /\ x.usage = call.usage /\ x.answered = call.answered /\ x.refused = call.refused
        /\ x.phase = "failed" \/ (x.phase = "repair" /\ x.mode = "prompt_json")
    BY <2>1 DEF CallRecord, ResponseModes, Running
  <2>3. GoodCall(x)
    <3>1. Assigned(x) /\ Counted(x)
      BY <1>3, <1>4, <2>2 DEF Assigned, Counted, AllReported
    <3> QED
      BY <1>4, <2>2, <3>1 DEF GoodCall, Alone
  <2> QED
    BY <1>1, <1>5, <1>6, <2>1, <2>2, <2>3, CallTypes, CallerStep
<1> QED
  BY <1>7, <1>8

LEMMA RejectStep ==
    ASSUME ProviderInv, NEW c \in Callers, Reject(c)
    PROVE  ProviderInv'
<1>1. /\ UNCHANGED <<setting, managed, capable>> /\ calls[c].phase \in Alone
      /\ rejections' = rejections + (IF ~capable /\ calls[c].mode = "structured" THEN 1 ELSE 0)
  BY DEF Reject, Alone
<1>2. calls[c].mode \in ResponseModes /\ calls[c].size > 0
  BY <1>1, CallTypes DEF CallRecord, GoodCall, Alone, Running
<1>3. rejections' \in Nat
  BY <1>1, CallTypes
<1>4. CASE setting = "auto" /\ calls[c].phase = "first"
  <2>1. cached' = "prompt_json"
    BY <1>4 DEF Reject
  <2>2. PICK x : x = [calls[c] EXCEPT !.phase = "retry", !.mode = "prompt_json"] /\ calls' = [calls EXCEPT ![c] = x]
    BY <1>4 DEF Reject, Sending
  <2>3. /\ x \in CallRecord /\ x.phase = "retry" /\ x.mode = "prompt_json" /\ x.size = calls[c].size /\ x.at = calls[c].at
        /\ x.assigned = calls[c].assigned /\ x.said = calls[c].said /\ x.usage = calls[c].usage
        /\ x.answered = calls[c].answered /\ x.refused = calls[c].refused
    BY <2>2, CallTypes DEF CallRecord, ResponseModes, Running
  <2>4. Assigned(x) /\ Counted(x)
    BY <2>3, CallTypes DEF Assigned, Counted, AllReported
  <2>5. GoodCall(x)
    BY <1>1, <1>2, <2>3, <2>4, CallTypes DEF GoodCall, Alone
  <2>6. \/ rejections' = rejections /\ ~(x.phase = "first" /\ x.mode = "structured")
        \/ rejections' = rejections + 1 /\ c \in Eager /\ x.phase # "first"
    BY <1>1, <1>4, <2>3, CallTypes DEF Eager
  <2> QED
    BY <1>1, <1>3, <2>1, <2>2, <2>3, <2>5, <2>6, CallerStep DEF ResponseModes
<1>5. CASE ~(setting = "auto" /\ calls[c].phase = "first")
  <2>1. cached' = cached
    BY <1>5 DEF Reject
  <2>2. PICK x : x = [calls[c] EXCEPT !.phase = "failed", !.refused = calls[c].mode] /\ calls' = [calls EXCEPT ![c] = x]
    BY <1>5 DEF Reject
  <2>3. /\ x \in CallRecord /\ x.phase = "failed" /\ x.size = calls[c].size
        /\ x.assigned = calls[c].assigned /\ x.said = calls[c].said /\ x.usage = calls[c].usage
        /\ x.answered = calls[c].answered /\ x.refused = calls[c].mode
    BY <1>2, <2>2, CallTypes DEF CallRecord
  <2>4. Assigned(x) /\ Counted(x)
    BY <2>3, CallTypes DEF Assigned, Counted, AllReported
  <2>5. GoodCall(x)
    BY <1>2, <2>3, <2>4 DEF GoodCall, Running, Alone, ResponseModes
  <2>6. Hopeless => rejections' = rejections
    BY <1>1, <1>5, CallTypes DEF Hopeless, GoodCall, Alone
  <2> QED
    BY <1>1, <1>3, <2>1, <2>2, <2>3, <2>5, <2>6, CallTypes, CallerStep
<1> QED
  BY <1>4, <1>5

LEMMA ProviderNextInv == ProviderInv /\ [ProviderNext]_providerVars => ProviderInv'
<1> SUFFICES ASSUME ProviderInv, [ProviderNext]_providerVars PROVE ProviderInv'
  OBVIOUS
<1>1. CASE UNCHANGED providerVars
  <2>1. UNCHANGED <<setting, managed, capable, cached, calls, rejections>>
    BY <1>1 DEF providerVars
  <2>2. ProviderTypeOK' /\ (\A c \in Callers : GoodCall(calls'[c]))
    BY <2>1 DEF ProviderInv, ProviderTypeOK
  <2>3. Learned'
    BY <2>1 DEF ProviderInv, Learned, Hopeless, Eager
  <2> QED
    BY <2>2, <2>3 DEF ProviderInv
<1>2. ASSUME NEW c \in Callers,
             Collect(c) \/ Call(c) \/ AnswerBatch(c) \/ Answer(c) \/ Reject(c) \/ Fail(c)
      PROVE  ProviderInv'
  BY <1>2, CollectStep, CallStep, AnswerBatchStep, AnswerStep, RejectStep, FailStep
<1> QED
  BY <1>1, <1>2 DEF ProviderNext

\* What a call has collected keeps its type, through batch, rest and repair.
THEOREM ProviderTypeCorrect == ProviderSpec => []ProviderTypeOK
<1>1. ProviderInv => ProviderTypeOK
  BY DEF ProviderInv
<1> QED
  BY <1>1, ProviderInitInv, ProviderNextInv, PTL DEF ProviderSpec

\* A call that succeeds has for each of its texts a category the provider gave
\* for this text, and a usage that counts every answer once
\* (parse_batch_assignments, classify_batch).
THEOREM AnswersTheTextSafe == ProviderSpec => []AnswersTheText
<1>1. ProviderInv => AnswersTheText
  <2> SUFFICES ASSUME ProviderInv, NEW c \in Callers, calls[c].phase = "done"
               PROVE  /\ \A i \in 1..calls[c].size :
                           /\ calls[c].assigned[i] # "none"
                           /\ <<i, calls[c].assigned[i]>> \in calls[c].said
                      /\ calls[c].usage.requests = Len(calls[c].answered)
                      /\ calls[c].usage.reported <=> \A k \in 1..Len(calls[c].answered) : calls[c].answered[k]
    BY DEF AnswersTheText
  <2>1. AllSettled(calls[c]) /\ Assigned(calls[c]) /\ Counted(calls[c])
    BY CallTypes DEF GoodCall
  <2>2. calls[c].usage.reported \in BOOLEAN
    BY CallTypes DEF CallRecord, Usage
  <2>3. calls[c].usage.reported <=> AllReported(calls[c])
    <3>1. calls[c].usage.reported <=> calls[c].usage.reported = TRUE
      BY <2>2
    <3> QED
      BY <2>1, <3>1 DEF Counted
  <2> QED
    BY <2>1, <2>3 DEF AllSettled, Assigned, Counted, AllReported
<1> QED
  BY <1>1, ProviderInitInv, ProviderNextInv, PTL DEF ProviderSpec

\* In auto mode an incapable provider refuses response_format at most once for
\* each caller (response_mode_cache).
THEOREM RejectionIsLearnedSafe == ProviderSpec => []RejectionIsLearned
<1>1. ProviderInv => RejectionIsLearned
  <2> SUFFICES ASSUME ProviderInv, Hopeless PROVE rejections <= Cardinality(Callers)
    BY DEF RejectionIsLearned, Hopeless
  <2>1. rejections + Cardinality(Eager) <= Cardinality(Callers) /\ rejections \in Nat
    BY DEF ProviderInv, ProviderTypeOK, Learned
  <2>2. Eager \in SUBSET Callers
    BY DEF Eager
  <2>3. Cardinality(Eager) \in Nat /\ Cardinality(Callers) \in Nat
    BY <2>2, FS_Subset, FS_CardinalityType, ProviderAssumption
  <2> QED
    BY <2>1, <2>3
<1> QED
  BY <1>1, ProviderInitInv, ProviderNextInv, PTL DEF ProviderSpec

\* No managed batch was refused for its bounds.
BatchesAreAccepted == \A c \in Callers : calls[c].refused # "bounds"

\* The server never refuses a client's batch for its bounds: classify_turns and
\* managed_classify_batch count texts and bytes alike, and normalize_intent
\* keeps every single text below the bound for one.
THEOREM BatchesAreAcceptedSafe == ProviderSpec => []BatchesAreAccepted
<1>1. ProviderInv => BatchesAreAccepted
  BY DEF ProviderInv, GoodCall, BatchesAreAccepted
<1> QED
  BY <1>1, ProviderInitInv, ProviderNextInv, PTL DEF ProviderSpec

-----------------------------------------------------------------------------
(* Classification                                                          *)

\* The turns of a scan that have no answer yet: not visited, waiting for the
\* turn before them, or to be asked about.
OpenTurn(scan, i) ==
    \/ i >= scan.next \/ i \in scan.deferred
    \/ \E j \in 1..Len(scan.pending) : scan.pending[j].turn = i

\* A key of the scan's classifier for its turn i.
KeyOfTurn(scan, i, key) ==
    /\ key.classifier = scan.classifier
    /\ \E previous \in Seq(Assignment) : key.text = Digested(scan.turns[i], previous)

\* An open turn has no category; what is pending is asked in the name of the
\* scan's classifier, once for each turn.
InOrder(scan) ==
    /\ scan.turns # <<>> /\ scan.results \in [1..Len(scan.turns) -> Result]
    /\ scan.next \in 1..(Len(scan.turns) + 1) /\ scan.deferred \subseteq 2..(scan.next - 1)
    /\ \A j \in 1..Len(scan.pending) :
         /\ scan.pending[j].turn \in 1..(scan.next - 1) /\ scan.pending[j].turn \notin scan.deferred
         /\ KeyOfTurn(scan, scan.pending[j].turn, scan.pending[j].key)
    /\ \A j, h \in 1..Len(scan.pending) : scan.pending[j].turn = scan.pending[h].turn => j = h
    /\ \A i \in 1..Len(scan.turns) : OpenTurn(scan, i) =>
         ~scan.results[i].cached /\ scan.results[i].method = "none" /\ scan.results[i].assignment.status # "classified"

\* A settled turn with this assignment.
Source(scan, last, assignment) ==
    \E j \in 1..last : ~OpenTurn(scan, j) /\ scan.results[j].assignment = assignment

TurnExplained(scan, i) ==
    /\ scan.results[i].method # "none" <=> scan.results[i].assignment.status = "classified"
    /\ scan.results[i].method = "inherited" => Source(scan, i - 1, scan.results[i].assignment)

\* With a classifier configured, settled turns are explained and the
\* assignment to inherit is that of a settled turn.
Explained(scan) ==
    scan.classifier # Missing =>
      /\ scan.previous # <<>> => /\ Head(scan.previous).status = "classified"
                                /\ Source(scan, scan.next - 1, Head(scan.previous))
      /\ \A i \in 1..Len(scan.turns) : ~OpenTurn(scan, i) => TurnExplained(scan, i)

Given(all, by, intent, assignment) ==
    \E a \in all : a.classifier = by /\ a.assignment = assignment /\ Alike(a.intent, intent)

CacheAnswered(scan, all) ==
    \A i \in 1..Len(scan.turns) : scan.results[i].cached =>
        Given(all, scan.classifier, scan.turns[i].intent, scan.results[i].assignment)

GoodScan(scan, all) ==
    IF scan.phase = "idle" THEN scan.results = <<>>
    ELSE /\ InOrder(scan) /\ Explained(scan) /\ CacheAnswered(scan, all)
         /\ scan.phase \in {"asking", "queued"} => scan.next = Len(scan.turns) + 1
         /\ scan.phase = "queued" => scan.pending = <<>> /\ scan.deferred = {}

\* What is cached was answered, and a classifier answers with a category.
CacheOfAnswers ==
    /\ \A e \in cache : \E a \in answers, turn \in Turn, previous \in Seq(Assignment) :
         /\ a.classifier = e.key.classifier /\ a.assignment = e.assignment /\ a.intent = turn.intent
         /\ e.key.text = Digested(turn, previous)
    /\ \A a \in answers : a.classifier # Missing => a.assignment.status = "classified"

ClassificationInv ==
    /\ ClassificationTypeOK /\ CacheOfAnswers
    /\ \A p \in Scanners : GoodScan(scans[p], answers)

LEMMA AssignmentShapes ==
    /\ Unavailable \in Assignment /\ Failed \in Assignment /\ NoInput \in Assignment
    /\ Unavailable.status # "classified" /\ Failed.status # "classified" /\ NoInput.status # "classified"
    /\ \A k \in Categories : Classified(k) \in Assignment /\ Classified(k).status = "classified"
    /\ Unsettled \in Result /\ Unsettled.cached = FALSE /\ Unsettled.method = "none"
    /\ Unsettled.assignment = Unavailable
<1>1. Unavailable \in Assignment /\ Failed \in Assignment /\ NoInput \in Assignment
  BY ClassificationAssumption DEF Unavailable, Failed, NoInput, Assignment
<1>2. Unavailable.status # "classified" /\ Failed.status # "classified" /\ NoInput.status # "classified"
  BY DEF Unavailable, Failed, NoInput
<1>3. \A k \in Categories : Classified(k) \in Assignment /\ Classified(k).status = "classified"
  BY DEF Classified, Assignment
<1>4. /\ Unsettled \in Result /\ Unsettled.cached = FALSE /\ Unsettled.method = "none"
      /\ Unsettled.assignment = Unavailable
  BY <1>1 DEF Unsettled, Result
<1> QED
  BY <1>1, <1>2, <1>3, <1>4

\* What a key is made of: an intent, perhaps a signal, perhaps a category.
LEMMA DigestedParts ==
    ASSUME NEW turn \in Turn, NEW previous \in Seq(Assignment)
    PROVE  /\ Digested(turn, previous) \in Seq(Words) /\ turn.intent \in Seq(Words)
           /\ \A i \in 1..Len(turn.intent) : turn.intent[i] # "signal"
           /\ \E work \in {turn.intent, Append(turn.intent, "signal")} :
                \/ Digested(turn, previous) = work
                \/ \E c \in Categories : Digested(turn, previous) = Append(work, c)
<1>1. turn.intent \in Seq(Words)
  <2>1. <<"none">> \in Seq(Words) /\ <<"continue">> \in Seq(Words)
    BY ClassificationAssumption
  <2> QED
    BY <2>1, EmptySeq, ClassificationAssumption DEF Turn, Intents, NoText, Continue
<1>2. \A i \in 1..Len(turn.intent) : turn.intent[i] # "signal"
  <2>1. turn.intent \in Texts \/ turn.intent = <<"none">> \/ turn.intent = <<>> \/ turn.intent = Continue
    BY DEF Turn, Intents, NoText
  <2>2. CASE turn.intent \in Texts
    <3>1. DOMAIN turn.intent = 1..Len(turn.intent)
      BY <1>1, LenProperties
    <3> QED
      BY <2>2, <3>1, ClassificationAssumption
  <2>3. CASE turn.intent = <<>>
    BY <2>3
  <2>4. CASE turn.intent = <<"none">> \/ turn.intent = Continue
    <3>1. /\ Len(<<"none">>) = 1 /\ <<"none">>[1] # "signal"
          /\ Len(<<"continue">>) = 1 /\ <<"continue">>[1] # "signal"
      OBVIOUS
    <3>2. \A i \in 1..1 : i = 1
      OBVIOUS
    <3> QED
      BY <2>4, <3>1, <3>2 DEF Continue
  <2> QED
    BY <2>1, <2>2, <2>3, <2>4
<1>3. PICK work : work = IF turn.signals THEN Append(turn.intent, "signal") ELSE turn.intent
  OBVIOUS
<1>4. work \in {turn.intent, Append(turn.intent, "signal")} /\ work \in Seq(Words)
  <2>1. "signal" \in Words
    BY ClassificationAssumption
  <2> QED
    BY <1>1, <1>3, <2>1, AppendProperties
<1>5. Digested(turn, previous) = IF previous = <<>> THEN work ELSE Append(work, Head(previous).category)
  BY <1>3 DEF Digested
<1>6. previous # <<>> => Head(previous).category \in Categories
  <2>1. previous # <<>> => Head(previous) \in Assignment
    BY HeadTailProperties
  <2> QED
    BY <2>1 DEF Assignment
<1>7. Digested(turn, previous) \in Seq(Words)
  <2>1. previous # <<>> => Head(previous).category \in Words
    BY <1>6, ClassificationAssumption
  <2> QED
    BY <1>4, <1>5, <2>1, AppendProperties
<1> QED
  BY <1>1, <1>2, <1>4, <1>5, <1>6, <1>7

\* A text that ends in a signal is no intent.
LEMMA NoSignalInIntent ==
    ASSUME NEW a \in Seq(Words), NEW b \in Seq(Words), \A i \in 1..Len(b) : b[i] # "signal"
    PROVE  /\ Append(a, "signal") # b
           /\ \A c \in Words : Append(Append(a, "signal"), c) # b
<1>1. /\ Append(a, "signal") \in Seq(Words) /\ Len(a) \in Nat /\ Len(Append(a, "signal")) = Len(a) + 1
      /\ Append(a, "signal")[Len(a) + 1] = "signal"
  BY AppendProperties, LenProperties, ClassificationAssumption
<1>2. Append(a, "signal") # b
  BY <1>1
<1>3. ASSUME NEW c \in Words PROVE Append(Append(a, "signal"), c) # b
  <2>1. /\ Len(Append(Append(a, "signal"), c)) = Len(a) + 2
        /\ Append(Append(a, "signal"), c)[Len(a) + 1] = "signal"
    BY <1>1, AppendProperties
  <2> QED
    BY <1>1, <2>1
<1> QED
  BY <1>2, <1>3

\* One key, two turns: their intents are alike.
LEMMA KeysRunTogether ==
    ASSUME NEW t \in Turn, NEW u \in Turn, NEW before \in Seq(Assignment), NEW last \in Seq(Assignment),
           Digested(t, before) = Digested(u, last)
    PROVE  Alike(t.intent, u.intent)
<1>1. PICK x, y : x = t.intent /\ y = u.intent
  OBVIOUS
<1>2. /\ x \in Seq(Words) /\ y \in Seq(Words) /\ Categories \subseteq Words \ {"signal"}
      /\ \A i \in 1..Len(x) : x[i] # "signal"
      /\ \A i \in 1..Len(y) : y[i] # "signal"
  BY <1>1, DigestedParts, ClassificationAssumption
<1>3. PICK v \in {x, Append(x, "signal")} : \/ Digested(t, before) = v
                                           \/ \E c \in Categories : Digested(t, before) = Append(v, c)
  BY <1>1, DigestedParts
<1>4. PICK w \in {y, Append(y, "signal")} : \/ Digested(u, last) = w
                                           \/ \E c \in Categories : Digested(u, last) = Append(w, c)
  BY <1>1, DigestedParts
<1>5. /\ v \in Seq(Words) /\ w \in Seq(Words) /\ \A c \in Categories : c \in Words /\ c # "signal"
      /\ "signal" \in Words
  <2>1. "signal" \in Words /\ \A c \in Categories : c \in Words /\ c # "signal"
    BY ClassificationAssumption
  <2>2. Append(x, "signal") \in Seq(Words) /\ Append(y, "signal") \in Seq(Words)
    BY <1>2, <2>1, AppendProperties
  <2> QED
    BY <1>2, <1>3, <1>4, <2>1, <2>2
<1>6. v = w => x = y
  BY <1>2, <1>5, AppendInjective, NoSignalInIntent
<1>7. ASSUME NEW c \in Categories, v = Append(w, c) PROVE x = Append(y, c)
  <2>1. v = x
    BY <1>2, <1>5, <1>7, AppendInjective
  <2>2. w = y
    BY <1>2, <1>5, <1>7, <2>1, NoSignalInIntent
  <2> QED
    BY <1>7, <2>1, <2>2
<1>8. ASSUME NEW c \in Categories, w = Append(v, c) PROVE y = Append(x, c)
  <2>1. w = y
    BY <1>2, <1>5, <1>8, AppendInjective
  <2>2. v = x
    BY <1>2, <1>5, <1>8, <2>1, NoSignalInIntent
  <2> QED
    BY <1>8, <2>1, <2>2
<1>9. \/ v = w \/ \E c \in Categories : v = Append(w, c) \/ w = Append(v, c)
  <2>1. ASSUME NEW c \in Categories, NEW d \in Categories, Append(v, c) = Append(w, d) PROVE v = w
    BY <1>5, <2>1, AppendInjective
  <2> QED
    BY <1>3, <1>4, <2>1
<1> QED
  BY <1>1, <1>6, <1>7, <1>8, <1>9 DEF Alike

LEMMA ScanTypes ==
    ASSUME ClassificationInv, NEW p \in Scanners
    PROVE  /\ scans[p] \in ScanRecord /\ GoodScan(scans[p], answers)
           /\ scans[p].phase # "idle" =>
                InOrder(scans[p]) /\ Explained(scans[p]) /\ CacheAnswered(scans[p], answers)
           /\ turns \in Seq(Turn) /\ classifier \in Configurations
BY DEF ClassificationInv, ClassificationTypeOK, GoodScan

LEMMA ClassificationInitInv == ClassificationInit => ClassificationInv
<1> SUFFICES ASSUME ClassificationInit PROVE ClassificationInv
  OBVIOUS
<1>1. IdleScan \in ScanRecord /\ GoodScan(IdleScan, answers)
  <2>1. /\ <<>> \in Seq(Turn) /\ <<>> \in Seq(Assignment) /\ <<>> \in Seq(Result)
        /\ <<>> \in Seq([turn : Nat, key : Key])
    BY EmptySeq
  <2> QED
    BY <2>1 DEF IdleScan, ScanRecord, Configurations, GoodScan
<1>2. ClassificationTypeOK
  <2>1. <<>> \in Seq(Turn) /\ 0 \in 0..MaxSwitches
    BY EmptySeq, ClassificationAssumption
  <2> QED
    BY <1>1, <2>1 DEF ClassificationInit, ClassificationTypeOK
<1> QED
  BY <1>1, <1>2 DEF ClassificationInit, ClassificationInv, CacheOfAnswers

\* One scanner goes on, and there is no new answer.
LEMMA ScannerStep ==
    ASSUME ClassificationInv, NEW p \in Scanners, NEW x \in ScanRecord, GoodScan(x, answers),
           scans' = [scans EXCEPT ![p] = x], UNCHANGED <<turns, classifier, switches, cache, answers>>
    PROVE  ClassificationInv'
<1>1. scans' \in [Scanners -> ScanRecord] /\ scans'[p] = x /\ \A q \in Scanners \ {p} : scans'[q] = scans[q]
  BY DEF ClassificationInv, ClassificationTypeOK
<1>2. ClassificationTypeOK'
  BY <1>1 DEF ClassificationInv, ClassificationTypeOK
<1>3. \A q \in Scanners : GoodScan(scans'[q], answers')
  BY <1>1 DEF ClassificationInv
<1>4. CacheOfAnswers'
  BY DEF ClassificationInv, CacheOfAnswers
<1> QED
  BY <1>2, <1>3, <1>4 DEF ClassificationInv

\* Only the phase changes.
LEMMA SameScan ==
    ASSUME NEW s, NEW x, NEW all, x.turns = s.turns, x.classifier = s.classifier, x.next = s.next,
           x.previous = s.previous, x.results = s.results, x.pending = s.pending, x.deferred = s.deferred
    PROVE  /\ InOrder(x) <=> InOrder(s)
           /\ Explained(x) <=> Explained(s)
           /\ CacheAnswered(x, all) <=> CacheAnswered(s, all)
<1>1. \A i : OpenTurn(x, i) <=> OpenTurn(s, i)
  BY DEF OpenTurn
<1>2. InOrder(x) <=> InOrder(s)
  <2>1. \A i, key : KeyOfTurn(x, i, key) <=> KeyOfTurn(s, i, key)
    BY DEF KeyOfTurn
  <2> QED
    BY <1>1, <2>1 DEF InOrder
<1>3. \A last, assignment : Source(x, last, assignment) <=> Source(s, last, assignment)
  BY <1>1 DEF Source
<1>4. \A i : TurnExplained(x, i) <=> TurnExplained(s, i)
  BY <1>3 DEF TurnExplained
<1>5. Explained(x) <=> Explained(s)
  BY <1>1, <1>3, <1>4 DEF Explained
<1>6. CacheAnswered(x, all) <=> CacheAnswered(s, all)
  BY DEF CacheAnswered
<1> QED
  BY <1>2, <1>5, <1>6

LEMMA StartScanStep ==
    ASSUME ClassificationInv, NEW p \in Scanners, StartScan(p)
    PROVE  ClassificationInv'
<1>1. UNCHANGED <<turns, classifier, switches, cache, answers>> /\ turns # <<>> /\ turns \in Seq(Turn)
  BY ScanTypes DEF StartScan
<1>2. Len(turns) \in Nat \ {0}
  BY <1>1, EmptySeq
<1>3. PICK results : results = [i \in 1..Len(turns) |-> Unsettled]
  OBVIOUS
<1>4. results \in [1..Len(turns) -> Result] /\ results \in Seq(Result)
  <2>1. results \in [1..Len(turns) -> Result]
    BY <1>3, AssignmentShapes
  <2> QED
    BY <1>2, <2>1, SeqDef
<1>5. PICK x : /\ scans' = [scans EXCEPT ![p] = x]
               /\ x = [IdleScan EXCEPT !.phase = "walking", !.classifier = classifier, !.turns = turns,
                                       !.results = results]
  BY <1>3 DEF StartScan
<1>6. /\ x \in ScanRecord /\ x.phase = "walking" /\ x.turns = turns /\ x.next = 1 /\ x.previous = <<>>
      /\ x.results = results /\ x.pending = <<>> /\ x.deferred = {}
  <2>1. <<>> \in Seq(Assignment) /\ <<>> \in Seq([turn : Nat, key : Key])
    BY EmptySeq
  <2> QED
    BY <1>4, <1>5, <2>1, ScanTypes DEF IdleScan, ScanRecord
<1>7. \A i \in 1..Len(turns) : OpenTurn(x, i) /\ results[i] = Unsettled
  BY <1>2, <1>3, <1>6 DEF OpenTurn
<1>8. Len(x.pending) = 0
  BY <1>6, EmptySeq
<1>9. InOrder(x)
  BY <1>1, <1>2, <1>4, <1>6, <1>7, <1>8, AssignmentShapes DEF InOrder
<1>10. Explained(x) /\ CacheAnswered(x, answers)
  BY <1>6, <1>7, AssignmentShapes DEF Explained, CacheAnswered
<1>11. GoodScan(x, answers)
  BY <1>6, <1>9, <1>10 DEF GoodScan
<1> QED
  BY <1>1, <1>5, <1>6, <1>11, ScannerStep

LEMMA EndWalkStep ==
    ASSUME ClassificationInv, NEW p \in Scanners, EndWalk(p)
    PROVE  ClassificationInv'
<1>1. /\ UNCHANGED <<turns, classifier, switches, cache, answers>>
      /\ scans[p].phase = "walking" /\ scans[p].next > Len(scans[p].turns)
  BY DEF EndWalk
<1>2. PICK x : x = [scans[p] EXCEPT !.phase = "asking"] /\ scans' = [scans EXCEPT ![p] = x]
  BY DEF EndWalk
<1>3. /\ x \in ScanRecord /\ x.phase = "asking" /\ x.turns = scans[p].turns /\ x.classifier = scans[p].classifier
      /\ x.next = scans[p].next /\ x.previous = scans[p].previous /\ x.results = scans[p].results
      /\ x.pending = scans[p].pending /\ x.deferred = scans[p].deferred
  BY <1>2, ScanTypes DEF ScanRecord
<1>4. InOrder(x) /\ Explained(x) /\ CacheAnswered(x, answers)
  BY <1>1, <1>3, ScanTypes, SameScan
<1>5. x.next = Len(x.turns) + 1
  <2>1. x.turns \in Seq(Turn)
    BY <1>3 DEF ScanRecord
  <2>2. Len(x.turns) \in Nat
    BY <2>1, LenProperties
  <2> QED
    BY <1>1, <1>3, <1>4, <2>2 DEF InOrder
<1>6. GoodScan(x, answers)
  BY <1>3, <1>4, <1>5 DEF GoodScan
<1> QED
  BY <1>1, <1>2, <1>3, <1>6, ScannerStep

\* A scan on its walk with a turn in hand.
Visiting(s, all) ==
    /\ s \in ScanRecord /\ s.phase = "walking" /\ s.next <= Len(s.turns)
    /\ InOrder(s) /\ Explained(s) /\ CacheAnswered(s, all)

LEMMA VisitedTurn ==
    ASSUME NEW s, NEW all, Visiting(s, all)
    PROVE  /\ Len(s.turns) \in Nat /\ s.next \in 1..Len(s.turns) /\ s.next \in Nat
           /\ s.turns[s.next] \in Turn /\ s.results \in [1..Len(s.turns) -> Result]
           /\ OpenTurn(s, s.next) /\ Len(s.pending) \in Nat
           /\ s.next \notin s.deferred /\ \A j \in 1..Len(s.pending) : s.pending[j].turn # s.next
<1>1. s.turns \in Seq(Turn) /\ s.next \in Nat /\ s.pending \in Seq([turn : Nat, key : Key])
  BY DEF Visiting, ScanRecord
<1>2. Len(s.turns) \in Nat /\ Len(s.pending) \in Nat
  BY <1>1, LenProperties
<1>3. s.next \in 1..Len(s.turns)
  BY <1>1, <1>2 DEF Visiting, InOrder
<1>4. s.turns[s.next] \in Turn
  BY <1>1, <1>3, LenProperties
<1> QED
  BY <1>1, <1>2, <1>3, <1>4 DEF Visiting, InOrder, OpenTurn

\* The turn in hand gets its result.
LEMMA SettledHere ==
    ASSUME NEW s, NEW all, Visiting(s, all), NEW x \in ScanRecord, NEW r \in Result,
           x.phase = "walking", x.turns = s.turns, x.classifier = s.classifier, x.pending = s.pending,
           x.deferred = s.deferred, x.next = s.next + 1, x.results = [s.results EXCEPT ![s.next] = r],
           \/ x.previous = s.previous
           \/ x.previous = <<r.assignment>> /\ (s.classifier # Missing => r.assignment.status = "classified"),
           r.cached => Given(all, s.classifier, s.turns[s.next].intent, r.assignment),
           s.classifier # Missing =>
             /\ r.method # "none" <=> r.assignment.status = "classified"
             /\ r.method = "inherited" => s.previous # <<>> /\ r.assignment = Head(s.previous)
    PROVE  GoodScan(x, all)
<1>1. /\ Len(s.turns) \in Nat /\ s.next \in 1..Len(s.turns) /\ s.results \in [1..Len(s.turns) -> Result]
      /\ s.next \notin s.deferred /\ \A j \in 1..Len(s.pending) : s.pending[j].turn # s.next
  BY VisitedTurn
<1>2. \A i \in 1..Len(s.turns) : OpenTurn(x, i) <=> OpenTurn(s, i) /\ i # s.next
  BY <1>1 DEF OpenTurn
<1>3. /\ x.results \in [1..Len(s.turns) -> Result] /\ x.results[s.next] = r
      /\ \A i \in (1..Len(s.turns)) \ {s.next} : x.results[i] = s.results[i]
  BY <1>1
<1>4. InOrder(x)
  <2>1. InOrder(s)
    BY DEF Visiting
  <2>2. x.next \in 1..(Len(x.turns) + 1) /\ s.next \in Nat /\ 2..(s.next - 1) \subseteq 2..(x.next - 1)
    BY <1>1
  <2>3. \A j \in 1..Len(x.pending) : x.pending[j].turn \in 1..(x.next - 1)
    BY <1>1, <2>1 DEF InOrder
  <2>4. x.deferred \subseteq 2..(x.next - 1)
    BY <2>1, <2>2 DEF InOrder
  <2>5. \A i, key : KeyOfTurn(x, i, key) <=> KeyOfTurn(s, i, key)
    BY DEF KeyOfTurn
  <2> QED
    BY <1>2, <1>3, <2>1, <2>2, <2>3, <2>4, <2>5 DEF InOrder
<1>5. \A last \in 0..(s.next - 1) : \A assignment : Source(s, last, assignment) => Source(x, last, assignment)
  BY <1>1, <1>2, <1>3 DEF Source
<1>6. Explained(x)
  <2> SUFFICES ASSUME s.classifier # Missing
               PROVE  /\ x.previous # <<>> => /\ Head(x.previous).status = "classified"
                                             /\ Source(x, x.next - 1, Head(x.previous))
                      /\ \A i \in 1..Len(x.turns) : ~OpenTurn(x, i) => TurnExplained(x, i)
    BY DEF Explained
  <2>1. /\ s.previous # <<>> => /\ Head(s.previous).status = "classified"
                               /\ Source(s, s.next - 1, Head(s.previous))
        /\ \A i \in 1..Len(s.turns) : ~OpenTurn(s, i) => TurnExplained(s, i)
    BY DEF Visiting, Explained
  <2>2. ~OpenTurn(x, s.next)
    BY <1>1, <1>2
  <2>3. ASSUME NEW i \in 1..Len(x.turns), ~OpenTurn(x, i) PROVE TurnExplained(x, i)
    <3>1. CASE i = s.next
      BY <1>1, <1>3, <1>5, <2>1, <3>1 DEF TurnExplained
    <3>2. CASE i # s.next
      <4>1. TurnExplained(s, i) /\ x.results[i] = s.results[i]
        BY <1>2, <1>3, <2>1, <2>3, <3>2
      <4>2. i - 1 \in 0..(s.next - 1)
        BY <1>1, <1>2, <2>3, <3>2 DEF OpenTurn
      <4> QED
        BY <1>5, <4>1, <4>2 DEF TurnExplained
    <3> QED
      BY <3>1, <3>2
  <2>4. CASE x.previous = s.previous
    <3>1. x.previous # <<>> => Source(x, s.next - 1, Head(x.previous))
      BY <1>1, <1>5, <2>1, <2>4
    <3>2. x.previous # <<>> => Source(x, x.next - 1, Head(x.previous))
      BY <1>1, <3>1 DEF Source
    <3> QED
      BY <2>1, <2>3, <2>4, <3>2
  <2>5. CASE x.previous = <<r.assignment>> /\ r.assignment.status = "classified"
    <3>1. Head(x.previous) = r.assignment
      BY <2>5
    <3>2. Source(x, x.next - 1, Head(x.previous))
      BY <1>1, <1>3, <2>2, <3>1 DEF Source
    <3> QED
      BY <2>3, <2>5, <3>1, <3>2
  <2> QED
    BY <2>4, <2>5
<1>7. CacheAnswered(x, all)
  <2> SUFFICES ASSUME NEW i \in 1..Len(s.turns), x.results[i].cached
               PROVE  Given(all, s.classifier, s.turns[i].intent, x.results[i].assignment)
    BY DEF CacheAnswered
  <2>1. CASE i = s.next
    BY <1>3, <2>1
  <2>2. CASE i # s.next
    BY <1>3, <2>2 DEF Visiting, CacheAnswered
  <2> QED
    BY <2>1, <2>2
<1> QED
  BY <1>4, <1>6, <1>7 DEF GoodScan

\* The turn in hand stays open.
LEMMA LeftOpen ==
    ASSUME NEW s, NEW all, Visiting(s, all), NEW x \in ScanRecord,
           x.phase = "walking", x.turns = s.turns, x.classifier = s.classifier,
           x.next = s.next + 1, x.results = s.results, x.previous = s.previous,
           x.deferred \subseteq 2..s.next,
           \A j \in 1..Len(x.pending) :
             /\ x.pending[j].turn \in 1..s.next /\ x.pending[j].turn \notin x.deferred
             /\ KeyOfTurn(s, x.pending[j].turn, x.pending[j].key),
           \A j, h \in 1..Len(x.pending) : x.pending[j].turn = x.pending[h].turn => j = h,
           \A i \in 1..Len(s.turns) : OpenTurn(x, i) <=> OpenTurn(s, i)
    PROVE  GoodScan(x, all)
<1>1. Len(s.turns) \in Nat /\ s.next \in 1..Len(s.turns)
  BY VisitedTurn
<1>2. InOrder(x)
  <2>1. InOrder(s) /\ x.next - 1 = s.next /\ x.next \in 1..(Len(x.turns) + 1)
    BY <1>1 DEF Visiting
  <2>2. \A i, key : KeyOfTurn(x, i, key) <=> KeyOfTurn(s, i, key)
    BY DEF KeyOfTurn
  <2> QED
    BY <2>1, <2>2 DEF InOrder
<1>3. \A last \in 0..Len(s.turns) : \A assignment : Source(x, last, assignment) <=> Source(s, last, assignment)
  BY <1>1 DEF Source
<1>4. Explained(x)
  <2> SUFFICES ASSUME s.classifier # Missing
               PROVE  /\ x.previous # <<>> => /\ Head(x.previous).status = "classified"
                                             /\ Source(x, x.next - 1, Head(x.previous))
                      /\ \A i \in 1..Len(x.turns) : ~OpenTurn(x, i) => TurnExplained(x, i)
    BY DEF Explained
  <2>1. /\ s.previous # <<>> => /\ Head(s.previous).status = "classified"
                               /\ Source(s, s.next - 1, Head(s.previous))
        /\ \A i \in 1..Len(s.turns) : ~OpenTurn(s, i) => TurnExplained(s, i)
    BY DEF Visiting, Explained
  <2>2. x.previous # <<>> => Source(x, s.next - 1, Head(x.previous))
    BY <1>1, <1>3, <2>1
  <2>3. x.previous # <<>> => Source(x, x.next - 1, Head(x.previous))
    BY <1>1, <2>2 DEF Source
  <2>4. \A i \in 1..Len(x.turns) : ~OpenTurn(x, i) => TurnExplained(x, i)
    BY <1>1, <1>3, <2>1 DEF TurnExplained
  <2> QED
    BY <2>1, <2>3, <2>4
<1>5. CacheAnswered(x, all)
  BY DEF Visiting, CacheAnswered
<1> QED
  BY <1>2, <1>4, <1>5 DEF GoodScan

LEMMA SettleIsGood ==
    ASSUME NEW s, NEW all, Visiting(s, all), NEW assignment \in Assignment,
           NEW method \in {"rule", "semantic_model", "inherited"}, NEW hit \in BOOLEAN,
           hit => Given(all, s.classifier, s.turns[s.next].intent, assignment),
           s.classifier # Missing => assignment.status = "classified",
           method = "inherited" => s.previous # <<>> /\ assignment = Head(s.previous)
    PROVE  Settle(s, assignment, method, hit) \in ScanRecord /\ GoodScan(Settle(s, assignment, method, hit), all)
<1>1. PICK r : r = [assignment |-> assignment, method |-> method, cached |-> hit]
  OBVIOUS
<1>2. r \in Result /\ r.assignment = assignment /\ r.method = method /\ r.cached = hit /\ r.method # "none"
  BY <1>1 DEF Result
<1>3. PICK results : results = [s.results EXCEPT ![s.next] = r]
  OBVIOUS
<1>4. results \in Seq(Result)
  <2>1. results \in [1..Len(s.turns) -> Result] /\ Len(s.turns) \in Nat
    BY <1>2, <1>3, VisitedTurn
  <2> QED
    BY <2>1, SeqDef
<1>5. <<assignment>> \in Seq(Assignment) /\ s.next + 1 \in Nat
  BY VisitedTurn
<1>6. PICK x : x = [s EXCEPT !.results = results, !.previous = <<assignment>>, !.next = s.next + 1]
  OBVIOUS
<1>7. x = Settle(s, assignment, method, hit)
  BY <1>1, <1>3, <1>6 DEF Settle, Visiting, ScanRecord
<1>8. /\ x \in ScanRecord /\ x.phase = "walking" /\ x.turns = s.turns /\ x.classifier = s.classifier
      /\ x.pending = s.pending /\ x.deferred = s.deferred /\ x.next = s.next + 1
      /\ x.results = [s.results EXCEPT ![s.next] = r] /\ x.previous = <<r.assignment>>
  BY <1>2, <1>3, <1>4, <1>5, <1>6 DEF Visiting, ScanRecord
<1>9. GoodScan(x, all)
  <2>1. r.cached => Given(all, s.classifier, s.turns[s.next].intent, r.assignment)
    BY <1>2
  <2>2. s.classifier # Missing =>
          /\ r.method # "none" <=> r.assignment.status = "classified"
          /\ r.method = "inherited" => s.previous # <<>> /\ r.assignment = Head(s.previous)
    BY <1>2
  <2>3. x.previous = <<r.assignment>> /\ (s.classifier # Missing => r.assignment.status = "classified")
    BY <1>2, <1>8
  <2> QED
    BY <1>2, <1>8, <2>1, <2>2, <2>3, SettledHere
<1> QED
  BY <1>7, <1>8, <1>9

LEMMA InheritIsGood ==
    ASSUME NEW s, NEW all, Visiting(s, all), s.previous # <<>>
    PROVE  Inherit(s) \in ScanRecord /\ GoodScan(Inherit(s), all)
<1>1. s.previous \in Seq(Assignment)
  BY DEF Visiting, ScanRecord
<1>2. Head(s.previous) \in Assignment
  BY <1>1, HeadTailProperties
<1>3. s.classifier # Missing => Head(s.previous).status = "classified"
  BY DEF Visiting, Explained
<1> QED
  BY <1>2, <1>3, SettleIsGood DEF Inherit

LEMMA WithoutIntentIsGood ==
    ASSUME NEW s, NEW all, Visiting(s, all), NEW turn
    PROVE  WithoutIntent(s, turn) \in ScanRecord /\ GoodScan(WithoutIntent(s, turn), all)
<1>1. CASE turn.signals /\ s.previous # <<>>
  BY <1>1, InheritIsGood DEF WithoutIntent
<1>2. CASE ~(turn.signals /\ s.previous # <<>>)
  <2>1. /\ s.results[s.next] \in Result /\ s.next \in Nat /\ s.results[s.next].cached = FALSE
        /\ s.results[s.next].method = "none"
    BY VisitedTurn DEF Visiting, InOrder, Result
  <2>2. PICK r : r = [s.results[s.next] EXCEPT !.assignment = NoInput]
    OBVIOUS
  <2>3. r \in Result /\ r.assignment = NoInput /\ r.method = "none" /\ r.cached = FALSE
    BY <2>1, <2>2, AssignmentShapes DEF Result
  <2>4. PICK results : results = [s.results EXCEPT ![s.next] = r]
    OBVIOUS
  <2>5. results \in Seq(Result)
    <3>1. results \in [1..Len(s.turns) -> Result] /\ Len(s.turns) \in Nat
      BY <2>3, <2>4, VisitedTurn
    <3> QED
      BY <3>1, SeqDef
  <2>6. PICK x : x = [s EXCEPT !.results = results, !.next = s.next + 1]
    OBVIOUS
  <2>7. x = WithoutIntent(s, turn)
    BY <1>2, <2>2, <2>4, <2>6 DEF WithoutIntent, Visiting, ScanRecord
  <2>8. /\ x \in ScanRecord /\ x.phase = "walking" /\ x.turns = s.turns /\ x.classifier = s.classifier
        /\ x.pending = s.pending /\ x.deferred = s.deferred /\ x.next = s.next + 1
        /\ x.results = [s.results EXCEPT ![s.next] = r] /\ x.previous = s.previous
    <3>1. s \in ScanRecord /\ s.phase = "walking" /\ s.next + 1 \in Nat
      BY <2>1 DEF Visiting
    <3> QED
      BY <2>4, <2>5, <2>6, <3>1 DEF ScanRecord
  <2>9. r.method # "none" <=> r.assignment.status = "classified"
    BY <2>3, AssignmentShapes
  <2>10. GoodScan(x, all)
    BY <2>3, <2>8, <2>9, SettledHere
  <2> QED
    BY <2>7, <2>8, <2>10
<1> QED
  BY <1>1, <1>2

LEMMA DeferIsGood ==
    ASSUME NEW s, NEW all, Visiting(s, all), s.next > 1, NEW x,
           x = [s EXCEPT !.deferred = @ \cup {s.next}, !.next = @ + 1]
    PROVE  x \in ScanRecord /\ GoodScan(x, all)
<1>1. /\ x \in ScanRecord /\ x.phase = "walking" /\ x.turns = s.turns /\ x.classifier = s.classifier
      /\ x.pending = s.pending /\ x.deferred = s.deferred \cup {s.next} /\ x.next = s.next + 1
      /\ x.results = s.results /\ x.previous = s.previous
  <2>1. PICK deferred : deferred = s.deferred \cup {s.next}
    OBVIOUS
  <2>2. s \in ScanRecord /\ s.phase = "walking" /\ s.next \in Nat
    BY VisitedTurn DEF Visiting
  <2>3. s.next + 1 \in Nat /\ deferred \in SUBSET Nat
    BY <2>1, <2>2 DEF ScanRecord
  <2>4. x = [s EXCEPT !.deferred = deferred, !.next = s.next + 1]
    BY <2>1, <2>2 DEF ScanRecord
  <2> QED
    BY <2>1, <2>2, <2>3, <2>4 DEF ScanRecord
<1>2. InOrder(s) /\ s.next \in Nat /\ \A j \in 1..Len(s.pending) : s.pending[j].turn # s.next
  BY VisitedTurn DEF Visiting
<1>3. x.deferred \subseteq 2..s.next
  BY <1>1, <1>2 DEF InOrder
<1>4. \A j \in 1..Len(x.pending) :
        /\ x.pending[j].turn \in 1..s.next /\ x.pending[j].turn \notin x.deferred
        /\ KeyOfTurn(s, x.pending[j].turn, x.pending[j].key)
  BY <1>1, <1>2 DEF InOrder
<1>5. \A j, h \in 1..Len(x.pending) : x.pending[j].turn = x.pending[h].turn => j = h
  BY <1>1, <1>2 DEF InOrder
<1>6. \A i \in 1..Len(s.turns) : OpenTurn(x, i) <=> OpenTurn(s, i)
  BY <1>1, <1>2, VisitedTurn DEF OpenTurn
<1> QED
  BY <1>1, <1>3, <1>4, <1>5, <1>6, LeftOpen

LEMMA AskLaterIsGood ==
    ASSUME NEW s, NEW all, Visiting(s, all), NEW key \in Key, KeyOfTurn(s, s.next, key), NEW x,
           x = [s EXCEPT !.pending = Append(@, [turn |-> s.next, key |-> key]), !.next = @ + 1]
    PROVE  x \in ScanRecord /\ GoodScan(x, all)
<1>1. PICK entry : entry = [turn |-> s.next, key |-> key]
  OBVIOUS
<1>2. entry \in [turn : Nat, key : Key] /\ entry.turn = s.next /\ entry.key = key
  BY <1>1, VisitedTurn
<1>3. PICK pending : pending = Append(s.pending, entry)
  OBVIOUS
<1>4. s.pending \in Seq([turn : Nat, key : Key])
  BY DEF Visiting, ScanRecord
<1>5. /\ pending \in Seq([turn : Nat, key : Key]) /\ Len(pending) = Len(s.pending) + 1 /\ Len(s.pending) \in Nat
      /\ \A j \in 1..Len(s.pending) : pending[j] = s.pending[j]
      /\ pending[Len(s.pending) + 1] = entry
  BY <1>2, <1>3, <1>4, AppendProperties, LenProperties
<1>6. /\ x \in ScanRecord /\ x.phase = "walking" /\ x.turns = s.turns /\ x.classifier = s.classifier
      /\ x.pending = pending /\ x.deferred = s.deferred /\ x.next = s.next + 1
      /\ x.results = s.results /\ x.previous = s.previous
  <2>1. x = [s EXCEPT !.pending = pending, !.next = s.next + 1]
    BY <1>1, <1>3 DEF Visiting, ScanRecord
  <2>2. s.next + 1 \in Nat
    BY VisitedTurn
  <2> QED
    BY <1>5, <2>1, <2>2 DEF Visiting, ScanRecord
<1>7. /\ InOrder(s) /\ s.next \in Nat /\ s.next >= 1 /\ \A j \in 1..Len(s.pending) : s.pending[j].turn # s.next
      /\ s.next \notin s.deferred
  BY VisitedTurn DEF Visiting
<1>8. x.deferred \subseteq 2..s.next
  BY <1>6, <1>7 DEF InOrder
<1>9. \A j \in 1..Len(pending) : j \in 1..Len(s.pending) \/ j = Len(s.pending) + 1
  BY <1>5
<1>10. \A j \in 1..Len(x.pending) :
         /\ x.pending[j].turn \in 1..s.next /\ x.pending[j].turn \notin x.deferred
         /\ KeyOfTurn(s, x.pending[j].turn, x.pending[j].key)
  BY <1>2, <1>5, <1>6, <1>7, <1>9 DEF InOrder
<1>11. \A j, h \in 1..Len(x.pending) : x.pending[j].turn = x.pending[h].turn => j = h
  BY <1>2, <1>5, <1>6, <1>7, <1>9 DEF InOrder
<1>12. ASSUME NEW i \in 1..Len(s.turns) PROVE OpenTurn(x, i) <=> OpenTurn(s, i)
  <2>1. (\E j \in 1..Len(pending) : pending[j].turn = i)
          <=> i = s.next \/ \E j \in 1..Len(s.pending) : s.pending[j].turn = i
    <3>1. ASSUME NEW j \in 1..Len(pending), pending[j].turn = i
          PROVE  i = s.next \/ \E h \in 1..Len(s.pending) : s.pending[h].turn = i
      BY <1>2, <1>5, <1>9, <3>1
    <3>2. ASSUME i = s.next PROVE \E j \in 1..Len(pending) : pending[j].turn = i
      <4>1. Len(pending) \in 1..Len(pending) /\ pending[Len(pending)] = entry
        BY <1>5
      <4> QED
        BY <1>2, <3>2, <4>1
    <3>3. ASSUME NEW j \in 1..Len(s.pending), s.pending[j].turn = i
          PROVE  \E h \in 1..Len(pending) : pending[h].turn = i
      <4>1. j \in 1..Len(pending) /\ pending[j] = s.pending[j]
        BY <1>5
      <4> QED
        BY <3>3, <4>1
    <3> QED
      BY <3>1, <3>2, <3>3
  <2> QED
    BY <1>6, <1>7, <2>1 DEF OpenTurn
<1> QED
  BY <1>6, <1>8, <1>10, <1>11, <1>12, LeftOpen

LEMMA KeyOfScan ==
    ASSUME NEW s, NEW all, Visiting(s, all)
    PROVE  /\ CacheKey(s, s.turns[s.next]) \in Key /\ KeyOfTurn(s, s.next, CacheKey(s, s.turns[s.next]))
           /\ s.previous \in Seq(Assignment)
           /\ CacheKey(s, s.turns[s.next]).text = Digested(s.turns[s.next], s.previous)
<1>1. s.classifier \in Configurations /\ s.previous \in Seq(Assignment) /\ s.turns[s.next] \in Turn
  BY VisitedTurn DEF Visiting, ScanRecord
<1>2. Digested(s.turns[s.next], s.previous) \in Seq(Words)
  BY <1>1, DigestedParts
<1> QED
  BY <1>1, <1>2 DEF CacheKey, Key, KeyOfTurn

LEMMA WithoutCacheIsGood ==
    ASSUME NEW s, NEW all, Visiting(s, all)
    PROVE  /\ WithoutCache(s, s.turns[s.next]) \in ScanRecord
           /\ GoodScan(WithoutCache(s, s.turns[s.next]), all)
<1>1. PICK turn : turn = s.turns[s.next]
  OBVIOUS
<1>2. CASE turn.intent = Continue /\ s.previous # <<>>
  BY <1>1, <1>2, InheritIsGood DEF WithoutCache
<1>3. CASE ~(turn.intent = Continue /\ s.previous # <<>>) /\ turn.intent = Continue /\ FollowsUnsettled(s)
  <2>1. s.next > 1
    BY <1>3 DEF FollowsUnsettled
  <2>2. WithoutCache(s, turn) = [s EXCEPT !.deferred = @ \cup {s.next}, !.next = @ + 1]
    BY <1>3 DEF WithoutCache
  <2> QED
    BY <1>1, <2>1, <2>2, DeferIsGood
<1>4. CASE /\ ~(turn.intent = Continue /\ s.previous # <<>>) /\ ~(turn.intent = Continue /\ FollowsUnsettled(s))
           /\ turn \in DOMAIN RuleCategory
  <2>1. WithoutCache(s, turn) = Settle(s, Classified(RuleCategory[turn]), "rule", FALSE)
    BY <1>4 DEF WithoutCache
  <2>2. Classified(RuleCategory[turn]) \in Assignment /\ Classified(RuleCategory[turn]).status = "classified"
    BY <1>4, AssignmentShapes, ClassificationAssumption
  <2> QED
    BY <1>1, <2>1, <2>2, SettleIsGood
<1>5. CASE /\ ~(turn.intent = Continue /\ s.previous # <<>>) /\ ~(turn.intent = Continue /\ FollowsUnsettled(s))
           /\ turn \notin DOMAIN RuleCategory
  <2>1. WithoutCache(s, turn) = [s EXCEPT !.pending = Append(@, [turn |-> s.next, key |-> CacheKey(s, turn)]),
                                          !.next = @ + 1]
    BY <1>5 DEF WithoutCache
  <2> QED
    BY <1>1, <2>1, KeyOfScan, AskLaterIsGood
<1> QED
  BY <1>2, <1>3, <1>4, <1>5

LEMMA VisitTurnStep ==
    ASSUME ClassificationInv, NEW p \in Scanners, VisitTurn(p)
    PROVE  ClassificationInv'
<1>1. PICK s, turn : s = scans[p] /\ turn = s.turns[s.next]
  OBVIOUS
<1>2. UNCHANGED <<turns, classifier, switches, cache, answers>>
  BY DEF VisitTurn
<1>3. Visiting(s, answers)
  BY <1>1, ScanTypes DEF VisitTurn, Visiting
<1>4. \E x : /\ scans' = [scans EXCEPT ![p] = x]
            /\ \/ x = WithoutIntent(s, turn) \/ x = WithoutCache(s, turn)
               \/ \E a \in Cached(CacheKey(s, turn)) : x = Settle(s, a, "semantic_model", TRUE)
  BY <1>1, Zenon DEF VisitTurn
<1>5. PICK x : /\ scans' = [scans EXCEPT ![p] = x]
               /\ \/ x = WithoutIntent(s, turn) \/ x = WithoutCache(s, turn)
                  \/ \E a \in Cached(CacheKey(s, turn)) : x = Settle(s, a, "semantic_model", TRUE)
  BY <1>4
<1>6. x \in ScanRecord /\ GoodScan(x, answers)
  <2>1. CASE x = WithoutIntent(s, turn)
    BY <1>3, <2>1, WithoutIntentIsGood
  <2>2. CASE x = WithoutCache(s, turn)
    BY <1>1, <1>3, <2>2, WithoutCacheIsGood
  <2>3. ASSUME NEW a \in Cached(CacheKey(s, turn)), x = Settle(s, a, "semantic_model", TRUE)
        PROVE  x \in ScanRecord /\ GoodScan(x, answers)
    <3>1. PICK e \in cache : e.key = CacheKey(s, turn) /\ e.assignment = a
      BY DEF Cached
    <3>2. e \in [key : Key, assignment : Assignment]
      BY DEF ClassificationInv, ClassificationTypeOK
    <3>3. a \in Assignment
      BY <3>1, <3>2
    <3>4. PICK g \in answers, asked \in Turn, previous \in Seq(Assignment) :
             /\ g.classifier = e.key.classifier /\ g.assignment = a /\ g.intent = asked.intent
             /\ e.key.text = Digested(asked, previous)
      BY <3>1 DEF ClassificationInv, CacheOfAnswers
    <3>5. g.classifier = s.classifier /\ Alike(g.intent, turn.intent)
      <4>1. /\ e.key.classifier = s.classifier /\ e.key.text = Digested(turn, s.previous)
            /\ s.previous \in Seq(Assignment) /\ turn \in Turn
        BY <1>1, <1>3, <3>1, KeyOfScan, VisitedTurn DEF KeyOfTurn
      <4> QED
        BY <3>4, <4>1, KeysRunTogether
    <3>6. Given(answers, s.classifier, turn.intent, a) /\ (s.classifier # Missing => a.status = "classified")
      BY <3>4, <3>5 DEF Given, ClassificationInv, CacheOfAnswers
    <3> QED
      BY <1>1, <1>3, <2>3, <3>3, <3>6, SettleIsGood
  <2> QED
    BY <1>5, <2>1, <2>2, <2>3
<1> QED
  BY <1>2, <1>5, <1>6, ScannerStep

LEMMA SessionStep ==
    ASSUME ClassificationInv,
           (\E t \in Turn : AddTurn(t)) \/ (\E c \in Configurations : ChangeClassifier(c))
           \/ UNCHANGED classificationVars
    PROVE  ClassificationInv'
<1>1. UNCHANGED <<cache, scans, answers>>
  BY DEF AddTurn, ChangeClassifier, classificationVars
<1>2. turns' \in Seq(Turn) /\ classifier' \in Configurations /\ switches' \in 0..MaxSwitches
  <2>1. turns \in Seq(Turn) /\ classifier \in Configurations /\ switches \in 0..MaxSwitches
    BY DEF ClassificationInv, ClassificationTypeOK
  <2>2. ASSUME NEW t \in Turn, AddTurn(t)
        PROVE  turns' \in Seq(Turn) /\ classifier' \in Configurations /\ switches' \in 0..MaxSwitches
    BY <2>1, <2>2, AppendProperties DEF AddTurn
  <2>3. ASSUME NEW c \in Configurations, ChangeClassifier(c)
        PROVE  turns' \in Seq(Turn) /\ classifier' \in Configurations /\ switches' \in 0..MaxSwitches
    BY <2>1, <2>3, ClassificationAssumption DEF ChangeClassifier
  <2>4. CASE UNCHANGED classificationVars
    BY <2>1, <2>4 DEF classificationVars
  <2> QED
    BY <2>2, <2>3, <2>4
<1> QED
  BY <1>1, <1>2 DEF ClassificationInv, ClassificationTypeOK, CacheOfAnswers

\* The turns a request of k texts asks about.
AskedOf(s, k) == {s.pending[j].turn : j \in 1..k}

\* A request is answered, or fails: its turns are settled, the others stay.
LEMMA AskedAreSettled ==
    ASSUME NEW s \in ScanRecord, NEW all, InOrder(s), Explained(s), CacheAnswered(s, all),
           s.phase = "asking", s.next = Len(s.turns) + 1,
           NEW k \in 1..Len(s.pending), NEW x \in ScanRecord, x.phase = "asking", x.turns = s.turns,
           x.classifier = s.classifier, x.next = s.next, x.previous = s.previous, x.deferred = s.deferred,
           x.pending = SubSeq(s.pending, k + 1, Len(s.pending)),
           x.results \in [1..Len(s.turns) -> Result],
           \A i \in 1..Len(s.turns) : i \notin AskedOf(s, k) => x.results[i] = s.results[i],
           \A i \in AskedOf(s, k) :
             /\ ~x.results[i].cached /\ x.results[i].method # "inherited"
             /\ s.classifier # Missing =>
                  (x.results[i].method # "none" <=> x.results[i].assignment.status = "classified")
    PROVE  GoodScan(x, all)
<1>1. s.pending \in Seq([turn : Nat, key : Key]) /\ Len(s.pending) \in Nat /\ Len(s.turns) \in Nat
  BY LenProperties DEF ScanRecord
<1>2. /\ Len(x.pending) = Len(s.pending) - k /\ Len(x.pending) \in Nat
      /\ \A m \in 1..Len(x.pending) : m + k \in 1..Len(s.pending) /\ x.pending[m] = s.pending[m + k]
  <2>1. k + 1 \in Int /\ Len(s.pending) \in Int /\ \A i \in (k + 1)..Len(s.pending) : s.pending[i] \in [turn : Nat, key : Key]
    <3>1. \A i \in 1..Len(s.pending) : s.pending[i] \in [turn : Nat, key : Key]
      BY <1>1, ElementOfSeq
    <3>2. k \in Nat /\ \A i \in (k + 1)..Len(s.pending) : i \in 1..Len(s.pending)
      BY <1>1
    <3> QED
      BY <1>1, <3>1, <3>2
  <2>2. /\ Len(x.pending) = IF k + 1 <= Len(s.pending) THEN Len(s.pending) - (k + 1) + 1 ELSE 0
        /\ \A m \in 1..(Len(s.pending) - (k + 1) + 1) : x.pending[m] = s.pending[(k + 1) + m - 1]
    BY <2>1, SubSeqProperties
  <2>3. Len(x.pending) = Len(s.pending) - k /\ Len(x.pending) \in Nat
    BY <1>1, <2>2
  <2>4. ASSUME NEW m \in 1..Len(x.pending) PROVE m + k \in 1..Len(s.pending) /\ x.pending[m] = s.pending[m + k]
    <3>1. m \in 1..(Len(s.pending) - (k + 1) + 1) /\ (k + 1) + m - 1 = m + k /\ m + k \in 1..Len(s.pending)
      BY <1>1, <2>3
    <3> QED
      BY <2>2, <3>1
  <2> QED
    BY <2>3, <2>4
<1>3. \A j \in 1..Len(s.pending) : j \in 1..k \/ \E m \in 1..Len(x.pending) : j = m + k
  <2> SUFFICES ASSUME NEW j \in 1..Len(s.pending), j \notin 1..k PROVE \E m \in 1..Len(x.pending) : j = m + k
    OBVIOUS
  <2>1. j - k \in 1..Len(x.pending) /\ j = (j - k) + k
    BY <1>1, <1>2
  <2> QED
    BY <2>1
<1> DEFINE turnOf(j) == s.pending[j].turn
<1>3a. \A j \in 1..Len(s.pending) : turnOf(j) \in 1..Len(s.turns) /\ turnOf(j) \notin s.deferred
  <2>1. s.next - 1 = Len(s.turns)
    BY <1>1
  <2> QED
    BY <2>1 DEF InOrder
<1>3b. \A j, h \in 1..Len(s.pending) : turnOf(j) = turnOf(h) => j = h
  BY DEF InOrder
<1>3c. \A m \in 1..Len(x.pending) : x.pending[m].turn = turnOf(m + k)
  BY <1>2
<1>3d. AskedOf(s, k) = {turnOf(j) : j \in 1..k} /\ k \in Nat /\ 1..k \subseteq 1..Len(s.pending)
  BY <1>1 DEF AskedOf
<1> HIDE DEF turnOf
<1>4. AskedOf(s, k) \subseteq 1..Len(s.turns) /\ \A i \in AskedOf(s, k) : i \notin s.deferred
  BY <1>3a, <1>3d
<1>5. \A m \in 1..Len(x.pending) : x.pending[m].turn \notin AskedOf(s, k)
  <2> SUFFICES ASSUME NEW m \in 1..Len(x.pending), NEW j \in 1..k, turnOf(m + k) = turnOf(j) PROVE FALSE
    BY <1>3c, <1>3d
  <2>1. m + k \in 1..Len(s.pending) /\ j \in 1..Len(s.pending) /\ m + k # j
    BY <1>2, <1>3d
  <2> QED
    BY <1>3b, <2>1
<1>6. ASSUME NEW i \in 1..Len(s.turns) PROVE OpenTurn(x, i) <=> OpenTurn(s, i) /\ i \notin AskedOf(s, k)
  <2>1. ASSUME i \in AskedOf(s, k) PROVE ~OpenTurn(x, i)
    <3>1. ~(i >= x.next) /\ i \notin x.deferred
      BY <1>1, <1>4, <2>1
    <3>2. ~\E m \in 1..Len(x.pending) : x.pending[m].turn = i
      BY <1>5, <2>1
    <3> QED
      BY <3>1, <3>2 DEF OpenTurn
  <2>2. ASSUME OpenTurn(x, i) PROVE OpenTurn(s, i)
    BY <1>2, <2>2 DEF OpenTurn
  <2>3. ASSUME OpenTurn(s, i), i \notin AskedOf(s, k) PROVE OpenTurn(x, i)
    <3>1. CASE i >= s.next \/ i \in s.deferred
      BY <3>1 DEF OpenTurn
    <3>2. ASSUME NEW j \in 1..Len(s.pending), s.pending[j].turn = i PROVE OpenTurn(x, i)
      <4>1. j \notin 1..k
        BY <2>3, <3>2 DEF AskedOf
      <4>2. PICK m \in 1..Len(x.pending) : j = m + k
        BY <1>3, <4>1
      <4>3. x.pending[m].turn = i
        BY <1>2, <3>2, <4>2
      <4> QED
        BY <4>3 DEF OpenTurn
    <3> QED
      BY <2>3, <3>1, <3>2 DEF OpenTurn
  <2> QED
    BY <2>1, <2>2, <2>3
<1>7. InOrder(x)
  <2>1. /\ x.turns # <<>> /\ x.next \in 1..(Len(x.turns) + 1) /\ x.deferred \subseteq 2..(x.next - 1)
        /\ x.results \in [1..Len(x.turns) -> Result]
    BY DEF InOrder
  <2>2. \A j \in 1..Len(x.pending) : /\ x.pending[j].turn \in 1..(x.next - 1) /\ x.pending[j].turn \notin x.deferred
                                     /\ KeyOfTurn(x, x.pending[j].turn, x.pending[j].key)
    <3>1. \A i, key : KeyOfTurn(x, i, key) <=> KeyOfTurn(s, i, key)
      BY DEF KeyOfTurn
    <3> QED
      BY <1>2, <3>1 DEF InOrder
  <2>3. ASSUME NEW j \in 1..Len(x.pending), NEW h \in 1..Len(x.pending), x.pending[j].turn = x.pending[h].turn
        PROVE  j = h
    <3>1. j + k = h + k
      <4>1. turnOf(j + k) = turnOf(h + k)
        BY <1>3c, <2>3
      <4>2. j + k \in 1..Len(s.pending) /\ h + k \in 1..Len(s.pending)
        BY <1>2
      <4> QED
        BY <1>3b, <4>1, <4>2
    <3> QED
      BY <1>2, <1>3d, <3>1
  <2>4. \A i \in 1..Len(x.turns) : OpenTurn(x, i) =>
          ~x.results[i].cached /\ x.results[i].method = "none" /\ x.results[i].assignment.status # "classified"
    BY <1>6 DEF InOrder
  <2> QED
    BY <2>1, <2>2, <2>3, <2>4 DEF InOrder
<1>8. \A last \in 0..Len(s.turns) : \A assignment : Source(s, last, assignment) => Source(x, last, assignment)
  <2> SUFFICES ASSUME NEW last \in 0..Len(s.turns), NEW assignment, Source(s, last, assignment)
               PROVE  Source(x, last, assignment)
    OBVIOUS
  <2>1. PICK j \in 1..last : ~OpenTurn(s, j) /\ s.results[j].assignment = assignment
    BY DEF Source
  <2>2. j \in 1..Len(s.turns) /\ j \notin AskedOf(s, k)
    BY <1>1, <2>1 DEF AskedOf, OpenTurn
  <2>3. ~OpenTurn(x, j) /\ x.results[j] = s.results[j]
    BY <1>6, <2>1, <2>2
  <2> QED
    BY <2>1, <2>3 DEF Source
<1>9. Explained(x)
  <2> SUFFICES ASSUME s.classifier # Missing
               PROVE  /\ x.previous # <<>> => /\ Head(x.previous).status = "classified"
                                             /\ Source(x, x.next - 1, Head(x.previous))
                      /\ \A i \in 1..Len(x.turns) : ~OpenTurn(x, i) => TurnExplained(x, i)
    BY DEF Explained
  <2>1. /\ s.previous # <<>> => /\ Head(s.previous).status = "classified"
                               /\ Source(s, s.next - 1, Head(s.previous))
        /\ \A i \in 1..Len(s.turns) : ~OpenTurn(s, i) => TurnExplained(s, i)
    BY DEF Explained
  <2>2. s.next - 1 \in 0..Len(s.turns)
    BY <1>1
  <2>3. ASSUME NEW i \in 1..Len(s.turns), ~OpenTurn(x, i) PROVE TurnExplained(x, i)
    <3>1. CASE i \in AskedOf(s, k)
      BY <3>1 DEF TurnExplained
    <3>2. CASE i \notin AskedOf(s, k)
      <4>1. TurnExplained(s, i) /\ x.results[i] = s.results[i] /\ i - 1 \in 0..Len(s.turns)
        BY <1>1, <1>6, <2>1, <2>3, <3>2
      <4> QED
        BY <1>8, <4>1 DEF TurnExplained
    <3> QED
      BY <3>1, <3>2
  <2> QED
    BY <1>8, <2>1, <2>2, <2>3
<1>10. CacheAnswered(x, all)
  BY <1>4 DEF CacheAnswered
<1> QED
  BY <1>7, <1>9, <1>10 DEF GoodScan

LEMMA RestOfPending ==
    ASSUME NEW s \in ScanRecord, NEW k \in 1..Len(s.pending)
    PROVE  SubSeq(s.pending, k + 1, Len(s.pending)) \in Seq([turn : Nat, key : Key])
<1>1. s.pending \in Seq([turn : Nat, key : Key])
  BY DEF ScanRecord
<1>2. Len(s.pending) \in Nat /\ \A i \in 1..Len(s.pending) : s.pending[i] \in [turn : Nat, key : Key]
  BY <1>1, ElementOfSeq, LenProperties
<1>3. k + 1 \in Int /\ Len(s.pending) \in Int /\ \A i \in (k + 1)..Len(s.pending) : s.pending[i] \in [turn : Nat, key : Key]
  BY <1>2
<1> QED
  BY <1>3, SubSeqProperties

LEMMA AskFailsStep ==
    ASSUME ClassificationInv, NEW p \in Scanners, NEW k \in 1..BatchSize, AskFails(p, k)
    PROVE  ClassificationInv'
<1>1. PICK s : s = scans[p]
  OBVIOUS
<1>2. /\ UNCHANGED <<turns, classifier, switches, cache, answers>>
      /\ s.phase = "asking" /\ k \in 1..Len(s.pending)
  <2>1. k \in Nat /\ k >= 1 /\ k <= Len(s.pending)
    BY <1>1, ClassificationAssumption DEF AskFails, Batches
  <2>2. s.pending \in Seq([turn : Nat, key : Key])
    BY <1>1, ScanTypes DEF ScanRecord
  <2>3. Len(s.pending) \in Nat
    BY <2>2, LenProperties
  <2> QED
    BY <1>1, <2>1, <2>3 DEF AskFails
<1>3. s \in ScanRecord /\ InOrder(s) /\ Explained(s) /\ CacheAnswered(s, answers) /\ s.next = Len(s.turns) + 1
  BY <1>1, <1>2, ScanTypes DEF GoodScan
<1>4. /\ s.results \in [1..Len(s.turns) -> Result] /\ Len(s.turns) \in Nat /\ DOMAIN s.results = 1..Len(s.turns)
  <2>1. s.turns \in Seq(Turn)
    BY <1>3 DEF ScanRecord
  <2> QED
    BY <1>3, <2>1, LenProperties DEF InOrder
<1>5. PICK results : results = [i \in DOMAIN s.results |->
                         IF \E j \in 1..k : s.pending[j].turn = i
                         THEN [s.results[i] EXCEPT !.assignment = Failed] ELSE s.results[i]]
  OBVIOUS
<1>6. \A i \in 1..Len(s.turns) : i \in AskedOf(s, k) <=> \E j \in 1..k : s.pending[j].turn = i
  BY DEF AskedOf
<1>7. ASSUME NEW i \in 1..Len(s.turns)
      PROVE  /\ results[i] \in Result
             /\ i \notin AskedOf(s, k) => results[i] = s.results[i]
             /\ i \in AskedOf(s, k) => /\ results[i].cached = FALSE /\ results[i].method = "none"
                                      /\ results[i].assignment.status # "classified"
  <2>1. CASE i \notin AskedOf(s, k)
    BY <1>4, <1>5, <1>6, <2>1
  <2>2. CASE i \in AskedOf(s, k)
    <3>1. results[i] = [s.results[i] EXCEPT !.assignment = Failed] /\ s.results[i] \in Result
      BY <1>4, <1>5, <1>6, <2>2
    <3>2. OpenTurn(s, i)
      BY <1>2, <1>6, <2>2 DEF OpenTurn
    <3>3. s.results[i].cached = FALSE /\ s.results[i].method = "none"
      BY <1>3, <3>1, <3>2 DEF InOrder, Result
    <3> QED
      BY <2>2, <3>1, <3>3, AssignmentShapes DEF Result
  <2> QED
    BY <2>1, <2>2
<1>8. results \in [1..Len(s.turns) -> Result] /\ results \in Seq(Result)
  <2>1. results \in [1..Len(s.turns) -> Result]
    BY <1>4, <1>5, <1>7
  <2> QED
    BY <1>4, <2>1, SeqDef
<1>9. PICK pending : pending = SubSeq(s.pending, k + 1, Len(s.pending))
  OBVIOUS
<1>10. pending \in Seq([turn : Nat, key : Key])
  BY <1>2, <1>3, <1>9, RestOfPending
<1>11. PICK x : x = [s EXCEPT !.results = results, !.pending = pending] /\ scans' = [scans EXCEPT ![p] = x]
  BY <1>1, <1>3, <1>5, <1>9 DEF AskFails, ScanRecord
<1>12. /\ x \in ScanRecord /\ x.phase = "asking" /\ x.turns = s.turns
       /\ x.classifier = s.classifier /\ x.next = s.next /\ x.previous = s.previous /\ x.deferred = s.deferred
       /\ x.pending = SubSeq(s.pending, k + 1, Len(s.pending)) /\ x.results = results
  BY <1>2, <1>3, <1>8, <1>9, <1>10, <1>11 DEF ScanRecord
<1>13. \A i \in AskedOf(s, k) : /\ ~results[i].cached /\ results[i].method # "inherited"
                                /\ results[i].method # "none" <=> results[i].assignment.status = "classified"
  <2>1. AskedOf(s, k) \subseteq 1..Len(s.turns)
    BY <1>2, <1>3, <1>4 DEF AskedOf, InOrder
  <2> QED
    BY <1>7, <2>1
<1>14. GoodScan(x, answers)
  BY <1>2, <1>3, <1>7, <1>8, <1>12, <1>13, AskedAreSettled
<1> QED
  BY <1>2, <1>11, <1>12, <1>14, ScannerStep

LEMMA AnswerTypes ==
    ASSUME NEW c, NEW a \in Answers(c)
    PROVE  a \in Assignment /\ (c # Missing => a.status = "classified")
<1>1. CASE c = Missing
  BY <1>1, AssignmentShapes DEF Answers
<1>2. CASE c # Missing
  <2>1. PICK category \in Categories : a = Classified(category)
    BY <1>2 DEF Answers
  <2> QED
    BY <2>1, AssignmentShapes
<1> QED
  BY <1>1, <1>2

LEMMA AnsweredIsGood ==
    ASSUME NEW s \in ScanRecord, NEW all, InOrder(s), Explained(s), CacheAnswered(s, all),
           s.phase = "asking", s.next = Len(s.turns) + 1, NEW k \in 1..Len(s.pending),
           NEW given \in [1..k -> Answers(s.classifier)]
    PROVE  WithAnswers(s, k, given) \in ScanRecord /\ GoodScan(WithAnswers(s, k, given), all)
<1>1. /\ s.results \in [1..Len(s.turns) -> Result] /\ Len(s.turns) \in Nat /\ DOMAIN s.results = 1..Len(s.turns)
  <2>1. s.turns \in Seq(Turn)
    BY DEF ScanRecord
  <2> QED
    BY <2>1, LenProperties DEF InOrder
<1>2. \A i \in 1..Len(s.turns) : i \in AskedOf(s, k) <=> \E j \in 1..k : s.pending[j].turn = i
  BY DEF AskedOf
<1>3. PICK results : results = [i \in DOMAIN s.results |->
         IF \E j \in 1..k : s.pending[j].turn = i
         THEN LET j == CHOOSE j \in 1..k : s.pending[j].turn = i
              IN  [assignment |-> given[j], method |-> "semantic_model", cached |-> FALSE]
         ELSE s.results[i]]
  OBVIOUS
<1>4. ASSUME NEW i \in 1..Len(s.turns)
      PROVE  /\ results[i] \in Result
             /\ i \notin AskedOf(s, k) => results[i] = s.results[i]
             /\ i \in AskedOf(s, k) =>
                  /\ results[i].cached = FALSE /\ results[i].method = "semantic_model"
                  /\ s.classifier # Missing => results[i].assignment.status = "classified"
  <2>1. CASE i \notin AskedOf(s, k)
    BY <1>1, <1>2, <1>3, <2>1
  <2>2. CASE i \in AskedOf(s, k)
    <3>1. \E j \in 1..k : s.pending[j].turn = i
      BY <1>2, <2>2
    <3>2. \E j \in 1..k : results[i] = [assignment |-> given[j], method |-> "semantic_model", cached |-> FALSE]
      <4> DEFINE first == CHOOSE j \in 1..k : s.pending[j].turn = i
      <4>1. first \in 1..k
        BY <3>1
      <4>2. results[i] = [assignment |-> given[first], method |-> "semantic_model", cached |-> FALSE]
        BY <1>1, <1>3, <3>1
      <4> HIDE DEF first
      <4> QED
        BY <4>1, <4>2
    <3>3. PICK j \in 1..k : results[i] = [assignment |-> given[j], method |-> "semantic_model", cached |-> FALSE]
      BY <3>2
    <3>4. given[j] \in Answers(s.classifier)
      OBVIOUS
    <3>5. given[j] \in Assignment /\ (s.classifier # Missing => given[j].status = "classified")
      BY <3>4, AnswerTypes
    <3> QED
      BY <2>2, <3>3, <3>5 DEF Result
  <2> QED
    BY <2>1, <2>2
<1>5. results \in [1..Len(s.turns) -> Result] /\ results \in Seq(Result)
  <2>1. results \in [1..Len(s.turns) -> Result]
    BY <1>1, <1>3, <1>4
  <2> QED
    BY <1>1, <2>1, SeqDef
<1>6. PICK pending : pending = SubSeq(s.pending, k + 1, Len(s.pending))
  OBVIOUS
<1>7. pending \in Seq([turn : Nat, key : Key])
  BY <1>6, RestOfPending
<1>8. PICK x : x = [s EXCEPT !.results = results, !.pending = pending]
  OBVIOUS
<1>9. x = WithAnswers(s, k, given)
  BY <1>3, <1>6, <1>8 DEF WithAnswers, ScanRecord
<1>10. /\ x \in ScanRecord /\ x.phase = "asking" /\ x.turns = s.turns
       /\ x.classifier = s.classifier /\ x.next = s.next /\ x.previous = s.previous /\ x.deferred = s.deferred
       /\ x.pending = SubSeq(s.pending, k + 1, Len(s.pending)) /\ x.results = results
  BY <1>5, <1>6, <1>7, <1>8 DEF ScanRecord
<1>11. AskedOf(s, k) \subseteq 1..Len(s.turns)
  <2>1. s.pending \in Seq([turn : Nat, key : Key])
    BY DEF ScanRecord
  <2>2. Len(s.pending) \in Nat
    BY <2>1, LenProperties
  <2> QED
    BY <1>1, <2>2 DEF AskedOf, InOrder
<1>12. \A i \in AskedOf(s, k) :
         /\ ~results[i].cached /\ results[i].method # "inherited"
         /\ s.classifier # Missing => (results[i].method # "none" <=> results[i].assignment.status = "classified")
  BY <1>4, <1>11
<1>13. GoodScan(x, all)
  BY <1>4, <1>5, <1>10, <1>12, AskedAreSettled
<1> QED
  BY <1>9, <1>10, <1>13

LEMMA MoreAnswers ==
    ASSUME NEW s, NEW all, NEW more, all \subseteq more
    PROVE  /\ CacheAnswered(s, all) => CacheAnswered(s, more)
           /\ GoodScan(s, all) => GoodScan(s, more)
<1>1. CacheAnswered(s, all) => CacheAnswered(s, more)
  BY DEF CacheAnswered, Given
<1> QED
  BY <1>1 DEF GoodScan

\* The answers of a request that are kept, one for each key.
LEMMA StoredEntries ==
    ASSUME NEW s \in ScanRecord, NEW k \in 1..Len(s.pending), NEW given \in [1..k -> Answers(s.classifier)]
    PROVE  /\ \A e \in Stored(s, k, given) : \E j \in 1..k :
                e = [key |-> s.pending[j].key, assignment |-> given[j]]
           /\ Stored(s, k, given) \subseteq [key : Key, assignment : Assignment]
           /\ \A e, f \in Stored(s, k, given) : e.key = f.key => e = f
<1>1. k \in Nat /\ \A j \in 1..k : s.pending[j].key \in Key
  <2>1. s.pending \in Seq([turn : Nat, key : Key])
    BY DEF ScanRecord
  <2>2. Len(s.pending) \in Nat /\ \A j \in 1..Len(s.pending) : s.pending[j] \in [turn : Nat, key : Key]
    BY <2>1, ElementOfSeq, LenProperties
  <2>3. k \in Nat /\ \A j \in 1..k : j \in 1..Len(s.pending)
    BY <2>2
  <2> QED
    BY <2>2, <2>3
<1> DEFINE keyOf(j) == s.pending[j].key
           last == {j \in 1..k : \A h \in (j + 1)..k : keyOf(h) # keyOf(j)}
<1>2. Stored(s, k, given) = {[key |-> keyOf(j), assignment |-> given[j]] : j \in last}
  BY DEF Stored
<1>3. \A j \in 1..k : keyOf(j) \in Key /\ given[j] \in Assignment
  BY <1>1, AnswerTypes
<1>4. \A e \in Stored(s, k, given) : \E j \in 1..k : e = [key |-> s.pending[j].key, assignment |-> given[j]]
  BY <1>2
<1>5. \A j, h \in last : keyOf(j) = keyOf(h) => j = h
  <2> HIDE DEF keyOf
  <2> SUFFICES ASSUME NEW j \in last, NEW h \in last, keyOf(j) = keyOf(h), j # h PROVE FALSE
    OBVIOUS
  <2>1. CASE j < h
    <3>1. h \in (j + 1)..k
      BY <1>1, <2>1
    <3> QED
      BY <3>1
  <2>2. CASE h < j
    <3>1. j \in (h + 1)..k
      BY <1>1, <2>2
    <3> QED
      BY <3>1
  <2> QED
    BY <1>1, <2>1, <2>2
<1>6. last \subseteq 1..k
  OBVIOUS
<1> HIDE DEF keyOf, last
<1>7. Stored(s, k, given) \subseteq [key : Key, assignment : Assignment]
  BY <1>2, <1>3, <1>6
<1>8. \A e, f \in Stored(s, k, given) : e.key = f.key => e = f
  BY <1>2, <1>5
<1> QED
  BY <1>4, <1>7, <1>8

LEMMA AskBatchStep ==
    ASSUME ClassificationInv, NEW p \in Scanners, NEW k \in 1..BatchSize, AskBatch(p, k)
    PROVE  ClassificationInv'
<1> DEFINE s == scans[p]
<1>0. PICK given \in [1..k -> Answers(s.classifier)] :
         /\ scans' = [scans EXCEPT ![p] = WithAnswers(s, k, given)]
         /\ cache' = {e \in cache : \A j \in 1..k : e.key # s.pending[j].key} \cup Stored(s, k, given)
         /\ answers' = answers \cup
               {[classifier |-> s.classifier, assignment |-> given[j],
                 intent |-> s.turns[s.pending[j].turn].intent] : j \in 1..k}
  BY Zenon DEF AskBatch
<1>1. s = scans[p]
  OBVIOUS
<1> HIDE DEF s
<1>2. UNCHANGED <<turns, classifier, switches>> /\ s.phase = "asking" /\ k \in 1..Len(s.pending)
  <2>1. k \in Nat /\ k >= 1 /\ k <= Len(s.pending)
    BY <1>1, ClassificationAssumption DEF AskBatch, Batches
  <2>2. s.pending \in Seq([turn : Nat, key : Key])
    BY <1>1, ScanTypes DEF ScanRecord
  <2>3. Len(s.pending) \in Nat
    BY <2>2, LenProperties
  <2> QED
    BY <1>1, <2>1, <2>3 DEF AskBatch
<1>3. s \in ScanRecord /\ InOrder(s) /\ Explained(s) /\ CacheAnswered(s, answers) /\ s.next = Len(s.turns) + 1
  BY <1>1, <1>2, ScanTypes DEF GoodScan
<1>5. PICK x : x = WithAnswers(s, k, given)
  OBVIOUS
<1>6. answers \subseteq answers'
  BY <1>0
<1>7. x \in ScanRecord /\ GoodScan(x, answers')
  <2>1. CacheAnswered(s, answers')
    BY <1>3, <1>6, MoreAnswers
  <2> QED
    BY <1>2, <1>3, <1>5, <2>1, AnsweredIsGood
<1>8. scans' \in [Scanners -> ScanRecord] /\ scans'[p] = x /\ \A q \in Scanners \ {p} : scans'[q] = scans[q]
  BY <1>0, <1>5, <1>7 DEF ClassificationInv, ClassificationTypeOK
<1>9. \A q \in Scanners : GoodScan(scans'[q], answers')
  <2>1. \A q \in Scanners : GoodScan(scans[q], answers)
    BY DEF ClassificationInv
  <2>2. \A q \in Scanners : GoodScan(scans[q], answers')
    BY <1>6, <2>1, MoreAnswers
  <2> QED
    BY <1>7, <1>8, <2>2
<1>10. \A j \in 1..k : /\ given[j] \in Assignment
                       /\ s.classifier # Missing => given[j].status = "classified"
                       /\ s.pending[j].key \in Key /\ KeyOfTurn(s, s.pending[j].turn, s.pending[j].key)
                       /\ s.turns[s.pending[j].turn] \in Turn
  <2>1. s.pending \in Seq([turn : Nat, key : Key])
    BY <1>3 DEF ScanRecord
  <2>2. Len(s.pending) \in Nat /\ \A j \in 1..Len(s.pending) : s.pending[j] \in [turn : Nat, key : Key]
    BY <2>1, ElementOfSeq, LenProperties
  <2>3. \A j \in 1..k : j \in 1..Len(s.pending)
    BY <1>2, <2>2
  <2>4. \A j \in 1..Len(s.pending) : /\ KeyOfTurn(s, s.pending[j].turn, s.pending[j].key)
                                     /\ s.pending[j].turn \in 1..(s.next - 1)
    BY <1>3 DEF InOrder
  <2>5. \A i \in 1..(s.next - 1) : s.turns[i] \in Turn
    <3>1. s.turns \in Seq(Turn)
      BY <1>3 DEF ScanRecord
    <3>2. Len(s.turns) \in Nat /\ \A i \in 1..Len(s.turns) : s.turns[i] \in Turn
      BY <3>1, ElementOfSeq, LenProperties
    <3>3. s.next - 1 = Len(s.turns)
      BY <1>3, <3>2
    <3> QED
      BY <3>2, <3>3
  <2> QED
    BY <2>2, <2>3, <2>4, <2>5, AnswerTypes
<1>11. /\ s.classifier \in Configurations
       /\ \A j \in 1..k : s.turns[s.pending[j].turn].intent \in Intents
  BY <1>3, <1>10 DEF ScanRecord, Turn
<1>12. answers' \subseteq [classifier : Configurations, intent : Intents, assignment : Assignment]
  <2>1. answers \subseteq [classifier : Configurations, intent : Intents, assignment : Assignment]
    BY DEF ClassificationInv, ClassificationTypeOK
  <2>2. \A j \in 1..k : [classifier |-> s.classifier, assignment |-> given[j],
                         intent |-> s.turns[s.pending[j].turn].intent]
                          \in [classifier : Configurations, intent : Intents, assignment : Assignment]
    BY <1>10, <1>11
  <2> QED
    BY <1>0, <2>1, <2>2
<1>13. /\ cache' \subseteq [key : Key, assignment : Assignment]
       /\ \A e, f \in cache' : e.key = f.key => e = f
  <2>1. /\ cache \subseteq [key : Key, assignment : Assignment]
        /\ \A e, f \in cache : e.key = f.key => e = f
    BY DEF ClassificationInv, ClassificationTypeOK
  <2>2. /\ \A e \in Stored(s, k, given) : \E j \in 1..k :
             e = [key |-> s.pending[j].key, assignment |-> given[j]]
        /\ Stored(s, k, given) \subseteq [key : Key, assignment : Assignment]
        /\ \A e, f \in Stored(s, k, given) : e.key = f.key => e = f
    BY <1>2, <1>3, StoredEntries
  <2>3. \A e \in Stored(s, k, given) : \E j \in 1..k : e.key = s.pending[j].key
    BY <2>2
  <2> QED
    BY <1>0, <2>1, <2>2, <2>3
<1>14. CacheOfAnswers'
  <2>1. ASSUME NEW e \in cache'
        PROVE  \E a \in answers', turn \in Turn, previous \in Seq(Assignment) :
                 /\ a.classifier = e.key.classifier /\ a.assignment = e.assignment /\ a.intent = turn.intent
                 /\ e.key.text = Digested(turn, previous)
    <3>1. CASE e \in cache
      BY <1>6, <3>1 DEF ClassificationInv, CacheOfAnswers
    <3>2. CASE e \in Stored(s, k, given)
      <4>1. PICK j \in 1..k : e = [key |-> s.pending[j].key, assignment |-> given[j]]
        BY <1>2, <1>3, <3>2, StoredEntries
      <4>2. PICK turn : turn = s.turns[s.pending[j].turn]
        OBVIOUS
      <4>3. PICK previous \in Seq(Assignment) : e.key.text = Digested(turn, previous)
        BY <1>10, <4>1, <4>2 DEF KeyOfTurn
      <4>4. PICK a : a = [classifier |-> s.classifier, assignment |-> given[j], intent |-> turn.intent]
        OBVIOUS
      <4>5. a \in answers'
        BY <1>0, <4>2, <4>4
      <4>6. /\ a.classifier = e.key.classifier /\ a.assignment = e.assignment /\ a.intent = turn.intent
            /\ turn \in Turn
        BY <1>10, <4>1, <4>2, <4>4 DEF KeyOfTurn
      <4> QED
        BY <4>3, <4>5, <4>6
    <3> QED
      BY <1>0, <3>1, <3>2
  <2>2. ASSUME NEW a \in answers' PROVE a.classifier # Missing => a.assignment.status = "classified"
    <3>1. CASE a \in answers
      BY <3>1 DEF ClassificationInv, CacheOfAnswers
    <3>2. CASE a \notin answers
      <4>1. PICK j \in 1..k : a = [classifier |-> s.classifier, assignment |-> given[j],
                                   intent |-> s.turns[s.pending[j].turn].intent]
        BY <1>0, <3>2
      <4> QED
        BY <1>10, <4>1
    <3> QED
      BY <3>1, <3>2
  <2> QED
    BY <2>1, <2>2 DEF CacheOfAnswers
<1>15. ClassificationTypeOK'
  <2>1. turns' \in Seq(Turn) /\ classifier' \in Configurations /\ switches' \in 0..MaxSwitches
    BY <1>2 DEF ClassificationInv, ClassificationTypeOK
  <2> QED
    BY <1>8, <1>12, <1>13, <2>1 DEF ClassificationTypeOK
<1> QED
  BY <1>9, <1>14, <1>15 DEF ClassificationInv

\* The defining equation of SettleDeferred's recursive function.
SettledUpTo(s, f, last) ==
    f = [i \in 0..last |-> IF i = 0 THEN s.results
                           ELSE IF i \in s.deferred THEN InheritDeferred(f[i - 1], i) ELSE f[i - 1]]

LEMMA SettledExists ==
    ASSUME NEW s, NEW last \in Nat
    PROVE  \E f : SettledUpTo(s, f, last)
<1> DEFINE T == {k \in Nat : ~\E f : SettledUpTo(s, f, k)}
<1>1. SUFFICES ASSUME T # {} PROVE FALSE
  OBVIOUS
<1>2. PICK k \in T : \A m \in T : k <= m
  <2>1. T \in SUBSET Nat
    OBVIOUS
  <2> HIDE DEF T
  <2> QED
    BY <1>1, <2>1, LeastElement
<1>3. k # 0
  <2> DEFINE g == [i \in 0..0 |-> s.results]
  <2>1. g = [i \in 0..0 |-> IF i = 0 THEN s.results
                            ELSE IF i \in s.deferred THEN InheritDeferred(g[i - 1], i) ELSE g[i - 1]]
    OBVIOUS
  <2> HIDE DEF g
  <2> QED
    BY <2>1 DEF SettledUpTo
<1>4. PICK f : SettledUpTo(s, f, k - 1)
  <2>1. k - 1 \in Nat /\ k - 1 \notin T
    BY <1>2, <1>3
  <2> QED
    BY <2>1
<1> DEFINE g == [i \in 0..k |-> IF i < k THEN f[i]
                                ELSE IF k \in s.deferred THEN InheritDeferred(f[k - 1], k) ELSE f[k - 1]]
<1>5. g = [i \in 0..k |-> IF i = 0 THEN s.results
                          ELSE IF i \in s.deferred THEN InheritDeferred(g[i - 1], i) ELSE g[i - 1]]
  <2> SUFFICES ASSUME NEW i \in 0..k
               PROVE  g[i] = IF i = 0 THEN s.results
                             ELSE IF i \in s.deferred THEN InheritDeferred(g[i - 1], i) ELSE g[i - 1]
    OBVIOUS
  <2>1. k \in Nat /\ k # 0
    BY <1>3
  <2>2. \A h \in 0..(k - 1) : g[h] = f[h]
    BY <2>1
  <2>3. CASE i = 0
    BY <1>4, <2>1, <2>3 DEF SettledUpTo
  <2>4. CASE i # 0 /\ i < k
    <3>1. g[i] = f[i] /\ g[i - 1] = f[i - 1] /\ i \in 0..(k - 1)
      BY <2>1, <2>2, <2>4
    <3>2. f[i] = IF i \in s.deferred THEN InheritDeferred(f[i - 1], i) ELSE f[i - 1]
      BY <1>4, <2>4, <3>1 DEF SettledUpTo
    <3> QED
      BY <2>4, <3>1, <3>2
  <2>5. CASE i = k
    <3>1. g[k] = IF k \in s.deferred THEN InheritDeferred(f[k - 1], k) ELSE f[k - 1]
      BY <2>1
    <3>2. g[k - 1] = f[k - 1]
      BY <2>1, <2>2
    <3> QED
      BY <2>1, <2>5, <3>1, <3>2
  <2> QED
    BY <2>1, <2>3, <2>4, <2>5
<1> HIDE DEF g
<1> QED
  BY <1>2, <1>5 DEF SettledUpTo

LEMMA SettledUnfolds ==
    ASSUME NEW s, Len(s.turns) \in Nat
    PROVE  \E f : SettledUpTo(s, f, Len(s.turns)) /\ SettleDeferred(s) = f[Len(s.turns)]
<1> DEFINE f == CHOOSE f : f = [i \in 0..Len(s.turns) |->
                    IF i = 0 THEN s.results
                    ELSE IF i \in s.deferred THEN InheritDeferred(f[i - 1], i) ELSE f[i - 1]]
<1>1. SettledUpTo(s, f, Len(s.turns))
  <2>1. \E g : SettledUpTo(s, g, Len(s.turns))
    BY SettledExists
  <2>2. \E g : g = [i \in 0..Len(s.turns) |->
                    IF i = 0 THEN s.results
                    ELSE IF i \in s.deferred THEN InheritDeferred(g[i - 1], i) ELSE g[i - 1]]
    BY <2>1 DEF SettledUpTo
  <2>3. f = [i \in 0..Len(s.turns) |->
               IF i = 0 THEN s.results
               ELSE IF i \in s.deferred THEN InheritDeferred(f[i - 1], i) ELSE f[i - 1]]
    BY <2>2
  <2> HIDE DEF f
  <2> QED
    BY <2>3 DEF SettledUpTo
<1>2. SettleDeferred(s) = f[Len(s.turns)]
  BY DEF SettleDeferred
<1> HIDE DEF f
<1> QED
  BY <1>1, <1>2

\* The continuations up to last are settled, each from the turn before it.
SettledSoFar(s, last, results) ==
    /\ results \in [1..Len(s.turns) -> Result]
    /\ \A i \in 1..Len(s.turns) : i \notin s.deferred \/ i > last => results[i] = s.results[i]
    /\ \A i \in 1..Len(s.turns) : i \in s.deferred /\ i <= last =>
         /\ results[i].cached = FALSE
         /\ results[i].method # "none" <=> results[i].assignment.status = "classified"
         /\ results[i].method = "inherited" => results[i - 1].assignment = results[i].assignment

LEMMA SettlesOneMore ==
    ASSUME NEW s \in ScanRecord, InOrder(s), NEW last \in 1..Len(s.turns), NEW results,
           SettledSoFar(s, last - 1, results)
    PROVE  SettledSoFar(s, last, IF last \in s.deferred THEN InheritDeferred(results, last) ELSE results)
<1>1. Len(s.turns) \in Nat
  <2>1. s.turns \in Seq(Turn)
    BY DEF ScanRecord
  <2> QED
    BY <2>1, LenProperties
<1>2. CASE last \notin s.deferred
  <2>1. \A i \in 1..Len(s.turns) : i \in s.deferred /\ i <= last => i <= last - 1
    BY <1>1, <1>2
  <2>2. \A i \in 1..Len(s.turns) : i > last => i > last - 1
    BY <1>1
  <2> QED
    BY <1>2, <2>1, <2>2 DEF SettledSoFar
<1>3. CASE last \in s.deferred
  <2>1. last >= 2 /\ last - 1 \in 1..Len(s.turns) /\ OpenTurn(s, last)
    BY <1>1, <1>3 DEF InOrder, OpenTurn
  <2>2. results[last] = s.results[last] /\ results \in [1..Len(s.turns) -> Result]
    BY <1>1 DEF SettledSoFar
  <2>3. results[last].cached = FALSE /\ results[last].method = "none" /\ results[last] \in Result
    BY <2>1, <2>2 DEF InOrder, Result
  <2>4. results[last - 1].assignment \in Assignment
    BY <2>1, <2>2 DEF Result
  <2>5. PICK r : r = IF results[last - 1].assignment.status = "classified"
                     THEN [assignment |-> results[last - 1].assignment, method |-> "inherited", cached |-> FALSE]
                     ELSE [results[last] EXCEPT !.assignment = NoInput]
    OBVIOUS
  <2>6. /\ r \in Result /\ r.cached = FALSE
        /\ r.method # "none" <=> r.assignment.status = "classified"
        /\ r.method = "inherited" => results[last - 1].assignment = r.assignment
    <3>1. CASE results[last - 1].assignment.status = "classified"
      BY <2>4, <2>5, <3>1 DEF Result
    <3>2. CASE results[last - 1].assignment.status # "classified"
      BY <2>3, <2>5, <3>2, AssignmentShapes DEF Result
    <3> QED
      BY <3>1, <3>2
  <2>7. PICK next : next = [results EXCEPT ![last] = r]
    OBVIOUS
  <2>8. next = InheritDeferred(results, last)
    BY <2>2, <2>5, <2>7 DEF InheritDeferred
  <2>9. /\ next \in [1..Len(s.turns) -> Result] /\ next[last] = r
        /\ \A i \in 1..Len(s.turns) : i # last => next[i] = results[i]
    BY <2>2, <2>6, <2>7
  <2>10. ASSUME NEW i \in 1..Len(s.turns), i \notin s.deferred \/ i > last PROVE next[i] = s.results[i]
    <3>1. i # last /\ (i \notin s.deferred \/ i > last - 1)
      BY <1>1, <1>3, <2>10
    <3> QED
      BY <2>9, <3>1 DEF SettledSoFar
  <2>11. ASSUME NEW i \in 1..Len(s.turns), i \in s.deferred, i <= last
         PROVE  /\ next[i].cached = FALSE
                /\ next[i].method # "none" <=> next[i].assignment.status = "classified"
                /\ next[i].method = "inherited" => next[i - 1].assignment = next[i].assignment
    <3>1. CASE i = last
      <4>1. next[i] = r /\ next[i - 1] = results[last - 1]
        BY <1>1, <2>1, <2>9, <3>1
      <4> QED
        BY <2>6, <4>1
    <3>2. CASE i # last
      <4>1. i <= last - 1 /\ i - 1 # last /\ i - 1 \in 1..Len(s.turns)
        BY <1>1, <2>11, <3>2 DEF InOrder
      <4>2. next[i] = results[i] /\ next[i - 1] = results[i - 1]
        BY <2>9, <3>2, <4>1
      <4> QED
        BY <2>11, <4>1, <4>2 DEF SettledSoFar
    <3> QED
      BY <3>1, <3>2
  <2>12. SettledSoFar(s, last, next)
    BY <2>9, <2>10, <2>11 DEF SettledSoFar
  <2> QED
    BY <1>3, <2>8, <2>12
<1> QED
  BY <1>2, <1>3

LEMMA AllAreSettled ==
    ASSUME NEW s \in ScanRecord, InOrder(s)
    PROVE  SettledSoFar(s, Len(s.turns), SettleDeferred(s))
<1>1. Len(s.turns) \in Nat
  <2>1. s.turns \in Seq(Turn)
    BY DEF ScanRecord
  <2> QED
    BY <2>1, LenProperties
<1>2. PICK f : SettledUpTo(s, f, Len(s.turns)) /\ SettleDeferred(s) = f[Len(s.turns)]
  BY <1>1, SettledUnfolds
<1> DEFINE T == {k \in Nat : k <= Len(s.turns) /\ ~SettledSoFar(s, k, f[k])}
<1>3. SUFFICES ASSUME T # {} PROVE FALSE
  BY <1>1, <1>2
<1>4. PICK k \in T : \A m \in T : k <= m
  <2>1. T \in SUBSET Nat
    OBVIOUS
  <2> HIDE DEF T
  <2> QED
    BY <1>3, <2>1, LeastElement
<1>5. CASE k = 0
  <2>1. f[0] = s.results
    BY <1>1, <1>2 DEF SettledUpTo
  <2>2. s.results \in [1..Len(s.turns) -> Result] /\ \A i \in 1..Len(s.turns) : ~(i <= 0)
    BY <1>1 DEF InOrder
  <2>3. SettledSoFar(s, 0, f[0])
    BY <2>1, <2>2 DEF SettledSoFar
  <2> QED
    BY <1>5, <2>3
<1>6. CASE k # 0
  <2>1. k \in 1..Len(s.turns) /\ k - 1 \in Nat /\ k - 1 <= Len(s.turns)
    BY <1>1, <1>6
  <2>2. SettledSoFar(s, k - 1, f[k - 1])
    <3>1. k - 1 \notin T
      BY <1>4, <2>1
    <3> QED
      BY <2>1, <3>1
  <2>3. f[k] = IF k \in s.deferred THEN InheritDeferred(f[k - 1], k) ELSE f[k - 1]
    BY <1>1, <1>2, <2>1 DEF SettledUpTo
  <2>4. SettledSoFar(s, k, f[k])
    BY <2>1, <2>2, <2>3, SettlesOneMore
  <2> QED
    BY <2>4
<1> QED
  BY <1>5, <1>6

LEMMA QueueTurnsStep ==
    ASSUME ClassificationInv, NEW p \in Scanners, QueueTurns(p)
    PROVE  ClassificationInv'
<1>1. PICK s : s = scans[p]
  OBVIOUS
<1>2. UNCHANGED <<turns, classifier, switches, cache, answers>> /\ s.phase = "asking" /\ s.pending = <<>>
  BY <1>1 DEF QueueTurns
<1>3. s \in ScanRecord /\ InOrder(s) /\ Explained(s) /\ CacheAnswered(s, answers) /\ s.next = Len(s.turns) + 1
  BY <1>1, <1>2, ScanTypes DEF GoodScan
<1>4. Len(s.turns) \in Nat /\ Len(s.pending) = 0
  <2>1. s.turns \in Seq(Turn)
    BY <1>3 DEF ScanRecord
  <2> QED
    BY <1>2, <2>1, EmptySeq, LenProperties
<1>5. PICK results : results = SettleDeferred(s)
  OBVIOUS
<1>6. SettledSoFar(s, Len(s.turns), results)
  BY <1>3, <1>5, AllAreSettled
<1>7. results \in [1..Len(s.turns) -> Result] /\ results \in Seq(Result)
  <2>1. results \in [1..Len(s.turns) -> Result]
    BY <1>6 DEF SettledSoFar
  <2> QED
    BY <1>4, <2>1, SeqDef
<1>8. PICK x : /\ x = [s EXCEPT !.phase = "queued", !.deferred = {}, !.results = results]
               /\ scans' = [scans EXCEPT ![p] = x]
  BY <1>1, <1>3, <1>5 DEF QueueTurns, ScanRecord
<1>9. /\ x \in ScanRecord /\ x.phase = "queued" /\ x.turns = s.turns /\ x.classifier = s.classifier
      /\ x.next = s.next /\ x.previous = s.previous /\ x.results = results
      /\ x.pending = <<>> /\ x.deferred = {}
  BY <1>2, <1>3, <1>7, <1>8 DEF ScanRecord
<1>10. \A i \in 1..Len(s.turns) : ~OpenTurn(x, i) /\ (OpenTurn(s, i) <=> i \in s.deferred)
  BY <1>3, <1>4, <1>9 DEF OpenTurn
<1>11. InOrder(x)
  <2>1. Len(x.pending) = 0 /\ x.deferred \subseteq 2..(x.next - 1) /\ x.next \in 1..(Len(x.turns) + 1)
    BY <1>3, <1>4, <1>9, EmptySeq
  <2> QED
    BY <1>3, <1>7, <1>9, <1>10, <2>1 DEF InOrder
<1>12. \A i \in 1..Len(s.turns) : ~OpenTurn(s, i) => results[i] = s.results[i]
  BY <1>6, <1>10 DEF SettledSoFar
<1>13. \A last \in 0..Len(s.turns) : \A assignment : Source(s, last, assignment) => Source(x, last, assignment)
  <2> SUFFICES ASSUME NEW last \in 0..Len(s.turns), NEW assignment, Source(s, last, assignment)
               PROVE  Source(x, last, assignment)
    OBVIOUS
  <2>1. PICK j \in 1..last : ~OpenTurn(s, j) /\ s.results[j].assignment = assignment
    BY DEF Source
  <2>2. j \in 1..Len(s.turns)
    BY <1>4
  <2>3. ~OpenTurn(x, j) /\ x.results[j] = s.results[j]
    BY <1>9, <1>10, <1>12, <2>1, <2>2
  <2> QED
    BY <2>1, <2>3 DEF Source
<1>14. Explained(x)
  <2> SUFFICES ASSUME s.classifier # Missing
               PROVE  /\ x.previous # <<>> => /\ Head(x.previous).status = "classified"
                                             /\ Source(x, x.next - 1, Head(x.previous))
                      /\ \A i \in 1..Len(x.turns) : ~OpenTurn(x, i) => TurnExplained(x, i)
    BY <1>9 DEF Explained
  <2>1. /\ s.previous # <<>> => /\ Head(s.previous).status = "classified"
                               /\ Source(s, s.next - 1, Head(s.previous))
        /\ \A i \in 1..Len(s.turns) : ~OpenTurn(s, i) => TurnExplained(s, i)
    BY <1>3 DEF Explained
  <2>2. s.next - 1 \in 0..Len(s.turns)
    BY <1>3, <1>4
  <2>3. ASSUME NEW i \in 1..Len(s.turns) PROVE TurnExplained(x, i)
    <3>1. i - 1 \in 0..Len(s.turns)
      BY <1>4
    <3>2. CASE i \notin s.deferred
      <4>1. TurnExplained(s, i) /\ x.results[i] = s.results[i]
        BY <1>9, <1>10, <1>12, <2>1, <3>2
      <4> QED
        BY <1>13, <3>1, <4>1 DEF TurnExplained
    <3>3. CASE i \in s.deferred
      <4>1. i <= Len(s.turns)
        BY <1>4
      <4>2. /\ results[i].method # "none" <=> results[i].assignment.status = "classified"
            /\ results[i].method = "inherited" => results[i - 1].assignment = results[i].assignment
        BY <1>6, <3>3, <4>1 DEF SettledSoFar
      <4>3. i - 1 \in 1..(i - 1) /\ i - 1 \in 1..Len(s.turns)
        BY <1>3, <1>4, <3>3 DEF InOrder
      <4>4. results[i].method = "inherited" => Source(x, i - 1, results[i].assignment)
        BY <1>9, <1>10, <4>2, <4>3 DEF Source
      <4> QED
        BY <1>9, <4>2, <4>4 DEF TurnExplained
    <3> QED
      BY <3>2, <3>3
  <2> QED
    BY <1>9, <1>13, <2>1, <2>2, <2>3
<1>15. CacheAnswered(x, answers)
  <2> SUFFICES ASSUME NEW i \in 1..Len(s.turns), results[i].cached
               PROVE  Given(answers, s.classifier, s.turns[i].intent, results[i].assignment)
    BY <1>9 DEF CacheAnswered
  <2>1. i \notin s.deferred
    BY <1>4, <1>6 DEF SettledSoFar
  <2> QED
    BY <1>3, <1>10, <1>12, <2>1 DEF CacheAnswered
<1>16. GoodScan(x, answers)
  BY <1>3, <1>9, <1>11, <1>14, <1>15 DEF GoodScan
<1> QED
  BY <1>2, <1>8, <1>9, <1>16, ScannerStep

LEMMA ClassificationNextInv ==
    ClassificationInv /\ [ClassificationNext]_classificationVars => ClassificationInv'
<1> SUFFICES ASSUME ClassificationInv, [ClassificationNext]_classificationVars PROVE ClassificationInv'
  OBVIOUS
<1>1. ASSUME NEW t \in Turn, AddTurn(t) PROVE ClassificationInv'
  BY <1>1, SessionStep
<1>2. ASSUME NEW c \in Configurations, ChangeClassifier(c) PROVE ClassificationInv'
  BY <1>2, SessionStep
<1>3. ASSUME NEW p \in Scanners, StartScan(p) PROVE ClassificationInv'
  BY <1>3, StartScanStep
<1>4. ASSUME NEW p \in Scanners, VisitTurn(p) PROVE ClassificationInv'
  BY <1>4, VisitTurnStep
<1>5. ASSUME NEW p \in Scanners, EndWalk(p) PROVE ClassificationInv'
  BY <1>5, EndWalkStep
<1>6. ASSUME NEW p \in Scanners, NEW k \in 1..BatchSize, AskBatch(p, k) PROVE ClassificationInv'
  BY <1>6, AskBatchStep
<1>7. ASSUME NEW p \in Scanners, NEW k \in 1..BatchSize, AskFails(p, k) PROVE ClassificationInv'
  BY <1>7, AskFailsStep
<1>8. ASSUME NEW p \in Scanners, QueueTurns(p) PROVE ClassificationInv'
  BY <1>8, QueueTurnsStep
<1>9. CASE UNCHANGED classificationVars
  BY <1>9, SessionStep
<1> QED
  BY <1>1, <1>2, <1>3, <1>4, <1>5, <1>6, <1>7, <1>8, <1>9 DEF ClassificationNext

\* The state of classify_turns is always of its type; the cache has one entry
\* for each key (the primary key of classification_cache).
THEOREM ClassificationTypeCorrect == ClassificationSpec => []ClassificationTypeOK
<1>1. ClassificationInv => ClassificationTypeOK
  BY DEF ClassificationInv
<1> QED
  BY <1>1, ClassificationInitInv, ClassificationNextInv, PTL DEF ClassificationSpec

\* A category taken from the cache was given by the classifier the scan began
\* with, however often the user changes it and whichever process stored it, to
\* this intent or to one that differs by a category id at its end
\* (classification_cache_key, classifier_fingerprint).
THEOREM CachedWasAnsweredSafe == ClassificationSpec => []CachedWasAnswered
<1>1. ASSUME ClassificationInv PROVE CachedWasAnswered
  <2> SUFFICES ASSUME NEW p \in Scanners, NEW i \in DOMAIN scans[p].results, scans[p].results[i].cached
               PROVE  \E a \in answers : /\ a.classifier = scans[p].classifier
                                         /\ a.assignment = scans[p].results[i].assignment
                                         /\ Alike(a.intent, scans[p].turns[i].intent)
    BY DEF CachedWasAnswered
  <2>1. GoodScan(scans[p], answers)
    BY <1>1 DEF ClassificationInv
  <2>2. scans[p].phase # "idle"
    <3>1. DOMAIN <<>> = {}
      OBVIOUS
    <3> QED
      BY <2>1, <3>1 DEF GoodScan
  <2>3. InOrder(scans[p]) /\ CacheAnswered(scans[p], answers)
    BY <2>1, <2>2 DEF GoodScan
  <2>4. i \in 1..Len(scans[p].turns)
    BY <2>3 DEF InOrder
  <2> QED
    BY <2>3, <2>4 DEF CacheAnswered, Given
<1> QED
  BY <1>1, ClassificationInitInv, ClassificationNextInv, PTL DEF ClassificationSpec

\* In a queued session a turn has a method exactly when it has a category, and
\* an inherited category is that of a turn before it: failed requests and
\* turns without an answer are nobody's source (classify_turns).
THEOREM TurnsAreExplainedSafe == ClassificationSpec => []TurnsAreExplained
<1>1. ASSUME ClassificationInv PROVE TurnsAreExplained
  <2> SUFFICES ASSUME NEW p \in Scanners, scans[p].phase = "queued", scans[p].classifier # Missing,
                      NEW i \in DOMAIN scans[p].results
               PROVE  /\ scans[p].results[i].method # "none"
                           <=> scans[p].results[i].assignment.status = "classified"
                      /\ scans[p].results[i].method = "inherited" =>
                           \E j \in 1..(i - 1) :
                             scans[p].results[j].assignment = scans[p].results[i].assignment
    BY Zenon DEF TurnsAreExplained
  <2>1. GoodScan(scans[p], answers) /\ scans[p] \in ScanRecord
    BY <1>1, ScanTypes
  <2>2. /\ InOrder(scans[p]) /\ Explained(scans[p]) /\ scans[p].next = Len(scans[p].turns) + 1
        /\ scans[p].pending = <<>> /\ scans[p].deferred = {}
    BY <2>1 DEF GoodScan
  <2>3. i \in 1..Len(scans[p].turns) /\ Len(scans[p].turns) \in Nat
    <3>1. scans[p].turns \in Seq(Turn)
      BY <2>1 DEF ScanRecord
    <3> QED
      BY <2>2, <3>1, LenProperties DEF InOrder
  <2>4. ~OpenTurn(scans[p], i)
    <3>1. Len(scans[p].pending) = 0
      BY <2>2, EmptySeq
    <3> QED
      BY <2>2, <2>3, <3>1 DEF OpenTurn
  <2>5. TurnExplained(scans[p], i)
    BY <2>2, <2>3, <2>4 DEF Explained
  <2> QED
    BY <2>5 DEF TurnExplained, Source
<1> QED
  BY <1>1, ClassificationInitInv, ClassificationNextInv, PTL DEF ClassificationSpec

===============================================================================
