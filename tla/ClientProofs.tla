---------------------------- MODULE ClientProofs ----------------------------
(***************************************************************************)
(* Proofs about the parts of the client that work alone: its secrets       *)
(* (CredentialStore), the polling of a device grant (DevicePolling), the   *)
(* update check (UpdateCheck) and the update itself (ClientUpdate), for    *)
(* any number of processes and any length of time.                         *)
(***************************************************************************)
EXTENDS CredentialStore, DevicePolling, UpdateCheck, ClientUpdate, FiniteSetTheorems, TLAPS

-----------------------------------------------------------------------------
(* The credential store                                                    *)

Writing(p) == ops[p].phase \in {"read", "open", "fill"}

\* Only the installation token is moved, and only into the keyring or the
\* file; other secrets are written by a command that has loaded the
\* configuration.
TokenMoves ==
    /\ keyring[Token] \in {0, TokenSecret}
    /\ keyring[Token] = TokenSecret => reach # "absent"
    /\ \A p \in Procs :
         /\ ops[p].moving => ops[p].key = Token
         /\ Writing(p) /\ ops[p].key = Token => ops[p].moving /\ ops[p].value = TokenSecret
         /\ Writing(p) /\ ops[p].key # Token => ops[p].loaded

\* As long as the keyring does not have it, the token is in the file for
\* everybody who relies on it, and in every copy of the file that is going to
\* be written back.
TokenInFile ==
    keyring[Token] = 0 =>
      /\ config = "moved" => fallback[Token] = TokenSecret
      /\ \A p \in Procs :
           /\ ops[p].loaded \/ ops[p].phase = "save" => fallback[Token] = TokenSecret
           /\ Writing(p) /\ ops[p].key = Token => ops[p].kind = "insert"
           /\ ops[p].phase \in {"open", "fill"} /\ ops[p].key # Token => ops[p].copy[Token] = TokenSecret

\* One process at a time: it works on what is there, and a file that was left
\* torn is never written again.
WorksAlone ==
    /\ \A p, q \in Procs : ops[p].phase # "idle" /\ ops[q].phase # "idle" => p = q
    /\ \A p \in Procs : /\ ops[p].phase \in {"open", "fill"} => ops[p].copy = fallback
                        /\ ops[p].phase = "open" => ~torn
                        /\ ops[p].phase = "fill" => torn

\* What the keyring and the file hold of a key, and what the process at work
\* has done with it.  A keyring that was away may be behind.
Holds(k) ==
    /\ fallback[k] \in allowed[k] \cup {0}
    /\ reach = "absent" => keyring[k] = 0
    /\ keyring[k] = 0 => fallback[k] \in allowed[k] /\ k \notin behind
    /\ keyring[k] # 0 /\ k \notin behind => keyring[k] \in allowed[k]
Wrote(p) ==
    \/ ops[p].key \in behind
    \/ keyring[ops[p].key] = IF ops[p].kind = "clear" THEN ops[p].value ELSE 0
Readable == ~torn \/ (\E p \in Procs : ops[p].phase = "fill")
HoldsAllowed ==
    Readable => (\A k \in Keys : Holds(k)) /\ (\A p \in Procs : Writing(p) => Wrote(p))

StoreInv ==
    /\ StoreTypeOK /\ TokenMoves /\ TokenInFile
    /\ ~overlapped => WorksAlone
    /\ ~overlapped => HoldsAllowed

LEMMA StoreConstants ==
    /\ Empty \in [Keys -> Secrets] /\ (\A k \in Keys : Empty[k] = 0)
    /\ Token \in Keys /\ 0 \in Secrets /\ TokenSecret \in Secrets /\ TokenSecret # 0
    /\ NoOp = [phase |-> "idle", kind |-> "clear", key |-> Token, value |-> 0, copy |-> Empty,
               moving |-> FALSE, loaded |-> FALSE]
    /\ NoOp \in Operation
<1>1. /\ Token \in Keys /\ 0 \in Secrets /\ TokenSecret \in Secrets /\ TokenSecret # 0
      /\ Empty \in [Keys -> Secrets] /\ (\A k \in Keys : Empty[k] = 0)
  BY CredentialStoreAssumption DEF Keys, Secrets, TokenSecret, Empty
<1>2. NoOp = [phase |-> "idle", kind |-> "clear", key |-> Token, value |-> 0, copy |-> Empty,
              moving |-> FALSE, loaded |-> FALSE]
  BY DEF NoOp
<1>3. NoOp \in Operation
  BY <1>1, <1>2 DEF Operation
<1> QED
  BY <1>1, <1>2, <1>3

LEMMA StoreInitInv == StoreInit => StoreInv
<1> SUFFICES ASSUME StoreInit PROVE StoreInv
  OBVIOUS
<1>1. \A p \in Procs : ops[p].phase = "idle" /\ ~ops[p].moving /\ ~ops[p].loaded
  BY StoreConstants DEF StoreInit
<1>2. StoreTypeOK
  <2>1. {0} \in SUBSET Secrets /\ 1 \in 1..MaxSets /\ 0 \in 0..MaxCrashes
    BY StoreConstants, CredentialStoreAssumption
  <2>2. allowed \in [Keys -> SUBSET Secrets]
    BY <2>1 DEF StoreInit
  <2> QED
    BY <2>1, <2>2, StoreConstants DEF StoreInit, StoreTypeOK
<1>3. TokenMoves /\ TokenInFile /\ WorksAlone
  BY <1>1, StoreConstants DEF StoreInit, TokenMoves, TokenInFile, WorksAlone, Writing
<1>4. HoldsAllowed
  BY <1>1, StoreConstants DEF StoreInit, HoldsAllowed, Holds, Wrote, Writing
<1> QED
  BY <1>2, <1>3, <1>4 DEF StoreInv

\* An operation begins: the keyring is written, and the file is next.
Starts(p, k, v, moving) ==
    /\ ops[p].phase = "idle"
    /\ WriteKeyring(k, v)
    /\ allowed' = [allowed EXCEPT ![k] = @ \cup {v}]
    /\ Begin(p)
    /\ \E op \in Operation :
         /\ ops' = [ops EXCEPT ![p] = op]
         /\ op.phase = "read" /\ op.key = k /\ op.value = v /\ (op.moving <=> moving) /\ (op.loaded <=> ~moving)
         /\ op.kind = IF reach = "up" \/ v = 0 THEN "clear" ELSE "insert"
    /\ UNCHANGED <<reach, fallback, torn, config>>

\* A keyring that answers takes the secret; one that does not is behind.
LEMMA KeyringShape ==
    ASSUME StoreTypeOK, NEW k \in Keys, NEW v \in Secrets, WriteKeyring(k, v)
    PROVE  /\ keyring' \in [Keys -> Secrets] /\ behind' \subseteq Keys
           /\ keyring'[k] = IF reach = "up" THEN v ELSE keyring[k]
           /\ k \in behind' <=> reach # "up" /\ (keyring[k] # 0 \/ k \in behind)
           /\ \A j \in Keys \ {k} : keyring'[j] = keyring[j] /\ (j \in behind' <=> j \in behind)
<1>1. CASE reach = "up"
  BY <1>1 DEF WriteKeyring, StoreTypeOK
<1>2. CASE reach # "up"
  BY <1>2 DEF WriteKeyring, StoreTypeOK
<1> QED
  BY <1>1, <1>2

LEMMA OperationsStart ==
    ASSUME StoreTypeOK, NEW p \in Procs,
           (LoadConfig(p) /\ config = "plain") \/ SetForServer(p) \/ DeleteForServer(p)
    PROVE  /\ \/ Starts(p, Token, TokenSecret, TRUE)
              \/ ops[p].loaded /\ \E k \in Others, v \in Secrets : Starts(p, k, v, FALSE)
           /\ sets' \in 1..MaxSets /\ UNCHANGED crashes
<1> DEFINE Op(kind, k, v, moving) == [NoOp EXCEPT !.phase = "read", !.kind = kind, !.key = k, !.value = v,
                                                  !.moving = moving, !.loaded = ~moving]
<1>1. ASSUME NEW k \in Keys, NEW v \in Secrets, NEW moving \in BOOLEAN, NEW kind \in {"insert", "clear"}
      PROVE  /\ Op(kind, k, v, moving) \in Operation
             /\ Op(kind, k, v, moving).phase = "read" /\ Op(kind, k, v, moving).key = k
             /\ Op(kind, k, v, moving).value = v /\ Op(kind, k, v, moving).kind = kind
             /\ Op(kind, k, v, moving).moving <=> moving
             /\ Op(kind, k, v, moving).loaded <=> ~moving
  BY StoreConstants DEF Operation
<1>2. ASSUME NEW k \in Keys, NEW v \in Secrets, v # 0, NEW moving \in BOOLEAN, ops[p].phase = "idle",
             SetScoped(p, k, v, moving), UNCHANGED <<reach, fallback, torn, config>>
      PROVE  Starts(p, k, v, moving)
  <2> DEFINE kind == IF reach = "up" THEN "clear" ELSE "insert"
  <2>1. ops' = [ops EXCEPT ![p] = Op(kind, k, v, moving)]
    BY <1>2 DEF SetScoped
  <2>2. kind \in {"insert", "clear"} /\ kind = IF reach = "up" \/ v = 0 THEN "clear" ELSE "insert"
    BY <1>2
  <2> HIDE DEF kind, Op
  <2>3. \E op \in Operation :
          /\ ops' = [ops EXCEPT ![p] = op]
          /\ op.phase = "read" /\ op.key = k /\ op.value = v /\ (op.moving <=> moving) /\ (op.loaded <=> ~moving)
          /\ op.kind = IF reach = "up" \/ v = 0 THEN "clear" ELSE "insert"
    <3> DEFINE op == Op(kind, k, v, moving)
    <3>1. op \in Operation /\ op.phase = "read" /\ op.key = k /\ op.value = v /\ op.kind = kind
      BY <1>1, <2>2
    <3>2. (op.moving <=> moving) /\ (op.loaded <=> ~moving)
      BY <1>1, <2>2
    <3> HIDE DEF op
    <3>3. ops' = [ops EXCEPT ![p] = op]
      BY <2>1 DEF op
    <3> QED
      BY <2>2, <3>1, <3>2, <3>3
  <2> QED
    BY <1>2, <2>3 DEF SetScoped, Starts
<1>3. CASE LoadConfig(p) /\ config = "plain"
  BY <1>2, <1>3, StoreConstants DEF LoadConfig, StoreTypeOK
<1>4. CASE SetForServer(p)
  <2>1. sets' \in 1..MaxSets /\ sets' \in Secrets /\ sets' # 0
    BY <1>4, CredentialStoreAssumption DEF SetForServer, StoreTypeOK, Secrets
  <2>2. PICK k \in Others : SetScoped(p, k, sets', FALSE)
    BY <1>4 DEF SetForServer
  <2>3. Starts(p, k, sets', FALSE)
    BY <1>2, <1>4, <2>1, <2>2 DEF SetForServer, Keys
  <2> QED
    BY <1>4, <2>1, <2>3 DEF SetForServer
<1>5. CASE DeleteForServer(p)
  <2>1. PICK k \in Others :
          /\ Begin(p)
          /\ WriteKeyring(k, 0)
          /\ allowed' = [allowed EXCEPT ![k] = @ \cup {0}]
          /\ ops' = [ops EXCEPT ![p] = [NoOp EXCEPT !.phase = "read", !.key = k, !.loaded = TRUE]]
    BY <1>5 DEF DeleteForServer
  <2> DEFINE op == [NoOp EXCEPT !.phase = "read", !.key = k, !.loaded = TRUE]
  <2>2. /\ op \in Operation
        /\ op.phase = "read" /\ op.key = k /\ op.value = 0 /\ (op.moving <=> FALSE) /\ (op.loaded <=> ~FALSE)
        /\ op.kind = "clear"
    BY StoreConstants DEF Operation, Keys
  <2>3. ops' = [ops EXCEPT ![p] = op]
    BY <2>1
  <2> HIDE DEF op
  <2>4. Starts(p, k, 0, FALSE)
    BY <1>5, <2>1, <2>2, <2>3 DEF DeleteForServer, Starts
  <2> QED
    BY <1>5, <2>4, StoreConstants DEF DeleteForServer, StoreTypeOK
<1> QED
  BY <1>3, <1>4, <1>5

LEMMA CompleteShape ==
    ASSUME StoreTypeOK, NEW p \in Procs, Complete(p)
    PROVE  \E op \in Operation :
             /\ ops' = [ops EXCEPT ![p] = op]
             /\ op.phase = (IF ops[p].moving THEN "save" ELSE "idle")
             /\ ~op.moving /\ op.loaded = ops[p].loaded
<1> DEFINE op == [NoOp EXCEPT !.phase = IF ops[p].moving THEN "save" ELSE "idle", !.loaded = ops[p].loaded]
<1>1. ops[p].loaded \in BOOLEAN
  BY DEF StoreTypeOK, Operation
<1>2. /\ op \in Operation /\ op.phase = (IF ops[p].moving THEN "save" ELSE "idle")
      /\ ~op.moving /\ op.loaded = ops[p].loaded
  BY <1>1, StoreConstants DEF Operation
<1>3. ops' = [ops EXCEPT ![p] = op]
  BY DEF Complete
<1> HIDE DEF op
<1> QED
  BY <1>2, <1>3

\* The file after FillFallback.
LEMMA FillShape ==
    ASSUME StoreTypeOK, NEW p \in Procs, FillFallback(p)
    PROVE  /\ fallback' \in [Keys -> Secrets] /\ torn' \in BOOLEAN
           /\ fallback'[ops[p].key] = IF ops[p].kind = "insert" THEN ops[p].value ELSE 0
           /\ \A k \in Keys \ {ops[p].key} : fallback'[k] = ops[p].copy[k]
<1>1. ops[p] \in Operation
  BY DEF StoreTypeOK
<1> QED
  BY <1>1, StoreConstants DEF FillFallback, Operation

LEMMA StoreTypeStep ==
    ASSUME StoreTypeOK, StoreNext
    PROVE  StoreTypeOK'
<1>1. CASE KeyringChanges
  BY <1>1 DEF KeyringChanges, StoreTypeOK
<1>2. ASSUME NEW p \in Procs, NEW k \in Keys, NEW v \in Secrets, NEW moving \in BOOLEAN,
             Starts(p, k, v, moving), sets' \in 1..MaxSets, UNCHANGED crashes
      PROVE  StoreTypeOK'
  <2>1. ops' \in [Procs -> Operation]
    BY <1>2 DEF Starts, StoreTypeOK
  <2>2. /\ keyring' \in [Keys -> Secrets] /\ behind' \subseteq Keys
        /\ allowed' \in [Keys -> SUBSET Secrets] /\ overlapped' \in BOOLEAN
    BY <1>2, KeyringShape DEF Starts, Begin, StoreTypeOK
  <2> QED
    BY <1>2, <2>1, <2>2 DEF Starts, StoreTypeOK
<1>3. ASSUME NEW p \in Procs, LoadConfig(p), config # "plain" PROVE StoreTypeOK'
  <2>1. ops' = [ops EXCEPT ![p].loaded = TRUE]
    BY <1>3 DEF LoadConfig
  <2>2. ops' \in [Procs -> Operation]
    BY <2>1 DEF StoreTypeOK, Operation
  <2> QED
    BY <1>3, <2>2 DEF LoadConfig, StoreTypeOK
<1>4. ASSUME NEW p \in Procs, Complete(p)
      PROVE  ops' \in [Procs -> Operation] /\ allowed' \in [Keys -> SUBSET Secrets]
  <2>1. ops' \in [Procs -> Operation]
    BY <1>4, CompleteShape DEF StoreTypeOK
  <2>2. ops[p].value \in Secrets
    BY DEF StoreTypeOK, Operation
  <2> QED
    BY <1>4, <2>1, <2>2 DEF Complete, StoreTypeOK
<1>5. ASSUME NEW p \in Procs, ReadFallback(p) PROVE StoreTypeOK'
  <2>1. CASE Complete(p)
    BY <1>4, <1>5, <2>1 DEF ReadFallback, StoreTypeOK
  <2>2. CASE ops' = [ops EXCEPT ![p] = NoOp] /\ UNCHANGED allowed
    BY <1>5, <2>2, StoreConstants DEF ReadFallback, StoreTypeOK
  <2>3. CASE ops' = [ops EXCEPT ![p].phase = "open", ![p].copy = fallback] /\ UNCHANGED allowed
    <3>1. fallback \in [Keys -> Secrets] /\ ops \in [Procs -> Operation]
      BY DEF StoreTypeOK
    <3>2. [ops[p] EXCEPT !.phase = "open", !.copy = fallback] \in Operation
      BY <3>1 DEF Operation
    <3>3. ops' = [ops EXCEPT ![p] = [ops[p] EXCEPT !.phase = "open", !.copy = fallback]]
      BY <2>3, <3>1
    <3>4. ops' \in [Procs -> Operation]
      BY <3>1, <3>2, <3>3
    <3> QED
      BY <1>5, <2>3, <3>4 DEF ReadFallback, StoreTypeOK
  <2> QED
    BY <1>5, <2>1, <2>2, <2>3 DEF ReadFallback
<1>6. ASSUME NEW p \in Procs, OpenFallback(p) PROVE StoreTypeOK'
  BY <1>6 DEF OpenFallback, StoreTypeOK, Operation
<1>7. ASSUME NEW p \in Procs, FillFallback(p) PROVE StoreTypeOK'
  BY <1>4, <1>7, FillShape DEF FillFallback, StoreTypeOK
<1>8. ASSUME NEW p \in Procs, SaveMoved(p) PROVE StoreTypeOK'
  <2>1. [NoOp EXCEPT !.loaded = TRUE] \in Operation
    BY StoreConstants DEF Operation
  <2> QED
    BY <1>8, <2>1 DEF SaveMoved, StoreTypeOK
<1>9. ASSUME NEW p \in Procs, Crash(p) PROVE StoreTypeOK'
  BY <1>9, StoreConstants, CredentialStoreAssumption DEF Crash, StoreTypeOK
<1>10. ASSUME NEW p \in Procs, (LoadConfig(p) /\ config = "plain") \/ SetForServer(p) \/ DeleteForServer(p)
       PROVE  StoreTypeOK'
  BY <1>2, <1>10, OperationsStart, StoreConstants DEF Keys
<1> QED
  BY <1>1, <1>3, <1>5, <1>6, <1>7, <1>8, <1>9, <1>10 DEF StoreNext

\* The token is written to the file before anybody relies on it there, and
\* whoever writes the file afterwards read it when it was there.
LEMMA TokenStep ==
    ASSUME StoreTypeOK, TokenMoves, TokenInFile, StoreNext
    PROVE  TokenMoves' /\ TokenInFile'
<1> USE StoreConstants
<1>1. CASE KeyringChanges
  BY <1>1 DEF KeyringChanges, TokenMoves, TokenInFile, Writing
<1>2. ASSUME NEW p \in Procs, NEW k \in Keys, NEW v \in Secrets, NEW moving \in BOOLEAN,
             Starts(p, k, v, moving),
             moving <=> k = Token, k = Token => v = TokenSecret, k # Token => ops[p].loaded
      PROVE  TokenMoves' /\ TokenInFile'
  <2>1. PICK op \in Operation :
          /\ ops' = [ops EXCEPT ![p] = op]
          /\ op.phase = "read" /\ op.key = k /\ op.value = v /\ (op.moving <=> moving) /\ (op.loaded <=> ~moving)
          /\ op.kind = IF reach = "up" \/ v = 0 THEN "clear" ELSE "insert"
    BY <1>2 DEF Starts
  <2>2. ops'[p] = op /\ \A q \in Procs \ {p} : ops'[q] = ops[q]
    BY <2>1 DEF StoreTypeOK
  <2>3. UNCHANGED <<reach, fallback, config>>
    BY <1>2 DEF Starts
  <2>4. keyring'[Token] = IF reach = "up" /\ k = Token THEN TokenSecret ELSE keyring[Token]
    BY <1>2, KeyringShape DEF Starts
  <2>5. TokenMoves'
    BY <1>2, <2>1, <2>2, <2>3, <2>4 DEF TokenMoves, Writing
  <2>6. TokenInFile'
    BY <1>2, <2>1, <2>2, <2>3, <2>4 DEF TokenMoves, TokenInFile, Writing
  <2> QED
    BY <2>5, <2>6
<1>3. ASSUME NEW p \in Procs, LoadConfig(p), config # "plain" PROVE TokenMoves' /\ TokenInFile'
  <2>1. /\ ops'[p].phase = "idle" /\ ops'[p].moving = ops[p].moving /\ ops'[p].key = ops[p].key
        /\ \A q \in Procs \ {p} : ops'[q] = ops[q]
    BY <1>3 DEF LoadConfig, StoreTypeOK, Operation
  <2>2. config = "moved" /\ UNCHANGED <<keyring, reach, fallback, config>>
    BY <1>3 DEF LoadConfig, StoreTypeOK
  <2> QED
    BY <2>1, <2>2 DEF TokenMoves, TokenInFile, Writing
<1>4. ASSUME NEW p \in Procs, Complete(p), ops[p].phase \in {"read", "fill"},
             UNCHANGED <<keyring, reach, config>>,
             keyring[Token] = 0 =>
               /\ ops[p].key = Token => fallback'[Token] = TokenSecret
               /\ fallback[Token] = TokenSecret => fallback'[Token] = TokenSecret
      PROVE  TokenMoves' /\ TokenInFile'
  <2>1. PICK op \in Operation :
          /\ ops' = [ops EXCEPT ![p] = op]
          /\ op.phase = (IF ops[p].moving THEN "save" ELSE "idle")
          /\ ~op.moving /\ op.loaded = ops[p].loaded
    BY <1>4, CompleteShape
  <2>2. ops'[p] = op /\ \A q \in Procs \ {p} : ops'[q] = ops[q]
    BY <2>1 DEF StoreTypeOK
  <2>3. TokenMoves'
    BY <1>4, <2>1, <2>2 DEF TokenMoves, Writing
  <2>4. TokenInFile'
    BY <1>4, <2>1, <2>2 DEF TokenMoves, TokenInFile, Writing
  <2> QED
    BY <2>3, <2>4
<1>5. ASSUME NEW p \in Procs, ops' = [ops EXCEPT ![p] = NoOp], UNCHANGED <<keyring, reach, fallback, config>>
      PROVE  TokenMoves' /\ TokenInFile'
  <2>1. /\ ops'[p].phase = "idle" /\ ~ops'[p].moving /\ ~ops'[p].loaded
        /\ \A q \in Procs \ {p} : ops'[q] = ops[q]
    BY <1>5 DEF StoreTypeOK
  <2> QED
    BY <1>5, <2>1 DEF TokenMoves, TokenInFile, Writing
<1>6. ASSUME NEW p \in Procs, ReadFallback(p) PROVE TokenMoves' /\ TokenInFile'
  <2>1. UNCHANGED <<keyring, reach, fallback, config>> /\ ops[p].phase = "read"
    BY <1>6 DEF ReadFallback
  <2>2. CASE ops' = [ops EXCEPT ![p] = NoOp]
    BY <1>5, <2>1, <2>2
  <2>3. CASE ops[p].kind = "clear" /\ Complete(p)
    <3>1. keyring[Token] = 0 => ops[p].key # Token
      BY <2>1, <2>3 DEF TokenInFile, Writing
    <3> QED
      BY <1>4, <2>1, <2>3, <3>1
  <2>4. CASE ops' = [ops EXCEPT ![p].phase = "open", ![p].copy = fallback]
    <3>1. /\ ops'[p].phase = "open" /\ ops'[p].copy = fallback /\ ops'[p].key = ops[p].key
          /\ ops'[p].moving = ops[p].moving /\ ops'[p].value = ops[p].value /\ ops'[p].kind = ops[p].kind
          /\ ops'[p].loaded = ops[p].loaded /\ \A q \in Procs \ {p} : ops'[q] = ops[q]
      BY <2>4 DEF StoreTypeOK, Operation
    <3>2. TokenMoves'
      BY <2>1, <3>1 DEF TokenMoves, Writing
    <3>3. TokenInFile'
      BY <2>1, <3>1 DEF TokenMoves, TokenInFile, Writing
    <3> QED
      BY <3>2, <3>3
  <2> QED
    BY <1>6, <2>2, <2>3, <2>4 DEF ReadFallback
<1>7. ASSUME NEW p \in Procs, OpenFallback(p) PROVE TokenMoves' /\ TokenInFile'
  <2>1. /\ ops[p].phase = "open" /\ ops'[p].phase = "fill"
        /\ ops'[p].copy = ops[p].copy /\ ops'[p].key = ops[p].key
        /\ ops'[p].moving = ops[p].moving /\ ops'[p].value = ops[p].value /\ ops'[p].kind = ops[p].kind
        /\ ops'[p].loaded = ops[p].loaded /\ \A q \in Procs \ {p} : ops'[q] = ops[q]
    BY <1>7 DEF OpenFallback, StoreTypeOK, Operation
  <2>2. UNCHANGED <<keyring, reach, fallback, config>>
    BY <1>7 DEF OpenFallback
  <2> QED
    BY <2>1, <2>2 DEF TokenMoves, TokenInFile, Writing
<1>8. ASSUME NEW p \in Procs, FillFallback(p) PROVE TokenMoves' /\ TokenInFile'
  <2>1. ops[p].phase = "fill" /\ Complete(p) /\ UNCHANGED <<keyring, reach, config>>
    BY <1>8 DEF FillFallback
  <2>2. keyring[Token] = 0 => fallback'[Token] = TokenSecret
    <3>1. CASE ops[p].key = Token
      BY <1>8, <2>1, <3>1, FillShape DEF TokenMoves, TokenInFile, Writing
    <3>2. CASE ops[p].key # Token
      BY <1>8, <2>1, <3>2, FillShape DEF TokenInFile
    <3> QED
      BY <3>1, <3>2
  <2> QED
    BY <1>4, <2>1, <2>2
<1>9. ASSUME NEW p \in Procs, SaveMoved(p) PROVE TokenMoves' /\ TokenInFile'
  <2> DEFINE op == [NoOp EXCEPT !.loaded = TRUE]
  <2>1. op.phase = "idle" /\ ~op.moving
    OBVIOUS
  <2> HIDE DEF op
  <2>3. ops' = [ops EXCEPT ![p] = op]
    BY <1>9 DEF SaveMoved, op
  <2>2. /\ ops'[p].phase = "idle" /\ ~ops'[p].moving /\ \A q \in Procs \ {p} : ops'[q] = ops[q]
        /\ ops[p].phase = "save" /\ UNCHANGED <<keyring, reach, fallback>>
    BY <1>9, <2>1, <2>3 DEF SaveMoved, StoreTypeOK
  <2> QED
    BY <2>2 DEF TokenMoves, TokenInFile, Writing
<1>10. ASSUME NEW p \in Procs, Crash(p) PROVE TokenMoves' /\ TokenInFile'
  BY <1>5, <1>10 DEF Crash
<1>11. ASSUME NEW p \in Procs, (LoadConfig(p) /\ config = "plain") \/ SetForServer(p) \/ DeleteForServer(p)
       PROVE  TokenMoves' /\ TokenInFile'
  <2>1. CASE Starts(p, Token, TokenSecret, TRUE)
    BY <1>2, <2>1
  <2>2. ASSUME ops[p].loaded, NEW k \in Others, NEW v \in Secrets, Starts(p, k, v, FALSE)
        PROVE  TokenMoves' /\ TokenInFile'
    BY <1>2, <2>2, CredentialStoreAssumption DEF Keys
  <2> QED
    BY <1>11, <2>1, <2>2, OperationsStart
<1> QED
  BY <1>1, <1>3, <1>6, <1>7, <1>8, <1>9, <1>10, <1>11 DEF StoreNext

\* A process that is at work when nobody else began is alone.
LEMMA AloneStep ==
    ASSUME StoreTypeOK, WorksAlone, StoreNext, ~overlapped'
    PROVE  WorksAlone'
<1> USE StoreConstants
<1>1. ASSUME NEW p \in Procs, \A q \in Procs \ {p} : ops'[q] = ops[q], ops'[p].phase \in {"idle", "save"},
             ops[p].phase = "idle" => ops'[p].phase = "idle",
             ops[p].phase = "idle" => UNCHANGED <<fallback, torn>>
      PROVE  WorksAlone'
  BY <1>1 DEF WorksAlone
<1>2. ASSUME NEW p \in Procs, NEW k \in Keys, NEW v \in Secrets, NEW moving \in BOOLEAN, Starts(p, k, v, moving)
      PROVE  WorksAlone'
  <2>1. ops'[p].phase = "read" /\ \A q \in Procs \ {p} : ops'[q] = ops[q] /\ ops[q].phase = "idle"
    BY <1>2 DEF Starts, Begin, StoreTypeOK
  <2> QED
    BY <2>1 DEF WorksAlone
<1>3. ASSUME NEW p \in Procs, LoadConfig(p), config # "plain" PROVE WorksAlone'
  <2>1. ops[p].phase = "idle" /\ ops'[p].phase = "idle" /\ \A q \in Procs \ {p} : ops'[q] = ops[q]
    BY <1>3 DEF LoadConfig, StoreTypeOK, Operation
  <2> QED
    BY <1>1, <1>3, <2>1 DEF LoadConfig
<1>4. ASSUME NEW p \in Procs, Complete(p), ops[p].phase # "idle" PROVE WorksAlone'
  <2>1. ops'[p].phase \in {"idle", "save"} /\ \A q \in Procs \ {p} : ops'[q] = ops[q]
    BY <1>4, CompleteShape DEF StoreTypeOK
  <2> QED
    BY <1>1, <1>4, <2>1
<1>5. ASSUME NEW p \in Procs, ops' = [ops EXCEPT ![p] = NoOp], ops[p].phase # "idle" PROVE WorksAlone'
  <2>1. ops'[p].phase = "idle" /\ \A q \in Procs \ {p} : ops'[q] = ops[q]
    BY <1>5 DEF StoreTypeOK
  <2> QED
    BY <1>1, <1>5, <2>1
<1>6. ASSUME NEW p \in Procs, ReadFallback(p) PROVE WorksAlone'
  <2>1. UNCHANGED <<fallback, torn>> /\ ops[p].phase = "read"
    BY <1>6 DEF ReadFallback
  <2>2. CASE ops' = [ops EXCEPT ![p] = NoOp] \/ Complete(p)
    BY <1>4, <1>5, <2>1, <2>2
  <2>3. CASE ~torn /\ ops' = [ops EXCEPT ![p].phase = "open", ![p].copy = fallback]
    <3>1. ops'[p].phase = "open" /\ ops'[p].copy = fallback /\ \A q \in Procs \ {p} : ops'[q] = ops[q]
      BY <2>3 DEF StoreTypeOK, Operation
    <3> QED
      BY <2>1, <2>3, <3>1 DEF WorksAlone
  <2> QED
    BY <1>6, <2>2, <2>3 DEF ReadFallback
<1>7. ASSUME NEW p \in Procs, OpenFallback(p) PROVE WorksAlone'
  <2>1. /\ ops[p].phase = "open" /\ ops'[p].phase = "fill" /\ ops'[p].copy = ops[p].copy
        /\ \A q \in Procs \ {p} : ops'[q] = ops[q]
    BY <1>7 DEF OpenFallback, StoreTypeOK, Operation
  <2> QED
    BY <1>7, <2>1 DEF WorksAlone, OpenFallback
<1>8. ASSUME NEW p \in Procs, SaveMoved(p) PROVE WorksAlone'
  <2> DEFINE op == [NoOp EXCEPT !.loaded = TRUE]
  <2>1. op.phase = "idle"
    OBVIOUS
  <2> HIDE DEF op
  <2>2. ops' = [ops EXCEPT ![p] = op] /\ ops[p].phase = "save"
    BY <1>8 DEF SaveMoved, op
  <2>3. ops'[p].phase = "idle" /\ \A q \in Procs \ {p} : ops'[q] = ops[q]
    BY <2>1, <2>2 DEF StoreTypeOK
  <2> QED
    BY <1>1, <2>2, <2>3
<1>9. ASSUME NEW p \in Procs, (LoadConfig(p) /\ config = "plain") \/ SetForServer(p) \/ DeleteForServer(p)
      PROVE  WorksAlone'
  BY <1>2, <1>9, OperationsStart DEF Keys
<1>10. CASE KeyringChanges
  BY <1>10 DEF KeyringChanges, WorksAlone
<1>11. ASSUME NEW p \in Procs, FillFallback(p) PROVE WorksAlone'
  BY <1>4, <1>11 DEF FillFallback
<1>12. ASSUME NEW p \in Procs, Crash(p) PROVE WorksAlone'
  BY <1>5, <1>12 DEF Crash
<1> QED
  BY <1>3, <1>6, <1>7, <1>8, <1>9, <1>10, <1>11, <1>12 DEF StoreNext

\* The keyring first, the file after it: in between, a reader finds the old
\* secret or the new one.
LEMMA HoldsStep ==
    ASSUME StoreTypeOK, WorksAlone, HoldsAllowed, StoreNext, ~overlapped'
    PROVE  HoldsAllowed'
<1> USE StoreConstants
<1> SUFFICES ASSUME Readable'
             PROVE  (\A k \in Keys : Holds(k))' /\ (\A p \in Procs : Writing(p) => Wrote(p))'
  BY DEF HoldsAllowed
<1>1. Readable => (\A k \in Keys : Holds(k)) /\ (\A p \in Procs : Writing(p) => Wrote(p))
  BY DEF HoldsAllowed
<1>2. ASSUME Readable, UNCHANGED <<keyring, reach, fallback, allowed, behind>>,
             NEW p \in Procs, \A q \in Procs \ {p} : ops'[q] = ops[q],
             Writing(p)' => /\ Writing(p) /\ ops'[p].kind = ops[p].kind
                            /\ ops'[p].key = ops[p].key /\ ops'[p].value = ops[p].value
      PROVE  (\A k \in Keys : Holds(k))' /\ (\A q \in Procs : Writing(q) => Wrote(q))'
  <2>1. (\A k \in Keys : Holds(k))'
    BY <1>1, <1>2 DEF Holds
  <2>2. (\A q \in Procs : Writing(q) => Wrote(q))'
    BY <1>1, <1>2 DEF Writing, Wrote
  <2> QED
    BY <2>1, <2>2
<1>3. CASE KeyringChanges
  <2>1. UNCHANGED <<keyring, fallback, torn, ops, allowed, behind>> /\ reach' \in {"up", "lost"}
    BY <1>3 DEF KeyringChanges
  <2>2. Readable
    BY <2>1 DEF Readable
  <2>3. (\A k \in Keys : Holds(k))'
    BY <1>1, <2>1, <2>2 DEF Holds
  <2>4. (\A p \in Procs : Writing(p) => Wrote(p))'
    BY <1>1, <2>1, <2>2 DEF Writing, Wrote
  <2> QED
    BY <2>3, <2>4
<1>4. ASSUME NEW p \in Procs, NEW k \in Keys, NEW v \in Secrets, NEW moving \in BOOLEAN, Starts(p, k, v, moving)
      PROVE  (\A j \in Keys : Holds(j))' /\ (\A q \in Procs : Writing(q) => Wrote(q))'
  <2>1. PICK op \in Operation :
          /\ ops' = [ops EXCEPT ![p] = op]
          /\ op.phase = "read" /\ op.key = k /\ op.value = v
          /\ op.kind = IF reach = "up" \/ v = 0 THEN "clear" ELSE "insert"
    BY <1>4 DEF Starts
  <2>2. ops'[p] = op /\ \A q \in Procs \ {p} : ops'[q] = ops[q] /\ ops[q].phase = "idle"
    BY <1>4, <2>1 DEF Starts, Begin, StoreTypeOK
  <2>3. Readable /\ UNCHANGED <<reach, fallback>>
    BY <1>4, <2>1, <2>2 DEF Starts, Readable
  <2>4. /\ keyring'[k] = IF reach = "up" THEN v ELSE keyring[k]
        /\ k \in behind' <=> reach # "up" /\ (keyring[k] # 0 \/ k \in behind)
        /\ allowed'[k] = allowed[k] \cup {v}
        /\ \A j \in Keys \ {k} :
             keyring'[j] = keyring[j] /\ allowed'[j] = allowed[j] /\ (j \in behind' <=> j \in behind)
    BY <1>4, KeyringShape DEF Starts, StoreTypeOK
  <2>5. Holds(k)'
    BY <1>1, <2>3, <2>4 DEF Holds
  <2>6. ASSUME NEW j \in Keys \ {k} PROVE Holds(j)'
    <3>1. Holds(j)
      BY <1>1, <2>3
    <3>2. /\ keyring'[j] = keyring[j] /\ allowed'[j] = allowed[j]
          /\ fallback'[j] = fallback[j] /\ reach' = reach
      BY <2>3, <2>4
    <3>3. j \in behind' <=> j \in behind
      BY <2>4
    <3> QED
      BY <3>1, <3>2, <3>3 DEF Holds
  <2>7. Wrote(p)'
    BY <1>1, <2>1, <2>2, <2>3, <2>4 DEF Wrote, Holds, StoreTypeOK
  <2> QED
    BY <2>2, <2>5, <2>6, <2>7 DEF Writing
<1>5. ASSUME NEW p \in Procs, LoadConfig(p), config # "plain"
      PROVE  (\A k \in Keys : Holds(k))' /\ (\A q \in Procs : Writing(q) => Wrote(q))'
  <2>1. /\ ops[p].phase = "idle" /\ ops'[p].phase = "idle" /\ \A q \in Procs \ {p} : ops'[q] = ops[q]
        /\ UNCHANGED <<keyring, reach, fallback, torn, allowed, behind>>
    BY <1>5 DEF LoadConfig, StoreTypeOK, Operation
  <2>2. Readable /\ ~Writing(p)'
    BY <2>1 DEF Readable, Writing
  <2> QED
    BY <1>2, <2>1, <2>2
<1>6. ASSUME NEW p \in Procs, Complete(p), ops[p].phase \in {"read", "fill"}, Readable,
             UNCHANGED <<keyring, reach, behind>>,
             fallback'[ops[p].key] = (IF ops[p].kind = "insert" THEN ops[p].value ELSE 0),
             \A k \in Keys \ {ops[p].key} : fallback'[k] = fallback[k]
      PROVE  (\A k \in Keys : Holds(k))' /\ (\A q \in Procs : Writing(q) => Wrote(q))'
  <2>1. PICK k \in Keys, v \in Secrets : k = ops[p].key /\ v = ops[p].value
    BY DEF StoreTypeOK, Operation
  <2>2. allowed'[k] = {v} /\ \A j \in Keys \ {k} : allowed'[j] = allowed[j]
    BY <1>6, <2>1 DEF Complete, StoreTypeOK
  <2>3. ops[p].kind \in {"insert", "clear"} /\ Wrote(p)
    BY <1>1, <1>6 DEF Writing, StoreTypeOK, Operation
  <2>4. Holds(k)'
    <3>1. /\ reach = "absent" => keyring[k] = 0
          /\ k \in behind => keyring[k] # 0
      BY <1>1, <1>6 DEF Holds
    <3>2. CASE ops[p].kind = "clear"
      BY <1>6, <2>1, <2>2, <2>3, <3>1, <3>2 DEF Holds, Wrote
    <3>3. CASE ops[p].kind = "insert"
      BY <1>6, <2>1, <2>2, <2>3, <3>1, <3>3 DEF Holds, Wrote
    <3> QED
      BY <2>3, <3>2, <3>3
  <2>5. \A j \in Keys \ {k} : Holds(j)'
    BY <1>1, <1>6, <2>1, <2>2 DEF Holds
  <2>6. ops'[p].phase \in {"idle", "save"} /\ \A q \in Procs \ {p} : ops'[q] = ops[q]
    BY <1>6, CompleteShape DEF StoreTypeOK
  <2>7. \A q \in Procs \ {p} : ops[q].phase = "idle"
    BY <1>6 DEF WorksAlone
  <2> QED
    BY <2>4, <2>5, <2>6, <2>7 DEF Writing
<1>7. ASSUME NEW p \in Procs, ops' = [ops EXCEPT ![p] = NoOp], ops[p].phase # "idle",
             UNCHANGED <<keyring, reach, fallback, torn, allowed, behind>>
      PROVE  (\A k \in Keys : Holds(k))' /\ (\A q \in Procs : Writing(q) => Wrote(q))'
  <2>1. ops'[p].phase = "idle" /\ \A q \in Procs \ {p} : ops'[q] = ops[q]
    BY <1>7 DEF StoreTypeOK
  <2>2. Readable /\ ~Writing(p)'
    BY <1>7, <2>1 DEF Readable, Writing
  <2> QED
    BY <1>2, <1>7, <2>1, <2>2
<1>8. ASSUME NEW p \in Procs, ReadFallback(p)
      PROVE  (\A k \in Keys : Holds(k))' /\ (\A q \in Procs : Writing(q) => Wrote(q))'
  <2>1. UNCHANGED <<keyring, reach, fallback, torn, behind>> /\ ops[p].phase = "read"
    BY <1>8 DEF ReadFallback
  <2>2. CASE ops' = [ops EXCEPT ![p] = NoOp] /\ UNCHANGED allowed
    BY <1>7, <2>1, <2>2
  <2>3. CASE ~torn /\ ops[p].kind = "clear" /\ fallback[ops[p].key] = 0 /\ Complete(p)
    <3>1. Readable
      BY <2>3 DEF Readable
    <3> QED
      BY <1>6, <2>1, <2>3, <3>1
  <2>4. CASE ~torn /\ ops' = [ops EXCEPT ![p].phase = "open", ![p].copy = fallback] /\ UNCHANGED allowed
    <3>1. /\ ops'[p].kind = ops[p].kind /\ ops'[p].key = ops[p].key /\ ops'[p].value = ops[p].value
          /\ \A q \in Procs \ {p} : ops'[q] = ops[q]
      BY <2>4 DEF StoreTypeOK, Operation
    <3>2. Readable /\ Writing(p)
      BY <2>1, <2>4 DEF Readable, Writing
    <3> QED
      BY <1>2, <2>1, <2>4, <3>1, <3>2
  <2> QED
    BY <1>8, <2>2, <2>3, <2>4 DEF ReadFallback
<1>9. ASSUME NEW p \in Procs, OpenFallback(p)
      PROVE  (\A k \in Keys : Holds(k))' /\ (\A q \in Procs : Writing(q) => Wrote(q))'
  <2>1. /\ ops'[p].kind = ops[p].kind /\ ops'[p].key = ops[p].key /\ ops'[p].value = ops[p].value
        /\ \A q \in Procs \ {p} : ops'[q] = ops[q]
        /\ ops[p].phase = "open" /\ UNCHANGED <<keyring, reach, fallback, allowed, behind>>
    BY <1>9 DEF OpenFallback, StoreTypeOK, Operation
  <2>2. Readable /\ Writing(p)
    BY <2>1 DEF Readable, Writing, WorksAlone
  <2> QED
    BY <1>2, <2>1, <2>2
<1>10. ASSUME NEW p \in Procs, FillFallback(p)
       PROVE  (\A k \in Keys : Holds(k))' /\ (\A q \in Procs : Writing(q) => Wrote(q))'
  <2>1. ops[p].phase = "fill" /\ Complete(p) /\ UNCHANGED <<keyring, reach, behind>>
    BY <1>10 DEF FillFallback
  <2>2. Readable
    BY <2>1 DEF Readable
  <2>3. ops[p].copy = fallback
    BY <2>1 DEF WorksAlone
  <2> QED
    BY <1>6, <1>10, <2>1, <2>2, <2>3, FillShape
<1>11. ASSUME NEW p \in Procs, SaveMoved(p)
       PROVE  (\A k \in Keys : Holds(k))' /\ (\A q \in Procs : Writing(q) => Wrote(q))'
  <2> DEFINE op == [NoOp EXCEPT !.loaded = TRUE]
  <2>1. op.phase = "idle"
    OBVIOUS
  <2> HIDE DEF op
  <2>2. /\ ops' = [ops EXCEPT ![p] = op] /\ ops[p].phase = "save"
        /\ UNCHANGED <<keyring, reach, fallback, torn, allowed, behind>>
    BY <1>11 DEF SaveMoved, op
  <2>3. ops'[p].phase = "idle" /\ \A q \in Procs \ {p} : ops'[q] = ops[q]
    BY <2>1, <2>2 DEF StoreTypeOK
  <2>4. Readable /\ ~Writing(p)'
    BY <2>2, <2>3 DEF Readable, Writing
  <2> QED
    BY <1>2, <2>2, <2>3, <2>4
<1>12. ASSUME NEW p \in Procs, (LoadConfig(p) /\ config = "plain") \/ SetForServer(p) \/ DeleteForServer(p)
       PROVE  (\A k \in Keys : Holds(k))' /\ (\A q \in Procs : Writing(q) => Wrote(q))'
  BY <1>4, <1>12, OperationsStart DEF Keys
<1>13. ASSUME NEW p \in Procs, Crash(p)
       PROVE  (\A k \in Keys : Holds(k))' /\ (\A q \in Procs : Writing(q) => Wrote(q))'
  BY <1>7, <1>13 DEF Crash
<1> QED
  BY <1>3, <1>5, <1>8, <1>9, <1>10, <1>11, <1>12, <1>13 DEF StoreNext

LEMMA StoreNextInv == StoreInv /\ [StoreNext]_storeVars => StoreInv'
<1>1. CASE UNCHANGED storeVars /\ StoreInv
  BY <1>1 DEF storeVars, StoreInv, StoreTypeOK, TokenMoves, TokenInFile, WorksAlone, HoldsAllowed,
              Readable, Holds, Wrote, Writing
<1>2. CASE StoreNext /\ StoreInv
  <2>1. overlapped => overlapped'
    BY <1>2 DEF StoreNext, KeyringChanges, LoadConfig, SetForServer, DeleteForServer, SetScoped, Begin,
                ReadFallback, OpenFallback, FillFallback, SaveMoved, Crash
  <2> QED
    BY <1>2, <2>1, StoreTypeStep, TokenStep, AloneStep, HoldsStep DEF StoreInv
<1> QED
  BY <1>1, <1>2

\* StoreTypeOK: the processes, the keyring and the file hold what
\* credentials.rs can put there.
THEOREM StoreTypeCorrect == StoreSpec => []StoreTypeOK
<1>1. StoreInv => StoreTypeOK
  BY DEF StoreInv
<1> QED
  BY <1>1, StoreInitInv, StoreNextInv, PTL DEF StoreSpec

\* TokenIsKept: load_config never loses the installation token, whatever the
\* processes that move it, set_for_server, delete_for_server and crashes do.
THEOREM TokenIsKeptSafe == StoreSpec => []TokenIsKept
<1>1. StoreInv => TokenIsKept
  BY StoreConstants DEF StoreInv, TokenMoves, TokenInFile, TokenIsKept, Get, StoreTypeOK
<1> QED
  BY <1>1, StoreInitInv, StoreNextInv, PTL DEF StoreSpec

\* NeverStale: get_scoped finds the secret of the last complete set_scoped or
\* delete_scoped, or one that a process stopped in the middle of storing,
\* unless the keyring that has it is away, or was away when the secret changed
\* and is back with the old one.
THEOREM NeverStaleSafe == StoreSpec => []NeverStale
<1>1. StoreInv => NeverStale
  <2> SUFFICES ASSUME StoreInv, Quiet, ~torn, ~overlapped, NEW k \in Keys
               PROVE  \/ Get(k) \in allowed[k]
                      \/ reach = "lost" /\ keyring[k] # 0 /\ Get(k) = 0
                      \/ reach = "up" /\ k \in behind /\ Get(k) = keyring[k]
    BY DEF NeverStale
  <2>1. Holds(k) /\ reach \in {"absent", "up", "lost"}
    BY DEF StoreInv, HoldsAllowed, Readable, StoreTypeOK
  <2> QED
    BY <2>1 DEF Holds, Get
<1> QED
  BY <1>1, StoreInitInv, StoreNextInv, PTL DEF StoreSpec

-----------------------------------------------------------------------------
(* Polling                                                                 *)

\* What no fault holds up is in time, and only the request the client waits
\* for can be on its way in time.
PollsInTime ==
    /\ client.pc # "wait" => answer = "none" /\ requests = late
    /\ client.pc = "sleep" =>
         /\ now <= client.at /\ client.at <= now + client.interval
         /\ \A r \in requests : r < client.at
    /\ client.pc = "wait" =>
         /\ client.at <= now /\ now <= client.at + Timeout
         /\ answer # "none" => client.at \notin requests
         /\ answer # "none" \/ client.at \in requests \ late => now <= client.at + Latency
         /\ requests \ late \subseteq {client.at}
         /\ \A r \in requests : r <= client.at
    /\ grant.polled <= now /\ grant.approved <= now

\* Every delayed request may raise the server's interval once more, and has
\* raised the client's already, or will when the client stops waiting.
Slowed == answer \notin {"none", "slow_down"} \/ client.at \in requests \ late
Ahead == Increment * Cardinality(late)
CreditForLate ==
    /\ client.pc = "sleep" \/ (client.pc = "wait" /\ Slowed) =>
         client.interval = MaxInterval \/ client.interval >= grant.interval + Ahead
    /\ client.pc = "wait" =>
         client.interval = MaxInterval \/ client.interval + Increment >= grant.interval + Ahead

\* Without faults the intervals stay as they are, no poll is early, and an
\* approval is seen by the poll after it.
WithoutFaults ==
    faults = 0 =>
      /\ late = {}
      /\ client.interval = InitialInterval /\ grant.interval = InitialInterval
      /\ client.pc = "sleep" \/ (client.pc = "wait" /\ client.at \in requests) =>
           /\ grant.polled = Never \/ grant.polled + InitialInterval <= client.at
           /\ grant.status = "approved" => grant.approved >= client.at - InitialInterval - Latency
      /\ client.pc = "wait" /\ client.at \notin requests =>
           \/ answer = "pending" /\ (grant.status = "approved" => grant.approved >= client.at)
           \/ /\ answer = "expired" /\ now >= Lifetime
              /\ grant.status = "approved" => grant.approved >= client.at - InitialInterval - Latency
           \/ answer \in {"token", "denied", "consumed"} /\ grant.status \in {"denied", "consumed"}
      /\ client.pc \in {"token", "stored", "enrolled"} => grant.status \in {"denied", "consumed"}
      /\ client.pc = "failed" =>
           \/ grant.status \in {"denied", "consumed"}
           \/ /\ now >= Lifetime
              /\ grant.status = "approved" => grant.approved >= Lifetime - InitialInterval - 2 * Latency

PollingInv == PollingTypeOK /\ PollsInTime /\ CreditForLate /\ WithoutFaults

LEMMA PollingConstants ==
    /\ InitialInterval \in Nat /\ MaxInterval \in Nat /\ Increment \in Nat /\ Lifetime \in Nat
    /\ Timeout \in Nat /\ Latency \in Nat /\ MaxTime \in Nat /\ MaxFaults \in Nat
    /\ 0 < InitialInterval /\ InitialInterval <= MaxInterval /\ Latency < Timeout
    /\ Never \in Int /\ Never < 0 /\ Never = -1
  BY PollingAssumption DEF Never

LEMMA SlowerBounds ==
    ASSUME NEW i \in InitialInterval..MaxInterval
    PROVE  /\ Slower(i) \in InitialInterval..MaxInterval
           /\ Slower(i) = MaxInterval \/ Slower(i) = i + Increment
           /\ Slower(i) <= i + Increment
  BY PollingConstants DEF Slower, Least

\* What a delayed request may add to the server's interval.
LEMMA AheadIsNat == ASSUME PollingTypeOK PROVE Ahead \in Nat /\ IsFiniteSet(late)
<1>1. IsFiniteSet(0..MaxTime)
  BY PollingConstants, FS_Interval
<1>2. IsFiniteSet(late)
  BY <1>1, FS_Subset DEF PollingTypeOK
<1>3. Cardinality(late) \in Nat
  BY <1>2, FS_CardinalityType
<1> QED
  BY <1>2, <1>3, PollingConstants DEF Ahead

LEMMA AheadChanges ==
    ASSUME PollingTypeOK, NEW r
    PROVE  /\ r \notin late /\ late' = late \cup {r} => Ahead' = Ahead + Increment
           /\ r \in late /\ late' = late \ {r} => Ahead = Ahead' + Increment /\ Ahead' \in Nat
           /\ late' = late => Ahead' = Ahead
<1>1. IsFiniteSet(late) /\ Cardinality(late) \in Nat
  BY AheadIsNat, FS_CardinalityType
<1>2. CASE r \notin late /\ late' = late \cup {r}
  <2>1. Cardinality(late') = Cardinality(late) + 1
    BY <1>1, <1>2, FS_AddElement
  <2> QED
    BY <1>1, <1>2, <2>1, PollingConstants DEF Ahead
<1>3. CASE r \in late /\ late' = late \ {r}
  <2>1. IsFiniteSet(late') /\ Cardinality(late') = Cardinality(late) - 1
    BY <1>1, <1>3, FS_RemoveElement
  <2>2. Cardinality(late') \in Nat
    BY <2>1, FS_CardinalityType
  <2>3. Cardinality(late) = Cardinality(late') + 1
    BY <1>1, <2>1, <2>2
  <2>4. Increment * (Cardinality(late') + 1) = Increment * Cardinality(late') + Increment
    BY <2>2, PollingConstants
  <2>5. Increment * Cardinality(late') \in Nat
    BY <2>2, PollingConstants
  <2> QED
    BY <1>3, <2>3, <2>4, <2>5 DEF Ahead
<1> QED
  BY <1>2, <1>3 DEF Ahead

LEMMA SleepShape ==
    ASSUME PollingTypeOK, NEW i \in InitialInterval..MaxInterval, Sleep(i)
    PROVE  /\ client' \in Loop
           /\ \/ now >= Lifetime /\ client'.pc = "failed" /\ client'.interval = client.interval
              \/ now < Lifetime /\ client'.pc = "sleep" /\ client'.interval = i /\ client'.at = now + i
<1> USE PollingConstants
<1>1. now \in 0..MaxTime /\ client \in Loop
  BY DEF PollingTypeOK
<1>2. CASE now >= Lifetime
  <2>1. client' = [client EXCEPT !.pc = "failed"]
    BY <1>2 DEF Sleep
  <2> QED
    BY <1>1, <1>2, <2>1 DEF Loop
<1>3. CASE ~(now >= Lifetime)
  <2>1. client' = [pc |-> "sleep", interval |-> i, at |-> now + i]
    BY <1>3 DEF Sleep
  <2> QED
    BY <1>1, <1>3, <2>1 DEF Loop
<1> QED
  BY <1>2, <1>3

LEMMA PollingInitInv == PollingInit => PollingInv
<1> SUFFICES ASSUME PollingInit PROVE PollingInv
  OBVIOUS
<1> USE PollingConstants
<1>1. PollingTypeOK
  <2>1. client \in Loop /\ grant \in GrantRow
    BY DEF PollingInit, Loop, GrantRow
  <2>2. client.pc = "sleep" /\ stored = FALSE
    BY DEF PollingInit
  <2>3. now \in 0..MaxTime /\ faults \in 0..MaxFaults
    BY DEF PollingInit
  <2> QED
    BY <2>1, <2>2, <2>3 DEF PollingInit, PollingTypeOK
<1>2. PollsInTime /\ WithoutFaults
  BY DEF PollingInit, PollsInTime, WithoutFaults
<1>3. CreditForLate
  <2>1. Ahead = 0
    BY FS_EmptySet DEF PollingInit, Ahead
  <2> QED
    BY <2>1 DEF PollingInit, CreditForLate
<1> QED
  BY <1>1, <1>2, <1>3 DEF PollingInv

\* Nothing is on its way in time but the request the client waits for.
LEMMA OnlyOneInTime ==
    ASSUME PollingTypeOK, PollsInTime, NEW r \in requests \ late
    PROVE  client.pc = "wait" /\ r = client.at /\ answer = "none"
  BY DEF PollsInTime, PollingTypeOK

LEMMA SendStep == ASSUME PollingInv, Send PROVE PollingInv'
<1> USE PollingConstants DEF PollingInv
<1>1. /\ client.pc = "sleep" /\ now = client.at /\ answer = "none" /\ requests = late /\ now \notin late
      /\ client.interval \in InitialInterval..MaxInterval /\ client.at \in Nat
  BY DEF Send, PollsInTime, PollingTypeOK, Loop
<1>2. client' \in Loop /\ client'.pc = "wait" /\ client'.at = now /\ client'.interval = client.interval
  <2>1. now \in 0..(MaxTime + MaxInterval) /\ client \in Loop
    BY DEF PollingTypeOK
  <2>2. client' = [client EXCEPT !.pc = "wait", !.at = now]
    BY DEF Send
  <2> QED
    BY <2>1, <2>2 DEF Loop
<1>3. requests' = requests \cup {now} /\ UNCHANGED <<now, late, answer, grant, stored, faults>>
  BY DEF Send
<1>4. PollingTypeOK'
  BY <1>1, <1>2, <1>3 DEF PollingTypeOK
<1>5. PollsInTime'
  <2>1. \A r \in late : r \in Nat /\ r < now
    BY <1>1 DEF PollsInTime, PollingTypeOK
  <2> QED
    BY <1>1, <1>2, <1>3, <2>1 DEF PollsInTime, PollingTypeOK
<1>6. CreditForLate'
  <2>1. Ahead' = Ahead /\ Ahead \in Nat
    BY <1>3, AheadChanges, AheadIsNat
  <2>2. client.interval \in Nat /\ grant.interval \in Nat
    BY DEF PollingTypeOK, Loop, GrantRow
  <2> QED
    BY <1>1, <1>2, <1>3, <2>1, <2>2 DEF CreditForLate
<1>7. WithoutFaults'
  BY <1>1, <1>2, <1>3 DEF WithoutFaults
<1> QED
  BY <1>4, <1>5, <1>6, <1>7

\* The client goes back to sleep, or gives up after the deadline.
LEMMA SleepStep ==
    ASSUME PollingInv, client.pc = "wait", NEW i \in InitialInterval..MaxInterval, Sleep(i),
           requests \subseteq late, answer' = "none", UNCHANGED <<now, requests, late, grant, stored, faults>>,
           i = MaxInterval \/ i >= grant.interval + Ahead,
           faults = 0 => answer = "pending" /\ client.at \notin requests /\ i = client.interval
    PROVE  PollingInv'
<1> USE PollingConstants DEF PollingInv
<1>1. /\ client' \in Loop
      /\ \/ now >= Lifetime /\ client'.pc = "failed" /\ client'.interval = client.interval
         \/ now < Lifetime /\ client'.pc = "sleep" /\ client'.interval = i /\ client'.at = now + i
  BY SleepShape
<1>2. now \in Nat /\ client.at \in Nat /\ client.interval \in Nat /\ grant.interval \in Nat /\ i \in Nat
  BY DEF PollingTypeOK, Loop, GrantRow
<1>3. PollingTypeOK'
  BY <1>1 DEF PollingTypeOK
<1>4. PollsInTime'
  <2>1. \A r \in requests : r \in Nat /\ r <= client.at
    BY DEF PollsInTime, PollingTypeOK
  <2>2. requests = late
    BY DEF PollingTypeOK
  <2> QED
    BY <1>1, <1>2, <2>1, <2>2 DEF PollsInTime
<1>5. CreditForLate'
  <2>1. Ahead' = Ahead /\ Ahead \in Nat
    BY AheadChanges, AheadIsNat
  <2> QED
    BY <1>1, <1>2, <2>1 DEF CreditForLate
<1>6. WithoutFaults'
  <2>1. grant.polled \in Int /\ grant.approved \in Int /\ grant.polled <= now
    BY DEF PollingTypeOK, GrantRow, PollsInTime
  <2>2. faults = 0 => /\ now <= client.at + Latency /\ late = {} /\ client.interval = InitialInterval
                      /\ grant.interval = InitialInterval
                      /\ grant.status = "approved" => grant.approved >= client.at
    BY DEF WithoutFaults, PollsInTime
  <2>3. client'.pc = "failed" \/ (client'.pc = "sleep" /\ client'.at = now + i)
    BY <1>1
  <2>4. client'.pc = "failed" => now >= Lifetime
    BY <1>1
  <2>5. faults = 0 => client'.interval = InitialInterval
    BY <1>1, <2>2
  <2> QED
    BY <1>2, <2>1, <2>2, <2>3, <2>4, <2>5 DEF WithoutFaults
<1> QED
  BY <1>3, <1>4, <1>5, <1>6

LEMMA HandleStep == ASSUME PollingInv, Handle PROVE PollingInv'
<1> USE PollingConstants DEF PollingInv
<1>1. /\ client.pc = "wait" /\ answer # "none" /\ answer' = "none"
      /\ UNCHANGED <<now, requests, late, grant, stored, faults>>
  BY DEF Handle
<1>2. client.at \notin requests /\ requests = late /\ now <= client.at + Latency
  <2>1. client.at \notin requests /\ now <= client.at + Latency /\ requests \ late \subseteq {client.at}
    BY <1>1 DEF PollsInTime
  <2>2. late \subseteq requests
    BY DEF PollingTypeOK
  <2> QED
    BY <2>1, <2>2
<1>3. client.interval \in InitialInterval..MaxInterval /\ client \in Loop
      /\ grant.interval \in Nat /\ Ahead \in Nat /\ client.interval \in Nat
  BY AheadIsNat DEF PollingTypeOK, Loop, GrantRow
<1>4. CASE answer = "pending"
  <2>1. Sleep(client.interval)
    BY <1>4 DEF Handle
  <2>2. client.interval = MaxInterval \/ client.interval >= grant.interval + Ahead
    BY <1>1, <1>4 DEF CreditForLate, Slowed
  <2> QED
    BY <1>1, <1>2, <1>3, <1>4, <2>1, <2>2, SleepStep
<1>5. CASE answer \in {"slow_down", "unavailable"}
  <2>1. Sleep(Slower(client.interval))
    BY <1>5 DEF Handle
  <2>2. Slower(client.interval) = MaxInterval \/ Slower(client.interval) >= grant.interval + Ahead
    BY <1>1, <1>3 DEF CreditForLate, Slower, Least
  <2>3. faults # 0
    BY <1>1, <1>2, <1>5 DEF WithoutFaults
  <2> QED
    BY <1>1, <1>2, <1>3, <2>1, <2>2, <2>3, SlowerBounds, SleepStep
<1>6. CASE answer \notin {"pending", "slow_down", "unavailable"}
  <2>1. \E pc \in {"token", "failed"} : client' = [client EXCEPT !.pc = pc] /\ (pc = "token" <=> answer = "token")
    BY <1>1, <1>6 DEF Handle
  <2>2. /\ client' \in Loop /\ client'.at = client.at /\ client'.interval = client.interval
        /\ client'.pc \in {"token", "failed"} /\ (client'.pc = "token" <=> answer = "token")
    BY <1>3, <2>1 DEF Loop
  <2>3. PollingTypeOK'
    BY <1>1, <2>2 DEF PollingTypeOK
  <2>4. PollsInTime'
    BY <1>1, <1>2, <2>2 DEF PollsInTime
  <2>5. CreditForLate'
    BY <2>2 DEF CreditForLate
  <2>6. WithoutFaults'
    <3>1. client.at \in Int /\ now \in Int /\ grant.approved \in Int
      BY DEF PollingTypeOK, Loop, GrantRow
    <3> QED
      BY <1>1, <1>2, <1>6, <2>2, <3>1 DEF WithoutFaults
  <2> QED
    BY <2>3, <2>4, <2>5, <2>6
<1> QED
  BY <1>4, <1>5, <1>6

LEMMA HttpTimeoutStep == ASSUME PollingInv, HttpTimeout PROVE PollingInv'
<1> USE PollingConstants DEF PollingInv
<1>1. /\ client.pc = "wait" /\ answer = "none" /\ answer' = "none" /\ now >= client.at + Timeout
      /\ Sleep(Slower(client.interval))
      /\ UNCHANGED <<now, requests, late, grant, stored, faults>>
  BY DEF HttpTimeout
<1>2. /\ client.interval \in InitialInterval..MaxInterval /\ now \in Nat /\ client.at \in Nat
      /\ grant.interval \in Nat /\ Ahead \in Nat /\ client.interval \in Nat
  BY AheadIsNat DEF PollingTypeOK, Loop, GrantRow
<1>3. requests \subseteq late
  BY <1>1, <1>2 DEF PollsInTime
<1>4. Slower(client.interval) = MaxInterval \/ Slower(client.interval) >= grant.interval + Ahead
  BY <1>1, <1>2 DEF CreditForLate, Slower, Least
<1>5. faults # 0
  BY <1>1, <1>3 DEF WithoutFaults
<1> QED
  BY <1>1, <1>2, <1>3, <1>4, <1>5, SlowerBounds, SleepStep

LEMMA StoredStep == ASSUME PollingInv, StoreToken \/ SaveConfig PROVE PollingInv'
<1> USE PollingConstants DEF PollingInv
<1>1. /\ client.pc \in {"token", "stored"} /\ UNCHANGED <<now, requests, late, answer, grant, faults>>
      /\ client' \in Loop /\ client'.pc \in {"stored", "enrolled", "failed"}
      /\ client'.at = client.at /\ client'.interval = client.interval
      /\ stored' \in BOOLEAN /\ (stored' <=> client'.pc \in {"stored", "enrolled"})
  <2>1. CASE StoreToken
    BY <2>1 DEF StoreToken, PollingTypeOK, Loop
  <2>2. CASE SaveConfig
    BY <2>2 DEF SaveConfig, PollingTypeOK, Loop
  <2> QED
    BY <2>1, <2>2
<1>2. PollingTypeOK' /\ PollsInTime' /\ CreditForLate' /\ WithoutFaults'
  BY <1>1 DEF PollingTypeOK, PollsInTime, CreditForLate, WithoutFaults
<1> QED
  BY <1>2

LEMMA PollStep == ASSUME PollingInv, NEW r \in requests, Poll(r) PROVE PollingInv'
<1> USE PollingConstants DEF PollingInv
<1>1. /\ requests' = requests \ {r} /\ late' = late \ {r} /\ UNCHANGED <<now, client, stored, faults>>
      /\ answer' = IF client.pc = "wait" /\ client.at = r /\ r \notin late
                   THEN IF PollStatus = "approved" THEN "token" ELSE PollStatus
                   ELSE answer
  BY DEF Poll
<1>2. /\ now \in 0..MaxTime /\ grant \in GrantRow /\ client \in Loop /\ late \subseteq requests
      /\ requests \subseteq 0..MaxTime
  BY DEF PollingTypeOK
<1>3. /\ grant.polled \in Int /\ grant.approved \in Int /\ grant.interval \in Nat
      /\ grant.interval \in InitialInterval..MaxInterval
      /\ client.at \in Nat /\ client.interval \in Nat /\ now \in Nat
      /\ grant.status \in {"pending", "approved", "denied", "consumed"}
  BY <1>2 DEF GrantRow, Loop
<1>4. /\ PollStatus \in {"expired", "approved", "denied", "consumed", "slow_down", "pending"}
      /\ PollStatus = "expired" => now >= Lifetime
      /\ PollStatus \in {"approved", "denied", "consumed"} => grant.status = PollStatus
      /\ PollStatus \in {"pending", "slow_down"} => grant.status = "pending"
      /\ PollStatus = "slow_down" => grant.polled # Never /\ now < grant.polled + grant.interval
  BY <1>3 DEF PollStatus
<1>5. /\ grant' \in GrantRow /\ grant'.approved = grant.approved
      /\ grant'.interval = IF PollStatus = "slow_down" THEN Slower(grant.interval) ELSE grant.interval
      /\ grant'.polled = IF PollStatus \in {"pending", "slow_down"} THEN now ELSE grant.polled
      /\ grant'.status = IF PollStatus = "approved" THEN "consumed" ELSE grant.status
  <2>1. CASE PollStatus = "slow_down"
    <3>1. grant' = [grant EXCEPT !.interval = Slower(grant.interval), !.polled = now]
      BY <1>2, <2>1 DEF Poll, GrantRow
    <3>2. now \in Never..MaxTime /\ Slower(grant.interval) \in InitialInterval..MaxInterval
      BY <1>2, <1>3, SlowerBounds
    <3> QED
      BY <1>2, <2>1, <3>1, <3>2 DEF GrantRow
  <2>2. CASE PollStatus = "pending"
    BY <1>2, <2>2 DEF Poll, GrantRow
  <2>3. CASE PollStatus = "approved"
    BY <1>2, <2>3 DEF Poll, GrantRow
  <2>4. CASE PollStatus \notin {"slow_down", "pending", "approved"}
    BY <1>2, <2>4 DEF Poll
  <2> QED
    BY <2>1, <2>2, <2>3, <2>4
<1> HIDE DEF PollingInv
<1>6. PollingTypeOK'
  BY <1>1, <1>2, <1>4, <1>5 DEF PollingTypeOK, PollingInv
<1>7. CASE r \in late
  <2>1. answer' = answer /\ late' \subseteq late /\ requests' \subseteq requests
        /\ requests' \ late' = requests \ late
    BY <1>1, <1>7
  <2>2. PollsInTime'
    <3>1. PollsInTime /\ grant'.polled <= now /\ grant'.approved <= now
      BY <1>3, <1>5 DEF PollsInTime, PollingInv
    <3>2. requests = late => requests' = late'
      BY <1>1
    <3> QED
      BY <1>1, <2>1, <3>1, <3>2 DEF PollsInTime
  <2>3. CreditForLate'
    <3>1. Ahead = Ahead' + Increment /\ Ahead' \in Nat /\ grant'.interval \in Nat
      BY <1>1, <1>5, <1>7, AheadChanges DEF PollingInv, GrantRow
    <3>2. grant'.interval <= grant.interval + Increment
      BY <1>3, <1>5, SlowerBounds
    <3>3. Slowed' => Slowed
      BY <1>1, <2>1 DEF Slowed
    <3>4. CreditForLate
      BY DEF PollingInv
    <3> HIDE DEF Slowed, Ahead
    <3> QED
      BY <1>1, <1>3, <3>1, <3>2, <3>3, <3>4 DEF CreditForLate
  <2>4. WithoutFaults'
    BY <1>1, <1>7 DEF WithoutFaults, PollingInv
  <2> QED
    BY <1>6, <2>2, <2>3, <2>4 DEF PollingInv
<1>8. CASE r \notin late
  <2>1. client.pc = "wait" /\ r = client.at /\ answer = "none"
    BY <1>8, OnlyOneInTime DEF PollingInv
  <2>2. late' = late /\ client.at \notin requests'
        /\ answer' = IF PollStatus = "approved" THEN "token" ELSE PollStatus
    BY <1>1, <1>8, <2>1
  <2>3. PollsInTime'
    <3>1. /\ client.at <= now /\ now <= client.at + Latency /\ now <= client.at + Timeout
          /\ requests \ late \subseteq {client.at} /\ \A q \in requests : q <= client.at
      BY <1>8, <2>1 DEF PollsInTime, PollingInv
    <3>2. grant'.polled <= now /\ grant'.approved <= now
      BY <1>3, <1>5 DEF PollsInTime, PollingInv
    <3>3. requests' \ late' \subseteq {client.at} /\ \A q \in requests' : q <= client.at
      BY <1>1, <3>1
    <3> QED
      BY <1>1, <2>1, <2>2, <3>1, <3>2, <3>3 DEF PollsInTime
  <2>4. CreditForLate'
    <3>1. Ahead' = Ahead /\ Ahead \in Nat /\ grant'.interval \in Nat
      BY <1>5, <2>2, AheadChanges, AheadIsNat DEF PollingInv, GrantRow
    <3>2. client.interval = MaxInterval \/ client.interval >= grant.interval + Ahead
      BY <1>8, <2>1 DEF CreditForLate, Slowed, PollingInv
    <3>3. Slowed' => PollStatus # "slow_down"
      BY <1>1, <2>2 DEF Slowed
    <3>4. grant'.interval <= grant.interval + Increment
      BY <1>3, <1>5, SlowerBounds
    <3>5. PollStatus # "slow_down" => grant'.interval = grant.interval
      BY <1>5
    <3> HIDE DEF Slowed, Ahead
    <3> QED
      BY <1>1, <1>3, <2>1, <3>1, <3>2, <3>3, <3>4, <3>5 DEF CreditForLate
  <2>5. WithoutFaults'
    <3> SUFFICES ASSUME faults' = 0 PROVE WithoutFaults'
      BY DEF WithoutFaults
    <3>1. /\ late = {} /\ client.interval = InitialInterval /\ grant.interval = InitialInterval
          /\ grant.polled = Never \/ grant.polled + InitialInterval <= client.at
          /\ grant.status = "approved" => grant.approved >= client.at - InitialInterval - Latency
      BY <1>1, <2>1 DEF WithoutFaults, PollingInv
    <3>2. client.at <= now
      BY <2>1 DEF PollsInTime, PollingInv
    <3>3. PollStatus # "slow_down"
      BY <1>3, <1>4, <3>1, <3>2
    <3> QED
      BY <1>1, <1>4, <1>5, <2>1, <2>2, <3>1, <3>3 DEF WithoutFaults
  <2> QED
    BY <1>6, <2>3, <2>4, <2>5 DEF PollingInv
<1> QED
  BY <1>7, <1>8

LEMMA PollUnavailableStep == ASSUME PollingInv, NEW r \in requests, PollUnavailable(r) PROVE PollingInv'
<1> USE PollingConstants DEF PollingInv
<1>1. /\ r \in requests \ late /\ faults' = faults + 1 /\ faults' \in 0..MaxFaults /\ faults' # 0
      /\ requests' = requests \ {r} /\ answer' = "unavailable"
      /\ UNCHANGED <<now, client, late, grant, stored>>
  BY DEF PollUnavailable, PollingTypeOK
<1>2. client.pc = "wait" /\ r = client.at /\ answer = "none"
  BY <1>1, OnlyOneInTime
<1>3. PollingTypeOK'
  BY <1>1 DEF PollingTypeOK
<1>4. PollsInTime'
  BY <1>1, <1>2 DEF PollsInTime
<1>5. CreditForLate'
  <2>1. Ahead' = Ahead
    BY <1>1, AheadChanges
  <2> QED
    BY <1>1, <1>2, <2>1 DEF CreditForLate, Slowed
<1>6. WithoutFaults'
  BY <1>1 DEF WithoutFaults
<1> QED
  BY <1>3, <1>4, <1>5, <1>6

LEMMA DelayStep == ASSUME PollingInv, NEW r \in requests, DelayRequest(r) PROVE PollingInv'
<1> USE PollingConstants DEF PollingInv
<1>1. /\ r \in requests \ late /\ faults' = faults + 1 /\ faults' \in 0..MaxFaults /\ faults' # 0
      /\ late' = late \cup {r} /\ UNCHANGED <<now, client, requests, answer, grant, stored>>
  BY DEF DelayRequest, PollingTypeOK
<1>2. client.pc = "wait" /\ r = client.at /\ answer = "none"
  BY <1>1, OnlyOneInTime
<1>3. PollingTypeOK'
  BY <1>1 DEF PollingTypeOK
<1>4. PollsInTime'
  BY <1>1, <1>2 DEF PollsInTime
<1>5. CreditForLate'
  <2>1. Ahead' = Ahead + Increment /\ Ahead \in Nat
    BY <1>1, AheadChanges, AheadIsNat
  <2>2. client.interval = MaxInterval \/ client.interval >= grant.interval + Ahead
    BY <1>1, <1>2 DEF CreditForLate, Slowed
  <2>3. ~Slowed'
    BY <1>1, <1>2 DEF Slowed
  <2>4. client.interval \in Nat /\ grant.interval \in Nat
    BY DEF PollingTypeOK, Loop, GrantRow
  <2> HIDE DEF Slowed, Ahead
  <2> QED
    BY <1>1, <1>2, <2>1, <2>2, <2>3, <2>4 DEF CreditForLate
<1>6. WithoutFaults'
  BY <1>1 DEF WithoutFaults
<1> QED
  BY <1>3, <1>4, <1>5, <1>6

LEMMA LoseStep == ASSUME PollingInv, LoseAnswer PROVE PollingInv'
<1> USE PollingConstants DEF PollingInv
<1>1. /\ answer # "none" /\ faults' = faults + 1 /\ faults' \in 0..MaxFaults /\ faults' # 0
      /\ answer' = "none" /\ UNCHANGED <<now, client, requests, late, grant, stored>>
  BY DEF LoseAnswer, PollingTypeOK
<1>2. client.pc = "wait" /\ client.at \notin requests
  BY <1>1 DEF PollsInTime
<1>3. PollingTypeOK'
  BY <1>1 DEF PollingTypeOK
<1>4. PollsInTime'
  BY <1>1, <1>2 DEF PollsInTime
<1>5. CreditForLate'
  <2>1. Ahead' = Ahead
    BY <1>1, AheadChanges
  <2> QED
    BY <1>1, <1>2, <2>1 DEF CreditForLate, Slowed
<1>6. WithoutFaults'
  BY <1>1 DEF WithoutFaults
<1> QED
  BY <1>3, <1>4, <1>5, <1>6

LEMMA DecideStep == ASSUME PollingInv, Decide PROVE PollingInv'
<1> USE PollingConstants DEF PollingInv
<1>1. /\ grant.status = "pending" /\ now < Lifetime
      /\ UNCHANGED <<now, client, requests, late, answer, stored, faults>>
  BY DEF Decide
<1>2. now \in 0..MaxTime /\ now \in Nat /\ grant \in GrantRow /\ client.at \in Nat /\ client.interval \in Nat
  BY DEF PollingTypeOK, Loop
<1>3. /\ grant' \in GrantRow /\ grant'.interval = grant.interval /\ grant'.polled = grant.polled
      /\ \/ grant'.status = "approved" /\ grant'.approved = now
         \/ grant'.status = "denied" /\ grant'.approved = grant.approved
  <2>1. now \in Never..MaxTime
    BY <1>2
  <2>2. CASE grant' = [grant EXCEPT !.status = "approved", !.approved = now]
    BY <1>2, <2>1, <2>2 DEF GrantRow
  <2>3. CASE grant' = [grant EXCEPT !.status = "denied"]
    BY <1>2, <2>3 DEF GrantRow
  <2> QED
    BY <2>2, <2>3 DEF Decide
<1>4. PollingTypeOK'
  BY <1>1, <1>3 DEF PollingTypeOK
<1>5. PollsInTime'
  BY <1>1, <1>2, <1>3 DEF PollsInTime
<1>6. CreditForLate'
  <2>1. Ahead' = Ahead
    BY <1>1, AheadChanges
  <2> QED
    BY <1>1, <1>3, <2>1 DEF CreditForLate, Slowed
<1>7. WithoutFaults'
  <2> SUFFICES ASSUME faults' = 0 PROVE WithoutFaults'
    BY DEF WithoutFaults
  <2>1. CASE client.pc = "sleep"
    <3>1. now >= client.at - InitialInterval - Latency
      BY <1>1, <1>2, <2>1 DEF WithoutFaults, PollsInTime
    <3> QED
      BY <1>1, <1>3, <2>1, <3>1 DEF WithoutFaults
  <2>2. CASE client.pc = "wait"
    <3>1. now >= client.at - InitialInterval - Latency /\ now >= client.at
      BY <1>2, <2>2 DEF PollsInTime
    <3> QED
      BY <1>1, <1>2, <1>3, <2>2, <3>1 DEF WithoutFaults
  <2>3. CASE client.pc \notin {"sleep", "wait"}
    BY <1>1, <1>2, <1>3, <2>3 DEF WithoutFaults
  <2> QED
    BY <2>1, <2>2, <2>3
<1> QED
  BY <1>4, <1>5, <1>6, <1>7

LEMMA TickStep == ASSUME PollingInv, Tick PROVE PollingInv'
<1> USE PollingConstants DEF PollingInv
<1>1. /\ now' = now + 1 /\ now' \in 0..MaxTime /\ now \in Nat
      /\ UNCHANGED <<client, requests, late, answer, grant, stored, faults>>
  BY DEF Tick, PollingTypeOK
<1>2. client.at \in Nat /\ client.interval \in Nat /\ grant.polled \in Int /\ grant.approved \in Int
  BY DEF PollingTypeOK, Loop, GrantRow
<1>3. PollingTypeOK'
  BY <1>1 DEF PollingTypeOK
<1>4. PollsInTime'
  BY <1>1, <1>2 DEF PollsInTime, Tick
<1>5. CreditForLate'
  <2>1. Ahead' = Ahead
    BY <1>1, AheadChanges
  <2> QED
    BY <1>1, <2>1 DEF CreditForLate, Slowed
<1>6. WithoutFaults'
  <2> SUFFICES ASSUME faults' = 0 PROVE WithoutFaults'
    BY DEF WithoutFaults
  <2>1. now >= Lifetime => now' >= Lifetime
    BY <1>1
  <2> QED
    BY <1>1, <2>1 DEF WithoutFaults
<1> QED
  BY <1>3, <1>4, <1>5, <1>6

LEMMA PollingNextInv == PollingInv /\ [PollingNext]_pollVars => PollingInv'
<1>1. CASE PollingInv /\ UNCHANGED pollVars
  BY <1>1 DEF pollVars, PollingInv, PollingTypeOK, PollsInTime, CreditForLate, WithoutFaults, Slowed, Ahead
<1>2. CASE PollingInv /\ PollingNext
  BY <1>2, SendStep, HandleStep, HttpTimeoutStep, StoredStep, PollStep, PollUnavailableStep, DelayStep,
     LoseStep, DecideStep, TickStep DEF PollingNext
<1> QED
  BY <1>1, <1>2

\* PollingTypeOK: the intervals of client and server stay within their bounds
\* and the installation token is in the store only once it is needed.
THEOREM PollingTypeCorrect == PollingSpec => []PollingTypeOK
<1>1. PollingInv => PollingTypeOK
  BY DEF PollingInv
<1> QED
  BY <1>1, PollingInitInv, PollingNextInv, PTL DEF PollingSpec

\* ClientKeepsPace: enroll_with_device_authorization sleeps for the interval
\* pending_response demands at least, whatever requests were delayed and
\* answers lost.
THEOREM ClientKeepsPaceSafe == PollingSpec => []ClientKeepsPace
<1>1. PollingInv => ClientKeepsPace
  <2> SUFFICES ASSUME PollingInv PROVE ClientKeepsPace
    OBVIOUS
  <2>1. Ahead \in Nat
    BY AheadIsNat DEF PollingInv
  <2>2. client.interval \in Nat /\ grant.interval \in Nat /\ grant.interval <= MaxInterval
    BY PollingConstants DEF PollingInv, PollingTypeOK, Loop, GrantRow
  <2> QED
    BY <2>1, <2>2, PollingConstants DEF PollingInv, CreditForLate, ClientKeepsPace
<1> QED
  BY <1>1, PollingInitInv, PollingNextInv, PTL DEF PollingSpec

\* GivesUpOnlyLate: without faults the deadline of the polling loop ends the
\* enrollment only if the approval came too late for the poll after it.
THEOREM GivesUpOnlyLateSafe == PollingSpec => []GivesUpOnlyLate
<1>1. PollingInv => GivesUpOnlyLate
  BY PollingConstants DEF PollingInv, PollingTypeOK, WithoutFaults, GivesUpOnlyLate
<1> QED
  BY <1>1, PollingInitInv, PollingNextInv, PTL DEF PollingSpec

-----------------------------------------------------------------------------
(* The update check                                                        *)

ServerInfo == [version : Versions, minimum : Versions \cup {None}]
Watcher ==
    [phase : {"idle", "claim", "fetch", "told"}, clock : Int, info : {Unreachable} \cup ServerInfo,
     manifest : {Unreachable} \cup Manifests, waits : SUBSET {"info", "manifest"}, notice : Notices]

\* What a process knows of the server is what the server once was, and what
\* it tells comes of that.
KnowsTheServer ==
    /\ server \in ServerInfo /\ manifest \in Manifests
    /\ watchers \in [Watchers -> Watcher]
    /\ \A w \in Watchers :
         watchers[w].phase = "told" => watchers[w].notice = Notice(watchers[w].info, watchers[w].manifest)

UpdateCheckInv == UpdateCheckTypeOK /\ KnowsTheServer

LEMMA NoticeShape ==
    ASSUME NEW info, NEW release
    PROVE  Notice(info, release) \in Notices
  BY DEF Notice, Notices

LEMMA IdleWatcherShape ==
    /\ IdleWatcher \in Watcher /\ IdleWatcher.phase = "idle" /\ IdleWatcher.clock = NotYet
    /\ IdleWatcher.notice = "none" /\ NotYet \in Int
  BY DEF IdleWatcher, Watcher, NotYet, Notices

LEMMA UpdateCheckInitInv == UpdateCheckInit => UpdateCheckInv
<1> SUFFICES ASSUME UpdateCheckInit PROVE UpdateCheckInv
  OBVIOUS
<1>1. server \in ServerInfo /\ manifest \in Manifests /\ server.minimum = None
  BY UpdateCheckAssumption DEF UpdateCheckInit, ServerInfo, Manifests
<1>2. watchers \in [Watchers -> Watcher] /\ \A w \in Watchers : watchers[w] = IdleWatcher
  BY IdleWatcherShape DEF UpdateCheckInit
<1>3. hour \in 0..MaxHour /\ lastCheck \in {NotYet} \cup 0..hour
  BY UpdateCheckAssumption DEF UpdateCheckInit
<1>4. "none" \in Notices
  BY DEF Notices
<1> QED
  BY <1>1, <1>2, <1>3, <1>4, IdleWatcherShape DEF UpdateCheckInv, UpdateCheckTypeOK, KnowsTheServer

\* One process moves on, and has an answer of the server if it asked.
LEMMA WatcherStep ==
    ASSUME UpdateCheckInv, NEW w \in Watchers, NEW x \in Watcher, watchers' = [watchers EXCEPT ![w] = x],
           lastCheck' \in {NotYet} \cup 0..hour, x.clock \in {NotYet} \cup 0..hour,
           x.phase = "told" => x.notice = Notice(x.info, x.manifest),
           UNCHANGED <<hour, server, manifest, changes>>
    PROVE  UpdateCheckInv'
<1>1. watchers'[w] = x /\ (\A v \in Watchers \ {w} : watchers'[v] = watchers[v])
      /\ watchers' \in [Watchers -> Watcher] /\ x.notice \in Notices
  BY DEF UpdateCheckInv, KnowsTheServer, Watcher
<1>2. UpdateCheckTypeOK'
  BY <1>1 DEF UpdateCheckInv, UpdateCheckTypeOK
<1>3. KnowsTheServer'
  BY <1>1 DEF UpdateCheckInv, KnowsTheServer
<1> QED
  BY <1>2, <1>3 DEF UpdateCheckInv

LEMMA UpdateCheckNextInv == UpdateCheckInv /\ [UpdateCheckNext]_checkVars => UpdateCheckInv'
<1> SUFFICES ASSUME UpdateCheckInv, UpdateCheckNext \/ UNCHANGED checkVars PROVE UpdateCheckInv'
  OBVIOUS
<1>1. CASE UNCHANGED checkVars
  BY <1>1 DEF checkVars, UpdateCheckInv, UpdateCheckTypeOK, KnowsTheServer
<1>2. CASE HourPasses
  <2>1. /\ hour' \in 0..MaxHour /\ 0..hour \subseteq 0..hour'
        /\ UNCHANGED <<lastCheck, watchers, server, manifest>>
    BY <1>2, UpdateCheckAssumption DEF HourPasses, UpdateCheckInv, UpdateCheckTypeOK
  <2> QED
    BY <2>1 DEF UpdateCheckInv, UpdateCheckTypeOK, KnowsTheServer
<1>3. CASE Deploy
  <2>1. PICK v \in Versions, m \in Versions \cup {None} :
           (m # None => ShareMajor(m, v)) /\ server' = [version |-> v, minimum |-> m]
    BY <1>3 DEF Deploy
  <2>2. server' \in ServerInfo /\ server'.minimum = m /\ server'.version = v
    BY <2>1 DEF ServerInfo
  <2> QED
    BY <1>3, <2>1, <2>2 DEF Deploy, UpdateCheckInv, UpdateCheckTypeOK, KnowsTheServer
<1>4. CASE Publish
  BY <1>4 DEF Publish, UpdateCheckInv, UpdateCheckTypeOK, KnowsTheServer
<1>5. ASSUME NEW w \in Watchers, ReadClock(w) PROVE UpdateCheckInv'
  <2> DEFINE x == [IdleWatcher EXCEPT !.phase = "claim", !.clock = hour]
  <2>1. hour \in Int /\ hour \in 0..hour
    BY UpdateCheckAssumption DEF UpdateCheckInv, UpdateCheckTypeOK
  <2>2. x \in Watcher /\ x.phase = "claim" /\ x.clock = hour
    BY <2>1, IdleWatcherShape DEF Watcher
  <2>3. watchers' = [watchers EXCEPT ![w] = x]
    BY <1>5 DEF ReadClock
  <2> HIDE DEF x
  <2>4. lastCheck' \in {NotYet} \cup 0..hour /\ UNCHANGED <<hour, server, manifest, changes>>
    BY <1>5 DEF ReadClock, UpdateCheckInv, UpdateCheckTypeOK
  <2> QED
    BY <2>1, <2>2, <2>3, <2>4, WatcherStep
<1>6. ASSUME NEW w \in Watchers, watchers' = [watchers EXCEPT ![w] = IdleWatcher],
             UNCHANGED <<hour, lastCheck, server, manifest, changes>>
      PROVE  UpdateCheckInv'
  BY <1>6, IdleWatcherShape, WatcherStep DEF UpdateCheckInv, UpdateCheckTypeOK
<1>7. ASSUME NEW w \in Watchers, Claim(w) PROVE UpdateCheckInv'
  <2>1. CASE Due(watchers[w].clock, lastCheck)
    <3> DEFINE x == [watchers[w] EXCEPT !.phase = "fetch", !.waits = {"info", "manifest"}]
    <3>1. watchers[w] \in Watcher /\ watchers[w].clock \in {NotYet} \cup 0..hour
      BY DEF UpdateCheckInv, UpdateCheckTypeOK, KnowsTheServer
    <3>2. x \in Watcher /\ x.phase = "fetch" /\ x.clock = watchers[w].clock
      BY <3>1 DEF Watcher
    <3>3. watchers' = [watchers EXCEPT ![w] = x] /\ lastCheck' = watchers[w].clock
      BY <1>7, <2>1 DEF Claim, UpdateCheckInv, KnowsTheServer
    <3> HIDE DEF x
    <3>4. UNCHANGED <<hour, server, manifest, changes>>
      BY <1>7 DEF Claim
    <3> QED
      BY <3>1, <3>2, <3>3, <3>4, WatcherStep
  <2>2. CASE ~Due(watchers[w].clock, lastCheck)
    BY <1>6, <1>7, <2>2 DEF Claim
  <2> QED
    BY <2>1, <2>2
<1>8. ASSUME NEW w \in Watchers, NEW answered \in BOOLEAN, FetchInfo(w, answered) PROVE UpdateCheckInv'
  <2> DEFINE i == IF answered THEN server ELSE Unreachable
             x == [watchers[w] EXCEPT !.waits = @ \ {"info"}, !.info = i]
  <2>1. watchers[w] \in Watcher /\ watchers[w].clock \in {NotYet} \cup 0..hour
    BY DEF UpdateCheckInv, UpdateCheckTypeOK, KnowsTheServer
  <2>2. watchers' = [watchers EXCEPT ![w] = x] /\ watchers[w].phase = "fetch"
    BY <1>8 DEF FetchInfo, UpdateCheckInv, KnowsTheServer
  <2>3. i \in {Unreachable} \cup ServerInfo
    BY DEF UpdateCheckInv, KnowsTheServer
  <2> HIDE DEF i
  <2>4. x \in Watcher /\ x.phase = watchers[w].phase /\ x.clock = watchers[w].clock
    BY <2>1, <2>3 DEF Watcher
  <2> HIDE DEF x
  <2>5. UNCHANGED <<hour, server, manifest, changes>> /\ lastCheck' \in {NotYet} \cup 0..hour
    BY <1>8 DEF FetchInfo, UpdateCheckInv, UpdateCheckTypeOK
  <2> QED
    BY <2>1, <2>2, <2>4, <2>5, WatcherStep
<1>9. ASSUME NEW w \in Watchers, NEW answered \in BOOLEAN, FetchRelease(w, answered) PROVE UpdateCheckInv'
  <2> DEFINE m == IF answered THEN manifest ELSE Unreachable
             x == [watchers[w] EXCEPT !.waits = @ \ {"manifest"}, !.manifest = m]
  <2>1. watchers[w] \in Watcher /\ watchers[w].clock \in {NotYet} \cup 0..hour
    BY DEF UpdateCheckInv, UpdateCheckTypeOK, KnowsTheServer
  <2>2. watchers' = [watchers EXCEPT ![w] = x] /\ watchers[w].phase = "fetch"
    BY <1>9 DEF FetchRelease, UpdateCheckInv, KnowsTheServer
  <2>3. m \in {Unreachable} \cup Manifests
    BY DEF UpdateCheckInv, KnowsTheServer
  <2> HIDE DEF m
  <2>4. x \in Watcher /\ x.phase = watchers[w].phase /\ x.clock = watchers[w].clock
    BY <2>1, <2>3 DEF Watcher
  <2> HIDE DEF x
  <2>5. UNCHANGED <<hour, server, manifest, changes>> /\ lastCheck' \in {NotYet} \cup 0..hour
    BY <1>9 DEF FetchRelease, UpdateCheckInv, UpdateCheckTypeOK
  <2> QED
    BY <2>1, <2>2, <2>4, <2>5, WatcherStep
<1>10. ASSUME NEW w \in Watchers, Tell(w) PROVE UpdateCheckInv'
  <2> DEFINE n == Notice(watchers[w].info, watchers[w].manifest)
             x == [watchers[w] EXCEPT !.phase = "told", !.notice = n]
  <2>1. watchers[w] \in Watcher /\ watchers[w].clock \in {NotYet} \cup 0..hour
    BY DEF UpdateCheckInv, UpdateCheckTypeOK, KnowsTheServer
  <2>2. watchers' = [watchers EXCEPT ![w] = x]
    BY <1>10 DEF Tell, UpdateCheckInv, KnowsTheServer
  <2>3. n \in Notices /\ n = Notice(watchers[w].info, watchers[w].manifest)
    BY NoticeShape
  <2> HIDE DEF n
  <2>4. /\ x \in Watcher /\ x.clock = watchers[w].clock /\ x.notice = n
        /\ x.info = watchers[w].info /\ x.manifest = watchers[w].manifest
    BY <2>1, <2>3 DEF Watcher
  <2> HIDE DEF x
  <2>5. UNCHANGED <<hour, server, manifest, changes>> /\ lastCheck' \in {NotYet} \cup 0..hour
    BY <1>10 DEF Tell, UpdateCheckInv, UpdateCheckTypeOK
  <2> QED
    BY <2>1, <2>2, <2>3, <2>4, <2>5, WatcherStep
<1>11. ASSUME NEW w \in Watchers, NextRound(w) PROVE UpdateCheckInv'
  BY <1>6, <1>11 DEF NextRound
<1> QED
  BY <1>1, <1>2, <1>3, <1>4, <1>5, <1>7, <1>8, <1>9, <1>10, <1>11 DEF UpdateCheckNext

\* UpdateCheckTypeOK: the claims of the daily check name hours that have been,
\* and a server never asks for clients it does not share a major version with.
THEOREM UpdateCheckTypeCorrect == UpdateCheckSpec => []UpdateCheckTypeOK
<1>1. UpdateCheckInv => UpdateCheckTypeOK
  BY DEF UpdateCheckInv
<1> QED
  BY <1>1, UpdateCheckInitInv, UpdateCheckNextInv, PTL DEF UpdateCheckSpec

\* RefusedIsTold: update_notice says that the server refuses the uploads
\* exactly if the gate of ingest_sessions does, of every server version and
\* floor that server_info reported.
THEOREM RefusedIsToldSafe == UpdateCheckSpec => []RefusedIsTold
<1>1. UpdateCheckInv => RefusedIsTold
  <2> SUFFICES ASSUME UpdateCheckInv, NEW w \in Watchers,
                      watchers[w].phase = "told", watchers[w].info # Unreachable
               PROVE  Refuses(watchers[w].info) <=> watchers[w].notice \in {"incompatible", "unsupported"}
    BY DEF RefusedIsTold
  <2>1. watchers[w].info \in ServerInfo
    BY DEF UpdateCheckInv, KnowsTheServer, Watcher
  <2>2. watchers[w].info.version # None
    BY <2>1, NoneAssumption DEF ServerInfo
  <2>3. watchers[w].notice = Notice(watchers[w].info, watchers[w].manifest)
    BY DEF UpdateCheckInv, KnowsTheServer
  <2> QED
    BY <2>2, <2>3 DEF Notice, Refuses
<1> QED
  BY <1>1, UpdateCheckInitInv, UpdateCheckNextInv, PTL DEF UpdateCheckSpec

-----------------------------------------------------------------------------
(* The update                                                              *)

\* A process that replaces the binary has the whole release, which is that of
\* the manifest; it runs from a file that is there; and only Windows has the
\* binary renamed aside.
Replaces(u, file, path) ==
    /\ u.phase \notin {"idle", "stopped midway"} => u.image # "none"
    /\ path = Absent => u.image # "metrune"
    /\ u.phase \in {"stage", "clear", "aside", "place"} => u.binary \in Releases
    /\ u.phase \in {"clear", "aside", "place"} => file = u.binary
    /\ u.phase = "download" => u.binary = Absent
    /\ u.phase = "aside" => windows
    /\ u.binary # Absent => u.binary = u.manifest

ClientUpdateInv ==
    /\ windows \in BOOLEAN /\ (~windows => onPath # Absent)
    /\ mirror \in [manifest : Releases, artifact : Files]
    /\ onPath \in Releases \cup {Absent} /\ old \in Releases \cup {Absent}
    /\ staged \in [Updaters -> Files] /\ updaters \in [Updaters -> Updater]
    /\ \A p \in Updaters : Replaces(updaters[p], staged[p], onPath)
    /\ NothingIsLost

LEMMA ReleaseNumbers ==
    /\ Releases \subseteq Files /\ Absent \in Files /\ Partial \in Files /\ Absent \notin Releases
    /\ Partial \notin Releases /\ Partial # Absent /\ 1 \in Releases
  BY ClientUpdateAssumption DEF Releases, Files, Absent, Partial

LEMMA IdleShape ==
    /\ Idle \in Updater /\ Idle.phase = "idle" /\ Idle.image = "none" /\ Idle.binary = Absent
    /\ \A f, path : Replaces(Idle, f, path)
  BY ReleaseNumbers DEF Idle, Updater, Phases, Replaces

LEMMA ClientUpdateInitInv == ClientUpdateInit => ClientUpdateInv
<1> SUFFICES ASSUME ClientUpdateInit PROVE ClientUpdateInv
  OBVIOUS
<1>1. mirror \in [manifest : Releases, artifact : Files]
  BY ReleaseNumbers DEF ClientUpdateInit
<1>2. staged \in [Updaters -> Files] /\ updaters \in [Updaters -> Updater]
  BY ReleaseNumbers, IdleShape DEF ClientUpdateInit
<1>3. \A p \in Updaters : updaters[p] = Idle
  BY DEF ClientUpdateInit
<1> QED
  BY <1>1, <1>2, <1>3, ReleaseNumbers, IdleShape DEF ClientUpdateInit, ClientUpdateInv, NothingIsLost

\* One process moves on, with its staged file; the binary on PATH stays or
\* is another release.
LEMMA UpdaterStep ==
    ASSUME ClientUpdateInv, UNCHANGED <<windows, mirror>>, NEW p \in Updaters,
           NEW u \in Updater, updaters' = [updaters EXCEPT ![p] = u],
           NEW f \in Files, staged' = [staged EXCEPT ![p] = f],
           onPath' = onPath \/ onPath' \in Releases, old' \in Releases \cup {Absent},
           Replaces(u, f, onPath'), NothingIsLost'
    PROVE  ClientUpdateInv'
<1>1. staged' \in [Updaters -> Files] /\ updaters' \in [Updaters -> Updater]
  BY DEF ClientUpdateInv
<1>2. /\ updaters'[p] = u /\ staged'[p] = f
      /\ \A q \in Updaters \ {p} : updaters'[q] = updaters[q] /\ staged'[q] = staged[q]
  BY DEF ClientUpdateInv
<1>3. /\ windows' = windows /\ (windows' <=> windows) /\ onPath' \in Releases \cup {Absent} /\ (~windows => onPath' # Absent)
      /\ onPath' = Absent => onPath = Absent
  BY ReleaseNumbers DEF ClientUpdateInv
<1>4. \A q \in Updaters : Replaces(updaters[q], staged[q], onPath)'
  <2>1. Replaces(updaters[p], staged[p], onPath)'
    BY <1>2, <1>3 DEF Replaces
  <2>2. \A q \in Updaters \ {p} : Replaces(updaters[q], staged[q], onPath)'
    BY <1>2, <1>3 DEF Replaces, ClientUpdateInv
  <2> QED
    BY <2>1, <2>2
<1> QED
  BY <1>1, <1>3, <1>4 DEF ClientUpdateInv

\* The processes that run from a renamed file.
LEMMA MovedShape ==
    ASSUME ClientUpdateInv, NEW from \in {"metrune", "old"}, NEW to \in {"metrune", "old"}
    PROVE  /\ Moved(from, to) \in [Updaters -> Updater]
           /\ \A q \in Updaters :
                /\ Moved(from, to)[q].phase = updaters[q].phase
                /\ Moved(from, to)[q].binary = updaters[q].binary
                /\ Moved(from, to)[q].manifest = updaters[q].manifest
                /\ Moved(from, to)[q].image = IF updaters[q].image = from THEN to ELSE updaters[q].image
<1>1. \A q \in Updaters : updaters[q] \in Updater
  BY DEF ClientUpdateInv
<1>2. \A q \in Updaters : [updaters[q] EXCEPT !.image = to] \in Updater
  BY <1>1 DEF Updater
<1> QED
  BY <1>1, <1>2 DEF Moved, Updater

LEMMA ClientUpdateNextInv == ClientUpdateInv /\ [ClientUpdateNext]_updateVars => ClientUpdateInv'
<1> SUFFICES ASSUME ClientUpdateInv, ClientUpdateNext \/ UNCHANGED updateVars PROVE ClientUpdateInv'
  OBVIOUS
<1> USE ReleaseNumbers
<1>1. CASE UNCHANGED <<windows, onPath, old, staged, updaters>> /\ mirror' \in [manifest : Releases, artifact : Files]
  BY <1>1 DEF ClientUpdateInv, NothingIsLost, Replaces
<1>2. CASE UNCHANGED updateVars
  BY <1>1, <1>2 DEF updateVars, ClientUpdateInv
<1>3. CASE CopyManifest \/ CopyArtifact
  <2>1. mirror' \in [manifest : Releases, artifact : Files]
    BY <1>3 DEF CopyManifest, CopyArtifact, ClientUpdateInv
  <2> QED
    BY <1>1, <1>3, <2>1 DEF CopyManifest, CopyArtifact, ClientUpdateNext, updateVars
<1>4. UNCHANGED windows /\ (windows' <=> windows)
  BY DEF ClientUpdateNext, updateVars
\* A process goes on without a change to the installed files.
<1>5. ASSUME NEW p \in Updaters, NEW u \in Updater, updaters' = [updaters EXCEPT ![p] = u],
             NEW f \in Files, staged' = [staged EXCEPT ![p] = f],
             UNCHANGED <<mirror, onPath, old>>, Replaces(u, f, onPath),
             updaters[p].phase = "place" => onPath \in Releases \/ u.phase = "stopped midway",
             updaters[p].phase # "stopped midway"
      PROVE  ClientUpdateInv'
  <2>1. updaters'[p] = u /\ \A q \in Updaters \ {p} : updaters'[q] = updaters[q]
    BY <1>5 DEF ClientUpdateInv
  <2>2. NothingIsLost'
    BY <1>4, <1>5, <2>1 DEF ClientUpdateInv, NothingIsLost
  <2> QED
    BY <1>4, <1>5, <2>2, UpdaterStep DEF ClientUpdateInv
<1>6. ASSUME NEW p \in Updaters, updaters[p].phase \notin {"place", "stopped midway"}, Become(p, Idle),
             UNCHANGED <<mirror, onPath, old, staged>>
      PROVE  ClientUpdateInv'
  <2>1. staged[p] \in Files /\ staged' = [staged EXCEPT ![p] = staged[p]]
    BY <1>6 DEF ClientUpdateInv
  <2> QED
    BY <1>5, <1>6, <2>1, IdleShape DEF Become
<1>7. ASSUME NEW p \in Updaters
      PROVE  /\ staged[p] \in Files /\ updaters[p] \in Updater /\ Replaces(updaters[p], staged[p], onPath)
             /\ UNCHANGED staged => staged' = [staged EXCEPT ![p] = staged[p]]
  BY <1>7 DEF ClientUpdateInv
<1>8. ASSUME NEW p \in Updaters, Start(p) PROVE ClientUpdateInv'
  <2> DEFINE u == [Idle EXCEPT !.phase = "download", !.version = onPath, !.image = "metrune"]
  <2>1. onPath \in Releases \cup {Absent}
    BY DEF ClientUpdateInv
  <2>2. u \in Updater /\ u.phase = "download" /\ u.image = "metrune" /\ u.binary = Absent
    BY <2>1, IdleShape DEF Updater, Phases
  <2> HIDE DEF u
  <2>3. Replaces(u, Absent, onPath)
    BY <1>8, <2>2 DEF Replaces, Start
  <2>4. /\ updaters' = [updaters EXCEPT ![p] = u] /\ staged' = [staged EXCEPT ![p] = Absent]
        /\ UNCHANGED <<mirror, onPath, old>> /\ updaters[p].phase = "idle"
    BY <1>8 DEF Start, Become, u
  <2> QED
    BY <1>5, <2>2, <2>3, <2>4
<1>9. ASSUME NEW p \in Updaters, FetchManifest(p) PROVE ClientUpdateInv'
  <2>1. /\ updaters[p].phase = "download" /\ UNCHANGED <<mirror, onPath, old, staged>>
    BY <1>9 DEF FetchManifest
  <2>2. CASE Become(p, Idle)
    BY <1>6, <2>1, <2>2
  <2>3. CASE Become(p, [updaters[p] EXCEPT !.manifest = mirror.manifest, !.url = Url])
    <3> DEFINE u == [updaters[p] EXCEPT !.manifest = mirror.manifest, !.url = Url]
    <3>1. mirror.manifest \in Releases /\ Url \in {"upstream", "mirror"}
      BY DEF ClientUpdateInv, Url
    <3>2. /\ u \in Updater /\ u.phase = updaters[p].phase /\ u.image = updaters[p].image
          /\ u.binary = updaters[p].binary
      BY <1>7, <3>1 DEF Updater
    <3> HIDE DEF u
    <3>3. Replaces(u, staged[p], onPath)
      BY <1>7, <2>1, <3>2 DEF Replaces
    <3>4. updaters' = [updaters EXCEPT ![p] = u]
      BY <2>3 DEF Become, u
    <3> QED
      BY <1>5, <1>7, <2>1, <3>2, <3>3, <3>4
  <2> QED
    BY <1>9, <2>2, <2>3 DEF FetchManifest
<1>10. ASSUME NEW p \in Updaters, Download(p) PROVE ClientUpdateInv'
  <2>1. /\ updaters[p].phase = "download" /\ updaters[p].manifest # Absent
        /\ UNCHANGED <<mirror, onPath, old, staged>>
    BY <1>10 DEF Download
  <2>2. CASE Become(p, Idle)
    BY <1>6, <2>1, <2>2
  <2>3. CASE Become(p, [updaters[p] EXCEPT !.phase = "stage", !.binary = updaters[p].manifest])
    <3> DEFINE u == [updaters[p] EXCEPT !.phase = "stage", !.binary = updaters[p].manifest]
    <3>1. updaters[p].manifest \in Releases
      BY <1>7, <2>1 DEF Updater
    <3>2. /\ u \in Updater /\ u.phase = "stage" /\ u.image = updaters[p].image
          /\ u.binary = updaters[p].manifest /\ u.manifest = updaters[p].manifest
      BY <1>7, <3>1 DEF Updater, Phases
    <3> HIDE DEF u
    <3>3. Replaces(u, staged[p], onPath)
      BY <1>7, <2>1, <3>1, <3>2 DEF Replaces
    <3>4. updaters' = [updaters EXCEPT ![p] = u]
      BY <2>3 DEF Become, u
    <3> QED
      BY <1>5, <1>7, <2>1, <3>2, <3>3, <3>4
  <2> QED
    BY <1>10, <2>2, <2>3 DEF Download
<1>11. ASSUME NEW p \in Updaters, GiveUp(p) PROVE ClientUpdateInv'
  BY <1>6, <1>11 DEF GiveUp
<1>12. ASSUME NEW p \in Updaters, Stage(p) PROVE ClientUpdateInv'
  <2>1. updaters[p].phase = "stage" /\ UNCHANGED <<mirror, onPath, old>> /\ updaters[p].binary \in Releases
    BY <1>7, <1>12 DEF Stage, Replaces
  <2>2. CASE staged[p] = Partial
    <3> DEFINE u == [updaters[p] EXCEPT !.phase = "clear"]
    <3>1. /\ u \in Updater /\ u.phase = "clear" /\ u.image = updaters[p].image
          /\ u.binary = updaters[p].binary /\ u.manifest = updaters[p].manifest
      BY <1>7 DEF Updater, Phases
    <3>2. updaters' = [updaters EXCEPT ![p] = u] /\ staged' = [staged EXCEPT ![p] = updaters[p].binary]
      BY <1>12, <2>2 DEF Stage, Enter, Become
    <3> HIDE DEF u
    <3>3. Replaces(u, updaters[p].binary, onPath)
      BY <1>7, <2>1, <3>1 DEF Replaces
    <3> QED
      BY <1>5, <2>1, <3>1, <3>2, <3>3
  <2>3. CASE staged[p] # Partial
    <3>1. staged' = [staged EXCEPT ![p] = Partial] /\ updaters' = [updaters EXCEPT ![p] = updaters[p]]
      BY <1>12, <2>3 DEF Stage, ClientUpdateInv
    <3>2. Replaces(updaters[p], Partial, onPath)
      BY <1>7, <2>1 DEF Replaces
    <3> QED
      BY <1>5, <1>7, <2>1, <3>1, <3>2
  <2> QED
    BY <2>2, <2>3
<1>13. ASSUME NEW p \in Updaters, ClearOld(p) PROVE ClientUpdateInv'
  <2> DEFINE u == [updaters[p] EXCEPT !.phase = IF windows THEN "aside" ELSE "place"]
  <2>1. /\ u \in Updater /\ u.phase = (IF windows THEN "aside" ELSE "place") /\ u.image = updaters[p].image
        /\ u.binary = updaters[p].binary /\ u.manifest = updaters[p].manifest
    BY <1>7 DEF Updater, Phases
  <2>2. /\ updaters' = [updaters EXCEPT ![p] = u] /\ updaters[p].phase = "clear"
        /\ UNCHANGED <<mirror, onPath, staged>> /\ old' = IF InUse("old") THEN old ELSE Absent
    BY <1>13 DEF ClearOld, Enter, Become
  <2> HIDE DEF u
  <2>3. Replaces(u, staged[p], onPath)
    BY <1>7, <2>1, <2>2 DEF Replaces
  <2>4. onPath = Absent => InUse("old")
    BY <1>7, <2>2 DEF InUse, Replaces, ClientUpdateInv, Updater
  <2>5. \A q \in Updaters \ {p} : updaters'[q] = updaters[q]
    BY <2>2 DEF ClientUpdateInv
  <2>6. NothingIsLost'
    BY <1>4, <2>2, <2>4, <2>5 DEF NothingIsLost, ClientUpdateInv
  <2> QED
    BY <1>4, <1>7, <2>1, <2>2, <2>3, <2>6, UpdaterStep DEF ClientUpdateInv
<1>14. ASSUME NEW p \in Updaters, MoveAside(p) PROVE ClientUpdateInv'
  <2>1. updaters[p].phase = "aside" /\ windows /\ UNCHANGED <<mirror, staged>>
    BY <1>7, <1>14 DEF MoveAside, Replaces
  <2>2. CASE Become(p, Idle) /\ UNCHANGED <<onPath, old>>
    BY <1>6, <2>1, <2>2
  <2>3. CASE /\ onPath # Absent /\ old' = onPath /\ onPath' = Absent
             /\ updaters' = [Moved("metrune", "old") EXCEPT ![p].phase = "place"]
    <3> DEFINE M == Moved("metrune", "old")
    <3>1. M \in [Updaters -> Updater]
          /\ \A q \in Updaters :
               /\ M[q].phase = updaters[q].phase /\ M[q].binary = updaters[q].binary
               /\ M[q].manifest = updaters[q].manifest
               /\ M[q].image = IF updaters[q].image = "metrune" THEN "old" ELSE updaters[q].image
      BY MovedShape
    <3> HIDE DEF M
    <3>2. updaters' = [M EXCEPT ![p] = [M[p] EXCEPT !.phase = "place"]]
      BY <2>3, <3>1 DEF M
    <3>3. [M[p] EXCEPT !.phase = "place"] \in Updater
      BY <3>1 DEF Updater, Phases
    <3>4. /\ updaters'[p].phase = "place" /\ updaters'[p].binary = M[p].binary
          /\ updaters'[p].manifest = M[p].manifest /\ updaters'[p].image = M[p].image
      BY <3>1, <3>2 DEF Updater
    <3>5. updaters' \in [Updaters -> Updater] /\ \A q \in Updaters \ {p} : updaters'[q] = M[q]
      BY <3>1, <3>2, <3>3
    <3>6. onPath \in Releases /\ \A q \in Updaters : Replaces(updaters[q], staged[q], onPath)
      BY <2>3 DEF ClientUpdateInv
    <3>7. Replaces(updaters[p], staged[p], onPath)'
      BY <1>4, <2>1, <2>3, <3>1, <3>4, <3>6 DEF Replaces
    <3>8. \A q \in Updaters \ {p} : Replaces(updaters[q], staged[q], onPath)'
      <4> TAKE q \in Updaters \ {p}
      <4>1. updaters'[q] = M[q] /\ staged'[q] = staged[q] /\ Replaces(updaters[q], staged[q], onPath)
        BY <2>1, <3>5, <3>6
      <4>2. /\ M[q].phase = updaters[q].phase /\ M[q].binary = updaters[q].binary
            /\ M[q].manifest = updaters[q].manifest
            /\ M[q].image = IF updaters[q].image = "metrune" THEN "old" ELSE updaters[q].image
        BY <3>1
      <4> QED
        BY <1>4, <4>1, <4>2 DEF Replaces
    <3>9. NothingIsLost'
      BY <1>4, <2>1, <2>3, <3>4, <3>6 DEF NothingIsLost
    <3> QED
      BY <1>4, <2>1, <2>3, <3>5, <3>6, <3>7, <3>8, <3>9 DEF ClientUpdateInv
  <2> QED
    BY <1>14, <2>2, <2>3 DEF MoveAside
<1>15. ASSUME NEW p \in Updaters, Place(p) PROVE ClientUpdateInv'
  <2>1. /\ updaters[p].phase = "place" /\ onPath' = staged[p] /\ staged' = [staged EXCEPT ![p] = Absent]
        /\ updaters' = [updaters EXCEPT ![p] = Idle] /\ UNCHANGED <<mirror, old>>
    BY <1>15 DEF Place, Become
  <2>2. onPath' \in Releases
    BY <1>7, <2>1 DEF Replaces
  <2>3. NothingIsLost'
    BY <2>2 DEF NothingIsLost
  <2> QED
    BY <1>4, <2>1, <2>2, <2>3, IdleShape, UpdaterStep DEF ClientUpdateInv
<1>16. ASSUME NEW p \in Updaters, PlaceFails(p) PROVE ClientUpdateInv'
  <2>1. updaters[p].phase = "place" /\ staged' = [staged EXCEPT ![p] = Absent] /\ UNCHANGED mirror
    BY <1>16 DEF PlaceFails
  <2>2. CASE windows /\ old # Absent /\ ~(onPath # Absent /\ InUse("metrune"))
    <3> DEFINE M == Moved("old", "metrune")
    <3>1. M \in [Updaters -> Updater]
          /\ \A q \in Updaters :
               /\ M[q].phase = updaters[q].phase /\ M[q].binary = updaters[q].binary
               /\ M[q].manifest = updaters[q].manifest
               /\ M[q].image = IF updaters[q].image = "old" THEN "metrune" ELSE updaters[q].image
      BY MovedShape
    <3>2. updaters' = [M EXCEPT ![p] = Idle] /\ onPath' = old /\ old' = Absent
      BY <1>16, <2>2 DEF PlaceFails
    <3> HIDE DEF M
    <3>3. /\ updaters' \in [Updaters -> Updater] /\ updaters'[p] = Idle
          /\ \A q \in Updaters \ {p} : updaters'[q] = M[q]
      BY <3>1, <3>2, IdleShape
    <3>4. onPath' \in Releases /\ \A q \in Updaters : Replaces(updaters[q], staged[q], onPath)
      BY <2>2, <3>2 DEF ClientUpdateInv
    <3>5. staged' \in [Updaters -> Files] /\ \A q \in Updaters \ {p} : staged'[q] = staged[q]
      BY <2>1 DEF ClientUpdateInv
    <3>6. Replaces(updaters[p], staged[p], onPath)'
      BY <3>3, <3>4, IdleShape DEF Replaces
    <3>7. \A q \in Updaters \ {p} : Replaces(updaters[q], staged[q], onPath)'
      <4> TAKE q \in Updaters \ {p}
      <4>1. updaters'[q] = M[q] /\ staged'[q] = staged[q] /\ Replaces(updaters[q], staged[q], onPath)
        BY <3>3, <3>4, <3>5
      <4>2. /\ M[q].phase = updaters[q].phase /\ M[q].binary = updaters[q].binary
            /\ M[q].manifest = updaters[q].manifest
            /\ M[q].image = IF updaters[q].image = "old" THEN "metrune" ELSE updaters[q].image
        BY <3>1
      <4> QED
        BY <1>4, <3>4, <4>1, <4>2 DEF Replaces
    <3>8. NothingIsLost'
      BY <3>4 DEF NothingIsLost
    <3> QED
      BY <1>4, <2>1, <3>2, <3>3, <3>4, <3>5, <3>6, <3>7, <3>8 DEF ClientUpdateInv
  <2>3. CASE ~(windows /\ old # Absent /\ ~(onPath # Absent /\ InUse("metrune")))
    <3>1. UNCHANGED <<onPath, old>> /\ updaters' = [updaters EXCEPT ![p] = Idle]
      BY <1>16, <2>3 DEF PlaceFails, Become
    <3>2. onPath \in Releases
      BY <2>3 DEF ClientUpdateInv, NothingIsLost
    <3> QED
      BY <1>5, <2>1, <3>1, <3>2, IdleShape
  <2> QED
    BY <2>2, <2>3
<1>17. ASSUME NEW p \in Updaters, Killed(p) PROVE ClientUpdateInv'
  <2>1. updaters[p].phase \in {"stage", "clear", "aside", "place"} /\ UNCHANGED <<mirror, onPath, old, staged>>
    BY <1>17 DEF Killed
  <2>2. CASE windows /\ updaters[p].phase = "place"
    <3> DEFINE u == [updaters[p] EXCEPT !.phase = "stopped midway", !.image = "none"]
    <3>1. /\ u \in Updater /\ u.phase = "stopped midway" /\ u.image = "none"
          /\ u.binary = updaters[p].binary /\ u.manifest = updaters[p].manifest
      BY <1>7 DEF Updater, Phases
    <3>2. updaters' = [updaters EXCEPT ![p] = u]
      BY <1>17, <2>2 DEF Killed, Become
    <3> HIDE DEF u
    <3>3. Replaces(u, staged[p], onPath)
      BY <1>7, <3>1 DEF Replaces
    <3> QED
      BY <1>5, <1>7, <2>1, <3>1, <3>2, <3>3
  <2>3. CASE ~(windows /\ updaters[p].phase = "place")
    <3>1. updaters' = [updaters EXCEPT ![p] = Idle]
      BY <1>17, <2>3 DEF Killed, Become
    <3>2. updaters[p].phase = "place" => onPath \in Releases
      BY <2>3 DEF ClientUpdateInv
    <3> QED
      BY <1>5, <1>7, <2>1, <3>1, <3>2, IdleShape
  <2> QED
    BY <2>2, <2>3
<1> QED
  BY <1>2, <1>3, <1>8, <1>9, <1>10, <1>11, <1>12, <1>13, <1>14, <1>15, <1>16, <1>17 DEF ClientUpdateNext

\* NothingIsLost: replace_binary_at leaves a complete release to run at every
\* step, also of several processes at once, and wherever one is stopped.
THEOREM NothingIsLostSafe == ClientUpdateSpec => []NothingIsLost
<1>1. ClientUpdateInv => NothingIsLost
  BY DEF ClientUpdateInv
<1> QED
  BY <1>1, ClientUpdateInitInv, ClientUpdateNextInv, PTL DEF ClientUpdateSpec

\* InstallsTheManifest: update_client installs the release of the manifest
\* whose signature it verified, and no other.
THEOREM InstallsTheManifestSafe == ClientUpdateSpec => []InstallsTheManifest
<1>1. ClientUpdateInv => InstallsTheManifest
  BY DEF ClientUpdateInv, Replaces, InstallsTheManifest
<1> QED
  BY <1>1, ClientUpdateInitInv, ClientUpdateNextInv, PTL DEF ClientUpdateSpec

\* ClientUpdateTypeOK: the files are what the processes put there, and a
\* process that renames files has staged the whole binary.
THEOREM ClientUpdateTypeCorrect == ClientUpdateSpec => []ClientUpdateTypeOK
<1>1. ClientUpdateInv => ClientUpdateTypeOK
  BY ReleaseNumbers DEF ClientUpdateInv, Replaces, ClientUpdateTypeOK
<1> QED
  BY <1>1, ClientUpdateInitInv, ClientUpdateNextInv, PTL DEF ClientUpdateSpec

=============================================================================
