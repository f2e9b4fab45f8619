-------------------------- MODULE CredentialStore --------------------------
(***************************************************************************)
(* The secrets of a client: crates/metrune-cli/src/credentials.rs, and the *)
(* move of the installation token out of the configuration file by         *)
(* load_config (crates/metrune-cli/src/app.rs).                            *)
(*                                                                         *)
(* A secret goes to the system keyring, or to a file when the keyring      *)
(* refuses it.  The file is read, changed and written back as a whole, by  *)
(* processes that know nothing of each other and may stop in between.      *)
(***************************************************************************)
EXTENDS Naturals

CONSTANTS
    Procs,          \* processes of the client
    Token,          \* the key of the installation token
    Others,         \* the keys of classifier credentials
    MaxSets,        \* bound on secrets stored; secrets are numbered
    MaxCrashes      \* bound on processes that stop in the middle

ASSUME CredentialStoreAssumption ==
    /\ Token \notin Others
    /\ MaxSets \in Nat \ {0} /\ MaxCrashes \in Nat

Keys == Others \cup {Token}

VARIABLES
    keyring,        \* secret by key; 0 is none
    reach,          \* "absent", "up" or "lost": whether the keyring answers
    fallback,       \* credentials.json: secret by key; 0 is none
    torn,           \* the file does not parse
    config,         \* "plain" while the configuration holds the token
    ops,            \* what each process is doing
    allowed,        \* what a reader of a key may find
    behind,         \* keys whose secret changed while the keyring, holding one, was away
    overlapped,     \* an operation began while another process was at work
    sets, crashes

storeVars == <<keyring, reach, fallback, torn, config, ops, allowed, behind, overlapped, sets, crashes>>

Secrets == 0..MaxSets

\* The installation token is secret 1.
TokenSecret == 1

Empty == [k \in Keys |-> 0]

\* kind: what to do with the key in the file; value: the secret in the end;
\* copy: the file as read; moving: load_config goes on to save its file.
NoOp == [phase |-> "idle", kind |-> "clear", key |-> Token, value |-> 0, copy |-> Empty,
         moving |-> FALSE, loaded |-> FALSE]

Operation ==
    [phase : {"idle", "read", "open", "fill", "save"}, kind : {"insert", "clear"}, key : Keys,
     value : Secrets, copy : [Keys -> Secrets], moving : BOOLEAN, loaded : BOOLEAN]

StoreTypeOK ==
    /\ keyring \in [Keys -> Secrets] /\ fallback \in [Keys -> Secrets]
    /\ reach \in {"absent", "up", "lost"} /\ torn \in BOOLEAN
    /\ config \in {"plain", "moved"}
    /\ ops \in [Procs -> Operation]
    /\ allowed \in [Keys -> SUBSET Secrets] /\ behind \subseteq Keys
    /\ overlapped \in BOOLEAN
    /\ sets \in 1..MaxSets /\ crashes \in 0..MaxCrashes

StoreInit ==
    /\ keyring = Empty /\ fallback = Empty /\ torn = FALSE
    /\ reach \in {"absent", "up"}
    /\ config = "plain"
    /\ ops = [p \in Procs |-> NoOp]
    /\ allowed = [k \in Keys |-> {0}] /\ behind = {}
    /\ overlapped = FALSE
    /\ sets = 1 /\ crashes = 0

\* get_scoped: the keyring first, then the file.
Get(k) == IF reach = "up" /\ keyring[k] # 0 THEN keyring[k] ELSE fallback[k]

\* An operation of p begins.
Begin(p) == overlapped' = (overlapped \/ \E q \in Procs \ {p} : ops[q].phase # "idle")

\* set_scoped and delete_scoped ask the keyring first.  One that is away keeps
\* what it has.
WriteKeyring(k, v) ==
    IF reach = "up"
    THEN keyring' = [keyring EXCEPT ![k] = v] /\ behind' = behind \ {k}
    ELSE behind' = (IF keyring[k] = 0 THEN behind ELSE behind \cup {k}) /\ UNCHANGED keyring

\* Mutant of SetScoped: the file keeps its copy when the keyring takes one.
SetScopedKeeping(p, k, v, moving) ==
    /\ Begin(p)
    /\ WriteKeyring(k, v)
    /\ allowed' = [allowed EXCEPT ![k] = IF reach = "up" THEN {v} ELSE @ \cup {v}]
    /\ ops' = [ops EXCEPT ![p] =
                  [NoOp EXCEPT !.phase = IF reach = "up" THEN (IF moving THEN "save" ELSE "idle")
                                         ELSE "read",
                               !.kind = "insert", !.key = k, !.value = v, !.moving = moving,
                               !.loaded = ~moving]]

\* set_scoped: a keyring that takes the secret is followed by removing it
\* from the file; otherwise it goes into the file.
SetScoped(p, k, v, moving) ==
    /\ Begin(p)
    /\ WriteKeyring(k, v)
    /\ allowed' = [allowed EXCEPT ![k] = @ \cup {v}]
    /\ ops' = [ops EXCEPT ![p] =
                  [NoOp EXCEPT !.phase = "read",
                               !.kind = IF reach = "up" THEN "clear" ELSE "insert",
                               !.key = k, !.value = v, !.moving = moving, !.loaded = ~moving]]

\* Mutant of LoadConfig: the configuration is cleared before the token is
\* stored.
LoadConfigEarly(p) ==
    /\ ops[p].phase = "idle" /\ ~ops[p].loaded
    /\ IF config = "plain"
       THEN SetScoped(p, Token, TokenSecret, FALSE) /\ config' = "moved"
       ELSE ops' = [ops EXCEPT ![p].loaded = TRUE] /\ UNCHANGED <<keyring, allowed, behind, config, overlapped>>
    /\ UNCHANGED <<reach, fallback, torn, sets, crashes>>

\* A command starts with load_config, which moves the token if it is still
\* in the configuration.
LoadConfig(p) ==
    /\ ops[p].phase = "idle" /\ ~ops[p].loaded
    /\ IF config = "plain"
       THEN SetScoped(p, Token, TokenSecret, TRUE)
       ELSE ops' = [ops EXCEPT ![p].loaded = TRUE] /\ UNCHANGED <<keyring, allowed, behind, overlapped>>
    /\ UNCHANGED <<reach, fallback, torn, config, sets, crashes>>

\* set_for_server: a classifier credential is stored.
SetForServer(p) ==
    /\ ops[p].phase = "idle" /\ ops[p].loaded
    /\ sets < MaxSets
    /\ sets' = sets + 1
    /\ \E k \in Others : SetScoped(p, k, sets', FALSE)
    /\ UNCHANGED <<reach, fallback, torn, config, crashes>>

\* delete_for_server: from the keyring, if it answers, then from the file.
DeleteForServer(p) ==
    /\ ops[p].phase = "idle" /\ ops[p].loaded
    /\ \E k \in Others :
         /\ allowed[k] # {0}
         /\ Begin(p)
         /\ WriteKeyring(k, 0)
         /\ allowed' = [allowed EXCEPT ![k] = @ \cup {0}]
         /\ ops' = [ops EXCEPT ![p] =
                       [NoOp EXCEPT !.phase = "read", !.key = k, !.loaded = TRUE]]
    /\ UNCHANGED <<reach, fallback, torn, config, sets, crashes>>

\* The operation is complete: from now on the secret is the only answer.
Complete(p) ==
    /\ allowed' = [allowed EXCEPT ![ops[p].key] = {ops[p].value}]
    /\ ops' = [ops EXCEPT ![p] = [NoOp EXCEPT !.phase = IF ops[p].moving THEN "save" ELSE "idle",
                                              !.loaded = ops[p].loaded]]

\* read_fallback.  A file that does not parse ends the command; removing
\* what is not there needs no write.
ReadFallback(p) ==
    /\ ops[p].phase = "read"
    /\ CASE torn -> ops' = [ops EXCEPT ![p] = NoOp] /\ UNCHANGED allowed
         [] ~torn /\ ops[p].kind = "clear" /\ fallback[ops[p].key] = 0 -> Complete(p)
         [] OTHER -> /\ ops' = [ops EXCEPT ![p].phase = "open", ![p].copy = fallback]
                     /\ UNCHANGED allowed
    /\ UNCHANGED <<keyring, reach, fallback, torn, config, behind, overlapped, sets, crashes>>

\* write_fallback opens the file, which empties it ...
OpenFallback(p) ==
    /\ ops[p].phase = "open"
    /\ ops' = [ops EXCEPT ![p].phase = "fill"]
    /\ torn' = TRUE
    /\ UNCHANGED <<keyring, reach, fallback, config, allowed, behind, overlapped, sets, crashes>>

\* ... and writes the changed copy.  Two writers at once may leave a mixture.
FillFallback(p) ==
    /\ ops[p].phase = "fill"
    /\ fallback' = [ops[p].copy EXCEPT ![ops[p].key] =
                   IF ops[p].kind = "insert" THEN ops[p].value ELSE 0]
    /\ torn' \in {FALSE, \E q \in Procs \ {p} : ops[q].phase = "fill"}
    /\ Complete(p)
    /\ UNCHANGED <<keyring, reach, config, behind, overlapped, sets, crashes>>

\* save_config: the token leaves the configuration, which is renamed into
\* place.
SaveMoved(p) ==
    /\ ops[p].phase = "save"
    /\ config' = "moved"
    /\ ops' = [ops EXCEPT ![p] = [NoOp EXCEPT !.loaded = TRUE]]
    /\ UNCHANGED <<keyring, reach, fallback, torn, allowed, behind, overlapped, sets, crashes>>

Crash(p) ==
    /\ ops[p].phase # "idle"
    /\ crashes < MaxCrashes
    /\ crashes' = crashes + 1
    /\ ops' = [ops EXCEPT ![p] = NoOp]
    /\ UNCHANGED <<keyring, reach, fallback, torn, config, allowed, behind, overlapped, sets>>

\* The keyring comes and goes with the desktop session; what it held when it
\* went it holds when it is back.  Every call tries it again.
KeyringChanges ==
    /\ \/ reach \in {"absent", "lost"} /\ reach' = "up"
       \/ reach = "up" /\ reach' = "lost"
    /\ UNCHANGED <<keyring, fallback, torn, config, ops, allowed, behind, overlapped, sets, crashes>>

StoreNext ==
    \/ KeyringChanges
    \/ \E p \in Procs :
         \/ LoadConfig(p) \/ SetForServer(p) \/ DeleteForServer(p)
         \/ ReadFallback(p) \/ OpenFallback(p) \/ FillFallback(p) \/ SaveMoved(p)
         \/ Crash(p)

StoreSpec == StoreInit /\ [][StoreNext]_storeVars

-----------------------------------------------------------------------------

\* Nobody is at work on the store.
Quiet == \A p \in Procs : ops[p].phase = "idle"

\* A reader finds the secret stored last, or none if it was deleted last; a
\* crash leaves the old one or the new one.  Three exceptions are the code's:
\* a secret in a keyring that is away is not found; a secret that was replaced
\* or deleted while the keyring that held it was away is found again when the
\* keyring is back, because get_scoped asks it first and neither set_scoped nor
\* delete_scoped could reach it; and processes that write the store at the same
\* time may undo each other.
NeverStale ==
    Quiet /\ ~torn /\ ~overlapped =>
        \A k \in Keys :
            \/ Get(k) \in allowed[k]
            \/ reach = "lost" /\ keyring[k] # 0 /\ Get(k) = 0
            \/ reach = "up" /\ k \in behind /\ Get(k) = keyring[k]

\* Moving the installation token out of the configuration does not lose it,
\* whatever processes move it at the same time, store other secrets and stop
\* half-way: it is in the configuration or in the store, as long as the store
\* can be read and its keyring is not gone.
TokenIsKept ==
    config = "moved" /\ ~torn /\ reach # "lost" => Get(Token) = TokenSecret

=============================================================================
