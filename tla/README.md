# Verification of metrune

TLA+ models of metrune (a self-hosted service that collects usage metadata of
coding agents), TLC runs over small instances of them, and theorems that TLAPS
checks for every size of instance. Paths below are relative to the repository.

## 1. Inventory

| Component | State | Operations | Talks to |
|---|---|---|---|
| Client outbox (`metrune-core/src/state.rs`) | `session_outbox`, `last_session_revision`, `source_checkpoints`, classification cache, schema lock, update-check time, all in SQLite | `queue_snapshot`, `pending_batch`, `acknowledge`, `acknowledge_session_keys`, `next_revision`, `checkpoint`, `prune_expired_rows` | scan and upload, in any number of processes |
| Client scan (`metrune-cli/src/app.rs`: `scan`, `classify_turns`) | messages collected so far | fingerprint, parse, checkpoint, classify, queue | agents' session stores (which change meanwhile), outbox, classifier |
| Client upload (`upload`, `watch`) | the batch in flight | send, acknowledge, retry, stop on 426 | outbox, ingest endpoint |
| Ingest endpoint (`metrune-api/src/app.rs`: `ingest_sessions`) | `ingest_batches` (PostgreSQL), `session_snapshots_dedup` (ClickHouse) | authenticate, deduplicate, validate, price, insert, record | client, both databases |
| Start of the server (`run`) | vault master key (a file), first account, rows of ClickHouse, `model_prices` | create or load the key, bootstrap, re-seal credentials, rewrite unpriced history, import the catalogue, end sessions of another authentication mode | both databases, other instances |
| Members (`add_member`, `update_member`, `remove_member`, `ensure_another_admin`) | `organization_memberships` | add, change role, remove | invitations, sessions, installations |
| Invitations, password resets (`identity.rs`) | `workspace_invitations`, `password_reset_tokens` | create, resend, revoke, accept; request, complete | members, mailer |
| Enrollment (`enroll`, `create_enrollment_code`, `device_auth.rs`) | `enrollment_codes`, `device_enrollment_authorizations`, `installations` | issue, approve, deny, poll, redeem, revoke | members, CLI |
| Web sessions, login, OIDC (`login`, `switch_organization`, `oidc.rs`) | `web_sessions`, `oidc_authorization_attempts`, `users` | log in, out, switch, create users | identity provider |
| Credential vault and classifier settings | `provider_credentials`, per-organization keys | upsert (new version), revoke, export, provision | CLI, providers |
| Provisioning on the client (`apply_server_classifier`) | profile, stored secret | fetch, store, save, log out | server, credential store |
| Classification (`classify_turns`, `managed_classify*`, `classifier.rs`) | classification cache, learned response modes, permits | rules, inheritance, one text or a batch, fallback, repair | providers |
| Limits (`limits.rs`) | window counters, permits | check, acquire | all handlers |
| Prices (`apply_server_prices`, `*_price`, `pricing.rs`) | price catalogue | import, create, update, delete, select | ingest |
| Releases (`release.rs`, `distribution.rs`, `update_client`) | manifest, installed binary | compare versions, download, verify, replace | CLI, server |
| Client credentials (`credentials.rs`) | keyring, fallback file | store, load, migrate | CLI |
| Adapters, aggregation (`adapters/`, `lib.rs`) | none | parse, aggregate | scan |
| Analytics, mailer, dashboard | none of their own | queries, SMTP, pages | - |

What is hard in this code:

* **Delivery.** Client and server share no transaction. An answer can be lost,
  a request abandoned by its sender can still be executed, two processes on a
  machine send the same rows, and a session is scanned again while it is being
  uploaded. ClickHouse and PostgreSQL are written one after the other.
* **Revisions.** Three places order snapshots by revision (`queue_snapshot`,
  `acknowledge`, ReplacingMergeTree) and two hand them out (`next_revision` on
  the client, repricing on the server).
* **Scans.** Stores change while they are read, and a scan can stop between the
  checkpoint of a source and the queueing of its sessions. A session has several
  sources (OpenCode keeps a file per message, Claude several logs), which are
  fingerprinted one by one; its row is replaced as a whole.
* **Check and use.** Handlers authenticate with one query and act with later
  ones; invariants over several rows (a final administrator, a one-time code)
  rest on row locks. PostgreSQL runs at READ COMMITTED: a statement sees what
  was committed when it began, and little more is promised.
* **Two stores, one truth.** Keyring and fallback file, configuration and
  store, profile and secret, binary and its moved copy, manifest and artifact:
  each pair is written in two steps by processes that may stop or race.
* **Answers from outside.** A provider answers batches out of order, in part or
  not at all; an identity provider changes keys and addresses; a network delays
  a poll that then counts as an early one.
* **Sums.** The server rejects a whole session whose turns and models do not
  add up, so every way of adding up the same tokens has to agree.
* **Estimates outlive prices.** What the server estimated stays in ClickHouse
  while prices are replaced, deleted and imported again in PostgreSQL.

What makes each part correct, in a sentence: a row is marked delivered only if
the server holds it; the newest snapshot wins at both ends; everything queued
is delivered in the end; a checkpoint covers only what was read; an
organization keeps an administrator; a grant gives at most one installation;
an installation dies with its owner's membership; a text is labelled with an
answer given for it; a client that follows the server's classifier comes to hold
the current secret; a reader of the credential store finds the secret stored
last, where the stores allow it; a working binary remains whatever happens to an update; a reset link and
a sign-in attempt count once; a subject is one account; a limiter refuses for a
reason; instances serve with the key credentials are sealed with; prices that
were displaced stay so, and an estimate can be audited.

## 2. Modules

| Module | Models | Extends / uses |
|---|---|---|
| `Outbox` | `session_outbox` and the revision counter of `state.rs` | - |
| `Ingest` | `ingest_sessions` step by step, both stores, restart | - |
| `Upload` | `upload` and `watch` against the endpoint, network, faults | extends `Outbox`, instantiates `Ingest` |
| `Delivery` | what outbox and server promise: at-least-once delivery (abstract) | instantiated by `Upload` |
| `UploadProofs` | theorems about `Upload` | `Upload`, TLAPS |
| `Scan` | `scan` with checkpoints and interruptions | extends `Outbox` |
| `Membership` | members and invitations of one organization | - |
| `MembershipProofs` | theorems about `Membership` | `Membership`, TLAPS |
| `Enrollment` | grants and installations beside the members | extends `Membership` |
| `Usage` | a Codex log from its records to the snapshot and the server's reconciliation rules | - |
| `Classification` | `classify_turns` with the classification cache | - |
| `Provider` | `OpenAiCompatibleClassifier` and `managed_classify_batch` | - |
| `Provisioning` | credential vault, classifier settings, and the client that applies them | - |
| `CredentialStore` | keyring and fallback file, migration of the token | - |
| `DevicePolling` | the CLI's polling loop against the server's interval | - |
| `UpdateCheck` | the daily check, its slot, and the version gate | - |
| `ClientUpdate` | manifest, download, replacement of the binary | - |
| `Sessions` | sign-in, reset links, web sessions, authentication mode | - |
| `Oidc` | sign-in attempts, account resolution, provisioning, invitations | - |
| `Limits` | `RateLimiter` and `LoginAttemptLimiter` | - |
| `Startup` | master key, bootstrap, re-sealing, by several instances | - |
| `Pricing` | `model_prices`: catalogue, requests, pricing of snapshots | - |
| `EnrollmentProofs` | theorems about `Enrollment` | `Enrollment`, `MembershipProofs` |
| `IdentityProofs` | theorems about `Sessions` and `Oidc` | both, TLAPS |
| `ClientProofs` | theorems about `CredentialStore`, `DevicePolling`, `UpdateCheck`, `ClientUpdate` | these, TLAPS |
| `ServerProofs` | theorems about `Startup`, `Limits`, `Pricing` | these, TLAPS |
| `ClassifierProofs` | theorems about `Provisioning`, `Provider`, `Classification` | these, TLAPS |
| `ScanProofs` | theorems about `Scan` and `Usage` | both, TLAPS |
| `MCUpload`, `MCMembership`, `MCEnrollment` | instances for TLC | |
| `MCClient`, `MCClassifier`, `MCServer` | instances for TLC of the parts that share no state | see section 3 |

Definitions whose comment begins with "Mutant of" are not part of a model: each
is a definition as a plausible mistake would have it, and shows that a property
notices the mistake.

### Outbox

A row is absent, pending or acknowledged and has a revision, a content and the
time it was queued. `NextRevision` is `next_revision` (the observed revision or
the counter's successor, whichever is larger); the snapshot is then a *draft*
until `QueueSnapshot`, because the scan asks the classifier in between and other
processes run. `QueueSnapshot` has the `WHERE excluded.revision >= revision` of
the upsert, `Acknowledged` the `revision <= ?` of the update, `PendingBatch` the
`ORDER BY updated_at LIMIT`. A batch is a set of snapshots. The batch identifier
is a digest of the ordered payload, so the set stands for it. `PruneExpiredRows`
removes acknowledged rows, those of sessions without a draft only: a row is
pruned thirty days after its acknowledgement and no scan lasts that long.

Contents are abstract here. `Upload` sorts them by what validation says of them
("valid", "invalid", or "overpriced": valid until the server has put its own
prices in). In `Scan` a content is the number of messages it covers per source.

### Ingest and Upload

One request goes through `received`, `open` (not a duplicate), `stored` (rows
in ClickHouse) and an answer. `InsertRows` and `RecordBatch` are two steps, with
failures possible between and after them: an insert that reaches ClickHouse and
whose answer is lost is `InsertRows(q, "failed")`. `Restart` stops all requests
and lets `reprice_unknown_history` raise the revision of any rows by one. The
visible row of a session keeps its revision and the client revision its content
came from, which repricing separates.

An uploader is idle, waiting for an answer, or has exited after 426. A timeout
or a kill (`AbandonUpload`) leaves the request to the server. The client marks
rows one UPDATE each, so a killed process has marked any subset (`HandleAck`,
second disjunct). `Fault` counts every such event, for the bound.

`Delivery` is the abstract specification of all this, with nothing but the
newest offer of each session and what has arrived: a snapshot is given up only
for a newer one, is settled only when that very snapshot has arrived or can
never be stored, and is forgotten only when settled. `Upload` implements it with
the outbox rows (without their times) as offers and ClickHouse as the store.

Servers older than the current one, whose answers do not name keys, are left
out, and so are the TTL of ClickHouse and the 10 MiB body limit (a 413 is
among the failures that may always happen, not one that repeats by rule).

### Scan

A source is an append-only log; its length stands for content, fingerprint and
time of the newest message. Any number of processes scan. A scan takes the
fingerprint, parses what is there by then, writes the fingerprint it took as the
checkpoint, and queues sessions after all sources are visited. `SessionOf` gives
a session any number of sources; its snapshot (`Collected`) covers those of them
that this scan has read, and replaces the row whatever that covered.
`Interrupt` is Ctrl-C, a kill or an error of SQLite anywhere. `handed` and `cut`
are bookkeeping of the model, not of the code: how many messages of each source
were in a snapshot given to `queue_snapshot`, and how many an interrupted scan
had read and not queued.

### Membership and Enrollment

One organization. A request is authorized in one step and acts in later ones.
`EnsureAnotherAdmin` locks all membership rows; every write to a locked row
waits (`RowFree`). Inserts do not wait for locks of other rows. Invitations are
`pending`, `expired`, `revoked` or `accepted`; tokens stand for themselves.
`MayAdd` with `ReaddMembers` separates two questions: with FALSE an add or an
invitation reaches non-members only, with TRUE anybody, as in the code.

A grant is an enrollment code or a device authorization. `CheckMember` is the
query that finds the user to be a member, `CreateEnrollmentCode` and
`ApproveDevice` the later one that binds them to the grant; `LockCode` and
`Enroll`, `LockDevice` and `ExchangeDeviceCode` are the begin and the commit of
the two redeeming transactions. `remove_member` is `EnsureAnotherAdmin`,
`SweepInstallations` (its UPDATE of `installations` sees what is committed by
then) and `CompleteRemoval` (the UPDATE of `enrollment_codes`, which waits for a
locked code, the DELETE and the commit). Expiry is independent of state: a
redemption that passed the check commits after the ten minutes too.

### Usage

One action per kind of record of a Codex log, which the agent writes and `parse`
reads: a user message opens a turn, `TokenCount` takes the difference to the
previous totals (`DeltaFrom` is `delta_from`: whole totals where one of them
shrank) and makes a message of it together with the signals collected since.
`ResumeSession` is an agent that starts its totals again. `used` is what the
agent really used. `TurnDetail` and `UsageByModel` are the two ways in which the
client adds up the messages, `Reconciles` is what `validate_snapshot` demands of
them. Two kinds of token stand for five; only the Codex adapter is modelled, and
logs without `token_count` records are not.

### Classification, Provider, Provisioning

`Classification`: a scan walks the turns (`VisitTurn`: cache, no text,
inheritance, rule, defer or ask), asks about the rest batch by batch
(`AskBatch`, `AskFails`), settles the continuations that waited (`QueueTurns`).
The classifier of a scan is the one configured when it began; others scan, and
the user switches the classifier, meanwhile. A text is a sequence of words,
category identifiers among them; an intent is one of a few texts, "continue" or
nothing, and `RuleCategory` says which of them a rule knows. `Digested` is what
`classification_cache_key` feeds its HMAC: intent, signals and previous category
follow each other with nothing between them, so two turns can share a key. The
zero bytes of a signal's count are taken to be in no text.

`Provider`: one call with its texts. `Call` cuts a batch by items and bytes,
`AnswerBatch` takes an answer whose items name any index in any order
(`ParseBatch`), what is left goes text by text, each with a repair of an
unusable answer; `Reject` is an HTTP rejection of `response_format`, remembered
in a cache all calls share; `Fail` is any other error, a timeout included.

`Provisioning`: rotations and revocations are split where two requests can
interleave (`BeginRotation`, `CommitRotation`); the provisioning handler reads
settings, then the credential, then records what it handed out; the client
stores the secret (`ApplyStore`) and then its profile (`ApplySave`), and may stop
in between. Secrets are numbered, so that two equal version numbers with
different secrets can be told apart.

### CredentialStore, DevicePolling

`CredentialStore`: `SetScoped` tries the keyring, which is `up`, `absent` or
`lost`; a change of the fallback file is read, truncation and rewrite, three
steps with crashes between them. `LoadConfig` moves the inline token. `allowed`
and `overlapped` are bookkeeping of the model: which values a reader may find,
and whether two processes changed the store at the same time. `KeyringChanges`:
the keyring comes and goes with the desktop session and keeps what it had, and
every call tries it again (`WriteKeyring`, `Get`); `behind` remembers the keys
whose secret changed while the keyring, away, held one.

`DevicePolling`: the interval begins at `InitialInterval`, and `slow_down` adds
`Increment` to it on either side, up to `MaxInterval`. `Sleep`, `Send`,
`Handle`, `HttpTimeout` are the client's loop with its deadline; `PollStatus`
compares with the previous poll and raises the interval. `DelayRequest` and
`LoseAnswer` are the faults: a delayed request is handled at any later time and
makes the next poll early. `StoreToken` and `SaveConfig` end a successful loop.

### UpdateCheck, ClientUpdate

`UpdateCheck`: `ReadClock`, `Claim` (the claim is one SQLite transaction), the two
requests of `tokio::join!` in either order, each of which may fail, and `Notice`.
`Deploy` and `Publish` change the server's floor and the release between them.
`Refuses` is the version gate of `ingest_sessions`.

`ClientUpdate`: a release is a number. An operator copies manifest and artifact
to the mirror in any order; `download_client` serves an artifact only if it is
the manifest's. `Stage`, `ClearOld`, `MoveAside`, `Place` and `PlaceFails` are
`replace_binary_at`; on Unix `Place` alone replaces the binary. `Killed` stops a
process at any step. The behaviour of unwritten pages when the machine stops is
left out.

### Sessions, Oidc

`Sessions`: one account. Reset requests, completions and sign-ins are split at
their SQL statements: `LockLink`, `WritePassword`, `LockLinks`, `SweepSessions`,
`CommitReset`, and `VerifyPassword`, `OpenSession`. An UPDATE finds the rows
committed when it begins (`seen`, `swept`) and waits for locked ones.
`ChangeMode` is a restart with another authentication mode. `late` marks a
session whose sign-in overlapped the reset that changed its password.

`Oidc`: `Consume` marks the attempt as used, `Exchange`, `Verify` and `Refresh` check the
token against the cached key and once against a new one, `BySubject`, `ByEmail`,
`Bind`, `Provision` resolve the account, `IssueSession` commits. Unique keys and
row locks make others wait (`Clash`, `Held`). `accept_invitation` creates
accounts beside it. The identities of the instance let a subject change its
address and the address be given to someone else.

### Limits, Startup, Pricing

`Limits`: `Check` of the fixed window with its table of bounded size (expired
windows are dropped when the table is full; a full table sheds), and
`IsLimited`, `RecordFailure`, `PassLogin` around the verification of a password.
`accepted` and `refused` record what callers were told; a request let through is
recorded with its time and its number in the window, so that two at the same
time are two.

`Startup`: instances share the volume with the key and the database. `LoadKey`,
`CreateKey` (create_new), `WriteKey`, `CheckVault`, the statements of
`bootstrap_local_user`, `ListLegacy`, `Reseal`, `Serve`; an instance stops at any of
them and starts again. `LoseKey` is a lost volume.

`Pricing`: rows of `model_prices` with scope, authority and whether they are
open; the import closes stale rows and inserts entries one by one
(`StartImport`, `InsertCatalogPrice`), not in a transaction; administrators'
requests are transactions split at their statements. A snapshot has a slice per
model with its cost: reported, unknown, or estimated by the client or by the
server with source, version and rate. `Priced` is `apply_server_prices`, which
estimates every slice without a reported cost for which a price is in force,
those estimated before included; `RepriceUnknownHistory` applies it at each start to snapshots with an
unknown slice. Amounts (tokens times rate, in `f64`) and their division
among the steps of a slice are left out, as are dated catalogue entries. A
catalogue version names one content, and the aliases of an entry are fixed.

Each of these modules has a type invariant (`...TypeOK`), which documents its
state; each is proved, and is the base of the module's other proofs.

## 3. Runs

All runs switch off the deadlock check: with bounded revisions, messages and
grants a model comes to rest when everything is delivered or settled, as the
system does.

| Run | Result | Question |
|---|---|---|
| `upload_safety` | pass, 3.2 M states | Two processes, two sessions, rows that are valid, invalid or fail their batch after pricing, three revisions, two drafts, two faults. Is anything marked delivered that is not stored (`AckedIsStored`)? Is a completed batch stored (`CompletedIsStored`)? Can an upload in flight be newer than its row (`InFlightIsNotNewer`)? Is every step one of at-least-once delivery (`ImplementsDelivery`: `Delivery` under the refinement mapping)? |
| `upload_liveness` | pass, 0.3 M | Is every queued row acknowledged in the end (`EventuallyAcked`), with rejected rows, a fault and a restart that reprices? Batches of one row, so that order matters. Is the newest stored snapshot the visible one (`NewestIsVisible`) when late requests land after newer ones? |
| `upload_repriced` | violation | `NewestIsVisible` with two restarts: each raises the stored revision by one, the client's next one is only one larger. Finding 1. |
| `upload_starved` | violation | `ValidEventuallyAcked` with a snapshot that pricing makes invalid: its batch fails with 400 each time. Finding 2. |
| `membership_readd` | violation | The same when adds reach members: the upsert demotes the last administrator. Finding 3. |
| `enrollment_once` | pass, 1.2 M | Members: does an administrator remain (`AdminRemains`), with three accounts, two requests at once and two invitations? Grants: one installation each (`OneInstallationPerGrant`), settled once (`SettledGrantsStay`), with two redemptions, the founder and one other account, and a removal? |
| `enrollment_removed` | violation | Does removal end every installation (`RemovedHasNoInstallation`)? Finding 4. |
| `scan_partial` | violation | Does the snapshot that replaces a session's row cover what the row did (`ResumedHasMore`)? One scanner, a session with two sources, no interruption. Finding 5. |
| `client_parts` | pass, 4.7 M | Each procedure of the client against its surroundings; see below. |
| `classifier_parts` | pass, 5.7 M | From a turn to the provider and back; see below. |
| `classifier_progress` | pass, 0.4 M | Do scans (`ClassificationEnds`) and calls (`CallsEnd`) end, and does a client come to hold the current classifier (`EventuallyCurrent`)? |
| `server_parts` | pass, 2.9 M | Each procedure of the server under concurrent requests; see below. |

**Parts.** `MCClient`, `MCClassifier` and `MCServer` check several modules that
share no state in one run, and `MCEnrollment` checks `Membership` alone ("members")
and below `Enrollment` ("enrollment"). The variable `part` is chosen in the initial state and
only the actions of that part are taken, so the behaviours are those of the
parts one by one, and their number is a sum, not a product. A module can be two
parts with different bounds: `MCServer` runs `Sessions` as "resets" (two of each
request, one mode) and as "modes" (one of each, changes of mode and of
memberships), `Limits` as "calls" and "sign-ins", `Pricing` as "prices" (two
administrators, one model) and "catalogue" (imports, snapshots, one
administrator); `MCClassifier` runs `Classification` as "turns" (one scanner, three
turns) and "shared" (two scanners), `Provider` as "call" (several texts) and "modes"
(two callers, one text each). The fair actions of a part that does not run are
disabled in its initial states, so its fairness asks nothing of the others.

What the parts show:

| Part | Instance | Properties |
|---|---|---|
| scan | two scanners, one session with two sources of two messages, one interruption | `CheckpointIsQueued`: the messages a checkpoint covers were given to `queue_snapshot`, are in the hands of a scan, or were in those of an interrupted one |
| usage | every log of six records, two models, totals that repeat and start again | `ReportsWhatWasUsed`: never more tokens than used, and exactly those while totals are not started again; `SnapshotReconciles`: the server's rules accept the result, cut detail included |
| store | two processes, three secrets, two crashes, a keyring that goes and comes back | `NeverStale`: a reader finds the secret stored last, a crash leaves the old or the new one; except a secret in a keyring that is away, one that was replaced or deleted while the keyring that held it was away, and after processes that overlapped; `TokenIsKept`: the migrated token is somewhere, processes that overlap included |
| polling | lifetime of 14 intervals, three faults | `ClientKeepsPace`: the interval the client sleeps is never below the one the server demands of it; `GivesUpOnlyLate`: an approved grant is given up only if the approval came too late or a fault occurred |
| check | four versions, two changes by operators | `RefusedIsTold`: whoever learns the server's configuration is told that uploads would be refused, exactly when they would |
| update | two updaters, three releases, three runs, four copies to the mirror, Unix and Windows | `NothingIsLost`: a complete binary is on PATH, or on Windows beside it while an updater is between its renames; `InstallsTheManifest` |
| turns, shared | three turns, or two scanners with two; one switch of the classifier | `TurnsAreExplained`: a category has a method, and an inherited one a source; `CachedWasAnswered`: a cached category was given by this classifier for this intent, or for one that differs by a category identifier at its end (what the key cannot tell apart) |
| call, modes | up to three texts of two sizes, two calls; two callers | `AnswersTheText`: each text has a category given for it, and usage counts every answered chat once; `RejectionIsLearned`: each caller is refused at most once |
| provisioning | two administrators, two credentials, two rotations, one lost request, one crash | `VersionNamesOneSecret`; `HeldAsProfiled`: the secret kept is the one of the version the profile names (one process of the client, and while it does not stop between its two writes); `EventuallyCurrent` |
| resets, modes | two links, sign-ins, completions; two changes of mode | `LinkSetsOnce`; `OlderSessionsOverlapped`: a session of an older password belongs to a sign-in that overlapped the reset; `SessionsEndWithMode`: no session authorizes after the mode was changed, even if it is changed back |
| oidc | two attempts, two callbacks, three accounts, one invitation, one key rotation, all three kinds of provisioning | `OneSessionPerAttempt`; `SubjectIsStable`: one account per subject and one subject per account |
| calls, sign-ins | three keys in a table of two, windows of two ticks | `RefusalIsDue`: a refusal has a spent budget or a table full of recent callers behind it; `OvershootIsBounded`: failures exceed the limit by the sign-ins under way at most |
| startup | two instances, two keys, three stops, one lost volume | `ServesWithTheKey` (as long as the volume is not lost); `NoLegacyRows` |
| prices, catalogue | two administrators; four catalogues, three starts, one upload | `DisplacedStaysClosed`: two open prices of a model only by requests that overlapped; `CatalogueIsCurrent`; `EstimatesCanBeAudited`: the source and version stored with an estimate name a price that is still in the table, and only prices at its rate |

**Bounds.** Every property of the delivery, member and enrollment runs relates at most two snapshots of one session with
one row, one request of each of two uploaders, or two handlers. Three revisions
allow an upload in flight, a queued successor and a draft; two faults allow a
lost answer and a lost retry; `Observed = {0, 3}` lets a scan jump over the
counter and two scans observe the same time. Symmetry is over sessions and
requests (uploads), over accounts other than the founder, requests, invitations
and redemptions (members and grants), and over the client's processes, the
two sources of a session and the scanners of one; runs with liveness use none. The
proofs remove the bounds for the properties they cover. In the parts, two actors
of a kind are enough for a race over one row, file or key, and the third value
(a key, an account, a release, a version) is the one that does not fit a table
of two or lies beyond the next; crashes, faults and restarts are bounded by two
or three so that a failure can hit the recovery from the previous one.

**Fairness** (`Upload!Fairness`). `watch` tries again every interval and its
errors other than 426 end only the cycle, hence weak fairness of its upload;
handlers of the server and of the client run to their end unless a fault stops
them. `Relaunch`: someone starts an upgraded client again, which is an
assumption about people. Nothing is assumed about scans, other processes or
faults. Faults and restarts are bounded, so "eventually" means: once they stop.

`ClassificationFairness`: the steps of a running scan, and that each request of it
is answered or fails, which the HTTP client's timeout guarantees.
`ProviderFairness`: a caller goes through its texts, and each request is answered,
rejected or fails, by the timeout of the provider's client (30 seconds).
`ProvisioningFairness`: `watch` refreshes a profile that came from the server every
cycle that is due, and what it began goes on. Which answer comes is never
assumed.

## 4. Findings

1. Repricing at each start uses `revision + 1` of the stored row. After two
   starts a new client snapshot with the next revision is hidden
   (`architecture.md`: "ClickHouse replacement semantics keep the latest
   accepted revision"). It needs a rescan that does not raise the revision by
   more, such as one forced by a changed configuration: a new message raises it
   by its time.
2. Validation after pricing answers 400 for the whole batch and names no keys,
   so the client repeats the batch for ever (comment in `upload`: "a single
   malformed row cannot starve later uploads").
3. `add_member` and `accept_invitation` update the role of an existing member
   without `ensure_another_admin` ("The final active admin cannot be demoted or
   removed", `AUTHORIZATION.md`).
4. `remove_member` revokes the installations it sees; one created by a
   redemption that commits after that statement, or by the exchange of a device
   authorization approved before the removal, remains ("removal revokes
   installations", `FUNCTIONAL_VERIFICATION.md`).

5. A scan builds a session's snapshot from the sources it has read again, and
   skips those whose checkpoint is current. When a session has several sources
   (OpenCode, Claude), the snapshot after one of them grew covers that one only,
   has a higher revision, and replaces the row, and in the end the server's,
   which covered the others (test `analytics.rs:399`: "The same session,
   resumed: higher revision, more tokens."). No crash and no second process is
   needed. `metrune scan --force` reads everything again.

Other places where the code and a document disagree, met while modelling. The
models contain the behaviour; the properties that are checked are stated so that
they say what the code does guarantee.

* `delete_scoped` (`credentials.rs:139`) ignores a keyring that does not answer;
  the secret is found again when it returns. `classifier-provisioning.md:93`:
  "`metrune classifier logout` removes the local profile and any local credential".
  `set_scoped` (`credentials.rs:115`) has the same gap: it writes the new secret to
  the file while the keyring is away, and `get_scoped` prefers the replaced one
  once the keyring is back. `NeverStale` names both as an exception.
* `classification_cache_key` (`metrune-cli/src/app.rs:1614`) digests intent, signals
  and previous category with no separators, so an intent that ends in a category
  identifier can get the answer given to the intent without it, asked after a
  turn of that category. No document claims otherwise; `CachedWasAnswered` says
  how far the confusion goes.
* `write_fallback` (`credentials.rs:158`) truncates and rewrites `credentials.json` in
  place; a process that stops in between loses every secret in it, against the
  intent of the test `legacy_installation_tokens_migrate_out_of_config_without_losing_access`.
  `TokenIsKept` excludes the torn file.
* `is_limited` (`limits.rs:30`) looks at the failures and not at the age of the
  window, and while it says yes nothing opens a new one.
  `SECURITY_AND_LOGGING.md:19`: "throttled per email address after repeated failures
  within a one-minute window. A correct password always succeeds and clears the
  window".
* The reset's UPDATE of sessions (`identity.rs:777`) sees those committed by then; a
  sign-in with the old password can insert its own afterwards. `identity.md:14`:
  "Completing a reset revokes all existing browser sessions." `OlderSessionsOverlapped`
  is the guarantee that remains.
* `accept_invitation` (`identity.rs:451`) looks for accounts without a lock; two
  invitations of different organizations accepted at once create two accounts,
  and every later sign-in gets `account_conflict`. `identity.md:9`: "the account is
  linked by verified email on first provider sign-in".
* The first account and its membership (`app.rs:1018`) are two statements; a crash
  in between leaves a deployment without an administrator, and two replicas on an
  empty database create one each. `identity.md:5`: "The deployment bootstraps exactly
  one initial administrator."
* `load_or_create` (`app.rs:149`) writes a new key before the check for existing
  credentials; the start after the refused one finds the file and serves. The
  message at `app.rs:452`: "the vault master key is missing but encrypted credentials
  already exist; restore the key before starting Metrune". `ServesWithTheKey` excludes
  a lost volume.
* `reprice_unknown_history` (`app.rs:4566`) prices all slices of a snapshot with an
  unknown one anew, known costs included. `web/components/pricing.tsx:132`:
  "Historical totals are not silently repriced."
* `claim_update_check` (`state.rs:311`) takes a stored time ahead of the claimant's
  clock for due; a process that read its clock before another's claim passes too.
  Comment at `metrune-cli/src/app.rs:1906`: "concurrent watch processes must not both
  pass a check-then-record race".
* On Windows the binary is moved aside before the new one is placed
  (`metrune-cli/src/app.rs:2413`). `CLIENT_DISTRIBUTION.md:177`: "replaces the running
  executable atomically". `NothingIsLost` has the exception.

## 5. Proofs

TLAPS checks the theorems of eight modules, for all constants that satisfy the
assumptions. Every invariant that a passing run checks is the subject of a
theorem, every `...TypeOK` too, and so are `SettledGrantsStay` and the refinement
of `Delivery`. The proofs have one form: an inductive invariant (`...Inv`), one
lemma per action that preserves it, and a theorem that follows. What the
invariants say beyond the property, and why it is needed:

**Uploads** (`UploadProofs`: `TypeCorrect`, `AckedSafe`, `CompletedSafe`,
`InFlightSafe`, `DeliveryImplemented`, `NewestIsVisibleSafe`). `AckedIsStored` is not
inductive. An answer says something about a *batch*, and marking the *row* is
right only because the row's revision can be at most the uploaded one when it is
that very snapshot. The invariant `UploadInv` says so:

* `RevisionsAreFresh`: a draft's revision is above zero, at most the counter,
  and that of no other draft and not of its row, so a row that gets a new
  content gets a new revision;
* `InFlightIsNotNewer`: a snapshot in flight is the row itself, or the row is
  newer, or the row was pruned and every draft is newer;
* `UploadersOwnRequests`: whoever waits has a request of their own with their
  batch, so no answer is taken for another's;
* `ClaimsAreStored`: what a request in phase `stored`, `processed` or
  `duplicate` claims is true of ClickHouse.

The refinement rests on the same invariant: queueing is an offer because a
draft's revision is fresh, and an acknowledgement settles because `AckedIsStored`
holds after it. `NewestIsVisible` needs a bound: a snapshot hides a newer one only
by the revisions that restarts in between added (`HiddenByRestarts`, proved for
any number of them), so with one restart at most none is hidden. Finding 1 is
the case of two.

**Members and grants** (`MembershipProofs`: `AdminSafe`; `EnrollmentProofs`:
`OneInstallationSafe`, `SettledGrantsSafe`, `EnrollmentImplementsMembership`).
`LocksKeepAnAdmin`: while a demotion or removal holds its locks, one of the rows
it locked is an administrator other than its target, and no row is locked twice.
`AdminSafe` has the hypothesis that adds and invitations reach non-members only;
finding 3 shows that it cannot be dropped. `LocksHoldGrants`: a grant is locked by
one redemption at most, and is redeemable and without installation as long as it
is. `Enrollment` refines `Membership`: each of its steps is one of the members or
none, so that their theorems hold beside redemptions.

**Identity** (`IdentityProofs`). For reset links, `RowLocks` (what a transaction has
locked no other has, and it was neither used nor revoked) and `PasswordLinks` (a
link that set a password is used) give `LinkSetsOnce`; `SweptSessions` (a session
that is not late has the present password, or a reset that has swept will close
it) gives `OlderSessionsOverlapped`; `SessionsOfTheMode` gives `SessionsEndWithMode`.
`OneWriter` and `MemoryIsPast` bound the passwords by the links. For sign-ins,
`AttemptsAreTaken` (a callback under way has an attempt of its own, which is
closed) gives `OneSessionPerAttempt`; `AccountsAreHeld` and `SubjectsAreUnique` (a
new account is written by one transaction, an existing one is locked, and a
subject is in one row, committed or not) give `SubjectIsStable`.

**Client** (`ClientProofs`). `TokenInFile`: as long as the keyring has no token, it is
in the file for everybody who relies on it and in every copy of the file that
will be written back; with `TokenMoves` this gives `TokenIsKept`. `WorksAlone` and
`HoldsAllowed` give `NeverStale`, for a keyring that comes and goes at any time: what
it holds is an allowed secret, or the key is `behind`.
`CreditForLate`: every delayed poll may raise the server's interval once more, and
has raised the client's already or will when it stops waiting, which gives
`ClientKeepsPace` for any number of faults; `WithoutFaults` and `PollsInTime` give
`GivesUpOnlyLate`. `KnowsTheServer` gives `RefusedIsTold`. `ClientUpdateInv`: who replaces
the binary has a complete release, that of the manifest, and the file it moves is
there.

**Server** (`ServerProofs`). `OneKey`: until the first key is written one instance
writes it and nothing is sealed, and from then on everybody has it;
`LegacyIsListed`: what is left in the legacy format is in the list of whoever will
serve. `LimitsInv`: failures and sign-ins under way together stay within the bound;
`HitsWereAccepted`: each hit of a window is a request that was let through within
it, so a refusal has a spent budget behind it. For prices, `KnowsEarlier`, `DisplacesAll`
and `WillBeAlone` (a request that will commit closes every row like its own, and
no other will commit one like it) give `DisplacedStaysClosed`; with `KeysAreUnique` and
`ClosesOwn` they also show that the unique index over current prices is never
violated. `CatalogueInv`: what a start has inserted stays in force while the rest
is inserted. `EstimatesCanBeAudited` rests on `AuditInv`: an organization's price has a version of
its own; a catalogue's price that an import can close is the first entry of that
catalogue for its name and authority, so that importing the version again sets
the same rate (`FirstIsOne`), and the others are never closed; hence name,
authority and version name one rate (`OnePrice`), and rows are closed but never
deleted (`RowsStay`).

**Classifier** (`ClassifierProofs`). `VersionsInOrder`, `AnswerOfRow` and `StoredIsHeld`: an
answer has version and secret of one row, and between its two writes a client
has the secret of the profile it is going to save. `HeldAsProfiled` is stated for
one process that does not stop in between; the proof attempt without the first
condition showed that the process that stored first can save last. `GoodCall`
says for each text of a call whether it was answered, and counts the answers;
`Learned`: requests that will still be refused and refusals so far are at most one
per caller; `BatchesAreAccepted` is proved in addition: the server never refuses a
batch the client has cut. `CacheOfAnswers`: what is cached under a key was
answered to a turn with that key, and each result of a scan came from a rule,
the cache, an answer or an earlier turn; `KeysRunTogether` shows that the intents
of turns with one key are equal or `Alike`.

**Scan and usage** (`ScanProofs`). A checkpoint promises no more than a scan has in
hand, `queue_snapshot` was given, or an interrupted scan had read (`Covered`), because
a fingerprint is never newer than what was parsed after it (`Holds`).
`CheckpointIsQueuedSafe` is for any number of scanners and of sources to a session.
That the row keeps what it was given is another matter, and false (finding 5).
`ReportsWhatWasUsed`: what `parse`
remembers is what the agent last wrote, or the agent has started again since.
`SnapshotReconciles` is true of any messages and needs no more than their type: the steps of a turn have the models and tokens of its
messages (`ActivityAgrees`), those of several turns add up (`ConcatAgrees`), and every
message is of one turn.

**Assumptions.** Constants are typed, and bounds are natural numbers. Beyond that:
markers such as `NoSubject`, `NoId`, `NoGrant`, `NoneSelected` and `Missing` are not
values they stand beside; `Attempts`, `Users`, `Identities`, `Links`, `Names`, `Rates` and `Models` are not
empty; `SignIns`, `Links`, `Admins` and `Callers` are finite, which the theorems need
where they count; the client waits longer than an undelayed answer takes; the
texts fit a batch; a rule answers with a category; a text is a sequence of words
and has no signal's bytes in it. TLC evaluates all of them.

**How sums are proved.** A recursive definition over data is out of the prover's
reach by induction, because the library's induction theorems take an operator.
The proofs unfold a fold to the recursive function it names, show that the
function exists (`SummingExists`, `FoldingExists`), and count up from
zero by least counterexample (`Climb`).

**Only model-checked**: `EventuallyAcked`, `ClassificationEnds`, `CallsEnd` and
`EventuallyCurrent`. They rest on fairness and `ENABLED`, which the prover does not
support. The five runs that expect a violation have nothing to prove.

## 6. Plan

1. Done: the delivery pipeline (`Outbox`, `Ingest`, `Upload`, `Delivery`) with
   proofs, `Scan`, `Membership` with a proof, `Enrollment`; the client's, the
   classifier's and the server's parts as in section 2.
2. Done: proofs of every safety property of the runs. Left: the refinement of a
   reset and of a sign-in to one atomic step, and the lemma `LeastElement` of
   `ScanProofs`, `ClassifierProofs` and `ServerProofs` in a module of its own.
3. Left to model: `Scan` as an implementation of the drafts of `Upload`; the session schema lock of `state.rs`; the client's price
   book (`pricing.rs`); shared enrollment tokens, teams and the settings handlers;
   the permits of managed classification.

## 7. Not modelled

Analytics queries (SQL without state of its own), the mailer and the dashboard
(I/O and presentation), the other source adapters (field extraction from
third-party formats), cryptography (digests and signatures are taken as
unforgeable, encryption as opening with its key only), parsing of configuration,
URLs and cookies, and the install scripts.
